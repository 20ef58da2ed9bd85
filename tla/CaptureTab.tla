----------------------------- MODULE CaptureTab -----------------------------
(***************************************************************************)
(* The capture dialog of one browser tab.  Rows are submitted in the       *)
(* background and their jobs polled on a timer that does not wait for the  *)
(* answer to the last poll; skeletons of pending captures survive a reload *)
(* of the page, timers and batches do not.  The service is what it         *)
(* promises (CaptureService): a job it took completes or fails.            *)
(***************************************************************************)
EXTENDS Naturals, FiniteSets

CONSTANTS
    Row,        \* rows of the dialog
    FileRow,    \* rows whose file is staged at the server
    MaxPolls,   \* bound: polls of one job under way
    MaxDrops    \* bound: lost answers and reloads of the page

ASSUME CaptureTabAssumption == FileRow \subseteq Row /\ IsFiniteSet(Row) /\ MaxPolls \in Nat /\ MaxDrops \in Nat

VARIABLES
    job,        \* [Row -> the job at the server]
    staged,     \* staged files at the server
    drops,
    submission, \* [Row -> where the row is]
    skeletons,  \* pendingCaptures: skeletons, in sessionStorage
    polled,     \* pollIntervals: jobs with a timer
    polls,      \* [Row -> [1..MaxPolls -> poll under way]]
    batches,    \* submissions of several rows that are not summed up yet
    summedUp,   \* ghost: the rows of batches that were summed up
    reported,   \* ghost: rows the user was told about, in a toast or a batch
    overlapped  \* ghost: jobs of which two polls were under way at a time

tabVars == <<job, staged, drops, submission, skeletons, polled, polls, batches, summedUp, reported, overlapped>>

NoPolls == [k \in 1..MaxPolls |-> "none"]
JobEnd == {"completed", "failed"}

TabInit ==
    /\ job = [r \in Row |-> "none"] /\ staged = FileRow /\ drops = 0
    /\ submission = [r \in Row |-> "draft"] /\ skeletons = {} /\ polled = {}
    /\ polls = [r \in Row |-> NoPolls] /\ batches = {} /\ summedUp = {}
    /\ reported = {} /\ overlapped = {}

RowGoes(r, s) == submission' = [submission EXCEPT ![r] = s]
PollIs(r, k, s) == polls' = [polls EXCEPT ![r][k] = s]
Drop == drops < MaxDrops /\ drops' = drops + 1

(* settleBatch: the batch of a row counts one more outcome, and is summed up *)
(* with the last.                                                            *)
Settle(r) ==
    LET mine == {b \in batches : r \in b.rows}
        one == {[b EXCEPT !.settled = @ + 1] : b \in mine}
        full == {b \in one : b.settled = Cardinality(b.rows)}
    IN  /\ batches' = (batches \ mine) \cup (one \ full)
        /\ summedUp' = summedUp \cup UNION {b.rows : b \in full}
        /\ reported' = reported \cup {r}

----------------------------------------------------------------------------
(* handleArchive, submitBgJob. *)
Archive(rows) ==
    /\ rows # {} /\ \A r \in rows : submission[r] = "draft"
    /\ submission' = [r \in Row |-> IF r \in rows THEN "sending" ELSE submission[r]]
    /\ batches' = batches \cup {b \in {[rows |-> rows, settled |-> 0]} : Cardinality(rows) > 1}
    /\ UNCHANGED <<job, staged, drops, skeletons, polled, polls, summedUp, reported, overlapped>>

(* The server takes a submission or refuses it; the answer may be lost. *)
Take(r) ==
    /\ submission[r] \in {"sending", "unheard"} /\ job[r] = "none" /\ job' = [job EXCEPT ![r] = "running"]
    /\ RowGoes(r, IF submission[r] = "sending" THEN "taken" ELSE "gone")
    /\ UNCHANGED <<staged, drops, skeletons, polled, polls, batches, summedUp, reported, overlapped>>
RefuseRow(r) ==
    /\ submission[r] = "sending" /\ RowGoes(r, "refused")
    /\ UNCHANGED <<job, staged, drops, skeletons, polled, polls, batches, summedUp, reported, overlapped>>
LoseAnswer(r) ==
    /\ submission[r] \in {"sending", "taken"} /\ Drop /\ RowGoes(r, "lost")
    /\ UNCHANGED <<job, staged, skeletons, polled, polls, batches, summedUp, reported, overlapped>>

JobStarted(r) ==
    /\ submission[r] = "taken" /\ RowGoes(r, "tracked")
    /\ skeletons' = skeletons \cup {r} /\ polled' = polled \cup {r}
    /\ UNCHANGED <<job, staged, drops, polls, batches, summedUp, reported, overlapped>>

(* A slip: the file is deleted whatever the failure was. *)
DeletesAlways(s) == s \in {"refused", "lost"}
DeletesFile(s) == s = "refused"
SubmissionFailed(r) ==
    /\ submission[r] \in {"refused", "lost"}
    /\ staged' = (IF DeletesFile(submission[r]) THEN staged \ {r} ELSE staged)
    /\ RowGoes(r, IF submission[r] = "lost" THEN "unheard" ELSE "gone") /\ Settle(r)
    /\ UNCHANGED <<job, drops, skeletons, polled, polls, overlapped>>

(* The job ends; a file is staged until it is archived. *)
EndJob(r) ==
    /\ job[r] = "running"
    /\ \E s \in JobEnd :
        /\ job' = [job EXCEPT ![r] = s]
        /\ staged' = (IF s = "completed" THEN staged \ {r} ELSE staged)
    /\ UNCHANGED <<drops, submission, skeletons, polled, polls, batches, summedUp, reported, overlapped>>

----------------------------------------------------------------------------
(* startPolling: the timer asks, the answer is handled when it comes. *)
Tick(r) ==
    /\ r \in polled
    /\ \E k \in 1..MaxPolls :
        polls[r][k] = "none" /\ (\A l \in 1..(k - 1) : polls[r][l] # "none") /\ PollIs(r, k, "asked")
    /\ overlapped' = overlapped \cup {q \in {r} : polls[r] # NoPolls}
    /\ UNCHANGED <<job, staged, drops, submission, skeletons, polled, batches, summedUp, reported>>
AnswerPoll(r, k) ==
    /\ polls[r][k] = "asked"
    /\ \/ PollIs(r, k, job[r]) /\ UNCHANGED drops
       \/ PollIs(r, k, "error") /\ Drop
    /\ UNCHANGED <<job, staged, submission, skeletons, polled, batches, summedUp, reported, overlapped>>

StillRunning(r, k) ==
    /\ polls[r][k] = "running" /\ PollIs(r, k, "none")
    /\ UNCHANGED <<job, staged, drops, submission, skeletons, polled, batches, summedUp, reported, overlapped>>
HeardOfFailure(r, k) ==
    /\ polls[r][k] \in {"failed", "error"} /\ PollIs(r, k, "none")
    /\ polled' = polled \ {r} /\ skeletons' = skeletons \ {r} /\ Settle(r)
    /\ UNCHANGED <<job, staged, drops, submission, overlapped>>
(* A capture is not settled before the lists are loaded again. *)
HeardOfSuccess(r, k) ==
    /\ polls[r][k] = "completed" /\ PollIs(r, k, "refreshing") /\ polled' = polled \ {r}
    /\ UNCHANGED <<job, staged, drops, submission, skeletons, batches, summedUp, reported, overlapped>>
Refreshed(r, k) ==
    /\ polls[r][k] = "refreshing" /\ PollIs(r, k, "none") /\ skeletons' = skeletons \ {r} /\ Settle(r)
    /\ UNCHANGED <<job, staged, drops, submission, polled, overlapped>>

(* A reload of the page; the dialog polls the jobs of the skeletons again. *)
Reload ==
    /\ Drop /\ polled' = skeletons /\ polls' = [r \in Row |-> NoPolls] /\ batches' = {}
    /\ submission' = [r \in Row |->
            CASE submission[r] = "sending" -> "unheard"
              [] submission[r] \in {"taken", "refused"} -> "gone"
              [] submission[r] = "lost" -> "unheard"
              [] OTHER -> submission[r]]
    /\ UNCHANGED <<job, staged, skeletons, summedUp, reported, overlapped>>

TabNext ==
    \/ Reload \/ \E rows \in SUBSET Row : Archive(rows)
    \/ \E r \in Row :
        \/ Take(r) \/ RefuseRow(r) \/ LoseAnswer(r) \/ JobStarted(r) \/ SubmissionFailed(r)
        \/ EndJob(r) \/ Tick(r)
        \/ \E k \in 1..MaxPolls :
            AnswerPoll(r, k) \/ StillRunning(r, k) \/ HeardOfFailure(r, k) \/ HeardOfSuccess(r, k) \/ Refreshed(r, k)
TabSpec == TabInit /\ [][TabNext]_tabVars

----------------------------------------------------------------------------
(* Properties. *)

TabTypeOK ==
    /\ job \in [Row -> {"none", "running"} \cup JobEnd] /\ staged \subseteq Row /\ drops \in 0..MaxDrops
    /\ submission \in [Row -> {"draft", "sending", "taken", "refused", "lost", "unheard", "tracked", "gone"}]
    /\ skeletons \subseteq Row /\ polled \subseteq Row /\ summedUp \subseteq Row /\ reported \subseteq Row /\ overlapped \subseteq Row
    /\ polls \in [Row -> [1..MaxPolls -> {"none", "asked", "running", "error", "refreshing"} \cup JobEnd]]
    /\ \A b \in batches : b.rows \subseteq Row /\ b.settled \in 0..(Cardinality(b.rows) - 1)

(* No skeleton outlives its poll: a capture shown as pending has a timer, or *)
(* its success is being shown; and what a tab tracks and no longer shows was *)
(* reported (startPolling, the reconnection when the dialog is mounted).     *)
SkeletonsArePolled ==
    /\ \A r \in skeletons : r \in polled \/ \E k \in 1..MaxPolls : polls[r][k] = "refreshing"
    /\ \A r \in Row : submission[r] = "tracked" => r \in skeletons \cup reported

(* The tab never takes away the file of a job that runs, though it deletes   *)
(* the files of submissions that fail and does not always hear which do      *)
(* (submitBgJob).                                                            *)
RunningJobsHaveFiles ==
    \A r \in FileRow : job[r] = "running" \/ submission[r] = "sending" => r \in staged

(* A batch is summed up when all its jobs have settled, as its comment says, *)
(* unless two polls of one of them were under way at a time: both hear of    *)
(* its end, and it counts twice (settleBatch).                               *)
BatchesCountOnce == \A r \in summedUp \ reported : overlapped # {}

(* The three together. *)
TabKeepsTrack == SkeletonsArePolled /\ RunningJobsHaveFiles /\ BatchesCountOnce
=============================================================================
