---------------------------- MODULE CaptureRuns ----------------------------
(***************************************************************************)
(* The life of one capture request in archivr: the capture_jobs row that   *)
(* the client polls, the background task that executes it, and the         *)
(* archive_runs / archive_run_items rows the task writes as it goes.       *)
(*                                                                         *)
(* Every SQL statement outside a transaction commits on its own, so every  *)
(* statement is a step here; a crash may fall between any two of them, and *)
(* a statement may fail (disk full, database busy).  What the code does    *)
(* with the failure, `?`, `let _ =` or `.ok()`, decides where the task     *)
(* goes next.  The server's startup recovery is modelled statement by      *)
(* statement too, against captures started by the command line, which      *)
(* share the archive database but have no job row.                         *)
(***************************************************************************)
EXTENDS Integers, FiniteSets

CONSTANTS
    Capture,    \* capture requests, each with at most one run
    Cli,        \* those executed by `archivr archive` rather than the server
    Child,      \* the members a playlist may list
    Root,       \* the request's own run item (the container of a playlist)
    KindOf,     \* [Capture -> Kind]: which branch of perform_capture it takes
    MaxFaults,  \* bound: failing statements or file operations
    MaxCrashes  \* bound: server crashes and killed command lines

Item == Child \cup {Root}
Kind == {"media", "text", "tweet", "playlist", "other"}
JobStatus == {"absent", "pending", "running", "completed", "failed"}
RunStatus == {"absent", "in_progress", "completed", "failed"}

ASSUME CaptureRunsAssumption ==
    /\ Cli \subseteq Capture
    /\ IsFiniteSet(Child)
    /\ Root \notin Child
    /\ KindOf \in [Capture -> Kind]
    /\ MaxFaults \in Nat
    /\ MaxCrashes \in Nat

VARIABLES
    job,      \* [Capture -> JobStatus]: capture_jobs.status
    linked,   \* [Capture -> BOOLEAN]: capture_jobs.run_uid is set
    task,     \* [Capture -> TaskState]: where the executing thread stands
    run,      \* [Capture -> RunStatus]: archive_runs.status
    item,     \* [Capture -> [Item -> RunStatus]]: archive_run_items.status
    tally,    \* [Capture -> Tally]: the three counters stored in the run row
    current,  \* [Capture -> Item]: the item the thread is working on
    todo,     \* [Capture -> SUBSET Child]: playlist members still to attempt
    boot,     \* how far the server process is: down, recovering or up
    faults, crashes

rows == <<job, linked, run, item, tally>>
local == <<task, current, todo>>
vars == <<rows, local, boot, faults, crashes>>

TaskState ==
    {"idle", "queued", "open", "link", "item", "fetch", "record", "tx",
     "root_marked", "container_marked", "children", "child", "child_marked",
     "child_fail", "child_failed", "finish", "close", "return",
     "fail_item", "item_failed", "fail_run", "fail_close", "err", "over"}

Tally == [discovered : Nat, completed : Nat, failed : Nat]

With(c, s) == {i \in Item : item[c][i] = s}
Discovered(c) == {i \in Item : item[c][i] # "absent"}
SavedChildren(c) == With(c, "completed") \ {Root}

(* The counts refresh_run_counters stores, taken from the item rows. *)
Recount(c) == [discovered |-> Cardinality(Discovered(c)),
               completed |-> Cardinality(With(c, "completed")),
               failed |-> Cardinality(With(c, "failed"))]

Works == UNCHANGED faults
Fails == faults < MaxFaults /\ faults' = faults + 1

At(c, s) == task[c] = s
Go(c, s) == task' = [task EXCEPT ![c] = s]
Mark(c, i, s) == item' = [item EXCEPT ![c][i] = s]

Init ==
    /\ job = [c \in Capture |-> "absent"]
    /\ linked = [c \in Capture |-> FALSE]
    /\ task = [c \in Capture |-> "idle"]
    /\ run = [c \in Capture |-> "absent"]
    /\ item = [c \in Capture |-> [i \in Item |-> "absent"]]
    /\ tally = [c \in Capture |-> [discovered |-> 0, completed |-> 0, failed |-> 0]]
    /\ current = [c \in Capture |-> Root]
    /\ todo = [c \in Capture |-> {}]
    /\ boot = "down" /\ faults = 0 /\ crashes = 0

----------------------------------------------------------------------------
(* The request and the start of its task. *)

(* Both handlers insert the pending row, then hand the work to a thread: *)
(* capture_text_handler what was pasted, capture_handler any locator.    *)
Queue(c) ==
    /\ c \notin Cli /\ At(c, "idle") /\ boot = "up"
    /\ job' = [job EXCEPT ![c] = "pending"]
    /\ Go(c, "queued")
    /\ UNCHANGED <<linked, run, item, tally, current, todo, boot, faults, crashes>>

Submit(c) == KindOf[c] # "text" /\ Queue(c)
SubmitText(c) == KindOf[c] = "text" /\ Queue(c)

(* `archivr archive` calls perform_capture directly, with no job row. *)
StartCli(c) ==
    /\ c \in Cli /\ At(c, "idle")
    /\ Go(c, "open")
    /\ UNCHANGED <<rows, current, todo, boot, faults, crashes>>

(* The spawned closure opens the database and marks the job running.  If the *)
(* open fails it returns at once; if the update fails it carries on.         *)
StartTask(c) ==
    /\ At(c, "queued")
    /\ \/ Works /\ Go(c, "open") /\ job' = [job EXCEPT ![c] = "running"]
       \/ Fails /\ Go(c, "open") /\ UNCHANGED job
       \/ Fails /\ Go(c, "over") /\ UNCHANGED job
    /\ UNCHANGED <<linked, run, item, tally, current, todo, boot, crashes>>

(* perform_capture creates the run before anything can fail remotely; only a *)
(* text is validated before (a title too long for it passes the handler).    *)
CreateRun(c) ==
    /\ At(c, "open")
    /\ \/ Works /\ Go(c, "link") /\ run' = [run EXCEPT ![c] = "in_progress"]
       \/ Fails /\ Go(c, "err") /\ UNCHANGED run
       \/ Works /\ KindOf[c] = "text" /\ Go(c, "err") /\ UNCHANGED run
    /\ UNCHANGED <<job, linked, item, tally, current, todo, boot, crashes>>

(* link_job_to_run: best effort, and nothing to link for the command line. *)
LinkRun(c) ==
    /\ At(c, "link") /\ Go(c, "item")
    /\ \/ Works /\ linked' = [linked EXCEPT ![c] = c \notin Cli]
       \/ Fails /\ UNCHANGED linked
    /\ UNCHANGED <<job, run, item, tally, current, todo, boot, crashes>>

CreateItem(c) ==
    /\ At(c, "item")
    /\ \/ Works /\ Go(c, "fetch") /\ Mark(c, Root, "in_progress")
       \/ Fails /\ Go(c, "err") /\ UNCHANGED item
    /\ UNCHANGED <<job, linked, run, tally, current, todo, boot, crashes>>

(* What each branch of perform_capture does to get its content.  A remote    *)
(* failure goes through fail_run; a failure to stat, hash or move the staged *)
(* file leaves perform_capture through `?`.                                  *)
Quiet == UNCHANGED <<rows, current, boot, crashes>>

Reject(c) ==
    /\ At(c, "fetch") /\ KindOf[c] = "other" /\ Go(c, "fail_item")
    /\ UNCHANGED <<todo, faults>> /\ Quiet

(* "media" is a direct download, a web page, yt-dlp or a local file. *)
FetchMedia(c) ==
    /\ At(c, "fetch") /\ KindOf[c] = "media"
    /\ \/ Works /\ Go(c, "record")
       \/ Works /\ Go(c, "fail_item")
       \/ Fails /\ Go(c, "err")
    /\ UNCHANGED todo /\ Quiet

(* Text has nothing remote, and no way to fail but `?`. *)
SaveText(c) ==
    /\ At(c, "fetch") /\ KindOf[c] = "text"
    /\ \/ Works /\ Go(c, "record")
       \/ Fails /\ Go(c, "err")
    /\ UNCHANGED todo /\ Quiet

ScrapeTweet(c) ==
    /\ At(c, "fetch") /\ KindOf[c] = "tweet"
    /\ Go(c, "tx") \/ Go(c, "fail_item")
    /\ UNCHANGED <<todo, faults>> /\ Quiet

(* The flat listing: any subset of Child is still to attempt once the        *)
(* members a sync has archived already and those the user removed are        *)
(* skipped.                                                                  *)
ListPlaylist(c) ==
    /\ At(c, "fetch") /\ KindOf[c] = "playlist"
    /\ \/ Go(c, "fail_item") /\ UNCHANGED todo
       \/ Go(c, "record") /\ \E S \in SUBSET Child : todo' = [todo EXCEPT ![c] = S]
    /\ UNCHANGED faults /\ Quiet

Fetch(c) == Reject(c) \/ FetchMedia(c) \/ SaveText(c) \/ ScrapeTweet(c) \/ ListPlaylist(c)

----------------------------------------------------------------------------
(* Recording what was fetched. *)

(* The entry's rows are inserted, the item is marked completed last. *)
RecordMedia(c) ==
    /\ At(c, "record") /\ KindOf[c] \in {"media", "text"}
    /\ \/ Works /\ Go(c, "root_marked") /\ Mark(c, Root, "completed")
       \/ Fails /\ Go(c, "err") /\ UNCHANGED item
    /\ UNCHANGED <<job, linked, run, tally, current, todo, boot, crashes>>

(* A fresh container, or the one a sync finds; every error is a fail_run. *)
RecordContainer(c) ==
    /\ At(c, "record") /\ KindOf[c] = "playlist"
    /\ \/ Works /\ Go(c, "container_marked") /\ Mark(c, Root, "completed")
       \/ Fails /\ Go(c, "fail_item") /\ UNCHANGED item
    /\ UNCHANGED <<job, linked, run, tally, current, todo, boot, crashes>>

(* Slips: a status of its own for a partial run; a run that always completes. *)
ClosingPartial(c) == IF tally[c].failed > 0 THEN "partial" ELSE "completed"
ClosingBlindly(c) == "completed"

(* finish_archive_run: the run failed exactly if its stored counter says so. *)
ClosingStatus(c) == IF tally[c].failed > 0 THEN "failed" ELSE "completed"

(* A tweet is recorded, counted and finished in one transaction. *)
RecordTweet(c) ==
    /\ At(c, "tx")
    /\ \/ /\ Works /\ Go(c, "return")
          /\ Mark(c, Root, "completed")
          /\ tally' = [tally EXCEPT ![c] = Recount(c)']
          /\ run' = [run EXCEPT ![c] = ClosingStatus(c)']
       \/ Fails /\ Go(c, "err") /\ UNCHANGED <<item, tally, run>>
    /\ UNCHANGED <<job, linked, current, todo, boot, crashes>>

(* refresh_run_counters is a statement of its own, behind every change of an *)
(* item and again when the run ends.  Onward is where the task is after it,  *)
(* Backout where the caller goes when it fails.                              *)
Onward == [root_marked |-> "finish", container_marked |-> "children",
           child_marked |-> "children", child_failed |-> "children",
           finish |-> "close", item_failed |-> "fail_run", fail_run |-> "fail_close"]
Backout == [root_marked |-> "err", container_marked |-> "fail_item",
            child_marked |-> "child_fail", child_failed |-> "children",
            finish |-> "err", item_failed |-> "fail_run", fail_run |-> "err"]

RefreshCounters(c) ==
    /\ task[c] \in DOMAIN Onward
    /\ \/ /\ Works /\ Go(c, Onward[task[c]])
          /\ tally' = [tally EXCEPT ![c] = Recount(c)]
       \/ Fails /\ Go(c, Backout[task[c]]) /\ UNCHANGED tally
    /\ UNCHANGED <<job, linked, run, item, current, todo, boot, crashes>>

(* The playlist loop: the next member gets a run item, or is passed over     *)
(* with a warning when the insert fails; after the last one the run ends.    *)
NextChild(c) ==
    /\ At(c, "children")
    /\ \/ /\ todo[c] = {} /\ Works /\ Go(c, "finish")
          /\ UNCHANGED <<item, current, todo>>
       \/ \E k \in todo[c] :
            /\ todo' = [todo EXCEPT ![c] = @ \ {k}]
            /\ \/ /\ Works /\ Go(c, "child") /\ Mark(c, k, "in_progress")
                  /\ current' = [current EXCEPT ![c] = k]
               \/ Fails /\ UNCHANGED <<task, item, current>>
    /\ UNCHANGED <<job, linked, run, tally, boot, crashes>>

(* A member is downloaded, moved and recorded, or fails on its own. *)
SaveChild(c) ==
    /\ At(c, "child")
    /\ \/ Go(c, "child_marked") /\ Mark(c, current[c], "completed")
       \/ Go(c, "child_fail") /\ UNCHANGED item
    /\ UNCHANGED <<job, linked, run, tally, current, todo, boot, faults, crashes>>

(* `let _ = fail_archive_run_item`: if this fails the loop just goes on. *)
FailChild(c) ==
    /\ At(c, "child_fail")
    /\ \/ Works /\ Go(c, "child_failed") /\ Mark(c, current[c], "failed")
       \/ Fails /\ Go(c, "children") /\ UNCHANGED item
    /\ UNCHANGED <<job, linked, run, tally, current, todo, boot, crashes>>

----------------------------------------------------------------------------
(* The ends of a run and of its task. *)

(* The second half of finish_archive_run, behind the refresh of "finish". *)
FinishRun(c) ==
    /\ At(c, "close")
    /\ \/ /\ Works /\ Go(c, "return")
          /\ run' = [run EXCEPT ![c] = ClosingStatus(c)]
       \/ Fails /\ Go(c, "err") /\ UNCHANGED run
    /\ UNCHANGED <<job, linked, item, tally, current, todo, boot, crashes>>

(* fail_run: fail the item, then the run, ignoring errors of either. *)
FailItem(c) ==
    /\ At(c, "fail_item")
    /\ \/ Works /\ Go(c, "item_failed") /\ Mark(c, Root, "failed")
       \/ Fails /\ Go(c, "fail_run") /\ UNCHANGED item
    /\ UNCHANGED <<job, linked, run, tally, current, todo, boot, crashes>>

FailRun(c) ==
    /\ At(c, "fail_close") /\ Go(c, "err")
    /\ \/ Works /\ run' = [run EXCEPT ![c] = "failed"]
       \/ Fails /\ UNCHANGED run
    /\ UNCHANGED <<job, linked, item, tally, current, todo, boot, crashes>>

(* A slip: to count the container of the playlist as saved. *)
VerdictWithContainer(c) ==
    IF run[c] = "failed" /\ With(c, "completed") = {} THEN "failed" ELSE "completed"

(* The status a job gets from the result of its run: a playlist run that     *)
(* failed is still a completed job if one member was saved.                  *)
Verdict(c) == IF run[c] = "failed" /\ SavedChildren(c) = {} THEN "failed" ELSE "completed"

(* The last step of the closure.  The status and the count of a playlist run *)
(* are read back with defaults for a failing read, and the final update is   *)
(* `.ok()`: if it fails the job stays as it is.                              *)
Report(c) ==
    /\ At(c, "return") /\ Go(c, "over")
    /\ \/ c \in Cli /\ Works /\ UNCHANGED <<job, linked>>
       \/ c \notin Cli /\ Fails /\ UNCHANGED <<job, linked>>
       \/ /\ c \notin Cli
          /\ linked' = [linked EXCEPT ![c] = TRUE]
          /\ \/ Works /\ job' = [job EXCEPT ![c] = Verdict(c)]
             \/ /\ Fails /\ KindOf[c] = "playlist" /\ run[c] = "failed"
                /\ \E v \in {"completed", "failed"} : job' = [job EXCEPT ![c] = v]
    /\ UNCHANGED <<run, item, tally, current, todo, boot, crashes>>

(* perform_capture returned Err: the job fails, without a run_uid. *)
ReportError(c) ==
    /\ At(c, "err") /\ Go(c, "over")
    /\ \/ c \in Cli /\ Works /\ UNCHANGED job
       \/ c \notin Cli /\ Fails /\ UNCHANGED job
       \/ c \notin Cli /\ Works /\ job' = [job EXCEPT ![c] = "failed"]
    /\ UNCHANGED <<linked, run, item, tally, current, todo, boot, crashes>>

----------------------------------------------------------------------------
(* Crashes and the recovery at startup. *)

(* The server dies with all its threads; so it may while it recovers. *)
Crash ==
    /\ boot # "down" /\ boot' = "down"
    /\ crashes < MaxCrashes /\ crashes' = crashes + 1
    /\ task' = [c \in Capture |-> IF c \in Cli \/ At(c, "idle") THEN task[c] ELSE "over"]
    /\ UNCHANGED <<rows, current, todo, faults>>

KillCli(c) ==
    /\ c \in Cli /\ task[c] \notin {"idle", "over"} /\ Go(c, "over")
    /\ crashes < MaxCrashes /\ crashes' = crashes + 1
    /\ UNCHANGED <<rows, current, todo, boot, faults>>

(* Slips in the WHERE clauses of the recovery. *)
StillPending(s) == s = "pending"
AnyJob(s) == s # "absent"

(* What the recovery takes for interrupted: items and runs, and jobs. *)
Stalled(s) == s = "in_progress"
Interrupted(s) == s = "running"

(* fail_stalled_capture_jobs, one statement at a time.  An error is printed  *)
(* and the server starts anyway.                                             *)
RecoverItems ==
    /\ boot = "down"
    /\ \/ /\ Works /\ boot' = "items_failed"
          /\ item' = [c \in Capture |-> [i \in Item |->
                IF Stalled(item[c][i]) THEN "failed" ELSE item[c][i]]]
       \/ Fails /\ boot' = "up" /\ UNCHANGED item
    /\ UNCHANGED <<job, linked, run, tally, local, crashes>>

RecoverRuns ==
    /\ boot = "items_failed"
    /\ \/ /\ Works /\ boot' = "runs_failed"
          /\ run' = [c \in Capture |-> IF Stalled(run[c]) THEN "failed" ELSE run[c]]
          /\ tally' = [c \in Capture |-> IF Stalled(run[c])
                THEN [tally[c] EXCEPT !.failed = Cardinality(With(c, "failed"))]
                ELSE tally[c]]
       \/ Fails /\ boot' = "up" /\ UNCHANGED <<run, tally>>
    /\ UNCHANGED <<job, linked, item, local, crashes>>

RecoverJobs ==
    /\ boot = "runs_failed" /\ boot' = "up"
    /\ \/ Works /\ job' = [c \in Capture |-> IF Interrupted(job[c]) THEN "failed" ELSE job[c]]
       \/ Fails /\ UNCHANGED job
    /\ UNCHANGED <<linked, run, item, tally, local, crashes>>

----------------------------------------------------------------------------
TaskStep(c) ==
    \/ StartTask(c) \/ CreateRun(c) \/ LinkRun(c) \/ CreateItem(c) \/ Fetch(c)
    \/ RecordMedia(c) \/ RecordContainer(c) \/ RecordTweet(c) \/ RefreshCounters(c)
    \/ NextChild(c) \/ SaveChild(c) \/ FailChild(c)
    \/ FinishRun(c) \/ FailItem(c) \/ FailRun(c) \/ Report(c) \/ ReportError(c)

Recover == RecoverItems \/ RecoverRuns \/ RecoverJobs

Next ==
    \/ \E c \in Capture : Submit(c) \/ SubmitText(c) \/ StartCli(c) \/ TaskStep(c) \/ KillCli(c)
    \/ Crash \/ Recover

Spec == Init /\ [][Next]_vars

(* Threads of the blocking pool run, the programs that a capture waits for   *)
(* end by themselves (it gives yt-dlp, single-file and cp no deadline), and  *)
(* the service manager starts a dead server again.                           *)
TasksRun == \A c \in Capture : WF_vars(task[c] # "idle" /\ TaskStep(c))
Fairness == WF_vars(Recover) /\ TasksRun
FairSpec == Spec /\ Fairness

----------------------------------------------------------------------------
(* Properties. *)

(* Every variable keeps its type; the row of a command line capture does not *)
(* exist, and the thread of a dead server does not run.                      *)
TypeOK ==
    /\ job \in [Capture -> JobStatus]
    /\ linked \in [Capture -> BOOLEAN]
    /\ task \in [Capture -> TaskState]
    /\ run \in [Capture -> RunStatus]
    /\ item \in [Capture -> [Item -> RunStatus]]
    /\ tally \in [Capture -> Tally]
    /\ current \in [Capture -> Item]
    /\ todo \in [Capture -> SUBSET Child]
    /\ boot \in {"down", "items_failed", "runs_failed", "up"}
    /\ faults \in 0..MaxFaults
    /\ crashes \in 0..MaxCrashes

(* A run shown as completed really saved its root, counts no failure, and    *)
(* its stored counters agree with its items: whatever statement failed or    *)
(* crashed in between, and whatever a starting server did to it meanwhile    *)
(* (finish_archive_run, refresh_run_counters, fail_stalled_capture_jobs).    *)
CompletedRunIsClean ==
    \A c \in Capture : run[c] = "completed" =>
        /\ item[c][Root] = "completed"
        /\ tally[c].failed = 0
        /\ tally[c].completed = Cardinality(With(c, "completed"))
        /\ tally[c].discovered = Cardinality(Discovered(c))

(* A job polled as completed names a run that is over, and that run either   *)
(* completed or is a playlist with at least one member saved; a container    *)
(* alone does not count (the job_status rule of capture_handler).  Failing   *)
(* statements are excluded: the read-back of a failed run defaults to        *)
(* "completed" when it fails.                                                *)
CompletedJobSavedSomething ==
    \A c \in Capture : job[c] = "completed" =>
        /\ linked[c]
        /\ run[c] \in {"completed", "failed"}
        /\ faults = 0 /\ run[c] = "failed" => SavedChildren(c) # {}

(* When the server is up, the only jobs whose task is gone and that still    *)
(* look active are pending ones, lost between the insert and the first       *)
(* update: a running job is never left behind by a crash                     *)
(* (fail_stalled_capture_jobs), unless a statement failed.                   *)
OnlyPendingJobsAreAbandoned ==
    \A c \in Capture \ Cli :
        boot = "up" /\ At(c, "over") /\ faults = 0 => job[c] # "running"

(* Every running job is settled in the end, by its task or by the recovery   *)
(* after a crash, unless a statement fails.                                  *)
RunningJobSettles ==
    \A c \in Capture :
        (job[c] = "running") ~> (job[c] \in {"completed", "failed"} \/ faults > 0)

(* A failed job never shows a run still in progress, through failed          *)
(* downloads, crashes and recovery, unless a statement failed: then the `?`  *)
(* of perform_capture leaves the run as it is (fail_run).                    *)
FailedJobHasClosedRun ==
    \A c \in Capture : job[c] = "failed" /\ faults = 0 => run[c] # "in_progress"

(* database.rs says that recovery marks ALL interrupted capture jobs as      *)
(* failed: once the server is up again no job without a task is active.      *)
RecoveryFailsInterruptedJobs ==
    \A c \in Capture \ Cli :
        boot = "up" /\ At(c, "over") /\ faults = 0 => job[c] \notin {"pending", "running"}

(* The polled view of a job, and what its items saved. *)
PhaseOf(c) == CASE job[c] = "absent" -> "none"
                [] job[c] \in {"pending", "running"} -> "open"
                [] job[c] = "completed" -> "done"
                [] job[c] = "failed" -> "failed"

Service == INSTANCE CaptureService WITH
    Request <- Capture \ Cli,
    phase <- [c \in Capture \ Cli |-> PhaseOf(c)],
    saved <- [c \in Capture \ Cli |-> With(c, "completed")]

(* The rows, the task, crashes and recovery together keep what CaptureService *)
(* promises to the client that polls get_capture_job.                         *)
ServicePromise == Service!Spec

(* All three: what the job row says of its capture is so                     *)
(* (capture_handler, fail_stalled_capture_jobs).                             *)
JobsTellTheTruth ==
    CompletedJobSavedSomething /\ OnlyPendingJobsAreAbandoned /\ FailedJobHasClosedRun
=============================================================================
