------------------------- MODULE CaptureRunsProofs --------------------------
(***************************************************************************)
(* Proofs about CaptureRuns, for any number of captures, playlist members, *)
(* failing statements and crashes; and about Processes, the programs that  *)
(* the captures run, for any number of calls and of process numbers.       *)
(***************************************************************************)
EXTENDS CaptureRuns, Processes, FiniteSetTheorems, TLAPS

(* The counts are natural numbers because a request has finitely many items. *)
LEMMA CountsAreNatural == \A S \in SUBSET Item : Cardinality(S) \in Nat
<1>1. IsFiniteSet(Item)
  BY CaptureRunsAssumption, FS_AddElement DEF Item
<1> QED
  BY <1>1, FS_Subset, FS_CardinalityType

(* The counters a refresh stores are counters. *)
LEMMA RecountType ==
    ASSUME NEW c \in Capture
    PROVE  Recount(c) \in Tally /\ Recount(c)' \in Tally
BY CountsAreNatural DEF Recount, Tally, Discovered, With

(* Marking one item keeps the type of the item rows. *)
LEMMA MarkType ==
    ASSUME TypeOK, NEW c \in Capture, NEW i \in Item, NEW s \in RunStatus, Mark(c, i, s)
    PROVE  item' \in [Capture -> [Item -> RunStatus]]
BY DEF TypeOK, Mark

(* Whether a statement works or fails, the number of faults stays bounded. *)
LEMMA Budget ==
    ASSUME TypeOK, Works \/ Fails
    PROVE  faults' \in 0..MaxFaults
BY CaptureRunsAssumption DEF TypeOK, Works, Fails

(* The type invariant holds at the start, and every step keeps it. *)
LEMMA TypeInit == Init => TypeOK
<1> SUFFICES ASSUME Init PROVE TypeOK
  OBVIOUS
<1>1. [discovered |-> 0, completed |-> 0, failed |-> 0] \in Tally
  BY DEF Tally
<1> QED
  BY <1>1, CaptureRunsAssumption
  DEF Init, TypeOK, JobStatus, TaskState, RunStatus, Item

(* One case per action; the rows and the thread of the capture change. *)
LEMMA TypeStep == TypeOK /\ [Next]_vars => TypeOK'
<1> SUFFICES ASSUME TypeOK, [Next]_vars PROVE TypeOK'
  OBVIOUS
<1> USE CaptureRunsAssumption
<1>1. ASSUME NEW c \in Capture, Submit(c) \/ SubmitText(c) \/ StartCli(c) \/ KillCli(c)
      PROVE  TypeOK'
  <2> USE DEF TypeOK, At, Go, rows
  <2>1. CASE Submit(c) \/ SubmitText(c)
    BY <2>1 DEF Submit, SubmitText, Queue, JobStatus, TaskState
  <2>2. CASE StartCli(c)
    BY <2>2 DEF StartCli, TaskState
  <2>3. CASE KillCli(c)
    <3>1. crashes' \in 0..MaxCrashes
      BY <2>3 DEF KillCli
    <3> QED
      BY <2>3, <3>1 DEF KillCli, TaskState
  <2> QED
    BY <1>1, <2>1, <2>2, <2>3
<1>2. ASSUME NEW c \in Capture, TaskStep(c)
      PROVE  TypeOK'
  <2> USE Budget DEF TypeOK, At, Go, rows
  <2>1. CASE StartTask(c)
    BY <2>1 DEF StartTask, JobStatus, TaskState
  <2>2. CASE CreateRun(c)
    BY <2>2 DEF CreateRun, RunStatus, TaskState
  <2>3. CASE LinkRun(c)
    BY <2>3 DEF LinkRun, TaskState
  <2>4. CASE CreateItem(c)
    BY <2>4, MarkType DEF CreateItem, RunStatus, TaskState, Item
  <2>5. CASE Fetch(c)
    BY <2>5, ZenonT(40) DEF Fetch, Reject, FetchMedia, SaveText, ScrapeTweet, ListPlaylist,
                Quiet, Works, TaskState
  <2>6. CASE RecordMedia(c) \/ RecordContainer(c)
    BY <2>6, MarkType DEF RecordMedia, RecordContainer, RunStatus, TaskState, Item
  <2>7. CASE RecordTweet(c)
    <3>2. tally' \in [Capture -> Tally]
      BY <2>7, RecountType DEF RecordTweet
    <3>3. item' \in [Capture -> [Item -> RunStatus]]
      BY <2>7, MarkType DEF RecordTweet, RunStatus, Item
    <3>4. task' \in [Capture -> TaskState] /\ run' \in [Capture -> RunStatus]
      BY <2>7 DEF RecordTweet, ClosingStatus, RunStatus, TaskState
    <3> QED
      BY <2>7, <3>2, <3>3, <3>4 DEF RecordTweet
  <2>8. CASE RefreshCounters(c)
    <3>1. \A s \in DOMAIN Onward : Onward[s] \in TaskState /\ Backout[s] \in TaskState
      BY DEF Onward, Backout, TaskState
    <3>2. task' \in [Capture -> TaskState]
      BY <2>8, <3>1 DEF RefreshCounters
    <3>3. tally' \in [Capture -> Tally]
      BY <2>8, RecountType DEF RefreshCounters
    <3> QED
      BY <2>8, <3>2, <3>3 DEF RefreshCounters
  <2>9. CASE NextChild(c)
    <3>1. item' \in [Capture -> [Item -> RunStatus]]
      BY <2>9, MarkType DEF NextChild, RunStatus, Item
    <3>2. task' \in [Capture -> TaskState]
      BY <2>9 DEF NextChild, TaskState
    <3>3. current' \in [Capture -> Item] /\ todo' \in [Capture -> SUBSET Child]
      BY <2>9, SMTT(20) DEF NextChild, Item
    <3>4. faults' \in 0..MaxFaults
      BY <2>9 DEF NextChild
    <3> QED
      BY <2>9, <3>1, <3>2, <3>3, <3>4 DEF NextChild
  <2>10. CASE SaveChild(c)
    BY <2>10, MarkType DEF SaveChild, RunStatus, TaskState
  <2>11. CASE FailChild(c)
    BY <2>11, MarkType DEF FailChild, RunStatus, TaskState
  <2>12. CASE FinishRun(c)
    BY <2>12 DEF FinishRun, ClosingStatus, RunStatus, TaskState
  <2>13. CASE FailItem(c)
    BY <2>13, MarkType DEF FailItem, RunStatus, TaskState, Item
  <2>14. CASE FailRun(c)
    BY <2>14 DEF FailRun, RunStatus, TaskState
  <2>15. CASE Report(c)
    BY <2>15, ZenonT(40) DEF Report, Verdict, JobStatus, TaskState
  <2>16. CASE ReportError(c)
    BY <2>16 DEF ReportError, JobStatus, TaskState
  <2> QED
    BY <1>2, <2>1, <2>2, <2>3, <2>4, <2>5, <2>6, <2>7, <2>8, <2>9, <2>10,
       <2>11, <2>12, <2>13, <2>14, <2>15, <2>16 DEF TaskStep
<1>3. CASE Crash
  BY <1>3 DEF Crash, TypeOK, rows, At, TaskState
<1>4. CASE Recover
  <2>1. CASE RecoverItems
    BY <2>1, Budget DEF RecoverItems, Stalled, TypeOK, local, RunStatus
  <2>2. CASE RecoverRuns
    <3>1. \A c \in Capture :
            [tally[c] EXCEPT !.failed = Cardinality(With(c, "failed"))] \in Tally
      BY CountsAreNatural DEF TypeOK, Tally, With
    <3> QED
      BY <2>2, <3>1, Budget DEF RecoverRuns, Stalled, TypeOK, local, RunStatus
  <2>3. CASE RecoverJobs
    BY <2>3, Budget DEF RecoverJobs, Interrupted, TypeOK, local, JobStatus
  <2> QED
    BY <1>4, <2>1, <2>2, <2>3 DEF Recover
<1>5. CASE UNCHANGED vars
  BY <1>5 DEF TypeOK, vars, rows, local
<1> QED
  BY <1>1, <1>2, <1>3, <1>4, <1>5 DEF Next

(* Every reachable state is type correct. *)
THEOREM TypeCorrect == Spec => []TypeOK
BY TypeInit, TypeStep, PTL DEF Spec

----------------------------------------------------------------------------
(* The inductive invariant.  CompletedRunIsClean is not inductive: nothing   *)
(* in it says what is true while a run is still going to complete.  Rows     *)
(* relates the place a thread has reached to the rows it has written, Jobs   *)
(* relates it to the row the client polls.                                   *)

RootIsSaved ==
    {"root_marked", "container_marked", "children", "child", "child_marked",
     "child_fail", "child_failed", "finish", "close", "return"}

Counted(c) ==
    /\ tally[c].completed = Cardinality(With(c, "completed"))
    /\ tally[c].discovered = Cardinality(Discovered(c))

Rows(c) ==
    /\ task[c] \in {"child", "child_marked", "child_fail"} => current[c] \in Child
    /\ task[c] \in RootIsSaved => item[c][Root] = "completed"
    /\ task[c] = "close" => Counted(c)
    /\ task[c] = "return" => run[c] \in {"completed", "failed"}
    /\ run[c] = "completed" =>
         /\ task[c] \in {"return", "over"}
         /\ item[c][Root] = "completed"
         /\ tally[c].failed = 0
         /\ Counted(c)

Jobs(c) ==
    /\ c \in Cli => job[c] = "absent" /\ task[c] # "queued"
    /\ c \notin Cli /\ task[c] = "idle" => job[c] = "absent"
    /\ c \notin Cli /\ task[c] \notin {"idle", "over"} => job[c] \in {"pending", "running"}
    /\ c \notin Cli /\ boot # "up" => task[c] \in {"idle", "over"}
    /\ c \notin Cli /\ boot = "up" /\ task[c] = "over" /\ faults = 0 => job[c] # "running"
    /\ job[c] = "completed" =>
         /\ linked[c]
         /\ run[c] \in {"completed", "failed"}
         /\ faults = 0 /\ run[c] = "failed" => SavedChildren(c) # {}

IInv == TypeOK /\ \A c \in Capture : Rows(c) /\ Jobs(c)

(* The inductive invariant holds while nothing has been captured. *)
LEMMA IInvInit == Init => IInv
BY TypeInit DEF Init, IInv, Rows, Jobs, RootIsSaved

(* A step of one capture leaves the rows and the thread of every other alone. *)
LEMMA OthersUnchanged ==
    ASSUME TypeOK, NEW c \in Capture, NEW d \in Capture, c # d,
           Submit(c) \/ SubmitText(c) \/ StartCli(c) \/ TaskStep(c) \/ KillCli(c)
    PROVE  /\ job'[d] = job[d] /\ linked'[d] = linked[d] /\ task'[d] = task[d]
           /\ run'[d] = run[d] /\ item'[d] = item[d] /\ tally'[d] = tally[d]
           /\ current'[d] = current[d] /\ todo'[d] = todo[d]
           /\ boot' = boot /\ faults' \in {faults, faults + 1}
<1> USE DEF TypeOK, At, Go, Mark, Works, Fails, rows
<1>1. CASE Submit(c) \/ SubmitText(c) \/ StartCli(c) \/ KillCli(c)
  BY <1>1 DEF Submit, SubmitText, Queue, StartCli, KillCli
<1>2. CASE StartTask(c) \/ CreateRun(c) \/ LinkRun(c) \/ CreateItem(c)
  BY <1>2 DEF StartTask, CreateRun, LinkRun, CreateItem
<1>3. CASE Fetch(c) \/ RecordMedia(c) \/ RecordContainer(c) \/ RecordTweet(c) \/ RefreshCounters(c)
  BY <1>3 DEF Fetch, Reject, FetchMedia, SaveText, ScrapeTweet, ListPlaylist, Quiet,
              RecordMedia, RecordContainer, RecordTweet, RefreshCounters
<1>4. CASE NextChild(c) \/ SaveChild(c) \/ FailChild(c)
  BY <1>4 DEF NextChild, SaveChild, FailChild
<1>5. CASE FinishRun(c) \/ FailItem(c) \/ FailRun(c)
  BY <1>5 DEF FinishRun, FailItem, FailRun
<1>6. CASE Report(c) \/ ReportError(c)
  BY <1>6 DEF Report, ReportError
<1> QED
  BY <1>1, <1>2, <1>3, <1>4, <1>5, <1>6 DEF TaskStep

(* What is counted depends on the item rows of the capture alone. *)
LEMMA SameCounts ==
    ASSUME NEW c \in Capture, item'[c] = item[c]
    PROVE  /\ \A s : With(c, s)' = With(c, s)
           /\ Discovered(c)' = Discovered(c)
           /\ SavedChildren(c)' = SavedChildren(c)
BY DEF With, Discovered, SavedChildren

(* A step of its own thread keeps the invariant of a capture. *)
LEMMA OwnStep ==
    ASSUME IInv, TypeOK', NEW c \in Capture,
           Submit(c) \/ SubmitText(c) \/ StartCli(c) \/ TaskStep(c) \/ KillCli(c)
    PROVE  Rows(c)' /\ Jobs(c)'
<1> USE CaptureRunsAssumption DEF IInv, At, Go, Works, Fails, rows
<1>a. faults \in Nat /\ c \in Capture /\ Rows(c) /\ Jobs(c) /\ Root \in Item
  BY DEF TypeOK, Item
<1>1. CASE Submit(c) \/ SubmitText(c)
  BY <1>a, <1>1, SameCounts DEF Submit, SubmitText, Queue, Rows, Jobs, Counted, TypeOK, RootIsSaved
<1>2. CASE StartCli(c)
  BY <1>a, <1>2, SameCounts DEF StartCli, Rows, Jobs, Counted, TypeOK, RootIsSaved
<1>3. CASE KillCli(c)
  BY <1>a, <1>3, SameCounts DEF KillCli, Rows, Jobs, Counted, TypeOK, RootIsSaved
<1>4. CASE StartTask(c)
  <2>1. /\ task[c] = "queued"
        /\ UNCHANGED <<linked, run, item, tally, current, todo, boot>>
        /\ \/ faults' = faults /\ task'[c] = "open" /\ job'[c] = "running"
           \/ faults' # 0 /\ task'[c] \in {"open", "over"} /\ job'[c] = job[c]
    BY <1>a, <1>4 DEF StartTask, TypeOK
  <2>2. Rows(c)'
    BY <1>a, <2>1, SameCounts DEF Rows, Counted, RootIsSaved
  <2>3. Jobs(c)'
    BY <1>a, <2>1 DEF Jobs
  <2> QED
    BY <2>2, <2>3
<1>5. CASE CreateRun(c)
  BY <1>a, <1>5, SameCounts DEF CreateRun, Rows, Jobs, Counted, TypeOK, RootIsSaved
<1>6. CASE LinkRun(c)
  BY <1>a, <1>6, SameCounts DEF LinkRun, Rows, Jobs, Counted, TypeOK, RootIsSaved
<1>7. CASE CreateItem(c)
  BY <1>a, <1>7 DEF CreateItem, Rows, Jobs, TypeOK, RootIsSaved
<1>8. CASE Fetch(c)
  BY <1>a, <1>8, SameCounts DEF Fetch, Reject, FetchMedia, SaveText, ScrapeTweet,
                                ListPlaylist, Quiet, Rows, Jobs, Counted, TypeOK, RootIsSaved
<1>9. CASE RecordMedia(c) \/ RecordContainer(c)
  BY <1>a, <1>9 DEF RecordMedia, RecordContainer, Mark, Rows, Jobs, TypeOK, RootIsSaved
<1>10. CASE RecordTweet(c)
  BY <1>a, <1>10, RecountType
  DEF RecordTweet, ClosingStatus, Recount, Mark, Rows, Jobs, Counted, Tally, TypeOK, RootIsSaved
<1>11. CASE RefreshCounters(c)
  <2>1. /\ task[c] \in DOMAIN Onward
        /\ UNCHANGED <<job, linked, run, item, current, todo, boot>>
        /\ \/ faults' = faults
           \/ faults' = faults + 1
    BY <1>11 DEF RefreshCounters
  <2>2. With(c, "completed")' = With(c, "completed") /\ Discovered(c)' = Discovered(c)
        /\ SavedChildren(c)' = SavedChildren(c)
    BY <2>1, SameCounts
  <2>3. task[c] \notin {"idle", "over", "return", "close"} /\ run[c] # "completed"
    BY <1>a, <2>1 DEF Onward, Rows
  <2>4. task'[c] \in {Onward[task[c]], Backout[task[c]]}
    BY <1>11 DEF RefreshCounters, TypeOK
  <2>5. task'[c] \notin {"idle", "queued", "over", "return", "child", "child_marked"}
    BY <2>1, <2>4 DEF Onward, Backout
  <2>6. task'[c] \in RootIsSaved => task[c] \in RootIsSaved
    BY <2>1, <2>4 DEF Onward, Backout, RootIsSaved
  <2>7. task'[c] = "child_fail" => task[c] = "child_marked"
    BY <2>1, <2>4 DEF Onward, Backout
  <2>8. task'[c] = "close" => tally'[c] = Recount(c)
    BY <2>1, <1>11 DEF RefreshCounters, Onward, Backout, TypeOK
  <2>9. task'[c] = "close" => Counted(c)'
    BY <2>2, <2>8 DEF Counted, Recount
  <2>10. Rows(c)'
    BY <1>a, <2>1, <2>3, <2>5, <2>6, <2>7, <2>9 DEF Rows
  <2>11. Jobs(c)'
    BY <1>a, <2>1, <2>2, <2>3, <2>5 DEF Jobs
  <2> QED
    BY <2>10, <2>11
<1>12. CASE NextChild(c)
  BY <1>a, <1>12 DEF NextChild, Mark, Rows, Jobs, TypeOK, RootIsSaved
<1>13. CASE SaveChild(c)
  BY <1>a, <1>13 DEF SaveChild, Mark, Rows, Jobs, TypeOK, RootIsSaved
<1>14. CASE FailChild(c)
  BY <1>a, <1>14 DEF FailChild, Mark, Rows, Jobs, TypeOK, RootIsSaved
<1>15. CASE FinishRun(c)
  BY <1>a, <1>15, SameCounts
  DEF FinishRun, ClosingStatus, Rows, Jobs, Counted, Tally, TypeOK, RootIsSaved
<1>16. CASE FailItem(c)
  BY <1>a, <1>16 DEF FailItem, Rows, Jobs, TypeOK, RootIsSaved
<1>17. CASE FailRun(c)
  BY <1>a, <1>17 DEF FailRun, Rows, Jobs, TypeOK, RootIsSaved
<1>18. CASE Report(c)
  BY <1>a, <1>18, SameCounts
  DEF Report, Verdict, Rows, Jobs, Counted, TypeOK, RootIsSaved
<1>19. CASE ReportError(c)
  BY <1>a, <1>19, SameCounts DEF ReportError, Rows, Jobs, Counted, TypeOK, RootIsSaved
<1> QED
  BY <1>1, <1>2, <1>3, <1>4, <1>5, <1>6, <1>7, <1>8, <1>9, <1>10, <1>11, <1>12,
     <1>13, <1>14, <1>15, <1>16, <1>17, <1>18, <1>19 DEF TaskStep

(* A crash of the server and each statement of its recovery, for every capture. *)
LEMMA ServerStep ==
    ASSUME IInv, TypeOK', Crash \/ Recover, NEW c \in Capture
    PROVE  Rows(c)' /\ Jobs(c)'
<1> USE CaptureRunsAssumption DEF IInv, At, Works, Fails, rows, local
<1>a. faults \in Nat /\ Rows(c) /\ Jobs(c) /\ Root \in Item
  BY DEF TypeOK, Item
<1>1. CASE Crash
  BY <1>a, <1>1, SameCounts DEF Crash, Rows, Jobs, Counted, TypeOK, RootIsSaved
<1>2. CASE RecoverItems
  <2>1. /\ With(c, "completed")' = With(c, "completed")
        /\ Discovered(c)' = Discovered(c)
        /\ SavedChildren(c)' = SavedChildren(c)
    BY <1>2 DEF RecoverItems, Stalled, With, Discovered, SavedChildren, TypeOK
  <2>2. item[c][Root] = "completed" => item'[c][Root] = "completed"
    BY <1>a, <1>2 DEF RecoverItems, Stalled, TypeOK
  <2> QED
    BY <1>a, <1>2, <2>1, <2>2 DEF RecoverItems, Stalled, Rows, Jobs, Counted, TypeOK
<1>3. CASE RecoverRuns
  <2>1. /\ tally'[c].completed = tally[c].completed
        /\ tally'[c].discovered = tally[c].discovered
        /\ run[c] = "completed" => tally'[c].failed = tally[c].failed
    BY <1>3 DEF RecoverRuns, Stalled, TypeOK, Tally
  <2>2. run'[c] = run[c] \/ (run[c] = "in_progress" /\ run'[c] = "failed")
    BY <1>3 DEF RecoverRuns, Stalled, TypeOK
  <2> QED
    BY <1>a, <1>3, <2>1, <2>2, SameCounts DEF RecoverRuns, Stalled, Rows, Jobs, Counted
<1>4. CASE RecoverJobs
  BY <1>a, <1>4, SameCounts DEF RecoverJobs, Interrupted, Rows, Jobs, Counted, TypeOK
<1> QED
  BY <1>1, <1>2, <1>3, <1>4 DEF Recover

(* A step of a thread, of the server or of nobody keeps the invariant. *)
LEMMA IInvStep == IInv /\ [Next]_vars => IInv'
<1> SUFFICES ASSUME IInv, [Next]_vars PROVE IInv'
  OBVIOUS
<1>1. TypeOK'
  BY TypeStep DEF IInv
<1>2. ASSUME NEW c \in Capture,
             Submit(c) \/ SubmitText(c) \/ StartCli(c) \/ TaskStep(c) \/ KillCli(c),
             NEW d \in Capture
      PROVE  Rows(d)' /\ Jobs(d)'
  <2>1. CASE d = c
    BY <1>1, <1>2, <2>1, OwnStep
  <2>2. CASE d # c
    <3>1. /\ job'[d] = job[d] /\ linked'[d] = linked[d] /\ task'[d] = task[d]
          /\ run'[d] = run[d] /\ item'[d] = item[d] /\ tally'[d] = tally[d]
          /\ current'[d] = current[d] /\ boot' = boot
          /\ faults' = 0 => faults = 0
      BY <1>2, <2>2, OthersUnchanged DEF IInv, TypeOK
    <3>2. /\ With(d, "completed")' = With(d, "completed")
          /\ Discovered(d)' = Discovered(d)
          /\ SavedChildren(d)' = SavedChildren(d)
      BY <3>1, SameCounts
    <3>3. Rows(d)'
      BY <3>1, <3>2 DEF IInv, Rows, Counted
    <3>4. Jobs(d)'
      BY <3>1, <3>2 DEF IInv, Jobs
    <3> QED
      BY <3>3, <3>4
  <2> QED
    BY <2>1, <2>2
<1>3. ASSUME Crash \/ Recover, NEW d \in Capture
      PROVE  Rows(d)' /\ Jobs(d)'
  BY <1>1, <1>3, ServerStep
<1>4. ASSUME UNCHANGED vars, NEW d \in Capture
      PROVE  Rows(d)' /\ Jobs(d)'
  BY <1>4, SameCounts DEF IInv, vars, rows, local, Rows, Jobs, Counted
<1> QED
  BY <1>1, <1>2, <1>3, <1>4 DEF IInv, Next

(* Every reachable state satisfies the inductive invariant. *)
THEOREM Invariant == Spec => []IInv
BY IInvInit, IInvStep, PTL DEF Spec

(* A run shown as completed saved its root and its stored counters are exact. *)
THEOREM CompletedRunsAreClean == Spec => []CompletedRunIsClean
<1>1. IInv => CompletedRunIsClean
  BY DEF IInv, Rows, Counted, CompletedRunIsClean
<1> QED
  BY <1>1, Invariant, PTL

(* A failed job has closed its run.  As long as no statement fails, a thread  *)
(* that is about to report an error has no open run, and behind the second    *)
(* statement of the recovery no capture of the dead server has one.           *)
Closed(c) == faults = 0 =>
    /\ job[c] = "failed" => run[c] # "in_progress"
    /\ task[c] \in {"idle", "queued", "open", "err"} => run[c] # "in_progress"
    /\ c \notin Cli /\ boot = "runs_failed" => run[c] # "in_progress"

(* A step of its own thread keeps it for a capture. *)
LEMMA ClosedOwn ==
    ASSUME IInv, NEW c \in Capture, Closed(c),
           Submit(c) \/ SubmitText(c) \/ StartCli(c) \/ TaskStep(c) \/ KillCli(c)
    PROVE  Closed(c)'
<1> USE CaptureRunsAssumption DEF At, Go, Works, Fails, rows, Closed
<1>a. faults \in Nat /\ c \in Capture /\ Rows(c) /\ Jobs(c) /\ TypeOK
  BY DEF IInv, TypeOK
<1>1. CASE Submit(c) \/ SubmitText(c) \/ StartCli(c) \/ KillCli(c)
  BY <1>a, <1>1 DEF Submit, SubmitText, Queue, StartCli, KillCli, Jobs, TypeOK
<1>2. CASE StartTask(c)
  BY <1>a, <1>2 DEF StartTask, Jobs, TypeOK
<1>3. CASE CreateRun(c)
  BY <1>a, <1>3 DEF CreateRun, Jobs, TypeOK
<1>4. CASE LinkRun(c) \/ CreateItem(c)
  BY <1>a, <1>4 DEF LinkRun, CreateItem, Jobs, TypeOK
<1>5. CASE Fetch(c)
  BY <1>a, <1>5 DEF Fetch, Reject, FetchMedia, SaveText, ScrapeTweet, ListPlaylist, Quiet, Jobs, TypeOK
<1>6. CASE RecordMedia(c) \/ RecordContainer(c)
  BY <1>a, <1>6 DEF RecordMedia, RecordContainer, Jobs, TypeOK
<1>7. CASE RecordTweet(c)
  BY <1>a, <1>7 DEF RecordTweet, ClosingStatus, Jobs, TypeOK
<1>8. CASE RefreshCounters(c)
  BY <1>a, <1>8 DEF RefreshCounters, Onward, Jobs, TypeOK
<1>9. CASE NextChild(c) \/ SaveChild(c) \/ FailChild(c)
  BY <1>a, <1>9 DEF NextChild, SaveChild, FailChild, Jobs, TypeOK
<1>10. CASE FinishRun(c)
  BY <1>a, <1>10 DEF FinishRun, ClosingStatus, Jobs, TypeOK
<1>11. CASE FailItem(c) \/ FailRun(c)
  BY <1>a, <1>11 DEF FailItem, FailRun, Jobs, TypeOK
<1>12. CASE Report(c)
  BY <1>a, <1>12 DEF Report, Rows, Jobs, TypeOK
<1>13. CASE ReportError(c)
  BY <1>a, <1>13 DEF ReportError, Jobs, TypeOK
<1> QED
  BY <1>1, <1>2, <1>3, <1>4, <1>5, <1>6, <1>7, <1>8, <1>9, <1>10, <1>11, <1>12, <1>13
  DEF TaskStep

(* So does a crash, and each statement of the recovery. *)
LEMMA ClosedServer ==
    ASSUME IInv, NEW c \in Capture, Closed(c), Crash \/ Recover
    PROVE  Closed(c)'
<1> USE CaptureRunsAssumption DEF At, Works, Fails, rows, local, Closed
<1>a. faults \in Nat /\ c \in Capture /\ Rows(c) /\ Jobs(c) /\ TypeOK
  BY DEF IInv, TypeOK
<1>1. CASE Crash
  BY <1>a, <1>1 DEF Crash, TypeOK
<1>2. CASE RecoverItems
  BY <1>a, <1>2 DEF RecoverItems
<1>3. CASE RecoverRuns
  BY <1>a, <1>3 DEF RecoverRuns, Stalled, TypeOK
<1>4. CASE RecoverJobs
  BY <1>a, <1>4 DEF RecoverJobs, Interrupted, Jobs, TypeOK
<1> QED
  BY <1>1, <1>2, <1>3, <1>4 DEF Recover

AllClosed == \A c \in Capture : Closed(c)

(* Hence every step of the system does. *)
LEMMA ClosedStep == IInv /\ AllClosed /\ [Next]_vars => AllClosed'
<1> SUFFICES ASSUME IInv, AllClosed, [Next]_vars, NEW d \in Capture PROVE Closed(d)'
  BY DEF AllClosed
<1>1. ASSUME NEW c \in Capture, Submit(c) \/ SubmitText(c) \/ StartCli(c) \/ TaskStep(c) \/ KillCli(c)
      PROVE  Closed(d)'
  <2>1. CASE d = c
    BY <1>1, <2>1, ClosedOwn DEF AllClosed
  <2>2. CASE d # c
    <3>1. /\ job'[d] = job[d] /\ task'[d] = task[d] /\ run'[d] = run[d]
          /\ boot' = boot /\ (faults' = 0 => faults = 0)
      BY <1>1, <2>2, OthersUnchanged DEF IInv, TypeOK
    <3> QED
      BY <3>1 DEF AllClosed, Closed
  <2> QED
    BY <2>1, <2>2
<1>2. CASE Crash \/ Recover
  BY <1>2, ClosedServer DEF AllClosed
<1>3. CASE UNCHANGED vars
  BY <1>3 DEF vars, rows, local, AllClosed, Closed
<1> QED
  BY <1>1, <1>2, <1>3 DEF Next

(* What the client reads in a job row is so: a completed job saved something, *)
(* only pending jobs are left behind, a failed job has closed its run.        *)
THEOREM JobsAreTruthful == Spec => []JobsTellTheTruth
<1>1. IInv => CompletedJobSavedSomething /\ OnlyPendingJobsAreAbandoned
  BY DEF IInv, Jobs, At, CompletedJobSavedSomething, OnlyPendingJobsAreAbandoned
<1>2. AllClosed => FailedJobHasClosedRun
  BY DEF AllClosed, Closed, FailedJobHasClosedRun
<1>3. Init => AllClosed
  BY DEF Init, AllClosed, Closed
<1>4. Spec => []AllClosed
  BY <1>3, ClosedStep, Invariant, PTL DEF Spec
<1> QED
  BY <1>1, <1>2, <1>4, Invariant, PTL DEF JobsTellTheTruth

----------------------------------------------------------------------------
(* The rows and the recovery implement what CaptureService promises.         *)

Request == Capture \ Cli

(* Nothing requested, nothing saved. *)
LEMMA ServiceInit == Init => Service!Init
BY DEF Init, Service!Init, PhaseOf, With

(* A request is open as long as its thread can still write item rows. *)
LEMMA OwnStepServes ==
    ASSUME IInv, NEW c \in Request, TaskStep(c)
    PROVE  PhaseOf(c) = "open"
<1>1. task[c] \notin {"idle", "over"}
  BY DEF TaskStep, StartTask, CreateRun, LinkRun, CreateItem, Fetch, Reject,
         FetchMedia, SaveText, ScrapeTweet, ListPlaylist, RecordMedia, RecordContainer,
         RecordTweet, RefreshCounters, Onward, NextChild, SaveChild, FailChild,
         FinishRun, FailItem, FailRun, Report, ReportError, At
<1> QED
  BY <1>1 DEF IInv, Jobs, PhaseOf, Request

(* A step of the thread moves the job or the items, never both. *)
LEMMA JobOrItems ==
    ASSUME IInv, NEW c \in Request, TaskStep(c)
    PROVE  \/ item'[c] = item[c] /\ PhaseOf(c)' = "failed"
           \/ item'[c] = item[c] /\ PhaseOf(c)' = "done" /\ item[c][Root] = "completed"
           \/ PhaseOf(c)' = "open"
<1> USE DEF IInv, TypeOK, At, Request
<1>1. PhaseOf(c) = "open" /\ job[c] \in {"pending", "running"}
  BY OwnStepServes DEF PhaseOf, Jobs, JobStatus
<1>2. CASE StartTask(c)
  BY <1>1, <1>2 DEF StartTask, PhaseOf
<1>3. CASE Report(c)
  <2>1. item[c][Root] = "completed" /\ item' = item
    BY <1>3 DEF Report, Rows, RootIsSaved
  <2>2. job'[c] \in {job[c], "completed", "failed"}
    BY <1>3 DEF Report, Verdict
  <2> QED
    BY <1>1, <2>1, <2>2 DEF PhaseOf
<1>4. CASE ReportError(c)
  BY <1>1, <1>4 DEF ReportError, PhaseOf
<1>5. CASE UNCHANGED job
  BY <1>1, <1>5 DEF PhaseOf
<1>6. StartTask(c) \/ Report(c) \/ ReportError(c) \/ UNCHANGED job
  BY DEF TaskStep, CreateRun, LinkRun, CreateItem, Fetch, Reject, FetchMedia, SaveText,
         ScrapeTweet, ListPlaylist, Quiet, RecordMedia, RecordContainer, RecordTweet,
         RefreshCounters, NextChild, SaveChild, FailChild, FinishRun, FailItem,
         FailRun, rows
<1> QED
  BY <1>2, <1>3, <1>4, <1>5, <1>6

(* What the client sees of a request is unchanged if its rows are. *)
LEMMA Stutters ==
    ASSUME \A d \in Request : job'[d] = job[d] /\ With(d, "completed")' = With(d, "completed")
    PROVE  UNCHANGED Service!vars
<1>1. \A d \in Request : PhaseOf(d)' = PhaseOf(d)
  BY DEF PhaseOf
<1>2. [d \in Request |-> PhaseOf(d)]' = [d \in Request |-> PhaseOf(d)]
  BY <1>1
<1>3. [d \in Request |-> With(d, "completed")]' = [d \in Request |-> With(d, "completed")]
  OBVIOUS
<1> QED
  BY <1>2, <1>3 DEF Service!vars, Request

(* A step of a thread is one abstract step of its request, or a stutter. *)
LEMMA ServiceTaskStep ==
    ASSUME IInv, NEW c \in Request, TaskStep(c)
    PROVE  Service!Next
<1>1. \A d \in Request \ {c} :
        PhaseOf(d)' = PhaseOf(d) /\ With(d, "completed")' = With(d, "completed")
  BY OthersUnchanged, SameCounts DEF IInv, PhaseOf, Request
<1>2. PhaseOf(c) = "open"
  BY OwnStepServes
<1>3. CASE PhaseOf(c)' = "open"
  <2>1. With(c, "completed")' \in SUBSET Item
    BY DEF With
  <2>2. Service!Work(c)
    BY <1>1, <1>2, <1>3, <2>1 DEF Service!Work, Request
  <2> QED
    BY <2>2 DEF Service!Next, Request
<1>4. CASE item'[c] = item[c] /\ PhaseOf(c)' = "failed"
  <2>1. With(c, "completed")' = With(c, "completed")
    BY <1>4, SameCounts DEF Request
  <2>2. Service!Settle(c)
    BY <1>1, <1>2, <1>4, <2>1 DEF Service!Settle, Request
  <2> QED
    BY <2>2 DEF Service!Next, Request
<1>5. CASE item'[c] = item[c] /\ PhaseOf(c)' = "done" /\ item[c][Root] = "completed"
  <2>1. With(c, "completed")' = With(c, "completed") /\ Root \in With(c, "completed")
    BY <1>5, SameCounts DEF Request, With, Item
  <2>2. Service!Settle(c)
    BY <1>1, <1>2, <1>5, <2>1 DEF Service!Settle, Request
  <2> QED
    BY <2>2 DEF Service!Next, Request
<1> QED
  BY <1>3, <1>4, <1>5, JobOrItems

(* So is every other step; a restart is the abstract Interrupt. *)
LEMMA ServiceStep == IInv /\ [Next]_vars => [Service!Next]_Service!vars
<1> SUFFICES ASSUME IInv, [Next]_vars PROVE [Service!Next]_Service!vars
  OBVIOUS
<1>1. ASSUME NEW c \in Capture, Submit(c) \/ SubmitText(c)
      PROVE  Service!Accept(c) /\ c \in Request
  <2>1. c \in Request /\ PhaseOf(c) = "none" /\ PhaseOf(c)' = "open"
    BY <1>1 DEF Submit, SubmitText, Queue, IInv, Jobs, At, PhaseOf, TypeOK, Request
  <2>2. \A d \in Request : With(d, "completed")' = With(d, "completed")
    BY <1>1 DEF Submit, SubmitText, Queue, With
  <2>3. \A d \in Request \ {c} : PhaseOf(d)' = PhaseOf(d)
    BY <1>1 DEF Submit, SubmitText, Queue, PhaseOf, IInv, TypeOK, Request
  <2> QED
    BY <2>1, <2>2, <2>3 DEF Service!Accept, Request
<1>2. ASSUME NEW c \in Cli, StartCli(c) \/ KillCli(c) \/ TaskStep(c)
      PROVE  UNCHANGED Service!vars
  <2>1. \A d \in Request : d # c /\ c \in Capture
    BY CaptureRunsAssumption DEF Request
  <2> QED
    BY <1>2, <2>1, OthersUnchanged, SameCounts, Stutters DEF IInv, Request
<1>3. ASSUME NEW c \in Request, TaskStep(c)
      PROVE  Service!Next
  BY <1>3, ServiceTaskStep
<1>4. CASE Crash
  BY <1>4, Stutters DEF Crash, rows, With
<1>5. CASE RecoverItems
  <2>1. \A d \in Request : With(d, "completed")' = With(d, "completed")
    BY <1>5 DEF RecoverItems, Stalled, With, IInv, TypeOK, Request
  <2> QED
    BY <1>5, <2>1, Stutters DEF RecoverItems, Stalled
<1>6. CASE RecoverRuns
  BY <1>6, Stutters DEF RecoverRuns, Stalled, With
<1>7. CASE RecoverJobs
  <2> DEFINE S == {d \in Request : job[d] = "running" /\ job'[d] = "failed"}
  <2>1. \A d \in Request : With(d, "completed")' = With(d, "completed")
    BY <1>7 DEF RecoverJobs, Interrupted, With
  <2>2. S \in SUBSET {d \in Request : PhaseOf(d) = "open"}
    BY DEF PhaseOf
  <2>3. \A d \in Request : PhaseOf(d)' = IF d \in S THEN "failed" ELSE PhaseOf(d)
    <3>1. \A d \in Request :
            job'[d] = job[d] \/ (job[d] = "running" /\ job'[d] = "failed")
      BY <1>7 DEF RecoverJobs, Interrupted, Request
    <3>2. \A d \in Request \ S : PhaseOf(d)' = PhaseOf(d)
      BY <3>1 DEF PhaseOf
    <3>3. \A d \in S : PhaseOf(d)' = "failed"
      BY DEF PhaseOf
    <3> QED
      BY <3>2, <3>3
  <2>4. Service!Interrupt
    BY <2>1, <2>2, <2>3 DEF Service!Interrupt, Request
  <2> QED
    BY <2>4 DEF Service!Next
<1>8. CASE UNCHANGED vars
  BY <1>8, Stutters DEF vars, rows, With
<1> QED
  BY <1>1, <1>2, <1>3, <1>4, <1>5, <1>6, <1>7, <1>8
  DEF Next, Recover, Service!Next, Request, StartCli, KillCli

(* The client's view: a request settles at most once, done means its root    *)
(* item was saved, and a settled request never changes again.                *)
THEOREM ImplementsService == Spec => ServicePromise
BY ServiceInit, ServiceStep, Invariant, PTL DEF Spec, ServicePromise, Service!Spec

----------------------------------------------------------------------------
(* The programs.  A number stays taken until the child is reaped and the last *)
(* helper in its group is gone, so that two groups with one number are never  *)
(* both alive; a kill by number is therefore right up to the reaping, and     *)
(* only the cleanup after it can be late.                                     *)

(* The number of a group is taken as long as its leader is not reaped or a    *)
(* member is left.                                                            *)
Holds(c) == group[c] # 0 /\ (~Reaped(c) \/ helper[c] = "member")
NumbersAreTheirOwn == \A c, d \in Run : c # d /\ group[c] = group[d] /\ Holds(c) => ~Holds(d)

CallSound(c) ==
    /\ runAt[c] = "idle" => child[c] = "none"
    /\ runAt[c] \notin {"idle", "polling"} => child[c] # "running"
    /\ child[c] = "none" => helper[c] = "none" /\ runAt[c] \in {"idle", "failed"}
    /\ runAt[c] \notin {"idle", "failed"} => group[c] # 0
    /\ runAt[c] \in {"lastout", "lasterr", "timedout"} => helper[c] # "member"
    /\ child[c] \in {"none", "running"} => drained[c] = {}
    /\ helper[c] = "none" => held[c] = {}
    /\ drained[c] \cap held[c] = {}
    /\ c \in Strict /\ runAt[c] \in {"err", "lasterr"} => "out" \in drained[c]
    /\ c \in Strict /\ runAt[c] = "ok" => drained[c] = Pipe /\ child[c] = "ok"
CallsSound == \A c \in Run : CallSound(c)
LostKillsAreLate == \A k \in lostKill : k[2] \in {"out", "err"}
ProcessesInv == ProcessesTypeOK /\ NumbersAreTheirOwn /\ CallsSound /\ LostKillsAreLate

LEMMA ProcessesInvInit == ProcessesInit => ProcessesInv
  BY ProcessesAssumption
     DEF ProcessesInit, ProcessesInv, ProcessesTypeOK, NumbersAreTheirOwn, Holds, CallsSound, CallSound,
         LostKillsAreLate, RunPlace, ChildState, HelperState, Pipe

(* Of the processes that a kill of c's group ends, those of other calls have  *)
(* had their number after c's own were gone.                                  *)
LEMMA KillHits ==
  ASSUME ProcessesInv, NEW c \in Run, NEW b \in BOOLEAN, KillGroup(c, b), group[c] # 0
  PROVE  /\ child' \in [Run -> ChildState] /\ helper' \in [Run -> HelperState]
         /\ held' \in [Run -> SUBSET Pipe]
         /\ lostKill' \subseteq Run \X RunPlace
         /\ \A d \in Run : /\ child'[d] \in {child[d], "killed"} /\ (child[d] # "running" => child'[d] = child[d])
                           /\ helper'[d] \in {helper[d], "gone"} /\ (helper[d] # "member" => helper'[d] = helper[d])
                           /\ held'[d] \in {held[d], {}} /\ (helper[d] # "member" => held'[d] = held[d])
         /\ helper'[c] # "member" /\ (b => child'[c] # "running")
         /\ \A k \in lostKill' : k \in lostKill \/ (k[2] = runAt[c] /\ Reaped(c))
<1> DEFINE hit == InGroup(c)
           kids == {d \in hit \cup (IF b THEN {c} ELSE {}) : child[d] = "running"}
           helpers == {d \in hit : helper[d] = "member"}
<1>1. /\ child' = [d \in Run |-> IF d \in kids THEN "killed" ELSE child[d]]
      /\ helper' = [d \in Run |-> IF d \in helpers THEN "gone" ELSE helper[d]]
      /\ held' = [d \in Run |-> IF d \in helpers THEN {} ELSE held[d]]
      /\ lostKill' = lostKill \cup {<<d, runAt[c]>> : d \in (kids \cup helpers) \ {c}}
  BY DEF KillGroup
<1>2. /\ c \in hit /\ hit \subseteq Run /\ kids \subseteq Run /\ helpers \subseteq Run
      /\ \A d \in kids : child[d] = "running"
      /\ \A d \in helpers : helper[d] = "member"
      /\ \A d \in hit : group[d] = group[c]
      /\ b => (child[c] = "running" => c \in kids)
      /\ helper[c] = "member" => c \in helpers
  BY DEF InGroup
<1>3. ProcessesTypeOK /\ NumbersAreTheirOwn /\ CallsSound
  BY DEF ProcessesInv
<1>4. ASSUME NEW d \in (kids \cup helpers) \ {c} PROVE Reaped(c)
  <2>1. d \in hit /\ d # c /\ d \in Run
    BY <1>2
  <2>2. Holds(d)
    BY <1>2, <2>1 DEF Holds, Reaped
  <2>3. ~Holds(c)
    BY <1>2, <1>3, <2>1, <2>2 DEF NumbersAreTheirOwn
  <2>4. QED
    BY <2>3 DEF Holds
<1> HIDE DEF hit, kids, helpers
<1>5. child' \in [Run -> ChildState] /\ helper' \in [Run -> HelperState] /\ held' \in [Run -> SUBSET Pipe]
  BY <1>1, <1>3 DEF ProcessesTypeOK, ChildState, HelperState
<1>6. lostKill' \subseteq Run \X RunPlace
  BY <1>1, <1>2, <1>3 DEF ProcessesTypeOK
<1>7. ASSUME NEW d \in Run
      PROVE  /\ child'[d] \in {child[d], "killed"} /\ (child[d] # "running" => child'[d] = child[d])
             /\ helper'[d] \in {helper[d], "gone"} /\ (helper[d] # "member" => helper'[d] = helper[d])
             /\ held'[d] \in {held[d], {}} /\ (helper[d] # "member" => held'[d] = held[d])
  BY <1>1, <1>2
<1>8. helper'[c] # "member" /\ (b => child'[c] # "running")
  BY <1>1, <1>2
<1>9. \A k \in lostKill' : k \in lostKill \/ (k[2] = runAt[c] /\ Reaped(c))
  BY <1>1, <1>4
<1>10. QED
  BY <1>5, <1>6, <1>7, <1>8, <1>9

(* Whoever holds no number that it did not hold before takes none from others. *)
LEMMA NumbersKept ==
  ASSUME NumbersAreTheirOwn, group' = group, \A d \in Run : Holds(d)' => Holds(d)
  PROVE  NumbersAreTheirOwn'
  BY DEF NumbersAreTheirOwn

LEMMA ProcessesInvNext == ProcessesInv /\ [ProcessesNext]_processVars => ProcessesInv'
<1> SUFFICES ASSUME ProcessesInv, [ProcessesNext]_processVars PROVE ProcessesInv'
  OBVIOUS
<1>0. CASE UNCHANGED processVars
  BY <1>0 DEF processVars, ProcessesInv, ProcessesTypeOK, NumbersAreTheirOwn, Holds, Reaped, CallsSound,
     CallSound, LostKillsAreLate
<1>1. ASSUME NEW c \in Run, StartHelper(c) PROVE ProcessesInv'
  <2>1. ProcessesTypeOK'
    BY <1>1 DEF StartHelper, ProcessesInv, ProcessesTypeOK, RunPlace, ChildState, HelperState, Pipe, RunMoves, Returned
  <2>2. NumbersAreTheirOwn'
    <3>1. ASSUME NEW d \in Run, Holds(d)' PROVE Holds(d)
      BY <1>1, <3>1 DEF StartHelper, Holds, Reaped, CallsSound, CallSound, ProcessesInv, ProcessesTypeOK, RunPlace, ChildState, HelperState, Pipe, RunMoves, Returned
    <3>2. group' = group
      BY <1>1 DEF StartHelper
    <3>3. QED
      BY <3>1, <3>2, NumbersKept DEF ProcessesInv
  <2>3. ASSUME NEW d \in Run PROVE CallSound(d)'
    BY <1>1 DEF StartHelper, CallsSound, CallSound, ProcessesInv, ProcessesTypeOK, RunPlace, ChildState, HelperState, Pipe, RunMoves, Returned
  <2>4. LostKillsAreLate'
    BY <1>1 DEF StartHelper, ProcessesInv, LostKillsAreLate
  <2>5. QED
    BY <2>1, <2>2, <2>3, <2>4 DEF ProcessesInv, CallsSound
<1>2. ASSUME NEW c \in Run, LeaveGroup(c) PROVE ProcessesInv'
  <2>1. ProcessesTypeOK'
    BY <1>2 DEF LeaveGroup, ProcessesInv, ProcessesTypeOK, RunPlace, ChildState, HelperState, Pipe, RunMoves, Returned
  <2>2. NumbersAreTheirOwn'
    <3>1. ASSUME NEW d \in Run, Holds(d)' PROVE Holds(d)
      BY <1>2, <3>1 DEF LeaveGroup, Holds, Reaped, CallsSound, CallSound, ProcessesInv, ProcessesTypeOK, RunPlace, ChildState, HelperState, Pipe, RunMoves, Returned
    <3>2. group' = group
      BY <1>2 DEF LeaveGroup
    <3>3. QED
      BY <3>1, <3>2, NumbersKept DEF ProcessesInv
  <2>3. ASSUME NEW d \in Run PROVE CallSound(d)'
    BY <1>2 DEF LeaveGroup, CallsSound, CallSound, ProcessesInv, ProcessesTypeOK, RunPlace, ChildState, HelperState, Pipe, RunMoves, Returned
  <2>4. LostKillsAreLate'
    BY <1>2 DEF LeaveGroup, ProcessesInv, LostKillsAreLate
  <2>5. QED
    BY <2>1, <2>2, <2>3, <2>4 DEF ProcessesInv, CallsSound
<1>3. ASSUME NEW c \in Run, EndHelper(c) PROVE ProcessesInv'
  <2>1. ProcessesTypeOK'
    BY <1>3 DEF EndHelper, ProcessesInv, ProcessesTypeOK, RunPlace, ChildState, HelperState, Pipe, RunMoves, Returned
  <2>2. NumbersAreTheirOwn'
    <3>1. ASSUME NEW d \in Run, Holds(d)' PROVE Holds(d)
      BY <1>3, <3>1 DEF EndHelper, Holds, Reaped, CallsSound, CallSound, ProcessesInv, ProcessesTypeOK, RunPlace, ChildState, HelperState, Pipe, RunMoves, Returned
    <3>2. group' = group
      BY <1>3 DEF EndHelper
    <3>3. QED
      BY <3>1, <3>2, NumbersKept DEF ProcessesInv
  <2>3. ASSUME NEW d \in Run PROVE CallSound(d)'
    BY <1>3 DEF EndHelper, CallsSound, CallSound, ProcessesInv, ProcessesTypeOK, RunPlace, ChildState, HelperState, Pipe, RunMoves, Returned
  <2>4. LostKillsAreLate'
    BY <1>3 DEF EndHelper, ProcessesInv, LostKillsAreLate
  <2>5. QED
    BY <2>1, <2>2, <2>3, <2>4 DEF ProcessesInv, CallsSound
<1>4. ASSUME NEW c \in Run, EndChild(c) PROVE ProcessesInv'
  <2>1. ProcessesTypeOK'
    BY <1>4 DEF EndChild, ProcessesInv, ProcessesTypeOK, RunPlace, ChildState, HelperState, Pipe, RunMoves, Returned
  <2>2. NumbersAreTheirOwn'
    <3>1. ASSUME NEW d \in Run, Holds(d)' PROVE Holds(d)
      BY <1>4, <3>1 DEF EndChild, Holds, Reaped, CallsSound, CallSound, ProcessesInv, ProcessesTypeOK, RunPlace, ChildState, HelperState, Pipe, RunMoves, Returned
    <3>2. group' = group
      BY <1>4 DEF EndChild
    <3>3. QED
      BY <3>1, <3>2, NumbersKept DEF ProcessesInv
  <2>3. ASSUME NEW d \in Run PROVE CallSound(d)'
    BY <1>4 DEF EndChild, CallsSound, CallSound, ProcessesInv, ProcessesTypeOK, RunPlace, ChildState, HelperState, Pipe, RunMoves, Returned
  <2>4. LostKillsAreLate'
    BY <1>4 DEF EndChild, ProcessesInv, LostKillsAreLate
  <2>5. QED
    BY <2>1, <2>2, <2>3, <2>4 DEF ProcessesInv, CallsSound
<1>5. ASSUME NEW c \in Run, Drain(c) PROVE ProcessesInv'
  <2>1. ProcessesTypeOK'
    BY <1>5 DEF Drain, ProcessesInv, ProcessesTypeOK, RunPlace, ChildState, HelperState, Pipe, RunMoves, Returned
  <2>2. NumbersAreTheirOwn'
    <3>1. ASSUME NEW d \in Run, Holds(d)' PROVE Holds(d)
      BY <1>5, <3>1 DEF Drain, Holds, Reaped, CallsSound, CallSound, ProcessesInv, ProcessesTypeOK, RunPlace, ChildState, HelperState, Pipe, RunMoves, Returned
    <3>2. group' = group
      BY <1>5 DEF Drain
    <3>3. QED
      BY <3>1, <3>2, NumbersKept DEF ProcessesInv
  <2>3. ASSUME NEW d \in Run PROVE CallSound(d)'
    BY <1>5 DEF Drain, CallsSound, CallSound, ProcessesInv, ProcessesTypeOK, RunPlace, ChildState, HelperState, Pipe, RunMoves, Returned
  <2>4. LostKillsAreLate'
    BY <1>5 DEF Drain, ProcessesInv, LostKillsAreLate
  <2>5. QED
    BY <2>1, <2>2, <2>3, <2>4 DEF ProcessesInv, CallsSound
<1>6. ASSUME NEW c \in Run, PassDeadline(c) PROVE ProcessesInv'
  <2>1. ProcessesTypeOK'
    BY <1>6 DEF PassDeadline, ProcessesInv, ProcessesTypeOK, RunPlace, ChildState, HelperState, Pipe, RunMoves, Returned
  <2>2. NumbersAreTheirOwn'
    <3>1. ASSUME NEW d \in Run, Holds(d)' PROVE Holds(d)
      BY <1>6, <3>1 DEF PassDeadline, Holds, Reaped, CallsSound, CallSound, ProcessesInv, ProcessesTypeOK, RunPlace, ChildState, HelperState, Pipe, RunMoves, Returned
    <3>2. group' = group
      BY <1>6 DEF PassDeadline
    <3>3. QED
      BY <3>1, <3>2, NumbersKept DEF ProcessesInv
  <2>3. ASSUME NEW d \in Run PROVE CallSound(d)'
    BY <1>6 DEF PassDeadline, CallsSound, CallSound, ProcessesInv, ProcessesTypeOK, RunPlace, ChildState, HelperState, Pipe, RunMoves, Returned
  <2>4. LostKillsAreLate'
    BY <1>6 DEF PassDeadline, ProcessesInv, LostKillsAreLate
  <2>5. QED
    BY <2>1, <2>2, <2>3, <2>4 DEF ProcessesInv, CallsSound
<1>7. ASSUME NEW c \in Run, Spawn(c) PROVE ProcessesInv'
  <2>1. ProcessesTypeOK'
    BY <1>7 DEF Spawn, ProcessesInv, ProcessesTypeOK, RunPlace, ChildState, HelperState, Pipe, RunMoves, Returned
  <2>2. NumbersAreTheirOwn'
    <3>1. CASE UNCHANGED <<child, group>> /\ runAt' = [runAt EXCEPT ![c] = "failed"] /\ UNCHANGED helper
      <4>1. ASSUME NEW d \in Run, Holds(d)' PROVE Holds(d)
        BY <3>1, <4>1 DEF Holds, Reaped, ProcessesInv, ProcessesTypeOK
      <4>2. QED
        BY <3>1, <4>1, NumbersKept DEF ProcessesInv
    <3>2. ASSUME NEW g \in GroupId, ~InUse(g), group' = [group EXCEPT ![c] = g],
                 runAt' = [runAt EXCEPT ![c] = "polling"], child' = [child EXCEPT ![c] = "running"],
                 UNCHANGED helper
          PROVE  NumbersAreTheirOwn'
      <4>1. ASSUME NEW d \in Run, d # c, Holds(d)' PROVE Holds(d) /\ group'[d] = group[d] /\ group[d] # g
        BY <3>2, <4>1 DEF Holds, Reaped, InUse, ProcessesInv, ProcessesTypeOK
      <4>2. group'[c] = g
        BY <3>2 DEF ProcessesInv, ProcessesTypeOK
      <4>3. QED
        BY <4>1, <4>2 DEF NumbersAreTheirOwn, ProcessesInv
    <3>3. QED
      BY <1>7, <3>1, <3>2 DEF Spawn, RunMoves
  <2>3. ASSUME NEW d \in Run PROVE CallSound(d)'
    BY <1>7, ProcessesAssumption DEF Spawn, CallsSound, CallSound, ProcessesInv, ProcessesTypeOK, RunPlace, ChildState, HelperState, Pipe, RunMoves, Returned
  <2>4. LostKillsAreLate'
    BY <1>7 DEF Spawn, ProcessesInv, LostKillsAreLate
  <2>5. QED
    BY <2>1, <2>2, <2>3, <2>4 DEF ProcessesInv, CallsSound
<1>8. ASSUME NEW c \in Run, SeeExit(c) PROVE ProcessesInv'
  <2>1. ProcessesTypeOK'
    BY <1>8 DEF SeeExit, ProcessesInv, ProcessesTypeOK, RunPlace, ChildState, HelperState, Pipe, RunMoves, Returned
  <2>2. NumbersAreTheirOwn'
    <3>1. ASSUME NEW d \in Run, Holds(d)' PROVE Holds(d)
      BY <1>8, <3>1 DEF SeeExit, Holds, Reaped, CallsSound, CallSound, ProcessesInv, ProcessesTypeOK, RunPlace, ChildState, HelperState, Pipe, RunMoves, Returned
    <3>2. group' = group
      BY <1>8 DEF SeeExit
    <3>3. QED
      BY <3>1, <3>2, NumbersKept DEF ProcessesInv
  <2>3. ASSUME NEW d \in Run PROVE CallSound(d)'
    BY <1>8 DEF SeeExit, CallsSound, CallSound, ProcessesInv, ProcessesTypeOK, RunPlace, ChildState, HelperState, Pipe, RunMoves, Returned
  <2>4. LostKillsAreLate'
    BY <1>8 DEF SeeExit, ProcessesInv, LostKillsAreLate
  <2>5. QED
    BY <2>1, <2>2, <2>3, <2>4 DEF ProcessesInv, CallsSound
<1>9. ASSUME NEW c \in Run, KillTree(c) PROVE ProcessesInv'
  <2>1. KillGroup(c, TRUE) /\ group[c] # 0 /\ ~Reaped(c)
    BY <1>9 DEF KillTree, RunMoves, ProcessesInv, CallsSound, CallSound, Reaped
  <2>2. UNCHANGED <<group, drained, expired>>
        /\ \/ (child[c] = "running" /\ runAt' = [runAt EXCEPT ![c] = "timedout"])
           \/ runAt' = [runAt EXCEPT ![c] = "failed"]
    BY <1>9 DEF KillTree, RunMoves
  <2> DEFINE b == TRUE
  <2>3. b \in BOOLEAN /\ KillGroup(c, b)
    BY <2>1
  <2> HIDE DEF b
  <2>4. /\ child' \in [Run -> ChildState] /\ helper' \in [Run -> HelperState]
        /\ held' \in [Run -> SUBSET Pipe] /\ lostKill' \subseteq Run \X RunPlace
        /\ helper'[c] # "member" /\ (b => child'[c] # "running")
        /\ \A k \in lostKill' : k \in lostKill \/ (k[2] = runAt[c] /\ Reaped(c))
    BY <2>1, <2>3, KillHits
  <2>5. \A d \in Run : /\ child'[d] \in {child[d], "killed"} /\ (child[d] # "running" => child'[d] = child[d])
                      /\ helper'[d] \in {helper[d], "gone"} /\ (helper[d] # "member" => helper'[d] = helper[d])
                      /\ held'[d] \in {held[d], {}} /\ (helper[d] # "member" => held'[d] = held[d])
    BY <2>1, <2>3, KillHits
  <2>6. ProcessesTypeOK'
    BY <2>2, <2>4 DEF ProcessesInv, ProcessesTypeOK, RunPlace
  <2>7. NumbersAreTheirOwn'
    <3>1. ASSUME NEW d \in Run, Holds(d)' PROVE Holds(d)
      BY <2>1, <2>2, <2>5, <3>1 DEF Holds, Reaped, ProcessesInv, ProcessesTypeOK, CallsSound, CallSound
    <3>2. QED
      BY <2>2, <3>1, NumbersKept DEF ProcessesInv
  <2>8. ASSUME NEW d \in Run PROVE CallSound(d)'
    <3>1. CallSound(d) /\ CallSound(c)
      BY DEF ProcessesInv, CallsSound
    <3>2. CASE d = c
      BY <2>1, <2>2, <2>4, <2>5, <3>1, <3>2 DEF CallSound, ProcessesInv, ProcessesTypeOK, b
    <3>3. CASE d # c
      BY <2>2, <2>5, <3>1, <3>3 DEF CallSound, ProcessesInv, ProcessesTypeOK
    <3>4. QED
      BY <3>2, <3>3
  <2>9. LostKillsAreLate'
    BY <2>1, <2>4 DEF ProcessesInv, LostKillsAreLate
  <2>10. QED
    BY <2>6, <2>7, <2>8, <2>9 DEF ProcessesInv, CallsSound
<1>10. ASSUME NEW c \in Run, Received(c) PROVE ProcessesInv'
  <2>1. ProcessesTypeOK'
    BY <1>10 DEF Received, ProcessesInv, ProcessesTypeOK, RunPlace, ChildState, HelperState, Pipe, RunMoves, Returned, AfterPipe, PipeAt, Receiving
  <2>2. NumbersAreTheirOwn'
    <3>1. ASSUME NEW d \in Run, Holds(d)' PROVE Holds(d)
      BY <1>10, <3>1 DEF Received, Holds, Reaped, CallsSound, CallSound, ProcessesInv, ProcessesTypeOK, RunPlace, ChildState, HelperState, Pipe, RunMoves, Returned, AfterPipe, PipeAt, Receiving
    <3>2. group' = group
      BY <1>10 DEF Received
    <3>3. QED
      BY <3>1, <3>2, NumbersKept DEF ProcessesInv
  <2>3. ASSUME NEW d \in Run PROVE CallSound(d)'
    BY <1>10 DEF Received, CallsSound, CallSound, ProcessesInv, ProcessesTypeOK, RunPlace, ChildState, HelperState, Pipe, RunMoves, Returned, AfterPipe, PipeAt, Receiving
  <2>4. LostKillsAreLate'
    BY <1>10 DEF Received, ProcessesInv, LostKillsAreLate
  <2>5. QED
    BY <2>1, <2>2, <2>3, <2>4 DEF ProcessesInv, CallsSound
<1>11. ASSUME NEW c \in Run, GraceEnds(c) PROVE ProcessesInv'
  <2>1. KillGroup(c, FALSE) /\ group[c] # 0 /\ runAt[c] \in {"out", "err"}
    BY <1>11 DEF GraceEnds, RunMoves, ProcessesInv, CallsSound, CallSound, Reaped
  <2>2. UNCHANGED <<group, drained, expired>>
        /\ \/ runAt' = [runAt EXCEPT ![c] = "lastout"] \/ (runAt[c] = "err" /\ runAt' = [runAt EXCEPT ![c] = "lasterr"])
    BY <1>11 DEF GraceEnds, RunMoves
  <2> DEFINE b == FALSE
  <2>3. b \in BOOLEAN /\ KillGroup(c, b)
    BY <2>1
  <2> HIDE DEF b
  <2>4. /\ child' \in [Run -> ChildState] /\ helper' \in [Run -> HelperState]
        /\ held' \in [Run -> SUBSET Pipe] /\ lostKill' \subseteq Run \X RunPlace
        /\ helper'[c] # "member" /\ (b => child'[c] # "running")
        /\ \A k \in lostKill' : k \in lostKill \/ (k[2] = runAt[c] /\ Reaped(c))
    BY <2>1, <2>3, KillHits
  <2>5. \A d \in Run : /\ child'[d] \in {child[d], "killed"} /\ (child[d] # "running" => child'[d] = child[d])
                      /\ helper'[d] \in {helper[d], "gone"} /\ (helper[d] # "member" => helper'[d] = helper[d])
                      /\ held'[d] \in {held[d], {}} /\ (helper[d] # "member" => held'[d] = held[d])
    BY <2>1, <2>3, KillHits
  <2>6. ProcessesTypeOK'
    BY <2>2, <2>4 DEF ProcessesInv, ProcessesTypeOK, RunPlace
  <2>7. NumbersAreTheirOwn'
    <3>1. ASSUME NEW d \in Run, Holds(d)' PROVE Holds(d)
      BY <2>1, <2>2, <2>5, <3>1 DEF Holds, Reaped, ProcessesInv, ProcessesTypeOK, CallsSound, CallSound
    <3>2. QED
      BY <2>2, <3>1, NumbersKept DEF ProcessesInv
  <2>8. ASSUME NEW d \in Run PROVE CallSound(d)'
    <3>1. CallSound(d) /\ CallSound(c)
      BY DEF ProcessesInv, CallsSound
    <3>2. CASE d = c
      BY <2>1, <2>2, <2>4, <2>5, <3>1, <3>2 DEF CallSound, ProcessesInv, ProcessesTypeOK, b
    <3>3. CASE d # c
      BY <2>2, <2>5, <3>1, <3>3 DEF CallSound, ProcessesInv, ProcessesTypeOK
    <3>4. QED
      BY <3>2, <3>3
  <2>9. LostKillsAreLate'
    BY <2>1, <2>4 DEF ProcessesInv, LostKillsAreLate
  <2>10. QED
    BY <2>6, <2>7, <2>8, <2>9 DEF ProcessesInv, CallsSound
<1>12. ASSUME NEW c \in Run, LastGraceEnds(c) PROVE ProcessesInv'
  <2>1. ProcessesTypeOK'
    BY <1>12 DEF LastGraceEnds, ProcessesInv, ProcessesTypeOK, RunPlace, ChildState, HelperState, Pipe, RunMoves, Returned, AfterPipe, GivesUp, PipeAt
  <2>2. NumbersAreTheirOwn'
    <3>1. ASSUME NEW d \in Run, Holds(d)' PROVE Holds(d)
      BY <1>12, <3>1 DEF LastGraceEnds, Holds, Reaped, CallsSound, CallSound, ProcessesInv, ProcessesTypeOK, RunPlace, ChildState, HelperState, Pipe, RunMoves, Returned, AfterPipe, GivesUp, PipeAt
    <3>2. group' = group
      BY <1>12 DEF LastGraceEnds
    <3>3. QED
      BY <3>1, <3>2, NumbersKept DEF ProcessesInv
  <2>3. ASSUME NEW d \in Run PROVE CallSound(d)'
    BY <1>12 DEF LastGraceEnds, CallsSound, CallSound, ProcessesInv, ProcessesTypeOK, RunPlace, ChildState, HelperState, Pipe, RunMoves, Returned, AfterPipe, GivesUp, PipeAt
  <2>4. LostKillsAreLate'
    BY <1>12 DEF LastGraceEnds, ProcessesInv, LostKillsAreLate
  <2>5. QED
    BY <2>1, <2>2, <2>3, <2>4 DEF ProcessesInv, CallsSound
<1>13. QED
  BY <1>0, <1>1, <1>2, <1>3, <1>4, <1>5, <1>6, <1>7, <1>8, <1>9, <1>10, <1>11, <1>12 DEF ProcessesNext, CallerStep

LEMMA ProcessesInvariant == ProcessesSpec => []ProcessesInv
  BY ProcessesInvInit, ProcessesInvNext, PTL DEF ProcessesSpec

(* However many programs run at once, whatever their helpers do and however   *)
(* few process numbers there are: nothing of a call's group outlives its      *)
(* deadline, and a kill before the child is reaped hits no other call         *)
(* (run_with_timeout, kill_tree, recv_after_exit).                            *)
THEOREM KillsHitTheirOwn == ProcessesSpec => []KillsAreSound
<1>1. ProcessesInv => KillsAreSound
  BY ProcessesAssumption
     DEF ProcessesInv, CallsSound, CallSound, LostKillsAreLate, KillsAreSound
<1>2. QED
  BY <1>1, ProcessesInvariant, PTL
=============================================================================
