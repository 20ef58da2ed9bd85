------------------------------ MODULE Processes ------------------------------
(***************************************************************************)
(* Child processes with a deadline: process::run_with_timeout (summaries,  *)
(* ffmpeg, transcription engines) and its twin in ytdlp.rs.  The child     *)
(* leads a process group; a helper it starts inherits its pipes, may keep  *)
(* them after the child has exited, and may leave the group.  The caller   *)
(* polls the child, kills the group at the deadline, and gives the threads *)
(* that drain the pipes two periods of grace.                              *)
(*                                                                         *)
(* The number of a group is free again once its leader is reaped and no    *)
(* member is left: kill(2) then hits whoever got it since.                 *)
(***************************************************************************)
EXTENDS Naturals

CONSTANTS
    Run,        \* calls, each of one child
    Strict,     \* those of process.rs: output that cannot be read is an error
    Helped,     \* those whose child may start a helper
    GroupId     \* process numbers

ASSUME ProcessesAssumption == Strict \subseteq Run /\ Helped \subseteq Run /\ GroupId \subseteq Nat \ {0}

VARIABLES
    runAt,      \* [Run -> RunPlace]
    group,      \* [Run -> GroupId \cup {0}]: the number of its child
    child,      \* [Run -> ChildState]
    helper,     \* [Run -> HelperState]
    held,       \* [Run -> SUBSET Pipe]: the pipes its helper holds open
    drained,    \* [Run -> SUBSET Pipe]: the readers that saw the end of file
    expired,    \* SUBSET Run: past their deadline
    lostKill    \* ghost: calls whose processes another call killed, by its place

processVars == <<runAt, group, child, helper, held, drained, expired, lostKill>>

Pipe == {"out", "err"}
RunPlace == {"idle", "polling", "out", "lastout", "err", "lasterr", "ok", "failed", "timedout"}
Returned == {"ok", "failed", "timedout"}
ChildState == {"none", "running", "ok", "bad", "killed"}
HelperState == {"none", "member", "away", "gone"}

ProcessesInit ==
    /\ runAt = [c \in Run |-> "idle"] /\ group = [c \in Run |-> 0]
    /\ child = [c \in Run |-> "none"] /\ helper = [c \in Run |-> "none"]
    /\ held = [c \in Run |-> {}] /\ drained = [c \in Run |-> {}]
    /\ expired = {} /\ lostKill = {}

RunMoves(c, s, t) == runAt[c] = s /\ runAt' = [runAt EXCEPT ![c] = t]
Reaped(c) == child[c] # "running" /\ runAt[c] \notin {"idle", "polling"}
InUse(g) == \E c \in Run : group[c] = g /\ (~Reaped(c) \/ helper[c] = "member")

----------------------------------------------------------------------------
(* The child and its helper, which is not the program's. *)
StartHelper(c) ==
    /\ c \in Helped /\ child[c] = "running" /\ helper[c] = "none"
    /\ helper' = [helper EXCEPT ![c] = "member"]
    /\ \E P \in SUBSET Pipe : held' = [held EXCEPT ![c] = P]
    /\ UNCHANGED <<runAt, group, child, drained, expired, lostKill>>
LeaveGroup(c) ==
    /\ helper[c] = "member" /\ held[c] # {} /\ helper' = [helper EXCEPT ![c] = "away"]
    /\ UNCHANGED <<runAt, group, child, held, drained, expired, lostKill>>
EndHelper(c) ==
    /\ helper[c] \in {"member", "away"} /\ helper' = [helper EXCEPT ![c] = "gone"]
    /\ held' = [held EXCEPT ![c] = {}]
    /\ UNCHANGED <<runAt, group, child, drained, expired, lostKill>>
EndChild(c) ==
    /\ child[c] = "running" /\ \E s \in {"ok", "bad"} : child' = [child EXCEPT ![c] = s]
    /\ UNCHANGED <<runAt, group, helper, held, drained, expired, lostKill>>

(* The reader threads read until nobody holds the other end. *)
Drain(c) ==
    /\ runAt[c] \notin Returned \cup {"idle"} /\ child[c] # "running"
    /\ drained[c] # Pipe \ held[c] /\ drained' = [drained EXCEPT ![c] = Pipe \ held[c]]
    /\ UNCHANGED <<runAt, group, child, helper, held, expired, lostKill>>
PassDeadline(c) ==
    /\ runAt[c] = "polling" /\ c \notin expired /\ expired' = expired \cup {c}
    /\ UNCHANGED <<runAt, group, child, helper, held, drained, lostKill>>

----------------------------------------------------------------------------
(* A slip: only the child is killed. *)
OnlyTheChild(c) == {}
InGroup(c) == {d \in Run : group[d] = group[c]}

(* Members of the group with c's number, whoever they belong to by now.      *)
KillGroup(c, alsoChild) ==
    LET hit == InGroup(c)
        kids == {d \in hit \cup (IF alsoChild THEN {c} ELSE {}) : child[d] = "running"}
        helpers == {d \in hit : helper[d] = "member"}
    IN  /\ child' = [d \in Run |-> IF d \in kids THEN "killed" ELSE child[d]]
        /\ helper' = [d \in Run |-> IF d \in helpers THEN "gone" ELSE helper[d]]
        /\ held' = [d \in Run |-> IF d \in helpers THEN {} ELSE held[d]]
        /\ lostKill' = lostKill \cup {<<d, runAt[c]>> : d \in (kids \cup helpers) \ {c}}

(* A free number, here the least, so that one is used again soon. *)
Spawn(c) ==
    /\ \/ /\ RunMoves(c, "idle", "polling") /\ child' = [child EXCEPT ![c] = "running"]
          /\ \E g \in GroupId :
                /\ ~InUse(g) /\ (\A h \in GroupId : h < g => InUse(h))
                /\ group' = [group EXCEPT ![c] = g]
       \/ RunMoves(c, "idle", "failed") /\ UNCHANGED <<child, group>>
    /\ UNCHANGED <<helper, held, drained, expired, lostKill>>

(* try_wait reaps a child that has exited. *)
SeeExit(c) ==
    /\ child[c] # "running" /\ RunMoves(c, "polling", "out")
    /\ UNCHANGED <<group, child, helper, held, drained, expired, lostKill>>

(* kill_tree, at the deadline or when try_wait itself fails: the child is    *)
(* not reaped before it, so that its number is its own.                      *)
KillTree(c) ==
    /\ \/ child[c] = "running" /\ c \in expired /\ RunMoves(c, "polling", "timedout")
       \/ RunMoves(c, "polling", "failed")
    /\ KillGroup(c, TRUE)
    /\ UNCHANGED <<group, drained, expired>>

----------------------------------------------------------------------------
(* recv_after_exit, for one pipe and then the other. *)
AfterPipe(c) == IF runAt[c] \in {"out", "lastout"} THEN "err" ELSE
            IF c \in Strict /\ child[c] # "ok" THEN "failed" ELSE "ok"
PipeAt(c) == IF runAt[c] \in {"out", "lastout"} THEN "out" ELSE "err"
Receiving(c) == runAt[c] \in {"out", "lastout", "err", "lasterr"}

(* The text of stdout must be UTF-8 in process.rs. *)
Received(c) ==
    /\ Receiving(c) /\ PipeAt(c) \in drained[c]
    /\ \/ runAt' = [runAt EXCEPT ![c] = AfterPipe(c)]
       \/ c \in Strict /\ PipeAt(c) = "out" /\ runAt' = [runAt EXCEPT ![c] = "failed"]
    /\ UNCHANGED <<group, child, helper, held, drained, expired, lostKill>>
GraceEnds(c) ==
    /\ \/ PipeAt(c) = "out" /\ RunMoves(c, "out", "lastout")
       \/ PipeAt(c) = "err" /\ RunMoves(c, "err", "lasterr")
    /\ PipeAt(c) \notin drained[c] /\ KillGroup(c, FALSE)
    /\ UNCHANGED <<group, drained, expired>>

(* A slip: the second period of grace has no end. *)
WaitsOn(c) == FALSE
GivesUp(c) == PipeAt(c) \notin drained[c]

(* A helper that left the group still holds the pipe: an error in process.rs,*)
(* no output in ytdlp.rs.                                                    *)
LastGraceEnds(c) ==
    /\ runAt[c] \in {"lastout", "lasterr"} /\ GivesUp(c)
    /\ runAt' = [runAt EXCEPT ![c] = IF c \in Strict THEN "timedout" ELSE AfterPipe(c)]
    /\ UNCHANGED <<group, child, helper, held, drained, expired, lostKill>>

----------------------------------------------------------------------------
CallerStep(c) ==
    \/ Spawn(c) \/ SeeExit(c) \/ KillTree(c)
    \/ Received(c) \/ GraceEnds(c) \/ LastGraceEnds(c)
ProcessesNext ==
    \E c \in Run :
        \/ CallerStep(c) \/ PassDeadline(c) \/ StartHelper(c) \/ LeaveGroup(c)
        \/ EndHelper(c) \/ EndChild(c) \/ Drain(c)

(* Clocks run and callers are scheduled, one or the other while there is a   *)
(* call: a deadline passes once.  Nothing is asked of the children.          *)
ProcessesFairness ==
    \A c \in Run : WF_processVars(runAt[c] # "idle" /\ (PassDeadline(c) \/ CallerStep(c)))
ProcessesSpec == ProcessesInit /\ [][ProcessesNext]_processVars /\ ProcessesFairness

----------------------------------------------------------------------------
(* Properties. *)

ProcessesTypeOK ==
    /\ runAt \in [Run -> RunPlace] /\ group \in [Run -> GroupId \cup {0}]
    /\ child \in [Run -> ChildState] /\ helper \in [Run -> HelperState]
    /\ held \in [Run -> SUBSET Pipe] /\ drained \in [Run -> SUBSET Pipe]
    /\ expired \subseteq Run /\ lostKill \subseteq Run \X RunPlace

(* A call with a deadline returns, whatever its child does: it may run on    *)
(* for ever, leave its pipes to a helper, and the helper may leave the group *)
(* (run_with_timeout, recv_after_exit).                                      *)
BoundedCallsReturn == \A c \in Run : runAt[c] = "polling" ~> runAt[c] \in Returned

(* Of a call that timed out nothing of its group runs on, and a kill before  *)
(* the child is reaped hits no other call: only one after the exit can, when *)
(* the group is empty and its number has been given out again; output that   *)
(* is returned as whole was read to its end.                                 *)
KillsAreSound ==
    /\ ProcessesTypeOK
    /\ \A c \in Run : runAt[c] = "timedout" => child[c] # "running" /\ helper[c] # "member"
    /\ \A k \in lostKill : k[2] \in {"out", "err"}
    /\ \A c \in Strict : runAt[c] = "ok" => drained[c] = Pipe /\ child[c] = "ok"
=============================================================================
