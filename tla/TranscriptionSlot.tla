-------------------------- MODULE TranscriptionSlot --------------------------
(***************************************************************************)
(* The slot that admits one transcription at a time in a server process: a *)
(* Mutex around a flag and a Condvar (transcriber.rs, SLOT).  A thread     *)
(* waits for it until a deadline of its own.  The mutex is held for single *)
(* stretches between which nothing else happens, so each is one step here. *)
(* The deadline may pass at any time, and a wait may end without a notify. *)
(***************************************************************************)
CONSTANTS Waiter      \* threads that ask for the slot, once each

VARIABLES
    busy,     \* the flag
    slotAt,   \* [Waiter -> SlotPlace]
    overdue   \* waiters whose deadline has passed

slotVars == <<busy, slotAt, overdue>>

SlotPlace == {"idle", "entering", "asleep", "woken", "working", "notifying", "done", "refused"}

SlotInit ==
    /\ busy = FALSE
    /\ slotAt = [t \in Waiter |-> "idle"]
    /\ overdue = {}

At(s) == {t \in Waiter : slotAt[t] = s}
SlotGo(t, s) == slotAt' = [slotAt EXCEPT ![t] = s]

Enter(t) == slotAt[t] = "idle" /\ SlotGo(t, "entering") /\ UNCHANGED <<busy, overdue>>

(* A slip: a waiter that was woken does not test again. *)
FreeOrWoken(t) == ~busy \/ slotAt[t] = "woken"
MayTake(t) == ~busy

(* wait_timeout_while: the flag is tested before the deadline. *)
TakeSlot(t) ==
    /\ slotAt[t] \in {"entering", "woken"} /\ MayTake(t)
    /\ busy' = TRUE /\ SlotGo(t, "working") /\ UNCHANGED overdue
Sleep(t) ==
    /\ slotAt[t] \in {"entering", "woken"} /\ ~MayTake(t) /\ t \notin overdue
    /\ SlotGo(t, "asleep") /\ UNCHANGED <<busy, overdue>>
GiveUp(t) ==
    /\ slotAt[t] \in {"entering", "woken"} /\ ~MayTake(t) /\ t \in overdue
    /\ SlotGo(t, "refused") /\ UNCHANGED <<busy, overdue>>

(* A deadline passes: whoever sleeps wakes up. *)
Expire(t) ==
    /\ slotAt[t] \in {"entering", "asleep", "woken"} /\ t \notin overdue
    /\ overdue' = overdue \cup {t}
    /\ slotAt' = IF slotAt[t] = "asleep" THEN [slotAt EXCEPT ![t] = "woken"] ELSE slotAt
    /\ UNCHANGED busy
WakeForNothing(t) ==
    slotAt[t] = "asleep" /\ SlotGo(t, "woken") /\ UNCHANGED <<busy, overdue>>

FlagAfterDrop == FALSE

(* SlotGuard is dropped, on success, on an error and on a panic: the flag    *)
(* under the mutex, and the notify after it.                                 *)
Release(t) ==
    slotAt[t] = "working" /\ busy' = FlagAfterDrop /\ SlotGo(t, "notifying") /\ UNCHANGED overdue
NotifyOne(t) ==
    /\ slotAt[t] = "notifying"
    /\ \/ At("asleep") = {} /\ SlotGo(t, "done")
       \/ \E w \in At("asleep") : slotAt' = [slotAt EXCEPT ![t] = "done", ![w] = "woken"]
    /\ UNCHANGED <<busy, overdue>>

SlotStep(t) ==
    \/ Enter(t) \/ TakeSlot(t) \/ Sleep(t) \/ GiveUp(t) \/ Expire(t)
    \/ WakeForNothing(t) \/ Release(t) \/ NotifyOne(t)
SlotNext == \E t \in Waiter : SlotStep(t)
SlotSpec == SlotInit /\ [][SlotNext]_slotVars

----------------------------------------------------------------------------
(* Properties. *)

(* Every variable keeps its type, and the flag is set exactly while a thread *)
(* transcribes (acquire_slot, SlotGuard::drop).                              *)
SlotTypeOK ==
    /\ busy \in BOOLEAN /\ slotAt \in [Waiter -> SlotPlace] /\ overdue \subseteq Waiter
    /\ busy <=> \E t \in Waiter : slotAt[t] = "working"

(* Two threads never transcribe at the same time, whoever was woken by what  *)
(* (acquire_slot).                                                           *)
OneTranscribes == \A t, u \in Waiter : slotAt[t] = "working" /\ slotAt[u] = "working" => t = u

(* A free slot is not slept through: while a thread sleeps and nobody has    *)
(* the slot, some thread is about to look at it or to wake a sleeper.  The   *)
(* wake-up of a waiter whose deadline passes just then is not lost           *)
(* (SlotGuard::drop, wait_timeout_while).                                    *)
NoLostWakeup ==
    ~busy /\ At("asleep") # {} => At("entering") \cup At("woken") \cup At("notifying") # {}

(* Both: the slot serves its waiters one by one (acquire_slot).              *)
SlotServesOneByOne == OneTranscribes /\ NoLostWakeup
=============================================================================
