--------------------------- MODULE CaptureService ---------------------------
(***************************************************************************)
(* What submitting a capture over the HTTP API promises, seen by a client  *)
(* that polls the job and looks at the archive: while the request is open, *)
(* items of it become saved; it is settled at most once, as done or as     *)
(* failed; done means that its own root item was saved; and a settled      *)
(* request never changes again, neither its outcome nor what it saved.     *)
(***************************************************************************)
CONSTANTS Request, Item, Root

VARIABLES
    phase,  \* [Request -> Phase]
    saved   \* [Request -> SUBSET Item]: the items with an archived entry

vars == <<phase, saved>>

Phase == {"none", "open", "done", "failed"}

Init ==
    /\ phase = [r \in Request |-> "none"]
    /\ saved = [r \in Request |-> {}]

Accept(r) ==
    /\ phase[r] = "none"
    /\ phase' = [phase EXCEPT ![r] = "open"]
    /\ UNCHANGED saved

Work(r) ==
    /\ phase[r] = "open"
    /\ \E S \in SUBSET Item : saved' = [saved EXCEPT ![r] = S]
    /\ UNCHANGED phase

Settle(r) ==
    /\ phase[r] = "open"
    /\ \/ Root \in saved[r] /\ phase' = [phase EXCEPT ![r] = "done"]
       \/ phase' = [phase EXCEPT ![r] = "failed"]
    /\ UNCHANGED saved

(* A restart of the server settles the requests it interrupted together. *)
Interrupt ==
    /\ \E S \in SUBSET {r \in Request : phase[r] = "open"} :
         phase' = [r \in Request |-> IF r \in S THEN "failed" ELSE phase[r]]
    /\ UNCHANGED saved

Next == Interrupt \/ \E r \in Request : Accept(r) \/ Work(r) \/ Settle(r)

Spec == Init /\ [][Next]_vars
=============================================================================
