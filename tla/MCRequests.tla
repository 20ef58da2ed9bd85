------------------------------ MODULE MCRequests ------------------------------
(***************************************************************************)
(* Small instances of the components that are requests on tables of their  *)
(* own: Accounts, Tags and Visibility.  They share no table, so that a     *)
(* behaviour moves one of them, the focus, and the others rest where they  *)
(* began.                                                                  *)
(***************************************************************************)
EXTENDS Accounts, Tags, Visibility, TLC

CONSTANTS q1, q2, a, b, editors, u1, s0, s1, i1, i2,
    Foci   \* the components a run looks at

VARIABLE focus

(* A root entry and its child. *)
RootAndChild == (i1 :> NoItem) @@ (i2 :> i1)

(* No mask, and one of the guests' bit and the first custom bit. *)
Masks == {{}, {RoleGuest, 4}}

AtRest(f) ==
    CASE f = "accounts" -> uids = 0
      [] f = "tags" -> tags = <<>> /\ tagged = {}
      [] f = "visibility" -> /\ liveRoles = {} /\ DOMAIN shown = {s0} \X Item

RequestVars == <<vars, tagVars, visVars, focus>>
RequestsInit ==
    /\ focus \in Foci
    /\ Init /\ TagsInit /\ VisInit
    /\ \A f \in {"accounts", "tags", "visibility"} \ {focus} : AtRest(f)
RequestsNext ==
    /\ \/ focus = "accounts" /\ Next /\ UNCHANGED <<tagVars, visVars>>
       \/ focus = "tags" /\ TagsNext /\ UNCHANGED <<vars, visVars>>
       \/ focus = "visibility" /\ VisNext /\ UNCHANGED <<vars, tagVars>>
    /\ UNCHANGED focus
RequestsSpec == RequestsInit /\ [][RequestsNext]_RequestVars

(* The requests of a component are interchangeable; each has the same names. *)
Symmetry == Permutations({q1, q2})

(* Every table keeps its type and its keys. *)
RequestsTypeOK == TypeOK /\ TagsTypeOK /\ VisTypeOK
=============================================================================
