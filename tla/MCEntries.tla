------------------------------ MODULE MCEntries ------------------------------
(***************************************************************************)
(* Small instances of EntryTree and of CachedBytes for TLC.  The two look  *)
(* at different columns of archived_entries, each with its own tasks: a    *)
(* behaviour moves the one that is its focus.  The tasks of EntryTree are  *)
(* those of one mix.                                                       *)
(***************************************************************************)
EXTENDS EntryTree, CachedBytes, TLC

CONSTANTS t1, t2, t3, t4, t5, t6, s1, s2, s3, s4, s5, blob,
    Mixes,  \* the sets of tasks that run together
    Foci    \* the components a run looks at

VARIABLES mix, focus

Kinds == (t1 :> "playlist") @@ (t2 :> "sync") @@ (t3 :> "tweet")
         @@ (t4 :> "rearchive") @@ (t5 :> "subtitle") @@ (t6 :> "media")

(* A fresh playlist capture and a sync of the same playlist; every kind of   *)
(* task that keeps a rowid while it downloads, with a capture whose entry it *)
(* can take: the subtitle fetch those of the sync's members.                 *)
AllKinds == {{t1, t2}, {t2, t3, t4, t5}}

(* A re-archive and captures that may take the rowid of its entry. *)
Rearchive == {{t3, t4, t6}}

(* Captures that take their time, a tweet, and tasks that change what an     *)
(* entry has: a subtitle fetch and a re-archive.                             *)
SizedMix == (s1 :> "media") @@ (s2 :> "media") @@ (s3 :> "tweet")
             @@ (s4 :> "subtitle") @@ (s5 :> "rearchive")
OneSize == blob :> 1

(* The two media captures are interchangeable. *)
SameKind == Permutations({s1, s2})

(* At most four of the five are at work in one behaviour. *)
FourTasks == \E t \in SizedTask : sizedAt[t] = "idle"

(* Six rowids hold two containers and their members; four are enough to hand *)
(* one out again while others are held.                                      *)
WithinMix ==
    /\ \A t \in Task \ mix : pc[t] = "idle"
    /\ Cardinality(mix) > 2 => Live \subseteq 1..4

EntriesVars == <<vars, sizedVars, mix, focus>>
EntriesInit ==
    /\ focus \in Foci /\ mix \in Mixes /\ (focus = "sizes" => mix = {t1, t2})
    /\ Init /\ SizedInit
EntriesNext ==
    /\ UNCHANGED <<mix, focus>>
    /\ \/ focus = "tree" /\ UNCHANGED sizedVars /\ Next /\ WithinMix'
       \/ focus = "sizes" /\ UNCHANGED vars /\ SizedNext /\ FourTasks'
EntriesSpec == EntriesInit /\ [][EntriesNext]_EntriesVars

(* Every variable of both components keeps its type, every row its keys. *)
EntriesTypeOK == TypeOK /\ SizedTypeOK
=============================================================================
