---------------------------- MODULE CachedBytes ----------------------------
(***************************************************************************)
(* cached_bytes of an entry: the size of those of its blobs that an        *)
(* earlier entry has as well.  It is stored, and recomputed when the entry *)
(* gets files and when an earlier entry is deleted; the definition is      *)
(* EarlierBytes.  A refresh is a SELECT and an UPDATE, and the artifacts   *)
(* of an entry are inserted some time after the entry itself, so captures, *)
(* deletions, re-archives and subtitle fetches interleave here statement   *)
(* by statement.                                                           *)
(*                                                                         *)
(* Avatars, which do not count, are left out.                              *)
(***************************************************************************)
EXTENDS Integers, FiniteSets, FiniteSetsExt

CONSTANTS
    SizedTask,    \* captures and other tasks
    SizedKindOf,  \* [SizedTask -> SizedKind]
    Blob,
    SizeOf,       \* [Blob -> Nat]
    MaxSized      \* bound: rowids

SizedKind == {"media", "tweet", "subtitle", "rearchive"}
SizedId == 1..MaxSized
NoEntry == 0

ASSUME CachedBytesAssumption ==
    /\ SizedKindOf \in [SizedTask -> SizedKind]
    /\ IsFiniteSet(Blob)
    /\ SizeOf \in [Blob -> Nat]
    /\ MaxSized \in Nat

VARIABLES
    sized,        \* a function from the live rowids to SizedEntry
    storedSize,   \* the cached_bytes column, on the same domain
    sizedClock,   \* archived_at of the latest insert
    sizedAt,      \* [SizedTask -> SizedPlace]
    sizedOwn,     \* [SizedTask -> rowid or NoEntry]
    readSize      \* [SizedTask -> Nat]: what the SELECT of a refresh returned

sizedVars == <<sized, storedSize, sizedClock, sizedAt, sizedOwn, readSize>>

SizedEntry == [root : SizedId, kind : SizedKind, at : Int, blobs : SUBSET Blob]
SizedPlace == {"idle", "attach", "swap", "select", "update", "done"}

SizedLive == DOMAIN sized
NewSizedId == IF SizedLive = {} THEN 1 ELSE Max(SizedLive) + 1
Bytes(S) == FoldSet(LAMBDA b, n : n + SizeOf[b], 0, S)

(* Entries are ordered by archived_at, then by rowid. *)
Before(i, j) == sized[i].at < sized[j].at \/ (sized[i].at = sized[j].at /\ i < j)

(* The value of the subquery for entry j, with the entries in gone left out. *)
EarlierBytes(j, gone) ==
    Bytes({b \in sized[j].blobs :
             \E i \in SizedLive \ gone : Before(i, j) /\ b \in sized[i].blobs})

AtPlace(t, s) == sizedAt[t] = s
GoTo(t, s) == sizedAt' = [sizedAt EXCEPT ![t] = s]

(* The task is over, and what it kept is gone. *)
EndTask(t) ==
    /\ GoTo(t, "done")
    /\ sizedOwn' = [sizedOwn EXCEPT ![t] = NoEntry]
    /\ readSize' = [readSize EXCEPT ![t] = 0]

SizedInit ==
    /\ sized = [i \in {} |-> NoEntry] /\ storedSize = [i \in {} |-> 0]
    /\ sizedClock = 0
    /\ sizedAt = [t \in SizedTask |-> "idle"]
    /\ sizedOwn = [t \in SizedTask |-> NoEntry]
    /\ readSize = [t \in SizedTask |-> 0]

----------------------------------------------------------------------------
(* An entry is inserted with cached_bytes 0, under a root or as one.  Its    *)
(* time is taken before the statement waits for the write lock: inserts may  *)
(* share a tick of the clock, or come out of order.                          *)
InsertSized(t) ==
    /\ AtPlace(t, "idle") /\ SizedKindOf[t] = "media" /\ NewSizedId \in SizedId /\ GoTo(t, "attach")
    /\ \E tick \in {-1, 0, 1}, r \in {i \in SizedLive : sized[i].root = i} \cup {NewSizedId} :
         /\ sized' = [i \in SizedLive \cup {NewSizedId} |->
                      IF i = NewSizedId
                      THEN [root |-> r, kind |-> "media", at |-> sizedClock + tick, blobs |-> {}]
                      ELSE sized[i]]
         /\ sizedClock' = Max({sizedClock, sizedClock + tick})
    /\ storedSize' = [i \in SizedLive \cup {NewSizedId} |-> IF i = NewSizedId THEN 0 ELSE storedSize[i]]
    /\ sizedOwn' = [sizedOwn EXCEPT ![t] = NewSizedId]
    /\ UNCHANGED readSize

(* A subtitle fetch and a re-archive take the rowid of an existing entry.    *)
TakeSized(t) ==
    /\ AtPlace(t, "idle")
    /\ \E i \in SizedLive :
         /\ \/ SizedKindOf[t] = "subtitle" /\ sized[i].kind = "media" /\ GoTo(t, "attach")
            \/ SizedKindOf[t] = "rearchive" /\ sized[i].kind = "tweet" /\ GoTo(t, "swap")
         /\ sizedOwn' = [sizedOwn EXCEPT ![t] = i]
    /\ UNCHANGED <<sized, storedSize, sizedClock, readSize>>

(* The artifact is refused by a foreign key if the entry is gone. *)
AttachBlob(t) ==
    /\ AtPlace(t, "attach")
    /\ \/ /\ sizedOwn[t] \in SizedLive /\ GoTo(t, "select") /\ UNCHANGED <<sizedOwn, readSize>>
          /\ \E b \in Blob : sized' = [sized EXCEPT ![sizedOwn[t]].blobs = @ \cup {b}]
       \/ sizedOwn[t] \notin SizedLive /\ EndTask(t) /\ UNCHANGED sized
    /\ UNCHANGED <<storedSize, sizedClock>>

SwapBlobs(t) ==
    /\ AtPlace(t, "swap")
    /\ \/ /\ sizedOwn[t] \in SizedLive /\ GoTo(t, "select") /\ UNCHANGED <<sizedOwn, readSize>>
          /\ \E S \in SUBSET Blob : sized' = [sized EXCEPT ![sizedOwn[t]].blobs = S]
       \/ sizedOwn[t] \notin SizedLive /\ EndTask(t) /\ UNCHANGED sized
    /\ UNCHANGED <<storedSize, sizedClock>>

(* refresh_entry_cached_bytes: the sum over no rows is 0, and the update of  *)
(* no row is no error.                                                       *)
SelectCached(t) ==
    /\ AtPlace(t, "select") /\ GoTo(t, "update")
    /\ readSize' = [readSize EXCEPT ![t] = IF sizedOwn[t] \in SizedLive THEN EarlierBytes(sizedOwn[t], {}) ELSE 0]
    /\ UNCHANGED <<sized, storedSize, sizedClock, sizedOwn>>

UpdateCached(t) ==
    /\ AtPlace(t, "update") /\ EndTask(t)
    /\ storedSize' = IF sizedOwn[t] \in SizedLive THEN [storedSize EXCEPT ![sizedOwn[t]] = readSize[t]] ELSE storedSize
    /\ UNCHANGED <<sized, sizedClock>>

(* A tweet is inserted, gets its files and its size in one transaction,      *)
(* which has the write lock when it takes the time.                          *)
RecordSizedTweet(t) ==
    /\ AtPlace(t, "idle") /\ SizedKindOf[t] = "tweet" /\ NewSizedId \in SizedId /\ GoTo(t, "done")
    /\ \E S \in SUBSET Blob, tick \in {0, 1} :
         LET i == NewSizedId
             shared == {b \in S : \E j \in SizedLive : b \in sized[j].blobs}
         IN /\ sized' = [j \in SizedLive \cup {i} |->
                         IF j = i THEN [root |-> i, kind |-> "tweet", at |-> sizedClock + tick, blobs |-> S]
                         ELSE sized[j]]
            /\ storedSize' = [j \in SizedLive \cup {i} |-> IF j = i THEN Bytes(shared) ELSE storedSize[j]]
            /\ sizedClock' = sizedClock + tick
    /\ UNCHANGED <<sizedOwn, readSize>>

(* What a deletion takes: the entry and everything it is the root of. *)
SizedTree(i) == {i} \cup {j \in SizedLive : sized[j].root = i}

(* A slip: to recompute as if only the entry itself went.                    *)
RecomputedWithout(j, i) == EarlierBytes(j, {i})

(* What the cascade of a deletion stores for an entry: its bytes without any *)
(* entry of the tree.                                                        *)
Recomputed(j, i) == EarlierBytes(j, SizedTree(i))

(* The entries the cascade recomputes: younger ones that share a blob with   *)
(* an entry of the tree.                                                     *)
Affected(j, i) == \E k \in SizedTree(i) : Before(k, j) /\ sized[j].blobs \cap sized[k].blobs # {}

(* delete_entry, in one transaction. *)
DeleteSized(i) ==
    /\ i \in SizedLive
    /\ sized' = [j \in SizedLive \ SizedTree(i) |-> sized[j]]
    /\ storedSize' = [j \in SizedLive \ SizedTree(i) |->
                    IF Affected(j, i) THEN Recomputed(j, i) ELSE storedSize[j]]
    /\ UNCHANGED <<sizedClock, sizedAt, sizedOwn, readSize>>

----------------------------------------------------------------------------
SizedNext ==
    \/ \E t \in SizedTask :
         \/ InsertSized(t) \/ TakeSized(t) \/ AttachBlob(t) \/ SwapBlobs(t)
         \/ SelectCached(t) \/ UpdateCached(t) \/ RecordSizedTweet(t)
    \/ \E i \in SizedId : DeleteSized(i)

SizedSpec == SizedInit /\ [][SizedNext]_sizedVars

----------------------------------------------------------------------------
(* Properties. *)

(* Every variable keeps its type, and the root of a live entry is live.      *)
SizedTypeOK ==
    /\ SizedLive \subseteq SizedId /\ DOMAIN storedSize = SizedLive
    /\ \A i \in SizedLive : sized[i] \in SizedEntry /\ sized[i].root \in SizedLive /\ storedSize[i] \in Nat
    /\ sizedClock \in Nat
    /\ sizedAt \in [SizedTask -> SizedPlace]
    /\ sizedOwn \in [SizedTask -> SizedId \cup {NoEntry}]
    /\ readSize \in [SizedTask -> Nat]

Right(i) == storedSize[i] = EarlierBytes(i, {})

(* A deletion never makes a stored size wrong, whatever captures are between *)
(* their statements: the one UPDATE that runs before the rows are deleted    *)
(* finds every entry whose earlier bytes change and gives it the new value,  *)
(* for whole trees whose members share blobs with each other, and with ids   *)
(* and timestamps that repeat (cascade_cached_bytes_after_subtree_delete).   *)
DeletionKeepsSizesRight ==
    [][\A i \in SizedId : DeleteSized(i) => \A j \in DOMAIN sized' : Right(j) => Right(j)']_sizedVars
=============================================================================
