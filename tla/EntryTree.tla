----------------------------- MODULE EntryTree -----------------------------
(***************************************************************************)
(* The archived_entries table: rowids, the two-level tree of playlists and *)
(* their members, the order of siblings, and the tasks that keep a rowid   *)
(* while they download: playlist captures (the id of their container),     *)
(* every capture between the insert of its entry and of its artifacts,     *)
(* re-archives and subtitle fetches.                                       *)
(*                                                                         *)
(* Rowids are INTEGER PRIMARY KEY without AUTOINCREMENT: SQLite gives a    *)
(* new row the largest id plus one, so the id of the newest entry is       *)
(* handed out again once that entry is deleted.  Entries also have a uid,  *)
(* which is never reused, but the tasks hold rowids.                       *)
(*                                                                         *)
(* Artifacts carry the uid their task meant (aim), and entries the uid of  *)
(* the container meant (under): ghosts, as lost and looked are.            *)
(***************************************************************************)
EXTENDS Integers, FiniteSets

CONSTANTS
    Task,     \* captures, re-archives and subtitle fetches
    KindOf,   \* [Task -> Kind]
    Members,  \* length of the one playlist that all playlist tasks capture
    MaxId     \* bound: rowids

Kind == {"media", "tweet", "playlist", "sync", "rearchive", "subtitle"}
Member == 1..Members
Id == 1..MaxId
Null == 0

ASSUME EntryTreeAssumption ==
    /\ KindOf \in [Task -> Kind]
    /\ Members \in Nat
    /\ MaxId \in Nat

VARIABLES
    ent,     \* the table: a function from the live rowids to Entry
    clock,   \* archived_at of the latest insert
    pc,      \* [Task -> TaskState]
    held,    \* [Task -> rowid or Null]: container a playlist appends to
    own,     \* [Task -> rowid or Null]: entry it attaches its file to
    aim,     \* [Task -> Uid]: which entry that was when it took the id
    todo,    \* [Task -> SUBSET Member]
    looked,  \* ghost: clock when a sync looked for its container
    lost     \* ghost: tasks one of whose entries was deleted under them

local == <<pc, held, own, aim, todo>>
vars == <<ent, clock, local, looked, lost>>

(* The member, or Null for the entry the capture was asked for. *)
Uid == Task \X (Member \cup {Null})
Label == [by : Task, aim : Uid]
Entry == [uid : Uid, parent : Id \cup {Null}, root : Id \cup {Null},
          position : Int, at : Nat, under : Uid, from : SUBSET Label]
TaskState == {"idle", "lookup", "listing", "insert", "root", "enrol",
              "members", "attach", "swap", "ended", "done"}

Live == DOMAIN ent
Children(i) == {j \in Live : ent[j].parent = i}
Roots == {i \in Live : ent[i].parent = Null}
Containers == {i \in Roots : KindOf[ent[i].uid[1]] \in {"playlist", "sync"}
                             /\ ent[i].uid[2] = Null}
IsVideo(i) == KindOf[ent[i].uid[1]] = "media" \/ ent[i].uid[2] # Null
Newest(S) == CHOOSE i \in S : \A j \in S : ent[j].at <= ent[i].at
Largest(S) == CHOOSE n \in S : \A k \in S : k <= n

(* The rowid SQLite gives to the next row. *)
NewId == IF Live = {} THEN 1 ELSE Largest(Live) + 1

(* A slip: to number the members by counting them. *)
CountedPosition(p) == Cardinality(Children(p))

(* The position a new child is given, in the statement that inserts it. *)
NextPosition(p) == Largest({-1} \cup {ent[j].position : j \in Children(p)}) + 1

(* What a playlist capture passes as root_entry_id of its members. *)
RootGiven(t) == held[t]

(* A slip: to attach to whatever was inserted last. *)
LastInserted(t) == Largest(Live \cup {Null})

(* The entry a task attaches its file to: the rowid it kept. *)
AttachTo(t) == own[t]

At(t, s) == pc[t] = s
Go(t, s) == pc' = [pc EXCEPT ![t] = s]
IsPlaylist(t) == KindOf[t] \in {"playlist", "sync"}
Active == {t \in Task : pc[t] \notin {"idle", "ended", "done"}}

NewEntry(t, m, p, r, files) ==
    [uid |-> <<t, m>>, parent |-> p, root |-> r,
     position |-> IF p = Null THEN -1 ELSE NextPosition(p),
     at |-> clock + 1, under |-> IF p = Null THEN <<t, m>> ELSE <<t, Null>>,
     from |-> files]

Add(e) ==
    /\ NewId \in Id
    /\ ent' = [i \in Live \cup {NewId} |-> IF i = NewId THEN e ELSE ent[i]]
    /\ clock' = clock + 1

Keep(t, m) ==
    /\ own' = [own EXCEPT ![t] = NewId]
    /\ aim' = [aim EXCEPT ![t] = <<t, m>>]

Init ==
    /\ ent = [i \in {} |-> Null] /\ clock = 0
    /\ pc = [t \in Task |-> "idle"]
    /\ held = [t \in Task |-> Null]
    /\ own = [t \in Task |-> Null]
    /\ aim = [t \in Task |-> <<t, Null>>]
    /\ todo = [t \in Task |-> {}]
    /\ looked = [t \in Task |-> 0]
    /\ lost = {}

----------------------------------------------------------------------------
(* Tasks. *)

(* A re-archive reads the rowid of a tweet and starts to scrape, a subtitle  *)
(* fetch that of a video and starts to download.                             *)
Begin(t) ==
    /\ At(t, "idle")
    /\ \/ KindOf[t] \in {"media", "tweet", "playlist"} /\ Go(t, "insert")
          /\ UNCHANGED <<own, aim>>
       \/ KindOf[t] = "sync" /\ Go(t, "lookup") /\ UNCHANGED <<own, aim>>
       \/ /\ KindOf[t] \in {"rearchive", "subtitle"}
          /\ Go(t, IF KindOf[t] = "rearchive" THEN "swap" ELSE "attach")
          /\ \E i \in Live :
               /\ IF KindOf[t] = "rearchive" THEN KindOf[ent[i].uid[1]] = "tweet" ELSE IsVideo(i)
               /\ own' = [own EXCEPT ![t] = i]
               /\ aim' = [aim EXCEPT ![t] = ent[i].uid]
    /\ todo' = [todo EXCEPT ![t] = IF IsPlaylist(t) THEN Member ELSE {}]
    /\ UNCHANGED <<ent, clock, held, looked, lost>>

(* A slip: to look for a container that has members, by an inner join. *)
FilledContainers == {i \in Containers : Children(i) # {}}

(* find_container_entry_id_by_canonical_url: the newest root of the URL. *)
Matching == Containers

Lookup(t) ==
    /\ At(t, "lookup")
    /\ looked' = [looked EXCEPT ![t] = clock]
    /\ IF Matching = {}
       THEN Go(t, "insert") /\ UNCHANGED held
       ELSE Go(t, "listing") /\ held' = [held EXCEPT ![t] = Newest(Matching)]
    /\ UNCHANGED <<ent, clock, own, aim, todo, lost>>

(* get_archived_playlist_child_urls: under any container of the URL. *)
Archived(t) == {ent[j].uid[2] : j \in {j \in Live : ent[j].parent \in Containers}}

(* The run item is completed with the container first: a foreign key. *)
Listing(t) ==
    /\ At(t, "listing")
    /\ \/ held[t] \in Live /\ Go(t, "members")
          /\ todo' = [todo EXCEPT ![t] = Member \ Archived(t)]
       \/ held[t] \notin Live /\ Go(t, "ended") /\ UNCHANGED todo
    /\ UNCHANGED <<ent, clock, held, own, aim, looked, lost>>

(* create_archived_entry of a root, first statement. *)
InsertRoot(t) ==
    /\ At(t, "insert") /\ KindOf[t] # "tweet" /\ Go(t, "root")
    /\ Add(NewEntry(t, Null, Null, Null, {})) /\ Keep(t, Null)
    /\ UNCHANGED <<held, todo, looked, lost>>

(* Second statement: UPDATE ... SET root_entry_id = id WHERE id = id. *)
SetRoot(t) ==
    /\ At(t, "root") /\ Go(t, IF IsPlaylist(t) THEN "enrol" ELSE "attach")
    /\ ent' = IF own[t] \in Live THEN [ent EXCEPT ![own[t]].root = own[t]] ELSE ent
    /\ UNCHANGED <<clock, held, own, aim, todo, looked, lost>>

(* The container joins the default collection and completes its run item,    *)
(* both foreign keys; its rowid is kept for the rest of the run.             *)
Enrol(t) ==
    /\ At(t, "enrol")
    /\ IF own[t] \in Live
       THEN Go(t, "members") /\ held' = [held EXCEPT ![t] = own[t]]
       ELSE Go(t, "ended") /\ UNCHANGED held
    /\ UNCHANGED <<ent, clock, own, aim, todo, looked, lost>>

(* The playlist loop, in the order of the listing: a member is downloaded    *)
(* and inserted under the container, or fails and is passed over; it must    *)
(* fail if no entry has the container's id any more.                         *)
InsertMember(t) ==
    /\ At(t, "members") /\ todo[t] # {}
    /\ LET m == CHOOSE n \in todo[t] : \A k \in todo[t] : n <= k
       IN /\ todo' = [todo EXCEPT ![t] = @ \ {m}]
          /\ \/ /\ held[t] \in Live /\ Go(t, "attach")
                /\ Add(NewEntry(t, m, held[t], RootGiven(t), {})) /\ Keep(t, m)
             \/ UNCHANGED <<ent, clock, pc, own, aim>>
    /\ UNCHANGED <<held, looked, lost>>

(* add_entry_artifact, for an entry that still has its id; the error of a    *)
(* member is its own.                                                        *)
Attach(t) ==
    /\ At(t, "attach") /\ Go(t, IF IsPlaylist(t) THEN "members" ELSE "ended")
    /\ ent' = IF AttachTo(t) \in Live
              THEN [ent EXCEPT ![AttachTo(t)].from = @ \cup {[by |-> t, aim |-> aim[t]]}]
              ELSE ent
    /\ UNCHANGED <<clock, held, own, aim, todo, looked, lost>>

(* The transaction of a tweet capture. *)
RecordTweet(t) ==
    /\ At(t, "insert") /\ KindOf[t] = "tweet" /\ Go(t, "ended")
    /\ Add(NewEntry(t, Null, Null, NewId, {[by |-> t, aim |-> <<t, Null>>]})) /\ Keep(t, Null)
    /\ UNCHANGED <<held, todo, looked, lost>>

(* The transaction of a re-archive: all artifacts of the rowid are deleted,  *)
(* those of the scraped tweet inserted.                                      *)
SwapArtifacts(t) ==
    /\ At(t, "swap") /\ Go(t, "ended")
    /\ ent' = IF AttachTo(t) \in Live
              THEN [ent EXCEPT ![AttachTo(t)].from = {[by |-> t, aim |-> aim[t]]}]
              ELSE ent
    /\ UNCHANGED <<clock, held, own, aim, todo, looked, lost>>

(* The task is over, by its end, a failure or a crash: what it kept is gone. *)
Stop(t) ==
    /\ t \in Active \/ At(t, "ended")
    /\ Go(t, "done")
    /\ held' = [held EXCEPT ![t] = Null]
    /\ own' = [own EXCEPT ![t] = Null]
    /\ aim' = [aim EXCEPT ![t] = <<t, Null>>]
    /\ todo' = [todo EXCEPT ![t] = {}]
    /\ UNCHANGED <<ent, clock, looked, lost>>

----------------------------------------------------------------------------
(* Requests, each one transaction. *)

(* The order must list exactly the current children, once each. *)
ListsChildren(p, S) == S = Children(p)

Orders(S) == {f \in [S -> 0..(Cardinality(S) - 1)] :
                \A i, j \in S : f[i] = f[j] => i = j}

ReorderChildren(p) ==
    /\ p \in Live
    /\ \E S \in (SUBSET Children(p)) \ {{}} : \E f \in Orders(S) :
         /\ ListsChildren(p, S)
         /\ ent' = [i \in Live |-> IF i \in S THEN [ent[i] EXCEPT !.position = f[i]] ELSE ent[i]]
    /\ UNCHANGED <<clock, local, looked, lost>>

(* What delete_entry takes for the tree of i. *)
Subtree(i) == {i} \cup {j \in Live : ent[j].root = i}

(* A slip: without PRAGMA foreign_keys. *)
NoForeignKeys(S) == TRUE

(* Parent and root are foreign keys without ON DELETE: rows that are left    *)
(* behind must not refer to the deleted ones.                                *)
Unblocked(S) == \A j \in Live \ S : ent[j].parent \notin S /\ ent[j].root \notin S

DeleteEntry(i) ==
    /\ i \in Live /\ Unblocked(Subtree(i))
    /\ ent' = [j \in Live \ Subtree(i) |-> ent[j]]
    /\ lost' = lost \cup {t \in Active : held[t] \in Subtree(i) \/ own[t] \in Subtree(i)}
    /\ UNCHANGED <<clock, local, looked>>

----------------------------------------------------------------------------
TaskStep(t) ==
    \/ Begin(t) \/ Lookup(t) \/ Listing(t) \/ InsertRoot(t) \/ SetRoot(t)
    \/ Enrol(t) \/ InsertMember(t) \/ Attach(t) \/ RecordTweet(t)
    \/ SwapArtifacts(t) \/ Stop(t)

Next ==
    \/ \E t \in Task : TaskStep(t)
    \/ \E i \in Id : ReorderChildren(i) \/ DeleteEntry(i)

Spec == Init /\ [][Next]_vars

----------------------------------------------------------------------------
(* Properties. *)

(* Every variable keeps its type, and no row refers to a row that is gone. *)
TypeOK ==
    /\ Live \subseteq Id
    /\ \A i \in Live :
         /\ ent[i] \in Entry
         /\ ent[i].parent \in Live \cup {Null}
         /\ ent[i].root \in Live \cup {Null}
    /\ clock \in Nat
    /\ pc \in [Task -> TaskState]
    /\ held \in [Task -> Id \cup {Null}]
    /\ own \in [Task -> Id \cup {Null}]
    /\ aim \in [Task -> Uid]
    /\ todo \in [Task -> SUBSET Member]
    /\ looked \in [Task -> Nat]
    /\ lost \subseteq Task

(* Siblings never share a position, through members appended by several      *)
(* captures at once, reorder requests with a stale list, and deletions that  *)
(* leave gaps (create_archived_entry, reorder_child_entries, delete_entry).  *)
SiblingsHaveDistinctPositions ==
    \A i, j \in Live :
        ent[i].parent # Null /\ ent[i].parent = ent[j].parent /\ i # j =>
            ent[i].position # ent[j].position

(* Unless an entry was deleted under a task that keeps its rowid, every      *)
(* entry can be deleted: the tree that delete_entry collects by root is      *)
(* closed under parents, and no foreign key of a row left behind blocks it.  *)
DeletableUnlessLost ==
    lost = {} => \A i \in Live : Unblocked(Subtree(i))

(* A file ends up in the entry it was fetched for, and a member under the    *)
(* container of its own capture or the one its sync found, however the ids   *)
(* of deleted entries are handed out again, if none of the task's own was    *)
(* deleted under it (last_insert_rowid, add_entry_artifact).                 *)
NoStraysUnlessLost ==
    \A i \in Live :
        /\ \A f \in ent[i].from : f.by \notin lost => f.aim = ent[i].uid
        /\ ent[i].parent # Null /\ ent[i].uid[1] \notin lost => ent[i].parent \in Containers

(* What was in the archive when a sync looked is not captured again: it      *)
(* makes no second container, and no member that is under any container of   *)
(* the playlist (the sync branch of perform_capture).                        *)
SyncAddsNothingTwice ==
    \A i, j \in Live :
        LET t == ent[j].uid[1]
        IN KindOf[t] = "sync" /\ t \notin lost /\ ent[i].at <= looked[t]
           /\ (i \in Containers \/ ent[i].parent \in Containers)
           => ent[i].uid[2] # ent[j].uid[2]

(* capture.rs says that perform_rearchive re-archives an existing tweet in   *)
(* place: it changes no entry but the one it was asked for.                  *)
RearchiveTouchesItsEntry ==
    [][\A t \in Task : SwapArtifacts(t) =>
        \A i \in Live : ent'[i].from # ent[i].from => ent[i].uid = aim[t]]_vars


(* Both: only a task one of whose entries was deleted under it can leave     *)
(* something in another entry or a tree that cannot be deleted               *)
(* (perform_capture, delete_entry).                                          *)
StraysOnlyIfLost == DeletableUnlessLost /\ NoStraysUnlessLost
=============================================================================
