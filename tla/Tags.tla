-------------------------------- MODULE Tags --------------------------------
(***************************************************************************)
(* The tag tree of an archive.  A tag's row holds its parent and, beside   *)
(* it, its full path, so every rename and every move has to rewrite the    *)
(* paths of a whole subtree.  The functions read the rows they need        *)
(* statement by statement and open a transaction only for the two UPDATEs, *)
(* so a request may write on rows that another one has changed since.      *)
(* Slugs all have one length, so that cutting a path after the length of   *)
(* a prefix is cutting it after a number of segments.                      *)
(***************************************************************************)
EXTENDS Integers, Sequences, FiniteSets

CONSTANTS
    TagRequest,  \* requests on tags, each of one operation
    Slug,        \* slugs of segments
    MaxTag,      \* bound: rowids of tags
    MaxDepth     \* bound: segments of a path asked for or of a move's result

TagId == 1..MaxTag
NoTag == 0

ASSUME TagsAssumption == MaxTag \in Nat \ 0..2 /\ MaxDepth \in Nat

VARIABLES
    tags,     \* the table: a function from the live rowids to rows
    tagged,   \* entry_tag_assignments of one entry: rowids of tags
    tagUid,   \* uids given out so far
    ask,      \* [TagRequest -> Ask]: what was asked for
    tagAt,    \* [TagRequest -> TagPlace]: the statement it executes next
    seen,     \* [TagRequest -> [id, row]]: the tag it looked up
    under,    \* [TagRequest -> [id, row]]: the parent it looked up
    segment,  \* [TagRequest -> Nat]: segments of its path that exist
    raced     \* ghost: some write relied on a row that had changed

tagVars == <<tags, tagged, tagUid, ask, tagAt, seen, under, segment, raced>>

TagPath == UNION {[1..n -> Slug] : n \in 1..MaxDepth}
TagRow == [uid : Nat, parent : TagId \cup {NoTag}, slug : Slug, path : Seq(Slug)]
TagPlace == {"idle", "segment", "insert", "assign", "tag", "parent", "free",
             "write", "delete", "untag", "looping", "done"}

TagIds == DOMAIN tags

(* The rows a recursive query collects: the least set that has the children  *)
(* of i and, with a tag, its children.                                       *)
Descends(t, i, S) == \A j \in DOMAIN t : t[j].parent \in S \cup {i} => j \in S
Below(t, i) == {j \in DOMAIN t : \A S \in SUBSET DOMAIN t : Descends(t, i, S) => j \in S}

(* full_path is what the parents' slugs spell. *)
PathAgrees(t, i) ==
    IF t[i].parent = NoTag THEN t[i].path = <<t[i].slug>>
    ELSE t[i].parent \in DOMAIN t /\ t[i].path = Append(t[t[i].parent].path, t[i].slug)

Nothing == [id |-> NoTag, row |-> <<>>]
Found(i) == [id |-> i, row |-> tags[i]]
IdOfUid(u) == {i \in TagIds : tags[i].uid = u}
IdOfPath(p) == {i \in TagIds : tags[i].path = p}

(* Any tree of three tags or fewer that requests one after another can make. *)
TagsInit ==
    /\ \E n \in 0..3 : \E parent \in [1..n -> 0..2], slug \in [1..n -> Slug] :
        /\ \A i \in 1..n : parent[i] < i
        /\ LET PathOf[i \in 0..n] ==
                   IF i = 0 THEN <<>> ELSE Append(PathOf[parent[i]], slug[i])
           IN  /\ \A i, j \in 1..n : PathOf[i] = PathOf[j] => i = j
               /\ tags = [i \in 1..n |-> [uid |-> i, parent |-> parent[i],
                                          slug |-> slug[i], path |-> PathOf[i]]]
        /\ tagUid = n
    /\ tagged \in {{}, TagIds}
    /\ ask = [r \in TagRequest |-> <<>>]
    /\ tagAt = [r \in TagRequest |-> "idle"]
    /\ seen = [r \in TagRequest |-> Nothing]
    /\ under = [r \in TagRequest |-> Nothing]
    /\ segment = [r \in TagRequest |-> 0]
    /\ raced = FALSE

TagGo(r, s) == tagAt' = [tagAt EXCEPT ![r] = s]
TagRows == <<tags, tagged, tagUid, raced>>

(* A statement that writes has to wait for a transaction that does not end,  *)
(* and fails after the busy timeout.                                         *)
Blocked == \E r \in TagRequest : tagAt[r] = "looping"

(* The failure ends the request. *)
TagBusy(r) ==
    /\ Blocked /\ tagAt[r] \in {"insert", "assign", "write", "delete", "untag"}
    /\ TagGo(r, "done")
    /\ UNCHANGED <<TagRows, ask, seen, under, segment>>

----------------------------------------------------------------------------
(* What may be asked for.  Uids are those a client has been shown. *)
Asks ==
    [op : {"create", "assign"}, path : TagPath]
    \cup [op : {"rename"}, uid : 1..tagUid, slug : Slug]
    \cup [op : {"move"}, uid : 1..tagUid, to : 0..tagUid]
    \cup [op : {"delete", "untag"}, uid : 1..tagUid]

BeginTag(r) ==
    /\ tagAt[r] = "idle"
    /\ \E a \in Asks :
        /\ ask' = [ask EXCEPT ![r] = a]
        /\ TagGo(r, CASE a.op \in {"create", "assign"} -> "segment"
                      [] a.op = "delete" -> "delete"
                      [] OTHER -> "tag")
    /\ UNCHANGED <<TagRows, seen, under, segment>>

(* create_tag_path: look the next segment up, and insert it if it is not     *)
(* there.  under is the tag of the segment before.                           *)
TagEnd(r) == IF ask[r].op = "assign" THEN "assign" ELSE "done"
Prefix(r) == SubSeq(ask[r].path, 1, segment[r] + 1)
OnSegment(r) == IF segment[r] + 1 = Len(ask[r].path) THEN TagEnd(r) ELSE "segment"

SeekSegment(r) ==
    /\ tagAt[r] = "segment"
    /\ \/ \E i \in IdOfPath(Prefix(r)) :
            /\ under' = [under EXCEPT ![r] = Found(i)]
            /\ segment' = [segment EXCEPT ![r] = @ + 1]
            /\ TagGo(r, OnSegment(r))
       \/ /\ IdOfPath(Prefix(r)) = {}
          /\ TagGo(r, "insert")
          /\ UNCHANGED <<under, segment>>
    /\ UNCHANGED <<TagRows, ask, seen>>

(* SQLite gives the id after the largest: a deleted newest tag leaves its    *)
(* id to the next one.                                                       *)
IsNextTagId(i) == (\A j \in TagIds : j < i) /\ (i = 1 \/ i - 1 \in TagIds)

InsertedRow(r) == [uid |-> tagUid + 1, parent |-> under[r].id,
                   slug |-> ask[r].path[segment[r] + 1], path |-> Prefix(r)]

(* The foreign key of the parent and UNIQUE (full_path) may refuse the row. *)
InsertSegment(r) ==
    /\ tagAt[r] = "insert" /\ ~Blocked
    /\ \/ /\ IdOfPath(Prefix(r)) # {} \/ under[r].id \notin TagIds \cup {NoTag}
          /\ TagGo(r, "done")
          /\ UNCHANGED <<tags, tagUid, under, segment, raced>>
       \/ /\ IdOfPath(Prefix(r)) = {} /\ under[r].id \in TagIds \cup {NoTag}
          /\ \E i \in TagId :
              /\ IsNextTagId(i)
              /\ tags' = [j \in TagIds \cup {i} |-> IF j = i THEN InsertedRow(r) ELSE tags[j]]
              /\ under' = [under EXCEPT ![r] = [id |-> i, row |-> InsertedRow(r)]]
          /\ tagUid' = tagUid + 1
          /\ raced' = (raced \/ (under[r].id # NoTag /\ tags[under[r].id] # under[r].row))
          /\ segment' = [segment EXCEPT ![r] = @ + 1]
          /\ TagGo(r, OnSegment(r))
    /\ UNCHANGED <<tagged, ask, seen>>

(* INSERT OR IGNORE: ignored if assigned already, refused by the foreign key *)
(* if the tag is gone.                                                       *)
AssignedTag(r) == under[r].id

AssignTag(r) ==
    /\ tagAt[r] = "assign" /\ ~Blocked /\ TagGo(r, "done")
    /\ tagged' = IF AssignedTag(r) \in TagIds THEN tagged \cup {AssignedTag(r)} ELSE tagged
    /\ raced' = (raced \/ (under[r].id \in TagIds /\ tags[under[r].id] # under[r].row))
    /\ UNCHANGED <<tags, tagUid, ask, seen, under, segment>>

----------------------------------------------------------------------------
(* rename_tag, move_tag and remove_entry_tag look their tag up by uid; 404.  *)
ReadTag(r) ==
    /\ tagAt[r] = "tag"
    /\ \/ /\ IdOfUid(ask[r].uid) = {} /\ TagGo(r, "done") /\ UNCHANGED seen
       \/ \E i \in IdOfUid(ask[r].uid) :
            /\ seen' = [seen EXCEPT ![r] = Found(i)]
            /\ TagGo(r, CASE ask[r].op = "rename" -> "free"
                          [] ask[r].op = "untag" -> "untag"
                          [] ask[r].op = "move" ->
                                IF ask[r].to = 0 THEN "free" ELSE "parent")
    /\ UNCHANGED <<TagRows, ask, under, segment>>

(* parent.full_path starts with tag.full_path and a slash. *)
StartsBelow(p, q) == Len(p) > Len(q) /\ SubSeq(p, 1, Len(q)) = q

(* The new parent: not found, the tag itself or below it is an error. *)
ReadParent(r) ==
    /\ tagAt[r] = "parent"
    /\ \/ /\ IdOfUid(ask[r].to) = {} /\ TagGo(r, "done") /\ UNCHANGED under
       \/ \E i \in IdOfUid(ask[r].to) :
            /\ under' = [under EXCEPT ![r] = Found(i)]
            /\ TagGo(r, IF \/ ask[r].to = ask[r].uid
                           \/ StartsBelow(tags[i].path, seen[r].row.path)
                        THEN "done" ELSE "free")
    /\ UNCHANGED <<TagRows, ask, seen, segment>>

(* The path the tag is to have, from what was read. *)
NewSlug(r) == IF ask[r].op = "rename" THEN ask[r].slug ELSE seen[r].row.slug
NewParent(r) == IF ask[r].op = "rename" THEN seen[r].row.parent ELSE under[r].id
PathAbove(r) ==
    IF ask[r].op = "rename"
    THEN SubSeq(seen[r].row.path, 1, Len(seen[r].row.path) - 1)
    ELSE under[r].row.path
NewPath(r) ==
    IF ask[r].op = "move" /\ ask[r].to = 0 THEN <<NewSlug(r)>>
    ELSE Append(PathAbove(r), NewSlug(r))

(* The collision check, and the early return of a move that changes nothing. *)
CheckFree(r) ==
    /\ tagAt[r] = "free" /\ Len(NewPath(r)) <= MaxDepth + 1
    /\ TagGo(r, IF \/ ask[r].op = "move" /\ NewPath(r) = seen[r].row.path
                   \/ \E i \in IdOfPath(NewPath(r)) : tags[i].uid # ask[r].uid
                THEN "done" ELSE "write")
    /\ UNCHANGED <<TagRows, ask, seen, under, segment>>

(* A slip: REPLACE, which rewrites the prefix wherever it occurs (here: again *)
(* right behind itself).                                                     *)
ReplacedEverywhere(r, p) ==
    LET n == Len(seen[r].row.path)
        tail == SubSeq(p, n + 1, Len(p))
        again == Len(tail) >= n /\ SubSeq(tail, 1, n) = seen[r].row.path
    IN  NewPath(r) \o (IF again THEN NewPath(r) \o SubSeq(tail, n + 1, Len(tail)) ELSE tail)

(* ?3 || substr(full_path, length(?2) + 1) *)
Rewritten(r, p) == NewPath(r) \o SubSeq(p, Len(seen[r].row.path) + 1, Len(p))

(* The first UPDATE goes by uid, the second by the ids below the id read;    *)
(* the parent is written by a move only.                                     *)
FirstUpdate(r) ==
    [i \in TagIds |->
        IF tags[i].uid # ask[r].uid THEN tags[i]
        ELSE [tags[i] EXCEPT !.slug = IF ask[r].op = "rename" THEN NewSlug(r) ELSE @,
                             !.parent = IF ask[r].op = "move" THEN NewParent(r) ELSE @,
                             !.path = NewPath(r)]]
SecondUpdate(r, t) ==
    [i \in DOMAIN t |->
        IF i \in Below(t, seen[r].id) THEN [t[i] EXCEPT !.path = Rewritten(r, @)] ELSE t[i]]

PathsUnique(t) == \A i, j \in DOMAIN t : t[i].path = t[j].path => i = j
ParentsLive(t) == \A i \in DOMAIN t : t[i].parent \in DOMAIN t \cup {NoTag}

(* The rows this request read and relies on are still as they were. *)
Unchanged(f) == f.id = NoTag \/ (f.id \in TagIds /\ tags[f.id] = f.row)

(* Below a tag that is its own ancestor the recursive query (UNION ALL) does *)
(* not end.                                                                  *)
NeverEnds(t, i) == i \in Below(t, i)

(* One transaction.  If its second statement does not end it keeps the write *)
(* lock.                                                                     *)
Rewrite(r) ==
    LET t == FirstUpdate(r)
    IN  /\ tagAt[r] = "write" /\ ~Blocked
        /\ \/ /\ NeverEnds(t, seen[r].id)
              /\ TagGo(r, "looping") /\ UNCHANGED <<tags, raced>>
           \/ /\ ~NeverEnds(t, seen[r].id)
              /\ TagGo(r, "done")
              /\ LET u == SecondUpdate(r, t)
                 IN  IF ParentsLive(t) /\ PathsUnique(t) /\ PathsUnique(u)
                     THEN /\ tags' = u
                          /\ raced' = (raced \/ ~Unchanged(seen[r]) \/ ~Unchanged(under[r]))
                     ELSE UNCHANGED <<tags, raced>>
        /\ UNCHANGED <<tagged, tagUid, ask, seen, under, segment>>

(* The assignments of a deleted tag go with it.  A slip: they stay.          *)
KeptAssignments(gone) == tagged
OtherAssignments(gone) == tagged \ gone

(* delete_tag: one statement for the subtree, assignments cascade. *)
DeleteTag(r) ==
    /\ tagAt[r] = "delete" /\ ~Blocked /\ TagGo(r, "done")
    /\ LET gone == UNION {{i} \cup Below(tags, i) : i \in IdOfUid(ask[r].uid)}
       IN  /\ tags' = [i \in TagIds \ gone |-> tags[i]]
           /\ tagged' = OtherAssignments(gone)
    /\ UNCHANGED <<tagUid, raced, ask, seen, under, segment>>

(* remove_entry_tag deletes the assignment by the rowid it read. *)
Untag(r) ==
    /\ tagAt[r] = "untag" /\ ~Blocked /\ TagGo(r, "done")
    /\ tagged' = tagged \ {seen[r].id}
    /\ raced' = (raced \/ ~Unchanged(seen[r]))
    /\ UNCHANGED <<tags, tagUid, ask, seen, under, segment>>

TagStep(r) ==
    \/ BeginTag(r) \/ SeekSegment(r) \/ InsertSegment(r) \/ AssignTag(r)
    \/ ReadTag(r) \/ ReadParent(r) \/ CheckFree(r) \/ Rewrite(r)
    \/ DeleteTag(r) \/ Untag(r) \/ TagBusy(r)

TagsNext == \E r \in TagRequest : TagStep(r)
TagsSpec == TagsInit /\ [][TagsNext]_tagVars

----------------------------------------------------------------------------
(* Properties. *)

(* Every variable keeps its type. *)
TagsTypeOK ==
    /\ TagIds \subseteq TagId /\ \A i \in TagIds : tags[i] \in TagRow
    /\ tagged \subseteq TagIds
    /\ tagUid \in Nat /\ \A i \in TagIds : tags[i].uid \in 1..tagUid
    /\ tagAt \in [TagRequest -> TagPlace]
    /\ segment \in [TagRequest -> 0..MaxDepth]
    /\ raced \in BOOLEAN

(* Through any sequence of creations, renames, moves and deletions the full  *)
(* path of every tag is what the slugs on its way from the root spell, as    *)
(* long as no request wrote on a row that another had changed since it read  *)
(* it (create_tag_path, rename_tag, move_tag): the search by a tag's path    *)
(* finds its subtree.                                                        *)
PathsSpellTheTree == raced \/ \A i \in TagIds : PathAgrees(tags, i)

(* Even when requests race, no transaction commits a tag that is its own     *)
(* ancestor: the listings, which recurse with UNION ALL, would never end.    *)
TreeHasNoCycle == \A i \in TagIds : i \notin Below(tags, i)

(* An assignment that is added is one to the tag whose path was asked for,   *)
(* and one that goes without its tag is the one asked for, unless a request  *)
(* relied on a row that had changed (assign_entry_tag, remove_entry_tag).    *)
AssignmentsAsAsked ==
    [][\A i \in TagIds \cap DOMAIN tags' :
        (i \in tagged) # (i \in tagged') =>
            \/ raced'
            \/ \E r \in TagRequest :
                 /\ tagAt[r] # "done" /\ tagAt'[r] = "done"
                 /\ IF i \in tagged' THEN ask[r].op = "assign" /\ tags[i].path = ask[r].path
                                      ELSE ask[r].op = "untag" /\ tags[i].uid = ask[r].uid
      ]_tagVars

(* move_tag documents that it returns an error if the new parent is a        *)
(* descendant of the tag: no transaction meets that case.                    *)
MoveRefusesDescendants == \A r \in TagRequest : tagAt[r] # "looping"

(* All of it: the tree, the paths and the assignments say what was asked for *)
(* (create_tag_path, rename_tag, move_tag, delete_tag, assign_entry_tag).    *)
TagsKeepTheirMeaning == [](PathsSpellTheTree /\ TreeHasNoCycle) /\ AssignmentsAsAsked
=============================================================================
