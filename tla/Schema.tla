------------------------------- MODULE Schema -------------------------------
(***************************************************************************)
(* Opening the databases.  Every request, every job and the command line   *)
(* open the archive database anew, and every time the tables and columns   *)
(* that an older version had not are added, in many statements of their    *)
(* own: openings overlap with each other, with captures of a connection    *)
(* that is open, and with the death of the process (initialize_schema,     *)
(* initialize_auth_schema, create_archived_entry).                         *)
(*                                                                         *)
(* The columns that only hold text are one; of the sizes, only whether     *)
(* they are what the code would compute.  One container has all children.  *)
(***************************************************************************)
EXTENDS Naturals, FiniteSets, FiniteSetsExt

CONSTANTS
    Opener,         \* connections being opened
    OldChild,       \* SUBSET Nat: rowids of children in the old database
    MaxSchemaCrashes

ASSUME SchemaAssumption == OldChild \subseteq Nat /\ IsFiniteSet(OldChild) /\ MaxSchemaCrashes \in Nat /\ 0 \notin OldChild

VARIABLES
    opening,    \* [Opener -> step]
    columns,    \* SUBSET {"cached_bytes", "position", "texts"}
    hasTables,  \* BOOLEAN: the statements of CREATE TABLE IF NOT EXISTS are through
    made,       \* [OldChild -> 0..1]: archived_at
    size,       \* [OldChild -> SizeState]: cached_bytes
    spot,       \* [OldChild -> Nat \cup {Unset}]: position
    enrolled,   \* [entries there are -> Bits]: rows of the default collection
    old,        \* BOOLEAN: the summary table is the one that has one attempt per key
    newRoot,    \* "none", "inserted" or "done": an entry a capture creates
    roleBits,   \* bits of the custom roles
    onceBits,   \* history: those there were at the beginning
    recorded,   \* role_bit_allocations
    schemaCrashes,
    halfDone,   \* history: a process died between a column and its values
    overtaken   \* history: an opening enrolled an entry that was being created

archiveTables == <<columns, hasTables, made, size, spot, enrolled, old, newRoot>>
authTables == <<roleBits, onceBits, recorded>>
schemaVars == <<opening, archiveTables, authTables, schemaCrashes, halfDone, overtaken>>

NewRoot == 0
Unset == 99
WithAvatar == {CHOOSE c \in OldChild : TRUE}
Enrollable == OldChild \cup {NewRoot}
SizeState == {"none", "zero", "withAvatar", "right"}

\* visibility_to_bits, and the CASE of the migration: 'public', 'unlisted', the rest.
BitsOf(visibility) == CASE visibility = "public" -> {0, 1} [] visibility = "unlisted" -> {1} [] OTHER -> {}
DefaultBits == {1}

\* The order children had before: archived_at, then rowid.
Before(a, b) == made[a] < made[b] \/ (made[a] = made[b] /\ a < b)
\* A slip in it: siblings of one second are not told apart.
RankBySecond(c) == Cardinality({s \in OldChild : made[s] < made[c]})
RankOf(c) == Cardinality({s \in OldChild : Before(s, c)})

\* An archive of some earlier version, with children that nobody enrolled.
SchemaInit ==
    /\ opening = [o \in Opener |-> "closed"] /\ hasTables \in BOOLEAN
    /\ columns \in SUBSET {"cached_bytes", "position"}
    /\ made \in [OldChild -> 0..1]
    /\ size = [e \in OldChild |-> IF "cached_bytes" \notin columns THEN "none"
                                  ELSE IF e \in WithAvatar THEN "withAvatar" ELSE "right"]
    /\ spot = [c \in OldChild |-> IF "position" \in columns THEN RankOf(c) ELSE Unset]
    /\ "position" \in columns => hasTables
    /\ enrolled = [e \in {} |-> {}]
    /\ old \in BOOLEAN /\ newRoot = "none"
    /\ roleBits = {4, 5} /\ onceBits = roleBits /\ recorded = {}
    /\ schemaCrashes = 0 /\ halfDone = FALSE /\ overtaken = FALSE

To(o, step) == opening' = [opening EXCEPT ![o] = step]
From(o, step) == opening[o] = step
Fails(o) == To(o, "closed")

----------------------------------------------------------------------------
(* initialize_schema.                                                      *)

\* Tables and indexes, the default collection; what is there stays.
CreateTables(o) ==
    /\ From(o, "closed") /\ hasTables' = TRUE /\ To(o, "enroll")
    /\ UNCHANGED <<columns, made, size, spot, enrolled, old, newRoot, authTables, schemaCrashes, halfDone,
                   overtaken>>

ThereNow == IF newRoot = "none" THEN OldChild ELSE Enrollable

\* Every entry joins the default collection as its visibility says; captures write
\* 'private'.
EnrollOld(o) ==
    /\ From(o, "enroll") /\ To(o, "sizes")
    /\ enrolled' = [e \in ThereNow |-> IF e \in DOMAIN enrolled THEN enrolled[e]
                                       ELSE BitsOf(IF e = NewRoot THEN "private" ELSE "unlisted")]
    /\ overtaken' = (overtaken \/ (NewRoot \in ThereNow \ DOMAIN enrolled))
    /\ UNCHANGED <<columns, hasTables, made, size, spot, old, newRoot, authTables, schemaCrashes, halfDone>>

\* The sizes: a column that is missing is added and filled, in two statements;
\* otherwise those with avatars are computed again.
CheckSizes(o) ==
    /\ From(o, "sizes")
    /\ To(o, IF "cached_bytes" \in columns THEN "avatars" ELSE "addSizes")
    /\ UNCHANGED <<archiveTables, authTables, schemaCrashes, halfDone, overtaken>>
AddSizes(o) ==
    /\ From(o, "addSizes")
    /\ IF "cached_bytes" \in columns
       THEN Fails(o) /\ UNCHANGED <<columns, size>>
       ELSE /\ To(o, "fillSizes") /\ columns' = columns \cup {"cached_bytes"}
            /\ size' = [e \in OldChild |-> "zero"]
    /\ UNCHANGED <<hasTables, made, spot, enrolled, old, newRoot, authTables, schemaCrashes, halfDone,
                   overtaken>>
FillSizes(o) ==
    /\ From(o, "fillSizes") /\ To(o, "texts")
    /\ size' = [e \in OldChild |-> "right"]
    /\ UNCHANGED <<columns, hasTables, made, spot, enrolled, old, newRoot, authTables, schemaCrashes,
                   halfDone, overtaken>>
FixAvatars(o) ==
    /\ From(o, "avatars") /\ To(o, "texts")
    /\ size' = [e \in OldChild |-> IF e \in WithAvatar THEN "right" ELSE size[e]]
    /\ UNCHANGED <<columns, hasTables, made, spot, enrolled, old, newRoot, authTables, schemaCrashes,
                   halfDone, overtaken>>

\* notes_json, created_by, resolved_model, requires_auth: a failure is ignored.
AddTexts(o) ==
    /\ From(o, "texts") /\ columns' = columns \cup {"texts"} /\ To(o, "position")
    /\ UNCHANGED <<hasTables, made, size, spot, enrolled, old, newRoot, authTables, schemaCrashes, halfDone,
                   overtaken>>

CheckPosition(o) ==
    /\ From(o, "position")
    /\ To(o, IF "position" \in columns THEN "summaries" ELSE "addPosition")
    /\ UNCHANGED <<archiveTables, authTables, schemaCrashes, halfDone, overtaken>>
\* BEGIN IMMEDIATE, look again, add and fill, COMMIT.
AddPosition(o) ==
    /\ From(o, "addPosition") /\ To(o, "summaries")
    /\ columns' = columns \cup {"position"}
    /\ spot' = IF "position" \in columns THEN spot ELSE [c \in OldChild |-> RankOf(c)]
    /\ UNCHANGED <<hasTables, made, size, enrolled, old, newRoot, authTables, schemaCrashes, halfDone,
                   overtaken>>

\* The table of summary attempts is built anew, in a transaction.
CheckSummaries(o) ==
    /\ From(o, "summaries") /\ To(o, IF old THEN "rebuild" ELSE "open")
    /\ UNCHANGED <<archiveTables, authTables, schemaCrashes, halfDone, overtaken>>
RebuildSummaries(o) ==
    /\ From(o, "rebuild") /\ To(o, "open") /\ old' = FALSE
    /\ UNCHANGED <<columns, hasTables, made, size, spot, enrolled, newRoot, authTables, schemaCrashes, halfDone, overtaken>>

----------------------------------------------------------------------------
(* initialize_auth_schema: the columns, whose failures are ignored, then a  *)
(* record of the bits that custom roles have.                              *)
OpenAuth(o) ==
    /\ From(o, "closed") /\ To(o, "authBits")
    /\ UNCHANGED <<archiveTables, authTables, schemaCrashes, halfDone, overtaken>>

\* A slip in it: the record is of the roles there are.
RecordLive == roleBits
RecordBits == recorded \cup roleBits

BackfillBits(o) ==
    /\ From(o, "authBits") /\ To(o, "authOpen")
    /\ recorded' = RecordBits
    /\ UNCHANGED <<archiveTables, roleBits, onceBits, schemaCrashes, halfDone, overtaken>>

\* delete_custom_role, of a connection that is open.
DropRole(o) == /\ From(o, "authOpen") /\ \E b \in roleBits : roleBits' = roleBits \ {b}
               /\ UNCHANGED <<opening, archiveTables, onceBits, recorded, schemaCrashes, halfDone, overtaken>>

----------------------------------------------------------------------------
(* create_archived_entry of a root, on a connection that is open: the row,  *)
(* its root id, the default collection and its mask, the membership.        *)
InsertEntry(o) ==
    /\ From(o, "open") /\ newRoot = "none" /\ newRoot' = "inserted"
    /\ To(o, "creating")
    /\ UNCHANGED <<columns, hasTables, made, size, spot, enrolled, old, authTables, schemaCrashes, halfDone,
                   overtaken>>

\* add_entry_to_collection: INSERT OR IGNORE.
EnrollEntry(o) ==
    /\ From(o, "creating") /\ newRoot' = "done" /\ To(o, "open")
    /\ enrolled' = [e \in DOMAIN enrolled \cup {NewRoot} |-> IF e \in DOMAIN enrolled THEN enrolled[e] ELSE DefaultBits]
    /\ UNCHANGED <<columns, hasTables, made, size, spot, old, authTables, schemaCrashes, halfDone, overtaken>>

Close(o) ==
    /\ opening[o] \in {"open", "authOpen"} /\ To(o, "closed")
    /\ UNCHANGED <<archiveTables, authTables, schemaCrashes, halfDone, overtaken>>

\* Every connection of the process goes.
SchemaCrash ==
    /\ schemaCrashes < MaxSchemaCrashes /\ schemaCrashes' = schemaCrashes + 1
    /\ opening' = [o \in Opener |-> "closed"]
    /\ halfDone' = (halfDone \/ \E o \in Opener : From(o, "fillSizes"))
    /\ UNCHANGED <<archiveTables, authTables, overtaken>>

SchemaNext ==
    \/ \E o \in Opener :
        \/ CreateTables(o) \/ EnrollOld(o) \/ CheckSizes(o) \/ AddSizes(o) \/ FillSizes(o) \/ FixAvatars(o)
        \/ AddTexts(o) \/ CheckPosition(o) \/ AddPosition(o) \/ CheckSummaries(o) \/ RebuildSummaries(o)
        \/ OpenAuth(o) \/ BackfillBits(o) \/ DropRole(o) \/ InsertEntry(o) \/ EnrollEntry(o) \/ Close(o)
    \/ SchemaCrash
SchemaSpec == SchemaInit /\ [][SchemaNext]_schemaVars

----------------------------------------------------------------------------
(* Properties. *)

SchemaTypeOK ==
    /\ columns \subseteq {"cached_bytes", "position", "texts"} /\ size \in [OldChild -> SizeState]
    /\ spot \in [OldChild -> Nat] /\ DOMAIN enrolled \subseteq Enrollable /\ recorded \subseteq {4, 5}

Opened == \E o \in Opener : opening[o] \in {"open", "creating"}
Filling == halfDone \/ \E o \in Opener : From(o, "fillSizes")

(* Behind any opening that went through, whatever others were under way and  *)
(* wherever one died: children are in the order they had, with positions of  *)
(* their own; sizes are right, unless a process died, or is, between the     *)
(* column and its values; a forced attempt at a summary finds a table that   *)
(* takes it (initialize_schema).                                             *)
OpenedIsMigrated ==
    Opened =>
        /\ hasTables /\ ~old /\ columns = {"cached_bytes", "position", "texts"} /\ OldChild \subseteq DOMAIN enrolled
        /\ \A c, d \in OldChild : Before(c, d) => spot[c] < spot[d]
        /\ Filling \/ \A e \in OldChild : size[e] = "right"

(* A bit that a custom role had is never forgotten once the auth database    *)
(* was opened, also when the role goes (initialize_auth_schema).             *)
BitsAreRecorded == (\E o \in Opener : From(o, "authOpen")) => onceBits \subseteq recorded

(* A new root joins the default collection with the mask of the collection,  *)
(* unless an opening enrolled it between two statements of its capture       *)
(* (create_archived_entry).                                                  *)
EnrolledUnlessOvertaken == newRoot = "done" => overtaken \/ enrolled[NewRoot] = DefaultBits

(* What create_archived_entry says of it, and its test: the mask of the      *)
(* collection is respected, whatever visibility the capture passes.          *)
EnrolledAsConfigured == newRoot = "done" => enrolled[NewRoot] = DefaultBits

(* All of it.                                                                *)
OpenedIsSound == OpenedIsMigrated /\ BitsAreRecorded /\ EnrolledUnlessOvertaken
=============================================================================
