---------------------------- MODULE LibraryProofs ----------------------------
(***************************************************************************)
(* Proofs about the components of the library: the openings of the         *)
(* databases, the capture tab, the rail, the list and its selection, the   *)
(* drafts of the capture dialog, the providers, the titles, the gate and   *)
(* the lists, and what they make together.                                 *)
(***************************************************************************)
EXTENDS MCLibrary, FiniteSetTheorems, SequenceTheorems, WellFoundedInduction, TLAPS

----------------------------------------------------------------------------
(* Schema.  The invariant says, for every statement at which an opening may  *)
(* stand, what the statements before it have made sure of, whatever other    *)
(* openings, captures and crashes came between; once there are positions     *)
(* they are the ranks; and a role that went was recorded before.             *)

(* The statements of an opening of the archive, in the order they run; the   *)
(* sizes are filled or fixed on one of two ways.                             *)
FromOpen == {"open", "creating"}
FromRebuild == FromOpen \cup {"rebuild"}
FromSummaries == FromRebuild \cup {"summaries"}
FromPosition == FromSummaries \cup {"position", "addPosition"}
FromTexts == FromPosition \cup {"texts"}
FromSizes == FromTexts \cup {"sizes", "addSizes", "fillSizes", "avatars"}
FromEnroll == FromSizes \cup {"enroll"}
OpeningPlace == FromEnroll \cup {"closed", "authBits", "authOpen"}

AllRight == \A e \in OldChild : size[e] = "right"

OpeningSound(o) ==
    /\ opening[o] \in FromEnroll => hasTables
    /\ opening[o] \in FromSizes => OldChild \subseteq DOMAIN enrolled
    /\ opening[o] \in FromTexts \cup {"avatars", "fillSizes"} => "cached_bytes" \in columns
    /\ opening[o] \in FromTexts => Filling \/ AllRight
    /\ opening[o] \in FromPosition => "texts" \in columns
    /\ opening[o] \in FromSummaries => "position" \in columns
    /\ opening[o] \in FromOpen => ~old
    /\ opening[o] = "creating" => newRoot # "none"
    /\ opening[o] = "authOpen" => onceBits \subseteq recorded

TablesTyped ==
    /\ opening \in [Opener -> OpeningPlace]
    /\ columns \subseteq {"cached_bytes", "position", "texts"}
    /\ hasTables \in BOOLEAN /\ old \in BOOLEAN /\ halfDone \in BOOLEAN /\ overtaken \in BOOLEAN
    /\ made \in [OldChild -> 0..1] /\ size \in [OldChild -> SizeState] /\ spot \in [OldChild -> Nat]
    /\ newRoot \in {"none", "inserted", "done"} /\ DOMAIN enrolled \subseteq Enrollable
    /\ onceBits = {4, 5} /\ roleBits \subseteq onceBits /\ recorded \subseteq onceBits

SizesSound ==
    /\ "cached_bytes" \in columns /\ ~Filling => \A e \in OldChild \ WithAvatar : size[e] = "right"
RootSound ==
    /\ newRoot = "none" => NewRoot \notin DOMAIN enrolled
    /\ newRoot = "inserted" => (NewRoot \in DOMAIN enrolled => overtaken)
    /\ newRoot = "done" => NewRoot \in DOMAIN enrolled /\ (overtaken \/ enrolled[NewRoot] = DefaultBits)
BitsSound == roleBits = onceBits \/ onceBits \subseteq recorded
SpotsSound == "position" \in columns => \A c \in OldChild : spot[c] = RankOf(c)

SchemaInv ==
    /\ TablesTyped /\ SizesSound /\ RootSound /\ BitsSound /\ SpotsSound
    /\ \A o \in Opener : OpeningSound(o)

LEMMA RanksAreNumbers == \A c \in OldChild : RankOf(c) \in Nat
  BY SchemaAssumption, FS_Subset, FS_CardinalityType DEF RankOf

(* Ranks are as children were ordered: whoever is before a child is before   *)
(* whatever it is before, too.                                               *)
LEMMA RanksAreOrdered ==
  ASSUME NEW c \in OldChild, NEW d \in OldChild, made \in [OldChild -> 0..1], Before(c, d)
  PROVE  RankOf(c) < RankOf(d)
<1> DEFINE earlier == {s \in OldChild : Before(s, c)}
           later == {s \in OldChild : Before(s, d)}
<1>1. made[c] \in Nat /\ made[d] \in Nat /\ c \in Nat /\ d \in Nat
  BY SchemaAssumption
<1>2. ASSUME NEW s \in earlier PROVE s \in later
  <2>1. s \in Nat /\ made[s] \in Nat /\ Before(s, c)
    BY SchemaAssumption
  <2>2. QED
    BY <1>1, <2>1 DEF Before
<1>3. c \in later /\ c \notin earlier
  BY <1>1 DEF Before
<1>4. IsFiniteSet(later) /\ earlier \in SUBSET later /\ earlier # later
  BY <1>2, <1>3, SchemaAssumption, FS_Subset
<1> HIDE DEF earlier, later
<1>5. Cardinality(earlier) <= Cardinality(later) /\ Cardinality(earlier) # Cardinality(later)
  BY <1>4, FS_Subset
<1>6. Cardinality(earlier) \in Nat /\ Cardinality(later) \in Nat
  BY <1>4, FS_Subset, FS_CardinalityType
<1>7. QED
  BY <1>5, <1>6 DEF RankOf, earlier, later

LEMMA SchemaStarts == SchemaInit => SchemaInv
<1> SUFFICES ASSUME SchemaInit PROVE SchemaInv
  OBVIOUS
<1>1. TablesTyped
  <2>1. spot \in [OldChild -> Nat]
    BY RanksAreNumbers DEF SchemaInit, Unset
  <2>2. size \in [OldChild -> SizeState]
    BY DEF SchemaInit, SizeState
  <2>3. QED
    BY <2>1, <2>2 DEF SchemaInit, TablesTyped, OpeningPlace
<1>2. SizesSound
  BY DEF SchemaInit, SizesSound
<1>3. RootSound /\ BitsSound /\ SpotsSound
  BY DEF SchemaInit, RootSound, BitsSound, SpotsSound, RankOf, Before
<1>4. ASSUME NEW o \in Opener PROVE OpeningSound(o)
  BY DEF SchemaInit, OpeningSound, OpeningPlace, FromEnroll, FromSizes, FromTexts, FromPosition, FromSummaries,
         FromRebuild, FromOpen
<1>5. QED
  BY <1>1, <1>2, <1>3, <1>4 DEF SchemaInv

(* Positions are the ranks, which no step changes: it leaves archived_at.    *)
LEMMA RanksStay == UNCHANGED made => \A c \in OldChild : RankOf(c)' = RankOf(c)
  BY DEF RankOf, Before

LEMMA CreateTablesSound == ASSUME SchemaInv, NEW o \in Opener, CreateTables(o) PROVE SchemaInv'
<1> USE DEF SchemaInv, CreateTables, From, To, Fails, archiveTables, authTables
<1>1. TablesTyped'
  BY RanksAreNumbers DEF TablesTyped, OpeningPlace, FromEnroll, FromSizes, FromTexts, FromPosition, FromSummaries, FromRebuild, FromOpen, SizeState, Enrollable, ThereNow, RecordBits
<1>2. SizesSound'
  BY DEF SizesSound, TablesTyped, Filling, From, WithAvatar
<1>3. RootSound' /\ BitsSound'
  BY SchemaAssumption DEF RootSound, BitsSound, TablesTyped, OpeningSound, NewRoot, ThereNow, Enrollable, RecordBits
<1>4. SpotsSound'
  BY RanksStay DEF SpotsSound
<1>5. ASSUME NEW p \in Opener PROVE OpeningSound(p)'
  BY <1>2 DEF OpeningSound, TablesTyped, SizesSound, OpeningPlace, FromEnroll, FromSizes, FromTexts, FromPosition, FromSummaries, FromRebuild, FromOpen, Filling, From, AllRight, ThereNow, Enrollable, BitsSound, RecordBits
<1>6. QED
  BY <1>1, <1>2, <1>3, <1>4, <1>5

LEMMA EnrollOldSound == ASSUME SchemaInv, NEW o \in Opener, EnrollOld(o) PROVE SchemaInv'
<1> USE DEF SchemaInv, EnrollOld, From, To, Fails, archiveTables, authTables
<1>1. TablesTyped'
  BY RanksAreNumbers DEF TablesTyped, OpeningPlace, FromEnroll, FromSizes, FromTexts, FromPosition, FromSummaries, FromRebuild, FromOpen, SizeState, Enrollable, ThereNow, RecordBits
<1>2. SizesSound'
  BY DEF SizesSound, TablesTyped, Filling, From, WithAvatar
<1>3. RootSound' /\ BitsSound'
  BY SchemaAssumption DEF RootSound, BitsSound, TablesTyped, OpeningSound, NewRoot, ThereNow, Enrollable, RecordBits
<1>4. SpotsSound'
  BY RanksStay DEF SpotsSound
<1>5. ASSUME NEW p \in Opener PROVE OpeningSound(p)'
  BY <1>2 DEF OpeningSound, TablesTyped, SizesSound, OpeningPlace, FromEnroll, FromSizes, FromTexts, FromPosition, FromSummaries, FromRebuild, FromOpen, Filling, From, AllRight, ThereNow, Enrollable, BitsSound, RecordBits
<1>6. QED
  BY <1>1, <1>2, <1>3, <1>4, <1>5

LEMMA CheckSizesSound == ASSUME SchemaInv, NEW o \in Opener, CheckSizes(o) PROVE SchemaInv'
<1> USE DEF SchemaInv, CheckSizes, From, To, Fails, archiveTables, authTables
<1>1. TablesTyped'
  BY RanksAreNumbers DEF TablesTyped, OpeningPlace, FromEnroll, FromSizes, FromTexts, FromPosition, FromSummaries, FromRebuild, FromOpen, SizeState, Enrollable, ThereNow, RecordBits
<1>2. SizesSound'
  BY DEF SizesSound, TablesTyped, Filling, From, WithAvatar
<1>3. RootSound' /\ BitsSound'
  BY SchemaAssumption DEF RootSound, BitsSound, TablesTyped, OpeningSound, NewRoot, ThereNow, Enrollable, RecordBits
<1>4. SpotsSound'
  BY RanksStay DEF SpotsSound
<1>5. ASSUME NEW p \in Opener PROVE OpeningSound(p)'
  BY <1>2 DEF OpeningSound, TablesTyped, SizesSound, OpeningPlace, FromEnroll, FromSizes, FromTexts, FromPosition, FromSummaries, FromRebuild, FromOpen, Filling, From, AllRight, ThereNow, Enrollable, BitsSound, RecordBits
<1>6. QED
  BY <1>1, <1>2, <1>3, <1>4, <1>5

LEMMA AddSizesSound == ASSUME SchemaInv, NEW o \in Opener, AddSizes(o) PROVE SchemaInv'
<1> USE DEF SchemaInv, AddSizes, From, To, Fails, archiveTables, authTables
<1>1. TablesTyped'
  BY RanksAreNumbers, ZenonT(40) DEF TablesTyped, OpeningPlace, FromEnroll, FromSizes, FromTexts, FromPosition, FromSummaries, FromRebuild, FromOpen, SizeState, Enrollable, ThereNow, RecordBits
<1>2. SizesSound'
  BY DEF SizesSound, TablesTyped, Filling, From, WithAvatar
<1>3. RootSound' /\ BitsSound'
  BY SchemaAssumption DEF RootSound, BitsSound, TablesTyped, OpeningSound, NewRoot, ThereNow, Enrollable, RecordBits
<1>4. SpotsSound'
  BY RanksStay DEF SpotsSound
<1>5. ASSUME NEW p \in Opener PROVE OpeningSound(p)'
  BY <1>2 DEF OpeningSound, TablesTyped, SizesSound, OpeningPlace, FromEnroll, FromSizes, FromTexts, FromPosition, FromSummaries, FromRebuild, FromOpen, Filling, From, AllRight, ThereNow, Enrollable, BitsSound, RecordBits
<1>6. QED
  BY <1>1, <1>2, <1>3, <1>4, <1>5

LEMMA FillSizesSound == ASSUME SchemaInv, NEW o \in Opener, FillSizes(o) PROVE SchemaInv'
<1> USE DEF SchemaInv, FillSizes, From, To, Fails, archiveTables, authTables
<1>1. TablesTyped'
  BY RanksAreNumbers DEF TablesTyped, OpeningPlace, FromEnroll, FromSizes, FromTexts, FromPosition, FromSummaries, FromRebuild, FromOpen, SizeState, Enrollable, ThereNow, RecordBits
<1>2. SizesSound'
  BY DEF SizesSound, TablesTyped, Filling, From, WithAvatar
<1>3. RootSound' /\ BitsSound'
  BY SchemaAssumption DEF RootSound, BitsSound, TablesTyped, OpeningSound, NewRoot, ThereNow, Enrollable, RecordBits
<1>4. SpotsSound'
  BY RanksStay DEF SpotsSound
<1>5. ASSUME NEW p \in Opener PROVE OpeningSound(p)'
  BY <1>2 DEF OpeningSound, TablesTyped, SizesSound, OpeningPlace, FromEnroll, FromSizes, FromTexts, FromPosition, FromSummaries, FromRebuild, FromOpen, Filling, From, AllRight, ThereNow, Enrollable, BitsSound, RecordBits
<1>6. QED
  BY <1>1, <1>2, <1>3, <1>4, <1>5

LEMMA FixAvatarsSound == ASSUME SchemaInv, NEW o \in Opener, FixAvatars(o) PROVE SchemaInv'
<1> USE DEF SchemaInv, FixAvatars, From, To, Fails, archiveTables, authTables
<1>1. TablesTyped'
  BY RanksAreNumbers DEF TablesTyped, OpeningPlace, FromEnroll, FromSizes, FromTexts, FromPosition, FromSummaries, FromRebuild, FromOpen, SizeState, Enrollable, ThereNow, RecordBits
<1>2. SizesSound'
  BY DEF SizesSound, TablesTyped, Filling, From, WithAvatar
<1>3. RootSound' /\ BitsSound'
  BY SchemaAssumption DEF RootSound, BitsSound, TablesTyped, OpeningSound, NewRoot, ThereNow, Enrollable, RecordBits
<1>4. SpotsSound'
  BY RanksStay DEF SpotsSound
<1>5. ASSUME NEW p \in Opener PROVE OpeningSound(p)'
  BY <1>2 DEF OpeningSound, TablesTyped, SizesSound, OpeningPlace, FromEnroll, FromSizes, FromTexts, FromPosition, FromSummaries, FromRebuild, FromOpen, Filling, From, AllRight, ThereNow, Enrollable, BitsSound, RecordBits
<1>6. QED
  BY <1>1, <1>2, <1>3, <1>4, <1>5

LEMMA AddTextsSound == ASSUME SchemaInv, NEW o \in Opener, AddTexts(o) PROVE SchemaInv'
<1> USE DEF SchemaInv, AddTexts, From, To, Fails, archiveTables, authTables
<1>1. TablesTyped'
  BY RanksAreNumbers DEF TablesTyped, OpeningPlace, FromEnroll, FromSizes, FromTexts, FromPosition, FromSummaries, FromRebuild, FromOpen, SizeState, Enrollable, ThereNow, RecordBits
<1>2. SizesSound'
  BY DEF SizesSound, TablesTyped, Filling, From, WithAvatar
<1>3. RootSound' /\ BitsSound'
  BY SchemaAssumption DEF RootSound, BitsSound, TablesTyped, OpeningSound, NewRoot, ThereNow, Enrollable, RecordBits
<1>4. SpotsSound'
  BY RanksStay DEF SpotsSound
<1>5. ASSUME NEW p \in Opener PROVE OpeningSound(p)'
  BY <1>2 DEF OpeningSound, TablesTyped, SizesSound, OpeningPlace, FromEnroll, FromSizes, FromTexts, FromPosition, FromSummaries, FromRebuild, FromOpen, Filling, From, AllRight, ThereNow, Enrollable, BitsSound, RecordBits
<1>6. QED
  BY <1>1, <1>2, <1>3, <1>4, <1>5

LEMMA CheckPositionSound == ASSUME SchemaInv, NEW o \in Opener, CheckPosition(o) PROVE SchemaInv'
<1> USE DEF SchemaInv, CheckPosition, From, To, Fails, archiveTables, authTables
<1>1. TablesTyped'
  BY RanksAreNumbers DEF TablesTyped, OpeningPlace, FromEnroll, FromSizes, FromTexts, FromPosition, FromSummaries, FromRebuild, FromOpen, SizeState, Enrollable, ThereNow, RecordBits
<1>2. SizesSound'
  BY DEF SizesSound, TablesTyped, Filling, From, WithAvatar
<1>3. RootSound' /\ BitsSound'
  BY SchemaAssumption DEF RootSound, BitsSound, TablesTyped, OpeningSound, NewRoot, ThereNow, Enrollable, RecordBits
<1>4. SpotsSound'
  BY RanksStay DEF SpotsSound
<1>5. ASSUME NEW p \in Opener PROVE OpeningSound(p)'
  BY <1>2 DEF OpeningSound, TablesTyped, SizesSound, OpeningPlace, FromEnroll, FromSizes, FromTexts, FromPosition, FromSummaries, FromRebuild, FromOpen, Filling, From, AllRight, ThereNow, Enrollable, BitsSound, RecordBits
<1>6. QED
  BY <1>1, <1>2, <1>3, <1>4, <1>5

LEMMA AddPositionSound == ASSUME SchemaInv, NEW o \in Opener, AddPosition(o) PROVE SchemaInv'
<1> USE DEF SchemaInv, AddPosition, From, To, Fails, archiveTables, authTables
<1>1. TablesTyped'
  BY RanksAreNumbers DEF TablesTyped, OpeningPlace, FromEnroll, FromSizes, FromTexts, FromPosition, FromSummaries, FromRebuild, FromOpen, SizeState, Enrollable, ThereNow, RecordBits
<1>2. SizesSound'
  BY DEF SizesSound, TablesTyped, Filling, From, WithAvatar
<1>3. RootSound' /\ BitsSound'
  BY SchemaAssumption DEF RootSound, BitsSound, TablesTyped, OpeningSound, NewRoot, ThereNow, Enrollable, RecordBits
<1>4. SpotsSound'
  BY RanksStay DEF SpotsSound
<1>5. ASSUME NEW p \in Opener PROVE OpeningSound(p)'
  BY <1>2 DEF OpeningSound, TablesTyped, SizesSound, OpeningPlace, FromEnroll, FromSizes, FromTexts, FromPosition, FromSummaries, FromRebuild, FromOpen, Filling, From, AllRight, ThereNow, Enrollable, BitsSound, RecordBits
<1>6. QED
  BY <1>1, <1>2, <1>3, <1>4, <1>5

LEMMA CheckSummariesSound == ASSUME SchemaInv, NEW o \in Opener, CheckSummaries(o) PROVE SchemaInv'
<1> USE DEF SchemaInv, CheckSummaries, From, To, Fails, archiveTables, authTables
<1>1. TablesTyped'
  BY RanksAreNumbers DEF TablesTyped, OpeningPlace, FromEnroll, FromSizes, FromTexts, FromPosition, FromSummaries, FromRebuild, FromOpen, SizeState, Enrollable, ThereNow, RecordBits
<1>2. SizesSound'
  BY DEF SizesSound, TablesTyped, Filling, From, WithAvatar
<1>3. RootSound' /\ BitsSound'
  BY SchemaAssumption DEF RootSound, BitsSound, TablesTyped, OpeningSound, NewRoot, ThereNow, Enrollable, RecordBits
<1>4. SpotsSound'
  BY RanksStay DEF SpotsSound
<1>5. ASSUME NEW p \in Opener PROVE OpeningSound(p)'
  BY <1>2 DEF OpeningSound, TablesTyped, SizesSound, OpeningPlace, FromEnroll, FromSizes, FromTexts, FromPosition, FromSummaries, FromRebuild, FromOpen, Filling, From, AllRight, ThereNow, Enrollable, BitsSound, RecordBits
<1>6. QED
  BY <1>1, <1>2, <1>3, <1>4, <1>5

LEMMA RebuildSummariesSound == ASSUME SchemaInv, NEW o \in Opener, RebuildSummaries(o) PROVE SchemaInv'
<1> USE DEF SchemaInv, RebuildSummaries, From, To, Fails, archiveTables, authTables
<1>1. TablesTyped'
  BY RanksAreNumbers DEF TablesTyped, OpeningPlace, FromEnroll, FromSizes, FromTexts, FromPosition, FromSummaries, FromRebuild, FromOpen, SizeState, Enrollable, ThereNow, RecordBits
<1>2. SizesSound'
  BY DEF SizesSound, TablesTyped, Filling, From, WithAvatar
<1>3. RootSound' /\ BitsSound'
  BY SchemaAssumption DEF RootSound, BitsSound, TablesTyped, OpeningSound, NewRoot, ThereNow, Enrollable, RecordBits
<1>4. SpotsSound'
  BY RanksStay DEF SpotsSound
<1>5. ASSUME NEW p \in Opener PROVE OpeningSound(p)'
  BY <1>2 DEF OpeningSound, TablesTyped, SizesSound, OpeningPlace, FromEnroll, FromSizes, FromTexts, FromPosition, FromSummaries, FromRebuild, FromOpen, Filling, From, AllRight, ThereNow, Enrollable, BitsSound, RecordBits
<1>6. QED
  BY <1>1, <1>2, <1>3, <1>4, <1>5

LEMMA OpenAuthSound == ASSUME SchemaInv, NEW o \in Opener, OpenAuth(o) PROVE SchemaInv'
<1> USE DEF SchemaInv, OpenAuth, From, To, Fails, archiveTables, authTables
<1>1. TablesTyped'
  BY RanksAreNumbers DEF TablesTyped, OpeningPlace, FromEnroll, FromSizes, FromTexts, FromPosition, FromSummaries, FromRebuild, FromOpen, SizeState, Enrollable, ThereNow, RecordBits
<1>2. SizesSound'
  BY DEF SizesSound, TablesTyped, Filling, From, WithAvatar
<1>3. RootSound' /\ BitsSound'
  BY SchemaAssumption DEF RootSound, BitsSound, TablesTyped, OpeningSound, NewRoot, ThereNow, Enrollable, RecordBits
<1>4. SpotsSound'
  BY RanksStay DEF SpotsSound
<1>5. ASSUME NEW p \in Opener PROVE OpeningSound(p)'
  BY <1>2 DEF OpeningSound, TablesTyped, SizesSound, OpeningPlace, FromEnroll, FromSizes, FromTexts, FromPosition, FromSummaries, FromRebuild, FromOpen, Filling, From, AllRight, ThereNow, Enrollable, BitsSound, RecordBits
<1>6. QED
  BY <1>1, <1>2, <1>3, <1>4, <1>5

LEMMA BackfillBitsSound == ASSUME SchemaInv, NEW o \in Opener, BackfillBits(o) PROVE SchemaInv'
<1> USE DEF SchemaInv, BackfillBits, From, To, Fails, archiveTables, authTables
<1>1. TablesTyped'
  BY RanksAreNumbers DEF TablesTyped, OpeningPlace, FromEnroll, FromSizes, FromTexts, FromPosition, FromSummaries, FromRebuild, FromOpen, SizeState, Enrollable, ThereNow, RecordBits
<1>2. SizesSound'
  BY DEF SizesSound, TablesTyped, Filling, From, WithAvatar
<1>3. RootSound' /\ BitsSound'
  BY SchemaAssumption DEF RootSound, BitsSound, TablesTyped, OpeningSound, NewRoot, ThereNow, Enrollable, RecordBits
<1>4. SpotsSound'
  BY RanksStay DEF SpotsSound
<1>5. ASSUME NEW p \in Opener PROVE OpeningSound(p)'
  BY <1>2 DEF OpeningSound, TablesTyped, SizesSound, OpeningPlace, FromEnroll, FromSizes, FromTexts, FromPosition, FromSummaries, FromRebuild, FromOpen, Filling, From, AllRight, ThereNow, Enrollable, BitsSound, RecordBits
<1>6. QED
  BY <1>1, <1>2, <1>3, <1>4, <1>5

LEMMA DropRoleSound == ASSUME SchemaInv, NEW o \in Opener, DropRole(o) PROVE SchemaInv'
<1> USE DEF SchemaInv, DropRole, From, To, Fails, archiveTables, authTables
<1>1. TablesTyped'
  BY RanksAreNumbers DEF TablesTyped, OpeningPlace, FromEnroll, FromSizes, FromTexts, FromPosition, FromSummaries, FromRebuild, FromOpen, SizeState, Enrollable, ThereNow, RecordBits
<1>2. SizesSound'
  BY DEF SizesSound, TablesTyped, Filling, From, WithAvatar
<1>3. RootSound' /\ BitsSound'
  BY SchemaAssumption DEF RootSound, BitsSound, TablesTyped, OpeningSound, NewRoot, ThereNow, Enrollable, RecordBits
<1>4. SpotsSound'
  BY RanksStay DEF SpotsSound
<1>5. ASSUME NEW p \in Opener PROVE OpeningSound(p)'
  BY <1>2 DEF OpeningSound, TablesTyped, SizesSound, OpeningPlace, FromEnroll, FromSizes, FromTexts, FromPosition, FromSummaries, FromRebuild, FromOpen, Filling, From, AllRight, ThereNow, Enrollable, BitsSound, RecordBits
<1>6. QED
  BY <1>1, <1>2, <1>3, <1>4, <1>5

LEMMA InsertEntrySound == ASSUME SchemaInv, NEW o \in Opener, InsertEntry(o) PROVE SchemaInv'
<1> USE DEF SchemaInv, InsertEntry, From, To, Fails, archiveTables, authTables
<1>1. TablesTyped'
  BY RanksAreNumbers DEF TablesTyped, OpeningPlace, FromEnroll, FromSizes, FromTexts, FromPosition, FromSummaries, FromRebuild, FromOpen, SizeState, Enrollable, ThereNow, RecordBits
<1>2. SizesSound'
  BY DEF SizesSound, TablesTyped, Filling, From, WithAvatar
<1>3. RootSound' /\ BitsSound'
  BY SchemaAssumption DEF RootSound, BitsSound, TablesTyped, OpeningSound, NewRoot, ThereNow, Enrollable, RecordBits
<1>4. SpotsSound'
  BY RanksStay DEF SpotsSound
<1>5. ASSUME NEW p \in Opener PROVE OpeningSound(p)'
  BY <1>2 DEF OpeningSound, TablesTyped, SizesSound, OpeningPlace, FromEnroll, FromSizes, FromTexts, FromPosition, FromSummaries, FromRebuild, FromOpen, Filling, From, AllRight, ThereNow, Enrollable, BitsSound, RecordBits
<1>6. QED
  BY <1>1, <1>2, <1>3, <1>4, <1>5

LEMMA EnrollEntrySound == ASSUME SchemaInv, NEW o \in Opener, EnrollEntry(o) PROVE SchemaInv'
<1> USE DEF SchemaInv, EnrollEntry, From, To, Fails, archiveTables, authTables
<1>1. TablesTyped'
  BY RanksAreNumbers DEF TablesTyped, OpeningPlace, FromEnroll, FromSizes, FromTexts, FromPosition, FromSummaries, FromRebuild, FromOpen, SizeState, Enrollable, ThereNow, RecordBits
<1>2. SizesSound'
  BY DEF SizesSound, TablesTyped, Filling, From, WithAvatar
<1>3. RootSound' /\ BitsSound'
  BY SchemaAssumption DEF RootSound, BitsSound, TablesTyped, OpeningSound, NewRoot, ThereNow, Enrollable, RecordBits
<1>4. SpotsSound'
  BY RanksStay DEF SpotsSound
<1>5. ASSUME NEW p \in Opener PROVE OpeningSound(p)'
  BY <1>2 DEF OpeningSound, TablesTyped, SizesSound, OpeningPlace, FromEnroll, FromSizes, FromTexts, FromPosition, FromSummaries, FromRebuild, FromOpen, Filling, From, AllRight, ThereNow, Enrollable, BitsSound, RecordBits
<1>6. QED
  BY <1>1, <1>2, <1>3, <1>4, <1>5

LEMMA CloseSound == ASSUME SchemaInv, NEW o \in Opener, Close(o) PROVE SchemaInv'
<1> USE DEF SchemaInv, Close, From, To, Fails, archiveTables, authTables
<1>1. TablesTyped'
  BY RanksAreNumbers DEF TablesTyped, OpeningPlace, FromEnroll, FromSizes, FromTexts, FromPosition, FromSummaries, FromRebuild, FromOpen, SizeState, Enrollable, ThereNow, RecordBits
<1>2. SizesSound'
  BY DEF SizesSound, TablesTyped, Filling, From, WithAvatar
<1>3. RootSound' /\ BitsSound'
  BY SchemaAssumption DEF RootSound, BitsSound, TablesTyped, OpeningSound, NewRoot, ThereNow, Enrollable, RecordBits
<1>4. SpotsSound'
  BY RanksStay DEF SpotsSound
<1>5. ASSUME NEW p \in Opener PROVE OpeningSound(p)'
  BY <1>2 DEF OpeningSound, TablesTyped, SizesSound, OpeningPlace, FromEnroll, FromSizes, FromTexts, FromPosition, FromSummaries, FromRebuild, FromOpen, Filling, From, AllRight, ThereNow, Enrollable, BitsSound, RecordBits
<1>6. QED
  BY <1>1, <1>2, <1>3, <1>4, <1>5

(* What a crash leaves.                                                      *)
LEMMA SchemaCrashSound == ASSUME SchemaInv, SchemaCrash PROVE SchemaInv'
<1> USE DEF SchemaInv, SchemaCrash, archiveTables, authTables
<1>1. TablesTyped'
  BY DEF TablesTyped, OpeningPlace
<1>2. SizesSound'
  BY DEF SizesSound, TablesTyped, Filling, From, WithAvatar
<1>3. RootSound' /\ BitsSound'
  BY DEF RootSound, BitsSound
<1>4. SpotsSound'
  BY RanksStay DEF SpotsSound
<1>5. ASSUME NEW o \in Opener PROVE OpeningSound(o)'
  BY DEF OpeningSound, FromEnroll, FromSizes, FromTexts, FromPosition, FromSummaries, FromRebuild, FromOpen
<1>6. QED
  BY <1>1, <1>2, <1>3, <1>4, <1>5

LEMMA SchemaRests == SchemaInv /\ UNCHANGED schemaVars => SchemaInv'
<1> SUFFICES ASSUME SchemaInv, UNCHANGED schemaVars PROVE SchemaInv'
  OBVIOUS
<1> USE DEF SchemaInv, schemaVars, archiveTables, authTables
<1>1. TablesTyped'
  BY DEF TablesTyped
<1>2. SizesSound'
  BY DEF SizesSound, Filling, From
<1>3. RootSound' /\ BitsSound'
  BY DEF RootSound, BitsSound
<1>4. SpotsSound'
  BY RanksStay DEF SpotsSound
<1>5. ASSUME NEW o \in Opener PROVE OpeningSound(o)'
  BY DEF OpeningSound, Filling, From, AllRight
<1>6. QED
  BY <1>1, <1>2, <1>3, <1>4, <1>5

LEMMA SchemaStays == SchemaInv /\ [SchemaNext]_schemaVars => SchemaInv'
<1> SUFFICES ASSUME SchemaInv, [SchemaNext]_schemaVars PROVE SchemaInv'
  OBVIOUS
<1>1. ASSUME NEW o \in Opener,
             CreateTables(o) \/ EnrollOld(o) \/ CheckSizes(o) \/ AddSizes(o) \/ FillSizes(o) \/ FixAvatars(o)
      PROVE  SchemaInv'
  BY <1>1, CreateTablesSound, EnrollOldSound, CheckSizesSound, AddSizesSound, FillSizesSound, FixAvatarsSound
<1>2. ASSUME NEW o \in Opener,
             AddTexts(o) \/ CheckPosition(o) \/ AddPosition(o) \/ CheckSummaries(o) \/ RebuildSummaries(o)
      PROVE  SchemaInv'
  BY <1>2, AddTextsSound, CheckPositionSound, AddPositionSound, CheckSummariesSound, RebuildSummariesSound
<1>3. ASSUME NEW o \in Opener,
             OpenAuth(o) \/ BackfillBits(o) \/ DropRole(o) \/ InsertEntry(o) \/ EnrollEntry(o) \/ Close(o)
      PROVE  SchemaInv'
  BY <1>3, OpenAuthSound, BackfillBitsSound, DropRoleSound, InsertEntrySound, EnrollEntrySound, CloseSound
<1>4. QED
  BY <1>1, <1>2, <1>3, SchemaCrashSound, SchemaRests DEF SchemaNext

LEMMA SchemaInvariant == SchemaSpec => []SchemaInv
  BY SchemaStarts, SchemaStays, PTL DEF SchemaSpec

LEMMA SchemaTyped == SchemaInv => SchemaTypeOK
  BY DEF SchemaInv, TablesTyped, SchemaTypeOK

(* Behind any opening that went through, whatever others were under way and  *)
(* wherever one died, the database is migrated: children are in their order, *)
(* sizes are right, bits are recorded, a new root is enrolled as configured  *)
(* unless it was overtaken (initialize_schema, initialize_auth_schema).      *)
THEOREM OpeningsAreSound == SchemaSpec => []OpenedIsSound
<1>1. SchemaInv => OpenedIsMigrated
  <2> SUFFICES ASSUME SchemaInv, Opened PROVE OpenedIsMigrated
    BY DEF OpenedIsMigrated
  <2>1. PICK o \in Opener : opening[o] \in {"open", "creating"}
    BY DEF Opened
  <2>2. OpeningSound(o) /\ TablesTyped /\ SpotsSound
    BY DEF SchemaInv
  <2>3. hasTables /\ ~old /\ columns = {"cached_bytes", "position", "texts"} /\ OldChild \subseteq DOMAIN enrolled
    BY <2>1, <2>2
       DEF OpeningSound, TablesTyped, FromEnroll, FromSizes, FromTexts, FromPosition, FromSummaries, FromRebuild,
           FromOpen
  <2>4. Filling \/ AllRight
    BY <2>1, <2>2 DEF OpeningSound, FromTexts, FromPosition, FromSummaries, FromRebuild, FromOpen
  <2>5. ASSUME NEW c \in OldChild, NEW d \in OldChild, Before(c, d) PROVE spot[c] < spot[d]
    BY <2>2, <2>3, <2>5, RanksAreOrdered DEF TablesTyped, SpotsSound
  <2>6. QED
    BY <2>3, <2>4, <2>5 DEF OpenedIsMigrated, AllRight
<1>2. SchemaInv => BitsAreRecorded
  BY DEF SchemaInv, OpeningSound, BitsAreRecorded, From
<1>3. SchemaInv => EnrolledUnlessOvertaken
  BY DEF SchemaInv, RootSound, EnrolledUnlessOvertaken
<1>4. SchemaInv => OpenedIsSound
  BY <1>1, <1>2, <1>3 DEF OpenedIsSound
<1>5. QED
  BY SchemaInvariant, <1>4, PTL
----------------------------------------------------------------------------
(* CaptureTab.  As long as no two polls of a job were under way together, a  *)
(* row that has settled while its batch is open is done: nothing polls for   *)
(* it any more, so that a batch counts each of its rows once.                *)

FilesWait ==
    /\ \A r \in Row : submission[r] \in {"draft", "sending", "refused"} => job[r] = "none"
    /\ \A r \in FileRow :
        job[r] = "running" \/ (job[r] = "none" /\ submission[r] \notin {"refused", "gone"}) => r \in staged

PolledAreTracked ==
    \A r \in Row :
        /\ r \in skeletons \cup polled \/ polls[r] # NoPolls => submission[r] = "tracked"
        /\ r \in reported => submission[r] # "draft"

OneAtATime ==
    overlapped = {} => \A r \in Row, k \in 1..MaxPolls :
        /\ polls[r][k] = "refreshing" => r \notin polled
        /\ \A l \in 1..MaxPolls : polls[r][k] # "none" /\ polls[r][l] # "none" => k = l

Over(r) == r \notin polled /\ polls[r] = NoPolls /\ submission[r] \in {"tracked", "unheard", "gone"}
BatchSound(b) ==
    /\ b \in [rows : SUBSET Row, settled : Nat]
    /\ \A r \in b.rows : submission[r] # "draft"
    /\ overlapped = {} => /\ b.settled = Cardinality(b.rows \cap reported)
                          /\ \A r \in b.rows \cap reported : Over(r)
BatchesSound ==
    /\ \A b \in batches : BatchSound(b)
    /\ \A b, c \in batches : b = c \/ b.rows \cap c.rows = {}

TabInv ==
    /\ TabTypeOK /\ SkeletonsArePolled /\ FilesWait /\ PolledAreTracked /\ OneAtATime
    /\ BatchesSound /\ BatchesCountOnce

LEMMA BatchesRest ==
  ASSUME TabInv, UNCHANGED <<batches, summedUp, reported>>, overlapped \subseteq overlapped',
         \A q \in Row : Over(q) => Over(q)', \A q \in Row : submission[q] # "draft" => submission'[q] # "draft"
  PROVE  BatchesSound' /\ BatchesCountOnce'
<1>1. ASSUME NEW b \in batches PROVE BatchSound(b)'
  <2>1. BatchSound(b)
    BY DEF TabInv, BatchesSound
  <2>2. b.rows \subseteq Row
    BY <2>1 DEF BatchSound
  <2>3. QED
    BY <2>1, <2>2 DEF BatchSound
<1>2. QED
  BY <1>1 DEF TabInv, BatchesSound, BatchesCountOnce

(* A row that settles was not over, is now, and counts once in its batch.    *)
LEMMA SettledOnce ==
  ASSUME TabInv, NEW r \in Row, Settle(r), UNCHANGED overlapped,
         overlapped = {} => ~Over(r) /\ Over(r)',
         \A q \in Row \ {r} : Over(q) => Over(q)', \A q \in Row : submission[q] # "draft" => submission'[q] # "draft"
  PROVE  /\ BatchesSound' /\ BatchesCountOnce' /\ summedUp' \subseteq Row /\ reported' \subseteq Row
         /\ \A b \in batches' : b.rows \subseteq Row /\ b.settled \in 0..(Cardinality(b.rows) - 1)
<1> DEFINE mine == {b \in batches : r \in b.rows}
           one == {[b EXCEPT !.settled = @ + 1] : b \in mine}
           full == {b \in one : b.settled = Cardinality(b.rows)}
<1>1. /\ batches' = (batches \ mine) \cup (one \ full)
      /\ summedUp' = summedUp \cup UNION {b.rows : b \in full} /\ reported' = reported \cup {r}
  BY DEF Settle
<1>2. ASSUME NEW b \in batches
      PROVE  /\ BatchSound(b) /\ b \in [rows : SUBSET Row, settled : Nat] /\ b.rows \subseteq Row
             /\ IsFiniteSet(b.rows) /\ Cardinality(b.rows) \in Nat /\ b.settled \in 0..(Cardinality(b.rows) - 1)
  BY CaptureTabAssumption, FS_Subset, FS_CardinalityType DEF TabInv, BatchesSound, BatchSound, TabTypeOK
<1>3. ASSUME NEW b \in batches \ mine PROVE BatchSound(b)'
  <2>1. b.rows \cap reported' = b.rows \cap reported /\ r \notin b.rows
    BY <1>1
  <2>2. QED
    BY <1>2, <2>1 DEF BatchSound
<1>4. ASSUME NEW c \in one
      PROVE  /\ c \in [rows : SUBSET Row, settled : Nat] /\ c.settled <= Cardinality(c.rows)
             /\ IsFiniteSet(c.rows) /\ Cardinality(c.rows) \in Nat
             /\ \A q \in c.rows : submission'[q] # "draft"
             /\ overlapped = {} => /\ c.settled = Cardinality(c.rows \cap reported')
                                   /\ \A q \in c.rows \cap reported' : Over(q)'
             /\ \E b \in mine : b.rows = c.rows
  <2>1. PICK b \in mine : c = [b EXCEPT !.settled = @ + 1]
    OBVIOUS
  <2>2. /\ c \in [rows : SUBSET Row, settled : Nat] /\ c.rows = b.rows /\ c.settled = b.settled + 1
        /\ r \in b.rows
    BY <1>2, <2>1
  <2>3. ASSUME overlapped = {}
        PROVE  c.settled = Cardinality(c.rows \cap reported') /\ \A q \in c.rows \cap reported' : Over(q)'
    <3>1. r \notin reported
      BY <1>2, <2>2, <2>3 DEF BatchSound
    <3>2. c.rows \cap reported' = (b.rows \cap reported) \cup {r} /\ r \notin b.rows \cap reported
      BY <1>1, <2>2, <3>1
    <3>3. IsFiniteSet(b.rows \cap reported)
      BY <1>2, FS_Subset
    <3>4. Cardinality(c.rows \cap reported') = Cardinality(b.rows \cap reported) + 1
      BY <3>2, <3>3, FS_AddElement
    <3>5. QED
      BY <1>2, <2>2, <2>3, <3>2, <3>4 DEF BatchSound
  <2>4. IsFiniteSet(c.rows) /\ Cardinality(c.rows) \in Nat /\ c.settled <= Cardinality(c.rows)
    <3>1. b.settled \in 0..(Cardinality(b.rows) - 1) /\ Cardinality(b.rows) \in Nat /\ IsFiniteSet(b.rows)
      BY <1>2
    <3>2. QED
      BY <2>2, <3>1
  <2>5. \A q \in c.rows : submission'[q] # "draft"
    <3>1. \A q \in b.rows : q \in Row /\ submission[q] # "draft"
      BY <1>2 DEF BatchSound
    <3>2. QED
      BY <2>2, <3>1
  <2>6. QED
    BY <2>2, <2>3, <2>4, <2>5
<1>5. ASSUME NEW c \in one \ full PROVE BatchSound(c)' /\ c.settled \in 0..(Cardinality(c.rows) - 1)
  <2>1. c.settled \in Nat /\ c.settled <= Cardinality(c.rows) /\ c.settled # Cardinality(c.rows) /\ Cardinality(c.rows) \in Nat
    BY <1>4
  <2>2. c.settled \in 0..(Cardinality(c.rows) - 1)
    BY <2>1
  <2>3. BatchSound(c)'
    BY <1>4 DEF BatchSound
  <2>4. QED
    BY <2>2, <2>3
<1>6. ASSUME NEW b \in batches', NEW c \in batches', b # c PROVE b.rows \cap c.rows = {}
  <2>1. PICK x \in batches : x.rows = b.rows /\ (b \in batches \ mine => x = b) /\ (b \in one => x \in mine)
    BY <1>1, <1>4
  <2>2. PICK y \in batches : y.rows = c.rows /\ (c \in batches \ mine => y = c) /\ (c \in one => y \in mine)
    BY <1>1, <1>4
  <2>3. CASE x # y
    BY <2>1, <2>2, <2>3 DEF TabInv, BatchesSound
  <2>4. CASE x = y
    <3>1. x \in mine => b \in one /\ c \in one
      BY <1>1, <2>1, <2>2, <2>4
    <3>2. x \notin mine => b = c
      BY <1>1, <2>1, <2>2, <2>4
    <3>3. PICK u \in mine, v \in mine : b = [u EXCEPT !.settled = @ + 1] /\ c = [v EXCEPT !.settled = @ + 1]
      BY <3>1, <3>2, <1>6
    <3>4. u = v
      BY <3>3 DEF TabInv, BatchesSound
    <3>5. QED
      BY <3>3, <3>4, <1>6
  <2>5. QED
    BY <2>3, <2>4
<1>7. ASSUME NEW q \in summedUp' \ reported', overlapped = {} PROVE FALSE
  <2>1. q \notin summedUp
    BY <1>1, <1>7 DEF TabInv, BatchesCountOnce
  <2>2. PICK c \in full : q \in c.rows
    BY <1>1, <2>1
  <2>3. Cardinality(c.rows) = Cardinality(c.rows \cap reported') /\ IsFiniteSet(c.rows)
    BY <1>4, <1>7, <2>2
  <2>4. c.rows \cap reported' = c.rows
    <3>1. c.rows \cap reported' \in SUBSET c.rows
      OBVIOUS
    <3>2. QED
      BY <2>3, <3>1, FS_Subset
  <2>5. QED
    BY <2>2, <2>4, <1>7
<1>8. BatchesSound'
  BY <1>1, <1>3, <1>5, <1>6 DEF BatchesSound
<1>9. BatchesCountOnce'
  BY <1>7 DEF BatchesCountOnce
<1>10. summedUp' \subseteq Row /\ reported' \subseteq Row
  <2>1. summedUp \subseteq Row /\ reported \subseteq Row
    BY DEF TabInv, TabTypeOK
  <2>2. \A c \in full : c.rows \subseteq Row
    BY <1>2, <1>4
  <2>3. QED
    BY <1>1, <2>1, <2>2
<1>11. QED
  BY <1>1, <1>2, <1>5, <1>8, <1>9, <1>10

LEMMA TabStarts == TabInit => TabInv
<1> SUFFICES ASSUME TabInit PROVE TabInv
  OBVIOUS
<1>1. TabTypeOK
  BY CaptureTabAssumption DEF TabInit, TabTypeOK, NoPolls, JobEnd
<1>2. SkeletonsArePolled /\ FilesWait /\ PolledAreTracked /\ OneAtATime
  BY CaptureTabAssumption DEF TabInit, SkeletonsArePolled, FilesWait, PolledAreTracked, OneAtATime, NoPolls
<1>3. QED
  BY <1>1, <1>2 DEF TabInit, TabInv, BatchesSound, BatchesCountOnce

LEMMA TakeKeeps == ASSUME TabInv, NEW r \in Row, Take(r) PROVE TabInv'
<1> USE DEF Take, RowGoes, PollIs, Drop
<1>0. TabTypeOK /\ CaptureTabAssumption
  BY CaptureTabAssumption DEF TabInv
<1>1. BatchesSound' /\ BatchesCountOnce'
  <2>1. \A q \in Row : Over(q) => Over(q)'
    BY <1>0 DEF Over, NoPolls, TabTypeOK
  <2>2. \A q \in Row : submission[q] # "draft" => submission'[q] # "draft"
    BY <1>0 DEF TabTypeOK
  <2>3. QED
    BY <2>1, <2>2, BatchesRest
<1>2. TabTypeOK'
  BY <1>0 DEF TabTypeOK, JobEnd
<1>3. SkeletonsArePolled'
  BY <1>0 DEF TabInv, SkeletonsArePolled, TabTypeOK
<1>4. FilesWait'
  BY <1>0 DEF TabInv, FilesWait, TabTypeOK, CaptureTabAssumption, JobEnd, DeletesFile
<1>5. PolledAreTracked'
  BY <1>0 DEF TabInv, PolledAreTracked, TabTypeOK, NoPolls
<1>6. OneAtATime'
  BY <1>0 DEF TabInv, OneAtATime, TabTypeOK, NoPolls
<1>7. QED
  BY <1>1, <1>2, <1>3, <1>4, <1>5, <1>6 DEF TabInv

LEMMA RefuseRowKeeps == ASSUME TabInv, NEW r \in Row, RefuseRow(r) PROVE TabInv'
<1> USE DEF RefuseRow, RowGoes, PollIs, Drop
<1>0. TabTypeOK /\ CaptureTabAssumption
  BY CaptureTabAssumption DEF TabInv
<1>1. BatchesSound' /\ BatchesCountOnce'
  <2>1. \A q \in Row : Over(q) => Over(q)'
    BY <1>0 DEF Over, NoPolls, TabTypeOK
  <2>2. \A q \in Row : submission[q] # "draft" => submission'[q] # "draft"
    BY <1>0 DEF TabTypeOK
  <2>3. QED
    BY <2>1, <2>2, BatchesRest
<1>2. TabTypeOK'
  BY <1>0 DEF TabTypeOK, JobEnd
<1>3. SkeletonsArePolled'
  BY <1>0 DEF TabInv, SkeletonsArePolled, TabTypeOK
<1>4. FilesWait'
  BY <1>0 DEF TabInv, FilesWait, TabTypeOK, CaptureTabAssumption, JobEnd, DeletesFile
<1>5. PolledAreTracked'
  BY <1>0 DEF TabInv, PolledAreTracked, TabTypeOK, NoPolls
<1>6. OneAtATime'
  BY <1>0 DEF TabInv, OneAtATime, TabTypeOK, NoPolls
<1>7. QED
  BY <1>1, <1>2, <1>3, <1>4, <1>5, <1>6 DEF TabInv

LEMMA LoseAnswerKeeps == ASSUME TabInv, NEW r \in Row, LoseAnswer(r) PROVE TabInv'
<1> USE DEF LoseAnswer, RowGoes, PollIs, Drop
<1>0. TabTypeOK /\ CaptureTabAssumption
  BY CaptureTabAssumption DEF TabInv
<1>1. BatchesSound' /\ BatchesCountOnce'
  <2>1. \A q \in Row : Over(q) => Over(q)'
    BY <1>0 DEF Over, NoPolls, TabTypeOK
  <2>2. \A q \in Row : submission[q] # "draft" => submission'[q] # "draft"
    BY <1>0 DEF TabTypeOK
  <2>3. QED
    BY <2>1, <2>2, BatchesRest
<1>2. TabTypeOK'
  BY <1>0 DEF TabTypeOK, JobEnd
<1>3. SkeletonsArePolled'
  BY <1>0 DEF TabInv, SkeletonsArePolled, TabTypeOK
<1>4. FilesWait'
  BY <1>0 DEF TabInv, FilesWait, TabTypeOK, CaptureTabAssumption, JobEnd, DeletesFile
<1>5. PolledAreTracked'
  BY <1>0 DEF TabInv, PolledAreTracked, TabTypeOK, NoPolls
<1>6. OneAtATime'
  BY <1>0 DEF TabInv, OneAtATime, TabTypeOK, NoPolls
<1>7. QED
  BY <1>1, <1>2, <1>3, <1>4, <1>5, <1>6 DEF TabInv

LEMMA JobStartedKeeps == ASSUME TabInv, NEW r \in Row, JobStarted(r) PROVE TabInv'
<1> USE DEF JobStarted, RowGoes, PollIs, Drop
<1>0. TabTypeOK /\ CaptureTabAssumption
  BY CaptureTabAssumption DEF TabInv
<1>1. BatchesSound' /\ BatchesCountOnce'
  <2>1. \A q \in Row : Over(q) => Over(q)'
    BY <1>0 DEF Over, NoPolls, TabTypeOK
  <2>2. \A q \in Row : submission[q] # "draft" => submission'[q] # "draft"
    BY <1>0 DEF TabTypeOK
  <2>3. QED
    BY <2>1, <2>2, BatchesRest
<1>2. TabTypeOK'
  BY <1>0 DEF TabTypeOK, JobEnd
<1>3. SkeletonsArePolled'
  BY <1>0 DEF TabInv, SkeletonsArePolled, TabTypeOK
<1>4. FilesWait'
  BY <1>0 DEF TabInv, FilesWait, TabTypeOK, CaptureTabAssumption, JobEnd, DeletesFile
<1>5. PolledAreTracked'
  BY <1>0 DEF TabInv, PolledAreTracked, TabTypeOK, NoPolls
<1>6. OneAtATime'
  <2> SUFFICES ASSUME overlapped' = {}, NEW q \in Row, NEW m \in 1..MaxPolls
               PROVE  /\ polls'[q][m] = "refreshing" => q \notin polled'
                      /\ \A l \in 1..MaxPolls : polls'[q][m] # "none" /\ polls'[q][l] # "none" => m = l
    BY DEF OneAtATime
  <2>1. polls[r] = NoPolls
    BY <1>0 DEF TabInv, PolledAreTracked
  <2>2. QED
    BY <1>0, <2>1 DEF TabInv, OneAtATime, NoPolls
<1>7. QED
  BY <1>1, <1>2, <1>3, <1>4, <1>5, <1>6 DEF TabInv

LEMMA EndJobKeeps == ASSUME TabInv, NEW r \in Row, EndJob(r) PROVE TabInv'
<1> USE DEF EndJob, RowGoes, PollIs, Drop
<1>0. TabTypeOK /\ CaptureTabAssumption
  BY CaptureTabAssumption DEF TabInv
<1>1. BatchesSound' /\ BatchesCountOnce'
  <2>1. \A q \in Row : Over(q) => Over(q)'
    BY <1>0 DEF Over, NoPolls, TabTypeOK
  <2>2. \A q \in Row : submission[q] # "draft" => submission'[q] # "draft"
    BY <1>0 DEF TabTypeOK
  <2>3. QED
    BY <2>1, <2>2, BatchesRest
<1>2. TabTypeOK'
  BY <1>0 DEF TabTypeOK, JobEnd
<1>3. SkeletonsArePolled'
  BY <1>0 DEF TabInv, SkeletonsArePolled, TabTypeOK
<1>4. FilesWait'
  BY <1>0 DEF TabInv, FilesWait, TabTypeOK, CaptureTabAssumption, JobEnd, DeletesFile
<1>5. PolledAreTracked'
  BY <1>0 DEF TabInv, PolledAreTracked, TabTypeOK, NoPolls
<1>6. OneAtATime'
  BY <1>0 DEF TabInv, OneAtATime, TabTypeOK, NoPolls
<1>7. QED
  BY <1>1, <1>2, <1>3, <1>4, <1>5, <1>6 DEF TabInv

LEMMA TickKeeps == ASSUME TabInv, NEW r \in Row, Tick(r) PROVE TabInv'
<1> USE DEF Tick, RowGoes, PollIs, Drop
<1>0. TabTypeOK /\ CaptureTabAssumption
  BY CaptureTabAssumption DEF TabInv
<1>1. BatchesSound' /\ BatchesCountOnce'
  <2>1. \A q \in Row : Over(q) => Over(q)'
    BY <1>0 DEF Over, NoPolls, TabTypeOK
  <2>2. \A q \in Row : submission[q] # "draft" => submission'[q] # "draft"
    BY <1>0 DEF TabTypeOK
  <2>3. QED
    BY <2>1, <2>2, BatchesRest
<1>2. TabTypeOK'
  BY <1>0 DEF TabTypeOK, JobEnd
<1>3. SkeletonsArePolled'
  BY <1>0 DEF TabInv, SkeletonsArePolled, TabTypeOK
<1>4. FilesWait'
  BY <1>0 DEF TabInv, FilesWait, TabTypeOK, CaptureTabAssumption, JobEnd, DeletesFile
<1>5. PolledAreTracked'
  BY <1>0 DEF TabInv, PolledAreTracked, TabTypeOK, NoPolls
<1>6. OneAtATime'
  <2> SUFFICES ASSUME overlapped' = {}, NEW q \in Row, NEW m \in 1..MaxPolls
               PROVE  /\ polls'[q][m] = "refreshing" => q \notin polled'
                      /\ \A l \in 1..MaxPolls : polls'[q][m] # "none" /\ polls'[q][l] # "none" => m = l
    BY DEF OneAtATime
  <2>1. polls[r] = NoPolls /\ overlapped = {}
    BY DEF TabInv
  <2>2. QED
    BY <1>0, <2>1 DEF TabInv, OneAtATime, NoPolls, TabTypeOK
<1>7. QED
  BY <1>1, <1>2, <1>3, <1>4, <1>5, <1>6 DEF TabInv

LEMMA AnswerPollKeeps == ASSUME TabInv, NEW r \in Row, NEW k \in 1..MaxPolls, AnswerPoll(r, k) PROVE TabInv'
<1> USE DEF AnswerPoll, RowGoes, PollIs, Drop
<1>0. TabTypeOK /\ CaptureTabAssumption
  BY CaptureTabAssumption DEF TabInv
<1>1. BatchesSound' /\ BatchesCountOnce'
  <2>1. \A q \in Row : Over(q) => Over(q)'
    BY <1>0 DEF Over, NoPolls, TabTypeOK
  <2>2. \A q \in Row : submission[q] # "draft" => submission'[q] # "draft"
    BY <1>0 DEF TabTypeOK
  <2>3. QED
    BY <2>1, <2>2, BatchesRest
<1>2. TabTypeOK'
  BY <1>0, SMTT(20) DEF TabTypeOK, JobEnd
<1>3. SkeletonsArePolled'
  <2>1. ASSUME NEW q \in skeletons PROVE q \in polled \/ \E n \in 1..MaxPolls : polls'[q][n] = "refreshing"
    <3>1. CASE q \in polled
      BY <3>1
    <3>2. CASE q \notin polled
      <4>1. PICK n \in 1..MaxPolls : polls[q][n] = "refreshing"
        BY <2>1, <3>2 DEF TabInv, SkeletonsArePolled
      <4>2. q \in Row /\ (q = r => n # k)
        BY <1>0, <2>1, <4>1 DEF TabTypeOK
      <4>3. polls'[q][n] = polls[q][n]
        BY <1>0, <4>2 DEF TabTypeOK
      <4>4. QED
        BY <4>1, <4>3
    <3>3. QED
      BY <3>1, <3>2
  <2>2. QED
    BY <2>1 DEF TabInv, SkeletonsArePolled
<1>4. FilesWait'
  BY <1>0 DEF TabInv, FilesWait, TabTypeOK, CaptureTabAssumption, JobEnd, DeletesFile
<1>5. PolledAreTracked'
  BY <1>0 DEF TabInv, PolledAreTracked, TabTypeOK, NoPolls
<1>6. OneAtATime'
  <2> SUFFICES ASSUME overlapped' = {}, NEW q \in Row, NEW m \in 1..MaxPolls
               PROVE  /\ polls'[q][m] = "refreshing" => q \notin polled'
                      /\ \A l \in 1..MaxPolls : polls'[q][m] # "none" /\ polls'[q][l] # "none" => m = l
    BY DEF OneAtATime
  <2>1. polls[r][k] # "none" /\ job[r] # "refreshing" /\ job[r] \in {"none", "running"} \cup JobEnd
    BY <1>0 DEF TabTypeOK, JobEnd
  <2>2. polls'[q][m] = IF q = r /\ m = k THEN polls'[r][k] ELSE polls[q][m]
    BY <1>0 DEF TabTypeOK
  <2>3. polls'[r][k] # "refreshing"
    BY <1>0, <2>1 DEF TabTypeOK
  <2>4. polls'[q][m] # "none" => polls[q][m] # "none"
    BY <2>1, <2>2
  <2>5. \A l \in 1..MaxPolls : polls'[q][l] # "none" => polls[q][l] # "none"
    BY <1>0, <2>1 DEF TabTypeOK
  <2>6. QED
    BY <2>2, <2>3, <2>4, <2>5 DEF TabInv, OneAtATime
<1>7. QED
  BY <1>1, <1>2, <1>3, <1>4, <1>5, <1>6 DEF TabInv

LEMMA StillRunningKeeps == ASSUME TabInv, NEW r \in Row, NEW k \in 1..MaxPolls, StillRunning(r, k) PROVE TabInv'
<1> USE DEF StillRunning, RowGoes, PollIs, Drop
<1>0. TabTypeOK /\ CaptureTabAssumption
  BY CaptureTabAssumption DEF TabInv
<1>1. BatchesSound' /\ BatchesCountOnce'
  <2>1. \A q \in Row : Over(q) => Over(q)'
    BY <1>0 DEF Over, NoPolls, TabTypeOK
  <2>2. \A q \in Row : submission[q] # "draft" => submission'[q] # "draft"
    BY <1>0 DEF TabTypeOK
  <2>3. QED
    BY <2>1, <2>2, BatchesRest
<1>2. TabTypeOK'
  BY <1>0 DEF TabTypeOK, JobEnd
<1>3. SkeletonsArePolled'
  BY <1>0 DEF TabInv, SkeletonsArePolled, TabTypeOK
<1>4. FilesWait'
  BY <1>0 DEF TabInv, FilesWait, TabTypeOK, CaptureTabAssumption, JobEnd, DeletesFile
<1>5. PolledAreTracked'
  BY <1>0 DEF TabInv, PolledAreTracked, TabTypeOK, NoPolls
<1>6. OneAtATime'
  BY <1>0 DEF TabInv, OneAtATime, TabTypeOK, NoPolls
<1>7. QED
  BY <1>1, <1>2, <1>3, <1>4, <1>5, <1>6 DEF TabInv

LEMMA HeardOfSuccessKeeps == ASSUME TabInv, NEW r \in Row, NEW k \in 1..MaxPolls, HeardOfSuccess(r, k) PROVE TabInv'
<1> USE DEF HeardOfSuccess, RowGoes, PollIs, Drop
<1>0. TabTypeOK /\ CaptureTabAssumption
  BY CaptureTabAssumption DEF TabInv
<1>1. BatchesSound' /\ BatchesCountOnce'
  <2>1. \A q \in Row : Over(q) => Over(q)'
    BY <1>0 DEF Over, NoPolls, TabTypeOK
  <2>2. \A q \in Row : submission[q] # "draft" => submission'[q] # "draft"
    BY <1>0 DEF TabTypeOK
  <2>3. QED
    BY <2>1, <2>2, BatchesRest
<1>2. TabTypeOK'
  BY <1>0 DEF TabTypeOK, JobEnd
<1>3. SkeletonsArePolled'
  BY <1>0 DEF TabInv, SkeletonsArePolled, TabTypeOK
<1>4. FilesWait'
  BY <1>0 DEF TabInv, FilesWait, TabTypeOK, CaptureTabAssumption, JobEnd, DeletesFile
<1>5. PolledAreTracked'
  BY <1>0 DEF TabInv, PolledAreTracked, TabTypeOK, NoPolls
<1>6. OneAtATime'
  BY <1>0 DEF TabInv, OneAtATime, TabTypeOK, NoPolls
<1>7. QED
  BY <1>1, <1>2, <1>3, <1>4, <1>5, <1>6 DEF TabInv

LEMMA SubmissionFailedKeeps == ASSUME TabInv, NEW r \in Row, SubmissionFailed(r) PROVE TabInv'
<1> USE DEF SubmissionFailed, RowGoes, PollIs, Drop
<1>0. TabTypeOK /\ CaptureTabAssumption
  BY CaptureTabAssumption DEF TabInv
<1>1. /\ BatchesSound' /\ BatchesCountOnce' /\ summedUp' \subseteq Row /\ reported' \subseteq Row
      /\ \A b \in batches' : b.rows \subseteq Row /\ b.settled \in 0..(Cardinality(b.rows) - 1)
  <2>1. \A q \in Row \ {r} : Over(q) => Over(q)'
    BY <1>0 DEF Over, NoPolls, TabTypeOK
  <2>2. \A q \in Row : submission[q] # "draft" => submission'[q] # "draft"
    BY <1>0 DEF TabTypeOK
  <2>3. overlapped = {} => ~Over(r) /\ Over(r)'
    BY <1>0 DEF Over, NoPolls, TabTypeOK, TabInv, PolledAreTracked
  <2>4. QED
    BY <2>1, <2>2, <2>3, SettledOnce
<1>2. TabTypeOK'
  BY <1>0, <1>1 DEF TabTypeOK, JobEnd
<1>3. SkeletonsArePolled'
  BY <1>0 DEF TabInv, SkeletonsArePolled, TabTypeOK, Settle
<1>4. FilesWait'
  BY <1>0 DEF TabInv, FilesWait, TabTypeOK, CaptureTabAssumption, JobEnd, DeletesFile
<1>5. PolledAreTracked'
  BY <1>0 DEF TabInv, PolledAreTracked, TabTypeOK, NoPolls, Settle
<1>6. OneAtATime'
  BY <1>0 DEF TabInv, OneAtATime, TabTypeOK, NoPolls, Settle
<1>7. QED
  BY <1>1, <1>2, <1>3, <1>4, <1>5, <1>6 DEF TabInv

LEMMA HeardOfFailureKeeps == ASSUME TabInv, NEW r \in Row, NEW k \in 1..MaxPolls, HeardOfFailure(r, k) PROVE TabInv'
<1> USE DEF HeardOfFailure, RowGoes, PollIs, Drop
<1>0. TabTypeOK /\ CaptureTabAssumption
  BY CaptureTabAssumption DEF TabInv
<1>1. /\ BatchesSound' /\ BatchesCountOnce' /\ summedUp' \subseteq Row /\ reported' \subseteq Row
      /\ \A b \in batches' : b.rows \subseteq Row /\ b.settled \in 0..(Cardinality(b.rows) - 1)
  <2>1. \A q \in Row \ {r} : Over(q) => Over(q)'
    BY <1>0 DEF Over, NoPolls, TabTypeOK
  <2>2. \A q \in Row : submission[q] # "draft" => submission'[q] # "draft"
    BY <1>0 DEF TabTypeOK
  <2>3. overlapped = {} => ~Over(r) /\ Over(r)'
    <3>1. polls[r][k] # "none" /\ polls[r] # NoPolls /\ submission[r] = "tracked"
      BY <1>0 DEF TabInv, PolledAreTracked, NoPolls
    <3>2. ASSUME overlapped = {} PROVE polls'[r] = NoPolls
      <4>1. \A l \in 1..MaxPolls : l # k => polls[r][l] = "none"
        BY <3>1, <3>2 DEF TabInv, OneAtATime
      <4>2. QED
        BY <1>0, <4>1 DEF TabTypeOK, NoPolls
    <3>3. overlapped = {} => r \notin polled'
      BY <1>0 DEF TabInv, OneAtATime, TabTypeOK
    <3>4. QED
      BY <3>1, <3>2, <3>3 DEF Over
  <2>4. QED
    BY <2>1, <2>2, <2>3, SettledOnce
<1>2. TabTypeOK'
  BY <1>0, <1>1 DEF TabTypeOK, JobEnd
<1>3. SkeletonsArePolled'
  BY <1>0 DEF TabInv, SkeletonsArePolled, TabTypeOK, Settle
<1>4. FilesWait'
  BY <1>0 DEF TabInv, FilesWait, TabTypeOK, CaptureTabAssumption, JobEnd, DeletesFile
<1>5. PolledAreTracked'
  BY <1>0 DEF TabInv, PolledAreTracked, TabTypeOK, NoPolls, Settle
<1>6. OneAtATime'
  BY <1>0 DEF TabInv, OneAtATime, TabTypeOK, NoPolls, Settle
<1>7. QED
  BY <1>1, <1>2, <1>3, <1>4, <1>5, <1>6 DEF TabInv

LEMMA RefreshedKeeps == ASSUME TabInv, NEW r \in Row, NEW k \in 1..MaxPolls, Refreshed(r, k) PROVE TabInv'
<1> USE DEF Refreshed, RowGoes, PollIs, Drop
<1>0. TabTypeOK /\ CaptureTabAssumption
  BY CaptureTabAssumption DEF TabInv
<1>1. /\ BatchesSound' /\ BatchesCountOnce' /\ summedUp' \subseteq Row /\ reported' \subseteq Row
      /\ \A b \in batches' : b.rows \subseteq Row /\ b.settled \in 0..(Cardinality(b.rows) - 1)
  <2>1. \A q \in Row \ {r} : Over(q) => Over(q)'
    BY <1>0 DEF Over, NoPolls, TabTypeOK
  <2>2. \A q \in Row : submission[q] # "draft" => submission'[q] # "draft"
    BY <1>0 DEF TabTypeOK
  <2>3. overlapped = {} => ~Over(r) /\ Over(r)'
    <3>1. polls[r][k] # "none" /\ polls[r] # NoPolls /\ submission[r] = "tracked"
      BY <1>0 DEF TabInv, PolledAreTracked, NoPolls
    <3>2. ASSUME overlapped = {} PROVE polls'[r] = NoPolls
      <4>1. \A l \in 1..MaxPolls : l # k => polls[r][l] = "none"
        BY <3>1, <3>2 DEF TabInv, OneAtATime
      <4>2. QED
        BY <1>0, <4>1 DEF TabTypeOK, NoPolls
    <3>3. overlapped = {} => r \notin polled'
      BY <1>0 DEF TabInv, OneAtATime, TabTypeOK
    <3>4. QED
      BY <3>1, <3>2, <3>3 DEF Over
  <2>4. QED
    BY <2>1, <2>2, <2>3, SettledOnce
<1>2. TabTypeOK'
  BY <1>0, <1>1 DEF TabTypeOK, JobEnd
<1>3. SkeletonsArePolled'
  BY <1>0 DEF TabInv, SkeletonsArePolled, TabTypeOK, Settle
<1>4. FilesWait'
  BY <1>0 DEF TabInv, FilesWait, TabTypeOK, CaptureTabAssumption, JobEnd, DeletesFile
<1>5. PolledAreTracked'
  BY <1>0 DEF TabInv, PolledAreTracked, TabTypeOK, NoPolls, Settle
<1>6. OneAtATime'
  BY <1>0 DEF TabInv, OneAtATime, TabTypeOK, NoPolls, Settle
<1>7. QED
  BY <1>1, <1>2, <1>3, <1>4, <1>5, <1>6 DEF TabInv

LEMMA ArchiveKeeps == ASSUME TabInv, NEW rows \in SUBSET Row, Archive(rows) PROVE TabInv'
<1> USE DEF Archive
<1>0. TabTypeOK /\ CaptureTabAssumption
  BY CaptureTabAssumption DEF TabInv
<1> DEFINE new == [rows |-> rows, settled |-> 0]
<1>1. /\ batches' \subseteq batches \cup {new} /\ (new \in batches' \ batches => Cardinality(rows) > 1)
      /\ \A q \in rows : submission[q] = "draft" /\ submission'[q] = "sending" /\ q \notin reported
      /\ \A q \in Row \ rows : submission'[q] = submission[q]
  BY <1>0 DEF TabInv, PolledAreTracked
<1>2. ASSUME NEW b \in batches PROVE BatchSound(b)' /\ b.rows \cap rows = {}
  <2>1. BatchSound(b) /\ b.rows \subseteq Row
    BY DEF TabInv, BatchesSound, BatchSound
  <2>2. b.rows \cap rows = {}
    BY <1>1, <2>1 DEF BatchSound
  <2>3. \A q \in b.rows : submission'[q] = submission[q]
    BY <1>1, <2>1, <2>2
  <2>4. QED
    BY <2>1, <2>2, <2>3 DEF BatchSound, Over
<1>3. BatchSound(new)'
  <2>1. new.rows \cap reported = {} /\ Cardinality({}) = 0
    BY <1>1, FS_EmptySet
  <2>2. QED
    BY <1>1, <2>1 DEF BatchSound
<1>4. BatchesSound'
  BY <1>1, <1>2, <1>3 DEF TabInv, BatchesSound
<1>5. BatchesCountOnce'
  BY DEF TabInv, BatchesCountOnce
<1>6. TabTypeOK'
  <2>1. Cardinality(rows) \in Nat
    BY <1>0, FS_Subset, FS_CardinalityType DEF CaptureTabAssumption
  <2>2. \A b \in batches' : b.rows \subseteq Row /\ b.settled \in 0..(Cardinality(b.rows) - 1)
    <3>1. \A b \in batches : b.rows \subseteq Row /\ b.settled \in 0..(Cardinality(b.rows) - 1)
      BY <1>0 DEF TabTypeOK
    <3>2. new \in batches' \ batches => new.rows \subseteq Row /\ new.settled \in 0..(Cardinality(new.rows) - 1)
      BY <1>1, <2>1
    <3>3. QED
      BY <1>1, <3>1, <3>2
  <2>3. QED
    BY <1>0, <2>2 DEF TabTypeOK
<1>7. SkeletonsArePolled'
  BY <1>0, <1>1 DEF TabInv, SkeletonsArePolled
<1>8. FilesWait'
  BY <1>0, <1>1 DEF TabInv, FilesWait, CaptureTabAssumption
<1>9. PolledAreTracked'
  BY <1>0, <1>1 DEF TabInv, PolledAreTracked
<1>10. OneAtATime'
  BY DEF TabInv, OneAtATime
<1>11. QED
  BY <1>4, <1>5, <1>6, <1>7, <1>8, <1>9, <1>10 DEF TabInv

LEMMA ReloadKeeps == ASSUME TabInv, Reload PROVE TabInv'
<1> USE DEF Reload, Drop
<1>0. TabTypeOK /\ CaptureTabAssumption
  BY CaptureTabAssumption DEF TabInv
<1>1. ASSUME NEW q \in Row
      PROVE  /\ submission[q] = "sending" => submission'[q] = "unheard"
             /\ submission[q] \in {"taken", "refused"} => submission'[q] = "gone"
             /\ submission[q] = "lost" => submission'[q] = "unheard"
             /\ submission[q] \in {"draft", "unheard", "tracked", "gone"} => submission'[q] = submission[q]
  OBVIOUS
<1>2. TabTypeOK'
  <2>1. \A q \in Row : submission'[q] \in {"draft", "sending", "taken", "refused", "lost", "unheard", "tracked", "gone"}
    BY <1>0, <1>1 DEF TabTypeOK
  <2>2. submission' \in [Row -> {"draft", "sending", "taken", "refused", "lost", "unheard", "tracked", "gone"}]
    BY <2>1
  <2>3. polls' \in [Row -> [1..MaxPolls -> {"none", "asked", "running", "error", "refreshing"} \cup JobEnd]]
    BY DEF NoPolls
  <2>4. QED
    BY <1>0, <2>2, <2>3 DEF TabTypeOK
<1>3. BatchesSound' /\ BatchesCountOnce'
  BY DEF TabInv, BatchesSound, BatchesCountOnce
<1>4. SkeletonsArePolled'
  <2>1. \A q \in Row : submission'[q] = "tracked" => submission[q] = "tracked"
    BY <1>0, <1>1 DEF TabTypeOK
  <2>2. QED
    BY <2>1 DEF TabInv, SkeletonsArePolled
<1>5. FilesWait'
  <2>1. ASSUME NEW q \in Row
        PROVE  /\ submission'[q] \in {"draft", "sending", "refused"} => submission[q] = "draft" /\ submission'[q] = "draft"
               /\ submission[q] \in {"refused", "gone"} => submission'[q] = "gone"
    BY <1>0, <1>1 DEF TabTypeOK
  <2>2. QED
    BY <1>0, <2>1 DEF TabInv, FilesWait, CaptureTabAssumption
<1>6. PolledAreTracked'
  BY <1>0, <1>1 DEF TabInv, PolledAreTracked, TabTypeOK, NoPolls
<1>7. OneAtATime'
  BY DEF OneAtATime, NoPolls
<1>8. QED
  BY <1>2, <1>3, <1>4, <1>5, <1>6, <1>7 DEF TabInv

LEMMA TabStays == TabInv /\ [TabNext]_tabVars => TabInv'
<1> SUFFICES ASSUME TabInv, [TabNext]_tabVars PROVE TabInv'
  OBVIOUS
<1>1. ASSUME NEW r \in Row,
             Take(r) \/ RefuseRow(r) \/ LoseAnswer(r) \/ JobStarted(r) \/ SubmissionFailed(r) \/ EndJob(r) \/ Tick(r)
      PROVE  TabInv'
  BY <1>1, TakeKeeps, RefuseRowKeeps, LoseAnswerKeeps, JobStartedKeeps, SubmissionFailedKeeps, EndJobKeeps, TickKeeps
<1>2. ASSUME NEW r \in Row, NEW k \in 1..MaxPolls,
             AnswerPoll(r, k) \/ StillRunning(r, k) \/ HeardOfFailure(r, k) \/ HeardOfSuccess(r, k) \/ Refreshed(r, k)
      PROVE  TabInv'
  BY <1>2, AnswerPollKeeps, StillRunningKeeps, HeardOfFailureKeeps, HeardOfSuccessKeeps, RefreshedKeeps
<1>3. CASE UNCHANGED tabVars
  BY <1>3, ZenonT(40) DEF tabVars, TabInv, TabTypeOK, SkeletonsArePolled, FilesWait, PolledAreTracked, OneAtATime, BatchesSound,
              BatchSound, Over, BatchesCountOnce
<1>4. QED
  BY <1>1, <1>2, <1>3, ArchiveKeeps, ReloadKeeps DEF TabNext

LEMMA TabInvariant == TabSpec => []TabInv
  BY TabStarts, TabStays, PTL DEF TabSpec

LEMMA TabPromise == TabInv => TabKeepsTrack
<1>1. TabInv => RunningJobsHaveFiles
  BY CaptureTabAssumption DEF TabInv, FilesWait, RunningJobsHaveFiles
<1>2. QED
  BY <1>1 DEF TabInv, TabKeepsTrack

(* No skeleton outlives its poll, no running job loses its file to the tab,  *)
(* and a batch counts each row once unless polls overlapped, for any rows    *)
(* and any polls under way (startPolling, submitBgJob, settleBatch).         *)
THEOREM TabsKeepTrack == TabSpec => []TabKeepsTrack
  BY TabPromise, TabInvariant, PTL
----------------------------------------------------------------------------
(* Rail.  As long as no answers that are not ordered were under way          *)
(* together, every answer that still counts is at least as new as what was   *)
(* shown, because the server only gets newer and whatever shows something    *)
(* newer passes the requests asked before.                                   *)

RequestType ==
    [kind : RequestKind, of : Shown, live : BOOLEAN, answered : BOOLEAN, version : 0..MaxVersion, working : BOOLEAN]
LiveOf(kind) == {q \in requests : q.kind = kind /\ q.live}

LiveAreOfTheSelection ==
    /\ \A q \in LiveOf("poll") \cup LiveOf("generate") : q.of = selected /\ detail = selected
    /\ \A q \in LiveOf("detail") : q.of = selected
    /\ LiveOf("poll") # {} => attempt = "running"
    /\ \A p, q \in LiveOf("generate") : p = q
    /\ LiveOf("generate") # {} => attempt # "running"
    /\ detail = Nothing => attempt # "running"
    /\ detail \in {Nothing, selected}

NobodyIsAhead ==
    /\ \A q \in requests : q.version <= version[q.of]
    /\ selected = Nothing => newest = 0
    /\ selected # Nothing => newest <= version[selected]
    /\ summary <= newest

AskedAlone ==
    /\ \A p, q \in LiveOf("poll") : p = q
    /\ \A p, q \in Under("save") : p = q
    /\ attempt = "running" \/ LiveOf("generate") # {} => Under("save") = {}

AnswersAreNew ==
    \A q \in requests : q.answered /\ Counts(q) /\ (q.kind = "detail" => detail = Nothing) => newest <= q.version

RailInv ==
    /\ RailTypeOK /\ requests \subseteq RequestType /\ LiveAreOfTheSelection /\ NobodyIsAhead
    /\ crossed \in BOOLEAN
    /\ ~crossed =>
        /\ AskedAlone /\ AnswersAreNew
        /\ attempt # "running" => summary = newest \/ summary = 0

(* What is left of the requests Q when those of some kinds were passed.      *)
Stale(x, Q, kinds) ==
    /\ x \in RequestType
    /\ IF x.kind \in kinds THEN ~x.live /\ \E q \in Q : q.of = x.of /\ q.version = x.version ELSE x \in Q

LEMMA PassingLeaves ==
  ASSUME NEW Q \in SUBSET RequestType, NEW R, NEW kinds, NEW more, \A x \in R : Stale(x, Q, kinds)
  PROVE  \A x \in Passing(R, more) : Stale(x, Q, kinds \cup more)
<1> SUFFICES ASSUME NEW x \in Passing(R, more) PROVE Stale(x, Q, kinds \cup more)
  OBVIOUS
<1>1. PICK r \in R : x = IF r.kind \in more THEN [r EXCEPT !.live = FALSE] ELSE r
  BY DEF Passing
<1>2. Stale(r, Q, kinds)
  OBVIOUS
<1>3. CASE r.kind \in more
  <2>1. x \in RequestType /\ x.kind = r.kind /\ x.of = r.of /\ x.version = r.version /\ ~x.live
    BY <1>1, <1>2, <1>3 DEF Stale, RequestType
  <2>2. \E q \in Q : q.of = x.of /\ q.version = x.version
    BY <1>2, <2>1 DEF Stale
  <2>3. QED
    BY <1>3, <2>1, <2>2 DEF Stale
<1>4. CASE r.kind \notin more
  BY <1>1, <1>2, <1>4 DEF Stale
<1>5. QED
  BY <1>3, <1>4

LEMMA StopsLeaves ==
  ASSUME NEW Q \in SUBSET RequestType
  PROVE  /\ \A x \in StopsPolls(Q) : Stale(x, Q, {"poll"})
         /\ \A x \in Stops(Q) : Stale(x, Q, {"poll", "generate"})
<1>1. \A x \in Q : Stale(x, Q, {})
  BY DEF Stale
<1>2. \A x \in StopsPolls(Q) : Stale(x, Q, {} \cup {"poll"})
  BY <1>1, PassingLeaves DEF StopsPolls
<1>3. \A x \in Passing(Q, {"generate"}) : Stale(x, Q, {} \cup {"generate"})
  BY <1>1, PassingLeaves
<1>4. \A x \in Stops(Q) : Stale(x, Q, ({} \cup {"generate"}) \cup {"poll"})
  BY <1>3, PassingLeaves DEF Stops, StopsPolls
<1>5. {} \cup {"poll"} = {"poll"} /\ ({} \cup {"generate"}) \cup {"poll"} = {"poll", "generate"}
  OBVIOUS
<1>6. QED
  BY <1>2, <1>4, <1>5

LEMMA AskDetailLeaves ==
  ASSUME NEW Q \in SUBSET RequestType, NEW R, NEW kinds, \A x \in R : Stale(x, Q, kinds),
         NEW e \in Shown \cup {Nothing}, NEW x \in AskDetail(R, e)
  PROVE  Stale(x, Q, kinds \cup {"detail"}) \/ (e # Nothing /\ x = Request("detail", e))
  BY PassingLeaves DEF AskDetail, PassesEarlier

LEMMA RequestsAreTyped == \A k \in RequestKind, e \in Shown : MaxVersion \in Nat => Request(k, e) \in RequestType
  BY DEF Request, RequestType

(* What is in the set of requests behind a step: those left of it, and a new *)
(* one.                                                                      *)
Left(ended, kinds) == \A x \in requests' : Stale(x, requests \ ended, kinds)
LeftOrAsked(ended, kinds, k, e) ==
    \A x \in requests' : Stale(x, requests \ ended, kinds) \/ (e # Nothing /\ x = Request(k, e))

LEMMA RailStarts == RailInit => RailInv
<1> SUFFICES ASSUME RailInit PROVE RailInv
  OBVIOUS
<1>1. RailTypeOK
  <2>1. version \in [Shown -> 0..MaxVersion]
    BY RailAssumption DEF RailInit
  <2>2. QED
    BY RailAssumption DEF RailInit, RailTypeOK, Nothing
<1>2. requests = {} /\ LiveOf("poll") = {} /\ LiveOf("generate") = {} /\ LiveOf("detail") = {} /\ Under("save") = {}
  BY DEF RailInit, LiveOf, Under
<1>3. LiveAreOfTheSelection /\ AskedAlone /\ AnswersAreNew
  BY <1>2 DEF RailInit, LiveAreOfTheSelection, AskedAlone, AnswersAreNew
<1>4. NobodyIsAhead
  BY <1>2 DEF RailInit, NobodyIsAhead
<1>5. QED
  BY <1>1, <1>2, <1>3, <1>4 DEF RailInit, RailInv

LEMMA SelectKeeps == ASSUME RailInv, NEW e \in Shown \cup {Nothing}, Select(e) PROVE RailInv'
<1> USE DEF Select, Show
<1>0. /\ RailTypeOK /\ requests \subseteq RequestType /\ RequestType' = RequestType
      /\ MaxVersion \in Nat /\ Nothing \notin Shown /\ Nothing = 0
  BY RailAssumption DEF RailInv, RailTypeOK, Nothing, RequestType
<1>1. LeftOrAsked({}, {"poll", "generate", "detail"}, "detail", e)
  <2>1. \A x \in Stops(requests) : Stale(x, requests, {"poll", "generate"})
    BY <1>0, StopsLeaves
  <2>2. \A x \in requests' : Stale(x, requests, {"poll", "generate"} \cup {"detail"})
                            \/ (e # Nothing /\ x = Request("detail", e))
    BY <1>0, <2>1, AskDetailLeaves DEF RailTypeOK
  <2>3. requests \ {} = requests /\ {"poll", "generate"} \cup {"detail"} = {"poll", "generate", "detail"}
    OBVIOUS
  <2>4. QED
    BY <2>2, <2>3 DEF LeftOrAsked
<1>2. requests' \subseteq RequestType
  BY <1>0, <1>1, RequestsAreTyped DEF Left, LeftOrAsked, Stale, RequestKind, RailTypeOK, RailInv
<1>3. RailTypeOK'
  BY <1>0, <1>2 DEF RailTypeOK, RequestType, RailInv
<1>4. LiveAreOfTheSelection'
  BY <1>0, <1>1 DEF RailInv, LiveAreOfTheSelection, LiveOf, Left, LeftOrAsked, Stale, Request, Counts, RailTypeOK
<1>5. NobodyIsAhead'
  BY <1>0, <1>1 DEF RailInv, NobodyIsAhead, Left, LeftOrAsked, Stale, Request, RequestType, RailTypeOK, Counts
<1>6. crossed' \in BOOLEAN
  BY DEF RailInv
<1>7. ASSUME ~crossed' PROVE AskedAlone'
  BY <1>0, <1>1, <1>7
     DEF RailInv, AskedAlone, LiveAreOfTheSelection, LiveOf, Under, Left, LeftOrAsked, Stale, Request, RailTypeOK, Counts
<1>8. ASSUME ~crossed' PROVE AnswersAreNew'
  BY <1>0, <1>1, <1>7, <1>8
     DEF RailInv, AnswersAreNew, AskedAlone, NobodyIsAhead, LiveAreOfTheSelection, LiveOf, Under, Left, LeftOrAsked,
         Stale, Request, RailTypeOK, Counts, RequestType, RequestKind
<1>9. ASSUME ~crossed', attempt' # "running" PROVE summary' = newest' \/ summary' = 0
  BY <1>0, <1>9 DEF RailInv, AnswersAreNew, AskedAlone, NobodyIsAhead, LiveAreOfTheSelection, LiveOf, Under, RailTypeOK,
         Counts, RequestType
<1>10. QED
  BY <1>2, <1>3, <1>4, <1>5, <1>6, <1>7, <1>8, <1>9, <1>0 DEF RailInv

LEMMA RenameKeeps == ASSUME RailInv, Rename PROVE RailInv'
<1> USE DEF Rename, Show
<1>0. /\ RailTypeOK /\ requests \subseteq RequestType /\ RequestType' = RequestType
      /\ MaxVersion \in Nat /\ Nothing \notin Shown /\ Nothing = 0
  BY RailAssumption DEF RailInv, RailTypeOK, Nothing, RequestType
<1>1. LeftOrAsked({}, {"poll", "generate", "detail"}, "detail", selected)
      \/ (detail = Nothing /\ LeftOrAsked({}, {"detail"}, "detail", selected))
  <2>1. \A x \in Stops(requests) : Stale(x, requests, {"poll", "generate"})
    BY <1>0, StopsLeaves
  <2>2. \A x \in requests : Stale(x, requests, {})
    BY <1>0 DEF Stale
  <2>3. requests \ {} = requests /\ {"poll", "generate"} \cup {"detail"} = {"poll", "generate", "detail"}
        /\ {} \cup {"detail"} = {"detail"}
    OBVIOUS
  <2>4. CASE detail = Nothing
    <3>0. requests' = AskDetail(requests, selected) /\ selected \in Shown \cup {Nothing} /\ requests \in SUBSET RequestType
      BY <1>0, <2>4 DEF RailTypeOK
    <3>1. \A x \in requests' : Stale(x, requests, {} \cup {"detail"}) \/ (selected # Nothing /\ x = Request("detail", selected))
      BY <2>2, <3>0, AskDetailLeaves
    <3>2. QED
      BY <2>3, <2>4, <3>1 DEF LeftOrAsked
  <2>5. CASE detail # Nothing
    <3>0. requests' = AskDetail(Stops(requests), selected) /\ selected \in Shown \cup {Nothing}
          /\ requests \in SUBSET RequestType
      BY <1>0, <2>5 DEF RailTypeOK
    <3>1. \A x \in requests' : Stale(x, requests, {"poll", "generate"} \cup {"detail"}) \/ (selected # Nothing /\ x = Request("detail", selected))
      BY <2>1, <3>0, AskDetailLeaves
    <3>2. QED
      BY <2>3, <3>1 DEF LeftOrAsked
  <2>6. QED
    BY <2>4, <2>5
<1>2. requests' \subseteq RequestType
  BY <1>0, <1>1, RequestsAreTyped DEF Left, LeftOrAsked, Stale, RequestKind, RailTypeOK, RailInv
<1>3. RailTypeOK'
  BY <1>0, <1>2 DEF RailTypeOK, RequestType, RailInv
<1>4. LiveAreOfTheSelection'
  BY <1>0, <1>1 DEF RailInv, LiveAreOfTheSelection, LiveOf, Left, LeftOrAsked, Stale, Request, Counts, RailTypeOK
<1>5. NobodyIsAhead'
  BY <1>0, <1>1 DEF RailInv, NobodyIsAhead, Left, LeftOrAsked, Stale, Request, RequestType, RailTypeOK, Counts
<1>6. crossed' \in BOOLEAN
  BY DEF RailInv
<1>7. ASSUME ~crossed' PROVE AskedAlone'
  BY <1>0, <1>1, <1>7
     DEF RailInv, AskedAlone, LiveAreOfTheSelection, LiveOf, Under, Left, LeftOrAsked, Stale, Request, RailTypeOK, Counts
<1>8. ASSUME ~crossed' PROVE AnswersAreNew'
  BY <1>0, <1>1, <1>7, <1>8
     DEF RailInv, AnswersAreNew, AskedAlone, NobodyIsAhead, LiveAreOfTheSelection, LiveOf, Under, Left, LeftOrAsked,
         Stale, Request, RailTypeOK, Counts, RequestType, RequestKind
<1>9. ASSUME ~crossed', attempt' # "running" PROVE summary' = newest' \/ summary' = 0
  BY <1>0, <1>9 DEF RailInv, AnswersAreNew, AskedAlone, NobodyIsAhead, LiveAreOfTheSelection, LiveOf, Under, RailTypeOK,
         Counts, RequestType
<1>10. QED
  BY <1>2, <1>3, <1>4, <1>5, <1>6, <1>7, <1>8, <1>9, <1>0 DEF RailInv

LEMMA GenerateKeeps == ASSUME RailInv, Generate PROVE RailInv'
<1> USE DEF Generate, Show, Matches
<1>0. /\ RailTypeOK /\ requests \subseteq RequestType /\ RequestType' = RequestType
      /\ MaxVersion \in Nat /\ Nothing \notin Shown /\ Nothing = 0
  BY RailAssumption DEF RailInv, RailTypeOK, Nothing, RequestType
<1>1. LeftOrAsked({}, {}, "generate", selected)
  BY <1>0 DEF LeftOrAsked, Stale, Matches
<1>2. requests' \subseteq RequestType
  BY <1>0, <1>1, RequestsAreTyped DEF Left, LeftOrAsked, Stale, RequestKind, RailTypeOK, RailInv
<1>3. RailTypeOK'
  BY <1>0, <1>2 DEF RailTypeOK, RequestType, RailInv
<1>4. LiveAreOfTheSelection'
  <2>1. detail = selected /\ selected # Nothing /\ LiveOf("generate") = {} /\ LiveOf("poll") = {}
    BY DEF RailInv, LiveAreOfTheSelection, LiveOf, Under
  <2>2. \A x \in requests' : x \in requests \/ x = Request("generate", selected)
    BY <2>1
  <2>3. LiveOf("poll")' = {} /\ \A x \in LiveOf("generate")' : x = Request("generate", selected)
    BY <2>1, <2>2 DEF LiveOf, Request
  <2>4. \A x \in LiveOf("detail")' : x \in LiveOf("detail")
    BY <2>2 DEF LiveOf, Request
  <2>5. \A x \in LiveOf("generate")' : x.of = selected
    BY <2>3 DEF Request
  <2>6. QED
    BY <2>1, <2>3, <2>4, <2>5 DEF RailInv, LiveAreOfTheSelection
<1>5. NobodyIsAhead'
  BY <1>0, <1>1 DEF RailInv, NobodyIsAhead, Left, LeftOrAsked, Stale, Request, RequestType, RailTypeOK, Counts
<1>6. crossed' \in BOOLEAN
  BY DEF RailInv
<1>7. ASSUME ~crossed' PROVE AskedAlone'
  <2>1. Under("save") = {} /\ LiveOf("poll") = {}
    BY <1>7 DEF RailInv, LiveAreOfTheSelection
  <2>2. \A x \in requests' : x \in requests \/ x = Request("generate", detail)
    OBVIOUS
  <2>3. Under("save")' = {} /\ LiveOf("poll")' = {}
    BY <2>1, <2>2 DEF LiveOf, Under, Request
  <2>4. QED
    BY <2>3 DEF AskedAlone
<1>8. ASSUME ~crossed' PROVE AnswersAreNew'
  BY <1>0, <1>1, <1>7, <1>8
     DEF RailInv, AnswersAreNew, AskedAlone, NobodyIsAhead, LiveAreOfTheSelection, LiveOf, Under, Left, LeftOrAsked,
         Stale, Request, RailTypeOK, Counts, RequestType, RequestKind
<1>9. ASSUME ~crossed', attempt' # "running" PROVE summary' = newest' \/ summary' = 0
  BY <1>0, <1>9 DEF RailInv, AnswersAreNew, AskedAlone, NobodyIsAhead, LiveAreOfTheSelection, LiveOf, Under, RailTypeOK,
         Counts, RequestType
<1>10. QED
  BY <1>2, <1>3, <1>4, <1>5, <1>6, <1>7, <1>8, <1>9, <1>0 DEF RailInv

LEMMA SaveKeeps == ASSUME RailInv, Save PROVE RailInv'
<1> USE DEF Save, Show, Matches
<1>0. /\ RailTypeOK /\ requests \subseteq RequestType /\ RequestType' = RequestType
      /\ MaxVersion \in Nat /\ Nothing \notin Shown /\ Nothing = 0
  BY RailAssumption DEF RailInv, RailTypeOK, Nothing, RequestType
<1>1. LeftOrAsked({}, {}, "save", selected)
  BY <1>0 DEF LeftOrAsked, Stale, Matches
<1>2. requests' \subseteq RequestType
  BY <1>0, <1>1, RequestsAreTyped DEF Left, LeftOrAsked, Stale, RequestKind, RailTypeOK, RailInv
<1>3. RailTypeOK'
  BY <1>0, <1>2 DEF RailTypeOK, RequestType, RailInv
<1>4. LiveAreOfTheSelection'
  BY <1>0, <1>1 DEF RailInv, LiveAreOfTheSelection, LiveOf, Left, LeftOrAsked, Stale, Request, Counts, RailTypeOK
<1>5. NobodyIsAhead'
  BY <1>0, <1>1 DEF RailInv, NobodyIsAhead, Left, LeftOrAsked, Stale, Request, RequestType, RailTypeOK, Counts
<1>6. crossed' \in BOOLEAN
  BY DEF RailInv
<1>7. ASSUME ~crossed' PROVE AskedAlone'
  <2>1. Under("save") = {} /\ LiveOf("generate") = {} /\ attempt # "running" /\ LiveOf("poll") = {}
    BY <1>7 DEF RailInv, LiveAreOfTheSelection, LiveOf, Under
  <2>2. LiveOf("generate")' = {} /\ LiveOf("poll")' = {}
    BY <1>0, <2>1 DEF LiveOf, Request
  <2>3. \A x \in Under("save")' : x = Request("save", detail)
    BY <2>1 DEF Under, Request
  <2>4. QED
    BY <2>1, <2>2, <2>3 DEF AskedAlone
<1>8. ASSUME ~crossed' PROVE AnswersAreNew'
  BY <1>0, <1>1, <1>7, <1>8
     DEF RailInv, AnswersAreNew, AskedAlone, NobodyIsAhead, LiveAreOfTheSelection, LiveOf, Under, Left, LeftOrAsked,
         Stale, Request, RailTypeOK, Counts, RequestType, RequestKind
<1>9. ASSUME ~crossed', attempt' # "running" PROVE summary' = newest' \/ summary' = 0
  BY <1>0, <1>9 DEF RailInv, AnswersAreNew, AskedAlone, NobodyIsAhead, LiveAreOfTheSelection, LiveOf, Under, RailTypeOK,
         Counts, RequestType
<1>10. QED
  BY <1>2, <1>3, <1>4, <1>5, <1>6, <1>7, <1>8, <1>9, <1>0 DEF RailInv

LEMMA PollSummaryKeeps == ASSUME RailInv, PollSummary PROVE RailInv'
<1> USE DEF PollSummary, Show, Matches
<1>0. /\ RailTypeOK /\ requests \subseteq RequestType /\ RequestType' = RequestType
      /\ MaxVersion \in Nat /\ Nothing \notin Shown /\ Nothing = 0
  BY RailAssumption DEF RailInv, RailTypeOK, Nothing, RequestType
<1>1. LeftOrAsked({}, {}, "poll", selected)
  BY <1>0 DEF LeftOrAsked, Stale, Matches
<1>2. requests' \subseteq RequestType
  BY <1>0, <1>1, RequestsAreTyped DEF Left, LeftOrAsked, Stale, RequestKind, RailTypeOK, RailInv
<1>3. RailTypeOK'
  BY <1>0, <1>2 DEF RailTypeOK, RequestType, RailInv
<1>4. LiveAreOfTheSelection'
  BY <1>0, <1>1 DEF RailInv, LiveAreOfTheSelection, LiveOf, Left, LeftOrAsked, Stale, Request, Counts, RailTypeOK
<1>5. NobodyIsAhead'
  BY <1>0, <1>1 DEF RailInv, NobodyIsAhead, Left, LeftOrAsked, Stale, Request, RequestType, RailTypeOK, Counts
<1>6. crossed' \in BOOLEAN
  BY DEF RailInv
<1>7. ASSUME ~crossed' PROVE AskedAlone'
  <2>1. Under("save") = {} /\ LiveOf("poll") = {} /\ LiveOf("generate") = {}
    BY <1>7 DEF RailInv, AskedAlone, LiveAreOfTheSelection, LiveOf, Under
  <2>2. \A x \in requests' : x \in requests \/ x = Request("poll", detail)
    OBVIOUS
  <2>3. Under("save")' = {} /\ LiveOf("generate")' = {} /\ \A x \in LiveOf("poll")' : x = Request("poll", detail)
    BY <2>1, <2>2 DEF LiveOf, Under, Request
  <2>4. QED
    BY <2>3 DEF AskedAlone
<1>8. ASSUME ~crossed' PROVE AnswersAreNew'
  BY <1>0, <1>1, <1>7, <1>8
     DEF RailInv, AnswersAreNew, AskedAlone, NobodyIsAhead, LiveAreOfTheSelection, LiveOf, Under, Left, LeftOrAsked,
         Stale, Request, RailTypeOK, Counts, RequestType, RequestKind
<1>9. ASSUME ~crossed', attempt' # "running" PROVE summary' = newest' \/ summary' = 0
  BY <1>0, <1>9 DEF RailInv, AnswersAreNew, AskedAlone, NobodyIsAhead, LiveAreOfTheSelection, LiveOf, Under, RailTypeOK,
         Counts, RequestType
<1>10. QED
  BY <1>2, <1>3, <1>4, <1>5, <1>6, <1>7, <1>8, <1>9, <1>0 DEF RailInv

LEMMA DiscardKeeps == ASSUME RailInv, NEW q \in requests, Discard(q) PROVE RailInv'
<1> USE DEF Discard, Show, Ignore
<1>0. /\ RailTypeOK /\ requests \subseteq RequestType /\ RequestType' = RequestType
      /\ MaxVersion \in Nat /\ Nothing \notin Shown /\ Nothing = 0
  BY RailAssumption DEF RailInv, RailTypeOK, Nothing, RequestType
<1>1. Left({q}, {})
  BY <1>0 DEF Left, Stale
<1>2. requests' \subseteq RequestType
  BY <1>0, <1>1, RequestsAreTyped DEF Left, LeftOrAsked, Stale, RequestKind, RailTypeOK, RailInv
<1>3. RailTypeOK'
  BY <1>0, <1>2 DEF RailTypeOK, RequestType, RailInv
<1>4. LiveAreOfTheSelection'
  BY <1>0, <1>1 DEF RailInv, LiveAreOfTheSelection, LiveOf, Left, LeftOrAsked, Stale, Request, Counts, RailTypeOK
<1>5. NobodyIsAhead'
  BY <1>0, <1>1 DEF RailInv, NobodyIsAhead, Left, LeftOrAsked, Stale, Request, RequestType, RailTypeOK, Counts
<1>6. crossed' \in BOOLEAN
  BY DEF RailInv
<1>7. ASSUME ~crossed' PROVE AskedAlone'
  BY <1>0, <1>1, <1>7
     DEF RailInv, AskedAlone, LiveAreOfTheSelection, LiveOf, Under, Left, LeftOrAsked, Stale, Request, RailTypeOK, Counts
<1>8. ASSUME ~crossed' PROVE AnswersAreNew'
  BY <1>0, <1>1, <1>7, <1>8
     DEF RailInv, AnswersAreNew, AskedAlone, NobodyIsAhead, LiveAreOfTheSelection, LiveOf, Under, Left, LeftOrAsked,
         Stale, Request, RailTypeOK, Counts, RequestType, RequestKind
<1>9. ASSUME ~crossed', attempt' # "running" PROVE summary' = newest' \/ summary' = 0
  BY <1>0, <1>9 DEF RailInv, AnswersAreNew, AskedAlone, NobodyIsAhead, LiveAreOfTheSelection, LiveOf, Under, RailTypeOK,
         Counts, RequestType
<1>10. QED
  BY <1>2, <1>3, <1>4, <1>5, <1>6, <1>7, <1>8, <1>9, <1>0 DEF RailInv

LEMMA DetailArrivesKeeps == ASSUME RailInv, NEW q \in requests, DetailArrives(q) PROVE RailInv'
<1> USE DEF DetailArrives, Show, Arrived
<1>0. /\ RailTypeOK /\ requests \subseteq RequestType /\ RequestType' = RequestType
      /\ MaxVersion \in Nat /\ Nothing \notin Shown /\ Nothing = 0
  BY RailAssumption DEF RailInv, RailTypeOK, Nothing, RequestType
<1>1. Left({q}, IF detail = q.of THEN {} ELSE {"poll", "generate"})
  <2>1. requests \ {q} \in SUBSET RequestType
    BY <1>0
  <2>2. QED
    BY <2>1, StopsLeaves DEF Left, Stale
<1>2. requests' \subseteq RequestType
  BY <1>0, <1>1, RequestsAreTyped DEF Left, LeftOrAsked, Stale, RequestKind, RailTypeOK, RailInv
<1>3. RailTypeOK'
  BY <1>0, <1>2 DEF RailTypeOK, RequestType, RailInv
<1>4. LiveAreOfTheSelection'
  BY <1>0, <1>1 DEF RailInv, LiveAreOfTheSelection, LiveOf, Left, LeftOrAsked, Stale, Request, Counts, RailTypeOK
<1>5. NobodyIsAhead'
  BY <1>0, <1>1 DEF RailInv, NobodyIsAhead, Left, LeftOrAsked, Stale, Request, RequestType, RailTypeOK, Counts
<1>6. crossed' \in BOOLEAN
  BY DEF RailInv
<1>7. ASSUME ~crossed' PROVE AskedAlone'
  BY <1>0, <1>1, <1>7
     DEF RailInv, AskedAlone, LiveAreOfTheSelection, LiveOf, Under, Left, LeftOrAsked, Stale, Request, RailTypeOK, Counts
<1>8. ASSUME ~crossed' PROVE AnswersAreNew'
  BY <1>0, <1>1, <1>7, <1>8
     DEF RailInv, AnswersAreNew, AskedAlone, NobodyIsAhead, LiveAreOfTheSelection, LiveOf, Under, Left, LeftOrAsked,
         Stale, Request, RailTypeOK, Counts, RequestType, RequestKind
<1>9. ASSUME ~crossed', attempt' # "running" PROVE summary' = newest' \/ summary' = 0
  BY <1>0, <1>9 DEF RailInv, AnswersAreNew, AskedAlone, NobodyIsAhead, LiveAreOfTheSelection, LiveOf, Under, RailTypeOK,
         Counts, RequestType
<1>10. QED
  BY <1>2, <1>3, <1>4, <1>5, <1>6, <1>7, <1>8, <1>9, <1>0 DEF RailInv

LEMMA PollArrivesKeeps == ASSUME RailInv, NEW q \in requests, PollArrives(q) PROVE RailInv'
<1> USE DEF PollArrives, Show, Arrived
<1>0. /\ RailTypeOK /\ requests \subseteq RequestType /\ RequestType' = RequestType
      /\ MaxVersion \in Nat /\ Nothing \notin Shown /\ Nothing = 0
  BY RailAssumption DEF RailInv, RailTypeOK, Nothing, RequestType
<1>1. \/ q.working /\ Left({q}, {})
      \/ ~q.working /\ LeftOrAsked({q}, {"poll", "detail"}, "detail", selected)
  <2>1. requests \ {q} \in SUBSET RequestType
    BY <1>0
  <2>2. CASE q.working
    BY <2>1, <2>2 DEF Left, Stale
  <2>3. CASE ~q.working
    <3>1. \A x \in StopsPolls(requests \ {q}) : Stale(x, requests \ {q}, {"poll"})
      BY <2>1, StopsLeaves
    <3>2. \A x \in requests' : Stale(x, requests \ {q}, {"poll"} \cup {"detail"}) \/ (selected # Nothing /\ x = Request("detail", selected))
      BY <1>0, <2>1, <2>3, <3>1, AskDetailLeaves DEF RailTypeOK
    <3>3. {"poll"} \cup {"detail"} = {"poll", "detail"}
      OBVIOUS
    <3>4. QED
      BY <2>3, <3>2, <3>3 DEF LeftOrAsked
  <2>4. QED
    BY <2>2, <2>3
<1>q. /\ q \in RequestType /\ q.live /\ q.answered /\ q.of = selected /\ selected \in Shown
      /\ q.version <= version[selected] /\ version[selected] \in 0..MaxVersion /\ q.version \in 0..MaxVersion
      /\ newest \in 0..MaxVersion /\ newest <= version[selected] /\ summary \in 0..MaxVersion /\ detail \in {Nothing, selected}
  BY <1>0 DEF RailInv, RailTypeOK, Counts, RequestType, NobodyIsAhead, LiveAreOfTheSelection
<1>x. ASSUME NEW x \in requests'
      PROVE  /\ x.version <= version[x.of]
             /\ x.kind = "save" => x \in requests \ {q}
             /\ x.live => (x \in requests \ {q} /\ (q.working \/ x.kind # "poll")) \/ x = Request("detail", selected)
  <2>1. CASE x = Request("detail", selected)
    BY <1>0, <1>q, <2>1 DEF Request, RailTypeOK
  <2>2. CASE x # Request("detail", selected)
    BY <1>0, <1>1, <2>2 DEF Left, LeftOrAsked, Stale, RailInv, NobodyIsAhead
  <2>3. QED
    BY <2>1, <2>2
<1>2. requests' \subseteq RequestType
  BY <1>0, <1>1, RequestsAreTyped DEF Left, LeftOrAsked, Stale, RequestKind, RailTypeOK, RailInv
<1>3. RailTypeOK'
  BY <1>0, <1>2 DEF RailTypeOK, RequestType, RailInv
<1>4. LiveAreOfTheSelection'
  <2>1. detail = selected /\ attempt = "running" /\ LiveOf("generate") = {}
    BY <1>0, <1>q DEF RailInv, LiveAreOfTheSelection, LiveOf
  <2>2. LiveOf("generate")' = {} /\ (~q.working => LiveOf("poll")' = {})
    <3>1. \A x \in requests' : x.live => x.kind # "generate" /\ (~q.working => x.kind # "poll")
      BY <1>x, <2>1 DEF LiveOf, Request
    <3>2. QED
      BY <3>1 DEF LiveOf
  <2>3. \A x \in LiveOf("poll")' \cup LiveOf("detail")' : x.of = selected
    <3>1. \A x \in requests' : x.live /\ x.kind \in {"poll", "detail"} => x.of = selected
      <4> SUFFICES ASSUME NEW x \in requests', x.live, x.kind \in {"poll", "detail"} PROVE x.of = selected
        OBVIOUS
      <4>1. CASE x = Request("detail", selected)
        BY <4>1 DEF Request
      <4>2. CASE x # Request("detail", selected)
        <5>1. x \in requests
          BY <1>x, <4>2
        <5>2. x \in LiveOf("poll") \cup LiveOf("detail")
          BY <5>1 DEF LiveOf
        <5>3. QED
          BY <5>2 DEF RailInv, LiveAreOfTheSelection
      <4>3. QED
        BY <4>1, <4>2
    <3>2. QED
      BY <3>1 DEF LiveOf
  <2>4. QED
    BY <1>0, <1>q, <2>1, <2>2, <2>3 DEF LiveAreOfTheSelection
<1>5. NobodyIsAhead'
  <2>1. \A x \in requests' : x.version <= version[x.of]
    BY <1>x
  <2>2. newest' <= version[selected] /\ summary' <= newest'
    BY <1>0, <1>q DEF RailInv, NobodyIsAhead
  <2>3. QED
    BY <1>0, <1>q, <2>1, <2>2 DEF NobodyIsAhead
<1>6. crossed' \in BOOLEAN
  BY DEF RailInv
<1>p. ASSUME ~crossed
      PROVE  detail # Nothing /\ LiveOf("poll")' = {} /\ LiveOf("generate")' = {} /\ Under("save")' = {}
  <2>1. detail = selected /\ attempt = "running" /\ LiveOf("generate") = {} /\ LiveOf("poll") = {q} /\ Under("save") = {}
    BY <1>0, <1>q, <1>p DEF RailInv, LiveAreOfTheSelection, AskedAlone, LiveOf
  <2>2. QED
    <3>1. \A x \in requests' : x.kind # "save" /\ (x.live => x.kind \notin {"poll", "generate"})
      <4> SUFFICES ASSUME NEW x \in requests' PROVE x.kind # "save" /\ (x.live => x.kind \notin {"poll", "generate"})
        OBVIOUS
      <4>1. CASE x = Request("detail", selected)
        BY <4>1 DEF Request
      <4>2. CASE x # Request("detail", selected)
        BY <1>x, <2>1, <4>2 DEF LiveOf, Under
      <4>3. QED
        BY <4>1, <4>2
    <3>2. LiveOf("poll")' = {} /\ LiveOf("generate")' = {} /\ Under("save")' = {}
      BY <3>1 DEF LiveOf, Under
    <3>3. QED
      BY <2>1, <3>2, <1>0, <1>q
<1>7. ASSUME ~crossed' PROVE AskedAlone'
  BY <1>p, <1>7 DEF AskedAlone
<1>8. ASSUME ~crossed' PROVE AnswersAreNew'
  <2>1. \A x \in requests' : x.kind \in {"poll", "generate"} /\ x.live => FALSE
    BY <1>p, <1>8 DEF LiveOf
  <2>2. \A x \in requests' : x.kind # "save"
    BY <1>p, <1>8 DEF Under
  <2>3. \A x \in requests' : x.kind \in RequestKind
    BY <1>0, <1>2 DEF RequestType
  <2>4. QED
    BY <1>p, <1>8, <2>1, <2>2, <2>3 DEF AnswersAreNew, Counts, RequestKind
<1>9. ASSUME ~crossed', attempt' # "running" PROVE summary' = newest' \/ summary' = 0
  BY <1>0, <1>9 DEF RailInv, AnswersAreNew, AskedAlone, NobodyIsAhead, LiveAreOfTheSelection, LiveOf, Under, RailTypeOK,
         Counts, RequestType
<1>10. QED
  BY <1>2, <1>3, <1>4, <1>5, <1>6, <1>7, <1>8, <1>9, <1>0 DEF RailInv

LEMMA GenerateArrivesKeeps == ASSUME RailInv, NEW q \in requests, GenerateArrives(q) PROVE RailInv'
<1> USE DEF GenerateArrives, Show, Arrived
<1>0. /\ RailTypeOK /\ requests \subseteq RequestType /\ RequestType' = RequestType
      /\ MaxVersion \in Nat /\ Nothing \notin Shown /\ Nothing = 0
  BY RailAssumption DEF RailInv, RailTypeOK, Nothing, RequestType
<1>1. \/ q.working /\ Left({q}, {})
      \/ ~q.working /\ LeftOrAsked({q}, {"detail"}, "detail", selected)
  <2>1. requests \ {q} \in SUBSET RequestType
    BY <1>0
  <2>2. CASE q.working
    BY <2>1, <2>2 DEF Left, Stale
  <2>3. CASE ~q.working
    <3>0. requests' = AskDetail(requests \ {q}, selected) /\ selected \in Shown \cup {Nothing}
      BY <1>0, <2>3 DEF RailTypeOK
    <3>1. \A x \in requests \ {q} : Stale(x, requests \ {q}, {})
      BY <2>1 DEF Stale
    <3>2. \A x \in requests' : Stale(x, requests \ {q}, {} \cup {"detail"}) \/ (selected # Nothing /\ x = Request("detail", selected))
      BY <2>1, <3>0, <3>1, AskDetailLeaves
    <3>3. {} \cup {"detail"} = {"detail"}
      OBVIOUS
    <3>4. QED
      BY <2>3, <3>2, <3>3 DEF LeftOrAsked
  <2>4. QED
    BY <2>2, <2>3
<1>q. /\ q \in RequestType /\ q.live /\ q.answered /\ q.of = selected /\ selected \in Shown
      /\ q.version <= version[selected] /\ version[selected] \in 0..MaxVersion /\ q.version \in 0..MaxVersion
      /\ newest \in 0..MaxVersion /\ newest <= version[selected] /\ summary \in 0..MaxVersion /\ detail \in {Nothing, selected}
  BY <1>0 DEF RailInv, RailTypeOK, Counts, RequestType, NobodyIsAhead, LiveAreOfTheSelection
<1>x. ASSUME NEW x \in requests'
      PROVE  /\ x.version <= version[x.of]
             /\ x.kind = "save" => x \in requests \ {q}
             /\ x.live => (x \in requests \ {q} /\ TRUE) \/ x = Request("detail", selected)
  <2>1. CASE x = Request("detail", selected)
    BY <1>0, <1>q, <2>1 DEF Request, RailTypeOK
  <2>2. CASE x # Request("detail", selected)
    BY <1>0, <1>1, <2>2 DEF Left, LeftOrAsked, Stale, RailInv, NobodyIsAhead
  <2>3. QED
    BY <2>1, <2>2
<1>2. requests' \subseteq RequestType
  BY <1>0, <1>1, RequestsAreTyped DEF Left, LeftOrAsked, Stale, RequestKind, RailTypeOK, RailInv
<1>3. RailTypeOK'
  BY <1>0, <1>2 DEF RailTypeOK, RequestType, RailInv
<1>4. LiveAreOfTheSelection'
  <2>1. detail = selected /\ attempt # "running" /\ LiveOf("poll") = {}
    BY <1>0, <1>q DEF RailInv, LiveAreOfTheSelection, LiveOf
  <2>2. LiveOf("poll")' = {}
    BY <1>x, <2>1 DEF LiveOf, Request
  <2>3. \A x \in LiveOf("generate")' \cup LiveOf("detail")' : x.of = selected
    BY <1>0, <1>x DEF LiveOf, Request, RailInv, LiveAreOfTheSelection
  <2>4. LiveOf("generate")' = {}
    <3>1. LiveOf("generate") = {q}
      BY <1>q DEF RailInv, LiveAreOfTheSelection, LiveOf
    <3>2. \A x \in requests' : x.live => x.kind # "generate"
      BY <1>x, <3>1 DEF LiveOf, Request
    <3>3. QED
      BY <3>2 DEF LiveOf
  <2>5. QED
    BY <1>0, <1>q, <2>1, <2>2, <2>3, <2>4 DEF LiveAreOfTheSelection
<1>5. NobodyIsAhead'
  <2>1. \A x \in requests' : x.version <= version[x.of]
    BY <1>x
  <2>2. newest' <= version[selected] /\ summary' <= newest'
    BY <1>0, <1>q DEF RailInv, NobodyIsAhead
  <2>3. QED
    BY <1>0, <1>q, <2>1, <2>2 DEF NobodyIsAhead
<1>6. crossed' \in BOOLEAN
  BY DEF RailInv
<1>7. ASSUME ~crossed' PROVE AskedAlone'
  BY <1>0, <1>1, <1>7
     DEF RailInv, AskedAlone, LiveAreOfTheSelection, LiveOf, Under, Left, LeftOrAsked, Stale, Request, RailTypeOK, Counts
<1>8. ASSUME ~crossed' PROVE AnswersAreNew'
  BY <1>0, <1>1, <1>7, <1>8
     DEF RailInv, AnswersAreNew, AskedAlone, NobodyIsAhead, LiveAreOfTheSelection, LiveOf, Under, Left, LeftOrAsked,
         Stale, Request, RailTypeOK, Counts, RequestType, RequestKind
<1>9. ASSUME ~crossed', attempt' # "running" PROVE summary' = newest' \/ summary' = 0
  BY <1>0, <1>9 DEF RailInv, AnswersAreNew, AskedAlone, NobodyIsAhead, LiveAreOfTheSelection, LiveOf, Under, RailTypeOK,
         Counts, RequestType
<1>10. QED
  BY <1>2, <1>3, <1>4, <1>5, <1>6, <1>7, <1>8, <1>9, <1>0 DEF RailInv

LEMMA SaveArrivesKeeps == ASSUME RailInv, NEW q \in requests, SaveArrives(q) PROVE RailInv'
<1> USE DEF SaveArrives, Show, Arrived
<1>0. /\ RailTypeOK /\ requests \subseteq RequestType /\ RequestType' = RequestType
      /\ MaxVersion \in Nat /\ Nothing \notin Shown /\ Nothing = 0
  BY RailAssumption DEF RailInv, RailTypeOK, Nothing, RequestType
<1>1. LeftOrAsked({q}, {"poll", "detail"}, "detail", selected)
  <2>1. requests \ {q} \in SUBSET RequestType
    BY <1>0
  <2>2. \A x \in StopsPolls(requests \ {q}) : Stale(x, requests \ {q}, {"poll"})
    BY <2>1, StopsLeaves
  <2>3. \A x \in requests' : Stale(x, requests \ {q}, {"poll"} \cup {"detail"}) \/ (selected # Nothing /\ x = Request("detail", selected))
    BY <1>0, <2>1, <2>2, AskDetailLeaves DEF RailTypeOK
  <2>4. {"poll"} \cup {"detail"} = {"poll", "detail"}
    OBVIOUS
  <2>5. QED
    BY <2>3, <2>4 DEF LeftOrAsked
<1>q. /\ q \in RequestType /\ q.live /\ q.answered /\ q.of = selected /\ selected \in Shown
      /\ q.version <= version[selected] /\ version[selected] \in 0..MaxVersion /\ q.version \in 0..MaxVersion
      /\ newest \in 0..MaxVersion /\ newest <= version[selected] /\ summary \in 0..MaxVersion /\ detail \in {Nothing, selected}
  BY <1>0 DEF RailInv, RailTypeOK, Counts, RequestType, NobodyIsAhead, LiveAreOfTheSelection
<1>x. ASSUME NEW x \in requests'
      PROVE  /\ x.version <= version[x.of]
             /\ x.kind = "save" => x \in requests \ {q}
             /\ x.live => (x \in requests \ {q} /\ x.kind # "poll") \/ x = Request("detail", selected)
  <2>1. CASE x = Request("detail", selected)
    BY <1>0, <1>q, <2>1 DEF Request, RailTypeOK
  <2>2. CASE x # Request("detail", selected)
    BY <1>0, <1>1, <2>2 DEF Left, LeftOrAsked, Stale, RailInv, NobodyIsAhead
  <2>3. QED
    BY <2>1, <2>2
<1>2. requests' \subseteq RequestType
  BY <1>0, <1>1, RequestsAreTyped DEF Left, LeftOrAsked, Stale, RequestKind, RailTypeOK, RailInv
<1>3. RailTypeOK'
  BY <1>0, <1>2 DEF RailTypeOK, RequestType, RailInv
<1>4. LiveAreOfTheSelection'
  <2>1. LiveOf("poll")' = {}
    <3>1. \A x \in requests' : x.live => x.kind # "poll"
      BY <1>x DEF Request
    <3>2. QED
      BY <3>1 DEF LiveOf
  <2>2. \A x \in LiveOf("generate")' : x \in LiveOf("generate")
    BY <1>x DEF LiveOf, Request
  <2>3. \A x \in LiveOf("detail")' : x.of = selected
    <3>1. \A x \in requests' : x.live /\ x.kind \in {"poll", "detail"} => x.of = selected
      <4> SUFFICES ASSUME NEW x \in requests', x.live, x.kind \in {"poll", "detail"} PROVE x.of = selected
        OBVIOUS
      <4>1. CASE x = Request("detail", selected)
        BY <4>1 DEF Request
      <4>2. CASE x # Request("detail", selected)
        <5>1. x \in requests
          BY <1>x, <4>2
        <5>2. x \in LiveOf("poll") \cup LiveOf("detail")
          BY <5>1 DEF LiveOf
        <5>3. QED
          BY <5>2 DEF RailInv, LiveAreOfTheSelection
      <4>3. QED
        BY <4>1, <4>2
    <3>2. QED
      BY <3>1 DEF LiveOf
  <2>4. QED
    BY <1>0, <1>q, <2>1, <2>2, <2>3 DEF LiveAreOfTheSelection, RailInv
<1>5. NobodyIsAhead'
  <2>1. \A x \in requests' : x.version <= version[x.of]
    BY <1>x
  <2>2. newest' <= version[selected] /\ summary' <= newest'
    BY <1>0, <1>q DEF RailInv, NobodyIsAhead
  <2>3. QED
    BY <1>0, <1>q, <2>1, <2>2 DEF NobodyIsAhead
<1>6. crossed' \in BOOLEAN
  BY DEF RailInv
<1>p. ASSUME ~crossed PROVE LiveOf("poll")' = {} /\ LiveOf("generate")' = {} /\ Under("save")' = {}
  <2>1. LiveOf("generate") = {} /\ Under("save") = {q}
    BY <1>0, <1>q, <1>p DEF RailInv, AskedAlone, Under
  <2>2. QED
    <3>1. \A x \in requests' : x.kind # "save" /\ (x.live => x.kind \notin {"poll", "generate"})
      <4> SUFFICES ASSUME NEW x \in requests' PROVE x.kind # "save" /\ (x.live => x.kind \notin {"poll", "generate"})
        OBVIOUS
      <4>1. CASE x = Request("detail", selected)
        BY <4>1 DEF Request
      <4>2. CASE x # Request("detail", selected)
        BY <1>x, <2>1, <4>2 DEF LiveOf, Under
      <4>3. QED
        BY <4>1, <4>2
    <3>2. LiveOf("poll")' = {} /\ LiveOf("generate")' = {} /\ Under("save")' = {}
      BY <3>1 DEF LiveOf, Under
    <3>3. QED
      BY <2>1, <3>2, <1>0, <1>q
<1>7. ASSUME ~crossed' PROVE AskedAlone'
  BY <1>p, <1>7 DEF AskedAlone
<1>8. ASSUME ~crossed' PROVE AnswersAreNew'
  <2>1. \A x \in requests' : x.kind \in {"poll", "generate"} /\ x.live => FALSE
    BY <1>p, <1>8 DEF LiveOf
  <2>2. \A x \in requests' : x.kind # "save"
    BY <1>p, <1>8 DEF Under
  <2>3. \A x \in requests' : x.kind \in RequestKind
    BY <1>0, <1>2 DEF RequestType
  <2>4. \A x \in requests' : x.kind = "detail" /\ x.live => ~x.answered
    BY <1>0, <1>1, SMTT(20) DEF LeftOrAsked, Stale, Request
  <2>5. QED
    BY <1>p, <1>8, <2>1, <2>2, <2>3, <2>4 DEF AnswersAreNew, Counts, RequestKind
<1>9. ASSUME ~crossed', attempt' # "running" PROVE summary' = newest' \/ summary' = 0
  BY <1>0, <1>9 DEF RailInv, AnswersAreNew, AskedAlone, NobodyIsAhead, LiveAreOfTheSelection, LiveOf, Under, RailTypeOK,
         Counts, RequestType
<1>10. QED
  BY <1>2, <1>3, <1>4, <1>5, <1>6, <1>7, <1>8, <1>9, <1>0 DEF RailInv

LEMMA ServeKeeps == ASSUME RailInv, NEW q \in requests, Serve(q) PROVE RailInv'
<1> USE DEF Serve
<1>0. /\ RailTypeOK /\ requests \subseteq RequestType /\ RequestType' = RequestType
      /\ MaxVersion \in Nat /\ Nothing \notin Shown /\ Nothing = 0 /\ q \in RequestType
  BY RailAssumption DEF RailInv, RailTypeOK, Nothing, RequestType
<1> DEFINE served == [q EXCEPT !.answered = TRUE, !.version = version'[q.of], !.working = q.of \in working']
<1>1. requests' = (requests \ {q}) \cup {served}
  OBVIOUS
<1>2. version' \in [Shown -> 0..MaxVersion] /\ working' \subseteq Shown /\ q.of \in Shown
  BY <1>0 DEF RailTypeOK, RequestType
<1>3. \A e \in Shown : version[e] \in Nat /\ version'[e] \in Nat /\ version[e] <= version'[e]
  BY <1>0, <1>2 DEF RailTypeOK
<1>4. /\ served \in RequestType /\ served.kind = q.kind /\ served.of = q.of /\ served.live = q.live
      /\ served.version = version'[q.of] /\ served.answered
  <2>1. version'[q.of] \in 0..MaxVersion /\ (q.of \in working') \in BOOLEAN
    BY <1>2
  <2> DEFINE v == version'[q.of]
             w == q.of \in working'
  <2>2. v \in 0..MaxVersion /\ w \in BOOLEAN /\ served = [q EXCEPT !.answered = TRUE, !.version = v, !.working = w]
    BY <2>1
  <2> HIDE DEF v, w, served
  <2>3. /\ served \in RequestType /\ served.kind = q.kind /\ served.of = q.of /\ served.live = q.live
        /\ served.version = v /\ served.answered
    BY <1>0, <2>2 DEF RequestType
  <2>4. QED
    BY <2>3 DEF v
<1> HIDE DEF served
<1>5. requests' \subseteq RequestType /\ RailTypeOK'
  BY <1>0, <1>1, <1>2, <1>4 DEF RailTypeOK, RequestType
<1>6. ASSUME NEW kind
      PROVE  /\ \A x \in LiveOf(kind)' : (x \in LiveOf(kind) /\ x # q) \/ (x = served /\ q \in LiveOf(kind))
             /\ \A x \in Under(kind)' : (x \in Under(kind) /\ x # q) \/ (x = served /\ q \in Under(kind))
  BY <1>1, <1>4 DEF LiveOf, Under
<1>7. LiveAreOfTheSelection'
  BY <1>0, <1>4, <1>6 DEF RailInv, LiveAreOfTheSelection
<1>8. NobodyIsAhead'
  <2>1. \A x \in requests : x.of \in Shown /\ x.version \in Nat /\ x.version <= version[x.of]
    BY <1>0 DEF RailInv, NobodyIsAhead, RequestType
  <2>2. \A x \in requests' : x.version <= version'[x.of]
    BY <1>1, <1>2, <1>3, <1>4, <2>1
  <2>3. selected # Nothing => selected \in Shown /\ newest \in Nat /\ newest <= version'[selected]
    BY <1>0, <1>3 DEF RailInv, NobodyIsAhead, RailTypeOK
  <2>4. QED
    BY <2>2, <2>3 DEF RailInv, NobodyIsAhead
<1>9. ASSUME ~crossed' PROVE AskedAlone'
  BY <1>6, <1>9 DEF RailInv, AskedAlone
<1>10. ASSUME ~crossed' PROVE AnswersAreNew'
  <2> SUFFICES ASSUME NEW x \in requests', x.answered, Counts(x)', x.kind = "detail" => detail = Nothing
               PROVE  newest <= x.version
    BY DEF AnswersAreNew
  <2>1. CASE x = served
    <3>1. q.of = selected /\ q.live
      BY <1>0, <1>4, <2>1 DEF Counts, RailInv, LiveAreOfTheSelection, LiveOf
    <3>2. newest \in Nat /\ newest <= version[selected]
      BY <1>0, <1>2, <3>1 DEF RailInv, NobodyIsAhead, RailTypeOK
    <3>3. QED
      BY <1>2, <1>3, <1>4, <2>1, <3>1, <3>2
  <2>2. CASE x # served
    BY <1>1, <1>10, <2>2 DEF RailInv, AnswersAreNew, Counts
  <2>3. QED
    BY <2>1, <2>2
<1>11. QED
  BY <1>5, <1>7, <1>8, <1>9, <1>10 DEF RailInv

(* A newer summary at the server changes nothing in the tab.                 *)
LEMMA NewerAtTheServer ==
  ASSUME RailInv, RailTypeOK', \A e \in Shown : version[e] <= version'[e],
         UNCHANGED <<selected, detail, summary, attempt, requests, newest, crossed>>
  PROVE  RailInv'
<1>0. RailTypeOK /\ requests \subseteq RequestType /\ Nothing \notin Shown /\ MaxVersion \in Nat
  BY RailAssumption DEF RailInv, Nothing
<1>1. \A e \in Shown : version[e] \in Nat /\ version'[e] \in Nat
  BY <1>0 DEF RailTypeOK
<1>2. NobodyIsAhead'
  <2>1. \A x \in requests : x.of \in Shown /\ x.version \in Nat /\ x.version <= version[x.of]
    BY <1>0 DEF RailInv, NobodyIsAhead, RequestType
  <2>2. \A x \in requests' : x.version <= version'[x.of]
    BY <1>1, <2>1
  <2>3. selected # Nothing => selected \in Shown /\ newest \in Nat /\ newest <= version[selected]
    BY <1>0 DEF RailInv, NobodyIsAhead, RailTypeOK
  <2>4. selected # Nothing => newest <= version'[selected]
    BY <1>1, <2>3
  <2>5. QED
    BY <2>2, <2>4 DEF RailInv, NobodyIsAhead
<1>3. QED
  BY <1>2 DEF RailInv, LiveAreOfTheSelection, LiveOf, Under, AskedAlone, AnswersAreNew, Counts, RequestType

LEMMA RailStays == RailInv /\ [RailNext]_railVars => RailInv'
<1> SUFFICES ASSUME RailInv, [RailNext]_railVars PROVE RailInv'
  OBVIOUS
<1>0. RailTypeOK /\ MaxVersion \in Nat
  BY RailAssumption DEF RailInv
<1>1. ASSUME NEW e \in Shown, AttemptEnds(e) \/ SomebodyEdits(e) PROVE RailInv'
  <2>1. RailTypeOK'
    BY <1>0, <1>1 DEF AttemptEnds, SomebodyEdits, RailTypeOK
  <2>2. \A x \in Shown : version[x] <= version'[x]
    BY <1>0, <1>1 DEF AttemptEnds, SomebodyEdits, RailTypeOK
  <2>3. QED
    BY <1>1, <2>1, <2>2, NewerAtTheServer DEF AttemptEnds, SomebodyEdits
<1>2. CASE UNCHANGED railVars
  <2>1. RailTypeOK' /\ \A e \in Shown : version[e] <= version'[e]
    BY <1>0, <1>2 DEF RailTypeOK, railVars
  <2>2. QED
    BY <1>2, <2>1, NewerAtTheServer DEF railVars
<1>3. ASSUME NEW q \in requests,
             Serve(q) \/ Discard(q) \/ DetailArrives(q) \/ PollArrives(q) \/ GenerateArrives(q) \/ SaveArrives(q)
      PROVE  RailInv'
  BY <1>3, ServeKeeps, DiscardKeeps, DetailArrivesKeeps, PollArrivesKeeps, GenerateArrivesKeeps, SaveArrivesKeeps
<1>4. QED
  BY <1>1, <1>2, <1>3, SelectKeeps, RenameKeeps, GenerateKeeps, SaveKeeps, PollSummaryKeeps DEF RailNext

LEMMA RailInvariant == RailSpec => []RailInv
  BY RailStarts, RailStays, PTL DEF RailSpec

LEMMA RailPromise == RailInv => RailShowsTheSelection
  BY DEF RailInv, LiveAreOfTheSelection, RailShowsTheSelection

(* The rail shows the entry that is selected, and the newest summary that    *)
(* was shown, whatever answers are late, unless answers that are not ordered *)
(* were under way together (handleSaveSummary, and the poll in ContextRail). *)
THEOREM RailIsOfTheSelection == RailSpec => []RailShowsTheSelection
  BY RailPromise, RailInvariant, PTL
----------------------------------------------------------------------------
(* Selection.  What a fetch that still counts will show is the row that is   *)
(* picked, or the fetch was overtaken; and unless loads outran each other,   *)
(* every load under way is one of the present query once none is due.        *)

LoadType == [query : Query, answered : BOOLEAN, rows : SUBSET RootRow]
FetchType == [row : Entries, live : BOOLEAN]
ListType == [of : Query, rows : SUBSET RootRow]
ListTyped == /\ existing \subseteq Entries /\ query \in Query /\ timed \in BOOLEAN /\ listed \in ListType
             /\ loads \subseteq LoadType /\ outrun \in BOOLEAN
PickTyped == /\ picked \subseteq Entries /\ selectedRow \in Entries \cup {"none"} /\ known \subseteq Entries
             /\ fetches \subseteq FetchType /\ strayed \in BOOLEAN

FetchesAreOfThePicked == \A f \in fetches : f.live => picked = {f.row} \/ strayed
LoadsAreOfTheQuery ==
    ~timed /\ ~outrun => /\ \A l \in loads : l.query = query
                         /\ loads = {} => listed.of = query

SelectionInv == ListTyped /\ PickTyped /\ FetchesAreOfThePicked /\ SelectionAgrees /\ LoadsAreOfTheQuery

LEMMA EntriesAreNamed == IsFiniteSet(Entries) /\ "none" \notin Entries /\ RootRow \subseteq Entries /\ MemberRow \subseteq Entries
  BY SelectionAssumption DEF Entries

LEMMA OneIsLeft == ASSUME NEW S \in SUBSET Entries PROVE Single(S) <=> S = {CHOOSE x \in S : TRUE}
<1>1. IsFiniteSet(S)
  BY EntriesAreNamed, FS_Subset
<1>2. Cardinality(S) = 1 <=> \E x : S = {x}
  BY <1>1, FS_Singleton
<1>3. ASSUME NEW x, S = {x} PROVE (CHOOSE y \in S : TRUE) = x
  BY <1>3
<1>4. QED
  BY <1>2, <1>3 DEF Single

LEMMA ShownIsLeft ==
  ASSUME NEW S \in SUBSET Entries, NEW row \in Entries \cup {"none"}, NEW rows
  PROVE  /\ ShownOf(S, row, rows) \in Entries \cup {"none"}
         /\ ShownOf(S, row, rows) # "none" => \/ S = {ShownOf(S, row, rows)}
                                              \/ row # "none" /\ ShownOf(S, row, rows) = row
<1>1. CASE ~Single(S)
  BY <1>1 DEF ShownOf
<1>2. CASE Single(S) /\ row = "none" /\ S \subseteq rows
  <2> DEFINE one == CHOOSE e \in S : TRUE
  <2>1. S = {one} /\ ShownOf(S, row, rows) = one
    BY <1>2, OneIsLeft DEF ShownOf
  <2> HIDE DEF one
  <2>2. QED
    BY <2>1
<1>3. CASE Single(S) /\ ~(row = "none" /\ S \subseteq rows)
  BY <1>3 DEF ShownOf
<1>4. QED
  BY <1>1, <1>2, <1>3

LEMMA NoneIsLive == ASSUME fetches \subseteq FetchType PROVE Passed \subseteq FetchType /\ \A f \in Passed : ~f.live
  BY DEF Passed, FetchType

LEMMA SelectionStarts == SelectionInit => SelectionInv
<1> SUFFICES ASSUME SelectionInit PROVE SelectionInv
  OBVIOUS
<1>1. ListTyped
  BY SelectionAssumption DEF SelectionInit, ListTyped, ListType
<1>2. QED
  BY <1>1 DEF SelectionInit, SelectionInv, PickTyped, FetchesAreOfThePicked, SelectionAgrees, LoadsAreOfTheQuery

(* A step of the list that leaves the selection.                             *)
LEMMA LoadsAgain ==
  ASSUME SelectionInv, NEW q \in Query, Load(q), UNCHANGED <<existing, listed, pickVars>>,
         query' = q, timed' \in BOOLEAN, timed' \/ query' = query
  PROVE  SelectionInv'
<1> DEFINE new == [query |-> q, answered |-> FALSE, rows |-> {}]
<1>0. /\ loads' = loads \cup {new} /\ new \in LoadType /\ new.query = q
      /\ outrun' = (outrun \/ \E l \in loads : l.query # q)
  BY DEF Load, LoadType
<1> HIDE DEF new
<1>1. ListTyped'
  BY <1>0 DEF SelectionInv, ListTyped
<1>2. PickTyped' /\ FetchesAreOfThePicked' /\ SelectionAgrees'
  BY DEF SelectionInv, PickTyped, FetchesAreOfThePicked, SelectionAgrees, pickVars
<1>3. LoadsAreOfTheQuery'
  BY <1>0 DEF LoadsAreOfTheQuery
<1>4. QED
  BY <1>1, <1>2, <1>3 DEF SelectionInv

LEMMA TypedKeeps == ASSUME SelectionInv, NEW q \in Query, Typed(q) PROVE SelectionInv'
  BY DEF SelectionInv, Typed, ListTyped, PickTyped, FetchesAreOfThePicked, SelectionAgrees, LoadsAreOfTheQuery, pickVars

LEMMA LoadingKeeps ==
  ASSUME SelectionInv, NEW q \in Query, Narrowed(q) \/ Debounced \/ Captured PROVE SelectionInv'
<1>1. query \in Query /\ timed \in BOOLEAN
  BY DEF SelectionInv, ListTyped
<1>2. CASE Narrowed(q)
  BY <1>2, LoadsAgain DEF Narrowed
<1>3. CASE Debounced
  BY <1>1, <1>3, LoadsAgain DEF Debounced
<1>4. CASE Captured
  BY <1>1, <1>4, LoadsAgain DEF Captured
<1>5. QED
  BY <1>2, <1>3, <1>4

LEMMA AnswerLoadKeeps == ASSUME SelectionInv, NEW l \in loads, AnswerLoad(l) PROVE SelectionInv'
<1>0. l \in LoadType /\ loads \subseteq LoadType
  BY DEF SelectionInv, ListTyped
<1> DEFINE found == Found[l.query] \cap existing
           late == [l EXCEPT !.answered = TRUE, !.rows = found]
<1>1. found \in SUBSET RootRow
  BY <1>0, SelectionAssumption DEF LoadType
<1>2. loads' = (loads \ {l}) \cup {late}
  BY DEF AnswerLoad
<1> HIDE DEF found
<1>3. late \in LoadType /\ late.query = l.query
  BY <1>0, <1>1 DEF LoadType
<1> HIDE DEF late
<1>4. ListTyped'
  BY <1>0, <1>2, <1>3 DEF AnswerLoad, SelectionInv, ListTyped
<1>5. PickTyped' /\ FetchesAreOfThePicked' /\ SelectionAgrees'
  BY DEF AnswerLoad, SelectionInv, PickTyped, FetchesAreOfThePicked, SelectionAgrees, pickVars
<1>6. LoadsAreOfTheQuery'
  BY <1>2, <1>3 DEF AnswerLoad, SelectionInv, LoadsAreOfTheQuery
<1>7. QED
  BY <1>4, <1>5, <1>6 DEF SelectionInv

LEMMA LoadArrivesKeeps == ASSUME SelectionInv, NEW l \in loads, LoadArrives(l) PROVE SelectionInv'
<1>0. /\ l \in LoadType /\ ListTyped /\ PickTyped /\ picked' \in SUBSET Entries
      /\ UNCHANGED <<existing, query, timed, outrun, known, fetches, strayed>>
  BY DEF LoadArrives, SelectionInv, ListTyped, PickTyped
<1>1. ListTyped'
  BY <1>0 DEF LoadArrives, ListTyped, LoadType, ListType
<1>2. LoadsAreOfTheQuery'
  BY <1>0 DEF LoadArrives, SelectionInv, LoadsAreOfTheQuery
<1>3. picked' # picked => ~Single(picked)
  BY DEF LoadArrives, Single
<1>4. ASSUME NEW x, picked = {x} PROVE picked' = picked
  <2>1. (CHOOSE y \in picked : TRUE) = x
    BY <1>4
  <2>2. Single(picked)
    BY <1>0, <1>4, <2>1, OneIsLeft DEF PickTyped
  <2>3. QED
    BY <1>3, <2>2
<1>5. FetchesAreOfThePicked'
  BY <1>0, <1>4 DEF SelectionInv, FetchesAreOfThePicked
<1>6. \/ picked' = picked /\ selectedRow' = selectedRow
      \/ selectedRow' = ShownOf(picked', selectedRow, l.rows)
  BY DEF LoadArrives
<1>7. PickTyped'
  BY <1>0, <1>6, ShownIsLeft DEF PickTyped
<1>8. SelectionAgrees'
  BY <1>0, <1>4, <1>6, ShownIsLeft DEF SelectionInv, SelectionAgrees, PickTyped
<1>9. QED
  BY <1>1, <1>2, <1>5, <1>7, <1>8 DEF SelectionInv

LEMMA DeleteRowKeeps == ASSUME SelectionInv, NEW e \in existing, DeleteRow(e) PROVE SelectionInv'
  BY DEF SelectionInv, DeleteRow, ListTyped, PickTyped, FetchesAreOfThePicked, SelectionAgrees, LoadsAreOfTheQuery, pickVars

LEMMA DeletedKeeps == ASSUME SelectionInv, NEW e \in Entries, Deleted(e) PROVE SelectionInv'
<1>0. /\ ListTyped /\ PickTyped /\ UNCHANGED <<existing, query, timed, known, fetches>>
      /\ strayed' = (strayed \/ \E f \in fetches : f.live) /\ picked' = picked \ {e} /\ picked' \in SUBSET Entries
  BY DEF Deleted, SelectionInv, PickTyped
<1> DEFINE left == IF selectedRow = e THEN "none" ELSE selectedRow
<1>1. selectedRow' = (IF picked' = picked THEN left ELSE ShownOf(picked', left, listed'.rows)) /\ left \in Entries \cup {"none"}
  BY <1>0 DEF Deleted, PickTyped
<1> DEFINE new == [query |-> query, answered |-> FALSE, rows |-> {}]
<1>2. \/ UNCHANGED loads /\ outrun' = (outrun \/ loads # {})
      \/ loads' = loads \cup {new} /\ outrun' = (outrun \/ \E l \in loads : l.query # query)
  BY DEF Deleted, Load
<1>a. new \in LoadType /\ new.query = query
  BY <1>0 DEF ListTyped, LoadType
<1> HIDE DEF new
<1>3. listed' \in ListType /\ listed'.of = listed.of
  BY <1>0 DEF Deleted, ListTyped, ListType
<1>4. ListTyped'
  BY <1>0, <1>2, <1>3, <1>a DEF ListTyped
<1>5. LoadsAreOfTheQuery'
  BY <1>0, <1>2, <1>3, <1>a DEF SelectionInv, LoadsAreOfTheQuery
<1>6. FetchesAreOfThePicked'
  BY <1>0 DEF FetchesAreOfThePicked
<1>7. ShownOf(picked', left, listed'.rows) \in Entries \cup {"none"}
      /\ (ShownOf(picked', left, listed'.rows) # "none" =>
            picked' = {ShownOf(picked', left, listed'.rows)} \/ (left # "none" /\ ShownOf(picked', left, listed'.rows) = left))
  BY <1>0, <1>1, ShownIsLeft
<1>8. PickTyped'
  BY <1>0, <1>1, <1>7 DEF PickTyped
<1>9. SelectionAgrees'
  <2>1. SUFFICES ASSUME ~strayed', selectedRow' # "none" PROVE picked' = {selectedRow'}
    BY DEF SelectionAgrees
  <2>2. selectedRow # "none" => picked = {selectedRow}
    BY <1>0, <2>1 DEF SelectionInv, SelectionAgrees
  <2>3. CASE picked' = picked
    BY <1>1, <2>1, <2>2, <2>3
  <2>4. CASE picked' # picked
    <3>1. left = "none"
      BY <1>0, <2>2, <2>4
    <3>2. QED
      BY <1>1, <1>7, <2>1, <2>4, <3>1
  <2>5. QED
    BY <2>3, <2>4
<1>10. QED
  BY <1>4, <1>5, <1>6, <1>8, <1>9 DEF SelectionInv

(* A step of the selection leaves the list.                                  *)
LEMMA ListRests ==
  ASSUME SelectionInv, UNCHANGED listVars
  PROVE  /\ ListTyped' /\ LoadsAreOfTheQuery'
         /\ ListTyped /\ PickTyped /\ fetches \subseteq FetchType /\ listed.rows \subseteq Entries
         /\ Passed \subseteq FetchType /\ \A f \in Passed : ~f.live
  BY NoneIsLive, EntriesAreNamed DEF SelectionInv, listVars, ListTyped, LoadsAreOfTheQuery, PickTyped, ListType

LEMMA ClickKeeps == ASSUME SelectionInv, NEW e \in Entries, Click(e) PROVE SelectionInv'
<1>0. UNCHANGED listVars
  BY DEF Click
<1>1. PickTyped' /\ FetchesAreOfThePicked' /\ SelectionAgrees'
  BY <1>0, ListRests DEF Click, PickTyped, FetchesAreOfThePicked, SelectionAgrees
<1>2. QED
  BY <1>0, <1>1, ListRests DEF SelectionInv

LEMMA CtrlClickKeeps == ASSUME SelectionInv, NEW e \in Entries, CtrlClick(e) PROVE SelectionInv'
<1> DEFINE S == IF e \in picked THEN picked \ {e} ELSE picked \cup {e}
           left == CHOOSE x \in S : TRUE
<1>0. UNCHANGED listVars /\ picked' = S /\ known' = known \cup {e} /\ strayed' = FALSE
  BY DEF CtrlClick
<1>1. \/ /\ Single(S) /\ fetches' = Passed \cup {[row |-> left, live |-> TRUE]}
         /\ selectedRow' = ShownOf(S, selectedRow, listed.rows)
      \/ fetches' = Passed /\ selectedRow' = (IF Single(S) THEN left ELSE "none")
  BY DEF CtrlClick
<1>2. PickTyped /\ S \in SUBSET Entries /\ Passed \subseteq FetchType /\ \A f \in Passed : ~f.live
  BY <1>0, ListRests DEF PickTyped
<1> HIDE DEF S
<1>3. Single(S) => S = {left} /\ left \in Entries
  BY <1>2, OneIsLeft
<1>4. ShownOf(S, selectedRow, listed.rows) \in Entries \cup {"none"}
  BY <1>2, ShownIsLeft DEF PickTyped
<1> HIDE DEF left
<1> DEFINE waits == [row |-> left, live |-> TRUE]
<1>b. waits.live /\ waits.row = left /\ (left \in Entries => waits \in FetchType)
  BY DEF FetchType
<1>c. \/ /\ Single(S) /\ fetches' = Passed \cup {waits}
         /\ selectedRow' = ShownOf(S, selectedRow, listed.rows)
      \/ fetches' = Passed /\ selectedRow' = (IF Single(S) THEN left ELSE "none")
  BY <1>1
<1> HIDE DEF waits
<1>5. PickTyped'
  <2>1. picked' \subseteq Entries /\ known' \subseteq Entries /\ strayed' \in BOOLEAN
    BY <1>0, <1>2 DEF PickTyped
  <2>2. fetches' \subseteq FetchType /\ selectedRow' \in Entries \cup {"none"}
    BY <1>2, <1>3, <1>4, <1>b, <1>c
  <2>3. QED
    BY <2>1, <2>2 DEF PickTyped
<1>6. FetchesAreOfThePicked'
  BY <1>0, <1>2, <1>3, <1>b, <1>c DEF FetchesAreOfThePicked
<1>7. SelectionAgrees'
  BY <1>0, <1>3, <1>b, <1>c DEF SelectionAgrees
<1>8. QED
  BY <1>0, <1>5, <1>6, <1>7, ListRests DEF SelectionInv

LEMMA ShiftClickKeeps == ASSUME SelectionInv, NEW S \in SUBSET Entries, ShiftClick(S) PROVE SelectionInv'
<1>0. UNCHANGED listVars /\ (Single(S) => S = {CHOOSE x \in S : TRUE} /\ (CHOOSE x \in S : TRUE) \in Entries)
  <2> DEFINE one == CHOOSE x \in S : TRUE
  <2>1. Single(S) => S = {one}
    BY OneIsLeft
  <2> HIDE DEF one
  <2>2. Single(S) => S = {one} /\ one \in Entries
    BY <2>1
  <2>3. QED
    BY <2>2 DEF ShiftClick, one
<1>1. PickTyped'
  <2>1. known' \subseteq Entries
    BY <1>0, ListRests DEF ShiftClick, PickTyped
  <2>2. selectedRow' \in Entries \cup {"none"}
    BY <1>0 DEF ShiftClick
  <2>3. QED
    BY <1>0, <2>1, <2>2, ListRests DEF ShiftClick, PickTyped
<1>2. FetchesAreOfThePicked' /\ SelectionAgrees'
  BY <1>0, ListRests DEF ShiftClick, FetchesAreOfThePicked, SelectionAgrees
<1>3. QED
  BY <1>0, <1>1, <1>2, ListRests DEF SelectionInv

LEMMA PressKeyKeeps == ASSUME SelectionInv, NEW e \in Entries, PressKey(e) PROVE SelectionInv'
<1>0. UNCHANGED listVars /\ picked' = {e} /\ known' = known
  BY DEF PressKey
<1>1. \/ selectedRow' = e /\ fetches' = Passed /\ strayed' = FALSE
      \/ fetches' = Passed \cup {[row |-> e, live |-> TRUE]} /\ UNCHANGED <<selectedRow, strayed>>
  BY DEF PressKey
<1> DEFINE waits == [row |-> e, live |-> TRUE]
<1>a. waits.live /\ waits.row = e /\ waits \in FetchType
  BY DEF FetchType
<1>b. \/ selectedRow' = e /\ fetches' = Passed /\ strayed' = FALSE
      \/ fetches' = Passed \cup {waits} /\ UNCHANGED <<selectedRow, strayed>>
  BY <1>1
<1> HIDE DEF waits
<1>2. PickTyped'
  BY <1>0, <1>a, <1>b, ListRests DEF PickTyped
<1>3. FetchesAreOfThePicked' /\ SelectionAgrees'
  BY <1>0, <1>a, <1>b, ListRests DEF FetchesAreOfThePicked, SelectionAgrees
<1>4. QED
  BY <1>0, <1>2, <1>3, ListRests DEF SelectionInv

LEMMA FetchEnds == ASSUME SelectionInv, NEW f \in fetches, FetchArrives(f) \/ FetchFails(f) PROVE SelectionInv'
<1>0. UNCHANGED listVars /\ UNCHANGED <<picked, known>> /\ fetches' = fetches \ {f} /\ f \in FetchType
  BY DEF FetchArrives, FetchFails, SelectionInv, PickTyped
<1>1. \/ f.live /\ selectedRow' = f.row /\ UNCHANGED strayed
      \/ strayed' = (strayed \/ f.live) /\ UNCHANGED selectedRow
  BY DEF FetchArrives, FetchFails
<1>2. PickTyped'
  BY <1>0, <1>1 DEF SelectionInv, PickTyped, FetchType
<1>3. FetchesAreOfThePicked'
  <2>1. strayed => strayed'
    BY <1>1
  <2>2. picked' = picked /\ \A g \in fetches' : g \in fetches
    BY <1>0
  <2>3. QED
    BY <2>1, <2>2 DEF SelectionInv, FetchesAreOfThePicked
<1>a. SelectionAgrees'
  <2>1. f.live /\ selectedRow' = f.row /\ UNCHANGED strayed => picked' = {selectedRow'} \/ strayed'
    BY <1>0 DEF SelectionInv, FetchesAreOfThePicked
  <2>2. UNCHANGED selectedRow /\ strayed' = (strayed \/ f.live) => SelectionAgrees'
    BY <1>0 DEF SelectionInv, SelectionAgrees
  <2>3. QED
    BY <1>1, <2>1, <2>2 DEF SelectionAgrees
<1>4. QED
  BY <1>0, <1>2, <1>3, <1>a, ListRests DEF SelectionInv

LEMMA EscapeKeeps == ASSUME SelectionInv, Escape PROVE SelectionInv'
<1>0. UNCHANGED listVars
  BY DEF Escape
<1>1. PickTyped' /\ FetchesAreOfThePicked' /\ SelectionAgrees'
  BY DEF SelectionInv, Escape, PickTyped, FetchesAreOfThePicked, SelectionAgrees
<1>2. QED
  BY <1>0, <1>1, ListRests DEF SelectionInv

LEMMA SelectionStays == SelectionInv /\ [SelectionNext]_selectionVars => SelectionInv'
<1> SUFFICES ASSUME SelectionInv, [SelectionNext]_selectionVars PROVE SelectionInv'
  OBVIOUS
<1>1. CASE UNCHANGED selectionVars
  BY <1>1 DEF SelectionInv, selectionVars, listVars, pickVars, ListTyped, PickTyped, FetchesAreOfThePicked, SelectionAgrees,
              LoadsAreOfTheQuery
<1>2. CASE Debounced \/ Captured
  <2>1. query \in Query
    BY DEF SelectionInv, ListTyped
  <2>2. QED
    BY <1>2, <2>1, LoadingKeeps
<1>3. ASSUME NEW q \in Query, Typed(q) \/ Narrowed(q) PROVE SelectionInv'
  BY <1>3, TypedKeeps, LoadingKeeps
<1>4. ASSUME NEW l \in loads, AnswerLoad(l) \/ LoadArrives(l) PROVE SelectionInv'
  BY <1>4, AnswerLoadKeeps, LoadArrivesKeeps
<1>5. ASSUME NEW e \in Entries, Deleted(e) \/ Click(e) \/ CtrlClick(e) \/ PressKey(e) PROVE SelectionInv'
  BY <1>5, DeletedKeeps, ClickKeeps, CtrlClickKeeps, PressKeyKeeps
<1>6. QED
  BY <1>1, <1>2, <1>3, <1>4, <1>5, EscapeKeeps, DeleteRowKeeps, ShiftClickKeeps, FetchEnds DEF SelectionNext

LEMMA SelectionInvariant == SelectionSpec => []SelectionInv
  BY SelectionStarts, SelectionStays, PTL DEF SelectionSpec

LEMMA SelectionTyped == SelectionInv => SelectionTypeOK
  BY DEF SelectionInv, SelectionTypeOK, ListTyped, PickTyped, ListType, FetchType

LEMMA SelectionPromise == SelectionInv => SelectionAgrees /\ ListIsOfTheQuery
  BY DEF SelectionInv, LoadsAreOfTheQuery, ListIsOfTheQuery, ListTyped

(* The entry that is shown is the one that is picked, unless its fetch is    *)
(* under way or was lost; and the list is one of the present query once all  *)
(* loads have arrived, unless loads outran each other (handleRowClick,       *)
(* jkSeqRef, loadEntries and its debounce in App).                           *)
THEOREM SelectionIsShown == SelectionSpec => [](SelectionAgrees /\ ListIsOfTheQuery)
  BY SelectionPromise, SelectionInvariant, PTL
----------------------------------------------------------------------------
(* Drafts.  The choices of a row are among what its own locator offers; a    *)
(* title is asked for at a revision not passed by an equal one with other    *)
(* edits; and what became of the file follows the row.                       *)

ChoicesFit ==
    /\ DOMAIN choices \subseteq (IF locator = "none" THEN {} ELSE DOMAIN Offers[locator])
    /\ \A i \in DOMAIN choices : choices[i] \in Offers[locator][i] \cup {"best", "none"}
TextTyped == /\ edits \in 0..MaxEdits /\ revision \in Nat /\ title \in {"user", "model"} /\ overwritten \in BOOLEAN
             /\ asked \in [edits : 0..MaxEdits, revision : Nat, live : BOOLEAN, busy : BOOLEAN]
AskedOfTheDraft ==
    asked.busy => asked.revision <= revision /\ (asked.revision = revision => asked.edits = edits)
FileFollows ==
    /\ upload = "done" => stored = "staged"
    /\ upload # "none" => stored \in {"none", "staged"}
    /\ orphaned \in BOOLEAN

DraftsInv == DraftsTypeOK /\ TextTyped /\ ChoicesFit /\ AskedOfTheDraft /\ FileFollows /\ DraftsFit

LEMMA NothingToChoose ==
  ASSUME NEW l \in Video \cup List \cup {"none"}
  PROVE  /\ DOMAIN NoChoices(l) \subseteq (IF l = "none" THEN {} ELSE DOMAIN Offers[l])
         /\ \A i \in DOMAIN NoChoices(l) : NoChoices(l)[i] = "best"
  BY DraftsAssumption DEF NoChoices

LEMMA DraftsStart == DraftsInit => DraftsInv
<1> SUFFICES ASSUME DraftsInit PROVE DraftsInv
  OBVIOUS
<1>1. MaxEdits \in Nat /\ DOMAIN NoChoices("none") = {}
  BY DraftsAssumption DEF NoChoices
<1>2. DraftsTypeOK /\ TextTyped /\ FileFollows /\ AskedOfTheDraft
  <2>1. asked \in [edits : 0..MaxEdits, revision : Nat, live : BOOLEAN, busy : BOOLEAN] /\ asked.edits = 0 /\ ~asked.busy
    BY <1>1 DEF DraftsInit, NoAsk
  <2>2. QED
    BY <1>1, <2>1 DEF DraftsInit, DraftsTypeOK, TextTyped, FileFollows, AskedOfTheDraft
<1>3. ChoicesFit
  BY <1>1 DEF DraftsInit, ChoicesFit
<1>4. DraftsFit
  BY <1>1 DEF DraftsInit, DraftsFit
<1>5. QED
  BY <1>2, <1>3, <1>4 DEF DraftsInv

LEMMA TypeLocatorKeeps == ASSUME DraftsInv, NEW l \in Video \cup List \cup {"none"}, TypeLocator(l) PROVE DraftsInv'
<1> USE DEF TypeLocator
<1>0. /\ DraftsTypeOK /\ TextTyped /\ MaxEdits \in Nat /\ "none" \notin Video \cup List
  BY DraftsAssumption DEF DraftsInv
<1>1. DraftsTypeOK'
  BY <1>0 DEF DraftsInv, DraftsTypeOK, TextTyped, locatorVars, textVars, fileVars
<1>2. TextTyped' /\ AskedOfTheDraft'
  BY <1>0 DEF DraftsInv, TextTyped, AskedOfTheDraft, locatorVars, textVars, fileVars
<1>3. ChoicesFit'
  BY <1>0, NothingToChoose DEF ChoicesFit
<1>4. FileFollows'
  BY <1>0 DEF DraftsInv, FileFollows, locatorVars, textVars, fileVars
<1>5. DraftsFit'
  BY <1>0 DEF DraftsInv, DraftsFit, FileFollows, TextTyped, AskedOfTheDraft, locatorVars, textVars, fileVars
<1>6. QED
  BY <1>1, <1>2, <1>3, <1>4, <1>5 DEF DraftsInv

LEMMA AskProbeKeeps == ASSUME DraftsInv, NEW k \in 1..MaxProbes, AskProbe(k) PROVE DraftsInv'
<1> USE DEF AskProbe
<1>0. /\ DraftsTypeOK /\ TextTyped /\ MaxEdits \in Nat /\ "none" \notin Video \cup List
  BY DraftsAssumption DEF DraftsInv
<1>1. DraftsTypeOK'
  BY <1>0 DEF DraftsInv, DraftsTypeOK, TextTyped, locatorVars, textVars, fileVars
<1>2. TextTyped' /\ AskedOfTheDraft'
  BY <1>0 DEF DraftsInv, TextTyped, AskedOfTheDraft, locatorVars, textVars, fileVars
<1>3. ChoicesFit'
  BY <1>0, DraftsAssumption DEF DraftsInv, DraftsTypeOK, ChoicesFit, FirstChoices, locatorVars, textVars, fileVars
<1>4. FileFollows'
  BY <1>0 DEF DraftsInv, FileFollows, locatorVars, textVars, fileVars
<1>5. DraftsFit'
  BY <1>0 DEF DraftsInv, DraftsFit, FileFollows, TextTyped, AskedOfTheDraft, locatorVars, textVars, fileVars
<1>6. QED
  BY <1>1, <1>2, <1>3, <1>4, <1>5 DEF DraftsInv

LEMMA ProbeAnswersKeeps == ASSUME DraftsInv, NEW k \in 1..MaxProbes, ProbeAnswers(k) PROVE DraftsInv'
<1> USE DEF ProbeAnswers, StillFor
<1>0. /\ DraftsTypeOK /\ TextTyped /\ MaxEdits \in Nat /\ "none" \notin Video \cup List
  BY DraftsAssumption DEF DraftsInv
<1>1. DraftsTypeOK'
  BY <1>0 DEF DraftsInv, DraftsTypeOK, TextTyped, locatorVars, textVars, fileVars
<1>2. TextTyped' /\ AskedOfTheDraft'
  BY <1>0 DEF DraftsInv, TextTyped, AskedOfTheDraft, locatorVars, textVars, fileVars
<1>3. ChoicesFit'
  BY <1>0, DraftsAssumption DEF DraftsInv, DraftsTypeOK, ChoicesFit, FirstChoices, locatorVars, textVars, fileVars
<1>4. FileFollows'
  BY <1>0 DEF DraftsInv, FileFollows, locatorVars, textVars, fileVars
<1>5. DraftsFit'
  BY <1>0 DEF DraftsInv, DraftsFit, FileFollows, TextTyped, AskedOfTheDraft, locatorVars, textVars, fileVars
<1>6. QED
  BY <1>1, <1>2, <1>3, <1>4, <1>5 DEF DraftsInv

LEMMA ProbeFailsKeeps == ASSUME DraftsInv, NEW k \in 1..MaxProbes, ProbeFails(k) PROVE DraftsInv'
<1> USE DEF ProbeFails
<1>0. /\ DraftsTypeOK /\ TextTyped /\ MaxEdits \in Nat /\ "none" \notin Video \cup List
  BY DraftsAssumption DEF DraftsInv
<1>1. DraftsTypeOK'
  BY <1>0 DEF DraftsInv, DraftsTypeOK, TextTyped, locatorVars, textVars, fileVars
<1>2. TextTyped' /\ AskedOfTheDraft'
  BY <1>0 DEF DraftsInv, TextTyped, AskedOfTheDraft, locatorVars, textVars, fileVars
<1>3. ChoicesFit'
  BY <1>0, DraftsAssumption DEF DraftsInv, DraftsTypeOK, ChoicesFit, FirstChoices, locatorVars, textVars, fileVars
<1>4. FileFollows'
  BY <1>0 DEF DraftsInv, FileFollows, locatorVars, textVars, fileVars
<1>5. DraftsFit'
  BY <1>0 DEF DraftsInv, DraftsFit, FileFollows, TextTyped, AskedOfTheDraft, locatorVars, textVars, fileVars
<1>6. QED
  BY <1>1, <1>2, <1>3, <1>4, <1>5 DEF DraftsInv

LEMMA ChooseKeeps == ASSUME DraftsInv, NEW i \in DOMAIN choices, NEW q \in Offered(i), Choose(i, q) PROVE DraftsInv'
<1> USE DEF Choose, Offered
<1>0. /\ DraftsTypeOK /\ TextTyped /\ MaxEdits \in Nat /\ "none" \notin Video \cup List
  BY DraftsAssumption DEF DraftsInv
<1>1. DraftsTypeOK'
  BY <1>0 DEF DraftsInv, DraftsTypeOK, TextTyped, locatorVars, textVars, fileVars
<1>2. TextTyped' /\ AskedOfTheDraft'
  BY <1>0 DEF DraftsInv, TextTyped, AskedOfTheDraft, locatorVars, textVars, fileVars
<1>3. ChoicesFit'
  BY <1>0, DraftsAssumption DEF DraftsInv, DraftsTypeOK, ChoicesFit, FirstChoices, locatorVars, textVars, fileVars
<1>4. FileFollows'
  BY <1>0 DEF DraftsInv, FileFollows, locatorVars, textVars, fileVars
<1>5. DraftsFit'
  BY <1>0 DEF DraftsInv, DraftsFit, FileFollows, TextTyped, AskedOfTheDraft, locatorVars, textVars, fileVars
<1>6. QED
  BY <1>1, <1>2, <1>3, <1>4, <1>5 DEF DraftsInv

LEMMA ChooseForAllKeeps == ASSUME DraftsInv, NEW q, ChooseForAll(q) PROVE DraftsInv'
<1> USE DEF ChooseForAll, Offered
<1>0. /\ DraftsTypeOK /\ TextTyped /\ MaxEdits \in Nat /\ "none" \notin Video \cup List
  BY DraftsAssumption DEF DraftsInv
<1>1. DraftsTypeOK'
  BY <1>0 DEF DraftsInv, DraftsTypeOK, TextTyped, locatorVars, textVars, fileVars
<1>2. TextTyped' /\ AskedOfTheDraft'
  BY <1>0 DEF DraftsInv, TextTyped, AskedOfTheDraft, locatorVars, textVars, fileVars
<1>3. ChoicesFit'
  BY <1>0, DraftsAssumption DEF DraftsInv, DraftsTypeOK, ChoicesFit, FirstChoices, locatorVars, textVars, fileVars
<1>4. FileFollows'
  BY <1>0 DEF DraftsInv, FileFollows, locatorVars, textVars, fileVars
<1>5. DraftsFit'
  BY <1>0 DEF DraftsInv, DraftsFit, FileFollows, TextTyped, AskedOfTheDraft, locatorVars, textVars, fileVars
<1>6. QED
  BY <1>1, <1>2, <1>3, <1>4, <1>5 DEF DraftsInv

LEMMA DropVideoKeeps == ASSUME DraftsInv, NEW i \in DOMAIN choices, DropVideo(i) PROVE DraftsInv'
<1> USE DEF DropVideo
<1>0. /\ DraftsTypeOK /\ TextTyped /\ MaxEdits \in Nat /\ "none" \notin Video \cup List
  BY DraftsAssumption DEF DraftsInv
<1>1. DraftsTypeOK'
  BY <1>0 DEF DraftsInv, DraftsTypeOK, TextTyped, locatorVars, textVars, fileVars
<1>2. TextTyped' /\ AskedOfTheDraft'
  BY <1>0 DEF DraftsInv, TextTyped, AskedOfTheDraft, locatorVars, textVars, fileVars
<1>3. ChoicesFit'
  BY <1>0, DraftsAssumption DEF DraftsInv, DraftsTypeOK, ChoicesFit, FirstChoices, locatorVars, textVars, fileVars
<1>4. FileFollows'
  BY <1>0 DEF DraftsInv, FileFollows, locatorVars, textVars, fileVars
<1>5. DraftsFit'
  BY <1>0 DEF DraftsInv, DraftsFit, FileFollows, TextTyped, AskedOfTheDraft, locatorVars, textVars, fileVars
<1>6. QED
  BY <1>1, <1>2, <1>3, <1>4, <1>5 DEF DraftsInv

LEMMA EditTextKeeps == ASSUME DraftsInv, NEW field, EditText(field) PROVE DraftsInv'
<1> USE DEF EditText
<1>0. /\ DraftsTypeOK /\ TextTyped /\ MaxEdits \in Nat /\ "none" \notin Video \cup List
  BY DraftsAssumption DEF DraftsInv
<1>1. DraftsTypeOK'
  BY <1>0 DEF DraftsInv, DraftsTypeOK, TextTyped, locatorVars, textVars, fileVars
<1>2. TextTyped' /\ AskedOfTheDraft'
  BY <1>0 DEF DraftsInv, TextTyped, AskedOfTheDraft, locatorVars, textVars, fileVars
<1>3. ChoicesFit'
  BY <1>0, DraftsAssumption DEF DraftsInv, DraftsTypeOK, ChoicesFit, FirstChoices, locatorVars, textVars, fileVars
<1>4. FileFollows'
  BY <1>0 DEF DraftsInv, FileFollows, locatorVars, textVars, fileVars
<1>5. DraftsFit'
  BY <1>0 DEF DraftsInv, DraftsFit, FileFollows, TextTyped, AskedOfTheDraft, locatorVars, textVars, fileVars
<1>6. QED
  BY <1>1, <1>2, <1>3, <1>4, <1>5 DEF DraftsInv

LEMMA AskTitleKeeps == ASSUME DraftsInv, AskTitle PROVE DraftsInv'
<1> USE DEF AskTitle, NoAsk
<1>0. /\ DraftsTypeOK /\ TextTyped /\ MaxEdits \in Nat /\ "none" \notin Video \cup List
  BY DraftsAssumption DEF DraftsInv
<1>1. DraftsTypeOK'
  BY <1>0 DEF DraftsInv, DraftsTypeOK, TextTyped, locatorVars, textVars, fileVars
<1>2. TextTyped' /\ AskedOfTheDraft'
  BY <1>0 DEF DraftsInv, TextTyped, AskedOfTheDraft, locatorVars, textVars, fileVars
<1>3. ChoicesFit'
  BY <1>0, DraftsAssumption DEF DraftsInv, DraftsTypeOK, ChoicesFit, FirstChoices, locatorVars, textVars, fileVars
<1>4. FileFollows'
  BY <1>0 DEF DraftsInv, FileFollows, locatorVars, textVars, fileVars
<1>5. DraftsFit'
  BY <1>0 DEF DraftsInv, DraftsFit, FileFollows, TextTyped, AskedOfTheDraft, locatorVars, textVars, fileVars
<1>6. QED
  BY <1>1, <1>2, <1>3, <1>4, <1>5 DEF DraftsInv

LEMMA TitleAnswersKeeps == ASSUME DraftsInv, TitleAnswers PROVE DraftsInv'
<1> USE DEF TitleAnswers, NoAsk, Unchanged
<1>0. /\ DraftsTypeOK /\ TextTyped /\ MaxEdits \in Nat /\ "none" \notin Video \cup List
  BY DraftsAssumption DEF DraftsInv
<1>1. DraftsTypeOK'
  BY <1>0 DEF DraftsInv, DraftsTypeOK, TextTyped, locatorVars, textVars, fileVars
<1>2. TextTyped' /\ AskedOfTheDraft'
  BY <1>0 DEF DraftsInv, TextTyped, AskedOfTheDraft, locatorVars, textVars, fileVars
<1>3. ChoicesFit'
  BY <1>0, DraftsAssumption DEF DraftsInv, DraftsTypeOK, ChoicesFit, FirstChoices, locatorVars, textVars, fileVars
<1>4. FileFollows'
  BY <1>0 DEF DraftsInv, FileFollows, locatorVars, textVars, fileVars
<1>5. DraftsFit'
  BY <1>0 DEF DraftsInv, DraftsFit, FileFollows, TextTyped, AskedOfTheDraft, locatorVars, textVars, fileVars
<1>6. QED
  BY <1>1, <1>2, <1>3, <1>4, <1>5 DEF DraftsInv

LEMMA AttachKeeps == ASSUME DraftsInv, Attach PROVE DraftsInv'
<1> USE DEF Attach
<1>0. /\ DraftsTypeOK /\ TextTyped /\ MaxEdits \in Nat /\ "none" \notin Video \cup List
  BY DraftsAssumption DEF DraftsInv
<1>1. DraftsTypeOK'
  BY <1>0 DEF DraftsInv, DraftsTypeOK, TextTyped, locatorVars, textVars, fileVars
<1>2. TextTyped' /\ AskedOfTheDraft'
  BY <1>0 DEF DraftsInv, TextTyped, AskedOfTheDraft, locatorVars, textVars, fileVars
<1>3. ChoicesFit'
  BY <1>0, DraftsAssumption DEF DraftsInv, DraftsTypeOK, ChoicesFit, FirstChoices, locatorVars, textVars, fileVars
<1>4. FileFollows'
  BY <1>0 DEF DraftsInv, FileFollows, locatorVars, textVars, fileVars
<1>5. DraftsFit'
  BY <1>0 DEF DraftsInv, DraftsFit, FileFollows, TextTyped, AskedOfTheDraft, locatorVars, textVars, fileVars
<1>6. QED
  BY <1>1, <1>2, <1>3, <1>4, <1>5 DEF DraftsInv

LEMMA StageFileKeeps == ASSUME DraftsInv, StageFile PROVE DraftsInv'
<1> USE DEF StageFile
<1>0. /\ DraftsTypeOK /\ TextTyped /\ MaxEdits \in Nat /\ "none" \notin Video \cup List
  BY DraftsAssumption DEF DraftsInv
<1>1. DraftsTypeOK'
  BY <1>0 DEF DraftsInv, DraftsTypeOK, TextTyped, locatorVars, textVars, fileVars
<1>2. TextTyped' /\ AskedOfTheDraft'
  BY <1>0 DEF DraftsInv, TextTyped, AskedOfTheDraft, locatorVars, textVars, fileVars
<1>3. ChoicesFit'
  BY <1>0, DraftsAssumption DEF DraftsInv, DraftsTypeOK, ChoicesFit, FirstChoices, locatorVars, textVars, fileVars
<1>4. FileFollows'
  BY <1>0 DEF DraftsInv, FileFollows, locatorVars, textVars, fileVars
<1>5. DraftsFit'
  BY <1>0 DEF DraftsInv, DraftsFit, FileFollows, TextTyped, AskedOfTheDraft, locatorVars, textVars, fileVars
<1>6. QED
  BY <1>1, <1>2, <1>3, <1>4, <1>5 DEF DraftsInv

LEMMA UploadAnswersKeeps == ASSUME DraftsInv, UploadAnswers PROVE DraftsInv'
<1> USE DEF UploadAnswers
<1>0. /\ DraftsTypeOK /\ TextTyped /\ MaxEdits \in Nat /\ "none" \notin Video \cup List
  BY DraftsAssumption DEF DraftsInv
<1>1. DraftsTypeOK'
  BY <1>0 DEF DraftsInv, DraftsTypeOK, TextTyped, locatorVars, textVars, fileVars
<1>2. TextTyped' /\ AskedOfTheDraft'
  BY <1>0 DEF DraftsInv, TextTyped, AskedOfTheDraft, locatorVars, textVars, fileVars
<1>3. ChoicesFit'
  BY <1>0, DraftsAssumption DEF DraftsInv, DraftsTypeOK, ChoicesFit, FirstChoices, locatorVars, textVars, fileVars
<1>4. FileFollows'
  BY <1>0 DEF DraftsInv, FileFollows, locatorVars, textVars, fileVars
<1>5. DraftsFit'
  BY <1>0 DEF DraftsInv, DraftsFit, FileFollows, TextTyped, AskedOfTheDraft, locatorVars, textVars, fileVars
<1>6. QED
  BY <1>1, <1>2, <1>3, <1>4, <1>5 DEF DraftsInv

LEMMA UploadFailsKeeps == ASSUME DraftsInv, UploadFails PROVE DraftsInv'
<1> USE DEF UploadFails
<1>0. /\ DraftsTypeOK /\ TextTyped /\ MaxEdits \in Nat /\ "none" \notin Video \cup List
  BY DraftsAssumption DEF DraftsInv
<1>1. DraftsTypeOK'
  BY <1>0 DEF DraftsInv, DraftsTypeOK, TextTyped, locatorVars, textVars, fileVars
<1>2. TextTyped' /\ AskedOfTheDraft'
  BY <1>0 DEF DraftsInv, TextTyped, AskedOfTheDraft, locatorVars, textVars, fileVars
<1>3. ChoicesFit'
  BY <1>0, DraftsAssumption DEF DraftsInv, DraftsTypeOK, ChoicesFit, FirstChoices, locatorVars, textVars, fileVars
<1>4. FileFollows'
  BY <1>0 DEF DraftsInv, FileFollows, locatorVars, textVars, fileVars
<1>5. DraftsFit'
  BY <1>0 DEF DraftsInv, DraftsFit, FileFollows, TextTyped, AskedOfTheDraft, locatorVars, textVars, fileVars
<1>6. QED
  BY <1>1, <1>2, <1>3, <1>4, <1>5 DEF DraftsInv

LEMMA RemoveFileKeeps == ASSUME DraftsInv, RemoveFile PROVE DraftsInv'
<1> USE DEF RemoveFile, DropFile, Dropped
<1>0. /\ DraftsTypeOK /\ TextTyped /\ MaxEdits \in Nat /\ "none" \notin Video \cup List
  BY DraftsAssumption DEF DraftsInv
<1>1. DraftsTypeOK'
  BY <1>0 DEF DraftsInv, DraftsTypeOK, TextTyped, locatorVars, textVars, fileVars
<1>2. TextTyped' /\ AskedOfTheDraft'
  BY <1>0 DEF DraftsInv, TextTyped, AskedOfTheDraft, locatorVars, textVars, fileVars
<1>3. ChoicesFit'
  BY <1>0, DraftsAssumption DEF DraftsInv, DraftsTypeOK, ChoicesFit, FirstChoices, locatorVars, textVars, fileVars
<1>4. FileFollows'
  BY <1>0 DEF DraftsInv, FileFollows, locatorVars, textVars, fileVars
<1>5. DraftsFit'
  BY <1>0 DEF DraftsInv, DraftsFit, FileFollows, TextTyped, AskedOfTheDraft, locatorVars, textVars, fileVars
<1>6. QED
  BY <1>1, <1>2, <1>3, <1>4, <1>5 DEF DraftsInv

LEMMA ArchiveRowsKeeps == ASSUME DraftsInv, ArchiveRows PROVE DraftsInv'
<1> USE DEF ArchiveRows, KeptForJob
<1>0. /\ DraftsTypeOK /\ TextTyped /\ MaxEdits \in Nat /\ "none" \notin Video \cup List /\ Emptied
  BY DraftsAssumption DEF DraftsInv
<1>1. DraftsTypeOK' /\ TextTyped'
  <2>1. asked' \in [edits : 0..MaxEdits, revision : Nat, live : BOOLEAN, busy : BOOLEAN]
    BY <1>0 DEF Emptied, TextTyped
  <2>2. TextTyped'
    BY <1>0, <2>1 DEF Emptied, TextTyped
  <2>3. DraftsTypeOK'
    <3>1. stored' \in {"none", "staged", "sent", "deleted"} /\ upload' = "none"
      BY <1>0 DEF Emptied, DraftsTypeOK
    <3>2. asked'.edits \in 0..MaxEdits /\ edits' \in 0..MaxEdits /\ title' \in {"user", "model"}
      BY <2>1, <2>2 DEF TextTyped
    <3>3. QED
      BY <1>0, <3>1, <3>2 DEF Emptied, DraftsTypeOK
  <2>4. QED
    BY <2>2, <2>3
<1>2. AskedOfTheDraft'
  BY <1>0 DEF Emptied, AskedOfTheDraft, TextTyped
<1>3. ChoicesFit'
  BY <1>0, NothingToChoose DEF Emptied, ChoicesFit
<1>4. FileFollows'
  BY <1>0 DEF Emptied, DraftsInv, FileFollows
<1>5. DraftsFit'
  <2>1. ASSUME NEW i \in DOMAIN choices
        PROVE  i \in DOMAIN Offers[locator] /\ choices[i] \in Offers[locator][i] \cup {"best"}
    BY <2>1 DEF DraftsInv, ChoicesFit, Ready
  <2>2. lastSent'.locator = locator /\ lastSent'.choices = choices /\ lastSent'.file = (upload = "done")
    OBVIOUS
  <2>3. lastSent'.file => stored' = "sent"
    BY <2>2
  <2>4. ~overwritten' /\ (stored' = "staged" => upload' \in {"uploading", "done"} \/ orphaned')
    BY <1>0 DEF Emptied, DraftsInv, DraftsFit, Ready
  <2>5. QED
    BY <2>1, <2>2, <2>3, <2>4 DEF DraftsFit
<1>6. QED
  BY <1>1, <1>2, <1>3, <1>4, <1>5 DEF DraftsInv

LEMMA CloseDialogKeeps == ASSUME DraftsInv, CloseDialog PROVE DraftsInv'
<1> USE DEF CloseDialog, DropFile, Dropped
<1>0. /\ DraftsTypeOK /\ TextTyped /\ MaxEdits \in Nat /\ "none" \notin Video \cup List /\ Emptied
  BY DraftsAssumption DEF DraftsInv
<1>1. DraftsTypeOK' /\ TextTyped'
  <2>1. asked' \in [edits : 0..MaxEdits, revision : Nat, live : BOOLEAN, busy : BOOLEAN]
    BY <1>0 DEF Emptied, TextTyped
  <2>2. TextTyped'
    BY <1>0, <2>1 DEF Emptied, TextTyped
  <2>3. DraftsTypeOK'
    <3>1. stored' \in {"none", "staged", "sent", "deleted"} /\ upload' = "none"
      BY <1>0 DEF Emptied, DraftsTypeOK
    <3>2. asked'.edits \in 0..MaxEdits /\ edits' \in 0..MaxEdits /\ title' \in {"user", "model"}
      BY <2>1, <2>2 DEF TextTyped
    <3>3. QED
      BY <1>0, <3>1, <3>2 DEF Emptied, DraftsTypeOK
  <2>4. QED
    BY <2>2, <2>3
<1>2. AskedOfTheDraft'
  BY <1>0 DEF Emptied, AskedOfTheDraft, TextTyped
<1>3. ChoicesFit'
  BY <1>0, NothingToChoose DEF Emptied, ChoicesFit
<1>4. FileFollows'
  BY <1>0 DEF Emptied, DraftsInv, FileFollows
<1>5. DraftsFit'
  <2>1. lastSent' = lastSent /\ overwritten' = overwritten /\ stored' = Dropped
        /\ orphaned' = (orphaned \/ upload = "uploading")
    BY DEF Emptied
  <2>2. lastSent.file => stored' = "sent"
    BY <2>1 DEF DraftsInv, DraftsFit, FileFollows
  <2>3. stored' = "staged" => upload' \in {"uploading", "done"} \/ orphaned'
    BY <2>1 DEF DraftsInv, DraftsFit, FileFollows
  <2>4. QED
    BY <2>1, <2>2, <2>3 DEF DraftsInv, DraftsFit
<1>6. QED
  BY <1>1, <1>2, <1>3, <1>4, <1>5 DEF DraftsInv

LEMMA DraftsStay == DraftsInv /\ [DraftsNext]_draftVars => DraftsInv'
<1> SUFFICES ASSUME DraftsInv, [DraftsNext]_draftVars PROVE DraftsInv'
  OBVIOUS
<1>1. CASE UNCHANGED draftVars
  BY <1>1 DEF DraftsInv, DraftsTypeOK, TextTyped, ChoicesFit, AskedOfTheDraft, FileFollows, DraftsFit, draftVars, locatorVars, textVars, fileVars
<1>2. ASSUME NEW l \in Video \cup List \cup {"none"}, TypeLocator(l) PROVE DraftsInv'
  BY <1>2, TypeLocatorKeeps
<1>3. ASSUME NEW k \in 1..MaxProbes, AskProbe(k) \/ ProbeAnswers(k) \/ ProbeFails(k) PROVE DraftsInv'
  BY <1>3, AskProbeKeeps, ProbeAnswersKeeps, ProbeFailsKeeps
<1>4. ASSUME NEW i \in DOMAIN choices, DropVideo(i) \/ \E q \in Offered(i) : Choose(i, q) \/ ChooseForAll(q)
      PROVE  DraftsInv'
  BY <1>4, DropVideoKeeps, ChooseKeeps, ChooseForAllKeeps
<1>5. ASSUME NEW field, EditText(field) PROVE DraftsInv'
  BY <1>5, EditTextKeeps
<1>6. QED
  BY <1>1, <1>2, <1>3, <1>4, <1>5, ArchiveRowsKeeps, CloseDialogKeeps, RemoveFileKeeps, AttachKeeps, StageFileKeeps,
     UploadAnswersKeeps, UploadFailsKeeps, AskTitleKeeps, TitleAnswersKeeps DEF DraftsNext

LEMMA DraftsInvariant == DraftsSpec => []DraftsInv
  BY DraftsStart, DraftsStay, PTL DEF DraftsSpec

(* What is submitted was offered to its own locator, no generated title      *)
(* replaces an edit, and a file is with its row or its job, in every order   *)
(* of typing, probes, answers and closings (CaptureDialog).                  *)
THEOREM SubmissionsFit == DraftsSpec => []DraftsFit
  BY DraftsInvariant, PTL DEF DraftsInv

LEMMA LeastIs == ASSUME NEW T \in SUBSET Nat, T # {} PROVE \E x \in T : \A y \in T : x <= y
<1> DEFINE R == {ss \in Nat \X Nat : ss[1] < ss[2]}
<1>1. OpToRel(<, Nat) = R
  BY DEF OpToRel
<1>2. IsWellFoundedOn(R, Nat)
  BY <1>1, NatLessThanWellFounded
<1>3. \E x \in T : \A y \in T : ~(<<y, x>> \in R)
  <2> HIDE DEF R
  <2>1. QED
    BY <1>2, WFMin
<1>4. PICK x \in T : \A y \in T : ~(<<y, x>> \in R)
  BY <1>3
<1>5. ASSUME NEW y \in T PROVE x <= y
  <2>1. x \in Nat /\ y \in Nat /\ <<y, x>> \in Nat \X Nat
    OBVIOUS
  <2>2. ~(y < x)
    BY <1>4, <2>1
  <2>3. QED
    BY <2>1, <2>2
<1>6. QED
  BY <1>5

(* A bounded set of numbers has a largest one, which Max finds.              *)
LEMMA MaxIs ==
  ASSUME NEW S \in SUBSET Nat, S # {}, NEW n \in Nat, \A k \in S : k <= n
  PROVE  Max(S) \in S /\ \A k \in S : k <= Max(S)
<1> DEFINE T == {n - k : k \in S}
<1>0. \A k \in S : k \in Nat /\ n - k \in Nat
  OBVIOUS
<1>1. T \in SUBSET Nat /\ T # {}
  BY <1>0
<1>2. PICK x \in T : \A y \in T : x <= y
  BY <1>1, LeastIs
<1>3. PICK m \in S : x = n - m
  BY <1>2
<1>4. ASSUME NEW k \in S PROVE m >= k
  <2>1. n - k \in T
    OBVIOUS
  <2>2. x <= n - k
    BY <1>2, <2>1
  <2>3. QED
    BY <1>0, <1>3, <2>2
<1>5. Max(S) \in S /\ \A k \in S : Max(S) >= k
  BY <1>4 DEF Max
<1>6. QED
  BY <1>0, <1>5
----------------------------------------------------------------------------
(* Providers.  One PATCH at a time holds the settings as they are, and what  *)
(* is told of the providers is computed from the same settings and the same  *)
(* environment as what requests use.                                         *)

PatchesHoldTheSettings ==
    /\ \A p \in Patcher : patch[p].at = "merge" => patch[p].copy = settings
    /\ \A p, q \in Patcher : patch[p].at = "merge" /\ patch[q].at = "merge" => p = q
    /\ patch \in [Patcher -> [at : {"idle", "merge"}, body : PatchBody \cup {<<>>}, copy : [Field -> BOOLEAN]]]

ProvidersInv == ProvidersTypeOK /\ PatchesHoldTheSettings /\ NoPatchIsLost

LEMMA ProvidersStart == ProvidersInit => ProvidersInv
<1> SUFFICES ASSUME ProvidersInit PROVE ProvidersInv
  OBVIOUS
<1>1. NoOverrides \in [Field -> BOOLEAN] /\ NoPatch.at = "idle" /\ NoPatch.copy = NoOverrides /\ NoPatch.body = <<>>
      /\ NoPatch \in [at : {"idle", "merge"}, body : PatchBody \cup {<<>>}, copy : [Field -> BOOLEAN]]
  BY DEF NoOverrides, NoPatch
<1>2. \A p \in Patcher : patch[p] = NoPatch
  BY DEF ProvidersInit
<1>3. ProvidersTypeOK
  BY <1>1, <1>2, ProvidersAssumption DEF ProvidersInit, ProvidersTypeOK
<1>4. PatchesHoldTheSettings
  BY <1>1, <1>2 DEF ProvidersInit, PatchesHoldTheSettings
<1>5. QED
  BY <1>3, <1>4 DEF ProvidersInit, ProvidersInv, NoPatchIsLost

LEMMA BodiesAreOfFields == ASSUME NEW body \in PatchBody PROVE DOMAIN body \subseteq Field
  BY ProvidersAssumption DEF PatchBody

(* An ended PATCH is one fewer.                                              *)
LEMMA PatchesEnd ==
  ASSUME ProvidersInv, NEW p \in Patcher, patch[p].at = "merge", patch' = [patch EXCEPT ![p] = NoPatch],
         patches' = patches, env' = env,
         \/ settings' = settings /\ committed' = committed
         \/ settings' = committed' /\ settings' \in [Field -> BOOLEAN]
  PROVE  ProvidersInv'
<1>1. NoPatch.at = "idle" /\ NoPatch.copy \in [Field -> BOOLEAN]
      /\ NoPatch \in [at : {"idle", "merge"}, body : PatchBody \cup {<<>>}, copy : [Field -> BOOLEAN]]
  BY DEF NoOverrides, NoPatch
<1>2. patch' \in [Patcher -> [at : {"idle", "merge"}, body : PatchBody \cup {<<>>}, copy : [Field -> BOOLEAN]]]
  BY <1>1 DEF ProvidersInv, PatchesHoldTheSettings
<1>3. \A r \in Patcher : patch'[r].at # "merge"
  BY <1>1 DEF ProvidersInv, PatchesHoldTheSettings
<1>4. PatchesHoldTheSettings'
  BY <1>2, <1>3 DEF PatchesHoldTheSettings
<1>5. ProvidersTypeOK'
  BY <1>2 DEF ProvidersInv, ProvidersTypeOK, NoPatchIsLost
<1>6. QED
  BY <1>4, <1>5 DEF ProvidersInv, NoPatchIsLost

LEMMA BeginPatchKeeps == ASSUME ProvidersInv, NEW p \in Patcher, BeginPatch(p) PROVE ProvidersInv'
<1>1. PICK body \in PatchBody : patch' = [patch EXCEPT ![p] = [at |-> "merge", body |-> body, copy |-> settings]]
  BY DEF BeginPatch
<1> DEFINE new == [at |-> "merge", body |-> body, copy |-> settings]
<1>2. new \in [at : {"idle", "merge"}, body : PatchBody \cup {<<>>}, copy : [Field -> BOOLEAN]]
      /\ new.at = "merge" /\ new.copy = settings
  BY DEF ProvidersInv, ProvidersTypeOK
<1> HIDE DEF new
<1>3. patch' \in [Patcher -> [at : {"idle", "merge"}, body : PatchBody \cup {<<>>}, copy : [Field -> BOOLEAN]]]
      /\ patch'[p] = new /\ \A r \in Patcher : r # p => patch'[r].at = "idle"
  BY <1>1, <1>2 DEF ProvidersInv, PatchesHoldTheSettings, BeginPatch, Unlocked, new
<1>4. PatchesHoldTheSettings'
  BY <1>2, <1>3 DEF PatchesHoldTheSettings, BeginPatch
<1>5. ProvidersTypeOK'
  BY <1>3, ProvidersAssumption DEF ProvidersInv, ProvidersTypeOK, BeginPatch
<1>6. QED
  BY <1>4, <1>5 DEF ProvidersInv, NoPatchIsLost, BeginPatch

LEMMA CommitPatchKeeps == ASSUME ProvidersInv, NEW p \in Patcher, CommitPatch(p) PROVE ProvidersInv'
<1> DEFINE body == Meant(patch[p].body)
<1>1. patch[p].copy = settings /\ settings = committed
  BY DEF ProvidersInv, PatchesHoldTheSettings, NoPatchIsLost, CommitPatch
<1>2. /\ settings' = [f \in Field |-> IF f \in DOMAIN body THEN body[f] = "value" ELSE settings[f]]
      /\ committed' = [f \in Field |-> IF f \in DOMAIN body THEN body[f] = "value" ELSE settings[f]]
  BY <1>1 DEF CommitPatch, Lay
<1> HIDE DEF body
<1>3. settings' \in [Field -> BOOLEAN]
  BY <1>2 DEF ProvidersInv, ProvidersTypeOK
<1>4. QED
  BY <1>2, <1>3, PatchesEnd DEF CommitPatch

LEMMA ProvidersStay == ProvidersInv /\ [ProvidersNext]_providerVars => ProvidersInv'
<1> SUFFICES ASSUME ProvidersInv, [ProvidersNext]_providerVars PROVE ProvidersInv'
  OBVIOUS
<1>1. CASE UNCHANGED providerVars
  BY <1>1 DEF ProvidersInv, providerVars, ProvidersTypeOK, PatchesHoldTheSettings, NoPatchIsLost
<1>2. ASSUME NEW p \in Patcher, RefusePatch(p) PROVE ProvidersInv'
  BY <1>2, PatchesEnd DEF RefusePatch
<1>3. QED
  BY <1>1, <1>2, BeginPatchKeeps, CommitPatchKeeps DEF ProvidersNext

LEMMA WhatIsToldIsUsed ==
  ASSUME ProvidersTypeOK PROVE ShownModelIsUsed /\ ConfiguredWorks /\ OfferedWorks /\ ModelsAreOfTheEndpoint
<1>0. /\ env \in Environment /\ settings \in [Field -> BOOLEAN] /\ Kinds \subseteq Field
      /\ {"base", "key", "model"} \subseteq Field
      /\ \A f \in Field : NoOverrides[f] = FALSE
      /\ env.anthropicKey \in BOOLEAN /\ env.openaiKey \in BOOLEAN
  BY DEF ProvidersTypeOK, Field, NoOverrides, Environment
<1>1. ASSUME NEW kind \in Kinds
      PROVE  /\ \A c \in WithTitleModel(kind) : c.model = TitleModel(kind)
             /\ WithTitleModel(kind) # {} <=> ProviderFrom(env, settings, kind) # {}
  <2>1. ASSUME NEW c \in ProviderFrom(env, settings, kind) PROVE [c EXCEPT !.model = TitleModel(kind)].model = TitleModel(kind)
    <3>1. \E host, key, model : c = [host |-> host, key |-> key, model |-> model]
      BY DEF ProviderFrom, ProviderConfig, Kinds
    <3>2. QED
      BY <3>1
  <2>2. QED
    BY <2>1 DEF WithTitleModel
<1>2. ShownModelIsUsed
  BY <1>0, <1>1 DEF ShownModelIsUsed, SettingsPage, TitleModel, EffectiveTitleModel, TitleModelFrom, Kinds
<1>3. OfferedWorks
  BY <1>0 DEF OfferedWorks, OfferedTitle, Works, ProviderFrom, ProviderConfig, Kinds
<1>4. ModelsAreOfTheEndpoint
  BY <1>0 DEF ModelsAreOfTheEndpoint, ModelsOf, Call, ProviderFrom, ProviderConfig, FetchHost, FetchKey, Given
<1>5. ConfiguredWorks
  <2> SUFFICES ASSUME NEW kind \in Kinds
               PROVE  /\ EffectiveProvider(kind).configured <=> WithTitleModel(kind) # {} /\ Works(env, settings, kind)
                      /\ \/ kind = "claude_cli" \/ Works(WithEnv(EffectiveProvider(kind).missing), settings, kind)
                      /\ EffectiveProvider(kind).missing # {} => ~EffectiveProvider(kind).configured
    BY DEF ConfiguredWorks
  <2>1. EffectiveProvider(kind).configured = Works(env, settings, kind) /\ EffectiveProvider(kind).missing = MissingEnv(kind)
    BY DEF EffectiveProvider
  <2>2. Works(env, settings, kind) => ProviderFrom(env, settings, kind) # {}
    BY DEF Works
  <2>3. MissingEnv(kind) # {} => ProviderFrom(env, settings, kind) = {}
    BY DEF MissingEnv
  <2>4. kind \in {"anthropic_http", "openai_compatible"} => Works(WithEnv(MissingEnv(kind)), settings, kind)
    <3> DEFINE filled == WithEnv(MissingEnv(kind))
    <3>1. filled.anthropicKey = (IF "anthropicKey" \in MissingEnv(kind) THEN TRUE ELSE env.anthropicKey)
          /\ filled.openaiKey = (IF "openaiKey" \in MissingEnv(kind) THEN TRUE ELSE env.openaiKey)
      BY <1>0 DEF WithEnv, Environment
    <3> HIDE DEF filled
    <3>2. CASE kind = "anthropic_http"
      <4>1. env.anthropicKey \/ "anthropicKey" \in MissingEnv(kind)
        BY <1>0, <3>2 DEF MissingEnv, ProviderFrom, ProviderConfig
      <4>2. filled.anthropicKey
        BY <3>1, <4>1
      <4>3. ProviderFrom(filled, settings, kind) # {}
        BY <3>2, <4>2 DEF ProviderFrom, ProviderConfig
      <4>4. QED
        BY <3>2, <4>3 DEF Works, filled
    <3>3. CASE kind = "openai_compatible"
      <4>1. settings["key"] \/ settings["base"] \/ env.openaiKey \/ "openaiKey" \in MissingEnv(kind)
        BY <1>0, <3>3 DEF MissingEnv, ProviderFrom, ProviderConfig
      <4>2. settings["key"] \/ settings["base"] \/ filled.openaiKey
        BY <3>1, <4>1
      <4>3. ProviderFrom(filled, settings, kind) # {}
        BY <3>3, <4>2 DEF ProviderFrom, ProviderConfig
      <4>4. QED
        BY <3>3, <4>3 DEF Works, filled
    <3>4. QED
      BY <3>2, <3>3 DEF filled
  <2>5. QED
    BY <1>1, <2>1, <2>2, <2>3, <2>4 DEF Kinds
<1>6. QED
  BY <1>2, <1>3, <1>4, <1>5

LEMMA ProvidersInvariant == ProvidersInit /\ [][ProvidersNext]_providerVars => []ProvidersInv
  BY ProvidersStart, ProvidersStay, PTL

LEMMA ProvidersPromise == ProvidersInv => ProvidersAgree
  BY WhatIsToldIsUsed DEF ProvidersInv, ProvidersAgree
----------------------------------------------------------------------------
(* Titles.  Rowids are handed out again but not while they are used, so that *)
(* a row listed for the rewrite is still that entry's; and a request for a   *)
(* title has read its own entry, unless that is gone for good.               *)

TitleType ==
    {"first", "legacy", "article", "named", "none", "link", "made"} \X (Tweet \cup Titled \cup {NotTweet, "reader", "none"})
EntryType == [id : Nat \ {0}, tweet : Tweet \cup {NotTweet}, title : TitleType]
ShelfTyped ==
    /\ shelf = [u \in Titled |-> shelf[u]]
    /\ \A u \in Titled : shelf[u] = <<>> \/ (shelf[u] = <<EntryRow(u)>> /\ EntryRow(u) \in EntryType)
    /\ OnShelf \subseteq shelvedEver /\ shelvedEver \subseteq Titled
AskType ==
    [at : {"idle", "read", "primary", "fallback", "save"}, uid : Titled \cup {"none"}, id : Nat, file : {"none"},
     answer : {"none", "primary", "fallback", "output"}, of : Titled \cup {"none"}]
AsksTyped == ask \in [Asker -> AskType] /\ litter \subseteq Asker /\ restarts \in Nat /\ (litter # {} => restarts > 0)

RowidsAreOfOne ==
    /\ \A u, v \in OnShelf : EntryRow(u).id = EntryRow(v).id => u = v
    /\ \A u \in OnShelf : EntryRow(u).id <= Cardinality(shelvedEver)
ScanIsOfTheShelf ==
    /\ scan = [at |-> scan.at, rows |-> scan.rows]
    /\ scan.at # "rewrite" => scan.rows = {}
    /\ \A row \in scan.rows : /\ \E u \in OnShelf : EntryRow(u).id = row.id /\ EntryRow(u).tweet = row.tweet
                              /\ row \in EntryType
AsksReadTheirOwn ==
    \A r \in Asker : ask[r].at # "idle" =>
        /\ ask[r].uid \in shelvedEver
        /\ ask[r].uid \in OnShelf => IF ask[r].at = "read" THEN EntryRow(ask[r].uid).id = ask[r].id
                                     ELSE ask[r].of = ask[r].uid
WantsAreOfReaders ==
    /\ wanted = [u \in Titled |-> wanted[u]]
    /\ \A u \in Titled \ shelvedEver : wanted[u] = <<"unset", "reader">>

TitlesInv ==
    /\ ShelfTyped /\ AsksTyped /\ RowidsAreOfOne /\ ScanIsOfTheShelf /\ AsksReadTheirOwn /\ WantsAreOfReaders
    /\ NamesStand /\ TitlesAreOfTheirEntry

LEMMA NewRowidIsNew ==
  ASSUME TitlesInv
  PROVE  /\ NextRowid \in 1..(Cardinality(shelvedEver) + 1)
         /\ \A u \in OnShelf : EntryRow(u).id # NextRowid
<1> DEFINE ids == {EntryRow(u).id : u \in OnShelf}
           n == Cardinality(shelvedEver)
<1>1. n \in Nat
  BY TitlesAssumption, FS_Subset, FS_CardinalityType DEF TitlesInv, ShelfTyped
<1>2. \A u \in OnShelf : EntryRow(u).id \in Nat \ {0} /\ EntryRow(u).id <= n
  BY DEF TitlesInv, ShelfTyped, OnShelf, EntryType, RowidsAreOfOne
<1> HIDE DEF n
<1>3. ids \in SUBSET (Nat \ {0}) /\ \A k \in ids : k <= n
  BY <1>2
<1>4. CASE OnShelf = {}
  BY <1>1, <1>4 DEF NextRowid, n
<1>5. CASE OnShelf # {}
  <2>1. ids # {} /\ NextRowid = Max(ids) + 1
    BY <1>5 DEF NextRowid
  <2>2. Max(ids) \in ids /\ \A k \in ids : k <= Max(ids)
    BY <1>1, <1>3, <2>1, MaxIs
  <2>3. Max(ids) \in Nat /\ Max(ids) <= n /\ \A u \in OnShelf : EntryRow(u).id \in Nat /\ EntryRow(u).id <= Max(ids)
    BY <1>2, <1>3, <2>2
  <2>4. QED
    BY <1>1, <2>1, <2>3 DEF n
<1>6. QED
  BY <1>4, <1>5

LEMMA TitlesStart == TitlesInit => TitlesInv
<1> SUFFICES ASSUME TitlesInit PROVE TitlesInv
  OBVIOUS
<1>1. ASSUME NEW u \in OnShelf
      PROVE  /\ u \in Titled /\ shelf[u] = <<EntryRow(u)>> /\ EntryRow(u).id = 1 /\ EntryRow(u) \in EntryType
             /\ EntryRow(u).title[1] \in {"first", "legacy"}
  <2>1. \/ shelf[u] = <<[id |-> 1, tweet |-> NotTweet, title |-> <<"first", NotTweet>>]>>
        \/ \E t \in Tweet : shelf[u] = <<[id |-> 1, tweet |-> t, title |-> <<"legacy", t>>]>>
    BY DEF TitlesInit, OnShelf
  <2>2. ASSUME NEW t \in Tweet \cup {NotTweet}, NEW w \in {"first", "legacy"},
               shelf[u] = <<[id |-> 1, tweet |-> t, title |-> <<w, t>>]>>
        PROVE  /\ u \in Titled /\ shelf[u] = <<EntryRow(u)>> /\ EntryRow(u).id = 1 /\ EntryRow(u) \in EntryType
               /\ EntryRow(u).title[1] \in {"first", "legacy"}
    <3>1. EntryRow(u) = [id |-> 1, tweet |-> t, title |-> <<w, t>>]
      BY <2>2 DEF EntryRow
    <3>2. <<w, t>> \in TitleType
      BY DEF TitleType
    <3>3. EntryRow(u) \in EntryType /\ EntryRow(u).id = 1 /\ EntryRow(u).title = <<w, t>>
      BY <3>1, <3>2 DEF EntryType
    <3>4. QED
      BY <2>2, <3>1, <3>3 DEF OnShelf
  <2>3. QED
    BY <2>1, <2>2
<1>2. IsFiniteSet(OnShelf)
  BY TitlesAssumption, FS_Subset DEF OnShelf
<1>3. ShelfTyped
  <2>1. \A u \in Titled : shelf[u] = <<>> \/ (shelf[u] = <<EntryRow(u)>> /\ EntryRow(u) \in EntryType)
    BY <1>1 DEF OnShelf
  <2>2. QED
    BY <2>1 DEF TitlesInit, ShelfTyped, OnShelf
<1>4. RowidsAreOfOne
  <2>1. ASSUME NEW u \in OnShelf PROVE OnShelf = {u}
    <3>1. Cardinality(OnShelf) \in Nat /\ Cardinality(OnShelf) # 0
      BY <1>2, <2>1, FS_CardinalityType, FS_EmptySet
    <3>2. Cardinality(OnShelf) = 1
      BY <3>1 DEF TitlesInit
    <3>3. QED
      BY <1>2, <2>1, <3>2, FS_Singleton
  <2>2. ASSUME NEW u \in OnShelf PROVE EntryRow(u).id <= Cardinality(shelvedEver)
    <3>1. Cardinality({u}) = 1
      BY FS_Singleton
    <3>2. QED
      BY <1>1, <2>1, <3>1 DEF TitlesInit
  <2>3. QED
    BY <2>1, <2>2 DEF RowidsAreOfOne
<1>5. AsksTyped /\ AsksReadTheirOwn
  <2>1. NotAsking \in AskType /\ NotAsking.at = "idle"
    BY DEF NotAsking, AskType
  <2>2. QED
    BY <2>1 DEF TitlesInit, AsksTyped, AsksReadTheirOwn
<1>6. ScanIsOfTheShelf
  BY DEF TitlesInit, NotScanning, ScanIsOfTheShelf
<1>7. WantsAreOfReaders /\ NamesStand
  BY <1>1 DEF TitlesInit, WantsAreOfReaders, NamesStand
<1>8. TitlesAreOfTheirEntry
  BY <1>1 DEF TitlesAreOfTheirEntry
<1>9. QED
  BY <1>3, <1>4, <1>5, <1>6, <1>7, <1>8 DEF TitlesInv

LEMMA OneIsSome == \A x : <<x>> # <<>>
  OBVIOUS

(* Titles are written over those of some rows.                               *)
Retitles(U, words) ==
    /\ U \subseteq OnShelf /\ words \in TitleType /\ shelvedEver' = shelvedEver
    /\ shelf' = [u \in Titled |-> IF u \in U THEN <<[EntryRow(u) EXCEPT !.title = words]>> ELSE shelf[u]]

LEMMA Retitled ==
  ASSUME TitlesInv, NEW U, NEW words, Retitles(U, words)
  PROVE  /\ ShelfTyped' /\ OnShelf' = OnShelf /\ RowidsAreOfOne'
         /\ \A u \in OnShelf : /\ EntryRow(u)'.id = EntryRow(u).id /\ EntryRow(u)'.tweet = EntryRow(u).tweet
                               /\ EntryRow(u)'.title = IF u \in U THEN words ELSE EntryRow(u).title
<1> USE DEF Retitles
<1>1. ASSUME NEW u \in OnShelf
      PROVE  /\ shelf'[u] = <<EntryRow(u)'>> /\ EntryRow(u)' \in EntryType
             /\ EntryRow(u)'.id = EntryRow(u).id /\ EntryRow(u)'.tweet = EntryRow(u).tweet
             /\ EntryRow(u)'.title = IF u \in U THEN words ELSE EntryRow(u).title
  <2>0. u \in Titled /\ shelf[u] = <<EntryRow(u)>> /\ EntryRow(u) \in EntryType
    BY DEF TitlesInv, ShelfTyped, OnShelf
  <2>1. CASE u \in U
    <3> DEFINE row == [EntryRow(u) EXCEPT !.title = words]
    <3>1. row \in EntryType /\ row.id = EntryRow(u).id /\ row.tweet = EntryRow(u).tweet /\ row.title = words
      BY <2>0 DEF EntryType
    <3>2. shelf'[u] = <<row>>
      BY <2>0, <2>1
    <3>3. EntryRow(u)' = row
      BY <3>2 DEF EntryRow
    <3>4. QED
      BY <2>1, <3>1, <3>2, <3>3
  <2>2. CASE u \notin U
    <3>1. shelf'[u] = shelf[u]
      BY <2>0, <2>2
    <3>2. QED
      BY <2>0, <2>2, <3>1 DEF EntryRow
  <2>3. QED
    BY <2>1, <2>2
<1>2. ASSUME NEW u \in Titled, u \notin OnShelf PROVE shelf'[u] = <<>>
  BY <1>2 DEF OnShelf
<1>3. \A u \in OnShelf : shelf'[u] # <<>>
  BY <1>1, OneIsSome
<1>4. OnShelf' = OnShelf
  <2>1. \A u \in Titled : shelf'[u] # <<>> <=> shelf[u] # <<>>
    BY <1>2, <1>3 DEF OnShelf
  <2>2. QED
    BY <2>1 DEF OnShelf
<1>5. ShelfTyped'
  <2>1. \A u \in Titled : shelf'[u] = <<>> \/ (shelf'[u] = <<EntryRow(u)'>> /\ EntryRow(u)' \in EntryType')
    BY <1>1, <1>2 DEF EntryType, TitleType
  <2>2. shelf' = [u \in Titled |-> shelf'[u]]
    OBVIOUS
  <2>3. QED
    BY <1>4, <2>1, <2>2 DEF TitlesInv, ShelfTyped
<1>6. RowidsAreOfOne'
  <2>1. Cardinality(shelvedEver') = Cardinality(shelvedEver)
    OBVIOUS
  <2>2. ASSUME NEW u \in OnShelf, NEW v \in OnShelf, EntryRow(u)'.id = EntryRow(v)'.id PROVE u = v
    BY <1>1, <2>2, ZenonT(40) DEF TitlesInv, RowidsAreOfOne
  <2>3. ASSUME NEW u \in OnShelf PROVE EntryRow(u)'.id <= Cardinality(shelvedEver')
    <3>1. EntryRow(u).id <= Cardinality(shelvedEver) /\ EntryRow(u)'.id = EntryRow(u).id
      BY <1>1 DEF TitlesInv, RowidsAreOfOne
    <3>2. QED
      BY <2>1, <3>1
  <2>4. QED
    BY <1>4, <2>2, <2>3 DEF RowidsAreOfOne
<1>7. QED
  BY <1>1, <1>4, <1>5, <1>6

(* So are the promises, if the title is right for those rows.                *)
LEMMA RetitledKeeps ==
  ASSUME TitlesInv, NEW U, NEW words, Retitles(U, words),
         scan' = [at |-> scan'.at, rows |-> scan'.rows], scan'.at = scan.at, scan'.rows \subseteq scan.rows,
         UNCHANGED <<litter, restarts>>,
         \/ ask' = ask
         \/ \E r \in Asker : ask' = [ask EXCEPT ![r] = NotAsking],
         wanted' = [u \in Titled |-> wanted'[u]],
         \A u \in Titled \ U : wanted'[u] = wanted[u],
         \A u \in U : /\ wanted'[u][1] \in {"unset", "legacy"} \/ wanted'[u] = words
                      /\ words[1] = "article" => words[2] = EntryRow(u).tweet
                      /\ words[1] = "made" => words[2] = u
  PROVE  TitlesInv'
<1>1. /\ ShelfTyped' /\ OnShelf' = OnShelf /\ RowidsAreOfOne'
      /\ \A u \in OnShelf : /\ EntryRow(u)'.id = EntryRow(u).id /\ EntryRow(u)'.tweet = EntryRow(u).tweet
                            /\ EntryRow(u)'.title = IF u \in U THEN words ELSE EntryRow(u).title
  BY Retitled
<1>a. shelvedEver' = shelvedEver /\ U \subseteq OnShelf
  BY DEF Retitles
<1>2. NotAsking \in AskType /\ NotAsking.at = "idle"
  BY DEF NotAsking, AskType
<1>3. AsksTyped'
  BY <1>2 DEF TitlesInv, AsksTyped, AskType
<1>4. ScanIsOfTheShelf'
  BY <1>1 DEF TitlesInv, ScanIsOfTheShelf, EntryType, TitleType
<1>5. AsksReadTheirOwn'
  <2>1. \A r \in Asker : ask'[r] = ask[r] \/ ask'[r].at = "idle"
    BY <1>2 DEF TitlesInv, AsksTyped
  <2>2. QED
    BY <1>1, <1>a, <2>1 DEF TitlesInv, AsksReadTheirOwn
<1>6. OnShelf \subseteq Titled /\ OnShelf \subseteq shelvedEver
  BY DEF OnShelf, TitlesInv, ShelfTyped
<1>7. WantsAreOfReaders'
  BY <1>6, <1>a DEF TitlesInv, WantsAreOfReaders
<1>8. NamesStand'
  BY <1>1, <1>6, <1>a DEF TitlesInv, NamesStand
<1>9. TitlesAreOfTheirEntry'
  BY <1>1 DEF TitlesInv, TitlesAreOfTheirEntry
<1>10. QED
  BY <1>1, <1>3, <1>4, <1>5, <1>7, <1>8, <1>9 DEF TitlesInv

(* A step of a request for a title.                                          *)
LEMMA AskingKeeps ==
  ASSUME TitlesInv, NEW r \in Asker, NEW a \in AskType, ask' = [ask EXCEPT ![r] = a],
         UNCHANGED <<shelf, shelvedEver, scan, restarts, wanted, litter>>,
         a.at # "idle" => /\ a.uid \in shelvedEver
                          /\ a.uid \in OnShelf => IF a.at = "read" THEN EntryRow(a.uid).id = a.id ELSE a.of = a.uid
  PROVE  TitlesInv'
<1>1. AsksTyped'
  BY DEF TitlesInv, AsksTyped, AskType
<1>2. OnShelf' = OnShelf /\ \A u : EntryRow(u)' = EntryRow(u)
  BY DEF OnShelf, EntryRow
<1>3. AsksReadTheirOwn'
  <2>1. ask'[r] = a /\ \A q \in Asker : q # r => ask'[q] = ask[q]
    BY DEF TitlesInv, AsksTyped
  <2>2. QED
    BY <1>2, <2>1 DEF TitlesInv, AsksReadTheirOwn
<1>4. QED
  BY <1>1, <1>2, <1>3, SMTT(20)
     DEF TitlesInv, ShelfTyped, RowidsAreOfOne, ScanIsOfTheShelf, WantsAreOfReaders, NamesStand, TitlesAreOfTheirEntry,
         EntryType, TitleType

LEMMA ShelveKeeps == ASSUME TitlesInv, NEW u \in Titled, Shelve(u) PROVE TitlesInv'
<1>1. PICK t \in Tweet \cup {NotTweet} :
         shelf' = [shelf EXCEPT ![u] = <<[id |-> NextRowid, tweet |-> t, title |-> <<"article", t>>]>>]
  BY DEF Shelve
<1> DEFINE row == [id |-> NextRowid, tweet |-> t, title |-> <<"article", t>>]
           n == Cardinality(shelvedEver)
<1>2. /\ n \in Nat /\ IsFiniteSet(shelvedEver) /\ Cardinality(shelvedEver') = n + 1
      /\ u \notin shelvedEver /\ shelvedEver' = shelvedEver \cup {u} /\ u \notin OnShelf
  BY TitlesAssumption, FS_Subset, FS_CardinalityType, FS_AddElement DEF TitlesInv, ShelfTyped, Shelve
<1>3. NextRowid \in 1..(n + 1) /\ \A v \in OnShelf : EntryRow(v).id # NextRowid
  BY NewRowidIsNew
<1> HIDE DEF n
<1>4. row \in EntryType /\ row.id = NextRowid /\ row.tweet = t /\ row.title = <<"article", t>>
  <2>1. <<"article", t>> \in TitleType
    BY DEF TitleType
  <2>2. NextRowid \in Nat \ {0}
    BY <1>2, <1>3
  <2>3. QED
    BY <2>1, <2>2 DEF EntryType
<1>5. shelf' = [shelf EXCEPT ![u] = <<row>>]
  BY <1>1
<1> HIDE DEF row
<1>6. shelf'[u] = <<row>> /\ EntryRow(u)' = row /\ \A v \in Titled : v # u => shelf'[v] = shelf[v] /\ EntryRow(v)' = EntryRow(v)
  BY <1>5 DEF TitlesInv, ShelfTyped, EntryRow
<1>7. OnShelf' = OnShelf \cup {u}
  <2>1. \A v \in Titled : shelf'[v] # <<>> <=> v = u \/ shelf[v] # <<>>
    BY <1>6, OneIsSome
  <2>2. QED
    BY <2>1 DEF OnShelf
<1>8. ShelfTyped'
  <2>1. \A v \in Titled : shelf'[v] = <<>> \/ (shelf'[v] = <<EntryRow(v)'>> /\ EntryRow(v)' \in EntryType')
    BY <1>4, <1>6 DEF TitlesInv, ShelfTyped, EntryType, TitleType
  <2>2. shelf' = [v \in Titled |-> shelf'[v]]
    BY <1>5 DEF TitlesInv, ShelfTyped
  <2>3. QED
    BY <1>2, <1>7, <2>1, <2>2 DEF TitlesInv, ShelfTyped
<1>9. RowidsAreOfOne'
  <2>1. \A v \in OnShelf : v # u /\ v \in Titled /\ EntryRow(v)' = EntryRow(v) /\ EntryRow(v).id \in Nat /\ EntryRow(v).id <= n
    BY <1>2, <1>6 DEF TitlesInv, RowidsAreOfOne, OnShelf, ShelfTyped, EntryType, n
  <2>2. \A v, w \in OnShelf' : EntryRow(v)'.id = EntryRow(w)'.id => v = w
    BY <1>3, <1>4, <1>6, <1>7, <2>1 DEF TitlesInv, RowidsAreOfOne
  <2>3. \A v \in OnShelf' : EntryRow(v)'.id <= Cardinality(shelvedEver')
    BY <1>2, <1>3, <1>4, <1>6, <1>7, <2>1
  <2>4. QED
    BY <2>2, <2>3 DEF RowidsAreOfOne
<1>10. \A v \in OnShelf : v # u /\ v \in Titled /\ EntryRow(v)' = EntryRow(v)
  BY <1>2, <1>6 DEF OnShelf
<1>11. ScanIsOfTheShelf' /\ AsksTyped'
  BY <1>7, <1>10 DEF TitlesInv, ScanIsOfTheShelf, AsksTyped, AskType, EntryType, TitleType, Shelve
<1>12. AsksReadTheirOwn'
  BY <1>2, <1>7, <1>10 DEF TitlesInv, AsksReadTheirOwn, Shelve
<1>13. WantsAreOfReaders'
  BY <1>2 DEF TitlesInv, WantsAreOfReaders, Shelve
<1>14. NamesStand'
  <2>1. wanted'[u] = <<"unset", "reader">> /\ wanted' = wanted
    BY <1>2 DEF TitlesInv, WantsAreOfReaders, Shelve
  <2>2. QED
    BY <1>7, <1>10, <2>1 DEF TitlesInv, NamesStand
<1>15. TitlesAreOfTheirEntry'
  BY <1>4, <1>6, <1>7, <1>10 DEF TitlesInv, TitlesAreOfTheirEntry
<1>16. QED
  BY <1>8, <1>9, <1>11, <1>12, <1>13, <1>14, <1>15 DEF TitlesInv

LEMMA UnshelveKeeps == ASSUME TitlesInv, NEW u \in Titled, Unshelve(u) PROVE TitlesInv'
<1>1. shelf' = [shelf EXCEPT ![u] = <<>>] /\ scan.rows = {} /\ UNCHANGED <<shelvedEver, scan, ask, restarts, wanted, litter>>
  BY DEF Unshelve, TitlesInv, ScanIsOfTheShelf, Serving
<1>2. shelf'[u] = <<>> /\ \A v \in Titled : v # u => shelf'[v] = shelf[v] /\ EntryRow(v)' = EntryRow(v)
  BY <1>1 DEF TitlesInv, ShelfTyped, EntryRow
<1>3. OnShelf' = OnShelf \ {u} /\ \A v \in OnShelf' : v \in OnShelf /\ EntryRow(v)' = EntryRow(v)
  BY <1>2 DEF OnShelf
<1>4. ShelfTyped'
  <2>1. shelf' = [v \in Titled |-> shelf'[v]]
    BY <1>1 DEF TitlesInv, ShelfTyped
  <2>2. \A v \in Titled : shelf'[v] = <<>> \/ (shelf'[v] = <<EntryRow(v)'>> /\ EntryRow(v)' \in EntryType')
    BY <1>2 DEF TitlesInv, ShelfTyped, EntryType, TitleType
  <2>3. QED
    BY <1>1, <1>3, <2>1, <2>2 DEF TitlesInv, ShelfTyped
<1>5. RowidsAreOfOne'
  BY <1>1, <1>3 DEF TitlesInv, RowidsAreOfOne
<1>6. ScanIsOfTheShelf' /\ AsksTyped'
  BY <1>1 DEF TitlesInv, ScanIsOfTheShelf, AsksTyped, AskType
<1>7. AsksReadTheirOwn'
  BY <1>1, <1>3 DEF TitlesInv, AsksReadTheirOwn
<1>8. WantsAreOfReaders' /\ NamesStand'
  BY <1>1, <1>3 DEF TitlesInv, WantsAreOfReaders, NamesStand
<1>9. TitlesAreOfTheirEntry'
  BY <1>3 DEF TitlesInv, TitlesAreOfTheirEntry
<1>10. QED
  BY <1>4, <1>5, <1>6, <1>7, <1>8, <1>9 DEF TitlesInv

LEMMA NameEntryKeeps == ASSUME TitlesInv, NEW u \in Titled, NameEntry(u) PROVE TitlesInv'
<1>1. PICK words \in Readers(u) : shelf' = Retitle(u, words) /\ wanted' = [wanted EXCEPT ![u] = words]
  BY DEF NameEntry
<1>2. u \in OnShelf /\ shelf[u] = <<EntryRow(u)>> /\ EntryRow(u) \in EntryType
      /\ UNCHANGED <<shelvedEver, scan, ask, restarts, litter>>
  BY DEF NameEntry, TitlesInv, ShelfTyped, OnShelf
<1>3. words \in TitleType /\ words[1] \notin {"article", "made"}
  BY <1>2 DEF Readers, TitleType, EntryType
<1>4. Retitles({u}, words)
  <2>1. [shelf[u] EXCEPT ![1].title = words] = <<[EntryRow(u) EXCEPT !.title = words]>>
    BY <1>2
  <2>2. shelf' = [v \in Titled |-> IF v \in {u} THEN <<[EntryRow(v) EXCEPT !.title = words]>> ELSE shelf[v]]
    BY <1>1, <2>1 DEF Retitle, TitlesInv, ShelfTyped
  <2>3. QED
    BY <1>2, <1>3, <2>2 DEF Retitles
<1>5. /\ wanted' = [v \in Titled |-> wanted'[v]] /\ wanted'[u] = words
      /\ \A v \in Titled \ {u} : wanted'[v] = wanted[v]
  BY <1>1 DEF TitlesInv, WantsAreOfReaders
<1>6. scan' = [at |-> scan'.at, rows |-> scan'.rows] /\ scan'.at = scan.at /\ scan'.rows \subseteq scan.rows
  BY <1>2 DEF TitlesInv, ScanIsOfTheShelf
<1>7. QED
  BY <1>2, <1>3, <1>4, <1>5, <1>6, RetitledKeeps

LEMMA RewriteTitleKeeps == ASSUME TitlesInv, NEW row \in scan.rows, RewriteTitle(row) PROVE TitlesInv'
<1> DEFINE words == <<"article", row.tweet>>
           U == StillLegacy(row)
<1>1. row \in EntryType /\ \E u \in OnShelf : EntryRow(u).id = row.id /\ EntryRow(u).tweet = row.tweet
  BY DEF TitlesInv, ScanIsOfTheShelf
<1>2. words \in TitleType /\ words[1] = "article" /\ words[2] = row.tweet
  BY <1>1 DEF TitleType, EntryType
<1>3. \A u \in U : u \in OnShelf /\ EntryRow(u).tweet = row.tweet /\ EntryRow(u).title = <<"legacy", row.tweet>>
  BY <1>1 DEF StillLegacy, TitlesInv, RowidsAreOfOne
<1>4. Retitles(U, words)
  BY <1>2, <1>3 DEF Retitles, RewriteTitle
<1>5. wanted' = [v \in Titled |-> wanted'[v]] /\ wanted' = wanted
  BY DEF TitlesInv, WantsAreOfReaders, RewriteTitle
<1>6. \A u \in U : wanted[u][1] \in {"unset", "legacy"}
  BY <1>3 DEF TitlesInv, NamesStand
<1>7. scan' = [at |-> scan'.at, rows |-> scan'.rows] /\ scan'.at = scan.at /\ scan'.rows \subseteq scan.rows
  <2>1. scan = [at |-> scan.at, rows |-> scan.rows]
    BY DEF TitlesInv, ScanIsOfTheShelf
  <2>2. scan' = [at |-> scan.at, rows |-> scan.rows \ {row}]
    BY <2>1 DEF RewriteTitle
  <2>3. QED
    BY <2>2
<1> HIDE DEF words, U
<1>8. QED
  BY <1>2, <1>3, <1>4, <1>5, <1>6, <1>7, RetitledKeeps DEF RewriteTitle

LEMMA SaveTitleKeeps == ASSUME TitlesInv, NEW r \in Asker, SaveTitle(r) PROVE TitlesInv'
<1> DEFINE words == <<"made", ask[r].of>>
           U == RowOfUid(r)
<1>1. U \subseteq OnShelf /\ (\A u \in U : u = ask[r].uid /\ u = ask[r].of) /\ (U # {} => ask[r].of \in Titled)
  BY DEF RowOfUid, SaveTitle, Asking, TitlesInv, AsksReadTheirOwn, OnShelf
<1>2. U = {u \in Titled : u = ask[r].uid /\ u \in OnShelf}
  BY DEF RowOfUid, OnShelf
<1>3. words \in TitleType /\ words[1] = "made" /\ words[2] = ask[r].of
  BY DEF TitleType, TitlesInv, AsksTyped, AskType
<1>4. Retitles(U, words)
  BY <1>1, <1>3 DEF Retitles, SaveTitle
<1>5. /\ wanted' = [v \in Titled |-> wanted'[v]]
      /\ \A v \in Titled \ U : wanted'[v] = wanted[v]
      /\ \A v \in U : wanted'[v] = words
  BY <1>1, <1>2 DEF SaveTitle, OnShelf
<1>6. scan' = [at |-> scan'.at, rows |-> scan'.rows] /\ scan'.at = scan.at /\ scan'.rows \subseteq scan.rows
  BY DEF TitlesInv, ScanIsOfTheShelf, SaveTitle
<1>7. ask' = [ask EXCEPT ![r] = NotAsking] /\ UNCHANGED <<litter, restarts>>
  BY DEF SaveTitle
<1> HIDE DEF words, U
<1>8. QED
  BY <1>1, <1>3, <1>4, <1>5, <1>6, <1>7, RetitledKeeps, ZenonT(40)

(* A step of the rewrite that writes no title, or a restart.                 *)
LEMMA ScanKeeps ==
  ASSUME TitlesInv, UNCHANGED <<shelf, shelvedEver, wanted>>,
         scan' = [at |-> scan'.at, rows |-> scan'.rows], scan'.at # "rewrite" => scan'.rows = {},
         scan'.rows \subseteq scan.rows \cup {EntryRow(u) : u \in OnShelf},
         \/ UNCHANGED <<ask, litter, restarts>>
         \/ ask' = [r \in Asker |-> NotAsking] /\ litter' \subseteq Asker /\ restarts' = restarts + 1
  PROVE  TitlesInv'
<1>1. OnShelf' = OnShelf /\ \A u : EntryRow(u)' = EntryRow(u)
  BY DEF OnShelf, EntryRow
<1>2. NotAsking \in AskType /\ NotAsking.at = "idle"
  BY DEF NotAsking, AskType
<1>3. AsksTyped'
  BY <1>2 DEF TitlesInv, AsksTyped, AskType
<1>4. AsksReadTheirOwn'
  BY <1>1, <1>2 DEF TitlesInv, AsksReadTheirOwn
<1>5. ScanIsOfTheShelf'
  <2>1. \A u \in OnShelf : EntryRow(u) \in EntryType
    BY DEF TitlesInv, ShelfTyped, OnShelf
  <2>2. QED
    BY <1>1, <2>1 DEF TitlesInv, ScanIsOfTheShelf, EntryType, TitleType
<1>6. QED
  BY <1>1, <1>3, <1>4, <1>5
     DEF TitlesInv, ShelfTyped, RowidsAreOfOne, WantsAreOfReaders, NamesStand, TitlesAreOfTheirEntry, EntryType, TitleType

LEMMA ScanningKeeps ==
  ASSUME TitlesInv, ListBareLinks \/ StartServing \/ RestartTitles \/ \E row \in scan.rows : SkipTitle(row)
  PROVE  TitlesInv'
<1>1. scan = [at |-> scan.at, rows |-> scan.rows] /\ restarts \in Nat /\ UNCHANGED <<shelf, shelvedEver, wanted>>
  BY DEF TitlesInv, ScanIsOfTheShelf, AsksTyped, ListBareLinks, StartServing, RestartTitles, SkipTitle
<1>2. CASE ListBareLinks
  <2>1. scan'.at = "rewrite" /\ scan'.rows \subseteq {EntryRow(u) : u \in OnShelf} /\ scan' = [at |-> scan'.at, rows |-> scan'.rows]
    BY <1>2 DEF ListBareLinks
  <2>2. QED
    BY <1>1, <1>2, <2>1, ScanKeeps DEF ListBareLinks
<1>3. CASE StartServing
  <2>1. scan' = [at |-> "serving", rows |-> {}]
    BY <1>1, <1>3 DEF StartServing
  <2>2. scan'.rows = {} /\ scan' = [at |-> scan'.at, rows |-> scan'.rows]
    BY <2>1
  <2>3. QED
    BY <1>1, <1>3, <2>2, ScanKeeps DEF StartServing
<1>4. CASE RestartTitles
  <2>1. scan'.rows = {} /\ scan' = [at |-> scan'.at, rows |-> scan'.rows]
    BY <1>4 DEF RestartTitles, NotScanning
  <2>2. litter' \subseteq Asker
    BY <1>4 DEF RestartTitles, TitlesInv, AsksTyped
  <2>3. QED
    BY <1>1, <1>4, <2>1, <2>2, ScanKeeps DEF RestartTitles
<1>5. ASSUME NEW row \in scan.rows, SkipTitle(row) PROVE TitlesInv'
  <2>1. scan' = [at |-> "rewrite", rows |-> scan.rows \ {row}]
    BY <1>1, <1>5 DEF SkipTitle
  <2>2. scan'.rows \subseteq scan.rows /\ scan'.at = "rewrite" /\ scan' = [at |-> scan'.at, rows |-> scan'.rows]
    BY <2>1
  <2>3. QED
    BY <1>1, <1>5, <2>2, ScanKeeps DEF SkipTitle
<1>6. QED
  BY <1>2, <1>3, <1>4, <1>5

LEMMA AskStepKeeps ==
  ASSUME TitlesInv, NEW r \in Asker,
         LookUpThread(r) \/ ReadThread(r) \/ PrimaryAnswers(r) \/ PrimaryFails(r) \/ FallbackAnswers(r) \/ FallbackFails(r)
         \/ RefuseReply(r)
  PROVE  TitlesInv'
<1>0. /\ ask[r] \in AskType /\ NotAsking \in AskType /\ NotAsking.at = "idle"
      /\ UNCHANGED <<shelf, shelvedEver, scan, restarts, wanted, litter>>
  BY DEF NotAsking, AskType, TitlesInv, AsksTyped, AskIs, LookUpThread, ReadThread, PrimaryAnswers, PrimaryFails,
         FallbackAnswers, FallbackFails, RefuseReply
<1>1. ASSUME ask' = [ask EXCEPT ![r] = NotAsking] PROVE TitlesInv'
  BY <1>0, <1>1, AskingKeeps
<1>2. CASE LookUpThread(r)
  <2>1. PICK u \in OnShelf : ask' = [ask EXCEPT ![r] = [ask[r] EXCEPT !.at = "read", !.uid = u, !.id = EntryRow(u).id]]
    BY <1>2 DEF LookUpThread, AskIs
  <2> DEFINE a == [ask[r] EXCEPT !.at = "read", !.uid = u, !.id = EntryRow(u).id]
  <2>2. u \in Titled /\ u \in shelvedEver /\ EntryRow(u).id \in Nat
    BY DEF TitlesInv, ShelfTyped, OnShelf, EntryType
  <2>3. a \in AskType /\ a.at = "read" /\ a.uid = u /\ a.id = EntryRow(u).id
    BY <1>0, <2>2 DEF AskType
  <2>4. ask' = [ask EXCEPT ![r] = a]
    BY <2>1
  <2> HIDE DEF a
  <2>5. QED
    BY <1>0, <2>2, <2>3, <2>4, AskingKeeps
<1>3. CASE ReadThread(r)
  <2> DEFINE found == {u \in OnShelf : EntryRow(u).id = ask[r].id}
             one == CHOOSE u \in found : TRUE
             a == [ask[r] EXCEPT !.at = "primary", !.of = one]
  <2>1. CASE found = {}
    BY <1>1, <1>3, <2>1 DEF ReadThread, AskIs
  <2>2. CASE found # {}
    <3>1. one \in found /\ ask' = [ask EXCEPT ![r] = a]
      BY <1>3, <2>2 DEF ReadThread, AskIs
    <3>2. ask[r].uid \in OnShelf => found = {ask[r].uid}
      BY <1>3 DEF ReadThread, Asking, TitlesInv, AsksReadTheirOwn, RowidsAreOfOne
    <3> HIDE DEF one
    <3>3. one \in Titled
      BY <3>1 DEF OnShelf
    <3>4. a \in AskType /\ a.at = "primary" /\ a.of = one /\ a.uid = ask[r].uid
      BY <1>0, <3>3 DEF AskType
    <3>5. ask[r].uid \in shelvedEver
      BY <1>3 DEF ReadThread, Asking, TitlesInv, AsksReadTheirOwn
    <3> HIDE DEF a
    <3>6. a.uid \in OnShelf => a.of = a.uid
      BY <3>1, <3>2, <3>4
    <3>7. QED
      BY <1>0, <3>1, <3>4, <3>5, <3>6, AskingKeeps
  <2>3. QED
    BY <2>1, <2>2
<1>4. ASSUME ask[r].at \in {"primary", "fallback"}, NEW state \in {"fallback", "save"},
             NEW said \in {"none", "primary", "fallback", "output"},
             ask' = [ask EXCEPT ![r] = [ask[r] EXCEPT !.at = state, !.answer = said, !.file = "none"]]
      PROVE  TitlesInv'
  <2> DEFINE a == [ask[r] EXCEPT !.at = state, !.answer = said, !.file = "none"]
  <2>1. a \in AskType /\ a.at = state /\ a.of = ask[r].of /\ a.uid = ask[r].uid
    BY <1>0, <1>4 DEF AskType
  <2>2. ask[r].uid \in shelvedEver /\ (ask[r].uid \in OnShelf => ask[r].of = ask[r].uid)
    BY <1>4 DEF TitlesInv, AsksReadTheirOwn
  <2>3. ask' = [ask EXCEPT ![r] = a]
    BY <1>4
  <2> HIDE DEF a
  <2>4. QED
    BY <1>0, <2>1, <2>2, <2>3, AskingKeeps
<1>5. CASE PrimaryAnswers(r)
  BY <1>4, <1>5 DEF PrimaryAnswers, AskIs, Asking
<1>6. CASE PrimaryFails(r)
  <2>1. ask' = [ask EXCEPT ![r] = [ask[r] EXCEPT !.at = "fallback", !.file = "none"]] /\ ask[r].at = "primary"
    BY <1>6 DEF PrimaryFails, AskIs, CleanedFile, Asking
  <2>2. [ask[r] EXCEPT !.at = "fallback", !.file = "none"] = [ask[r] EXCEPT !.at = "fallback", !.answer = ask[r].answer, !.file = "none"]
    BY <1>0 DEF AskType
  <2>3. ask[r].answer \in {"none", "primary", "fallback", "output"}
    BY <1>0 DEF AskType
  <2>4. QED
    BY <1>4, <2>1, <2>2, <2>3
<1>7. CASE FallbackAnswers(r)
  <2>1. PICK wrote \in Outcomes :
          ask' = [ask EXCEPT ![r] = [ask[r] EXCEPT !.at = "save", !.file = "none",
                      !.answer = IF FileOf(r, wrote, "fallback") \in {"none", "blank"} THEN "output" ELSE FileOf(r, wrote, "fallback")]]
    BY <1>7 DEF FallbackAnswers, AskIs
  <2> DEFINE said == IF FileOf(r, wrote, "fallback") \in {"none", "blank"} THEN "output" ELSE FileOf(r, wrote, "fallback")
  <2>2. said \in {"none", "primary", "fallback", "output"}
    BY <1>0 DEF FileOf, AskType
  <2>3. ask' = [ask EXCEPT ![r] = [ask[r] EXCEPT !.at = "save", !.file = "none", !.answer = said]] /\ ask[r].at = "fallback"
    BY <1>7, <2>1 DEF FallbackAnswers, Asking
  <2> HIDE DEF said
  <2>4. [ask[r] EXCEPT !.at = "save", !.file = "none", !.answer = said]
          = [ask[r] EXCEPT !.at = "save", !.answer = said, !.file = "none"]
    BY <1>0 DEF AskType
  <2>5. QED
    BY <1>4, <2>2, <2>3, <2>4
<1>8. QED
  BY <1>1, <1>2, <1>3, <1>5, <1>6, <1>7 DEF FallbackFails, RefuseReply, AskIs

LEMMA TitlesStay == TitlesInv /\ [TitlesNext]_titleVars => TitlesInv'
<1> SUFFICES ASSUME TitlesInv, [TitlesNext]_titleVars PROVE TitlesInv'
  OBVIOUS
<1>1. CASE UNCHANGED titleVars
  <2>1. UNCHANGED <<shelf, shelvedEver, wanted, scan, ask, litter, restarts>>
    BY <1>1 DEF titleVars
  <2>2. scan' = [at |-> scan'.at, rows |-> scan'.rows] /\ (scan'.at # "rewrite" => scan'.rows = {})
    BY <2>1 DEF TitlesInv, ScanIsOfTheShelf
  <2>3. QED
    BY <2>1, <2>2, ScanKeeps
<1>2. QED
  BY <1>1, ShelveKeeps, UnshelveKeeps, NameEntryKeeps, ScanningKeeps, RewriteTitleKeeps, AskStepKeeps, SaveTitleKeeps
     DEF TitlesNext

LEMMA TitlesInvariant == TitlesInit /\ [][TitlesNext]_titleVars => []TitlesInv
  BY TitlesStart, TitlesStay, PTL

LEMMA TitlesPromise == TitlesInv => TitlesStand /\ TitlesTypeOK
<1> SUFFICES ASSUME TitlesInv PROVE TitlesStand /\ TitlesTypeOK
  OBVIOUS
<1>1. AnswersAreOfTheirAttempt
  BY DEF TitlesInv, AsksTyped, AskType, AnswersAreOfTheirAttempt
<1>2. TitlesTypeOK
  <2>1. Cardinality(shelvedEver) \in Nat /\ Cardinality(Titled) \in Nat /\ Cardinality(shelvedEver) <= Cardinality(Titled)
    BY TitlesAssumption, FS_Subset, FS_CardinalityType DEF TitlesInv, ShelfTyped
  <2>2. \A u \in OnShelf : EntryRow(u).tweet \in Tweet \cup {NotTweet} /\ EntryRow(u).id \in 1..Cardinality(Titled)
    BY <2>1 DEF TitlesInv, ShelfTyped, OnShelf, EntryType, RowidsAreOfOne
  <2>3. QED
    BY <2>2 DEF TitlesInv, ShelfTyped, AsksTyped, AskType, TitlesTypeOK
<1>3. QED
  BY <1>1, <1>2 DEF TitlesInv, TitlesStand
----------------------------------------------------------------------------
(* Gate.  A token a request came with is never made again once it is gone,   *)
(* so that the guard's refusal stands when the extractor looks; a changed    *)
(* password leaves behind only sessions its own call is about to end; and    *)
(* the times the limit remembers are the last ones let in.                   *)

OneOf(S) == {<<x>> : x \in S}
CallType ==
    [at : {"idle", "guard", "extract", "handle", "open", "change", "others"}, op : Safe \cup Unsafe, cookie : 0..MaxSession,
     token : {<<>>} \cup OneOf(ApiToken), on : {<<>>} \cup OneOf(Person), typed : 0..MaxPassword,
     me : {<<>>} \cup OneOf(Person), by : {"none", "cookie", "read", "full"}, lapsed : BOOLEAN]

(* What holds of a request on its way.                                       *)
CallSound(q) ==
    /\ q \in CallType
    /\ q.at # "idle" => q.on # <<>>
    /\ q.at = "handle" /\ q.op \notin {"login", "logout"} => q.me # <<>>
    /\ q.at \in {"change", "others"} => q.me # <<>>
    /\ q.at \in {"guard", "extract"} => q.by = "none"
    /\ q.by = "read" => q.op \in Safe \/ q.lapsed
    /\ q.token # <<>> => q.token[1] \in issued
    /\ q.at = "extract" => \/ q.op \in Safe \/ q.lapsed \/ q.token = <<>>
                           \/ q.token[1].scope # "read" \/ q.token[1] \notin apiTokens
CallsAreSound == call = [c \in GateCall |-> call[c]] /\ \A c \in GateCall : CallSound(call[c])

(* An address: what it is remembered by, when it was let in, and when it was *)
(* told to come back.                                                        *)
InOrder(times) == \A i, j \in 1..Len(times) : i <= j => times[i] <= times[j]
TimesFit(kept, let, told) ==
    kept \in Seq(0..clock) /\ let \in Seq(0..clock) /\ told \in Nat /\ InOrder(let) /\ Len(kept) <= MaxAttempts
LastAreKept(kept, let) ==
    LET forgotten == Len(let) - Len(kept)
    IN  /\ forgotten >= 0
        /\ \A i \in 1..Len(kept) : kept[i] = let[forgotten + i]
        /\ \A i \in 1..forgotten : ~InWindow(let[i])
AreSpaced(let) == \A i, j \in 1..Len(let) : j = i + MaxAttempts => let[j] - let[i] >= 2 * LoginWindow
PromiseHolds(kept, told) ==
    told # 0 /\ clock <= told =>
        /\ kept # <<>>
        /\ \/ told - kept[1] \in {2 * LoginWindow, 2 * LoginWindow + 1}
           \/ kept[Len(kept)] + 1 >= told
AddressFits(kept, let, told) ==
    TimesFit(kept, let, told) /\ LastAreKept(kept, let) /\ AreSpaced(let) /\ PromiseHolds(kept, told)

LimitInv ==
    /\ clock \in 0..MaxClock
    /\ attempts = [a \in Address |-> attempts[a]] /\ letIn = [a \in Address |-> letIn[a]]
    /\ promised = [a \in Address |-> promised[a]]
    /\ \A a \in Address : AddressFits(attempts[a], letIn[a], promised[a])
SecretsInv == GateTypeOK /\ CallsAreSound /\ OldPasswordsOpenNothing
GateInv == SecretsInv /\ LimitInv

LEMMA GateNumbers ==
  /\ MaxSession \in Nat \ {0} /\ MaxPassword \in Nat /\ MaxGateCalls \in Nat /\ MaxClock \in Nat
  /\ MaxAttempts \in Nat \ {0} /\ LoginWindow \in Nat \ {0}
  BY GateAssumption

LEMMA IdleIsSound == CallSound(Idle) /\ Idle.at = "idle"
<1>1. Idle \in CallType /\ Idle.at = "idle" /\ Idle.by = "none" /\ Idle.token = <<>>
  BY GateNumbers DEF Idle, CallType, Safe, Unsafe
<1>2. QED
  BY <1>1 DEF CallSound

LEMMA OneIs == \A S : \A x \in OneOf(S) : x = <<x[1]>> /\ x[1] \in S /\ x # <<>>
  BY DEF OneOf

LEMMA SecretsStart == GateInit => SecretsInv
<1> SUFFICES ASSUME GateInit PROVE SecretsInv
  OBVIOUS
<1>1. GateTypeOK
  BY GateNumbers DEF GateInit, GateTypeOK, Session, ApiToken
<1>2. CallsAreSound
  BY IdleIsSound DEF GateInit, CallsAreSound
<1>3. OldPasswordsOpenNothing
  BY DEF GateInit, OldPasswordsOpenNothing
<1>4. QED
  BY <1>1, <1>2, <1>3 DEF SecretsInv

(* A request goes on, no token that is known is made, and every call that is *)
(* about to end sessions is still there.                                     *)
LEMMA CallsGoOn ==
  ASSUME SecretsInv, NEW c \in GateCall, NEW a, call' = [call EXCEPT ![c] = a], CallSound(a)',
         issued \subseteq issued', apiTokens' \cap issued \subseteq apiTokens
  PROVE  /\ CallsAreSound'
         /\ \A d \in GateCall : d # c => call'[d] = call[d]
         /\ call'[c] = a
<1>1. call' = [d \in GateCall |-> call'[d]] /\ call'[c] = a /\ \A d \in GateCall : d # c => call'[d] = call[d]
  BY DEF SecretsInv, CallsAreSound
<1>2. ASSUME NEW d \in GateCall, d # c PROVE CallSound(call[d])'
  <2>1. CallSound(call[d]) /\ call'[d] = call[d]
    BY <1>1, <1>2 DEF SecretsInv, CallsAreSound
  <2>2. call[d].token # <<>> => call[d].token[1] \in issued
    BY <2>1 DEF CallSound
  <2>3. call[d].token # <<>> /\ call[d].token[1] \notin apiTokens => call[d].token[1] \notin apiTokens'
    BY <2>2
  <2>4. CallType' = CallType
    BY DEF CallType
  <2>5. QED
    BY <2>1, <2>2, <2>3, <2>4 DEF CallSound
<1>3. QED
  BY <1>1, <1>2 DEF CallsAreSound

(* A step of the request that touches no credential.                         *)
LEMMA SecretsRest ==
  ASSUME SecretsInv, NEW c \in GateCall, NEW a, call' = [call EXCEPT ![c] = a], CallSound(a), call[c].at # "others",
         UNCHANGED secretVars, clock' = clock, calls' \in 0..MaxGateCalls
  PROVE  SecretsInv'
<1>1. CallSound(a)'
  BY DEF CallSound, secretVars, CallType
<1>2. CallsAreSound' /\ \A d \in GateCall : d # c => call'[d] = call[d]
  BY <1>1, CallsGoOn DEF secretVars
<1>3. OldPasswordsOpenNothing'
  <2> SUFFICES ASSUME NEW s \in opened
               PROVE  \/ s.pw = password[s.of] \/ s.id \in excused
                      \/ \E d \in GateCall : call'[d].at = "others" /\ call'[d].me = <<s.of>>
    BY DEF OldPasswordsOpenNothing, secretVars
  <2>1. CASE \E d \in GateCall : call[d].at = "others" /\ call[d].me = <<s.of>>
    BY <1>2, <2>1
  <2>2. QED
    BY <2>1 DEF SecretsInv, OldPasswordsOpenNothing
<1>4. GateTypeOK'
  BY DEF SecretsInv, GateTypeOK, secretVars
<1>5. QED
  BY <1>2, <1>3, <1>4 DEF SecretsInv

(* A step that changes credentials: it is enough that every session that is  *)
(* left is excused by what excused it before, or by this step.               *)
LEMMA SecretsChange ==
  ASSUME SecretsInv, NEW c \in GateCall, NEW a, call' = [call EXCEPT ![c] = a], CallSound(a)',
         GateTypeOK', issued \subseteq issued', apiTokens' \cap issued \subseteq apiTokens, excused \subseteq excused',
         \A s \in opened' : \/ s.pw = password'[s.of] \/ s.id \in excused'
                            \/ a.at = "others" /\ a.me = <<s.of>>
                            \/ /\ s \in opened /\ password'[s.of] = password[s.of]
                               /\ call[c].at # "others" \/ call[c].me # <<s.of>>
  PROVE  SecretsInv'
<1>1. CallsAreSound' /\ call'[c] = a /\ \A d \in GateCall : d # c => call'[d] = call[d]
  BY CallsGoOn
<1>2. OldPasswordsOpenNothing'
  <2> SUFFICES ASSUME NEW s \in opened'
               PROVE  \/ s.pw = password'[s.of] \/ s.id \in excused'
                      \/ \E d \in GateCall : call'[d].at = "others" /\ call'[d].me = <<s.of>>
    BY DEF OldPasswordsOpenNothing
  <2>1. CASE a.at = "others" /\ a.me = <<s.of>>
    BY <1>1, <2>1
  <2>2. CASE s \in opened /\ password'[s.of] = password[s.of] /\ (call[c].at # "others" \/ call[c].me # <<s.of>>)
    <3>1. \/ s.pw = password[s.of] \/ s.id \in excused
          \/ \E d \in GateCall : call[d].at = "others" /\ call[d].me = <<s.of>>
      BY <2>2 DEF SecretsInv, OldPasswordsOpenNothing
    <3>2. CASE \E d \in GateCall : call[d].at = "others" /\ call[d].me = <<s.of>>
      BY <1>1, <2>2, <3>2
    <3>3. QED
      BY <2>2, <3>1, <3>2
  <2>3. QED
    BY <2>1, <2>2
<1>3. QED
  BY <1>1, <1>2 DEF SecretsInv

LEMMA CallTyped ==
  ASSUME SecretsInv, NEW c \in GateCall
  PROVE  /\ CallSound(call[c]) /\ call[c] \in CallType
         /\ call[c].me # <<>> => call[c].me = <<call[c].me[1]>> /\ call[c].me[1] \in Person
         /\ call[c].on # <<>> => call[c].on = <<call[c].on[1]>> /\ call[c].on[1] \in Person
         /\ call[c].token # <<>> => call[c].token[1] \in ApiToken
         /\ call[c].typed \in 0..MaxPassword /\ call[c].cookie \in 0..MaxSession
<1>1. CallSound(call[c]) /\ call[c] \in CallType
  BY DEF SecretsInv, CallsAreSound, CallSound
<1>2. /\ call[c].me \in {<<>>} \cup OneOf(Person) /\ call[c].on \in {<<>>} \cup OneOf(Person)
      /\ call[c].token \in {<<>>} \cup OneOf(ApiToken) /\ call[c].typed \in 0..MaxPassword /\ call[c].cookie \in 0..MaxSession
  BY <1>1 DEF CallType
<1>3. QED
  BY <1>1, <1>2, OneIs

(* A request is answered, and nothing changed.                               *)
LEMMA AnswersKeep ==
  ASSUME SecretsInv, NEW c \in GateCall, Returns(c), call[c].at # "others", UNCHANGED <<secretVars, calls, limitVars>>
  PROVE  SecretsInv'
<1>1. calls' \in 0..MaxGateCalls /\ clock' = clock
  BY DEF SecretsInv, GateTypeOK, limitVars
<1>2. QED
  BY <1>1, IdleIsSound, SecretsRest DEF Returns

(* A request goes on to another step of its handler.                         *)
LEMMA MovesKeep ==
  ASSUME SecretsInv, NEW c \in GateCall, NEW to \in {"handle", "open", "change"}, Moves(c, to),
         call[c].at \notin {"idle", "others"},
         to = "handle" => call[c].op \in {"login", "logout"}, to = "change" => call[c].me # <<>>,
         UNCHANGED <<secretVars, calls, limitVars>>
  PROVE  SecretsInv'
<1> DEFINE a == [call[c] EXCEPT !.at = to]
<1>1. CallSound(call[c]) /\ call[c] \in CallType
  BY CallTyped
<1>2. a \in CallType /\ a.at = to /\ a.op = call[c].op /\ a.on = call[c].on /\ a.me = call[c].me /\ a.by = call[c].by
      /\ a.lapsed = call[c].lapsed /\ a.token = call[c].token
  BY <1>1 DEF CallType
<1>3. call' = [call EXCEPT ![c] = a]
  BY DEF Moves
<1> HIDE DEF a
<1>4. CallSound(a)
  BY <1>1, <1>2 DEF CallSound
<1>5. calls' \in 0..MaxGateCalls /\ clock' = clock
  BY DEF SecretsInv, GateTypeOK, limitVars
<1>6. QED
  BY <1>3, <1>4, <1>5, SecretsRest

LEMMA ArriveKeeps == ASSUME SecretsInv, NEW c \in GateCall, Arrive(c) PROVE SecretsInv'
<1>0. \E op \in Safe \cup Unsafe, cookie \in 0..given, p \in Person, typed \in 0..passwords :
      \E token \in {<<>>} \cup {<<t>> : t \in apiTokens} :
           /\ op = "logout" => cookie # 0
           /\ op \in {"login", "logout"} => token = <<>>
           /\ typed # 0 => op \in {"login", "password"}
           /\ p \notin Managers => op \in TakesTarget
           /\ call' = [call EXCEPT ![c] = [Idle EXCEPT !.at = "guard", !.op = op, !.cookie = cookie, !.token = token,
                                                       !.on = <<p>>, !.typed = typed]]
  BY Zenon DEF Arrive
<1> DEFINE Came(o, k, p, n, t) == [Idle EXCEPT !.at = "guard", !.op = o, !.cookie = k, !.token = t, !.on = <<p>>, !.typed = n]
<1>b. \E o \in Safe \cup Unsafe, k \in 0..given, p \in Person, n \in 0..passwords :
      \E t \in {<<>>} \cup {<<x>> : x \in apiTokens} : call' = [call EXCEPT ![c] = Came(o, k, p, n, t)]
  BY <1>0
<1> HIDE DEF Came
<1>1. PICK op \in Safe \cup Unsafe, cookie \in 0..given, p \in Person, typed \in 0..passwords,
           token \in {<<>>} \cup {<<t>> : t \in apiTokens} : call' = [call EXCEPT ![c] = Came(op, cookie, p, typed, token)]
  BY <1>b
<1> DEFINE a == [Idle EXCEPT !.at = "guard", !.op = op, !.cookie = cookie, !.token = token, !.on = <<p>>, !.typed = typed]
<1>2. /\ cookie \in 0..MaxSession /\ typed \in 0..MaxPassword /\ token \in {<<>>} \cup OneOf(ApiToken)
      /\ token # <<>> => token[1] \in issued
      /\ <<p>> \in {<<>>} \cup OneOf(Person) /\ <<p>> # <<>>
  BY GateNumbers DEF SecretsInv, GateTypeOK, OneOf
<1>3. a \in CallType /\ a.at = "guard" /\ a.on = <<p>> /\ a.token = token /\ a.by = "none"
  BY <1>2, IdleIsSound DEF Idle, CallType
<1>4. call' = [call EXCEPT ![c] = a]
  BY <1>1 DEF Came
<1> HIDE DEF a
<1>5. CallSound(a)
  BY <1>2, <1>3 DEF CallSound
<1>6. calls' \in 0..MaxGateCalls /\ clock' = clock /\ UNCHANGED secretVars /\ call[c].at # "others"
  BY GateNumbers, SMTT(20) DEF Arrive, SecretsInv, GateTypeOK, limitVars
<1>7. QED
  BY <1>4, <1>5, <1>6, SecretsRest

LEMMA GuardKeeps == ASSUME SecretsInv, NEW c \in GateCall, Guard(c) PROVE SecretsInv'
<1>0. call[c].at = "guard" /\ UNCHANGED <<secretVars, calls, limitVars>>
  BY DEF Guard
<1>1. CASE Returns(c)
  BY <1>0, <1>1, AnswersKeep
<1>2. CASE /\ ~(call[c].op \in Unsafe /\ ~SparedByCookie(c) /\ ValidToken(call[c].token) /\ call[c].token[1].scope = "read")
           /\ call' = [call EXCEPT ![c].at = "extract", ![c].lapsed = ValidCookie(call[c].cookie)]
  <2> DEFINE l == ValidCookie(call[c].cookie)
             a == [call[c] EXCEPT !.at = "extract", !.lapsed = l]
  <2>1. CallSound(call[c]) /\ call[c] \in CallType /\ l \in BOOLEAN
    BY CallTyped DEF ValidCookie
  <2>2. call' = [call EXCEPT ![c] = a]
    BY <1>2 DEF SecretsInv, CallsAreSound
  <2>3. call[c].op \in Safe \/ l \/ call[c].token = <<>> \/ call[c].token[1].scope # "read" \/ call[c].token[1] \notin apiTokens
    BY <1>2, <2>1 DEF SparedByCookie, ValidToken, CallType
  <2> HIDE DEF l
  <2>4. a \in CallType /\ a.at = "extract" /\ a.op = call[c].op /\ a.on = call[c].on /\ a.by = call[c].by
        /\ a.lapsed = l /\ a.token = call[c].token
    BY <2>1 DEF CallType
  <2> HIDE DEF a
  <2>a. call[c].by = "none"
    BY <1>0, <2>1 DEF CallSound
  <2>5. CallSound(a)
    BY <1>0, <2>1, <2>3, <2>4, <2>a DEF CallSound
  <2>6. calls' \in 0..MaxGateCalls /\ clock' = clock
    BY <1>0 DEF SecretsInv, GateTypeOK, limitVars
  <2>7. QED
    BY <1>0, <2>2, <2>5, <2>6, SecretsRest
<1>3. QED
  BY <1>1, <1>2 DEF Guard

LEMMA ExtractKeeps == ASSUME SecretsInv, NEW c \in GateCall, Extract(c) PROVE SecretsInv'
<1>0. /\ call[c].at = "extract" /\ UNCHANGED <<secretVars, calls, limitVars>>
      /\ CallSound(call[c]) /\ call[c] \in CallType /\ call[c].on # <<>>
      /\ calls' \in 0..MaxGateCalls /\ clock' = clock /\ GateTypeOK
  BY CallTyped DEF Extract, CallSound, SecretsInv, GateTypeOK, limitVars
<1>1. CASE call[c].op \in {"login", "logout"} /\ Moves(c, "handle")
  BY <1>0, <1>1, MovesKeep
<1>2. CASE Returns(c)
  BY <1>0, <1>2, AnswersKeep
<1>3. ASSUME NEW p \in Person, NEW how \in {"cookie", "read", "full"}, NEW l \in BOOLEAN,
             how = "read" => call[c].op \in Safe \/ l,
             call' = [call EXCEPT ![c] = [call[c] EXCEPT !.at = "handle", !.me = <<p>>, !.by = how, !.lapsed = l]]
      PROVE  SecretsInv'
  <2> DEFINE a == [call[c] EXCEPT !.at = "handle", !.me = <<p>>, !.by = how, !.lapsed = l]
  <2>1. <<p>> \in OneOf(Person) /\ <<p>> # <<>>
    BY DEF OneOf
  <2>2. a \in CallType /\ a.at = "handle" /\ a.op = call[c].op /\ a.on = call[c].on /\ a.by = how
        /\ a.lapsed = l /\ a.token = call[c].token /\ a.me = <<p>>
    BY <1>0, <2>1 DEF CallType
  <2>3. call' = [call EXCEPT ![c] = a]
    BY <1>3
  <2> HIDE DEF a
  <2>4. CallSound(a)
    BY <1>0, <1>3, <2>1, <2>2 DEF CallSound
  <2>5. QED
    BY <1>0, <2>3, <2>4, SecretsRest
<1>4. CASE /\ ValidCookie(call[c].cookie)
           /\ call' = [call EXCEPT ![c].at = "handle", ![c].me = <<OwnerOf(call[c].cookie)>>, ![c].by = "cookie",
                                   ![c].lapsed = FALSE]
  <2> DEFINE p == OwnerOf(call[c].cookie)
  <2>1. p \in Person
    <3>1. \E s \in opened : s.id = call[c].cookie
      BY <1>4 DEF ValidCookie
    <3>2. (CHOOSE s \in opened : s.id = call[c].cookie) \in opened
      BY <3>1
    <3>3. QED
      BY <1>0, <3>2 DEF OwnerOf, GateTypeOK, Session
  <2>2. call' = [call EXCEPT ![c] = [call[c] EXCEPT !.at = "handle", !.me = <<p>>, !.by = "cookie", !.lapsed = FALSE]]
    BY <1>4 DEF SecretsInv, CallsAreSound
  <2> HIDE DEF p
  <2>3. QED
    BY <1>3, <2>1, <2>2
<1>5. CASE /\ ValidToken(call[c].token)
           /\ call' = [call EXCEPT ![c].at = "handle", ![c].me = <<call[c].token[1].of>>, ![c].by = call[c].token[1].scope]
  <2> DEFINE p == call[c].token[1].of
             how == call[c].token[1].scope
             l == call[c].lapsed
  <2>1. call[c].token # <<>> /\ call[c].token[1] \in apiTokens /\ call[c].token[1] \in ApiToken
    BY <1>0, <1>5 DEF ValidToken, GateTypeOK
  <2>2. p \in Person /\ how \in {"read", "full"} /\ l \in BOOLEAN
    BY <1>0, <2>1 DEF ApiToken, Scope, CallType
  <2>3. how = "read" => call[c].op \in Safe \/ l
    BY <1>0, <2>1 DEF CallSound
  <2>4. call' = [call EXCEPT ![c] = [call[c] EXCEPT !.at = "handle", !.me = <<p>>, !.by = how, !.lapsed = l]]
    <3>1. [call[c] EXCEPT !.at = "handle", !.me = <<p>>, !.by = how, !.lapsed = l]
            = [call[c] EXCEPT !.at = "handle", !.me = <<p>>, !.by = how]
      BY <1>0 DEF CallType
    <3>2. QED
      BY <1>5, <3>1 DEF SecretsInv, CallsAreSound
  <2> HIDE DEF p, how, l
  <2>5. QED
    BY <1>3, <2>2, <2>3, <2>4
<1>6. QED
  BY <1>1, <1>2, <1>4, <1>5 DEF Extract

LEMMA HandledIsSound ==
  ASSUME SecretsInv, NEW c \in GateCall, call[c].at # "idle"
  PROVE  /\ call[c].on = <<call[c].on[1]>> /\ call[c].on[1] \in Person
         /\ call[c].at \in {"change", "others"} \/ (call[c].at = "handle" /\ call[c].op \notin {"login", "logout"})
              => call[c].me # <<>> /\ call[c].me = <<call[c].me[1]>> /\ call[c].me[1] \in Person
  BY CallTyped DEF CallSound

LEMMA VerifyLoginKeeps == ASSUME SecretsInv, NEW c \in GateCall, VerifyLogin(c) PROVE SecretsInv'
  BY MovesKeep, AnswersKeep DEF VerifyLogin, Handling

LEMMA CheckCurrentKeeps == ASSUME SecretsInv, NEW c \in GateCall, CheckCurrent(c) PROVE SecretsInv'
  BY MovesKeep, AnswersKeep, HandledIsSound DEF CheckCurrent, Handling

LEMMA RespondKeeps == ASSUME SecretsInv, NEW c \in GateCall, Respond(c) PROVE SecretsInv'
  BY AnswersKeep DEF Respond

LEMMA OpenSessionKeeps == ASSUME SecretsInv, NEW c \in GateCall, OpenSession(c) PROVE SecretsInv'
<1> DEFINE s == [id |-> given + 1, of |-> call[c].on[1], pw |-> call[c].typed]
<1>1. /\ given \in Nat /\ given' = given + 1 /\ given' \in 1..MaxSession
      /\ opened' = opened \cup {s} /\ call[c].at = "open"
      /\ UNCHANGED <<password, passwords, apiTokens, issued, calls, limitVars>> /\ Returns(c)
      /\ excused' = IF call[c].typed # password[call[c].on[1]] THEN excused \cup {given + 1} ELSE excused
  BY GateNumbers DEF OpenSession, SecretsInv, GateTypeOK
<1>2. call[c].on[1] \in Person /\ call[c].typed \in 0..MaxPassword
  BY <1>1, HandledIsSound, CallTyped
<1>3. s \in Session /\ s.id = given + 1 /\ s.of = call[c].on[1] /\ s.pw = call[c].typed
  BY <1>1, <1>2 DEF Session
<1> HIDE DEF s
<1>4. GateTypeOK'
  <2>1. excused' \subseteq 0..MaxSession
    <3>1. excused' \subseteq excused \cup {given'}
      BY <1>1
    <3>2. excused \subseteq 0..MaxSession /\ given' \in 0..MaxSession
      BY <1>1, GateNumbers DEF SecretsInv, GateTypeOK
    <3>3. QED
      BY <3>1, <3>2
  <2>2. opened' \subseteq Session /\ given' \in 0..MaxSession /\ clock' = clock
    BY <1>1, <1>3 DEF SecretsInv, GateTypeOK, limitVars
  <2>3. QED
    BY <1>1, <2>1, <2>2 DEF SecretsInv, GateTypeOK
<1>5. s.pw = password'[s.of] \/ s.id \in excused'
  BY <1>1, <1>3
<1>6. CallSound(Idle)' /\ Idle.at = "idle"
  BY IdleIsSound DEF CallSound, CallType, Idle
<1>7. QED
  BY <1>1, <1>4, <1>5, <1>6, SecretsChange DEF Returns

(* Sessions and tokens go, and a password may change with them.              *)
LEMMA SessionsGoKeeps ==
  ASSUME SecretsInv, NEW c \in GateCall, Returns(c), call[c].at # "others", opened' \subseteq opened,
         issued \subseteq issued', issued' \subseteq ApiToken, apiTokens' \subseteq issued', apiTokens' \cap issued \subseteq apiTokens,
         excused' = excused, given' = given, calls' = calls, clock' = clock,
         passwords' \in 0..MaxPassword, password' \in [Person -> 0..MaxPassword],
         \A s \in opened' : password'[s.of] = password[s.of]
  PROVE  SecretsInv'
<1>1. GateTypeOK'
  BY DEF SecretsInv, GateTypeOK
<1>2. CallSound(Idle)' /\ Idle.at = "idle"
  <2>1. Idle \in CallType /\ Idle.at = "idle" /\ Idle.by = "none" /\ Idle.token = <<>>
    BY GateNumbers DEF Idle, CallType, Safe, Unsafe
  <2>2. CallType' = CallType
    BY DEF CallType
  <2>3. QED
    BY <2>1, <2>2 DEF CallSound
<1>3. QED
  BY <1>1, <1>2, SecretsChange DEF Returns

LEMMA LogoutKeeps == ASSUME SecretsInv, NEW c \in GateCall, Logout(c) PROVE SecretsInv'
<1>1. UNCHANGED <<password, passwords, given, apiTokens, issued, excused, calls, clock>> /\ Returns(c) /\ call[c].at # "others"
      /\ opened' \subseteq opened
  BY DEF Logout, Handling, SessionsGo, limitVars
<1>2. QED
  BY <1>1, SessionsGoKeeps DEF SecretsInv, GateTypeOK

LEMMA RevokeSessionsKeeps == ASSUME SecretsInv, NEW c \in GateCall, RevokeSessions(c) PROVE SecretsInv'
<1>1. UNCHANGED <<password, passwords, given, apiTokens, issued, excused, calls, clock>> /\ Returns(c) /\ call[c].at # "others"
      /\ opened' \subseteq opened
  BY DEF RevokeSessions, Handling, SessionsGo, limitVars
<1>2. QED
  BY <1>1, SessionsGoKeeps DEF SecretsInv, GateTypeOK

LEMMA ChangeTokensKeeps == ASSUME SecretsInv, NEW c \in GateCall, ChangeTokens(c) PROVE SecretsInv'
<1>1. UNCHANGED <<password, passwords, opened, given, excused, calls, clock>> /\ Returns(c) /\ call[c].at = "handle"
      /\ call[c].op \notin {"login", "logout"}
  BY DEF ChangeTokens, Handling, limitVars
<1>2. call[c].me[1] \in Person
  BY <1>1, HandledIsSound
<1>3. issued \subseteq issued' /\ issued' \subseteq ApiToken /\ apiTokens' \subseteq issued' /\ apiTokens' \cap issued \subseteq apiTokens
  <2>1. CASE \E t \in {[of |-> call[c].me[1], scope |-> s] : s \in Scope} \ issued :
                apiTokens' = apiTokens \cup {t} /\ issued' = issued \cup {t}
    <3>1. PICK t \in {[of |-> call[c].me[1], scope |-> s] : s \in Scope} \ issued :
                apiTokens' = apiTokens \cup {t} /\ issued' = issued \cup {t}
      BY <2>1
    <3>2. t \in ApiToken /\ t \notin issued
      BY <1>2, <3>1 DEF ApiToken
    <3>3. QED
      BY <3>1, <3>2 DEF SecretsInv, GateTypeOK
  <2>2. CASE UNCHANGED issued /\ apiTokens' \subseteq apiTokens
    BY <2>2 DEF SecretsInv, GateTypeOK
  <2>3. QED
    BY <2>1, <2>2 DEF ChangeTokens
<1>4. QED
  BY <1>1, <1>3, SessionsGoKeeps DEF SecretsInv, GateTypeOK

(* The password of p is set.                                                 *)
LEMMA PasswordIsSet ==
  ASSUME SecretsInv, NEW p \in Person, SetPassword(p)
  PROVE  /\ passwords' \in 0..MaxPassword /\ password' \in [Person -> 0..MaxPassword]
         /\ \A q \in Person : q # p => password'[q] = password[q]
  BY GateNumbers DEF SetPassword, SecretsInv, GateTypeOK

LEMMA ResetPasswordKeeps == ASSUME SecretsInv, NEW c \in GateCall, ResetPassword(c) PROVE SecretsInv'
<1> DEFINE p == call[c].on[1]
<1>1. /\ call[c].at = "handle" /\ SetPassword(p) /\ opened' = opened \ SessionsToReset(c) /\ Returns(c)
      /\ UNCHANGED <<given, issued, excused, calls, clock>> /\ apiTokens' \subseteq apiTokens
  BY DEF ResetPassword, Handling, SessionsGo, limitVars
<1>2. p \in Person
  BY <1>1, HandledIsSound
<1>3. opened' \subseteq opened /\ \A s \in opened' : s.of # p /\ s.of \in Person
  BY <1>1 DEF SessionsToReset, OfPerson, SecretsInv, GateTypeOK, Session
<1> HIDE DEF p
<1>4. \A s \in opened' : password'[s.of] = password[s.of]
  BY <1>1, <1>2, <1>3, PasswordIsSet
<1>5. QED
  BY <1>1, <1>2, <1>3, <1>4, PasswordIsSet, SessionsGoKeeps DEF SecretsInv, GateTypeOK

LEMMA ChangePasswordKeeps == ASSUME SecretsInv, NEW c \in GateCall, ChangePassword(c) PROVE SecretsInv'
<1> DEFINE p == call[c].me[1]
<1>0. PICK a : a = [call[c] EXCEPT !.at = "others"]
  OBVIOUS
<1>1. /\ call[c].at = "change" /\ SetPassword(p) /\ call' = [call EXCEPT ![c] = a]
      /\ UNCHANGED <<opened, given, apiTokens, issued, excused, calls, clock>>
  BY <1>0 DEF ChangePassword, Moves, limitVars, SecretsInv, CallsAreSound
<1>2. p \in Person /\ call[c].me = <<p>> /\ call[c].me # <<>> /\ CallSound(call[c]) /\ call[c] \in CallType
  BY <1>1, HandledIsSound, CallTyped
<1>3. a \in CallType /\ a.at = "others" /\ a.op = call[c].op /\ a.on = call[c].on /\ a.me = <<p>> /\ a.by = call[c].by
      /\ a.lapsed = call[c].lapsed /\ a.token = call[c].token
  BY <1>0, <1>2 DEF CallType
<1> HIDE DEF p
<1>4. CallSound(a)'
  <2>1. CallType' = CallType
    BY DEF CallType
  <2>2. QED
    BY <1>1, <1>2, <1>3, <2>1 DEF CallSound
<1>5. GateTypeOK'
  BY <1>1, <1>2, PasswordIsSet DEF SecretsInv, GateTypeOK
<1>6. \A s \in opened' : s \in opened /\ s.of \in Person /\ (s.of = p \/ password'[s.of] = password[s.of])
  BY <1>1, <1>2, PasswordIsSet DEF SecretsInv, GateTypeOK, Session
<1>7. QED
  BY <1>1, <1>3, <1>4, <1>5, <1>6, SecretsChange

LEMMA DropOthersKeeps == ASSUME SecretsInv, NEW c \in GateCall, DropOthers(c) \/ CutShort(c) PROVE SecretsInv'
<1> DEFINE p == call[c].me[1]
<1>1. /\ call[c].at = "others" /\ Returns(c) /\ opened' \subseteq opened
      /\ UNCHANGED <<password, passwords, given, apiTokens, issued, calls, clock>>
      /\ excused \subseteq excused'
  BY DEF DropOthers, CutShort, SessionsGo, limitVars
<1>2. p \in Person /\ call[c].me = <<p>>
  BY <1>1, HandledIsSound
<1>3. excused' \subseteq 0..MaxSession
  <2>1. call[c].cookie \in 0..MaxSession /\ excused \subseteq 0..MaxSession
    BY CallTyped DEF SecretsInv, GateTypeOK
  <2>2. \A s \in OfPerson(p) : s.id \in 0..MaxSession
    BY DEF OfPerson, SecretsInv, GateTypeOK, Session
  <2>3. QED
    BY <2>1, <2>2 DEF DropOthers, CutShort
<1>4. \A s \in opened' : s.of = p => s.id \in excused'
  BY DEF DropOthers, CutShort, SessionsGo, Others, OfPerson
<1> HIDE DEF p
<1>5. GateTypeOK'
  BY <1>1, <1>3 DEF SecretsInv, GateTypeOK
<1>6. CallSound(Idle)' /\ Idle.at = "idle"
  <2>1. UNCHANGED <<apiTokens, issued>>
    BY <1>1
  <2>2. QED
    BY <2>1, IdleIsSound DEF CallSound, CallType, Idle
<1>7. \A s \in opened' : \/ s.id \in excused'
                         \/ s \in opened /\ password'[s.of] = password[s.of] /\ call[c].me # <<s.of>>
  <2>1. \A x : <<x>> = <<p>> => x = p
    OBVIOUS
  <2>2. QED
    BY <1>1, <1>2, <1>4, <2>1
<1>8. QED
  BY <1>1, <1>5, <1>6, <1>7, SecretsChange DEF Returns

(* A step that leaves the requests.                                          *)
LEMMA LapseKeeps ==
  ASSUME SecretsInv, opened' \subseteq opened, apiTokens' \subseteq apiTokens,
         UNCHANGED <<password, passwords, given, issued, excused, call, calls>>, clock' \in 0..MaxClock
  PROVE  SecretsInv'
<1>1. GateTypeOK'
  BY DEF SecretsInv, GateTypeOK
<1>2. CallsAreSound'
  <2>1. \A c \in GateCall : CallSound(call[c])'
    BY DEF SecretsInv, CallsAreSound, CallSound, CallType
  <2>2. QED
    BY <2>1 DEF SecretsInv, CallsAreSound
<1>3. OldPasswordsOpenNothing'
  BY DEF SecretsInv, OldPasswordsOpenNothing
<1>4. QED
  BY <1>1, <1>2, <1>3 DEF SecretsInv

LEMMA SecretsStay == ASSUME SecretsInv, [GateNext]_gateVars, clock' \in 0..MaxClock PROVE SecretsInv'
<1>1. CASE Lapse
  BY <1>1, LapseKeeps DEF Lapse, SessionsGo, limitVars
<1>2. CASE HalfSecond \/ (\E a \in Address : Attempt(a)) \/ UNCHANGED gateVars
  <2>1. UNCHANGED <<secretVars, call, calls>>
    BY <1>2 DEF HalfSecond, Attempt, gateVars
  <2>2. QED
    BY <2>1, LapseKeeps DEF secretVars
<1>3. QED
  BY <1>1, <1>2, ArriveKeeps, GuardKeeps, ExtractKeeps, RespondKeeps, VerifyLoginKeeps, OpenSessionKeeps, LogoutKeeps,
     CheckCurrentKeeps, ChangePasswordKeeps, DropOthersKeeps, ResetPasswordKeeps, RevokeSessionsKeeps, ChangeTokensKeeps
     DEF GateNext, CallNext

----------------------------------------------------------------------------
(* The limit on sign-ins.                                                    *)

(* Whatever it claims, a request counts for the address it comes from.       *)
LEMMA ClientIsWhoComes == \A a \in Address : \A q \in Arrival(a) : ClientOf(q) = a
<1> SUFFICES ASSUME NEW a \in Address, NEW q \in Arrival(a) PROVE ClientOf(q) = a
  OBVIOUS
<1>1. CASE q = [peer |-> a, forwarded |-> <<>>]
  BY <1>1, GateAssumption DEF ClientOf
<1>2. CASE \E claimed \in {<<>>} \cup {<<b>> : b \in Address} : q = [peer |-> "loopback", forwarded |-> claimed \o <<a>>]
  <2>1. PICK claimed \in {<<>>} \cup {<<b>> : b \in Address} : q = [peer |-> "loopback", forwarded |-> claimed \o <<a>>]
    BY <1>2
  <2>2. claimed \in Seq(Address) /\ <<a>> \in Seq(Address) /\ Len(<<a>>) = 1
    <3>1. CASE claimed = <<>>
      BY <3>1
    <3>2. CASE claimed # <<>>
      <4>1. PICK b \in Address : claimed = <<b>>
        BY <3>2
      <4>2. QED
        BY <4>1
    <3>3. QED
      BY <3>1, <3>2
  <2>3. Len(claimed \o <<a>>) = Len(claimed) + 1 /\ (claimed \o <<a>>)[Len(claimed) + 1] = a
    BY <2>2
  <2>4. QED
    BY <2>1, <2>3 DEF ClientOf, Last
<1>3. QED
  BY <1>1, <1>2 DEF Arrival

(* Times that are noted in order are forgotten from the front.               *)
LEMMA RecentIs ==
  ASSUME clock \in Nat, NEW kept \in Seq(0..clock), InOrder(kept)
  PROVE  \E k \in 0..Len(kept) :
            /\ Recent(kept) \in Seq(0..clock) /\ Len(Recent(kept)) = Len(kept) - k
            /\ \A i \in 1..Len(kept) - k : Recent(kept)[i] = kept[k + i]
            /\ \A i \in 1..k : ~InWindow(kept[i])
            /\ \A i \in 1..Len(kept) : i > k => InWindow(kept[i])
<1> DEFINE Gone == {i \in DOMAIN kept : ~InWindow(kept[i])}
<1>1. DOMAIN kept = 1..Len(kept) /\ Len(kept) \in Nat /\ \A i \in 1..Len(kept) : kept[i] \in 0..clock
  OBVIOUS
<1>2. \E k \in 0..Len(kept) : Gone = 1..k
  <2>1. CASE Gone = {}
    BY <1>1, <2>1
  <2>2. CASE Gone # {}
    <3>1. Gone \subseteq 1..Len(kept) /\ Gone \in SUBSET Nat
      BY <1>1
    <3>2. PICK k \in Gone : \A i \in Gone : i <= k
      <4>1. Len(kept) \in Nat /\ \A i \in Gone : i <= Len(kept)
        BY <1>1, <3>1
      <4> HIDE DEF Gone
      <4>2. Max(Gone) \in Gone /\ \A i \in Gone : i <= Max(Gone)
        BY <2>2, <3>1, <4>1, MaxIs
      <4>3. QED
        BY <4>2
    <3>3. ASSUME NEW i \in 1..k PROVE i \in Gone
      <4>1. i \in 1..Len(kept) /\ kept[i] <= kept[k] /\ kept[i] \in 0..clock /\ kept[k] \in 0..clock
        BY <1>1, <3>1, <3>2 DEF InOrder
      <4>2. QED
        BY <4>1, <1>1, <3>2, GateNumbers DEF InWindow
    <3>4. QED
      BY <3>1, <3>2, <3>3, <1>1
  <2>3. QED
    BY <2>1, <2>2
<1>3. PICK k \in 0..Len(kept) : Gone = 1..k
  BY <1>2
<1>4. Cardinality(Gone) = k
  <2>1. k \in Nat
    BY <1>1
  <2>2. Cardinality(1..k) = k
    BY <2>1, FS_Interval
  <2>3. QED
    BY <1>3, <2>2
<1>5. Recent(kept) = SubSeq(kept, k + 1, Len(kept))
  BY <1>4 DEF Recent
<1>6. /\ SubSeq(kept, k + 1, Len(kept)) \in Seq(0..clock) /\ Len(SubSeq(kept, k + 1, Len(kept))) = Len(kept) - k
      /\ \A i \in 1..Len(kept) - k : SubSeq(kept, k + 1, Len(kept))[i] = kept[k + i]
  <2> DEFINE m == k + 1
             n == Len(kept)
  <2>1. m \in Int /\ n \in Int /\ (\A i \in m..n : kept[i] \in 0..clock) /\ k \in Nat /\ k <= n
    BY <1>1
  <2>2. n - m + 1 = n - k /\ \A i \in Int : m + i - 1 = k + i
    BY <2>1
  <2> HIDE DEF m, n
  <2>3. /\ SubSeq(kept, m, n) \in Seq(0..clock)
        /\ Len(SubSeq(kept, m, n)) = IF m <= n THEN n - m + 1 ELSE 0
        /\ \A i \in 1..n - m + 1 : SubSeq(kept, m, n)[i] = kept[m + i - 1]
    BY <2>1, SubSeqProperties
  <2>4. Len(SubSeq(kept, m, n)) = n - k
    BY <2>1, <2>2, <2>3 DEF m
  <2>5. \A i \in 1..n - k : SubSeq(kept, m, n)[i] = kept[k + i]
    BY <2>1, <2>2, <2>3
  <2>6. QED
    BY <2>3, <2>4, <2>5 DEF m, n
<1>7. \A i \in 1..Len(kept) : i \in 1..k <=> ~InWindow(kept[i])
  BY <1>3, <1>1
<1>8. /\ \A i \in 1..k : ~InWindow(kept[i])
      /\ \A i \in 1..Len(kept) : i > k => InWindow(kept[i])
  BY <1>1, <1>7
<1>9. QED
  BY <1>5, <1>6, <1>8

(* What is kept is in order too.                                             *)
LEMMA KeptInOrder ==
  ASSUME clock \in Nat, NEW kept, NEW let, NEW told, TimesFit(kept, let, told), LastAreKept(kept, let)
  PROVE  InOrder(kept)
<1> DEFINE n == Len(let) - Len(kept)
<1>1. Len(let) \in Nat /\ Len(kept) \in Nat /\ n >= 0 /\ \A i \in 1..Len(kept) : kept[i] = let[n + i]
  BY DEF TimesFit, LastAreKept
<1>2. ASSUME NEW i \in 1..Len(kept), NEW j \in 1..Len(kept), i <= j PROVE kept[i] <= kept[j]
  <2>1. n + i \in 1..Len(let) /\ n + j \in 1..Len(let) /\ n + i <= n + j
    BY <1>1, <1>2
  <2>2. let[n + i] <= let[n + j]
    BY <2>1 DEF TimesFit, InOrder
  <2>3. QED
    BY <1>1, <2>2
<1>3. QED
  BY <1>2 DEF InOrder

(* A refusal says when the oldest sign-in that counts will not any more.     *)
LEMMA RefusedFits ==
  ASSUME clock \in Nat, NEW kept, NEW let, NEW told, AddressFits(kept, let, told), Len(Recent(kept)) >= MaxAttempts,
         NEW wait, wait = IF LoginWindow - ((clock - Head(Recent(kept))) \div 2) > 1
                          THEN LoginWindow - ((clock - Head(Recent(kept))) \div 2) ELSE 1
  PROVE  AddressFits(Recent(kept), let, clock + 2 * wait)
<1>0. MaxAttempts \in Nat \ {0} /\ LoginWindow \in Nat \ {0}
  BY GateNumbers
<1>1. TimesFit(kept, let, told) /\ LastAreKept(kept, let) /\ AreSpaced(let) /\ InOrder(kept)
  BY KeptInOrder DEF AddressFits
<1>2. kept \in Seq(0..clock) /\ Len(kept) <= MaxAttempts /\ Len(kept) \in Nat
  BY <1>1 DEF TimesFit
<1>3. PICK k \in 0..Len(kept) : /\ Recent(kept) \in Seq(0..clock) /\ Len(Recent(kept)) = Len(kept) - k
                                /\ \A i \in 1..Len(kept) - k : Recent(kept)[i] = kept[k + i]
                                /\ \A i \in 1..Len(kept) : i > k => InWindow(kept[i])
  BY <1>1, <1>2, RecentIs
<1>4. k = 0 /\ Len(kept) = MaxAttempts
  <2>1. Len(Recent(kept)) = Len(kept) - k /\ k \in Nat
    BY <1>2, <1>3
  <2>2. QED
    BY <1>0, <1>2, <2>1
<1>5. Recent(kept) = kept
  <2>1. Recent(kept) \in Seq(0..clock) /\ Len(Recent(kept)) = Len(kept) - k
    BY <1>3
  <2>2. ASSUME NEW i \in 1..Len(kept) PROVE Recent(kept)[i] = kept[i]
    <3>1. i \in 1..Len(kept) - k /\ k + i = i
      BY <1>2, <1>4, <2>2
    <3>2. Recent(kept)[i] = kept[k + i]
      BY <1>3, <3>1
    <3>3. QED
      BY <3>1, <3>2
  <2>3. Len(Recent(kept)) = Len(kept)
    BY <1>2, <1>4, <2>1
  <2>4. QED
    BY <1>2, <2>1, <2>2, <2>3, SeqEqual
<1>6. kept[1] \in 0..clock /\ clock - kept[1] < 2 * LoginWindow /\ Head(kept) = kept[1] /\ kept # <<>>
  <2>1. 1 \in 1..Len(kept) /\ 1 > k
    BY <1>0, <1>4
  <2>2. InWindow(kept[1])
    BY <1>3, <2>1
  <2>3. kept \in Seq(0..clock) /\ kept # <<>>
    <3>1. kept = <<>> => Len(kept) = 0
      OBVIOUS
    <3>2. QED
      BY <1>2, <2>1, <3>1
  <2>4. kept[1] \in 0..clock /\ Head(kept) = kept[1]
    BY <2>1, <2>3
  <2>5. clock - kept[1] < 2 * LoginWindow
    BY <2>2 DEF InWindow
  <2>6. QED
    BY <2>3, <2>4, <2>5
<1> DEFINE d == clock - kept[1]
<1>7. d \in Nat /\ d < 2 * LoginWindow /\ wait = IF LoginWindow - (d \div 2) > 1 THEN LoginWindow - (d \div 2) ELSE 1
  BY <1>5, <1>6
<1> HIDE DEF d
<1>8. d \div 2 \in Nat /\ d - 2 * (d \div 2) \in {0, 1}
  BY <1>7
<1>9. wait = LoginWindow - (d \div 2) /\ wait \in Nat
  BY <1>0, <1>7, <1>8
<1>10. d + 2 * wait \in {2 * LoginWindow, 2 * LoginWindow + 1}
  <2> DEFINE h == d \div 2
  <2>1. h \in Nat /\ (d = 2 * h \/ d = 2 * h + 1) /\ wait = LoginWindow - h /\ LoginWindow \in Nat
    BY <1>0, <1>7, <1>8, <1>9
  <2> HIDE DEF h
  <2>2. d + 2 * wait = d + 2 * (LoginWindow - h)
    BY <2>1
  <2>3. QED
    BY <2>1, <2>2
<1>11. (clock + 2 * wait) - kept[1] \in {2 * LoginWindow, 2 * LoginWindow + 1} /\ clock + 2 * wait \in Nat
  <2>1. (clock + 2 * wait) - kept[1] = d + 2 * wait
    <3>1. kept[1] \in Int /\ wait \in Int /\ clock \in Int
      BY <1>6, <1>9
    <3>2. \A x \in Int : (clock + 2 * wait) - x = (clock - x) + 2 * wait
      BY <3>1
    <3>3. QED
      BY <3>1, <3>2 DEF d
  <2>2. QED
    BY <1>9, <1>10, <2>1
<1>12. QED
  BY <1>1, <1>5, <1>6, <1>11 DEF AddressFits, TimesFit, PromiseHolds

(* A sign-in that is let in finds the one a limit before it forgotten.       *)
LEMMA AdmittedFits ==
  ASSUME clock \in Nat, NEW kept, NEW let, NEW told, AddressFits(kept, let, told), Len(Recent(kept)) < MaxAttempts
  PROVE  AddressFits(Append(Recent(kept), clock), Append(let, clock), told)
<1> DEFINE r == Recent(kept)
           n == Len(let) - Len(kept)
<1>0. MaxAttempts \in Nat \ {0} /\ LoginWindow \in Nat \ {0}
  BY GateNumbers
<1>1. TimesFit(kept, let, told) /\ LastAreKept(kept, let) /\ AreSpaced(let) /\ PromiseHolds(kept, told) /\ InOrder(kept)
  BY KeptInOrder DEF AddressFits
<1>2. /\ kept \in Seq(0..clock) /\ Len(kept) <= MaxAttempts /\ Len(kept) \in Nat /\ InOrder(let) /\ told \in Nat
      /\ let \in Seq(0..clock) /\ Len(let) \in Nat /\ \A i \in 1..Len(let) : let[i] \in 0..clock
      /\ \A i \in 1..Len(kept) : kept[i] \in 0..clock
  BY <1>1 DEF TimesFit
<1>3. PICK k \in 0..Len(kept) : /\ Recent(kept) \in Seq(0..clock) /\ Len(Recent(kept)) = Len(kept) - k
                                /\ \A i \in 1..Len(kept) - k : Recent(kept)[i] = kept[k + i]
                                /\ \A i \in 1..k : ~InWindow(kept[i])
  BY <1>1, <1>2, RecentIs
<1>4. /\ r \in Seq(0..clock) /\ Len(r) = Len(kept) - k /\ Len(r) < MaxAttempts
      /\ \A i \in 1..Len(kept) - k : r[i] = kept[k + i]
  BY <1>3
<1>5. n \in Nat /\ (\A i \in 1..Len(kept) : kept[i] = let[n + i]) /\ \A i \in 1..n : ~InWindow(let[i])
  BY <1>1, <1>2 DEF LastAreKept
<1> HIDE DEF r
<1> DEFINE s == Append(r, clock)
           l == Append(let, clock)
<1>6. /\ s \in Seq(0..clock) /\ Len(s) = Len(kept) - k + 1 /\ s[Len(kept) - k + 1] = clock
      /\ \A i \in 1..Len(kept) - k : s[i] = kept[k + i]
  BY <1>2, <1>4
<1>7. l \in Seq(0..clock) /\ Len(l) = Len(let) + 1 /\ l[Len(let) + 1] = clock /\ \A i \in 1..Len(let) : l[i] = let[i]
  BY <1>2
<1> HIDE DEF s, l
<1>8. TimesFit(s, l, told)
  <2>1. ASSUME NEW i \in 1..Len(l), NEW j \in 1..Len(l), i <= j PROVE l[i] <= l[j]
    <3>1. CASE j = Len(let) + 1
      <4>1. l[j] = clock /\ l[i] \in 0..clock
        BY <1>7, <3>1
      <4>2. QED
        BY <4>1
    <3>2. CASE j # Len(let) + 1
      <4>1. i \in 1..Len(let) /\ j \in 1..Len(let)
        BY <1>2, <1>7, <2>1, <3>2, SMTT(20)
      <4>2. let[i] <= let[j] /\ l[i] = let[i] /\ l[j] = let[j]
        BY <1>2, <1>7, <2>1, <4>1 DEF InOrder
      <4>3. QED
        BY <4>2
    <3>3. QED
      BY <3>1, <3>2
  <2>2. Len(s) <= MaxAttempts
    BY <1>0, <1>2, <1>4, <1>6
  <2>3. QED
    BY <1>2, <1>6, <1>7, <2>1, <2>2 DEF TimesFit, InOrder
<1>9. \A i \in 1..n + k : ~InWindow(let[i]) /\ i \in 1..Len(let)
  <2> SUFFICES ASSUME NEW i \in 1..n + k PROVE ~InWindow(let[i]) /\ i \in 1..Len(let)
    OBVIOUS
  <2>1. i \in 1..Len(let)
    BY <1>2, <1>5
  <2>2. CASE i <= n
    BY <1>5, <2>1, <2>2
  <2>3. CASE i > n
    <3>1. i - n \in 1..k /\ i - n \in 1..Len(kept) /\ n + (i - n) = i
      <4>1. n \in Nat /\ k \in Nat /\ i \in Nat /\ i <= n + k /\ k <= Len(kept) /\ Len(kept) \in Nat
        BY <1>2, <1>5
      <4> HIDE DEF n
      <4>2. QED
        BY <2>3, <4>1
    <3>2. kept[i - n] = let[i] /\ ~InWindow(kept[i - n])
      BY <1>3, <1>5, <3>1
    <3>3. QED
      BY <2>1, <3>2
  <2>4. QED
    BY <1>5, <2>2, <2>3
<1>10. LastAreKept(s, l)
  <2>1. Len(l) - Len(s) = n + k /\ n + k >= 0
    BY <1>2, <1>5, <1>6, <1>7
  <2>2. ASSUME NEW i \in 1..Len(s) PROVE s[i] = l[n + k + i]
    <3>1. CASE i = Len(kept) - k + 1
      <4>1. n + k + i = Len(let) + 1
        BY <1>2, <3>1
      <4>2. QED
        BY <1>6, <1>7, <3>1, <4>1
    <3>2. CASE i # Len(kept) - k + 1
      <4>0. i \in 1..Len(kept) - k
        BY <1>2, <1>6, <3>2, SMTT(20)
      <4>1. i \in 1..Len(kept) - k /\ k + i \in 1..Len(kept) /\ n + k + i \in 1..Len(let) /\ n + (k + i) = n + k + i
        <5>1. i \in Nat /\ k \in Nat /\ n \in Nat /\ 1 <= i /\ i <= Len(kept) - k /\ n = Len(let) - Len(kept)
          BY <1>2, <1>5, <4>0
        <5>2. n + k + i <= Len(let) /\ k + i <= Len(kept)
          BY <1>2, <5>1
        <5> HIDE DEF n
        <5>3. QED
          BY <1>2, <4>0, <5>1, <5>2
      <4>2. s[i] = kept[k + i] /\ kept[k + i] = let[n + (k + i)] /\ l[n + k + i] = let[n + k + i]
        BY <1>5, <1>6, <1>7, <4>1
      <4>3. QED
        BY <4>1, <4>2
    <3>3. QED
      BY <3>1, <3>2
  <2>3. \A i \in 1..n + k : ~InWindow(l[i])
    BY <1>7, <1>9
  <2>4. QED
    BY <2>1, <2>2, <2>3 DEF LastAreKept
<1>11. AreSpaced(l)
  <2> SUFFICES ASSUME NEW i \in 1..Len(l), NEW j \in 1..Len(l), j = i + MaxAttempts PROVE l[j] - l[i] >= 2 * LoginWindow
    BY DEF AreSpaced
  <2>0. i \in 1..Len(let) /\ l[Len(let) + 1] = clock
    BY <1>0, <1>2, <1>7
  <2>1. i \in 1..Len(let) /\ l[i] = let[i]
    BY <1>7, <2>0
  <2>2. CASE j = Len(let) + 1
    <3>1. i \in 1..n + k
      BY <1>0, <1>2, <1>4, <1>5, <2>1, <2>2, SMTT(20)
    <3>2. ~(clock - let[i] < 2 * LoginWindow)
      BY <1>9, <3>1 DEF InWindow
    <3>3. l[j] = clock /\ let[i] \in 0..clock
      BY <1>2, <2>0, <2>2
    <3>4. QED
      BY <1>0, <2>1, <3>2, <3>3
  <2>3. CASE j # Len(let) + 1
    <3>1. j \in 1..Len(let) /\ l[j] = let[j]
      BY <1>2, <1>7, <2>3, SMTT(20)
    <3>2. QED
      BY <1>1, <2>1, <3>1 DEF AreSpaced
  <2>4. QED
    BY <2>2, <2>3
<1>12. PromiseHolds(s, told)
  <2> SUFFICES ASSUME told # 0, clock <= told
               PROVE  s # <<>> /\ \/ told - s[1] \in {2 * LoginWindow, 2 * LoginWindow + 1}
                                  \/ s[Len(s)] + 1 >= told
    BY DEF PromiseHolds
  <2>1. /\ kept # <<>> /\ Len(kept) > 0 /\ kept[1] \in 0..clock /\ kept[Len(kept)] \in 0..clock
        /\ \/ told - kept[1] \in {2 * LoginWindow, 2 * LoginWindow + 1} \/ kept[Len(kept)] + 1 >= told
    BY <1>1, <1>2 DEF PromiseHolds
  <2>2. s # <<>> /\ s[Len(s)] = clock
    BY <1>2, <1>6
  <2>3. CASE kept[Len(kept)] + 1 >= told
    BY <1>2, <2>1, <2>2, <2>3
  <2>4. CASE told - kept[1] \in {2 * LoginWindow, 2 * LoginWindow + 1}
    <3>1. CASE k = 0
      <4>1. 1 \in 1..Len(kept) - k /\ k + 1 = 1
        BY <1>2, <2>1, <3>1
      <4>2. s[1] = kept[1]
        BY <1>6, <4>1
      <4>3. QED
        BY <2>2, <2>4, <4>2
    <3>2. CASE k # 0
      <4>1. ~(clock - kept[1] < 2 * LoginWindow)
        BY <1>3, <3>2 DEF InWindow
      <4>2. QED
        BY <1>0, <1>2, <2>1, <2>2, <2>4, <4>1
    <3>3. QED
      BY <3>1, <3>2
  <2>5. QED
    BY <2>1, <2>2, <2>3, <2>4
<1>13. QED
  BY <1>8, <1>10, <1>11, <1>12 DEF AddressFits, s, l, r

LEMMA LimitStart == GateInit => LimitInv
<1> SUFFICES ASSUME GateInit PROVE LimitInv
  OBVIOUS
<1>1. <<>> \in Seq(0..clock) /\ Len(<<>>) = 0 /\ 1..0 = {}
  OBVIOUS
<1>2. AddressFits(<<>>, <<>>, 0)
  BY <1>1, GateNumbers DEF AddressFits, TimesFit, LastAreKept, AreSpaced, PromiseHolds, InOrder
<1>3. clock \in 0..MaxClock /\ attempts = [a \in Address |-> <<>>] /\ letIn = [a \in Address |-> <<>>] /\ promised = [a \in Address |-> 0]
  BY GateNumbers DEF GateInit
<1>4. QED
  BY <1>2, <1>3 DEF LimitInv

LEMMA AttemptKeeps == ASSUME LimitInv, NEW a \in Address, Attempt(a) PROVE LimitInv'
<1>0. clock' = clock /\ clock \in 0..MaxClock /\ clock \in Nat
  BY GateNumbers DEF Attempt, LimitInv
<1> DEFINE r == Recent(attempts[a])
           elapsed == (clock - Head(r)) \div 2
           wait == IF LoginWindow - elapsed > 1 THEN LoginWindow - elapsed ELSE 1
<1>1. IF Len(r) >= MaxAttempts
      THEN /\ attempts' = [attempts EXCEPT ![a] = r]
           /\ promised' = [promised EXCEPT ![a] = clock + 2 * wait]
           /\ UNCHANGED letIn
      ELSE /\ attempts' = [attempts EXCEPT ![a] = Append(r, clock)]
           /\ letIn' = [letIn EXCEPT ![a] = Append(@, clock)]
           /\ UNCHANGED promised
  BY ClientIsWhoComes DEF Attempt
<1>2. AddressFits(attempts[a], letIn[a], promised[a])
  BY DEF LimitInv
<1>3. /\ attempts' = [b \in Address |-> attempts'[b]] /\ letIn' = [b \in Address |-> letIn'[b]]
      /\ promised' = [b \in Address |-> promised'[b]]
      /\ \A b \in Address : b # a => attempts'[b] = attempts[b] /\ letIn'[b] = letIn[b] /\ promised'[b] = promised[b]
  BY <1>1 DEF LimitInv
<1>4. AddressFits(attempts'[a], letIn'[a], promised'[a])
  <2>1. CASE Len(r) >= MaxAttempts
    <3>1. AddressFits(r, letIn[a], clock + 2 * wait)
      BY <1>0, <1>2, <2>1, RefusedFits
    <3> HIDE DEF r, wait
    <3>2. attempts'[a] = r /\ letIn'[a] = letIn[a] /\ promised'[a] = clock + 2 * wait
      BY <1>1, <2>1 DEF LimitInv
    <3>3. QED
      BY <3>1, <3>2
  <2>2. CASE ~(Len(r) >= MaxAttempts)
    <3>1. Len(r) < MaxAttempts
      <4>1. TimesFit(attempts[a], letIn[a], promised[a]) /\ InOrder(attempts[a])
        BY <1>0, <1>2, KeptInOrder DEF AddressFits
      <4>2. Len(r) \in Nat
        BY <1>0, <4>1, RecentIs DEF TimesFit
      <4>3. QED
        BY <2>2, <4>2, GateNumbers
    <3>2. AddressFits(Append(r, clock), Append(letIn[a], clock), promised[a])
      BY <1>0, <1>2, <3>1, AdmittedFits
    <3> HIDE DEF r
    <3>3. attempts'[a] = Append(r, clock) /\ letIn'[a] = Append(letIn[a], clock) /\ promised'[a] = promised[a]
      BY <1>1, <2>2 DEF LimitInv
    <3>4. QED
      BY <3>2, <3>3
  <2>3. QED
    BY <2>1, <2>2
<1>5. \A b \in Address : AddressFits(attempts'[b], letIn'[b], promised'[b])
  BY <1>3, <1>4 DEF LimitInv
<1>6. \A b \in Address : AddressFits(attempts[b], letIn[b], promised[b])'
  BY <1>0, <1>5 DEF AddressFits, TimesFit, LastAreKept, AreSpaced, PromiseHolds, InWindow, InOrder
<1>7. QED
  BY <1>0, <1>3, <1>6 DEF LimitInv

LEMMA HalfSecondKeepsLimit == ASSUME LimitInv, HalfSecond PROVE LimitInv'
<1>1. clock \in Nat /\ clock' = clock + 1 /\ clock' \in 0..MaxClock /\ UNCHANGED <<attempts, letIn, promised>>
  BY GateNumbers DEF LimitInv, HalfSecond
<1>2. ASSUME NEW a \in Address PROVE AddressFits(attempts[a], letIn[a], promised[a])'
  <2> DEFINE kept == attempts[a]
             let == letIn[a]
             told == promised[a]
  <2>1. AddressFits(kept, let, told) /\ UNCHANGED <<kept, let, told>>
    BY <1>1 DEF LimitInv
  <2>2. 0..clock \subseteq 0..clock' /\ Seq(0..clock) \subseteq Seq(0..clock')
    BY <1>1
  <2>3. TimesFit(kept, let, told)'
    BY <2>1, <2>2 DEF AddressFits, TimesFit, InOrder
  <2>4. LastAreKept(kept, let)'
    <3> DEFINE n == Len(let) - Len(kept)
    <3>1. Len(let) \in Nat /\ Len(kept) \in Nat /\ (\A i \in 1..Len(let) : let[i] \in 0..clock) /\ n \in Nat
          /\ \A i \in 1..n : ~InWindow(let[i])
      BY <1>1, <2>1, SMTT(20) DEF AddressFits, TimesFit, LastAreKept
    <3>2. ASSUME NEW i \in 1..n PROVE ~(clock' - let[i] < 2 * LoginWindow)
      <4>0. i \in 1..Len(let)
        BY <1>1, <2>1, <3>1 DEF AddressFits, LastAreKept, TimesFit
      <4>1. ~(clock - let[i] < 2 * LoginWindow) /\ let[i] \in 0..clock
        BY <3>1, <4>0 DEF InWindow
      <4>2. QED
        BY <1>1, <4>1, GateNumbers
    <3>3. \A i \in 1..n : ~InWindow(let[i])'
      BY <2>1, <3>2 DEF InWindow
    <3>4. QED
      BY <2>1, <3>3 DEF AddressFits, LastAreKept
  <2>5. AreSpaced(let)'
    BY <2>1 DEF AddressFits, AreSpaced
  <2>6. PromiseHolds(kept, told)'
    BY <1>1, <2>1 DEF AddressFits, PromiseHolds, TimesFit
  <2>7. QED
    BY <2>3, <2>4, <2>5, <2>6 DEF AddressFits
<1>3. QED
  BY <1>1, <1>2 DEF LimitInv

LEMMA LimitRests == ASSUME LimitInv, UNCHANGED limitVars PROVE LimitInv'
  BY DEF LimitInv, limitVars, AddressFits, TimesFit, LastAreKept, AreSpaced, PromiseHolds, InWindow, InOrder

LEMMA LimitStays == ASSUME LimitInv, [GateNext]_gateVars PROVE LimitInv'
<1>1. CASE UNCHANGED limitVars
  BY <1>1, LimitRests
<1>2. CASE HalfSecond
  BY <1>2, HalfSecondKeepsLimit
<1>3. CASE \E a \in Address : Attempt(a)
  BY <1>3, AttemptKeeps
<1>4. UNCHANGED limitVars \/ HalfSecond \/ \E a \in Address : Attempt(a)
  <2>1. CASE \E c \in GateCall : Arrive(c) \/ Guard(c) \/ Extract(c) \/ Respond(c) \/ VerifyLogin(c) \/ OpenSession(c) \/ Logout(c)
    BY <2>1 DEF Arrive, Guard, Extract, Respond, VerifyLogin, OpenSession, Logout
  <2>2. CASE \E c \in GateCall : CheckCurrent(c) \/ ChangePassword(c) \/ DropOthers(c) \/ CutShort(c) \/ ResetPassword(c)
                                 \/ RevokeSessions(c) \/ ChangeTokens(c)
    BY <2>2 DEF CheckCurrent, ChangePassword, DropOthers, CutShort, ResetPassword, RevokeSessions, ChangeTokens
  <2>3. CASE Lapse \/ UNCHANGED gateVars
    BY <2>3 DEF Lapse, gateVars
  <2>4. QED
    BY <2>1, <2>2, <2>3 DEF GateNext, CallNext
<1>5. QED
  BY <1>1, <1>2, <1>3, <1>4

LEMMA LimitHolds == LimitInv => SignInsAreLimited
<1> SUFFICES ASSUME LimitInv, NEW a \in Address
             PROVE  /\ \A i \in DOMAIN letIn[a] : i + MaxAttempts \in DOMAIN letIn[a] =>
                          letIn[a][i + MaxAttempts] - letIn[a][i] >= 2 * LoginWindow
                    /\ clock = promised[a] /\ promised[a] # 0 => \/ Len(Recent(attempts[a])) < MaxAttempts
                                                                 \/ Last(attempts[a]) + 1 >= clock
  BY DEF SignInsAreLimited
<1> DEFINE kept == attempts[a]
           let == letIn[a]
           told == promised[a]
<1>1. clock \in Nat /\ TimesFit(kept, let, told) /\ AreSpaced(let) /\ PromiseHolds(kept, told) /\ InOrder(kept)
  BY GateNumbers, KeptInOrder DEF LimitInv, AddressFits
<1>2. /\ kept \in Seq(0..clock) /\ Len(kept) \in Nat /\ Len(kept) <= MaxAttempts /\ DOMAIN let = 1..Len(let)
      /\ \A i \in 1..Len(kept) : kept[i] \in 0..clock
  BY <1>1 DEF TimesFit
<1>3. \A i \in DOMAIN let : i + MaxAttempts \in DOMAIN let => let[i + MaxAttempts] - let[i] >= 2 * LoginWindow
  BY <1>1, <1>2 DEF AreSpaced
<1>4. ASSUME clock = told, told # 0 PROVE Len(Recent(kept)) < MaxAttempts \/ Last(kept) + 1 >= clock
  <2>1. kept # <<>> /\ \/ told - kept[1] \in {2 * LoginWindow, 2 * LoginWindow + 1} \/ kept[Len(kept)] + 1 >= told
    BY <1>1, <1>4 DEF PromiseHolds
  <2>2. CASE told - kept[1] \in {2 * LoginWindow, 2 * LoginWindow + 1}
    <3>1. ~InWindow(kept[1]) /\ 1 \in 1..Len(kept)
      BY <1>2, <1>4, <2>1, <2>2, GateNumbers DEF InWindow
    <3>2. PICK k \in 0..Len(kept) : /\ Len(Recent(kept)) = Len(kept) - k
                                    /\ \A i \in 1..Len(kept) : i > k => InWindow(kept[i])
      BY <1>1, <1>2, RecentIs
    <3>3. k >= 1
      BY <3>1, <3>2
    <3>4. QED
      BY <1>2, <3>2, <3>3, GateNumbers
  <2>3. CASE kept[Len(kept)] + 1 >= told
    BY <1>4, <2>3 DEF Last
  <2>4. QED
    BY <2>1, <2>2, <2>3
<1>5. QED
  BY <1>3, <1>4

LEMMA GateStarts == GateInit => GateInv
  BY SecretsStart, LimitStart DEF GateInv

LEMMA GateStays == GateInv /\ [GateNext]_gateVars => GateInv'
<1>1. ASSUME GateInv, [GateNext]_gateVars PROVE GateInv'
  <2>1. LimitInv'
    BY <1>1, LimitStays DEF GateInv
  <2>2. clock' \in 0..MaxClock
    BY <2>1 DEF LimitInv
  <2>3. QED
    BY <1>1, <2>1, <2>2, SecretsStay DEF GateInv
<1>2. QED
  BY <1>1

LEMMA GateInvariant == GateInit /\ [][GateNext]_gateVars => []GateInv
  BY GateStarts, GateStays, PTL

LEMMA GatePromise == GateInv => GateHolds
<1>1. SecretsInv => OldPasswordsOpenNothing /\ ReadTokensOnlyRead
  BY DEF SecretsInv, CallsAreSound, CallSound, ReadTokensOnlyRead
<1>2. QED
  BY <1>1, LimitHolds DEF GateInv, GateHolds
----------------------------------------------------------------------------
(* Listing.  Jobs only grow and end, by their own task or in a recovery when *)
(* it is over, and unless a statement of the task failed the items have      *)
(* ended then; what a page has not shown yet comes after it; a detail was    *)
(* read of a row whose run makes nothing any longer; and whoever reads the   *)
(* tag tree is told of no more than they could see meanwhile.                *)

JobRowType == [by : Viewer \cup {NoViewer}, state : JobState, run : BOOLEAN, items : Seq(RunItem)]
TaskState == {"spawned", "works", "over"}
EndState == {"completed", "failed"}
ItemsFit(items) == \A n \in 1..Len(items) : items[n].state = "in_progress" => items[n].made = NoParent
RowSound(row) ==
    /\ row.items # <<>> => row.run
    /\ row.state \in EndState => Settled(row.items)
    /\ LostRoot(row.items) => Settled(row.items)
JobFits(j) ==
    /\ ItemsFit(jobRows[j].items)
    /\ Ended(j) => task[j] = "over"
    /\ j \notin Begun => jobRows[j].items = <<>>
    /\ j \notin faulty => RowSound(jobRows[j])
JobsFit ==
    /\ jobRows \in Seq(JobRowType) /\ started \in Seq(JobNo) /\ faulty \subseteq JobNo
    /\ task \in Seq(TaskState) /\ Len(task) = Len(jobRows)
    /\ \A m, n \in 1..Len(started) : started[m] = started[n] => m = n
    /\ \A j \in JobNo : JobFits(j)
LabelsFit ==
    /\ gone \subseteq Viewer /\ bared \subseteq Listable
    /\ labels \subseteq Label /\ labelled \subseteq labels \X Listable /\ taggings \in 0..MaxTagging
    /\ \A t \in labels : LabelAbove[t] # NoLabel => LabelAbove[t] \in labels

ReadingType ==
    [at : {"idle", "page", "items", "refused", "direct", "below", "done"}, kind : {"none", "jobs", "runs", "job", "tree"},
     who : Viewer \cup {NoViewer}, owners : SUBSET (Viewer \cup {NoViewer}), job : Nat, row : JobRowType,
     made : SUBSET Listable, offset : Nat, began : SUBSET Nat, got : SUBSET Nat, moved : BOOLEAN,
     nodes : SUBSET Label, direct : [Label -> Nat], below : [Label -> Nat], seen : SUBSET Listable]

RowsOf(q) == IF q.kind = "runs" THEN RunsOf(q.who) ELSE JobsBy(q.who, q.owners)
Newer(kind, rows, j) == {k \in rows : After(kind, j, k)}
Rank(kind, rows, j) == Cardinality(Newer(kind, rows, j))
Lasts(q) == ~q.moved \/ (q.kind = "jobs" /\ q.who \notin gone)

PagesFit(q) ==
    q.kind \in {"jobs", "runs"} =>
        /\ q.at \in {"page", "done"} /\ q.who \in Viewer
        /\ q.kind = "jobs" => /\ q.who \notin Boss => q.owners \subseteq {q.who}
                              /\ \A j \in q.got : j \in JobNo /\ jobRows[j].by \in q.owners
        /\ q.at = "page" /\ ~q.moved => q.who \notin gone
        /\ q.at = "page" /\ Lasts(q) =>
              /\ q.began \subseteq RowsOf(q)
              /\ \A j \in q.began \ q.got : Rank(q.kind, RowsOf(q), j) >= q.offset
        /\ q.at = "done" /\ Lasts(q) => q.began \subseteq q.got
DetailFits(q) ==
    q.kind = "job" =>
        /\ q.at \in {"items", "refused", "done"} /\ q.job \in JobNo
        /\ q.at \in {"items", "done"} => q.who \in Boss \/ q.row.by = q.who
        /\ q.row.state \in EndState =>
              /\ Ended(q.job)
              /\ ~q.row.run /\ q.job \notin faulty => Produced(jobRows[q.job].items) = {}
              /\ q.at = "done" =>
                    /\ q.row.run => q.made = Produced(jobRows[q.job].items)
                    /\ q.job \notin faulty => Settled(q.row.items) /\ q.made = Produced(jobRows[q.job].items)
TreeFits(q) ==
    q.kind = "tree" =>
        /\ q.at \in {"direct", "below", "done"}
        /\ \A t \in q.nodes : LabelAbove[t] # NoLabel => LabelAbove[t] \in q.nodes
        /\ q.at # "done" => {e \in Listable : Sighted(q.who, e)} \subseteq q.seen
        /\ q.at = "below" /\ ~q.moved => \A t \in Label : q.direct[t] <= CountBelow(q.who, t)
        /\ q.at = "done" => \A t \in Label : /\ q.below[t] <= Cardinality(q.seen)
                                             /\ ~q.moved => q.direct[t] <= q.below[t]
ReadFits(q) ==
    /\ q \in ReadingType /\ PagesFit(q) /\ DetailFits(q) /\ TreeFits(q)
    /\ q.kind = "none" <=> q.at = "idle"
ReadingsFit == reading = [r \in Reading |-> reading[r]] /\ \A r \in Reading : ReadFits(reading[r])
ListingInv == JobsFit /\ LabelsFit /\ ReadingsFit

LEMMA ListingFacts ==
  /\ PageSize \in Nat \ {0} /\ JobItemsMax \in Nat /\ MaxTagging \in Nat
  /\ IsFiniteSet(Listable) /\ NoParent \notin Listable /\ NoViewer \notin Viewer /\ Boss \subseteq Viewer
  /\ NoLabel \notin Label /\ LabelAbove \in [Label -> Label \cup {NoLabel}]
  BY ListingAssumption

LEMMA FewerCount ==
  ASSUME NEW S, NEW T, IsFiniteSet(T), S \subseteq T
  PROVE  IsFiniteSet(S) /\ Cardinality(S) \in Nat /\ Cardinality(T) \in Nat /\ Cardinality(S) <= Cardinality(T)
  BY FS_Subset, FS_CardinalityType

LEMMA JobsAreNumbered ==
  ASSUME JobsFit
  PROVE  /\ Len(jobRows) \in Nat /\ IsFiniteSet(JobNo) /\ JobNo \subseteq Nat /\ Begun \subseteq JobNo
         /\ \A j \in JobNo : jobRows[j] \in JobRowType
         /\ \A q : RowsOf(q) \subseteq JobNo /\ (q.kind = "runs" => RowsOf(q) \subseteq Begun)
<1>1. Len(jobRows) \in Nat /\ Len(started) \in Nat /\ \A j \in JobNo : jobRows[j] \in JobRowType
  BY DEF JobsFit, JobNo
<1>2. IsFiniteSet(JobNo)
  BY <1>1, FS_Interval DEF JobNo
<1>3. Begun \subseteq JobNo
  BY DEF JobsFit, Begun
<1>4. \A q : RowsOf(q) \subseteq JobNo /\ (q.kind = "runs" => RowsOf(q) \subseteq Begun)
  BY <1>3 DEF RowsOf, RunsOf, JobsBy
<1>5. QED
  BY <1>1, <1>2, <1>3, <1>4 DEF JobNo

RowsAreJobs ==
    /\ IsFiniteSet(JobNo)
    /\ \A q : RowsOf(q) \subseteq JobNo /\ (q.kind = "runs" => RowsOf(q) \subseteq Begun)
LEMMA RowsStayJobs == JobsFit' => RowsAreJobs'
<1>1. JobsFit => RowsAreJobs
  BY JobsAreNumbered DEF RowsAreJobs
<1>2. QED
  BY <1>1, PTL

(* A job starts once.                                                        *)
LEMMA StartsOnce ==
  ASSUME JobsFit, NEW j \in Begun
  PROVE  /\ StartedAt(j) \in 1..Len(started) /\ started[StartedAt(j)] = j
         /\ \A n \in 1..Len(started) : started[n] = j => n = StartedAt(j)
<1>1. \E n \in 1..Len(started) : started[n] = j
  BY DEF Begun
<1>2. StartedAt(j) \in 1..Len(started) /\ started[StartedAt(j)] = j
  BY <1>1 DEF StartedAt
<1>3. QED
  BY <1>2 DEF JobsFit

(* Where a row comes in its list.                                            *)
Position(kind, j) == IF kind = "runs" THEN StartedAt(j) ELSE j
LEMMA RowsAreInOrder ==
  ASSUME JobsFit, NEW kind, NEW rows \in SUBSET JobNo, kind = "runs" => rows \subseteq Begun
  PROVE  /\ \A j, k \in rows : After(kind, j, k) <=> Position(kind, k) > Position(kind, j)
         /\ \A j \in rows : Position(kind, j) \in Nat
         /\ \A j, k \in rows : Position(kind, j) = Position(kind, k) => j = k
         /\ IsFiniteSet(rows)
<1>1. IsFiniteSet(rows) /\ JobNo \subseteq Nat /\ Len(started) \in Nat
  <2>1. IsFiniteSet(JobNo) /\ JobNo \subseteq Nat
    BY JobsAreNumbered
  <2>2. IsFiniteSet(rows)
    BY <2>1, FewerCount
  <2>3. QED
    BY <2>1, <2>2 DEF JobsFit
<1>2. \A j, k \in rows : After(kind, j, k) <=> Position(kind, k) > Position(kind, j)
  BY DEF After, Position
<1>3. \A j \in rows : Position(kind, j) \in Nat
  BY <1>1, StartsOnce DEF Position
<1>4. \A j, k \in rows : Position(kind, j) = Position(kind, k) => j = k
  BY StartsOnce DEF Position
<1>5. QED
  BY <1>1, <1>2, <1>3, <1>4

(* A page is only short if nothing comes after it.                           *)
LEMMA FullPages ==
  ASSUME JobsFit, NEW kind, NEW rows \in SUBSET JobNo, kind = "runs" => rows \subseteq Begun, NEW all,
         NEW offset \in Nat, NEW j \in rows, Rank(kind, rows, j) >= offset + PageSize
  PROVE  Cardinality(Cut(kind, rows, all, offset)) >= PageSize
<1> DEFINE n == Cardinality(rows)
           rank(k) == Rank(kind, rows, k)
           pos(k) == Position(kind, k)
<1>1. /\ \A k, m \in rows : m \in Newer(kind, rows, k) <=> pos(m) > pos(k)
      /\ \A k \in rows : pos(k) \in Nat
      /\ \A k, m \in rows : pos(k) = pos(m) => k = m
      /\ IsFiniteSet(rows) /\ n \in Nat
  BY RowsAreInOrder, FS_CardinalityType DEF Newer
<1>2. ASSUME NEW k \in rows PROVE Newer(kind, rows, k) \subseteq rows /\ rank(k) \in Nat /\ rank(k) <= n - 1
  <2>1. Newer(kind, rows, k) \subseteq rows \ {k} /\ IsFiniteSet(rows \ {k}) /\ Cardinality(rows \ {k}) = n - 1
    BY <1>1, FS_RemoveElement DEF Newer
  <2>2. rank(k) \in Nat /\ rank(k) <= Cardinality(rows \ {k})
    BY <2>1, FewerCount DEF Rank
  <2>3. QED
    BY <2>1, <2>2
<1>3. ASSUME NEW k \in rows, NEW m \in rows, pos(k) < pos(m) PROVE rank(m) < rank(k)
  <2>1. m \in Newer(kind, rows, k) /\ Newer(kind, rows, m) \subseteq Newer(kind, rows, k) \ {m}
    <3>1. Newer(kind, rows, m) \subseteq rows
      BY <1>2
    <3>2. QED
      BY <1>1, <1>3, <3>1
  <2>2. IsFiniteSet(Newer(kind, rows, k)) /\ rank(k) \in Nat
    BY <1>1, <1>2, FewerCount
  <2>3. IsFiniteSet(Newer(kind, rows, k) \ {m}) /\ Cardinality(Newer(kind, rows, k) \ {m}) = rank(k) - 1
    BY <2>1, <2>2, FS_RemoveElement DEF Rank
  <2>4. rank(m) <= rank(k) - 1 /\ rank(m) \in Nat
    BY <2>1, <2>3, FewerCount DEF Rank
  <2>5. QED
    BY <2>2, <2>4
<1> HIDE DEF pos
<1>4. \A k, m \in rows : rank(k) = rank(m) => k = m
  <2> SUFFICES ASSUME NEW k \in rows, NEW m \in rows, k # m PROVE rank(k) # rank(m)
    OBVIOUS
  <2>1. pos(k) \in Nat /\ pos(m) \in Nat /\ pos(k) # pos(m)
    BY <1>1
  <2>2. rank(k) \in Nat /\ rank(m) \in Nat /\ (rank(k) < rank(m) \/ rank(m) < rank(k))
    BY <1>2, <1>3, <2>1
  <2>3. QED
    BY <2>2
<1> HIDE DEF rank
<1> DEFINE F == [k \in rows |-> rank(k)]
           to == 0..n - 1
<1>5. F \in Injection(rows, to)
  <2>1. F \in [rows -> to]
    BY <1>1, <1>2
  <2>2. QED
    BY <1>4, <2>1 DEF Injection, IsInjective
<1>6. IsFiniteSet(to) /\ Cardinality(to) = n
  <2>1. 0 \in Int /\ n - 1 \in Int
    BY <1>1
  <2>2. IsFiniteSet(to) /\ Cardinality(to) = IF 0 > n - 1 THEN 0 ELSE n - 1 - 0 + 1
    BY <2>1, FS_Interval
  <2>3. QED
    BY <1>1, <2>2
<1>7. \A x \in to : \E k \in rows : rank(k) = x
  <2>1. F \in Surjection(rows, to)
    <3> HIDE DEF F, to
    <3>1. QED
      BY <1>5, <1>6, FS_Injection
  <2>2. QED
    BY <2>1 DEF Surjection
<1> DEFINE page == Cut(kind, rows, all, offset)
           span == offset..offset + PageSize - 1
           G == [k \in page |-> rank(k)]
<1>8. PageSize \in Nat \ {0} /\ rank(j) >= offset + PageSize /\ rank(j) <= n - 1 /\ rank(j) \in Nat
  BY <1>2, ListingFacts DEF rank
<1>9. span \subseteq to
  BY <1>1, <1>8
<1>10. page = {k \in rows : rank(k) \in span}
  BY DEF Cut, rank, Rank, Newer
<1>11. G \in Surjection(page, span)
  <2> HIDE DEF page, span, to
  <2>1. G \in [page -> span]
    BY <1>10
  <2>2. \A x \in span : \E k \in page : G[k] = x
    BY <1>7, <1>9, <1>10
  <2>3. QED
    BY <2>1, <2>2 DEF Surjection
<1>12. IsFiniteSet(page) /\ Cardinality(page) \in Nat
  <2>1. page \subseteq rows
    BY <1>10
  <2>2. QED
    BY <1>1, <2>1, FewerCount
<1>13. Cardinality(span) = PageSize
  <2>1. offset \in Int /\ offset + PageSize - 1 \in Int
    BY <1>8
  <2>2. Cardinality(span) = IF offset > offset + PageSize - 1 THEN 0 ELSE (offset + PageSize - 1) - offset + 1
    BY <2>1, FS_Interval
  <2>3. QED
    BY <1>8, <2>2
<1>14. Cardinality(span) <= Cardinality(page)
  <2> HIDE DEF page, span, G
  <2>1. QED
    BY <1>11, <1>12, FS_Surjection
<1>15. QED
  BY <1>8, <1>12, <1>13, <1>14

(* What captures do to the jobs and runs that are listed.                    *)
JobsGrow ==
    /\ Len(jobRows) <= Len(jobRows') /\ Len(started) <= Len(started')
    /\ faulty \subseteq faulty'
    /\ \A j \in JobNo : /\ jobRows'[j].by = jobRows[j].by /\ (jobRows[j].run => jobRows'[j].run)
                        /\ Produced(jobRows[j].items) \subseteq Produced(jobRows'[j].items)
                        /\ Ended(j) => Ended(j)' /\ Produced(jobRows'[j].items) = Produced(jobRows[j].items)
    /\ \A n \in 1..Len(started) : started'[n] = started[n]

LEMMA RowsGrow ==
  ASSUME JobsFit, JobsFit', JobsGrow, gone' = gone, bared' = bared, NEW q
  PROVE  /\ JobNo \subseteq JobNo' /\ RowsOf(q) \subseteq RowsOf(q)'
         /\ \A j \in RowsOf(q) : /\ Rank(q.kind, RowsOf(q), j) \in Nat /\ Rank(q.kind, RowsOf(q), j)' \in Nat
                                 /\ Rank(q.kind, RowsOf(q), j) <= Rank(q.kind, RowsOf(q), j)'
<1>1. Len(jobRows) \in Nat /\ Len(jobRows') \in Nat /\ Len(started) \in Nat /\ Len(started') \in Nat
  BY DEF JobsFit
<1>2. JobNo \subseteq JobNo'
  BY <1>1 DEF JobsGrow, JobNo
<1>3. Begun \subseteq Begun'
  <2> SUFFICES ASSUME NEW n \in 1..Len(started) PROVE started[n] \in Begun'
    BY DEF Begun
  <2>1. n \in 1..Len(started') /\ started'[n] = started[n]
    BY <1>1 DEF JobsGrow
  <2>2. QED
    BY <2>1 DEF Begun
<1>4. RowsOf(q) \subseteq RowsOf(q)'
  <2>1. CASE q.kind = "runs"
    <3>1. \A j \in RunsOf(q.who) : j \in RunsOf(q.who)'
      <4> SUFFICES ASSUME NEW j \in RunsOf(q.who) PROVE j \in RunsOf(q.who)'
        OBVIOUS
      <4>1. j \in JobNo /\ j \in Begun' /\ j \in Begun
        BY <1>3, JobsAreNumbered DEF RunsOf
      <4>2. jobRows'[j].by = jobRows[j].by /\ (jobRows[j].run => jobRows'[j].run)
            /\ Produced(jobRows[j].items) \subseteq Produced(jobRows'[j].items)
        BY <4>1 DEF JobsGrow
      <4>3. \/ q.who \in Boss \/ (q.who \notin gone' /\ jobRows'[j].run /\ jobRows'[j].by = q.who)
            \/ \E e \in Produced(jobRows'[j].items) : SightedWith(bared', q.who, e)
        BY <4>2 DEF RunsOf, Sighted
      <4>4. QED
        BY <4>1, <4>3 DEF RunsOf, Sighted
    <3>2. QED
      BY <2>1, <3>1 DEF RowsOf
  <2>2. CASE q.kind # "runs"
    BY <1>2, <2>2 DEF RowsOf, JobsBy, JobsGrow
  <2>3. QED
    BY <2>1, <2>2
<1>5. ASSUME NEW j \in RowsOf(q)
      PROVE  /\ Rank(q.kind, RowsOf(q), j) \in Nat /\ Rank(q.kind, RowsOf(q), j)' \in Nat
             /\ Rank(q.kind, RowsOf(q), j) <= Rank(q.kind, RowsOf(q), j)'
  <2>1. /\ IsFiniteSet(JobNo') /\ RowsOf(q)' \subseteq JobNo' /\ RowsOf(q) \subseteq JobNo
        /\ q.kind = "runs" => RowsOf(q) \subseteq Begun /\ RowsOf(q)' \subseteq Begun'
    <3>1. IsFiniteSet(JobNo') /\ RowsOf(q)' \subseteq JobNo' /\ (q.kind = "runs" => RowsOf(q)' \subseteq Begun')
      BY RowsStayJobs DEF RowsAreJobs
    <3>2. RowsOf(q) \subseteq JobNo /\ (q.kind = "runs" => RowsOf(q) \subseteq Begun)
      BY JobsAreNumbered
    <3>3. QED
      BY <3>1, <3>2
  <2>2. ASSUME NEW k \in RowsOf(q), q.kind = "runs" PROVE StartedAt(k)' = StartedAt(k)
    <3>1. StartedAt(k) \in 1..Len(started) /\ started[StartedAt(k)] = k
      BY <2>1, <2>2, StartsOnce
    <3>2. StartedAt(k) \in 1..Len(started') /\ started'[StartedAt(k)] = k
      BY <1>1, <3>1 DEF JobsGrow
    <3>3. \A n \in 1..Len(started') : started'[n] = k => n = StartedAt(k)
      BY <3>2 DEF JobsFit
    <3>4. StartedAt(k)' \in 1..Len(started') /\ started'[StartedAt(k)'] = k
      BY <3>2 DEF StartedAt
    <3>5. QED
      BY <3>3, <3>4
  <2>3. Newer(q.kind, RowsOf(q), j) \subseteq Newer(q.kind, RowsOf(q), j)'
    <3> SUFFICES ASSUME NEW k \in RowsOf(q), After(q.kind, j, k) PROVE k \in RowsOf(q)' /\ After(q.kind, j, k)'
      BY DEF Newer
    <3>1. QED
      BY <1>4, <2>2 DEF After
  <2>4. Newer(q.kind, RowsOf(q), j)' \subseteq JobNo'
    BY <2>1 DEF Newer
  <2>5. IsFiniteSet(Newer(q.kind, RowsOf(q), j)') /\ Cardinality(Newer(q.kind, RowsOf(q), j)') \in Nat
    BY <2>1, <2>4, FewerCount
  <2>6. QED
    BY <2>3, <2>5, FewerCount DEF Rank
<1>6. QED
  BY <1>2, <1>4, <1>5

LEMMA UnreadIs ==
  /\ Unread \in ReadingType /\ Unread.at = "idle" /\ Unread.kind = "none" /\ Unread.got = {} /\ Unread.moved = FALSE
  /\ Unread.offset = 0 /\ Unread.owners = {} /\ Unread.began = {} /\ Unread.nodes = {} /\ Unread.seen = {}
  BY DEF Unread, ReadingType, JobRowType, JobState, NewRow

LEMMA UnreadFits == ReadFits(Unread)
  BY UnreadIs DEF ReadFits, PagesFit, DetailFits, TreeFits

(* All tasks are over.                                                       *)
LEMMA TasksOver ==
  ASSUME NEW n \in Nat, NEW tasks, tasks = [j \in 1..n |-> "over"]
  PROVE  tasks \in Seq(TaskState) /\ Len(tasks) = n
<1>1. tasks \in [1..n -> TaskState]
  BY DEF TaskState
<1>2. tasks \in Seq(TaskState)
  BY <1>1, SeqDef
<1>3. QED
  BY <1>1, <1>2, LenProperties

LEMMA ListingStart == ListingInit => ListingInv
<1> SUFFICES ASSUME ListingInit PROVE ListingInv
  OBVIOUS
<1> DEFINE first == [NewRow(NoViewer) EXCEPT !.state = "failed"]
<1>1. JobsFit
  <2>1. first \in JobRowType /\ first.items = <<>> /\ Len(<<>>) = 0
    <3>1. first = [by |-> NoViewer, state |-> "failed", run |-> FALSE, items |-> <<>>]
      <4>1. PICK blank : blank = <<FALSE, <<>>>>
        OBVIOUS
      <4>2. NewRow(NoViewer) = [by |-> NoViewer, state |-> "pending", run |-> blank[1], items |-> blank[2]]
        BY <4>1 DEF NewRow
      <4>3. first = [by |-> NoViewer, state |-> "failed", run |-> blank[1], items |-> blank[2]]
        BY <4>2
      <4>4. QED
        BY <4>1, <4>3
    <3> HIDE DEF first
    <3>2. <<>> \in Seq(RunItem) /\ "failed" \in JobState
      BY DEF JobState
    <3>3. QED
      BY <3>1, <3>2 DEF JobRowType
  <2> HIDE DEF first
  <2>2. jobRows \in {<<>>, <<first>>} /\ started = <<>> /\ faulty = {}
    BY DEF ListingInit, first
  <2>3. jobRows \in Seq(JobRowType) /\ started \in Seq(JobNo) /\ Len(started) = 0 /\ Len(jobRows) \in Nat
    <3>1. <<first>> \in Seq(JobRowType) /\ <<>> \in Seq(JobRowType) /\ <<>> \in Seq(JobNo)
      BY <2>1
    <3>2. QED
      BY <2>2, <3>1
  <2>4. task = [j \in 1..Len(jobRows) |-> "over"]
    BY DEF ListingInit, JobNo
  <2>5. task \in Seq(TaskState) /\ Len(task) = Len(jobRows)
    BY <2>3, <2>4, TasksOver
  <2>6. \A j \in JobNo : jobRows[j] = first /\ task[j] = "over"
    <3>1. CASE jobRows = <<>>
      BY <3>1 DEF JobNo
    <3>2. CASE jobRows = <<first>>
      BY <2>4, <3>2 DEF JobNo
    <3>3. QED
      BY <2>2, <3>1, <3>2
  <2>7. ASSUME NEW j \in JobNo PROVE JobFits(j)
    BY <2>1, <2>6 DEF JobFits, RowSound, ItemsFit, Settled, LostRoot
  <2>8. QED
    BY <2>2, <2>3, <2>5, <2>7 DEF JobsFit
<1>2. LabelsFit
  BY ListingFacts DEF ListingInit, LabelsFit
<1>3. QED
  BY <1>1, <1>2, UnreadFits DEF ListingInit, ListingInv, ReadingsFit

LEMMA SightStands ==
  ASSUME UNCHANGED <<bared, labels, labelled>>
  PROVE  /\ \A v, e : Sighted(v, e)' = Sighted(v, e)
         /\ \A v, t : CountBelow(v, t)' = CountBelow(v, t)
<1>1. \A v, e : Sighted(v, e)' = Sighted(v, e)
  BY DEF Sighted, SightedWith
<1>2. \A t : EntriesFor(t)' = EntriesFor(t)
  BY DEF EntriesFor, LabelledBelow, ClosedBelow
<1>3. ASSUME NEW v, NEW t PROVE CountBelow(v, t)' = CountBelow(v, t)
  <2>1. {e \in EntriesFor(t) : Sighted(v, e)}' = {e \in EntriesFor(t) : Sighted(v, e)}
    BY <1>1, <1>2
  <2>2. QED
    BY <2>1 DEF CountBelow
<1>4. QED
  BY <1>1, <1>3

(* What is read stays right while captures go on.                            *)
LEMMA ReadsStand ==
  ASSUME ListingInv, JobsGrow, JobsFit', UNCHANGED <<gone, bared, labelVars>>
  PROVE  \A q : ReadFits(q) => ReadFits(q)'
<1>0. JobsFit /\ UNCHANGED <<gone, bared, labels, labelled>>
  BY DEF ListingInv, labelVars
<1>1. ASSUME NEW q, ReadFits(q) PROVE ReadFits(q)'
  <2>1. /\ JobNo \subseteq JobNo' /\ RowsOf(q) \subseteq RowsOf(q)'
        /\ \A j \in RowsOf(q) : /\ Rank(q.kind, RowsOf(q), j) \in Nat /\ Rank(q.kind, RowsOf(q), j)' \in Nat
                                /\ Rank(q.kind, RowsOf(q), j) <= Rank(q.kind, RowsOf(q), j)'
    BY <1>0, RowsGrow
  <2>2. q \in ReadingType /\ PagesFit(q) /\ DetailFits(q) /\ TreeFits(q) /\ (q.kind = "none" <=> q.at = "idle")
    BY <1>1 DEF ReadFits
  <2>3. q \in ReadingType' /\ q.offset \in Nat
    BY <2>2 DEF ReadingType, JobRowType
  <2>4. PagesFit(q)'
    <3> SUFFICES ASSUME q.kind \in {"jobs", "runs"}
                 PROVE  /\ q.at \in {"page", "done"} /\ q.who \in Viewer
                        /\ q.kind = "jobs" => /\ q.who \notin Boss => q.owners \subseteq {q.who}
                                              /\ \A j \in q.got : j \in JobNo' /\ jobRows'[j].by \in q.owners
                        /\ q.at = "page" /\ ~q.moved => q.who \notin gone'
                        /\ q.at = "page" /\ Lasts(q)' =>
                              /\ q.began \subseteq RowsOf(q)'
                              /\ \A j \in q.began \ q.got : Rank(q.kind, RowsOf(q), j)' >= q.offset
                        /\ q.at = "done" /\ Lasts(q)' => q.began \subseteq q.got
      BY DEF PagesFit
    <3>1. Lasts(q)' <=> Lasts(q)
      BY <1>0 DEF Lasts
    <3>2. \A j \in JobNo : jobRows'[j].by = jobRows[j].by
      BY DEF JobsGrow
    <3>3. q.at = "page" /\ Lasts(q) => \A j \in q.began \ q.got : Rank(q.kind, RowsOf(q), j)' >= q.offset
      BY <2>1, <2>2, <2>3 DEF PagesFit
    <3>4. QED
      BY <1>0, <2>1, <2>2, <3>1, <3>2, <3>3 DEF PagesFit
  <2>5. DetailFits(q)'
    <3> SUFFICES ASSUME q.kind = "job"
                 PROVE  /\ q.at \in {"items", "refused", "done"} /\ q.job \in JobNo'
                        /\ q.at \in {"items", "done"} => q.who \in Boss \/ q.row.by = q.who
                        /\ q.row.state \in EndState =>
                              /\ Ended(q.job)'
                              /\ Produced(jobRows'[q.job].items) = Produced(jobRows[q.job].items)
                              /\ q.job \notin faulty' => q.job \notin faulty
      BY <2>2 DEF DetailFits
    <3>1. q.job \in JobNo
      BY <2>2 DEF DetailFits
    <3>2. q.row.state \in EndState => Ended(q.job)
      BY <2>2 DEF DetailFits
    <3>3. QED
      BY <2>1, <2>2, <3>1, <3>2 DEF DetailFits, JobsGrow
  <2>6. TreeFits(q)'
    BY <1>0, <2>2, SightStands DEF TreeFits
  <2>7. QED
    BY <2>2, <2>3, <2>4, <2>5, <2>6 DEF ReadFits
<1>2. QED
  BY <1>1

LEMMA JobStepKeeps ==
  ASSUME ListingInv, JobsGrow, JobsFit', UNCHANGED listsRest
  PROVE  ListingInv'
<1>1. UNCHANGED <<gone, bared, labels, labelled, labelVars, taggings, reading>>
  BY DEF listsRest, labelVars
<1>2. ReadingsFit'
  BY <1>1, ReadsStand DEF ListingInv, ReadingsFit
<1>3. LabelsFit'
  BY <1>1 DEF ListingInv, LabelsFit
<1>4. QED
  BY <1>2, <1>3 DEF ListingInv

LEMMA JobsRest == JobsFit /\ UNCHANGED <<jobRows, task, faulty, started>> => JobsFit'
<1> SUFFICES ASSUME JobsFit, UNCHANGED <<jobRows, task, faulty, started>> PROVE JobsFit'
  OBVIOUS
<1>1. JobNo' = JobNo /\ Begun' = Begun /\ \A j : Ended(j)' <=> Ended(j)
  BY DEF JobNo, Begun, Ended
<1>2. \A j \in JobNo : JobFits(j)'
  BY <1>1 DEF JobsFit, JobFits
<1>3. QED
  BY <1>1, <1>2 DEF JobsFit

(* What is read is marked as overtaken, and what can be seen meanwhile is    *)
(* noted, whenever tags, masks or accounts change.                           *)
LEMMA OvertakeKeeps ==
  ASSUME ListingInv, Overtakes, UNCHANGED <<jobRows, task, faulty, started>>, LabelsFit', gone \subseteq gone'
  PROVE  ListingInv'
<1>0. JobsFit /\ LabelsFit /\ ReadingsFit
  BY DEF ListingInv
<1>1. JobsFit' /\ JobNo' = JobNo
  BY <1>0, JobsRest DEF JobNo
<1> DEFINE Now(w) == {e \in Listable : SightedWith(bared', w, e)}
<1>2. ASSUME NEW q, ReadFits(q), q.at \in {"idle", "done"} PROVE ReadFits(q)'
  <2>1. Lasts(q)' => Lasts(q)
    BY DEF Lasts
  <2>2. q \in ReadingType'
    BY <1>2 DEF ReadFits, ReadingType, JobRowType
  <2>3. PagesFit(q)'
    BY <1>1, <1>2, <2>1 DEF ReadFits, PagesFit
  <2>4. DetailFits(q)'
    BY <1>1, <1>2 DEF ReadFits, DetailFits, Ended
  <2>5. TreeFits(q)'
    BY <1>2 DEF ReadFits, TreeFits
  <2>6. QED
    BY <1>2, <2>2, <2>3, <2>4, <2>5 DEF ReadFits
<1>3. ASSUME NEW q, ReadFits(q), q.at \notin {"idle", "done"},
             NEW p, p = [q EXCEPT !.moved = TRUE, !.seen = @ \cup Now(q.who)]
      PROVE  ReadFits(p)'
  <2>1. q \in ReadingType /\ Now(q.who) \subseteq Listable
    BY <1>3 DEF ReadFits
  <2>2. /\ p \in ReadingType /\ p.at = q.at /\ p.kind = q.kind /\ p.who = q.who /\ p.owners = q.owners /\ p.job = q.job
        /\ p.row = q.row /\ p.made = q.made /\ p.offset = q.offset /\ p.began = q.began /\ p.got = q.got
        /\ p.moved = TRUE /\ p.nodes = q.nodes /\ p.direct = q.direct /\ p.below = q.below
        /\ p.seen = q.seen \cup Now(q.who)
    <3> HIDE DEF Now
    <3>1. QED
      BY <1>3, <2>1 DEF ReadingType
  <2>3. p \in ReadingType'
    BY <2>2 DEF ReadingType, JobRowType
  <2>4. PagesFit(p)'
    <3>1. CASE q.kind = "jobs"
      <4>1. PagesFit(q)
        BY <1>3 DEF ReadFits
      <4>2. ASSUME Lasts(p)' PROVE Lasts(q) /\ RowsOf(p)' = RowsOf(q)
        <5>1. q.who \notin gone' /\ q.who \notin gone
          BY <2>2, <4>2 DEF Lasts
        <5>2. QED
          BY <1>1, <2>2, <3>1, <5>1 DEF Lasts, RowsOf, JobsBy
      <4>3. \A rows, j : Rank("jobs", rows, j)' = Rank("jobs", rows, j)
        BY DEF Rank, Newer, After
      <4>4. /\ p.at = "page" /\ Lasts(p)' =>
                    /\ p.began \subseteq RowsOf(p)'
                    /\ \A j \in p.began \ p.got : Rank(p.kind, RowsOf(p), j)' >= p.offset
            /\ p.at = "done" => p.began \subseteq p.got
        <5>1. p.at = "page"
          BY <1>3, <2>2, <3>1, <4>1 DEF PagesFit
        <5>2. ASSUME Lasts(p)'
              PROVE  p.began \subseteq RowsOf(p)' /\ \A j \in p.began \ p.got : Rank(p.kind, RowsOf(p), j)' >= p.offset
          <6>1. q.began \subseteq RowsOf(q) /\ \A j \in q.began \ q.got : Rank("jobs", RowsOf(q), j) >= q.offset
            BY <2>2, <3>1, <4>1, <4>2, <5>1, <5>2 DEF PagesFit
          <6>2. \A j : Rank(p.kind, RowsOf(p), j)' = Rank("jobs", RowsOf(q), j)
            BY <2>2, <3>1, <4>2, <4>3, <5>2 DEF Rank, Newer, After
          <6>3. QED
            BY <2>2, <4>2, <5>2, <6>1, <6>2
        <5>3. QED
          BY <5>1, <5>2
      <4>5. QED
        BY <1>1, <2>2, <3>1, <4>1, <4>4 DEF PagesFit
    <3>2. CASE q.kind = "runs"
      BY <1>3, <2>2, <3>2 DEF PagesFit, ReadFits, Lasts
    <3>3. CASE q.kind \notin {"jobs", "runs"}
      BY <2>2, <3>3 DEF PagesFit
    <3>4. QED
      BY <3>1, <3>2, <3>3
  <2>5. DetailFits(p)'
    BY <1>1, <1>3, <2>2 DEF ReadFits, DetailFits, Ended
  <2>6. TreeFits(p)'
    BY <1>3, <2>2 DEF ReadFits, TreeFits, Sighted
  <2>7. QED
    BY <1>3, <2>2, <2>3, <2>4, <2>5, <2>6 DEF ReadFits
<1>4. reading' = [r \in Reading |-> 
            IF r \notin Waiting THEN reading[r]
            ELSE [reading[r] EXCEPT !.moved = TRUE, !.seen = @ \cup Now(reading[r].who)]]
  BY DEF Overtakes
<1>5. ASSUME NEW r \in Reading PROVE ReadFits(reading[r])'
  <2>1. ReadFits(reading[r])
    BY <1>0 DEF ReadingsFit
  <2>2. CASE r \notin Waiting
    BY <1>2, <1>4, <2>1, <2>2 DEF Waiting
  <2>3. CASE r \in Waiting
    <3>1. PICK q : q = reading[r]
      OBVIOUS
    <3>2. PICK p : p = reading'[r]
      OBVIOUS
    <3>3. p = [q EXCEPT !.moved = TRUE, !.seen = @ \cup Now(q.who)] /\ q.at \notin {"idle", "done"}
      BY <1>4, <2>3, <3>1, <3>2 DEF Waiting
    <3>4. ReadFits(p)'
      BY <1>3, <2>1, <3>1, <3>3
    <3>5. QED
      BY <3>2, <3>4
  <2>4. QED
    BY <2>2, <2>3
<1>6. ReadingsFit'
  BY <1>4, <1>5 DEF ReadingsFit
<1>7. QED
  BY <1>1, <1>6 DEF ListingInv

(* A request reads on.                                                       *)
LEMMA ReadStepKeeps ==
  ASSUME ListingInv, NEW r \in Reading, NEW q, reading' = [reading EXCEPT ![r] = q], ReadFits(q),
         UNCHANGED <<jobVars, bared, labelVars, taggings>>
  PROVE  ListingInv'
<1>0. UNCHANGED <<jobRows, task, faulty, started, gone, bared, labels, labelled, taggings>>
  BY DEF jobVars, labelVars
<1>1. JobsFit' /\ LabelsFit'
  BY <1>0, JobsRest DEF ListingInv, LabelsFit
<1>2. ASSUME NEW p, ReadFits(p) PROVE ReadFits(p)'
  <2>1. JobNo' = JobNo /\ RowsOf(p)' = RowsOf(p) /\ Lasts(p)' = Lasts(p)
    BY <1>0 DEF JobNo, RowsOf, RunsOf, JobsBy, Sighted, Begun, Lasts
  <2>2. \A rows, kind, j : Rank(kind, rows, j)' = Rank(kind, rows, j)
    BY <1>0 DEF Rank, Newer, After, StartedAt
  <2>3. PagesFit(p)'
    BY <1>0, <1>2, <2>1, <2>2 DEF ReadFits, PagesFit
  <2>4. DetailFits(p)'
    BY <1>0, <1>2, <2>1 DEF ReadFits, DetailFits, Ended
  <2>5. TreeFits(p)'
    BY <1>0, <1>2, SightStands DEF ReadFits, TreeFits
  <2>6. p \in ReadingType'
    BY <1>2 DEF ReadFits, ReadingType, JobRowType
  <2>7. QED
    BY <1>2, <2>3, <2>4, <2>5, <2>6 DEF ReadFits
<1>3. ReadFits(q)'
  BY <1>2
<1>4. reading' = [s \in Reading |-> reading'[s]] /\ reading'[r] = q /\ \A s \in Reading : s # r => reading'[s] = reading[s]
  BY DEF ListingInv, ReadingsFit
<1>5. ASSUME NEW s \in Reading PROVE ReadFits(reading[s])'
  <2>1. CASE s = r
    BY <1>3, <1>4, <2>1
  <2>2. CASE s # r
    <3>1. PICK p : p = reading[s]
      OBVIOUS
    <3>2. ReadFits(p)'
      BY <1>2, <3>1 DEF ListingInv, ReadingsFit
    <3>3. reading'[s] = p
      BY <1>4, <2>2, <3>1
    <3>4. QED
      BY <3>2, <3>3
  <2>3. QED
    BY <2>1, <2>2
<1>6. QED
  BY <1>1, <1>4, <1>5 DEF ListingInv, ReadingsFit

(* Captures: the row of a job whose task is not over changes, keeping what   *)
(* it produced.                                                              *)
LEMMA TaskStepKeeps ==
  ASSUME ListingInv, NEW j \in JobNo, NEW row \in JobRowType, NEW t \in TaskState, task[j] # "over",
         jobRows' = [jobRows EXCEPT ![j] = row], task' = [task EXCEPT ![j] = t],
         faulty' = faulty \/ faulty' = faulty \cup {j}, UNCHANGED <<started, listsRest>>,
         row.by = jobRows[j].by, jobRows[j].run => row.run, Produced(jobRows[j].items) \subseteq Produced(row.items),
         ItemsFit(row.items), row.state \in EndState => t = "over", j \notin Begun => row.items = <<>>,
         j \notin faulty' => RowSound(row)
  PROVE  ListingInv'
<1>1. jobRows \in Seq(JobRowType) /\ Len(jobRows) \in Nat /\ j \in 1..Len(jobRows) /\ task \in Seq(TaskState) /\ Len(task) = Len(jobRows)
  BY DEF ListingInv, JobsFit, JobNo
<1>2. /\ jobRows' \in Seq(JobRowType) /\ Len(jobRows') = Len(jobRows) /\ jobRows'[j] = row
      /\ \A k \in JobNo : k # j => jobRows'[k] = jobRows[k]
  BY <1>1, ExceptSeq DEF JobNo
<1>3. /\ task' \in Seq(TaskState) /\ Len(task') = Len(task) /\ task'[j] = t
      /\ \A k \in JobNo : k # j => task'[k] = task[k]
  BY <1>1, ExceptSeq DEF JobNo
<1>4. JobNo' = JobNo /\ Begun' = Begun
  BY <1>2 DEF JobNo, Begun
<1>5. ASSUME NEW k \in JobNo PROVE JobFits(k)'
  <2>1. CASE k = j
    <3>1. jobRows'[k] = row /\ task'[k] = t /\ (k \notin Begun' => k \notin Begun)
      BY <1>2, <1>3, <1>4, <2>1
    <3>2. Ended(k)' <=> row.state \in EndState
      BY <3>1 DEF Ended, EndState
    <3>3. QED
      BY <2>1, <3>1, <3>2 DEF JobFits
  <2>2. CASE k # j
    <3>1. JobFits(k) /\ jobRows'[k] = jobRows[k] /\ task'[k] = task[k] /\ (k \in faulty' <=> k \in faulty)
      BY <1>2, <1>3, <2>2 DEF ListingInv, JobsFit
    <3>2. Ended(k)' <=> Ended(k)
      BY <3>1 DEF Ended
    <3>3. QED
      BY <1>4, <3>1, <3>2 DEF JobFits
  <2>3. QED
    BY <2>1, <2>2
<1>6. JobRowType' = JobRowType /\ faulty' \subseteq JobNo
  BY DEF JobRowType, JobState, ListingInv, JobsFit
<1>7. JobsFit'
  BY <1>1, <1>2, <1>3, <1>4, <1>5, <1>6 DEF ListingInv, JobsFit
<1>8. JobsGrow
  <2>1. Len(started) \in Nat /\ ~Ended(j)
    BY DEF ListingInv, JobsFit, JobFits
  <2>2. ASSUME NEW k \in JobNo
        PROVE  /\ jobRows'[k].by = jobRows[k].by /\ (jobRows[k].run => jobRows'[k].run)
               /\ Produced(jobRows[k].items) \subseteq Produced(jobRows'[k].items)
               /\ Ended(k) => Ended(k)' /\ Produced(jobRows'[k].items) = Produced(jobRows[k].items)
    <3>1. CASE k = j
      BY <1>2, <2>1, <3>1
    <3>2. CASE k # j
      BY <1>2, <3>2 DEF Ended
    <3>3. QED
      BY <3>1, <3>2
  <2>3. QED
    BY <1>1, <1>2, <2>1, <2>2 DEF JobsGrow
<1>9. QED
  BY <1>7, <1>8, JobStepKeeps

LEMMA JobTyped ==
  ASSUME JobsFit, NEW j \in JobNo
  PROVE  /\ jobRows[j] \in JobRowType /\ jobRows[j].items \in Seq(RunItem) /\ Len(jobRows[j].items) \in Nat
         /\ jobRows[j].by \in Viewer \cup {NoViewer} /\ jobRows[j].state \in JobState /\ jobRows[j].run \in BOOLEAN
         /\ jobRows[j] = [by |-> jobRows[j].by, state |-> jobRows[j].state, run |-> jobRows[j].run, items |-> jobRows[j].items]
         /\ task[j] \in TaskState /\ task = [task EXCEPT ![j] = task[j]] /\ jobRows = [jobRows EXCEPT ![j] = jobRows[j]]
         /\ JobFits(j)
<1>1. jobRows[j] \in JobRowType /\ JobFits(j)
  BY JobsAreNumbered DEF JobsFit
<1>2. j \in 1..Len(jobRows) /\ jobRows \in Seq(JobRowType) /\ task \in Seq(TaskState) /\ Len(task) = Len(jobRows)
  BY DEF JobsFit, JobNo
<1>3. task[j] \in TaskState /\ task \in [1..Len(task) -> TaskState] /\ jobRows \in [1..Len(jobRows) -> JobRowType]
  BY <1>2, ElementOfSeq, LenProperties
<1>4. task = [task EXCEPT ![j] = task[j]] /\ jobRows = [jobRows EXCEPT ![j] = jobRows[j]]
  BY <1>3
<1>5. QED
  BY <1>1, <1>3, <1>4 DEF JobRowType

LEMMA SubmitJobKeeps == ASSUME ListingInv, NEW v \in Viewer, SubmitJob(v) PROVE ListingInv'
<1> DEFINE row == NewRow(v)
<1>1. row \in JobRowType /\ row.state = "pending" /\ row.items = <<>> /\ Len(<<>>) = 0
  BY DEF JobRowType, JobState, NewRow
<1>2. JobsFit /\ jobRows' = Append(jobRows, row) /\ task' = Append(task, "spawned") /\ UNCHANGED <<faulty, started, listsRest>>
  BY DEF ListingInv, SubmitJob
<1> HIDE DEF row
<1>3. /\ jobRows \in Seq(JobRowType) /\ Len(jobRows) \in Nat /\ Len(started) \in Nat
      /\ task \in Seq(TaskState) /\ Len(task) = Len(jobRows)
  BY <1>2 DEF JobsFit
<1>4. /\ jobRows' \in Seq(JobRowType) /\ Len(jobRows') = Len(jobRows) + 1 /\ jobRows'[Len(jobRows) + 1] = row
      /\ \A k \in JobNo : jobRows'[k] = jobRows[k]
  BY <1>1, <1>2, <1>3 DEF JobNo
<1>5. /\ task' \in Seq(TaskState) /\ Len(task') = Len(jobRows')
      /\ \A k \in JobNo : task'[k] = task[k]
  BY <1>2, <1>3, <1>4 DEF JobNo, TaskState
<1>6. JobNo' = JobNo \cup {Len(jobRows) + 1} /\ JobNo \subseteq JobNo' /\ Begun' = Begun
  BY <1>2, <1>3, <1>4 DEF JobNo, Begun
<1>7. ASSUME NEW k \in JobNo' PROVE JobFits(k)'
  <2>1. CASE k \in JobNo
    <3>1. JobFits(k) /\ jobRows'[k] = jobRows[k] /\ task'[k] = task[k]
      BY <1>2, <1>4, <1>5, <2>1 DEF JobsFit
    <3>2. Ended(k)' <=> Ended(k)
      BY <3>1 DEF Ended
    <3>3. QED
      BY <1>2, <1>6, <3>1, <3>2 DEF JobFits
  <2>2. CASE k = Len(jobRows) + 1
    BY <1>1, <1>4, <2>2 DEF JobFits, RowSound, EndState, Ended, ItemsFit, LostRoot
  <2>3. QED
    BY <1>6, <2>1, <2>2
<1>8. started \in Seq(JobNo') /\ faulty \subseteq JobNo'
  <2>1. started \in Seq(JobNo) /\ faulty \subseteq JobNo
    BY <1>2 DEF JobsFit
  <2>2. QED
    BY <1>6, <2>1, SeqMonotonic
<1>9. JobsFit'
  BY <1>2, <1>4, <1>5, <1>7, <1>8 DEF JobsFit, JobRowType
<1>10. JobsGrow
  <2>1. Len(jobRows) <= Len(jobRows') /\ Len(started) <= Len(started') /\ faulty' = faulty
    BY <1>2, <1>3, <1>4
  <2>2. \A k \in JobNo : jobRows'[k] = jobRows[k]
    BY <1>4
  <2>3. QED
    BY <1>2, <2>1, <2>2 DEF JobsGrow, Ended
<1>11. QED
  BY <1>2, <1>9, <1>10, JobStepKeeps

LEMMA StartRunKeeps == ASSUME ListingInv, NEW j \in JobNo, StartRun(j) PROVE ListingInv'
<1>1. JobsFit /\ started' = Append(started, j) /\ UNCHANGED <<jobRows, task, faulty, listsRest>> /\ j \notin Begun
  BY DEF ListingInv, StartRun
<1>2. started \in Seq(JobNo) /\ Len(started) \in Nat /\ Len(jobRows) \in Nat /\ JobNo' = JobNo
  BY <1>1 DEF JobsFit, JobNo
<1>3. /\ started' \in Seq(JobNo') /\ Len(started') = Len(started) + 1 /\ started'[Len(started) + 1] = j
      /\ \A n \in 1..Len(started) : started'[n] = started[n] /\ started[n] # j
  BY <1>1, <1>2 DEF Begun
<1>4. \A m, n \in 1..Len(started') : started'[m] = started'[n] => m = n
  <2> SUFFICES ASSUME NEW m \in 1..Len(started'), NEW n \in 1..Len(started'), started'[m] = started'[n] PROVE m = n
    OBVIOUS
  <2>1. (m \in 1..Len(started) \/ m = Len(started) + 1) /\ (n \in 1..Len(started) \/ n = Len(started) + 1)
    BY <1>2, <1>3
  <2>2. CASE m \in 1..Len(started) /\ n \in 1..Len(started)
    BY <1>1, <1>3, <2>2 DEF JobsFit
  <2>3. QED
    BY <1>3, <2>1, <2>2
<1>5. \A k \in JobNo : k \notin Begun' => k \notin Begun
  BY <1>2, <1>3 DEF Begun
<1>6. \A k \in JobNo : JobFits(k)'
  <2>1. \A k : Ended(k)' <=> Ended(k)
    BY <1>1 DEF Ended
  <2>2. QED
    BY <1>1, <1>5, <2>1 DEF JobsFit, JobFits
<1>7. JobsFit'
  BY <1>1, <1>2, <1>3, <1>4, <1>6 DEF JobsFit, JobRowType
<1>8. JobsGrow
  BY <1>1, <1>2, <1>3 DEF JobsGrow, Ended
<1>9. QED
  BY <1>1, <1>7, <1>8, JobStepKeeps

LEMMA TakeUpKeeps == ASSUME ListingInv, NEW j \in JobNo, TakeUp(j) PROVE ListingInv'
<1> DEFINE had == jobRows[j]
           row == [had EXCEPT !.state = "running"]
<1>1. task[j] = "spawned" /\ JobsFit
  BY DEF TakeUp, ListingInv
<1>2. had \in JobRowType /\ JobFits(j) /\ ~Ended(j) /\ jobRows = [jobRows EXCEPT ![j] = had] /\ {"works", "over"} \subseteq TaskState
  BY <1>1, JobTyped DEF JobFits, TaskState
<1>3. /\ row \in JobRowType /\ row.by = had.by /\ row.run = had.run /\ row.items = had.items /\ row.state = "running"
  BY <1>2 DEF JobRowType, JobState
<1>4. CASE JobGoes(j, "running") /\ TaskGoes(j, "works") /\ UNCHANGED faulty
  <2>1. jobRows' = [jobRows EXCEPT ![j] = row] /\ task' = [task EXCEPT ![j] = "works"] /\ UNCHANGED <<started, listsRest>>
    BY <1>4 DEF JobGoes, TaskGoes, TakeUp
  <2> HIDE DEF row
  <2>2. QED
    <3>1. RowSound(had) => RowSound(row)
      BY <1>3 DEF RowSound, EndState
    <3>2. QED
      BY <1>1, <1>2, <1>3, <1>4, <2>1, <3>1, TaskStepKeeps DEF JobFits, EndState
<1>5. CASE (TaskGoes(j, "works") \/ TaskGoes(j, "over")) /\ FaultyIf(j, TRUE) /\ UNCHANGED jobRows
  <2>1. PICK t \in {"works", "over"} : task' = [task EXCEPT ![j] = t]
    BY <1>5 DEF TaskGoes
  <2>2. jobRows' = [jobRows EXCEPT ![j] = had] /\ faulty' = faulty \cup {j} /\ UNCHANGED <<started, listsRest>>
    BY <1>2, <1>5 DEF FaultyIf, TakeUp
  <2>3. t \in TaskState /\ had.state \notin EndState
    BY <1>2 DEF Ended, EndState
  <2>4. QED
    BY <1>1, <1>2, <2>1, <2>2, <2>3, TaskStepKeeps DEF JobFits
<1>6. QED
  BY <1>4, <1>5 DEF TakeUp

(* A statement about the row or its items that leaves the task at work.      *)
LEMMA WorkKeeps ==
  ASSUME ListingInv, NEW j \in JobNo, NEW run \in BOOLEAN, NEW items \in Seq(RunItem), task[j] = "works", j \in Begun,
         jobRows' = [jobRows EXCEPT ![j] = [by |-> jobRows[j].by, state |-> jobRows[j].state, run |-> run, items |-> items]],
         faulty' = faulty \/ faulty' = faulty \cup {j}, UNCHANGED <<task, started, listsRest>>,
         jobRows[j].run => run, Produced(jobRows[j].items) \subseteq Produced(items), ItemsFit(items),
         j \notin faulty' => (items # <<>> => run) /\ (LostRoot(items) => Settled(items))
  PROVE  ListingInv'
<1> DEFINE row == [by |-> jobRows[j].by, state |-> jobRows[j].state, run |-> run, items |-> items]
<1>1. /\ jobRows[j].by \in Viewer \cup {NoViewer} /\ jobRows[j].state \in JobState /\ task = [task EXCEPT ![j] = task[j]]
      /\ jobRows[j].state \notin EndState
  BY JobTyped DEF ListingInv, JobFits, Ended, EndState
<1>2. row \in JobRowType /\ row.by = jobRows[j].by /\ row.run = run /\ row.items = items /\ row.state \notin EndState
  BY <1>1 DEF JobRowType
<1>3. jobRows' = [jobRows EXCEPT ![j] = row] /\ task' = [task EXCEPT ![j] = "works"] /\ "works" \in TaskState
  BY <1>1 DEF TaskState
<1> HIDE DEF row
<1>4. j \notin faulty' => RowSound(row)
  BY <1>2 DEF RowSound
<1>5. QED
  BY <1>2, <1>3, <1>4, TaskStepKeeps

(* Of the row and the items of a job.                                        *)
LEMMA WorkTyped ==
  ASSUME ListingInv, NEW j \in JobNo
  PROVE  /\ jobRows[j].items \in Seq(RunItem) /\ Len(jobRows[j].items) \in Nat /\ jobRows[j].run \in BOOLEAN /\ JobFits(j)
         /\ [jobRows EXCEPT ![j].run = TRUE] = [jobRows EXCEPT
                ![j] = [by |-> jobRows[j].by, state |-> jobRows[j].state, run |-> TRUE, items |-> jobRows[j].items]]
         /\ \A items : [jobRows EXCEPT ![j].items = items] = [jobRows EXCEPT
                ![j] = [by |-> jobRows[j].by, state |-> jobRows[j].state, run |-> jobRows[j].run, items |-> items]]
<1> DEFINE had == jobRows[j]
<1>1. /\ had = [by |-> had.by, state |-> had.state, run |-> had.run, items |-> had.items] /\ had.run \in BOOLEAN
      /\ had.items \in Seq(RunItem) /\ Len(had.items) \in Nat /\ JobFits(j)
  BY JobTyped DEF ListingInv
<1>2. /\ [had EXCEPT !.run = TRUE] = [by |-> had.by, state |-> had.state, run |-> TRUE, items |-> had.items]
      /\ \A items : [had EXCEPT !.items = items] = [by |-> had.by, state |-> had.state, run |-> had.run, items |-> items]
  <2> HIDE DEF had
  <2>1. \A items : [had EXCEPT !.items = items] = [by |-> had.by, state |-> had.state, run |-> had.run, items |-> items]
    BY <1>1
  <2>2. PICK yes \in BOOLEAN : yes = TRUE
    OBVIOUS
  <2>3. [had EXCEPT !.run = yes] = [by |-> had.by, state |-> had.state, run |-> yes, items |-> had.items]
    BY <1>1
  <2>4. QED
    BY <2>1, <2>2, <2>3
<1>3. QED
  BY <1>1, <1>2

LEMMA LinkRunKeeps == ASSUME ListingInv, NEW j \in JobNo, LinkRun(j) PROVE ListingInv'
<1>1. /\ task[j] = "works" /\ j \in Begun /\ jobRows[j].items = <<>> /\ UNCHANGED <<task, faulty, started, listsRest>>
      /\ jobRows' = [jobRows EXCEPT ![j].run = TRUE]
  BY DEF LinkRun
<1>2. /\ jobRows[j].items \in Seq(RunItem) /\ JobFits(j)
      /\ jobRows' = [jobRows EXCEPT
             ![j] = [by |-> jobRows[j].by, state |-> jobRows[j].state, run |-> TRUE, items |-> jobRows[j].items]]
  BY <1>1, WorkTyped
<1>3. ItemsFit(jobRows[j].items) /\ ~LostRoot(jobRows[j].items)
  BY <1>1, <1>2 DEF JobFits, LostRoot
<1> DEFINE yes == TRUE
<1>4. yes \in BOOLEAN /\ yes
  OBVIOUS
<1> HIDE DEF yes
<1>5. yes = TRUE
  BY DEF yes
<1>6. QED
  BY <1>1, <1>2, <1>3, <1>4, <1>5, WorkKeeps

LEMMA AddItemKeeps == ASSUME ListingInv, NEW j \in JobNo, AddItem(j) PROVE ListingInv'
<1> DEFINE had == jobRows[j].items
           item == [state |-> "in_progress", made |-> NoParent]
           items == Append(had, item)
<1>1. had \in Seq(RunItem) /\ Len(had) \in Nat /\ JobFits(j) /\ jobRows[j].run \in BOOLEAN
  BY WorkTyped
<1>2. item \in RunItem /\ item.made = NoParent /\ item.state = "in_progress"
  BY DEF RunItem
<1>3. /\ jobRows' = [jobRows EXCEPT ![j].items = items] /\ task[j] = "works" /\ j \in Begun
      /\ (had = <<>> \/ MadeRoot(had)) /\ FaultyIf(j, ~Sound(jobRows[j])) /\ UNCHANGED <<task, started, listsRest>>
  BY DEF AddItem
<1> HIDE DEF had, item
<1>4. items \in Seq(RunItem) /\ Len(items) = Len(had) + 1 /\ items[Len(had) + 1] = item /\ \A n \in 1..Len(had) : items[n] = had[n]
  BY <1>1, <1>2
<1> HIDE DEF items
<1>5. Produced(had) \subseteq Produced(items)
  <2> SUFFICES ASSUME NEW n \in 1..Len(had), had[n].made # NoParent PROVE had[n].made \in Produced(items)
    BY DEF Produced
  <2>1. n \in 1..Len(items) /\ items[n].made = had[n].made
    BY <1>1, <1>4
  <2>2. QED
    BY <2>1 DEF Produced
<1>6. ItemsFit(items)
  <2> SUFFICES ASSUME NEW n \in 1..Len(items), items[n].state = "in_progress" PROVE items[n].made = NoParent
    BY DEF ItemsFit
  <2>1. CASE n \in 1..Len(had)
    <3>1. had[n].state = "in_progress" /\ items[n] = had[n]
      BY <1>4, <2>1
    <3>2. QED
      BY <1>1, <2>1, <3>1 DEF JobFits, ItemsFit, had
  <2>2. CASE n \notin 1..Len(had)
    <3>1. n = Len(had) + 1
      BY <1>1, <1>4, <2>2
    <3>2. QED
      BY <1>2, <1>4, <3>1
  <2>3. QED
    BY <2>1, <2>2
<1>7. ~LostRoot(items)
  <2>1. CASE had = <<>>
    <3>1. items[1] = item
      BY <1>4, <2>1
    <3>2. QED
      BY <1>2, <3>1 DEF LostRoot
  <2>2. CASE MadeRoot(had)
    <3>1. had # <<>> /\ had[1].state = "completed"
      BY <2>2 DEF MadeRoot
    <3>2. 1 \in 1..Len(had)
      BY <1>1, <3>1, EmptySeq
    <3>3. QED
      BY <1>4, <3>1, <3>2 DEF LostRoot
  <2>3. QED
    BY <1>3, <2>1, <2>2
<1>8. /\ faulty' = faulty \/ faulty' = faulty \cup {j}
      /\ j \notin faulty' => jobRows[j].run
  BY <1>3 DEF FaultyIf, Sound
<1>9. QED
  BY <1>1, <1>3, <1>4, <1>5, <1>6, <1>7, <1>8, WorkTyped, WorkKeeps DEF had

(* The last item is settled, or failed though it made something.             *)
LEMMA LastChanges ==
  ASSUME ListingInv, NEW j \in JobNo, task[j] = "works", jobRows[j].items # <<>>, NEW item \in RunItem,
         item.state # "in_progress", LastItem(j).made # NoParent => item.made = LastItem(j).made,
         jobRows' = [jobRows EXCEPT ![j].items = [@ EXCEPT ![Len(jobRows[j].items)] = item]],
         \/ faulty' = faulty /\ LastItem(j).state = "in_progress"
         \/ faulty' = faulty \cup {j},
         UNCHANGED <<task, started, listsRest>>
  PROVE  ListingInv'
<1> DEFINE had == jobRows[j].items
           last == Len(had)
           items == [had EXCEPT ![last] = item]
<1>1. had \in Seq(RunItem) /\ last \in Nat /\ JobFits(j) /\ jobRows[j].run \in BOOLEAN /\ jobRows' = [jobRows EXCEPT ![j].items = items]
  BY WorkTyped
<1>2. LastItem(j) = had[last]
  BY DEF LastItem
<1>3. j \in Begun /\ ItemsFit(had)
  BY <1>1 DEF JobFits
<1>4. had # <<>> /\ (j \notin faulty => jobRows[j].run /\ (LostRoot(had) => Settled(had)))
  BY <1>1 DEF JobFits, RowSound
<1> HIDE DEF had
<1>5. last \in 1..last /\ had # <<>>
  BY <1>1, <1>4, EmptySeq
<1>6. /\ items \in Seq(RunItem) /\ Len(items) = last /\ items[last] = item
      /\ \A n \in 1..last : n # last => items[n] = had[n]
  BY <1>1, <1>5, ExceptSeq
<1> HIDE DEF items
<1>7. Produced(had) \subseteq Produced(items)
  <2> SUFFICES ASSUME NEW n \in 1..last, had[n].made # NoParent PROVE had[n].made \in Produced(items)
    BY DEF Produced
  <2>1. n \in 1..Len(items) /\ items[n].made = had[n].made
    BY <1>2, <1>6
  <2>2. QED
    BY <2>1 DEF Produced
<1>8. ItemsFit(items)
  <2> SUFFICES ASSUME NEW n \in 1..Len(items), items[n].state = "in_progress" PROVE items[n].made = NoParent
    BY DEF ItemsFit
  <2>1. n # last /\ n \in 1..last
    BY <1>6
  <2>2. QED
    BY <1>3, <1>6, <2>1 DEF ItemsFit
<1>9. ASSUME j \notin faulty' PROVE jobRows[j].run /\ (LostRoot(items) => Settled(items))
  <2>1. j \notin faulty /\ had[last].state = "in_progress"
    BY <1>2, <1>9
  <2>2. ~Settled(had) /\ ~LostRoot(had)
    BY <1>4, <1>5, <2>1 DEF Settled
  <2>3. ASSUME LostRoot(items) PROVE last = 1
    <3>1. items[1].state = "failed"
      BY <2>3 DEF LostRoot
    <3>2. had[1].state # "failed" /\ 1 \in 1..last
      BY <1>1, <1>5, <2>2 DEF LostRoot
    <3>3. QED
      BY <1>6, <3>1, <3>2
  <2>4. last = 1 => Settled(items)
    <3> SUFFICES ASSUME last = 1, NEW n \in 1..Len(items) PROVE items[n].state # "in_progress"
      BY DEF Settled
    <3>1. n = last
      BY <1>6
    <3>2. QED
      BY <1>6, <3>1
  <2>5. QED
    BY <1>4, <2>1, <2>3, <2>4
<1>10. jobRows' = [jobRows EXCEPT
            ![j] = [by |-> jobRows[j].by, state |-> jobRows[j].state, run |-> jobRows[j].run, items |-> items]]
  BY <1>1, WorkTyped
<1>11. faulty' = faulty \/ faulty' = faulty \cup {j}
  OBVIOUS
<1>12. Produced(jobRows[j].items) \subseteq Produced(items)
  BY <1>7 DEF had
<1>13. QED
  BY <1>1, <1>3, <1>6, <1>8, <1>9, <1>10, <1>11, <1>12, WorkKeeps

LEMMA SettleItemKeeps == ASSUME ListingInv, NEW j \in JobNo, SettleItem(j) PROVE ListingInv'
<1> DEFINE Item(e) == [state |-> IF e = NoParent THEN "failed" ELSE "completed", made |-> e]
<1>1. PICK e \in Listable \cup {NoParent} : jobRows' = [jobRows EXCEPT ![j].items[Len(jobRows[j].items)] = Item(e)]
  BY DEF SettleItem
<1>2. Item(e) \in RunItem /\ Item(e).state # "in_progress"
  BY DEF RunItem
<1>3. /\ task[j] = "works" /\ jobRows[j].items # <<>> /\ LastItem(j).state = "in_progress"
      /\ UNCHANGED <<task, faulty, started, listsRest>>
  BY DEF SettleItem
<1> HIDE DEF Item
<1>4. LastItem(j).made = NoParent
  <2>1. jobRows[j].items \in Seq(RunItem) /\ ItemsFit(jobRows[j].items)
    BY WorkTyped DEF JobFits
  <2>2. Len(jobRows[j].items) \in 1..Len(jobRows[j].items)
    BY <1>3, <2>1, EmptySeq
  <2>3. QED
    BY <1>3, <2>1, <2>2 DEF LastItem, ItemsFit
<1>5. QED
  BY <1>1, <1>2, <1>3, <1>4, LastChanges

LEMMA FailRecordedKeeps == ASSUME ListingInv, NEW j \in JobNo, FailRecorded(j) PROVE ListingInv'
<1> DEFINE item == [LastItem(j) EXCEPT !.state = "failed"]
<1>1. /\ task[j] = "works" /\ jobRows[j].items # <<>> /\ faulty' = faulty \cup {j} /\ UNCHANGED <<task, started, listsRest>>
      /\ jobRows' = [jobRows EXCEPT ![j].items[Len(jobRows[j].items)].state = "failed"]
  BY DEF FailRecorded, FaultyIf
<1>2. LastItem(j) \in RunItem
  <2>1. jobRows[j].items \in Seq(RunItem)
    BY WorkTyped
  <2>2. Len(jobRows[j].items) \in 1..Len(jobRows[j].items)
    BY <1>1, <2>1, EmptySeq
  <2>3. QED
    BY <2>1, <2>2, ElementOfSeq DEF LastItem
<1>3. item \in RunItem /\ item.state # "in_progress" /\ item.made = LastItem(j).made
  BY <1>2 DEF RunItem
<1>4. jobRows' = [jobRows EXCEPT ![j].items[Len(jobRows[j].items)] = item]
  BY <1>1 DEF LastItem
<1> HIDE DEF item
<1>5. QED
  BY <1>1, <1>3, <1>4, LastChanges

(* The last update of a job, or its failure.                                 *)
LEMMA CloseKeeps ==
  ASSUME ListingInv, NEW j \in JobNo, NEW rows, NEW bad \in BOOLEAN, CloseJob(j, rows, bad),
         \A row \in rows : /\ row \in JobRowType /\ row.by = jobRows[j].by /\ row.items = jobRows[j].items
                           /\ jobRows[j].run => row.run
                           /\ ~bad /\ j \notin faulty => RowSound(row)
  PROVE  ListingInv'
<1> DEFINE had == jobRows[j]
<1>1. task[j] = "works" /\ task' = [task EXCEPT ![j] = "over"] /\ UNCHANGED <<started, listsRest>> /\ "over" \in TaskState
  BY DEF CloseJob, TaskGoes, TaskState
<1>2. had \in JobRowType /\ JobFits(j) /\ jobRows = [jobRows EXCEPT ![j] = had]
  BY JobTyped DEF ListingInv
<1>3. ASSUME NEW row \in rows, jobRows' = [jobRows EXCEPT ![j] = row], FaultyIf(j, bad) PROVE ListingInv'
  <2>1. /\ row \in JobRowType /\ row.by = had.by /\ row.items = had.items /\ (had.run => row.run)
        /\ ~bad /\ j \notin faulty => RowSound(row)
    OBVIOUS
  <2>2. /\ faulty' = faulty \/ faulty' = faulty \cup {j}
        /\ j \notin faulty' => ~bad /\ j \notin faulty
    BY <1>3 DEF FaultyIf
  <2>3. ItemsFit(row.items) /\ (j \notin Begun => row.items = <<>>)
    BY <1>2, <2>1 DEF JobFits
  <2>4. QED
    BY <1>1, <1>3, <2>1, <2>2, <2>3, TaskStepKeeps
<1>4. CASE UNCHANGED jobRows /\ FaultyIf(j, TRUE)
  <2>1. jobRows' = [jobRows EXCEPT ![j] = had] /\ faulty' = faulty \cup {j}
    BY <1>2, <1>4 DEF FaultyIf
  <2>2. QED
    BY <1>1, <1>2, <2>1, TaskStepKeeps DEF JobFits
<1>5. QED
  BY <1>3, <1>4 DEF CloseJob

LEMMA FinishJobKeeps == ASSUME ListingInv, NEW j \in JobNo, FinishJob(j) PROVE ListingInv'
<1> DEFINE had == jobRows[j]
<1>1. had = [by |-> had.by, state |-> had.state, run |-> had.run, items |-> had.items] /\ had \in JobRowType
  BY JobTyped DEF ListingInv
<1> HIDE DEF had
<1>2. ASSUME NEW states \in SUBSET EndState, NEW row \in EndsAs(had, states)
      PROVE  row \in JobRowType /\ row.by = had.by /\ row.items = had.items /\ row.run
  <2>1. PICK s \in states : row = [had EXCEPT !.state = s, !.run = TRUE]
    BY DEF EndsAs
  <2>2. s \in JobState
    BY DEF EndState, JobState
  <2>3. row = [by |-> had.by, state |-> s, run |-> TRUE, items |-> had.items]
    BY <1>1, <2>1
  <2>4. QED
    BY <1>1, <2>2, <2>3 DEF JobRowType
<1>3. CASE CloseJob(j, EndsAs(had, {Verdict(had.items)}), ~Sound(had))
  <2>1. {Verdict(had.items)} \in SUBSET EndState
    BY DEF Verdict, EndState
  <2> DEFINE bad == ~Sound(had)
             rows == EndsAs(had, {Verdict(had.items)})
  <2>2. bad \in BOOLEAN
    OBVIOUS
  <2>3. ~bad => Settled(had.items)
    BY DEF Sound
  <2> HIDE DEF bad
  <2>4. \A row \in rows : row \in JobRowType /\ row.by = had.by /\ row.items = had.items /\ row.run
    BY <1>2, <2>1
  <2>5. CloseJob(j, rows, bad)
    BY <1>3 DEF bad
  <2> HIDE DEF rows
  <2>6. \A row \in rows : /\ row \in JobRowType /\ row.by = jobRows[j].by /\ row.items = jobRows[j].items
                          /\ jobRows[j].run => row.run
                          /\ ~bad /\ j \notin faulty => RowSound(row)
    BY <2>3, <2>4 DEF RowSound, had
  <2>7. QED
    BY <2>2, <2>5, <2>6, CloseKeeps
<1>4. CASE CloseJob(j, EndsAs(had, Misread(had.items)), TRUE)
  <2>1. Misread(had.items) \in SUBSET EndState
    BY DEF Misread, EndState
  <2> DEFINE bad == TRUE
             rows == EndsAs(had, Misread(had.items))
  <2>2. bad \in BOOLEAN
    OBVIOUS
  <2>3. bad
    OBVIOUS
  <2>4. \A row \in rows : row \in JobRowType /\ row.by = had.by /\ row.items = had.items /\ row.run
    BY <1>2, <2>1
  <2>5. CloseJob(j, rows, bad)
    BY <1>4
  <2> HIDE DEF rows, bad
  <2>6. \A row \in rows : /\ row \in JobRowType /\ row.by = jobRows[j].by /\ row.items = jobRows[j].items
                          /\ jobRows[j].run => row.run
                          /\ ~bad /\ j \notin faulty => RowSound(row)
    BY <2>3, <2>4 DEF had
  <2>7. QED
    BY <2>2, <2>5, <2>6, CloseKeeps
<1>5. QED
  BY <1>3, <1>4 DEF FinishJob, had

LEMMA FailJobKeeps == ASSUME ListingInv, NEW j \in JobNo, FailJob(j) PROVE ListingInv'
<1> DEFINE had == jobRows[j]
           row == [had EXCEPT !.state = "failed"]
           bad == j \in Begun /\ ~LostRoot(had.items)
<1>1. had \in JobRowType /\ JobFits(j) /\ had.items \in Seq(RunItem)
  BY JobTyped DEF ListingInv
<1>2. row \in JobRowType /\ row.by = had.by /\ row.items = had.items /\ row.run = had.run
  BY <1>1 DEF JobRowType, JobState
<1>3. CloseJob(j, {row}, bad) /\ bad \in BOOLEAN
  BY DEF FailJob
<1>4. ASSUME ~bad, j \notin faulty PROVE (had.items # <<>> => had.run) /\ Settled(had.items)
  <2>1. CASE j \notin Begun
    <3>1. had.items = <<>> /\ Len(<<>>) = 0
      BY <1>1, <2>1 DEF JobFits
    <3>2. QED
      BY <3>1 DEF Settled
  <2>2. CASE LostRoot(had.items)
    BY <1>1, <1>4, <2>2 DEF JobFits, RowSound
  <2>3. QED
    BY <1>4, <2>1, <2>2
<1> HIDE DEF row, bad
<1>5. ~bad /\ j \notin faulty => RowSound(row)
  BY <1>2, <1>4 DEF RowSound
<1>6. QED
  BY <1>2, <1>3, <1>5, CloseKeeps

(* A restart stops what is open, and the readers that wait.                  *)
LEMMA StoppedItems ==
  ASSUME NEW items \in Seq(RunItem), ItemsFit(items)
  PROVE  /\ Stopped(items) \in Seq(RunItem) /\ Len(Stopped(items)) = Len(items) /\ Settled(Stopped(items))
         /\ Produced(Stopped(items)) = Produced(items) /\ (Stopped(items) = <<>> <=> items = <<>>)
<1>1. Len(items) \in Nat /\ \A n \in 1..Len(items) : items[n] \in RunItem
  BY ElementOfSeq
<1>2. ASSUME NEW n \in 1..Len(items)
      PROVE  Stopped(items)[n] \in RunItem /\ Stopped(items)[n].state # "in_progress" /\ Stopped(items)[n].made = items[n].made
  <2>1. items[n] \in RunItem
    BY <1>1
  <2>2. Stopped(items)[n] = IF items[n].state = "in_progress" THEN [items[n] EXCEPT !.state = "failed"] ELSE items[n]
    BY DEF Stopped
  <2>3. QED
    BY <2>1, <2>2 DEF RunItem
<1>3. Stopped(items) \in [1..Len(items) -> RunItem]
  BY <1>2 DEF Stopped
<1>4. Stopped(items) \in Seq(RunItem) /\ Len(Stopped(items)) = Len(items)
  <2>1. Stopped(items) \in Seq(RunItem)
    BY <1>1, <1>3, SeqDef
  <2>2. QED
    BY <1>1, <1>3, <2>1, LenProperties
<1>5. Settled(Stopped(items)) /\ Produced(Stopped(items)) = Produced(items)
  BY <1>2, <1>4 DEF Settled, Produced
<1>6. Stopped(items) = <<>> <=> items = <<>>
  BY <1>4, EmptySeq
<1>7. QED
  BY <1>4, <1>5, <1>6

LEMMA RestartKeeps == ASSUME ListingInv, Restart PROVE ListingInv'
<1> DEFINE RowBack(k, done) == Recovered(jobRows[k], done)
<1>1. PICK done \in 0..3 : jobRows' = [k \in JobNo |-> RowBack(k, done)]
  BY DEF Restart
<1>2. /\ task' = [k \in JobNo |-> "over"] /\ UNCHANGED <<faulty, started, gone, bared, labelVars, taggings>>
      /\ reading' = [r \in Reading |-> IF r \in Waiting THEN Unread ELSE reading[r]] /\ JobsFit
  BY DEF Restart, ListingInv
<1>3. ASSUME NEW k \in JobNo
      PROVE  /\ RowBack(k, done) \in JobRowType /\ RowBack(k, done).by = jobRows[k].by /\ RowBack(k, done).run = jobRows[k].run
             /\ ItemsFit(RowBack(k, done).items) /\ Produced(RowBack(k, done).items) = Produced(jobRows[k].items)
             /\ (RowBack(k, done).items = <<>> <=> jobRows[k].items = <<>>)
             /\ RowSound(jobRows[k]) => RowSound(RowBack(k, done))
             /\ Ended(k) => RowBack(k, done).state \in EndState
  <2> DEFINE had == jobRows[k]
             row == RowBack(k, done)
             items == IF done >= 1 THEN Stopped(had.items) ELSE had.items
             state == IF done = 3 /\ had.state = "running" THEN "failed" ELSE had.state
  <2>1. /\ had.items \in Seq(RunItem) /\ ItemsFit(had.items) /\ had.run \in BOOLEAN /\ had.state \in JobState
        /\ had.by \in Viewer \cup {NoViewer} /\ had = [by |-> had.by, state |-> had.state, run |-> had.run, items |-> had.items]
    BY <1>2, JobTyped DEF JobFits
  <2>2. row = [had EXCEPT !.items = items, !.state = state]
    BY DEF Recovered
  <2>3. Ended(k) => had.state \in EndState /\ had.state # "running"
    BY DEF Ended, EndState
  <2> HIDE DEF row, had
  <2>4. /\ items \in Seq(RunItem) /\ Produced(items) = Produced(had.items) /\ (items = <<>> <=> had.items = <<>>)
        /\ ItemsFit(items) /\ (done >= 1 => Settled(items)) /\ (~(done >= 1) => items = had.items)
    BY <2>1, StoppedItems DEF ItemsFit, Settled
  <2>5. state \in JobState /\ (~(done >= 1) => state = had.state) /\ (Ended(k) => state = had.state)
    BY <2>1, <2>3 DEF JobState
  <2> HIDE DEF items, state
  <2>6. row = [by |-> had.by, state |-> state, run |-> had.run, items |-> items]
    BY <2>1, <2>2
  <2>7. row \in JobRowType
    BY <2>1, <2>4, <2>5, <2>6 DEF JobRowType
  <2>8. row.by = had.by /\ row.run = had.run /\ row.items = items /\ row.state = state
    BY <2>6
  <2>9. ASSUME RowSound(had) PROVE RowSound(row)
    <3>1. CASE done >= 1
      BY <2>4, <2>8, <2>9, <3>1 DEF RowSound
    <3>2. CASE ~(done >= 1)
      BY <2>4, <2>5, <2>8, <2>9, <3>2 DEF RowSound
    <3>3. QED
      BY <3>1, <3>2
  <2>10. /\ row \in JobRowType /\ row.by = had.by /\ row.run = had.run /\ ItemsFit(row.items)
         /\ Produced(row.items) = Produced(had.items) /\ (row.items = <<>> <=> had.items = <<>>)
         /\ Ended(k) => row.state \in EndState
    BY <2>3, <2>4, <2>5, <2>7, <2>8
  <2>11. QED
    BY <2>9, <2>10 DEF row, had
<1>4. PICK rows : rows = [k \in JobNo |-> RowBack(k, done)]
  OBVIOUS
<1>5. jobRows' = rows /\ \A k \in JobNo : rows[k] = RowBack(k, done)
  BY <1>1, <1>4
<1> HIDE DEF RowBack
<1>6. Len(jobRows) \in Nat /\ JobNo = 1..Len(jobRows)
  BY <1>2 DEF JobsFit, JobNo
<1>7. jobRows' \in Seq(JobRowType) /\ Len(jobRows') = Len(jobRows) /\ \A k \in JobNo : jobRows'[k] = RowBack(k, done)
  <2>1. rows \in [1..Len(jobRows) -> JobRowType]
    BY <1>3, <1>4, <1>6
  <2>2. rows \in Seq(JobRowType)
    BY <1>6, <2>1, SeqDef
  <2>3. Len(rows) = Len(jobRows)
    BY <1>6, <2>1, <2>2, LenProperties
  <2>4. QED
    BY <1>5, <2>2, <2>3
<1>8. task' \in Seq(TaskState) /\ Len(task') = Len(jobRows')
  BY <1>2, <1>6, <1>7, TasksOver
<1>9. JobNo' = JobNo /\ Begun' = Begun
  BY <1>2, <1>7 DEF JobNo, Begun
<1>10. ASSUME NEW k \in JobNo PROVE JobFits(k)'
  <2>1. JobFits(k) /\ task'[k] = "over" /\ jobRows'[k] = RowBack(k, done)
    BY <1>2, <1>7 DEF JobsFit
  <2>2. QED
    BY <1>2, <1>3, <1>9, <2>1 DEF JobFits
<1>11. JobsFit'
  BY <1>2, <1>7, <1>8, <1>9, <1>10 DEF JobsFit, JobRowType
<1>12. JobsGrow
  <2>1. Len(started) \in Nat
    BY <1>2 DEF JobsFit
  <2>2. \A k \in JobNo : Ended(k)' <=> RowBack(k, done).state \in EndState
    BY <1>7 DEF Ended, EndState
  <2>3. QED
    BY <1>2, <1>3, <1>6, <1>7, <2>1, <2>2 DEF JobsGrow
<1>13. UNCHANGED <<gone, bared, labelVars>>
  BY <1>2
<1>14. \A q : ReadFits(q) => ReadFits(q)'
  BY <1>11, <1>12, <1>13, ReadsStand
<1>15. PICK none : none = Unread
  OBVIOUS
<1>16. ReadFits(none)'
  BY <1>14, <1>15, UnreadFits
<1>17. ASSUME NEW r \in Reading PROVE ReadFits(reading[r])'
  <2>1. PICK q : q = reading[r]
    OBVIOUS
  <2>2. ReadFits(q)'
    BY <1>14, <2>1 DEF ListingInv, ReadingsFit
  <2>3. reading'[r] = none \/ reading'[r] = q
    BY <1>2, <1>15, <2>1
  <2>4. QED
    BY <1>16, <2>2, <2>3
<1>18. ReadingsFit' /\ LabelsFit'
  BY <1>2, <1>17 DEF ReadingsFit, LabelsFit, ListingInv, labelVars
<1>19. QED
  BY <1>11, <1>18 DEF ListingInv

(* Accounts, masks and tags.                                                 *)
LEMMA DeleteAccountKeeps == ASSUME ListingInv, NEW v \in Viewer, DeleteAccount(v) PROVE ListingInv'
<1>1. gone' = gone \cup {v} /\ Overtakes /\ UNCHANGED <<jobRows, task, faulty, started, bared, labels, labelled, taggings>>
  BY DEF DeleteAccount, labelVars
<1>2. LabelsFit'
  BY <1>1 DEF ListingInv, LabelsFit
<1>3. QED
  BY <1>1, <1>2, OvertakeKeeps

LEMMA TaggingsCount ==
  ASSUME LabelsFit, taggings < MaxTagging, taggings' = taggings + 1 PROVE taggings' \in 0..MaxTagging
  BY ListingFacts DEF LabelsFit

LEMMA ChangeMaskKeeps == ASSUME ListingInv, NEW e \in Listable, ChangeMask(e) PROVE ListingInv'
<1>1. Overtakes /\ UNCHANGED <<jobRows, task, faulty, started, gone, labels, labelled>> /\ bared' \subseteq bared \cup {e}
  BY DEF ChangeMask, labelVars, jobVars
<1>2. LabelsFit'
  BY <1>1, TaggingsCount DEF ListingInv, LabelsFit, ChangeMask
<1>3. QED
  BY <1>1, <1>2, OvertakeKeeps

LEMMA RelabelKeeps == ASSUME ListingInv, NEW t \in Label, NEW e \in Listable, Relabel(t, e) PROVE ListingInv'
<1>1. /\ Overtakes /\ UNCHANGED <<jobRows, task, faulty, started, gone, bared, labels>> /\ t \in labels
      /\ labelled' \subseteq labelled \cup {<<t, e>>}
  BY DEF Relabel, jobVars
<1>2. LabelsFit'
  BY <1>1, TaggingsCount DEF ListingInv, LabelsFit, Relabel
<1>3. QED
  BY <1>1, <1>2, OvertakeKeeps

(* What is below a tag that is gone is gone.                                 *)
LEMMA BelowIsClosed ==
  /\ \A t \in labels : t \in LabelledBelow(t)
  /\ \A t, u : u \in labels /\ LabelAbove[u] \in LabelledBelow(t) => u \in LabelledBelow(t)
<1>1. \A t \in labels : t \in LabelledBelow(t)
  BY DEF LabelledBelow
<1>2. ASSUME NEW t, NEW u \in labels, LabelAbove[u] \in LabelledBelow(t) PROVE u \in LabelledBelow(t)
  <2>1. ASSUME NEW S \in SUBSET labels, t \in S, ClosedBelow(S) PROVE u \in S
    BY <1>2, <2>1 DEF LabelledBelow, ClosedBelow
  <2>2. t \in labels
    BY <1>2 DEF LabelledBelow
  <2>3. QED
    BY <2>1, <2>2 DEF LabelledBelow
<1>3. QED
  BY <1>1, <1>2

LEMMA DeleteLabelKeeps == ASSUME ListingInv, NEW t \in Label, DeleteLabel(t) PROVE ListingInv'
<1>1. /\ Overtakes /\ UNCHANGED <<jobRows, task, faulty, started, gone, bared>> /\ labels' = labels \ LabelledBelow(t)
      /\ labelled' = {x \in labelled : x[1] \notin LabelledBelow(t)}
  BY DEF DeleteLabel, jobVars, Unassign
<1>2. labelled' \subseteq labels' \X Listable
  BY <1>1 DEF ListingInv, LabelsFit
<1>3. ASSUME NEW u \in labels', LabelAbove[u] # NoLabel PROVE LabelAbove[u] \in labels'
  BY <1>1, <1>3, BelowIsClosed DEF ListingInv, LabelsFit
<1>4. LabelsFit'
  BY <1>1, <1>2, <1>3, TaggingsCount DEF ListingInv, LabelsFit, DeleteLabel
<1>5. QED
  BY <1>1, <1>4, OvertakeKeeps

(* Requests.                                                                 *)
LEMMA ReadTyped ==
  ASSUME ListingInv, NEW r \in Reading
  PROVE  /\ ReadFits(reading[r]) /\ reading[r] \in ReadingType
         /\ JobsFit /\ LabelsFit
  BY DEF ListingInv, ReadingsFit, ReadFits

LEMMA OwnersAre ==
  ASSUME NEW v \in Viewer \ gone, NEW w \in {"all", "me"} \cup Viewer
  PROVE  /\ OwnersListed(v, w) \subseteq Viewer \cup {NoViewer}
         /\ v \notin Boss => OwnersListed(v, w) \subseteq {v}
  BY ListingFacts DEF OwnersListed, UidOf

LEMMA AskListKeeps ==
  ASSUME ListingInv, NEW r \in Reading, NEW v \in Viewer, NEW kind \in {"jobs", "runs"}, NEW w \in {"all", "me"} \cup Viewer,
         AskList(r, v, kind, w)
  PROVE  ListingInv'
<1> DEFINE rows == IF kind = "runs" THEN RunsOf(v) ELSE JobsBy(v, OwnersListed(v, w))
           owners == IF kind = "runs" THEN {} ELSE OwnersListed(v, w)
           q == [Unread EXCEPT !.at = "page", !.kind = kind, !.who = v, !.owners = owners, !.began = rows]
<1>1. v \notin gone /\ UNCHANGED <<jobVars, bared, labelVars, taggings>>
  BY DEF AskList
<1>2. reading' = [reading EXCEPT ![r] = q]
  <2>1. CASE kind = "runs"
    <3>1. [[Unread EXCEPT !.at = "page", !.kind = kind, !.who = v] EXCEPT !.began = RunsOf(v)] = q
      <4> DEFINE p == [Unread EXCEPT !.at = "page", !.kind = kind, !.who = v]
      <4>1. owners = {} /\ rows = RunsOf(v) /\ Unread.owners = {} /\ "owners" \in DOMAIN Unread
        BY <2>1 DEF Unread
      <4>2. p.owners = {} /\ "owners" \in DOMAIN p /\ p = [x \in DOMAIN p |-> p[x]]
        BY <4>1
      <4>3. q = [[p EXCEPT !.owners = {}] EXCEPT !.began = rows]
        <5> HIDE DEF owners, rows
        <5>1. QED
          BY <4>1
      <4> HIDE DEF p, q, rows, owners
      <4>4. [p EXCEPT !.owners = {}] = p
        BY <4>2
      <4>5. QED
        BY <4>1, <4>3, <4>4 DEF p
    <3>2. QED
      BY <2>1, <3>1 DEF AskList
  <2>2. CASE kind # "runs"
    <3>1. [[Unread EXCEPT !.at = "page", !.kind = kind, !.who = v] EXCEPT
              !.owners = OwnersListed(v, w), !.began = JobsBy(v, OwnersListed(v, w))] = q
      BY <2>2 DEF Unread
    <3>2. QED
      BY <2>2, <3>1 DEF AskList
  <2>3. QED
    BY <2>1, <2>2
<1>3. owners \subseteq Viewer \cup {NoViewer} /\ (v \notin Boss => owners \subseteq {v})
  BY <1>1, OwnersAre
<1>4. rows \in SUBSET Nat
  BY JobsAreNumbered DEF ListingInv, RunsOf, JobsBy
<1> HIDE DEF rows, owners
<1>5. /\ q \in ReadingType /\ q.at = "page" /\ q.kind = kind /\ q.who = v /\ q.owners = owners /\ q.began = rows
      /\ q.got = {} /\ q.offset = 0 /\ q.moved = FALSE
  BY <1>3, <1>4, UnreadIs DEF ReadingType
<1> HIDE DEF q
<1>6. RowsOf(q) = rows
  BY <1>5 DEF RowsOf, rows, owners
<1>7. \A j \in rows : Rank(q.kind, RowsOf(q), j) >= 0
  <2>1. \A j \in RowsOf(q) : Rank(q.kind, RowsOf(q), j) \in Nat
    <3>1. IsFiniteSet(JobNo) /\ RowsOf(q) \subseteq JobNo
      BY JobsAreNumbered DEF ListingInv
    <3>2. QED
      BY <3>1, FewerCount DEF Rank, Newer
  <2>2. QED
    BY <1>6, <2>1
<1>8. ReadFits(q)
  BY <1>1, <1>3, <1>5, <1>6, <1>7 DEF ReadFits, PagesFit, DetailFits, TreeFits
<1>9. QED
  BY <1>1, <1>2, <1>8, ReadStepKeeps

LEMMA ReadPageKeeps == ASSUME ListingInv, NEW r \in Reading, ReadPage(r) PROVE ListingInv'
<1> DEFINE p == reading[r]
           page == Cut(p.kind, RowsFor(r), AllRows(r), p.offset)
           q == [p EXCEPT !.got = p.got \cup page, !.offset = p.offset + PageSize,
                          !.at = IF Cardinality(page) < PageSize THEN "done" ELSE "page"]
<1>1. /\ p.at = "page" /\ UNCHANGED <<jobVars, bared, labelVars, taggings>> /\ reading' = [reading EXCEPT ![r] = q]
  BY DEF ReadPage, Paging
<1>2. ReadFits(p) /\ p \in ReadingType /\ JobsFit
  BY ReadTyped
<1>3. RowsFor(r) = RowsOf(p)
  BY DEF RowsFor, RowsOf
<1>4. page \subseteq RowsOf(p) /\ RowsOf(p) \subseteq JobNo /\ JobNo \subseteq Nat /\ IsFiniteSet(RowsOf(p))
      /\ (p.kind = "runs" => RowsOf(p) \subseteq Begun)
  <2>1. RowsOf(p) \subseteq JobNo /\ JobNo \subseteq Nat /\ IsFiniteSet(JobNo) /\ (p.kind = "runs" => RowsOf(p) \subseteq Begun)
    BY <1>2, JobsAreNumbered
  <2>2. QED
    BY <1>3, <2>1, FewerCount DEF Cut
<1>5. \A j \in RowsOf(p) : j \in page <=> Rank(p.kind, RowsOf(p), j) \in p.offset .. p.offset + PageSize - 1
  BY <1>3 DEF Cut, Rank, Newer
<1>6. \A j \in RowsOf(p) : Rank(p.kind, RowsOf(p), j) \in Nat
  BY <1>4, FewerCount DEF Rank, Newer
<1>7. ASSUME NEW j \in RowsOf(p), Rank(p.kind, RowsOf(p), j) >= p.offset + PageSize PROVE ~(Cardinality(page) < PageSize)
  <2>1. p.offset \in Nat /\ RowsOf(p) \in SUBSET JobNo
    BY <1>2, <1>4 DEF ReadingType
  <2>2. Cardinality(page) >= PageSize
    BY <1>2, <1>3, <1>4, <1>7, <2>1, FullPages
  <2>3. Cardinality(page) \in Nat
    BY <1>4, FewerCount
  <2>4. QED
    BY <2>2, <2>3, ListingFacts
<1>8. p.offset \in Nat /\ PageSize \in Nat \ {0} /\ p.got \subseteq Nat
  BY <1>2, ListingFacts DEF ReadingType
<1> HIDE DEF page
<1> DEFINE got == p.got \cup page
           offset == p.offset + PageSize
           at == IF Cardinality(page) < PageSize THEN "done" ELSE "page"
<1>8a. got \subseteq Nat /\ offset \in Nat /\ at \in {"page", "done"} /\ (at = "done" <=> Cardinality(page) < PageSize)
  <2>1. page \subseteq Nat
    BY <1>4
  <2>2. got \subseteq Nat
    <3> HIDE DEF p
    <3>1. QED
      BY <1>8, <2>1
  <2>3. offset \in Nat
    <3> HIDE DEF p
    <3>1. QED
      BY <1>8
  <2>4. at \in {"page", "done"} /\ (at = "done" <=> Cardinality(page) < PageSize)
    OBVIOUS
  <2>5. QED
    BY <2>2, <2>3, <2>4
<1> HIDE DEF got, offset, at
<1>8b. q = [p EXCEPT !.got = got, !.offset = offset, !.at = at]
  BY DEF got, offset, at
<1> HIDE DEF q
<1>8c. /\ q \in ReadingType /\ q.at = at /\ q.kind = p.kind /\ q.who = p.who /\ q.owners = p.owners
       /\ q.began = p.began /\ q.got = got /\ q.offset = offset /\ q.moved = p.moved
  <2> HIDE DEF p
  <2>1. QED
    BY <1>2, <1>8a, <1>8b DEF ReadingType
<1>9. /\ q \in ReadingType /\ q.at \in {"page", "done"} /\ q.kind = p.kind /\ q.who = p.who /\ q.owners = p.owners
      /\ q.began = p.began /\ q.got = p.got \cup page /\ q.offset = p.offset + PageSize /\ q.moved = p.moved
      /\ (q.at = "done" <=> Cardinality(page) < PageSize)
  BY <1>8a, <1>8c DEF got, offset
<1>10. p.kind \in {"jobs", "runs"}
  BY <1>1, <1>2 DEF ReadFits, ReadingType, DetailFits, TreeFits
<1> HIDE DEF p, q
<1>11. PagesFit(p)
  BY <1>2 DEF ReadFits
<1>12. RowsOf(q) = RowsOf(p) /\ (Lasts(q) <=> Lasts(p))
  BY <1>9 DEF RowsOf, Lasts
<1>13. ASSUME Lasts(p) PROVE /\ p.began \subseteq RowsOf(p)
                             /\ \A j \in q.began \ q.got : Rank(q.kind, RowsOf(q), j) >= q.offset
                             /\ q.at = "done" => q.began \subseteq q.got
  <2>1. p.began \subseteq RowsOf(p) /\ \A j \in p.began \ p.got : Rank(p.kind, RowsOf(p), j) >= p.offset
    BY <1>1, <1>10, <1>11, <1>13 DEF PagesFit
  <2>2. ASSUME NEW j \in q.began \ q.got PROVE Rank(p.kind, RowsOf(p), j) >= p.offset + PageSize /\ j \in RowsOf(p)
    <3>1. j \in RowsOf(p) /\ j \notin page /\ Rank(p.kind, RowsOf(p), j) >= p.offset
      BY <1>9, <2>1, <2>2
    <3>2. QED
      BY <1>5, <1>6, <1>8, <3>1
  <2>3. QED
    BY <1>7, <1>9, <1>12, <2>1, <2>2
<1>14. ASSUME NEW j \in q.got, q.kind = "jobs" PROVE j \in JobNo /\ jobRows[j].by \in q.owners
  <2>1. CASE j \in p.got
    BY <1>9, <1>11, <1>14, <2>1 DEF PagesFit
  <2>2. CASE j \in page
    BY <1>4, <1>9, <1>14, <2>2 DEF RowsOf, JobsBy
  <2>3. QED
    BY <1>9, <2>1, <2>2
<1>15. PagesFit(q)
  BY <1>1, <1>9, <1>10, <1>11, <1>12, <1>13, <1>14 DEF PagesFit
<1>16. ReadFits(q)
  BY <1>9, <1>10, <1>15 DEF ReadFits, DetailFits, TreeFits
<1>17. QED
  BY <1>1, <1>16, ReadStepKeeps DEF p

LEMMA AskJobKeeps == ASSUME ListingInv, NEW r \in Reading, NEW v \in Viewer, NEW j \in JobNo, AskJob(r, v, j) PROVE ListingInv'
<1> DEFINE q == [Unread EXCEPT !.kind = "job", !.who = v, !.job = j, !.row = jobRows[j],
                               !.at = IF OpensTo(v, j) THEN "items" ELSE "refused"]
<1>1. reading' = [reading EXCEPT ![r] = q] /\ UNCHANGED <<jobVars, bared, labelVars, taggings>>
  BY DEF AskJob
<1>2. jobRows[j] \in JobRowType /\ j \in Nat
  BY JobsAreNumbered DEF ListingInv
<1>3. /\ q \in ReadingType /\ q.kind = "job" /\ q.who = v /\ q.job = j /\ q.row = jobRows[j]
      /\ q.at \in {"items", "refused"} /\ (q.at = "items" => OpensTo(v, j))
  BY <1>2, UnreadIs DEF ReadingType
<1> HIDE DEF q
<1>4. OpensTo(v, j) => v \in Boss \/ jobRows[j].by = v
  BY DEF OpensTo, UidOf
<1>5. ASSUME jobRows[j].state \in EndState
      PROVE  Ended(j) /\ (~jobRows[j].run /\ j \notin faulty => Produced(jobRows[j].items) = {})
  <2>1. JobFits(j) /\ Ended(j)
    BY <1>5 DEF ListingInv, JobsFit, Ended, EndState
  <2>2. jobRows[j].items = <<>> => Produced(jobRows[j].items) = {}
    BY DEF Produced
  <2>3. QED
    BY <1>5, <2>1, <2>2 DEF JobFits, RowSound
<1>6. ReadFits(q)
  BY <1>3, <1>4, <1>5 DEF ReadFits, PagesFit, DetailFits, TreeFits
<1>7. QED
  BY <1>1, <1>6, ReadStepKeeps

(* The first items of a job that is settled are settled.                     *)
LEMMA FirstAreSettled ==
  ASSUME NEW items \in Seq(RunItem)
  PROVE  FirstItems(items) \in Seq(RunItem) /\ (Settled(items) => Settled(FirstItems(items)))
<1> DEFINE n == IF Len(items) < JobItemsMax THEN Len(items) ELSE JobItemsMax
<1>1. n \in Nat /\ n <= Len(items) /\ Len(items) \in Nat
  BY ListingFacts
<1> HIDE DEF n
<1>2. \A i \in 1..n : i \in 1..Len(items) /\ items[i] \in RunItem
  BY <1>1
<1>3. 1 \in Int /\ n \in Int /\ n - 1 + 1 = n
  BY <1>1
<1>4. /\ SubSeq(items, 1, n) \in Seq(RunItem) /\ Len(SubSeq(items, 1, n)) = IF 1 <= n THEN n - 1 + 1 ELSE 0
      /\ \A i \in 1..n - 1 + 1 : SubSeq(items, 1, n)[i] = items[1 + i - 1]
  BY <1>2, <1>3, SubSeqProperties
<1>5. \A i \in 1..Len(SubSeq(items, 1, n)) : i \in 1..n /\ SubSeq(items, 1, n)[i] = items[i]
  <2> SUFFICES ASSUME NEW i \in 1..Len(SubSeq(items, 1, n)) PROVE i \in 1..n /\ SubSeq(items, 1, n)[i] = items[i]
    OBVIOUS
  <2>1. i \in 1..n /\ 1 + i - 1 = i /\ i \in 1..n - 1 + 1
    BY <1>1, <1>4
  <2>2. QED
    BY <1>4, <2>1
<1>6. Settled(items) => Settled(SubSeq(items, 1, n))
  BY <1>2, <1>5 DEF Settled
<1>7. FirstItems(items) = SubSeq(items, 1, n)
  BY DEF FirstItems, n
<1>8. QED
  BY <1>4, <1>6, <1>7

LEMMA ReadItemsKeeps == ASSUME ListingInv, NEW r \in Reading, ReadItems(r) PROVE ListingInv'
<1> DEFINE p == reading[r]
           told == DetailOf(p.row, jobRows[p.job])
           q == [p EXCEPT !.at = "done", !.row = told.row, !.made = told.made]
<1>1. p.at = "items" /\ UNCHANGED <<jobVars, bared, labelVars, taggings>> /\ reading' = [reading EXCEPT ![r] = q]
  BY DEF ReadItems
<1>2. ReadFits(p) /\ p \in ReadingType /\ JobsFit
  BY ReadTyped
<1>3. p.kind = "job"
  BY <1>1, <1>2 DEF ReadFits, ReadingType, PagesFit, TreeFits
<1>4. DetailFits(p) /\ p.job \in JobNo
  BY <1>2, <1>3 DEF ReadFits, DetailFits
<1> DEFINE all == jobRows[p.job].items
           items == ItemsOf(p.row, jobRows[p.job])
<1>5. all \in Seq(RunItem) /\ items \in Seq(RunItem) /\ p.row \in JobRowType /\ JobFits(p.job)
  <2>1. all \in Seq(RunItem) /\ JobFits(p.job)
    BY <1>2, <1>4, JobTyped
  <2>2. p.row \in JobRowType /\ <<>> \in Seq(RunItem)
    BY <1>2 DEF ReadingType
  <2>3. QED
    BY <2>1, <2>2 DEF ItemsOf
<1>5a. (p.row.run => items = all) /\ (~p.row.run => Settled(items) /\ Produced(items) = {})
  BY DEF ItemsOf, Settled, Produced
<1> HIDE DEF items
<1>6. Produced(items) \subseteq Listable
  <2>1. ASSUME NEW n \in 1..Len(items) PROVE items[n].made \in Listable \cup {NoParent}
    <3>1. items[n] \in RunItem
      BY <1>5, <2>1, ElementOfSeq
    <3>2. QED
      BY <3>1 DEF RunItem
  <2>2. QED
    BY <2>1 DEF Produced
<1>7. /\ told.row \in JobRowType /\ told.row.by = p.row.by /\ told.row.state = p.row.state /\ told.row.run = p.row.run
      /\ told.row.items = FirstItems(items) /\ told.made = Produced(items)
  <2>1. told = [row |-> [p.row EXCEPT !.items = FirstItems(items)], made |-> Produced(items)]
    BY DEF DetailOf, items
  <2>2. FirstItems(items) \in Seq(RunItem)
    BY <1>5, FirstAreSettled
  <2>3. PICK row : row = p.row
    OBVIOUS
  <2>4. row \in JobRowType /\ told = [row |-> [row EXCEPT !.items = FirstItems(items)], made |-> Produced(items)]
    BY <1>5, <2>1, <2>3
  <2> HIDE DEF told, p
  <2>5. QED
    BY <2>2, <2>3, <2>4 DEF JobRowType
<1> HIDE DEF told
<1>8. /\ q \in ReadingType /\ q.at = "done" /\ q.kind = "job" /\ q.who = p.who /\ q.job = p.job
      /\ q.row = told.row /\ q.made = Produced(items)
  BY <1>2, <1>3, <1>6, <1>7 DEF ReadingType
<1> HIDE DEF q
<1>9. ASSUME p.row.state \in EndState
      PROVE  /\ Ended(p.job) /\ (~p.row.run /\ p.job \notin faulty => Produced(all) = {})
             /\ p.row.run => Produced(items) = Produced(all)
             /\ p.job \notin faulty => Settled(FirstItems(items)) /\ Produced(items) = Produced(all)
  <2>1. Ended(p.job) /\ (~p.row.run /\ p.job \notin faulty => Produced(all) = {})
    BY <1>3, <1>4, <1>9 DEF DetailFits
  <2>2. p.job \notin faulty => Settled(all)
    BY <1>5, <2>1 DEF JobFits, RowSound, Ended, EndState
  <2>3. p.job \notin faulty => Settled(items)
    BY <1>5a, <2>2
  <2>4. QED
    BY <1>5, <1>5a, <2>1, <2>3, FirstAreSettled
<1>10. DetailFits(q)
  <2> HIDE DEF p
  <2>1. QED
    BY <1>1, <1>3, <1>4, <1>7, <1>8, <1>9 DEF DetailFits
<1>11. ReadFits(q)
  BY <1>8, <1>10 DEF ReadFits, PagesFit, TreeFits
<1>12. QED
  BY <1>1, <1>11, ReadStepKeeps

LEMMA AskTreeKeeps == ASSUME ListingInv, NEW r \in Reading, NEW v \in Viewer, AskTree(r, v) PROVE ListingInv'
<1> DEFINE sees == {e \in Listable : Sighted(v, e)}
           q == [Unread EXCEPT !.at = "direct", !.kind = "tree", !.who = v, !.nodes = labels, !.seen = sees]
<1>1. reading' = [reading EXCEPT ![r] = q] /\ UNCHANGED <<jobVars, bared, labelVars, taggings>>
  BY DEF AskTree
<1>2. labels \subseteq Label /\ sees \subseteq Listable
  BY DEF ListingInv, LabelsFit
<1> HIDE DEF sees
<1>3. q \in ReadingType /\ q.at = "direct" /\ q.kind = "tree" /\ q.who = v /\ q.nodes = labels /\ q.seen = sees
  BY <1>2, UnreadIs DEF ReadingType
<1> HIDE DEF q
<1>4. TreeFits(q)
  BY <1>3 DEF TreeFits, ListingInv, LabelsFit, sees
<1>5. ReadFits(q)
  BY <1>3, <1>4 DEF ReadFits, PagesFit, DetailFits
<1>6. QED
  BY <1>1, <1>5, ReadStepKeeps

(* Counts.                                                                   *)
LEMMA CountsCompare ==
  ASSUME NEW v, NEW t
  PROVE  /\ CountDirect(v, t) \in Nat /\ CountBelow(v, t) \in Nat /\ CountDirect(v, t) <= CountBelow(v, t)
         /\ Cardinality(FoundFor(v, t)) <= CountBelow(v, t)
         /\ \A seen \in SUBSET Listable : {e \in Listable : Sighted(v, e)} \subseteq seen => CountBelow(v, t) <= Cardinality(seen)
<1> DEFINE under == {e \in EntriesFor(t) : Sighted(v, e)}
<1>1. under \subseteq Listable /\ IsFiniteSet(under) /\ IsFiniteSet(Listable)
  <2>1. under \subseteq Listable
    BY DEF EntriesFor
  <2>2. QED
    BY <2>1, ListingFacts, FewerCount
<1>2. DirectOf(t) \subseteq EntriesFor(t)
  BY BelowIsClosed DEF DirectOf, EntriesFor
<1>3. {e \in DirectOf(t) : Sighted(v, e)} \subseteq under /\ FoundFor(v, t) \subseteq under
  BY <1>2 DEF FoundFor, OnOwnMask, Sighted, SightedWith
<1>4. CountBelow(v, t) = Cardinality(under)
  BY DEF CountBelow
<1> HIDE DEF under
<1>5. CountDirect(v, t) \in Nat /\ CountBelow(v, t) \in Nat /\ CountDirect(v, t) <= CountBelow(v, t)
  BY <1>1, <1>3, <1>4, FewerCount DEF CountDirect
<1>6. Cardinality(FoundFor(v, t)) <= CountBelow(v, t)
  BY <1>1, <1>3, <1>4, FewerCount
<1>7. ASSUME NEW seen \in SUBSET Listable, {e \in Listable : Sighted(v, e)} \subseteq seen PROVE CountBelow(v, t) <= Cardinality(seen)
  <2>1. under \subseteq seen
    BY <1>1, <1>7 DEF under
  <2>2. IsFiniteSet(seen)
    BY <1>1, FewerCount
  <2>3. QED
    BY <1>4, <2>1, <2>2, FewerCount
<1>8. QED
  BY <1>5, <1>6, <1>7

LEMMA CountTagsKeeps == ASSUME ListingInv, NEW r \in Reading, CountTags(r) PROVE ListingInv'
<1> DEFINE p == reading[r]
           counts == [t \in Label |-> CountDirect(p.who, t)]
           q == [p EXCEPT !.at = "below", !.direct = counts]
<1>1. p.at = "direct" /\ UNCHANGED <<jobVars, bared, labelVars, taggings>> /\ reading' = [reading EXCEPT ![r] = q]
  BY DEF CountTags
<1>2. ReadFits(p) /\ p \in ReadingType
  BY ReadTyped
<1>3. p.kind = "tree"
  BY <1>1, <1>2 DEF ReadFits, ReadingType, PagesFit, DetailFits
<1>4. counts \in [Label -> Nat] /\ \A t \in Label : counts[t] = CountDirect(p.who, t)
  BY CountsCompare
<1> HIDE DEF counts
<1>5. /\ q \in ReadingType /\ q.at = "below" /\ q.kind = "tree" /\ q.who = p.who /\ q.nodes = p.nodes /\ q.seen = p.seen
      /\ q.direct = counts
  BY <1>2, <1>3, <1>4 DEF ReadingType
<1> HIDE DEF p, q
<1>6. \A t \in Label : counts[t] <= CountBelow(p.who, t)
  BY <1>4, CountsCompare
<1>7. TreeFits(q)
  BY <1>1, <1>2, <1>3, <1>5, <1>6 DEF ReadFits, TreeFits
<1>8. ReadFits(q)
  BY <1>5, <1>7 DEF ReadFits, PagesFit, DetailFits
<1>9. QED
  BY <1>1, <1>8, ReadStepKeeps DEF p

LEMMA CountSubtreesKeeps == ASSUME ListingInv, NEW r \in Reading, CountSubtrees(r) PROVE ListingInv'
<1> DEFINE p == reading[r]
           counts == [t \in Label |-> CountBelow(p.who, t)]
           q == [p EXCEPT !.at = "done", !.below = counts]
<1>1. p.at = "below" /\ UNCHANGED <<jobVars, bared, labelVars, taggings>> /\ reading' = [reading EXCEPT ![r] = q]
  BY DEF CountSubtrees
<1>2. ReadFits(p) /\ p \in ReadingType
  BY ReadTyped
<1>3. p.kind = "tree"
  BY <1>1, <1>2 DEF ReadFits, ReadingType, PagesFit, DetailFits
<1>4. counts \in [Label -> Nat] /\ \A t \in Label : counts[t] = CountBelow(p.who, t)
  BY CountsCompare
<1> HIDE DEF counts
<1>5. /\ q \in ReadingType /\ q.at = "done" /\ q.kind = "tree" /\ q.who = p.who /\ q.nodes = p.nodes /\ q.seen = p.seen
      /\ q.below = counts /\ q.direct = p.direct /\ q.moved = p.moved /\ p.seen \in SUBSET Listable
  BY <1>2, <1>3, <1>4 DEF ReadingType
<1> HIDE DEF p, q
<1>6. {e \in Listable : Sighted(p.who, e)} \subseteq p.seen
  BY <1>1, <1>2, <1>3 DEF ReadFits, TreeFits
<1>7. \A t \in Label : counts[t] <= Cardinality(p.seen)
  BY <1>4, <1>5, <1>6, CountsCompare
<1>8. TreeFits(q)
  BY <1>1, <1>2, <1>3, <1>4, <1>5, <1>7 DEF ReadFits, TreeFits
<1>9. ReadFits(q)
  BY <1>5, <1>8 DEF ReadFits, PagesFit, DetailFits
<1>10. QED
  BY <1>1, <1>9, ReadStepKeeps DEF p

LEMMA ListingRests == ASSUME ListingInv, UNCHANGED listingVars PROVE ListingInv'
<1>1. UNCHANGED <<jobRows, task, faulty, started, gone, bared, labels, labelled, taggings, reading>>
  BY DEF listingVars, jobVars, labelVars
<1>2. JobsFit' /\ JobsGrow
  BY <1>1, JobsRest DEF ListingInv, JobsFit, JobsGrow, Ended
<1>3. QED
  BY <1>1, <1>2, JobStepKeeps DEF listsRest, labelVars

LEMMA ListingStays == ListingInv /\ [ListingNext]_listingVars => ListingInv'
<1> SUFFICES ASSUME ListingInv, [ListingNext]_listingVars PROVE ListingInv'
  OBVIOUS
<1>1. CASE JobSteps
  BY <1>1, SubmitJobKeeps, DeleteAccountKeeps, TakeUpKeeps, StartRunKeeps, LinkRunKeeps, AddItemKeeps, SettleItemKeeps,
     FailRecordedKeeps, FinishJobKeeps, FailJobKeeps, RestartKeeps, ReadPageKeeps, ReadItemsKeeps, AskListKeeps, AskJobKeeps DEF JobSteps
<1>2. CASE LabelSteps
  BY <1>2, DeleteLabelKeeps, RelabelKeeps, CountTagsKeeps, CountSubtreesKeeps, AskTreeKeeps DEF LabelSteps
<1>3. CASE \E e \in Listable : ChangeMask(e)
  BY <1>3, ChangeMaskKeeps
<1>4. CASE UNCHANGED listingVars
  BY <1>4, ListingRests
<1>5. QED
  BY <1>1, <1>2, <1>3, <1>4 DEF ListingNext

LEMMA ListingInvariant == ListingSpec => []ListingInv
  BY ListingStart, ListingStays, PTL DEF ListingSpec

LEMMA ListingPromise == ListingInv => ListsTellTheTruth
<1> SUFFICES ASSUME ListingInv PROVE ListsTellTheTruth
  OBVIOUS
<1>1. NothingIsSkipped
  BY ReadTyped DEF NothingIsSkipped, Answered, ReadFits, PagesFit, Lasts
<1>2. ListedJobsOpen
  <2>1. ASSUME NEW r \in Answered({"jobs"}), NEW j \in JobNo, j \in reading[r].got, reading[r].who \notin gone
        PROVE  OpensTo(reading[r].who, j)
    <3>1. reading[r].who \in Viewer /\ (reading[r].who \notin Boss => jobRows[j].by = reading[r].who)
      BY <2>1, ReadTyped DEF Answered, ReadFits, PagesFit
    <3>2. QED
      BY <2>1, <3>1, ListingFacts DEF OpensTo, UidOf
  <2>2. \A r \in Answered({"job"}) : reading[r].who \in Boss \/ reading[r].row.by = reading[r].who
    BY ReadTyped DEF Answered, ReadFits, DetailFits
  <2>3. QED
    BY <2>1, <2>2 DEF ListedJobsOpen
<1>3. EndedJobsAreTold
  BY ReadTyped DEF EndedJobsAreTold, Answered, ReadFits, DetailFits, EndState
<1>4. TreeTellsWhatIsSeen
  <2>1. \A v \in Viewer, t \in Label : Cardinality(FoundFor(v, t)) <= CountBelow(v, t)
    BY CountsCompare
  <2>2. ASSUME NEW r \in Answered({"tree"}), NEW t \in Label
        PROVE  /\ reading[r].below[t] <= Cardinality(reading[r].seen)
               /\ t \in reading[r].nodes /\ LabelAbove[t] # NoLabel => LabelAbove[t] \in reading[r].nodes
               /\ ~reading[r].moved => reading[r].direct[t] <= reading[r].below[t]
    BY ReadTyped DEF Answered, ReadFits, TreeFits
  <2>3. QED
    BY <2>1, <2>2 DEF TreeTellsWhatIsSeen
<1>5. QED
  BY <1>1, <1>2, <1>3, <1>4 DEF ListsTellTheTruth, JobsTellTheTruth

LEMMA ListingTyped == ListingInv => ListingTypeOK
<1> SUFFICES ASSUME ListingInv PROVE ListingTypeOK
  OBVIOUS
<1>1. \A r \in Reading : reading[r].at \in {"idle", "page", "items", "refused", "direct", "below", "done"}
  BY ReadTyped DEF ReadingType
<1>2. task \in [JobNo -> TaskState]
  BY LenProperties DEF ListingInv, JobsFit, JobNo
<1>3. QED
  BY <1>1, <1>2 DEF ListingInv, JobsFit, LabelsFit, JobRowType, TaskState, ListingTypeOK

----------------------------------------------------------------------------
(* What each component promises on its own.                                  *)

(* A changed password ends the sessions opened with an older one, what a     *)
(* read-only token lets in only reads, and no address signs in more than its *)
(* share in any window, for any calls, persons and addresses (patch_me,      *)
(* reset_user_password, enforce_read_scope, login_rate_limit).               *)
THEOREM GateLetsInTheRight == GateSpec => []GateHolds
  BY GateInvariant, GatePromise, PTL DEF GateSpec

(* What is told of the providers is what requests use, and no setting that   *)
(* was answered is lost to another, for any environment and any patches      *)
(* (provider_from_env, update_instance_settings_handler).                    *)
THEOREM ProvidersAreAsTold == ProvidersInit /\ [][ProvidersNext]_providerVars => []ProvidersAgree
  BY ProvidersInvariant, ProvidersPromise, PTL

(* A title that a reader gave stays, and a generated one is of its own entry *)
(* and of the attempt that succeeded, whatever is deleted, captured, scanned *)
(* or restarted meanwhile (the title handlers of routes.rs, codex::run).     *)
THEOREM TitlesStayWithTheirEntries == TitlesInit /\ [][TitlesNext]_titleVars => []TitlesStand
  BY TitlesInvariant, TitlesPromise, PTL

(* Pages skip nobody's job, a listed job opens, a job that has ended is told *)
(* with every item ended and every entry they made, unless a statement of    *)
(* its own task failed, over faults, crashes and recoveries cut short, and   *)
(* the counts of the tag tree are of what its reader sees                    *)
(* (list_capture_jobs, get_capture_job, list_runs_for_caller, list_tag_tree).*)
THEOREM ListsAreTrue == ListingSpec => []ListsTellTheTruth
  BY ListingInvariant, ListingPromise, PTL

----------------------------------------------------------------------------
(* The composition: a behaviour of the library is one of each component,     *)
(* because what is not the focus rests.                                      *)

LibraryInv == TabInv /\ DraftsInv /\ RailInv /\ SelectionInv /\ SchemaInv /\ GateInv /\ ProvidersInv /\ TitlesInv /\ ListingInv

LEMMA LibraryStarts == LibraryInit => LibraryInv
  BY TabStarts, DraftsStart, RailStarts, SelectionStarts, SchemaStarts, GateStarts, ProvidersStart, TitlesStart,
     ListingStart DEF LibraryInit, LibraryInv

LEMMA EachMovesOrRests ==
  ASSUME [LibraryNext]_LibraryVars
  PROVE  /\ [TabNext]_tabVars /\ [DraftsNext]_draftVars /\ [RailNext]_railVars
         /\ [SelectionNext]_selectionVars /\ [SchemaNext]_schemaVars /\ [GateNext]_gateVars
         /\ [ProvidersNext]_providerVars /\ [TitlesNext]_titleVars /\ [ListingNext]_listingVars
<1>1. CASE UNCHANGED LibraryVars
  BY <1>1 DEF LibraryVars
<1>2. CASE LibraryNext
  <2>1. [TabNext]_tabVars
    BY <1>2 DEF LibraryNext, Rests
  <2>2. [DraftsNext]_draftVars
    BY <1>2 DEF LibraryNext, Rests
  <2>3. [RailNext]_railVars
    BY <1>2 DEF LibraryNext, Rests
  <2>4. [SelectionNext]_selectionVars
    BY <1>2 DEF LibraryNext, Rests
  <2>5. [SchemaNext]_schemaVars
    BY <1>2 DEF LibraryNext, Rests
  <2>6. [ProvidersNext]_providerVars
    BY <1>2 DEF LibraryNext, Rests
  <2>7. [TitlesNext]_titleVars
    BY <1>2 DEF LibraryNext, Rests
  <2>8. [ListingNext]_listingVars
    <3>1. CASE focus \in {"lists", "details", "labels"}
      BY <1>2, <3>1 DEF LibraryNext, ListingNext
    <3>2. CASE focus \notin {"lists", "details", "labels"}
      BY <1>2, <3>2 DEF LibraryNext, Rests
    <3>3. QED
      BY <3>1, <3>2
  <2>9. [GateNext]_gateVars
    <3>1. CASE focus \in {"tokens", "secrets", "limit"}
      BY <1>2, <3>1 DEF LibraryNext, GateNext
    <3>2. CASE focus \notin {"tokens", "secrets", "limit"}
      BY <1>2, <3>2 DEF LibraryNext, Rests, gateVars
    <3>3. QED
      BY <3>1, <3>2
  <2>10. QED
    BY <2>1, <2>2, <2>3, <2>4, <2>5, <2>6, <2>7, <2>8, <2>9
<1>3. QED
  BY <1>1, <1>2

LEMMA LibraryStays == LibraryInv /\ [LibraryNext]_LibraryVars => LibraryInv'
<1> SUFFICES ASSUME LibraryInv, [LibraryNext]_LibraryVars PROVE LibraryInv'
  OBVIOUS
<1>1. TabInv' /\ DraftsInv' /\ RailInv'
  BY EachMovesOrRests, TabStays, DraftsStay, RailStays DEF LibraryInv
<1>2. SelectionInv' /\ SchemaInv' /\ GateInv'
  BY EachMovesOrRests, SelectionStays, SchemaStays, GateStays DEF LibraryInv
<1>3. ProvidersInv' /\ TitlesInv' /\ ListingInv'
  BY EachMovesOrRests, ProvidersStay, TitlesStay, ListingStays DEF LibraryInv
<1>4. QED
  BY <1>1, <1>2, <1>3 DEF LibraryInv

LEMMA LibraryInvariant == LibrarySpec => []LibraryInv
  BY LibraryStarts, LibraryStays, PTL DEF LibrarySpec

(* Every variable of every component keeps its type, whatever the focus and  *)
(* for any instance.                                                         *)
THEOREM LibraryTyped == LibrarySpec => []LibraryTypeOK
<1>1. LibraryInv => LibraryTypeOK
  <2> SUFFICES ASSUME LibraryInv PROVE LibraryTypeOK
    OBVIOUS
  <2>1. TabTypeOK /\ DraftsTypeOK /\ RailTypeOK /\ ProvidersTypeOK
    BY DEF LibraryInv, TabInv, DraftsInv, RailInv, ProvidersInv
  <2>2. SelectionTypeOK /\ SchemaTypeOK
    BY SelectionTyped, SchemaTyped DEF LibraryInv
  <2>3. GateTypeOK /\ TitlesTypeOK /\ ListingTypeOK
    BY TitlesPromise, ListingTyped DEF LibraryInv, GateInv, SecretsInv
  <2>4. QED
    BY <2>1, <2>2, <2>3 DEF LibraryTypeOK, In
<1>2. QED
  BY <1>1, LibraryInvariant, PTL

(* What the web interface shows and submits agrees with what is selected,    *)
(* searched for and typed, whatever answers are late (App, ContextRail,      *)
(* CaptureDialog).                                                           *)
THEOREM TheScreenAgrees == LibrarySpec => []ScreenAgrees
<1>1. LibraryInv => ScreenAgrees
  <2> SUFFICES ASSUME LibraryInv PROVE ScreenAgrees
    OBVIOUS
  <2>1. TabKeepsTrack /\ DraftsFit /\ RailShowsTheSelection /\ SelectionAgrees /\ ListIsOfTheQuery
    BY TabPromise, RailPromise, SelectionPromise DEF LibraryInv, DraftsInv
  <2>2. QED
    BY <2>1 DEF ScreenAgrees, In
<1>2. QED
  BY <1>1, LibraryInvariant, PTL

(* Requests that may not are not let in, what is told of the providers is    *)
(* what is used, no setting or title that was answered is lost, and lists of *)
(* jobs, runs and tags tell the truth (the gate, the settings, the titles    *)
(* and the lists of routes.rs).                                              *)
THEOREM RequestsDoWhatTheySay == LibrarySpec => []RequestsHold
<1>1. LibraryInv => RequestsHold
  <2> SUFFICES ASSUME LibraryInv PROVE RequestsHold
    OBVIOUS
  <2>1. GateHolds /\ ProvidersAgree /\ TitlesStand /\ ListsTellTheTruth
    BY GatePromise, ProvidersPromise, TitlesPromise, ListingPromise DEF LibraryInv
  <2>2. QED
    BY <2>1 DEF RequestsHold, In, ListsTellTheTruth
<1>2. QED
  BY <1>1, LibraryInvariant, PTL
=============================================================================
