--------------------------- MODULE EntriesProofs ----------------------------
(***************************************************************************)
(* For any number of captures, re-archives, fetches and entries: siblings  *)
(* keep distinct positions, files stay with the entry they were fetched    *)
(* for, a sync is incremental, trees can be deleted, and a deletion leaves *)
(* every stored size right.                                                *)
(*                                                                         *)
(* The tree is a matter of rowids that are handed out again: the invariant *)
(* says for every task that still holds one what it can rely on unless it  *)
(* has lost its entry, and for a sync that whatever was in the archive     *)
(* when it looked only shrinks.                                            *)
(*                                                                         *)
(* The provers have no induction over data here. Least elements take its   *)
(* place: of sets of numbers for the largest rowid and position, of sets   *)
(* of sets for the sum of the sizes.                                       *)
(***************************************************************************)
EXTENDS MCEntries, FiniteSetTheorems, WellFoundedInduction, TLAPS

(* Entries are dated, a child has a position and a member of a playlist has  *)
(* a parent, which is older.                                                 *)
EntrySound(i) ==
    /\ ent[i].at \in 1..clock
    /\ ent[i].position \in (-1)..(clock + MaxId)
    /\ ent[i].parent = Null <=> ent[i].uid[2] = Null
    /\ ent[i].parent # Null => ent[ent[i].parent].at < ent[i].at

(* What was in the archive when a sync looked, by its place in the           *)
(* playlist.                                                                 *)
Old(t) ==
    {ent[i].uid[2] : i \in {i \in Live : ent[i].at <= looked[t]
                              /\ (i \in Containers \/ ent[i].parent \in Containers)}}

(* What a task relies on between its statements: the entry that it made or   *)
(* took is still the one it meant, its container still is one, and what a    *)
(* sync has left to do is not in the archive yet.                            *)
TaskSound(t) ==
    /\ looked[t] <= clock
    /\ pc[t] \in {"idle", "lookup", "listing", "insert"} => \A i \in Live : ent[i].uid[1] # t
    /\ pc[t] \in {"root", "enrol", "attach", "swap"} /\ t \notin lost =>
        own[t] \in Live /\ ent[own[t]].uid = aim[t]
    /\ pc[t] \in {"root", "enrol"} => aim[t] = <<t, Null>>
    /\ pc[t] = "enrol" => IsPlaylist(t)
    /\ pc[t] = "idle" => held[t] = Null
    /\ t \in Active \ lost /\ held[t] # Null => held[t] \in Containers
    /\ KindOf[t] = "sync" =>
        /\ pc[t] \in {"insert", "root", "enrol"} => Old(t) = {}
        /\ pc[t] \in {"members", "attach"} => todo[t] \cap Old(t) = {}

(* The roots that delete_entry collects by, as long as nobody lost an        *)
(* entry.                                                                    *)
RootsSound ==
    lost = {} => \A i \in Live : IF ent[i].parent = Null THEN ent[i].root \in {i, Null}
                                 ELSE ent[i].root = ent[i].parent

(* The inductive invariant of the tree.                                      *)
TreeInv ==
    /\ TypeOK /\ \A i \in Live : EntrySound(i)
    /\ \A t \in Task : TaskSound(t)
    /\ SiblingsHaveDistinctPositions /\ RootsSound /\ NoStraysUnlessLost /\ SyncAddsNothingTwice

----------------------------------------------------------------------------
(* A set of numbers has a least one. This takes the place of induction.      *)
LEMMA NatMin == ASSUME NEW T \in SUBSET Nat, T # {} PROVE \E x \in T : \A y \in T : x <= y
<1> DEFINE R == {ss \in Nat \X Nat : ss[1] < ss[2]}
<1>1. OpToRel(<, Nat) = R
  BY DEF OpToRel
<1>2. IsWellFoundedOn(R, Nat)
  BY <1>1, NatLessThanWellFounded
<1>3. \E x \in T : \A y \in T : ~(<<y, x>> \in R)
  <2> HIDE DEF R
  <2>1. QED
    BY <1>2, WFMin
<1>4. PICK x \in T : \A y \in T : ~(<<y, x>> \in R)
  BY <1>3
<1>5. ASSUME NEW y \in T PROVE x <= y
  <2>1. x \in Nat /\ y \in Nat /\ <<y, x>> \in Nat \X Nat
    OBVIOUS
  <2>2. ~(y < x)
    BY <1>4, <2>1
  <2>3. QED
    BY <2>1, <2>2
<1>6. QED
  BY <1>5

(* A bounded set of integers has a largest one.                              *)
LEMMA LargestIs ==
    ASSUME NEW S \in SUBSET Int, S # {}, NEW n \in Int, \A k \in S : k <= n
    PROVE  Largest(S) \in S /\ \A k \in S : k <= Largest(S)
<1> DEFINE T == {n - k : k \in S}
<1>0. \A k \in S : k \in Int /\ n - k \in Nat
  OBVIOUS
<1>1. T \in SUBSET Nat /\ T # {}
  BY <1>0
<1>2. PICK x \in T : \A y \in T : x <= y
  BY <1>1, NatMin
<1>3. PICK m \in S : x = n - m
  BY <1>2
<1>4. ASSUME NEW k \in S PROVE k <= m
  <2>1. n - k \in T
    OBVIOUS
  <2>2. x <= n - k
    BY <1>2, <2>1
  <2>3. QED
    BY <1>0, <1>3, <2>2
<1>5. \E i \in S : \A k \in S : k <= i
  BY <1>4
<1>6. QED
  BY <1>5 DEF Largest

(* SQLite never gives a new row the id of a live one.                        *)
LEMMA NewIdIsFresh ==
    ASSUME TypeOK
    PROVE  NewId \in Nat \ {0} /\ NewId \notin Live
<1>1. Live \in SUBSET Int /\ \A k \in Live : k <= MaxId /\ k >= 1
  BY EntryTreeAssumption DEF TypeOK, Id
<1>2. CASE Live = {}
  BY <1>2 DEF NewId
<1>3. CASE Live # {}
  <2>1. Largest(Live) \in Live /\ \A k \in Live : k <= Largest(Live)
    BY <1>1, <1>3, LargestIs, EntryTreeAssumption
  <2>2. Largest(Live) \in Int /\ Largest(Live) >= 1 /\ NewId = Largest(Live) + 1
    BY <1>1, <1>3, <2>1 DEF NewId
  <2>3. \A k \in Live : k \in Int /\ k # Largest(Live) + 1
    BY <1>1, <2>1, <2>2
  <2>4. QED
    BY <2>2, <2>3
<1>4. QED
  BY <1>2, <1>3

(* A new child goes behind all the others.                                   *)
LEMMA NextPositionIsNext ==
    ASSUME TypeOK, \A i \in Live : EntrySound(i), NEW p
    PROVE  /\ NextPosition(p) \in 0..(clock + 1 + MaxId)
           /\ \A j \in Children(p) : ent[j].position < NextPosition(p)
<1> DEFINE S == {-1} \cup {ent[j].position : j \in Children(p)}
<1>1. \A j \in Children(p) : ent[j].position \in (-1)..(clock + MaxId)
  BY DEF Children, EntrySound
<1>2. clock \in Nat /\ MaxId \in Nat /\ clock + MaxId \in Nat
  BY EntryTreeAssumption DEF TypeOK
<1>3. S \in SUBSET Int /\ S # {} /\ -1 \in S /\ \A k \in S : k \in (-1)..(clock + MaxId)
  BY <1>1, <1>2
<1>4. Largest(S) \in S /\ \A k \in S : k <= Largest(S)
  <2> DEFINE n == clock + MaxId
  <2>1. n \in Int /\ \A k \in S : k <= n
    BY <1>2, <1>3
  <2> HIDE DEF S, n
  <2>2. QED
    BY <1>3, <2>1, LargestIs
<1>5. NextPosition(p) = Largest(S) + 1
  BY DEF NextPosition
<1>6. \A j \in Children(p) : ent[j].position \in S
  OBVIOUS
<1> HIDE DEF S
<1>7. Largest(S) \in (-1)..(clock + MaxId)
  BY <1>3, <1>4
<1>8. \A j \in Children(p) : ent[j].position \in Int /\ ent[j].position <= Largest(S)
  BY <1>3, <1>4, <1>6
<1>9. Largest(S) \in Int /\ Largest(S) >= -1 /\ Largest(S) <= clock + MaxId
  BY <1>2, <1>7
<1>10. NextPosition(p) \in 0..(clock + 1 + MaxId)
  BY <1>2, <1>5, <1>9
<1>11. QED
  BY <1>5, <1>8, <1>9, <1>10

(* The newest container is one of them.                                      *)
LEMMA NewestIsOne ==
    ASSUME TypeOK, \A i \in Live : EntrySound(i), NEW S \in SUBSET Live, S # {}
    PROVE  Newest(S) \in S
<1> DEFINE T == {ent[i].at : i \in S}
<1>1. clock \in Nat /\ \A i \in S : ent[i].at \in Int /\ ent[i].at <= clock
  BY DEF TypeOK, EntrySound
<1>2. T \in SUBSET Int /\ T # {} /\ \A k \in T : k <= clock
  BY <1>1
<1>3. Largest(T) \in T /\ \A k \in T : k <= Largest(T)
  <2> DEFINE n == clock
  <2>1. n \in Int /\ \A k \in T : k <= n
    BY <1>1, <1>2
  <2> HIDE DEF T, n
  <2>2. QED
    BY <1>2, <2>1, LargestIs
<1>4. PICK i \in S : ent[i].at = Largest(T)
  BY <1>3
<1>5. \A j \in S : ent[j].at <= ent[i].at
  BY <1>3, <1>4
<1>6. QED
  BY <1>5 DEF Newest

(* There are no more rows than ids.                                          *)
LEMMA FewLive ==
    ASSUME TypeOK, NEW S \in SUBSET Live
    PROVE  Cardinality(S) \in 0..MaxId
<1>1. IsFiniteSet(Id) /\ Cardinality(Id) = MaxId
  <2>1. IsFiniteSet(1..MaxId)
    BY EntryTreeAssumption, FS_Interval
  <2>2. Cardinality(1..MaxId) = MaxId
    BY EntryTreeAssumption, FS_Interval
  <2>3. QED
    BY <2>1, <2>2 DEF Id
<1>2. S \in SUBSET Id
  BY DEF TypeOK
<1>3. Cardinality(S) <= MaxId /\ IsFiniteSet(S)
  BY <1>1, <1>2, FS_Subset
<1>4. QED
  BY <1>3, FS_CardinalityType, EntryTreeAssumption

----------------------------------------------------------------------------
(* What a step leaves of the entries that there are, and what it adds.       *)
Keeps(i) ==
    /\ i \in Live
    /\ ent'[i].uid = ent[i].uid /\ ent'[i].at = ent[i].at /\ ent'[i].parent = ent[i].parent
Kept ==
    \A i \in DOMAIN ent' :
        Keeps(i) \/ (i \notin Live \cup {Null} /\ ent'[i].at \in Nat /\ ent'[i].at > clock)

(* A step makes no old entry a container.                                    *)
LEMMA ContainersStay ==
    ASSUME Kept, NEW i \in Live
    PROVE  i \in Containers' => i \in Containers
  BY DEF Kept, Keeps, Containers, Roots, Live

(* What was in the archive when a sync looked is fixed: later entries are    *)
(* younger, and deletions only take away.                                    *)
LEMMA OldShrinks ==
    ASSUME TypeOK, Kept, NEW t \in Task, looked'[t] = looked[t], looked[t] <= clock
    PROVE  Old(t)' \subseteq Old(t)
<1> SUFFICES ASSUME NEW i \in Live', ent'[i].at <= looked'[t],
                    i \in Containers' \/ ent'[i].parent \in Containers'
             PROVE  ent'[i].uid[2] \in Old(t)
  BY DEF Old
<1>1. Keeps(i)
  <2>1. clock \in Nat /\ looked[t] \in Nat
    BY DEF TypeOK
  <2>2. Keeps(i) \/ (ent'[i].at \in Nat /\ ent'[i].at > clock)
    BY DEF Kept, Live
  <2>3. ~(ent'[i].at \in Nat /\ ent'[i].at > clock)
    BY <2>1
  <2>4. QED
    BY <2>2, <2>3
<1>2. ent[i].parent \in Live \cup {Null} /\ Null \notin Live'
  BY <1>1 DEF Keeps, Kept, TypeOK, Live, Id, Null
<1>3. i \in Containers \/ ent[i].parent \in Containers
  BY <1>1, <1>2, ContainersStay DEF Keeps, Containers, Roots
<1>4. QED
  BY <1>1, <1>3 DEF Keeps, Old

(* A task that does not move keeps what it relies on, unless its entry is    *)
(* deleted and it is counted as lost.                                        *)
LEMMA OtherTask ==
    ASSUME TypeOK, Kept, NEW t \in Task, TaskSound(t), clock' \in Nat, clock <= clock',
           pc'[t] = pc[t], held'[t] = held[t], own'[t] = own[t], aim'[t] = aim[t],
           todo'[t] = todo[t], looked'[t] = looked[t],
           \A i \in DOMAIN ent' : i \notin Live => ent'[i].uid[1] # t,
           t \in Active /\ t \notin lost' =>
               /\ t \notin lost
               /\ own[t] \in Live => own[t] \in DOMAIN ent'
               /\ held[t] \in Live => held[t] \in DOMAIN ent'
    PROVE  TaskSound(t)'
<1>1. Old(t)' \subseteq Old(t)
  BY OldShrinks DEF TaskSound
<1>2. looked'[t] <= clock'
  BY DEF TaskSound, TypeOK
<1>3. pc[t] \in {"idle", "lookup", "listing", "insert"} => \A i \in Live' : ent'[i].uid[1] # t
  BY DEF TaskSound, Kept, Keeps, Live
<1>4. pc[t] \in {"root", "enrol", "attach", "swap"} /\ t \notin lost' =>
        own[t] \in Live' /\ ent'[own[t]].uid = aim[t]
  BY DEF TaskSound, Kept, Keeps, Live, Active
<1>5. t \in Active /\ t \notin lost' /\ held[t] # Null => held[t] \in Containers'
  <2> SUFFICES ASSUME t \in Active, t \notin lost', held[t] # Null PROVE held[t] \in Containers'
    OBVIOUS
  <2>1. held[t] \in Containers /\ held[t] \in Live
    BY DEF TaskSound, Containers, Roots
  <2>2. held[t] \in Live' /\ Keeps(held[t])
    BY <2>1 DEF Kept, Live
  <2>3. QED
    BY <2>1, <2>2 DEF Containers, Roots, Keeps
<1>6. t \in Active' <=> t \in Active
  BY DEF Active
<1>7. KindOf[t] = "sync" =>
        /\ pc[t] \in {"insert", "root", "enrol"} => Old(t)' = {}
        /\ pc[t] \in {"members", "attach"} => todo[t] \cap Old(t)' = {}
  BY <1>1 DEF TaskSound
<1>8. pc[t] \in {"root", "enrol"} => aim[t] = <<t, Null>>
  BY DEF TaskSound
<1>9. pc[t] = "enrol" => IsPlaylist(t)
  BY DEF TaskSound
<1>10. QED
  BY <1>2, <1>3, <1>4, <1>5, <1>6, <1>7, <1>8, <1>9 DEF TaskSound

(* A step that adds entries only of captures that did not find them keeps    *)
(* the property of syncs.                                                    *)
LEMMA SyncStays ==
    ASSUME TypeOK, Kept, \A t \in Task : looked[t] <= clock, lost \subseteq lost',
           \A i \in Live : ent[i].uid[1] \in Task,
           \A t \in Task : looked'[t] = looked[t] \/ \A i \in DOMAIN ent' : ent'[i].uid[1] # t,
           SyncAddsNothingTwice,
           \A j \in DOMAIN ent' : j \notin Live =>
               /\ ent'[j].uid[1] \in Task
               /\ KindOf[ent'[j].uid[1]] = "sync" => ent'[j].uid[2] \notin Old(ent'[j].uid[1])
    PROVE  SyncAddsNothingTwice'
<1> SUFFICES ASSUME NEW i \in Live', NEW j \in Live', KindOf[ent'[j].uid[1]] = "sync",
                    ent'[j].uid[1] \notin lost', ent'[i].at <= looked'[ent'[j].uid[1]],
                    i \in Containers' \/ ent'[i].parent \in Containers'
             PROVE  ent'[i].uid[2] # ent'[j].uid[2]
  BY DEF SyncAddsNothingTwice
<1>1. PICK t \in Task : t = ent'[j].uid[1]
  BY DEF Kept, Keeps, Live
<1>2. looked'[t] = looked[t]
  BY <1>1 DEF Live
<1>3. Old(t)' \subseteq Old(t)
  BY <1>1, <1>2, OldShrinks
<1>4. ent'[i].uid[2] \in Old(t)'
  BY <1>1 DEF Old
<1>5. CASE j \notin Live
  BY <1>1, <1>3, <1>4, <1>5 DEF Live
<1>6. CASE j \in Live
  <2>1. ent'[j].uid = ent[j].uid
    BY <1>6 DEF Kept, Keeps, Live
  <2>2. PICK k \in Live : /\ ent[k].uid[2] = ent'[i].uid[2] /\ ent[k].at <= looked[t]
                          /\ k \in Containers \/ ent[k].parent \in Containers
    BY <1>3, <1>4 DEF Old
  <2>3. t = ent[j].uid[1] /\ t \notin lost /\ KindOf[t] = "sync"
    BY <1>1, <2>1
  <2>4. QED
    BY <1>6, <2>1, <2>2, <2>3 DEF SyncAddsNothingTwice
<1>7. QED
  BY <1>5, <1>6

----------------------------------------------------------------------------
(* The two outcomes of a member.                                             *)
SkipMember(t) ==
    /\ pc[t] = "members" /\ \E m \in todo[t] : todo' = [todo EXCEPT ![t] = @ \ {m}]
    /\ UNCHANGED <<ent, clock, pc, held, own, aim, looked, lost>>
AppendMember(t) ==
    /\ pc[t] = "members" /\ pc' = [pc EXCEPT ![t] = "attach"] /\ held[t] \in Live
    /\ \E m \in todo[t] :
        /\ todo' = [todo EXCEPT ![t] = @ \ {m}]
        /\ Add(NewEntry(t, m, held[t], held[t], {})) /\ Keep(t, m)
    /\ UNCHANGED <<held, looked, lost>>

(* The member that is next in the listing fails or is appended.              *)
LEMMA MemberFailsOrIsAppended ==
    ASSUME TypeOK, NEW t \in Task, InsertMember(t)
    PROVE  SkipMember(t) \/ AppendMember(t)
<1> DEFINE m == CHOOSE n \in todo[t] : \A k \in todo[t] : n <= k
<1>1. todo[t] \in SUBSET Nat /\ todo[t] # {}
  BY EntryTreeAssumption DEF TypeOK, Member, InsertMember
<1>2. m \in todo[t]
  BY <1>1, NatMin
<1>3. /\ pc[t] = "members" /\ todo' = [todo EXCEPT ![t] = @ \ {m}]
      /\ \/ /\ held[t] \in Live /\ Go(t, "attach")
            /\ Add(NewEntry(t, m, held[t], RootGiven(t), {})) /\ Keep(t, m)
         \/ UNCHANGED <<ent, clock, pc, own, aim>>
      /\ UNCHANGED <<held, looked, lost>>
  BY DEF InsertMember, At
<1> HIDE DEF m
<1>4. QED
  BY <1>2, <1>3 DEF SkipMember, AppendMember, Go, RootGiven

(* The invariant holds at the start.                                         *)
LEMMA TreeInvInit == Init => TreeInv
<1> SUFFICES ASSUME Init PROVE TreeInv
  OBVIOUS
<1>1. Live = {}
  BY DEF Init, Live
<1>2. TypeOK
  BY <1>1, EntryTreeAssumption DEF Init, TypeOK, TaskState, Uid
<1>3. \A t \in Task : TaskSound(t)
  BY <1>1 DEF Init, TaskSound, Active
<1>4. QED
  BY <1>1, <1>2, <1>3
     DEF TreeInv, SiblingsHaveDistinctPositions, RootsSound, NoStraysUnlessLost,
         SyncAddsNothingTwice

(* Every step of the tree keeps its invariant.                               *)
LEMMA TreeInvNext == TreeInv /\ [Next]_vars => TreeInv'
<1> SUFFICES ASSUME TreeInv, [Next]_vars PROVE TreeInv'
  OBVIOUS
<1> USE DEF local, Go, At
<1>t. TypeOK /\ Null \notin Live /\ \A i \in Live : ent[i].uid[1] \in Task
  BY DEF TreeInv, TypeOK, Id, Null, Entry, Uid
<1>e. \A i \in Live : EntrySound(i)
  BY DEF TreeInv
<1>k. \A t \in Task : TaskSound(t)
  BY DEF TreeInv
<1>l. \A t \in Task : looked[t] <= clock
  BY <1>k DEF TaskSound
<1>s. SiblingsHaveDistinctPositions
  BY DEF TreeInv
<1>r. RootsSound
  BY DEF TreeInv
<1>n. NoStraysUnlessLost
  BY DEF TreeInv
<1>y. SyncAddsNothingTwice
  BY DEF TreeInv
<1>0. CASE UNCHANGED vars
  <2>1. /\ ent' = ent /\ clock' = clock /\ lost' = lost /\ pc' = pc /\ held' = held /\ own' = own /\ aim' = aim
        /\ todo' = todo /\ looked' = looked
    BY <1>0 DEF vars
  <2>2. ASSUME NEW t \in Task PROVE TaskSound(t)'
    <3>1. Live' = Live /\ Containers' = Containers /\ Active' = Active
      BY <2>1 DEF Containers, Roots, Live, Active
    <3>2. Old(t)' = Old(t)
      BY <2>1, <3>1 DEF Old
    <3>3. QED
      BY <2>1, <1>k, <3>1, <3>2 DEF TaskSound
  <2>3. QED
    BY <2>1, <2>2, <1>t, <1>e, <1>s, <1>r, <1>n, <1>y, SMTT(20)
       DEF TreeInv, TypeOK, Live, EntrySound, SiblingsHaveDistinctPositions,
       RootsSound, NoStraysUnlessLost, SyncAddsNothingTwice, Containers, Roots
<1>1. ASSUME NEW t \in Task, Begin(t) PROVE TreeInv'
  <2>u. ent' = ent /\ clock' = clock /\ lost' = lost
    BY <1>1 DEF Begin
  <2>v. Kept
    BY <2>u DEF Kept, Keeps, Live
  <2>1. TypeOK'
    <3>1. pc' \in [Task -> TaskState] /\ held' \in [Task -> Id \cup {Null}] /\ own' \in [Task -> Id \cup {Null}]
      BY <1>1, <1>t DEF Begin, TypeOK, TaskState
    <3>2. aim' \in [Task -> Uid] /\ todo' \in [Task -> SUBSET Member] /\ looked' \in [Task -> Nat]
      BY <1>1, <1>t DEF Begin, TypeOK, Entry, Uid
    <3>3. QED
      BY <2>u, <1>t, <3>1, <3>2 DEF TypeOK, Live
  <2>2. \A i \in Live' : EntrySound(i)'
    BY <2>u, <1>e DEF EntrySound, Live
  <2>3. SiblingsHaveDistinctPositions' /\ RootsSound' /\ NoStraysUnlessLost'
    BY <2>u, <1>s, <1>r, <1>n
       DEF SiblingsHaveDistinctPositions, RootsSound, NoStraysUnlessLost, Containers, Roots, Live
  <2>4. SyncAddsNothingTwice'
    BY <1>1, <2>u, <1>y DEF Begin, SyncAddsNothingTwice, Containers, Roots, Live
  <2>5. TaskSound(t)'
    <3>o. Old(t)' = Old(t) /\ Containers' = Containers /\ Live' = Live
      BY <1>1, <2>u DEF Begin, Old, Containers, Roots, Live
    <3>1. looked'[t] <= clock' /\ held'[t] = Null /\ \A i \in Live' : ent'[i].uid[1] # t
      BY <1>1, <1>k, <2>u, <3>o DEF Begin, TaskSound
    <3>2. pc'[t] \in {"insert", "lookup", "swap", "attach"}
      BY <1>1, <1>t DEF Begin, TypeOK
    <3>3. pc'[t] \in {"swap", "attach"} => own'[t] \in Live /\ ent[own'[t]].uid = aim'[t]
      BY <1>1, <1>t DEF Begin, TypeOK
    <3>4. KindOf[t] = "sync" => pc'[t] = "lookup"
      BY <1>1, <1>t DEF Begin, TypeOK
    <3>5. QED
      BY <2>u, <3>o, <3>1, <3>2, <3>3, <3>4 DEF TaskSound
  <2>6. ASSUME NEW q \in Task, q # t PROVE TaskSound(q)'
    BY <2>6, <1>1, <2>u, <2>v, <1>t, <1>k, OtherTask DEF Begin, TypeOK, Live
  <2>20. QED
    BY <2>1, <2>2, <2>3, <2>4, <2>5, <2>6 DEF TreeInv
<1>2. ASSUME NEW t \in Task, Lookup(t) PROVE TreeInv'
  <2>u. ent' = ent /\ clock' = clock /\ lost' = lost
    BY <1>2 DEF Lookup
  <2>v. Kept
    BY <2>u DEF Kept, Keeps, Live
  <2>1. TypeOK'
    <3>0. Matching # {} => Newest(Matching) \in Id
      BY <1>t, <1>e, NewestIsOne, ZenonT(40) DEF Matching, Containers, Roots, TypeOK
    <3>1. pc' \in [Task -> TaskState] /\ held' \in [Task -> Id \cup {Null}] /\ own' \in [Task -> Id \cup {Null}]
      BY <1>2, <1>t, <3>0 DEF Lookup, TypeOK, TaskState
    <3>2. aim' \in [Task -> Uid] /\ todo' \in [Task -> SUBSET Member] /\ looked' \in [Task -> Nat]
      BY <1>2, <1>t DEF Lookup, TypeOK, Entry, Uid
    <3>3. QED
      BY <2>u, <1>t, <3>1, <3>2 DEF TypeOK, Live
  <2>2. \A i \in Live' : EntrySound(i)'
    BY <2>u, <1>e DEF EntrySound, Live
  <2>3. SiblingsHaveDistinctPositions' /\ RootsSound' /\ NoStraysUnlessLost'
    BY <2>u, <1>s, <1>r, <1>n
       DEF SiblingsHaveDistinctPositions, RootsSound, NoStraysUnlessLost, Containers, Roots, Live
  <2>4. SyncAddsNothingTwice'
    BY <1>2, <2>u, <2>v, <1>t, <1>l, <1>y, <1>k, SyncStays DEF Lookup, TaskSound, TypeOK, Live
  <2>5. TaskSound(t)'
    <3>1. looked'[t] = clock /\ clock' = clock /\ Containers' = Containers /\ Live' = Live /\ clock \in Nat
      BY <1>2, <1>t, <2>u DEF Lookup, TypeOK, Containers, Roots, Live
    <3>2. \A i \in Live : ent[i].uid[1] # t
      BY <1>2, <1>k DEF Lookup, TaskSound
    <3>3. CASE Matching = {}
      <4>1. pc'[t] = "insert" /\ held'[t] = held[t]
        BY <1>2, <1>t, <3>3 DEF Lookup, TypeOK
      <4>2. t \notin lost /\ held[t] # Null => held[t] \in Containers
        BY <1>2, <1>k DEF Lookup, TaskSound, Active
      <4>3. Old(t)' = {}
        BY <3>1, <3>3 DEF Old, Matching
      <4>4. QED
        BY <2>u, <3>1, <3>2, <4>1, <4>2, <4>3 DEF TaskSound
    <3>4. CASE Matching # {}
      <4>0. Newest(Matching) \in Matching /\ Matching = Containers
        <5>1. Matching \in SUBSET Live
          BY DEF Matching, Containers, Roots
        <5>2. QED
          BY <1>t, <1>e, <3>4, <5>1, NewestIsOne DEF Matching
      <4>1. pc'[t] = "listing" /\ held'[t] \in Containers
        BY <1>2, <1>t, <3>4, <4>0 DEF Lookup, TypeOK
      <4>2. QED
        BY <2>u, <3>1, <3>2, <4>1 DEF TaskSound
    <3>5. QED
      BY <3>3, <3>4
  <2>6. ASSUME NEW q \in Task, q # t PROVE TaskSound(q)'
    BY <2>6, <1>2, <2>u, <2>v, <1>t, <1>k, OtherTask DEF Lookup, TypeOK, Live
  <2>20. QED
    BY <2>1, <2>2, <2>3, <2>4, <2>5, <2>6 DEF TreeInv
<1>3. ASSUME NEW t \in Task, Listing(t) PROVE TreeInv'
  <2>u. ent' = ent /\ clock' = clock /\ lost' = lost
    BY <1>3 DEF Listing
  <2>v. Kept
    BY <2>u DEF Kept, Keeps, Live
  <2>1. TypeOK'
    BY <1>3, <2>u, <1>t DEF Listing, TypeOK, Live, TaskState, Uid
  <2>2. \A i \in Live' : EntrySound(i)'
    BY <2>u, <1>e DEF EntrySound, Live
  <2>3. SiblingsHaveDistinctPositions' /\ RootsSound' /\ NoStraysUnlessLost'
    BY <2>u, <1>s, <1>r, <1>n
       DEF SiblingsHaveDistinctPositions, RootsSound, NoStraysUnlessLost, Containers, Roots, Live
  <2>4. SyncAddsNothingTwice'
    BY <1>3, <2>u, <1>y DEF Listing, SyncAddsNothingTwice, Containers, Roots, Live
  <2>5. TaskSound(t)'
    <3>o. Old(t)' = Old(t) /\ Containers' = Containers /\ Live' = Live
      BY <1>3, <2>u DEF Listing, Old, Containers, Roots, Live
    <3>1. TaskSound(t) /\ pc[t] = "listing" /\ looked' = looked /\ held' = held
      BY <1>3, <1>k DEF Listing
    <3>2. CASE held[t] \notin Live
      <4>1. pc'[t] = "ended"
        BY <1>3, <1>t, <3>2 DEF Listing, TypeOK
      <4>2. QED
        BY <2>u, <3>o, <3>1, <4>1 DEF TaskSound, Active
    <3>3. CASE held[t] \in Live
      <4>1. pc'[t] = "members" /\ todo'[t] = Member \ Archived(t)
        BY <1>3, <1>t, <3>3 DEF Listing, TypeOK
      <4>2. ASSUME NEW m \in Old(t), m \in Member PROVE m \in Archived(t)
        <5>1. PICK i \in Live : ent[i].uid[2] = m /\ (i \in Containers \/ ent[i].parent \in Containers)
          BY DEF Old
        <5>2. m # Null
          BY <4>2, EntryTreeAssumption DEF Member, Null
        <5>3. QED
          BY <5>1, <5>2 DEF Archived, Containers
      <4>3. QED
        BY <2>u, <3>o, <3>1, <4>1, <4>2 DEF TaskSound, Active
    <3>4. QED
      BY <3>2, <3>3
  <2>6. ASSUME NEW q \in Task, q # t PROVE TaskSound(q)'
    BY <2>6, <1>3, <2>u, <2>v, <1>t, <1>k, OtherTask DEF Listing, TypeOK, Live
  <2>20. QED
    BY <2>1, <2>2, <2>3, <2>4, <2>5, <2>6 DEF TreeInv
<1>4. ASSUME NEW t \in Task, InsertRoot(t) PROVE TreeInv'
  <2> DEFINE e == NewEntry(t, Null, Null, Null, {})
  <2>a. clock' = clock + 1 /\ lost' = lost /\ looked' = looked /\ held' = held /\ Add(e) /\ Keep(t, Null)
    BY <1>4 DEF InsertRoot, Add
  <2>i. NewId \in Id /\ NewId \notin Live /\ NewId # Null
    BY <2>a, <1>t, NewIdIsFresh DEF Add, Null
  <2>u. /\ DOMAIN ent' = Live \cup {NewId} /\ ent'[NewId] = e /\ \A j \in Live : ent'[j] = ent[j]
    BY <2>a, <2>i DEF Add
  <2>e. /\ e.uid = <<t, Null>> /\ e.at = clock + 1 /\ e.parent = Null /\ e.root = Null /\ e.from = {}
        /\ e.position = (IF Null = Null THEN -1 ELSE NextPosition(Null))
    BY DEF NewEntry
  <2>p. clock \in Nat /\ MaxId \in Nat /\ e.position \in (-1)..(clock + 1 + MaxId)
    <3>1. clock \in Nat /\ MaxId \in Nat
      BY <1>t, EntryTreeAssumption DEF TypeOK
    <3>2. NextPosition(Null) \in 0..(clock + 1 + MaxId)
      BY <1>t, <1>e, NextPositionIsNext
    <3>3. QED
      BY <2>e, <3>1, <3>2
  <2>y. e \in Entry
    <3>1. e.position \in Int /\ clock + 1 \in Nat
      BY <2>p
    <3>2. <<t, Null>> \in Uid /\ <<t, Null>> \in Uid
      BY <1>t DEF Uid
    <3>3. {} \in SUBSET Label
      BY <3>2 DEF Label
    <3>4. Null \in Id \cup {Null} /\ Null \in Id \cup {Null}
      BY <1>t, <2>i DEF TypeOK
    <3>5. QED
      BY <2>e, <3>1, <3>2, <3>3, <3>4 DEF Entry, NewEntry
  <2> HIDE DEF e
  <2>v. Kept
    BY <2>u, <2>e, <2>i, <2>p DEF Kept, Keeps, Live
  <2>w. Live' = Live \cup {NewId} /\ \A j \in Live : j \in Containers' <=> j \in Containers
    BY <2>u, <2>i DEF Containers, Roots, Live
  <2>1. TypeOK'
    <3>1. \A j \in Live' : ent'[j] \in Entry /\ ent'[j].parent \in Live' \cup {Null} /\ ent'[j].root \in Live' \cup {Null}
      BY <1>t, <2>u, <2>w, <2>y, <2>e, <2>i DEF TypeOK
    <3>2. Live' \subseteq Id /\ clock' \in Nat
      BY <1>t, <2>a, <2>w, <2>i DEF TypeOK
    <3>3. own' \in [Task -> Id \cup {Null}] /\ aim' \in [Task -> Uid] /\ todo' \in [Task -> SUBSET Member] /\ pc' \in [Task -> TaskState]
      BY <1>4, <1>t, <2>a, <2>i DEF InsertRoot, Keep, TypeOK, Uid, TaskState
    <3>4. QED
      BY <1>t, <2>a, <3>1, <3>2, <3>3 DEF TypeOK
  <2>2. \A j \in Live' : EntrySound(j)'
    <3>1. ASSUME NEW j \in Live PROVE EntrySound(j)'
      <4>1. EntrySound(j) /\ ent'[j] = ent[j] /\ (ent[j].parent # Null => ent'[ent[j].parent] = ent[ent[j].parent])
        BY <1>e, <1>t, <2>u DEF TypeOK
      <4>2. ent[j].at \in 1..clock' /\ ent[j].position \in (-1)..(clock' + MaxId)
        BY <2>a, <2>p, <4>1 DEF EntrySound
      <4>3. QED
        BY <4>1, <4>2 DEF EntrySound
    <3>2. ASSUME NEW k, k = NewId PROVE EntrySound(k)'
      <4>1. clock + 1 \in 1..clock' /\ e.position \in (-1)..(clock' + MaxId)
        BY <2>a, <2>p
      <4>2. TRUE
        BY <1>e, <2>p DEF EntrySound
      <4>3. ent'[NewId] = e
        BY <2>u
      <4>4. ent'[k].at = clock + 1 /\ ent'[k].position = e.position /\ ent'[k].parent = Null /\ ent'[k].uid = <<t, Null>>
        BY <3>2, <4>3, <2>e
      <4>5. QED
        BY <4>1, <4>2, <4>3, <4>4 DEF EntrySound
    <3>3. QED
      BY <2>w, <3>1, <3>2
  <2>3. SiblingsHaveDistinctPositions'
    BY <2>u, <2>w, <2>e, <2>i, <1>t, <1>s DEF SiblingsHaveDistinctPositions
  <2>4. RootsSound'
    BY <2>a, <2>u, <2>w, <2>e, <1>r DEF RootsSound
  <2>5. NoStraysUnlessLost'
    <3>1. \A j \in Live : /\ \A f \in ent[j].from : f.by \notin lost => f.aim = ent[j].uid
                          /\ ent[j].parent # Null /\ ent[j].uid[1] \notin lost => ent[j].parent \in Containers /\ ent[j].parent \in Live
      BY <1>n DEF NoStraysUnlessLost, Containers, Roots
    <3>2. \A f \in e.from : f.aim = e.uid
      BY <2>e
    <3>3. e.parent # Null /\ e.uid[1] \notin lost => e.parent \in Containers /\ e.parent \in Live
      BY <1>4, <1>k, <2>e DEF InsertRoot, TaskSound, Active
    <3>4. QED
      BY <2>a, <2>u, <2>w, <3>1, <3>2, <3>3 DEF NoStraysUnlessLost
  <2>6. SyncAddsNothingTwice'
    <3>1. KindOf[t] = "sync" => Null \notin Old(t)
      BY <1>4, <1>k DEF InsertRoot, TaskSound
    <3>2. \A j \in DOMAIN ent' : j \notin Live => ent'[j].uid = <<t, Null>>
      BY <2>u, <2>e
    <3>3. QED
      BY <2>a, <2>v, <1>t, <1>l, <1>y, <3>1, <3>2, SyncStays
  <2>7. TaskSound(t)'
    <3>1. own'[t] = NewId /\ aim'[t] = <<t, Null>> /\ ent'[NewId].uid = <<t, Null>> /\ NewId \in Live'
      BY <1>t, <2>a, <2>u, <2>w, <2>e DEF Keep, TypeOK
    <3>2. pc'[t] = "root"
      BY <1>4, <1>t DEF InsertRoot, TypeOK
    <3>3. looked'[t] <= clock'
      BY <1>t, <1>l, <2>a DEF TypeOK
    <3>4. Old(t)' \subseteq Old(t)
      BY <1>t, <1>l, <2>a, <2>v, OldShrinks
    <3>5. todo'[t] \subseteq todo[t] /\ t \in Active
      BY <1>4, <1>t DEF InsertRoot, TypeOK, Active
    <3>6. t \notin lost /\ held[t] # Null => held[t] \in Containers /\ held[t] \in Live
      BY <1>k, <3>5 DEF TaskSound, Containers, Roots
    <3>7. KindOf[t] = "sync" => Old(t)' \cap Old(t) = {}
      BY <1>4, <1>k, <3>4 DEF InsertRoot, TaskSound
    <3>8. QED
      BY <2>a, <2>w, <3>1, <3>2, <3>3, <3>4, <3>5, <3>6, <3>7 DEF TaskSound
  <2>8. ASSUME NEW q \in Task, q # t PROVE TaskSound(q)'
    <3>1. \A j \in DOMAIN ent' : j \notin Live => ent'[j].uid[1] # q
      BY <2>8, <2>u, <2>e
    <3>2. clock' \in Nat /\ clock <= clock'
      BY <2>a, <2>p
    <3>3. /\ pc'[q] = pc[q] /\ own'[q] = own[q] /\ aim'[q] = aim[q] /\ todo'[q] = todo[q]
          /\ looked'[q] = looked[q] /\ held'[q] = held[q]
      BY <2>8, <1>4, <1>t, <2>a DEF InsertRoot, Keep, TypeOK
    <3>4. QED
      BY <1>t, <1>k, <2>a, <2>u, <2>v, <3>1, <3>2, <3>3, OtherTask
  <2>20. QED
    BY <2>1, <2>2, <2>3, <2>4, <2>5, <2>6, <2>7, <2>8 DEF TreeInv
<1>5. ASSUME NEW t \in Task, SetRoot(t) PROVE TreeInv'
  <2>u. /\ DOMAIN ent' = Live /\ clock' = clock /\ lost' = lost /\ looked' = looked
        /\ \A j \in Live : /\ ent'[j].uid = ent[j].uid /\ ent'[j].at = ent[j].at /\ ent'[j].parent = ent[j].parent
                         /\ ent'[j].under = ent[j].under
    BY <1>5, <1>t DEF SetRoot, TypeOK, Live, Entry
  <2>v. Kept
    BY <2>u DEF Kept, Keeps, Live
  <2>w. Live' = Live /\ Containers' = Containers
    BY <2>u DEF Containers, Roots, Live
  <2>1. TypeOK'
    <3>1. \A j \in Live : ent'[j] \in Entry /\ ent'[j].root \in Live \cup {Null}
      BY <1>5, <1>t DEF SetRoot, TypeOK, Entry
    <3>2. pc' \in [Task -> TaskState]
      BY <1>5, <1>t DEF SetRoot, TypeOK, TaskState
    <3>3. held' = held /\ own' = own /\ aim' = aim /\ todo' = todo
      BY <1>5 DEF SetRoot
    <3>4. QED
      BY <2>u, <2>w, <1>t, <3>1, <3>2, <3>3 DEF TypeOK
  <2>2. \A i \in Live' : EntrySound(i)'
    BY <1>5, <2>u, <1>t, <1>e DEF SetRoot, EntrySound, Live, TypeOK, Entry
  <2>3. SiblingsHaveDistinctPositions'
    BY <1>5, <2>u, <1>t, <1>s DEF SetRoot, SiblingsHaveDistinctPositions, Live, TypeOK, Entry
  <2>4. RootsSound'
    <3>1. ASSUME lost = {}, NEW j \in Live
          PROVE  ent'[j].root = ent[j].root \/ (ent[j].parent = Null /\ ent'[j].root = j)
      <4>1. own[t] \in Live /\ ent[own[t]].uid = <<t, Null>>
        BY <1>5, <1>k, <3>1 DEF SetRoot, TaskSound
      <4>2. ent[own[t]].parent = Null
        BY <1>e, <4>1 DEF EntrySound
      <4>3. ent' = [ent EXCEPT ![own[t]].root = own[t]]
        BY <1>5, <4>1 DEF SetRoot
      <4>4. CASE j = own[t]
        BY <1>t, <4>2, <4>3, <4>4 DEF Live, TypeOK, Entry
      <4>5. CASE j # own[t]
        BY <4>1, <4>3, <4>5 DEF Live
      <4>6. QED
        BY <4>4, <4>5
    <3>2. QED
      BY <2>u, <2>w, <1>r, <3>1 DEF RootsSound
  <2>5. NoStraysUnlessLost'
    BY <1>5, <2>u, <2>w, <1>t, <1>n, <1>k DEF SetRoot, NoStraysUnlessLost, Live, TypeOK, Entry
  <2>6. SyncAddsNothingTwice'
    BY <2>u, <2>w, <1>y DEF SyncAddsNothingTwice
  <2>7. TaskSound(t)'
    <3>o. Old(t)' = Old(t) /\ looked' = looked
      BY <2>u, <2>w DEF Old
    <3>1. TaskSound(t) /\ pc[t] = "root" /\ own' = own /\ aim' = aim /\ held' = held /\ todo' = todo
      BY <1>5, <1>k DEF SetRoot
    <3>2. pc'[t] = IF IsPlaylist(t) THEN "enrol" ELSE "attach"
      BY <1>5, <1>t DEF SetRoot, TypeOK
    <3>3. KindOf[t] = "sync" => IsPlaylist(t)
      BY DEF IsPlaylist
    <3>4. QED
      BY <2>u, <2>w, <3>o, <3>1, <3>2, <3>3 DEF TaskSound, Active
  <2>8. ASSUME NEW q \in Task, q # t PROVE TaskSound(q)'
    BY <2>8, <1>5, <2>u, <2>v, <1>t, <1>k, OtherTask DEF SetRoot, TypeOK, Live
  <2>20. QED
    BY <2>1, <2>2, <2>3, <2>4, <2>5, <2>6, <2>7, <2>8 DEF TreeInv
<1>6. ASSUME NEW t \in Task, Enrol(t) PROVE TreeInv'
  <2>u. ent' = ent /\ clock' = clock /\ lost' = lost
    BY <1>6 DEF Enrol
  <2>v. Kept
    BY <2>u DEF Kept, Keeps, Live
  <2>1. TypeOK'
    BY <1>6, <2>u, <1>t DEF Enrol, TypeOK, Live, TaskState, Uid
  <2>2. \A i \in Live' : EntrySound(i)'
    BY <2>u, <1>e DEF EntrySound, Live
  <2>3. SiblingsHaveDistinctPositions' /\ RootsSound' /\ NoStraysUnlessLost'
    BY <2>u, <1>s, <1>r, <1>n
       DEF SiblingsHaveDistinctPositions, RootsSound, NoStraysUnlessLost, Containers, Roots, Live
  <2>4. SyncAddsNothingTwice'
    BY <1>6, <2>u, <1>y DEF Enrol, SyncAddsNothingTwice, Containers, Roots, Live
  <2>5. TaskSound(t)'
    <3>o. Old(t)' = Old(t) /\ Containers' = Containers /\ Live' = Live
      BY <1>6, <2>u DEF Enrol, Old, Containers, Roots, Live
    <3>1. TaskSound(t) /\ pc[t] = "enrol" /\ looked' = looked /\ own' = own /\ aim' = aim /\ todo' = todo
      BY <1>6, <1>k DEF Enrol
    <3>2. CASE own[t] \notin Live
      <4>1. pc'[t] = "ended"
        BY <1>6, <1>t, <3>2 DEF Enrol, TypeOK
      <4>2. QED
        BY <2>u, <3>o, <3>1, <4>1 DEF TaskSound, Active
    <3>3. CASE own[t] \in Live
      <4>1. pc'[t] = "members" /\ held'[t] = own[t]
        BY <1>6, <1>t, <3>3 DEF Enrol, TypeOK
      <4>2. t \notin lost => own[t] \in Containers
        BY <1>e, <3>1, <3>3 DEF TaskSound, EntrySound, Containers, Roots, IsPlaylist
      <4>3. QED
        BY <2>u, <3>o, <3>1, <4>1, <4>2 DEF TaskSound, Active
    <3>4. QED
      BY <3>2, <3>3
  <2>6. ASSUME NEW q \in Task, q # t PROVE TaskSound(q)'
    BY <2>6, <1>6, <2>u, <2>v, <1>t, <1>k, OtherTask DEF Enrol, TypeOK, Live
  <2>20. QED
    BY <2>1, <2>2, <2>3, <2>4, <2>5, <2>6 DEF TreeInv
<1>7. ASSUME NEW t \in Task, SkipMember(t) PROVE TreeInv'
  <2>u. ent' = ent /\ clock' = clock /\ lost' = lost
    BY <1>7 DEF SkipMember
  <2>v. Kept
    BY <2>u DEF Kept, Keeps, Live
  <2>1. TypeOK'
    BY <1>7, <2>u, <1>t DEF SkipMember, TypeOK, Live, TaskState, Uid
  <2>2. \A i \in Live' : EntrySound(i)'
    BY <2>u, <1>e DEF EntrySound, Live
  <2>3. SiblingsHaveDistinctPositions' /\ RootsSound' /\ NoStraysUnlessLost'
    BY <2>u, <1>s, <1>r, <1>n
       DEF SiblingsHaveDistinctPositions, RootsSound, NoStraysUnlessLost, Containers, Roots, Live
  <2>4. SyncAddsNothingTwice'
    BY <1>7, <2>u, <1>y DEF SkipMember, SyncAddsNothingTwice, Containers, Roots, Live
  <2>5. TaskSound(t)'
    <3>o. Old(t)' = Old(t) /\ Containers' = Containers /\ Live' = Live
      BY <1>7, <2>u DEF SkipMember, Old, Containers, Roots, Live
    <3>1. TaskSound(t) /\ pc[t] = "members" /\ pc' = pc /\ looked' = looked /\ own' = own /\ aim' = aim /\ held' = held
      BY <1>7, <1>k DEF SkipMember
    <3>2. todo'[t] \subseteq todo[t]
      BY <1>7, <1>t DEF SkipMember, TypeOK
    <3>3. QED
      BY <2>u, <3>o, <3>1, <3>2 DEF TaskSound, Active
  <2>6. ASSUME NEW q \in Task, q # t PROVE TaskSound(q)'
    BY <2>6, <1>7, <2>u, <2>v, <1>t, <1>k, OtherTask DEF SkipMember, TypeOK, Live
  <2>20. QED
    BY <2>1, <2>2, <2>3, <2>4, <2>5, <2>6 DEF TreeInv
<1>8. ASSUME NEW t \in Task, AppendMember(t) PROVE TreeInv'
  <2>m. PICK m \in todo[t] : todo' = [todo EXCEPT ![t] = @ \ {m}] /\ Add(NewEntry(t, m, held[t], held[t], {})) /\ Keep(t, m)
    BY <1>8 DEF AppendMember
  <2>n. m \in Member /\ m # Null /\ held[t] \in Live /\ held[t] # Null
    BY <1>8, <1>t, <2>m, EntryTreeAssumption DEF AppendMember, TypeOK, Member, Null
  <2> DEFINE e == NewEntry(t, m, held[t], held[t], {})
  <2>a. clock' = clock + 1 /\ lost' = lost /\ looked' = looked /\ held' = held /\ Add(e) /\ Keep(t, m)
    BY <1>8, <2>m DEF AppendMember, Add
  <2>i. NewId \in Id /\ NewId \notin Live /\ NewId # Null
    BY <2>a, <1>t, NewIdIsFresh DEF Add, Null
  <2>u. /\ DOMAIN ent' = Live \cup {NewId} /\ ent'[NewId] = e /\ \A j \in Live : ent'[j] = ent[j]
    BY <2>a, <2>i DEF Add
  <2>e. /\ e.uid = <<t, m>> /\ e.at = clock + 1 /\ e.parent = held[t] /\ e.root = held[t] /\ e.from = {}
        /\ e.position = (IF held[t] = Null THEN -1 ELSE NextPosition(held[t]))
    BY DEF NewEntry
  <2>p. clock \in Nat /\ MaxId \in Nat /\ e.position \in (-1)..(clock + 1 + MaxId)
    <3>1. clock \in Nat /\ MaxId \in Nat
      BY <1>t, EntryTreeAssumption DEF TypeOK
    <3>2. NextPosition(held[t]) \in 0..(clock + 1 + MaxId)
      BY <1>t, <1>e, NextPositionIsNext
    <3>3. QED
      BY <2>e, <3>1, <3>2
  <2>y. e \in Entry
    <3>1. e.position \in Int /\ clock + 1 \in Nat
      BY <2>p
    <3>2. <<t, m>> \in Uid /\ <<t, Null>> \in Uid
      BY <2>n DEF Uid
    <3>3. {} \in SUBSET Label
      BY <3>2 DEF Label
    <3>4. held[t] \in Id \cup {Null} /\ held[t] \in Id \cup {Null}
      BY <1>t, <2>i, <2>n DEF TypeOK
    <3>5. QED
      BY <2>e, <3>1, <3>2, <3>3, <3>4 DEF Entry, NewEntry
  <2> HIDE DEF e
  <2>v. Kept
    BY <2>u, <2>e, <2>i, <2>p DEF Kept, Keeps, Live
  <2>w. Live' = Live \cup {NewId} /\ \A j \in Live : j \in Containers' <=> j \in Containers
    BY <2>u, <2>i DEF Containers, Roots, Live
  <2>z. \A j \in Live : ent[j].parent = held[t] => ent[j].position \in Int /\ e.position \in Int /\ ent[j].position < e.position
    <3>1. \A j \in Children(held[t]) : ent[j].position < NextPosition(held[t])
      BY <1>t, <1>e, NextPositionIsNext
    <3>2. \A j \in Live : ent[j].position \in Int
      BY <1>t DEF TypeOK, Entry
    <3>3. QED
      BY <2>e, <2>n, <2>p, <3>1, <3>2 DEF Children
  <2>1. TypeOK'
    <3>1. \A j \in Live' : ent'[j] \in Entry /\ ent'[j].parent \in Live' \cup {Null} /\ ent'[j].root \in Live' \cup {Null}
      BY <1>t, <2>u, <2>w, <2>y, <2>e, <2>i, <2>n DEF TypeOK
    <3>2. Live' \subseteq Id /\ clock' \in Nat
      BY <1>t, <2>a, <2>w, <2>i DEF TypeOK
    <3>3. own' \in [Task -> Id \cup {Null}] /\ aim' \in [Task -> Uid] /\ todo' \in [Task -> SUBSET Member] /\ pc' \in [Task -> TaskState]
      BY <1>8, <1>t, <2>a, <2>i, <2>m, <2>n DEF AppendMember, Keep, TypeOK, Uid, TaskState
    <3>4. QED
      BY <1>t, <2>a, <3>1, <3>2, <3>3 DEF TypeOK
  <2>2. \A j \in Live' : EntrySound(j)'
    <3>1. ASSUME NEW j \in Live PROVE EntrySound(j)'
      <4>1. EntrySound(j) /\ ent'[j] = ent[j] /\ (ent[j].parent # Null => ent'[ent[j].parent] = ent[ent[j].parent])
        BY <1>e, <1>t, <2>u DEF TypeOK
      <4>2. ent[j].at \in 1..clock' /\ ent[j].position \in (-1)..(clock' + MaxId)
        BY <2>a, <2>p, <4>1 DEF EntrySound
      <4>3. QED
        BY <4>1, <4>2 DEF EntrySound
    <3>2. ASSUME NEW k, k = NewId PROVE EntrySound(k)'
      <4>1. clock + 1 \in 1..clock' /\ e.position \in (-1)..(clock' + MaxId)
        BY <2>a, <2>p
      <4>2. ent[held[t]].at < clock + 1
        BY <1>e, <2>p, <2>n DEF EntrySound
      <4>3. ent'[NewId] = e /\ ent'[held[t]] = ent[held[t]]
        BY <2>u, <2>n
      <4>4. ent'[k].at = clock + 1 /\ ent'[k].position = e.position /\ ent'[k].parent = held[t] /\ ent'[k].uid = <<t, m>>
        BY <3>2, <4>3, <2>e
      <4>5. QED
        BY <4>1, <4>2, <4>3, <4>4, <2>n DEF EntrySound
    <3>3. QED
      BY <2>w, <3>1, <3>2
  <2>3. SiblingsHaveDistinctPositions'
    BY <2>u, <2>w, <2>e, <2>i, <1>t, <1>s, <2>n, <2>z DEF SiblingsHaveDistinctPositions
  <2>4. RootsSound'
    BY <2>a, <2>u, <2>w, <2>e, <1>r, <2>n DEF RootsSound
  <2>5. NoStraysUnlessLost'
    <3>1. \A j \in Live : /\ \A f \in ent[j].from : f.by \notin lost => f.aim = ent[j].uid
                          /\ ent[j].parent # Null /\ ent[j].uid[1] \notin lost => ent[j].parent \in Containers /\ ent[j].parent \in Live
      BY <1>n DEF NoStraysUnlessLost, Containers, Roots
    <3>2. \A f \in e.from : f.aim = e.uid
      BY <2>e
    <3>3. e.parent # Null /\ e.uid[1] \notin lost => e.parent \in Containers /\ e.parent \in Live
      BY <1>8, <1>k, <2>e, <2>n DEF AppendMember, TaskSound, Active
    <3>4. QED
      BY <2>a, <2>u, <2>w, <3>1, <3>2, <3>3 DEF NoStraysUnlessLost
  <2>6. SyncAddsNothingTwice'
    <3>1. KindOf[t] = "sync" => m \notin Old(t)
      BY <1>8, <1>k, <2>n DEF AppendMember, TaskSound
    <3>2. \A j \in DOMAIN ent' : j \notin Live => ent'[j].uid = <<t, m>>
      BY <2>u, <2>e
    <3>3. QED
      BY <2>a, <2>v, <1>t, <1>l, <1>y, <3>1, <3>2, SyncStays
  <2>7. TaskSound(t)'
    <3>1. own'[t] = NewId /\ aim'[t] = <<t, m>> /\ ent'[NewId].uid = <<t, m>> /\ NewId \in Live'
      BY <1>t, <2>a, <2>u, <2>w, <2>e DEF Keep, TypeOK
    <3>2. pc'[t] = "attach"
      BY <1>8, <1>t DEF AppendMember, TypeOK
    <3>3. looked'[t] <= clock'
      BY <1>t, <1>l, <2>a DEF TypeOK
    <3>4. Old(t)' \subseteq Old(t)
      BY <1>t, <1>l, <2>a, <2>v, OldShrinks
    <3>5. todo'[t] \subseteq todo[t] /\ t \in Active
      BY <1>8, <1>t, <2>m DEF AppendMember, TypeOK, Active
    <3>6. t \notin lost /\ held[t] # Null => held[t] \in Containers /\ held[t] \in Live
      BY <1>k, <3>5 DEF TaskSound, Containers, Roots
    <3>7. KindOf[t] = "sync" => Old(t)' \cap todo[t] = {}
      BY <1>8, <1>k, <3>4 DEF AppendMember, TaskSound
    <3>8. QED
      BY <2>a, <2>w, <3>1, <3>2, <3>3, <3>4, <3>5, <3>6, <3>7 DEF TaskSound
  <2>8. ASSUME NEW q \in Task, q # t PROVE TaskSound(q)'
    <3>1. \A j \in DOMAIN ent' : j \notin Live => ent'[j].uid[1] # q
      BY <2>8, <2>u, <2>e
    <3>2. clock' \in Nat /\ clock <= clock'
      BY <2>a, <2>p
    <3>3. /\ pc'[q] = pc[q] /\ own'[q] = own[q] /\ aim'[q] = aim[q] /\ todo'[q] = todo[q]
          /\ looked'[q] = looked[q] /\ held'[q] = held[q]
      BY <2>8, <1>8, <1>t, <2>a, <2>m DEF AppendMember, Keep, TypeOK
    <3>4. QED
      BY <1>t, <1>k, <2>a, <2>u, <2>v, <3>1, <3>2, <3>3, OtherTask
  <2>20. QED
    BY <2>1, <2>2, <2>3, <2>4, <2>5, <2>6, <2>7, <2>8 DEF TreeInv
<1>9. ASSUME NEW t \in Task, Attach(t) PROVE TreeInv'
  <2>u. /\ DOMAIN ent' = Live /\ clock' = clock /\ lost' = lost /\ looked' = looked
        /\ \A j \in Live : /\ ent'[j].uid = ent[j].uid /\ ent'[j].at = ent[j].at /\ ent'[j].parent = ent[j].parent
                         /\ ent'[j].under = ent[j].under
    BY <1>9, <1>t DEF Attach, TypeOK, Live, Entry
  <2>v. Kept
    BY <2>u DEF Kept, Keeps, Live
  <2>w. Live' = Live /\ Containers' = Containers
    BY <2>u DEF Containers, Roots, Live
  <2>1. TypeOK'
    <3>1. \A j \in Live : ent'[j] \in Entry /\ ent'[j].root \in Live \cup {Null}
      <4>1. [by |-> t, aim |-> aim[t]] \in Label
        BY <1>t DEF TypeOK, Label
      <4>2. \A j \in Live : ent[j].from \cup {[by |-> t, aim |-> aim[t]]} \in SUBSET Label
        BY <1>t, <4>1 DEF TypeOK, Entry
      <4>3. QED
        BY <1>9, <1>t, <4>2 DEF Attach, TypeOK, Entry
    <3>2. pc' \in [Task -> TaskState]
      BY <1>9, <1>t DEF Attach, TypeOK, TaskState
    <3>3. held' = held /\ own' = own /\ aim' = aim /\ todo' = todo
      BY <1>9 DEF Attach
    <3>4. QED
      BY <2>u, <2>w, <1>t, <3>1, <3>2, <3>3 DEF TypeOK
  <2>2. \A i \in Live' : EntrySound(i)'
    BY <1>9, <2>u, <1>t, <1>e DEF Attach, EntrySound, Live, TypeOK, Entry
  <2>3. SiblingsHaveDistinctPositions'
    BY <1>9, <2>u, <1>t, <1>s DEF Attach, SiblingsHaveDistinctPositions, Live, TypeOK, Entry
  <2>4. RootsSound'
    BY <1>9, <2>u, <1>t, <1>r DEF Attach, RootsSound, Live, TypeOK, Entry
  <2>5. NoStraysUnlessLost'
    <3>1. ASSUME NEW j \in Live, NEW f \in ent'[j].from, f.by \notin lost PROVE f.aim = ent[j].uid
      <4>1. \A g \in ent[j].from : g.by \notin lost => g.aim = ent[j].uid
        BY <1>n DEF NoStraysUnlessLost
      <4>2. CASE f \in ent[j].from
        BY <3>1, <4>1, <4>2
      <4>3. CASE f \notin ent[j].from
        <5>1. AttachTo(t) = j /\ f = [by |-> t, aim |-> aim[t]]
          BY <1>9, <1>t, <4>3 DEF Attach, Live, TypeOK, Entry
        <5>2. t \notin lost /\ own[t] = j
          BY <3>1, <5>1 DEF AttachTo
        <5>3. ent[own[t]].uid = aim[t]
          BY <1>9, <1>k, <5>2 DEF Attach, TaskSound
        <5>4. QED
          BY <5>1, <5>2, <5>3
      <4>4. QED
        BY <4>2, <4>3
    <3>2. \A j \in Live : ent[j].parent # Null /\ ent[j].uid[1] \notin lost => ent[j].parent \in Containers
      BY <1>n DEF NoStraysUnlessLost
    <3>3. QED
      BY <2>u, <2>w, <3>1, <3>2 DEF NoStraysUnlessLost
  <2>6. SyncAddsNothingTwice'
    BY <2>u, <2>w, <1>y DEF SyncAddsNothingTwice
  <2>7. TaskSound(t)'
    <3>o. Old(t)' = Old(t) /\ looked' = looked
      BY <2>u, <2>w DEF Old
    <3>1. TaskSound(t) /\ pc[t] = "attach" /\ own' = own /\ aim' = aim /\ held' = held /\ todo' = todo
      BY <1>9, <1>k DEF Attach
    <3>2. pc'[t] = IF IsPlaylist(t) THEN "members" ELSE "ended"
      BY <1>9, <1>t DEF Attach, TypeOK
    <3>3. QED
      BY <2>u, <2>w, <3>o, <3>1, <3>2 DEF TaskSound, Active
  <2>8. ASSUME NEW q \in Task, q # t PROVE TaskSound(q)'
    BY <2>8, <1>9, <2>u, <2>v, <1>t, <1>k, OtherTask DEF Attach, TypeOK, Live
  <2>20. QED
    BY <2>1, <2>2, <2>3, <2>4, <2>5, <2>6, <2>7, <2>8 DEF TreeInv
<1>10. ASSUME NEW t \in Task, RecordTweet(t) PROVE TreeInv'
  <2> DEFINE e == NewEntry(t, Null, Null, NewId, {[by |-> t, aim |-> <<t, Null>>]})
  <2>a. clock' = clock + 1 /\ lost' = lost /\ looked' = looked /\ held' = held /\ Add(e) /\ Keep(t, Null)
    BY <1>10 DEF RecordTweet, Add
  <2>i. NewId \in Id /\ NewId \notin Live /\ NewId # Null
    BY <2>a, <1>t, NewIdIsFresh DEF Add, Null
  <2>u. /\ DOMAIN ent' = Live \cup {NewId} /\ ent'[NewId] = e /\ \A j \in Live : ent'[j] = ent[j]
    BY <2>a, <2>i DEF Add
  <2>e. /\ e.uid = <<t, Null>> /\ e.at = clock + 1 /\ e.parent = Null /\ e.root = NewId /\ e.from = {[by |-> t, aim |-> <<t, Null>>]}
        /\ e.position = (IF Null = Null THEN -1 ELSE NextPosition(Null))
    BY DEF NewEntry
  <2>p. clock \in Nat /\ MaxId \in Nat /\ e.position \in (-1)..(clock + 1 + MaxId)
    <3>1. clock \in Nat /\ MaxId \in Nat
      BY <1>t, EntryTreeAssumption DEF TypeOK
    <3>2. NextPosition(Null) \in 0..(clock + 1 + MaxId)
      BY <1>t, <1>e, NextPositionIsNext
    <3>3. QED
      BY <2>e, <3>1, <3>2
  <2>y. e \in Entry
    <3>1. e.position \in Int /\ clock + 1 \in Nat
      BY <2>p
    <3>2. <<t, Null>> \in Uid /\ <<t, Null>> \in Uid
      BY <1>t DEF Uid
    <3>3. {[by |-> t, aim |-> <<t, Null>>]} \in SUBSET Label
      BY <3>2 DEF Label
    <3>4. Null \in Id \cup {Null} /\ NewId \in Id \cup {Null}
      BY <1>t, <2>i DEF TypeOK
    <3>5. QED
      BY <2>e, <3>1, <3>2, <3>3, <3>4 DEF Entry, NewEntry
  <2> HIDE DEF e
  <2>v. Kept
    BY <2>u, <2>e, <2>i, <2>p DEF Kept, Keeps, Live
  <2>w. Live' = Live \cup {NewId} /\ \A j \in Live : j \in Containers' <=> j \in Containers
    BY <2>u, <2>i DEF Containers, Roots, Live
  <2>1. TypeOK'
    <3>1. \A j \in Live' : ent'[j] \in Entry /\ ent'[j].parent \in Live' \cup {Null} /\ ent'[j].root \in Live' \cup {Null}
      BY <1>t, <2>u, <2>w, <2>y, <2>e, <2>i DEF TypeOK
    <3>2. Live' \subseteq Id /\ clock' \in Nat
      BY <1>t, <2>a, <2>w, <2>i DEF TypeOK
    <3>3. own' \in [Task -> Id \cup {Null}] /\ aim' \in [Task -> Uid] /\ todo' \in [Task -> SUBSET Member] /\ pc' \in [Task -> TaskState]
      BY <1>10, <1>t, <2>a, <2>i DEF RecordTweet, Keep, TypeOK, Uid, TaskState
    <3>4. QED
      BY <1>t, <2>a, <3>1, <3>2, <3>3 DEF TypeOK
  <2>2. \A j \in Live' : EntrySound(j)'
    <3>1. ASSUME NEW j \in Live PROVE EntrySound(j)'
      <4>1. EntrySound(j) /\ ent'[j] = ent[j] /\ (ent[j].parent # Null => ent'[ent[j].parent] = ent[ent[j].parent])
        BY <1>e, <1>t, <2>u DEF TypeOK
      <4>2. ent[j].at \in 1..clock' /\ ent[j].position \in (-1)..(clock' + MaxId)
        BY <2>a, <2>p, <4>1 DEF EntrySound
      <4>3. QED
        BY <4>1, <4>2 DEF EntrySound
    <3>2. ASSUME NEW k, k = NewId PROVE EntrySound(k)'
      <4>1. clock + 1 \in 1..clock' /\ e.position \in (-1)..(clock' + MaxId)
        BY <2>a, <2>p
      <4>2. TRUE
        BY <1>e, <2>p DEF EntrySound
      <4>3. ent'[NewId] = e
        BY <2>u
      <4>4. ent'[k].at = clock + 1 /\ ent'[k].position = e.position /\ ent'[k].parent = Null /\ ent'[k].uid = <<t, Null>>
        BY <3>2, <4>3, <2>e
      <4>5. QED
        BY <4>1, <4>2, <4>3, <4>4 DEF EntrySound
    <3>3. QED
      BY <2>w, <3>1, <3>2
  <2>3. SiblingsHaveDistinctPositions'
    BY <2>u, <2>w, <2>e, <2>i, <1>t, <1>s DEF SiblingsHaveDistinctPositions
  <2>4. RootsSound'
    BY <2>a, <2>u, <2>w, <2>e, <1>r DEF RootsSound
  <2>5. NoStraysUnlessLost'
    <3>1. \A j \in Live : /\ \A f \in ent[j].from : f.by \notin lost => f.aim = ent[j].uid
                          /\ ent[j].parent # Null /\ ent[j].uid[1] \notin lost => ent[j].parent \in Containers /\ ent[j].parent \in Live
      BY <1>n DEF NoStraysUnlessLost, Containers, Roots
    <3>2. \A f \in e.from : f.aim = e.uid
      BY <2>e
    <3>3. e.parent # Null /\ e.uid[1] \notin lost => e.parent \in Containers /\ e.parent \in Live
      BY <1>10, <1>k, <2>e DEF RecordTweet, TaskSound, Active
    <3>4. QED
      BY <2>a, <2>u, <2>w, <3>1, <3>2, <3>3 DEF NoStraysUnlessLost
  <2>6. SyncAddsNothingTwice'
    <3>1. KindOf[t] = "sync" => Null \notin Old(t)
      BY <1>10, <1>k DEF RecordTweet, TaskSound, IsPlaylist
    <3>2. \A j \in DOMAIN ent' : j \notin Live => ent'[j].uid = <<t, Null>>
      BY <2>u, <2>e
    <3>3. QED
      BY <2>a, <2>v, <1>t, <1>l, <1>y, <3>1, <3>2, SyncStays
  <2>7. TaskSound(t)'
    <3>1. own'[t] = NewId /\ aim'[t] = <<t, Null>> /\ ent'[NewId].uid = <<t, Null>> /\ NewId \in Live'
      BY <1>t, <2>a, <2>u, <2>w, <2>e DEF Keep, TypeOK
    <3>2. pc'[t] = "ended"
      BY <1>10, <1>t DEF RecordTweet, TypeOK
    <3>3. looked'[t] <= clock'
      BY <1>t, <1>l, <2>a DEF TypeOK
    <3>4. Old(t)' \subseteq Old(t)
      BY <1>t, <1>l, <2>a, <2>v, OldShrinks
    <3>5. todo'[t] \subseteq todo[t] /\ t \in Active
      BY <1>10, <1>t DEF RecordTweet, TypeOK, Active
    <3>6. t \notin lost /\ held[t] # Null => held[t] \in Containers /\ held[t] \in Live
      BY <1>k, <3>5 DEF TaskSound, Containers, Roots
    <3>7. KindOf[t] = "sync" => Old(t)' \cap Old(t) = {}
      BY <1>10, <1>k, <3>4 DEF RecordTweet, TaskSound
    <3>8. QED
      BY <2>a, <2>w, <3>1, <3>2, <3>3, <3>4, <3>5, <3>6, <3>7 DEF TaskSound
  <2>8. ASSUME NEW q \in Task, q # t PROVE TaskSound(q)'
    <3>1. \A j \in DOMAIN ent' : j \notin Live => ent'[j].uid[1] # q
      BY <2>8, <2>u, <2>e
    <3>2. clock' \in Nat /\ clock <= clock'
      BY <2>a, <2>p
    <3>3. /\ pc'[q] = pc[q] /\ own'[q] = own[q] /\ aim'[q] = aim[q] /\ todo'[q] = todo[q]
          /\ looked'[q] = looked[q] /\ held'[q] = held[q]
      BY <2>8, <1>10, <1>t, <2>a DEF RecordTweet, Keep, TypeOK
    <3>4. QED
      BY <1>t, <1>k, <2>a, <2>u, <2>v, <3>1, <3>2, <3>3, OtherTask
  <2>20. QED
    BY <2>1, <2>2, <2>3, <2>4, <2>5, <2>6, <2>7, <2>8 DEF TreeInv
<1>11. ASSUME NEW t \in Task, SwapArtifacts(t) PROVE TreeInv'
  <2>u. /\ DOMAIN ent' = Live /\ clock' = clock /\ lost' = lost /\ looked' = looked
        /\ \A j \in Live : /\ ent'[j].uid = ent[j].uid /\ ent'[j].at = ent[j].at /\ ent'[j].parent = ent[j].parent
                         /\ ent'[j].under = ent[j].under
    BY <1>11, <1>t DEF SwapArtifacts, TypeOK, Live, Entry
  <2>v. Kept
    BY <2>u DEF Kept, Keeps, Live
  <2>w. Live' = Live /\ Containers' = Containers
    BY <2>u DEF Containers, Roots, Live
  <2>1. TypeOK'
    BY <1>11, <2>u, <1>t, SMTT(20) DEF SwapArtifacts, TypeOK, Live, TaskState, Uid, Entry, Label
  <2>2. \A i \in Live' : EntrySound(i)'
    BY <1>11, <2>u, <1>t, <1>e DEF SwapArtifacts, EntrySound, Live, TypeOK, Entry
  <2>3. SiblingsHaveDistinctPositions'
    BY <1>11, <2>u, <1>t, <1>s DEF SwapArtifacts, SiblingsHaveDistinctPositions, Live, TypeOK, Entry
  <2>4. RootsSound'
    BY <1>11, <2>u, <1>t, <1>r DEF SwapArtifacts, RootsSound, Live, TypeOK, Entry
  <2>5. NoStraysUnlessLost'
    <3>1. ASSUME NEW j \in Live, NEW f \in ent'[j].from, f.by \notin lost PROVE f.aim = ent[j].uid
      <4>1. \A g \in ent[j].from : g.by \notin lost => g.aim = ent[j].uid
        BY <1>n DEF NoStraysUnlessLost
      <4>2. CASE f \in ent[j].from
        BY <3>1, <4>1, <4>2
      <4>3. CASE f \notin ent[j].from
        <5>1. AttachTo(t) = j /\ f = [by |-> t, aim |-> aim[t]]
          BY <1>11, <1>t, <4>3 DEF SwapArtifacts, Live, TypeOK, Entry
        <5>2. t \notin lost /\ own[t] = j
          BY <3>1, <5>1 DEF AttachTo
        <5>3. ent[own[t]].uid = aim[t]
          BY <1>11, <1>k, <5>2 DEF SwapArtifacts, TaskSound
        <5>4. QED
          BY <5>1, <5>2, <5>3
      <4>4. QED
        BY <4>2, <4>3
    <3>2. \A j \in Live : ent[j].parent # Null /\ ent[j].uid[1] \notin lost => ent[j].parent \in Containers
      BY <1>n DEF NoStraysUnlessLost
    <3>3. QED
      BY <2>u, <2>w, <3>1, <3>2 DEF NoStraysUnlessLost
  <2>6. SyncAddsNothingTwice'
    BY <2>u, <2>w, <1>y DEF SyncAddsNothingTwice
  <2>7. TaskSound(t)'
    BY <1>11, <2>u, <1>t, <1>k DEF SwapArtifacts, TaskSound, TypeOK, Live, Active
  <2>8. ASSUME NEW q \in Task, q # t PROVE TaskSound(q)'
    BY <2>8, <1>11, <2>u, <2>v, <1>t, <1>k, OtherTask DEF SwapArtifacts, TypeOK, Live
  <2>20. QED
    BY <2>1, <2>2, <2>3, <2>4, <2>5, <2>6, <2>7, <2>8 DEF TreeInv
<1>12. ASSUME NEW t \in Task, Stop(t) PROVE TreeInv'
  <2>u. ent' = ent /\ clock' = clock /\ lost' = lost
    BY <1>12 DEF Stop
  <2>v. Kept
    BY <2>u DEF Kept, Keeps, Live
  <2>1. TypeOK'
    BY <1>12, <2>u, <1>t DEF Stop, TypeOK, Live, TaskState, Uid
  <2>2. \A i \in Live' : EntrySound(i)'
    BY <2>u, <1>e DEF EntrySound, Live
  <2>3. SiblingsHaveDistinctPositions' /\ RootsSound' /\ NoStraysUnlessLost'
    BY <2>u, <1>s, <1>r, <1>n
       DEF SiblingsHaveDistinctPositions, RootsSound, NoStraysUnlessLost, Containers, Roots, Live
  <2>4. SyncAddsNothingTwice'
    BY <1>12, <2>u, <1>y DEF Stop, SyncAddsNothingTwice, Containers, Roots, Live
  <2>5. TaskSound(t)'
    BY <1>12, <2>u, <1>t, <1>k DEF Stop, TaskSound, TypeOK, Live, Active
  <2>6. ASSUME NEW q \in Task, q # t PROVE TaskSound(q)'
    BY <2>6, <1>12, <2>u, <2>v, <1>t, <1>k, OtherTask DEF Stop, TypeOK, Live
  <2>20. QED
    BY <2>1, <2>2, <2>3, <2>4, <2>5, <2>6 DEF TreeInv
<1>13. ASSUME NEW i \in Id, ReorderChildren(i) PROVE TreeInv'
  <2> DEFINE S == Children(i)
  <2>o. PICK R \in SUBSET Children(i) : \E f \in Orders(R) :
          /\ R = S
          /\ ent' = [j \in Live |-> IF j \in R THEN [ent[j] EXCEPT !.position = f[j]] ELSE ent[j]]
    BY <1>13 DEF ReorderChildren, ListsChildren
  <2> HIDE DEF S
  <2>p. PICK f \in Orders(S) :
          ent' = [j \in Live |-> IF j \in S THEN [ent[j] EXCEPT !.position = f[j]] ELSE ent[j]]
    BY <2>o
  <2>f. \A j \in S : f[j] \in Nat /\ f[j] <= MaxId
    <3>1. S \in SUBSET Live
      BY DEF S, Children
    <3>2. Cardinality(S) \in 0..MaxId
      BY <1>t, <3>1, FewLive
    <3>3. \A j \in S : f[j] \in 0..(Cardinality(S) - 1)
      BY DEF Orders
    <3>4. QED
      BY <3>2, <3>3, EntryTreeAssumption
  <2>q. \A j \in Live : /\ j \in S => ent'[j] = [ent[j] EXCEPT !.position = f[j]]
                        /\ j \notin S => ent'[j] = ent[j]
    BY <2>p
  <2>r. \A j \in Live : /\ j \in S => ent'[j].position = f[j]
                        /\ ent'[j].from = ent[j].from /\ ent'[j].root = ent[j].root
    BY <1>t, <2>q DEF TypeOK, Entry
  <2>u. /\ DOMAIN ent' = Live /\ clock' = clock /\ lost' = lost /\ looked' = looked
        /\ \A j \in Live : /\ ent'[j].uid = ent[j].uid /\ ent'[j].at = ent[j].at /\ ent'[j].parent = ent[j].parent
                         /\ ent'[j].under = ent[j].under
    <3>1. clock' = clock /\ lost' = lost /\ looked' = looked
      BY <1>13 DEF ReorderChildren
    <3>2. QED
      BY <1>t, <2>p, <2>q, <3>1 DEF TypeOK, Entry
  <2>v. Kept
    BY <2>u DEF Kept, Keeps, Live
  <2>w. Live' = Live /\ Containers' = Containers
    BY <2>u DEF Containers, Roots, Live
  <2>1. TypeOK'
    <3>1. \A j \in Live : ent'[j] \in Entry /\ ent'[j].root \in Live \cup {Null}
      <4> SUFFICES ASSUME NEW j \in Live
                                          PROVE  ent'[j] \in Entry /\ ent'[j].root \in Live \cup {Null}
        OBVIOUS
      <4>1. ent[j] \in Entry /\ ent[j].root \in Live \cup {Null}
        BY <1>t DEF TypeOK
      <4>2. CASE j \in S
        <5>1. f[j] \in Int
          BY <2>f, <4>2
        <5>2. ent'[j] \in Entry
          BY <2>q, <4>1, <4>2, <5>1 DEF Entry
        <5>3. QED
          BY <2>r, <4>1, <5>2
      <4>3. CASE j \notin S
        BY <2>q, <4>1, <4>3
      <4>4. QED
        BY <4>2, <4>3
    <3>2. pc' \in [Task -> TaskState]
      BY <1>13, <1>t DEF ReorderChildren, TypeOK, TaskState
    <3>3. held' = held /\ own' = own /\ aim' = aim /\ todo' = todo
      BY <1>13 DEF ReorderChildren
    <3>4. QED
      BY <2>u, <2>w, <1>t, <3>1, <3>2, <3>3 DEF TypeOK
  <2>2. \A j \in Live' : EntrySound(j)'
    <3> SUFFICES ASSUME NEW j \in Live PROVE EntrySound(j)'
      BY <2>w
    <3>1. EntrySound(j) /\ clock \in Nat
      BY <1>t, <1>e DEF TypeOK
    <3>2. ent'[j].position \in (-1)..(clock + MaxId)
      <4>1. CASE j \in S
        <5>1. f[j] \in Nat /\ f[j] <= MaxId /\ MaxId \in Nat
          BY <2>f, <4>1, EntryTreeAssumption
        <5>2. f[j] \in (-1)..(clock + MaxId)
          BY <3>1, <5>1
        <5>3. QED
          BY <2>r, <4>1, <5>2
      <4>2. CASE j \notin S
        BY <2>q, <3>1, <4>2 DEF EntrySound
      <4>3. QED
        BY <4>1, <4>2
    <3>3. ent[j].parent # Null => ent'[ent[j].parent].at = ent[ent[j].parent].at
      BY <1>t, <2>u DEF TypeOK
    <3>4. QED
      BY <2>u, <3>1, <3>2, <3>3 DEF EntrySound
  <2>3. SiblingsHaveDistinctPositions'
    <3> SUFFICES ASSUME NEW j \in Live, NEW k \in Live, ent[j].parent # Null, ent[j].parent = ent[k].parent, j # k
                 PROVE  ent'[j].position # ent'[k].position
      BY <2>u, <2>w DEF SiblingsHaveDistinctPositions
    <3>1. j \in S <=> k \in S
      BY DEF S, Children
    <3>2. CASE j \in S
      BY <2>r, <3>1, <3>2 DEF Orders
    <3>3. CASE j \notin S
      BY <1>s, <2>q, <3>1, <3>3 DEF SiblingsHaveDistinctPositions
    <3>4. QED
      BY <3>2, <3>3
  <2>4. RootsSound'
    BY <2>u, <2>w, <2>r, <1>r DEF RootsSound
  <2>5. NoStraysUnlessLost'
    BY <2>u, <2>w, <2>r, <1>n DEF NoStraysUnlessLost
  <2>6. SyncAddsNothingTwice'
    BY <2>u, <2>w, <1>y DEF SyncAddsNothingTwice
  <2>7. ASSUME NEW q \in Task PROVE TaskSound(q)'
    BY <1>13, <2>u, <2>v, <1>t, <1>k, OtherTask DEF ReorderChildren, TypeOK, Live
  <2>20. QED
    BY <2>1, <2>2, <2>3, <2>4, <2>5, <2>6, <2>7 DEF TreeInv
<1>14. ASSUME NEW i \in Id, DeleteEntry(i) PROVE TreeInv'
  <2>u. /\ DOMAIN ent' = Live \ Subtree(i) /\ clock' = clock /\ looked' = looked
        /\ lost \subseteq lost' /\ \A j \in DOMAIN ent' : ent'[j] = ent[j]
    BY <1>14 DEF DeleteEntry
  <2>v. Kept
    BY <2>u DEF Kept, Keeps, Live
  <2>w. Live' \subseteq Live /\ (\A j \in Live' : ent[j].parent \in Live' \cup {Null} /\ ent[j].root \in Live' \cup {Null})
    BY <1>14, <2>u, <1>t DEF DeleteEntry, Unblocked, TypeOK, Live
  <2>x. Containers' = Containers \cap Live'
    BY <2>u, <2>w DEF Containers, Roots, Live
  <2>1. TypeOK'
    BY <1>14, <2>u, <2>w, <1>t DEF DeleteEntry, TypeOK, Live, Active
  <2>2. \A j \in Live' : EntrySound(j)'
    BY <2>u, <2>w, <1>t, <1>e DEF EntrySound, Live
  <2>3. SiblingsHaveDistinctPositions'
    BY <2>u, <2>w, <1>s DEF SiblingsHaveDistinctPositions, Live
  <2>4. RootsSound'
    BY <2>u, <2>w, <1>r DEF RootsSound, Live
  <2>5. NoStraysUnlessLost'
    BY <2>u, <2>w, <2>x, <1>t, <1>n DEF NoStraysUnlessLost, Live
  <2>6. SyncAddsNothingTwice'
    BY <2>u, <2>w, <2>x, <1>y DEF SyncAddsNothingTwice, Live
  <2>7. ASSUME NEW q \in Task PROVE TaskSound(q)'
    BY <1>14, <2>u, <2>v, <1>t, <1>k, OtherTask DEF DeleteEntry, TypeOK, Live
  <2>20. QED
    BY <2>1, <2>2, <2>3, <2>4, <2>5, <2>6, <2>7 DEF TreeInv
<1>15. QED
  BY <1>0, <1>1, <1>2, <1>3, <1>4, <1>5, <1>6, <1>7, <1>8, <1>9, <1>10, <1>11, <1>12, <1>13,
     <1>14, <1>t, MemberFailsOrIsAppended
     DEF Next, TaskStep

----------------------------------------------------------------------------
(* With sound roots, no row left behind refers to the deleted ones.          *)
LEMMA TreesAreDeletable == TreeInv => DeletableUnlessLost
<1> SUFFICES ASSUME TreeInv, lost = {}, NEW i \in Live, NEW j \in Live \ Subtree(i)
             PROVE  ent[j].parent \notin Subtree(i) /\ ent[j].root \notin Subtree(i)
  BY DEF DeletableUnlessLost, Unblocked
<1>1. i # Null /\ j # i /\ ent[j].root # i
  BY DEF TreeInv, TypeOK, Id, Null, Subtree
<1>2. \A k \in Live : IF ent[k].parent = Null THEN ent[k].root \in {k, Null} ELSE ent[k].root = ent[k].parent
  BY DEF TreeInv, RootsSound
<1>3. \A k \in Live : ent[k].parent # Null => ent[k].parent \in Live /\ ent[ent[k].parent].parent = Null
  BY DEF TreeInv, NoStraysUnlessLost, Containers, Roots
<1>4. ASSUME NEW k \in Live, ent[k].root = i, ent[k].parent = Null PROVE k = i
  BY <1>1, <1>2, <1>4
<1>5. ent[j].parent \notin Subtree(i)
  <2>1. CASE ent[j].parent = Null
    <3>1. Null \notin Live
      BY DEF TreeInv, TypeOK, Id, Null
    <3>2. QED
      BY <1>1, <2>1, <3>1 DEF Subtree
  <2>2. CASE ent[j].parent # Null
    <3>1. ent[j].parent # i /\ ent[j].parent \in Live /\ ent[ent[j].parent].parent = Null
      BY <1>1, <1>2, <1>3, <2>2
    <3>2. ent[ent[j].parent].root # i
      BY <1>4, <3>1
    <3>3. QED
      BY <3>1, <3>2 DEF Subtree
  <2>3. QED
    BY <2>1, <2>2
<1>6. ent[j].root \notin Subtree(i)
  BY <1>1, <1>2, <1>3, <1>4, <1>5 DEF Subtree
<1>7. QED
  BY <1>5, <1>6

(* The sum of the sizes is a fold, that is, a function that is defined by    *)
(* itself: the element that the fold takes first, the equation of the        *)
(* function, and one that satisfies it.                                      *)
Picked(s) == CHOOSE x \in s : TRUE
Sums(g, S) == g = [s \in SUBSET S |-> IF s = {} THEN 0 ELSE g[s \ {Picked(s)}] + SizeOf[Picked(s)]]
Summing(S) == CHOOSE g : Sums(g, S)

(* The sum is what that function says.                                       *)
LEMMA BytesIs == ASSUME NEW S PROVE Bytes(S) = Summing(S)[S]
  BY DEF Bytes, FoldSet, MapThenFoldSet, Summing, Sums, Picked

(* Among the subsets of a finite set there is one that contains none of the  *)
(* others.                                                                   *)
LEMMA SetMin ==
    ASSUME NEW S, IsFiniteSet(S), NEW T \in SUBSET SUBSET S, T # {}
    PROVE  \E s \in T : \A t \in T : t \subseteq s => t = s
<1> DEFINE R == StrictSubsetOrdering(S)
<1>1. IsWellFoundedOn(R, SUBSET S)
  BY FS_StrictSubsetOrderingWellFounded, FS_FiniteSubsetsOfFinite
<1>2. \E s \in T : \A t \in T : ~(<<t, s>> \in R)
  <2> HIDE DEF R
  <2>1. QED
    BY <1>1, WFMin
<1>3. PICK s \in T : \A t \in T : ~(<<t, s>> \in R)
  BY <1>2
<1>4. ASSUME NEW t \in T, t \subseteq s PROVE t = s
  <2>1. <<t, s>> \in (SUBSET S) \X (SUBSET S)
    OBVIOUS
  <2>2. <<t, s>> \notin R
    BY <1>3
  <2>3. QED
    BY <1>4, <2>1, <2>2 DEF StrictSubsetOrdering
<1>5. QED
  BY <1>4

(* Without an element a set is smaller.                                      *)
LEMMA Smaller == ASSUME NEW s, s # {} PROVE Picked(s) \in s /\ s \ {Picked(s)} \subseteq s /\ s \ {Picked(s)} # s
  BY DEF Picked

(* Two functions that satisfy the equation agree where both are defined.     *)
LEMMA SumsAgree ==
    ASSUME NEW S, IsFiniteSet(S), NEW U \in SUBSET S, NEW g, Sums(g, S), NEW h, Sums(h, U)
    PROVE  \A s \in SUBSET U : g[s] = h[s]
<1> DEFINE T == {s \in SUBSET U : g[s] # h[s]}
<1> SUFFICES ASSUME T # {} PROVE FALSE
  OBVIOUS
<1>1. PICK s \in T : \A t \in T : t \subseteq s => t = s
  <2>1. T \in SUBSET SUBSET S /\ T # {}
    OBVIOUS
  <2> HIDE DEF T
  <2>2. QED
    BY <2>1, SetMin
<1>2. s \in SUBSET U /\ s \in SUBSET S
  OBVIOUS
<1>3. s # {}
  BY <1>2 DEF Sums
<1>4. s \ {Picked(s)} \in SUBSET U /\ s \ {Picked(s)} \notin T
  BY <1>1, <1>2, <1>3, Smaller
<1>5. g[s \ {Picked(s)}] = h[s \ {Picked(s)}]
  BY <1>4
<1>6. g[s] = g[s \ {Picked(s)}] + SizeOf[Picked(s)] /\ h[s] = h[s \ {Picked(s)}] + SizeOf[Picked(s)]
  BY <1>2, <1>3 DEF Sums
<1>7. QED
  BY <1>5, <1>6

(* There is a function that satisfies the equation: it is put together from  *)
(* those of the smaller sets.                                                *)
LEMMA SumsExist == ASSUME NEW S, IsFiniteSet(S) PROVE Sums(Summing(S), S)
<1> DEFINE T == {s \in SUBSET S : ~\E g : Sums(g, s)}
<1>1. T = {}
  <2> SUFFICES ASSUME T # {} PROVE FALSE
    OBVIOUS
  <2>1. PICK s \in T : \A t \in T : t \subseteq s => t = s
    <3>1. T \in SUBSET SUBSET S /\ T # {}
      OBVIOUS
    <3> HIDE DEF T
    <3>2. QED
      BY <3>1, SetMin
  <2>2. s \in SUBSET S /\ IsFiniteSet(s) /\ ~\E g : Sums(g, s)
    BY FS_Subset
  <2>3. ASSUME NEW u \in SUBSET s, u # s PROVE Sums(Summing(u), u)
    <3>1. u \notin T /\ u \in SUBSET S
      BY <2>1, <2>2, <2>3
    <3>2. \E g : Sums(g, u)
      BY <3>1
    <3>3. QED
      BY <3>2 DEF Summing
  <2> DEFINE rest(t) == t \ {Picked(t)}
             h == [t \in SUBSET s |-> IF t = {} THEN 0 ELSE Summing(rest(t))[rest(t)] + SizeOf[Picked(t)]]
  <2>4. ASSUME NEW t \in SUBSET s, t # {} PROVE h[rest(t)] = Summing(rest(t))[rest(t)]
    <3> DEFINE u == rest(t)
    <3>1. u \in SUBSET s /\ u # s
      BY <2>4, Smaller
    <3>2. Sums(Summing(u), u)
      BY <2>3, <3>1
    <3>3. CASE u = {}
      <4>1. Summing(u)[u] = 0
        BY <3>2, <3>3 DEF Sums
      <4>2. h[u] = 0
        BY <3>1, <3>3
      <4>3. QED
        BY <4>1, <4>2
    <3>4. CASE u # {}
      <4> DEFINE v == rest(u)
      <4>1. v \in SUBSET u /\ v # s /\ v \in SUBSET s
        BY <3>1, <3>4, Smaller
      <4>2. Summing(u)[v] = Summing(v)[v]
        <5>1. Sums(Summing(v), v)
          BY <2>3, <4>1
        <5>2. IsFiniteSet(u)
          BY <2>2, <3>1, FS_Subset
        <5> HIDE DEF u, v
        <5>3. QED
          BY <3>2, <4>1, <5>1, <5>2, SumsAgree
      <4>3. Summing(u)[u] = Summing(u)[v] + SizeOf[Picked(u)]
        BY <3>2, <3>4 DEF Sums
      <4>4. h[u] = Summing(v)[v] + SizeOf[Picked(u)]
        BY <3>1, <3>4
      <4>5. QED
        BY <4>2, <4>3, <4>4
    <3>5. QED
      BY <3>3, <3>4
  <2>5. h = [t \in SUBSET s |-> IF t = {} THEN 0 ELSE h[rest(t)] + SizeOf[Picked(t)]]
    <3> DEFINE k == [t \in SUBSET s |-> IF t = {} THEN 0 ELSE h[rest(t)] + SizeOf[Picked(t)]]
    <3>1. DOMAIN h = SUBSET s /\ DOMAIN k = SUBSET s
      OBVIOUS
    <3>2. ASSUME NEW t \in SUBSET s PROVE h[t] = k[t]
      <4>1. CASE t = {}
        BY <4>1
      <4>2. CASE t # {}
        <5>1. h[t] = Summing(rest(t))[rest(t)] + SizeOf[Picked(t)]
          BY <4>2
        <5>2. k[t] = h[rest(t)] + SizeOf[Picked(t)]
          BY <4>2
        <5>3. QED
          BY <2>4, <4>2, <5>1, <5>2
      <4>3. QED
        BY <4>1, <4>2
    <3>3. QED
      <4>1. h = [t \in SUBSET s |-> h[t]] /\ k = [t \in SUBSET s |-> k[t]]
        OBVIOUS
      <4> HIDE DEF h, k
      <4>2. h = k
        BY <3>2, <4>1
      <4>3. QED
        BY <4>2 DEF k
  <2>6. Sums(h, s)
    BY <2>5 DEF Sums
  <2>7. QED
    BY <2>2, <2>6
<1>2. \E g : Sums(g, S)
  BY <1>1
<1>3. QED
  BY <1>2 DEF Summing

(* The sum of sizes is a size.                                               *)
LEMMA BytesAreCounted == ASSUME NEW S \in SUBSET Blob PROVE Bytes(S) \in Nat
<1>0. IsFiniteSet(S) /\ SizeOf \in [Blob -> Nat]
  BY CachedBytesAssumption, FS_Subset
<1> DEFINE g == Summing(S)
           T == {s \in SUBSET S : g[s] \notin Nat}
<1>1. Sums(g, S)
  BY <1>0, SumsExist
<1> HIDE DEF g
<1>2. T = {}
  <2> SUFFICES ASSUME T # {} PROVE FALSE
    OBVIOUS
  <2>1. PICK s \in T : \A t \in T : t \subseteq s => t = s
    <3>1. T \in SUBSET SUBSET S /\ T # {}
      OBVIOUS
    <3> HIDE DEF T
    <3>2. QED
      BY <1>0, <3>1, SetMin
  <2>2. s # {}
    BY <1>1 DEF Sums
  <2>3. s \ {Picked(s)} \in SUBSET S /\ s \ {Picked(s)} \notin T /\ Picked(s) \in Blob
    BY <2>1, <2>2, Smaller
  <2>4. g[s] = g[s \ {Picked(s)}] + SizeOf[Picked(s)]
    BY <1>1, <2>2 DEF Sums
  <2>5. QED
    BY <1>0, <2>3, <2>4
<1>3. QED
  BY <1>2, BytesIs DEF g

----------------------------------------------------------------------------
(* The inductive invariant of the sizes: a root is its own root.             *)
SizedInv ==
    /\ SizedTypeOK
    /\ \A i \in SizedLive : sized[sized[i].root].root = sized[i].root

(* The same of the maximum of the community modules.                         *)
LEMMA MaxIsLargest ==
    ASSUME NEW S \in SUBSET Int, S # {}, NEW n \in Int, \A k \in S : k <= n
    PROVE  Max(S) \in S /\ \A k \in S : k <= Max(S)
<1>1. \A a, b \in S : a >= b <=> b <= a
  OBVIOUS
<1>2. Largest(S) \in S /\ \A k \in S : k <= Largest(S)
  BY LargestIs
<1>3. \E m \in S : \A k \in S : m >= k
  BY <1>1, <1>2
<1>4. Max(S) \in S /\ \A k \in S : Max(S) >= k
  BY <1>3 DEF Max
<1>5. QED
  BY <1>1, <1>4

(* A new row has an id of its own.                                           *)
LEMMA NewSizedIdIsFresh == ASSUME SizedTypeOK PROVE NewSizedId \in Nat \ {0} /\ NewSizedId \notin SizedLive
<1>1. SizedLive \in SUBSET Int /\ \A k \in SizedLive : k <= MaxSized /\ k >= 1
  BY CachedBytesAssumption DEF SizedTypeOK, SizedId
<1>2. CASE SizedLive = {}
  BY <1>2 DEF NewSizedId
<1>3. CASE SizedLive # {}
  <2>1. Max(SizedLive) \in SizedLive /\ \A k \in SizedLive : k <= Max(SizedLive)
    BY <1>1, <1>3, MaxIsLargest, CachedBytesAssumption
  <2>2. Max(SizedLive) \in Int /\ Max(SizedLive) >= 1 /\ NewSizedId = Max(SizedLive) + 1
    BY <1>1, <1>3, <2>1 DEF NewSizedId
  <2>3. \A k \in SizedLive : k \in Int /\ k # Max(SizedLive) + 1
    BY <1>1, <2>1, <2>2
  <2>4. QED
    BY <2>2, <2>3
<1>4. QED
  BY <1>2, <1>3

(* Every step of the sizes keeps their invariant.                            *)
LEMMA SizedInvNext == SizedInv /\ [SizedNext]_sizedVars => SizedInv'
<1> SUFFICES ASSUME SizedInv, [SizedNext]_sizedVars PROVE SizedInv'
  OBVIOUS
<1>t. SizedTypeOK
  BY DEF SizedInv
<1>r. \A i \in SizedLive : sized[sized[i].root].root = sized[i].root
  BY DEF SizedInv
<1>o. SizedKindOf \in [SizedTask -> SizedKind]
  BY CachedBytesAssumption
<1>0. CASE UNCHANGED sizedVars
  BY <1>0, <1>t, <1>r DEF sizedVars, SizedInv, SizedTypeOK, SizedLive
<1>p. ASSUME NEW t \in SizedTask, EndTask(t)
      PROVE  /\ sizedAt' \in [SizedTask -> SizedPlace]
             /\ sizedOwn' \in [SizedTask -> SizedId \cup {NoEntry}]
             /\ readSize' \in [SizedTask -> Nat]
  BY <1>p, <1>t DEF EndTask, GoTo, SizedTypeOK, SizedPlace
<1>1. ASSUME NEW t \in SizedTask, InsertSized(t) PROVE SizedInv'
  <2> DEFINE n == NewSizedId
  <2>1. n \in SizedId /\ n \notin SizedLive
    BY <1>1, <1>t, NewSizedIdIsFresh DEF InsertSized
  <2>2. PICK tick \in {-1, 0, 1}, r \in {i \in SizedLive : sized[i].root = i} \cup {n} :
          /\ sized' = [i \in SizedLive \cup {n} |->
                        IF i = n THEN [root |-> r, kind |-> "media", at |-> sizedClock + tick, blobs |-> {}]
                        ELSE sized[i]]
          /\ sizedClock' = Max({sizedClock, sizedClock + tick})
    BY <1>1 DEF InsertSized
  <2>3. sizedClock' \in Nat
    <3> DEFINE S == {sizedClock, sizedClock + tick}
    <3>1. sizedClock \in Nat /\ S \in SUBSET Int /\ S # {} /\ \A k \in S : k <= sizedClock + 1
      BY <1>t DEF SizedTypeOK
    <3> DEFINE top == sizedClock + 1
    <3>2. top \in Int /\ \A k \in S : k <= top
      BY <3>1
    <3>3. Max(S) \in S /\ \A k \in S : k <= Max(S)
      <4> HIDE DEF S, top
      <4>1. QED
        BY <3>1, <3>2, MaxIsLargest
    <3>4. Max(S) \in Int /\ sizedClock <= Max(S)
      BY <3>1, <3>3
    <3>5. QED
      BY <2>2, <3>1, <3>4
  <2>4. [root |-> r, kind |-> "media", at |-> sizedClock + tick, blobs |-> {}] \in SizedEntry
    <3>1. r \in SizedId /\ sizedClock + tick \in Int /\ "media" \in SizedKind
      BY <1>t, <2>1 DEF SizedTypeOK, SizedKind
    <3>2. QED
      BY <3>1 DEF SizedEntry
  <2> HIDE DEF n
  <2>5. /\ DOMAIN sized' = SizedLive \cup {n} /\ sized'[n] \in SizedEntry /\ sized'[n].root = r
        /\ \A i \in SizedLive : sized'[i] = sized[i]
    BY <2>1, <2>2, <2>4
  <2>6. DOMAIN storedSize' = SizedLive \cup {n} /\ \A i \in SizedLive \cup {n} : storedSize'[i] \in Nat
    BY <1>1, <1>t, <2>1 DEF InsertSized, SizedTypeOK, n
  <2>7. sizedAt' \in [SizedTask -> SizedPlace] /\ sizedOwn' \in [SizedTask -> SizedId \cup {NoEntry}] /\ readSize' = readSize
    BY <1>1, <1>t, <2>1 DEF InsertSized, GoTo, SizedTypeOK, SizedPlace, n
  <2>8. SizedTypeOK'
    BY <1>t, <2>1, <2>3, <2>5, <2>6, <2>7 DEF SizedTypeOK, SizedLive
  <2>9. \A i \in SizedLive' : sized'[sized'[i].root].root = sized'[i].root
    BY <1>t, <1>r, <2>1, <2>5 DEF SizedTypeOK, SizedLive
  <2>10. QED
    BY <2>8, <2>9 DEF SizedInv
<1>2. ASSUME NEW t \in SizedTask, TakeSized(t) PROVE SizedInv'
  BY <1>2, <1>t, <1>r DEF TakeSized, GoTo, SizedInv, SizedTypeOK, SizedLive, SizedPlace
<1>b. ASSUME NEW i \in SizedLive, NEW S \in SUBSET Blob, sized' = [sized EXCEPT ![i].blobs = S],
             storedSize' = storedSize, sizedClock' = sizedClock, sizedAt' \in [SizedTask -> SizedPlace],
             sizedOwn' = sizedOwn, readSize' = readSize
      PROVE  SizedInv'
  <2>1. DOMAIN sized' = SizedLive /\ \A j \in SizedLive : sized'[j] \in SizedEntry /\ sized'[j].root = sized[j].root
    BY <1>b, <1>t DEF SizedTypeOK, SizedEntry, SizedLive
  <2>2. SizedTypeOK'
    BY <1>b, <1>t, <2>1 DEF SizedTypeOK, SizedLive
  <2>3. QED
    BY <1>t, <1>r, <2>1, <2>2 DEF SizedInv, SizedTypeOK, SizedLive
<1>3. ASSUME NEW t \in SizedTask, AttachBlob(t) PROVE SizedInv'
  <2>1. CASE sizedOwn[t] \in SizedLive
    <3>1. PICK b \in Blob : sized' = [sized EXCEPT ![sizedOwn[t]].blobs = @ \cup {b}]
      BY <1>3, <2>1 DEF AttachBlob
    <3>2. sized' = [sized EXCEPT ![sizedOwn[t]].blobs = sized[sizedOwn[t]].blobs \cup {b}]
      BY <2>1, <3>1
    <3>3. sized[sizedOwn[t]].blobs \cup {b} \in SUBSET Blob
      BY <1>t, <2>1 DEF SizedTypeOK, SizedEntry
    <3>4. UNCHANGED <<storedSize, sizedClock, sizedOwn, readSize>> /\ sizedAt' \in [SizedTask -> SizedPlace]
      BY <1>3, <1>t, <2>1 DEF AttachBlob, GoTo, SizedTypeOK, SizedPlace
    <3>5. QED
      BY <1>b, <2>1, <3>2, <3>3, <3>4
  <2>2. CASE sizedOwn[t] \notin SizedLive
    <3>1. EndTask(t) /\ UNCHANGED <<sized, storedSize, sizedClock>>
      BY <1>3, <2>2 DEF AttachBlob
    <3>2. QED
      BY <1>p, <1>t, <1>r, <3>1 DEF SizedInv, SizedTypeOK, SizedLive
  <2>3. QED
    BY <2>1, <2>2
<1>4. ASSUME NEW t \in SizedTask, SwapBlobs(t) PROVE SizedInv'
  <2>1. CASE sizedOwn[t] \in SizedLive
    <3>1. PICK S \in SUBSET Blob : sized' = [sized EXCEPT ![sizedOwn[t]].blobs = S]
      BY <1>4, <2>1 DEF SwapBlobs
    <3>2. UNCHANGED <<storedSize, sizedClock, sizedOwn, readSize>> /\ sizedAt' \in [SizedTask -> SizedPlace]
      BY <1>4, <1>t, <2>1 DEF SwapBlobs, GoTo, SizedTypeOK, SizedPlace
    <3>3. QED
      BY <1>b, <2>1, <3>1, <3>2
  <2>2. CASE sizedOwn[t] \notin SizedLive
    <3>1. EndTask(t) /\ UNCHANGED <<sized, storedSize, sizedClock>>
      BY <1>4, <2>2 DEF SwapBlobs
    <3>2. QED
      BY <1>p, <1>t, <1>r, <3>1 DEF SizedInv, SizedTypeOK, SizedLive
  <2>3. QED
    BY <2>1, <2>2
<1>c. ASSUME NEW j \in SizedLive, NEW gone PROVE EarlierBytes(j, gone) \in Nat
  <2>1. sized[j].blobs \in SUBSET Blob
    BY <1>t DEF SizedTypeOK, SizedEntry
  <2>2. QED
    BY <2>1, BytesAreCounted DEF EarlierBytes
<1>5. ASSUME NEW t \in SizedTask, SelectCached(t) PROVE SizedInv'
  <2>1. readSize' \in [SizedTask -> Nat] /\ sizedAt' \in [SizedTask -> SizedPlace]
    BY <1>5, <1>t, <1>c DEF SelectCached, GoTo, SizedTypeOK, SizedPlace
  <2>2. UNCHANGED <<sized, storedSize, sizedClock, sizedOwn>>
    BY <1>5 DEF SelectCached
  <2>3. QED
    BY <1>t, <1>r, <2>1, <2>2 DEF SizedInv, SizedTypeOK, SizedLive
<1>6. ASSUME NEW t \in SizedTask, UpdateCached(t) PROVE SizedInv'
  <2>1. EndTask(t) /\ UNCHANGED <<sized, sizedClock>>
    BY <1>6 DEF UpdateCached
  <2>2. DOMAIN storedSize' = SizedLive /\ \A i \in SizedLive : storedSize'[i] \in Nat
    BY <1>6, <1>t DEF UpdateCached, SizedTypeOK
  <2>3. QED
    BY <1>p, <1>t, <1>r, <2>1, <2>2 DEF SizedInv, SizedTypeOK, SizedLive
<1>7. ASSUME NEW t \in SizedTask, RecordSizedTweet(t) PROVE SizedInv'
  <2> DEFINE n == NewSizedId
  <2>1. n \in SizedId /\ n \notin SizedLive
    BY <1>7, <1>t, NewSizedIdIsFresh DEF RecordSizedTweet
  <2>2. PICK S \in SUBSET Blob, tick \in {0, 1} :
          /\ sized' = [j \in SizedLive \cup {n} |->
                        IF j = n THEN [root |-> n, kind |-> "tweet", at |-> sizedClock + tick, blobs |-> S]
                        ELSE sized[j]]
          /\ storedSize' = [j \in SizedLive \cup {n} |->
                        IF j = n THEN Bytes({b \in S : \E k \in SizedLive : b \in sized[k].blobs}) ELSE storedSize[j]]
          /\ sizedClock' = sizedClock + tick
    BY <1>7 DEF RecordSizedTweet
  <2>3. sizedClock' \in Nat
    BY <1>t, <2>2 DEF SizedTypeOK
  <2>4. [root |-> n, kind |-> "tweet", at |-> sizedClock + tick, blobs |-> S] \in SizedEntry
    <3>1. sizedClock + tick \in Int /\ "tweet" \in SizedKind
      BY <1>t DEF SizedTypeOK, SizedKind
    <3>2. QED
      BY <2>1, <3>1 DEF SizedEntry
  <2>5. Bytes({b \in S : \E k \in SizedLive : b \in sized[k].blobs}) \in Nat
    BY BytesAreCounted
  <2> HIDE DEF n
  <2>6. /\ DOMAIN sized' = SizedLive \cup {n} /\ sized'[n] \in SizedEntry /\ sized'[n].root = n
        /\ \A i \in SizedLive : sized'[i] = sized[i]
    BY <2>1, <2>2, <2>4
  <2>7. DOMAIN storedSize' = SizedLive \cup {n} /\ \A i \in SizedLive \cup {n} : storedSize'[i] \in Nat
    BY <1>t, <2>1, <2>2, <2>5 DEF SizedTypeOK
  <2>8. sizedAt' \in [SizedTask -> SizedPlace] /\ sizedOwn' = sizedOwn /\ readSize' = readSize
    BY <1>7, <1>t DEF RecordSizedTweet, GoTo, SizedTypeOK, SizedPlace
  <2>9. SizedTypeOK'
    BY <1>t, <2>1, <2>3, <2>6, <2>7, <2>8 DEF SizedTypeOK, SizedLive
  <2>10. \A i \in SizedLive' : sized'[sized'[i].root].root = sized'[i].root
    BY <1>t, <1>r, <2>1, <2>6 DEF SizedTypeOK, SizedLive
  <2>11. QED
    BY <2>9, <2>10 DEF SizedInv
<1>8. ASSUME NEW i \in SizedId, DeleteSized(i) PROVE SizedInv'
  <2>1. DOMAIN sized' = SizedLive \ SizedTree(i) /\ \A j \in DOMAIN sized' : sized'[j] = sized[j]
    BY <1>8 DEF DeleteSized
  <2>2. \A j \in SizedLive \ SizedTree(i) : sized[j].root \in SizedLive \ SizedTree(i)
    BY <1>t, <1>r DEF SizedTypeOK, SizedTree
  <2>3. DOMAIN storedSize' = SizedLive \ SizedTree(i)
    BY <1>8 DEF DeleteSized
  <2>4. \A j \in SizedLive \ SizedTree(i) : storedSize'[j] \in Nat
    BY <1>8, <1>t, <1>c DEF DeleteSized, Recomputed, SizedTypeOK
  <2>5. UNCHANGED <<sizedClock, sizedAt, sizedOwn, readSize>>
    BY <1>8 DEF DeleteSized
  <2>6. SizedTypeOK'
    BY <1>t, <2>1, <2>2, <2>3, <2>4, <2>5 DEF SizedTypeOK, SizedLive
  <2>7. QED
    BY <1>t, <1>r, <2>1, <2>2, <2>6 DEF SizedInv, SizedTypeOK, SizedLive
<1>9. QED
  BY <1>0, <1>1, <1>2, <1>3, <1>4, <1>5, <1>6, <1>7, <1>8 DEF SizedNext

----------------------------------------------------------------------------
(* Both invariants hold of every behaviour.                                  *)
LEMMA TreesHold == EntriesSpec => [](TreeInv /\ SizedInv)
<1>1. EntriesInit => TreeInv /\ SizedInv
  <2>1. SizedInit => SizedInv
    BY DEF SizedInit, SizedInv, SizedTypeOK, SizedLive, SizedPlace
  <2>2. QED
    BY <2>1, TreeInvInit DEF EntriesInit
<1>2. TreeInv /\ SizedInv /\ [EntriesNext]_EntriesVars => (TreeInv /\ SizedInv)'
  BY TreeInvNext, SizedInvNext DEF EntriesNext, EntriesVars
<1>3. QED
  BY <1>1, <1>2, PTL DEF EntriesSpec

(* Every variable keeps its type, and every row refers to rows that there    *)
(* are, through deletions of whole trees (archived_entries and its foreign   *)
(* keys).                                                                    *)
THEOREM EntriesTyped == EntriesSpec => []EntriesTypeOK
<1>1. TreeInv /\ SizedInv => EntriesTypeOK
  BY DEF TreeInv, SizedInv, EntriesTypeOK
<1>2. QED
  BY <1>1, TreesHold, PTL

(* Siblings never share a position (create_archived_entry,                   *)
(* reorder_child_entries, delete_entry).                                     *)
THEOREM SiblingsAreOrdered == EntriesSpec => []SiblingsHaveDistinctPositions
<1>1. TreeInv => SiblingsHaveDistinctPositions
  BY DEF TreeInv
<1>2. QED
  BY <1>1, TreesHold, PTL

(* A file ends up in another entry, a member under a strange container, or   *)
(* a tree cannot be deleted only if an entry was deleted under the task      *)
(* that made it (perform_capture, delete_entry).                             *)
THEOREM OnlyTheLostStray == EntriesSpec => []StraysOnlyIfLost
<1>1. TreeInv => StraysOnlyIfLost
  BY TreesAreDeletable DEF TreeInv, StraysOnlyIfLost
<1>2. QED
  BY <1>1, TreesHold, PTL

(* A sync captures nothing that was in the archive when it looked (the sync  *)
(* branch of perform_capture).                                               *)
THEOREM SyncsAreIncremental == EntriesSpec => []SyncAddsNothingTwice
<1>1. TreeInv => SyncAddsNothingTwice
  BY DEF TreeInv
<1>2. QED
  BY <1>1, TreesHold, PTL

----------------------------------------------------------------------------
(* The entries whose earlier bytes lose something are those that share a     *)
(* blob with an earlier entry of the tree, and they get the sum without it.  *)
LEMMA DeletionIsExact ==
    ASSUME NEW i \in SizedId, DeleteSized(i), NEW j \in DOMAIN sized', Right(j)
    PROVE  Right(j)'
<1> DEFINE shared == {b \in sized[j].blobs : \E k \in SizedLive \ SizedTree(i) : Before(k, j) /\ b \in sized[k].blobs}
<1>1. DOMAIN sized' = SizedLive \ SizedTree(i) /\ j \in SizedLive \ SizedTree(i)
  BY DEF DeleteSized
<1>2. \A k \in DOMAIN sized' : sized'[k] = sized[k]
  BY <1>1 DEF DeleteSized
<1>3. {b \in sized'[j].blobs : \E k \in DOMAIN sized' :
          (sized'[k].at < sized'[j].at \/ (sized'[k].at = sized'[j].at /\ k < j)) /\ b \in sized'[k].blobs} = shared
  BY <1>1, <1>2 DEF Before
<1>4. EarlierBytes(j, {})' = Bytes(shared)
  BY <1>1, <1>3 DEF EarlierBytes, Before, SizedLive
<1>5. CASE Affected(j, i)
  BY <1>1, <1>4, <1>5 DEF DeleteSized, Recomputed, EarlierBytes, Right
<1>6. CASE ~Affected(j, i)
  <2>1. storedSize'[j] = EarlierBytes(j, {})
    BY <1>1, <1>6 DEF DeleteSized, Right
  <2>2. \A k \in SizedTree(i), b \in sized[j].blobs : ~(Before(k, j) /\ b \in sized[k].blobs)
    BY <1>6 DEF Affected
  <2>3. {b \in sized[j].blobs : \E k \in SizedLive \ {} : Before(k, j) /\ b \in sized[k].blobs} = shared
    BY <2>2
  <2>4. QED
    BY <1>4, <2>1, <2>3 DEF EarlierBytes, Right
<1>7. QED
  BY <1>5, <1>6

(* A deletion makes no stored size wrong, whatever captures and refreshes    *)
(* are between their statements                                              *)
(* (cascade_cached_bytes_after_subtree_delete).                              *)
THEOREM DeletionsKeepSizes == EntriesSpec => DeletionKeepsSizesRight
<1>1. ASSUME NEW i \in SizedId, DeleteSized(i) PROVE \A j \in DOMAIN sized' : Right(j) => Right(j)'
  BY <1>1, DeletionIsExact
<1>2. [EntriesNext]_EntriesVars => [\A i \in SizedId : DeleteSized(i) => \A j \in DOMAIN sized' : Right(j) => Right(j)']_sizedVars
  BY <1>1
<1>3. QED
  BY <1>2, PTL DEF EntriesSpec, DeletionKeepsSizesRight
=============================================================================
