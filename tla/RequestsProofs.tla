--------------------------- MODULE RequestsProofs ---------------------------
(***************************************************************************)
(* For any requests, people, collections and entries of a tree of two      *)
(* levels: nobody hides an entry from themselves, what can be opened is    *)
(* what is listed, and masks change as asked. For any requests on tags,    *)
(* any slugs and any bounds: every path is what the slugs above spell as   *)
(* long as nobody wrote on a row that had changed, no tag is ever its own  *)
(* ancestor, even when requests race, and assignments come and go as       *)
(* asked. And that the composition of both with Accounts keeps the types   *)
(* of all three.                                                           *)
(***************************************************************************)
EXTENDS MCRequests, AccountsProofs, SequenceTheorems, TLAPS

----------------------------------------------------------------------------
(* Visibility.  The invariant says what a request that stands between its    *)
(* reads and its write knows: as long as nobody else has written since, what *)
(* it has read is so, and otherwise that is counted in moved. Every mask     *)
(* that a collection has was granted for roles whose bits are recorded, and  *)
(* what a new role avoids covers every mask stored.                          *)

(* What a request is while it is under way.                                  *)
CallOp == ChangeOp \cup {"none", "create", "patch", "role", "settings", "serve"}
CallType ==
    [at : CallPlace, op : CallOp,
     who : Person \cup {NoOne}, bits : SUBSET Bit, shelf : Shelf, item : Item \cup {NoItem},
     mask : SUBSET Bit, login : BOOLEAN, asked : SUBSET {"mask", "login"},
     seen : SUBSET (Item \cup Bit), row : ShelfRow]
RolesTyped ==
    /\ liveRoles \subseteq allocated /\ allocated \subseteq CustomBit
    /\ authLock \in VisRequest \cup {NoOne} /\ enabled \subseteq Person
    /\ roleBits \in [Person -> SUBSET Bit] /\ \A p \in Person : roleBits[p] \subseteq Known
ShelvesTyped ==
    /\ DefaultShelf \in DOMAIN shelves /\ DOMAIN shelves \subseteq Shelf
    /\ \A c \in DOMAIN shelves : shelves[c] \in ShelfRow
    /\ \A x \in DOMAIN shown : x \in (DOMAIN shelves) \X Item /\ shown[x] \in SUBSET Bit
CallsTyped ==
    /\ call \in [VisRequest -> CallType] /\ moved \in [VisRequest -> SUBSET Table]
    /\ mediaTokens \subseteq Token
VisTyped == RolesTyped /\ ShelvesTyped /\ CallsTyped

(* The bits that no role to come is given.                                    *)
Recorded == 0..3 \cup allocated
MasksRecorded == \A c \in DOMAIN shelves : shelves[c].mask \subseteq Recorded

(* The default collection keeps every entry, so that an administrator finds   *)
(* it in a list.                                                              *)
DefaultHoldsAll == \A i \in Item : <<DefaultShelf, i>> \in DOMAIN shown

(* What a request has read is so as long as nobody else has written.          *)
ChangeSound(r) ==
    LET k == call[r]
    IN  k.op \in ChangeOp /\ k.at \in {"before", "write"} =>
        /\ k.op # "update" => k.shelf # DefaultShelf
        /\ k.op # "delete" => k.item \in Item
        /\ k.mask \subseteq Recorded
        /\ k.at = "before" => k.op # "add" /\ (moved[r] = {} => k.seen = Touched(k))
        /\ k.at = "write" /\ k.op # "add" /\ moved[r] = {} =>
            k.seen = {i \in Touched(k) : Sees(shown, i, k.bits)}
PatchSound(r) ==
    LET k == call[r]
    IN  k.op = "patch" /\ k.at = "write" =>
        /\ k.mask \subseteq Recorded /\ k.row.mask \subseteq Recorded
        /\ moved[r] = {} => k.shelf \in DOMAIN shelves /\ k.row = shelves[k.shelf]
ServeSound(r) ==
    LET k == call[r]
    IN  k.op = "serve" /\ k.at \in {"write", "served"} /\ moved[r] = {} =>
        /\ k.who \in enabled /\ k.bits = roleBits[k.who]
        /\ k.at = "served" => Sees(shown, k.item, k.bits)
CallSound(r) ==
    /\ call[r].at = "before" => call[r].op \in ChangeOp
    /\ call[r].at = "served" => call[r].op = "serve"
    /\ call[r].at = "write" /\ call[r].op = "create" => call[r].mask \subseteq Recorded
    /\ call[r].at = "write" /\ call[r].op = "role" => UsedBits \subseteq call[r].mask \cup Recorded
    /\ call[r].at = "write" /\ call[r].op = "settings" => authLock = r /\ call[r].seen = reorderMask
    /\ ChangeSound(r) /\ PatchSound(r) /\ ServeSound(r)
VisInv ==
    /\ VisTyped /\ MasksRecorded /\ DefaultHoldsAll
    /\ reorderMask \subseteq Known /\ lost = {}
    /\ \A r \in VisRequest : CallSound(r)

----------------------------------------------------------------------------
(* The rows of one entry tell who sees it by itself.                         *)
LEMMA OwnSight ==
    ASSUME NEW rows, NEW after, NEW i, NEW bits, SeesOwn(rows, i, bits),
           \A c \in Shelf : <<c, i>> \in DOMAIN rows =>
               <<c, i>> \in DOMAIN after /\ after[<<c, i>>] = rows[<<c, i>>]
    PROVE  SeesOwn(after, i, bits)
  BY DEF SeesOwn

(* A change adds no other row than its own.                                  *)
LEMMA RowsDomain ==
    ASSUME VisTyped, NEW r \in VisRequest
    PROVE  \A x \in DOMAIN RowsAfter(call[r]) :
               x \in DOMAIN shown \/ (call[r].op = "add" /\ KeyHolds(call[r])
                                      /\ x = <<call[r].shelf, call[r].item>>)
  BY DEF RowsAfter

(* The rows after a change: those that stay as they were, and the one that   *)
(* is written.                                                               *)
LEMMA RowsTyped ==
    ASSUME NEW k, k.op \in ChangeOp, NEW x \in DOMAIN RowsAfter(k)
    PROVE  /\ \/ x \in DOMAIN shown /\ (k.op = "delete" => x[1] # k.shelf)
              \/ k.op = "add" /\ k.shelf \in DOMAIN shelves /\ x = <<k.shelf, k.item>>
           /\ \/ x \in DOMAIN shown /\ RowsAfter(k)[x] = shown[x]
              \/ k.op \in {"add", "update"} /\ RowsAfter(k)[x] = k.mask
  BY DEF RowsAfter, ChangeOp, KeyHolds

(* If every entry that the change touches stays visible to its author,       *)
(* every entry does: one that it does not touch is seen by its own rows,     *)
(* which stay, or by those of its container, which is touched and was        *)
(* looked at, or stays as well.                                              *)
LEMMA NoLoss ==
    ASSUME VisTyped, NEW r \in VisRequest, ChangeSound(r),
           call[r].at = "write", call[r].op \in ChangeOp, moved[r] = {},
           \/ call[r].op = "add" \/ call[r].bits \cap Privileged # {}
           \/ \A j \in call[r].seen : Sees(RowsAfter(call[r]), j, call[r].bits),
           NEW i \in Item, Sees(shown, i, call[r].bits)
    PROVE  Sees(RowsAfter(call[r]), i, call[r].bits)
<1> DEFINE k == call[r]
           rows == RowsAfter(k)
           p == ParentItem[i]
<1>k. k \in CallType
  BY DEF VisTyped, CallsTyped
<1>a. p \in Item => ParentItem[p] = NoItem
  BY VisibilityAssumption
<1>b. p \in Item \cup {NoItem} /\ NoItem \notin Item
  BY VisibilityAssumption
<1>n. \A c \in Shelf : <<c, NoItem>> \notin DOMAIN shown
  BY VisibilityAssumption DEF VisTyped, ShelvesTyped
<1>1. CASE k.bits \cap Privileged # {}
  BY <1>1 DEF Sees
<1>2. CASE k.op = "add"
  <2>1. \A x \in DOMAIN shown : x \in DOMAIN rows /\ rows[x] = shown[x]
    BY <1>2 DEF RowsAfter
  <2>2. SeesOwn(shown, i, k.bits) => SeesOwn(rows, i, k.bits)
    BY <2>1, OwnSight
  <2>3. SeesOwn(shown, p, k.bits) => SeesOwn(rows, p, k.bits)
    BY <2>1, OwnSight
  <2>4. QED
    BY <2>2, <2>3 DEF Sees
<1>3. CASE k.op # "add" /\ k.bits \cap Privileged = {}
  <2>1. k.seen = {j \in Touched(k) : Sees(shown, j, k.bits)}
    BY <1>3 DEF ChangeSound
  <2>2. \A j \in k.seen : Sees(rows, j, k.bits)
    BY <1>3
  <2>3. CASE i \in Touched(k)
    BY <2>1, <2>2, <2>3
  <2>4. CASE i \notin Touched(k)
    <3>1. ASSUME NEW j \in Item \cup {NoItem}, j \notin Touched(k), SeesOwn(shown, j, k.bits)
          PROVE  SeesOwn(rows, j, k.bits)
      <4>1. \A c \in Shelf : <<c, j>> \in DOMAIN shown =>
                <<c, j>> \in DOMAIN rows /\ rows[<<c, j>>] = shown[<<c, j>>]
        <5> SUFFICES ASSUME NEW c \in Shelf, <<c, j>> \in DOMAIN shown
                     PROVE  <<c, j>> \in DOMAIN rows /\ rows[<<c, j>>] = shown[<<c, j>>]
          OBVIOUS
        <5>j. j \in Item
          BY <1>n
        <5>1. CASE k.op = "delete"
          <6>1. c # k.shelf
            BY <3>1, <5>1, <5>j DEF Touched
          <6>2. <<c, j>>[1] # k.shelf
            BY <6>1
          <6>3. QED
            BY <5>1, <6>2 DEF RowsAfter
        <5>2. CASE k.op # "delete"
          <6>1. <<c, j>> # <<k.shelf, k.item>>
            BY <3>1, <5>2 DEF Touched
          <6>2. QED
            BY <1>3, <5>2, <6>1 DEF RowsAfter
        <5>3. QED
          BY <5>1, <5>2
      <4>2. QED
        BY <3>1, <4>1, OwnSight
    <3>2. CASE SeesOwn(shown, i, k.bits)
      BY <2>4, <3>1, <3>2 DEF Sees
    <3>3. CASE SeesOwn(shown, p, k.bits) /\ p \notin Touched(k)
      BY <1>b, <3>1, <3>3 DEF Sees
    <3>4. CASE SeesOwn(shown, p, k.bits) /\ p \in Touched(k)
      <4>1. p \in Item
        BY <1>b, <1>n, <3>4 DEF SeesOwn
      <4>2. p \in k.seen
        BY <2>1, <3>4 DEF Sees
      <4>3. SeesOwn(rows, p, k.bits) \/ SeesOwn(rows, NoItem, k.bits)
        BY <1>3, <1>a, <2>2, <4>1, <4>2 DEF Sees
      <4>4. ~SeesOwn(rows, NoItem, k.bits)
        BY <1>3, <1>n, RowsDomain DEF SeesOwn
      <4>5. QED
        BY <4>3, <4>4 DEF Sees
    <3>5. QED
      BY <1>3, <3>2, <3>3, <3>4 DEF Sees
  <2>5. QED
    BY <2>3, <2>4
<1>4. QED
  BY <1>1, <1>2, <1>3

(* A request that holds nothing yet, or nothing any more.                    *)
LEMMA Resting ==
    ASSUME NEW r \in VisRequest, call'[r].at \in {"idle", "look", "done"}
    PROVE  CallSound(r)'
  BY DEF CallSound, ChangeSound, PatchSound, ServeSound

(* A request that does not move keeps what it relies on if whoever moves     *)
(* left the tables alone or is counted against it, and stores masks of       *)
(* recorded bits only.                                                       *)
LEMMA OtherCall ==
    ASSUME NEW c \in VisRequest, CallSound(c), call'[c] = call[c], allocated \subseteq allocated',
           call[c].at \notin {"idle", "done"} /\ moved'[c] = {} =>
               /\ moved[c] = {} /\ shelves' = shelves /\ shown' = shown
               /\ roleBits' = roleBits /\ enabled' = enabled,
           UsedBits' \subseteq UsedBits \cup Recorded',
           call[c].at = "write" /\ call[c].op = "settings" =>
               authLock' = authLock /\ reorderMask' = reorderMask
    PROVE  CallSound(c)'
<1>r. Recorded \subseteq Recorded'
  BY DEF Recorded
<1>1. ChangeSound(c)'
  BY <1>r DEF CallSound, ChangeSound, Touched
<1>2. PatchSound(c)'
  BY <1>r DEF CallSound, PatchSound
<1>3. ServeSound(c)'
  BY DEF CallSound, ServeSound
<1>4. QED
  BY <1>r, <1>1, <1>2, <1>3 DEF CallSound

(* The invariant holds at the start.                                         *)
LEMMA VisInvInit == VisInit => VisInv
<1> SUFFICES ASSUME VisInit PROVE VisInv
  OBVIOUS
<1>b. {RoleGuest, RoleUser, RoleAdmin, RoleOwner} \subseteq Bit /\ 4 \in CustomBit /\ CustomBit \subseteq Bit
  BY VisibilityAssumption DEF RoleGuest, RoleUser, RoleAdmin, RoleOwner, Bit, CustomBit
<1>1. Blank \in CallType
  BY VisibilityAssumption, <1>b DEF Blank, CallType, CallOp, CallPlace, ShelfRow
<1>2. RolesTyped
  <2>1. liveRoles \subseteq CustomBit /\ allocated = liveRoles /\ enabled = Person /\ authLock = NoOne
    BY <1>b DEF VisInit
  <2>2. roleBits \in [Person -> SUBSET Bit]
    BY <1>b, <2>1 DEF VisInit
  <2>3. \A p \in Person : roleBits[p] \subseteq Known
    BY <2>1 DEF VisInit, Known
  <2>4. QED
    BY <2>1, <2>2, <2>3 DEF RolesTyped
<1>3. ShelvesTyped
  <2>1. DefaultShelf \in DOMAIN shelves /\ DOMAIN shelves \subseteq Shelf
    BY VisibilityAssumption DEF VisInit
  <2>2. \A c \in DOMAIN shelves : shelves[c] \in ShelfRow
    BY <1>b DEF VisInit, ShelfRow
  <2>3. ASSUME NEW x \in DOMAIN shown PROVE x \in Shelf \X Item /\ shown[x] \in SUBSET Bit
    BY VisibilityAssumption, <1>b DEF VisInit
  <2>4. QED
    BY <2>1, <2>2, <2>3 DEF ShelvesTyped, VisInit
<1>4. CallsTyped
  BY <1>1 DEF VisInit, CallsTyped
<1>5. MasksRecorded /\ DefaultHoldsAll /\ reorderMask \subseteq Known /\ lost = {}
  BY VisibilityAssumption
     DEF VisInit, MasksRecorded, DefaultHoldsAll, Known, Recorded, RoleUser, Privileged
<1>6. \A r \in VisRequest : CallSound(r)
  BY DEF VisInit, CallSound, ChangeSound, PatchSound, ServeSound, Blank
<1>7. QED
  BY <1>2, <1>3, <1>4, <1>5, <1>6 DEF VisInv, VisTyped

(* Every step keeps the invariant.                                           *)
LEMMA VisInvNext == VisInv /\ [VisNext]_visVars => VisInv'
<1> SUFFICES ASSUME VisInv, [VisNext]_visVars PROVE VisInv'
  OBVIOUS
<1> USE DEF visTables, roleTables, shelfTables
<1>t. RolesTyped /\ ShelvesTyped /\ CallsTyped
  BY DEF VisInv, VisTyped
<1>m. MasksRecorded /\ DefaultHoldsAll
  BY DEF VisInv
<1>k. reorderMask \subseteq Known /\ lost = {}
  BY DEF VisInv
<1>c. \A r \in VisRequest : CallSound(r)
  BY DEF VisInv
<1>s. \A r \in VisRequest : call[r].at = "write" /\ call[r].op = "settings" => authLock = r
  BY <1>c DEF CallSound
<1>y. \A r \in VisRequest : call[r] \in CallType
  BY <1>t DEF CallsTyped
<1>b. {0, 1, 2, 3} \subseteq Bit /\ CustomBit \subseteq Bit /\ Recorded \subseteq Bit /\ NoOne \notin VisRequest \cup Person
  BY <1>t, VisibilityAssumption DEF Bit, CustomBit, RolesTyped, Recorded
<1>w. \A r \in VisRequest : [Blank EXCEPT !.at = "done"] \in CallType
  BY VisibilityAssumption, <1>b DEF Blank, CallType, CallOp, CallPlace, ShelfRow
<1>0. CASE UNCHANGED visVars
  <2>1. VisTyped'
    BY <1>0, <1>t DEF visVars, VisTyped, RolesTyped, ShelvesTyped, CallsTyped, Known
  <2>2. MasksRecorded' /\ DefaultHoldsAll' /\ reorderMask' \subseteq Known' /\ lost' = {}
    BY <1>0, <1>m, <1>k DEF visVars, MasksRecorded, DefaultHoldsAll, Recorded, Known
  <2>3. ASSUME NEW c \in VisRequest PROVE CallSound(c)'
    BY <1>0, <1>c, OtherCall DEF visVars, UsedBits, Recorded
  <2>9. QED
    BY <2>1, <2>2, <2>3 DEF VisInv
<1>1. ASSUME NEW r \in VisRequest, Begin(r) PROVE VisInv'
  <2>1. CallsTyped'
    <3>1. PICK k \in [op : CallOp, who : Person \cup {NoOne}, bits : SUBSET Bit] :
            call' = [call EXCEPT ![r] = [Blank EXCEPT !.at = "look", !.op = k.op, !.who = k.who, !.bits = k.bits]]
      <4>1. {{RoleOwner}} \cup {{bit} : bit \in Privileged} \cup {{}} \cup {roleBits[p] : p \in enabled} \subseteq SUBSET Bit
        BY <1>t, <1>b DEF RolesTyped, Privileged, RoleOwner, RoleAdmin
      <4>2. enabled \subseteq Person
        BY <1>t DEF RolesTyped
      <4>3. QED
        BY <1>1, <4>1, <4>2 DEF Begin, CallOp, ChangeOp
    <3>2. [Blank EXCEPT !.at = "look", !.op = k.op, !.who = k.who, !.bits = k.bits] \in CallType
      BY <1>w DEF Blank, CallType, CallPlace
    <3>3. QED
      BY <1>1, <1>t, <3>1, <3>2 DEF Begin, CallsTyped
  <2>2. RolesTyped'
    BY <1>1, <1>t, <1>b DEF Begin, RolesTyped, Known
  <2>3. ShelvesTyped'
    BY <1>1, <1>t, <1>y DEF Begin, ShelvesTyped
  <2>4. MasksRecorded' /\ DefaultHoldsAll'
    BY <1>1, <1>t, <1>m DEF Begin, MasksRecorded, DefaultHoldsAll, Recorded
  <2>5. reorderMask' \subseteq Known' /\ lost' = {}
    BY <1>1, <1>k DEF Begin, Known
  <2>6. CallSound(r)'
    BY <1>1, <1>t, Resting DEF Begin, CallsTyped, Blank
  <2>7. ASSUME NEW q \in VisRequest, q # r PROVE CallSound(q)'
    <3>1. call'[q] = call[q]
      BY <2>7, <1>1, <1>t DEF Begin, CallsTyped
    <3>2. moved'[q] = moved[q]
      BY <2>7, <1>1, <1>t DEF Begin, CallsTyped
    <3>3. UsedBits' \subseteq UsedBits \cup Recorded'
      BY <1>1 DEF Begin, UsedBits, Recorded
    <3>9. QED
      BY <2>7, <1>1, <1>b, <1>c, <1>s, <3>1, <3>2, <3>3, OtherCall DEF Begin, AuthFree
  <2>9. QED
    BY <2>1, <2>2, <2>3, <2>4, <2>5, <2>6, <2>7 DEF VisInv, VisTyped
<1>2. ASSUME NEW r \in VisRequest, LookAtChange(r) PROVE VisInv'
  <2>c. PICK c \in Shelf, i \in Item, m \in GivenMask :
          LET k == [call[r] EXCEPT !.shelf = c, !.item = IF call[r].op = "delete" THEN NoItem ELSE i,
                                   !.mask = IF call[r].op \in {"add", "update"} THEN m ELSE {}]
          IN  \/ ~MayChange(k) /\ Ends(r)
              \/ /\ MayChange(k)
                 /\ call' = [call EXCEPT ![r] = [k EXCEPT !.at = IF k.op = "add" THEN "write" ELSE "before",
                                                         !.seen = IF k.op = "add" THEN {} ELSE Touched(k)]]
    BY <1>2 DEF LookAtChange
  <2> DEFINE ii == IF call[r].op = "delete" THEN NoItem ELSE i
             mm == IF call[r].op \in {"add", "update"} THEN m ELSE {}
             k == [call[r] EXCEPT !.shelf = c, !.item = ii, !.mask = mm]
  <2>p. \/ ~MayChange(k) /\ Ends(r)
        \/ /\ MayChange(k)
           /\ call' = [call EXCEPT ![r] = [k EXCEPT !.at = IF k.op = "add" THEN "write" ELSE "before",
                                                   !.seen = IF k.op = "add" THEN {} ELSE Touched(k)]]
    BY <2>c
  <2>i. ii \in Item \cup {NoItem} /\ mm \in SUBSET Bit /\ (mm # {} => call[r].op \in {"add", "update"})
        /\ (call[r].op # "delete" => ii \in Item)
    BY VisibilityAssumption DEF Bit
  <2> HIDE DEF ii, mm
  <2>q. k \in CallType
    BY <1>y, <2>i DEF CallType
  <2>o. /\ call[r].op \in ChangeOp /\ k.op = call[r].op /\ k.bits = call[r].bits
        /\ k.item = ii /\ k.mask = mm
    BY <1>2, <1>y DEF LookAtChange, CallType
  <2> HIDE DEF k
  <2>1. CallsTyped'
    <3>1. Touched(k) \subseteq Item \cup {NoItem} /\ (k.op = "delete" \/ k.item \in Item)
      BY <2>i, <2>o DEF Touched
    <3>2. k.op # "add" => Touched(k) \subseteq Item
      BY <3>1 DEF Touched
    <3>3. [k EXCEPT !.at = IF k.op = "add" THEN "write" ELSE "before",
                    !.seen = IF k.op = "add" THEN {} ELSE Touched(k)] \in CallType
      <4>1. (IF k.op = "add" THEN {} ELSE Touched(k)) \in SUBSET (Item \cup Bit)
        BY <3>2
      <4>2. (IF k.op = "add" THEN "write" ELSE "before") \in CallPlace
        BY DEF CallPlace
      <4> DEFINE aa == IF k.op = "add" THEN "write" ELSE "before"
                 ss == IF k.op = "add" THEN {} ELSE Touched(k)
      <4>3. aa \in CallPlace /\ ss \in SUBSET (Item \cup Bit)
        BY <4>1, <4>2
      <4> HIDE DEF aa, ss
      <4>4. [k EXCEPT !.at = aa, !.seen = ss] \in CallType
        BY <4>3, <2>q DEF CallType
      <4>5. QED
        BY <4>4 DEF aa, ss
    <3>4. call' \in [VisRequest -> CallType]
      BY <1>t, <1>w, <2>p, <3>3 DEF CallsTyped, Ends
    <3>5. QED
      BY <1>2, <1>t, <3>4 DEF LookAtChange, CallsTyped
  <2>2. RolesTyped'
    BY <1>2, <1>t, <1>b DEF LookAtChange, Ends, RolesTyped, Known
  <2>3. ShelvesTyped'
    BY <1>2, <1>t, <1>y DEF LookAtChange, Ends, ShelvesTyped
  <2>4. MasksRecorded' /\ DefaultHoldsAll'
    BY <1>2, <1>t, <1>m DEF LookAtChange, Ends, MasksRecorded, DefaultHoldsAll, Recorded
  <2>5. reorderMask' \subseteq Known' /\ lost' = {}
    BY <1>2, <1>k DEF LookAtChange, Ends, Known
  <2>6. CallSound(r)'
    <3>1. CASE Ends(r)
      BY <1>t, <3>1, Resting DEF Ends, Blank, CallsTyped
    <3>2. CASE /\ MayChange(k)
               /\ call' = [call EXCEPT ![r] = [k EXCEPT !.at = IF k.op = "add" THEN "write" ELSE "before",
                                                       !.seen = IF k.op = "add" THEN {} ELSE Touched(k)]]
      <4> DEFINE w == call'[r]
      <4>1. /\ w.op = k.op /\ w.shelf = k.shelf /\ w.item = k.item /\ w.mask = k.mask /\ w.bits = k.bits
            /\ w.at = (IF k.op = "add" THEN "write" ELSE "before")
            /\ w.seen = (IF k.op = "add" THEN {} ELSE Touched(k))
        BY <1>t, <2>q, <3>2 DEF CallsTyped, CallType
      <4> HIDE DEF w
      <4>2. k.op \in ChangeOp
        BY <2>o
      <4>3. k.op # "update" => k.shelf # DefaultShelf
        BY <3>2 DEF MayChange
      <4>4. k.op # "delete" => k.item \in Item
        BY <2>i, <2>o
      <4>5. Known \subseteq Recorded
        BY <1>t
           DEF Known, Recorded, RolesTyped, Privileged, RoleGuest, RoleUser, RoleAdmin, RoleOwner
      <4>6. k.mask \subseteq Recorded
        BY <2>i, <2>o, <3>2, <4>5 DEF MayChange
      <4>8. shown' = shown /\ allocated' = allocated
        BY <1>2 DEF LookAtChange
      <4>9. ChangeSound(r)'
        BY <4>1, <4>2, <4>3, <4>4, <4>6, <4>8 DEF ChangeSound, w, Touched, Recorded
      <4>10. QED
        BY <4>1, <4>2, <4>9 DEF CallSound, PatchSound, ServeSound, w, ChangeOp
    <3>3. QED
      BY <2>p, <3>1, <3>2
  <2>7. ASSUME NEW q \in VisRequest, q # r PROVE CallSound(q)'
    <3>1. call'[q] = call[q]
      BY <2>7, <1>2, <1>t DEF LookAtChange, Ends, CallsTyped
    <3>2. moved'[q] = moved[q]
      BY <2>7, <1>2, <1>t DEF LookAtChange, Ends, CallsTyped
    <3>3. UsedBits' \subseteq UsedBits \cup Recorded'
      <4>1. shown' = shown /\ shelves' = shelves
        BY <1>2 DEF LookAtChange
      <4>2. QED
        BY <4>1 DEF UsedBits
    <3>9. QED
      BY <2>7, <1>2, <1>b, <1>c, <1>s, <3>1, <3>2, <3>3, OtherCall DEF LookAtChange, AuthFree
  <2>9. QED
    BY <2>1, <2>2, <2>3, <2>4, <2>5, <2>6, <2>7 DEF VisInv, VisTyped
<1>3. ASSUME NEW r \in VisRequest, SeeBefore(r) PROVE VisInv'
  <2>1. CallsTyped'
    <3>1. [call[r] EXCEPT !.at = "write", !.seen = {i \in @ : Sees(shown, i, call[r].bits)}] \in CallType
      BY <1>y, ZenonT(40) DEF CallType, CallPlace
    <3>2. call' = [call EXCEPT ![r] = [call[r] EXCEPT !.at = "write", !.seen = {i \in @ : Sees(shown, i, call[r].bits)}]]
      BY <1>3, <1>t DEF SeeBefore, CallsTyped
    <3>3. QED
      BY <1>3, <1>t, <3>1, <3>2 DEF SeeBefore, CallsTyped
  <2>2. RolesTyped'
    BY <1>3, <1>t, <1>b DEF SeeBefore, RolesTyped, Known
  <2>3. ShelvesTyped'
    BY <1>3, <1>t, <1>y DEF SeeBefore, ShelvesTyped
  <2>4. MasksRecorded' /\ DefaultHoldsAll'
    BY <1>3, <1>t, <1>m DEF SeeBefore, MasksRecorded, DefaultHoldsAll, Recorded
  <2>5. reorderMask' \subseteq Known' /\ lost' = {}
    BY <1>3, <1>k DEF SeeBefore, Known
  <2>6. CallSound(r)'
    <3> DEFINE k == call[r]
               w == call'[r]
    <3>1. k.at = "before" /\ k.op \in ChangeOp
      BY <1>3, <1>c DEF SeeBefore, CallSound
    <3>2. /\ w.op = k.op /\ w.shelf = k.shelf /\ w.item = k.item /\ w.mask = k.mask /\ w.bits = k.bits
          /\ w.at = "write" /\ w.seen = {i \in k.seen : Sees(shown, i, k.bits)}
      BY <1>3, <1>t, <1>y DEF SeeBefore, CallsTyped, CallType
    <3>3. ChangeSound(r)
      BY <1>c DEF CallSound
    <3>4. shown' = shown /\ moved' = moved /\ allocated' = allocated
      BY <1>3 DEF SeeBefore
    <3> HIDE DEF k, w
    <3>5. ChangeSound(r)'
      BY <3>1, <3>2, <3>3, <3>4 DEF ChangeSound, k, w, Touched, Recorded, Sees, SeesOwn
    <3>6. QED
      BY <3>1, <3>2, <3>5 DEF CallSound, PatchSound, ServeSound, w, ChangeOp
  <2>7. ASSUME NEW q \in VisRequest, q # r PROVE CallSound(q)'
    <3>1. call'[q] = call[q]
      BY <2>7, <1>3, <1>t DEF SeeBefore, CallsTyped
    <3>2. moved'[q] = moved[q]
      BY <2>7, <1>3, <1>t DEF SeeBefore, CallsTyped
    <3>3. UsedBits' \subseteq UsedBits \cup Recorded'
      BY <1>3 DEF SeeBefore, UsedBits, Recorded
    <3>9. QED
      BY <2>7, <1>3, <1>b, <1>c, <1>s, <3>1, <3>2, <3>3, OtherCall DEF SeeBefore, AuthFree
  <2>9. QED
    BY <2>1, <2>2, <2>3, <2>4, <2>5, <2>6, <2>7 DEF VisInv, VisTyped
<1>4. ASSUME NEW r \in VisRequest, WriteChange(r) PROVE VisInv'
  <2> DEFINE k == call[r]
             rows == RowsAfter(k)
  <2>k. k.at = "write" /\ k.op \in ChangeOp /\ ChangeSound(r)
    BY <1>4, <1>c DEF WriteChange, CallSound
  <2>p. \/ UNCHANGED <<shelves, shown, moved, lost>>
        \/ /\ shown' = rows
           /\ shelves' = IF k.op = "delete" THEN [c \in DOMAIN shelves \ {k.shelf} |-> shelves[c]] ELSE shelves
    BY <1>4 DEF WriteChange
  <2>m. k.mask \subseteq Recorded /\ (k.op = "delete" => k.shelf # DefaultShelf)
        /\ (k.op = "remove" => k.shelf # DefaultShelf)
    BY <2>k DEF ChangeSound, ChangeOp
  <2>s. DOMAIN shelves' \subseteq DOMAIN shelves /\ \A c \in DOMAIN shelves' : shelves'[c] = shelves[c]
    BY <2>p
  <2>u. UsedBits' \subseteq UsedBits \cup Recorded
    <3>1. CASE UNCHANGED <<shelves, shown, moved, lost>>
      BY <3>1 DEF UsedBits
    <3>2. CASE shown' = rows
      <4>1. \A x \in DOMAIN shown' : shown'[x] \subseteq UsedBits \cup Recorded
        BY <2>k, <2>m, <3>2, RowsTyped DEF UsedBits
      <4>2. \A c \in DOMAIN shelves' : shelves'[c].mask \subseteq UsedBits
        BY <2>s DEF UsedBits
      <4>3. QED
        BY <4>1, <4>2 DEF UsedBits
    <3>3. QED
      BY <2>p, <3>1, <3>2
  <2>1. CallsTyped'
    BY <1>4, <1>t, <1>w DEF WriteChange, Wrote, Ends, CallsTyped, Table
  <2>2. RolesTyped'
    BY <1>4, <1>t, <1>b DEF WriteChange, Wrote, Ends, RolesTyped, Known
  <2>3. ShelvesTyped'
    <3>1. CASE UNCHANGED <<shelves, shown, moved, lost>>
      BY <1>t, <3>1 DEF ShelvesTyped
    <3>2. CASE /\ shown' = rows
               /\ shelves' = IF k.op = "delete" THEN [c \in DOMAIN shelves \ {k.shelf} |-> shelves[c]] ELSE shelves
      <4>1. DefaultShelf \in DOMAIN shelves'
        BY <1>t, <2>m, <3>2 DEF ShelvesTyped
      <4>2. \A c \in DOMAIN shelves' : shelves'[c] \in ShelfRow
        BY <1>t, <2>s DEF ShelvesTyped
      <4>3. ASSUME NEW x \in DOMAIN rows PROVE rows[x] \in SUBSET Bit
        BY <1>t, <1>y, <2>k, RowsTyped DEF ShelvesTyped, CallType
      <4>4. ASSUME NEW x \in DOMAIN rows PROVE x \in (DOMAIN shelves') \X Item
        <5>1. CASE x \in DOMAIN shown /\ (k.op = "delete" => x[1] # k.shelf)
          BY <1>t, <3>2, <5>1 DEF ShelvesTyped
        <5>2. CASE k.op = "add" /\ k.shelf \in DOMAIN shelves /\ x = <<k.shelf, k.item>>
          BY <2>k, <3>2, <5>2 DEF ChangeSound
        <5>3. QED
          BY <2>k, <5>1, <5>2, RowsTyped
      <4>5. QED
        BY <1>t, <2>s, <3>2, <4>1, <4>2, <4>3, <4>4 DEF ShelvesTyped
    <3>3. QED
      BY <2>p, <3>1, <3>2
  <2>4. MasksRecorded' /\ DefaultHoldsAll'
    <3>1. MasksRecorded'
      BY <1>4, <1>m, <2>s DEF WriteChange, MasksRecorded, Recorded
    <3>2. ASSUME NEW i \in Item PROVE <<DefaultShelf, i>> \in DOMAIN rows
      <4>1. <<DefaultShelf, i>> \in DOMAIN shown
        BY <1>m DEF DefaultHoldsAll
      <4>2. <<DefaultShelf, i>>[1] = DefaultShelf
        OBVIOUS
      <4>3. k.op \in {"delete", "remove"} => <<DefaultShelf, i>>[1] # k.shelf /\ <<DefaultShelf, i>> # <<k.shelf, k.item>>
        BY <2>m, <4>2
      <4>4. QED
        BY <4>1, <4>3 DEF RowsAfter
    <3>3. QED
      BY <1>m, <2>p, <3>1, <3>2 DEF DefaultHoldsAll
  <2>5. reorderMask' \subseteq Known' /\ lost' = {}
    <3>1. reorderMask' \subseteq Known'
      BY <1>4, <1>k DEF WriteChange, Known
    <3>2. CASE lost' = lost
      BY <1>k, <3>1, <3>2
    <3>3. CASE lost' # lost
      <4>1. /\ moved[r] = {}
            /\ k.op = "add" \/ k.bits \cap Privileged # {} \/ \A i \in k.seen : Sees(rows, i, k.bits)
            /\ lost' = lost \cup {i \in Item : Sees(shown, i, k.bits) /\ ~Sees(rows, i, k.bits)}
        BY <1>4, <3>3 DEF WriteChange
      <4>2. \A i \in Item : Sees(shown, i, k.bits) => Sees(rows, i, k.bits)
        BY <1>t, <2>k, <4>1, NoLoss DEF VisTyped
      <4>3. QED
        BY <1>k, <3>1, <4>1, <4>2
    <3>4. QED
      BY <3>2, <3>3
  <2>6. CallSound(r)'
    BY <1>4, <1>t, Resting DEF WriteChange, Wrote, Ends, CallsTyped, Blank
  <2>7. ASSUME NEW q \in VisRequest, q # r PROVE CallSound(q)'
    <3>1. call'[q] = call[q]
      BY <2>7, <1>4, <1>t DEF WriteChange, Wrote, Ends, CallsTyped
    <3>2. (shelves' = shelves /\ shown' = shown /\ moved' = moved) \/ call[q].at \in {"idle", "done"} \/ moved'[q] # {}
      BY <2>7, <1>4, <1>t DEF WriteChange, Wrote, Ends, UnderWay, CallsTyped
    <3>3. UsedBits' \subseteq UsedBits \cup Recorded'
      BY <1>4, <2>u DEF WriteChange, Wrote, Ends, UsedBits, Recorded
    <3>9. QED
      BY <2>7, <1>4, <1>b, <1>c, <1>s, <3>1, <3>2, <3>3, OtherCall DEF WriteChange, AuthFree
  <2>9. QED
    BY <2>1, <2>2, <2>3, <2>4, <2>5, <2>6, <2>7 DEF VisInv, VisTyped
<1>5. ASSUME NEW r \in VisRequest, LookAtCreate(r) PROVE VisInv'
  <2>1. CallsTyped'
    <3>1. PICK m \in GivenMask, bit \in BOOLEAN :
            Ends(r) \/ call' = [call EXCEPT ![r] = [call[r] EXCEPT !.at = "write", !.mask = m, !.login = bit]]
      BY <1>5, <1>t DEF LookAtCreate, CallsTyped
    <3>2. m \in SUBSET Bit
      BY VisibilityAssumption DEF Bit
    <3>4. [call[r] EXCEPT !.at = "write", !.mask = m, !.login = bit] \in CallType
      BY <1>y, <3>2, ZenonT(40) DEF CallType, CallPlace
    <3>3. QED
      BY <1>5, <1>t, <1>w, <3>1, <3>4 DEF LookAtCreate, CallsTyped, Ends
  <2>2. RolesTyped'
    BY <1>5, <1>t, <1>b DEF LookAtCreate, Ends, RolesTyped, Known
  <2>3. ShelvesTyped'
    BY <1>5, <1>t, <1>y DEF LookAtCreate, Ends, ShelvesTyped
  <2>4. MasksRecorded' /\ DefaultHoldsAll'
    BY <1>5, <1>t, <1>m DEF LookAtCreate, Ends, MasksRecorded, DefaultHoldsAll, Recorded
  <2>5. reorderMask' \subseteq Known' /\ lost' = {}
    BY <1>5, <1>k DEF LookAtCreate, Ends, Known
  <2>6. CallSound(r)'
    <3>1. Known \subseteq Recorded
      BY <1>t DEF Known, Recorded, RolesTyped, Privileged, RoleGuest, RoleUser, RoleAdmin, RoleOwner
    <3>2. \/ call'[r].at = "done"
          \/ call'[r].at = "write" /\ call'[r].op = "create" /\ call'[r].mask \subseteq Known
      <4>1. PICK m \in GivenMask, bit \in BOOLEAN :
              \/ Ends(r)
              \/ m \subseteq Known /\ call' = [call EXCEPT ![r] = [call[r] EXCEPT !.at = "write", !.mask = m, !.login = bit]]
        BY <1>5, <1>t DEF LookAtCreate, CallsTyped
      <4>2. CASE Ends(r)
        BY <1>t, <4>2 DEF Ends, Blank, CallsTyped
      <4>3. CASE ~Ends(r)
        <5>1. /\ m \subseteq Known /\ call[r].op = "create"
              /\ call' = [call EXCEPT ![r] = [call[r] EXCEPT !.at = "write", !.mask = m, !.login = bit]]
          BY <1>5, <4>1, <4>3 DEF LookAtCreate
        <5>2. QED
          BY <1>t, <1>y, <5>1 DEF CallsTyped, CallType
      <4>4. QED
        BY <4>2, <4>3
    <3>3. allocated' = allocated
      BY <1>5 DEF LookAtCreate
    <3>4. QED
      BY <3>1, <3>2, <3>3 DEF CallSound, ChangeSound, PatchSound, ServeSound, ChangeOp, Recorded
  <2>7. ASSUME NEW q \in VisRequest, q # r PROVE CallSound(q)'
    <3>1. call'[q] = call[q]
      BY <2>7, <1>5, <1>t DEF LookAtCreate, Ends, CallsTyped
    <3>2. moved'[q] = moved[q]
      BY <2>7, <1>5, <1>t DEF LookAtCreate, Ends, CallsTyped
    <3>3. UsedBits' \subseteq UsedBits \cup Recorded'
      BY <1>5 DEF LookAtCreate, Ends, UsedBits, Recorded
    <3>9. QED
      BY <2>7, <1>5, <1>b, <1>c, <1>s, <3>1, <3>2, <3>3, OtherCall DEF LookAtCreate, AuthFree
  <2>9. QED
    BY <2>1, <2>2, <2>3, <2>4, <2>5, <2>6, <2>7 DEF VisInv, VisTyped
<1>6. ASSUME NEW r \in VisRequest, WriteCreate(r) PROVE VisInv'
  <2>k. call[r].mask \subseteq Recorded /\ [mask |-> call[r].mask, login |-> call[r].login] \in ShelfRow
    BY <1>6, <1>y, <1>c DEF WriteCreate, CallSound, CallType, ShelfRow
  <2>p. \/ UNCHANGED <<shelves, moved>>
        \/ \E c \in Shelf \ DOMAIN shelves :
            shelves' = [d \in DOMAIN shelves \cup {c} |->
                IF d = c THEN [mask |-> call[r].mask, login |-> call[r].login] ELSE shelves[d]]
    BY <1>6 DEF WriteCreate
  <2>s. /\ DOMAIN shelves \subseteq DOMAIN shelves' /\ DOMAIN shelves' \subseteq DOMAIN shelves \cup Shelf
        /\ \A d \in DOMAIN shelves' :
            \/ d \in DOMAIN shelves /\ shelves'[d] = shelves[d]
            \/ shelves'[d] = [mask |-> call[r].mask, login |-> call[r].login]
    BY <2>p
  <2>u. UsedBits' \subseteq UsedBits \cup Recorded
    <3>1. shown' = shown
      BY <1>6 DEF WriteCreate
    <3>2. \A c \in DOMAIN shelves' : shelves'[c].mask \subseteq UsedBits \cup Recorded
      BY <2>k, <2>s DEF UsedBits
    <3>3. QED
      BY <3>1, <3>2 DEF UsedBits
  <2>1. CallsTyped'
    <3>1. Ends(r) /\ mediaTokens' = mediaTokens /\ (moved' = moved \/ Wrote(r, "shelves"))
      BY <1>6 DEF WriteCreate
    <3>2. QED
      BY <1>t, <1>w, <3>1 DEF Ends, Wrote, CallsTyped, Table
  <2>2. RolesTyped'
    BY <1>6, <1>t, <1>b DEF WriteCreate, Wrote, Ends, RolesTyped, Known
  <2>3. ShelvesTyped'
    BY <1>6, <1>t, <2>k, <2>s DEF WriteCreate, ShelvesTyped
  <2>4. MasksRecorded' /\ DefaultHoldsAll'
    <3>1. allocated' = allocated /\ shown' = shown
      BY <1>6 DEF WriteCreate
    <3>2. \A d \in DOMAIN shelves' : shelves'[d].mask \subseteq Recorded
      BY <1>m, <2>k, <2>s DEF MasksRecorded
    <3>3. QED
      BY <1>m, <3>1, <3>2 DEF MasksRecorded, DefaultHoldsAll, Recorded
  <2>5. reorderMask' \subseteq Known' /\ lost' = {}
    BY <1>6, <1>k DEF WriteCreate, Wrote, Ends, Known
  <2>6. CallSound(r)'
    BY <1>6, <1>t, Resting DEF WriteCreate, Wrote, Ends, CallsTyped, Blank
  <2>7. ASSUME NEW q \in VisRequest, q # r PROVE CallSound(q)'
    <3>1. call'[q] = call[q]
      BY <2>7, <1>6, <1>t DEF WriteCreate, Wrote, Ends, CallsTyped
    <3>2. (shelves' = shelves /\ shown' = shown /\ moved' = moved) \/ call[q].at \in {"idle", "done"} \/ moved'[q] # {}
      BY <2>7, <1>6, <1>t DEF WriteCreate, Wrote, Ends, UnderWay, CallsTyped
    <3>3. UsedBits' \subseteq UsedBits \cup Recorded'
      BY <1>6, <2>u DEF WriteCreate, Wrote, Ends, UsedBits, Recorded
    <3>9. QED
      BY <2>7, <1>6, <1>b, <1>c, <1>s, <3>1, <3>2, <3>3, OtherCall DEF WriteCreate, AuthFree
  <2>9. QED
    BY <2>1, <2>2, <2>3, <2>4, <2>5, <2>6, <2>7 DEF VisInv, VisTyped
<1>7. ASSUME NEW r \in VisRequest, LookAtPatch(r) PROVE VisInv'
  <2>p. PICK c \in Shelf, m \in GivenMask, bit \in BOOLEAN, asked \in SUBSET {"mask", "login"} :
          \/ Ends(r)
          \/ /\ m \subseteq Known /\ c \in DOMAIN shelves
             /\ call' = [call EXCEPT ![r] = [call[r] EXCEPT !.at = "write", !.shelf = c, !.asked = asked,
                                !.mask = IF "mask" \in asked THEN m ELSE {},
                                !.login = "login" \in asked /\ bit, !.row = shelves[c]]]
    <3>1. PICK c \in Shelf, m \in GivenMask, bit \in BOOLEAN, asked \in SUBSET {"mask", "login"} :
            LET ok == m \subseteq Known /\ c \in DOMAIN shelves
            IN  \/ ~ok /\ Ends(r)
                \/ ok /\ call' = [call EXCEPT ![r] = [@ EXCEPT !.at = "write", !.shelf = c, !.asked = asked,
                                !.mask = IF "mask" \in asked THEN m ELSE {},
                                !.login = "login" \in asked /\ bit, !.row = shelves[c]]]
      BY <1>7, Zenon DEF LookAtPatch
    <3>2. QED
      BY <1>t, <3>1, ZenonT(40) DEF CallsTyped
  <2>1. CallsTyped'
    <3>1. c \in DOMAIN shelves =>
          [call[r] EXCEPT !.at = "write", !.shelf = c, !.asked = asked,
                          !.mask = IF "mask" \in asked THEN m ELSE {},
                          !.login = "login" \in asked /\ bit, !.row = shelves[c]] \in CallType
      <4>1. m \in SUBSET Bit
        BY VisibilityAssumption DEF Bit
      <4>2. c \in DOMAIN shelves => shelves[c] \in ShelfRow
        BY <1>t DEF ShelvesTyped
      <4>3. ("login" \in asked /\ bit) \in BOOLEAN /\ (IF "mask" \in asked THEN m ELSE {}) \in SUBSET Bit
        BY <4>1
      <4>4. QED
        <5> DEFINE mm == IF "mask" \in asked THEN m ELSE {}
                   ll == "login" \in asked /\ bit
        <5>1. mm \in SUBSET Bit /\ ll \in BOOLEAN
          BY <4>3
        <5> HIDE DEF mm, ll
        <5>2. c \in DOMAIN shelves =>
              [call[r] EXCEPT !.at = "write", !.shelf = c, !.asked = asked,
                              !.mask = mm, !.login = ll, !.row = shelves[c]] \in CallType
          BY <1>y, <4>2, <5>1, ZenonT(40) DEF CallType, CallPlace
        <5>3. QED
          BY <5>2 DEF mm, ll
    <3>2. call' \in [VisRequest -> CallType]
      BY <1>t, <1>w, <2>p, <3>1 DEF CallsTyped, Ends
    <3>3. QED
      BY <1>7, <1>t, <3>2 DEF LookAtPatch, CallsTyped
  <2>2. RolesTyped'
    BY <1>7, <1>t, <1>b DEF LookAtPatch, Ends, RolesTyped, Known
  <2>3. ShelvesTyped'
    BY <1>7, <1>t, <1>y DEF LookAtPatch, Ends, ShelvesTyped
  <2>4. MasksRecorded' /\ DefaultHoldsAll'
    BY <1>7, <1>t, <1>m DEF LookAtPatch, Ends, MasksRecorded, DefaultHoldsAll, Recorded
  <2>5. reorderMask' \subseteq Known' /\ lost' = {}
    BY <1>7, <1>k DEF LookAtPatch, Ends, Known
  <2>6. CallSound(r)'
    <3>1. CASE Ends(r)
      BY <1>t, <3>1, Resting DEF Ends, Blank, CallsTyped
    <3>2. CASE ~Ends(r)
      <4>1. Known \subseteq Recorded
        BY <1>t
           DEF Known, Recorded, RolesTyped, Privileged, RoleGuest, RoleUser, RoleAdmin, RoleOwner
      <4>2. /\ call'[r].at = "write" /\ call'[r].op = "patch" /\ call'[r].shelf = c
            /\ call'[r].mask = (IF "mask" \in asked THEN m ELSE {}) /\ call'[r].row = shelves[c]
        <5> DEFINE ll == "login" \in asked /\ bit
        <5>1. call' = [call EXCEPT ![r] = [call[r] EXCEPT !.at = "write", !.shelf = c, !.asked = asked,
                                !.mask = IF "mask" \in asked THEN m ELSE {}, !.login = ll, !.row = shelves[c]]]
          BY <2>p, <3>2
        <5>2. call[r].op = "patch"
          BY <1>7 DEF LookAtPatch
        <5> HIDE DEF ll
        <5>3. QED
          BY <1>t, <1>y, <5>1, <5>2 DEF CallsTyped, CallType
      <4>3. c \in DOMAIN shelves /\ m \subseteq Known /\ shelves[c].mask \subseteq Recorded
        BY <1>m, <2>p, <3>2 DEF MasksRecorded
      <4>4. shelves' = shelves /\ allocated' = allocated
        BY <1>7 DEF LookAtPatch
      <4>5. PatchSound(r)'
        BY <4>1, <4>2, <4>3, <4>4 DEF PatchSound, Recorded
      <4>6. QED
        BY <4>2, <4>5 DEF CallSound, ChangeSound, ServeSound, ChangeOp
    <3>3. QED
      BY <3>1, <3>2
  <2>7. ASSUME NEW q \in VisRequest, q # r PROVE CallSound(q)'
    <3>1. call'[q] = call[q]
      BY <2>7, <1>7, <1>t DEF LookAtPatch, Ends, CallsTyped
    <3>2. moved'[q] = moved[q]
      BY <2>7, <1>7, <1>t DEF LookAtPatch, Ends, CallsTyped
    <3>3. UsedBits' \subseteq UsedBits \cup Recorded'
      <4>1. shown' = shown /\ shelves' = shelves
        BY <1>7 DEF LookAtPatch
      <4>2. QED
        BY <4>1 DEF UsedBits
    <3>9. QED
      BY <2>7, <1>7, <1>b, <1>c, <1>s, <3>1, <3>2, <3>3, OtherCall DEF LookAtPatch, AuthFree
  <2>9. QED
    BY <2>1, <2>2, <2>3, <2>4, <2>5, <2>6, <2>7 DEF VisInv, VisTyped
<1>8. ASSUME NEW r \in VisRequest, WritePatch(r) PROVE VisInv'
  <2>k. Merged(call[r]) \in ShelfRow /\ Merged(call[r]).mask \subseteq Recorded
    <3>1. PatchSound(r) /\ call[r].op = "patch" /\ call[r].at = "write"
      BY <1>8, <1>c DEF WritePatch, CallSound
    <3>2. QED
      BY <1>y, <3>1 DEF PatchSound, Merged, CallType, ShelfRow
  <2>s. /\ DOMAIN shelves' = DOMAIN shelves
        /\ \A c \in DOMAIN shelves : shelves'[c] = shelves[c] \/ shelves'[c] = Merged(call[r])
    BY <1>8 DEF WritePatch
  <2>u. UsedBits' \subseteq UsedBits \cup Recorded
    <3>1. shown' = shown
      BY <1>8 DEF WritePatch
    <3>2. \A c \in DOMAIN shelves' : shelves'[c].mask \subseteq UsedBits \cup Recorded
      BY <2>k, <2>s DEF UsedBits
    <3>3. QED
      BY <3>1, <3>2 DEF UsedBits
  <2>1. CallsTyped'
    BY <1>8, <1>t, <1>w DEF WritePatch, Wrote, Ends, CallsTyped, Table
  <2>2. RolesTyped'
    BY <1>8, <1>t, <1>b DEF WritePatch, Wrote, Ends, RolesTyped, Known
  <2>3. ShelvesTyped'
    BY <1>8, <1>t, <2>k, <2>s DEF WritePatch, ShelvesTyped
  <2>4. MasksRecorded' /\ DefaultHoldsAll'
    <3>1. allocated' = allocated /\ shown' = shown
      BY <1>8 DEF WritePatch
    <3>2. \A d \in DOMAIN shelves' : shelves'[d].mask \subseteq Recorded
      BY <1>m, <2>k, <2>s DEF MasksRecorded
    <3>3. QED
      BY <1>m, <3>1, <3>2 DEF MasksRecorded, DefaultHoldsAll, Recorded
  <2>5. reorderMask' \subseteq Known' /\ lost' = {}
    BY <1>8, <1>k DEF WritePatch, Wrote, Ends, Known
  <2>6. CallSound(r)'
    BY <1>8, <1>t, Resting DEF WritePatch, Wrote, Ends, CallsTyped, Blank
  <2>7. ASSUME NEW q \in VisRequest, q # r PROVE CallSound(q)'
    <3>1. call'[q] = call[q]
      BY <2>7, <1>8, <1>t DEF WritePatch, Wrote, Ends, CallsTyped
    <3>2. (shelves' = shelves /\ shown' = shown /\ moved' = moved) \/ call[q].at \in {"idle", "done"} \/ moved'[q] # {}
      BY <2>7, <1>8, <1>t DEF WritePatch, Wrote, Ends, UnderWay, CallsTyped
    <3>3. UsedBits' \subseteq UsedBits \cup Recorded'
      BY <1>8, <2>u DEF WritePatch, Wrote, Ends, UsedBits, Recorded
    <3>9. QED
      BY <2>7, <1>8, <1>b, <1>c, <1>s, <3>1, <3>2, <3>3, OtherCall DEF WritePatch, AuthFree
  <2>9. QED
    BY <2>1, <2>2, <2>3, <2>4, <2>5, <2>6, <2>7 DEF VisInv, VisTyped
<1>9. ASSUME NEW r \in VisRequest, ReserveBits(r) PROVE VisInv'
  <2>1. CallsTyped'
    <3>1. UsedBits \subseteq Bit
      BY <1>t DEF UsedBits, ShelvesTyped, ShelfRow
    <3>2. [call[r] EXCEPT !.at = "write", !.mask = UsedBits] \in CallType
      BY <1>y, <3>1, ZenonT(40) DEF CallType, CallPlace
    <3>3. call' = [call EXCEPT ![r] = [call[r] EXCEPT !.at = "write", !.mask = UsedBits]]
      BY <1>9, <1>t DEF ReserveBits, CallsTyped
    <3>4. QED
      BY <1>9, <1>t, <3>2, <3>3 DEF ReserveBits, CallsTyped
  <2>2. RolesTyped'
    BY <1>9, <1>t, <1>b DEF ReserveBits, RolesTyped, Known
  <2>3. ShelvesTyped'
    BY <1>9, <1>t, <1>y DEF ReserveBits, ShelvesTyped
  <2>4. MasksRecorded' /\ DefaultHoldsAll'
    BY <1>9, <1>t, <1>m DEF ReserveBits, MasksRecorded, DefaultHoldsAll, Recorded
  <2>5. reorderMask' \subseteq Known' /\ lost' = {}
    BY <1>9, <1>k DEF ReserveBits, Known
  <2>6. CallSound(r)'
    <3>1. call'[r].at = "write" /\ call'[r].op = "role" /\ call'[r].mask = UsedBits
      BY <1>9, <1>t, <1>y DEF ReserveBits, CallsTyped, CallType
    <3>2. UsedBits' = UsedBits
      BY <1>9 DEF ReserveBits, UsedBits
    <3>3. QED
      BY <3>1, <3>2 DEF CallSound, ChangeSound, PatchSound, ServeSound, ChangeOp
  <2>7. ASSUME NEW q \in VisRequest, q # r PROVE CallSound(q)'
    <3>1. call'[q] = call[q]
      BY <2>7, <1>9, <1>t DEF ReserveBits, CallsTyped
    <3>2. moved'[q] = moved[q]
      BY <2>7, <1>9, <1>t DEF ReserveBits, CallsTyped
    <3>3. UsedBits' \subseteq UsedBits \cup Recorded'
      BY <1>9 DEF ReserveBits, UsedBits, Recorded
    <3>9. QED
      BY <2>7, <1>9, <1>b, <1>c, <1>s, <3>1, <3>2, <3>3, OtherCall DEF ReserveBits, AuthFree
  <2>9. QED
    BY <2>1, <2>2, <2>3, <2>4, <2>5, <2>6, <2>7 DEF VisInv, VisTyped
<1>10. ASSUME NEW r \in VisRequest, CreateRole(r) PROVE VisInv'
  <2>1. CallsTyped'
    BY <1>10, <1>t, <1>w DEF CreateRole, Wrote, Ends, CallsTyped, Table
  <2>2. RolesTyped'
    BY <1>10, <1>t, <1>b DEF CreateRole, Wrote, Ends, RolesTyped, Known
  <2>3. ShelvesTyped'
    BY <1>10, <1>t, <1>y DEF CreateRole, Wrote, Ends, ShelvesTyped
  <2>4. MasksRecorded' /\ DefaultHoldsAll'
    BY <1>10, <1>t, <1>m DEF CreateRole, Wrote, Ends, MasksRecorded, DefaultHoldsAll, Recorded
  <2>5. reorderMask' \subseteq Known' /\ lost' = {}
    BY <1>10, <1>k DEF CreateRole, Wrote, Ends, Known
  <2>6. CallSound(r)'
    BY <1>10, <1>t, Resting DEF CreateRole, Wrote, Ends, CallsTyped, Blank
  <2>7. ASSUME NEW q \in VisRequest, q # r PROVE CallSound(q)'
    <3>1. call'[q] = call[q]
      BY <2>7, <1>10, <1>t DEF CreateRole, Wrote, Ends, CallsTyped
    <3>2. (moved' = moved /\ UNCHANGED <<roleBits, enabled>>) \/ call[q].at \in {"idle", "done"} \/ moved'[q] # {}
      BY <2>7, <1>10, <1>t DEF CreateRole, Wrote, Ends, UnderWay, CallsTyped
    <3>3. UsedBits' \subseteq UsedBits \cup Recorded'
      BY <1>10 DEF CreateRole, Wrote, Ends, UsedBits, Recorded
    <3>9. QED
      BY <2>7, <1>10, <1>b, <1>c, <1>s, <3>1, <3>2, <3>3, OtherCall DEF CreateRole, AuthFree
  <2>9. QED
    BY <2>1, <2>2, <2>3, <2>4, <2>5, <2>6, <2>7 DEF VisInv, VisTyped
<1>11. ASSUME NEW r \in VisRequest, ReadSettings(r) PROVE VisInv'
  <2>1. CallsTyped'
    <3>1. PICK asked \in SUBSET {"mask"}, m \in {{RoleUser}, {4}} :
            call' = [call EXCEPT ![r] = [call[r] EXCEPT !.at = "write", !.asked = asked, !.seen = reorderMask,
                                             !.mask = IF asked = {} THEN {} ELSE m]]
      BY <1>11, <1>t DEF ReadSettings, CallsTyped
    <3>2. reorderMask \subseteq Bit
      BY <1>k, <1>t, <1>b
         DEF Known, RolesTyped, Privileged, RoleGuest, RoleUser, RoleAdmin, RoleOwner
    <3>3. m \subseteq Bit
      BY VisibilityAssumption DEF Bit, RoleUser
    <3>4. [call[r] EXCEPT !.at = "write", !.asked = asked, !.seen = reorderMask,
                          !.mask = IF asked = {} THEN {} ELSE m] \in CallType
      BY <1>y, <3>2, <3>3, ZenonT(40) DEF CallType, CallPlace
    <3>5. QED
      BY <1>11, <1>t, <3>1, <3>4 DEF ReadSettings, CallsTyped
  <2>2. RolesTyped'
    BY <1>11, <1>t, <1>b DEF ReadSettings, RolesTyped, Known
  <2>3. ShelvesTyped'
    BY <1>11, <1>t, <1>y DEF ReadSettings, ShelvesTyped
  <2>4. MasksRecorded' /\ DefaultHoldsAll'
    BY <1>11, <1>t, <1>m DEF ReadSettings, MasksRecorded, DefaultHoldsAll, Recorded
  <2>5. reorderMask' \subseteq Known' /\ lost' = {}
    BY <1>11, <1>k DEF ReadSettings, Known
  <2>6. CallSound(r)'
    <3>1. call'[r].at = "write" /\ call'[r].op = "settings" /\ call'[r].seen = reorderMask
      BY <1>11, <1>t, <1>y DEF ReadSettings, CallsTyped, CallType
    <3>2. authLock' = r /\ reorderMask' = reorderMask
      BY <1>11 DEF ReadSettings
    <3>3. QED
      BY <3>1, <3>2 DEF CallSound, ChangeSound, PatchSound, ServeSound, ChangeOp
  <2>7. ASSUME NEW q \in VisRequest, q # r PROVE CallSound(q)'
    <3>1. call'[q] = call[q]
      BY <2>7, <1>11, <1>t DEF ReadSettings, CallsTyped
    <3>2. moved'[q] = moved[q]
      BY <2>7, <1>11, <1>t DEF ReadSettings, CallsTyped
    <3>3. UsedBits' \subseteq UsedBits \cup Recorded'
      BY <1>11 DEF ReadSettings, UsedBits, Recorded
    <3>9. QED
      BY <2>7, <1>11, <1>b, <1>c, <1>s, <3>1, <3>2, <3>3, OtherCall DEF ReadSettings, AuthFree
  <2>9. QED
    BY <2>1, <2>2, <2>3, <2>4, <2>5, <2>6, <2>7 DEF VisInv, VisTyped
<1>12. ASSUME NEW r \in VisRequest, WriteSettings(r) PROVE VisInv'
  <2>1. CallsTyped'
    BY <1>12, <1>t, <1>w DEF WriteSettings, Ends, CallsTyped, Table
  <2>2. RolesTyped'
    BY <1>12, <1>t, <1>b DEF WriteSettings, Ends, RolesTyped, Known
  <2>3. ShelvesTyped'
    BY <1>12, <1>t, <1>y DEF WriteSettings, Ends, ShelvesTyped
  <2>4. MasksRecorded' /\ DefaultHoldsAll'
    BY <1>12, <1>t, <1>m DEF WriteSettings, Ends, MasksRecorded, DefaultHoldsAll, Recorded
  <2>5. reorderMask' \subseteq Known' /\ lost' = {}
    BY <1>12, <1>k, <1>c DEF WriteSettings, Ends, Known, Grantable, CallSound
  <2>6. CallSound(r)'
    BY <1>12, <1>t, Resting DEF WriteSettings, Ends, CallsTyped, Blank
  <2>7. ASSUME NEW q \in VisRequest, q # r PROVE CallSound(q)'
    <3>1. call'[q] = call[q]
      BY <2>7, <1>12, <1>t DEF WriteSettings, Ends, CallsTyped
    <3>2. moved'[q] = moved[q]
      BY <2>7, <1>12, <1>t DEF WriteSettings, Ends, CallsTyped
    <3>3. UsedBits' \subseteq UsedBits \cup Recorded'
      BY <1>12 DEF WriteSettings, Ends, UsedBits, Recorded
    <3>9. QED
      BY <2>7, <1>12, <1>b, <1>c, <1>s, <3>1, <3>2, <3>3, OtherCall DEF WriteSettings, AuthFree
  <2>9. QED
    BY <2>1, <2>2, <2>3, <2>4, <2>5, <2>6, <2>7 DEF VisInv, VisTyped
<1>13. ASSUME NEW r \in VisRequest, ReadIssuer(r) PROVE VisInv'
  <2>p. \/ Ends(r)
        \/ \E t \in mediaTokens :
            /\ IssuerBits(t) # {}
            /\ call' = [call EXCEPT ![r] = [call[r] EXCEPT !.at = "write", !.who = t.person, !.item = t.item,
                                                           !.bits = IssuerBits(t)]]
    BY <1>13, <1>t DEF ReadIssuer, CallsTyped
  <2>1. CallsTyped'
    <3>1. ASSUME NEW t \in mediaTokens
          PROVE  [call[r] EXCEPT !.at = "write", !.who = t.person, !.item = t.item,
                                 !.bits = IssuerBits(t)] \in CallType
      <4>1. t.person \in Person /\ t.item \in Item
        BY <1>t DEF CallsTyped, Token
      <4>2. IssuerBits(t) \in SUBSET Bit
        BY <1>t, <4>1 DEF IssuerBits, RolesTyped
      <4>3. QED
        BY <1>y, <4>1, <4>2, ZenonT(40) DEF CallType, CallPlace
    <3>2. call' \in [VisRequest -> CallType]
      BY <1>t, <1>w, <2>p, <3>1 DEF CallsTyped, Ends
    <3>3. QED
      BY <1>13, <1>t, <3>2 DEF ReadIssuer, CallsTyped
  <2>2. RolesTyped'
    BY <1>13, <1>t, <1>b DEF ReadIssuer, Ends, RolesTyped, Known
  <2>3. ShelvesTyped'
    BY <1>13, <1>t, <1>y DEF ReadIssuer, Ends, ShelvesTyped
  <2>4. MasksRecorded' /\ DefaultHoldsAll'
    BY <1>13, <1>t, <1>m DEF ReadIssuer, Ends, MasksRecorded, DefaultHoldsAll, Recorded
  <2>5. reorderMask' \subseteq Known' /\ lost' = {}
    BY <1>13, <1>k DEF ReadIssuer, Ends, Known
  <2>6. CallSound(r)'
    <3>1. CASE Ends(r)
      BY <1>t, <3>1, Resting DEF Ends, Blank, CallsTyped
    <3>2. CASE ~Ends(r)
      <4>1. PICK t \in mediaTokens :
              /\ IssuerBits(t) # {}
              /\ call'[r].at = "write" /\ call'[r].op = "serve" /\ call'[r].who = t.person
              /\ call'[r].bits = IssuerBits(t)
        <5>1. PICK t \in mediaTokens :
                /\ IssuerBits(t) # {}
                /\ call' = [call EXCEPT ![r] = [call[r] EXCEPT !.at = "write", !.who = t.person, !.item = t.item,
                                                               !.bits = IssuerBits(t)]]
          BY <2>p, <3>2
        <5>2. call[r].op = "serve"
          BY <1>13 DEF ReadIssuer
        <5>3. QED
          BY <1>t, <1>y, <5>1, <5>2 DEF CallsTyped, CallType
      <4>2. t.person \in enabled /\ IssuerBits(t) = roleBits[t.person]
        BY <4>1 DEF IssuerBits
      <4>3. enabled' = enabled /\ roleBits' = roleBits
        BY <1>13 DEF ReadIssuer
      <4>4. QED
        BY <4>1, <4>2, <4>3 DEF CallSound, ChangeSound, PatchSound, ServeSound, ChangeOp
    <3>3. QED
      BY <3>1, <3>2
  <2>7. ASSUME NEW q \in VisRequest, q # r PROVE CallSound(q)'
    <3>1. call'[q] = call[q]
      BY <2>7, <1>13, <1>t DEF ReadIssuer, Ends, CallsTyped
    <3>2. moved'[q] = moved[q]
      BY <2>7, <1>13, <1>t DEF ReadIssuer, Ends, CallsTyped
    <3>3. UsedBits' \subseteq UsedBits \cup Recorded'
      <4>1. shown' = shown /\ shelves' = shelves
        BY <1>13 DEF ReadIssuer
      <4>2. QED
        BY <4>1 DEF UsedBits
    <3>9. QED
      BY <2>7, <1>13, <1>b, <1>c, <1>s, <3>1, <3>2, <3>3, OtherCall DEF ReadIssuer, AuthFree
  <2>9. QED
    BY <2>1, <2>2, <2>3, <2>4, <2>5, <2>6, <2>7 DEF VisInv, VisTyped
<1>14. ASSUME NEW r \in VisRequest, Serve(r) PROVE VisInv'
  <2>1. CallsTyped'
    <3>1. [call[r] EXCEPT !.at = "served"] \in CallType
      BY <1>y DEF CallType, CallPlace
    <3>2. call' \in [VisRequest -> CallType]
      BY <1>14, <1>t, <1>w, <3>1 DEF Serve, CallGoes, Ends, CallsTyped
    <3>3. QED
      BY <1>14, <1>t, <3>2 DEF Serve, CallsTyped
  <2>2. RolesTyped'
    BY <1>14, <1>t, <1>b DEF Serve, Ends, CallGoes, RolesTyped, Known
  <2>3. ShelvesTyped'
    BY <1>14, <1>t, <1>y DEF Serve, Ends, CallGoes, ShelvesTyped
  <2>4. MasksRecorded' /\ DefaultHoldsAll'
    BY <1>14, <1>t, <1>m DEF Serve, Ends, CallGoes, MasksRecorded, DefaultHoldsAll, Recorded
  <2>5. reorderMask' \subseteq Known' /\ lost' = {}
    BY <1>14, <1>k DEF Serve, Ends, CallGoes, Known
  <2>6. CallSound(r)'
    <3>1. CASE ~Sees(shown, call[r].item, call[r].bits)
      BY <1>14, <1>t, <3>1, Resting DEF Serve, Ends, Blank, CallsTyped
    <3>2. CASE Sees(shown, call[r].item, call[r].bits)
      <4>1. /\ call[r].at = "write" /\ call[r].op = "serve"
            /\ call'[r].at = "served" /\ call'[r].op = "serve" /\ call'[r].who = call[r].who
            /\ call'[r].item = call[r].item /\ call'[r].bits = call[r].bits
        BY <1>14, <1>t, <1>y, <3>2 DEF Serve, CallGoes, CallsTyped, CallType
      <4>2. enabled' = enabled /\ roleBits' = roleBits /\ moved' = moved /\ shown' = shown
        BY <1>14 DEF Serve
      <4>3. ServeSound(r)
        BY <1>c DEF CallSound
      <4>4. ServeSound(r)'
        BY <3>2, <4>1, <4>2, <4>3 DEF ServeSound, Sees, SeesOwn
      <4>5. QED
        BY <4>1, <4>4 DEF CallSound, ChangeSound, PatchSound, ChangeOp
    <3>3. QED
      BY <3>1, <3>2
  <2>7. ASSUME NEW q \in VisRequest, q # r PROVE CallSound(q)'
    <3>1. call'[q] = call[q]
      BY <2>7, <1>14, <1>t DEF Serve, Ends, CallGoes, CallsTyped
    <3>2. moved'[q] = moved[q]
      BY <2>7, <1>14, <1>t DEF Serve, Ends, CallGoes, CallsTyped
    <3>3. UsedBits' \subseteq UsedBits \cup Recorded'
      BY <1>14 DEF Serve, Ends, CallGoes, UsedBits, Recorded
    <3>9. QED
      BY <2>7, <1>14, <1>b, <1>c, <1>s, <3>1, <3>2, <3>3, OtherCall DEF Serve, AuthFree
  <2>9. QED
    BY <2>1, <2>2, <2>3, <2>4, <2>5, <2>6, <2>7 DEF VisInv, VisTyped
<1>15. ASSUME NEW p \in Person, SetPersonStatus(p) PROVE VisInv'
  <2>1. CallsTyped'
    BY <1>15, <1>t DEF SetPersonStatus, Staff, CallsTyped, Table
  <2>2. RolesTyped'
    BY <1>15, <1>t, <1>b DEF SetPersonStatus, Staff, RolesTyped, Known
  <2>3. ShelvesTyped'
    BY <1>15, <1>t, <1>y DEF SetPersonStatus, Staff, ShelvesTyped
  <2>4. MasksRecorded' /\ DefaultHoldsAll'
    BY <1>15, <1>t, <1>m DEF SetPersonStatus, Staff, MasksRecorded, DefaultHoldsAll, Recorded
  <2>5. reorderMask' \subseteq Known' /\ lost' = {}
    BY <1>15, <1>k DEF SetPersonStatus, Staff, Known
  <2>6. ASSUME NEW q \in VisRequest PROVE CallSound(q)'
    <3>1. call'[q] = call[q]
      BY <1>15, <1>t DEF SetPersonStatus, Staff, CallsTyped
    <3>2. call[q].at \in {"idle", "done"} \/ moved'[q] # {}
      BY <1>15, <1>t DEF SetPersonStatus, Staff, UnderWay, CallsTyped
    <3>3. UsedBits' \subseteq UsedBits \cup Recorded'
      BY <1>15 DEF SetPersonStatus, Staff, UsedBits, Recorded
    <3>9. QED
      BY <1>15, <1>b, <1>c, <1>s, <3>1, <3>2, <3>3, OtherCall DEF SetPersonStatus, AuthFree, Staff
  <2>9. QED
    BY <2>1, <2>2, <2>3, <2>4, <2>5, <2>6 DEF VisInv, VisTyped
<1>16. ASSUME NEW p \in Person, NEW bit \in CustomBit, AssignRole(p, bit) PROVE VisInv'
  <2>1. CallsTyped'
    BY <1>16, <1>t DEF AssignRole, Staff, CallsTyped, Table
  <2>2. RolesTyped'
    BY <1>16, <1>t, <1>b DEF AssignRole, Staff, RolesTyped, Known
  <2>3. ShelvesTyped'
    BY <1>16, <1>t, <1>y DEF AssignRole, Staff, ShelvesTyped
  <2>4. MasksRecorded' /\ DefaultHoldsAll'
    BY <1>16, <1>t, <1>m DEF AssignRole, Staff, MasksRecorded, DefaultHoldsAll, Recorded
  <2>5. reorderMask' \subseteq Known' /\ lost' = {}
    BY <1>16, <1>k DEF AssignRole, Staff, Known
  <2>6. ASSUME NEW q \in VisRequest PROVE CallSound(q)'
    <3>1. call'[q] = call[q]
      BY <1>16, <1>t DEF AssignRole, Staff, CallsTyped
    <3>2. call[q].at \in {"idle", "done"} \/ moved'[q] # {}
      BY <1>16, <1>t DEF AssignRole, Staff, UnderWay, CallsTyped
    <3>3. UsedBits' \subseteq UsedBits \cup Recorded'
      BY <1>16 DEF AssignRole, Staff, UsedBits, Recorded
    <3>9. QED
      BY <1>16, <1>b, <1>c, <1>s, <3>1, <3>2, <3>3, OtherCall DEF AssignRole, AuthFree, Staff
  <2>9. QED
    BY <2>1, <2>2, <2>3, <2>4, <2>5, <2>6 DEF VisInv, VisTyped
<1>17. ASSUME NEW p \in Person, NEW bit \in CustomBit, RemoveRole(p, bit) PROVE VisInv'
  <2>1. CallsTyped'
    BY <1>17, <1>t DEF RemoveRole, Staff, CallsTyped, Table
  <2>2. RolesTyped'
    BY <1>17, <1>t, <1>b DEF RemoveRole, Staff, RolesTyped, Known
  <2>3. ShelvesTyped'
    BY <1>17, <1>t, <1>y DEF RemoveRole, Staff, ShelvesTyped
  <2>4. MasksRecorded' /\ DefaultHoldsAll'
    BY <1>17, <1>t, <1>m DEF RemoveRole, Staff, MasksRecorded, DefaultHoldsAll, Recorded
  <2>5. reorderMask' \subseteq Known' /\ lost' = {}
    BY <1>17, <1>k DEF RemoveRole, Staff, Known
  <2>6. ASSUME NEW q \in VisRequest PROVE CallSound(q)'
    <3>1. call'[q] = call[q]
      BY <1>17, <1>t DEF RemoveRole, Staff, CallsTyped
    <3>2. call[q].at \in {"idle", "done"} \/ moved'[q] # {}
      BY <1>17, <1>t DEF RemoveRole, Staff, UnderWay, CallsTyped
    <3>3. UsedBits' \subseteq UsedBits \cup Recorded'
      BY <1>17 DEF RemoveRole, Staff, UsedBits, Recorded
    <3>9. QED
      BY <1>17, <1>b, <1>c, <1>s, <3>1, <3>2, <3>3, OtherCall DEF RemoveRole, AuthFree, Staff
  <2>9. QED
    BY <2>1, <2>2, <2>3, <2>4, <2>5, <2>6 DEF VisInv, VisTyped
<1>18. ASSUME NEW p \in Person, NEW i \in Item, IssueToken(p, i) PROVE VisInv'
  <2>1. CallsTyped'
    <3>1. [person |-> p, item |-> i, bits |-> roleBits[p]] \in Token
      BY <1>t DEF RolesTyped, Token
    <3>2. QED
      BY <1>18, <1>t, <3>1 DEF IssueToken, CallsTyped
  <2>2. RolesTyped'
    BY <1>18, <1>t, <1>b DEF IssueToken, RolesTyped, Known
  <2>3. ShelvesTyped'
    BY <1>18, <1>t, <1>y DEF IssueToken, ShelvesTyped
  <2>4. MasksRecorded' /\ DefaultHoldsAll'
    BY <1>18, <1>t, <1>m DEF IssueToken, MasksRecorded, DefaultHoldsAll, Recorded
  <2>5. reorderMask' \subseteq Known' /\ lost' = {}
    BY <1>18, <1>k DEF IssueToken, Known
  <2>6. ASSUME NEW q \in VisRequest PROVE CallSound(q)'
    <3>1. call'[q] = call[q]
      BY <1>18, <1>t DEF IssueToken, CallsTyped
    <3>2. moved'[q] = moved[q]
      BY <1>18, <1>t DEF IssueToken, CallsTyped
    <3>3. UsedBits' \subseteq UsedBits \cup Recorded'
      BY <1>18 DEF IssueToken, UsedBits, Recorded
    <3>9. QED
      BY <1>18, <1>b, <1>c, <1>s, <3>1, <3>2, <3>3, OtherCall DEF IssueToken, AuthFree
  <2>9. QED
    BY <2>1, <2>2, <2>3, <2>4, <2>5, <2>6 DEF VisInv, VisTyped
<1>19. ASSUME NEW bit \in liveRoles, DeleteCustomRole(bit) PROVE VisInv'
  <2>1. CallsTyped'
    BY <1>19, <1>t DEF DeleteCustomRole, Staff, CallsTyped, Table
  <2>2. RolesTyped'
    BY <1>19, <1>t, <1>b DEF DeleteCustomRole, Staff, RolesTyped, Known
  <2>3. ShelvesTyped'
    BY <1>19, <1>t, <1>y DEF DeleteCustomRole, Staff, ShelvesTyped
  <2>4. MasksRecorded' /\ DefaultHoldsAll'
    BY <1>19, <1>t, <1>m DEF DeleteCustomRole, Staff, MasksRecorded, DefaultHoldsAll, Recorded
  <2>5. reorderMask' \subseteq Known' /\ lost' = {}
    BY <1>19, <1>k DEF DeleteCustomRole, Staff, Known
  <2>6. ASSUME NEW q \in VisRequest PROVE CallSound(q)'
    <3>1. call'[q] = call[q]
      BY <1>19, <1>t DEF DeleteCustomRole, Staff, CallsTyped
    <3>2. call[q].at \in {"idle", "done"} \/ moved'[q] # {}
      BY <1>19, <1>t DEF DeleteCustomRole, Staff, UnderWay, CallsTyped
    <3>3. UsedBits' \subseteq UsedBits \cup Recorded'
      BY <1>19 DEF DeleteCustomRole, Staff, UsedBits, Recorded
    <3>9. QED
      BY <1>19, <1>b, <1>c, <1>s, <3>1, <3>2, <3>3, OtherCall DEF DeleteCustomRole, AuthFree, Staff
  <2>9. QED
    BY <2>1, <2>2, <2>3, <2>4, <2>5, <2>6 DEF VisInv, VisTyped
<1>20. ASSUME NEW t \in mediaTokens, ExpireToken(t) PROVE VisInv'
  <2>1. CallsTyped'
    BY <1>20, <1>t DEF ExpireToken, CallsTyped, Table
  <2>2. RolesTyped'
    BY <1>20, <1>t, <1>b DEF ExpireToken, RolesTyped, Known
  <2>3. ShelvesTyped'
    BY <1>20, <1>t, <1>y DEF ExpireToken, ShelvesTyped
  <2>4. MasksRecorded' /\ DefaultHoldsAll'
    BY <1>20, <1>t, <1>m DEF ExpireToken, MasksRecorded, DefaultHoldsAll, Recorded
  <2>5. reorderMask' \subseteq Known' /\ lost' = {}
    BY <1>20, <1>k DEF ExpireToken, Known
  <2>6. ASSUME NEW q \in VisRequest PROVE CallSound(q)'
    <3>1. call'[q] = call[q]
      BY <1>20, <1>t DEF ExpireToken, CallsTyped
    <3>2. moved'[q] = moved[q]
      BY <1>20, <1>t DEF ExpireToken, CallsTyped
    <3>3. UsedBits' \subseteq UsedBits \cup Recorded'
      BY <1>20 DEF ExpireToken, UsedBits, Recorded
    <3>9. QED
      BY <1>20, <1>b, <1>c, <1>s, <3>1, <3>2, <3>3, OtherCall DEF ExpireToken, AuthFree
  <2>9. QED
    BY <2>1, <2>2, <2>3, <2>4, <2>5, <2>6 DEF VisInv, VisTyped
<1>21. QED
  BY <1>0, <1>1, <1>2, <1>3, <1>4, <1>5, <1>6, <1>7, <1>8, <1>9, <1>10, <1>11, <1>12, <1>13,
     <1>14, <1>15, <1>16, <1>17, <1>18, <1>19, <1>20
     DEF VisNext

(* The invariant holds of every behaviour.                                   *)
LEMMA Visible == VisSpec => []VisInv
<1>1. VisInit => VisInv
  BY VisInvInit
<1>2. VisInv /\ [VisNext]_visVars => VisInv'
  BY VisInvNext
<1>3. QED
  BY <1>1, <1>2, PTL DEF VisSpec

----------------------------------------------------------------------------
(* No change of memberships hides an entry from the user who makes it        *)
(* (apply_without_self_lockout), whatever other requests and role changes    *)
(* come before its reads or after its write.                                 *)
THEOREM NobodyIsLockedOut == VisSpec => []NobodyLocksThemselvesOut
<1>1. VisInv => NobodyLocksThemselvesOut
  BY DEF VisInv, NobodyLocksThemselvesOut
<1>2. QED
  BY <1>1, Visible, PTL

(* The invariant implies the type invariant.                                 *)
LEMMA VisibilityTypesHold == VisInv => VisTypeOK
  BY DEF VisInv, VisTyped, RolesTyped, ShelvesTyped, CallsTyped, CallType, VisTypeOK

(* The listings and the search show exactly what the gate of the requests    *)
(* by uid lets through.                                                      *)
LEMMA UsersSeeTheirLists ==
    ASSUME VisInv, NEW bits
    PROVE  ListedToUser(bits) = {i \in Item : Sees(shown, i, bits)}
<1>s. \A x \in DOMAIN shown : x \in (DOMAIN shelves) \X Item
  BY DEF VisInv, VisTyped, ShelvesTyped
<1>c. DOMAIN shelves \subseteq Shelf /\ DefaultShelf \in DOMAIN shelves
  BY DEF VisInv, VisTyped, ShelvesTyped
<1>n. \A c \in Shelf : <<c, NoItem>> \notin DOMAIN shown
  BY <1>s, VisibilityAssumption
<1>d. \A c \in DOMAIN shelves : FoundIn(c, bits) \subseteq ListedToUser(bits)
  <2> SUFFICES ASSUME NEW c \in DOMAIN shelves PROVE FoundIn(c, bits) \subseteq ListedToUser(bits)
    OBVIOUS
  <2> DEFINE S == ListedIn(c, bits) \cup FoundIn(c, bits)
  <2>1. S \in {ListedIn(d, bits) \cup FoundIn(d, bits) : d \in DOMAIN shelves}
    OBVIOUS
  <2>2. QED
    BY <2>1 DEF ListedToUser
<1>1. ASSUME NEW i \in ListedToUser(bits) PROVE i \in Item /\ Sees(shown, i, bits)
  <2>1. CASE \E c \in DOMAIN shelves : i \in ListedIn(c, bits) \cup FoundIn(c, bits)
    BY <1>c, <2>1 DEF ListedIn, FoundIn, Member, Sees, SeesOwn
  <2>2. CASE \E p \in Item : i \in ChildrenListed(p, bits)
    BY <2>2 DEF ChildrenListed, Sees
  <2>3. QED
    BY <2>1, <2>2 DEF ListedToUser
<1>2. ASSUME NEW i \in Item, Sees(shown, i, bits) PROVE i \in ListedToUser(bits)
  <2>1. CASE bits \cap Privileged # {}
    <3>1. <<DefaultShelf, i>> \in DOMAIN shown
      BY DEF VisInv, DefaultHoldsAll
    <3>2. i \in FoundIn(DefaultShelf, bits)
      BY <2>1, <3>1 DEF FoundIn, Member
    <3>3. QED
      BY <1>c, <1>d, <3>2
  <2>2. CASE SeesOwn(shown, i, bits)
    <3>1. PICK c \in Shelf : <<c, i>> \in DOMAIN shown /\ shown[<<c, i>>] \cap bits # {}
      BY <2>2 DEF SeesOwn
    <3>2. c \in DOMAIN shelves /\ i \in FoundIn(c, bits)
      BY <1>s, <3>1 DEF FoundIn, Member
    <3>3. QED
      BY <1>d, <3>2
  <2>3. CASE SeesOwn(shown, ParentItem[i], bits)
    <3>1. ParentItem[i] \in Item
      BY <1>n, <2>3, VisibilityAssumption DEF SeesOwn
    <3>2. i \in ChildrenListed(ParentItem[i], bits)
      BY <2>3 DEF ChildrenListed
    <3>3. QED
      BY <3>1, <3>2 DEF ListedToUser
  <2>4. QED
    BY <1>2, <2>1, <2>2, <2>3 DEF Sees
<1>3. QED
  BY <1>1, <1>2

(* A guest can open what a guest is shown.                                   *)
LEMMA GuestsOpenTheirLists ==
    ASSUME VisInv, NEW i \in ListedToGuest
    PROVE  IsPublic(i)
<1>n. \A c \in DOMAIN shelves : <<c, NoItem>> \notin DOMAIN shown
  BY VisibilityAssumption DEF VisInv, VisTyped, ShelvesTyped
<1>g. {RoleGuest} \cap Privileged = {}
  BY DEF RoleGuest, Privileged, RoleAdmin, RoleOwner
<1>1. CASE \E c \in DOMAIN shelves : ~shelves[c].login /\ i \in FoundIn(c, {RoleGuest})
  BY <1>1, <1>g DEF FoundIn, Member, IsPublic
<1>2. CASE \E p \in Item : IsPublic(p) /\ i \in ChildrenListed(p, {RoleGuest})
  <2>1. PICK p \in Item : IsPublic(p) /\ i \in Item /\ ParentItem[i] = p
    BY <1>2 DEF ChildrenListed
  <2>2. ParentItem[p] = NoItem
    BY <2>1, VisibilityAssumption
  <2>3. QED
    BY <1>n, <2>1, <2>2 DEF IsPublic
<1>3. QED
  BY <1>1, <1>2 DEF ListedToGuest

(* What can be opened is what is listed, for users, for guests and for the   *)
(* tokens of media players.                                                  *)
THEOREM OpeningAgreesWithLists == VisSpec => []OpenedIsWhatIsListed
<1>1. VisInv => OpenedIsWhatIsListed
  <2> SUFFICES ASSUME VisInv PROVE OpenedIsWhatIsListed
    OBVIOUS
  <2>1. ListedIsReachable
    BY UsersSeeTheirLists, GuestsOpenTheirLists DEF ListedIsReachable
  <2>2. TokenFollowsItsIssuer
    BY DEF VisInv, CallSound, ServeSound, TokenFollowsItsIssuer
  <2>3. QED
    BY <2>1, <2>2 DEF OpenedIsWhatIsListed
<1>2. QED
  BY <1>1, Visible, PTL

----------------------------------------------------------------------------
(* A request that is about to write settings or a collection moves only      *)
(* when it writes.                                                           *)
LEMMA OneCallMoves ==
    ASSUME VisInv, VisNext, NEW r \in VisRequest, call'[r] # call[r], call[r].at = "write"
    PROVE  /\ call[r].op = "settings" => WriteSettings(r)
           /\ call[r].op = "patch" => WritePatch(r)
<1>t. call \in [VisRequest -> CallType]
  BY DEF VisInv, VisTyped, CallsTyped
<1>1. PICK q \in VisRequest : \/ Begin(q) \/ LookAtChange(q) \/ SeeBefore(q) \/ WriteChange(q)
                              \/ LookAtCreate(q) \/ WriteCreate(q)
                              \/ LookAtPatch(q) \/ WritePatch(q) \/ ReserveBits(q) \/ CreateRole(q)
                              \/ ReadSettings(q) \/ WriteSettings(q) \/ ReadIssuer(q) \/ Serve(q)
  BY
     DEF VisNext, SetPersonStatus, AssignRole, RemoveRole, IssueToken, DeleteCustomRole,
         ExpireToken, Staff
<1>2. q = r
  <2> SUFFICES ASSUME q # r PROVE FALSE
    OBVIOUS
  <2>1. CASE Begin(q) \/ LookAtChange(q)
    BY <1>t, <2>1 DEF Begin, LookAtChange, Ends
  <2>2. CASE SeeBefore(q) \/ WriteChange(q) \/ LookAtCreate(q) \/ WriteCreate(q)
    BY <1>t, <2>2 DEF SeeBefore, WriteChange, LookAtCreate, WriteCreate, Ends
  <2>3. CASE LookAtPatch(q) \/ WritePatch(q) \/ ReserveBits(q) \/ CreateRole(q)
    BY <1>t, <2>3 DEF LookAtPatch, WritePatch, ReserveBits, CreateRole, Ends
  <2>4. CASE ReadSettings(q) \/ WriteSettings(q) \/ ReadIssuer(q) \/ Serve(q)
    BY <1>t, <2>4 DEF ReadSettings, WriteSettings, ReadIssuer, Serve, CallGoes, Ends
  <2>5. QED
    BY <1>1, <2>1, <2>2, <2>3, <2>4
<1>3. ~(Begin(q) \/ LookAtChange(q) \/ SeeBefore(q) \/ LookAtCreate(q) \/ LookAtPatch(q)
        \/ ReserveBits(q) \/ ReadSettings(q) \/ ReadIssuer(q))
  BY <1>2
     DEF Begin, LookAtChange, SeeBefore, LookAtCreate, LookAtPatch, ReserveBits, ReadSettings,
         ReadIssuer
<1>4. call[r].op \in {"settings", "patch"} => ~(WriteChange(q) \/ WriteCreate(q) \/ CreateRole(q) \/ Serve(q))
  BY <1>2 DEF WriteChange, WriteCreate, CreateRole, Serve, ChangeOp
<1>5. /\ WriteSettings(q) => call[q].op = "settings"
      /\ WritePatch(q) => call[q].op = "patch"
  BY DEF WriteSettings, WritePatch
<1>6. QED
  BY <1>1, <1>2, <1>3, <1>4, <1>5

(* No step gives a new role a bit that some mask holds.                      *)
LEMMA NewRole == VisInv /\ [VisNext]_visVars => [NewRoleStep]_visVars
<1> SUFFICES ASSUME VisInv, VisNext PROVE NewRoleStep
  BY DEF visVars
<1>1. ASSUME NEW r \in VisRequest, CreateRole(r) PROVE NewRoleStep
  <2>1. UsedBits \subseteq call[r].mask \cup Recorded
    BY <1>1 DEF CreateRole, VisInv, CallSound
  <2>2. CASE liveRoles' = liveRoles
    BY <2>2 DEF NewRoleStep
  <2>3. CASE liveRoles' # liveRoles
    <3>1. PICK bit \in CustomBit : AboveAll(call[r], bit) /\ liveRoles' = liveRoles \cup {bit}
      BY <1>1, <2>3 DEF CreateRole
    <3>2. allocated \subseteq CustomBit /\ CustomBit \subseteq Int /\ \A c \in CustomBit : c > 3
      BY VisibilityAssumption DEF VisInv, VisTyped, RolesTyped, CustomBit
    <3>3. bit \notin call[r].mask /\ bit \notin allocated
      BY <3>1, <3>2 DEF AboveAll
    <3>4. bit \notin 0..3
      BY <3>2
    <3>5. QED
      BY <2>1, <3>1, <3>3, <3>4 DEF NewRoleStep, Recorded
  <2>4. QED
    BY <2>2, <2>3
<1>2. CASE \A r \in VisRequest : ~CreateRole(r)
  <2>1. liveRoles' \subseteq liveRoles
    BY <1>2, ZenonT(40)
       DEF VisNext, Begin, LookAtChange, SeeBefore, WriteChange, LookAtCreate, WriteCreate,
           LookAtPatch, WritePatch,
       ReserveBits, ReadSettings, WriteSettings, ReadIssuer, Serve, SetPersonStatus, AssignRole, RemoveRole,
       IssueToken, DeleteCustomRole, ExpireToken, visTables, roleTables
  <2>2. QED
    BY <2>1 DEF NewRoleStep
<1>3. QED
  BY <1>1, <1>2

(* No step but the owner's changes who may reorder.                          *)
LEMMA Reorder == VisInv /\ [VisNext]_visVars => [ReorderStep]_visVars
<1> SUFFICES ASSUME VisInv, VisNext PROVE ReorderStep
  BY DEF visVars
<1>1. reorderMask' \subseteq Known'
  BY VisInvNext DEF VisInv
<1>2. ASSUME NEW r \in VisRequest, call[r].op = "settings", call[r].at = "write", call'[r].at = "done",
             ~(RoleOwner \in call[r].bits /\ "mask" \in call[r].asked)
      PROVE  reorderMask' = reorderMask
  <2>1. WriteSettings(r)
    BY <1>2, OneCallMoves
  <2>2. call[r].seen = reorderMask
    BY <1>2 DEF VisInv, CallSound
  <2>3. QED
    BY <1>2, <2>1, <2>2 DEF WriteSettings, AsksOther
<1>3. QED
  BY <1>1, <1>2 DEF ReorderStep

(* A PATCH leaves the fields that it was not asked to change.                *)
LEMMA Patch == VisInv /\ [VisNext]_visVars => [PatchStep]_visVars
<1> SUFFICES ASSUME VisInv, VisNext PROVE PatchStep
  BY DEF visVars
<1> SUFFICES ASSUME NEW r \in VisRequest, call[r].op = "patch", call[r].at = "write",
                    call'[r].at = "done", moved[r] = {}
             PROVE  /\ "mask" \notin call[r].asked =>
                            shelves'[call[r].shelf].mask = shelves[call[r].shelf].mask
                    /\ "login" \notin call[r].asked =>
                            shelves'[call[r].shelf].login = shelves[call[r].shelf].login
  BY DEF PatchStep
<1>1. WritePatch(r)
  BY OneCallMoves
<1>2. call[r].shelf \in DOMAIN shelves /\ call[r].row = shelves[call[r].shelf]
  BY DEF VisInv, CallSound, PatchSound
<1>3. shelves'[call[r].shelf] = Merged(call[r])
  BY <1>1, <1>2 DEF WritePatch
<1>4. QED
  BY <1>2, <1>3 DEF Merged

(* Who sees what changes by a request for it only: never by a new role       *)
(* (create_custom_role_avoiding), and never by a field that was not asked    *)
(* for (update_collection, update_instance_settings_handler).                *)
THEOREM MasksAreAsAsked == VisSpec => MasksChangeAsAsked
<1>1. VisInv /\ [VisNext]_visVars => [NewRoleStep]_visVars
  BY NewRole
<1>2. VisInv /\ [VisNext]_visVars => [ReorderStep]_visVars
  BY Reorder
<1>3. VisInv /\ [VisNext]_visVars => [PatchStep]_visVars
  BY Patch
<1>4. QED
  BY <1>1, <1>2, <1>3, Visible, PTL
     DEF VisSpec, MasksChangeAsAsked, NewRolesSeeNothing, RowsWrittenAsAsked, PatchesOnlyWhatIsAsked,
         ReorderMaskIsTheOwners

----------------------------------------------------------------------------
(* Tags.  What the recursive query collects is the least closed set, so that *)
(* a fact about all tags below another is proved by exhibiting a closed set. *)
(* The invariant says, for every statement at which a request may stand,     *)
(* what it knows of the rows it has read: rowids are handed out again, but   *)
(* uids are not, so that no other row than the one it read has the uid it    *)
(* was asked for.                                                            *)

(* What may be asked for, and what a lookup has found.                       *)
PathAsk == [op : {"create", "assign"}, path : TagPath]
UidAsk ==
    [op : {"rename"}, uid : Nat, slug : Slug]
    \cup [op : {"move"}, uid : Nat, to : Nat]
    \cup [op : {"delete", "untag"}, uid : Nat]

OnPath == {"segment", "insert", "assign"}
OnUid == {"tag", "parent", "free", "write", "delete", "untag", "looping"}
AfterRead == {"parent", "free", "write", "untag"}

(* A row of the table, as it is or as it once was.                           *)
IsRow(x) == x \in TagRow /\ x.path # <<>>
IsFound(f) == f.id \in TagId /\ IsRow(f.row)

AskSound(r) ==
    /\ tagAt[r] \in OnPath => ask[r] \in PathAsk
    /\ tagAt[r] \in OnUid => ask[r] \in UidAsk /\ ask[r].uid <= tagUid
    /\ tagAt[r] \in {"parent", "free", "write"} => ask[r].op \in {"rename", "move"}
    /\ tagAt[r] = "parent" => ask[r].op = "move" /\ ask[r].to # 0
    /\ tagAt[r] = "tag" => ask[r].op # "delete"
    /\ tagAt[r] = "untag" => ask[r].op = "untag"
    /\ tagAt[r] = "assign" => ask[r].op = "assign"

SeenSound(r) ==
    tagAt[r] \in AfterRead =>
        /\ IsFound(seen[r]) /\ seen[r].row.uid = ask[r].uid
        /\ \A i \in TagIds : tags[i].uid = ask[r].uid => i = seen[r].id

UnderSound(r) ==
    /\ tagAt[r] \in {"idle", "tag", "parent"} => under[r].id = NoTag
    /\ tagAt[r] = "idle" => segment[r] = 0
    /\ tagAt[r] \in {"segment", "insert"} =>
        /\ segment[r] < Len(ask[r].path)
        /\ under[r].id = NoTag => segment[r] = 0
        /\ under[r].id # NoTag =>
            IsFound(under[r]) /\ under[r].row.path = SubSeq(ask[r].path, 1, segment[r])
    /\ tagAt[r] = "assign" => under[r].row.path = ask[r].path
    /\ tagAt[r] \in {"free", "write"} =>
        IF ask[r].op = "move" /\ ask[r].to # 0
        THEN IsFound(under[r]) ELSE under[r].id = NoTag

TreeSound ==
    /\ \A i, j \in TagIds : tags[i].uid = tags[j].uid => i = j
    /\ \A i \in TagIds : tags[i].path # <<>>
    /\ ParentsLive(tags)

RequestSound ==
    /\ ask = [r \in TagRequest |-> ask[r]]
    /\ seen = [r \in TagRequest |-> seen[r]]
    /\ under = [r \in TagRequest |-> under[r]]
    /\ \A r \in TagRequest : AskSound(r) /\ SeenSound(r) /\ UnderSound(r)

TagInv ==
    /\ TagsTypeOK /\ TreeSound /\ RequestSound
    /\ TreeHasNoCycle /\ PathsSpellTheTree

----------------------------------------------------------------------------
(* Paths.                                                                    *)

\* A path asked for.
LEMMA TagPathIsSeq ==
    ASSUME NEW p \in TagPath
    PROVE  p \in Seq(Slug) /\ Len(p) \in 1..MaxDepth
<1>1. PICK n \in 1..MaxDepth : p \in [1..n -> Slug]
  BY DEF TagPath
<1>2. n \in Nat
  BY TagsAssumption
<1>3. p \in Seq(Slug)
  BY <1>1, <1>2, SeqDef
<1>4. Len(p) = n
  BY <1>1, <1>2, <1>3, LenProperties
<1> QED
  BY <1>3, <1>4

\* A prefix by one segment longer.
LEMMA PrefixGrows ==
    ASSUME NEW S, NEW p \in Seq(S), NEW k \in Nat, k < Len(p)
    PROVE  /\ SubSeq(p, 1, k + 1) = Append(SubSeq(p, 1, k), p[k + 1])
           /\ SubSeq(p, 1, k + 1) \in Seq(S) /\ SubSeq(p, 1, k + 1) # <<>>
<1>1. Len(p) \in Nat /\ k + 1 \in 1..Len(p)
  BY LenProperties
<1>2. p[k + 1] \in S
  BY <1>1, ElementOfSeq
<1>3. SubSeq(p, 1, k) \in Seq(S)
  BY <1>1, ElementOfSeq, SubSeqProperties
<1>4. SubSeq(p, 1, k + 1) = SubSeq(p, 1, k + 1 - 1) \o <<p[k + 1]>>
  BY <1>1, SubSeqRecursiveSecond
<1>5. k + 1 - 1 = k
  OBVIOUS
<1>6. Append(SubSeq(p, 1, k), p[k + 1]) = SubSeq(p, 1, k) \o <<p[k + 1]>>
  BY <1>2, <1>3, AppendIsConcat
<1>7. SubSeq(p, 1, k + 1) = Append(SubSeq(p, 1, k), p[k + 1])
  BY <1>4, <1>5, <1>6
<1> QED
  BY <1>2, <1>3, <1>7, AppendProperties

LEMMA OneSegment == ASSUME NEW S, NEW s \in S PROVE Append(<<>>, s) = <<s>>
<1> DEFINE e == <<s>>
<1>1. <<>> \in Seq(S) /\ e \in Seq(S)
  OBVIOUS
<1>2. Append(<<>>, s) = <<>> \o e
  BY <1>1, AppendIsConcat
<1> HIDE DEF e
<1>3. <<>> \o e = e
  BY <1>1, ConcatEmptySeq
<1> QED
  BY <1>2, <1>3 DEF e

\* What is above the last segment.
LEMMA FrontOfAppend ==
    ASSUME NEW S, NEW p \in Seq(S), NEW s \in S
    PROVE  SubSeq(Append(p, s), 1, Len(Append(p, s)) - 1) = p
<1> DEFINE q == Append(p, s)
<1>1. q \in Seq(S) /\ Len(q) = Len(p) + 1 /\ \A i \in 1..Len(p) : q[i] = p[i]
  BY AppendProperties
<1>2. Len(p) \in Nat /\ Len(q) - 1 = Len(p)
  BY <1>1, LenProperties
<1>3. \A i \in 1..Len(p) : q[i] \in S
  BY <1>1, ElementOfSeq
<1> DEFINE f == SubSeq(q, 1, Len(p))
<1>4. f \in Seq(S) /\ Len(f) = Len(p) /\ \A i \in 1..Len(p) : f[i] = q[i]
  <2>1. /\ f \in Seq(S)
        /\ Len(f) = IF 1 <= Len(p) THEN Len(p) - 1 + 1 ELSE 0
        /\ \A i \in 1 .. Len(p) - 1 + 1 : f[i] = q[1 + i - 1]
    BY <1>2, <1>3, SubSeqProperties
  <2> HIDE DEF f, q
  <2> QED
    BY <1>2, <2>1
<1> HIDE DEF q, f
<1>5. f = p
  BY <1>1, <1>4, SeqEqual
<1> QED
  BY <1>2, <1>5 DEF f, q

\* A path that is cut after k segments and put behind another.
LEMMA CutAppend ==
    ASSUME NEW S, NEW p \in Seq(S), NEW s \in S, NEW new \in Seq(S),
           NEW k \in Nat, k <= Len(p)
    PROVE  new \o SubSeq(Append(p, s), k + 1, Len(Append(p, s)))
               = Append(new \o SubSeq(p, k + 1, Len(p)), s)
<1> DEFINE q == Append(p, s)
           x == SubSeq(p, k + 1, Len(p))
           y == SubSeq(q, k + 1, Len(q))
<1>1. /\ q \in Seq(S) /\ Len(q) = Len(p) + 1
      /\ \A i \in 1..Len(p) : q[i] = p[i]
      /\ q[Len(p) + 1] = s
  BY AppendProperties
<1>2. Len(p) \in Nat
  BY LenProperties
<1>3. /\ x \in Seq(S) /\ Len(x) = Len(p) - k
      /\ \A i \in 1..Len(p) - k : x[i] = p[k + i]
  <2>1. \A i \in k + 1 .. Len(p) : p[i] \in S
    BY ElementOfSeq
  <2>2. /\ x \in Seq(S)
        /\ Len(x) = IF k + 1 <= Len(p) THEN Len(p) - (k + 1) + 1 ELSE 0
        /\ \A i \in 1 .. Len(p) - (k + 1) + 1 : x[i] = p[k + 1 + i - 1]
    BY <1>2, <2>1, SubSeqProperties
  <2> HIDE DEF x
  <2> QED
    BY <1>2, <2>2
<1>4. /\ y \in Seq(S) /\ Len(y) = Len(p) + 1 - k
      /\ \A i \in 1..Len(p) + 1 - k : y[i] = q[k + i]
  <2>1. \A i \in k + 1 .. Len(q) : q[i] \in S
    BY <1>1, ElementOfSeq
  <2>2. /\ y \in Seq(S)
        /\ Len(y) = IF k + 1 <= Len(q) THEN Len(q) - (k + 1) + 1 ELSE 0
        /\ \A i \in 1 .. Len(q) - (k + 1) + 1 : y[i] = q[k + 1 + i - 1]
    BY <1>1, <1>2, <2>1, SubSeqProperties
  <2> DEFINE n == Len(q)
  <2>3. n = Len(p) + 1 /\ k + 1 <= n
    BY <1>1, <1>2
  <2> HIDE DEF y, q, n
  <2>4. Len(y) = n - (k + 1) + 1 /\ n - (k + 1) + 1 = Len(p) + 1 - k
    BY <1>2, <2>2, <2>3 DEF n
  <2>5. ASSUME NEW i \in 1 .. Len(p) + 1 - k PROVE y[i] = q[k + i]
    <3>1. k + 1 + i - 1 = k + i
      BY <1>2
    <3> QED
      BY <2>2, <2>4, <3>1 DEF n
  <2> QED
    BY <2>2, <2>4, <2>5
<1> HIDE DEF q, x, y
<1>5. y = Append(x, s)
  <2>1. /\ Append(x, s) \in Seq(S) /\ Len(Append(x, s)) = Len(x) + 1
        /\ \A i \in 1..Len(x) : Append(x, s)[i] = x[i]
        /\ Append(x, s)[Len(x) + 1] = s
    BY <1>3, AppendProperties
  <2> DEFINE z == Append(x, s)
  <2>2. ASSUME NEW i \in 1..Len(y) PROVE y[i] = z[i]
    <3>1. i \in 1 .. Len(p) + 1 - k /\ y[i] = q[k + i]
      BY <1>4
    <3>2. CASE i <= Len(p) - k
      <4>1. i \in 1 .. Len(p) - k /\ k + i \in 1..Len(p) /\ i \in 1..Len(x)
        BY <1>2, <1>3, <3>1, <3>2
      <4> QED
        BY <1>1, <1>3, <2>1, <3>1, <4>1
    <3>3. CASE i = Len(p) + 1 - k
      <4>1. k + i = Len(p) + 1 /\ i = Len(x) + 1
        BY <1>2, <1>3, <3>1, <3>3
      <4> QED
        BY <1>1, <2>1, <3>1, <4>1
    <3>4. i <= Len(p) - k \/ i = Len(p) + 1 - k
      <4> DEFINE n == Len(p)
      <4>1. n \in Nat /\ i \in 1 .. n + 1 - k
        BY <1>2, <3>1
      <4> HIDE DEF n
      <4>2. i <= n - k \/ i = n + 1 - k
        BY <4>1
      <4> QED
        BY <4>2 DEF n
    <3> QED
      BY <3>2, <3>3, <3>4
  <2>3. y \in Seq(S) /\ z \in Seq(S) /\ Len(y) = Len(z) /\ \A i \in 1..Len(y) : y[i] = z[i]
    BY <1>2, <1>3, <1>4, <2>1, <2>2
  <2> HIDE DEF z
  <2>4. y = z
    BY <2>3, SeqEqual
  <2> QED
    BY <2>4 DEF z
<1>6. new \o Append(x, s) = Append(new \o x, s)
  <2> DEFINE e == <<s>>
  <2>1. Append(x, s) = x \o e /\ e \in Seq(S)
    BY <1>3, AppendIsConcat
  <2>2. new \o x \in Seq(S)
    BY <1>3, ConcatProperties
  <2>3. Append(new \o x, s) = (new \o x) \o e
    BY <2>2, AppendIsConcat
  <2> HIDE DEF e
  <2>4. (new \o x) \o e = new \o (x \o e)
    BY <1>3, <2>1, ConcatAssociative, SMTT(20)
  <2> QED
    BY <2>1, <2>3, <2>4
<1> QED
  BY <1>5, <1>6 DEF q, x, y

----------------------------------------------------------------------------
(* What is below a tag: the least set that has what it should have.          *)

LEMMA BelowIsClosed ==
    ASSUME NEW t, NEW i
    PROVE  Descends(t, i, Below(t, i)) /\ Below(t, i) \subseteq DOMAIN t
BY DEF Descends, Below

LEMMA BelowIsLeast ==
    ASSUME NEW t, NEW i, NEW S \in SUBSET DOMAIN t, Descends(t, i, S)
    PROVE  Below(t, i) \subseteq S
BY DEF Below

\* Whoever is below has a parent that is, or the tag itself.
LEMMA BelowHasParent ==
    ASSUME NEW t, NEW i, NEW j \in Below(t, i)
    PROVE  t[j].parent \in Below(t, i) \cup {i}
<1> DEFINE S == {k \in Below(t, i) : t[k].parent \in Below(t, i) \cup {i}}
<1>1. Descends(t, i, S) /\ S \subseteq DOMAIN t
  BY BelowIsClosed DEF Descends
<1>2. Below(t, i) \subseteq S
  BY <1>1, BelowIsLeast
<1> QED
  BY <1>2

LEMMA BelowIsTransitive ==
    ASSUME NEW t, NEW i, NEW j \in Below(t, i)
    PROVE  Below(t, j) \subseteq Below(t, i)
<1>1. Descends(t, j, Below(t, i)) /\ Below(t, i) \subseteq DOMAIN t
  BY BelowIsClosed DEF Descends
<1> QED
  BY <1>1, BelowIsLeast

\* Only the parents matter.
LEMMA BelowByParents ==
    ASSUME NEW t, NEW v, NEW i, DOMAIN v = DOMAIN t,
           \A j \in DOMAIN t : v[j].parent = t[j].parent
    PROVE  Below(v, i) = Below(t, i)
<1>1. \A S : Descends(v, i, S) <=> Descends(t, i, S)
  BY DEF Descends
<1> QED
  BY <1>1 DEF Below

(* A tag that gets another parent, and does not come to be below itself,     *)
(* makes nobody else its own ancestor.                                       *)
LEMMA MoveMakesNoCycle ==
    ASSUME NEW t, NEW v, NEW m, DOMAIN v = DOMAIN t,
           \A j \in DOMAIN t \ {m} : v[j].parent = t[j].parent,
           \A j \in DOMAIN t : j \notin Below(t, j),
           m \notin Below(v, m)
    PROVE  \A j \in DOMAIN v : j \notin Below(v, j)
<1> SUFFICES ASSUME NEW i \in DOMAIN v, i \in Below(v, i), i # m PROVE FALSE
  OBVIOUS
<1>1. i \in Below(v, m)
  <2> DEFINE S == (Below(t, i) \cup {m} \cup Below(v, m)) \cap DOMAIN v
  <2>1. Descends(v, i, S)
    <3>1. Descends(t, i, Below(t, i)) /\ Descends(v, m, Below(v, m))
      BY BelowIsClosed
    <3> QED
      BY <3>1 DEF Descends
  <2>2. i \in S
    BY <2>1, BelowIsLeast
  <2> QED
    BY <2>2
<1>2. m \notin Below(v, i)
  BY <1>1, BelowIsTransitive
<1>3. i \in Below(t, i)
  <2> DEFINE S == Below(t, i) \cap Below(v, i)
  <2>1. Descends(v, i, S) /\ S \subseteq DOMAIN v
    <3>1. /\ Descends(t, i, Below(t, i)) /\ Descends(v, i, Below(v, i))
          /\ Below(v, i) \subseteq DOMAIN v
      BY BelowIsClosed
    <3> QED
      BY <1>2, <3>1 DEF Descends
  <2>2. i \in S
    BY <2>1, BelowIsLeast
  <2> QED
    BY <2>2
<1> QED
  BY <1>3

----------------------------------------------------------------------------
(* Requests.                                                                 *)

\* A row that was found is a row, under its rowid.
LEMMA FoundIsRow ==
    ASSUME TagsTypeOK, TreeSound, NEW i \in TagIds
    PROVE  IsFound(Found(i)) /\ Found(i).id = i /\ Found(i).row = tags[i]
BY DEF TagsTypeOK, TreeSound, IsFound, IsRow, Found

(* One request moves. Rows keep their uids, and rows that are new have new   *)
(* ones.                                                                     *)
OnlyMoves(r) ==
    /\ tagAt' = [tagAt EXCEPT ![r] = tagAt'[r]]
    /\ ask' = [ask EXCEPT ![r] = ask'[r]]
    /\ seen' = [seen EXCEPT ![r] = seen'[r]]
    /\ under' = [under EXCEPT ![r] = under'[r]]
    /\ segment' = [segment EXCEPT ![r] = segment'[r]]
UidsStay ==
    /\ tagUid' \in Nat /\ tagUid <= tagUid'
    /\ \A i \in DOMAIN tags' :
        \/ i \in TagIds /\ tags'[i].uid = tags[i].uid
        \/ tags'[i].uid > tagUid

\* What the others know they still know.
LEMMA OthersKnow ==
    ASSUME TagsTypeOK, RequestSound, NEW r \in TagRequest, OnlyMoves(r), UidsStay,
           tagAt'[r] \in TagPlace, segment'[r] \in 0..MaxDepth,
           AskSound(r)', SeenSound(r)', UnderSound(r)'
    PROVE  /\ tagAt' \in [TagRequest -> TagPlace] /\ segment' \in [TagRequest -> 0..MaxDepth]
           /\ RequestSound'
<1>1. tagAt' \in [TagRequest -> TagPlace] /\ segment' \in [TagRequest -> 0..MaxDepth]
  BY DEF TagsTypeOK, OnlyMoves
<1>2. /\ ask' = [k \in TagRequest |-> ask'[k]]
      /\ seen' = [k \in TagRequest |-> seen'[k]]
      /\ under' = [k \in TagRequest |-> under'[k]]
  <2>1. DOMAIN ask = TagRequest /\ DOMAIN seen = TagRequest /\ DOMAIN under = TagRequest
    BY DEF RequestSound
  <2> QED
    BY <2>1 DEF OnlyMoves
<1>3. ASSUME NEW k \in TagRequest, k # r
      PROVE  AskSound(k)' /\ SeenSound(k)' /\ UnderSound(k)'
  <2>1. /\ tagAt'[k] = tagAt[k] /\ ask'[k] = ask[k] /\ seen'[k] = seen[k]
        /\ under'[k] = under[k] /\ segment'[k] = segment[k]
    BY <1>3 DEF OnlyMoves, TagsTypeOK, RequestSound
  <2>2. AskSound(k) /\ SeenSound(k) /\ UnderSound(k)
    BY DEF RequestSound
  <2>3. tagUid \in Nat
    BY DEF TagsTypeOK
  <2>4. AskSound(k)'
    <3>1. ask[k] \in UidAsk => ask[k].uid \in Nat
      BY DEF UidAsk
    <3> QED
      BY <2>1, <2>2, <2>3, <3>1 DEF AskSound, UidsStay
  <2>5. SeenSound(k)'
    <3>1. CASE tagAt[k] \in AfterRead
      <4>1. ask[k].uid <= tagUid /\ ask[k].uid \in Nat
        BY <2>2, <3>1 DEF AskSound, AfterRead, OnUid, UidAsk
      <4>2. \A i \in DOMAIN tags' : tags'[i].uid = ask[k].uid => i = seen[k].id
        <5> SUFFICES ASSUME NEW i \in DOMAIN tags', tags'[i].uid = ask[k].uid
                     PROVE  i = seen[k].id
          OBVIOUS
        <5>1. ~(tags'[i].uid > tagUid)
          BY <4>1, <2>3
        <5> QED
          BY <5>1, <2>2, <3>1 DEF SeenSound, UidsStay
      <4> QED
        BY <2>1, <2>2, <3>1, <4>2 DEF SeenSound, TagIds
    <3> QED
      BY <2>1, <3>1 DEF SeenSound
  <2>6. UnderSound(k)'
    BY <2>1, <2>2 DEF UnderSound
  <2> QED
    BY <2>4, <2>5, <2>6
<1> QED
  BY <1>1, <1>2, <1>3 DEF RequestSound

\* A step of a request that writes nothing.
LEMMA ReadsOnly ==
    ASSUME TagInv, NEW r \in TagRequest, OnlyMoves(r), UNCHANGED TagRows,
           tagAt'[r] \in TagPlace, segment'[r] \in 0..MaxDepth,
           AskSound(r)', SeenSound(r)', UnderSound(r)'
    PROVE  TagInv'
<1>1. UidsStay
  BY DEF UidsStay, TagInv, TagsTypeOK, TagRows, TagIds
<1>2. /\ tagAt' \in [TagRequest -> TagPlace] /\ segment' \in [TagRequest -> 0..MaxDepth]
      /\ RequestSound'
  BY <1>1, OthersKnow DEF TagInv
<1>3. TagsTypeOK'
  BY <1>2 DEF TagInv, TagsTypeOK, TagRows, TagIds
<1>4. TreeSound' /\ TreeHasNoCycle' /\ PathsSpellTheTree'
  BY DEF TagInv, TagRows, TreeSound, ParentsLive, TreeHasNoCycle, PathsSpellTheTree, TagIds
<1> QED
  BY <1>2, <1>3, <1>4 DEF TagInv

\* A request that is over relies on nothing.
LEMMA DoneKnows ==
    ASSUME NEW r, tagAt'[r] = "done"
    PROVE  AskSound(r)' /\ SeenSound(r)' /\ UnderSound(r)' /\ tagAt'[r] \in TagPlace
BY DEF AskSound, SeenSound, UnderSound, OnPath, OnUid, AfterRead, TagPlace

\* A step that leaves a variable alone, or the request's entry in it.
LEMMA MovesAtMost ==
    ASSUME TagInv, NEW r \in TagRequest,
           NEW x, tagAt' = [tagAt EXCEPT ![r] = x],
           ask' = ask \/ \E y : ask' = [ask EXCEPT ![r] = y],
           seen' = seen \/ \E y : seen' = [seen EXCEPT ![r] = y],
           under' = under \/ \E y : under' = [under EXCEPT ![r] = y],
           segment' = segment \/ \E y : segment' = [segment EXCEPT ![r] = y]
    PROVE  OnlyMoves(r) /\ tagAt'[r] = x
<1>1. /\ DOMAIN tagAt = TagRequest /\ DOMAIN ask = TagRequest /\ DOMAIN seen = TagRequest
      /\ DOMAIN under = TagRequest /\ DOMAIN segment = TagRequest
  BY DEF TagInv, TagsTypeOK, RequestSound
<1>2. /\ tagAt = [k \in TagRequest |-> tagAt[k]] /\ ask = [k \in TagRequest |-> ask[k]]
      /\ seen = [k \in TagRequest |-> seen[k]] /\ under = [k \in TagRequest |-> under[k]]
      /\ segment = [k \in TagRequest |-> segment[k]]
  BY DEF TagInv, TagsTypeOK, RequestSound
<1>3. tagAt'[r] = x /\ tagAt' = [tagAt EXCEPT ![r] = tagAt'[r]]
  BY <1>1
<1>4. ask' = [ask EXCEPT ![r] = ask'[r]]
  BY <1>1, <1>2
<1>5. seen' = [seen EXCEPT ![r] = seen'[r]]
  BY <1>1, <1>2
<1>6. under' = [under EXCEPT ![r] = under'[r]]
  BY <1>1, <1>2
<1>7. segment' = [segment EXCEPT ![r] = segment'[r]]
  BY <1>1, <1>2
<1> QED
  BY <1>3, <1>4, <1>5, <1>6, <1>7 DEF OnlyMoves

\* What is known of a request.
LEMMA Knows ==
    ASSUME TagInv, NEW r \in TagRequest
    PROVE  /\ AskSound(r) /\ SeenSound(r) /\ UnderSound(r)
           /\ segment[r] \in 0..MaxDepth /\ tagUid \in Nat
           /\ DOMAIN tagAt = TagRequest /\ DOMAIN ask = TagRequest /\ DOMAIN seen = TagRequest
           /\ DOMAIN under = TagRequest /\ DOMAIN segment = TagRequest
BY DEF TagInv, TagsTypeOK, RequestSound

----------------------------------------------------------------------------
(* The steps that write nothing.                                             *)

LEMMA TagBusyStep == ASSUME TagInv, NEW r \in TagRequest, TagBusy(r) PROVE TagInv'
<1>1. OnlyMoves(r) /\ tagAt'[r] = "done"
  BY MovesAtMost DEF TagBusy, TagGo
<1>2. segment'[r] \in 0..MaxDepth
  BY Knows DEF TagBusy
<1> QED
  BY <1>1, <1>2, DoneKnows, ReadsOnly DEF TagBusy

LEMMA BeginTagStep == ASSUME TagInv, NEW r \in TagRequest, BeginTag(r) PROVE TagInv'
<1>1. PICK z \in Asks :
        /\ ask' = [ask EXCEPT ![r] = z]
        /\ TagGo(r, CASE z.op \in {"create", "assign"} -> "segment"
                      [] z.op = "delete" -> "delete"
                      [] OTHER -> "tag")
  BY DEF BeginTag
<1> DEFINE x == CASE z.op \in {"create", "assign"} -> "segment"
                  [] z.op = "delete" -> "delete"
                  [] OTHER -> "tag"
<1>2. x = IF z.op \in {"create", "assign"} THEN "segment"
          ELSE IF z.op = "delete" THEN "delete" ELSE "tag"
  <2>1. CASE z.op \in {"create", "assign"}
    <3>1. z.op # "delete"
      BY <2>1
    <3> QED
      BY <2>1, <3>1
  <2>2. CASE z.op = "delete"
    <3>1. z.op \notin {"create", "assign"}
      BY <2>2
    <3> QED
      BY <2>2, <3>1
  <2>3. CASE z.op \notin {"create", "assign", "delete"}
    BY <2>3
  <2> QED
    BY <2>1, <2>2, <2>3
<1>3. tagAt' = [tagAt EXCEPT ![r] = x]
  BY <1>1 DEF TagGo
<1> HIDE DEF x
<1>4. OnlyMoves(r) /\ tagAt'[r] = x
  BY <1>1, <1>3, MovesAtMost DEF BeginTag
<1>5. ask'[r] = z /\ under'[r] = under[r] /\ segment'[r] = segment[r] /\ tagUid' = tagUid
  BY <1>1, Knows DEF BeginTag, TagRows
<1>6. under[r].id = NoTag /\ segment[r] = 0 /\ segment[r] \in 0..MaxDepth /\ tagUid \in Nat
  BY Knows DEF UnderSound, BeginTag
<1>7. CASE z \in PathAsk
  <2>1. x = "segment" /\ Len(z.path) \in 1..MaxDepth
    BY <1>2, <1>7, TagPathIsSeq DEF PathAsk
  <2>2. AskSound(r)' /\ SeenSound(r)' /\ UnderSound(r)' /\ tagAt'[r] \in TagPlace
    BY <1>4, <1>5, <1>6, <1>7, <2>1
       DEF AskSound, SeenSound, UnderSound, OnPath, OnUid, AfterRead, TagPlace
  <2> QED
    BY <1>4, <1>5, <1>6, <2>2, ReadsOnly DEF BeginTag
<1>8. CASE z \in UidAsk /\ z.uid <= tagUid
  <2>1. x \in {"delete", "tag"}
    BY <1>2, <1>8 DEF UidAsk
  <2>3. AskSound(r)'
    <3>1. x = "tag" => z.op # "delete"
      BY <1>2, <2>1, Zenon
    <3> QED
      BY <1>4, <1>5, <1>6, <1>8, <2>1, <3>1 DEF AskSound, OnPath, OnUid
  <2>2. AskSound(r)' /\ SeenSound(r)' /\ UnderSound(r)' /\ tagAt'[r] \in TagPlace
    BY <1>4, <1>5, <1>6, <2>1, <2>3 DEF SeenSound, UnderSound, AfterRead, TagPlace
  <2> QED
    BY <1>4, <1>5, <1>6, <2>2, ReadsOnly DEF BeginTag
<1>9. z \in PathAsk \/ (z \in UidAsk /\ z.uid <= tagUid)
  <2>1. CASE z \in [op : {"create", "assign"}, path : TagPath]
    <3>1. z \in PathAsk
      BY <2>1 DEF PathAsk
    <3> QED
      BY <3>1
  <2>2. CASE z \in [op : {"rename"}, uid : 1..tagUid, slug : Slug]
    BY <1>6, <2>2 DEF UidAsk
  <2>3. CASE z \in [op : {"move"}, uid : 1..tagUid, to : 0..tagUid]
    BY <1>6, <2>3 DEF UidAsk
  <2>4. CASE z \in [op : {"delete", "untag"}, uid : 1..tagUid]
    BY <1>6, <2>4 DEF UidAsk
  <2> QED
    BY <2>1, <2>2, <2>3, <2>4 DEF Asks
<1> QED
  BY <1>7, <1>8, <1>9

\* On to the next segment, below the row that is there now.
LEMMA NextSegment ==
    ASSUME TagInv, NEW r \in TagRequest, tagAt[r] \in {"segment", "insert"},
           OnlyMoves(r), ask' = ask, tagUid' \in Nat,
           tagAt'[r] = OnSegment(r), segment'[r] = segment[r] + 1,
           IsFound(under'[r]), under'[r].row.path = Prefix(r)
    PROVE  /\ AskSound(r)' /\ SeenSound(r)' /\ UnderSound(r)'
           /\ tagAt'[r] \in TagPlace /\ segment'[r] \in 0..MaxDepth
<1>1. /\ ask[r] \in PathAsk /\ ask[r].path \in TagPath /\ segment[r] < Len(ask[r].path)
      /\ segment[r] \in Nat /\ ask[r].op \in {"create", "assign"}
  BY Knows DEF AskSound, UnderSound, OnPath, PathAsk
<1>2. ask[r].path \in Seq(Slug) /\ Len(ask[r].path) \in 1..MaxDepth
  BY <1>1, TagPathIsSeq
<1>3. under'[r].id # NoTag
  BY DEF IsFound, TagId, NoTag
<1>4. tagAt'[r] \in {"segment", "assign", "done"} /\ segment'[r] \in 0..MaxDepth
  BY <1>1, <1>2, TagsAssumption DEF OnSegment, TagEnd
<1>5. AskSound(r)' /\ SeenSound(r)'
  BY <1>1, <1>4 DEF AskSound, SeenSound, OnPath, OnUid, AfterRead, OnSegment, TagEnd
<1>6. UnderSound(r)'
  <2>1. CASE tagAt'[r] = "segment"
    <3>1. segment[r] + 1 < Len(ask[r].path)
      BY <1>1, <1>2, <2>1 DEF OnSegment, TagEnd
    <3> QED
      BY <1>3, <2>1, <3>1 DEF UnderSound, Prefix
  <2>2. CASE tagAt'[r] = "assign"
    <3>1. segment[r] + 1 = Len(ask[r].path)
      BY <2>2 DEF OnSegment, TagEnd
    <3>2. Prefix(r) = ask[r].path
      BY <1>2, <3>1, SubSeqFull DEF Prefix
    <3> QED
      BY <2>2, <3>2 DEF UnderSound
  <2>3. CASE tagAt'[r] = "done"
    BY <2>3 DEF UnderSound
  <2> QED
    BY <1>4, <2>1, <2>2, <2>3
<1> QED
  BY <1>4, <1>5, <1>6 DEF TagPlace

LEMMA SeekSegmentStep == ASSUME TagInv, NEW r \in TagRequest, SeekSegment(r) PROVE TagInv'
<1>1. CASE IdOfPath(Prefix(r)) = {} /\ TagGo(r, "insert") /\ UNCHANGED <<under, segment>>
  <2>1. OnlyMoves(r) /\ tagAt'[r] = "insert"
    BY <1>1, MovesAtMost DEF SeekSegment, TagGo
  <2>2. AskSound(r)' /\ SeenSound(r)' /\ UnderSound(r)' /\ tagAt'[r] \in TagPlace
    BY <1>1, <2>1, Knows
       DEF AskSound, SeenSound, UnderSound, OnPath, OnUid, AfterRead, TagPlace, SeekSegment
  <2> QED
    BY <1>1, <2>1, <2>2, Knows, ReadsOnly DEF SeekSegment
<1>2. ASSUME NEW i \in IdOfPath(Prefix(r)),
             under' = [under EXCEPT ![r] = Found(i)],
             segment' = [segment EXCEPT ![r] = @ + 1],
             TagGo(r, OnSegment(r))
      PROVE  TagInv'
  <2>1. OnlyMoves(r) /\ tagAt'[r] = OnSegment(r)
    BY <1>2, MovesAtMost DEF SeekSegment, TagGo
  <2>2. under'[r] = Found(i) /\ segment'[r] = segment[r] + 1 /\ tagUid' = tagUid /\ tagUid \in Nat
    BY <1>2, Knows DEF SeekSegment, TagRows
  <2>3. i \in TagIds /\ tags[i].path = Prefix(r)
    BY DEF IdOfPath
  <2>4. IsFound(Found(i)) /\ Found(i).row.path = Prefix(r)
    BY <2>3, FoundIsRow DEF TagInv
  <2>5. /\ AskSound(r)' /\ SeenSound(r)' /\ UnderSound(r)'
        /\ tagAt'[r] \in TagPlace /\ segment'[r] \in 0..MaxDepth
    BY <2>1, <2>2, <2>4, NextSegment DEF SeekSegment
  <2> QED
    BY <2>1, <2>5, ReadsOnly DEF SeekSegment
<1> QED
  BY <1>1, <1>2 DEF SeekSegment

LEMMA ReadTagStep == ASSUME TagInv, NEW r \in TagRequest, ReadTag(r) PROVE TagInv'
<1>1. CASE TagGo(r, "done") /\ UNCHANGED seen
  <2>1. OnlyMoves(r) /\ tagAt'[r] = "done"
    BY <1>1, MovesAtMost DEF ReadTag, TagGo
  <2> QED
    BY <2>1, DoneKnows, Knows, ReadsOnly DEF ReadTag
<1>2. ASSUME NEW i \in IdOfUid(ask[r].uid),
             seen' = [seen EXCEPT ![r] = Found(i)],
             TagGo(r, CASE ask[r].op = "rename" -> "free"
                        [] ask[r].op = "untag" -> "untag"
                        [] ask[r].op = "move" ->
                              IF ask[r].to = 0 THEN "free" ELSE "parent")
      PROVE  TagInv'
  <2> DEFINE x == CASE ask[r].op = "rename" -> "free"
                    [] ask[r].op = "untag" -> "untag"
                    [] ask[r].op = "move" -> IF ask[r].to = 0 THEN "free" ELSE "parent"
  <2>1. tagAt' = [tagAt EXCEPT ![r] = x]
    BY <1>2 DEF TagGo
  <2>2. /\ ask[r].op = "rename" => x = "free"
        /\ ask[r].op = "untag" => x = "untag"
        /\ ask[r].op = "move" => x = IF ask[r].to = 0 THEN "free" ELSE "parent"
    <3>1. CASE ask[r].op = "rename"
      <4>1. ask[r].op # "untag" /\ ask[r].op # "move"
        BY <3>1
      <4> QED
        BY <3>1, <4>1
    <3>2. CASE ask[r].op = "untag"
      <4>1. ask[r].op # "rename" /\ ask[r].op # "move"
        BY <3>2
      <4> QED
        BY <3>2, <4>1
    <3>3. CASE ask[r].op = "move"
      <4>1. ask[r].op # "rename" /\ ask[r].op # "untag"
        BY <3>3
      <4> QED
        BY <3>3, <4>1
    <3> QED
      BY <3>1, <3>2, <3>3
  <2> HIDE DEF x
  <2>3. OnlyMoves(r) /\ tagAt'[r] = x
    BY <1>2, <2>1, MovesAtMost DEF ReadTag
  <2>4. /\ seen'[r] = Found(i) /\ ask' = ask /\ under' = under /\ tags' = tags
        /\ segment'[r] \in 0..MaxDepth
    BY <1>2, Knows DEF ReadTag, TagRows
  <2>5. ask[r] \in UidAsk /\ ask[r].uid <= tagUid /\ under[r].id = NoTag /\ tagUid' = tagUid
    BY Knows DEF AskSound, UnderSound, OnUid, ReadTag, TagRows
  <2>6. IsFound(Found(i)) /\ Found(i).id = i /\ Found(i).row.uid = ask[r].uid /\ i \in TagIds
    BY FoundIsRow DEF TagInv, IdOfUid
  <2>7. \A j \in TagIds : tags[j].uid = ask[r].uid => j = i
    BY DEF TagInv, TreeSound, IdOfUid
  <2>8. ask[r].op \in {"rename", "untag", "move"}
    BY <2>5, Knows DEF AskSound, ReadTag, UidAsk
  <2>9. TagInv'
    <3>1. x \in {"free", "untag", "parent"}
      BY <2>2, <2>8
    <3>2. AskSound(r)'
      BY <2>2, <2>3, <2>4, <2>5, <2>8, <3>1 DEF AskSound, OnPath, OnUid
    <3>3. SeenSound(r)'
      BY <2>3, <2>4, <2>6, <2>7 DEF SeenSound, TagIds
    <3>4. UnderSound(r)'
      BY <2>2, <2>3, <2>4, <2>5, <2>8, <3>1 DEF UnderSound
    <3> QED
      BY <2>3, <2>4, <3>1, <3>2, <3>3, <3>4, ReadsOnly DEF ReadTag, TagPlace
  <2> QED
    BY <2>9
<1> QED
  BY <1>1, <1>2 DEF ReadTag

LEMMA ReadParentStep == ASSUME TagInv, NEW r \in TagRequest, ReadParent(r) PROVE TagInv'
<1>1. CASE TagGo(r, "done") /\ UNCHANGED under
  <2>1. OnlyMoves(r) /\ tagAt'[r] = "done"
    BY <1>1, MovesAtMost DEF ReadParent, TagGo
  <2> QED
    BY <2>1, DoneKnows, Knows, ReadsOnly DEF ReadParent
<1>2. ASSUME NEW i \in IdOfUid(ask[r].to),
             under' = [under EXCEPT ![r] = Found(i)],
             NEW x \in {"done", "free"}, TagGo(r, x)
      PROVE  TagInv'
  <2>1. OnlyMoves(r) /\ tagAt'[r] = x
    BY <1>2, MovesAtMost DEF ReadParent, TagGo
  <2>2. CASE x = "done"
    BY <2>1, <2>2, DoneKnows, Knows, ReadsOnly DEF ReadParent
  <2>3. CASE x = "free"
    <3>1. under'[r] = Found(i) /\ ask' = ask /\ seen' = seen /\ tags' = tags /\ tagUid' = tagUid
      BY <1>2, Knows DEF ReadParent, TagRows
    <3>2. IsFound(Found(i))
      BY FoundIsRow DEF TagInv, IdOfUid
    <3>3. AskSound(r)' /\ SeenSound(r)'
      BY <2>1, <2>3, <3>1, Knows
         DEF AskSound, SeenSound, OnPath, OnUid, AfterRead, ReadParent, TagIds
    <3>4. UnderSound(r)'
      <4>1. ask[r].op = "move" /\ ask[r].to # 0
        BY Knows DEF AskSound, ReadParent
      <4> QED
        BY <2>1, <2>3, <3>1, <3>2, <4>1 DEF UnderSound
    <3> QED
      BY <2>1, <2>3, <3>3, <3>4, Knows, ReadsOnly DEF ReadParent, TagPlace
  <2> QED
    BY <2>2, <2>3
<1> QED
  BY <1>1, <1>2 DEF ReadParent

LEMMA CheckFreeStep == ASSUME TagInv, NEW r \in TagRequest, CheckFree(r) PROVE TagInv'
<1>1. PICK x \in {"done", "write"} : TagGo(r, x)
  BY DEF CheckFree
<1>2. OnlyMoves(r) /\ tagAt'[r] = x
  BY <1>1, MovesAtMost DEF CheckFree, TagGo
<1>3. CASE x = "done"
  BY <1>2, <1>3, DoneKnows, Knows, ReadsOnly DEF CheckFree
<1>4. CASE x = "write"
  <2>1. AskSound(r)' /\ SeenSound(r)' /\ UnderSound(r)'
    BY <1>2, <1>4, Knows
       DEF AskSound, SeenSound, UnderSound, OnPath, OnUid, AfterRead, CheckFree, TagRows, TagIds
  <2> QED
    BY <1>2, <1>4, <2>1, Knows, ReadsOnly DEF CheckFree, TagPlace
<1> QED
  BY <1>3, <1>4

----------------------------------------------------------------------------
(* The steps that write.                                                     *)

TableInv ==
    /\ TagIds \subseteq TagId /\ \A i \in TagIds : tags[i] \in TagRow
    /\ tagged \subseteq TagIds
    /\ tagUid \in Nat /\ \A i \in TagIds : tags[i].uid \in 1..tagUid
    /\ raced \in BOOLEAN
    /\ TreeSound /\ TreeHasNoCycle /\ PathsSpellTheTree

LEMMA TablesHold == TagInv => TableInv
BY DEF TagInv, TagsTypeOK, TableInv

\* The tables stay sound, and the one request that moves knows what it should.
LEMMA Writes ==
    ASSUME TagInv, NEW r \in TagRequest, OnlyMoves(r), UidsStay, TableInv',
           tagAt'[r] \in TagPlace, segment'[r] \in 0..MaxDepth,
           AskSound(r)', SeenSound(r)', UnderSound(r)'
    PROVE  TagInv'
<1>1. /\ tagAt' \in [TagRequest -> TagPlace] /\ segment' \in [TagRequest -> 0..MaxDepth]
      /\ RequestSound'
  BY OthersKnow DEF TagInv
<1> QED
  BY <1>1 DEF TagInv, TagsTypeOK, TableInv

\* A step that writes assignments only, the last one of its request.
LEMMA AssignmentStep ==
    ASSUME TagInv, NEW r \in TagRequest, TagGo(r, "done"),
           UNCHANGED <<tags, tagUid, ask, seen, under, segment>>,
           tagged' \subseteq TagIds, raced' \in BOOLEAN, raced => raced'
    PROVE  TagInv'
<1>1. OnlyMoves(r) /\ tagAt'[r] = "done"
  BY MovesAtMost DEF TagGo
<1>2. UidsStay
  BY TablesHold DEF UidsStay, TableInv, TagIds
<1>3. TableInv'
  <2>1. TableInv
    BY TablesHold
  <2>2. TreeSound' /\ TreeHasNoCycle'
    BY <2>1 DEF TableInv, TreeSound, ParentsLive, TreeHasNoCycle, TagIds
  <2>3. PathsSpellTheTree'
    BY <2>1 DEF TableInv, PathsSpellTheTree, TagIds
  <2> QED
    BY <2>1, <2>2, <2>3 DEF TableInv, TagIds
<1> QED
  BY <1>1, <1>2, <1>3, DoneKnows, Knows, Writes

LEMMA AssignTagStep == ASSUME TagInv, NEW r \in TagRequest, AssignTag(r) PROVE TagInv'
<1>1. tagged' \subseteq TagIds
  BY TablesHold DEF AssignTag, TableInv
<1>2. raced' \in BOOLEAN /\ (raced => raced')
  BY DEF AssignTag
<1> QED
  BY <1>1, <1>2, AssignmentStep DEF AssignTag

LEMMA UntagStep == ASSUME TagInv, NEW r \in TagRequest, Untag(r) PROVE TagInv'
<1>1. tagged' \subseteq TagIds
  BY TablesHold DEF Untag, TableInv
<1>2. raced' \in BOOLEAN /\ (raced => raced')
  BY DEF Untag
<1> QED
  BY <1>1, <1>2, AssignmentStep DEF Untag

\* A row that is added below another, and that nobody is below.
LEMMA NewTagMakesNoCycle ==
    ASSUME NEW t, NEW v, NEW i, i \notin DOMAIN t, DOMAIN v = DOMAIN t \cup {i},
           \A j \in DOMAIN t : v[j].parent = t[j].parent /\ t[j].parent # i,
           v[i].parent # i,
           \A j \in DOMAIN t : j \notin Below(t, j)
    PROVE  \A j \in DOMAIN v : j \notin Below(v, j)
<1>1. i \notin Below(v, i)
  <2>1. Descends(v, i, {})
    BY DEF Descends
  <2> QED
    BY <2>1, BelowIsLeast
<1>2. ASSUME NEW j \in DOMAIN t PROVE j \notin Below(v, j)
  <2> DEFINE S == Below(t, j) \cup {i}
  <2>1. Descends(v, j, S) /\ S \subseteq DOMAIN v
    BY BelowIsClosed DEF Descends
  <2> QED
    BY <2>1, BelowIsLeast
<1> QED
  BY <1>1, <1>2

LEMMA InsertSegmentStep == ASSUME TagInv, NEW r \in TagRequest, InsertSegment(r) PROVE TagInv'
<1>1. CASE TagGo(r, "done") /\ UNCHANGED <<tags, tagUid, under, segment, raced>>
  <2>1. OnlyMoves(r) /\ tagAt'[r] = "done"
    BY <1>1, MovesAtMost DEF InsertSegment, TagGo
  <2> QED
    BY <1>1, <2>1, DoneKnows, Knows, ReadsOnly DEF InsertSegment, TagRows
<1>2. ASSUME IdOfPath(Prefix(r)) = {}, under[r].id \in TagIds \cup {NoTag},
             NEW i \in TagId, IsNextTagId(i),
             tags' = [j \in TagIds \cup {i} |-> IF j = i THEN InsertedRow(r) ELSE tags[j]],
             under' = [under EXCEPT ![r] = [id |-> i, row |-> InsertedRow(r)]],
             tagUid' = tagUid + 1,
             raced' = (raced \/ (under[r].id # NoTag /\ tags[under[r].id] # under[r].row)),
             segment' = [segment EXCEPT ![r] = @ + 1],
             TagGo(r, OnSegment(r))
      PROVE  TagInv'
  <2> DEFINE row == InsertedRow(r)
  <2>1. OnlyMoves(r) /\ tagAt'[r] = OnSegment(r)
    BY <1>2, MovesAtMost DEF InsertSegment, TagGo
  <2>2. TableInv /\ tagUid \in Nat /\ ask' = ask
    BY TablesHold DEF TableInv, InsertSegment
  <2>3. i \notin TagIds /\ TagIds \subseteq TagId /\ NoTag \notin TagId
    <3>1. \A j \in TagIds : j < i
      BY <1>2 DEF IsNextTagId
    <3>2. TagIds \subseteq TagId
      BY <2>2 DEF TableInv
    <3> QED
      BY <3>1, <3>2 DEF TagId, NoTag
  <2>4. /\ ask[r].path \in TagPath /\ segment[r] < Len(ask[r].path) /\ segment[r] \in Nat
        /\ under[r].id = NoTag => segment[r] = 0
        /\ under[r].id # NoTag => under[r].row.path = SubSeq(ask[r].path, 1, segment[r])
    BY Knows DEF AskSound, UnderSound, OnPath, PathAsk, InsertSegment
  <2>5. ask[r].path \in Seq(Slug) /\ Len(ask[r].path) \in Nat
    BY <2>4, TagPathIsSeq, TagsAssumption
  <2>6. /\ Prefix(r) = Append(SubSeq(ask[r].path, 1, segment[r]), ask[r].path[segment[r] + 1])
        /\ Prefix(r) \in Seq(Slug) /\ Prefix(r) # <<>>
    BY <2>4, <2>5, PrefixGrows DEF Prefix
  <2>7. ask[r].path[segment[r] + 1] \in Slug
    BY <2>4, <2>5, ElementOfSeq
  <2>8. /\ row.uid = tagUid + 1 /\ row.parent = under[r].id
        /\ row.slug = ask[r].path[segment[r] + 1] /\ row.path = Prefix(r)
    BY DEF InsertedRow
  <2>9. IsRow(row)
    <3>1. under[r].id \in TagId \cup {NoTag}
      BY <1>2, <2>3
    <3> QED
      BY <2>2, <2>6, <2>7, <3>1 DEF InsertedRow, IsRow, TagRow
  <2>10. under'[r] = [id |-> i, row |-> row] /\ segment'[r] = segment[r] + 1
    BY <1>2, Knows
  <2> HIDE DEF row
  <2>11. /\ DOMAIN tags' = TagIds \cup {i} /\ tags'[i] = row
         /\ \A j \in TagIds : tags'[j] = tags[j]
    BY <1>2, <2>3 DEF row
  <2>12. UidsStay
    <3> SUFFICES ASSUME NEW j \in TagIds \cup {i}
                 PROVE  \/ j \in TagIds /\ tags'[j].uid = tags[j].uid
                        \/ tags'[j].uid > tagUid
      <4>1. tagUid' = tagUid + 1 /\ DOMAIN tags' = TagIds \cup {i} /\ tagUid \in Nat
        BY <1>2, <2>2, <2>11
      <4>2. tagUid' \in Nat /\ tagUid <= tagUid'
        BY <4>1
      <4> QED
        BY <4>1, <4>2 DEF UidsStay
    <3>1. CASE j = i
      BY <2>2, <2>8, <2>11, <3>1
    <3>2. CASE j \in TagIds
      BY <2>11, <3>2
    <3> QED
      BY <3>1, <3>2
  <2>13. TableInv'
    <3>1. DOMAIN tags' \subseteq TagId /\ \A j \in DOMAIN tags' : tags'[j] \in TagRow
      BY <2>2, <2>9, <2>11 DEF TableInv, IsRow
    <3>2. tagged' \subseteq DOMAIN tags' /\ raced' \in BOOLEAN
      BY <1>2, <2>2, <2>11 DEF TableInv, InsertSegment
    <3>3. tagUid' \in Nat /\ \A j \in DOMAIN tags' : tags'[j].uid \in 1..tagUid'
      BY <1>2, <2>2, <2>8, <2>11 DEF TableInv
    <3>4. TreeSound'
      <4>1. \A j, k \in DOMAIN tags' : tags'[j].uid = tags'[k].uid => j = k
        <5>1. \A j \in TagIds : tags'[j].uid # row.uid
          BY <2>2, <2>8, <2>11 DEF TableInv
        <5>2. \A j, k \in TagIds : tags'[j].uid = tags'[k].uid => j = k
          BY <2>2, <2>11 DEF TableInv, TreeSound
        <5> QED
          BY <2>11, <5>1, <5>2
      <4>2. \A j \in DOMAIN tags' : tags'[j].path # <<>>
        BY <2>2, <2>9, <2>11 DEF TableInv, TreeSound, IsRow
      <4>3. ParentsLive(tags')
        BY <1>2, <2>2, <2>8, <2>11 DEF TableInv, TreeSound, ParentsLive, TagIds
      <4> QED
        BY <4>1, <4>2, <4>3 DEF TreeSound, TagIds
    <3>5. TreeHasNoCycle'
      <4>1. \A j \in DOMAIN tags : tags'[j].parent = tags[j].parent /\ tags[j].parent # i
        BY <2>2, <2>3, <2>11 DEF TableInv, TreeSound, ParentsLive, TagIds
      <4>2. tags'[i].parent # i
        BY <1>2, <2>3, <2>8, <2>11
      <4>3. \A j \in DOMAIN tags : j \notin Below(tags, j)
        BY <2>2 DEF TableInv, TreeHasNoCycle, TagIds
      <4> QED
        BY <2>3, <2>11, <4>1, <4>2, <4>3, NewTagMakesNoCycle DEF TreeHasNoCycle, TagIds
    <3>6. PathsSpellTheTree'
      <4> SUFFICES ASSUME ~raced', NEW j \in DOMAIN tags' PROVE PathAgrees(tags', j)
        BY DEF PathsSpellTheTree, TagIds
      <4>1. /\ \A k \in TagIds : PathAgrees(tags, k)
            /\ under[r].id = NoTag \/ tags[under[r].id] = under[r].row
        BY <1>2, <2>2 DEF TableInv, PathsSpellTheTree
      <4>2. CASE j \in TagIds
        <5>1. tags[j].parent \in TagIds \cup {NoTag}
          BY <2>2, <4>2 DEF TableInv, TreeSound, ParentsLive, TagIds
        <5> QED
          BY <2>11, <4>1, <4>2, <5>1 DEF PathAgrees, TagIds
      <4>3. CASE j = i /\ under[r].id = NoTag
        <5>1. SubSeq(ask[r].path, 1, segment[r]) = <<>>
          BY <2>4, <4>3, SubSeqEmpty
        <5>2. Append(SubSeq(ask[r].path, 1, segment[r]), ask[r].path[segment[r] + 1])
                  = <<ask[r].path[segment[r] + 1]>>
          BY <2>7, <5>1, OneSegment
        <5> QED
          BY <2>6, <2>8, <2>11, <4>3, <5>2 DEF PathAgrees
      <4>4. CASE j = i /\ under[r].id # NoTag
        <5>1. under[r].id \in TagIds /\ tags'[under[r].id] = under[r].row
          BY <1>2, <2>11, <4>1, <4>4
        <5> QED
          BY <2>4, <2>6, <2>8, <2>11, <4>4, <5>1 DEF PathAgrees
      <4> QED
        BY <2>11, <4>2, <4>3, <4>4
    <3> QED
      BY <3>1, <3>2, <3>3, <3>4, <3>5, <3>6 DEF TableInv, TagIds
  <2>14. IsFound(under'[r]) /\ under'[r].row.path = Prefix(r)
    BY <2>8, <2>9, <2>10 DEF IsFound
  <2>15. /\ AskSound(r)' /\ SeenSound(r)' /\ UnderSound(r)'
         /\ tagAt'[r] \in TagPlace /\ segment'[r] \in 0..MaxDepth
    BY <1>2, <2>1, <2>2, <2>10, <2>14, NextSegment DEF InsertSegment
  <2> QED
    BY <2>1, <2>12, <2>13, <2>15, Writes
<1> QED
  BY <1>1, <1>2 DEF InsertSegment

\* A subtree that goes leaves the rest as it was.
LEMMA DeleteTagStep == ASSUME TagInv, NEW r \in TagRequest, DeleteTag(r) PROVE TagInv'
<1> DEFINE gone == UNION {{i} \cup Below(tags, i) : i \in IdOfUid(ask[r].uid)}
<1>1. OnlyMoves(r) /\ tagAt'[r] = "done"
  BY MovesAtMost DEF DeleteTag, TagGo
<1>2. TableInv
  BY TablesHold
<1>3. /\ tags' = [i \in TagIds \ gone |-> tags[i]] /\ tagged' = tagged \ gone
      /\ tagUid' = tagUid /\ raced' = raced
  BY DEF DeleteTag, OtherAssignments
<1>4. \A i \in TagIds : tags[i].parent \in gone => i \in gone
  <2> SUFFICES ASSUME NEW i \in TagIds, NEW k \in IdOfUid(ask[r].uid),
                      tags[i].parent \in {k} \cup Below(tags, k)
               PROVE  i \in Below(tags, k)
    OBVIOUS
  <2> QED
    BY BelowIsClosed DEF Descends, TagIds
<1> HIDE DEF gone
<1>5. /\ DOMAIN tags' = TagIds \ gone
      /\ \A i \in TagIds \ gone : tags'[i] = tags[i]
  BY <1>3
<1>6. UidsStay
  BY <1>2, <1>3, <1>5 DEF UidsStay, TableInv
<1>7. TableInv'
  <2>1. TreeSound'
    <3>1. ParentsLive(tags')
      BY <1>2, <1>4, <1>5 DEF TableInv, TreeSound, ParentsLive, TagIds
    <3>2. /\ \A i, j \in DOMAIN tags' : tags'[i].uid = tags'[j].uid => i = j
          /\ \A i \in DOMAIN tags' : tags'[i].path # <<>>
      BY <1>2, <1>5 DEF TableInv, TreeSound
    <3> QED
      BY <3>1, <3>2 DEF TreeSound, TagIds
  <2>2. TreeHasNoCycle'
    <3> SUFFICES ASSUME NEW i \in DOMAIN tags' PROVE i \notin Below(tags', i)
      BY DEF TreeHasNoCycle, TagIds
    <3> DEFINE S == Below(tags, i) \ gone
    <3>1. Descends(tags', i, S) /\ S \subseteq DOMAIN tags'
      BY <1>5, BelowIsClosed DEF Descends, TagIds
    <3>2. i \notin Below(tags, i)
      BY <1>2, <1>5 DEF TableInv, TreeHasNoCycle
    <3> QED
      BY <3>1, <3>2, BelowIsLeast
  <2>3. PathsSpellTheTree'
    <3> SUFFICES ASSUME ~raced', NEW i \in DOMAIN tags' PROVE PathAgrees(tags', i)
      BY DEF PathsSpellTheTree, TagIds
    <3>1. PathAgrees(tags, i) /\ tags'[i] = tags[i] /\ i \in TagIds \ gone
      BY <1>2, <1>3, <1>5 DEF TableInv, PathsSpellTheTree
    <3>2. tags[i].parent # NoTag => tags[i].parent \in DOMAIN tags'
      BY <1>2, <1>4, <1>5, <3>1 DEF TableInv, TreeSound, ParentsLive, TagIds
    <3> QED
      BY <1>5, <3>1, <3>2 DEF PathAgrees
  <2> QED
    BY <1>2, <1>3, <1>5, <2>1, <2>2, <2>3 DEF TableInv, TagIds
<1>8. segment'[r] \in 0..MaxDepth
  BY Knows DEF DeleteTag
<1> QED
  BY <1>1, <1>6, <1>7, <1>8, DoneKnows, Writes

----------------------------------------------------------------------------
(* The transaction of a rename or a move.                                    *)

\* What it is about to write.
LEMMA NewPathIsPath ==
    ASSUME TagInv, NEW r \in TagRequest, tagAt[r] = "write"
    PROVE  /\ NewPath(r) \in Seq(Slug) /\ NewPath(r) # <<>> /\ NewSlug(r) \in Slug
           /\ ask[r].op = "move" => NewParent(r) \in TagId \cup {NoTag}
<1>1. /\ IsFound(seen[r]) /\ ask[r] \in UidAsk /\ ask[r].op \in {"rename", "move"}
      /\ IF ask[r].op = "move" /\ ask[r].to # 0
         THEN IsFound(under[r]) ELSE under[r].id = NoTag
  BY Knows DEF AskSound, SeenSound, UnderSound, OnUid, AfterRead
<1>2. seen[r].row.slug \in Slug /\ seen[r].row.path \in Seq(Slug) /\ seen[r].row.path # <<>>
  BY <1>1 DEF IsFound, IsRow, TagRow
<1>3. NewSlug(r) \in Slug
  BY <1>1, <1>2 DEF NewSlug, UidAsk
<1>4. CASE ask[r].op = "move" /\ ask[r].to = 0
  <2> DEFINE e == <<NewSlug(r)>>
  <2>1. e \in Seq(Slug) /\ e # <<>>
    BY <1>3
  <2>2. NewPath(r) = e /\ NewParent(r) = NoTag
    BY <1>1, <1>4 DEF NewPath, NewParent
  <2> HIDE DEF e
  <2> QED
    BY <1>3, <2>1, <2>2
<1>5. CASE ask[r].op = "move" /\ ask[r].to # 0
  <2>1. PathAbove(r) \in Seq(Slug) /\ NewParent(r) \in TagId
    BY <1>1, <1>5 DEF PathAbove, NewParent, IsFound, IsRow, TagRow
  <2>2. NewPath(r) = Append(PathAbove(r), NewSlug(r))
    BY <1>5 DEF NewPath
  <2> QED
    BY <1>3, <2>1, <2>2, AppendProperties
<1>6. CASE ask[r].op = "rename"
  <2>1. PathAbove(r) \in Seq(Slug)
    <3>1. Len(seen[r].row.path) \in Nat
      BY <1>2, LenProperties
    <3>2. \A i \in 1 .. Len(seen[r].row.path) - 1 : seen[r].row.path[i] \in Slug
      BY <1>2, <3>1, ElementOfSeq
    <3>3. SubSeq(seen[r].row.path, 1, Len(seen[r].row.path) - 1) \in Seq(Slug)
      BY <3>1, <3>2, SubSeqProperties
    <3> QED
      BY <1>6, <3>3 DEF PathAbove
  <2>2. NewPath(r) = Append(PathAbove(r), NewSlug(r))
    BY <1>6 DEF NewPath
  <2> QED
    BY <1>3, <1>6, <2>1, <2>2, AppendProperties
<1> QED
  BY <1>1, <1>4, <1>5, <1>6

LEMMA RewrittenIsPath ==
    ASSUME TagInv, NEW r \in TagRequest, tagAt[r] = "write", NEW p \in Seq(Slug)
    PROVE  Rewritten(r, p) \in Seq(Slug) /\ Rewritten(r, p) # <<>>
<1>1. NewPath(r) \in Seq(Slug) /\ NewPath(r) # <<>>
  BY NewPathIsPath
<1>2. seen[r].row.path \in Seq(Slug)
  BY Knows DEF SeenSound, AfterRead, IsFound, IsRow, TagRow
<1> DEFINE k == Len(seen[r].row.path)
           x == SubSeq(p, k + 1, Len(p))
<1>3. k \in Nat /\ Len(p) \in Nat
  BY <1>2, LenProperties
<1>4. \A i \in k + 1 .. Len(p) : p[i] \in Slug
  BY <1>3, ElementOfSeq
<1>5. x \in Seq(Slug)
  <2> HIDE DEF k
  <2> QED
    BY <1>3, <1>4, SubSeqProperties
<1>6. Rewritten(r, p) = NewPath(r) \o x
  BY DEF Rewritten
<1> HIDE DEF k, x
<1>7. NewPath(r) \o x \in Seq(Slug) /\ NewPath(r) \o x # <<>>
  BY <1>1, <1>5, ConcatProperties, ConcatEqualIffEmpty
<1> QED
  BY <1>6, <1>7

\* The first UPDATE touches the tag it has read, if that is still there.
LEMMA FirstUpdateRows ==
    ASSUME TagInv, NEW r \in TagRequest, tagAt[r] = "write"
    PROVE  /\ DOMAIN FirstUpdate(r) = TagIds
           /\ \A i \in TagIds :
                /\ IsRow(FirstUpdate(r)[i]) /\ FirstUpdate(r)[i].uid = tags[i].uid
                /\ tags[i].uid # ask[r].uid => FirstUpdate(r)[i] = tags[i]
                /\ tags[i].uid = ask[r].uid =>
                    /\ i = seen[r].id
                    /\ FirstUpdate(r)[i].path = NewPath(r)
                    /\ ask[r].op = "rename" => FirstUpdate(r)[i].slug = NewSlug(r)
                    /\ ask[r].op = "move" => FirstUpdate(r)[i].slug = tags[i].slug
                    /\ ask[r].op = "rename" => FirstUpdate(r)[i].parent = tags[i].parent
                    /\ ask[r].op = "move" => FirstUpdate(r)[i].parent = NewParent(r)
<1>1. /\ NewPath(r) \in Seq(Slug) /\ NewPath(r) # <<>> /\ NewSlug(r) \in Slug
      /\ ask[r].op = "move" => NewParent(r) \in TagId \cup {NoTag}
  BY NewPathIsPath
<1>2. /\ ask[r].op \in {"rename", "move"}
      /\ \A i \in TagIds : tags[i].uid = ask[r].uid => i = seen[r].id
  BY Knows DEF AskSound, SeenSound, AfterRead
<1>3. DOMAIN FirstUpdate(r) = TagIds
  BY DEF FirstUpdate
<1>4. ASSUME NEW i \in TagIds
      PROVE  /\ IsRow(FirstUpdate(r)[i]) /\ FirstUpdate(r)[i].uid = tags[i].uid
             /\ tags[i].uid # ask[r].uid => FirstUpdate(r)[i] = tags[i]
             /\ tags[i].uid = ask[r].uid =>
                 /\ i = seen[r].id
                 /\ FirstUpdate(r)[i].path = NewPath(r)
                 /\ ask[r].op = "rename" => FirstUpdate(r)[i].slug = NewSlug(r)
                 /\ ask[r].op = "move" => FirstUpdate(r)[i].slug = tags[i].slug
                 /\ ask[r].op = "rename" => FirstUpdate(r)[i].parent = tags[i].parent
                 /\ ask[r].op = "move" => FirstUpdate(r)[i].parent = NewParent(r)
  <2>1. tags[i] \in TagRow /\ tags[i].path # <<>>
    BY TablesHold DEF TableInv, TreeSound
  <2>2. CASE tags[i].uid # ask[r].uid
    <3>1. FirstUpdate(r)[i] = tags[i]
      BY <2>2 DEF FirstUpdate
    <3> QED
      BY <2>1, <2>2, <3>1 DEF IsRow
  <2>3. CASE tags[i].uid = ask[r].uid
    <3> DEFINE slug == IF ask[r].op = "rename" THEN NewSlug(r) ELSE tags[i].slug
               parent == IF ask[r].op = "move" THEN NewParent(r) ELSE tags[i].parent
               row == [tags[i] EXCEPT !.slug = slug, !.parent = parent, !.path = NewPath(r)]
    <3>1. FirstUpdate(r)[i] = row
      BY <2>3 DEF FirstUpdate
    <3>2. slug \in Slug /\ parent \in TagId \cup {NoTag}
      BY <1>1, <2>1 DEF TagRow
    <3> HIDE DEF slug, parent
    <3>3. /\ row \in TagRow /\ row.path = NewPath(r) /\ row.slug = slug /\ row.parent = parent
          /\ row.uid = tags[i].uid
      BY <1>1, <2>1, <3>2 DEF TagRow
    <3> HIDE DEF row
    <3>4. IsRow(row)
      BY <1>1, <3>3 DEF IsRow
    <3> QED
      BY <1>2, <2>3, <3>1, <3>3, <3>4 DEF slug, parent
  <2> QED
    BY <2>2, <2>3
<1> QED
  BY <1>3, <1>4

\* The second one touches the paths below.
LEMMA SecondUpdateRows ==
    ASSUME TagInv, NEW r \in TagRequest, tagAt[r] = "write",
           NEW t, \A i \in DOMAIN t : IsRow(t[i])
    PROVE  /\ DOMAIN SecondUpdate(r, t) = DOMAIN t
           /\ \A i \in DOMAIN t :
                /\ IsRow(SecondUpdate(r, t)[i])
                /\ SecondUpdate(r, t)[i].uid = t[i].uid
                /\ SecondUpdate(r, t)[i].slug = t[i].slug
                /\ SecondUpdate(r, t)[i].parent = t[i].parent
                /\ SecondUpdate(r, t)[i].path =
                       IF i \in Below(t, seen[r].id) THEN Rewritten(r, t[i].path) ELSE t[i].path
<1>1. DOMAIN SecondUpdate(r, t) = DOMAIN t
  BY DEF SecondUpdate
<1>2. ASSUME NEW i \in DOMAIN t
      PROVE  /\ IsRow(SecondUpdate(r, t)[i])
             /\ SecondUpdate(r, t)[i].uid = t[i].uid
             /\ SecondUpdate(r, t)[i].slug = t[i].slug
             /\ SecondUpdate(r, t)[i].parent = t[i].parent
             /\ SecondUpdate(r, t)[i].path =
                    IF i \in Below(t, seen[r].id) THEN Rewritten(r, t[i].path) ELSE t[i].path
  <2>1. t[i] \in TagRow /\ IsRow(t[i]) /\ t[i].path \in Seq(Slug)
    BY DEF IsRow, TagRow
  <2>2. CASE i \in Below(t, seen[r].id)
    <3> DEFINE p == Rewritten(r, t[i].path)
               row == [t[i] EXCEPT !.path = p]
    <3>1. SecondUpdate(r, t)[i] = row
      BY <2>2 DEF SecondUpdate
    <3>2. p \in Seq(Slug) /\ p # <<>>
      BY <2>1, RewrittenIsPath
    <3> HIDE DEF p
    <3>3. /\ row \in TagRow /\ row.uid = t[i].uid /\ row.slug = t[i].slug
          /\ row.parent = t[i].parent /\ row.path = p
      BY <2>1, <3>2 DEF TagRow
    <3> HIDE DEF row
    <3>4. IsRow(row)
      BY <3>2, <3>3 DEF IsRow
    <3> QED
      BY <2>2, <3>1, <3>3, <3>4 DEF p
  <2>3. CASE i \notin Below(t, seen[r].id)
    <3>1. SecondUpdate(r, t)[i] = t[i]
      BY <2>3 DEF SecondUpdate
    <3> QED
      BY <2>1, <2>3, <3>1
  <2> QED
    BY <2>2, <2>3
<1> QED
  BY <1>1, <1>2

(* What the rewritten paths spell, if the rows it has read are as they were. *)
LEMMA RewrittenPathsAgree ==
    ASSUME TagInv, NEW r \in TagRequest, tagAt[r] = "write", ~raced,
           Unchanged(seen[r]), Unchanged(under[r]),
           NEW t, t = FirstUpdate(r), ParentsLive(t), ~NeverEnds(t, seen[r].id),
           NEW i \in TagIds
    PROVE  PathAgrees(SecondUpdate(r, t), i)
<1> DEFINE m == seen[r].id
           P == tags[m].path
           L == Len(P)
           u == SecondUpdate(r, t)
<1>1. /\ m \in TagIds /\ tags[m] = seen[r].row /\ tags[m].uid = ask[r].uid
      /\ ask[r] \in UidAsk /\ ask[r].op \in {"rename", "move"}
      /\ IF ask[r].op = "move" /\ ask[r].to # 0
         THEN IsFound(under[r]) ELSE under[r].id = NoTag
      /\ TableInv
  BY Knows, TablesHold
     DEF AskSound, SeenSound, UnderSound, OnUid, AfterRead, IsFound, TagId, NoTag, Unchanged
<1>2. NoTag \notin TagIds
  BY <1>1 DEF TableInv, TagId, NoTag
<1>3. \A j \in TagIds : PathAgrees(tags, j) /\ tags[j].path \in Seq(Slug) /\ tags[j].slug \in Slug
  BY <1>1 DEF TableInv, PathsSpellTheTree, TagRow
<1>4. /\ DOMAIN t = TagIds
      /\ \A j \in TagIds : j # m => t[j] = tags[j]
      /\ t[m].path = NewPath(r)
      /\ ask[r].op = "rename" => t[m].slug = NewSlug(r) /\ t[m].parent = tags[m].parent
      /\ ask[r].op = "move" => t[m].slug = tags[m].slug /\ t[m].parent = NewParent(r)
      /\ \A j \in TagIds : IsRow(t[j])
  <2>1. \A j \in TagIds : j # m => tags[j].uid # ask[r].uid
    BY <1>1 DEF TableInv, TreeSound
  <2> HIDE DEF m
  <2> QED
    BY <1>1, <2>1, FirstUpdateRows
<1>5. m \notin Below(t, m)
  BY DEF NeverEnds
<1>6. /\ DOMAIN u = TagIds
      /\ \A j \in TagIds :
            /\ u[j].slug = t[j].slug /\ u[j].parent = t[j].parent
            /\ j \notin Below(t, m) => u[j].path = t[j].path
            /\ j \in Below(t, m) => u[j].path = Rewritten(r, t[j].path)
  BY <1>4, SecondUpdateRows
<1>7. \A j \in TagIds : t[j].parent \in Below(t, m) \cup {m} => j \in Below(t, m)
  BY <1>4, BelowIsClosed DEF Descends
<1>8. Below(t, m) \subseteq TagIds
  BY <1>4, BelowIsClosed
<1>9. L \in Nat /\ P \in Seq(Slug) /\ NewPath(r) \in Seq(Slug) /\ NewSlug(r) \in Slug
  BY <1>1, <1>3, LenProperties, NewPathIsPath
<1> HIDE DEF u
<1>10. CASE i = m
  <2> DEFINE q == t[m].parent
  <2>1. u[m].path = NewPath(r) /\ u[m].slug = t[m].slug /\ u[m].parent = q
    BY <1>1, <1>4, <1>5, <1>6
  <2>2. q # m /\ q \notin Below(t, m)
    BY <1>1, <1>5, <1>7
  <2>3. q \in TagIds => u[q].path = tags[q].path
    BY <1>4, <1>6, <2>2
  <2>4. CASE ask[r].op = "rename"
    <3>1. NewPath(r) = Append(SubSeq(P, 1, L - 1), NewSlug(r)) /\ q = tags[m].parent
      BY <1>1, <1>4, <2>4 DEF NewPath, PathAbove
    <3>2. CASE q = NoTag
      <4> DEFINE e == <<tags[m].slug>>
      <4>1. P = e /\ Len(e) = 1
        BY <1>1, <1>3, <3>1, <3>2 DEF PathAgrees
      <4> HIDE DEF e, P
      <4>2. L - 1 = 0
        BY <4>1
      <4> HIDE DEF L
      <4>3. SubSeq(P, 1, L - 1) = <<>>
        BY <4>2, SubSeqEmpty
      <4>4. NewPath(r) = <<NewSlug(r)>>
        BY <1>9, <3>1, <4>3, OneSegment
      <4> QED
        BY <1>4, <1>10, <2>1, <2>4, <3>2, <4>4 DEF PathAgrees, u
    <3>3. CASE q # NoTag
      <4>1. q \in TagIds /\ P = Append(tags[q].path, tags[m].slug)
        BY <1>1, <1>3, <3>1, <3>3 DEF PathAgrees, TagIds
      <4>2. SubSeq(P, 1, L - 1) = tags[q].path
        <5> DEFINE x == tags[q].path
                   s == tags[m].slug
        <5>1. x \in Seq(Slug) /\ s \in Slug /\ P = Append(x, s)
          BY <1>1, <1>3, <4>1
        <5> HIDE DEF x, s, P
        <5>2. SubSeq(Append(x, s), 1, Len(Append(x, s)) - 1) = x
          BY <5>1, FrontOfAppend
        <5> QED
          BY <5>1, <5>2 DEF x
      <4>3. u[m].path = Append(u[q].path, u[m].slug)
        BY <1>4, <2>1, <2>3, <2>4, <3>1, <4>1, <4>2
      <4> HIDE DEF q
      <4> QED
        BY <1>6, <1>10, <2>1, <3>3, <4>1, <4>3 DEF PathAgrees, u
    <3> QED
      BY <3>2, <3>3
  <2>5. CASE ask[r].op = "move" /\ ask[r].to = 0
    <3>1. NewPath(r) = <<tags[m].slug>> /\ q = NoTag
      BY <1>1, <1>4, <2>5 DEF NewPath, NewSlug, NewParent
    <3> QED
      BY <1>4, <1>10, <2>1, <2>5, <3>1 DEF PathAgrees, u
  <2>6. CASE ask[r].op = "move" /\ ask[r].to # 0
    <3>1. q = under[r].id /\ q # NoTag /\ q \in TagIds /\ tags[q] = under[r].row
      BY <1>1, <1>4, <2>6 DEF NewParent, Unchanged, IsFound, TagId, NoTag
    <3>2. NewPath(r) = Append(tags[q].path, tags[m].slug)
      BY <1>1, <2>6, <3>1 DEF NewPath, NewSlug, PathAbove
    <3>3. u[m].path = Append(u[q].path, u[m].slug)
      BY <1>4, <2>1, <2>3, <2>6, <3>1, <3>2
    <3> HIDE DEF q
    <3> QED
      BY <1>6, <1>10, <2>1, <3>1, <3>3 DEF PathAgrees, u
  <2> QED
    BY <1>1, <2>4, <2>5, <2>6
<1>11. CASE i # m /\ i \notin Below(t, m)
  <2>1. u[i].path = tags[i].path /\ u[i].slug = tags[i].slug /\ u[i].parent = tags[i].parent
    BY <1>4, <1>6, <1>11
  <2>2. PathAgrees(tags, i) /\ t[i].parent = tags[i].parent
    BY <1>3, <1>4, <1>11
  <2>3. tags[i].parent # m /\ tags[i].parent \notin Below(t, m)
    BY <1>7, <1>11, <2>2
  <2>4. tags[i].parent \in TagIds => u[tags[i].parent].path = tags[tags[i].parent].path
    BY <1>4, <1>6, <2>3
  <2> QED
    BY <1>6, <2>1, <2>2, <2>4 DEF PathAgrees, u, TagIds
<1>12. CASE i \in Below(t, m)
  <2> DEFINE q == tags[i].parent
  <2>1. i # m /\ t[i] = tags[i]
    BY <1>4, <1>5, <1>12
  <2>2. q \in Below(t, m) \cup {m}
    BY <1>12, <2>1, BelowHasParent
  <2>3. q \in TagIds /\ q # NoTag
    BY <1>1, <1>2, <1>8, <2>2
  <2>4. tags[i].path = Append(tags[q].path, tags[i].slug)
    BY <1>3, <2>3 DEF PathAgrees
  <2>5. L <= Len(tags[q].path)
    <3> DEFINE S == {j \in Below(t, m) : L <= Len(tags[j].path)}
    <3>1. Descends(t, m, S)
      <4> SUFFICES ASSUME NEW j \in TagIds, t[j].parent \in S \cup {m} PROVE j \in S
        BY <1>4 DEF Descends
      <4>1. j \in Below(t, m) /\ j # m /\ t[j] = tags[j]
        BY <1>4, <1>5, <1>7
      <4>2. /\ tags[j].parent \in TagIds /\ tags[j].parent # NoTag
            /\ L <= Len(tags[tags[j].parent].path)
        BY <1>1, <1>2, <1>8, <1>9, <4>1
      <4>3. tags[j].path = Append(tags[tags[j].parent].path, tags[j].slug)
        BY <1>3, <4>2 DEF PathAgrees
      <4>4. Len(tags[j].path) = Len(tags[tags[j].parent].path) + 1
        BY <1>3, <4>2, <4>3, AppendProperties
      <4>5. Len(tags[tags[j].parent].path) \in Nat
        BY <1>3, <4>2, LenProperties
      <4> QED
        BY <1>9, <4>1, <4>2, <4>4, <4>5, SMTT(20)
    <3>2. S \subseteq DOMAIN t
      BY <1>4, <1>8
    <3>3. Below(t, m) \subseteq S
      BY <3>1, <3>2, BelowIsLeast
    <3> QED
      BY <1>9, <2>2, <3>3
  <2>6. u[i].path = NewPath(r) \o SubSeq(tags[i].path, L + 1, Len(tags[i].path))
    BY <1>1, <1>6, <1>8, <1>12, <2>1 DEF Rewritten
  <2>7. u[i].path = Append(NewPath(r) \o SubSeq(tags[q].path, L + 1, Len(tags[q].path)), tags[i].slug)
    <3>1. tags[q].path \in Seq(Slug) /\ tags[i].slug \in Slug
      BY <1>3, <2>3
    <3> DEFINE x == tags[q].path
               s == tags[i].slug
    <3>2. /\ x \in Seq(Slug) /\ s \in Slug /\ L \in Nat /\ L <= Len(x) /\ NewPath(r) \in Seq(Slug)
          /\ tags[i].path = Append(x, s)
      BY <1>9, <2>4, <2>5, <3>1
    <3> HIDE DEF L, x, s
    <3>3. NewPath(r) \o SubSeq(Append(x, s), L + 1, Len(Append(x, s)))
              = Append(NewPath(r) \o SubSeq(x, L + 1, Len(x)), s)
      BY <3>2, CutAppend
    <3> QED
      BY <2>6, <3>2, <3>3 DEF x, s
  <2>8. NewPath(r) \o SubSeq(tags[q].path, L + 1, Len(tags[q].path)) = u[q].path
    <3>1. CASE q \in Below(t, m)
      <4>1. q # m
        BY <1>5, <3>1
      <4> QED
        BY <1>1, <1>4, <1>6, <2>3, <3>1, <4>1 DEF Rewritten
    <3>2. CASE q = m
      <4>1. SubSeq(P, L + 1, L) = <<>>
        <5> HIDE DEF L, P
        <5> QED
          BY <1>9, SubSeqEmpty
      <4>2. u[m].path = NewPath(r)
        BY <1>1, <1>4, <1>5, <1>6
      <4> QED
        BY <1>9, <3>2, <4>1, <4>2, ConcatEmptySeq
    <3> QED
      BY <2>2, <3>1, <3>2
  <2>9. u[i].parent = q /\ u[i].slug = tags[i].slug
    BY <1>6, <2>1
  <2> QED
    BY <1>6, <2>3, <2>7, <2>8, <2>9, ZenonT(40) DEF PathAgrees, u
<1> QED
  BY <1>10, <1>11, <1>12

LEMMA RewriteStep == ASSUME TagInv, NEW r \in TagRequest, Rewrite(r) PROVE TagInv'
<1> DEFINE t == FirstUpdate(r)
           u == SecondUpdate(r, t)
<1>1. tagAt[r] = "write"
  BY DEF Rewrite
<1>2. CASE TagGo(r, "looping") /\ UNCHANGED <<tags, raced>>
  <2>1. OnlyMoves(r) /\ tagAt'[r] = "looping"
    BY <1>2, MovesAtMost DEF Rewrite, TagGo
  <2>2. AskSound(r)' /\ SeenSound(r)' /\ UnderSound(r)'
    BY <1>1, <2>1, Knows DEF AskSound, SeenSound, UnderSound, OnPath, OnUid, AfterRead, Rewrite
  <2> QED
    BY <1>2, <2>1, <2>2, Knows, ReadsOnly DEF Rewrite, TagRows, TagPlace
<1>3. CASE TagGo(r, "done") /\ UNCHANGED <<tags, raced>>
  <2>1. OnlyMoves(r) /\ tagAt'[r] = "done"
    BY <1>3, MovesAtMost DEF Rewrite, TagGo
  <2> QED
    BY <1>3, <2>1, DoneKnows, Knows, ReadsOnly DEF Rewrite, TagRows
<1>4. ASSUME TagGo(r, "done"), ~NeverEnds(t, seen[r].id), ParentsLive(t), tags' = u,
             raced' = (raced \/ ~Unchanged(seen[r]) \/ ~Unchanged(under[r]))
      PROVE  TagInv'
  <2>1. OnlyMoves(r) /\ tagAt'[r] = "done"
    BY <1>4, MovesAtMost DEF Rewrite, TagGo
  <2>2. TableInv
    BY TablesHold
  <2>3. /\ DOMAIN t = TagIds
        /\ \A i \in TagIds :
            /\ IsRow(t[i]) /\ t[i].uid = tags[i].uid
            /\ i # seen[r].id => t[i].parent = tags[i].parent
    BY <1>1, FirstUpdateRows
  <2> HIDE DEF t
  <2>4. /\ DOMAIN tags' = TagIds
        /\ \A i \in TagIds :
            IsRow(tags'[i]) /\ tags'[i].uid = tags[i].uid /\ tags'[i].parent = t[i].parent
    BY <1>1, <1>4, <2>3, SecondUpdateRows
  <2>5. tagUid' = tagUid /\ tagged' = tagged
    BY DEF Rewrite
  <2>6. UidsStay
    BY <2>2, <2>4, <2>5 DEF UidsStay, TableInv
  <2>7. TableInv'
    <3>1. TreeSound'
      <4>1. ParentsLive(tags')
        BY <1>4, <2>3, <2>4 DEF ParentsLive
      <4> QED
        BY <2>2, <2>4, <4>1 DEF TableInv, TreeSound, IsRow, TagIds
    <3>2. TreeHasNoCycle'
      <4>1. \A j \in TagIds : j \notin Below(t, j)
        <5>1. seen[r].id \notin Below(t, seen[r].id)
          BY <1>4 DEF NeverEnds
        <5>2. \A j \in TagIds : j \notin Below(tags, j)
          BY <2>2 DEF TableInv, TreeHasNoCycle
        <5> QED
          BY <2>3, <5>1, <5>2, MoveMakesNoCycle DEF TagIds
      <4>2. \A j : Below(tags', j) = Below(t, j)
        BY <2>3, <2>4, BelowByParents
      <4> QED
        BY <2>4, <4>1, <4>2 DEF TreeHasNoCycle, TagIds
    <3>3. PathsSpellTheTree'
      <4> SUFFICES ASSUME ~raced', NEW i \in TagIds PROVE PathAgrees(tags', i)
        BY <2>4 DEF PathsSpellTheTree, TagIds
      <4>1. ~raced /\ Unchanged(seen[r]) /\ Unchanged(under[r])
        BY <1>4
      <4> QED
        BY <1>1, <1>4, <4>1, RewrittenPathsAgree DEF t
    <3>4. raced' \in BOOLEAN
      BY <1>4
    <3> QED
      BY <2>2, <2>4, <2>5, <3>1, <3>2, <3>3, <3>4 DEF TableInv, IsRow, TagIds
  <2>8. segment'[r] \in 0..MaxDepth
    BY Knows DEF Rewrite
  <2> QED
    BY <2>1, <2>6, <2>7, <2>8, DoneKnows, Writes
<1> QED
  BY <1>2, <1>3, <1>4 DEF Rewrite

----------------------------------------------------------------------------
(* The trees that requests one after another have made.                      *)

IsFixed(f, n, parent, slug) ==
    f = [i \in 0..n |-> IF i = 0 THEN <<>> ELSE Append(f[parent[i]], slug[i])]

LEMMA PathsExist ==
    ASSUME NEW n \in 0..3, NEW parent \in [1..n -> 0..2], NEW slug \in [1..n -> Slug],
           \A i \in 1..n : parent[i] < i
    PROVE  \E f : IsFixed(f, n, parent, slug)
<1> DEFINE p1 == Append(<<>>, slug[1])
           p2 == Append(IF parent[2] = 0 THEN <<>> ELSE p1, slug[2])
           p3 == Append(IF parent[3] = 0 THEN <<>> ELSE IF parent[3] = 1 THEN p1 ELSE p2, slug[3])
           f == [i \in 0..n |-> IF i = 0 THEN <<>> ELSE IF i = 1 THEN p1
                                ELSE IF i = 2 THEN p2 ELSE p3]
<1>1. \A i \in 1..n : i \in {1, 2, 3} /\ parent[i] \in 0..i - 1 /\ slug[i] \in Slug
  OBVIOUS
<1>2. f = [i \in 0..n |-> IF i = 0 THEN <<>> ELSE Append(f[parent[i]], slug[i])]
  <2>1. ASSUME NEW i \in 1..n PROVE f[i] = Append(f[parent[i]], slug[i])
    <3>1. 0 \in 0..n /\ i \in 0..n /\ parent[i] \in 0..n
      BY <1>1
    <3>2. CASE i = 1
      <4>1. parent[i] = 0
        BY <1>1, <3>2
      <4>2. f[parent[i]] = <<>> /\ f[i] = p1
        BY <3>1, <3>2, <4>1
      <4> QED
        BY <3>2, <4>2
    <3>3. CASE i = 2
      <4>1. parent[i] \in {0, 1}
        BY <1>1, <3>3
      <4> HIDE DEF p1
      <4>2. f[i] = p2 /\ f[parent[i]] = IF parent[2] = 0 THEN <<>> ELSE p1
        BY <3>1, <3>3, <4>1
      <4> QED
        BY <3>3, <4>2
    <3>4. CASE i = 3
      <4>1. parent[i] \in {0, 1, 2}
        BY <1>1, <3>4
      <4> HIDE DEF p1, p2
      <4>2. f[i] = p3 /\ f[parent[i]] = IF parent[3] = 0 THEN <<>>
                                         ELSE IF parent[3] = 1 THEN p1 ELSE p2
        BY <3>1, <3>4, <4>1
      <4> QED
        BY <3>4, <4>2
    <3> QED
      BY <1>1, <3>2, <3>3, <3>4
  <2>2. f[0] = <<>>
    OBVIOUS
  <2> HIDE DEF p1, p2, p3
  <2>3. f = [i \in 0..n |-> f[i]]
    OBVIOUS
  <2> HIDE DEF f
  <2>4. \A i \in 0..n : f[i] = IF i = 0 THEN <<>> ELSE Append(f[parent[i]], slug[i])
    <3> TAKE i \in 0..n
    <3>1. CASE i = 0
      BY <2>2, <3>1
    <3>2. CASE i # 0
      <4>1. i \in 1..n
        BY <3>2
      <4> QED
        BY <2>1, <3>2, <4>1
    <3> QED
      BY <3>1, <3>2
  <2> QED
    BY <2>3, <2>4
<1> HIDE DEF f
<1> QED
  BY <1>2 DEF IsFixed

Spells(g, n, parent, slug) ==
    g[0] = <<>> /\ \A i \in 1..n : g[i] = Append(g[parent[i]], slug[i])

LEMMA PathsAreSpelt ==
    ASSUME NEW n \in 0..3, NEW parent \in [1..n -> 0..2], NEW slug \in [1..n -> Slug],
           NEW g, g = [i \in 0..n |-> IF i = 0 THEN <<>> ELSE Append(g[parent[i]], slug[i])]
    PROVE  Spells(g, n, parent, slug)
<1> DEFINE h == [i \in 0..n |-> IF i = 0 THEN <<>> ELSE Append(g[parent[i]], slug[i])]
<1>1. h[0] = <<>>
  OBVIOUS
<1>2. ASSUME NEW i \in 1..n PROVE h[i] = Append(g[parent[i]], slug[i])
  <2>1. i \in 0..n /\ i # 0
    OBVIOUS
  <2> QED
    BY <2>1
<1>3. g = h
  OBVIOUS
<1> HIDE DEF h
<1> QED
  BY <1>1, <1>2, <1>3 DEF Spells

LEMMA SpeltPathsAreSeq ==
    ASSUME NEW n \in 0..3, NEW parent \in [1..n -> 0..2], NEW slug \in [1..n -> Slug],
           \A i \in 1..n : parent[i] < i, NEW g, Spells(g, n, parent, slug)
    PROVE  \A i \in 1..n : g[i] \in Seq(Slug) /\ g[i] # <<>>
<1>1. \A i \in 1..n : i \in {1, 2, 3} /\ parent[i] \in 0..i - 1 /\ slug[i] \in Slug
  OBVIOUS
<1>2. ASSUME NEW i \in 1..n, g[parent[i]] \in Seq(Slug) PROVE g[i] \in Seq(Slug) /\ g[i] # <<>>
  <2> DEFINE x == g[parent[i]]
             y == slug[i]
  <2>1. g[i] = Append(x, y)
    BY DEF Spells
  <2>2. x \in Seq(Slug) /\ y \in Slug
    BY <1>1, <1>2
  <2> HIDE DEF x, y
  <2> QED
    BY <2>1, <2>2, AppendProperties
<1>3. g[0] \in Seq(Slug)
  BY EmptySeq DEF Spells
<1>4. 1 \in 1..n => g[1] \in Seq(Slug) /\ g[1] # <<>>
  <2> SUFFICES ASSUME 1 \in 1..n PROVE g[1] \in Seq(Slug) /\ g[1] # <<>>
    OBVIOUS
  <2>1. parent[1] = 0
    BY <1>1
  <2> QED
    BY <1>2, <1>3, <2>1
<1>5. 2 \in 1..n => g[2] \in Seq(Slug) /\ g[2] # <<>>
  <2> SUFFICES ASSUME 2 \in 1..n PROVE g[2] \in Seq(Slug) /\ g[2] # <<>>
    OBVIOUS
  <2>1. 1 \in 1..n /\ parent[2] \in {0, 1}
    BY <1>1
  <2> QED
    BY <1>2, <1>3, <1>4, <2>1
<1>6. 3 \in 1..n => g[3] \in Seq(Slug) /\ g[3] # <<>>
  <2> SUFFICES ASSUME 3 \in 1..n PROVE g[3] \in Seq(Slug) /\ g[3] # <<>>
    OBVIOUS
  <2>1. 1 \in 1..n /\ 2 \in 1..n /\ parent[3] \in {0, 1, 2}
    BY <1>1
  <2> QED
    BY <1>2, <1>3, <1>4, <1>5, <2>1
<1> QED
  BY <1>1, <1>4, <1>5, <1>6

LEMMA TagsBegin == TagsInit => TagInv
<1> SUFFICES ASSUME TagsInit PROVE TagInv
  OBVIOUS
<1>0. PICK n \in 0..3 :
        /\ \E parent \in [1..n -> 0..2], slug \in [1..n -> Slug] :
            /\ \A i \in 1..n : parent[i] < i
            /\ LET PathOf[i \in 0..n] ==
                       IF i = 0 THEN <<>> ELSE Append(PathOf[parent[i]], slug[i])
               IN  /\ \A i, j \in 1..n : PathOf[i] = PathOf[j] => i = j
                   /\ tags = [i \in 1..n |-> [uid |-> i, parent |-> parent[i],
                                              slug |-> slug[i], path |-> PathOf[i]]]
        /\ tagUid = n
  BY ZenonT(40) DEF TagsInit
<1>1. PICK parent \in [1..n -> 0..2], slug \in [1..n -> Slug] :
        /\ \A i \in 1..n : parent[i] < i
        /\ LET PathOf[i \in 0..n] ==
                   IF i = 0 THEN <<>> ELSE Append(PathOf[parent[i]], slug[i])
           IN  /\ \A i, j \in 1..n : PathOf[i] = PathOf[j] => i = j
               /\ tags = [i \in 1..n |-> [uid |-> i, parent |-> parent[i],
                                          slug |-> slug[i], path |-> PathOf[i]]]
  BY <1>0
<1> DEFINE PathOf[i \in 0..n] == IF i = 0 THEN <<>> ELSE Append(PathOf[parent[i]], slug[i])
<1>2. /\ PathOf[0] = <<>>
      /\ \A i \in 1..n : PathOf[i] = Append(PathOf[parent[i]], slug[i])
      /\ \A i \in 1..n : PathOf[i] \in Seq(Slug) /\ PathOf[i] # <<>>
  <2>1. \A i \in 1..n : parent[i] < i
    BY <1>1
  <2>2. \E f : IsFixed(f, n, parent, slug)
    BY <2>1, PathsExist
  <2>3. PathOf = [i \in 0..n |-> IF i = 0 THEN <<>> ELSE Append(PathOf[parent[i]], slug[i])]
    BY <2>2 DEF IsFixed
  <2> HIDE DEF PathOf
  <2>4. Spells(PathOf, n, parent, slug)
    BY <2>3, PathsAreSpelt
  <2> QED
    BY <2>1, <2>4, SpeltPathsAreSeq DEF Spells
<1>3. tags = [i \in 1..n |-> [uid |-> i, parent |-> parent[i], slug |-> slug[i],
                              path |-> PathOf[i]]]
  BY <1>1
<1> HIDE DEF PathOf
<1>4. /\ TagIds = 1..n /\ tagUid = n /\ n \in 0..3
      /\ \A i \in 1..n : /\ tags[i].uid = i /\ tags[i].parent = parent[i]
                         /\ tags[i].slug = slug[i] /\ tags[i].path = PathOf[i]
  BY <1>0, <1>3 DEF TagIds
<1>5. TagsTypeOK
  <2>1. \A i \in 1..n : tags[i] \in TagRow
    <3> TAKE i \in 1..n
    <3>1. /\ tags[i] = [uid |-> i, parent |-> parent[i], slug |-> slug[i], path |-> PathOf[i]]
          /\ PathOf[i] \in Seq(Slug) /\ slug[i] \in Slug /\ i \in Nat
      BY <1>2, <1>3
    <3>2. parent[i] \in TagId \cup {NoTag}
      BY TagsAssumption DEF TagId, NoTag
    <3> QED
      BY <3>1, <3>2 DEF TagRow
  <2>2. TagIds \subseteq TagId
    BY <1>4, TagsAssumption DEF TagId
  <2>3. tagged \subseteq TagIds /\ raced \in BOOLEAN
    BY DEF TagsInit
  <2>4. tagUid \in Nat /\ \A i \in TagIds : tags[i].uid \in 1..tagUid
    BY <1>4
  <2>5. tagAt \in [TagRequest -> TagPlace] /\ segment \in [TagRequest -> 0..MaxDepth]
    BY TagsAssumption DEF TagsInit, TagPlace
  <2> QED
    BY <1>4, <2>1, <2>2, <2>3, <2>4, <2>5 DEF TagsTypeOK
<1>6. TreeSound
  <2>1. ParentsLive(tags)
    <3>1. ASSUME NEW i \in 1..n PROVE tags[i].parent \in (1..n) \cup {0}
      <4>1. tags[i].parent = parent[i]
        BY <1>4
      <4>2. parent[i] \in 0..2 /\ parent[i] < i /\ i \in 1..n /\ n \in 0..3
        BY <1>1, <1>4
      <4>3. parent[i] \in (1..n) \cup {0}
        BY <4>2
      <4> QED
        BY <4>1, <4>3
    <3>2. DOMAIN tags = 1..n
      BY <1>4 DEF TagIds
    <3> QED
      BY <3>1, <3>2 DEF ParentsLive, NoTag
  <2>2. \A i, j \in 1..n : tags[i].uid = tags[j].uid => i = j
    BY <1>4
  <2>3. \A i \in 1..n : tags[i].path # <<>>
    <3> TAKE i \in 1..n
    <3>1. tags[i].path = PathOf[i]
      BY <1>4
    <3> QED
      BY <1>2, <3>1
  <2> QED
    BY <1>4, <2>1, <2>2, <2>3 DEF TreeSound
<1>7. RequestSound
  BY DEF TagsInit, RequestSound, AskSound, SeenSound, UnderSound, OnPath, OnUid, AfterRead,
         Nothing
<1>8. TreeHasNoCycle
  <2> SUFFICES ASSUME NEW i \in TagIds PROVE i \notin Below(tags, i)
    BY DEF TreeHasNoCycle
  <2> DEFINE S == {j \in TagIds : i < j}
  <2>0. DOMAIN tags = 1..n
    BY <1>4 DEF TagIds
  <2>1. Descends(tags, i, S) /\ S \subseteq DOMAIN tags
    <3>1. ASSUME NEW j \in 1..n, tags[j].parent \in S \cup {i} PROVE j \in S
      <4>1. tags[j].parent = parent[j]
        BY <1>4
      <4>2. parent[j] \in Nat /\ parent[j] < j /\ i \in Nat /\ j \in Nat
        BY <1>1, <1>4
      <4>3. i <= parent[j]
        BY <3>1, <4>1, <4>2
      <4>4. i < j
        BY <4>2, <4>3
      <4> QED
        BY <1>4, <4>4
    <3> QED
      BY <2>0, <3>1 DEF Descends, TagIds
  <2> QED
    BY <1>4, <2>1, BelowIsLeast
<1>9. PathsSpellTheTree
  <2> SUFFICES ASSUME NEW i \in 1..n PROVE PathAgrees(tags, i)
    BY <1>4 DEF PathsSpellTheTree
  <2>1. CASE parent[i] = 0
    <3>1. PathOf[i] = <<slug[i]>>
      BY <1>2, <2>1, OneSegment
    <3> QED
      BY <1>4, <2>1, <3>1 DEF PathAgrees, NoTag
  <2>2. CASE parent[i] # 0
    <3>1. parent[i] \in 1..n
      BY <1>1, <2>2
    <3>2. PathOf[i] = Append(PathOf[parent[i]], slug[i])
      BY <1>2
    <3>3. tags[i].path = Append(tags[parent[i]].path, tags[i].slug)
      BY <1>4, <3>1, <3>2
    <3> QED
      BY <1>4, <2>2, <3>1, <3>3 DEF PathAgrees, NoTag, TagIds
  <2> QED
    BY <2>1, <2>2
<1> QED
  BY <1>5, <1>6, <1>7, <1>8, <1>9 DEF TagInv

LEMMA TagStepKeeps == ASSUME TagInv, NEW r \in TagRequest, TagStep(r) PROVE TagInv'
BY BeginTagStep, SeekSegmentStep, InsertSegmentStep, AssignTagStep, ReadTagStep, ReadParentStep,
   CheckFreeStep, RewriteStep, DeleteTagStep, UntagStep, TagBusyStep DEF TagStep

LEMMA TagsRest == TagInv /\ UNCHANGED tagVars => TagInv'
BY DEF TagInv, TagsTypeOK, TreeSound, RequestSound, AskSound, SeenSound, UnderSound,
       TreeHasNoCycle, PathsSpellTheTree, TagIds, tagVars

LEMMA TagInvHolds == TagsSpec => []TagInv
<1>1. TagInv /\ [TagsNext]_tagVars => TagInv'
  BY TagStepKeeps, TagsRest DEF TagsNext
<1> QED
  BY <1>1, TagsBegin, PTL DEF TagsSpec

----------------------------------------------------------------------------
(* Assignments.                                                              *)

\* One request's step changes them as it was asked to.
AsAsked ==
    \A i \in TagIds \cap DOMAIN tags' :
        (i \in tagged) # (i \in tagged') =>
            \/ raced'
            \/ \E r \in TagRequest :
                 /\ tagAt[r] # "done" /\ tagAt'[r] = "done"
                 /\ IF i \in tagged' THEN ask[r].op = "assign" /\ tags[i].path = ask[r].path
                                      ELSE ask[r].op = "untag" /\ tags[i].uid = ask[r].uid

LEMMA AssignmentChanges == TagInv /\ [TagsNext]_tagVars => [AsAsked]_tagVars
<1> SUFFICES ASSUME TagInv, NEW r \in TagRequest, TagStep(r),
                    NEW i \in TagIds \cap DOMAIN tags',
                    (i \in tagged) # (i \in tagged'), ~raced'
             PROVE  /\ tagAt[r] # "done" /\ tagAt'[r] = "done"
                    /\ IF i \in tagged'
                       THEN ask[r].op = "assign" /\ tags[i].path = ask[r].path
                       ELSE ask[r].op = "untag" /\ tags[i].uid = ask[r].uid
  BY DEF AsAsked, TagsNext
<1>1. CASE AssignTag(r)
  <2>1. tagAt[r] = "assign" /\ tagAt'[r] = "done"
    BY <1>1, Knows DEF AssignTag, TagGo
  <2>2. ask[r].op = "assign" /\ under[r].row.path = ask[r].path
    BY <2>1, Knows DEF AskSound, UnderSound
  <2>3. i = under[r].id /\ i \in tagged'
    BY <1>1 DEF AssignTag, AssignedTag
  <2>4. tags[i] = under[r].row
    BY <1>1, <2>3 DEF AssignTag
  <2> QED
    BY <2>1, <2>2, <2>3, <2>4
<1>2. CASE Untag(r)
  <2>1. tagAt[r] = "untag" /\ tagAt'[r] = "done"
    BY <1>2, Knows DEF Untag, TagGo
  <2>2. ask[r].op = "untag" /\ IsFound(seen[r]) /\ seen[r].row.uid = ask[r].uid
    BY <2>1, Knows DEF AskSound, SeenSound, AfterRead
  <2>3. i = seen[r].id /\ i \notin tagged'
    BY <1>2 DEF Untag
  <2>4. tags[i] = seen[r].row
    <3>1. Unchanged(seen[r])
      BY <1>2 DEF Untag
    <3>2. seen[r].id # NoTag
      BY <2>2 DEF IsFound, TagId, NoTag
    <3> QED
      BY <2>3, <3>1, <3>2 DEF Unchanged
  <2> QED
    BY <2>1, <2>2, <2>3, <2>4
<1>3. CASE DeleteTag(r)
  <2> DEFINE gone == UNION {{k} \cup Below(tags, k) : k \in IdOfUid(ask[r].uid)}
  <2>1. DOMAIN tags' = TagIds \ gone /\ tagged' = tagged \ gone
    BY <1>3 DEF DeleteTag, OtherAssignments
  <2> HIDE DEF gone
  <2> QED
    BY <2>1
<1>4. CASE ~(AssignTag(r) \/ Untag(r) \/ DeleteTag(r))
  <2>1. tagged' = tagged
    BY <1>4 DEF TagStep, BeginTag, SeekSegment, InsertSegment, ReadTag, ReadParent, CheckFree,
                Rewrite, TagBusy, TagRows
  <2> QED
    BY <2>1
<1> QED
  BY <1>1, <1>2, <1>3, <1>4

(* Through any sequence of creations, renames, moves and deletions every     *)
(* tag's full path is what the slugs above it spell unless a request wrote   *)
(* on a row that had changed, no tag is its own ancestor even then, and      *)
(* assignments change as asked (create_tag_path, rename_tag, move_tag,       *)
(* delete_tag, assign_entry_tag, remove_entry_tag).                          *)
THEOREM TagsMeanWhatTheySay == TagsSpec => TagsKeepTheirMeaning
<1>1. TagInv => PathsSpellTheTree /\ TreeHasNoCycle
  BY DEF TagInv
<1>2. AsAsked =>
        (\A i \in TagIds \cap DOMAIN tags' :
            (i \in tagged) # (i \in tagged') =>
                \/ raced'
                \/ \E r \in TagRequest :
                     /\ tagAt[r] # "done" /\ tagAt'[r] = "done"
                     /\ IF i \in tagged' THEN ask[r].op = "assign" /\ tags[i].path = ask[r].path
                                          ELSE ask[r].op = "untag" /\ tags[i].uid = ask[r].uid)
  BY DEF AsAsked
<1>3. [](PathsSpellTheTree /\ TreeHasNoCycle) /\ [][AsAsked]_tagVars => TagsKeepTheirMeaning
  BY <1>2, PTL DEF TagsKeepTheirMeaning, AssignmentsAsAsked, AsAsked
<1>4. [TagsNext]_tagVars /\ TagInv => [AsAsked]_tagVars
  BY AssignmentChanges
<1>5. TagsSpec => [](PathsSpellTheTree /\ TreeHasNoCycle) /\ [][AsAsked]_tagVars
  BY <1>1, <1>4, TagInvHolds, PTL DEF TagsSpec
<1> QED
  BY <1>3, <1>5, PTL

----------------------------------------------------------------------------
(* The components together.                                                  *)

\* A behaviour of the three moves one and leaves the others where they are.
LEMMA RequestsAreOfOne == RequestsSpec => Spec /\ TagsSpec /\ VisSpec
<1>1. RequestsInit => Init /\ TagsInit /\ VisInit
  BY DEF RequestsInit
<1>2. [RequestsNext]_RequestVars => [Next]_vars /\ [TagsNext]_tagVars /\ [VisNext]_visVars
  BY DEF RequestsNext, RequestVars
<1> QED
  BY <1>1, <1>2, PTL DEF RequestsSpec, Spec, TagsSpec, VisSpec

(* Through any requests on accounts, tags and collections every table keeps  *)
(* its type and its keys.                                                    *)
THEOREM RequestsTyped == RequestsSpec => []RequestsTypeOK
<1>1. TagInv => TagsTypeOK
  BY DEF TagInv
<1>2. TypeOK /\ TagsTypeOK /\ VisTypeOK => RequestsTypeOK
  BY DEF RequestsTypeOK
<1> QED
  BY <1>1, <1>2, RequestsAreOfOne, TypesHold, TagInvHolds, Visible, VisibilityTypesHold, PTL
=============================================================================
