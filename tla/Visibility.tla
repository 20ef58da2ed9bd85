------------------------------ MODULE Visibility ------------------------------
(***************************************************************************)
(* Who sees an entry.  Every row of collection_entries carries a mask of   *)
(* role bits; an entry is seen by whom a mask of its own or of its         *)
(* parent's meets.  The masks lie in the archive and the roles in the auth *)
(* database: a request reads from one, then from the other, and nothing    *)
(* holds both.  Masks are sets of bit positions.                           *)
(***************************************************************************)
EXTENDS Integers, FiniteSets

CONSTANTS
    VisRequest,    \* requests, each of one operation
    Person,        \* accounts other than the owner's
    Shelf,         \* collections
    DefaultShelf,  \* _default_
    Item,          \* entries
    ParentItem,    \* [Item -> Item \cup {NoItem}]
    NoItem, NoOne,
    GivenMask,     \* masks that clients ask for
    TopBit,        \* bound: the last bit of a mask, 31 in the code
    MaxVisOps      \* bound: requests, and changes by the owner that are one statement

RoleGuest == 0
RoleUser == 1
RoleAdmin == 2
RoleOwner == 3
CustomBit == 4..TopBit
Bit == 0..TopBit
Privileged == {RoleAdmin, RoleOwner}

ASSUME VisibilityAssumption ==
    /\ DefaultShelf \in Shelf /\ NoItem \notin Item /\ NoOne \notin VisRequest \cup Person
    /\ ParentItem \in [Item -> Item \cup {NoItem}]
    /\ \A i \in Item : ParentItem[i] # NoItem => ParentItem[ParentItem[i]] = NoItem \* containers are roots
    /\ GivenMask \subseteq SUBSET (0..TopBit) /\ TopBit \in Nat \ 0..3 /\ MaxVisOps \in Nat

VARIABLES
    liveRoles,   \* custom bits of rows of roles
    allocated,   \* role_bit_allocations
    reorderMask, \* instance_settings.reorder_children_role_bits
    authLock,    \* the request whose IMMEDIATE transaction on the auth database is open
    roleBits,    \* [Person -> SUBSET Bit]: user_roles
    enabled,     \* SUBSET Person: active accounts
    shelves,     \* collections: a function from the live ones to their rows
    shown,       \* collection_entries: a function from <<collection, entry>> to a mask
    mediaTokens, \* tokens that have not expired
    call,        \* [VisRequest -> Call]
    moved,       \* ghost: [VisRequest -> SUBSET Table]: what others wrote since its reads began
    lost,        \* ghost: entries a request hid from its own author
    visOps

visTables == <<liveRoles, allocated, reorderMask, authLock, roleBits, enabled, shelves, shown, mediaTokens>>
roleTables == <<liveRoles, allocated, reorderMask, authLock, roleBits, enabled>>
shelfTables == <<shelves, shown>>
visVars == <<visTables, call, moved, lost, visOps>>

Table == {"roles", "shelves"}
ShelfRow == [mask : SUBSET Bit, login : BOOLEAN]
Token == [person : Person, item : Item, bits : SUBSET Bit]
ChangeOp == {"add", "remove", "update", "delete"}
CallPlace == {"idle", "look", "before", "write", "done", "served"}

Known == {RoleGuest, RoleUser} \cup Privileged \cup liveRoles
Grantable == Known \ {RoleGuest}

----------------------------------------------------------------------------
(* entry_visible_to_caller_sql.  A slip: the parent's rows are forgotten.    *)
SeesOwn(rows, i, bits) == \E c \in Shelf : <<c, i>> \in DOMAIN rows /\ rows[<<c, i>>] \cap bits # {}
SeesNoParent(rows, i, bits) == bits \cap Privileged # {} \/ SeesOwn(rows, i, bits)
Sees(rows, i, bits) ==
    bits \cap Privileged # {} \/ SeesOwn(rows, i, bits) \/ SeesOwn(rows, ParentItem[i], bits)

(* is_entry_publicly_accessible *)
IsPublic(i) ==
    \E c \in DOMAIN shelves, j \in {i, ParentItem[i]} :
        ~shelves[c].login /\ <<c, j>> \in DOMAIN shown /\ RoleGuest \in shown[<<c, j>>]

(* list_entries_for_collection, search_entries within a collection with a    *)
(* tag (children, too), list_child_entries, and their handlers' gates.       *)
Member(c, i, bits) ==
    <<c, i>> \in DOMAIN shown /\ (bits \cap Privileged # {} \/ shown[<<c, i>>] \cap bits # {})
ListedIn(c, bits) == {i \in Item : ParentItem[i] = NoItem /\ Member(c, i, bits)}
FoundIn(c, bits) == {i \in Item : Member(c, i, bits)}
ChildrenListed(p, bits) ==
    {i \in Item : ParentItem[i] = p /\ (bits \cap Privileged # {} \/ SeesOwn(shown, i, bits)
                                        \/ SeesOwn(shown, p, bits))}
ListedToUser(bits) ==
    UNION ({ListedIn(c, bits) \cup FoundIn(c, bits) : c \in DOMAIN shelves}
           \cup {ChildrenListed(p, bits) : p \in Item})
ListedToGuest ==
    UNION ({FoundIn(c, {RoleGuest}) : c \in {d \in DOMAIN shelves : ~shelves[d].login}}
           \cup {ChildrenListed(p, {RoleGuest}) : p \in {q \in Item : IsPublic(q)}})

----------------------------------------------------------------------------
Blank == [at |-> "idle", op |-> "none", who |-> NoOne, bits |-> {}, shelf |-> DefaultShelf,
          item |-> NoItem, mask |-> {}, login |-> FALSE, asked |-> {}, seen |-> {},
          row |-> [mask |-> {}, login |-> FALSE]]

(* The parents may be on the second shelf already, with the bit of a role    *)
(* that lives or was deleted before allocations were recorded.               *)
VisInit ==
    /\ liveRoles \in {{}, {4}} /\ allocated = liveRoles /\ reorderMask = Privileged /\ authLock = NoOne
    /\ roleBits \in [Person -> {{RoleGuest, RoleUser}, {RoleGuest, RoleUser} \cup liveRoles}]
    /\ enabled = Person
    /\ shelves = [c \in Shelf |-> [mask |-> {RoleUser}, login |-> TRUE]]
    /\ \E on \in SUBSET {x \in (Shelf \ {DefaultShelf}) \X Item : ParentItem[x[2]] = NoItem} :
       \E m \in SUBSET {4} :
        shown = [x \in ({DefaultShelf} \X Item) \cup on |->
                    IF x[1] # DefaultShelf THEN m ELSE IF ParentItem[x[2]] = NoItem THEN {RoleUser} ELSE {}]
    /\ mediaTokens = {}
    /\ call = [r \in VisRequest |-> Blank] /\ moved = [r \in VisRequest |-> {}] /\ lost = {}
    /\ visOps = 0

CallGoes(r, s) == call' = [call EXCEPT ![r].at = s]
Ends(r) == call' = [call EXCEPT ![r] = [Blank EXCEPT !.at = "done"]]
UnderWay == {q \in VisRequest : call[q].at \notin {"idle", "done"}}
Wrote(r, t) == moved' = [q \in VisRequest |-> IF q \in UnderWay \ {r} THEN moved[q] \cup {t} ELSE {}]

(* Slips: every transaction is deferred, so that nobody waits.               *)
NeverWaits(r) == TRUE
AuthFree(r) == authLock \in {NoOne, r}

(* The person's role bits are those of this moment; their sessions go when   *)
(* their roles change.  What is asked for is chosen when it is first used.   *)
Begin(r) ==
    /\ call[r].at = "idle" /\ visOps < MaxVisOps /\ visOps' = visOps + 1
    /\ \E k \in [op : ChangeOp \cup {"create", "patch"}, who : enabled, bits : {roleBits[p] : p \in enabled}]
              \cup [op : {"role"}, who : {NoOne}, bits : {{RoleOwner}}]
              \cup [op : {"settings"}, who : {NoOne}, bits : {{b} : b \in Privileged}]
              \cup [op : {"serve"}, who : {NoOne}, bits : {{}}] :
        /\ k.who \in Person => k.bits = roleBits[k.who]
        /\ k.op = "serve" => mediaTokens # {}
        /\ call' = [call EXCEPT ![r] = [Blank EXCEPT !.at = "look", !.op = k.op,
                                                    !.who = k.who, !.bits = k.bits]]
    /\ UNCHANGED <<visTables, moved, lost>>

----------------------------------------------------------------------------
(* Changes of memberships.  The gate: the collection exists, is not the      *)
(* default one unless a mask is updated, the entry is seen, the mask is      *)
(* known.                                                                    *)
MayChange(k) ==
    /\ k.shelf \in DOMAIN shelves /\ (k.op = "update" \/ k.shelf # DefaultShelf)
    /\ k.op # "delete" => Sees(shown, k.item, k.bits)
    /\ k.op \in {"add", "update"} => k.mask \subseteq Known

(* A slip: a deletion is taken to touch no entry.                            *)
TouchedByName(k) == IF k.op = "delete" THEN {} ELSE {k.item}
Touched(k) ==
    IF k.op = "delete" THEN {i \in Item : <<k.shelf, i>> \in DOMAIN shown} ELSE {k.item}

LookAtChange(r) ==
    /\ call[r].at = "look" /\ call[r].op \in ChangeOp
    /\ \E c \in Shelf, i \in Item, m \in GivenMask :
        LET k == [call[r] EXCEPT !.shelf = c, !.item = IF call[r].op = "delete" THEN NoItem ELSE i,
                                 !.mask = IF call[r].op \in {"add", "update"} THEN m ELSE {}]
        IN  \/ ~MayChange(k) /\ Ends(r)
            \/ /\ MayChange(k)
               /\ call' = [call EXCEPT ![r] = [k EXCEPT !.at = IF k.op = "add" THEN "write" ELSE "before",
                                                       !.seen = IF k.op = "add" THEN {} ELSE Touched(k)]]
    /\ moved' = [moved EXCEPT ![r] = {}]
    /\ UNCHANGED <<visTables, lost, visOps>>

(* apply_without_self_lockout: which of them are seen before ... *)
SeeBefore(r) ==
    /\ call[r].at = "before"
    /\ call' = [call EXCEPT ![r].at = "write",
                            ![r].seen = {i \in @ : Sees(shown, i, call[r].bits)}]
    /\ UNCHANGED <<visTables, moved, lost, visOps>>

(* The foreign key refuses a row of a deleted collection. *)
KeyHolds(k) == k.shelf \in DOMAIN shelves

RowsAfter(k) ==
    LET D == DOMAIN shown
        kept == IF k.op = "delete" THEN {x \in D : x[1] # k.shelf}
                ELSE IF k.op = "remove" THEN D \ {<<k.shelf, k.item>>}
                ELSE IF k.op = "add" /\ KeyHolds(k) THEN D \cup {<<k.shelf, k.item>>}
                ELSE D
    IN  [x \in kept |-> IF x \notin D \/ (k.op = "update" /\ x = <<k.shelf, k.item>>)
                        THEN k.mask ELSE shown[x]]

(* ... and, in the transaction, still after the change.  Administrators are  *)
(* not held up.                                                              *)
WriteChange(r) ==
    LET k == call[r]
        rows == RowsAfter(k)
        stays == k.op = "add" \/ k.bits \cap Privileged # {} \/ \A i \in k.seen : Sees(rows, i, k.bits)
    IN  /\ k.at = "write" /\ k.op \in ChangeOp
        /\ Ends(r)
        /\ \/ ~stays /\ UNCHANGED <<shelves, shown, moved, lost>>
           \/ /\ stays /\ shown' = rows
              /\ shelves' = IF k.op = "delete"
                            THEN [c \in DOMAIN shelves \ {k.shelf} |-> shelves[c]] ELSE shelves
              /\ Wrote(r, "shelves")
              /\ lost' = IF moved[r] = {}
                         THEN lost \cup {i \in Item : Sees(shown, i, k.bits) /\ ~Sees(rows, i, k.bits)}
                         ELSE lost
        /\ UNCHANGED <<roleTables, mediaTokens, visOps>>

----------------------------------------------------------------------------
(* create_collection_handler: the mask is looked up in the auth database,    *)
(* then the row is inserted, under the rowid of a deleted one if that was    *)
(* the last; a taken slug refuses it.                                        *)
LookAtCreate(r) ==
    /\ call[r].at = "look" /\ call[r].op = "create"
    /\ \E m \in GivenMask, b \in BOOLEAN :
        \/ ~(m \subseteq Known) /\ Ends(r)
        \/ /\ m \subseteq Known
           /\ call' = [call EXCEPT ![r] = [@ EXCEPT !.at = "write", !.mask = m, !.login = b]]
    /\ UNCHANGED <<visTables, moved, lost, visOps>>

WriteCreate(r) ==
    LET k == call[r]
    IN  /\ k.at = "write" /\ k.op = "create" /\ Ends(r)
        /\ \/ UNCHANGED <<shelves, moved>>
           \/ \E c \in Shelf \ DOMAIN shelves :
                /\ shelves' = [d \in DOMAIN shelves \cup {c} |->
                        IF d = c THEN [mask |-> k.mask, login |-> k.login] ELSE shelves[d]]
                /\ Wrote(r, "shelves")
        /\ UNCHANGED <<roleTables, shown, mediaTokens, lost, visOps>>

----------------------------------------------------------------------------
(* patch_collection_handler: the row is read, merged and written whole. *)
LookAtPatch(r) ==
    /\ call[r].at = "look" /\ call[r].op = "patch"
    /\ moved' = [moved EXCEPT ![r] = {}]
    /\ \E c \in Shelf, m \in GivenMask, b \in BOOLEAN, asked \in SUBSET {"mask", "login"} :
        LET ok == m \subseteq Known /\ c \in DOMAIN shelves
        IN  \/ ~ok /\ Ends(r)
            \/ ok /\ call' = [call EXCEPT ![r] = [@ EXCEPT !.at = "write", !.shelf = c, !.asked = asked,
                                !.mask = IF "mask" \in asked THEN m ELSE {},
                                !.login = "login" \in asked /\ b, !.row = shelves[c]]]
    /\ UNCHANGED <<visTables, lost, visOps>>

(* What is not asked for is written as it was read. *)
Merged(k) ==
    [mask |-> IF "mask" \in k.asked THEN k.mask ELSE k.row.mask,
     login |-> IF "login" \in k.asked THEN k.login ELSE k.row.login]

WritePatch(r) ==
    LET k == call[r]
    IN  /\ k.at = "write" /\ k.op = "patch" /\ Ends(r)
        /\ shelves' = [c \in DOMAIN shelves |-> IF c = k.shelf THEN Merged(k) ELSE shelves[c]]
        /\ Wrote(r, "shelves")
        /\ UNCHANGED <<roleTables, shown, mediaTokens, lost, visOps>>

----------------------------------------------------------------------------
(* admin_create_role: the masks stored are read first, then                  *)
(* create_custom_role_avoiding.  A slip: only live roles' bits are taken.    *)
UsedBits == UNION ({shown[x] : x \in DOMAIN shown} \cup {shelves[c].mask : c \in DOMAIN shelves})
ReserveBits(r) ==
    /\ call[r].at = "look" /\ call[r].op = "role"
    /\ call' = [call EXCEPT ![r].at = "write", ![r].mask = UsedBits]
    /\ UNCHANGED <<visTables, moved, lost, visOps>>

IsFirst(b, S) == b \in S /\ \A c \in S : b <= c
AboveLive(k, b) == \A c \in liveRoles : c < b
AboveAll(k, b) == (\A c \in allocated \cup liveRoles : c < b) /\ b \notin k.mask

CreateRole(r) ==
    LET k == call[r]
        top == {b \in CustomBit : \A c \in allocated \cup liveRoles : c < b}
        free == {b \in CustomBit : AboveAll(k, b)}
    IN  /\ k.at = "write" /\ k.op = "role" /\ AuthFree(r) /\ Ends(r)
        /\ \/ free = {} /\ UNCHANGED <<liveRoles, allocated, moved>>
           \/ \E b \in free :
                /\ IsFirst(b, free)
                /\ liveRoles' = liveRoles \cup {b}
                /\ allocated' = allocated \cup {b} \cup {c \in top : c < b}
                /\ Wrote(r, "roles")
        /\ UNCHANGED <<reorderMask, authLock, roleBits, enabled, shelfTables, mediaTokens, lost, visOps>>

----------------------------------------------------------------------------
(* update_instance_settings_handler, one IMMEDIATE transaction around a read *)
(* and a write of the whole row.                                             *)
ReadSettings(r) ==
    /\ call[r].at = "look" /\ call[r].op = "settings" /\ AuthFree(r)
    /\ authLock' = r
    /\ \E asked \in SUBSET {"mask"}, m \in {{RoleUser}, {4}} :
        call' = [call EXCEPT ![r] = [@ EXCEPT !.at = "write", !.asked = asked, !.seen = reorderMask,
                                             !.mask = IF asked = {} THEN {} ELSE m]]
    /\ UNCHANGED <<liveRoles, allocated, reorderMask, roleBits, enabled, shelfTables, mediaTokens,
                   moved, lost, visOps>>

AsksOther(k) == "mask" \in k.asked /\ k.mask # k.seen
WriteSettings(r) ==
    LET k == call[r]
    IN  /\ k.at = "write" /\ k.op = "settings" /\ Ends(r)
        /\ authLock' = NoOne
        /\ reorderMask' =
                IF ~AsksOther(k) THEN k.seen
                ELSE IF RoleOwner \in k.bits /\ k.mask \subseteq Grantable THEN k.mask ELSE reorderMask
        /\ UNCHANGED <<liveRoles, allocated, roleBits, enabled, shelfTables, mediaTokens,
                       moved, lost, visOps>>

----------------------------------------------------------------------------
(* issue_media_token: the gate is passed with the session's role bits. *)
IssueToken(p, i) ==
    /\ p \in enabled /\ visOps < MaxVisOps /\ visOps' = visOps + 1
    /\ Sees(shown, i, roleBits[p])
    /\ mediaTokens' = mediaTokens \cup {[person |-> p, item |-> i, bits |-> roleBits[p]]}
    /\ UNCHANGED <<roleTables, shelfTables, call, moved, lost>>

(* serve_artifact with a token, media_token_issuer_can_view: the issuer is   *)
(* looked up, then their roles, then the entry.  Slip: the roles of the      *)
(* token's issue.                                                            *)
IssuedBits(t) == t.bits
IssuerBits(t) == IF t.person \in enabled THEN roleBits[t.person] ELSE {}

ReadIssuer(r) ==
    /\ call[r].at = "look" /\ call[r].op = "serve"
    /\ moved' = [moved EXCEPT ![r] = {}]
    /\ \/ mediaTokens = {} /\ Ends(r)
       \/ \E t \in mediaTokens :
            \/ IssuerBits(t) = {} /\ Ends(r)
            \/ /\ IssuerBits(t) # {}
               /\ call' = [call EXCEPT ![r] = [@ EXCEPT !.at = "write", !.who = t.person, !.item = t.item,
                                                        !.bits = IssuerBits(t)]]
    /\ UNCHANGED <<visTables, lost, visOps>>
Serve(r) ==
    LET k == call[r]
    IN  /\ k.at = "write" /\ k.op = "serve"
        /\ IF Sees(shown, k.item, k.bits) THEN CallGoes(r, "served") ELSE Ends(r)
        /\ UNCHANGED <<visTables, moved, lost, visOps>>

----------------------------------------------------------------------------
(* What the owner does in one statement or transaction.  An                  *)
(* account's change ends its sessions: its requests under way go on.         *)
Staff(t) ==
    /\ visOps < MaxVisOps /\ visOps' = visOps + 1
    /\ moved' = [q \in VisRequest |-> IF q \in UnderWay THEN moved[q] \cup {t} ELSE {}]
    /\ UNCHANGED <<call, lost>>

(* delete_custom_role *)
DeleteCustomRole(b) ==
    /\ Staff("roles") /\ authLock = NoOne
    /\ liveRoles' = liveRoles \ {b} /\ reorderMask' = reorderMask \ {b}
    /\ roleBits' = [p \in Person |-> roleBits[p] \ {b}]
    /\ UNCHANGED <<allocated, authLock, enabled, shelfTables, mediaTokens>>
AssignRole(p, b) ==
    /\ Staff("roles") /\ authLock = NoOne /\ b \in liveRoles
    /\ roleBits' = [roleBits EXCEPT ![p] = @ \cup {b}]
    /\ UNCHANGED <<liveRoles, allocated, reorderMask, authLock, enabled, shelfTables, mediaTokens>>
RemoveRole(p, b) ==
    /\ Staff("roles") /\ authLock = NoOne /\ b \in roleBits[p] \cap liveRoles
    /\ roleBits' = [roleBits EXCEPT ![p] = @ \ {b}]
    /\ UNCHANGED <<liveRoles, allocated, reorderMask, authLock, enabled, shelfTables, mediaTokens>>
SetPersonStatus(p) ==
    /\ Staff("roles") /\ authLock = NoOne
    /\ enabled' = IF p \in enabled THEN enabled \ {p} ELSE enabled \cup {p}
    /\ UNCHANGED <<liveRoles, allocated, reorderMask, authLock, roleBits, shelfTables, mediaTokens>>
ExpireToken(t) ==
    /\ mediaTokens' = mediaTokens \ {t}
    /\ UNCHANGED <<roleTables, shelfTables, call, moved, lost, visOps>>

VisNext ==
    \/ \E r \in VisRequest :
        \/ Begin(r) \/ LookAtChange(r) \/ SeeBefore(r) \/ WriteChange(r)
        \/ LookAtCreate(r) \/ WriteCreate(r)
        \/ LookAtPatch(r) \/ WritePatch(r) \/ ReserveBits(r) \/ CreateRole(r)
        \/ ReadSettings(r) \/ WriteSettings(r) \/ ReadIssuer(r) \/ Serve(r)
    \/ \E p \in Person : SetPersonStatus(p) \/ \E b \in CustomBit : AssignRole(p, b) \/ RemoveRole(p, b)
    \/ \E p \in Person, i \in Item : IssueToken(p, i)
    \/ \E b \in liveRoles : DeleteCustomRole(b)
    \/ \E t \in mediaTokens : ExpireToken(t)

VisSpec == VisInit /\ [][VisNext]_visVars

----------------------------------------------------------------------------
(* Properties. *)

(* Every variable keeps its type, live roles have bits that are recorded,    *)
(* and an account has bits of live roles only.                               *)
VisTypeOK ==
    /\ liveRoles \subseteq allocated /\ allocated \subseteq CustomBit
    /\ authLock \in VisRequest \cup {NoOne}
    /\ roleBits \in [Person -> SUBSET Bit] /\ \A p \in Person : roleBits[p] \subseteq Known
    /\ DefaultShelf \in DOMAIN shelves /\ \A c \in DOMAIN shelves : shelves[c] \in ShelfRow
    /\ \A x \in DOMAIN shown : x \in (DOMAIN shelves) \X Item /\ shown[x] \in SUBSET Bit
    /\ mediaTokens \subseteq Token
    /\ \A r \in VisRequest : call[r].at \in CallPlace

(* No change of memberships by a user hides an entry from that very user:    *)
(* not the entry itself, not its children, not the members of a deleted      *)
(* collection (apply_without_self_lockout), as long as no other request or   *)
(* role change came between its reads and its write.                         *)
NobodyLocksThemselvesOut == lost = {}

(* The listings, the search and the gate of the requests by uid agree: what  *)
(* a user is shown anywhere they can open and the reverse, and a guest can   *)
(* open whatever a guest is shown.                                           *)
ListedIsReachable ==
    /\ \A p \in Person : ListedToUser(roleBits[p]) = {i \in Item : Sees(shown, i, roleBits[p])}
    /\ \A i \in ListedToGuest : IsPublic(i)

(* A role that is created sees nothing that was hidden before: no mask       *)
(* stored anywhere, whoever wrote it and whichever role it was for, holds    *)
(* the new bit (create_custom_role_avoiding).                                *)
NewRoleStep == (liveRoles' \ liveRoles) \cap UsedBits = {}
NewRolesSeeNothing == [][NewRoleStep]_visVars

(* Only the owner changes who may reorder children, or the deletion of a     *)
(* role: an administrator who saves other settings at the same time writes   *)
(* the same mask back, and it never holds a bit without a role.              *)
ReorderStep ==
    /\ reorderMask' \subseteq Known'
    /\ \A r \in VisRequest :
        call[r].op = "settings" /\ call[r].at = "write" /\ call'[r].at = "done"
        /\ ~(RoleOwner \in call[r].bits /\ "mask" \in call[r].asked)
        => reorderMask' = reorderMask
ReorderMaskIsTheOwners == [][ReorderStep]_visVars

(* An artifact is served on a media token only if the issuer, with the roles *)
(* of now and not those of its issue, sees the entry now, or lost sight of   *)
(* it while the request was under way.                                       *)
TokenFollowsItsIssuer ==
    \A r \in VisRequest : call[r].at = "served" /\ moved[r] = {} =>
        call[r].who \in enabled /\ Sees(shown, call[r].item, roleBits[call[r].who])

(* A PATCH of a collection leaves what it was not asked to change, as long   *)
(* as no other request wrote in between.                                     *)
PatchStep ==
    \A r \in VisRequest :
        call[r].op = "patch" /\ call[r].at = "write" /\ call'[r].at = "done" /\ moved[r] = {}
        => LET c == call[r].shelf
           IN  /\ "mask" \notin call[r].asked => shelves'[c].mask = shelves[c].mask
               /\ "login" \notin call[r].asked => shelves'[c].login = shelves[c].login
PatchesOnlyWhatIsAsked == [][PatchStep]_visVars

(* Both: a row that is written as a whole, from what was read before,        *)
(* changes only what was asked for or allowed (update_collection,            *)
(* update_instance_settings_handler).                                        *)
RowsWrittenAsAsked == PatchesOnlyWhatIsAsked /\ ReorderMaskIsTheOwners

(* Opening agrees with listing, for the user and for the token they hand on  *)
(* to a media player (item_visible_to, issue_media_token, serve_media).      *)
OpenedIsWhatIsListed == ListedIsReachable /\ TokenFollowsItsIssuer

(* Who sees what changes by a request for it only: not with a new role, and  *)
(* not with a field that was not asked for (create_custom_role_avoiding,     *)
(* update_collection, update_instance_settings_handler).                     *)
MasksChangeAsAsked == NewRolesSeeNothing /\ RowsWrittenAsAsked
=============================================================================
