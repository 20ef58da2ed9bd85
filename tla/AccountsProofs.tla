--------------------------- MODULE AccountsProofs ---------------------------
(***************************************************************************)
(* Proofs about Accounts, for any number of requests under way, rowids,    *)
(* accounts and custom roles.                                              *)
(***************************************************************************)
EXTENDS Accounts, TLAPS

(***************************************************************************)
(* What a request that stands at a, having read w, relies on.  The uid it  *)
(* looked up is no other row's than the one whose rowid it holds: rowids   *)
(* are handed out again, but with a new uid.                               *)
(***************************************************************************)
Sound(a, w, u, n) ==
    /\ w.uid <= n
    /\ a \in {"new", "grant"} => w.todo # <<>>
    /\ a \notin {"free", "new", "lookup"} => w.id \in Ids
    /\ a \in {"held", "drop"} => w.role \in Roles \ {"owner"}
    /\ a = "check" /\ w.op \in {"assign", "remove"} => w.role \in Roles
    /\ a \in {"check", "write"} => w.uid # 0 /\ \A j \in Ids : u[j] = w.uid => j = w.id

Sane == \A h \in Handlers : Sound(at[h], work[h], uid, uids)

\* Uids are handed out in order, so that the next one is new.
Numbered == \A i \in Ids : uid[i] <= uids

IInv == TypeOK /\ Numbered /\ Sane

---------------------------------------------------------------------------
(* Moves of one request leave the others what they rely on.                *)

LEMMA IdleWorks == Idle \in Works
<1>1. <<>> \in Seq(Roles)
  OBVIOUS
<1> QED
  BY <1>1, AccountsAssumption DEF Idle, Works, Ops

LEMMA IdleSound ==
    ASSUME NEW u, NEW n \in Nat
    PROVE  Sound("free", Idle, u, n)
BY DEF Sound, Idle

LEMMA Others ==
    ASSUME Columns, Sane,
           NEW h \in Handlers, NEW step \in Steps, NEW w \in Works, Goes(h, step, w),
           uids' \in Nat, uids <= uids',
           \A j \in Ids : uid'[j] = uid[j] \/ uid'[j] = 0 \/ uid'[j] > uids,
           Sound(step, w, uid', uids')
    PROVE  at' \in [Handlers -> Steps] /\ work' \in [Handlers -> Works] /\ Sane'
<1>1. at' \in [Handlers -> Steps] /\ work' \in [Handlers -> Works]
  BY DEF Columns, Goes
<1>2. ASSUME NEW k \in Handlers PROVE Sound(at'[k], work'[k], uid', uids')
  <2>1. CASE k = h
    BY <2>1 DEF Goes, Columns
  <2>2. CASE k # h
    <3>1. at'[k] = at[k] /\ work'[k] = work[k]
      BY <2>2 DEF Goes, Columns
    <3>2. Sound(at[k], work[k], uid, uids)
      BY DEF Sane
    <3>3. work[k].uid \in Nat /\ uids \in Nat
      BY AccountsAssumption DEF Columns, Works
    <3>4. Sound(at[k], work[k], uid', uids')
      BY <3>2, <3>3 DEF Sound
    <3> QED
      BY <3>1, <3>4
  <2> QED
    BY <2>1, <2>2
<1> QED
  BY <1>1, <1>2 DEF Sane

\* The same for a request that is over, and for one that has only read.
LEMMA OthersDone ==
    ASSUME Columns, Sane, NEW h \in Handlers, Done(h), uids' = uids,
           \A j \in Ids : uid'[j] = uid[j] \/ uid'[j] = 0
    PROVE  at' \in [Handlers -> Steps] /\ work' \in [Handlers -> Works] /\ Sane'
<1>1. Sound("free", Idle, uid', uids')
  BY IdleSound DEF Columns
<1> QED
  BY <1>1, IdleWorks, Others DEF Done, Columns, Steps

---------------------------------------------------------------------------

THEOREM Initial == Init => IInv
<1> SUFFICES ASSUME Init PROVE IInv
  OBVIOUS
<1> USE AccountsAssumption
<1>1. PICK n \in 0 .. MaxId :
        /\ uids = n
        /\ uid = [i \in Ids |-> IF i <= n THEN i ELSE 0]
        /\ active = [i \in Ids |-> i <= n]
        /\ roles \in [Ids -> {{}, {"user"}, BuiltIn}]
        /\ \A i \in Ids : (roles[i] = {}) = (i > n)
  BY DEF Init
<1>2. Columns
  <2>1. uid \in [Ids -> 0 .. MaxUid] /\ active \in [Ids -> BOOLEAN] /\ uids \in 0 .. MaxUid
    BY <1>1 DEF Ids
  <2>2. roles \in [Ids -> SUBSET Roles]
    BY <1>1 DEF Roles, BuiltIn
  <2> QED
    BY <2>1, <2>2, IdleWorks DEF Init, Columns, Steps
<1>3. Keys
  <2>1. \A i \in Ids : uid[i] = 0 => ~active[i] /\ roles[i] = {}
    <3> TAKE i \in Ids
    <3> HAVE uid[i] = 0
    <3>1. i > n
      BY <1>1 DEF Ids
    <3>2. ~active[i]
      <4>1. active[i] = (i <= n)
        BY <1>1, Zenon
      <4>2. ~(i <= n)
        BY <3>1 DEF Ids
      <4> QED
        BY <4>1, <4>2, Zenon
    <3>3. roles[i] = {}
      BY <1>1, <3>1, Zenon
    <3> QED
      BY <3>2, <3>3
  <2>2. \A i, j \in Ids : uid[i] = uid[j] /\ uid[i] # 0 => i = j
    BY <1>1 DEF Ids
  <2>3. \A i \in Ids : roles[i] \subseteq BuiltIn
    BY <1>1 DEF BuiltIn
  <2> QED
    BY <2>1, <2>2, <2>3 DEF Keys, Init
<1>4. Numbered
  BY <1>1 DEF Numbered, Ids
<1>5. Sane
  BY <1>1, IdleSound DEF Sane, Init
<1> QED
  BY <1>2, <1>3, <1>4, <1>5 DEF IInv, TypeOK

---------------------------------------------------------------------------
(* Steps that only read, or only end a request: the tables stay.           *)

LEMMA ReadStep ==
    ASSUME IInv, NEW h \in Handlers, NEW step \in Steps, NEW w \in Works,
           Goes(h, step, w), Sound(step, w, uid, uids), UNCHANGED people,
           sessions' \in SUBSET sessions, behind' \in SUBSET Ids,
           requests' \in 0 .. MaxRequests
    PROVE  IInv'
<1>1. /\ at' \in [Handlers -> Steps]
      /\ work' \in [Handlers -> Works]
      /\ Sane'
  BY Others DEF IInv, TypeOK, Columns, people
<1>2. Columns'
  BY <1>1 DEF IInv, TypeOK, Columns, people
<1>3. Keys' /\ Numbered'
  BY DEF IInv, TypeOK, Keys, Numbered, people
<1> QED
  BY <1>1, <1>2, <1>3 DEF IInv, TypeOK

\* What a caller is: the rowid of a user, and a set of roles.
LEMMA CallerType ==
    ASSUME TypeOK, NEW c \in Callers
    PROVE  c.id \in Ids /\ c.bits \in SUBSET Roles
BY DEF TypeOK, Columns, Callers

LEMMA BeginType ==
    ASSUME IInv, NEW h \in Handlers, NEW step \in Steps, NEW w \in Works,
           Begins(h, step, w), Sound(step, w, uid, uids)
    PROVE  IInv'
<1>1. requests' \in 0 .. MaxRequests
  BY AccountsAssumption DEF IInv, TypeOK, Columns, Begins
<1>2. sessions' \in SUBSET sessions /\ behind' \in SUBSET Ids
  BY DEF IInv, TypeOK, Columns, Begins, signedIn
<1> QED
  BY <1>1, <1>2, ReadStep DEF Begins

LEMMA BeginSteps ==
    ASSUME IInv, NEW h \in Handlers,
           BeginSetup(h) \/ BeginCreate(h) \/ BeginLogin(h) \/ BeginAdmin(h)
    PROVE  IInv'
<1> USE AccountsAssumption
<1>0. <<"user", "admin", "owner">> \in Seq(Roles) /\ <<"user">> \in Seq(Roles)
      /\ <<>> \in Seq(Roles) /\ uids \in Nat
  BY DEF Roles, BuiltIn, IInv, TypeOK, Columns
<1>1. CASE BeginSetup(h)
  <2> DEFINE w == [Idle EXCEPT !.op = "setup", !.todo = <<"user", "admin", "owner">>]
  <2>1. w \in Works
    BY <1>0, IdleWorks DEF Works, Ops
  <2>2. Sound("new", w, uid, uids)
    BY <1>0 DEF Idle, Sound
  <2> QED
    BY <1>1, <2>1, <2>2, BeginType DEF BeginSetup, Steps
<1>2. CASE BeginCreate(h)
  <2>1. PICK c \in Callers :
          Begins(h, "new", [Idle EXCEPT !.op = "create", !.me = c.id, !.todo = <<"user">>])
    BY <1>2 DEF BeginCreate
  <2> DEFINE w == [Idle EXCEPT !.op = "create", !.me = c.id, !.todo = <<"user">>]
  <2>2. w \in Works
    <3>1. c.id \in 0 .. MaxId /\ c.bits \in SUBSET Roles
      BY CallerType DEF IInv, Ids
    <3> QED
      BY <1>0, <3>1, IdleWorks DEF Works, Ops
  <2>3. Sound("new", w, uid, uids)
    BY <1>0 DEF Idle, Sound
  <2> QED
    BY <2>1, <2>2, <2>3, BeginType DEF Steps
<1>3. CASE BeginLogin(h)
  <2>1. PICK i \in Ids : Begins(h, "bits", [Idle EXCEPT !.op = "login", !.id = i])
    BY <1>3 DEF BeginLogin
  <2> DEFINE w == [Idle EXCEPT !.op = "login", !.id = i]
  <2>2. w \in Works
    <3>1. i \in 0 .. MaxId
      BY DEF Ids
    <3> QED
      BY <3>1, IdleWorks DEF Works, Ops
  <2>3. Sound("bits", w, uid, uids)
    BY <1>0 DEF Idle, Sound
  <2> QED
    BY <2>1, <2>2, <2>3, BeginType DEF Steps
<1>4. CASE BeginAdmin(h)
  <2>1. PICK c \in Callers :
          Begins(h, "lookup", [Idle EXCEPT !.me = c.id, !.bits = c.bits])
    BY <1>4 DEF BeginAdmin
  <2> DEFINE w == [Idle EXCEPT !.me = c.id, !.bits = c.bits]
  <2>2. w \in Works
    <3>1. c.id \in 0 .. MaxId /\ c.bits \in SUBSET Roles
      BY CallerType DEF IInv, Ids
    <3> QED
      BY <1>0, <3>1, IdleWorks DEF Works, Ops
  <2>3. Sound("lookup", w, uid, uids)
    BY <1>0 DEF Idle, Sound
  <2> QED
    BY <2>1, <2>2, <2>3, BeginType DEF Steps
<1> QED
  BY <1>1, <1>2, <1>3, <1>4

LEMMA LookupStep ==
    ASSUME IInv, NEW h \in Handlers, Lookup(h)
    PROVE  IInv'
<1> USE AccountsAssumption
<1>1. PICK i \in Ids, op \in {"enable", "disable", "assign", "remove", "delete"},
           r \in Roles \cup {"none"} :
        /\ (op \in {"assign", "remove"}) = (r # "none")
        /\ uid[i] # 0
        /\ Goes(h, "check", [work[h] EXCEPT !.op = op, !.id = i, !.uid = uid[i], !.role = r])
  BY DEF Lookup
<1> DEFINE w == [work[h] EXCEPT !.op = op, !.id = i, !.uid = uid[i], !.role = r]
<1>2. work[h] \in Works /\ uid[i] \in 0 .. MaxUid /\ i \in 0 .. MaxId /\ uids \in Nat
  BY DEF IInv, TypeOK, Columns, Ids
<1>3. w \in Works
  BY <1>2 DEF Works, Ops
<1>4. w.op = op /\ w.id = i /\ w.uid = uid[i] /\ w.role = r
  BY <1>2 DEF Works
<1>5. \A j \in Ids : uid[j] = uid[i] => j = i
  BY <1>1 DEF IInv, TypeOK, Keys
<1>6. uid[i] <= uids
  BY DEF IInv, Numbered
<1>7. op \in {"assign", "remove"} => r \in Roles
  BY <1>1
<1>8. Sound("check", w, uid, uids)
  BY <1>1, <1>4, <1>5, <1>6, <1>7 DEF Sound
<1> QED
  BY <1>1, <1>3, <1>8, ReadStep DEF Lookup, Steps, signedIn, IInv, TypeOK, Columns

\* What assign_role is to insert: at least the role itself.
LEMMA CumulativeType ==
    ASSUME NEW r \in Roles
    PROVE  Cumulative(r) \in Seq(Roles) /\ Cumulative(r) # <<>>
<1>1. CASE r = "user"
  BY <1>1 DEF Cumulative
<1>2. CASE r = "owner"
  <2>1. Cumulative(r) = <<"owner", "user", "admin">>
    BY <1>2 DEF Cumulative
  <2> QED
    BY <2>1 DEF Roles, BuiltIn
<1>3. CASE r \notin {"user", "owner"}
  <2>1. Cumulative(r) = <<r, "user">>
    BY <1>3 DEF Cumulative
  <2> QED
    BY <2>1 DEF Roles, BuiltIn
<1> QED
  BY <1>1, <1>2, <1>3

LEMMA CheckStep ==
    ASSUME IInv, NEW h \in Handlers, Check(h)
    PROVE  IInv'
<1> USE AccountsAssumption
<1> DEFINE w == work[h]
           next == CASE w.op = "assign"                     -> "grant"
                     [] w.op = "remove" /\ w.role # "owner" -> "held"
                     [] OTHER                               -> "write"
           v == IF w.op = "assign" THEN [w EXCEPT !.todo = Cumulative(w.role)] ELSE w
<1>1. w \in Works /\ uids \in Nat
  BY DEF IInv, TypeOK, Columns
<1>2. Sound("check", w, uid, uids)
  BY DEF IInv, Sane, Check
<1>3. Goes(h, next, v) \/ Goes(h, "free", Idle)
  BY DEF Check, Done
<1>4. next \in Steps
  BY DEF Steps
<1>5. v \in Works /\ Sound(next, v, uid, uids)
  <2>1. CASE w.op = "assign"
    <3>1. w.role \in Roles
      BY <1>2, <2>1 DEF Sound
    <3>2. Cumulative(w.role) \in Seq(Roles) /\ Cumulative(w.role) # <<>>
      BY <3>1, CumulativeType
    <3>3. v \in Works /\ v.todo = Cumulative(w.role) /\ v.id = w.id /\ v.uid = w.uid
      BY <1>1, <2>1, <3>2 DEF Works
    <3> QED
      BY <1>2, <2>1, <3>2, <3>3 DEF Sound
  <2>2. CASE w.op # "assign"
    BY <1>1, <1>2, <2>2 DEF Sound
  <2> QED
    BY <2>1, <2>2
<1>6. /\ UNCHANGED people
      /\ sessions' \in SUBSET sessions
      /\ behind' \in SUBSET Ids
      /\ requests' \in 0 .. MaxRequests
  BY DEF Check, signedIn, IInv, TypeOK, Columns
<1> HIDE DEF next, v
<1> QED
  BY <1>1, <1>3, <1>4, <1>5, <1>6, ReadStep, IdleWorks, IdleSound DEF Steps

LEMMA QuietSteps ==
    ASSUME IInv, NEW h \in Handlers,
           ReadBits(h) \/ HasRole(h) \/ Invalidate(h) \/ Fail(h)
    PROVE  IInv'
<1> USE AccountsAssumption
<1>1. work[h] \in Works /\ uids \in Nat /\ Sound(at[h], work[h], uid, uids)
  BY DEF IInv, TypeOK, Columns, Sane
<1>2. requests' \in 0 .. MaxRequests /\ UNCHANGED people
  BY DEF ReadBits, HasRole, Invalidate, Fail, IInv, TypeOK, Columns
<1>3. CASE ReadBits(h)
  <2> DEFINE w == [work[h] EXCEPT !.bits = roles[work[h].id]]
  <2>1. work[h].id \in Ids
    BY <1>1, <1>3 DEF ReadBits, Sound
  <2>2. roles[work[h].id] \in SUBSET Roles
    BY <2>1 DEF IInv, TypeOK, Columns
  <2>3. w \in Works /\ w.uid = work[h].uid /\ w.id = work[h].id
    BY <1>1, <2>2 DEF Works
  <2>4. Sound("session", w, uid, uids)
    BY <1>1, <2>1, <2>3 DEF Sound
  <2> QED
    BY <1>2, <1>3, <2>3, <2>4, ReadStep DEF ReadBits, Steps, signedIn, IInv, TypeOK, Columns
<1>4. CASE HasRole(h)
  <2>1. Sound("drop", work[h], uid, uids)
    BY <1>1, <1>4 DEF HasRole, Sound
  <2> QED
    BY <1>1, <1>2, <1>4, <2>1, ReadStep, IdleWorks, IdleSound
    DEF HasRole, Done, Steps, signedIn, IInv, TypeOK, Columns
<1>5. CASE Invalidate(h)
  <2>1. sessions' \in SUBSET sessions /\ behind' \in SUBSET Ids
    BY <1>5 DEF Invalidate, Invalidated, IInv, TypeOK, Columns
  <2> QED
    BY <1>1, <1>2, <1>5, <2>1, ReadStep, IdleWorks, IdleSound DEF Invalidate, Done, Steps
<1>6. CASE Fail(h)
  <2>1. behind' \in SUBSET Ids
    BY <1>1, <1>6 DEF Fail, IInv, TypeOK, Columns, Sound
  <2> QED
    BY <1>1, <1>2, <1>6, <2>1, ReadStep, IdleWorks, IdleSound DEF Fail, Done, Steps
<1> QED
  BY <1>3, <1>4, <1>5, <1>6

LEMMA CreateSessionStep ==
    ASSUME IInv, NEW h \in Handlers, CreateSession(h)
    PROVE  IInv'
<1>1. work[h] \in Works /\ work[h].id \in Ids
  BY DEF IInv, TypeOK, Columns, Sane, Sound, CreateSession
<1>2. /\ at' \in [Handlers -> Steps]
      /\ work' \in [Handlers -> Works]
      /\ Sane'
  BY OthersDone DEF IInv, TypeOK, CreateSession, people
<1>3. sessions' \in SUBSET [id : Ids, bits : SUBSET Roles] /\ behind' \in SUBSET Ids
  BY <1>1 DEF IInv, TypeOK, Columns, CreateSession, signedIn, Works
<1>4. \A s \in sessions' : uid[s.id] # 0
  BY <1>1 DEF IInv, TypeOK, Keys, CreateSession, signedIn
<1> QED
  BY <1>2, <1>3, <1>4 DEF IInv, TypeOK, Columns, Keys, Numbered, CreateSession, people

LEMMA EndSessionStep ==
    ASSUME IInv, NEW s \in sessions, EndSession(s)
    PROVE  IInv'
BY DEF IInv, TypeOK, Columns, Keys, Numbered, Sane, EndSession, people

---------------------------------------------------------------------------
(* Steps that write the accounts.                                          *)

LEMMA InsertUserStep ==
    ASSUME IInv, NEW h \in Handlers, InsertUser(h)
    PROVE  IInv'
<1> USE AccountsAssumption
<1>1. PICK i \in Ids :
        /\ IsNextId(i)
        /\ uid' = [uid EXCEPT ![i] = uids + 1]
        /\ active' = [active EXCEPT ![i] = TRUE]
        /\ Goes(h, "grant", [work[h] EXCEPT !.id = i])
  BY DEF InsertUser
<1>2. uid[i] = 0
  BY <1>1 DEF IsNextId, Ids
<1>3. uids \in Nat /\ uids' = uids + 1 /\ uids' \in 0 .. MaxUid
  BY DEF InsertUser, IInv, TypeOK, Columns
<1>4. uid' \in [Ids -> 0 .. MaxUid] /\ active' \in [Ids -> BOOLEAN]
  BY <1>1, <1>3 DEF IInv, TypeOK, Columns
<1>5. \A j \in Ids : uid'[j] = (IF j = i THEN uids + 1 ELSE uid[j])
  BY <1>1 DEF IInv, TypeOK, Columns
<1>6. /\ at' \in [Handlers -> Steps]
      /\ work' \in [Handlers -> Works]
      /\ Sane'
  <2> DEFINE w == [work[h] EXCEPT !.id = i]
  <2>1. work[h] \in Works /\ work[h].todo # <<>> /\ work[h].uid <= uids
    BY DEF IInv, TypeOK, Columns, Sane, Sound, InsertUser
  <2>2. w \in Works /\ w.id = i /\ w.todo = work[h].todo /\ w.uid = work[h].uid
    BY <2>1 DEF Works, Ids
  <2>3. w.uid <= uids'
    BY <1>3, <2>1, <2>2, SMTT(20) DEF Works
  <2>4. Sound("grant", w, uid', uids')
    BY <2>1, <2>2, <2>3 DEF Sound
  <2>5. \A j \in Ids : uid'[j] = uid[j] \/ uid'[j] = 0 \/ uid'[j] > uids
    BY <1>3, <1>5
  <2>6. uids' \in Nat /\ uids <= uids' /\ "grant" \in Steps
    BY <1>3 DEF Steps
  <2>7. Goes(h, "grant", w)
    BY <1>1
  <2> HIDE DEF w
  <2> QED
    BY <2>2, <2>4, <2>5, <2>6, <2>7, Others DEF IInv, TypeOK
<1>7. Columns'
  BY <1>3, <1>4, <1>6 DEF IInv, TypeOK, Columns, InsertUser, signedIn
<1>8. Numbered'
  BY <1>3, <1>5 DEF IInv, TypeOK, Columns, Numbered
<1>9. Keys'
  <2>1. \A j \in Ids : uid'[j] = 0 => uid[j] = 0 /\ j # i
    BY <1>3, <1>5
  <2>2. \A j \in Ids : uid'[j] = 0 => ~active'[j] /\ roles'[j] = {}
    BY <1>1, <2>1 DEF IInv, TypeOK, Keys, Columns, InsertUser
  <2>3. \A s \in sessions' : uid'[s.id] # 0
    BY <2>1 DEF IInv, TypeOK, Keys, Columns, InsertUser, signedIn
  <2>4. \A j, k \in Ids : uid'[j] = uid'[k] /\ uid'[j] # 0 => j = k
    <3>1. \A j \in Ids : uid[j] \in Nat /\ uid[j] < uids + 1
      BY <1>3 DEF IInv, Numbered, TypeOK, Columns
    <3> QED
      BY <1>3, <1>5, <3>1 DEF IInv, TypeOK, Keys
  <2> QED
    BY <2>2, <2>3, <2>4 DEF IInv, TypeOK, Keys, InsertUser
<1> QED
  BY <1>6, <1>7, <1>8, <1>9 DEF IInv, TypeOK

LEMMA GrantStep ==
    ASSUME IInv, NEW h \in Handlers, Grant(h)
    PROVE  IInv'
<1> USE AccountsAssumption
<1> DEFINE w == work[h]
           r == Head(w.todo)
           v == [w EXCEPT !.todo = Tail(w.todo)]
<1>1. w \in Works /\ uids \in Nat /\ Sound("grant", w, uid, uids)
  BY DEF IInv, TypeOK, Columns, Sane, Grant
<1>2. r \in Roles /\ w.id \in Ids /\ Tail(w.todo) \in Seq(Roles)
  BY <1>1 DEF Works, Sound
<1>3. \/ Goes(h, "free", Idle)
      \/ Tail(w.todo) # <<>> /\ Goes(h, "grant", v)
      \/ Goes(h, "invalidate", v)
  BY DEF Grant, Done
<1>4. /\ at' \in [Handlers -> Steps]
      /\ work' \in [Handlers -> Works]
      /\ Sane'
  <2>1. v \in Works /\ v.id = w.id /\ v.uid = w.uid /\ v.todo = Tail(w.todo)
    BY <1>1, <1>2 DEF Works
  <2>2. Sound("invalidate", v, uid, uids) /\ (Tail(w.todo) # <<>> => Sound("grant", v, uid, uids))
    BY <1>1, <2>1 DEF Sound
  <2>3. uids' = uids /\ uid' = uid
    BY DEF Grant
  <2>4. Sound("free", Idle, uid, uids)
    BY <1>1, IdleSound
  <2> HIDE DEF v, w
  <2> QED
    BY <1>1, <1>3, <2>1, <2>2, <2>3, <2>4, Others, IdleWorks DEF IInv, TypeOK, Steps
<1>5. roles' = roles \/ (CanGrant(w, r) /\ roles' = [roles EXCEPT ![w.id] = @ \cup {r}])
  BY DEF Grant
<1>6. Columns'
  <2>1. roles' \in [Ids -> SUBSET Roles]
    <3> HIDE DEF w, r
    <3> QED
      BY <1>2, <1>5 DEF IInv, TypeOK, Columns
  <2> QED
    BY <1>4, <2>1 DEF IInv, TypeOK, Columns, Grant, signedIn
<1>7. Keys'
  <2>1. CASE roles' = roles
    BY <2>1 DEF IInv, TypeOK, Keys, Grant, signedIn
  <2>2. CASE CanGrant(w, r) /\ roles' = [roles EXCEPT ![w.id] = @ \cup {r}]
    <3>1. r \in BuiltIn \cup live /\ uid[w.id] # 0
      BY <2>2 DEF CanGrant
    <3>2. \A i \in Ids : roles'[i] = IF i = w.id THEN roles[i] \cup {r} ELSE roles[i]
      BY <2>2 DEF IInv, TypeOK, Columns
    <3>3. \A i \in Ids : uid[i] = 0 => ~active[i] /\ roles'[i] = {}
      BY <3>1, <3>2 DEF IInv, TypeOK, Keys
    <3>4. ASSUME NEW i \in Ids PROVE roles'[i] \subseteq BuiltIn \cup live
      <4> HIDE DEF r
      <4>1. roles[i] \subseteq BuiltIn \cup live
        BY DEF IInv, TypeOK, Keys
      <4>2. roles'[i] \subseteq roles[i] \cup {r}
        BY <3>2
      <4> QED
        BY <3>1, <4>1, <4>2
    <3> QED
      BY <3>3, <3>4 DEF IInv, TypeOK, Keys, Grant, signedIn
  <2> QED
    BY <1>5, <2>1, <2>2
<1> QED
  BY <1>4, <1>6, <1>7 DEF IInv, TypeOK, Numbered, Grant

\* Statements that take roles away, or set a status, and leave the rows.
LEMMA LosesStep ==
    ASSUME IInv, UNCHANGED <<uid, uids>>, live' \in SUBSET live,
           roles' \in [Ids -> SUBSET Roles], active' \in [Ids -> BOOLEAN],
           \A i \in Ids : roles'[i] \subseteq roles[i] \cap (BuiltIn \cup live'),
           \A i \in Ids : uid[i] = 0 => ~active'[i],
           sessions' \in SUBSET sessions, behind' \in SUBSET behind,
           requests' \in 0 .. MaxRequests,
           at' \in [Handlers -> Steps], work' \in [Handlers -> Works], Sane'
    PROVE  IInv'
<1>1. Columns'
  BY DEF IInv, TypeOK, Columns
<1>2. Keys'
  BY DEF IInv, TypeOK, Keys
<1>3. Numbered'
  BY DEF IInv, Numbered
<1> QED
  BY <1>1, <1>2, <1>3 DEF IInv, TypeOK

LEMMA SetStatusStep ==
    ASSUME IInv, NEW h \in Handlers, SetStatus(h)
    PROVE  IInv'
<1>1. /\ at' \in [Handlers -> Steps]
      /\ work' \in [Handlers -> Works]
      /\ Sane'
  BY OthersDone DEF IInv, TypeOK, SetStatus
<1>2. work[h].uid # 0
  BY DEF IInv, Sane, Sound, SetStatus
<1>3. active' \in [Ids -> BOOLEAN] /\ \A i \in Ids : uid[i] = 0 => ~active'[i]
  <2>1. CASE active' = active
    BY <2>1 DEF IInv, TypeOK, Columns, Keys
  <2>2. CASE active' # active
    <3>1. active' = [i \in Ids |-> IF uid[i] = work[h].uid THEN work[h].op = "enable" ELSE active[i]]
      BY <2>2 DEF SetStatus
    <3>2. active' \in [Ids -> BOOLEAN]
      BY <3>1 DEF IInv, TypeOK, Columns
    <3>3. \A i \in Ids : uid[i] = 0 => active'[i] = active[i]
      BY <1>2, <3>1
    <3> QED
      BY <3>2, <3>3 DEF IInv, TypeOK, Keys
  <2> QED
    BY <2>1, <2>2
<1>4. sessions' \in SUBSET sessions /\ behind' \in SUBSET behind
  BY DEF SetStatus, Invalidated, signedIn
<1> QED
  BY <1>1, <1>3, <1>4, LosesStep DEF IInv, TypeOK, Columns, Keys, SetStatus

LEMMA RemoveOwnerStep ==
    ASSUME IInv, NEW h \in Handlers, RemoveOwner(h)
    PROVE  IInv'
<1>1. /\ at' \in [Handlers -> Steps]
      /\ work' \in [Handlers -> Works]
      /\ Sane'
  BY OthersDone DEF IInv, TypeOK, RemoveOwner
<1>2. /\ roles' \in [Ids -> SUBSET Roles]
      /\ \A i \in Ids : roles'[i] \subseteq roles[i]
  BY DEF RemoveOwner, IInv, TypeOK, Columns
<1>3. sessions' \in SUBSET sessions /\ behind' \in SUBSET behind
  BY DEF RemoveOwner, Invalidated, signedIn
<1> QED
  BY <1>1, <1>2, <1>3, LosesStep DEF IInv, TypeOK, Columns, Keys, RemoveOwner

LEMMA DropRoleStep ==
    ASSUME IInv, NEW h \in Handlers, DropRole(h)
    PROVE  IInv'
<1>1. work[h] \in Works /\ uids \in Nat /\ Sound("invalidate", work[h], uid, uids)
  BY DEF IInv, TypeOK, Columns, Sane, Sound, DropRole
<1>2. /\ at' \in [Handlers -> Steps]
      /\ work' \in [Handlers -> Works]
      /\ Sane'
  <2>1. CASE Done(h)
    BY <2>1, OthersDone DEF IInv, TypeOK, DropRole
  <2>2. CASE Goes(h, "invalidate", work[h])
    BY <1>1, <2>2, Others DEF IInv, TypeOK, DropRole, Steps
  <2> QED
    BY <2>1, <2>2 DEF DropRole
<1>3. /\ roles' \in [Ids -> SUBSET Roles]
      /\ \A i \in Ids : roles'[i] \subseteq roles[i]
  BY DEF DropRole, IInv, TypeOK, Columns
<1> QED
  BY <1>2, <1>3, LosesStep DEF IInv, TypeOK, Columns, Keys, DropRole, signedIn

LEMMA DeleteRoleStep ==
    ASSUME IInv, NEW r \in Custom, DeleteRole(r)
    PROVE  IInv'
<1>1. /\ at' \in [Handlers -> Steps]
      /\ work' \in [Handlers -> Works]
      /\ Sane'
  BY DEF IInv, TypeOK, Columns, Sane, DeleteRole
<1>2. /\ roles' \in [Ids -> SUBSET Roles]
      /\ \A i \in Ids : roles'[i] = roles[i] \ {r}
  BY DEF DeleteRole, IInv, TypeOK, Columns
<1>3. \A i \in Ids : roles'[i] \subseteq roles[i] \cap (BuiltIn \cup live')
  BY <1>2 DEF DeleteRole, IInv, TypeOK, Keys
<1>4. sessions' \in SUBSET sessions /\ behind' \in SUBSET behind
  BY DEF DeleteRole, Invalidated
<1>5. requests' \in 0 .. MaxRequests
  BY AccountsAssumption DEF DeleteRole, IInv, TypeOK, Columns
<1> QED
  BY <1>1, <1>2, <1>3, <1>4, <1>5, LosesStep DEF IInv, TypeOK, Columns, Keys, DeleteRole

LEMMA DeleteUserStep ==
    ASSUME IInv, NEW h \in Handlers, DeleteUser(h)
    PROVE  IInv'
<1> DEFINE i == work[h].id
<1>1. CASE UNCHANGED <<uid, active, roles, signedIn>>
  <2>1. Sane' /\ at' \in [Handlers -> Steps] /\ work' \in [Handlers -> Works]
    BY <1>1, OthersDone DEF IInv, TypeOK, DeleteUser
  <2> QED
    BY <1>1, <2>1 DEF IInv, TypeOK, Columns, Keys, Numbered, DeleteUser, signedIn
<1>2. CASE /\ uid' = [uid EXCEPT ![i] = 0]
           /\ active' = [active EXCEPT ![i] = FALSE]
           /\ roles' = [roles EXCEPT ![i] = {}]
           /\ Invalidated({i})
  <2>1. \A j \in Ids : /\ uid'[j] = (IF j = i THEN 0 ELSE uid[j])
                       /\ active'[j] = (IF j = i THEN FALSE ELSE active[j])
                       /\ roles'[j] = (IF j = i THEN {} ELSE roles[j])
    BY <1>2 DEF IInv, TypeOK, Columns
  <2>2. Sane' /\ at' \in [Handlers -> Steps] /\ work' \in [Handlers -> Works]
    BY <2>1, OthersDone DEF IInv, TypeOK, DeleteUser
  <2>3. /\ uid' \in [Ids -> 0 .. MaxUid]
        /\ active' \in [Ids -> BOOLEAN]
        /\ roles' \in [Ids -> SUBSET Roles]
    <3>1. 0 \in 0 .. MaxUid
      BY AccountsAssumption
    <3>2. uid' \in [Ids -> 0 .. MaxUid]
      BY <1>2, <3>1 DEF IInv, TypeOK, Columns
    <3>3. active' \in [Ids -> BOOLEAN]
      BY <1>2 DEF IInv, TypeOK, Columns
    <3>4. roles' \in [Ids -> SUBSET Roles]
      BY <1>2 DEF IInv, TypeOK, Columns
    <3> QED
      BY <3>2, <3>3, <3>4
  <2>4. Columns'
    BY <1>2, <2>2, <2>3 DEF IInv, TypeOK, Columns, DeleteUser, Invalidated
  <2>5. Keys'
    <3>1. \A j \in Ids : uid'[j] = 0 => ~active'[j] /\ roles'[j] = {}
      BY <2>1 DEF IInv, TypeOK, Keys
    <3>2. \A s \in sessions' : s \in sessions /\ s.id # i
      BY <1>2 DEF Invalidated
    <3>3. \A s \in sessions' : uid'[s.id] # 0
      BY <2>1, <3>2, ZenonT(40) DEF IInv, TypeOK, Keys, Columns
    <3>4. ASSUME NEW j \in Ids, NEW k \in Ids, uid'[j] = uid'[k], uid'[j] # 0
          PROVE  j = k
      <4>1. uid'[j] = uid[j] /\ uid'[k] = uid[k]
        BY <2>1, <3>4
      <4> QED
        BY <3>4, <4>1 DEF IInv, TypeOK, Keys
    <3>5. \A j \in Ids : roles'[j] \subseteq BuiltIn \cup live
      BY <2>1 DEF IInv, TypeOK, Keys
    <3> QED
      BY <3>1, <3>3, <3>4, <3>5 DEF Keys, DeleteUser
  <2>6. Numbered'
    BY <2>1 DEF IInv, TypeOK, Columns, Numbered, DeleteUser
  <2> QED
    BY <2>2, <2>4, <2>5, <2>6 DEF IInv, TypeOK
<1> QED
  BY <1>1, <1>2 DEF DeleteUser

---------------------------------------------------------------------------
(* Every step keeps the inductive invariant.                               *)

THEOREM Inductive == IInv /\ [Next]_vars => IInv'
<1> SUFFICES ASSUME IInv, [Next]_vars PROVE IInv'
  OBVIOUS
<1>1. CASE UNCHANGED vars
  BY <1>1 DEF vars, IInv, TypeOK, Columns, Keys, Numbered, Sane
<1>2. ASSUME NEW h \in Handlers, Request(h) PROVE IInv'
  BY <1>2, BeginSteps, LookupStep, CheckStep, QuietSteps, CreateSessionStep,
     InsertUserStep, GrantStep, SetStatusStep, RemoveOwnerStep, DropRoleStep,
     DeleteUserStep
  DEF Request
<1> QED
  BY <1>1, <1>2, EndSessionStep, DeleteRoleStep DEF Next

\* The tables keep their types and keys.
THEOREM TypesHold == Spec => []TypeOK
<1>1. IInv => TypeOK
  BY DEF IInv
<1> QED
  BY <1>1, Initial, Inductive, PTL DEF Spec

(***************************************************************************)
(* An active owner remains.  Four statements could take the last one away: *)
(* the disabling, the deletion and the removal of the owner role check for *)
(* another under their lock, and the removal of another role and the       *)
(* deletion of a custom one never touch `owner`.  The disabling checks one *)
(* rowid and writes by uid: `Sane` says they are one row, if any.          *)
(***************************************************************************)
LEMMA OwnerStays ==
    ASSUME NEW i \in ActiveOwners, i \in Ids => active'[i] /\ "owner" \in roles'[i]
    PROVE  ActiveOwners' # {}
BY DEF ActiveOwners, OwnerRows

LEMMA OwnerStep ==
    ASSUME IInv, Next, ActiveOwners # {}
    PROVE  ActiveOwners' # {}
<1> USE DEF Columns
<1>0. PICK o \in Ids : active[o] /\ "owner" \in roles[o] /\ o \in ActiveOwners
  BY DEF ActiveOwners, OwnerRows
<1>1. ASSUME \A i \in Ids : (active[i] => active'[i]) /\ ("owner" \in roles[i] => "owner" \in roles'[i])
      PROVE  ActiveOwners' # {}
  BY <1>0, <1>1, OwnerStays
<1>2. ASSUME NEW i \in Ids, NotLastOwner(i),
             \A j \in Ids \ {i} : active'[j] = active[j] /\ roles'[j] = roles[j]
      PROVE  ActiveOwners' # {}
  <2>1. PICK k \in ActiveOwners : k # i
    BY <1>0, <1>2 DEF NotLastOwner
  <2>2. active[k] /\ "owner" \in roles[k]
    BY DEF ActiveOwners, OwnerRows
  <2> QED
    BY <1>2, <2>1, <2>2, OwnerStays
<1>3. ASSUME NEW h \in Handlers, Request(h) PROVE ActiveOwners' # {}
  <2>1. CASE UNCHANGED <<active, roles>>
    BY <2>1, <1>1
  <2>2. CASE InsertUser(h)
    <3>1. PICK i \in Ids : active' = [active EXCEPT ![i] = TRUE]
      BY <2>2 DEF InsertUser
    <3>2. roles' = roles /\ \A j \in Ids : active[j] => active'[j]
      BY <2>2, <3>1 DEF InsertUser, IInv, TypeOK
    <3> QED
      BY <3>2, <1>1
  <2>3. CASE Grant(h)
    <3>1. active' = active /\ \A j \in Ids : roles[j] \subseteq roles'[j]
      BY <2>3 DEF Grant, IInv, TypeOK
    <3> QED
      BY <3>1, <1>1
  <2>4. CASE SetStatus(h)
    <3>1. roles' = roles
      BY <2>4 DEF SetStatus
    <3>2. CASE active' = active
      BY <3>1, <3>2, <2>1
    <3>3. CASE work[h].op = "enable"
      <4>1. \A j \in Ids : active[j] => active'[j]
        BY <2>4, <3>3 DEF SetStatus, IInv, TypeOK
      <4> QED
        BY <3>1, <4>1, <1>1
    <3>4. CASE work[h].op # "enable" /\ active' # active
      <4>1. work[h].id \in Ids /\ \A j \in Ids : uid[j] = work[h].uid => j = work[h].id
        BY <2>4 DEF SetStatus, IInv, Sane, Sound
      <4>2. NotLastOwner(work[h].id)
        BY <2>4, <3>4 DEF SetStatus
      <4>3. \A j \in Ids \ {work[h].id} : active'[j] = active[j]
        BY <2>4, <4>1 DEF SetStatus, IInv, TypeOK
      <4> QED
        BY <3>1, <4>1, <4>2, <4>3, <1>2
    <3> QED
      BY <3>2, <3>3, <3>4
  <2>5. CASE DeleteUser(h)
    <3>1. work[h].id \in Ids
      BY <2>5 DEF DeleteUser, IInv, Sane, Sound
    <3>2. CASE UNCHANGED <<active, roles>>
      BY <3>2, <2>1
    <3>3. CASE ~UNCHANGED <<active, roles>>
      <4>1. NotLastOwner(work[h].id)
        BY <2>5, <3>3 DEF DeleteUser
      <4>2. \A j \in Ids \ {work[h].id} : active'[j] = active[j] /\ roles'[j] = roles[j]
        BY <2>5 DEF DeleteUser, IInv, TypeOK
      <4> QED
        BY <3>1, <4>1, <4>2, <1>2
    <3> QED
      BY <3>2, <3>3
  <2>6. CASE RemoveOwner(h)
    <3>1. work[h].id \in Ids /\ active' = active
      BY <2>6 DEF RemoveOwner, IInv, Sane, Sound
    <3>2. CASE roles' = roles
      BY <3>1, <3>2, <2>1
    <3>3. CASE roles' # roles
      <4>1. NotLastOwner(work[h].id)
        BY <2>6, <3>3 DEF RemoveOwner
      <4>2. \A j \in Ids \ {work[h].id} : roles'[j] = roles[j]
        BY <2>6 DEF RemoveOwner, IInv, TypeOK
      <4> QED
        BY <3>1, <4>1, <4>2, <1>2
    <3> QED
      BY <3>2, <3>3
  <2>7. CASE DropRole(h)
    <3>1. work[h].role # "owner" /\ active' = active
      BY <2>7 DEF DropRole, IInv, Sane, Sound
    <3>2. \A j \in Ids : roles[j] \ {work[h].role} \subseteq roles'[j]
      BY <2>7 DEF DropRole, IInv, TypeOK
    <3> QED
      BY <3>1, <3>2, <1>1
  <2> QED
    BY <1>3, <2>1, <2>2, <2>3, <2>4, <2>5, <2>6, <2>7
    DEF Request, BeginSetup, BeginCreate, BeginLogin, BeginAdmin, Begins, Lookup, Check,
        ReadBits, CreateSession, HasRole, Invalidate, Fail, people
<1>4. ASSUME NEW r \in Custom, DeleteRole(r) PROVE ActiveOwners' # {}
  <2>1. r # "owner"
    BY AccountsAssumption DEF BuiltIn
  <2>2. active' = active /\ \A j \in Ids : roles'[j] = roles[j] \ {r}
    BY <1>4 DEF DeleteRole
  <2> QED
    BY <2>1, <2>2, <1>1
<1>5. ASSUME NEW s \in sessions, EndSession(s) PROVE ActiveOwners' # {}
  BY <1>5, <1>1 DEF EndSession, people
<1> QED
  BY <1>3, <1>4, <1>5 DEF Next

\* Once the instance has an active owner it always has one.
THEOREM OwnerRemains == Spec => ActiveOwnerRemains
<1>1. IInv /\ [Next]_vars => [ActiveOwners # {} => ActiveOwners' # {}]_vars
  BY OwnerStep
<1> QED
  BY <1>1, Initial, Inductive, PTL DEF Spec, ActiveOwnerRemains

---------------------------------------------------------------------------
(* Sessions are current, and disabled users signed out.                    *)

SInv == SessionsAreCurrent /\ DisabledIsSignedOut

\* A session stays as good as it was where its user loses nothing, and where the
\* request that is about to delete it still is, or is known to have failed.
LEMMA SessionsKept ==
    ASSUME SInv, sessions' \in SUBSET sessions,
           \A s \in sessions' : /\ roles[s.id] \subseteq roles'[s.id]
                                /\ active[s.id] => active'[s.id]
                                /\ s.id \in behind => s.id \in behind',
           \A k \in Handlers, s \in sessions' :
              at[k] = "invalidate" /\ work[k].id = s.id =>
                 (at'[k] = "invalidate" /\ work'[k].id = s.id) \/ s.id \in behind'
    PROVE  SInv'
<1>1. ASSUME NEW s \in sessions' PROVE active'[s.id] \/ s.id \in behind'
  BY DEF SInv, DisabledIsSignedOut
<1>2. ASSUME NEW s \in sessions'
      PROVE  \/ s.bits \subseteq roles'[s.id]
             \/ s.id \in behind'
             \/ \E h \in Handlers : at'[h] = "invalidate" /\ work'[h].id = s.id
  <2>1. \/ s.bits \subseteq roles[s.id]
        \/ s.id \in behind
        \/ \E h \in Handlers : at[h] = "invalidate" /\ work[h].id = s.id
    BY DEF SInv, SessionsAreCurrent
  <2> QED
    BY <2>1
<1> QED
  BY <1>1, <1>2 DEF SInv, SessionsAreCurrent, DisabledIsSignedOut

\* Moving a request that is not about to delete sessions does not matter.
LEMMA Announced ==
    ASSUME IInv, NEW h \in Handlers, at[h] # "invalidate",
           NEW step, NEW w, Goes(h, step, w)
    PROVE  \A k \in Handlers, s \in sessions' :
              at[k] = "invalidate" /\ work[k].id = s.id =>
                 (at'[k] = "invalidate" /\ work'[k].id = s.id) \/ s.id \in behind'
BY DEF IInv, TypeOK, Columns, Goes

LEMMA SessionStep == IInv /\ SInv /\ [Next]_vars => SInv'
<1> SUFFICES ASSUME IInv, SInv, [Next]_vars PROVE SInv'
  OBVIOUS
<1>0. \A s \in sessions : s.id \in Ids /\ uid[s.id] # 0
  BY DEF IInv, TypeOK, Columns, Keys
<1>1. CASE UNCHANGED vars
  BY <1>1 DEF vars, SInv, SessionsAreCurrent, DisabledIsSignedOut
<1>2. ASSUME NEW h \in Handlers, Request(h) PROVE SInv'
  <2>1. CASE \/ BeginSetup(h) \/ BeginCreate(h) \/ BeginLogin(h) \/ BeginAdmin(h)
             \/ ReadBits(h) \/ Lookup(h) \/ Check(h) \/ HasRole(h)
    <3>1. UNCHANGED <<people, signedIn>>
      BY <2>1 DEF BeginSetup, BeginCreate, BeginLogin, BeginAdmin, Begins, ReadBits,
                  Lookup, Check, HasRole
    <3>2. at[h] # "invalidate" /\ \E step, w : Goes(h, step, w)
      BY <2>1 DEF BeginSetup, BeginCreate, BeginLogin, BeginAdmin, Begins, ReadBits,
                  Lookup, Check, HasRole, Done
    <3> QED
      BY <3>1, <3>2, Announced, SessionsKept DEF people, signedIn
  <2>2. CASE InsertUser(h)
    <3>1. PICK i \in Ids : /\ active' = [active EXCEPT ![i] = TRUE]
                           /\ Goes(h, "grant", [work[h] EXCEPT !.id = i])
      BY <2>2 DEF InsertUser
    <3>2. \A j \in Ids : active[j] => active'[j]
      BY <3>1 DEF IInv, TypeOK, Columns
    <3>3. at[h] # "invalidate" /\ roles' = roles /\ UNCHANGED signedIn
      BY <2>2 DEF InsertUser
    <3> QED
      BY <1>0, <3>1, <3>2, <3>3, Announced, SessionsKept DEF signedIn
  <2>3. CASE Grant(h)
    <3>1. at[h] # "invalidate" /\ active' = active /\ UNCHANGED signedIn
      BY <2>3 DEF Grant
    <3>2. \A j \in Ids : roles[j] \subseteq roles'[j]
      BY <2>3 DEF Grant, IInv, TypeOK, Columns
    <3>3. \E step, w : Goes(h, step, w)
      BY <2>3 DEF Grant, Done
    <3> QED
      BY <1>0, <3>1, <3>2, <3>3, Announced, SessionsKept DEF signedIn
  <2>4. CASE CreateSession(h)
    <3>1. at[h] = "session" /\ roles' = roles /\ active' = active
      BY <2>4 DEF CreateSession, people
    <3>2. \A k \in Handlers : at[k] = "invalidate" =>
                                at'[k] = "invalidate" /\ work'[k] = work[k]
      BY <2>4, <3>1 DEF CreateSession, Done, Goes, IInv, TypeOK, Columns
    <3>3. ASSUME NEW s \in sessions', s \in sessions
          PROVE  /\ active'[s.id] \/ s.id \in behind'
                 /\ \/ s.bits \subseteq roles'[s.id]
                    \/ s.id \in behind'
                    \/ \E k \in Handlers : at'[k] = "invalidate" /\ work'[k].id = s.id
      <4>1. behind \subseteq behind'
        BY <2>4 DEF CreateSession, signedIn
      <4>2. active[s.id] \/ s.id \in behind
        BY <3>3 DEF SInv, DisabledIsSignedOut
      <4>3. \/ s.bits \subseteq roles[s.id]
            \/ s.id \in behind
            \/ \E k \in Handlers : at[k] = "invalidate" /\ work[k].id = s.id
        BY <3>3 DEF SInv, SessionsAreCurrent
      <4> QED
        BY <3>1, <3>2, <4>1, <4>2, <4>3
    <3>4. ASSUME NEW s \in sessions', s \notin sessions
          PROVE  (active'[s.id] /\ s.bits \subseteq roles'[s.id]) \/ s.id \in behind'
      <4>1. s = [id |-> work[h].id, bits |-> work[h].bits]
        BY <2>4, <3>4 DEF CreateSession, signedIn
      <4>2. s.id = work[h].id /\ s.bits = work[h].bits
        BY <4>1
      <4>3. \/ active[work[h].id] /\ work[h].bits \subseteq roles[work[h].id]
            \/ work[h].id \in behind'
        BY <2>4, <3>4 DEF CreateSession, signedIn
      <4> QED
        BY <3>1, <4>2, <4>3
    <3> QED
      BY <3>3, <3>4 DEF SInv, SessionsAreCurrent, DisabledIsSignedOut
  <2>5. CASE SetStatus(h) \/ DeleteUser(h) \/ RemoveOwner(h)
    <3>1. at[h] # "invalidate" /\ Goes(h, "free", Idle)
      BY <2>5 DEF SetStatus, DeleteUser, RemoveOwner, Done
    <3>2. ASSUME NEW s \in sessions'
          PROVE  /\ s \in sessions
                 /\ roles[s.id] \subseteq roles'[s.id]
                 /\ active[s.id] => active'[s.id]
                 /\ s.id \in behind => s.id \in behind'
      <4>1. CASE SetStatus(h)
        BY <1>0, <4>1 DEF SetStatus, Invalidated, signedIn
      <4>2. CASE DeleteUser(h)
        BY <1>0, <4>2 DEF DeleteUser, Invalidated, signedIn, IInv, TypeOK, Columns
      <4>3. CASE RemoveOwner(h)
        BY <1>0, <4>3 DEF RemoveOwner, Invalidated, signedIn, IInv, TypeOK, Columns
      <4> QED
        BY <2>5, <4>1, <4>2, <4>3
    <3> QED
      BY <3>1, <3>2, Announced, SessionsKept
  <2>6. CASE DropRole(h)
    <3>1. at[h] = "drop" /\ active' = active /\ UNCHANGED signedIn
      BY <2>6 DEF DropRole
    <3>2. \A k \in Handlers : at[k] = "invalidate" =>
                                at'[k] = "invalidate" /\ work'[k] = work[k]
      BY <2>6, <3>1 DEF DropRole, Done, Goes, IInv, TypeOK, Columns
    <3>3. ASSUME NEW s \in sessions
          PROVE  \/ roles'[s.id] = roles[s.id]
                 \/ at'[h] = "invalidate" /\ work'[h].id = s.id
      BY <1>0, <2>6 DEF DropRole, Done, Goes, IInv, TypeOK, Columns
    <3> QED
      BY <3>1, <3>2, <3>3 DEF SInv, SessionsAreCurrent, DisabledIsSignedOut, signedIn
  <2>7. CASE Invalidate(h)
    <3>1. \A k \in Handlers \ {h} : at'[k] = at[k] /\ work'[k] = work[k]
      BY <2>7 DEF Invalidate, Done, Goes, IInv, TypeOK, Columns
    <3>2. \A s \in sessions' : /\ s \in sessions /\ s.id # work[h].id
                               /\ s.id \in behind => s.id \in behind'
      BY <2>7 DEF Invalidate, Invalidated
    <3>3. roles' = roles /\ active' = active
      BY <2>7 DEF Invalidate, people
    <3> QED
      BY <3>1, <3>2, <3>3, SessionsKept
  <2>8. CASE Fail(h)
    <3>1. \A k \in Handlers \ {h} : at'[k] = at[k] /\ work'[k] = work[k]
      BY <2>8 DEF Fail, Done, Goes, IInv, TypeOK, Columns
    <3>2. /\ behind \subseteq behind'
          /\ at[h] = "invalidate" => work[h].id \in behind'
      BY <2>8 DEF Fail
    <3>3. roles' = roles /\ active' = active /\ sessions' = sessions
      BY <2>8 DEF Fail, people
    <3> QED
      BY <3>1, <3>2, <3>3, SessionsKept
  <2> QED
    BY <1>2, <2>1, <2>2, <2>3, <2>4, <2>5, <2>6, <2>7, <2>8 DEF Request
<1>3. ASSUME NEW s \in sessions, EndSession(s) PROVE SInv'
  BY <1>3 DEF EndSession, people, SInv, SessionsAreCurrent, DisabledIsSignedOut
<1>4. ASSUME NEW r \in Custom, DeleteRole(r) PROVE SInv'
  <2>1. ASSUME NEW s \in sessions'
        PROVE  /\ s \in sessions
               /\ roles[s.id] \subseteq roles'[s.id]
               /\ s.id \in behind => s.id \in behind'
    BY <1>0, <1>4 DEF DeleteRole, Invalidated
  <2>2. active' = active /\ at' = at /\ work' = work
    BY <1>4 DEF DeleteRole
  <2> QED
    BY <2>1, <2>2, SessionsKept
<1> QED
  BY <1>1, <1>2, <1>3, <1>4 DEF Next

LEMMA SessionInit == Init => SInv
BY DEF Init, SInv, SessionsAreCurrent, DisabledIsSignedOut

\* The roles cached in a session are roles its user still has, but for the sessions
\* known to be behind.
THEOREM SessionsHold == Spec => []SessionsFollowUsers
<1>1. SInv => SessionsFollowUsers
  BY DEF SInv, SessionsFollowUsers
<1> QED
  BY <1>1, Initial, Inductive, SessionInit, SessionStep, PTL DEF Spec
=============================================================================
