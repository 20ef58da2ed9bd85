------------------------------ MODULE Accounts ------------------------------
(***************************************************************************)
(* The accounts of the auth database: users with their roles, the sessions *)
(* that cache the roles a user had when signing in, and the requests that  *)
(* read and write them: the first setup, sign-in, and the administration   *)
(* of users (routes.rs, admin_users.rs, guards.rs, auth_users.rs).         *)
(*                                                                         *)
(* A request runs on a connection of its own, without a transaction unless *)
(* it takes `with_write_lock`, so each statement is a step of its own and  *)
(* other requests run between any two.  What it read before is what it     *)
(* goes on with: the caller's roles, the rowid of the target, the roles it *)
(* will put in the session.  Rowids of deleted users are handed out again; *)
(* the public uid is not.                                                  *)
(*                                                                         *)
(* Left out: passwords, names, the guest role (a bit every account has),   *)
(* who assigned a role except where its foreign key can fail, and which    *)
(* users hold an API token: any active user may call with one, and then    *)
(* acts with the roles of the moment.                                      *)
(***************************************************************************)
EXTENDS Naturals, FiniteSets, Sequences

CONSTANTS Handlers,      \* requests that may be under way at once
          Custom,        \* the custom roles the owner has defined
          MaxId,         \* bound: rowids of `users`
          MaxUid,        \* bound: accounts ever made
          MaxRequests    \* bound: requests ever begun

Ids == 1 .. MaxId
BuiltIn == {"user", "admin", "owner"}
Roles == BuiltIn \cup Custom

ASSUME AccountsAssumption ==
    /\ MaxId \in Nat \ {0}
    /\ MaxUid \in Nat
    /\ MaxRequests \in Nat
    /\ MaxId <= MaxUid
    /\ Custom \cap (BuiltIn \cup {"none"}) = {}

VARIABLES uid,        \* users.user_uid by rowid; 0 where there is no row
          active,     \* users.status = 'active', by rowid
          roles,      \* user_roles, by rowid
          uids,       \* how many uids were handed out
          live,       \* the custom roles not deleted yet
          sessions,   \* sessions: whose, and the role bits cached in it
          at,         \* where each request stands
          work,       \* what each request has read so far
          requests,   \* requests begun
          behind      \* history: rowids some session of which is known to be
                      \* older than a change: its sign-in was overtaken by the
                      \* change, or the request that made it was cut off
                      \* before it deleted the sessions

people == <<uid, active, roles, uids, live>>
signedIn == <<sessions, behind>>
vars == <<uid, active, roles, uids, live, sessions, at, work, requests, behind>>

Ops == {"none", "setup", "login", "create", "enable", "disable", "assign", "remove", "delete"}
Steps == {"free", "new", "grant", "bits", "session", "lookup", "check", "write", "held", "drop", "invalidate"}

Idle == [op |-> "none", me |-> 0, bits |-> {}, id |-> 0, uid |-> 0,
         role |-> "none", todo |-> <<>>]

---------------------------------------------------------------------------
(* What the statements read.                                               *)

OwnerRows == {i \in Ids : "owner" \in roles[i]}
ActiveOwners == {i \in OwnerRows : active[i]}

\* A slip in it: a disabled owner counts as the one that is left.
OtherOwnerRow(i) == i \in ActiveOwners => OwnerRows \ {i} # {}

\* guards.rs, ensure_not_last_owner: whether taking i away leaves an active owner.
NotLastOwner(i) == i \in ActiveOwners => ActiveOwners \ {i} # {}

\* Who can call, and with which bits: a session of an active user carries the bits
\* it was made with, a token those its user has now.
Callers ==
    {[id |-> s.id, bits |-> s.bits] : s \in {t \in sessions : active[t.id]}}
      \cup {[id |-> i, bits |-> roles[i]] : i \in {j \in Ids : active[j]}}

\* INTEGER PRIMARY KEY: one more than the largest rowid in use.
IsNextId(i) ==
    /\ \A j \in Ids : j >= i => uid[j] = 0
    /\ \A j \in Ids : j + 1 = i => uid[j] # 0

\* INSERT OR IGNORE INTO user_roles: a row that is there is skipped; a new one needs
\* the role, the user and whoever assigned it (NULL in a setup) to exist.
CanGrant(w, r) ==
    /\ r \in BuiltIn \cup live
    /\ uid[w.id] # 0
    /\ r \in roles[w.id] \/ w.me = 0 \/ uid[w.me] # 0

---------------------------------------------------------------------------
(* Moves of one request.                                                   *)

Goes(h, step, w) == at' = [at EXCEPT ![h] = step] /\ work' = [work EXCEPT ![h] = w]
Done(h) == Goes(h, "free", Idle)

Begins(h, step, w) ==
    /\ at[h] = "free"
    /\ requests < MaxRequests
    /\ requests' = requests + 1
    /\ Goes(h, step, w)
    /\ UNCHANGED <<people, signedIn>>

\* invalidate_user_sessions for the users in S.
Invalidated(S) ==
    /\ sessions' = {s \in sessions : s.id \notin S}
    /\ behind' = behind \ S


---------------------------------------------------------------------------
(* The first setup and new accounts.                                       *)

\* auth_setup: only while no account, active or not, is an owner.
BeginSetup(h) ==
    /\ OwnerRows = {}
    /\ Begins(h, "new", [Idle EXCEPT !.op = "setup", !.todo = <<"user", "admin", "owner">>])

\* admin_create_user.
BeginCreate(h) ==
    \E c \in Callers :
        /\ "admin" \in c.bits
        /\ Begins(h, "new", [Idle EXCEPT !.op = "create", !.me = c.id, !.todo = <<"user">>])

\* create_owner, create_user: the row first, without any role.
InsertUser(h) ==
    /\ at[h] = "new"
    /\ uids < MaxUid
    /\ \E i \in Ids :
        /\ IsNextId(i)
        /\ uid' = [uid EXCEPT ![i] = uids + 1]
        /\ active' = [active EXCEPT ![i] = TRUE]
        /\ Goes(h, "grant", [work[h] EXCEPT !.id = i])
    /\ uids' = uids + 1
    /\ UNCHANGED <<roles, live, signedIn, requests>>

\* One INSERT into user_roles.  assign_role ends by deleting the sessions, a new
\* account has none.
Grant(h) ==
    LET w == work[h]
        rest == Tail(w.todo)
        after == IF rest # <<>> THEN "grant" ELSE IF w.op = "assign" THEN "invalidate" ELSE "free"
    IN  /\ at[h] = "grant"
        /\ IF CanGrant(w, Head(w.todo))
           THEN /\ roles' = [roles EXCEPT ![w.id] = @ \cup {Head(w.todo)}]
                /\ Goes(h, after, IF after = "free" THEN Idle ELSE [w EXCEPT !.todo = rest])
           ELSE roles' = roles /\ Done(h)
        /\ UNCHANGED <<uid, active, uids, live, signedIn, requests>>

---------------------------------------------------------------------------
(* Sign-in.                                                                *)

\* auth_login: the row of an active user; the password is then verified.
BeginLogin(h) ==
    \E i \in Ids :
        /\ active[i]
        /\ Begins(h, "bits", [Idle EXCEPT !.op = "login", !.id = i])

\* compute_role_bits.
ReadBits(h) ==
    /\ at[h] = "bits"
    /\ Goes(h, "session", [work[h] EXCEPT !.bits = roles[work[h].id]])
    /\ UNCHANGED <<people, signedIn, requests>>

\* create_session, refused by its foreign key when the user is gone.
CreateSession(h) ==
    LET w == work[h] IN
    /\ at[h] = "session"
    /\ IF uid[w.id] = 0
       THEN UNCHANGED signedIn
       ELSE /\ sessions' = sessions \cup {[id |-> w.id, bits |-> w.bits]}
            /\ behind' = IF active[w.id] /\ w.bits \subseteq roles[w.id]
                         THEN behind ELSE behind \cup {w.id}
    /\ Done(h)
    /\ UNCHANGED <<people, requests>>

\* A logout, or a session past its expiry.
EndSession(s) ==
    /\ s \in sessions
    /\ sessions' = sessions \ {s}
    /\ UNCHANGED <<people, behind, at, work, requests>>

---------------------------------------------------------------------------
(* Administration of another user, found by its uid.                       *)

\* Who calls is found out first ...
BeginAdmin(h) ==
    \E c \in Callers :
        /\ "admin" \in c.bits
        /\ Begins(h, "lookup", [Idle EXCEPT !.me = c.id, !.bits = c.bits])

\* ... then the rowid of the target; the checks that need no more than these two
\* and the role that was asked for refuse the request at once.
Lookup(h) ==
    LET w == work[h] IN
    /\ at[h] = "lookup"
    /\ \E i \in Ids, op \in {"enable", "disable", "assign", "remove", "delete"},
          r \in Roles \cup {"none"} :
        /\ (op \in {"assign", "remove"}) = (r # "none")
        /\ uid[i] # 0
        /\ op \in {"disable", "delete"} => w.me # i
        /\ r \in {"owner", "admin"} => "owner" \in w.bits
        /\ Goes(h, "check", [w EXCEPT !.op = op, !.id = i, !.uid = uid[i], !.role = r])
    /\ UNCHANGED <<people, signedIn, requests>>

\* What assign_role inserts, in its order.
Cumulative(r) ==
    CASE r = "user"  -> <<"user">>
      [] r = "owner" -> <<"owner", "user", "admin">>
      [] OTHER       -> <<r, "user">>

\* ensure_can_manage, with the roles the target has now; and the role must exist.
Check(h) ==
    LET w == work[h]
        allowed == /\ roles[w.id] \cap {"owner", "admin"} # {} => "owner" \in w.bits
                   /\ w.role \in BuiltIn \cup live \cup {"none"}
        next == CASE w.op = "assign"                       -> "grant"
                  [] w.op = "remove" /\ w.role # "owner"   -> "held"
                  [] OTHER                                 -> "write"
    IN  /\ at[h] = "check"
        /\ IF allowed
           THEN Goes(h, next, IF w.op = "assign" THEN [w EXCEPT !.todo = Cumulative(w.role)] ELSE w)
           ELSE Done(h)
        /\ UNCHANGED <<people, signedIn, requests>>

\* Under the write lock: the last-owner check by rowid, the update by uid.
SetStatus(h) ==
    LET w == work[h]
        S == {i \in Ids : uid[i] = w.uid}
        on == w.op = "enable"
    IN  /\ at[h] = "write" /\ w.op \in {"enable", "disable"}
        /\ IF on \/ NotLastOwner(w.id)
           THEN /\ active' = [i \in Ids |-> IF i \in S THEN on ELSE active[i]]
                /\ IF on THEN UNCHANGED signedIn ELSE Invalidated(S)
           ELSE UNCHANGED <<active, signedIn>>
        /\ Done(h)
        /\ UNCHANGED <<uid, roles, uids, live, requests>>

\* Under the write lock: the last-owner check and the delete, both by rowid; the
\* roles and sessions of the row go with it.
DeleteUser(h) ==
    LET i == work[h].id IN
    /\ at[h] = "write" /\ work[h].op = "delete"
    /\ IF NotLastOwner(i)
       THEN /\ uid' = [uid EXCEPT ![i] = 0]
            /\ active' = [active EXCEPT ![i] = FALSE]
            /\ roles' = [roles EXCEPT ![i] = {}]
            /\ Invalidated({i})
       ELSE UNCHANGED <<uid, active, roles, signedIn>>
    /\ Done(h)
    /\ UNCHANGED <<uids, live, requests>>

\* Under the write lock: the owner role goes, unless it is the last one.
RemoveOwner(h) ==
    LET i == work[h].id IN
    /\ at[h] = "write" /\ work[h].op = "remove"
    /\ IF i \in OwnerRows /\ NotLastOwner(i) /\ OwnerRows # {i}
       THEN /\ roles' = [roles EXCEPT ![i] = @ \ {"owner"}]
            /\ Invalidated({i})
       ELSE UNCHANGED <<roles, signedIn>>
    /\ Done(h)
    /\ UNCHANGED <<uid, active, uids, live, requests>>

\* Any other role: looked for, deleted, and the sessions deleted, without a lock.
HasRole(h) ==
    LET w == work[h] IN
    /\ at[h] = "held"
    /\ IF w.role \in roles[w.id] THEN Goes(h, "drop", w) ELSE Done(h)
    /\ UNCHANGED <<people, signedIn, requests>>

\* (a slip in it: the sessions are left)
DropRoleOnly(h) ==
    /\ at[h] = "drop"
    /\ roles' = [roles EXCEPT ![work[h].id] = @ \ {work[h].role}]
    /\ Done(h)
    /\ UNCHANGED <<uid, active, uids, live, signedIn, requests>>

DropRole(h) ==
    LET w == work[h] IN
    /\ at[h] = "drop"
    /\ IF w.role \in BuiltIn \cup live
       THEN /\ roles' = [roles EXCEPT ![w.id] = @ \ {w.role}]
            /\ Goes(h, "invalidate", w)
       ELSE roles' = roles /\ Done(h)
    /\ UNCHANGED <<uid, active, uids, live, signedIn, requests>>

Invalidate(h) ==
    /\ at[h] = "invalidate"
    /\ Invalidated({work[h].id})
    /\ Done(h)
    /\ UNCHANGED <<people, requests>>

\* delete_custom_role, one transaction: the holders lose it and are signed out.
DeleteRole(r) ==
    LET holders == {i \in Ids : r \in roles[i]} IN
    /\ requests < MaxRequests
    /\ r \in live
    /\ \E c \in Callers : "owner" \in c.bits
    /\ live' = live \ {r}
    /\ roles' = [i \in Ids |-> roles[i] \ {r}]
    /\ Invalidated(holders)
    /\ requests' = requests + 1
    /\ UNCHANGED <<uid, active, uids, at, work>>

\* A statement fails (the database stays locked, a name is taken) or the server
\* stops: the request ends where it stands; a write lock leaves nothing behind.
Fail(h) ==
    /\ at[h] # "free"
    /\ behind' = IF at[h] = "invalidate" THEN behind \cup {work[h].id} ELSE behind
    /\ Done(h)
    /\ UNCHANGED <<people, sessions, requests>>

---------------------------------------------------------------------------

\* A new instance without any account, or one in use: the first account is the
\* owner that the setup made, the others are plain users or owners.
Init ==
    /\ \E n \in 0 .. MaxId :
        /\ uids = n
        /\ uid = [i \in Ids |-> IF i <= n THEN i ELSE 0]
        /\ active = [i \in Ids |-> i <= n]
        /\ roles \in [Ids -> {{}, {"user"}, BuiltIn}]
        /\ \A i \in Ids : (roles[i] = {}) = (i > n)
        /\ n > 0 => roles[1] = BuiltIn
    /\ live = Custom
    /\ sessions = {}
    /\ behind = {}
    /\ at = [h \in Handlers |-> "free"]
    /\ work = [h \in Handlers |-> Idle]
    /\ requests = 0

Request(h) ==
    \/ BeginSetup(h) \/ BeginCreate(h) \/ BeginLogin(h) \/ BeginAdmin(h)
    \/ InsertUser(h) \/ Grant(h)
    \/ ReadBits(h) \/ CreateSession(h)
    \/ Lookup(h) \/ Check(h)
    \/ SetStatus(h) \/ DeleteUser(h) \/ RemoveOwner(h)
    \/ HasRole(h) \/ DropRole(h) \/ Invalidate(h)
    \/ Fail(h)

Next ==
    \/ \E h \in Handlers : Request(h)
    \/ \E s \in sessions : EndSession(s)
    \/ \E r \in Custom : DeleteRole(r)

Spec == Init /\ [][Next]_vars

---------------------------------------------------------------------------
(* Properties.                                                             *)

Works == [op : Ops, me : 0 .. MaxId, bits : SUBSET Roles, id : 0 .. MaxId,
          uid : 0 .. MaxUid, role : Roles \cup {"none"}, todo : Seq(Roles)]

\* The types of the variables.
Columns ==
    /\ uid \in [Ids -> 0 .. MaxUid]
    /\ active \in [Ids -> BOOLEAN]
    /\ roles \in [Ids -> SUBSET Roles]
    /\ uids \in 0 .. MaxUid
    /\ live \in SUBSET Custom
    /\ sessions \in SUBSET [id : Ids, bits : SUBSET Roles]
    /\ at \in [Handlers -> Steps]
    /\ work \in [Handlers -> Works]
    /\ requests \in 0 .. MaxRequests
    /\ behind \in SUBSET Ids

\* What the keys of the tables promise: a rowid without a user has neither a status
\* nor roles nor sessions, no two users share a uid, and no role assignment outlives
\* its role.
Keys ==
    /\ \A i \in Ids : uid[i] = 0 => ~active[i] /\ roles[i] = {}
    /\ \A s \in sessions : uid[s.id] # 0
    /\ \A i, j \in Ids : uid[i] = uid[j] /\ uid[i] # 0 => i = j
    /\ \A i \in Ids : roles[i] \subseteq BuiltIn \cup live

\* The tables hold what their columns and keys allow.
TypeOK == Columns /\ Keys

\* The last active owner can be neither disabled, demoted nor deleted, however
\* requests interleave: once the instance has an active owner it always has one.
\* The check and the write share a lock, but the target's rowid was read before it,
\* and the status is set by uid.
ActiveOwnerRemains == [][ActiveOwners # {} => ActiveOwners' # {}]_vars

\* The roles cached in a session are roles its user still has, while its user may
\* be changed by any request: a change signs the user out.  Excepted are the
\* moments between the two statements, and the sessions of `behind`.
SessionsAreCurrent ==
    \A s \in sessions :
        \/ s.bits \subseteq roles[s.id]
        \/ s.id \in behind
        \/ \E h \in Handlers : at[h] = "invalidate" /\ work[h].id = s.id

\* Disabling a user ends all its sessions, so that enabling it again brings none
\* back; only a sign-in that the change overtook leaves one.
DisabledIsSignedOut ==
    \A s \in sessions : active[s.id] \/ s.id \in behind

\* Both: no session of a user speaks for more than the user, but those a change could not
\* see (invalidate_user_sessions, create_session).
SessionsFollowUsers == SessionsAreCurrent /\ DisabledIsSignedOut
=============================================================================
