-------------------------------- MODULE Gate --------------------------------
(***************************************************************************)
(* What a request passes before its handler runs, and the credentials it   *)
(* is let in by: the limit on sign-ins, the guard of read-only tokens, the *)
(* extractor that turns a cookie or a token into a user, and the handlers  *)
(* that open, change and revoke sessions, tokens and passwords (routes.rs, *)
(* auth.rs, token_scope.rs, credentials.rs, auth_credentials.rs).          *)
(*                                                                         *)
(* The guard and the extractor look the credentials up one after the       *)
(* other, and a handler runs statement by statement, so other requests     *)
(* come between any two steps.                                             *)
(*                                                                         *)
(* Roles and the status of accounts are those of Accounts: here everyone   *)
(* is active, and a manager may act on anyone who is not one.  A password  *)
(* is a number of its own for every time one is set.                       *)
(***************************************************************************)
EXTENDS Naturals, Sequences, FiniteSets, SequencesExt

CONSTANTS
    Person,
    Managers,       \* SUBSET Person: those with the admin bit
    GateCall,       \* requests that may be under way at once
    Address,        \* addresses that sign in
    MaxSession,     \* bound: sessions ever opened
    MaxPassword,    \* bound: passwords ever set
    MaxGateCalls,   \* bound: requests ever sent
    MaxAttempts,    \* LOGIN_MAX_ATTEMPTS
    LoginWindow,    \* LOGIN_WINDOW, in seconds
    MaxClock        \* bound: half seconds

ASSUME GateAssumption ==
    /\ Managers \subseteq Person /\ "loopback" \notin Address
    /\ {MaxSession, MaxPassword, MaxGateCalls, MaxClock} \subseteq Nat
    /\ {MaxSession, MaxAttempts, LoginWindow} \subseteq Nat \ {0}

VARIABLES
    password,   \* [Person -> Nat]: users.password_hash
    passwords,  \* passwords ever set
    opened,     \* sessions: [id, of, pw], pw the password it was opened with
    given,      \* sessions ever opened
    apiTokens,  \* api_tokens: [of, scope]
    issued,     \* tokens ever made; bound: one of a kind
    call,       \* [GateCall -> Call]
    calls,      \* requests ever sent
    excused,    \* history: sessions a changed password has to leave behind
    clock,      \* half seconds since the start
    attempts,   \* [Address -> Seq(Nat)]: state.login_attempts
    letIn,      \* [Address -> Seq(Nat)]: history: when a sign-in was let in
    promised    \* [Address -> Nat]: when the last refusal said to come back

secretVars == <<password, passwords, opened, given, apiTokens, issued, excused>>
limitVars == <<clock, attempts, letIn, promised>>
gateVars == <<secretVars, call, calls, limitVars>>

Scope == {"read", "full"}
ApiToken == [of : Person, scope : Scope]
Session == [id : 1..MaxSession, of : Person, pw : 0..MaxPassword]

Safe == {"read"}
TakesTarget == {"login", "reset", "revokeAll", "dropToken"}
Unsafe == {"login", "logout", "password", "reset", "revokeOne", "revokeOthers", "revokeAll", "newToken", "dropToken",
           "write"}

\* Whoever calls sends a cookie, a token, both or neither; `by` is what let it in,
\* `lapsed` whether its cookie was valid when the guard looked and not any more.
Idle == [at |-> "idle", op |-> "read", cookie |-> 0, token |-> <<>>, on |-> <<>>, typed |-> 0,
         me |-> <<>>, by |-> "none", lapsed |-> FALSE]

\* Someone has signed in and made a token.
GateInit ==
    /\ password = [p \in Person |-> 0] /\ passwords = 0
    /\ \E p \in Person : opened = {[id |-> 1, of |-> p, pw |-> 0]}
    /\ given = 1 /\ excused = {}
    /\ \E t \in ApiToken : apiTokens = {t} /\ issued = {t}
    /\ call = [c \in GateCall |-> Idle] /\ calls = 0
    /\ clock = 0 /\ attempts = [a \in Address |-> <<>>]
    /\ letIn = [a \in Address |-> <<>>] /\ promised = [a \in Address |-> 0]

Moves(c, at) == call' = [call EXCEPT ![c].at = at]
Returns(c) == call' = [call EXCEPT ![c] = Idle]

----------------------------------------------------------------------------
(* The layers.                                                             *)

\* get_session.
ValidCookie(id) == \E s \in opened : s.id = id
\* get_user_for_token, token_scope_for_hash.
ValidToken(t) == t # <<>> /\ t[1] \in apiTokens

\* A slip in it: a cookie that is sent counts as one that is valid.
SparedIfSent(c) == call[c].cookie # 0

\* A call by cookie is none of the guard's business.
SparedByCookie(c) == ValidCookie(call[c].cookie)

Arrive(c) ==
    /\ call[c].at = "idle" /\ calls < MaxGateCalls
    /\ calls' = calls + 1
    /\ \E op \in Safe \cup Unsafe, cookie \in 0..given, p \in Person, typed \in 0..passwords :
       \E token \in {<<>>} \cup {<<t>> : t \in apiTokens} :
           /\ op = "logout" => cookie # 0
           /\ op \in {"login", "logout"} => token = <<>>
           /\ typed # 0 => op \in {"login", "password"}
           /\ p \notin Managers => op \in TakesTarget
           /\ call' = [call EXCEPT ![c] = [Idle EXCEPT !.at = "guard", !.op = op, !.cookie = cookie, !.token = token,
                                                       !.on = <<p>>, !.typed = typed]]
    /\ UNCHANGED <<secretVars, limitVars>>

\* enforce_read_scope: 403, or on to the handler.
Guard(c) ==
    /\ call[c].at = "guard"
    /\ IF call[c].op \in Unsafe /\ ~SparedByCookie(c) /\ ValidToken(call[c].token) /\ call[c].token[1].scope = "read"
       THEN Returns(c)
       ELSE call' = [call EXCEPT ![c].at = "extract", ![c].lapsed = ValidCookie(call[c].cookie)]
    /\ UNCHANGED <<secretVars, calls, limitVars>>

OwnerOf(id) == (CHOOSE s \in opened : s.id = id).of

\* AuthUser::from_request_parts; a guest gets no further.  Signing in and out take
\* no user.
Extract(c) ==
    /\ call[c].at = "extract"
    /\ LET r == call[c] IN
       IF r.op \in {"login", "logout"} THEN Moves(c, "handle")
       ELSE IF ValidCookie(r.cookie)
       THEN call' = [call EXCEPT ![c].at = "handle", ![c].me = <<OwnerOf(r.cookie)>>, ![c].by = "cookie",
                                 ![c].lapsed = FALSE]
       ELSE IF ValidToken(r.token)
       THEN call' = [call EXCEPT ![c].at = "handle", ![c].me = <<r.token[1].of>>, ![c].by = r.token[1].scope]
       ELSE Returns(c)
    /\ UNCHANGED <<secretVars, calls, limitVars>>

Handling(c, op) == call[c].at = "handle" /\ call[c].op = op

----------------------------------------------------------------------------
(* Signing in and out.                                                     *)

\* auth_login: the password is compared with the row read at the start.
VerifyLogin(c) ==
    /\ Handling(c, "login")
    /\ IF call[c].typed = password[call[c].on[1]] THEN Moves(c, "open") ELSE Returns(c)
    /\ UNCHANGED <<secretVars, calls, limitVars>>

\* create_session; its sign-in may have been overtaken by a change of the password.
OpenSession(c) ==
    /\ call[c].at = "open" /\ given < MaxSession
    /\ given' = given + 1
    /\ opened' = opened \cup {[id |-> given + 1, of |-> call[c].on[1], pw |-> call[c].typed]}
    /\ excused' = IF call[c].typed # password[call[c].on[1]] THEN excused \cup {given + 1} ELSE excused
    /\ Returns(c)
    /\ UNCHANGED <<password, passwords, apiTokens, issued, calls, limitVars>>

SessionsGo(S) == opened' = opened \ S
OfPerson(p) == {s \in opened : s.of = p}

\* auth_logout, delete_session.
Logout(c) ==
    /\ Handling(c, "logout")
    /\ SessionsGo({s \in opened : s.id = call[c].cookie})
    /\ Returns(c)
    /\ UNCHANGED <<password, passwords, given, apiTokens, issued, excused, calls, limitVars>>

----------------------------------------------------------------------------
(* Passwords.                                                              *)

SetPassword(p) ==
    /\ passwords < MaxPassword
    /\ passwords' = passwords + 1
    /\ password' = [password EXCEPT ![p] = passwords + 1]

\* patch_me: the current password, the new one, and then every other session.
CheckCurrent(c) ==
    /\ Handling(c, "password")
    /\ IF call[c].typed = password[call[c].me[1]] THEN Moves(c, "change") ELSE Returns(c)
    /\ UNCHANGED <<secretVars, calls, limitVars>>
ChangePassword(c) ==
    /\ call[c].at = "change"
    /\ SetPassword(call[c].me[1])
    /\ Moves(c, "others")
    /\ UNCHANGED <<opened, given, apiTokens, issued, excused, calls, limitVars>>

\* delete_other_sessions.
Others(c) == {s \in OfPerson(call[c].me[1]) : s.id # call[c].cookie}
DropOthers(c) ==
    /\ call[c].at = "others"
    /\ SessionsGo(Others(c))
    /\ excused' = excused \cup {call[c].cookie}
    /\ Returns(c)
    /\ UNCHANGED <<password, passwords, given, apiTokens, issued, calls, limitVars>>

\* The server dies, or the second statement fails.
CutShort(c) ==
    /\ call[c].at = "others"
    /\ excused' = excused \cup {s.id : s \in OfPerson(call[c].me[1])}
    /\ Returns(c)
    /\ UNCHANGED <<password, passwords, opened, given, apiTokens, issued, calls, limitVars>>

\* resolve_target: an admin acts on someone else who is not one.
MayManage(c, self) ==
    LET me == call[c].me[1]  on == call[c].on[1] IN me \in Managers /\ on \notin Managers /\ (self \/ me # on)

\* A slip in it: only the sessions of the one who asks go.
SessionsOfCaller(c) == OfPerson(call[c].me[1])

\* reset_user_password: every session of the target.
SessionsToReset(c) == OfPerson(call[c].on[1])

\* admin_reset_password, in one transaction.
ResetPassword(c) ==
    /\ Handling(c, "reset") /\ MayManage(c, FALSE)
    /\ SetPassword(call[c].on[1])
    /\ SessionsGo(SessionsToReset(c))
    /\ \/ UNCHANGED apiTokens
       \/ apiTokens' = {t \in apiTokens : t.of # call[c].on[1]}
    /\ Returns(c)
    /\ UNCHANGED <<given, issued, excused, calls, limitVars>>

----------------------------------------------------------------------------
(* Sessions and tokens.                                                    *)

\* revoke_session, revoke_other_sessions, admin_revoke_sessions.
RevokeSessions(c) ==
    /\ \/ Handling(c, "revokeOne") /\ \E s \in OfPerson(call[c].me[1]) : SessionsGo({s})
       \/ Handling(c, "revokeOthers") /\ SessionsGo(Others(c))
       \/ Handling(c, "revokeAll") /\ MayManage(c, FALSE) /\ SessionsGo(OfPerson(call[c].on[1]))
    /\ Returns(c)
    /\ UNCHANGED <<password, passwords, given, apiTokens, issued, excused, calls, limitVars>>

\* create_token; delete_token and admin_revoke_token of a token of their user.
ChangeTokens(c) ==
    /\ \/ /\ Handling(c, "newToken")
          /\ \E t \in {[of |-> call[c].me[1], scope |-> s] : s \in Scope} \ issued :
                apiTokens' = apiTokens \cup {t} /\ issued' = issued \cup {t}
       \/ /\ Handling(c, "dropToken")
          /\ \E t \in apiTokens :
                /\ t.of = call[c].me[1] \/ (t.of = call[c].on[1] /\ MayManage(c, TRUE))
                /\ apiTokens' = apiTokens \ {t}
          /\ UNCHANGED issued
    /\ Returns(c)
    /\ UNCHANGED <<password, passwords, opened, given, excused, calls, limitVars>>

\* Handlers that only read credentials, those of the other components, and a
\* refusal of any handler.
Respond(c) ==
    /\ call[c].at = "handle" /\ call[c].op \notin {"login", "logout", "password"}
    /\ Returns(c)
    /\ UNCHANGED <<secretVars, calls, limitVars>>

\* expires_at passes; a call that came by cookie would have extended it.
Lapse ==
    /\ \/ \E s \in opened : SessionsGo({s}) /\ UNCHANGED apiTokens
       \/ \E t \in apiTokens : apiTokens' = apiTokens \ {t} /\ UNCHANGED opened
    /\ UNCHANGED <<password, passwords, given, issued, excused, call, calls, limitVars>>

----------------------------------------------------------------------------
(* The limit on sign-ins.                                                  *)

HalfSecond == clock < MaxClock /\ clock' = clock + 1 /\ UNCHANGED <<secretVars, call, calls, attempts, letIn, promised>>

\* A request has the address of its peer and those a chain of proxies wrote down, of
\* which only the last is written by the proxy on this host.
Arrival(a) == {[peer |-> a, forwarded |-> <<>>]} \cup
              {[peer |-> "loopback", forwarded |-> claimed \o <<a>>] : claimed \in {<<>>} \cup {<<b>> : b \in Address}}

\* extract_client_ip.
ClientOf(q) == IF q.peer # "loopback" THEN q.peer ELSE Last(q.forwarded)

\* A slip in it: attempts stay in the window at its very end.
StillCounted(t) == clock - t <= 2 * LoginWindow

\* now.duration_since(t) < LOGIN_WINDOW.
InWindow(t) == clock - t < 2 * LoginWindow

\* What retain leaves: times are noted in order, so that those to forget come first.
Recent(times) == SubSeq(times, Cardinality({i \in DOMAIN times : ~InWindow(times[i])}) + 1, Len(times))

\* login_rate_limit, under the lock of the attempts.
Attempt(a) ==
    /\ \E q \in Arrival(a) :
       LET ip == ClientOf(q)
           recent == Recent(attempts[ip])
           elapsed == (clock - Head(recent)) \div 2
           wait == IF LoginWindow - elapsed > 1 THEN LoginWindow - elapsed ELSE 1
       IN IF Len(recent) >= MaxAttempts
          THEN /\ attempts' = [attempts EXCEPT ![ip] = recent]
               /\ promised' = [promised EXCEPT ![a] = clock + 2 * wait]
               /\ UNCHANGED letIn
          ELSE /\ attempts' = [attempts EXCEPT ![ip] = Append(recent, clock)]
               /\ letIn' = [letIn EXCEPT ![a] = Append(@, clock)]
               /\ UNCHANGED promised
    /\ UNCHANGED <<secretVars, call, calls, clock>>

----------------------------------------------------------------------------
CallNext ==
    \E c \in GateCall :
        \/ Arrive(c) \/ Guard(c) \/ Extract(c) \/ Respond(c)
        \/ VerifyLogin(c) \/ OpenSession(c) \/ Logout(c)
        \/ CheckCurrent(c) \/ ChangePassword(c) \/ DropOthers(c) \/ CutShort(c) \/ ResetPassword(c)
        \/ RevokeSessions(c) \/ ChangeTokens(c)
GateNext == CallNext \/ Lapse \/ HalfSecond \/ \E a \in Address : Attempt(a)
GateSpec == GateInit /\ [][GateNext]_gateVars

----------------------------------------------------------------------------
(* Properties. *)

(* Tables keep their types, and sessions and tokens are of somebody.         *)
GateTypeOK ==
    /\ password \in [Person -> 0..MaxPassword] /\ passwords \in 0..MaxPassword
    /\ opened \subseteq Session /\ given \in 0..MaxSession /\ apiTokens \subseteq issued /\ issued \subseteq ApiToken
    /\ calls \in 0..MaxGateCalls /\ excused \subseteq 0..MaxSession /\ clock \in 0..MaxClock

(* A changed password ends every session opened with an older one, but for   *)
(* the one it was changed from, one whose sign-in was under way, and those   *)
(* of a change cut off half-way (patch_me, reset_user_password).             *)
OldPasswordsOpenNothing ==
    \A s \in opened :
        \/ s.pw = password[s.of] \/ s.id \in excused
        \/ \E c \in GateCall : call[c].at = "others" /\ call[c].me = <<s.of>>

(* A request let in by a read-only token reads, and nothing else, unless it  *)
(* came with a session that ended between the guard and the extractor        *)
(* (enforce_read_scope, AuthUser).                                           *)
ReadTokensOnlyRead == \A c \in GateCall : call[c].by = "read" => call[c].op \in Safe \/ call[c].lapsed

(* No address gets more than its sign-ins in any window, whatever it claims  *)
(* to be; and by the time a refusal names there is room again, but for what  *)
(* was let in within the second (login_rate_limit, extract_client_ip).       *)
SignInsAreLimited ==
    \A a \in Address :
        /\ \A i \in DOMAIN letIn[a] : i + MaxAttempts \in DOMAIN letIn[a] =>
              letIn[a][i + MaxAttempts] - letIn[a][i] >= 2 * LoginWindow
        /\ clock = promised[a] /\ promised[a] # 0 => \/ Len(Recent(attempts[a])) < MaxAttempts
                                                     \/ Last(attempts[a]) + 1 >= clock

(* What lets a request in is what it may be let in by.                       *)
GateHolds == OldPasswordsOpenNothing /\ ReadTokensOnlyRead /\ SignInsAreLimited
=============================================================================
