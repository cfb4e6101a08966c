------------------------------- MODULE Sessions -------------------------------
(***************************************************************************)
(* Accounts, sessions and refresh tokens of operators (internal/identity): *)
(* login with its lockout, rotation of refresh tokens, detection of reuse, *)
(* logout, and the registration of devices.                                *)
(*                                                                         *)
(* A login is a chain of statements without a transaction: the account is  *)
(* read, checked, counted and only then does it get a session, while other *)
(* logins of the same account do the same.  Refresh and revocation are     *)
(* each one step: their transactions lock token and session first.         *)
(*                                                                         *)
(* A device may present any token there is, again and again: an answer may *)
(* have been lost, and a request may come twice.                           *)
(***************************************************************************)
EXTENDS Naturals, FiniteSets

CONSTANTS Operators,
          Devices,       \* a device in a warehouse
          Access,        \* pairs <<o, d>>: o may work in the warehouse of d
          Handlers,      \* request goroutines of all replicas
          SessionIds, TokenIds,
          FailureLimit,  \* failed logins that lock an account (5)
          NoOperator, NoDevice, NoSession, NoToken

ASSUME SessionsAssumption ==
    /\ Access \subseteq Operators \X Devices
    /\ FailureLimit \in Nat \ {0}
    /\ IsFiniteSet(Handlers)
    /\ NoOperator \notin Operators
    /\ NoDevice \notin Devices
    /\ NoSession \notin SessionIds
    /\ NoToken \notin TokenIds

\* lock: locked_until is not set, is still to come, has passed.
Account == [status : {"ACTIVE", "LOCKED", "DISABLED"}, failed : Nat,
            lock : {"none", "running", "over"}]

\* expired: the 30 days of session and tokens are over; access: there is an
\* access token whose 15 minutes are not.
Session == [operator : Operators, device : Devices, status : {"ACTIVE", "REVOKED"},
            expired : BOOLEAN, access : BOOLEAN]
Token == [session : SessionIds, parent : TokenIds \union {NoToken},
          used : BOOLEAN, revoked : BOOLEAN, reused : BOOLEAN]

\* Ids that were not given out map to these.
Unused == [operator |-> NoOperator]
Unissued == [session |-> NoSession]

VARIABLES account,     \* account[o]: identity_operators
          registered,  \* identity_operator_devices
          session,     \* session[s]: identity_sessions
          token,       \* token[t]: identity_refresh_tokens
          handler      \* handler[h]: the login or registration h works on

vars == <<account, registered, session, token, handler>>

Fresh == [status |-> "ACTIVE", failed |-> 0, lock |-> "none"]
Idle == [pc |-> "idle", operator |-> NoOperator, device |-> NoDevice, good |-> FALSE]

Created == {s \in SessionIds : session[s] # Unused}
Issued == {t \in TokenIds : token[t] # Unissued}

Init == /\ account = [o \in Operators |-> Fresh]
        /\ registered \in SUBSET Access
        /\ session = [s \in SessionIds |-> Unused]
        /\ token = [t \in TokenIds |-> Unissued]
        /\ handler = [h \in Handlers |-> Idle]

-----------------------------------------------------------------------------
(* Login: authenticateCredentials, then LoginSessionContext *)

\* ByUsername.  A wrong password and an account that is not active are refused
\* alike, later on: good says that neither is the case.
ReadOperator(h, o, d, right) ==
    /\ handler[h] = Idle
    /\ handler' = [handler EXCEPT ![h] =
           [pc |-> "read", operator |-> o, device |-> d,
            good |-> right /\ account[o].status = "ACTIVE"]]
    /\ UNCHANGED <<account, registered, session, token>>

Refusable(o) == account[o].status # "ACTIVE" \/ account[o].lock = "running"

CheckLogin(h) ==
    /\ handler[h].pc = "read"
    /\ handler' = [handler EXCEPT ![h] =
           IF Refusable(handler[h].operator) THEN Idle
           ELSE [pc |-> "checked", operator |-> handler[h].operator,
                 device |-> handler[h].device, good |-> handler[h].good]]
    /\ UNCHANGED <<account, registered, session, token>>

\* Mutant: the account is locked one failure later.
CountedLate(a) ==
    [status |-> IF a.failed >= FailureLimit THEN "LOCKED" ELSE a.status,
     failed |-> a.failed + 1,
     lock |-> IF a.failed >= FailureLimit THEN "running" ELSE a.lock]

\* The account after one more failure.
Counted(a) ==
    [status |-> IF a.failed + 1 >= FailureLimit THEN "LOCKED" ELSE a.status,
     failed |-> a.failed + 1,
     lock |-> IF a.failed + 1 >= FailureLimit THEN "running" ELSE a.lock]

RecordLoginFailure(h) ==
    /\ handler[h].pc = "checked"
    /\ ~handler[h].good
    /\ account' = [account EXCEPT ![handler[h].operator] = Counted(@)]
    /\ handler' = [handler EXCEPT ![h] = Idle]
    /\ UNCHANGED <<registered, session, token>>

\* The account is active again, whatever happened to it since it was read.
RecordLoginSuccess(h) ==
    /\ handler[h].pc = "checked"
    /\ handler[h].good
    /\ account' = [account EXCEPT ![handler[h].operator] = Fresh]
    /\ handler' = [handler EXCEPT ![h].pc = "accepted"]
    /\ UNCHANGED <<registered, session, token>>

Admissible(o, d) == <<o, d>> \in Access /\ <<o, d>> \in registered

NewToken(s, parent) == [session |-> s, parent |-> parent,
                        used |-> FALSE, revoked |-> FALSE, reused |-> FALSE]

Create(h, s, t) ==
    /\ handler[h].pc = "accepted"
    /\ Admissible(handler[h].operator, handler[h].device)
    /\ s \notin Created
    /\ t \notin Issued
    /\ session' = [session EXCEPT ![s] =
           [operator |-> handler[h].operator, device |-> handler[h].device,
            status |-> "ACTIVE", expired |-> FALSE, access |-> TRUE]]
    /\ token' = [token EXCEPT ![t] = NewToken(s, NoToken)]
    /\ handler' = [handler EXCEPT ![h] = Idle]
    /\ UNCHANGED <<account, registered>>

\* The context is refused after the account was reset.
RefuseContext(h) ==
    /\ handler[h].pc = "accepted"
    /\ ~Admissible(handler[h].operator, handler[h].device)
    /\ handler' = [handler EXCEPT ![h] = Idle]
    /\ UNCHANGED <<account, registered, session, token>>

\* A failing statement, the end of the request's context, a crash.
Abort(h) ==
    /\ handler[h] # Idle
    /\ handler' = [handler EXCEPT ![h] = Idle]
    /\ UNCHANGED <<account, registered, session, token>>

-----------------------------------------------------------------------------
(* Refresh and the end of sessions *)

Active(s) == account[session[s].operator].status = "ACTIVE"
Spent(t) == token[t].used \/ token[t].revoked

\* Mutant: the session's status is not looked at.
RefreshableAlways(t) == ~Spent(t) /\ ~session[token[t].session].expired

Refreshable(t) == /\ ~Spent(t)
                  /\ session[token[t].session].status = "ACTIVE"
                  /\ ~session[token[t].session].expired

\* Mutant: the old token is not marked as used.
RotatedUnmarked(t, u) == [token EXCEPT ![u] = NewToken(token[t].session, t)]

Rotated(t, u) == [token EXCEPT ![t] = [session |-> token[t].session, parent |-> token[t].parent,
                                       used |-> TRUE, revoked |-> token[t].revoked,
                                       reused |-> token[t].reused],
                               ![u] = NewToken(token[t].session, t)]

\* A request that names no device is not compared with the session's.
Refresh(t, u, d) ==
    LET s == token[t].session
    IN  /\ t \in Issued
        /\ u \notin Issued
        /\ Active(s)
        /\ Refreshable(t)
        /\ d \in {NoDevice, session[s].device}
        /\ token' = Rotated(t, u)
        /\ session' = [session EXCEPT ![s].access = TRUE]
        /\ UNCHANGED <<account, registered, handler>>

Revoked(s) == [session EXCEPT ![s].status = "REVOKED"]

\* Mutant: reuse is recorded and nothing else.
DetectReuseOnly(t) ==
    /\ t \in Issued
    /\ Active(token[t].session)
    /\ Spent(t)
    /\ token' = [token EXCEPT ![t].reused = TRUE]
    /\ UNCHANGED <<account, registered, session, handler>>

\* A token that was used or revoked comes again.
DetectReuse(t) ==
    /\ t \in Issued
    /\ Active(token[t].session)
    /\ Spent(t)
    /\ token' = [token EXCEPT ![t].reused = TRUE]
    /\ session' = Revoked(token[t].session)
    /\ UNCHANGED <<account, registered, handler>>

\* With an access token.  The refresh tokens stay as they are.
Logout(s) ==
    /\ s \in Created
    /\ session[s].access
    /\ session' = Revoked(s)
    /\ UNCHANGED <<account, registered, token, handler>>

\* With a refresh token, a used one too.
RevokeRefresh(t) ==
    LET s == token[t].session
    IN  /\ t \in Issued
        /\ session[s].status = "ACTIVE"
        /\ session' = Revoked(s)
        /\ token' = [u \in TokenIds |-> IF token[u].session = s
                                        THEN [token[u] EXCEPT !.revoked = TRUE]
                                        ELSE token[u]]
        /\ UNCHANGED <<account, registered, handler>>

-----------------------------------------------------------------------------
(* Registration of devices, administration, time *)

\* The access token and the session, then the account, are checked.
Authenticate(h, s, d) ==
    /\ handler[h] = Idle
    /\ s \in Created
    /\ session[s].access
    /\ session[s].status = "ACTIVE"
    /\ ~session[s].expired
    /\ handler' = [handler EXCEPT ![h] =
           [pc |-> "session", operator |-> session[s].operator, device |-> d, good |-> TRUE]]
    /\ UNCHANGED <<account, registered, session, token>>

Rehydrate(h) ==
    /\ handler[h].pc = "session"
    /\ handler' = [handler EXCEPT ![h] =
           IF account[handler[h].operator].status = "ACTIVE"
           THEN [pc |-> "registering", operator |-> handler[h].operator,
                 device |-> handler[h].device, good |-> TRUE]
           ELSE Idle]
    /\ UNCHANGED <<account, registered, session, token>>

\* Mutant: any warehouse will do.
RegisterDeviceAnywhere(h) ==
    LET pair == <<handler[h].operator, handler[h].device>>
    IN  /\ handler[h].pc = "registering"
        /\ registered' = registered \union {pair}
        /\ handler' = [handler EXCEPT ![h] = Idle]
        /\ UNCHANGED <<account, session, token>>

RegisterDevice(h) ==
    LET pair == <<handler[h].operator, handler[h].device>>
    IN  /\ handler[h].pc = "registering"
        /\ registered' = IF pair \in Access THEN registered \union {pair} ELSE registered
        /\ handler' = [handler EXCEPT ![h] = Idle]
        /\ UNCHANGED <<account, session, token>>

\* identity-seed-dev, the only program that unlocks an account.  A device may be
\* named, which is then registered.
Seed(o, devices) ==
    /\ account' = [account EXCEPT ![o] = Fresh]
    /\ registered' = registered \union ({<<o, d>> : d \in devices} \intersect Access)
    /\ UNCHANGED <<session, token, handler>>

\* By an administrator, in the database.
Disable(o) ==
    /\ account' = [account EXCEPT ![o].status = "DISABLED"]
    /\ UNCHANGED <<registered, session, token, handler>>

LockTimeEnds(o) ==
    /\ account[o].lock = "running"
    /\ account' = [account EXCEPT ![o].lock = "over"]
    /\ UNCHANGED <<registered, session, token, handler>>

AccessExpires(s) ==
    /\ s \in Created
    /\ session' = [session EXCEPT ![s].access = FALSE]
    /\ UNCHANGED <<account, registered, token, handler>>

\* An access token may live on.
SessionExpires(s) ==
    /\ s \in Created
    /\ session' = [session EXCEPT ![s].expired = TRUE]
    /\ UNCHANGED <<account, registered, token, handler>>

HandlerStep(h) ==
    \/ \E o \in Operators, d \in Devices, right \in BOOLEAN : ReadOperator(h, o, d, right)
    \/ CheckLogin(h) \/ RecordLoginFailure(h) \/ RecordLoginSuccess(h)
    \/ \E s \in SessionIds, t \in TokenIds : Create(h, s, t)
    \/ \E s \in SessionIds, d \in Devices : Authenticate(h, s, d)
    \/ RefuseContext(h) \/ Rehydrate(h) \/ RegisterDevice(h) \/ Abort(h)

TokenStep(t) ==
    \/ \E u \in TokenIds, d \in Devices \union {NoDevice} : Refresh(t, u, d)
    \/ DetectReuse(t) \/ RevokeRefresh(t)

Next ==
    \/ \E h \in Handlers : HandlerStep(h)
    \/ \E t \in TokenIds : TokenStep(t)
    \/ \E s \in SessionIds : Logout(s) \/ AccessExpires(s) \/ SessionExpires(s)
    \/ \E o \in Operators : \/ Disable(o) \/ LockTimeEnds(o)
                            \/ Seed(o, {})
                            \/ \E d \in Devices : Seed(o, {d})

Spec == Init /\ [][Next]_vars

-----------------------------------------------------------------------------
(* Properties *)

\* Rows and requests have the shape their code gives them.
TypeOK ==
    /\ account \in [Operators -> Account]
    /\ registered \subseteq Access
    /\ session \in [SessionIds -> Session \union {Unused}]
    /\ token \in [TokenIds -> Token \union {Unissued}]
    /\ handler \in [Handlers ->
           [pc : {"idle", "read", "checked", "accepted", "session", "registering"},
            operator : Operators \union {NoOperator},
            device : Devices \union {NoDevice}, good : BOOLEAN]]

Checked(o) == {h \in Handlers : handler[h].pc = "checked" /\ handler[h].operator = o}

\* "five-attempt ... account lockout" (requirement-report): logins of one
\* account that overlap all pass the check before any is counted, but the
\* failures never exceed the limit by more than the logins under way, and an
\* account at the limit is not active.  Its 15 minutes do not change that:
\* while locked_until is set the account is not active, passed or not.
LockoutHolds ==
    \A o \in Operators :
        /\ account[o].failed + Cardinality(Checked(o)) < FailureLimit + Cardinality(Handlers)
        /\ account[o].failed >= FailureLimit => account[o].status # "ACTIVE"
        /\ account[o].lock # "none" => account[o].status # "ACTIVE"

\* Rotation makes one chain of tokens for a session: a token has at most one
\* successor, has one exactly if it was used, and at most one token of a
\* session can still be exchanged, whatever copies of requests arrive.
RotationIsAChain ==
    /\ \A t, u \in Issued : token[t].parent = token[u].parent /\ token[t].parent # NoToken => t = u
    /\ \A t \in Issued : token[t].used <=> \E u \in Issued : token[u].parent = t
    /\ \A t, u \in Issued : token[t].session = token[u].session /\ ~Spent(t) /\ ~Spent(u) => t = u

\* "Reusing an old refresh token revokes the session" (integration guide): a
\* token that was presented again belongs to a session that has ended.
ReuseEndsSession ==
    \A t \in Issued : token[t].reused => session[token[t].session].status = "REVOKED"

\* A session that was ended stays so and is given no further token, although
\* logout leaves its refresh tokens as they are.
EndedSessionsStayEnded ==
    [][\A s \in Created : session[s].status = "REVOKED" =>
           /\ session'[s].status = "REVOKED"
           /\ \A t \in TokenIds : token'[t].session = s => token[t].session = s]_vars
=============================================================================
