--------------------------- MODULE SessionsProofs ---------------------------
(* Theorems about Sessions, for every set of operators, devices, requests, *)
(* sessions and tokens.                                                    *)
EXTENDS Sessions, FiniteSetTheorems, TLAPS

-----------------------------------------------------------------------------
(* Types *)

\* A request under way names an operator and a device; a token belongs to a
\* session and was made from a token, if from any, that there is.
Working ==
    /\ \A h \in Handlers : handler[h].pc # "idle" =>
           handler[h].operator \in Operators /\ handler[h].device \in Devices
    /\ \A t \in Issued : /\ token[t].session \in Created
                         /\ token[t].parent \in Issued \union {NoToken}

\* Rows of given ids are of their types, and rows of other ids are not.
LEMMA RowsTyped ==
    ASSUME TypeOK
    PROVE  /\ \A s \in Created : session[s] \in Session
           /\ \A t \in Issued : token[t] \in Token
           /\ Unused \notin Session
           /\ Unissued \notin Token
  BY SessionsAssumption DEF TypeOK, Created, Issued, Session, Token, Unused, Unissued

\* Sessions may end; tokens may be revoked, or found to be reused, in which case
\* their session has ended.
Kept ==
    /\ Created' = Created
    /\ Issued' = Issued
    /\ \A s \in Created : session[s].status = "REVOKED" => session'[s].status = "REVOKED"
    /\ \A t \in Issued :
           /\ token'[t].session = token[t].session
           /\ token'[t].parent = token[t].parent
           /\ token'[t].used = token[t].used
           /\ token[t].revoked => token'[t].revoked
           /\ token'[t].reused =>
                  token[t].reused \/ session'[token[t].session].status = "REVOKED"

\* A new session s with its first token t.
Opened(s, t) ==
    /\ s \in SessionIds \ Created
    /\ t \in TokenIds \ Issued
    /\ Created' = Created \union {s}
    /\ Issued' = Issued \union {t}
    /\ token'[t] = NewToken(s, NoToken)
    /\ \A x \in Created : session'[x] = session[x]
    /\ \A u \in Issued : token'[u] = token[u]

\* Token t of a session that has not ended is exchanged for u.
Exchanged(t, u) ==
    /\ t \in Issued
    /\ u \in TokenIds \ Issued
    /\ ~Spent(t)
    /\ session[token[t].session].status = "ACTIVE"
    /\ Created' = Created
    /\ Issued' = Issued \union {u}
    /\ token'[u] = NewToken(token[t].session, t)
    /\ \A x \in Created : session'[x].status = session[x].status
    /\ \A v \in Issued : /\ token'[v].session = token[v].session
                         /\ token'[v].parent = token[v].parent
                         /\ token'[v].revoked = token[v].revoked
                         /\ token'[v].reused = token[v].reused
                         /\ token'[v].used <=> (v = t \/ token[v].used)

Effect == \/ Kept
          \/ \E s \in SessionIds, t \in TokenIds : Opened(s, t)
          \/ \E t, u \in TokenIds : Exchanged(t, u)

\* What every step has to show.
Good == TypeOK' /\ Working' /\ Effect

\* Steps that leave sessions and tokens alone.
LEMMA QuietSteps ==
    ASSUME TypeOK, Working, UNCHANGED <<session, token>>,
           account' \in [Operators -> Account],
           registered' \subseteq Access,
           handler' \in [Handlers ->
               [pc : {"idle", "read", "checked", "accepted", "session", "registering"},
                operator : Operators \union {NoOperator},
                device : Devices \union {NoDevice}, good : BOOLEAN]],
           \A h \in Handlers : handler'[h].pc # "idle" =>
               handler'[h].operator \in Operators /\ handler'[h].device \in Devices
    PROVE  Good
<1>1. Created' = Created /\ Issued' = Issued
  BY DEF Created, Issued
<1>2. TypeOK'
  BY DEF TypeOK
<1>3. Working'
  BY <1>1 DEF Working
<1>4. Kept
  BY <1>1 DEF Kept
<1> QED
  BY <1>2, <1>3, <1>4 DEF Good, Effect

\* One account changes.
LEMMA AccountSteps ==
    ASSUME TypeOK, NEW o \in Operators, NEW a \in Account,
           account' = [account EXCEPT ![o] = a]
    PROVE  account' \in [Operators -> Account]
  BY DEF TypeOK

\* The accounts that a login writes.
LEMMA AccountsTyped ==
    ASSUME NEW a \in Account
    PROVE  Counted(a) \in Account /\ Fresh \in Account
  BY DEF Account, Counted, Fresh

\* The steps of a request that open no session.
LEMMA RequestSteps ==
    ASSUME TypeOK, Working, NEW h \in Handlers,
           \/ \E o \in Operators, d \in Devices, right \in BOOLEAN : ReadOperator(h, o, d, right)
           \/ CheckLogin(h) \/ RecordLoginFailure(h) \/ RecordLoginSuccess(h)
           \/ \E s \in SessionIds, d \in Devices : Authenticate(h, s, d)
           \/ RefuseContext(h) \/ Rehydrate(h) \/ RegisterDevice(h) \/ Abort(h)
    PROVE  Good
<1> DEFINE H == [pc : {"idle", "read", "checked", "accepted", "session", "registering"},
                 operator : Operators \union {NoOperator},
                 device : Devices \union {NoDevice}, good : BOOLEAN]
           Ready(x) == x.pc # "idle" => x.operator \in Operators /\ x.device \in Devices
<1>1. Idle \in H /\ Ready(Idle)
  BY DEF Idle
<1>2. handler \in [Handlers -> H] /\ \A g \in Handlers : Ready(handler[g])
  BY DEF TypeOK, Working
<1>3. ASSUME NEW x \in H, Ready(x), handler' = [handler EXCEPT ![h] = x]
      PROVE  handler' \in [Handlers -> H] /\ \A g \in Handlers : Ready(handler'[g])
  <2>1. \A g \in Handlers : handler'[g] = IF g = h THEN x ELSE handler[g]
    BY <1>2, <1>3
  <2> HIDE DEF H, Ready
  <2> QED
    BY <1>2, <1>3, <2>1
<1>4. ASSUME NEW x \in H, Ready(x), handler' = [handler EXCEPT ![h] = x],
             account' \in [Operators -> Account], registered' \subseteq Access,
             UNCHANGED <<session, token>>
      PROVE  Good
  BY <1>3, <1>4, QuietSteps
<1>5. account \in [Operators -> Account] /\ registered \subseteq Access
  BY DEF TypeOK
<1>6. ASSUME NEW o \in Operators, NEW d \in Devices, NEW right \in BOOLEAN,
             ReadOperator(h, o, d, right)
      PROVE  Good
  <2> DEFINE x == [pc |-> "read", operator |-> o, device |-> d,
                   good |-> right /\ account[o].status = "ACTIVE"]
  <2>1. x \in H /\ Ready(x)
    BY Zenon
  <2> QED
    BY <1>4, <1>5, <1>6, <2>1 DEF ReadOperator
<1>7. CASE CheckLogin(h)
  <2> DEFINE x == [pc |-> "checked", operator |-> handler[h].operator,
                   device |-> handler[h].device, good |-> handler[h].good]
  <2>1. x \in H /\ Ready(x)
    BY <1>2, <1>7 DEF CheckLogin
  <2> QED
    BY <1>1, <1>4, <1>5, <1>7, <2>1 DEF CheckLogin
<1>8. CASE RecordLoginFailure(h)
  <2>1. handler[h].operator \in Operators
    BY <1>2, <1>8 DEF RecordLoginFailure
  <2>2. account' \in [Operators -> Account]
    BY <1>5, <1>8, <2>1, AccountsTyped DEF RecordLoginFailure
  <2> QED
    BY <1>1, <1>4, <1>5, <1>8, <2>2 DEF RecordLoginFailure
<1>9. CASE RecordLoginSuccess(h)
  <2> DEFINE x == [pc |-> "accepted", operator |-> handler[h].operator,
                   device |-> handler[h].device, good |-> handler[h].good]
  <2>1. x \in H /\ Ready(x) /\ handler[h].operator \in Operators
    BY <1>2, <1>9 DEF RecordLoginSuccess
  <2>2. handler' = [handler EXCEPT ![h] = x]
    <3>1. handler[h] \in H
      BY <1>2
    <3>2. [handler[h] EXCEPT !.pc = "accepted"] = x
      BY <3>1
    <3> QED
      BY <1>9, <3>2, Zenon DEF RecordLoginSuccess
  <2>3. account' \in [Operators -> Account]
    BY <1>5, <1>9, <2>1 DEF RecordLoginSuccess, Fresh, Account
  <2> QED
    BY <1>4, <1>5, <1>9, <2>1, <2>2, <2>3 DEF RecordLoginSuccess
<1>10. ASSUME NEW s \in SessionIds, NEW d \in Devices, Authenticate(h, s, d)
       PROVE  Good
  <2> DEFINE x == [pc |-> "session", operator |-> session[s].operator,
                   device |-> d, good |-> TRUE]
  <2>1. session[s].operator \in Operators
    BY <1>10, RowsTyped DEF Authenticate, Session
  <2>2. x \in H /\ Ready(x)
    BY <2>1
  <2> QED
    BY <1>4, <1>5, <1>10, <2>2 DEF Authenticate
<1>11. CASE RefuseContext(h) \/ Abort(h)
  BY <1>1, <1>4, <1>5, <1>11 DEF RefuseContext, Abort
<1>12. CASE RegisterDevice(h)
  <2>1. registered' \subseteq Access
    BY <1>5, <1>12 DEF RegisterDevice
  <2> QED
    BY <1>1, <1>4, <1>5, <1>12, <2>1 DEF RegisterDevice
<1>13. CASE Rehydrate(h)
  <2> DEFINE x == [pc |-> "registering", operator |-> handler[h].operator,
                   device |-> handler[h].device, good |-> TRUE]
  <2>1. x \in H /\ Ready(x)
    BY <1>2, <1>13 DEF Rehydrate
  <2> QED
    BY <1>1, <1>4, <1>5, <1>13, <2>1 DEF Rehydrate
<1> QED
  BY <1>6, <1>7, <1>8, <1>9, <1>10, <1>11, <1>12, <1>13

\* Rows of sessions and tokens that only change in fields that are not their
\* identity stay the rows they are.
LEMMA KeptSteps ==
    ASSUME TypeOK, Working, UNCHANGED <<account, registered, handler>>,
           session' \in [SessionIds -> Session \union {Unused}],
           token' \in [TokenIds -> Token \union {Unissued}],
           Kept
    PROVE  Good
<1>1. TypeOK'
  BY DEF TypeOK
<1>2. Working'
  BY DEF Working, Kept
<1> QED
  BY <1>1, <1>2 DEF Good, Effect

\* A session's row after a step that ends it, or after time has passed.
LEMMA SessionRows ==
    ASSUME TypeOK, NEW s \in Created, NEW x \in Session,
           session' = [session EXCEPT ![s] = x],
           session[s].status = "REVOKED" => x.status = "REVOKED"
    PROVE  /\ session' \in [SessionIds -> Session \union {Unused}]
           /\ Created' = Created
           /\ \A y \in Created : session[y].status = "REVOKED" => session'[y].status = "REVOKED"
           /\ session'[s] = x
<1>1. s \in SessionIds /\ session \in [SessionIds -> Session \union {Unused}]
  BY DEF Created, TypeOK
<1>2. \A y \in SessionIds : session'[y] = IF y = s THEN x ELSE session[y]
  BY <1>1
<1>3. Created' = Created
  BY <1>1, <1>2, RowsTyped DEF Created
<1> QED
  BY <1>1, <1>2, <1>3

\* The rows that these steps write.
LEMMA ChangedSession ==
    ASSUME TypeOK, NEW s \in Created
    PROVE  /\ [session[s] EXCEPT !.status = "REVOKED"] \in Session
           /\ [session[s] EXCEPT !.status = "REVOKED"].status = "REVOKED"
           /\ \A b \in BOOLEAN : /\ [session[s] EXCEPT !.access = b] \in Session
                                 /\ [session[s] EXCEPT !.access = b].status = session[s].status
           /\ [session[s] EXCEPT !.expired = TRUE] \in Session
           /\ [session[s] EXCEPT !.expired = TRUE].status = session[s].status
<1>1. session[s] \in Session
  BY RowsTyped
<1> QED
  BY <1>1 DEF Session

\* Marking a token leaves the rest of it as it is.
LEMMA ChangedToken ==
    ASSUME NEW x \in Token
    PROVE  /\ LET y == [x EXCEPT !.reused = TRUE]
              IN  /\ y \in Token
                  /\ y.session = x.session /\ y.parent = x.parent
                  /\ y.used = x.used /\ y.revoked = x.revoked
           /\ LET y == [x EXCEPT !.revoked = TRUE]
              IN  /\ y \in Token
                  /\ y.session = x.session /\ y.parent = x.parent
                  /\ y.used = x.used /\ y.revoked /\ y.reused = x.reused
  BY DEF Token

\* Logout, and the passing of time.
LEMMA LogoutSteps ==
    ASSUME TypeOK, Working, NEW s \in SessionIds,
           Logout(s) \/ AccessExpires(s) \/ SessionExpires(s)
    PROVE  Good
<1>1. s \in Created /\ UNCHANGED <<account, registered, token, handler>>
  BY DEF Logout, AccessExpires, SessionExpires
<1>2. ASSUME NEW x \in Session, session' = [session EXCEPT ![s] = x],
             session[s].status = "REVOKED" => x.status = "REVOKED"
      PROVE  Good
  <2>1. Issued' = Issued
    BY <1>1 DEF Issued
  <2>2. Kept
    BY <1>1, <1>2, <2>1, SessionRows DEF Kept
  <2>3. token' \in [TokenIds -> Token \union {Unissued}]
    BY <1>1 DEF TypeOK
  <2> QED
    BY <1>1, <1>2, <2>2, <2>3, SessionRows, KeptSteps
<1>3. CASE Logout(s)
  <2>1. session' = [session EXCEPT ![s] = [session[s] EXCEPT !.status = "REVOKED"]]
    BY <1>3, Zenon DEF Logout, Revoked
  <2> QED
    BY <1>1, <1>2, <2>1, ChangedSession, Zenon
<1>4. CASE AccessExpires(s)
  <2>1. session' = [session EXCEPT ![s] = [session[s] EXCEPT !.access = FALSE]]
    BY <1>4, Zenon DEF AccessExpires
  <2> QED
    BY <1>1, <1>2, <2>1, ChangedSession, Zenon
<1>5. CASE SessionExpires(s)
  <2>1. session' = [session EXCEPT ![s] = [session[s] EXCEPT !.expired = TRUE]]
    BY <1>5, Zenon DEF SessionExpires
  <2> QED
    BY <1>1, <1>2, <2>1, ChangedSession, Zenon
<1> QED
  BY <1>3, <1>4, <1>5

\* Reuse and revocation.
LEMMA RevokeSteps ==
    ASSUME TypeOK, Working, NEW t \in TokenIds, DetectReuse(t) \/ RevokeRefresh(t)
    PROVE  Good
<1> DEFINE s == token[t].session
           row == [session[s] EXCEPT !.status = "REVOKED"]
<1>1. /\ t \in Issued
      /\ UNCHANGED <<account, registered, handler>>
      /\ session' = [session EXCEPT ![s] = row]
  BY Zenon DEF DetectReuse, RevokeRefresh, Revoked
<1>2. s \in Created /\ s \in SessionIds
  BY <1>1 DEF Working, Created
<1>3. row \in Session /\ row.status = "REVOKED"
  BY <1>2, ChangedSession
<1> HIDE DEF row
<1>4. /\ session' \in [SessionIds -> Session \union {Unused}]
      /\ Created' = Created
      /\ \A y \in Created : session[y].status = "REVOKED" => session'[y].status = "REVOKED"
      /\ session'[s].status = "REVOKED"
  BY <1>1, <1>2, <1>3, SessionRows
<1>5. SUFFICES /\ token' \in [TokenIds -> Token \union {Unissued}]
               /\ Issued' = Issued
               /\ \A u \in Issued :
                      /\ token'[u].session = token[u].session
                      /\ token'[u].parent = token[u].parent
                      /\ token'[u].used = token[u].used
                      /\ token[u].revoked => token'[u].revoked
                      /\ token'[u].reused => token[u].reused \/ token[u].session = s
  BY <1>1, <1>4, KeptSteps DEF Kept
<1>6. /\ token \in [TokenIds -> Token \union {Unissued}]
      /\ \A u \in Issued : token[u] \in Token
      /\ Unissued \notin Token
  BY RowsTyped DEF TypeOK
<1>7. CASE DetectReuse(t)
  <2> DEFINE y == [token[t] EXCEPT !.reused = TRUE]
  <2>1. /\ y \in Token
        /\ y.session = token[t].session /\ y.parent = token[t].parent
        /\ y.used = token[t].used /\ y.revoked = token[t].revoked
    BY <1>1, <1>6, ChangedToken
  <2>2. token' = [token EXCEPT ![t] = y]
    BY <1>7, Zenon DEF DetectReuse
  <2> HIDE DEF y
  <2>3. \A u \in TokenIds : token'[u] = IF u = t THEN y ELSE token[u]
    BY <1>6, <2>2
  <2>4. Issued' = Issued
    BY <1>1, <1>6, <2>1, <2>3 DEF Issued
  <2>5. token' \in [TokenIds -> Token \union {Unissued}]
    BY <1>6, <2>1, <2>2
  <2>6. ASSUME NEW u \in Issued
        PROVE  /\ token'[u].session = token[u].session
               /\ token'[u].parent = token[u].parent
               /\ token'[u].used = token[u].used
               /\ token[u].revoked => token'[u].revoked
               /\ token'[u].reused => token[u].reused \/ token[u].session = s
    <3>1. u \in TokenIds
      BY DEF Issued
    <3>2. CASE u = t  BY <2>1, <2>3, <3>1, <3>2
    <3>3. CASE u # t  BY <2>3, <3>1, <3>3
    <3> QED  BY <3>2, <3>3
  <2> QED
    BY <2>4, <2>5, <2>6
<1>8. CASE RevokeRefresh(t)
  <2> DEFINE y(u) == [token[u] EXCEPT !.revoked = TRUE]
  <2>1. \A u \in TokenIds : token'[u] = IF token[u].session = s THEN y(u) ELSE token[u]
    BY <1>8 DEF RevokeRefresh
  <2>2. \A u \in TokenIds : token[u].session = s => u \in Issued
    BY <1>2, SessionsAssumption DEF Issued, Unissued
  <2>3. \A u \in Issued : /\ y(u) \in Token
                          /\ y(u).session = token[u].session /\ y(u).parent = token[u].parent
                          /\ y(u).used = token[u].used /\ y(u).revoked
                          /\ y(u).reused = token[u].reused
    BY <1>6, ChangedToken
  <2> HIDE DEF y
  <2>4. \A u \in TokenIds : token'[u] \in Token \union {Unissued}
    BY <1>6, <2>1, <2>2, <2>3
  <2>5. token' \in [TokenIds -> Token \union {Unissued}]
    BY <1>8, <2>4 DEF RevokeRefresh
  <2>6. Issued' = Issued
    BY <1>6, <2>1, <2>2, <2>3 DEF Issued
  <2>7. ASSUME NEW u \in Issued
        PROVE  /\ token'[u].session = token[u].session
               /\ token'[u].parent = token[u].parent
               /\ token'[u].used = token[u].used
               /\ token[u].revoked => token'[u].revoked
               /\ token'[u].reused => token[u].reused \/ token[u].session = s
    <3>1. u \in TokenIds
      BY DEF Issued
    <3>2. CASE token[u].session = s  BY <2>1, <2>3, <3>1, <3>2
    <3>3. CASE token[u].session # s  BY <2>1, <3>1, <3>3
    <3> QED  BY <3>2, <3>3
  <2> QED
    BY <2>5, <2>6, <2>7
<1> QED
  BY <1>7, <1>8

\* A refresh that succeeds.
LEMMA RefreshSteps ==
    ASSUME TypeOK, Working, NEW t \in TokenIds, NEW u \in TokenIds,
           NEW d \in Devices \union {NoDevice}, Refresh(t, u, d)
    PROVE  Good
<1> DEFINE s == token[t].session
           row == [session[s] EXCEPT !.access = TRUE]
           old == [session |-> s, parent |-> token[t].parent, used |-> TRUE,
                   revoked |-> token[t].revoked, reused |-> token[t].reused]
<1>1. /\ t \in Issued /\ u \notin Issued /\ u # t
      /\ ~Spent(t)
      /\ session[s].status = "ACTIVE"
      /\ UNCHANGED <<account, registered, handler>>
  BY DEF Refresh, Refreshable
<1>2. s \in Created
  BY <1>1 DEF Working
<1>3. session' = [session EXCEPT ![s] = row]
  BY Zenon DEF Refresh
<1>4. row \in Session /\ row.status = session[s].status
  BY <1>2, ChangedSession
<1> HIDE DEF row
<1>5. /\ session \in [SessionIds -> Session \union {Unused}]
      /\ token \in [TokenIds -> Token \union {Unissued}]
      /\ \A v \in Issued : v \in TokenIds /\ token[v] \in Token
      /\ Unissued \notin Token
  BY RowsTyped DEF TypeOK, Issued
<1>6. /\ session' \in [SessionIds -> Session \union {Unused}]
      /\ Created' = Created
  BY <1>2, <1>3, <1>4, SessionRows
<1>7. \A x \in Created : session'[x].status = session[x].status
  BY <1>3, <1>4, <1>5 DEF Created
<1>8. s \in SessionIds
  BY <1>2 DEF Created
<1>9. old \in Token /\ NewToken(s, t) \in Token
  BY <1>1, <1>5, <1>8 DEF Token, NewToken
<1>10. token' = [[token EXCEPT ![t] = old] EXCEPT ![u] = NewToken(s, t)]
  BY DEF Refresh, Rotated
<1>11. \A v \in TokenIds : token'[v] = IF v = u THEN NewToken(s, t)
                                       ELSE IF v = t THEN old ELSE token[v]
  BY <1>5, <1>10
<1>12. token' \in [TokenIds -> Token \union {Unissued}]
  BY <1>5, <1>9, <1>10
<1>13. Issued' = Issued \union {u}
  BY <1>1, <1>5, <1>9, <1>11 DEF Issued
<1>14. ASSUME NEW v \in Issued
       PROVE  /\ token'[v].session = token[v].session
              /\ token'[v].parent = token[v].parent
              /\ token'[v].revoked = token[v].revoked
              /\ token'[v].reused = token[v].reused
              /\ token'[v].used <=> (v = t \/ token[v].used)
  <2>1. CASE v = t
    <3>1. token'[t] = old
      BY <1>1, <1>11
    <3> QED
      BY <2>1, <3>1
  <2>2. CASE v # t
    <3>1. token'[v] = token[v] /\ token[v].used \in BOOLEAN
      BY <1>1, <1>5, <1>11, <2>2 DEF Token
    <3> QED
      BY <2>2, <3>1
  <2> QED
    BY <2>1, <2>2
<1>15. token'[u] = NewToken(s, t)
  BY <1>11
<1>16. Exchanged(t, u)
  BY <1>1, <1>6, <1>7, <1>13, <1>14, <1>15 DEF Exchanged
<1>17. TypeOK'
  BY <1>1, <1>6, <1>12 DEF TypeOK
<1>18. Working'
  <2>1. NewToken(s, t).session = s /\ NewToken(s, t).parent = t
    BY DEF NewToken
  <2> QED
    BY <1>1, <1>2, <1>6, <1>13, <1>14, <1>15, <2>1 DEF Working
<1> QED
  BY <1>16, <1>17, <1>18 DEF Good, Effect

\* The end of a login.
LEMMA CreateSteps ==
    ASSUME TypeOK, Working, NEW h \in Handlers, NEW s \in SessionIds, NEW t \in TokenIds,
           Create(h, s, t)
    PROVE  Good
<1> DEFINE row == [operator |-> handler[h].operator, device |-> handler[h].device,
                   status |-> "ACTIVE", expired |-> FALSE, access |-> TRUE]
           first == NewToken(s, NoToken)
<1>1. /\ s \notin Created /\ t \notin Issued
      /\ handler[h].pc = "accepted"
      /\ session' = [session EXCEPT ![s] = row]
      /\ token' = [token EXCEPT ![t] = first]
      /\ handler' = [handler EXCEPT ![h] = Idle]
      /\ UNCHANGED <<account, registered>>
  BY DEF Create
<1>2. row \in Session
  BY <1>1 DEF Working, Session
<1>3. first \in Token /\ first.session = s /\ first.parent = NoToken
  BY DEF Token, NewToken
<1> HIDE DEF row, first
<1>4. /\ session \in [SessionIds -> Session \union {Unused}]
      /\ token \in [TokenIds -> Token \union {Unissued}]
      /\ Unused \notin Session
      /\ Unissued \notin Token
  BY RowsTyped DEF TypeOK
<1>5. /\ \A x \in SessionIds : session'[x] = IF x = s THEN row ELSE session[x]
      /\ \A u \in TokenIds : token'[u] = IF u = t THEN first ELSE token[u]
  BY <1>1, <1>4
<1>6. Created' = Created \union {s} /\ Issued' = Issued \union {t}
  BY <1>2, <1>3, <1>4, <1>5 DEF Created, Issued
<1>7. /\ \A x \in Created : session'[x] = session[x]
      /\ \A u \in Issued : token'[u] = token[u]
  BY <1>1, <1>5 DEF Created, Issued
<1>8. Opened(s, t)
  BY <1>1, <1>5, <1>6, <1>7 DEF Opened, first
<1>9. TypeOK'
  <2>1. session' \in [SessionIds -> Session \union {Unused}]
    BY <1>1, <1>2, <1>4
  <2>2. token' \in [TokenIds -> Token \union {Unissued}]
    BY <1>1, <1>3, <1>4
  <2> QED
    BY <1>1, <2>1, <2>2 DEF TypeOK, Idle
<1>10. Working'
  <2>1. \A g \in Handlers : handler'[g].pc # "idle" =>
            handler'[g].operator \in Operators /\ handler'[g].device \in Devices
    BY <1>1 DEF Working, TypeOK, Idle
  <2>2. ASSUME NEW u \in Issued'
        PROVE  token'[u].session \in Created' /\ token'[u].parent \in Issued' \union {NoToken}
    <3>1. CASE u = t  BY <1>3, <1>5, <1>6, <3>1
    <3>2. CASE u \in Issued  BY <1>6, <1>7, <3>2 DEF Working
    <3> QED  BY <1>6, <3>1, <3>2
  <2> QED
    BY <2>1, <2>2 DEF Working
<1> QED
  BY <1>8, <1>9, <1>10 DEF Good, Effect

\* What an administrator and the clock do to accounts.
LEMMA AdminSteps ==
    ASSUME TypeOK, Working, NEW o \in Operators,
           \/ Disable(o) \/ LockTimeEnds(o)
           \/ Seed(o, {}) \/ \E d \in Devices : Seed(o, {d})
    PROVE  Good
<1>1. UNCHANGED <<session, token, handler>>
  BY DEF Disable, LockTimeEnds, Seed
<1>2. registered' \subseteq Access
  BY DEF Disable, LockTimeEnds, Seed, TypeOK
<1>3. account' \in [Operators -> Account]
  <2>1. account[o] \in Account /\ Fresh \in Account
    BY DEF TypeOK, Account, Fresh
  <2>2. /\ [account[o] EXCEPT !.status = "DISABLED"] \in Account
        /\ [account[o] EXCEPT !.lock = "over"] \in Account
    BY <2>1 DEF Account
  <2>3. CASE Disable(o)
    BY <2>2, <2>3, AccountSteps DEF Disable
  <2>4. CASE LockTimeEnds(o)
    BY <2>2, <2>4, AccountSteps DEF LockTimeEnds
  <2>5. CASE Seed(o, {}) \/ \E d \in Devices : Seed(o, {d})
    BY <2>1, <2>5, AccountSteps DEF Seed
  <2> QED
    BY <2>3, <2>4, <2>5
<1> QED
  BY <1>1, <1>2, <1>3, QuietSteps DEF TypeOK, Working

\* Types are preserved, and every step is one of the three.
LEMMA GoodSteps == TypeOK /\ Working /\ [Next]_vars => Good
<1> SUFFICES ASSUME TypeOK, Working, [Next]_vars PROVE Good
  OBVIOUS
<1>1. ASSUME NEW h \in Handlers, HandlerStep(h) PROVE Good
  BY <1>1, RequestSteps, CreateSteps DEF HandlerStep
<1>2. ASSUME NEW t \in TokenIds, TokenStep(t) PROVE Good
  BY <1>2, RefreshSteps, RevokeSteps DEF TokenStep
<1>3. ASSUME NEW s \in SessionIds, Logout(s) \/ AccessExpires(s) \/ SessionExpires(s) PROVE Good
  BY <1>3, LogoutSteps
<1>4. ASSUME NEW o \in Operators,
             \/ Disable(o) \/ LockTimeEnds(o)
             \/ Seed(o, {}) \/ \E d \in Devices : Seed(o, {d})
      PROVE  Good
  BY <1>4, AdminSteps
<1>5. CASE UNCHANGED vars
  BY <1>5, QuietSteps DEF vars, TypeOK, Working
<1> HIDE DEF Good
<1> QED
  BY <1>1, <1>2, <1>3, <1>4, <1>5 DEF Next

\* The types hold in the beginning.
LEMMA TypingInit == Init => TypeOK /\ Working
<1> SUFFICES ASSUME Init PROVE TypeOK /\ Working
  OBVIOUS
<1>1. Issued = {}
  BY DEF Init, Issued
<1>2. TypeOK
  BY DEF Init, TypeOK, Fresh, Account, Idle
<1>3. Working
  BY <1>1 DEF Init, Working, Idle
<1> QED
  BY <1>2, <1>3

\* The inductive invariant that the other proofs use.
LEMMA Typing == Spec => [](TypeOK /\ Working)
<1>1. TypeOK /\ Working /\ [Next]_vars => (TypeOK /\ Working)'
  BY GoodSteps DEF Good
<1> QED
  BY <1>1, TypingInit, PTL DEF Spec

\* Accounts, sessions, tokens and requests have the shape their code gives them,
\* and devices are registered only where their operator may work.
THEOREM TypeCorrect == Spec => []TypeOK
  BY Typing, PTL

-----------------------------------------------------------------------------
(* Rotation and the end of sessions *)

\* Two tokens of one parent are the same; a token is used if and only if it is a
\* parent; two tokens of a session that can be exchanged are the same.
LEMMA ChainStep ==
    ASSUME TypeOK, Working, RotationIsAChain, Effect
    PROVE  RotationIsAChain'
<1>0. /\ \A t \in Issued : t \in TokenIds /\ t # NoToken
      /\ \A t \in Issued : token[t].parent \in Issued \union {NoToken}
      /\ \A t \in Issued : token[t].session \in Created
  BY SessionsAssumption DEF Working, Issued
<1>1. CASE Kept
  BY <1>1 DEF Kept, RotationIsAChain, Spent
<1>2. ASSUME NEW s \in SessionIds, NEW t \in TokenIds, Opened(s, t)
      PROVE  RotationIsAChain'
  <2>1. /\ token'[t].session = s /\ token'[t].parent = NoToken
        /\ ~token'[t].used /\ ~token'[t].revoked
    BY <1>2 DEF Opened, NewToken
  <2>2. t \notin Issued /\ s \notin Created /\ Issued' = Issued \union {t}
    BY <1>2 DEF Opened
  <2>3. \A u \in Issued : token'[u] = token[u]
    BY <1>2 DEF Opened
  <2>4. \A u \in Issued : token[u].session # s /\ token[u].parent # t
    BY <1>0, <2>2, SessionsAssumption
  <2> QED
    BY <1>0, <2>1, <2>2, <2>3, <2>4, SessionsAssumption DEF RotationIsAChain, Spent
<1>3. ASSUME NEW t \in TokenIds, NEW u \in TokenIds, Exchanged(t, u)
      PROVE  RotationIsAChain'
  <2>1. /\ token'[u].session = token[t].session /\ token'[u].parent = t
        /\ ~token'[u].used /\ ~token'[u].revoked
    BY <1>3 DEF Exchanged, NewToken
  <2>2. t \in Issued /\ u \notin Issued /\ Issued' = Issued \union {u} /\ ~Spent(t)
    BY <1>3 DEF Exchanged
  <2>3. \A v \in Issued : /\ token'[v].session = token[v].session
                          /\ token'[v].parent = token[v].parent
                          /\ token'[v].revoked = token[v].revoked
                          /\ token'[v].used <=> (v = t \/ token[v].used)
    BY <1>3 DEF Exchanged
  <2>4. \A v \in Issued : token[v].parent # t /\ token[v].parent # u
    BY <1>0, <2>2, SessionsAssumption DEF RotationIsAChain, Spent
  <2>5. \A v \in Issued : token[v].session = token[t].session /\ v # t => Spent(v)
    BY <2>2 DEF RotationIsAChain
  <2>6. \A v, w \in Issued' : token'[v].parent = token'[w].parent /\ token'[v].parent # NoToken => v = w
    BY <2>1, <2>2, <2>3, <2>4 DEF RotationIsAChain
  <2>7. \A v \in Issued' : token'[v].used <=> \E w \in Issued' : token'[w].parent = v
    <3>1. ASSUME NEW v \in Issued
          PROVE  token'[v].used <=> \E w \in Issued' : token'[w].parent = v
      BY <2>1, <2>2, <2>3 DEF RotationIsAChain
    <3>2. ~ \E w \in Issued' : token'[w].parent = u
      BY <2>1, <2>2, <2>3, <2>4
    <3> QED
      BY <2>1, <2>2, <3>1, <3>2
  <2>8. \A v, w \in Issued' : /\ token'[v].session = token'[w].session
                              /\ ~(token'[v].used \/ token'[v].revoked)
                              /\ ~(token'[w].used \/ token'[w].revoked)
                              => v = w
    BY <2>1, <2>2, <2>3, <2>5 DEF RotationIsAChain, Spent
  <2> QED
    BY <2>6, <2>7, <2>8 DEF RotationIsAChain, Spent
<1> QED
  BY <1>1, <1>2, <1>3 DEF Effect

\* Whatever copies of refresh requests arrive, and in whichever order with
\* logouts, the tokens of a session form one chain with at most one live end.
THEOREM TokensFormChains == Spec => []RotationIsAChain
<1>1. Init => RotationIsAChain
  BY DEF Init, RotationIsAChain, Issued
<1>2. TypeOK /\ Working /\ RotationIsAChain /\ [Next]_vars => RotationIsAChain'
  BY GoodSteps, ChainStep DEF Good
<1> QED
  BY <1>1, <1>2, Typing, PTL DEF Spec

\* Reuse goes with the end of the session in every kind of step.
LEMMA ReuseStep ==
    ASSUME TypeOK, Working, ReuseEndsSession, Effect
    PROVE  ReuseEndsSession'
<1>0. \A t \in Issued : token[t].session \in Created
  BY DEF Working
<1>1. CASE Kept
  BY <1>0, <1>1 DEF Kept, ReuseEndsSession
<1>2. ASSUME NEW s \in SessionIds, NEW t \in TokenIds, Opened(s, t)
      PROVE  ReuseEndsSession'
  BY <1>0, <1>2 DEF Opened, NewToken, ReuseEndsSession
<1>3. ASSUME NEW t \in TokenIds, NEW u \in TokenIds, Exchanged(t, u)
      PROVE  ReuseEndsSession'
  BY <1>0, <1>3 DEF Exchanged, NewToken, ReuseEndsSession
<1> QED
  BY <1>1, <1>2, <1>3 DEF Effect

\* A session one of whose tokens was presented again has ended, and no later
\* request brings it back.
THEOREM ReusedTokensEndSessions == Spec => []ReuseEndsSession
<1>1. Init => ReuseEndsSession
  BY DEF Init, ReuseEndsSession, Issued
<1>2. TypeOK /\ Working /\ ReuseEndsSession /\ [Next]_vars => ReuseEndsSession'
  BY GoodSteps, ReuseStep DEF Good
<1> QED
  BY <1>1, <1>2, Typing, PTL DEF Spec

\* No kind of step revives a session or adds to one that has ended.
LEMMA EndedStep ==
    ASSUME TypeOK, Working, TypeOK', Effect, NEW s \in Created, session[s].status = "REVOKED"
    PROVE  /\ session'[s].status = "REVOKED"
           /\ \A t \in TokenIds : token'[t].session = s => token[t].session = s
<1>0. /\ s \in SessionIds /\ s # NoSession
      /\ \A t \in TokenIds : t \notin Issued' => token'[t].session = NoSession
  BY SessionsAssumption DEF Created, Issued, Unissued
<1>1. CASE Kept
  BY <1>0, <1>1 DEF Kept
<1>2. ASSUME NEW x \in SessionIds, NEW t \in TokenIds, Opened(x, t)
      PROVE  /\ session'[s].status = "REVOKED"
             /\ \A u \in TokenIds : token'[u].session = s => token[u].session = s
  BY <1>0, <1>2 DEF Opened, NewToken
<1>3. ASSUME NEW t \in TokenIds, NEW u \in TokenIds, Exchanged(t, u)
      PROVE  /\ session'[s].status = "REVOKED"
             /\ \A v \in TokenIds : token'[v].session = s => token[v].session = s
  BY <1>0, <1>3 DEF Exchanged, NewToken
<1> QED
  BY <1>1, <1>2, <1>3 DEF Effect

\* A session that was ended, by logout, revocation or reuse, stays ended and is
\* never given another token.
THEOREM EndedSessionsAreFinal == Spec => EndedSessionsStayEnded
<1>1. TypeOK /\ Working /\ [Next]_vars =>
          [\A s \in Created : session[s].status = "REVOKED" =>
               /\ session'[s].status = "REVOKED"
               /\ \A t \in TokenIds : token'[t].session = s => token[t].session = s]_vars
  BY GoodSteps, EndedStep DEF Good
<1> QED
  BY <1>1, Typing, PTL DEF Spec, EndedSessionsStayEnded

-----------------------------------------------------------------------------
(* Lockout *)

\* Cardinalities of sets of requests.
LEMMA Counting ==
    ASSUME NEW A \in SUBSET Handlers
    PROVE  /\ Cardinality(A) \in Nat
           /\ Cardinality(Handlers) \in Nat
           /\ Cardinality(A) <= Cardinality(Handlers)
           /\ \A B \in SUBSET A : Cardinality(B) \in Nat /\ Cardinality(B) <= Cardinality(A)
           /\ \A h \in A : Cardinality(A \ {h}) = Cardinality(A) - 1
<1>1. IsFiniteSet(Handlers)
  BY SessionsAssumption
<1>2. IsFiniteSet(A) /\ Cardinality(A) <= Cardinality(Handlers)
  BY <1>1, FS_Subset
<1>3. \A B \in SUBSET A : IsFiniteSet(B) /\ Cardinality(B) <= Cardinality(A)
  BY <1>2, FS_Subset
<1>4. \A h \in A : Cardinality(A \ {h}) = Cardinality(A) - 1
  BY <1>2, FS_RemoveElement
<1> QED
  BY <1>1, <1>2, <1>3, <1>4, FS_CardinalityType

\* The three parts of LockoutHolds, for one account a and the set c of its logins
\* that were checked.
Locks(a, c) ==
    /\ a.failed + Cardinality(c) < FailureLimit + Cardinality(Handlers)
    /\ a.failed >= FailureLimit => a.status # "ACTIVE"
    /\ a.lock # "none" => a.status # "ACTIVE"

\* The changes of an account and of its checked logins that keep Locks.
LEMMA LocksSteps ==
    ASSUME NEW a \in Account, NEW c \in SUBSET Handlers, Locks(a, c), NEW b \in SUBSET Handlers
    PROVE  /\ b \subseteq c => Locks(a, b)
           /\ a.status = "ACTIVE" => Locks(a, b)
           /\ Locks(Fresh, b)
           /\ \A h \in c : b = c \ {h} => Locks(Counted(a), b)
           /\ b \subseteq c => Locks([a EXCEPT !.status = "DISABLED"], b)
           /\ b \subseteq c /\ a.lock = "running" => Locks([a EXCEPT !.lock = "over"], b)
<1> DEFINE N == Cardinality(Handlers)
<1>1. /\ Cardinality(c) \in Nat /\ Cardinality(b) \in Nat /\ N \in Nat /\ Cardinality(b) <= N
      /\ b \subseteq c => Cardinality(b) <= Cardinality(c)
      /\ \A h \in c : Cardinality(c \ {h}) = Cardinality(c) - 1
  BY Counting
<1>2. a.failed \in Nat /\ FailureLimit \in Nat \ {0}
  BY SessionsAssumption DEF Account
<1> HIDE DEF N
<1>3. a.failed + Cardinality(c) < FailureLimit + N
  BY DEF Locks, N
<1>4. b \subseteq c => a.failed + Cardinality(b) < FailureLimit + N
  BY <1>1, <1>2, <1>3
<1>5. b \subseteq c => Locks(a, b)
  BY <1>4 DEF Locks, N
<1>6. a.status = "ACTIVE" => Locks(a, b)
  <2> SUFFICES ASSUME a.status = "ACTIVE" PROVE Locks(a, b)
    OBVIOUS
  <2>1. ~(a.failed >= FailureLimit)
    BY DEF Locks
  <2>2. a.failed + Cardinality(b) < FailureLimit + N
    BY <1>1, <1>2, <2>1
  <2> QED
    BY <2>2 DEF Locks, N
<1>7. Locks(Fresh, b)
  <2>1. /\ 0 + Cardinality(b) < FailureLimit + N
        /\ ~(0 >= FailureLimit)
    BY <1>1, <1>2
  <2>2. Fresh.failed = 0 /\ Fresh.lock = "none"
    BY DEF Fresh
  <2> QED
    BY <2>1, <2>2 DEF Locks, N
<1>8. ASSUME NEW h \in c, b = c \ {h} PROVE Locks(Counted(a), b)
  <2>1. (a.failed + 1) + Cardinality(b) < FailureLimit + N
    BY <1>1, <1>2, <1>3, <1>8
  <2>2. /\ Counted(a).failed = a.failed + 1
        /\ a.failed + 1 >= FailureLimit => Counted(a).status = "LOCKED"
        /\ ~(a.failed + 1 >= FailureLimit) =>
               Counted(a).status = a.status /\ Counted(a).lock = a.lock
    BY DEF Counted
  <2> QED
    BY <1>2, <2>1, <2>2 DEF Locks, N
<1>9. LET d == [a EXCEPT !.status = "DISABLED"]
      IN  d.failed = a.failed /\ d.status = "DISABLED"
  BY DEF Account
<1>10. LET d == [a EXCEPT !.lock = "over"]
       IN  d.failed = a.failed /\ d.status = a.status
  BY DEF Account
<1>11. b \subseteq c => Locks([a EXCEPT !.status = "DISABLED"], b)
  BY <1>4, <1>9 DEF Locks, N
<1>12. b \subseteq c /\ a.lock = "running" => Locks([a EXCEPT !.lock = "over"], b)
  BY <1>4, <1>10 DEF Locks, N
<1> QED
  BY <1>5, <1>6, <1>7, <1>8, <1>11, <1>12

\* LockoutHolds is Locks of every account.
LEMMA LockoutIsLocks ==
    /\ LockoutHolds <=> \A o \in Operators : Locks(account[o], Checked(o))
    /\ LockoutHolds' <=> \A o \in Operators : Locks(account'[o], Checked(o)')
  BY DEF LockoutHolds, Locks

\* A request whose next state is x.
LEMMA CheckedAfter ==
    ASSUME TypeOK, NEW h \in Handlers, NEW x, handler' = [handler EXCEPT ![h] = x]
    PROVE  \A o \in Operators :
               /\ ~(x.pc = "checked" /\ x.operator = o) => Checked(o)' = Checked(o) \ {h}
               /\ Checked(o)' \subseteq Checked(o) \union {h}
<1>1. \A g \in Handlers : handler'[g] = IF g = h THEN x ELSE handler[g]
  BY DEF TypeOK
<1> QED
  BY <1>1 DEF Checked

\* LockoutHolds is preserved by every step.
LEMMA LockoutStep ==
    TypeOK /\ Working /\ LockoutHolds /\ [Next]_vars => LockoutHolds'
<1> SUFFICES ASSUME TypeOK, Working, LockoutHolds, [Next]_vars PROVE LockoutHolds'
  OBVIOUS
<1>0. /\ \A o \in Operators : /\ account[o] \in Account
                              /\ Checked(o) \in SUBSET Handlers
                              /\ Checked(o)' \in SUBSET Handlers
                              /\ Locks(account[o], Checked(o))
      /\ account \in [Operators -> Account]
  BY LockoutIsLocks DEF TypeOK, Checked
<1>1. ASSUME account' = account, \A o \in Operators : Checked(o)' \subseteq Checked(o)
      PROVE  LockoutHolds'
  BY <1>0, <1>1, LocksSteps, LockoutIsLocks
<1>2. ASSUME handler' = handler PROVE \A o \in Operators : Checked(o)' = Checked(o)
  BY <1>2 DEF Checked
<1>3. ASSUME NEW h \in Handlers, NEW x, handler' = [handler EXCEPT ![h] = x],
             x.pc # "checked", account' = account
      PROVE  LockoutHolds'
  <2>1. \A o \in Operators : Checked(o)' = Checked(o) \ {h}
    BY <1>3, CheckedAfter
  <2>2. \A o \in Operators : Checked(o)' \subseteq Checked(o)
    BY <2>1
  <2> QED
    BY <1>1, <1>3, <2>2
<1>4. Idle.pc # "checked"
  BY DEF Idle
<1>5. ASSUME NEW h \in Handlers, HandlerStep(h) PROVE LockoutHolds'
  <2>1. ASSUME NEW o \in Operators, NEW d \in Devices, NEW right \in BOOLEAN,
               ReadOperator(h, o, d, right)
        PROVE  LockoutHolds'
    <3> DEFINE x == [pc |-> "read", operator |-> o, device |-> d,
                     good |-> right /\ account[o].status = "ACTIVE"]
    <3>1. x.pc # "checked"
      OBVIOUS
    <3>2. handler' = [handler EXCEPT ![h] = x] /\ account' = account
      BY <2>1, Zenon DEF ReadOperator
    <3> HIDE DEF x
    <3> QED
      BY <1>3, <3>1, <3>2
  <2>2. CASE CheckLogin(h)
    <3> DEFINE o == handler[h].operator
               x == [pc |-> "checked", operator |-> o,
                     device |-> handler[h].device, good |-> handler[h].good]
    <3>1. CASE Refusable(o)
      BY <1>3, <1>4, <2>2, <3>1 DEF CheckLogin
    <3>2. CASE ~Refusable(o)
      <4>1. o \in Operators /\ account[o].status = "ACTIVE"
        BY <2>2, <3>2 DEF CheckLogin, Working, Refusable
      <4>2. handler' = [handler EXCEPT ![h] = x] /\ account' = account
        BY <2>2, <3>2 DEF CheckLogin
      <4>3. ASSUME NEW p \in Operators, p # o PROVE Checked(p)' \subseteq Checked(p)
        <5>1. x.operator # p
          BY <4>3
        <5> HIDE DEF x
        <5>2. Checked(p)' = Checked(p) \ {h}
          BY <4>2, <5>1, CheckedAfter
        <5> QED
          BY <5>2
      <4>4. ASSUME NEW p \in Operators PROVE Locks(account'[p], Checked(p)')
        <5>1. CASE p = o  BY <1>0, <4>1, <4>2, <5>1, LocksSteps
        <5>2. CASE p # o  BY <1>0, <4>2, <4>3, <5>2, LocksSteps
        <5> QED  BY <5>1, <5>2
      <4> QED
        BY <4>4, LockoutIsLocks
    <3> QED
      BY <3>1, <3>2
  <2>3. CASE RecordLoginFailure(h)
    <3> DEFINE o == handler[h].operator
    <3>1. /\ o \in Operators /\ h \in Checked(o)
          /\ handler' = [handler EXCEPT ![h] = Idle]
          /\ account' = [account EXCEPT ![o] = Counted(account[o])]
      BY <2>3 DEF RecordLoginFailure, Working, Checked
    <3>2. \A p \in Operators : Checked(p)' = Checked(p) \ {h}
      BY <1>4, <3>1, CheckedAfter
    <3>3. ASSUME NEW p \in Operators PROVE Locks(account'[p], Checked(p)')
      <4>1. CASE p = o
        <5>1. account'[p] = Counted(account[p])
          BY <1>0, <3>1, <4>1
        <5> QED
          BY <1>0, <3>1, <3>2, <4>1, <5>1, LocksSteps
      <4>2. CASE p # o
        <5>1. account'[p] = account[p]
          BY <1>0, <3>1, <4>2
        <5> QED
          BY <1>0, <3>2, <5>1, LocksSteps
      <4> QED
        BY <4>1, <4>2
    <3> QED
      BY <3>3, LockoutIsLocks
  <2>4. CASE RecordLoginSuccess(h)
    <3> DEFINE o == handler[h].operator
               x == [handler[h] EXCEPT !.pc = "accepted"]
    <3>1. /\ o \in Operators
          /\ account' = [account EXCEPT ![o] = Fresh]
      BY <2>4 DEF RecordLoginSuccess, Working
    <3>2. handler' = [handler EXCEPT ![h] = x]
      BY <2>4, Zenon DEF RecordLoginSuccess
    <3>3. x.pc = "accepted"
      BY DEF TypeOK
    <3> HIDE DEF x
    <3>4. \A p \in Operators : Checked(p)' \subseteq Checked(p)
      BY <3>2, <3>3, CheckedAfter
    <3>5. ASSUME NEW p \in Operators PROVE Locks(account'[p], Checked(p)')
      <4>1. account'[p] \in {Fresh, account[p]}
        BY <1>0, <3>1
      <4>2. /\ Locks(Fresh, Checked(p)')
            /\ Checked(p)' \subseteq Checked(p) => Locks(account[p], Checked(p)')
        BY <1>0, LocksSteps, Zenon
      <4> QED
        BY <3>4, <4>1, <4>2
    <3> QED
      BY <3>5, LockoutIsLocks
  <2>5. ASSUME NEW s \in SessionIds, NEW t \in TokenIds, Create(h, s, t) PROVE LockoutHolds'
    BY <1>3, <1>4, <2>5 DEF Create
  <2>6. ASSUME NEW s \in SessionIds, NEW d \in Devices, Authenticate(h, s, d) PROVE LockoutHolds'
    <3> DEFINE x == [pc |-> "session", operator |-> session[s].operator,
                     device |-> d, good |-> TRUE]
    <3>1. x.pc # "checked"
      OBVIOUS
    <3>2. handler' = [handler EXCEPT ![h] = x] /\ account' = account
      BY <2>6, Zenon DEF Authenticate
    <3> HIDE DEF x
    <3> QED
      BY <1>3, <3>1, <3>2
  <2>7. CASE RefuseContext(h) \/ RegisterDevice(h) \/ Abort(h)
    BY <1>3, <1>4, <2>7 DEF RefuseContext, RegisterDevice, Abort
  <2>8. CASE Rehydrate(h)
    <3> DEFINE x == [pc |-> "registering", operator |-> handler[h].operator,
                     device |-> handler[h].device, good |-> TRUE]
    <3>1. x.pc # "checked"
      OBVIOUS
    <3>2. /\ account' = account
          /\ \/ handler' = [handler EXCEPT ![h] = x]
             \/ handler' = [handler EXCEPT ![h] = Idle]
      BY <2>8 DEF Rehydrate
    <3> HIDE DEF x
    <3> QED
      BY <1>3, <1>4, <3>1, <3>2
  <2> QED
    BY <1>5, <2>1, <2>2, <2>3, <2>4, <2>5, <2>6, <2>7, <2>8 DEF HandlerStep
<1>6. ASSUME NEW t \in TokenIds, TokenStep(t) PROVE LockoutHolds'
  <2>1. account' = account /\ handler' = handler
    BY <1>6 DEF TokenStep, Refresh, DetectReuse, RevokeRefresh
  <2> QED
    BY <1>1, <1>2, <2>1
<1>7. ASSUME NEW s \in SessionIds, Logout(s) \/ AccessExpires(s) \/ SessionExpires(s)
      PROVE  LockoutHolds'
  <2>1. account' = account /\ handler' = handler
    BY <1>7 DEF Logout, AccessExpires, SessionExpires
  <2> QED
    BY <1>1, <1>2, <2>1
<1>8. ASSUME NEW o \in Operators,
             \/ Disable(o) \/ LockTimeEnds(o)
             \/ Seed(o, {}) \/ \E d \in Devices : Seed(o, {d})
      PROVE  LockoutHolds'
  <2>1. \A p \in Operators : Checked(p)' = Checked(p)
    BY <1>2, <1>8 DEF Disable, LockTimeEnds, Seed
  <2>0. Checked(o)' \subseteq Checked(o)
    BY <2>1
  <2>2. ASSUME NEW a, account' = [account EXCEPT ![o] = a], Locks(a, Checked(o)')
        PROVE  LockoutHolds'
    <3>1. ASSUME NEW p \in Operators PROVE Locks(account'[p], Checked(p)')
      <4>1. CASE p = o  BY <1>0, <2>2, <4>1
      <4>2. CASE p # o  BY <1>0, <2>1, <2>2, <4>2
      <4> QED  BY <4>1, <4>2
    <3> QED
      BY <3>1, LockoutIsLocks
  <2>3. CASE Disable(o)
    <3>1. account' = [account EXCEPT ![o] = [account[o] EXCEPT !.status = "DISABLED"]]
      BY <2>3, Zenon DEF Disable
    <3>2. Locks([account[o] EXCEPT !.status = "DISABLED"], Checked(o)')
      BY <1>0, <2>0, LocksSteps, Zenon
    <3> QED
      BY <2>2, <3>1, <3>2, Zenon
  <2>4. CASE LockTimeEnds(o)
    <3>1. /\ account' = [account EXCEPT ![o] = [account[o] EXCEPT !.lock = "over"]]
          /\ account[o].lock = "running"
      BY <2>4, Zenon DEF LockTimeEnds
    <3>2. Locks([account[o] EXCEPT !.lock = "over"], Checked(o)')
      BY <1>0, <2>0, <3>1, LocksSteps, Zenon
    <3> QED
      BY <2>2, <3>1, <3>2, Zenon
  <2>5. CASE Seed(o, {}) \/ \E d \in Devices : Seed(o, {d})
    <3>1. account' = [account EXCEPT ![o] = Fresh]
      BY <2>5 DEF Seed
    <3> QED
      BY <1>0, <2>2, <3>1, LocksSteps
  <2> QED
    BY <1>8, <2>3, <2>4, <2>5
<1>9. CASE UNCHANGED vars
  BY <1>1, <1>2, <1>9 DEF vars
<1> QED
  BY <1>5, <1>6, <1>7, <1>8, <1>9 DEF Next

\* However many logins of an account overlap, its failures exceed the limit by
\* fewer than there are requests, and at the limit it is not active.
THEOREM LockoutIsEffective == Spec => []LockoutHolds
<1>1. Init => LockoutHolds
  <2> SUFFICES ASSUME Init PROVE LockoutHolds
    OBVIOUS
  <2>1. \A o \in Operators : account[o] = Fresh /\ Checked(o) = {}
    BY DEF Init, Checked, Idle
  <2>2. /\ Cardinality({}) = 0
        /\ Cardinality(Handlers) \in Nat
    BY Counting, FS_EmptySet
  <2>3. 0 + 0 < FailureLimit + Cardinality(Handlers) /\ ~(0 >= FailureLimit)
    BY <2>2, SessionsAssumption
  <2>4. Fresh.failed = 0 /\ Fresh.lock = "none"
    BY DEF Fresh
  <2> QED
    BY <2>1, <2>2, <2>3, <2>4 DEF LockoutHolds
<1> QED
  BY <1>1, LockoutStep, Typing, PTL DEF Spec
=============================================================================
