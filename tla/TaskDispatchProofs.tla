-------------------------- MODULE TaskDispatchProofs --------------------------
(***************************************************************************)
(* Proofs about TaskDispatch, for every set of tasks and topics, every log *)
(* that a broker may hold and every number of failures and restarts.       *)
(***************************************************************************)
EXTENDS TaskDispatch, TLAPS

Open(c) == reader[c].pc \in {"locked", "unlocked"}

\* The shape of the state that TypeOK leaves open.
Shape ==
    /\ position \in [Topics -> Nat]
    /\ committed \in [Topics -> Nat]
    /\ queue \in [Tasks -> [status : QueueStatuses, version : Nat, operator : STRING \union {NoOperator}]
                           \union {NoRow}]
    /\ effects \in [Tasks -> Seq(Events)]

Typed == TypeOK /\ Shape

\* The message a reader is at is one of its log.
LEMMA CurrentTyped ==
    ASSUME Typed, NEW c \in Topics, position[c] <= Len(Log[c])
    PROVE  /\ position[c] \in DOMAIN Log[c]
           /\ Current(c) \in Message
           /\ Current(c).event \in Events
           /\ Current(c).status \in Statuses
           /\ Len(Log[c]) \in Nat
<1>1. Log[c] \in Seq(Message)
  BY LogAssumption
<1>2. Len(Log[c]) \in Nat /\ DOMAIN Log[c] = 1 .. Len(Log[c])
  BY <1>1
<1>3. position[c] \in 1 .. Len(Log[c])
  BY <1>2 DEF Typed, TypeOK, Shape
<1>4. position[c] \in DOMAIN Log[c] /\ Log[c][position[c]] \in Message
  BY <1>1, <1>2, <1>3
<1> QED
  BY <1>2, <1>4 DEF Current, Events, Statuses

\* The status the queue shows is one of its own, whatever WMS says.
LEMMA QueueStatusTyped ==
    ASSUME NEW s
    PROVE  QueueStatus(s) \in QueueStatuses \union {"WITHDRAWN"}
  BY DEF QueueStatus, QueueStatuses

\* The row that syncOperatorQueue writes.
LEMMA SyncedTyped ==
    ASSUME Shape, NEW m \in Message
    PROVE  Synced(m) \in [status : QueueStatuses, version : Nat, operator : STRING \union {NoOperator}]
                         \union {NoRow}
<1>1. QueueStatus(m.status) \in QueueStatuses \union {"WITHDRAWN"}
  BY QueueStatusTyped, Zenon
<1>2. m.version \in Nat /\ m.operator \in STRING \union {NoOperator} /\ m.task \in Tasks
  BY DEF Message
<1>3. queue[m.task] # NoRow => queue[m.task].operator \in STRING \union {NoOperator}
  BY <1>2 DEF Shape
<1> QED
  BY <1>1, <1>2, <1>3 DEF Synced

\* How a reader moves, in all steps but a restart.
Moves(c) ==
    /\ \A e \in Topics \ {c} : /\ reader'[e] = reader[e]
                               /\ position'[e] = position[e]
                               /\ committed'[e] = committed[e]
    /\ DOMAIN reader' = Topics /\ DOMAIN position' = Topics /\ DOMAIN committed' = Topics

\* Every step of a reader moves that reader only.
LEMMA ReaderMoves ==
    ASSUME Typed, NEW c \in Topics,
           Handle(c) \/ ProcessFails(c) \/ CommitOffset(c) \/ CommitFails(c)
    PROVE  Moves(c)
  BY DEF Typed, TypeOK, Shape, Moves, Handle, DeadLetter, Duplicate, ReadVersion, RecordStale, Apply,
         ProcessFails, CommitOffset, CommitFails, Idle

LEMMA TypingInit == Init => Typed
<1> SUFFICES ASSUME Init PROVE Typed
  OBVIOUS
<1>1. \A c \in Topics : Len(Log[c]) \in Nat
  BY LogAssumption
<1>2. TypeOK
  BY <1>1 DEF Init, TypeOK, Idle
<1>3. Shape
  BY DEF Init, Shape
<1> QED
  BY <1>2, <1>3 DEF Typed

\* The steps inside the transaction keep the types.
LEMMA HandleTyped ==
    ASSUME Typed, NEW c \in Topics, Handle(c)
    PROVE  Typed'
<1> DEFINE m == Current(c)
<1>1. Moves(c)
  BY ReaderMoves
<1>2. position[c] <= Len(Log[c])
  BY DEF Handle, DeadLetter, Duplicate, ReadVersion, RecordStale, Apply, Typed, TypeOK
<1>3. m \in Message /\ m.event \in Events /\ m.status \in Statuses
  BY <1>2, CurrentTyped
<1>4. m.task \in Tasks /\ m.version \in Nat \ {0}
  BY <1>3 DEF Message
<1>5. position' = position /\ committed' = committed
  BY DEF Handle, DeadLetter, Duplicate, ReadVersion, RecordStale, Apply
<1>6. reader' \in [Topics -> [pc : {"idle", "locked", "unlocked", "processed"}, projected : Nat]]
  <2>1. reader[c] \in [pc : {"idle", "locked", "unlocked", "processed"}, projected : Nat]
    BY DEF Typed, TypeOK
  <2>2. CASE ReadVersion(c)
    <3>1. projection[m.task] = NoRow \/ projection[m.task].version \in Nat
      BY <1>4 DEF Typed, TypeOK
    <3> QED
      BY <2>2, <3>1 DEF ReadVersion, Typed, TypeOK
  <2>3. CASE ~ReadVersion(c)
    <3>1. \/ reader' = [reader EXCEPT ![c].pc = "processed"]
          \/ reader' = [reader EXCEPT ![c] = [pc |-> "processed", projected |-> 0]]
      BY <2>3 DEF Handle, DeadLetter, Duplicate, RecordStale, Apply
    <3>2. reader \in [Topics -> [pc : {"idle", "locked", "unlocked", "processed"}, projected : Nat]]
      BY DEF Typed, TypeOK
    <3>3. CASE reader' = [reader EXCEPT ![c].pc = "processed"]
      BY <3>2, <3>3
    <3>4. CASE reader' = [reader EXCEPT ![c] = [pc |-> "processed", projected |-> 0]]
      BY <3>2, <3>4
    <3> QED
      BY <3>1, <3>3, <3>4
  <2> QED
    BY <2>2, <2>3
<1>7. /\ projection' \in [Tasks -> [version : Nat \ {0}, status : Statuses] \union {NoRow}]
      /\ inbox' \subseteq Events /\ dlq' \subseteq Events /\ stale' \subseteq Events
  <2>1. CASE Apply(c)
    BY <1>3, <1>4, <2>1 DEF Apply, Typed, TypeOK
  <2>2. CASE RecordStale(c)
    BY <1>3, <2>2 DEF RecordStale, Typed, TypeOK
  <2>3. CASE DeadLetter(c) \/ Duplicate(c) \/ ReadVersion(c)
    BY <1>3, <2>3 DEF DeadLetter, Duplicate, ReadVersion, Rejected, dbVars, Typed, TypeOK
  <2> QED
    BY <2>1, <2>2, <2>3 DEF Handle
<1>8. /\ queue' \in [Tasks -> [status : QueueStatuses, version : Nat,
                               operator : STRING \union {NoOperator}] \union {NoRow}]
      /\ effects' \in [Tasks -> Seq(Events)]
  <2>1. CASE Apply(c)
    <3>1. Synced(m) \in [status : QueueStatuses, version : Nat, operator : STRING \union {NoOperator}]
                        \union {NoRow}
      BY <1>3, SyncedTyped DEF Typed
    <3>2. Append(effects[m.task], m.event) \in Seq(Events)
      BY <1>3, <1>4 DEF Typed, Shape
    <3> QED
      BY <1>4, <2>1, <3>1, <3>2 DEF Apply, Typed, Shape
  <2>2. CASE ~Apply(c)
    BY <2>2 DEF Handle, DeadLetter, Duplicate, ReadVersion, RecordStale, dbVars, Typed, Shape
  <2> QED
    BY <2>1, <2>2
<1>9. \A e \in Topics : reader'[e].pc # "idle" => position'[e] <= Len(Log[e])
  BY <1>1, <1>2, <1>5 DEF Moves, Typed, TypeOK
<1> QED
  BY <1>5, <1>6, <1>7, <1>8, <1>9 DEF Typed, TypeOK, Shape

\* The steps that move a reader on, and a restart, keep the types.
LEMMA LoopTyped ==
    ASSUME Typed, \/ Restart
                  \/ \E c \in Topics : ProcessFails(c) \/ CommitOffset(c) \/ CommitFails(c)
    PROVE  Typed'
<1>1. \A c \in Topics : Len(Log[c]) \in Nat
  BY LogAssumption
<1>2. UNCHANGED dbVars /\ dlq' = dlq
  BY DEF Restart, ProcessFails, CommitOffset, CommitFails
<1>3. ASSUME NEW c \in Topics, ProcessFails(c) \/ CommitOffset(c) \/ CommitFails(c)
      PROVE  /\ position' \in [Topics -> Nat] /\ committed' \in [Topics -> Nat]
             /\ \A e \in Topics : /\ position'[e] \in 1 .. (Len(Log[e]) + 1)
                                  /\ committed'[e] \in 0 .. (position'[e] - 1)
                                  /\ reader'[e].pc # "idle" => position'[e] <= Len(Log[e])
             /\ reader' \in [Topics -> [pc : {"idle", "locked", "unlocked", "processed"},
                                        projected : Nat]]
  <2>1. position[c] <= Len(Log[c])
    BY <1>3 DEF ProcessFails, CommitOffset, CommitFails, Typed, TypeOK
  <2>2. /\ position' = [position EXCEPT ![c] = @ + 1]
        /\ committed' = committed \/ committed' = [committed EXCEPT ![c] = position[c]]
        /\ reader' = [reader EXCEPT ![c] = Idle]
    BY <1>3 DEF ProcessFails, CommitOffset, CommitFails
  <2> QED
    BY <1>1, <2>1, <2>2 DEF Typed, TypeOK, Shape, Idle
<1>4. CASE Restart
  <2>1. /\ position' = [c \in Topics |-> committed[c] + 1]
        /\ reader' = [c \in Topics |-> Idle]
        /\ committed' = committed
    BY <1>4 DEF Restart
  <2> QED
    BY <1>1, <1>2, <2>1 DEF Typed, TypeOK, Shape, Idle, dbVars
<1>5. CASE \E c \in Topics : ProcessFails(c) \/ CommitOffset(c) \/ CommitFails(c)
  BY <1>2, <1>3, <1>5 DEF Typed, TypeOK, Shape, dbVars
<1> QED
  BY <1>4, <1>5

LEMMA TypingStep == Typed /\ [Next]_vars => Typed'
<1> SUFFICES ASSUME Typed, [Next]_vars PROVE Typed'
  OBVIOUS
<1>1. CASE UNCHANGED vars
  BY <1>1 DEF vars, Typed, TypeOK, Shape
<1> QED
  BY <1>1, HandleTyped, LoopTyped DEF Next

\* The rows and readers keep the shape their code gives them.
THEOREM TypeCorrect == Spec => []TypeOK
<1>1. Typed => TypeOK
  BY DEF Typed
<1> QED
  BY <1>1, TypingInit, TypingStep, PTL DEF Spec

-----------------------------------------------------------------------------
(* What the open transactions hold *)

\* The inbox row a transaction has inserted is that transaction's alone.
OpenEvents ==
    /\ \A c \in Topics : Open(c) => Current(c).event \notin inbox
    /\ \A c, e \in Topics : c # e /\ Open(c) /\ Open(e) => Current(c).event # Current(e).event

\* A locked row is there, has the version that was read, and has one holder.
LocksHeld ==
    /\ \A c \in Topics : reader[c].pc = "locked" =>
           /\ projection[Current(c).task] # NoRow
           /\ projection[Current(c).task].version = reader[c].projected
    /\ \A c, e \in Topics :
           c # e /\ reader[c].pc = "locked" /\ reader[e].pc = "locked" =>
               Current(c).task # Current(e).task

\* Whatever a reader has passed has an outcome or failed.
Passed ==
    /\ \A c \in Topics : \A i \in 1 .. (position[c] - 1) : Handled(c, i) \/ <<c, i>> \in failed
    /\ \A c \in Topics : reader[c].pc = "processed" => Handled(c, position[c])

IInv == Typed /\ OpenEvents /\ LocksHeld /\ Passed /\ EffectOnce /\ QueueFollowsProjection

\* A step inside a transaction leaves every reader at its message.
LEMMA HandleKeepsPlace ==
    ASSUME Typed, NEW c \in Topics, Handle(c)
    PROVE  /\ position' = position /\ failed' = failed
           /\ \A e \in Topics : Current(e)' = Current(e)
           /\ \A e \in Topics \ {c} : reader'[e] = reader[e]
           /\ Current(c) \in Message /\ Current(c).event \in Events
           /\ Current(c).task \in Tasks /\ Current(c).version \in Nat
           /\ Current(c).status \in STRING
<1>1. position' = position /\ failed' = failed
  BY DEF Handle, DeadLetter, Duplicate, ReadVersion, RecordStale, Apply
<1>2. position[c] <= Len(Log[c])
  BY DEF Handle, DeadLetter, Duplicate, ReadVersion, RecordStale, Apply, Typed, TypeOK
<1>3. Current(c) \in Message /\ Current(c).event \in Events
  BY <1>2, CurrentTyped
<1>4. Current(c).task \in Tasks /\ Current(c).version \in Nat /\ Current(c).status \in STRING
  BY <1>3 DEF Message
<1>5. \A e \in Topics \ {c} : reader'[e] = reader[e]
  BY ReaderMoves DEF Moves
<1> QED
  BY <1>1, <1>3, <1>4, <1>5 DEF Current

\* The steps inside the transaction, as far as the reader and the inbox go.
LEMMA HandleReader ==
    ASSUME Typed, NEW c \in Topics, Handle(c)
    PROVE  \/ /\ ReadVersion(c)
              /\ inbox' = inbox
              /\ reader'[c] = IF projection[Current(c).task] = NoRow
                              THEN [pc |-> "unlocked", projected |-> 0]
                              ELSE [pc |-> "locked",
                                    projected |-> projection[Current(c).task].version]
           \/ /\ RecordStale(c) \/ Apply(c)
              /\ inbox' = inbox \union {Current(c).event}
              /\ Open(c) /\ reader'[c].pc = "processed"
           \/ /\ DeadLetter(c) \/ Duplicate(c)
              /\ inbox' = inbox
              /\ reader'[c].pc = "processed"
<1>1. reader \in [Topics -> [pc : {"idle", "locked", "unlocked", "processed"}, projected : Nat]]
  BY DEF Typed, TypeOK
<1>2. CASE ReadVersion(c)
  BY <1>1, <1>2 DEF ReadVersion, dbVars
<1>3. CASE RecordStale(c) \/ Apply(c)
  BY <1>1, <1>3 DEF RecordStale, Apply, Open
<1>4. CASE DeadLetter(c) \/ Duplicate(c)
  BY <1>1, <1>4 DEF DeadLetter, Duplicate, dbVars
<1> QED
  BY <1>2, <1>3, <1>4 DEF Handle

\* A step that moves readers on closes their transactions and writes nothing.
LEMMA LoopCloses ==
    ASSUME Typed, \/ Restart
                  \/ \E c \in Topics : ProcessFails(c) \/ CommitOffset(c) \/ CommitFails(c)
    PROVE  /\ UNCHANGED dbVars /\ dlq' = dlq
           /\ \A e \in Topics : \/ reader'[e].pc = "idle"
                                \/ reader'[e] = reader[e] /\ position'[e] = position[e]
<1>1. CASE Restart
  BY <1>1 DEF Restart, Idle
<1>2. ASSUME NEW c \in Topics, ProcessFails(c) \/ CommitOffset(c) \/ CommitFails(c)
      PROVE  \A e \in Topics : \/ reader'[e].pc = "idle"
                               \/ reader'[e] = reader[e] /\ position'[e] = position[e]
  BY <1>2 DEF ProcessFails, CommitOffset, CommitFails, Idle, Typed, TypeOK, Shape
<1>3. UNCHANGED dbVars /\ dlq' = dlq
  BY DEF Restart, ProcessFails, CommitOffset, CommitFails
<1> QED
  BY <1>1, <1>2, <1>3

LEMMA OpenEventsHandle ==
    ASSUME Typed, OpenEvents, NEW c \in Topics, Handle(c)
    PROVE  OpenEvents'
<1>1. /\ \A e \in Topics : Current(e)' = Current(e)
      /\ \A e \in Topics \ {c} : reader'[e] = reader[e]
  BY HandleKeepsPlace
<1>2. CASE ReadVersion(c) /\ inbox' = inbox
  <2>1. Current(c).event \notin inbox /\ ~InboxBusy(c)
    BY <1>2 DEF ReadVersion
  <2>2. \A e \in Topics \ {c} : Open(e) => Current(e).event # Current(c).event
    BY <2>1 DEF InboxBusy, Open
  <2> QED
    BY <1>1, <1>2, <2>1, <2>2 DEF OpenEvents, Open
<1>3. CASE /\ inbox' = inbox \union {Current(c).event}
           /\ Open(c) /\ reader'[c].pc = "processed"
  BY <1>1, <1>3 DEF OpenEvents, Open
<1>4. CASE inbox' = inbox /\ reader'[c].pc = "processed"
  BY <1>1, <1>4 DEF OpenEvents, Open
<1> QED
  BY <1>2, <1>3, <1>4, HandleReader

LEMMA OpenEventsLoop ==
    ASSUME Typed, OpenEvents,
           \/ Restart
           \/ \E c \in Topics : ProcessFails(c) \/ CommitOffset(c) \/ CommitFails(c)
    PROVE  OpenEvents'
<1>1. inbox' = inbox
  BY LoopCloses DEF dbVars
<1>2. \A e \in Topics : \/ reader'[e].pc = "idle"
                        \/ reader'[e] = reader[e] /\ Current(e)' = Current(e)
  BY LoopCloses DEF Current
<1> QED
  BY <1>1, <1>2 DEF OpenEvents, Open

LEMMA LocksHeldHandle ==
    ASSUME Typed, LocksHeld, NEW c \in Topics, Handle(c)
    PROVE  LocksHeld'
<1>1. /\ \A e \in Topics : Current(e)' = Current(e)
      /\ \A e \in Topics \ {c} : reader'[e] = reader[e]
      /\ Current(c).task \in Tasks
  BY HandleKeepsPlace
<1>2. CASE ReadVersion(c)
  <2>1. /\ projection' = projection
        /\ \A e \in Topics \ {c} : reader[e].pc = "locked" => Current(e).task # Current(c).task
    BY <1>2 DEF ReadVersion, dbVars, Locked, Locks
  <2>2. reader'[c].pc = "locked" =>
          /\ projection[Current(c).task] # NoRow
          /\ projection[Current(c).task].version = reader'[c].projected
    BY <1>2, HandleReader DEF ReadVersion, RecordStale, Apply, DeadLetter, Duplicate, Open
  <2> QED
    BY <1>1, <2>1, <2>2 DEF LocksHeld
<1>3. CASE Apply(c)
  <2>1. \A e \in Topics \ {c} : reader[e].pc = "locked" => Current(e).task # Current(c).task
    BY <1>3 DEF Apply, Locked, Locks
  <2>2. projection' = [projection EXCEPT ![Current(c).task] =
               [version |-> Current(c).version, status |-> Current(c).status]]
    BY <1>3 DEF Apply
  <2>3. \A e \in Topics \ {c} : reader[e].pc = "locked" =>
            projection'[Current(e).task] = projection[Current(e).task]
    <3> SUFFICES ASSUME NEW e \in Topics \ {c}, reader[e].pc = "locked"
                 PROVE  projection'[Current(e).task] = projection[Current(e).task]
      OBVIOUS
    <3>1. Current(e).task \in Tasks
      <4>1. position[e] <= Len(Log[e])
        BY DEF Typed, TypeOK
      <4> QED
        BY <4>1, CurrentTyped DEF Message
    <3> QED
      BY <2>1, <2>2, <3>1 DEF Typed, TypeOK
  <2>4. reader'[c].pc = "processed"
    BY <1>3, HandleReader DEF Apply, ReadVersion, Open
  <2> QED
    BY <1>1, <2>3, <2>4 DEF LocksHeld
<1>4. CASE RecordStale(c) \/ DeadLetter(c) \/ Duplicate(c)
  <2>1. projection' = projection /\ reader'[c].pc = "processed"
    BY <1>4, HandleReader DEF RecordStale, DeadLetter, Duplicate, dbVars, ReadVersion, Open
  <2> QED
    BY <1>1, <2>1 DEF LocksHeld
<1> QED
  BY <1>2, <1>3, <1>4 DEF Handle

LEMMA LocksHeldLoop ==
    ASSUME Typed, LocksHeld,
           \/ Restart
           \/ \E c \in Topics : ProcessFails(c) \/ CommitOffset(c) \/ CommitFails(c)
    PROVE  LocksHeld'
<1>1. projection' = projection
  BY LoopCloses DEF dbVars
<1>2. \A e \in Topics : \/ reader'[e].pc = "idle"
                        \/ reader'[e] = reader[e] /\ Current(e)' = Current(e)
  BY LoopCloses DEF Current
<1> QED
  BY <1>1, <1>2 DEF LocksHeld

-----------------------------------------------------------------------------
(* One effect per event *)

\* An applied event is new to the inbox, so it is new to every history.
LEMMA EffectOnceHandle ==
    ASSUME Typed, OpenEvents, EffectOnce, NEW c \in Topics, Handle(c)
    PROVE  EffectOnce'
<1> DEFINE m == Current(c)
<1>1. m.event \in Events /\ m.task \in Tasks
  BY HandleKeepsPlace
<1>2. effects \in [Tasks -> Seq(Events)]
  BY DEF Typed, Shape
<1>3. CASE Apply(c)
  <2>1. /\ inbox' = inbox \union {m.event} /\ stale' = stale
        /\ effects' = [effects EXCEPT ![m.task] = Append(@, m.event)]
    BY <1>3 DEF Apply
  <2>2. m.event \notin inbox
    BY <1>3 DEF Apply, OpenEvents, Open
  <2>3. m.event \notin Applied /\ m.event \notin stale
    BY <2>2 DEF EffectOnce
  <2>4. \A t \in Tasks \ {m.task} : effects'[t] = effects[t]
    BY <1>2, <2>1
  <2>5. effects'[m.task] = Append(effects[m.task], m.event)
    BY <1>1, <1>2, <2>1
  <2>6. /\ Len(effects[m.task]) \in Nat
        /\ DOMAIN effects[m.task] = 1 .. Len(effects[m.task])
        /\ DOMAIN effects'[m.task] = 1 .. (Len(effects[m.task]) + 1)
        /\ \A i \in 1 .. Len(effects[m.task]) : effects'[m.task][i] = effects[m.task][i]
        /\ effects'[m.task][Len(effects[m.task]) + 1] = m.event
    BY <1>1, <1>2, <2>5
  <2>7. \A t \in Tasks : \A i \in DOMAIN effects[t] : effects[t][i] # m.event
    BY <1>1, <2>3 DEF Applied
  <2>8. Applied' = Applied \union {m.event}
    <3>1. ASSUME NEW e \in Applied PROVE e \in Applied'
      <4>1. PICK t \in Tasks : \E i \in DOMAIN effects[t] : effects[t][i] = e
        BY <3>1 DEF Applied
      <4>2. \E i \in DOMAIN effects'[t] : effects'[t][i] = e
        BY <2>4, <2>6, <4>1
      <4>3. e \in Events /\ Events' = Events
        BY <3>1 DEF Applied, Events
      <4> QED
        BY <4>2, <4>3 DEF Applied
    <3>2. m.event \in Applied'
      <4>1. Len(effects[m.task]) + 1 \in DOMAIN effects'[m.task]
        BY <2>6
      <4>2. m.event \in Events'
        BY <1>1 DEF Events
      <4> QED
        BY <1>1, <2>6, <4>1, <4>2 DEF Applied
    <3>3. ASSUME NEW e \in Applied', e # m.event PROVE e \in Applied
      <4>1. PICK t \in Tasks : \E i \in DOMAIN effects'[t] : effects'[t][i] = e
        BY DEF Applied
      <4>2. \E i \in DOMAIN effects[t] : effects[t][i] = e
        BY <2>4, <2>6, <3>3, <4>1
      <4>3. e \in Events
        BY DEF Applied, Events
      <4> QED
        BY <4>2, <4>3 DEF Applied
    <3> QED
      BY <3>1, <3>2, <3>3
  <2>9. \A t \in Tasks : \A i, j \in DOMAIN effects'[t] :
            effects'[t][i] = effects'[t][j] => i = j
    <3> SUFFICES ASSUME NEW t \in Tasks, NEW i \in DOMAIN effects'[t],
                        NEW j \in DOMAIN effects'[t], effects'[t][i] = effects'[t][j]
                 PROVE  i = j
      OBVIOUS
    <3>1. CASE t # m.task
      BY <2>4, <3>1 DEF EffectOnce
    <3>2. CASE t = m.task
      <4> DEFINE old == effects[m.task]
                 n == Len(old)
      <4>1. \A k \in 1 .. (n + 1) : k \in 1 .. n \/ k = n + 1
        BY <2>6
      <4>2. \A k \in 1 .. n : effects'[t][k] = old[k] /\ old[k] # m.event
        BY <1>1, <2>6, <2>7, <3>2
      <4>3. effects'[t][n + 1] = m.event
        BY <2>6, <3>2
      <4>4. \A k, l \in 1 .. n : old[k] = old[l] => k = l
        BY <1>1, <2>6 DEF EffectOnce
      <4>5. i \in 1 .. (n + 1) /\ j \in 1 .. (n + 1)
        BY <2>6, <3>2
      <4> HIDE DEF old, n
      <4> QED
        BY <4>1, <4>2, <4>3, <4>4, <4>5
    <3> QED
      BY <3>1, <3>2
  <2> QED
    BY <2>1, <2>3, <2>8, <2>9 DEF EffectOnce
<1>4. CASE RecordStale(c)
  <2>1. /\ inbox' = inbox \union {m.event} /\ stale' = stale \union {m.event}
        /\ effects' = effects
    BY <1>4 DEF RecordStale
  <2>2. m.event \notin inbox
    BY <1>4 DEF RecordStale, OpenEvents, Open
  <2>3. Applied' = Applied
    BY <2>1 DEF Applied, Events
  <2> QED
    BY <2>1, <2>2, <2>3 DEF EffectOnce
<1>5. CASE DeadLetter(c) \/ Duplicate(c) \/ ReadVersion(c)
  BY <1>5 DEF DeadLetter, Duplicate, ReadVersion, dbVars, EffectOnce, Applied, Events
<1> QED
  BY <1>3, <1>4, <1>5 DEF Handle

-----------------------------------------------------------------------------
(* The queue and the projection *)

LEMMA QueueHandle ==
    ASSUME Typed, QueueFollowsProjection, NEW c \in Topics, Handle(c)
    PROVE  QueueFollowsProjection'
<1> DEFINE m == Current(c)
<1>1. m \in Message /\ m.task \in Tasks /\ m.version \in Nat /\ m.status \in STRING
  BY HandleKeepsPlace
<1>2. CASE Apply(c)
  <2>1. /\ projection' = [projection EXCEPT ![m.task] =
               [version |-> m.version, status |-> m.status]]
        /\ queue' = [queue EXCEPT ![m.task] = Synced(m)]
    BY <1>2 DEF Apply
  <2>2. \A t \in Tasks \ {m.task} : projection'[t] = projection[t] /\ queue'[t] = queue[t]
    BY <2>1 DEF Typed, TypeOK, Shape
  <2>3. /\ projection'[m.task] = [version |-> m.version, status |-> m.status]
        /\ queue'[m.task] = Synced(m)
    BY <1>1, <2>1 DEF Typed, TypeOK, Shape
  <2>4. projection'[m.task] # NoRow
    BY <1>1, <2>3, LogAssumption
  <2>5. projection'[m.task].version = m.version /\ projection'[m.task].status = m.status
    BY <2>3
  <2>6. CASE QueueStatus(m.status) = "WITHDRAWN"
    <3>1. queue'[m.task] = NoRow
      BY <2>3, <2>6 DEF Synced
    <3> QED
      BY <2>2, <2>5, <2>6, <3>1 DEF QueueFollowsProjection
  <2>7. CASE QueueStatus(m.status) # "WITHDRAWN"
    <3>1. PICK o : Synced(m) = [status |-> QueueStatus(m.status), version |-> m.version,
                                operator |-> o]
      BY <2>7 DEF Synced
    <3>2. Synced(m) # NoRow
      <4>1. QueueStatus(m.status) \in QueueStatuses
        BY <2>7, QueueStatusTyped
      <4>2. Synced(m).operator \in STRING \union {NoOperator}
        <5>1. m.operator \in STRING \union {NoOperator}
          BY <1>1 DEF Message
        <5>2. queue[m.task] # NoRow => queue[m.task].operator \in STRING \union {NoOperator}
          BY <1>1 DEF Typed, Shape
        <5> QED
          BY <2>7, <5>1, <5>2 DEF Synced
      <4> QED
        BY <1>1, <3>1, <4>1, <4>2, LogAssumption
    <3> QED
      BY <2>2, <2>3, <2>4, <2>5, <2>7, <3>1, <3>2 DEF QueueFollowsProjection
  <2> QED
    BY <2>6, <2>7
<1>3. CASE ~Apply(c)
  BY <1>3 DEF Handle, DeadLetter, Duplicate, ReadVersion, RecordStale, dbVars,
              QueueFollowsProjection
<1> QED
  BY <1>2, <1>3

-----------------------------------------------------------------------------
(* What the readers have passed *)

LEMMA PassedHandle ==
    ASSUME Typed, Passed, NEW c \in Topics, Handle(c)
    PROVE  Passed'
<1>1. /\ position' = position /\ failed' = failed
      /\ \A e \in Topics \ {c} : reader'[e] = reader[e]
  BY HandleKeepsPlace
<1>2. inbox \subseteq inbox' /\ dlq \subseteq dlq'
  BY DEF Handle, DeadLetter, Duplicate, ReadVersion, RecordStale, Apply, Rejected, dbVars
<1>3. reader'[c].pc = "processed" => Current(c).event \in inbox' \union dlq'
  <2>1. CASE RecordStale(c) \/ Apply(c)
    BY <2>1 DEF RecordStale, Apply
  <2>2. CASE DeadLetter(c)
    BY <2>2 DEF DeadLetter, Rejected
  <2>3. CASE Duplicate(c)
    BY <2>3 DEF Duplicate, dbVars
  <2>4. CASE ReadVersion(c)
    BY <2>4, HandleReader DEF ReadVersion, RecordStale, Apply, DeadLetter, Duplicate, Open
  <2> QED
    BY <2>1, <2>2, <2>3, <2>4 DEF Handle
<1> QED
  BY <1>1, <1>2, <1>3 DEF Passed, Handled, Current

LEMMA PassedLoop ==
    ASSUME Typed, Passed,
           \/ Restart
           \/ \E c \in Topics : ProcessFails(c) \/ CommitOffset(c) \/ CommitFails(c)
    PROVE  Passed'
<1>1. inbox' = inbox /\ dlq' = dlq
  BY LoopCloses DEF dbVars
<1>2. CASE Restart
  <2>1. /\ position' = [c \in Topics |-> committed[c] + 1]
        /\ reader' = [c \in Topics |-> Idle]
        /\ failed' = failed
    BY <1>2 DEF Restart
  <2>2. \A c \in Topics : 1 .. (position'[c] - 1) \subseteq 1 .. (position[c] - 1)
    BY <2>1 DEF Typed, TypeOK, Shape
  <2> QED
    BY <1>1, <2>1, <2>2 DEF Passed, Handled, Idle
<1>3. ASSUME NEW c \in Topics, ProcessFails(c) \/ CommitOffset(c) \/ CommitFails(c)
      PROVE  Passed'
  <2>1. /\ position' = [position EXCEPT ![c] = @ + 1]
        /\ reader' = [reader EXCEPT ![c] = Idle]
        /\ failed \subseteq failed'
        /\ <<c, position[c]>> \in failed' \/ reader[c].pc = "processed"
    BY <1>3 DEF ProcessFails, CommitOffset, CommitFails
  <2>2. /\ position[c] \in Nat /\ position'[c] = position[c] + 1
        /\ \A e \in Topics \ {c} : position'[e] = position[e] /\ reader'[e] = reader[e]
        /\ reader'[c].pc = "idle"
    BY <2>1 DEF Typed, TypeOK, Shape, Idle
  <2>3. Handled(c, position[c]) \/ <<c, position[c]>> \in failed'
    BY <2>1 DEF Passed
  <2>4. ASSUME NEW e \in Topics, NEW i \in 1 .. (position'[e] - 1)
        PROVE  Handled(e, i) \/ <<e, i>> \in failed'
    <3>1. i \in 1 .. (position[e] - 1) \/ (e = c /\ i = position[c])
      BY <2>2
    <3> QED
      BY <2>1, <2>3, <3>1 DEF Passed
  <2>5. \A e \in Topics : reader'[e].pc = "processed" => Handled(e, position'[e])
    BY <2>2 DEF Passed
  <2>6. \A e, i : Handled(e, i)' <=> Handled(e, i)
    BY <1>1 DEF Handled
  <2> QED
    BY <2>4, <2>5, <1>1 DEF Passed, Handled
<1> QED
  BY <1>2, <1>3

-----------------------------------------------------------------------------
(* Assembly *)

LEMMA InvariantInit == Init => IInv
<1> SUFFICES ASSUME Init PROVE IInv
  OBVIOUS
<1>1. Typed
  BY TypingInit
<1>2. OpenEvents /\ LocksHeld
  BY DEF Init, OpenEvents, LocksHeld, Open, Idle
<1>3. Passed
  BY DEF Init, Passed, Idle
<1>4. Applied = {}
  BY DEF Init, Applied
<1>5. EffectOnce
  BY <1>4 DEF Init, EffectOnce
<1>6. QueueFollowsProjection
  BY DEF Init, QueueFollowsProjection
<1> QED
  BY <1>1, <1>2, <1>3, <1>5, <1>6 DEF IInv

LEMMA InvariantStep == IInv /\ [Next]_vars => IInv'
<1> SUFFICES ASSUME IInv, [Next]_vars PROVE IInv'
  OBVIOUS
<1>1. Typed'
  BY TypingStep DEF IInv
<1>2. CASE UNCHANGED vars
  <2>1. OpenEvents' /\ LocksHeld' /\ Passed'
    BY <1>2 DEF vars, IInv, OpenEvents, LocksHeld, Passed, Open, Current, Handled
  <2>2. EffectOnce' /\ QueueFollowsProjection'
    BY <1>2 DEF vars, IInv, EffectOnce, Applied, Events, QueueFollowsProjection
  <2> QED
    BY <1>1, <2>1, <2>2 DEF IInv
<1>3. ASSUME NEW c \in Topics, Handle(c) PROVE IInv'
  BY <1>1, <1>3, OpenEventsHandle, LocksHeldHandle, PassedHandle, EffectOnceHandle, QueueHandle
     DEF IInv
<1>4. CASE Restart \/ \E c \in Topics : ProcessFails(c) \/ CommitOffset(c) \/ CommitFails(c)
  <2>1. OpenEvents' /\ LocksHeld' /\ Passed'
    BY <1>4, OpenEventsLoop, LocksHeldLoop, PassedLoop DEF IInv
  <2>2. UNCHANGED <<inbox, projection, queue, stale, effects>>
    BY <1>4, LoopCloses DEF dbVars, IInv
  <2>3. EffectOnce' /\ QueueFollowsProjection'
    BY <2>2 DEF IInv, EffectOnce, Applied, Events, QueueFollowsProjection
  <2> QED
    BY <1>1, <2>1, <2>3 DEF IInv
<1> QED
  BY <1>2, <1>3, <1>4 DEF Next

\* However often an event is redelivered, to whichever reader, it changes the
\* projection at most once, and its inbox row stands for one outcome.
THEOREM EffectsAreOnce == Spec => []EffectOnce
<1>1. IInv => EffectOnce
  BY DEF IInv
<1> QED
  BY <1>1, InvariantInit, InvariantStep, PTL DEF Spec

\* Whatever deliveries race, the operator queue agrees with the projection.
THEOREM QueueIsConsistent == Spec => []QueueFollowsProjection
<1>1. IInv => QueueFollowsProjection
  BY DEF IInv
<1> QED
  BY <1>1, InvariantInit, InvariantStep, PTL DEF Spec

\* The group's offset passes only messages that had an outcome or whose
\* transaction failed.
THEOREM LossNeedsFailure == Spec => []LostOnlyByFailure
<1>1. IInv => LostOnlyByFailure
  <2> SUFFICES ASSUME IInv PROVE LostOnlyByFailure
    OBVIOUS
  <2>1. \A c \in Topics : 1 .. committed[c] \subseteq 1 .. (position[c] - 1)
    BY DEF IInv, Typed, TypeOK, Shape
  <2> QED
    BY <2>1 DEF IInv, Passed, LostOnlyByFailure
<1> QED
  BY <1>1, InvariantInit, InvariantStep, PTL DEF Spec

\* A delivery that holds the row lock of its task never writes an older
\* version; only a delivery that found no row to lock can.
THEOREM LockedRowsAdvance == Spec => LockedNeverRegresses
<1> DEFINE A == \A t \in Tasks : projection[t] # NoRow =>
           \/ projection'[t].version >= projection[t].version
           \/ \E c \in Topics : /\ reader[c].pc = "unlocked"
                                /\ Current(c).task = t
                                /\ reader'[c].pc = "processed"
<1>1. IInv /\ [Next]_vars => [A]_vars
  <2> SUFFICES ASSUME IInv, Next, NEW t \in Tasks, projection[t] # NoRow
               PROVE  \/ projection'[t].version >= projection[t].version
                      \/ \E c \in Topics : /\ reader[c].pc = "unlocked"
                                           /\ Current(c).task = t
                                           /\ reader'[c].pc = "processed"
    OBVIOUS
  <2>1. projection[t].version \in Nat
    BY DEF IInv, Typed, TypeOK
  <2>2. CASE projection' = projection
    BY <2>1, <2>2
  <2>3. ASSUME NEW c \in Topics, Apply(c)
        PROVE  \/ projection'[t].version >= projection[t].version
               \/ reader[c].pc = "unlocked" /\ Current(c).task = t /\ reader'[c].pc = "processed"
    <3>1. /\ Current(c).task \in Tasks /\ Current(c).version \in Nat
          /\ reader'[c].pc = "processed"
      BY <2>3, HandleKeepsPlace, HandleReader DEF IInv, Handle, Apply, ReadVersion, Open
    <3>2. projection' = [projection EXCEPT ![Current(c).task] =
                [version |-> Current(c).version, status |-> Current(c).status]]
      BY <2>3 DEF Apply
    <3>3. CASE t # Current(c).task
      BY <2>1, <3>2, <3>3 DEF IInv, Typed, TypeOK
    <3>4. CASE t = Current(c).task /\ reader[c].pc = "locked"
      <4>1. projection'[t].version = Current(c).version
        BY <3>2, <3>4 DEF IInv, Typed, TypeOK
      <4>2. Current(c).version > projection[t].version
        BY <2>3, <3>4 DEF IInv, LocksHeld, Apply
      <4> QED
        BY <2>1, <3>1, <4>1, <4>2
    <3>5. CASE t = Current(c).task /\ reader[c].pc = "unlocked"
      BY <3>1, <3>5
    <3> QED
      BY <2>3, <3>3, <3>4, <3>5 DEF Apply
  <2> QED
    BY <2>2, <2>3 DEF Next, Handle, DeadLetter, Duplicate, ReadVersion, RecordStale, ProcessFails,
                      CommitOffset, CommitFails, Restart, dbVars
<1> QED
  BY <1>1, InvariantInit, InvariantStep, PTL DEF Spec, LockedNeverRegresses
=============================================================================
