--------------------------- MODULE TaskQueueProofs ---------------------------
(***************************************************************************)
(* Proofs about TaskQueue, for every set of tasks, keys, requests,         *)
(* dispatches, handlers and workers.                                       *)
(***************************************************************************)
EXTENDS TaskQueue, TLAPS

\* A handler at work serves a request; a handler or worker that has an event
\* to publish or mark has one that was committed.
Working ==
    /\ \A h \in Handlers : handler[h].pc # "idle" => handler[h].req \in Requests
    /\ \A h \in Handlers : handler[h].pc \in {"publish", "mark"} => handler[h].event \in Events
    /\ \A w \in Workers : worker[w].step # "pick" => worker[w].event \in Events

\* What a request looks like.
LEMMA RequestTyped ==
    ASSUME NEW r \in Requests
    PROVE  /\ r.key \in Keys
           /\ r.kind \in {"CLAIM", "RELEASE"}
           /\ r.task \in Tasks
           /\ r.operator \in Operators
           /\ r.base \in Nat
           /\ r.foreign \in BOOLEAN
  BY QueueAssumption DEF RequestType

\* The rows that claim and release write are rows of the queue.
LEMMA RowsTyped ==
    ASSUME TypeOK, NEW r \in Requests, Current(r)
    PROVE  ClaimedRow(r) \in Row /\ ReleasedRow(r) \in Row
<1>1. queue[r.task] \in Row
  BY RequestTyped DEF TypeOK, Current
<1> QED
  BY <1>1, RequestTyped DEF ClaimedRow, ReleasedRow, Row, Statuses

\* What appending an event does to the outbox.
LEMMA Appended ==
    ASSUME NEW s \in Seq(Event), NEW e \in Event
    PROVE  /\ Append(s, e) \in Seq(Event)
           /\ Len(s) \in Nat
           /\ DOMAIN s = 1 .. Len(s)
           /\ DOMAIN Append(s, e) = DOMAIN s \union {Len(s) + 1}
           /\ Len(s) + 1 \notin DOMAIN s
           /\ \A i \in DOMAIN s : Append(s, e)[i] = s[i]
           /\ Append(s, e)[Len(s) + 1] = e
  OBVIOUS

\* What the commit of a claim or release does, apart from typing.
LEMMA CommitStep ==
    ASSUME TypeOK, Working, NEW h \in Handlers, handler[h].pc = "locked",
           NEW row \in Row, Commit(h, row)
    PROVE  /\ handler[h].req \in Requests
           /\ Len(outbox) \in Nat
           /\ Events = 1 .. Len(outbox)
           /\ Events' = Events \union {Len(outbox) + 1}
           /\ Len(outbox) + 1 \notin Events
           /\ \A i \in Events : outbox'[i] = outbox[i]
           /\ outbox'[Len(outbox) + 1] =
                  [task |-> handler[h].req.task, row |-> row, key |-> handler[h].req.key]
           /\ outbox' \in Seq(Event)
<1>1. handler[h].req \in Requests
  BY DEF Working
<1>2. [task |-> handler[h].req.task, row |-> row, key |-> handler[h].req.key] \in Event
  BY <1>1, RequestTyped DEF Event
<1>3. outbox \in Seq(Event)
  BY DEF TypeOK
<1>4. outbox' = Append(outbox, [task |-> handler[h].req.task, row |-> row,
                                key |-> handler[h].req.key])
  BY DEF Commit
<1> QED
  BY <1>1, <1>2, <1>3, <1>4, Appended DEF Events

\* A commit keeps the types.
LEMMA CommitTyped ==
    ASSUME TypeOK, Working, NEW h \in Handlers, handler[h].pc = "locked",
           NEW row \in Row, Commit(h, row)
    PROVE  TypeOK' /\ Working'
<1> DEFINE r == handler[h].req
           n == Len(outbox) + 1
<1>1. r \in Requests /\ Events' = Events \union {n} /\ outbox' \in Seq(Event)
  BY CommitStep
<1>2. queue' \in [Tasks -> Row \union {NoRow}]
  BY <1>1, RequestTyped DEF Commit, TypeOK
<1>3. results' \in [Keys -> [task : Tasks, row : Row] \union {NoResult}]
  BY <1>1, RequestTyped DEF Commit, TypeOK
<1>4. marked' \subseteq Events' /\ due' \subseteq Events' /\ topic' \subseteq Events'
  BY <1>1 DEF Commit, TypeOK
<1>5. handler' = [handler EXCEPT ![h] = [pc |-> "publish", req |-> r, event |-> n]]
  BY DEF Commit, TypeOK
<1>6. handler' \in [Handlers -> [pc : {"idle", "locked", "publish", "mark"},
                                 req : Requests \union {NoRequest},
                                 event : Events' \union {0}]]
  BY <1>1, <1>5 DEF TypeOK
<1>7. worker' \in [Workers -> [batch : SUBSET Events', event : Events' \union {0},
                               step : {"pick", "publish", "mark", "failed"}]]
  BY <1>1 DEF Commit, TypeOK
<1>8. faults' \in 0 .. MaxFaults
  BY DEF Commit, TypeOK
<1>9. TypeOK'
  BY <1>1, <1>2, <1>3, <1>4, <1>6, <1>7, <1>8 DEF TypeOK
<1>10. Working'
  BY <1>1, <1>5 DEF Commit, Working, TypeOK
<1> QED
  BY <1>9, <1>10

\* The commits among the steps.
LEMMA ClaimCommits ==
    ASSUME TypeOK, Working, NEW h \in Handlers, Claim(h) \/ Release(h)
    PROVE  /\ handler[h].pc = "locked"
           /\ Current(handler[h].req)
           /\ \E row \in Row : Commit(h, row)
<1>1. handler[h].pc = "locked" /\ Current(handler[h].req)
  BY DEF Claim, Release, Claimable, Releasable
<1>2. handler[h].req \in Requests
  BY <1>1 DEF Working
<1>3. /\ ClaimedRow(handler[h].req) \in Row
      /\ ReleasedRow(handler[h].req) \in Row
  BY <1>1, <1>2, RowsTyped
<1>4. Commit(h, ClaimedRow(handler[h].req)) \/ Commit(h, ReleasedRow(handler[h].req))
  BY DEF Claim, Release
<1> QED
  BY <1>1, <1>3, <1>4

\* The steps that only move a handler: what they keep.
LEMMA HandlerTyped ==
    ASSUME TypeOK, Working, NEW h \in Handlers,
           PublishInline(h) \/ MarkInline(h) \/ Abort(h) \/ Refuse(h)
    PROVE  TypeOK' /\ Working'
<1>1. CASE PublishInline(h)
  BY <1>1 DEF PublishInline, TypeOK, Working, Events, commitVars
<1>2. CASE MarkInline(h)
  BY <1>2 DEF MarkInline, TypeOK, Working, Events, commitVars, IdleHandler
<1>3. CASE Abort(h)
  <2>1. faults' \in 0 .. MaxFaults
    BY <1>3, QueueAssumption DEF Abort, Fault, TypeOK
  <2>2. topic' \subseteq Events
    BY <1>3 DEF Abort, TypeOK, Working
  <2> QED
    BY <1>3, <2>1, <2>2 DEF Abort, TypeOK, Working, Events, commitVars, IdleHandler
<1>4. CASE Refuse(h)
  BY <1>4 DEF Refuse, TypeOK, Working, Events, commitVars, deliveryVars, IdleHandler
<1> QED
  BY <1>1, <1>2, <1>3, <1>4

\* A worker that goes on with its event keeps its types.
LEMMA StepTyped ==
    ASSUME TypeOK, Working, NEW w \in Workers, worker[w].step # "pick",
           NEW s \in {"mark", "failed"}, worker' = [worker EXCEPT ![w].step = s]
    PROVE  /\ worker[w].event \in Events
           /\ worker' \in [Workers -> [batch : SUBSET Events, event : Events \union {0},
                                       step : {"pick", "publish", "mark", "failed"}]]
           /\ \A v \in Workers : worker'[v].step # "pick" => worker'[v].event \in Events
<1>1. worker[w] \in [batch : SUBSET Events, event : Events \union {0},
                     step : {"pick", "publish", "mark", "failed"}]
  BY DEF TypeOK
<1>2. [worker[w] EXCEPT !.step = s]
          = [batch |-> worker[w].batch, event |-> worker[w].event, step |-> s]
  BY <1>1
<1>3. \A v \in Workers :
          worker'[v] = IF v = w
                       THEN [batch |-> worker[w].batch, event |-> worker[w].event, step |-> s]
                       ELSE worker[v]
  BY <1>2 DEF TypeOK
<1> QED
  BY <1>1, <1>3 DEF TypeOK, Working

\* The steps of a worker keep the types.
LEMMA WorkerTyped ==
    ASSUME TypeOK, Working, NEW w \in Workers, WorkerStep(w)
    PROVE  TypeOK' /\ Working'
<1>1. ASSUME NEW skipped \in SUBSET Pending, ClaimPending(w, skipped)
      PROVE  TypeOK' /\ Working'
  <2> DEFINE open == Pending \ skipped
             batch == {e \in open : Cardinality({x \in open : x < e}) < BatchSize}
  <2>1. batch \subseteq Events
    BY DEF Pending
  <2> HIDE DEF batch
  <2>2. /\ worker' = [worker EXCEPT ![w] = [batch |-> batch, event |-> 0, step |-> "pick"]]
        /\ UNCHANGED <<commitVars, marked, due, topic, handler, faults>>
    BY <1>1 DEF ClaimPending, batch
  <2> QED
    BY <2>1, <2>2 DEF TypeOK, Working, Events, commitVars
<1>2. ASSUME NEW e \in Events, Pick(w, e) PROVE TypeOK' /\ Working'
  BY <1>2 DEF Pick, TypeOK, Working, Events, commitVars
<1>3. CASE PublishEvent(w)
  <2>1. UNCHANGED <<queue, results, outbox, marked, due, handler, faults>> /\ Events' = Events
    BY <1>3 DEF PublishEvent, commitVars, Events
  <2>2. /\ worker[w].step # "pick"
        /\ worker' = [worker EXCEPT ![w].step = "mark"]
        /\ topic' = topic \union {worker[w].event}
    BY <1>3 DEF PublishEvent
  <2> QED
    BY <2>1, <2>2, StepTyped DEF TypeOK, Working
<1>4. CASE PublishFails(w)
  <2>1. faults' \in 0 .. MaxFaults
    BY <1>4, QueueAssumption DEF PublishFails, Fault, TypeOK
  <2>2. UNCHANGED <<queue, results, outbox, marked, due, handler>> /\ Events' = Events
    BY <1>4 DEF PublishFails, commitVars, Events
  <2>3. /\ worker[w].step # "pick"
        /\ worker' = [worker EXCEPT ![w].step = "failed"]
        /\ topic' \in {topic, topic \union {worker[w].event}}
    BY <1>4 DEF PublishFails
  <2> QED
    BY <2>1, <2>2, <2>3, StepTyped DEF TypeOK, Working
<1>5. CASE MarkPublished(w)
  BY <1>5 DEF MarkPublished, NextEvent, TypeOK, Working, Events, commitVars
<1>6. CASE MarkFailed(w)
  BY <1>6 DEF MarkFailed, NextEvent, TypeOK, Working, Events, commitVars
<1>7. CASE DropBatch(w)
  <2>1. faults' \in 0 .. MaxFaults
    BY <1>7, QueueAssumption DEF DropBatch, Fault, TypeOK
  <2> QED
    BY <1>7, <2>1 DEF DropBatch, RestingWorker, TypeOK, Working, Events, commitVars
<1> QED
  BY <1>1, <1>2, <1>3, <1>4, <1>5, <1>6, <1>7 DEF WorkerStep

\* TypeOK and Working are preserved by every step.
LEMMA TypingStep == TypeOK /\ Working /\ [Next]_vars => TypeOK' /\ Working'
<1> SUFFICES ASSUME TypeOK, Working, [Next]_vars PROVE TypeOK' /\ Working'
  OBVIOUS
<1>1. ASSUME NEW d \in Dispatches, Dispatch(d) PROVE TypeOK' /\ Working'
  <2>1. d.task \in Tasks /\ d.row \in Row
    BY QueueAssumption DEF DispatchType
  <2>2. Synced(d) \in Row
    BY <2>1 DEF Synced, TypeOK, Row
  <2>3. queue' \in [Tasks -> Row \union {NoRow}]
    BY <1>1, <2>1, <2>2 DEF Dispatch, TypeOK
  <2> QED
    BY <1>1, <2>3 DEF Dispatch, TypeOK, Working, Events, deliveryVars
<1>2. ASSUME NEW h \in Handlers, NEW r \in Requests, Lookup(h, r) PROVE TypeOK' /\ Working'
  BY <1>2 DEF Lookup, TypeOK, Working, Events, commitVars, deliveryVars
<1>3. ASSUME NEW h \in Handlers, Claim(h) \/ Release(h) PROVE TypeOK' /\ Working'
  BY <1>3, ClaimCommits, CommitTyped
<1>4. ASSUME NEW h \in Handlers, ClaimAgain(h) PROVE TypeOK' /\ Working'
  <2>1. handler[h].req \in Requests /\ queue[handler[h].req.task] # NoRow
    BY <1>4 DEF ClaimAgain, Working, Claimable, Current
  <2>2. results' \in [Keys -> [task : Tasks, row : Row] \union {NoResult}]
    BY <1>4, <2>1, RequestTyped DEF ClaimAgain, TypeOK
  <2> QED
    BY <1>4, <2>2 DEF ClaimAgain, TypeOK, Working, Events, deliveryVars, IdleHandler
<1>5. ASSUME NEW h \in Handlers, PublishInline(h) \/ MarkInline(h) \/ Abort(h) \/ Refuse(h)
      PROVE  TypeOK' /\ Working'
  BY <1>5, HandlerTyped
<1>6. ASSUME NEW e \in Events, BackoffEnds(e) PROVE TypeOK' /\ Working'
  BY <1>6 DEF BackoffEnds, TypeOK, Working, Events, commitVars
<1>7. CASE UNCHANGED vars
  BY <1>7 DEF vars, TypeOK, Working, Events
<1> QED
  BY <1>1, <1>2, <1>3, <1>4, <1>5, <1>6, <1>7, WorkerTyped DEF Next

\* The initial state is well-typed and nobody is at work.
LEMMA TypingInit == Init => TypeOK /\ Working
<1> SUFFICES ASSUME Init PROVE TypeOK /\ Working
  OBVIOUS
<1>1. outbox \in Seq(Event) /\ 0 \in 0 .. MaxFaults
  BY QueueAssumption DEF Init
<1> QED
  BY <1>1 DEF Init, TypeOK, Working, IdleHandler, RestingWorker

\* Every reachable state of queue, outbox, requests and workers is well-typed.
THEOREM TypeCorrect == Spec => []TypeOK
<1>1. TypeOK /\ Working /\ [Next]_vars => (TypeOK /\ Working)'
  BY TypingStep
<1> QED
  BY <1>1, TypingInit, PTL DEF Spec

-----------------------------------------------------------------------------
(* Marked events are in Kafka *)

\* Whoever is about to mark an event has written it.
Sent == /\ \A h \in Handlers : handler[h].pc = "mark" => handler[h].event \in topic
        /\ \A w \in Workers : worker[w].step = "mark" => worker[w].event \in topic

\* Sent and MarkedIsPublished are preserved by every step.
LEMMA SentStep ==
    TypeOK /\ Sent /\ MarkedIsPublished /\ [Next]_vars => Sent' /\ MarkedIsPublished'
<1> SUFFICES ASSUME TypeOK, Sent, MarkedIsPublished, [Next]_vars
             PROVE  Sent' /\ MarkedIsPublished'
  OBVIOUS
<1> USE DEF Sent, MarkedIsPublished, TypeOK, commitVars, deliveryVars
<1>1. ASSUME NEW d \in Dispatches, Dispatch(d) PROVE Sent' /\ MarkedIsPublished'
  BY <1>1 DEF Dispatch
<1>2. ASSUME NEW h \in Handlers, NEW r \in Requests, Lookup(h, r)
      PROVE  Sent' /\ MarkedIsPublished'
  BY <1>2 DEF Lookup
<1>3. ASSUME NEW h \in Handlers, NEW row, Commit(h, row) PROVE Sent' /\ MarkedIsPublished'
  BY <1>3 DEF Commit
<1>4. ASSUME NEW h \in Handlers, ClaimAgain(h) \/ Refuse(h) PROVE Sent' /\ MarkedIsPublished'
  <2>1. CASE ClaimAgain(h)  BY <2>1 DEF ClaimAgain, IdleHandler
  <2>2. CASE Refuse(h)  BY <2>2 DEF Refuse, IdleHandler
  <2> QED  BY <1>4, <2>1, <2>2
<1>5. ASSUME NEW h \in Handlers, PublishInline(h) PROVE Sent' /\ MarkedIsPublished'
  BY <1>5 DEF PublishInline
<1>6. ASSUME NEW h \in Handlers, MarkInline(h) \/ Abort(h) PROVE Sent' /\ MarkedIsPublished'
  <2>1. CASE MarkInline(h)  BY <2>1 DEF MarkInline, IdleHandler
  <2>2. CASE Abort(h)  BY <2>2 DEF Abort, IdleHandler
  <2> QED  BY <1>6, <2>1, <2>2
<1>7. ASSUME NEW w \in Workers, NEW skipped, ClaimPending(w, skipped)
      PROVE  Sent' /\ MarkedIsPublished'
  BY <1>7 DEF ClaimPending
<1>8. ASSUME NEW w \in Workers, NEW e \in Events, Pick(w, e) PROVE Sent' /\ MarkedIsPublished'
  BY <1>8 DEF Pick
<1>9. ASSUME NEW w \in Workers, PublishEvent(w) \/ PublishFails(w)
      PROVE  Sent' /\ MarkedIsPublished'
  <2>1. CASE PublishEvent(w)  BY <2>1 DEF PublishEvent
  <2>2. CASE PublishFails(w)  BY <2>2 DEF PublishFails
  <2> QED  BY <1>9, <2>1, <2>2
<1>10. ASSUME NEW w \in Workers, MarkPublished(w) \/ MarkFailed(w) \/ DropBatch(w)
       PROVE  Sent' /\ MarkedIsPublished'
  <2>1. CASE MarkPublished(w)  BY <2>1 DEF MarkPublished, NextEvent
  <2>2. CASE MarkFailed(w)  BY <2>2 DEF MarkFailed, NextEvent
  <2>3. CASE DropBatch(w)  BY <2>3 DEF DropBatch, RestingWorker
  <2> QED  BY <1>10, <2>1, <2>2, <2>3
<1>11. ASSUME NEW e \in Events, BackoffEnds(e) PROVE Sent' /\ MarkedIsPublished'
  BY <1>11 DEF BackoffEnds
<1>12. CASE UNCHANGED vars
  BY <1>12 DEF vars
<1> QED
  BY <1>1, <1>2, <1>3, <1>4, <1>5, <1>6, <1>7, <1>8, <1>9, <1>10, <1>11, <1>12
     DEF Next, WorkerStep, Claim, Release

\* An event is marked as published only when Kafka has it, for any number of
\* requests and workers that publish the same events, and any faults.
THEOREM MarkedEventsArePublished == Spec => []MarkedIsPublished
<1>1. Init => Sent /\ MarkedIsPublished
  BY DEF Init, Sent, MarkedIsPublished, IdleHandler, RestingWorker
<1>2. TypeOK /\ Sent /\ MarkedIsPublished /\ [Next]_vars => (Sent /\ MarkedIsPublished)'
  BY SentStep
<1> QED
  BY <1>1, <1>2, TypeCorrect, PTL DEF Spec

-----------------------------------------------------------------------------
(* One event per key *)

\* The advisory lock: a key that is being worked on has no result yet, and
\* only one transaction works on it.
KeysExclusive ==
    \A h \in Handlers : handler[h].pc = "locked" =>
        /\ results[handler[h].req.key] = NoResult
        /\ \A g \in Handlers : /\ handler[g].pc = "locked"
                               /\ handler[g].req.key = handler[h].req.key
                               => g = h

\* Steps that leave results and outbox alone and lock no key.
LEMMA KeysKept ==
    ASSUME TypeOK, KeysExclusive, OneEventPerKey, results' = results, outbox' = outbox,
           \A h \in Handlers : handler'[h].pc = "locked" => handler'[h] = handler[h]
    PROVE  KeysExclusive' /\ OneEventPerKey'
  BY DEF KeysExclusive, OneEventPerKey, Events

\* Of the steps only lookups and commits touch keys.
LEMMA QuietSteps ==
    ASSUME TypeOK,
           \/ \E d \in Dispatches : Dispatch(d)
           \/ \E h \in Handlers : Refuse(h) \/ PublishInline(h) \/ MarkInline(h) \/ Abort(h)
           \/ \E w \in Workers : WorkerStep(w)
           \/ \E e \in Events : BackoffEnds(e)
           \/ UNCHANGED vars
    PROVE  /\ results' = results
           /\ outbox' = outbox
           /\ \A h \in Handlers : handler'[h].pc = "locked" => handler'[h] = handler[h]
           /\ queue' = queue \/ \E d \in Dispatches : Dispatch(d)
<1> DEFINE Goal == /\ results' = results
                   /\ outbox' = outbox
                   /\ \A h \in Handlers : handler'[h].pc = "locked" => handler'[h] = handler[h]
                   /\ queue' = queue \/ \E d \in Dispatches : Dispatch(d)
<1> SUFFICES Goal
  OBVIOUS
<1>1. CASE \E d \in Dispatches : Dispatch(d)
  BY <1>1 DEF Dispatch, TypeOK
<1>2. CASE \E h \in Handlers : Refuse(h) \/ PublishInline(h) \/ MarkInline(h) \/ Abort(h)
  BY <1>2 DEF Refuse, PublishInline, MarkInline, Abort, IdleHandler,
              TypeOK, commitVars, deliveryVars
<1>3. CASE \E w \in Workers : WorkerStep(w)
  BY <1>3 DEF WorkerStep, ClaimPending, Pick, PublishEvent, PublishFails, MarkPublished, MarkFailed,
              DropBatch, commitVars
<1>4. CASE \E e \in Events : BackoffEnds(e)
  BY <1>4 DEF BackoffEnds, commitVars
<1>5. CASE UNCHANGED vars
  BY <1>5 DEF vars
<1> HIDE DEF Goal
<1> QED
  BY <1>1, <1>2, <1>3, <1>4, <1>5

\* KeysExclusive and OneEventPerKey are preserved by every step.
LEMMA KeysStep ==
    TypeOK /\ Working /\ KeysExclusive /\ OneEventPerKey /\ [Next]_vars
        => KeysExclusive' /\ OneEventPerKey'
<1> SUFFICES ASSUME TypeOK, Working, KeysExclusive, OneEventPerKey, [Next]_vars
             PROVE  KeysExclusive' /\ OneEventPerKey'
  OBVIOUS
<1>1. ASSUME NEW h \in Handlers, NEW r \in Requests, Lookup(h, r)
      PROVE  KeysExclusive' /\ OneEventPerKey'
  <2>1. /\ handler' = [handler EXCEPT ![h] = [pc |-> "locked", req |-> r, event |-> 0]]
        /\ results' = results /\ outbox' = outbox
        /\ results[r.key] = NoResult
        /\ \A g \in Handlers : ~(handler[g].pc = "locked" /\ handler[g].req.key = r.key)
    BY <1>1 DEF Lookup, KeyLocked, commitVars
  <2>2. OneEventPerKey'
    BY <2>1 DEF OneEventPerKey, Events
  <2>3. KeysExclusive'
    BY <2>1 DEF KeysExclusive, TypeOK
  <2> QED
    BY <2>2, <2>3
<1>2. ASSUME NEW h \in Handlers, Claim(h) \/ Release(h)
      PROVE  KeysExclusive' /\ OneEventPerKey'
  <2> DEFINE r == handler[h].req
             n == Len(outbox) + 1
  <2>1. handler[h].pc = "locked" /\ \E row \in Row : Commit(h, row)
    BY <1>2, ClaimCommits
  <2>2. PICK row \in Row : Commit(h, row)
    BY <2>1
  <2>3. /\ r \in Requests
        /\ Events' = Events \union {n}
        /\ n \notin Events
        /\ \A i \in Events : outbox'[i] = outbox[i]
        /\ outbox'[n] = [task |-> r.task, row |-> row, key |-> r.key]
    BY <2>1, <2>2, CommitStep
  <2>4. /\ results' = [results EXCEPT ![r.key] = [task |-> r.task, row |-> row]]
        /\ handler' = [handler EXCEPT ![h] = [pc |-> "publish", req |-> r, event |-> n]]
    BY <2>2 DEF Commit
  <2>5. results[r.key] = NoResult
    BY <2>1 DEF KeysExclusive
  <2>6. \A i \in Events : outbox[i] \in Event
    BY DEF TypeOK, Events
  <2>7. \A i \in Events : outbox[i].key # r.key
    <3> SUFFICES ASSUME NEW i \in Events, outbox[i].key = r.key PROVE FALSE
      OBVIOUS
    <3>1. results[r.key] = [task |-> outbox[i].task, row |-> outbox[i].row]
      BY DEF OneEventPerKey
    <3>2. [task |-> outbox[i].task, row |-> outbox[i].row] \in [task : Tasks, row : Row]
      BY <2>6 DEF Event
    <3> QED
      BY <2>5, <3>1, <3>2, QueueAssumption
  <2>8. OneEventPerKey'
    <3>1. ASSUME NEW i \in Events', NEW j \in Events', outbox'[i].key = outbox'[j].key
          PROVE  i = j
      BY <2>3, <2>7, <3>1 DEF OneEventPerKey
    <3>2. ASSUME NEW i \in Events'
          PROVE  results'[outbox'[i].key] = [task |-> outbox'[i].task, row |-> outbox'[i].row]
      <4>1. CASE i = n
        BY <2>3, <2>4, <4>1, RequestTyped DEF TypeOK
      <4>2. CASE i \in Events
        <5>1. outbox'[i] = outbox[i] /\ outbox[i].key # r.key /\ outbox[i].key \in Keys
          BY <2>3, <2>6, <2>7, <4>2 DEF Event
        <5>2. results'[outbox[i].key] = results[outbox[i].key]
          BY <2>4, <5>1 DEF TypeOK
        <5> QED
          BY <4>2, <5>1, <5>2 DEF OneEventPerKey
      <4> QED
        BY <2>3, <4>1, <4>2
    <3> QED
      BY <3>1, <3>2 DEF OneEventPerKey
  <2>9. KeysExclusive'
    <3> SUFFICES ASSUME NEW g \in Handlers, handler'[g].pc = "locked"
                 PROVE  /\ g # h
                        /\ handler'[g] = handler[g]
                        /\ results'[handler[g].req.key] = NoResult
      BY <2>4 DEF KeysExclusive, TypeOK
    <3>1. g # h /\ handler'[g] = handler[g] /\ handler[g].pc = "locked"
      BY <2>4 DEF TypeOK
    <3>2. handler[g].req.key # r.key
      BY <2>1, <3>1 DEF KeysExclusive
    <3>3. handler[g].req.key \in Keys
      BY <3>1, RequestTyped DEF Working
    <3> QED
      BY <2>4, <3>1, <3>2, <3>3 DEF KeysExclusive, TypeOK
  <2> QED
    BY <2>8, <2>9
<1>3. ASSUME NEW h \in Handlers, ClaimAgain(h) PROVE KeysExclusive' /\ OneEventPerKey'
  <2> DEFINE r == handler[h].req
             res == [task |-> r.task, row |-> queue[r.task]]
  <2>1. /\ handler[h].pc = "locked"
        /\ results' = [results EXCEPT ![r.key] = res]
        /\ handler' = [handler EXCEPT ![h] = IdleHandler]
        /\ outbox' = outbox
    BY <1>3 DEF ClaimAgain
  <2> HIDE DEF res
  <2>2. results[r.key] = NoResult
    BY <2>1 DEF KeysExclusive
  <2>3. \A i \in Events : outbox[i] \in Event
    BY DEF TypeOK, Events
  <2>4. \A i \in Events : outbox[i].key # r.key
    <3> SUFFICES ASSUME NEW i \in Events, outbox[i].key = r.key PROVE FALSE
      OBVIOUS
    <3>1. results[r.key] = [task |-> outbox[i].task, row |-> outbox[i].row]
      BY DEF OneEventPerKey
    <3>2. [task |-> outbox[i].task, row |-> outbox[i].row] \in [task : Tasks, row : Row]
      BY <2>3 DEF Event
    <3> QED
      BY <2>2, <3>1, <3>2, QueueAssumption
  <2>5. \A i \in Events : results'[outbox[i].key] = results[outbox[i].key]
    BY <2>1, <2>3, <2>4 DEF TypeOK, Event
  <2>6. OneEventPerKey'
    BY <2>1, <2>5 DEF OneEventPerKey, Events
  <2>7. KeysExclusive'
    <3> SUFFICES ASSUME NEW g \in Handlers, handler'[g].pc = "locked"
                 PROVE  /\ g # h
                        /\ handler'[g] = handler[g]
                        /\ results'[handler[g].req.key] = NoResult
      BY <2>1 DEF KeysExclusive, TypeOK
    <3>1. g # h /\ handler'[g] = handler[g] /\ handler[g].pc = "locked"
      BY <2>1 DEF TypeOK, IdleHandler
    <3>2. handler[g].req.key # r.key
      BY <2>1, <3>1 DEF KeysExclusive
    <3>3. handler[g].req.key \in Keys
      BY <3>1, RequestTyped DEF Working
    <3> QED
      BY <2>1, <3>1, <3>2, <3>3 DEF KeysExclusive, TypeOK
  <2> QED
    BY <2>6, <2>7
<1>4. \/ \E h \in Handlers, r \in Requests : Lookup(h, r)
      \/ \E h \in Handlers : Claim(h) \/ Release(h)
      \/ \E h \in Handlers : ClaimAgain(h)
      \/ /\ results' = results
         /\ outbox' = outbox
         /\ \A h \in Handlers : handler'[h].pc = "locked" => handler'[h] = handler[h]
  BY QuietSteps DEF Next
<1> QED
  BY <1>1, <1>2, <1>3, <1>4, KeysKept

\* A key causes at most one event, and its stored result is what that event
\* announced, however the copies of a command overlap.
THEOREM KeysHaveOneEvent == Spec => []OneEventPerKey
<1>1. Init => KeysExclusive /\ OneEventPerKey
  BY DEF Init, KeysExclusive, OneEventPerKey, Events, IdleHandler
<1>2. /\ Init => TypeOK /\ Working
      /\ TypeOK /\ Working /\ [Next]_vars => (TypeOK /\ Working)'
  BY TypingInit, TypingStep
<1>3. TypeOK /\ Working /\ KeysExclusive /\ OneEventPerKey /\ [Next]_vars
          => (KeysExclusive /\ OneEventPerKey)'
  BY KeysStep
<1> QED
  BY <1>1, <1>2, <1>3, PTL DEF Spec

-----------------------------------------------------------------------------
(* The rows of the queue *)

\* What each step does to the rows: nothing, a dispatch, or a commit.
LEMMA RowSteps ==
    ASSUME TypeOK, Working, [Next]_vars
    PROVE  \/ queue' = queue /\ outbox' = outbox
           \/ \E d \in Dispatches : Dispatch(d)
           \/ \E h \in Handlers : Claim(h) \/ Release(h)
<1>1. ASSUME NEW h \in Handlers, NEW r \in Requests, Lookup(h, r)
      PROVE  queue' = queue /\ outbox' = outbox
  BY <1>1 DEF Lookup, commitVars
<1>2. ASSUME NEW h \in Handlers, ClaimAgain(h) PROVE queue' = queue /\ outbox' = outbox
  BY <1>2 DEF ClaimAgain
<1> QED
  BY <1>1, <1>2, QuietSteps DEF Next

\* QueueMatchesEvents is preserved by every step.
LEMMA MatchStep ==
    TypeOK /\ Working /\ QueueMatchesEvents /\ [Next]_vars => QueueMatchesEvents'
<1> SUFFICES ASSUME TypeOK, Working, QueueMatchesEvents, [Next]_vars
             PROVE  QueueMatchesEvents'
  OBVIOUS
<1>1. CASE queue' = queue /\ outbox' = outbox
  BY <1>1 DEF QueueMatchesEvents, IsLatest, Events
<1>2. ASSUME NEW d \in Dispatches, Dispatch(d) PROVE QueueMatchesEvents'
  <2>1. d.task \in Tasks /\ d.row \in Row
    BY QueueAssumption DEF DispatchType
  <2>2. Synced(d).version = d.row.version /\ Synced(d).status = d.row.status
    BY <2>1 DEF Synced, Row
  <2>3. /\ queue' = [queue EXCEPT ![d.task] = IF d.withdrawn THEN NoRow ELSE Synced(d)]
        /\ outbox' = outbox
    BY <1>2 DEF Dispatch
  <2>4. ASSUME NEW t \in Tasks, queue'[t] # NoRow, t = d.task
        PROVE  /\ ~d.withdrawn
               /\ queue'[t].version = d.row.version
               /\ queue'[t].status = d.row.status
    BY <2>1, <2>2, <2>3, <2>4 DEF TypeOK
  <2>5. ASSUME NEW t \in Tasks, t # d.task PROVE queue'[t] = queue[t]
    BY <2>3, <2>5 DEF TypeOK
  <2> QED
    BY <2>3, <2>4, <2>5 DEF QueueMatchesEvents, IsLatest, Events
<1>3. ASSUME NEW h \in Handlers, Claim(h) \/ Release(h) PROVE QueueMatchesEvents'
  <2> DEFINE r == handler[h].req
  <2>1. handler[h].pc = "locked" /\ \E row \in Row : Commit(h, row)
    BY <1>3, ClaimCommits
  <2>2. PICK row \in Row : Commit(h, row)
    BY <2>1
  <2>0. PICK n : n = Len(outbox) + 1
    OBVIOUS
  <2>3. /\ r \in Requests
        /\ n \in Nat
        /\ \A i \in Events : i <= n
        /\ Events' = Events \union {n}
        /\ \A i \in Events : outbox'[i] = outbox[i]
        /\ outbox'[n] = [task |-> r.task, row |-> row, key |-> r.key]
    BY <2>0, <2>1, <2>2, CommitStep
  <2>4. queue' = [queue EXCEPT ![r.task] = row]
    BY <2>2 DEF Commit
  <2> SUFFICES ASSUME NEW t \in Tasks, queue'[t] # NoRow
               PROVE  (\/ \E i \in Events : /\ outbox[i].task = t
                                            /\ outbox[i].row = queue[t]
                                            /\ IsLatest(i)
                       \/ \E d \in Dispatches : /\ d.task = t
                                                /\ ~d.withdrawn
                                                /\ queue[t].version = d.row.version
                                                /\ queue[t].status = d.row.status)'
    BY DEF QueueMatchesEvents
  <2>5. CASE t = r.task
    <3>1. n \in Events' /\ outbox'[n].task = t /\ outbox'[n].row = queue'[t]
      BY <2>3, <2>4, <2>5, RequestTyped DEF TypeOK
    <3>2. IsLatest(n)'
      BY <2>3 DEF IsLatest
    <3> QED
      BY <3>1, <3>2
  <2>6. CASE t # r.task
    <3>1. queue'[t] = queue[t]
      BY <2>4, <2>6 DEF TypeOK
    <3>2. ASSUME NEW i \in Events, outbox[i].task = t, IsLatest(i)
          PROVE  i \in Events' /\ outbox'[i] = outbox[i] /\ IsLatest(i)'
      BY <2>3, <2>6, <3>2 DEF IsLatest
    <3> QED
      BY <3>1, <3>2 DEF QueueMatchesEvents
  <2> QED
    BY <2>5, <2>6
<1> QED
  BY <1>1, <1>2, <1>3, RowSteps

\* The row of a task is what its latest event says or what WMS dispatched.
THEOREM EventsExplainTheQueue == Spec => []QueueMatchesEvents
<1>1. Init => QueueMatchesEvents
  BY DEF Init, QueueMatchesEvents
<1>2. /\ Init => TypeOK /\ Working
      /\ TypeOK /\ Working /\ [Next]_vars => (TypeOK /\ Working)'
  BY TypingInit, TypingStep
<1>3. TypeOK /\ Working /\ QueueMatchesEvents /\ [Next]_vars => QueueMatchesEvents'
  BY MatchStep
<1> QED
  BY <1>1, <1>2, <1>3, PTL DEF Spec

\* The operator of a task changes only by that operator's release or by WMS.
LEMMA OwnerStep ==
    ASSUME TypeOK, Working, [Next]_vars, NEW t \in Tasks, NEW o \in Operators,
           queue[t] # NoRow, queue[t].operator = o,
           queue'[t] # NoRow, queue'[t].operator # o
    PROVE  \/ \E d \in Dispatches : d.task = t /\ queue'[t] = d.row
           \/ \E h \in Handlers : /\ handler[h].req # NoRequest
                                  /\ handler[h].req.kind = "RELEASE"
                                  /\ handler[h].req.task = t
                                  /\ handler[h].req.operator = o
                                  /\ handler'[h].pc = "publish"
<1>1. CASE queue' = queue /\ outbox' = outbox
  BY <1>1
<1>2. ASSUME NEW d \in Dispatches, Dispatch(d) PROVE d.task = t /\ queue'[t] = d.row
  <2>1. d.task \in Tasks /\ d.row \in Row
    BY QueueAssumption DEF DispatchType
  <2>2. queue' = [queue EXCEPT ![d.task] = IF d.withdrawn THEN NoRow ELSE Synced(d)]
    BY <1>2 DEF Dispatch
  <2>3. d.task = t /\ queue'[t] = Synced(d)
    BY <2>1, <2>2 DEF TypeOK
  <2>4. CASE d.row.operator = NoOperator
    BY <2>1, <2>3, <2>4 DEF Synced, Row
  <2>5. CASE d.row.operator # NoOperator
    BY <2>3, <2>5 DEF Synced
  <2> QED
    BY <2>3, <2>4, <2>5
<1>3. ASSUME NEW h \in Handlers, Claim(h) PROVE FALSE
  <2>1. handler[h].req \in Requests /\ Claimable(handler[h].req)
    BY <1>3 DEF Claim, Working
  <2>2. queue' = [queue EXCEPT ![handler[h].req.task] = ClaimedRow(handler[h].req)]
    BY <1>3 DEF Claim, Commit
  <2>3. handler[h].req.task = t
    BY <2>2 DEF TypeOK
  <2>4. queue'[t].operator = handler[h].req.operator
    BY <2>2, <2>3 DEF ClaimedRow, TypeOK
  <2>5. handler[h].req.operator = o
    BY <2>1, <2>3, QueueAssumption DEF Claimable
  <2> QED
    BY <2>4, <2>5
<1>4. ASSUME NEW h \in Handlers, Release(h)
      PROVE  /\ handler[h].req # NoRequest
             /\ handler[h].req.kind = "RELEASE"
             /\ handler[h].req.task = t
             /\ handler[h].req.operator = o
             /\ handler'[h].pc = "publish"
  <2>1. /\ handler[h].req \in Requests
        /\ handler[h].req.kind = "RELEASE"
        /\ Releasable(handler[h].req)
    BY <1>4 DEF Release, Working
  <2>2. queue' = [queue EXCEPT ![handler[h].req.task] = ReleasedRow(handler[h].req)]
    BY <1>4 DEF Release, Commit
  <2>3. handler[h].req.task = t
    BY <2>2 DEF TypeOK
  <2>4. handler[h].req.operator = o
    BY <2>1, <2>3 DEF Releasable
  <2>5. handler'[h].pc = "publish"
    BY <1>4 DEF Release, Commit, TypeOK
  <2> QED
    BY <2>1, <2>3, <2>4, <2>5, QueueAssumption
<1> QED
  BY <1>1, <1>2, <1>3, <1>4, RowSteps

\* No command of another operator, retry or race takes a task away.
THEOREM OperatorsKeepTheirTasks == Spec => OwnedUntilReleased
<1>1. TypeOK /\ Working /\ [Next]_vars =>
        [\A t \in Tasks : \A o \in Operators :
           /\ queue[t] # NoRow
           /\ queue[t].operator = o
           /\ queue'[t] # NoRow
           /\ queue'[t].operator # o
           => \/ \E d \in Dispatches : d.task = t /\ queue'[t] = d.row
              \/ \E h \in Handlers : /\ handler[h].req # NoRequest
                                     /\ handler[h].req.kind = "RELEASE"
                                     /\ handler[h].req.task = t
                                     /\ handler[h].req.operator = o
                                     /\ handler'[h].pc = "publish"]_vars
  BY OwnerStep
<1>2. /\ Init => TypeOK /\ Working
      /\ TypeOK /\ Working /\ [Next]_vars => (TypeOK /\ Working)'
  BY TypingInit, TypingStep
<1> QED
  BY <1>1, <1>2, PTL DEF Spec, OwnedUntilReleased
=============================================================================
