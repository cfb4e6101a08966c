------------------------------ MODULE TaskQueue ------------------------------
(***************************************************************************)
(* Claim and release of a task in the operator queue                       *)
(* (internal/execution) and the way their domain events reach Kafka: the   *)
(* request publishes its event itself after the commit, and the worker of  *)
(* the integration service publishes what is not marked yet                *)
(* (outbox_worker.go, postgres_store.go, marking_publisher.go).            *)
(*                                                                         *)
(* A command takes the advisory lock of its idempotency key, which lasts   *)
(* until the end of the transaction, and looks the key up; that is one     *)
(* step.  The rest of the transaction, from the lock of the task's row to  *)
(* the commit, is the next one.  Publication and mark are later steps, of  *)
(* no transaction.                                                         *)
(*                                                                         *)
(* An event is named by its place in the outbox.  topic is the set of      *)
(* events that Kafka has: copies and their order are not kept.             *)
(***************************************************************************)
EXTENDS Naturals, Sequences, FiniteSets

CONSTANTS Tasks, Operators,
          Keys,         \* idempotency keys
          Handlers,     \* request goroutines of all gateway replicas
          Requests,     \* the requests devices send, and send again
          Dispatches,   \* what the consumer of WMS's topics writes to the queue
          Workers,      \* outbox workers, one per replica
          BatchSize,    \* LIMIT of the worker's claim
          MaxEvents,    \* bound on the events of the outbox
          MaxFaults,    \* bound on failed publications, failed statements, crashes
          NoOperator, NoRow, NoResult, NoRequest

Statuses == {"NEW", "ASSIGNED", "IN_PROGRESS", "COMPLETED"}
Row == [status : Statuses, operator : Operators \union {NoOperator}, version : Nat \ {0}]

\* foreign: the actor's warehouse is not the task's.
RequestType == [key : Keys, kind : {"CLAIM", "RELEASE"}, task : Tasks,
                operator : Operators, base : Nat, foreign : BOOLEAN]
DispatchType == [task : Tasks, withdrawn : BOOLEAN, row : Row]

ASSUME QueueAssumption ==
    /\ Requests \subseteq RequestType
    /\ Dispatches \subseteq DispatchType
    /\ BatchSize \in Nat \ {0}
    /\ MaxEvents \in Nat
    /\ MaxFaults \in Nat
    /\ NoOperator \notin Operators
    /\ NoRow \notin Row
    /\ NoResult \notin [task : Tasks, row : Row]
    /\ NoRequest \notin Requests

VARIABLES queue,      \* queue[t]: row of warehouse_task
          results,    \* results[k]: result stored in command_idempotency
          outbox,     \* domain_outbox, oldest first
          marked,     \* events with published_at set
          due,        \* events whose available_at has come
          topic,      \* events Kafka has
          handler,    \* handler[h]: the request h serves and how far it is
          worker,     \* worker[w]: rest of the batch, its current event, progress on it
          faults      \* history: faults so far

vars == <<queue, results, outbox, marked, due, topic, handler, worker, faults>>

\* What a commit writes, and what delivers its events.
commitVars == <<queue, results, outbox>>
deliveryVars == <<marked, due, topic, worker>>

Event == [task : Tasks, row : Row, key : Keys]
Events == DOMAIN outbox

IdleHandler == [pc |-> "idle", req |-> NoRequest, event |-> 0]
RestingWorker == [batch |-> {}, event |-> 0, step |-> "pick"]

Init == /\ queue = [t \in Tasks |-> NoRow]
        /\ results = [k \in Keys |-> NoResult]
        /\ outbox = <<>>
        /\ marked = {}
        /\ due = {}
        /\ topic = {}
        /\ handler = [h \in Handlers |-> IdleHandler]
        /\ worker = [w \in Workers |-> RestingWorker]
        /\ faults = 0

\* One more of the failures and crashes that the bound allows.
Fault == faults < MaxFaults /\ faults' = faults + 1

-----------------------------------------------------------------------------
(* The task consumer, as the queue sees it (syncOperatorQueue).            *)

Synced(d) == IF d.row.operator = NoOperator /\ queue[d.task] # NoRow
             THEN [d.row EXCEPT !.operator = queue[d.task].operator]
             ELSE d.row

Dispatch(d) ==
    /\ queue' = [queue EXCEPT ![d.task] = IF d.withdrawn THEN NoRow ELSE Synced(d)]
    /\ queue' # queue
    /\ UNCHANGED <<results, outbox, deliveryVars, handler, faults>>

-----------------------------------------------------------------------------
(* A command: TaskService.mutate *)

\* Another transaction holds the advisory lock of the key.
KeyLocked(k) == \E h \in Handlers : handler[h].pc = "locked" /\ handler[h].req.key = k

\* The key is new: the transaction goes on, with the advisory lock.  (A result
\* that is found is sent again, whatever the request is, and nothing changes.)
Lookup(h, r) ==
    /\ handler[h].pc = "idle"
    /\ ~KeyLocked(r.key)
    /\ results[r.key] = NoResult
    /\ handler' = [handler EXCEPT ![h] = [pc |-> "locked", req |-> r, event |-> 0]]
    /\ UNCHANGED <<commitVars, deliveryVars, faults>>

\* Mutant: a status the queue does not know.
ReleasedRowUnknown(r) ==
    [status |-> "RELEASED", operator |-> NoOperator, version |-> queue[r.task].version + 1]

\* The row a claim or a release makes of the one it finds.
ClaimedRow(r) ==
    [status |-> "ASSIGNED", operator |-> r.operator, version |-> queue[r.task].version + 1]
ReleasedRow(r) ==
    [status |-> "NEW", operator |-> NoOperator, version |-> queue[r.task].version + 1]

\* The row is there, in the actor's warehouse, with the version the device saw.
Current(r) == /\ queue[r.task] # NoRow
              /\ ~r.foreign
              /\ queue[r.task].version = r.base

\* Mutant: the operator of the row is not compared.
ClaimableByAnyone(r) == Current(r)

Claimable(r) == Current(r) /\ queue[r.task].operator \in {NoOperator, r.operator}
AlreadyClaimed(r) == queue[r.task].operator = r.operator /\ queue[r.task].status = "ASSIGNED"
Releasable(r) == Current(r) /\ queue[r.task].operator = r.operator

\* Mutant: the result is not stored.
CommitForgets(h, row) ==
    LET r == handler[h].req
    IN  /\ Len(outbox) < MaxEvents
        /\ queue' = [queue EXCEPT ![r.task] = row]
        /\ outbox' = Append(outbox, [task |-> r.task, row |-> row, key |-> r.key])
        /\ due' = due \union {Len(outbox) + 1}
        /\ handler' = [handler EXCEPT ![h] =
               [pc |-> "publish", req |-> r, event |-> Len(outbox) + 1]]
        /\ UNCHANGED <<results, marked, topic, worker, faults>>

\* Row, event and result commit together; then the event is published.
Commit(h, row) ==
    LET r == handler[h].req
    IN  /\ Len(outbox) < MaxEvents
        /\ queue' = [queue EXCEPT ![r.task] = row]
        /\ results' = [results EXCEPT ![r.key] = [task |-> r.task, row |-> row]]
        /\ outbox' = Append(outbox, [task |-> r.task, row |-> row, key |-> r.key])
        /\ due' = due \union {Len(outbox) + 1}
        /\ handler' = [handler EXCEPT ![h] =
               [pc |-> "publish", req |-> r, event |-> Len(outbox) + 1]]
        /\ UNCHANGED <<marked, topic, worker, faults>>

Claim(h) ==
    LET r == handler[h].req
    IN  /\ handler[h].pc = "locked"
        /\ r.kind = "CLAIM"
        /\ Claimable(r)
        /\ ~AlreadyClaimed(r)
        /\ Commit(h, ClaimedRow(r))

\* Mutant: the version advances all the same.
ClaimAgainAdvances(h) ==
    LET r == handler[h].req
    IN  /\ handler[h].pc = "locked"
        /\ r.kind = "CLAIM"
        /\ Claimable(r)
        /\ AlreadyClaimed(r)
        /\ queue' = [queue EXCEPT ![r.task].version = @ + 1]
        /\ results' = [results EXCEPT ![r.key] = [task |-> r.task, row |-> queue'[r.task]]]
        /\ handler' = [handler EXCEPT ![h] = IdleHandler]
        /\ UNCHANGED <<outbox, deliveryVars, faults>>

\* One's own task again: nothing changes, only the result is stored.
ClaimAgain(h) ==
    LET r == handler[h].req
    IN  /\ handler[h].pc = "locked"
        /\ r.kind = "CLAIM"
        /\ Claimable(r)
        /\ AlreadyClaimed(r)
        /\ results' = [results EXCEPT ![r.key] = [task |-> r.task, row |-> queue[r.task]]]
        /\ handler' = [handler EXCEPT ![h] = IdleHandler]
        /\ UNCHANGED <<queue, outbox, deliveryVars, faults>>

Release(h) ==
    LET r == handler[h].req
    IN  /\ handler[h].pc = "locked"
        /\ r.kind = "RELEASE"
        /\ Releasable(r)
        /\ Commit(h, ReleasedRow(r))

\* Any check that fails: rolled back, the key is free and has no result.
Refuse(h) ==
    LET r == handler[h].req
    IN  /\ handler[h].pc = "locked"
        /\ \/ r.kind = "CLAIM" /\ ~Claimable(r)
           \/ r.kind = "RELEASE" /\ ~Releasable(r)
        /\ handler' = [handler EXCEPT ![h] = IdleHandler]
        /\ UNCHANGED <<commitVars, deliveryVars, faults>>

\* MarkingPublisher.Publish: to Kafka, then the mark.
PublishInline(h) ==
    /\ handler[h].pc = "publish"
    /\ topic' = topic \union {handler[h].event}
    /\ handler' = [handler EXCEPT ![h].pc = "mark"]
    /\ UNCHANGED <<commitVars, marked, due, worker, faults>>

MarkInline(h) ==
    /\ handler[h].pc = "mark"
    /\ marked' = marked \union {handler[h].event}
    /\ handler' = [handler EXCEPT ![h] = IdleHandler]
    /\ UNCHANGED <<commitVars, due, topic, worker, faults>>

\* Publication or mark fails (the device is told MESSAGING_PUBLISH_PENDING),
\* the gateway dies, or the request's context ends.  A publication that failed
\* may have reached Kafka all the same.
Abort(h) ==
    /\ handler[h].pc \in {"locked", "publish", "mark"}
    /\ Fault
    /\ \/ topic' = topic
       \/ handler[h].pc = "publish" /\ topic' = topic \union {handler[h].event}
    /\ handler' = [handler EXCEPT ![h] = IdleHandler]
    /\ UNCHANGED <<commitVars, marked, due, worker>>

-----------------------------------------------------------------------------
(* The worker: OutboxWorker.RunOnce *)

Pending == (Events \ marked) \intersect due

\* ClaimPending: the oldest pending rows that are not locked.  The locks end
\* with its transaction, and nothing keeps the next claim from the same rows.
ClaimPending(w, skipped) ==
    LET open == Pending \ skipped
        oldest == {e \in open : Cardinality({x \in open : x < e}) < BatchSize}
    IN  /\ worker[w] = RestingWorker
        /\ open # {}
        /\ worker' = [worker EXCEPT ![w] = [batch |-> oldest, event |-> 0, step |-> "pick"]]
        /\ UNCHANGED <<commitVars, marked, due, topic, handler, faults>>

Pick(w, e) ==
    /\ worker[w].step = "pick"
    /\ e \in worker[w].batch
    /\ worker' = [worker EXCEPT ![w] =
           [batch |-> worker[w].batch \ {e}, event |-> e, step |-> "publish"]]
    /\ UNCHANGED <<commitVars, marked, due, topic, handler, faults>>

PublishEvent(w) ==
    /\ worker[w].step = "publish"
    /\ topic' = topic \union {worker[w].event}
    /\ worker' = [worker EXCEPT ![w].step = "mark"]
    /\ UNCHANGED <<commitVars, marked, due, handler, faults>>

\* Mutant: the error of the write is not looked at.
PublishFailsUnseen(w) ==
    /\ worker[w].step = "publish"
    /\ Fault
    /\ topic' \in {topic, topic \union {worker[w].event}}
    /\ worker' = [worker EXCEPT ![w].step = "mark"]
    /\ UNCHANGED <<commitVars, marked, due, handler>>

\* The write fails, possibly after the broker stored the event.
PublishFails(w) ==
    /\ worker[w].step = "publish"
    /\ Fault
    /\ topic' \in {topic, topic \union {worker[w].event}}
    /\ worker' = [worker EXCEPT ![w].step = "failed"]
    /\ UNCHANGED <<commitVars, marked, due, handler>>

NextEvent(w) == [worker EXCEPT ![w].event = 0, ![w].step = "pick"]

MarkPublished(w) ==
    /\ worker[w].step = "mark"
    /\ marked' = marked \union {worker[w].event}
    /\ worker' = NextEvent(w)
    /\ UNCHANGED <<commitVars, due, topic, handler, faults>>

\* Mutant: a failed event is given up.
MarkFailedGivesUp(w) ==
    /\ worker[w].step = "failed"
    /\ marked' = marked \union {worker[w].event}
    /\ worker' = NextEvent(w)
    /\ UNCHANGED <<commitVars, due, topic, handler, faults>>

\* available_at moves to five seconds from now, unless the row is marked.
MarkFailed(w) ==
    /\ worker[w].step = "failed"
    /\ due' = IF worker[w].event \in marked THEN due ELSE due \ {worker[w].event}
    /\ worker' = NextEvent(w)
    /\ UNCHANGED <<commitVars, marked, topic, handler, faults>>

\* The worker dies, or the statement of a mark fails: the batch is dropped.
DropBatch(w) ==
    /\ worker[w] # RestingWorker
    /\ Fault
    /\ worker' = [worker EXCEPT ![w] = RestingWorker]
    /\ UNCHANGED <<commitVars, marked, due, topic, handler>>

BackoffEnds(e) ==
    /\ e \in Events \ due
    /\ due' = due \union {e}
    /\ UNCHANGED <<commitVars, marked, topic, handler, worker, faults>>

WorkerStep(w) ==
    \/ \E skipped \in SUBSET Pending : ClaimPending(w, skipped)
    \/ \E e \in Events : Pick(w, e)
    \/ PublishEvent(w) \/ PublishFails(w)
    \/ MarkPublished(w) \/ MarkFailed(w) \/ DropBatch(w)

\* What the worker does when nothing fails and no row is locked.
Work(w) == \/ ClaimPending(w, {})
           \/ \E e \in Events : Pick(w, e)
           \/ PublishEvent(w) \/ MarkPublished(w) \/ MarkFailed(w)

Next ==
    \/ \E d \in Dispatches : Dispatch(d)
    \/ \E h \in Handlers, r \in Requests : Lookup(h, r)
    \/ \E h \in Handlers : \/ Claim(h) \/ ClaimAgain(h) \/ Release(h) \/ Refuse(h)
                           \/ PublishInline(h) \/ MarkInline(h) \/ Abort(h)
    \/ \E w \in Workers : WorkerStep(w)
    \/ \E e \in Events : BackoffEnds(e)

\* The workers run a cycle every second as long as there is a replica, and
\* clocks advance.  Nothing is assumed of the requests.
Fairness == /\ \A w \in Workers : WF_vars(Work(w))
            /\ \A e \in 1 .. MaxEvents : WF_vars(BackoffEnds(e))

Spec == Init /\ [][Next]_vars /\ Fairness

-----------------------------------------------------------------------------
(* Properties *)

\* Rows, events and batches have the shape their code gives them.
TypeOK ==
    /\ queue \in [Tasks -> Row \union {NoRow}]
    /\ results \in [Keys -> [task : Tasks, row : Row] \union {NoResult}]
    /\ outbox \in Seq(Event)
    /\ marked \subseteq Events
    /\ due \subseteq Events
    /\ topic \subseteq Events
    /\ handler \in [Handlers -> [pc : {"idle", "locked", "publish", "mark"},
                                req : Requests \union {NoRequest},
                                event : Events \union {0}]]
    /\ worker \in [Workers -> [batch : SUBSET Events, event : Events \union {0},
                               step : {"pick", "publish", "mark", "failed"}]]
    /\ faults \in 0 .. MaxFaults

\* A task is never taken from its operator by another operator's command, a
\* retry or a race of claims: it goes to nobody by the release of that very
\* operator, and to anybody else only by a dispatch of WMS.
OwnedUntilReleased ==
    [][\A t \in Tasks : \A o \in Operators :
           /\ queue[t] # NoRow
           /\ queue[t].operator = o
           /\ queue'[t] # NoRow
           /\ queue'[t].operator # o
           => \/ \E d \in Dispatches : d.task = t /\ queue'[t] = d.row
              \/ \E h \in Handlers : /\ handler[h].req # NoRequest
                                     /\ handler[h].req.kind = "RELEASE"
                                     /\ handler[h].req.task = t
                                     /\ handler[h].req.operator = o
                                     /\ handler'[h].pc = "publish"]_vars

\* "An idempotent replay returns its stored result without producing another
\* event" (docs/architecture.md): a key causes at most one event, however its
\* copies overlap and whatever else happens to the task, and its stored result
\* is the row that event announced.
OneEventPerKey ==
    /\ \A i, j \in Events : outbox[i].key = outbox[j].key => i = j
    /\ \A i \in Events : results[outbox[i].key] = [task |-> outbox[i].task, row |-> outbox[i].row]

IsLatest(i) == \A j \in Events : outbox[j].task = outbox[i].task => j <= i

\* Whoever follows the events of a task knows its row: the row is what the
\* latest event says, or its status and version come from a dispatch.
QueueMatchesEvents ==
    \A t \in Tasks : queue[t] # NoRow =>
        \/ \E i \in Events : outbox[i].task = t /\ outbox[i].row = queue[t] /\ IsLatest(i)
        \/ \E d \in Dispatches : /\ d.task = t
                                 /\ ~d.withdrawn
                                 /\ queue[t].version = d.row.version
                                 /\ queue[t].status = d.row.status

\* The worker never looks at a marked event again, so an event is marked only
\* when Kafka has it, although request and worker publish and mark the same
\* event at the same time and either may fail in between.
MarkedIsPublished == marked \subseteq topic

\* Every committed event is published and marked in the end, even if the
\* request that made it died, as faults are bounded.
EveryEventPublished ==
    \A e \in 1 .. MaxEvents : (e \in Events) ~> (e \in topic \intersect marked)
=============================================================================
