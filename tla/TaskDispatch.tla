----------------------------- MODULE TaskDispatch -----------------------------
(***************************************************************************)
(* The consumer of the WMS dispatch topics                                 *)
(* (internal/integration/adapters/kafka/wms_task_consumer.go): one reader  *)
(* goroutine per topic, all in one process and one consumer group.  A      *)
(* delivery is processed in one transaction: claim the event in the inbox, *)
(* read and lock the task's projected version, then record a stale         *)
(* delivery, or replace the projection and synchronise the operator queue. *)
(*                                                                         *)
(* SELECT ... FOR UPDATE locks nothing when the task has no row yet, so    *)
(* the read and the write are separate steps.  What a transaction wrote is *)
(* visible to others only after its commit, and a second writer of the row *)
(* waits for that, so the writes and the commit are one step.              *)
(*                                                                         *)
(* The broker keeps a log per topic and the group's offset; the reader     *)
(* keeps its own position in memory, and starts from the group's offset.   *)
(***************************************************************************)
EXTENDS Naturals, Sequences, FiniteSets

CONSTANTS Tasks, Topics,
          Log,          \* Log[c]: the messages of topic c, oldest first
          MaxFailures,  \* bound on the messages whose transaction fails
          MaxRestarts,  \* bound on restarts of the process
          NoRow, NoOperator

\* contract: the message passes the checks made before the transaction.
Message == [event : STRING, task : Tasks, version : Nat \ {0}, status : STRING,
            operator : STRING \union {NoOperator}, contract : BOOLEAN]

QueueStatuses == {"NEW", "ASSIGNED", "IN_PROGRESS", "COMPLETED"}

\* An event id names one message, and the absent row is no row.
ASSUME LogAssumption ==
    /\ DOMAIN Log = Topics
    /\ \A c \in Topics : Log[c] \in Seq(Message)
    /\ \A c, e \in Topics : \A i \in DOMAIN Log[c], j \in DOMAIN Log[e] :
           Log[c][i].event = Log[e][j].event => Log[c][i] = Log[e][j]
    /\ MaxFailures \in Nat
    /\ MaxRestarts \in Nat
    /\ NoRow \notin [version : Nat, status : STRING]
    /\ NoRow \notin [status : QueueStatuses, version : Nat, operator : STRING \union {NoOperator}]

VARIABLES position,    \* position[c]: index in Log[c] of the message c handles next
          committed,   \* committed[c]: messages of c below the group's offset
          reader,      \* reader[c]: progress on that message
          inbox,       \* event_inbox: events whose transaction committed
          projection,  \* projection[t]: version and status in wms_task_projection
          queue,       \* queue[t]: row of warehouse_task, the operator queue
          stale,       \* wms_task_stale_delivery
          dlq,         \* event_dlq
          effects,     \* effects[t]: history, the events that changed projection[t]
          failed,      \* history: <<topic, index>> of messages whose transaction failed
          restarts     \* history: restarts so far

vars == <<position, committed, reader, inbox, projection, queue, stale, dlq,
          effects, failed, restarts>>
dbVars == <<inbox, projection, queue, stale, effects>>

Idle == [pc |-> "idle", projected |-> 0]

Init == /\ position = [c \in Topics |-> 1]
        /\ committed = [c \in Topics |-> 0]
        /\ reader = [c \in Topics |-> Idle]
        /\ inbox = {}
        /\ projection = [t \in Tasks |-> NoRow]
        /\ queue = [t \in Tasks |-> NoRow]
        /\ stale = {}
        /\ dlq = {}
        /\ effects = [t \in Tasks |-> <<>>]
        /\ failed = {}
        /\ restarts = 0

Current(c) == Log[c][position[c]]

-----------------------------------------------------------------------------
(* The transaction *)

\* queueStatus; a withdrawn task has no queue status.
QueueStatus(status) ==
    CASE status = "CREATED" -> "NEW"
      [] status \in {"ASSIGNED", "CLAIMED"} -> "ASSIGNED"
      [] status \in {"IN_PROGRESS", "PARTIALLY_COMPLETED"} -> "IN_PROGRESS"
      [] status = "COMPLETED" -> "COMPLETED"
      [] OTHER -> "WITHDRAWN"

\* c's open transaction holds the row lock of task t.
Locks(c, t) == reader[c].pc = "locked" /\ Current(c).task = t

Locked(c) == \E e \in Topics \ {c} : Locks(e, Current(c).task)

\* Another open transaction has inserted the inbox row of the same event.
InboxBusy(c) == \E e \in Topics \ {c} : /\ reader[e].pc \in {"locked", "unlocked"}
                                        /\ Current(e).event = Current(c).event

\* The dead-letter row of a message; a second one for the same event is merged.
Rejected(m) == dlq \union {m.event}

\* Mutant: a rejected message is fetched again and again.
DeadLetterRetried(c) ==
    /\ reader[c].pc = "idle"
    /\ position[c] <= Len(Log[c])
    /\ ~Current(c).contract
    /\ dlq' = Rejected(Current(c))
    /\ UNCHANGED <<position, committed, reader, dbVars, failed, restarts>>

\* A message that violates the contract goes to the dead-letter table, in a
\* statement of its own, and its offset is committed.
DeadLetter(c) ==
    /\ reader[c].pc = "idle"
    /\ position[c] <= Len(Log[c])
    /\ ~Current(c).contract
    /\ dlq' = Rejected(Current(c))
    /\ reader' = [reader EXCEPT ![c].pc = "processed"]
    /\ UNCHANGED <<position, committed, dbVars, failed, restarts>>

\* An event the inbox already has: nothing is applied.
Duplicate(c) ==
    /\ reader[c].pc = "idle"
    /\ position[c] <= Len(Log[c])
    /\ Current(c).contract
    /\ Current(c).event \in inbox
    /\ reader' = [reader EXCEPT ![c].pc = "processed"]
    /\ UNCHANGED <<position, committed, dbVars, dlq, failed, restarts>>

\* Mutant: an event found in the inbox is processed all the same.
ReadVersionAgain(c) ==
    /\ reader[c].pc = "idle"
    /\ position[c] <= Len(Log[c])
    /\ Current(c).contract
    /\ ~Locked(c)
    /\ reader' = [reader EXCEPT ![c] =
           IF projection[Current(c).task] = NoRow
           THEN [pc |-> "unlocked", projected |-> 0]
           ELSE [pc |-> "locked", projected |-> projection[Current(c).task].version]]
    /\ UNCHANGED <<position, committed, dbVars, dlq, failed, restarts>>

\* The inbox row is inserted (invisible until the commit) and the projected
\* version read: under a row lock if there is a row, else as 0 without one.
ReadVersion(c) ==
    /\ reader[c].pc = "idle"
    /\ position[c] <= Len(Log[c])
    /\ Current(c).contract
    /\ Current(c).event \notin inbox
    /\ ~InboxBusy(c)
    /\ ~Locked(c)
    /\ reader' = [reader EXCEPT ![c] =
           IF projection[Current(c).task] = NoRow
           THEN [pc |-> "unlocked", projected |-> 0]
           ELSE [pc |-> "locked", projected |-> projection[Current(c).task].version]]
    /\ UNCHANGED <<position, committed, dbVars, dlq, failed, restarts>>

RecordStale(c) ==
    /\ reader[c].pc \in {"locked", "unlocked"}
    /\ Current(c).version <= reader[c].projected
    /\ inbox' = inbox \union {Current(c).event}
    /\ stale' = stale \union {Current(c).event}
    /\ reader' = [reader EXCEPT ![c] = [pc |-> "processed", projected |-> 0]]
    /\ UNCHANGED <<position, committed, projection, queue, dlq, effects, failed, restarts>>

\* Mutant: a withdrawn task keeps its row.
SyncedKept(m) ==
    IF QueueStatus(m.status) = "WITHDRAWN"
    THEN queue[m.task]
    ELSE [status |-> QueueStatus(m.status), version |-> m.version, operator |-> m.operator]

\* syncOperatorQueue
Synced(m) ==
    IF QueueStatus(m.status) = "WITHDRAWN"
    THEN NoRow
    ELSE [status |-> QueueStatus(m.status), version |-> m.version,
          operator |-> IF m.operator = NoOperator /\ queue[m.task] # NoRow
                       THEN queue[m.task].operator ELSE m.operator]

\* Mutant: no comparison of versions.
ApplyUnchecked(c) ==
    LET m == Current(c)
    IN  /\ reader[c].pc \in {"locked", "unlocked"}
        /\ ~Locked(c)
        /\ inbox' = inbox \union {m.event}
        /\ projection' = [projection EXCEPT ![m.task] =
               [version |-> m.version, status |-> m.status]]
        /\ queue' = [queue EXCEPT ![m.task] = Synced(m)]
        /\ effects' = [effects EXCEPT ![m.task] = Append(@, m.event)]
        /\ reader' = [reader EXCEPT ![c] = [pc |-> "processed", projected |-> 0]]
        /\ UNCHANGED <<position, committed, stale, dlq, failed, restarts>>

\* The upsert replaces whatever row is there, the queue follows, commit.
Apply(c) ==
    LET m == Current(c)
    IN  /\ reader[c].pc \in {"locked", "unlocked"}
        /\ m.version > reader[c].projected
        /\ ~Locked(c)
        /\ inbox' = inbox \union {m.event}
        /\ projection' = [projection EXCEPT ![m.task] =
               [version |-> m.version, status |-> m.status]]
        /\ queue' = [queue EXCEPT ![m.task] = Synced(m)]
        /\ effects' = [effects EXCEPT ![m.task] = Append(@, m.event)]
        /\ reader' = [reader EXCEPT ![c] = [pc |-> "processed", projected |-> 0]]
        /\ UNCHANGED <<position, committed, stale, dlq, failed, restarts>>

-----------------------------------------------------------------------------
(* The reader loop *)

\* process returned an error (the database failed; the transaction is rolled
\* back): the loop logs it and goes on to the next message.
ProcessFails(c) ==
    /\ \/ reader[c].pc \in {"locked", "unlocked"}
       \/ reader[c].pc = "idle" /\ position[c] <= Len(Log[c])
    /\ failed' = failed \union {<<c, position[c]>>}
    /\ Cardinality(failed') <= MaxFailures
    /\ position' = [position EXCEPT ![c] = @ + 1]
    /\ reader' = [reader EXCEPT ![c] = Idle]
    /\ UNCHANGED <<committed, dbVars, dlq, restarts>>

\* Mutant: the offset is committed while the transaction is open.
CommitOffsetEarly(c) ==
    /\ reader[c].pc \in {"locked", "unlocked", "processed"}
    /\ committed' = [committed EXCEPT ![c] = position[c]]
    /\ position' = [position EXCEPT ![c] = @ + 1]
    /\ reader' = [reader EXCEPT ![c] = Idle]
    /\ UNCHANGED <<dbVars, dlq, failed, restarts>>

\* Mutant: the offset of the next message is committed.
CommitOffsetNext(c) ==
    /\ reader[c].pc = "processed"
    /\ committed' = [committed EXCEPT ![c] = position[c] + 1]
    /\ position' = [position EXCEPT ![c] = @ + 1]
    /\ reader' = [reader EXCEPT ![c] = Idle]
    /\ UNCHANGED <<dbVars, dlq, failed, restarts>>

\* CommitMessages moves the group's offset behind the message.
CommitOffset(c) ==
    /\ reader[c].pc = "processed"
    /\ committed' = [committed EXCEPT ![c] = position[c]]
    /\ position' = [position EXCEPT ![c] = @ + 1]
    /\ reader' = [reader EXCEPT ![c] = Idle]
    /\ UNCHANGED <<dbVars, dlq, failed, restarts>>

\* The broker refuses the offset: logged, and the loop goes on.
CommitFails(c) ==
    /\ reader[c].pc = "processed"
    /\ position' = [position EXCEPT ![c] = @ + 1]
    /\ reader' = [reader EXCEPT ![c] = Idle]
    /\ UNCHANGED <<committed, dbVars, dlq, failed, restarts>>

\* The process stops, or dies, and another one takes the group over.
Restart ==
    /\ restarts < MaxRestarts
    /\ restarts' = restarts + 1
    /\ position' = [c \in Topics |-> committed[c] + 1]
    /\ reader' = [c \in Topics |-> Idle]
    /\ UNCHANGED <<committed, dbVars, dlq, failed>>

Handle(c) == DeadLetter(c) \/ Duplicate(c) \/ ReadVersion(c) \/ RecordStale(c) \/ Apply(c)

Next == \/ \E c \in Topics : Handle(c) \/ ProcessFails(c) \/ CommitOffset(c) \/ CommitFails(c)
        \/ Restart

\* The reader goroutines run as long as the process does.
Fairness == \A c \in Topics : WF_vars(Handle(c)) /\ WF_vars(CommitOffset(c))

Spec == Init /\ [][Next]_vars /\ Fairness

-----------------------------------------------------------------------------
(* Properties *)

Events == UNION {{Log[c][i].event : i \in DOMAIN Log[c]} : c \in Topics}
Statuses == UNION {{Log[c][i].status : i \in DOMAIN Log[c]} : c \in Topics}

\* Rows and readers have the shape their code gives them.
TypeOK ==
    /\ \A c \in Topics : /\ position[c] \in 1 .. (Len(Log[c]) + 1)
                         /\ committed[c] \in 0 .. (position[c] - 1)
                         /\ reader[c].pc # "idle" => position[c] <= Len(Log[c])
    /\ reader \in [Topics -> [pc : {"idle", "locked", "unlocked", "processed"},
                              projected : Nat]]
    /\ projection \in [Tasks -> [version : Nat \ {0}, status : Statuses] \union {NoRow}]
    /\ inbox \subseteq Events
    /\ dlq \subseteq Events
    /\ stale \subseteq Events

Applied == {e \in Events : \E t \in Tasks : \E i \in DOMAIN effects[t] : effects[t][i] = e}

\* "A duplicate delivery cannot produce a second effect": however often an
\* event is redelivered (restart, lost offset commit), it changes the
\* projection at most once, and an inbox row stands for exactly one outcome,
\* applied or stale.
EffectOnce ==
    /\ \A t \in Tasks : \A i, j \in DOMAIN effects[t] :
           effects[t][i] = effects[t][j] => i = j
    /\ inbox = Applied \union stale
    /\ Applied \intersect stale = {}

\* "Keeps the operator-facing queue consistent with the projection": whatever
\* deliveries race, the queue shows a task exactly when its projected status
\* is open, with the status and the version of that projection.
QueueFollowsProjection ==
    \A t \in Tasks :
        IF projection[t] = NoRow \/ QueueStatus(projection[t].status) = "WITHDRAWN"
        THEN queue[t] = NoRow
        ELSE /\ queue[t] # NoRow
             /\ queue[t].version = projection[t].version
             /\ queue[t].status = QueueStatus(projection[t].status)

Handled(c, i) == Log[c][i].event \in inbox \union dlq

\* The group's offset passes a message only when the message was applied,
\* found stale or dead-lettered, or its transaction failed: neither a restart
\* between the database commit and the offset commit nor a refused offset
\* commit loses a delivery.
LostOnlyByFailure ==
    \A c \in Topics : \A i \in 1 .. committed[c] : Handled(c, i) \/ <<c, i>> \in failed

\* A delivery that found the task's row, and so holds its lock, never replaces
\* it by an older version; only a task's first deliveries can.
LockedNeverRegresses ==
    [][\A t \in Tasks : projection[t] # NoRow =>
           \/ projection'[t].version >= projection[t].version
           \/ \E c \in Topics : /\ reader[c].pc = "unlocked"
                                /\ Current(c).task = t
                                /\ reader'[c].pc = "processed"]_vars

\* Every message of every topic is eventually dealt with: a bad one does not
\* hold up the ones behind it, two transactions never wait for each other, and
\* restarts only delay.
EveryMessageSettled ==
    <>(\A c \in Topics : \A i \in DOMAIN Log[c] : Handled(c, i) \/ <<c, i>> \in failed)

\* "Leave the offset uncommitted so the delivery is retried": the group's
\* offset never passes a message that had no outcome.
NoDeliveryLost == \A c \in Topics : \A i \in 1 .. committed[c] : Handled(c, i)

\* "A stale or duplicate delivery can be rejected without a business effect"
\* (migration 000008): the projected version of a task never goes back.
VersionNeverRegresses ==
    [][\A t \in Tasks : projection[t] # NoRow =>
           projection'[t].version >= projection[t].version]_vars
=============================================================================
