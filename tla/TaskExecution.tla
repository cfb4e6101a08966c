---------------------------- MODULE TaskExecution ----------------------------
(***************************************************************************)
(* The operator's side of a warehouse task that WMS dispatched             *)
(* (internal/wmstask): START, SCAN, COMPLETE and FAIL commands, each one   *)
(* transaction that looks the command identity up, locks the task's        *)
(* projection row, checks, changes the execution row and appends the fact  *)
(* for WMS to integration_outbox.                                          *)
(*                                                                         *)
(* The lookup of the command row locks nothing when the row is missing,    *)
(* so it is a step of its own: any other transaction may commit between it *)
(* and the projection lock.  From the lock to the commit a transaction     *)
(* excludes every other one that reads or writes the task's rows, so that  *)
(* part is one step.  (Only the insert of a rejected scan takes no lock: a *)
(* step of its own, before or after the transaction that reads the scans.) *)
(*                                                                         *)
(* Quantities count units of 1e-6, the resolution of the request hash and  *)
(* of the column (numeric(18,6)).                                          *)
(***************************************************************************)
EXTENDS Naturals, Sequences, FiniteSets

CONSTANTS Tasks, Operators, Commands, ScanTypes, Values,
          Handlers,     \* request goroutines of all gateway replicas
          Requests,     \* the requests devices send, and send again
          Dispatches,   \* the task versions WMS dispatches
          MaxFacts,     \* bound on the facts about one task
          NoCommand,    \* the device sent no idempotency key
          NoOperator, NoValue, NoRequest, NoRow

Kinds == {"START", "SCAN", "COMPLETE", "FAIL"}

RequestType == [cmd : Commands \union {NoCommand}, kind : Kinds, task : Tasks,
                version : Nat, operator : Operators \union {NoOperator},
                qty : Nat, scanType : ScanTypes, extra : Values \union {NoValue}]

DispatchType == [task : Tasks, version : Nat \ {0}, status : STRING, remaining : Nat,
                 required : SUBSET ScanTypes,
                 expected : [ScanTypes -> Values \union {NoValue}]]

ASSUME ConstantsAssumption ==
    /\ Requests \subseteq RequestType
    /\ Dispatches \subseteq DispatchType
    /\ MaxFacts \in Nat
    /\ NoCommand \notin Commands
    /\ NoRequest \notin Requests
    /\ NoRow \notin Dispatches
    /\ NoValue \notin Values

VARIABLES projection,  \* projection[t]: row of wms_task_projection
          execution,   \* execution[t]: row of pda_task_execution
          scans,       \* scans[t]: rows of pda_task_scan
          commands,    \* commands[c]: request hash stored in pda_task_command
          outbox,      \* outbox[t]: rows of integration_outbox with key t
          handler      \* handler[h]: the request h serves and how far it is

vars == <<projection, execution, scans, commands, outbox, handler>>

-----------------------------------------------------------------------------
(* State *)

States == {"DISPATCHED", "STARTED", "COMPLETED", "FAILED"}
Finished == {"COMPLETED", "FAILED"}
Tolerance == 1

\* requestHash covers everything but the command identity and the device.
Hash(r) == [task |-> r.task, kind |-> r.kind, version |-> r.version,
            operator |-> r.operator, qty |-> r.qty, scanType |-> r.scanType,
            extra |-> r.extra]

ScanRow == [type : ScanTypes, value : Values, accepted : BOOLEAN]

\* remaining, required and evidence are what the payload (or the dispatch
\* the version names) says; cmd is history and not part of the payload.
Fact == [kind : States, version : Nat, operator : Operators \union {NoOperator},
         qty : Nat, remaining : Nat, required : SUBSET ScanTypes,
         evidence : SUBSET ScanRow, cmd : Commands \union {NoCommand}]

ExecutionRow == [state : States, version : Nat,
                 operator : Operators \union {NoOperator}, confirmed : Nat]

Undispatched == [state |-> "DISPATCHED", version |-> 0,
                 operator |-> NoOperator, confirmed |-> 0]

IdleHandler == [pc |-> "idle", req |-> NoRequest]

Init == /\ projection = [t \in Tasks |-> NoRow]
        /\ execution = [t \in Tasks |-> Undispatched]
        /\ scans = [t \in Tasks |-> {}]
        /\ commands = [c \in Commands |-> {}]
        /\ outbox = [t \in Tasks |-> <<>>]
        /\ handler = [h \in Handlers |-> IdleHandler]

-----------------------------------------------------------------------------
(* The task consumer's transaction, as the commands see it: the projection *)
(* row becomes another dispatch.  In which order versions arrive is the    *)
(* subject of TaskDispatch; nothing here relies on it.                     *)

Dispatch(d) ==
    /\ projection[d.task] # d
    /\ projection' = [projection EXCEPT ![d.task] = d]
    /\ UNCHANGED <<execution, scans, commands, outbox, handler>>

-----------------------------------------------------------------------------
(* One command *)

\* Mutant: blank scan values and reasons are let in.
WellFormedBlank(r) == r.kind = "START" => r.operator # NoOperator

\* The checks made before a transaction is opened.
WellFormed(r) ==
    /\ r.kind = "START" => r.operator # NoOperator
    /\ r.kind \in {"SCAN", "FAIL"} => r.extra # NoValue

Known(r) == r.cmd # NoCommand /\ commands[r.cmd] # {}

\* Mutant: the command row is stored before its effect.
LookupMissStores(h, r) ==
    /\ handler[h].pc \in {"idle", "ok"}
    /\ WellFormed(r)
    /\ ~Known(r)
    /\ handler' = [handler EXCEPT ![h] = [pc |-> "locking", req |-> r]]
    /\ commands' = [c \in Commands |-> IF c = r.cmd THEN {Hash(r)} ELSE commands[c]]
    /\ UNCHANGED <<projection, execution, scans, outbox>>

\* The command row is missing (always so for a request without a key, which
\* is given a fresh identity): nothing is locked, the handler goes on to lock
\* the projection row.
LookupMiss(h, r) ==
    /\ handler[h].pc \in {"idle", "ok"}
    /\ WellFormed(r)
    /\ ~Known(r)
    /\ handler' = [handler EXCEPT ![h] = [pc |-> "locking", req |-> r]]
    /\ UNCHANGED <<projection, execution, scans, commands, outbox>>

\* Mutant: the stored hash is not compared.
ReplayAny(h, r) ==
    /\ handler[h].pc \in {"idle", "ok"}
    /\ WellFormed(r)
    /\ Known(r)
    /\ handler' = [handler EXCEPT ![h] = [pc |-> "ok", req |-> r]]
    /\ UNCHANGED <<projection, execution, scans, commands, outbox>>

\* The command row is there: the stored result is sent again.  (A row stored
\* for another request is answered with a conflict, and changes nothing.)
Replay(h, r) ==
    /\ handler[h].pc \in {"idle", "ok"}
    /\ WellFormed(r)
    /\ Known(r)
    /\ commands[r.cmd] = {Hash(r)}
    /\ handler' = [handler EXCEPT ![h] = [pc |-> "ok", req |-> r]]
    /\ UNCHANGED <<projection, execution, scans, commands, outbox>>

Matching(r) == /\ projection[r.task] # NoRow
               /\ projection[r.task].version = r.version

\* INSERT INTO pda_task_command ... ON CONFLICT DO NOTHING.
Remembered(r) ==
    [c \in Commands |-> IF c = r.cmd /\ commands[c] = {} THEN {Hash(r)} ELSE commands[c]]

\* The row appendIntegrationEvent adds.
FactOf(r, kind) ==
    [kind |-> kind, version |-> projection[r.task].version, operator |-> r.operator,
     qty |-> r.qty, remaining |-> projection[r.task].remaining,
     required |-> projection[r.task].required, evidence |-> scans[r.task], cmd |-> r.cmd]

\* The common tail of a command that succeeds: the fact, the command row, the
\* commit and the answer.
Publish(h, kind) ==
    LET r == handler[h].req
    IN  /\ Len(outbox[r.task]) < MaxFacts
        /\ outbox' = [outbox EXCEPT ![r.task] = Append(@, FactOf(r, kind))]
        /\ commands' = Remembered(r)
        /\ handler' = [handler EXCEPT ![h].pc = "ok"]
        /\ UNCHANGED <<projection, scans>>

\* The execution row each command writes.  A row that Fail creates gets the
\* dispatch's version, one that exists keeps its own.
StartedRow(r) ==
    [state |-> "STARTED", version |-> r.version, operator |-> r.operator,
     confirmed |-> execution[r.task].confirmed]
CompletedRow(r) ==
    [state |-> "COMPLETED", version |-> execution[r.task].version,
     operator |-> execution[r.task].operator, confirmed |-> r.qty]
FailedRow(r) ==
    [state |-> "FAILED", operator |-> r.operator, confirmed |-> execution[r.task].confirmed,
     version |-> IF execution[r.task].version = 0 THEN r.version ELSE execution[r.task].version]

Start(h) ==
    LET r == handler[h].req
    IN  /\ handler[h].pc = "locking"
        /\ r.kind = "START"
        /\ Matching(r)
        /\ execution[r.task].state \notin Finished
        /\ execution' = [execution EXCEPT ![r.task] = StartedRow(r)]
        /\ Publish(h, "STARTED")

\* What Scan requires before it compares the value.
Scannable(r) == /\ Matching(r)
                /\ execution[r.task].state = "STARTED"
                /\ r.scanType \in projection[r.task].required

\* expectedScanValue; an unknown scan type and an empty field both match nothing.
Matches(r) == r.extra = projection[r.task].expected[r.scanType]

\* INSERT INTO pda_task_scan ... ON CONFLICT (task, type, hash) DO NOTHING.
WithScan(r, accepted) ==
    IF \E s \in scans[r.task] : s.type = r.scanType /\ s.value = r.extra
    THEN scans
    ELSE [scans EXCEPT ![r.task] =
             @ \union {[type |-> r.scanType, value |-> r.extra, accepted |-> accepted]}]

Scan(h) ==
    LET r == handler[h].req
    IN  /\ handler[h].pc = "locking"
        /\ r.kind = "SCAN"
        /\ Scannable(r)
        /\ Matches(r)
        /\ scans' = WithScan(r, TRUE)
        /\ commands' = Remembered(r)
        /\ handler' = [handler EXCEPT ![h].pc = "ok"]
        /\ UNCHANGED <<projection, execution, outbox>>

\* The wrong value: the transaction is rolled back, its evidence is not
\* recorded yet.
ScanMismatch(h) ==
    LET r == handler[h].req
    IN  /\ handler[h].pc = "locking"
        /\ r.kind = "SCAN"
        /\ Scannable(r)
        /\ ~Matches(r)
        /\ handler' = [handler EXCEPT ![h].pc = "mismatch"]
        /\ UNCHANGED <<projection, execution, scans, commands, outbox>>

\* Mutant: the rejected scan is stored as accepted.
RecordScanAnyway(h) ==
    /\ handler[h].pc = "mismatch"
    /\ scans' = WithScan(handler[h].req, TRUE)
    /\ handler' = [handler EXCEPT ![h] = IdleHandler]
    /\ UNCHANGED <<projection, execution, commands, outbox>>

RecordRejectedScan(h) ==
    /\ handler[h].pc = "mismatch"
    /\ scans' = WithScan(handler[h].req, FALSE)
    /\ handler' = [handler EXCEPT ![h] = IdleHandler]
    /\ UNCHANGED <<projection, execution, commands, outbox>>

\* Mutant: any scan counts.
ScannedTypes(t) == {s.type : s \in scans[t]}

\* The scan types that have an accepted scan, whatever dispatch it was made for.
AcceptedTypes(t) == {s.type : s \in {x \in scans[t] : x.accepted}}

\* Mutant: the state of the execution row is not checked.
CompletableAgain(r) ==
    /\ Matching(r)
    /\ r.qty > 0
    /\ r.qty <= projection[r.task].remaining + Tolerance
    /\ projection[r.task].required \subseteq AcceptedTypes(r.task)

Completable(r) ==
    /\ Matching(r)
    /\ execution[r.task].state = "STARTED"
    /\ r.qty > 0
    /\ r.qty <= projection[r.task].remaining + Tolerance
    /\ projection[r.task].required \subseteq AcceptedTypes(r.task)

Complete(h) ==
    LET r == handler[h].req
    IN  /\ handler[h].pc = "locking"
        /\ r.kind = "COMPLETE"
        /\ Completable(r)
        /\ execution' = [execution EXCEPT ![r.task] = CompletedRow(r)]
        /\ Publish(h, "COMPLETED")

\* Mutant: a finished task can still fail.
FailFinished(h) ==
    LET r == handler[h].req
    IN  /\ handler[h].pc = "locking"
        /\ r.kind = "FAIL"
        /\ Matching(r)
        /\ execution' = [execution EXCEPT ![r.task] = FailedRow(r)]
        /\ Publish(h, "FAILED")

Fail(h) ==
    LET r == handler[h].req
    IN  /\ handler[h].pc = "locking"
        /\ r.kind = "FAIL"
        /\ Matching(r)
        /\ execution[r.task].state \notin Finished
        /\ execution' = [execution EXCEPT ![r.task] = FailedRow(r)]
        /\ Publish(h, "FAILED")

\* Any check that fails: the transaction is rolled back and the device told.
Refuse(h) ==
    LET r == handler[h].req
    IN  /\ handler[h].pc = "locking"
        /\ \/ ~Matching(r)
           \/ r.kind \in {"START", "FAIL"} /\ execution[r.task].state \in Finished
           \/ r.kind = "SCAN" /\ ~Scannable(r)
           \/ r.kind = "COMPLETE" /\ ~Completable(r)
        /\ handler' = [handler EXCEPT ![h] = IdleHandler]
        /\ UNCHANGED <<projection, execution, scans, commands, outbox>>

\* The gateway dies, or the request's context ends, before the commit; or the
\* answer is lost on its way.  The device may send the request again.
Abort(h) ==
    /\ handler[h].pc # "idle"
    /\ handler' = [handler EXCEPT ![h] = IdleHandler]
    /\ UNCHANGED <<projection, execution, scans, commands, outbox>>

Next ==
    \/ \E d \in Dispatches : Dispatch(d)
    \/ \E h \in Handlers, r \in Requests : LookupMiss(h, r) \/ Replay(h, r)
    \/ \E h \in Handlers : \/ Start(h) \/ Scan(h) \/ ScanMismatch(h)
                           \/ RecordRejectedScan(h) \/ Complete(h) \/ Fail(h)
                           \/ Refuse(h) \/ Abort(h)

Spec == Init /\ [][Next]_vars

-----------------------------------------------------------------------------
(* Properties *)

\* Every row has the columns and the values its table allows.
TypeOK ==
    /\ projection \in [Tasks -> Dispatches \union {NoRow}]
    /\ execution \in [Tasks -> ExecutionRow]
    /\ scans \in [Tasks -> SUBSET ScanRow]
    /\ commands \in [Commands -> SUBSET {Hash(r) : r \in Requests}]
    /\ outbox \in [Tasks -> Seq(Fact)]
    /\ handler \in [Handlers -> [pc : {"idle", "locking", "mismatch", "ok"},
                                req : Requests \union {NoRequest}]]

Facts(t) == {outbox[t][i] : i \in DOMAIN outbox[t]}

\* Once Complete or Fail has committed, no later command, retry or dispatch
\* changes the execution row or adds a fact about the task: the state checks
\* of Start, Complete and Fail are made under the projection lock.
FinishedIsFinal ==
    [][\A t \in Tasks : execution[t].state \in Finished =>
           execution'[t] = execution[t] /\ outbox'[t] = outbox[t]]_vars

\* A PDA.TaskCompleted fact is one WMS can apply: the execution row says the
\* same quantity, the quantity is positive and within what the dispatch it
\* names left open, and an accepted scan of every required type is in its
\* evidence, although dispatches and rejected scans arrive in between.
CompletionIsJustified ==
    \A t \in Tasks : \A f \in Facts(t) : f.kind = "COMPLETED" =>
        /\ f.qty = execution[t].confirmed
        /\ f.qty \in 1 .. (f.remaining + Tolerance)
        /\ \A k \in f.required : \E s \in f.evidence : s.type = k /\ s.accepted

\* "A wrong scan must never advance the task": a scan that counts carries a
\* value WMS dispatched for that task and type, and it is the only row for
\* that value (a retried or rejected scan never adds a second one).
AcceptedScansWereExpected ==
    \A t \in Tasks : \A s \in scans[t] :
        /\ s.accepted => \E d \in Dispatches : d.task = t /\ d.expected[s.type] = s.value
        /\ \A x \in scans[t] : x.type = s.type /\ x.value = s.value => x = s

\* What a device may conclude from an "ok" to r: r is a request or, with the
\* same fields, the hash of one.  Of a scan, only that its value is on record:
\* a row rejected under an earlier dispatch stays rejected.
Happened(r) ==
    /\ r.kind = "START" => \E f \in Facts(r.task) :
           f.kind = "STARTED" /\ f.operator = r.operator /\ f.version = r.version
    /\ r.kind = "SCAN" => \E s \in scans[r.task] :
           s.type = r.scanType /\ s.value = r.extra
    /\ r.kind = "COMPLETE" => /\ execution[r.task].state = "COMPLETED"
                             /\ execution[r.task].confirmed = r.qty
    /\ r.kind = "FAIL" => execution[r.task].state = "FAILED"

\* A command row and the command's effect commit together: what a command row
\* stands for has happened (so a replay never hides a lost effect), and a fact
\* has its command row (so a retry that comes later finds it).
RemembersWhatItDid ==
    /\ \A c \in Commands : \A k \in commands[c] : Happened(k)
    /\ \A t \in Tasks : \A f \in Facts(t) : f.cmd # NoCommand => commands[f.cmd] # {}

\* A device that was answered "ok", first hand or by a replay, can rely on it,
\* whatever dispatches and commands of other devices come between.
OkIsDurable == \A h \in Handlers : handler[h].pc = "ok" => Happened(handler[h].req)

\* The facts published about each task follow the lifecycle WMS relies on:
\* starts, then at most one completion or failure, never a completion of a
\* task that was not started.
Lifecycle == INSTANCE TaskLifecycle WITH
    state <- [t \in Tasks |-> execution[t].state],
    facts <- [t \in Tasks |-> [i \in DOMAIN outbox[t] |-> outbox[t][i].kind]]
FollowsLifecycle == Lifecycle!Spec

\* "A device that retries after a timeout must not produce a second business
\* effect" (migration 000009): no two facts about a task stem from the same
\* command identity.
OneEffectPerCommand ==
    \A t \in Tasks : \A i, j \in DOMAIN outbox[t] :
        outbox[t][i].cmd = outbox[t][j].cmd /\ outbox[t][i].cmd # NoCommand => i = j

=============================================================================
