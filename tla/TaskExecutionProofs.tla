------------------------- MODULE TaskExecutionProofs -------------------------
(***************************************************************************)
(* Proofs about TaskExecution, for every set of tasks, requests, dispatches*)
(* and handlers.                                                           *)
(***************************************************************************)
EXTENDS TaskExecution, TLAPS

\* A handler at work serves a well-formed request, and only a SCAN has
\* evidence left to record.
Busy == \A h \in Handlers : handler[h].pc # "idle" =>
            /\ handler[h].req \in Requests
            /\ WellFormed(handler[h].req)
            /\ handler[h].pc = "mismatch" => handler[h].req.kind = "SCAN"

\* What a request that passed the early checks looks like.
LEMMA RequestTyped ==
    ASSUME NEW r \in Requests
    PROVE  /\ r.cmd \in Commands \union {NoCommand}
           /\ r.kind \in Kinds
           /\ r.task \in Tasks
           /\ r.version \in Nat
           /\ r.operator \in Operators \union {NoOperator}
           /\ r.qty \in Nat
           /\ r.scanType \in ScanTypes
           /\ r.extra \in Values \union {NoValue}
  BY ConstantsAssumption DEF RequestType

\* What a projected dispatch looks like.
LEMMA DispatchTyped ==
    ASSUME NEW d \in Dispatches
    PROVE  /\ d.task \in Tasks
           /\ d.version \in Nat \ {0}
           /\ d.remaining \in Nat
           /\ d.required \in SUBSET ScanTypes
           /\ d.expected \in [ScanTypes -> Values \union {NoValue}]
           /\ d # NoRow
  BY ConstantsAssumption DEF DispatchType

\* The command row that a successful command leaves is the hash of a request.
LEMMA RememberedTyped ==
    ASSUME TypeOK, NEW r \in Requests
    PROVE  Remembered(r) \in [Commands -> SUBSET {Hash(x) : x \in Requests}]
  BY DEF TypeOK, Remembered

\* The fact of a request whose version matches a projected dispatch is a Fact.
LEMMA FactTyped ==
    ASSUME TypeOK, NEW r \in Requests, Matching(r), NEW k \in States
    PROVE  FactOf(r, k) \in Fact
<1>1. projection[r.task] \in Dispatches
  BY RequestTyped DEF TypeOK, Matching
<1>2. scans[r.task] \in SUBSET ScanRow
  BY RequestTyped DEF TypeOK
<1> QED
  BY <1>1, <1>2, RequestTyped, DispatchTyped DEF FactOf, Fact

\* Recording a scan keeps the scan table well-typed.
LEMMA ScanTyped ==
    ASSUME TypeOK, NEW r \in Requests, r.extra # NoValue, NEW b \in BOOLEAN
    PROVE  WithScan(r, b) \in [Tasks -> SUBSET ScanRow]
<1>1. [type |-> r.scanType, value |-> r.extra, accepted |-> b] \in ScanRow
  BY RequestTyped DEF ScanRow
<1> QED
  BY <1>1, RequestTyped DEF TypeOK, WithScan

\* The rows the commands write are execution rows.
LEMMA RowsTyped ==
    ASSUME TypeOK, NEW r \in Requests
    PROVE  {StartedRow(r), CompletedRow(r), FailedRow(r)} \subseteq ExecutionRow
<1>1. execution[r.task] \in ExecutionRow
  BY RequestTyped DEF TypeOK
<1> QED
  BY <1>1, RequestTyped DEF StartedRow, CompletedRow, FailedRow, ExecutionRow, States

-----------------------------------------------------------------------------
(* Type correctness *)

\* The common tail of a successful command.
LEMMA PublishTyped ==
    ASSUME TypeOK, Busy, NEW h \in Handlers, NEW k \in States,
           handler[h].pc = "locking", Matching(handler[h].req), Publish(h, k)
    PROVE  /\ outbox' \in [Tasks -> Seq(Fact)]
           /\ commands' \in [Commands -> SUBSET {Hash(r) : r \in Requests}]
           /\ projection' = projection /\ scans' = scans
           /\ handler' \in [Handlers -> [pc : {"idle", "locking", "mismatch", "ok"},
                                         req : Requests \union {NoRequest}]]
           /\ Busy'
<1> DEFINE r == handler[h].req
<1>1. r \in Requests /\ WellFormed(r)
  BY DEF Busy
<1>2. FactOf(r, k) \in Fact
  BY <1>1, FactTyped
<1>3. outbox' \in [Tasks -> Seq(Fact)]
  BY <1>1, <1>2, RequestTyped DEF TypeOK, Publish
<1>4. commands' \in [Commands -> SUBSET {Hash(x) : x \in Requests}]
  BY <1>1, RememberedTyped DEF Publish
<1>5. handler' = [handler EXCEPT ![h].pc = "ok"]
  BY DEF Publish
<1>6. handler' \in [Handlers -> [pc : {"idle", "locking", "mismatch", "ok"},
                                 req : Requests \union {NoRequest}]]
  BY <1>5 DEF TypeOK
<1>7. Busy'
  BY <1>1, <1>5 DEF TypeOK, Busy, WellFormed
<1> QED
  BY <1>3, <1>4, <1>6, <1>7 DEF Publish

\* TypeOK and Busy are preserved by every step of the service.
LEMMA TypingStep == TypeOK /\ Busy /\ [Next]_vars => TypeOK' /\ Busy'
<1> SUFFICES ASSUME TypeOK, Busy, [Next]_vars PROVE TypeOK' /\ Busy'
  OBVIOUS
<1>1. ASSUME NEW d \in Dispatches, Dispatch(d) PROVE TypeOK' /\ Busy'
  BY <1>1, DispatchTyped DEF Dispatch, TypeOK, Busy, WellFormed
<1>2. ASSUME NEW h \in Handlers, NEW r \in Requests, LookupMiss(h, r) \/ Replay(h, r)
      PROVE  TypeOK' /\ Busy'
  <2>1. PICK p \in {"locking", "ok"} :
            handler' = [handler EXCEPT ![h] = [pc |-> p, req |-> r]]
    BY <1>2 DEF LookupMiss, Replay
  <2>2. WellFormed(r) /\ UNCHANGED <<projection, execution, scans, commands, outbox>>
    BY <1>2 DEF LookupMiss, Replay
  <2>3. TypeOK'
    BY <2>1, <2>2 DEF TypeOK
  <2>4. Busy'
    BY <2>1, <2>2 DEF TypeOK, Busy, WellFormed
  <2> QED
    BY <2>3, <2>4
<1>3. ASSUME NEW h \in Handlers, Start(h) PROVE TypeOK' /\ Busy'
  <2>1. handler[h].req \in Requests /\ Matching(handler[h].req) /\ Publish(h, "STARTED")
    BY <1>3 DEF Start, Busy
  <2>2. execution' \in [Tasks -> ExecutionRow]
    BY <1>3, <2>1, RequestTyped, RowsTyped DEF Start, TypeOK
  <2>3. handler[h].pc = "locking" /\ "STARTED" \in States
    BY <1>3 DEF Start, States
  <2>4. /\ outbox' \in [Tasks -> Seq(Fact)]
        /\ commands' \in [Commands -> SUBSET {Hash(r) : r \in Requests}]
        /\ projection' = projection /\ scans' = scans
        /\ handler' \in [Handlers -> [pc : {"idle", "locking", "mismatch", "ok"},
                                      req : Requests \union {NoRequest}]]
        /\ Busy'
    BY <2>1, <2>3, PublishTyped
  <2> QED
    BY <2>2, <2>4 DEF TypeOK
<1>4. ASSUME NEW h \in Handlers, Scan(h) PROVE TypeOK' /\ Busy'
  <2>1. handler[h].req \in Requests /\ handler[h].req.extra # NoValue
    BY <1>4 DEF Scan, Busy, WellFormed
  <2>2. scans' \in [Tasks -> SUBSET ScanRow]
    BY <1>4, <2>1, ScanTyped DEF Scan
  <2>3. commands' \in [Commands -> SUBSET {Hash(r) : r \in Requests}]
    BY <1>4, <2>1, RememberedTyped DEF Scan
  <2> QED
    BY <1>4, <2>2, <2>3 DEF Scan, TypeOK, Busy, WellFormed
<1>5. ASSUME NEW h \in Handlers, ScanMismatch(h) PROVE TypeOK' /\ Busy'
  BY <1>5 DEF ScanMismatch, TypeOK, Busy, WellFormed
<1>6. ASSUME NEW h \in Handlers, RecordRejectedScan(h) PROVE TypeOK' /\ Busy'
  <2>1. handler[h].req \in Requests /\ handler[h].req.extra # NoValue
    BY <1>6 DEF RecordRejectedScan, Busy, WellFormed
  <2>2. scans' \in [Tasks -> SUBSET ScanRow]
    BY <1>6, <2>1, ScanTyped DEF RecordRejectedScan
  <2> QED
    BY <1>6, <2>2 DEF RecordRejectedScan, TypeOK, Busy, WellFormed, IdleHandler
<1>7. ASSUME NEW h \in Handlers, Complete(h) PROVE TypeOK' /\ Busy'
  <2>1. handler[h].req \in Requests /\ Matching(handler[h].req) /\ Publish(h, "COMPLETED")
    BY <1>7 DEF Complete, Completable, Busy
  <2>2. execution' \in [Tasks -> ExecutionRow]
    BY <1>7, <2>1, RequestTyped, RowsTyped DEF Complete, TypeOK
  <2>3. handler[h].pc = "locking" /\ "COMPLETED" \in States
    BY <1>7 DEF Complete, States
  <2>4. /\ outbox' \in [Tasks -> Seq(Fact)]
        /\ commands' \in [Commands -> SUBSET {Hash(r) : r \in Requests}]
        /\ projection' = projection /\ scans' = scans
        /\ handler' \in [Handlers -> [pc : {"idle", "locking", "mismatch", "ok"},
                                      req : Requests \union {NoRequest}]]
        /\ Busy'
    BY <2>1, <2>3, PublishTyped
  <2> QED
    BY <2>2, <2>4 DEF TypeOK
<1>8. ASSUME NEW h \in Handlers, Fail(h) PROVE TypeOK' /\ Busy'
  <2>1. handler[h].req \in Requests /\ Matching(handler[h].req) /\ Publish(h, "FAILED")
    BY <1>8 DEF Fail, Busy
  <2>2. execution' \in [Tasks -> ExecutionRow]
    BY <1>8, <2>1, RequestTyped, RowsTyped DEF Fail, TypeOK
  <2>3. handler[h].pc = "locking" /\ "FAILED" \in States
    BY <1>8 DEF Fail, States
  <2>4. /\ outbox' \in [Tasks -> Seq(Fact)]
        /\ commands' \in [Commands -> SUBSET {Hash(r) : r \in Requests}]
        /\ projection' = projection /\ scans' = scans
        /\ handler' \in [Handlers -> [pc : {"idle", "locking", "mismatch", "ok"},
                                      req : Requests \union {NoRequest}]]
        /\ Busy'
    BY <2>1, <2>3, PublishTyped
  <2> QED
    BY <2>2, <2>4 DEF TypeOK
<1>9. ASSUME NEW h \in Handlers, Refuse(h) \/ Abort(h) PROVE TypeOK' /\ Busy'
  <2>1. /\ handler' = [handler EXCEPT ![h] = IdleHandler]
        /\ UNCHANGED <<projection, execution, scans, commands, outbox>>
    BY <1>9 DEF Refuse, Abort
  <2>2. TypeOK'
    BY <2>1 DEF TypeOK, IdleHandler
  <2>3. Busy'
    BY <2>1 DEF TypeOK, Busy, WellFormed, IdleHandler
  <2> QED
    BY <2>2, <2>3
<1>10. CASE UNCHANGED vars
  BY <1>10 DEF vars, TypeOK, Busy, WellFormed
<1> QED
  BY <1>1, <1>2, <1>3, <1>4, <1>5, <1>6, <1>7, <1>8, <1>9, <1>10 DEF Next

\* The initial state is well-typed and no handler is at work.
LEMMA TypingInit == Init => TypeOK /\ Busy
  BY DEF Init, TypeOK, Busy, WellFormed, Undispatched, ExecutionRow, States, IdleHandler

\* Every reachable state of the command service is well-typed.
THEOREM TypeCorrect == Spec => []TypeOK
<1>1. TypeOK /\ Busy /\ [Next]_vars => (TypeOK /\ Busy)'
  BY TypingStep
<1> QED
  BY <1>1, TypingInit, PTL DEF Spec

-----------------------------------------------------------------------------
(* What a step does to the outbox and the execution rows *)

\* The command served by request r commits with a fact of kind k.
Commits(r, k) ==
    /\ Matching(r)
    /\ execution[r.task].state \notin Finished
    /\ k = "COMPLETED" => Completable(r)
    /\ <<r.kind, k>> \in {<<"START", "STARTED">>, <<"COMPLETE", "COMPLETED">>, <<"FAIL", "FAILED">>}
    /\ \E row \in ExecutionRow :
           /\ row.state = k
           /\ k = "COMPLETED" => row.confirmed = r.qty
           /\ execution' = [execution EXCEPT ![r.task] = row]
    /\ outbox' = [outbox EXCEPT ![r.task] = Append(@, FactOf(r, k))]
    /\ commands' = Remembered(r)
    /\ scans' = scans

PublishedKinds == {"STARTED", "COMPLETED", "FAILED"}

\* A command that publishes does so on a task that is not finished.
LEMMA CommandCommits ==
    ASSUME TypeOK, Busy, NEW h \in Handlers
    PROVE  /\ Start(h) => Commits(handler[h].req, "STARTED") /\ handler[h].req \in Requests
           /\ Complete(h) => Commits(handler[h].req, "COMPLETED") /\ handler[h].req \in Requests
           /\ Fail(h) => Commits(handler[h].req, "FAILED") /\ handler[h].req \in Requests
<1>1. ASSUME Start(h)
      PROVE  Commits(handler[h].req, "STARTED") /\ handler[h].req \in Requests
  <2>1. handler[h].req \in Requests
    BY <1>1 DEF Start, Busy
  <2>2. StartedRow(handler[h].req) \in ExecutionRow /\ StartedRow(handler[h].req).state = "STARTED"
    BY <2>1, RowsTyped DEF StartedRow
  <2> QED
    BY <1>1, <2>1, <2>2 DEF Start, Publish, Commits
<1>2. ASSUME Complete(h)
      PROVE  Commits(handler[h].req, "COMPLETED") /\ handler[h].req \in Requests
  <2>1. handler[h].req \in Requests
    BY <1>2 DEF Complete, Busy
  <2>2. /\ CompletedRow(handler[h].req) \in ExecutionRow
        /\ CompletedRow(handler[h].req).state = "COMPLETED"
        /\ CompletedRow(handler[h].req).confirmed = handler[h].req.qty
    BY <2>1, RowsTyped DEF CompletedRow
  <2>3. Matching(handler[h].req) /\ execution[handler[h].req.task].state \notin Finished
    BY <1>2 DEF Complete, Completable, Finished
  <2> QED
    BY <1>2, <2>1, <2>2, <2>3 DEF Complete, Publish, Commits
<1>3. ASSUME Fail(h)
      PROVE  Commits(handler[h].req, "FAILED") /\ handler[h].req \in Requests
  <2>1. handler[h].req \in Requests
    BY <1>3 DEF Fail, Busy
  <2>2. FailedRow(handler[h].req) \in ExecutionRow /\ FailedRow(handler[h].req).state = "FAILED"
    BY <2>1, RowsTyped DEF FailedRow
  <2> QED
    BY <1>3, <2>1, <2>2 DEF Fail, Publish, Commits
<1> QED
  BY <1>1, <1>2, <1>3

\* Every step leaves the execution rows and the outbox alone, or is the commit
\* of one command on a task that is not finished.
LEMMA StepCommits ==
    ASSUME TypeOK, Busy, [Next]_vars
    PROVE  \/ UNCHANGED <<execution, outbox>>
           \/ \E r \in Requests, k \in PublishedKinds : Commits(r, k)
<1>1. ASSUME NEW d \in Dispatches, Dispatch(d) PROVE UNCHANGED <<execution, outbox>>
  BY <1>1 DEF Dispatch
<1>2. ASSUME NEW h \in Handlers, NEW r \in Requests, LookupMiss(h, r) \/ Replay(h, r)
      PROVE  UNCHANGED <<execution, outbox>>
  BY <1>2 DEF LookupMiss, Replay
<1>3. ASSUME NEW h \in Handlers,
             Scan(h) \/ ScanMismatch(h) \/ RecordRejectedScan(h) \/ Refuse(h) \/ Abort(h)
      PROVE  UNCHANGED <<execution, outbox>>
  BY <1>3 DEF Scan, ScanMismatch, RecordRejectedScan, Refuse, Abort
<1>4. ASSUME NEW h \in Handlers, Start(h) \/ Complete(h) \/ Fail(h)
      PROVE  \E r \in Requests, k \in PublishedKinds : Commits(r, k)
  BY <1>4, CommandCommits DEF PublishedKinds
<1>5. CASE UNCHANGED vars
  BY <1>5 DEF vars
<1> QED
  BY <1>1, <1>2, <1>3, <1>4, <1>5 DEF Next

\* The facts about a task after a commit: one more for the command's task.
LEMMA CommitFacts ==
    ASSUME TypeOK, NEW r \in Requests, NEW k \in PublishedKinds, Commits(r, k), NEW t \in Tasks
    PROVE  Facts(t)' = IF t = r.task THEN Facts(t) \union {FactOf(r, k)} ELSE Facts(t)
<1>1. r.task \in Tasks /\ outbox \in [Tasks -> Seq(Fact)]
  BY RequestTyped DEF TypeOK
<1>2. FactOf(r, k) \in Fact
  BY FactTyped DEF Commits, PublishedKinds, States
<1>3. outbox' = [outbox EXCEPT ![r.task] = Append(@, FactOf(r, k))]
  BY DEF Commits
<1>4. CASE t # r.task
  BY <1>1, <1>3, <1>4 DEF Facts
<1>5. CASE t = r.task
  <2> DEFINE q == outbox[t]
             f == FactOf(r, k)
  <2>1. outbox'[t] = Append(q, f) /\ q \in Seq(Fact)
    BY <1>1, <1>3, <1>5
  <2>2. /\ DOMAIN Append(q, f) = 1 .. (Len(q) + 1)
        /\ DOMAIN q = 1 .. Len(q)
        /\ \A i \in 1 .. Len(q) : Append(q, f)[i] = q[i]
        /\ Append(q, f)[Len(q) + 1] = f
        /\ Len(q) \in Nat
    BY <2>1, <1>2
  <2> HIDE DEF q, f
  <2>3. {Append(q, f)[i] : i \in 1 .. (Len(q) + 1)} = {q[i] : i \in 1 .. Len(q)} \union {f}
    BY <2>2
  <2> QED
    BY <1>5, <2>1, <2>2, <2>3 DEF Facts, q, f
<1> QED
  BY <1>4, <1>5

-----------------------------------------------------------------------------
(* Finished tasks stay finished *)

\* No step changes the execution row of a finished task or adds a fact about it.
LEMMA FinalStep ==
    ASSUME TypeOK, Busy, [Next]_vars, NEW t \in Tasks, execution[t].state \in Finished
    PROVE  execution'[t] = execution[t] /\ outbox'[t] = outbox[t]
<1>1. CASE UNCHANGED <<execution, outbox>>
  BY <1>1
<1>2. ASSUME NEW r \in Requests, NEW k \in PublishedKinds, Commits(r, k)
      PROVE  execution'[t] = execution[t] /\ outbox'[t] = outbox[t]
  BY <1>2, RequestTyped DEF Commits, TypeOK
<1> QED
  BY <1>1, <1>2, StepCommits

\* A completed or failed task is never changed again, nor told about again,
\* whatever commands, retries and dispatches follow.
THEOREM FinishedTasksAreFinal == Spec => FinishedIsFinal
<1>1. TypeOK /\ Busy /\ [Next]_vars => (TypeOK /\ Busy)'
  BY TypingStep
<1>2. TypeOK /\ Busy /\ [Next]_vars =>
          [\A t \in Tasks : execution[t].state \in Finished =>
               execution'[t] = execution[t] /\ outbox'[t] = outbox[t]]_vars
  BY FinalStep
<1> QED
  BY <1>1, <1>2, TypingInit, PTL DEF Spec, FinishedIsFinal

-----------------------------------------------------------------------------
(* Completions are justified *)

\* A completion fact exists only about a completed task: this is what makes
\* CompletionIsJustified inductive, since the confirmed quantity of a task in
\* any other state may still be written.
CompletedIfTold ==
    \A t \in Tasks : \A f \in Facts(t) : f.kind = "COMPLETED" =>
        execution[t].state = "COMPLETED"

\* A fact that a step adds about a task is justified when it is added.
LEMMA CompletionStep ==
    ASSUME TypeOK, Busy, CompletedIfTold, CompletionIsJustified, [Next]_vars
    PROVE  CompletedIfTold' /\ CompletionIsJustified'
<1>1. CASE UNCHANGED <<execution, outbox>>
  BY <1>1 DEF CompletedIfTold, CompletionIsJustified, Facts
<1>2. ASSUME NEW r \in Requests, NEW k \in PublishedKinds, Commits(r, k),
             NEW t \in Tasks, NEW f \in Facts(t)', f.kind = "COMPLETED"
      PROVE  /\ execution'[t].state = "COMPLETED"
             /\ f.qty = execution'[t].confirmed
             /\ f.qty \in 1 .. (f.remaining + Tolerance)
             /\ \A x \in f.required : \E z \in f.evidence : z.type = x /\ z.accepted
  <2>1. r.task \in Tasks /\ execution[r.task].state \notin Finished
    BY <1>2, RequestTyped DEF Commits
  <2>2. CASE f \in Facts(t)
    <3>1. execution[t].state = "COMPLETED"
      BY <1>2, <2>2 DEF CompletedIfTold
    <3>2. execution'[t] = execution[t]
      BY <3>1, FinalStep DEF Finished
    <3> QED
      BY <1>2, <2>2, <3>1, <3>2 DEF CompletionIsJustified
  <2>3. CASE f \notin Facts(t)
    <3>1. t = r.task /\ f = FactOf(r, k)
      BY <1>2, <2>3, CommitFacts
    <3>2. k = "COMPLETED"
      BY <1>2, <3>1 DEF FactOf
    <3>3. Completable(r) /\ execution'[t].state = "COMPLETED" /\ execution'[t].confirmed = r.qty
      BY <1>2, <2>1, <3>1, <3>2 DEF Commits, TypeOK
    <3>4. projection[r.task] \in Dispatches
      BY <2>1, <3>3 DEF Completable, Matching, TypeOK
    <3>5. r.qty \in 1 .. (projection[r.task].remaining + Tolerance)
      BY <3>3, <3>4, RequestTyped, DispatchTyped DEF Completable, Tolerance
    <3>6. \A x \in projection[r.task].required :
              \E z \in scans[r.task] : z.type = x /\ z.accepted
      BY <3>3 DEF Completable, AcceptedTypes
    <3> QED
      BY <3>1, <3>3, <3>5, <3>6 DEF FactOf
  <2> QED
    BY <2>2, <2>3
<1>3. ASSUME NEW r \in Requests, NEW k \in PublishedKinds, Commits(r, k)
      PROVE  CompletedIfTold' /\ CompletionIsJustified'
  BY <1>2, <1>3 DEF CompletedIfTold, CompletionIsJustified
<1> QED
  BY <1>1, <1>3, StepCommits

\* Initially there is no fact.
LEMMA CompletionInit == Init => CompletedIfTold /\ CompletionIsJustified
  BY DEF Init, CompletedIfTold, CompletionIsJustified, Facts

\* Every completion fact in the outbox confirms a quantity within what its
\* dispatch left open, with an accepted scan of every required type.
THEOREM CompletionsAreJustified == Spec => []CompletionIsJustified
<1> DEFINE Inv == TypeOK /\ Busy /\ CompletedIfTold /\ CompletionIsJustified
<1>1. Init => Inv
  BY TypingInit, CompletionInit
<1>2. Inv /\ [Next]_vars => Inv'
  BY TypingStep, CompletionStep
<1> QED
  BY <1>1, <1>2, PTL DEF Spec

-----------------------------------------------------------------------------
(* What is answered "ok" stays true *)

\* Rows of the scan table are never removed or changed.
LEMMA ScansGrow ==
    ASSUME TypeOK, Busy, [Next]_vars, NEW t \in Tasks
    PROVE  scans[t] \subseteq scans'[t]
<1>1. ASSUME NEW r \in Requests, NEW b \in BOOLEAN, scans' = WithScan(r, b)
      PROVE  scans[t] \subseteq scans'[t]
  BY <1>1, RequestTyped DEF WithScan, TypeOK
<1>2. ASSUME NEW h \in Handlers, Scan(h) \/ RecordRejectedScan(h)
      PROVE  scans[t] \subseteq scans'[t]
  BY <1>1, <1>2 DEF Scan, RecordRejectedScan, Busy
<1>3. ASSUME NEW h \in Handlers,
             \/ Start(h) \/ ScanMismatch(h) \/ Complete(h) \/ Fail(h) \/ Refuse(h) \/ Abort(h)
      PROVE  scans' = scans
  BY <1>3 DEF Start, ScanMismatch, Complete, Fail, Refuse, Abort, Publish
<1>4. ASSUME NEW h \in Handlers, NEW r \in Requests, LookupMiss(h, r) \/ Replay(h, r)
      PROVE  scans' = scans
  BY <1>4 DEF LookupMiss, Replay
<1>5. ASSUME NEW d \in Dispatches, Dispatch(d) PROVE scans' = scans
  BY <1>5 DEF Dispatch
<1>6. CASE UNCHANGED vars
  BY <1>6 DEF vars
<1> QED
  BY <1>2, <1>3, <1>4, <1>5, <1>6 DEF Next

\* Facts are never removed.
LEMMA FactsGrow ==
    ASSUME TypeOK, Busy, [Next]_vars, NEW t \in Tasks
    PROVE  Facts(t) \subseteq Facts(t)'
<1>1. CASE UNCHANGED <<execution, outbox>>
  BY <1>1 DEF Facts
<1>2. ASSUME NEW r \in Requests, NEW k \in PublishedKinds, Commits(r, k)
      PROVE  Facts(t) \subseteq Facts(t)'
  BY <1>2, CommitFacts
<1> QED
  BY <1>1, <1>2, StepCommits

\* What has happened stays so.
LEMMA HappenedStays ==
    ASSUME TypeOK, Busy, [Next]_vars, NEW k, k.task \in Tasks, Happened(k)
    PROVE  Happened(k)'
<1>1. Facts(k.task) \subseteq Facts(k.task)' /\ scans[k.task] \subseteq scans'[k.task]
  BY FactsGrow, ScansGrow
<1>2. execution[k.task].state \in Finished => execution'[k.task] = execution[k.task]
  BY FinalStep
<1> QED
  BY <1>1, <1>2 DEF Happened, Finished

\* A request and its hash stand for the same.
LEMMA HashHappened ==
    ASSUME NEW r \in Requests PROVE Happened(Hash(r)) <=> Happened(r)
  BY DEF Happened, Hash

\* A command that commits makes happen what it was asked for.
LEMMA CommitHappens ==
    ASSUME TypeOK, NEW r \in Requests, NEW k \in PublishedKinds, Commits(r, k)
    PROVE  Happened(r)'
<1>1. r.task \in Tasks
  BY RequestTyped
<1>2. CASE k = "STARTED"
  <2>1. r.kind = "START"
    BY <1>2 DEF Commits
  <2>2. FactOf(r, k) \in Facts(r.task)'
    BY <1>1, CommitFacts
  <2>3. FactOf(r, k).kind = "STARTED" /\ FactOf(r, k).operator = r.operator
        /\ FactOf(r, k).version = r.version
    BY <1>2 DEF FactOf, Commits, Matching
  <2> QED
    BY <2>1, <2>2, <2>3 DEF Happened
<1>3. CASE k = "COMPLETED"
  BY <1>1, <1>3 DEF Commits, Happened, TypeOK
<1>4. CASE k = "FAILED"
  BY <1>1, <1>4 DEF Commits, Happened, TypeOK
<1> QED
  BY <1>2, <1>3, <1>4 DEF PublishedKinds

\* A scan that is accepted has its row, new or old.
LEMMA ScanHappens ==
    ASSUME TypeOK, NEW r \in Requests, r.kind = "SCAN", NEW b \in BOOLEAN, scans' = WithScan(r, b)
    PROVE  Happened(r)'
<1>1. r.task \in Tasks
  BY RequestTyped
<1>2. \E s \in scans'[r.task] : s.type = r.scanType /\ s.value = r.extra
  <2>1. CASE \E s \in scans[r.task] : s.type = r.scanType /\ s.value = r.extra
    BY <2>1 DEF WithScan
  <2>2. CASE ~(\E s \in scans[r.task] : s.type = r.scanType /\ s.value = r.extra)
    <3> DEFINE new == [type |-> r.scanType, value |-> r.extra, accepted |-> b]
    <3>1. new \in scans'[r.task]
      BY <1>1, <2>2 DEF WithScan, TypeOK
    <3>2. new.type = r.scanType /\ new.value = r.extra
      OBVIOUS
    <3> QED
      BY <3>1, <3>2
  <2> QED
    BY <2>1, <2>2
<1> QED
  BY <1>2 DEF Happened

\* A command row is added only by the transaction of a request that it makes
\* happen, and a handler says "ok" only for such a request, for one it has
\* said "ok" for before, or for one whose command row it found.
LEMMA AnswerStep ==
    ASSUME TypeOK, Busy, [Next]_vars
    PROVE  /\ \/ commands' = commands
              \/ \E r \in Requests : commands' = Remembered(r) /\ Happened(r)'
           /\ \A h \in Handlers : handler'[h].pc = "ok" =>
                 \/ handler[h].pc = "ok" /\ handler'[h].req = handler[h].req
                 \/ \E r \in Requests : /\ handler'[h].req = r
                                        /\ \/ Happened(r)'
                                           \/ r.cmd # NoCommand /\ Hash(r) \in commands[r.cmd]
<1> DEFINE Row == \/ commands' = commands
                  \/ \E r \in Requests : commands' = Remembered(r) /\ Happened(r)'
           Ok(h) == handler'[h].pc = "ok" =>
                 \/ handler[h].pc = "ok" /\ handler'[h].req = handler[h].req
                 \/ \E r \in Requests : /\ handler'[h].req = r
                                        /\ \/ Happened(r)'
                                           \/ r.cmd # NoCommand /\ Hash(r) \in commands[r.cmd]
           Good == Row /\ \A h \in Handlers : Ok(h)
<1>1. ASSUME NEW g \in Handlers, NEW r \in Requests, r = handler[g].req, Happened(r)',
             commands' = Remembered(r), handler' = [handler EXCEPT ![g].pc = "ok"]
      PROVE  Good
  BY <1>1 DEF TypeOK
<1>2. ASSUME NEW g \in Handlers, Start(g) \/ Complete(g) \/ Fail(g)
      PROVE  Good
  <2>1. PICK r \in Requests, k \in PublishedKinds : r = handler[g].req /\ Commits(r, k)
    BY <1>2, CommandCommits DEF PublishedKinds
  <2>2. commands' = Remembered(r) /\ handler' = [handler EXCEPT ![g].pc = "ok"]
    BY <1>2, <2>1 DEF Start, Complete, Fail, Publish
  <2>3. Happened(r)'
    BY <2>1, CommitHappens
  <2> QED
    BY <1>1, <2>1, <2>2, <2>3
<1>3. ASSUME NEW g \in Handlers, Scan(g)
      PROVE  Good
  <2>1. PICK r \in Requests : r = handler[g].req
    BY <1>3 DEF Scan, Busy
  <2>2. /\ commands' = Remembered(r) /\ handler' = [handler EXCEPT ![g].pc = "ok"]
        /\ r.kind = "SCAN" /\ scans' = WithScan(r, TRUE)
    BY <1>3, <2>1 DEF Scan
  <2>3. Happened(r)'
    BY <2>2, ScanHappens
  <2> QED
    BY <1>1, <2>1, <2>2, <2>3
<1>4. ASSUME NEW g \in Handlers, NEW r \in Requests, Replay(g, r)
      PROVE  Good
  <2>1. r.cmd # NoCommand /\ Hash(r) \in commands[r.cmd]
    BY <1>4 DEF Replay, Known
  <2> QED
    BY <1>4, <2>1 DEF Replay, TypeOK
<1>5. ASSUME commands' = commands,
             NEW g \in Handlers, NEW new, new.pc # "ok", handler' = [handler EXCEPT ![g] = new]
      PROVE  Good
  BY <1>5 DEF TypeOK
<1>6. ASSUME NEW g \in Handlers, NEW r \in Requests, LookupMiss(g, r)
      PROVE  Good
  BY <1>5, <1>6 DEF LookupMiss
<1>7. ASSUME NEW g \in Handlers, RecordRejectedScan(g) \/ Refuse(g) \/ Abort(g)
      PROVE  Good
  BY <1>5, <1>7 DEF RecordRejectedScan, Refuse, Abort, IdleHandler
<1>8. ASSUME NEW g \in Handlers, ScanMismatch(g)
      PROVE  Good
  BY <1>8 DEF ScanMismatch, TypeOK
<1>9. ASSUME NEW d \in Dispatches, Dispatch(d)
      PROVE  Good
  BY <1>9 DEF Dispatch
<1>10. ASSUME UNCHANGED vars PROVE Good
  BY <1>10 DEF vars
<1> HIDE DEF Good
<1>11. Good
  BY <1>2, <1>3, <1>4, <1>6, <1>7, <1>8, <1>9, <1>10 DEF Next
<1> QED
  BY <1>11 DEF Good

\* RemembersWhatItDid and OkIsDurable carry each other: a replay is right
\* because the command row is, and the row was written with the effect.
LEMMA MemoryStep ==
    ASSUME TypeOK, Busy, RemembersWhatItDid, OkIsDurable, [Next]_vars
    PROVE  RemembersWhatItDid' /\ OkIsDurable'
<1>1. ASSUME NEW c \in Commands, NEW k \in commands[c] PROVE Happened(k)'
  <2>1. PICK r \in Requests : k = Hash(r)
    BY DEF TypeOK
  <2>2. k.task \in Tasks
    BY <2>1, RequestTyped DEF Hash
  <2> QED
    BY <2>2, HappenedStays DEF RemembersWhatItDid
<1>2. ASSUME NEW c \in Commands, NEW k \in commands'[c] PROVE Happened(k)'
  <2>1. CASE k \in commands[c]
    BY <1>1, <2>1
  <2>2. CASE k \notin commands[c]
    <3>1. PICK r \in Requests : commands' = Remembered(r) /\ Happened(r)'
      BY <2>2, AnswerStep
    <3>2. k = Hash(r)
      BY <2>2, <3>1 DEF Remembered
    <3> QED
      BY <3>1, <3>2 DEF Happened, Hash
  <2> QED
    BY <2>1, <2>2
<1>3. ASSUME NEW h \in Handlers, handler'[h].pc = "ok" PROVE Happened(handler[h].req)'
  <2>1. CASE handler[h].pc = "ok" /\ handler'[h].req = handler[h].req
    <3>1. PICK r \in Requests : r = handler[h].req
      BY <2>1 DEF Busy
    <3>2. r.task \in Tasks /\ Happened(r)
      BY <2>1, <3>1, RequestTyped DEF OkIsDurable
    <3>3. Happened(r)'
      BY <3>2, HappenedStays
    <3> QED
      BY <2>1, <3>1, <3>3 DEF Happened
  <2>2. ASSUME NEW r \in Requests, handler'[h].req = r, Happened(r)'
        PROVE  Happened(handler[h].req)'
    BY <2>2 DEF Happened
  <2>3. ASSUME NEW r \in Requests, handler'[h].req = r, r.cmd # NoCommand, Hash(r) \in commands[r.cmd]
        PROVE  Happened(handler[h].req)'
    <3>1. r.cmd \in Commands
      BY <2>3, RequestTyped
    <3>2. Happened(Hash(r))'
      BY <1>1, <2>3, <3>1
    <3> QED
      BY <2>2, <2>3, <3>2 DEF Happened, Hash
  <2> QED
    BY <1>3, <2>1, <2>2, <2>3, AnswerStep
<1>4. ASSUME NEW t \in Tasks, NEW f \in Facts(t)', f.cmd # NoCommand
      PROVE  commands'[f.cmd] # {}
  <2>1. ASSUME NEW c \in Commands, commands[c] # {} PROVE commands'[c] # {}
    BY <2>1, AnswerStep DEF Remembered
  <2>2. CASE f \in Facts(t)
    <3>1. f \in Fact
      BY <2>2 DEF TypeOK, Facts
    <3>2. f.cmd \in Commands
      BY <1>4, <3>1 DEF Fact
    <3> QED
      BY <1>4, <2>1, <2>2, <3>2 DEF RemembersWhatItDid
  <2>3. CASE f \notin Facts(t)
    <3>1. PICK r \in Requests, k \in PublishedKinds : Commits(r, k)
      BY <1>4, <2>3, StepCommits DEF Facts
    <3>2. f = FactOf(r, k)
      BY <1>4, <2>3, <3>1, CommitFacts
    <3>3. f.cmd = r.cmd /\ r.cmd \in Commands
      BY <1>4, <3>2, RequestTyped DEF FactOf
    <3> QED
      BY <3>1, <3>3 DEF Commits, Remembered
  <2> QED
    BY <2>2, <2>3
<1>5. RemembersWhatItDid'
  BY <1>2, <1>4 DEF RemembersWhatItDid
<1>6. OkIsDurable'
  BY <1>3 DEF OkIsDurable
<1> QED
  BY <1>5, <1>6

\* Initially nothing is remembered and nobody has been answered.
LEMMA MemoryInit == Init => RemembersWhatItDid /\ OkIsDurable
  BY DEF Init, RemembersWhatItDid, OkIsDurable, Facts, IdleHandler

\* A stored command result is always backed by its effect, and every effect of
\* an identified command has its command row.
THEOREM CommandsRememberWhatTheyDid == Spec => []RemembersWhatItDid
<1> DEFINE Inv == TypeOK /\ Busy /\ RemembersWhatItDid /\ OkIsDurable
<1>1. Init => Inv
  BY TypingInit, MemoryInit
<1>2. Inv /\ [Next]_vars => Inv'
  BY TypingStep, MemoryStep
<1> QED
  BY <1>1, <1>2, PTL DEF Spec

\* An answer "ok" is never invalidated by what happens later.
THEOREM AnswersAreDurable == Spec => []OkIsDurable
<1> DEFINE Inv == TypeOK /\ Busy /\ RemembersWhatItDid /\ OkIsDurable
<1>1. Init => Inv
  BY TypingInit, MemoryInit
<1>2. Inv /\ [Next]_vars => Inv'
  BY TypingStep, MemoryStep
<1> QED
  BY <1>1, <1>2, PTL DEF Spec

-----------------------------------------------------------------------------
(* Wrong scans never count *)

\* The projection row of a task is a dispatch of that task.
RowsInPlace == \A t \in Tasks : projection[t] # NoRow => projection[t].task = t

\* Dispatches are stored under their own task, and nothing else writes the
\* projection.
LEMMA RowsInPlaceStep ==
    ASSUME TypeOK, RowsInPlace, [Next]_vars PROVE RowsInPlace'
<1>1. ASSUME NEW d \in Dispatches, Dispatch(d) PROVE RowsInPlace'
  BY <1>1, DispatchTyped DEF Dispatch, RowsInPlace, TypeOK
<1>2. ASSUME projection' = projection PROVE RowsInPlace'
  BY <1>2 DEF RowsInPlace
<1>3. ASSUME NEW h \in Handlers, NEW r \in Requests, LookupMiss(h, r) \/ Replay(h, r)
      PROVE  projection' = projection
  BY <1>3 DEF LookupMiss, Replay
<1>4. ASSUME NEW h \in Handlers,
             \/ Start(h) \/ Scan(h) \/ ScanMismatch(h) \/ RecordRejectedScan(h)
             \/ Complete(h) \/ Fail(h) \/ Refuse(h) \/ Abort(h)
      PROVE  projection' = projection
  BY <1>4 DEF Start, Scan, ScanMismatch, RecordRejectedScan, Complete, Fail, Refuse, Abort, Publish
<1>5. CASE UNCHANGED vars
  BY <1>2, <1>5 DEF vars
<1> QED
  BY <1>1, <1>2, <1>3, <1>4, <1>5 DEF Next

\* A row is added to the scan table only for a value the table has no row for,
\* and as accepted only if the projected dispatch expects the value.
LEMMA ScanStep ==
    ASSUME TypeOK, Busy, RowsInPlace, AcceptedScansWereExpected, [Next]_vars
    PROVE  AcceptedScansWereExpected'
<1>1. ASSUME NEW r \in Requests, NEW b \in BOOLEAN, scans' = WithScan(r, b),
             b => \E d \in Dispatches : d.task = r.task /\ d.expected[r.scanType] = r.extra
      PROVE  AcceptedScansWereExpected'
  <2>1. r.task \in Tasks /\ scans \in [Tasks -> SUBSET ScanRow]
    BY RequestTyped DEF TypeOK
  <2>2. CASE scans' = scans
    BY <2>2 DEF AcceptedScansWereExpected
  <2>3. CASE scans' # scans
    <3> DEFINE new == [type |-> r.scanType, value |-> r.extra, accepted |-> b]
    <3>1. /\ scans' = [scans EXCEPT ![r.task] = @ \union {new}]
          /\ ~(\E s \in scans[r.task] : s.type = r.scanType /\ s.value = r.extra)
      BY <1>1, <2>3 DEF WithScan
    <3>2. new.type = r.scanType /\ new.value = r.extra /\ new.accepted = b
      OBVIOUS
    <3> HIDE DEF new
    <3>3. ASSUME NEW t \in Tasks, NEW s \in scans'[t]
          PROVE  /\ s.accepted => \E d \in Dispatches : d.task = t /\ d.expected[s.type] = s.value
                 /\ \A x \in scans'[t] : x.type = s.type /\ x.value = s.value => x = s
      <4>1. CASE t # r.task
        BY <2>1, <3>1, <3>3, <4>1 DEF AcceptedScansWereExpected
      <4>2. CASE t = r.task
        <5>1. scans'[t] = scans[t] \union {new}
          BY <2>1, <3>1, <4>2
        <5> QED
          BY <1>1, <3>1, <3>2, <3>3, <4>2, <5>1 DEF AcceptedScansWereExpected
      <4> QED
        BY <4>1, <4>2
    <3> QED
      BY <3>3 DEF AcceptedScansWereExpected
  <2> QED
    BY <2>2, <2>3
<1>2. ASSUME NEW h \in Handlers, Scan(h) PROVE AcceptedScansWereExpected'
  <2>1. PICK r \in Requests : r = handler[h].req
    BY <1>2 DEF Scan, Busy
  <2>2. scans' = WithScan(r, TRUE) /\ Matching(r) /\ Matches(r)
    BY <1>2, <2>1 DEF Scan, Scannable
  <2>3. /\ projection[r.task] \in Dispatches
        /\ projection[r.task].task = r.task
        /\ projection[r.task].expected[r.scanType] = r.extra
    BY <2>2, RequestTyped DEF Matching, Matches, TypeOK, RowsInPlace
  <2>4. \E d \in Dispatches : d.task = r.task /\ d.expected[r.scanType] = r.extra
    BY <2>3
  <2> QED
    BY <1>1, <2>2, <2>4
<1>3. ASSUME NEW h \in Handlers, RecordRejectedScan(h) PROVE AcceptedScansWereExpected'
  <2>1. PICK r \in Requests : r = handler[h].req
    BY <1>3 DEF RecordRejectedScan, Busy
  <2> QED
    BY <1>1, <1>3, <2>1 DEF RecordRejectedScan
<1>4. ASSUME scans' = scans PROVE AcceptedScansWereExpected'
  BY <1>4 DEF AcceptedScansWereExpected
<1>5. ASSUME NEW h \in Handlers,
             \/ Start(h) \/ ScanMismatch(h) \/ Complete(h) \/ Fail(h) \/ Refuse(h) \/ Abort(h)
      PROVE  scans' = scans
  BY <1>5 DEF Start, ScanMismatch, Complete, Fail, Refuse, Abort, Publish
<1>6. ASSUME NEW h \in Handlers, NEW r \in Requests, LookupMiss(h, r) \/ Replay(h, r)
      PROVE  scans' = scans
  BY <1>6 DEF LookupMiss, Replay
<1>7. ASSUME NEW d \in Dispatches, Dispatch(d) PROVE scans' = scans
  BY <1>7 DEF Dispatch
<1>8. CASE UNCHANGED vars
  BY <1>4, <1>8 DEF vars
<1> QED
  BY <1>2, <1>3, <1>4, <1>5, <1>6, <1>7, <1>8 DEF Next

\* A scan that counts carries a value WMS dispatched, and no value has two rows.
THEOREM WrongScansNeverCount == Spec => []AcceptedScansWereExpected
<1> DEFINE Inv == TypeOK /\ Busy /\ RowsInPlace /\ AcceptedScansWereExpected
<1>1. Init => RowsInPlace /\ AcceptedScansWereExpected
  BY DEF Init, RowsInPlace, AcceptedScansWereExpected
<1>2. Init => Inv
  BY <1>1, TypingInit
<1>3. Inv /\ [Next]_vars => Inv'
  BY TypingStep, RowsInPlaceStep, ScanStep
<1> QED
  BY <1>2, <1>3, PTL DEF Spec

-----------------------------------------------------------------------------
(* The facts follow the lifecycle *)

\* The kinds of fact about a task after a commit: the old ones and the new one.
LEMMA KindsAppend ==
    ASSUME NEW q \in Seq(Fact), NEW f \in Fact
    PROVE  [i \in DOMAIN Append(q, f) |-> Append(q, f)[i].kind]
               = Append([i \in DOMAIN q |-> q[i].kind], f.kind)
<1> DEFINE a == [i \in DOMAIN q |-> q[i].kind]
           b == [i \in DOMAIN Append(q, f) |-> Append(q, f)[i].kind]
<1>1. /\ DOMAIN Append(q, f) = 1 .. (Len(q) + 1)
      /\ DOMAIN q = 1 .. Len(q)
      /\ \A i \in 1 .. Len(q) : Append(q, f)[i] = q[i]
      /\ Append(q, f)[Len(q) + 1] = f
      /\ Len(q) \in Nat
  OBVIOUS
<1>2. \A i \in 1 .. Len(q) : q[i].kind \in States
  <2>1. \A i \in 1 .. Len(q) : q[i] \in Fact
    OBVIOUS
  <2> QED
    BY <2>1 DEF Fact
<1>3. a \in Seq(States) /\ Len(a) = Len(q)
  BY <1>1, <1>2
<1>4. /\ DOMAIN Append(a, f.kind) = 1 .. (Len(q) + 1)
      /\ \A i \in 1 .. Len(q) : Append(a, f.kind)[i] = q[i].kind
      /\ Append(a, f.kind)[Len(q) + 1] = f.kind
  BY <1>1, <1>3 DEF Fact
<1>5. /\ DOMAIN b = 1 .. (Len(q) + 1)
      /\ \A i \in 1 .. Len(q) : b[i] = q[i].kind
      /\ b[Len(q) + 1] = f.kind
  BY <1>1
<1>6. /\ b = [i \in DOMAIN b |-> b[i]]
      /\ Append(a, f.kind) = [i \in DOMAIN Append(a, f.kind) |-> Append(a, f.kind)[i]]
  BY <1>3 DEF Fact
<1>7. \A i \in 1 .. (Len(q) + 1) : b[i] = Append(a, f.kind)[i]
  BY <1>1, <1>4, <1>5
<1> HIDE DEF a, b
<1>8. b = Append(a, f.kind)
  BY <1>4, <1>5, <1>6, <1>7
<1> QED
  BY <1>8 DEF a, b

\* Every step of the service is a step of the lifecycle, or leaves it alone.
LEMMA LifecycleStep ==
    ASSUME TypeOK, Busy, [Next]_vars PROVE [Lifecycle!Next]_(Lifecycle!vars)
<1> DEFINE st == [t \in Tasks |-> execution[t].state]
           fs == [t \in Tasks |-> [i \in DOMAIN outbox[t] |-> outbox[t][i].kind]]
<1>1. CASE UNCHANGED <<execution, outbox>>
  BY <1>1 DEF Lifecycle!vars
<1>2. ASSUME NEW r \in Requests, NEW k \in PublishedKinds, Commits(r, k)
      PROVE  Lifecycle!Next
  <2>1. r.task \in Tasks /\ outbox \in [Tasks -> Seq(Fact)] /\ execution \in [Tasks -> ExecutionRow]
    BY RequestTyped DEF TypeOK
  <2>2. FactOf(r, k) \in Fact /\ FactOf(r, k).kind = k
    BY <1>2, FactTyped DEF Commits, PublishedKinds, States, FactOf
  <2>3. st' = [st EXCEPT ![r.task] = k]
    BY <1>2, <2>1 DEF Commits
  <2>4. fs' = [fs EXCEPT ![r.task] = Append(@, k)]
    <3>1. outbox' = [outbox EXCEPT ![r.task] = Append(outbox[r.task], FactOf(r, k))]
      BY <1>2 DEF Commits
    <3>2. fs'[r.task] = Append(fs[r.task], k)
      BY <2>1, <2>2, <3>1, KindsAppend
    <3>3. \A t \in Tasks \ {r.task} : fs'[t] = fs[t]
      BY <2>1, <3>1
    <3> QED
      BY <2>1, <3>2, <3>3
  <2>5. /\ st[r.task] \in {"DISPATCHED", "STARTED"}
        /\ k = "COMPLETED" => st[r.task] = "STARTED"
    BY <1>2, <2>1 DEF Commits, Completable, ExecutionRow, States, Finished
  <2>6. \/ Lifecycle!Publish(r.task, {"DISPATCHED", "STARTED"}, "STARTED")
        \/ Lifecycle!Publish(r.task, {"STARTED"}, "COMPLETED")
        \/ Lifecycle!Publish(r.task, {"DISPATCHED", "STARTED"}, "FAILED")
    BY <2>3, <2>4, <2>5 DEF Lifecycle!Publish, PublishedKinds
  <2> QED
    BY <2>1, <2>6 DEF Lifecycle!Next
<1> QED
  BY <1>1, <1>2, StepCommits

\* The command service implements TaskLifecycle: read in order, the facts about
\* a task are starts, then at most one completion or failure.
THEOREM ServiceFollowsLifecycle == Spec => FollowsLifecycle
<1>1. Init => Lifecycle!Init
  BY DEF Init, Lifecycle!Init, Undispatched
<1>2. TypeOK /\ Busy /\ [Next]_vars => (TypeOK /\ Busy)' /\ [Lifecycle!Next]_(Lifecycle!vars)
  BY TypingStep, LifecycleStep
<1> QED
  BY <1>1, <1>2, TypingInit, PTL DEF Spec, FollowsLifecycle, Lifecycle!Spec
=============================================================================
