------------------------------ MODULE WmsGateway ----------------------------
(***************************************************************************)
(* The remote composition (cmd/pda-api-gateway with the adapters of        *)
(* internal/integration/adapters/wmshttp): a command of a device becomes a *)
(* sequence of reads and requests to the WMS, made by one goroutine of the *)
(* gateway behind its circuit breaker, with nothing stored on the way.     *)
(*                                                                         *)
(* A request and its answer are one step: while it waits, a goroutine does *)
(* nothing else.  A goroutine can give up at any point (the transport      *)
(* fails, or the gateway's time-out of 5 s, which is shorter than the      *)
(* client's of 10 s, ends the request's context); what it had sent may     *)
(* reach the WMS later, or never.  The device then sends the command again *)
(* under the same key, and may do so before the first attempt has ended.   *)
(***************************************************************************)
EXTENDS WmsClient, Integers, Sequences, FiniteSets

CONSTANTS Keys,         \* idempotency keys of devices
          Sessions,     \* which command is sent under which key
          FirstRow,     \* FirstRow[d]: the owner's row of a document
          Threshold,    \* failures that open the circuit
          Window,       \* for how long
          MaxTrouble    \* bound on what goes wrong in a behaviour

Docs == DOMAIN FirstRow
Attempts == Keys \X {1, 2}

\* The commands each adapter has a method for.
CommandFor(adapter, kinds) ==
    [adapter : {adapter}, kind : kinds, doc : Docs, operator : Operators, quantity : Nat,
     foreign : BOOLEAN, match : BOOLEAN]
CommandType ==
    CommandFor("PUTAWAY", {"CLAIM", "START", "SCAN", "CONFIRM", "CONFIRM_GROUP"})
    \union CommandFor("PICKING", {"CLAIM", "START", "ALLOCATE", "SCAN", "CONFIRM", "COMPLETE"})
    \union CommandFor("REPLENISHMENT", {"SCAN", "CONFIRM"})
    \union CommandFor("TASK", {"CLAIM", "RELEASE"})
    \union CommandFor("RECEIVING", {"CLAIM", "START", "CONFIRM", "BATCH", "COMPLETE"})
    \union CommandFor("COUNT", {"SUBMIT", "RECOUNT", "COMPLETE"})
    \union CommandFor("TRANSFER", {"TRANSFER"})
    \union CommandFor("SHIPPING", {"VERIFY", "SHIP"})

\* The owner counts versions from 1, and what is claimed is somebody's.
ASSUME GatewayAssumption ==
    /\ FirstRow \in [Docs -> Row]
    /\ \A d \in Docs : /\ FirstRow[d].version > 0
                       /\ FirstRow[d].status = "CLAIMED" => FirstRow[d].operator # NoOperator
    /\ Sessions \subseteq [Keys -> CommandType]
    /\ Threshold \in Nat \ {0} /\ Window \in Nat /\ MaxTrouble \in Nat
    /\ NoOperator \notin Operators /\ AnyVersion \notin Nat
    /\ NoKey \notin ({"execution", "claim", "quantity", "confirm", "receive", "count", "transfer",
                     "shipping"} \X Keys)
                   \union ({"execution"} \X Keys \X {"start"}) \union ({"verify"} \X Docs \X Nat)

VARIABLES command,   \* command[k]: what devices send under key k
          rows,      \* rows[d]: the owner's documents
          answers,   \* what the owner answered to a key
          effects,   \* the changes the owner made, by request
          late,      \* requests nobody waits for any more
          attempt,   \* attempt[a]: what a goroutine has still to do
          told,      \* told[k]: what the device was told last of its command
          base,      \* base[k]: the version the device saw
          breaker,   \* gatewayBreaker
          trouble    \* how often something went wrong

vars == <<command, rows, answers, effects, late, attempt, told, base, breaker, trouble>>
ownerVars == <<rows, answers, effects>>

Ended == [todo |-> <<>>, seen |-> 0]

Init == /\ command \in Sessions
        /\ rows = FirstRow
        /\ answers = {}
        /\ effects = {}
        /\ late = {}
        /\ attempt = [a \in Attempts |-> Ended]
        /\ told = [k \in Keys |-> "nothing"]
        /\ base = [k \in Keys |-> 0]
        /\ breaker = [failures |-> 0, open |-> FALSE, left |-> 0]
        /\ trouble = 0

-----------------------------------------------------------------------------
(* The circuit breaker                                                     *)

\* The circuit is closed, or its time is over, and then it is closed by this.
Admits == ~breaker.open \/ breaker.left = 0
Allow == IF breaker.open THEN [failures |-> 0, open |-> FALSE, left |-> 0] ELSE breaker

\* A success leaves an open circuit open; a late failure opens it anew.
Record(failed) ==
    IF ~failed THEN [breaker EXCEPT !.failures = 0]
    ELSE IF breaker.failures + 1 >= Threshold
         THEN [failures |-> breaker.failures + 1, open |-> TRUE, left |-> Window]
         ELSE [breaker EXCEPT !.failures = @ + 1]

Tick == /\ breaker.left > 0
        /\ breaker' = [breaker EXCEPT !.left = @ - 1]
        /\ UNCHANGED <<ownerVars, late, attempt, told, base, command, trouble>>

-----------------------------------------------------------------------------
(* What each adapter does for a command: reads in small letters, requests  *)
(* to the owner in capitals.                                               *)

PutawaySteps(kind) ==
    CASE kind = "START" -> <<"detail", "CLAIM", "enrich", "START", "enrich">>
      [] kind = "SCAN" -> <<"SCAN", "detail">>
      [] OTHER -> <<kind, "enrich">>

\* Claim, in Start too, looks at the task once more.
PickingSteps(kind) ==
    CASE kind = "START" -> <<"detail", "own", "CLAIM", "enrich", "START", "enrich">>
      [] kind = "CLAIM" -> <<"own", "CLAIM", "enrich">>
      [] kind = "SCAN" -> <<"SCAN", "detail">>
      [] OTHER -> <<kind, "enrich">>

ReplenishmentSteps(kind) == IF kind = "SCAN" THEN <<"SCAN", "detail">> ELSE <<kind, "enrich">>

TaskSteps(kind) == <<kind>>

\* CONFIRM continues from its first read, see After.
ReceivingSteps(kind) ==
    CASE kind = "CLAIM" -> <<"CLAIM_RECEIPT", "detail">>
      [] kind = "START" -> <<"start">>
      [] kind = "CONFIRM" -> <<"receipt">>
      [] kind = "BATCH" -> <<"receipt", "assigned", "RECEIVE", "detail">>
      [] kind = "COMPLETE" -> <<"detail">>

CountSteps(kind) == <<kind, "detail">>
TransferSteps(kind) == <<kind>>
ShippingSteps(kind) == <<"detail", kind, "detail">>

\* What the WMS has no contract for.
Unavailable(c) == c.adapter = "PICKING" /\ c.kind = "COMPLETE"

Steps(c) ==
    CASE c.adapter = "PUTAWAY" -> PutawaySteps(c.kind)
      [] c.adapter = "PICKING" -> IF Unavailable(c) THEN <<"unavailable">> ELSE PickingSteps(c.kind)
      [] c.adapter = "REPLENISHMENT" -> ReplenishmentSteps(c.kind)
      [] c.adapter = "TASK" -> TaskSteps(c.kind)
      [] c.adapter = "RECEIVING" -> ReceivingSteps(c.kind)
      [] c.adapter = "COUNT" -> CountSteps(c.kind)
      [] c.adapter = "TRANSFER" -> TransferSteps(c.kind)
      [] c.adapter = "SHIPPING" -> ShippingSteps(c.kind)

-----------------------------------------------------------------------------
(* Reads and answers                                                       *)

Unassigned(c, row) == row.operator \in {NoOperator, c.operator}

\* detail of the movement adapters: warehouse and operator; a picking task must
\* be assigned.  Detail of receipts and counts asks the same; Summary of
\* shipments looks at the warehouse only.
Visible(c, row) ==
    /\ ~c.foreign
    /\ c.adapter = "SHIPPING" \/ Unassigned(c, row)
    /\ c.adapter = "PICKING" => row.operator # NoOperator

\* Start of a receipt changes the copy the answer is made of, and nothing else.
StartsLocally(c, row, b) ==
    /\ Visible(c, row)
    /\ row.operator = c.operator
    /\ row.status # "CONFIRMED"
    /\ b = row.version

Assigned(c, row) == Visible(c, row) /\ row.operator = c.operator /\ row.status = "CLAIMED"

\* Start goes on from these; a claim leaves an operator its task.
Startable(c, row) == c.kind = "START" => row.status \in {"READY", "ASSIGNED", "CLAIMED", "IN_PROGRESS"}

\* The barcode of a confirmation, and the packages of a shipment, are the
\* document's.
Matches(c, step) == step \in {"receipt", "lines", "detail"} => c.match

\* What must hold of the row a step returned for the adapter to go on.
Continues(c, step, row, b) ==
    CASE step = "unavailable" -> FALSE
      [] step = "detail" -> /\ Visible(c, row)
                            /\ c.adapter \in {"PUTAWAY", "PICKING"} => Startable(c, row)
                            /\ c.adapter = "SHIPPING" => Matches(c, step)
      [] step = "own" -> Visible(c, row) /\ row.operator = c.operator
      [] step = "start" -> StartsLocally(c, row, b)
      [] step = "receipt" -> row.status = "CONFIRMED" => Matches(c, step)
      [] step = "assigned" -> Assigned(c, row)
      [] step = "lines" -> Matches(c, step)
      [] step = "ALLOCATE" -> ~c.foreign /\ Unassigned(c, row)
      [] OTHER -> TRUE

\* Mutant: a confirmed receipt is not looked for.
ConfirmStepsBlind(row) == <<"assigned", "lines", "RECORD", "CONFIRM_RECEIPT", "detail">>

\* A receipt that is confirmed is no longer assigned: a confirmation that is
\* sent again goes to the batch endpoint.
ConfirmSteps(row) ==
    IF row.status = "CONFIRMED" THEN <<"RECEIVE", "detail">>
    ELSE <<"assigned", "lines", "RECORD", "CONFIRM_RECEIPT", "detail">>

\* A task in progress is answered as it is; a putaway task that is the
\* operator's is not claimed again, a picking task is.
StartSteps(c, row, rest) ==
    CASE row.status = "IN_PROGRESS" -> <<>>
      [] row.status \in {"ASSIGNED", "CLAIMED"} /\ c.adapter = "PUTAWAY" -> Tail(Tail(rest))
      [] OTHER -> rest

\* A confirmed receipt is also the end of a batch's look at the assignment.
BatchSteps(row, rest) == IF row.status = "CONFIRMED" THEN Tail(rest) ELSE rest

After(c, step, row, rest) ==
    CASE step = "receipt" /\ c.kind = "CONFIRM" -> ConfirmSteps(row)
      [] step = "receipt" /\ c.kind # "CONFIRM" -> BatchSteps(row, rest)
      [] step = "detail" /\ c.kind = "START" -> StartSteps(c, row, rest)
      [] step = "CLAIM" /\ c.kind = "START" /\ row.status = "IN_PROGRESS" -> <<>>
      [] OTHER -> rest

\* The version the adapter keeps from a step, for a later request.
Seen(step, row, seen) ==
    CASE step \in {"detail", "receipt", "CLAIM"} -> row.version
      [] step = "lines" -> row.line
      [] OTHER -> seen

-----------------------------------------------------------------------------
(* A goroutine                                                             *)

Cmd(a) == command[a[1]]
Busy(a) == attempt[a].todo # <<>>
Step(a) == Head(attempt[a].todo)

Reads == {"detail", "own", "start", "receipt", "assigned", "lines", "enrich", "unavailable"}

\* The request of the next step.
RequestOf(a) ==
    LET c == Cmd(a)
        k == a[1]
        op == Step(a)
        b == base[k]
        seen == attempt[a].seen IN
    CASE c.adapter = "COUNT" -> IF op = "SUBMIT" THEN SubmitCycleCount(c, k, b)
                                ELSE cycleCountCommand(op, c, k, b)
      [] c.adapter = "TRANSFER" -> TransferInventory(c, k)
      [] c.adapter = "SHIPPING" -> IF op = "VERIFY" THEN VerifyShippingPackage(c, k, b)
                                   ELSE ConfirmShipping(c, k, b)
      [] op = "CLAIM_RECEIPT" -> ClaimReceipt(c, k)
      [] op = "RECORD" -> RecordReceiptQuantity(c, k, seen)
      [] op = "CONFIRM_RECEIPT" -> ConfirmReceipt(c, k)
      [] op = "RECEIVE" -> ReceiveReceipt(c, k, seen)
      [] op = "ALLOCATE" -> AllocateExecutionTask(c, k)
      [] op = "SCAN" -> RecordExecutionScan(c, k, b)
      [] OTHER -> ApplyExecutionTaskCommand(op, c, k, b, seen)

\* The goroutine ends and its device is told so, unless it knows already that
\* the command is done.
Answer(a, what, failed) ==
    /\ attempt' = [attempt EXCEPT ![a] = Ended]
    /\ told' = [told EXCEPT ![a[1]] = IF @ = "ok" THEN @ ELSE what]
    /\ breaker' = Record(failed)
    /\ UNCHANGED <<base, command>>

\* A step returned a row.
Proceed(a, row) ==
    LET rest == After(Cmd(a), Step(a), row, Tail(attempt[a].todo)) IN
    IF ~Continues(Cmd(a), Step(a), row, base[a[1]]) THEN Answer(a, "refused", FALSE)
    ELSE IF rest = <<>> THEN Answer(a, "ok", FALSE)
    ELSE /\ attempt' = [attempt EXCEPT ![a] =
                [todo |-> rest, seen |-> Seen(Step(a), row, attempt[a].seen)]]
         /\ UNCHANGED <<told, base, command, breaker>>

Trouble == trouble < MaxTrouble /\ trouble' = trouble + 1

\* A device sends its command, with the version it saw the first time; or it
\* sends it again before the first attempt has ended.
Admit(a) ==
    LET k == a[1] IN
    /\ ~Busy(a)
    /\ \/ a[2] = 1 /\ UNCHANGED trouble
       \/ a[2] = 2 /\ Busy(<<k, 1>>) /\ Trouble
    /\ told[k] # "ok"
    /\ Admits
    /\ breaker' = Allow
    /\ attempt' = [attempt EXCEPT ![a] = [todo |-> Steps(command[k]), seen |-> 0]]
    /\ base' = [base EXCEPT ![k] = IF @ = 0 THEN rows[command[k].doc].version ELSE @]
    /\ UNCHANGED <<ownerVars, late, told, command>>

Read(a) ==
    /\ Busy(a)
    /\ Step(a) \in Reads
    /\ Proceed(a, rows[Cmd(a).doc])
    /\ UNCHANGED <<ownerVars, late, trouble>>

-----------------------------------------------------------------------------
(* The owner handles a request                                             *)

Known(r) == {x \in answers : x.key = r.key}

\* Change the document, keep the answer.
Handle(r) ==
    LET row == rows[r.doc] IN
    /\ Known(r) = {}
    /\ Accepts(row, r)
    /\ rows' = [rows EXCEPT ![r.doc] = RowAfter(row, r)]
    /\ answers' = IF r.key = NoKey THEN answers
                  ELSE answers \union {[key |-> r.key, row |-> RowAfter(row, r)]}
    /\ effects' = effects \union {[from |-> r.from, op |-> r.op, doc |-> r.doc, by |-> r.by,
                                   holder |-> row.operator, version |-> RowAfter(row, r).version]}

Call(a) ==
    /\ Busy(a)
    /\ Step(a) \notin Reads
    /\ Handle(RequestOf(a))
    /\ Proceed(a, RowAfter(rows[Cmd(a).doc], RequestOf(a)))
    /\ UNCHANGED <<late, trouble>>

\* The owner knows the key, or finds the receipt posted.
Replayed(a) ==
    /\ Busy(a)
    /\ Step(a) \notin Reads
    /\ \/ \E x \in Known(RequestOf(a)) : Proceed(a, x.row)
       \/ /\ Known(RequestOf(a)) = {}
          /\ AlreadyPosted(rows[Cmd(a).doc], RequestOf(a))
          /\ Proceed(a, rows[Cmd(a).doc])
    /\ UNCHANGED <<ownerVars, late, trouble>>

Refused(a) ==
    /\ Busy(a)
    /\ Step(a) \notin Reads
    /\ Known(RequestOf(a)) = {}
    /\ ~Accepts(rows[Cmd(a).doc], RequestOf(a))
    /\ ~AlreadyPosted(rows[Cmd(a).doc], RequestOf(a))
    /\ Answer(a, "refused", FALSE)
    /\ UNCHANGED <<ownerVars, late, trouble>>

\* A request arrives that nobody waits for.
Late(r) ==
    /\ late' = late \ {r}
    /\ Handle(r)
    /\ UNCHANGED <<attempt, told, base, command, breaker, trouble>>

-----------------------------------------------------------------------------
(* What goes wrong                                                         *)

\* No answer in time, or none at all.  This is an internal error to the
\* breaker, which does not count it.
GiveUp(a) ==
    /\ Busy(a)
    /\ Trouble
    /\ late' = IF Step(a) \in Reads THEN late ELSE late \union {RequestOf(a)}
    /\ Answer(a, "error", FALSE)
    /\ UNCHANGED ownerVars

\* The owner says that it is unavailable.
OwnerUnavailable(a) ==
    /\ Busy(a)
    /\ Step(a) # "unavailable"
    /\ Trouble
    /\ Answer(a, "error", TRUE)
    /\ UNCHANGED <<ownerVars, late>>

\* A document in other hands is a new version of it.
Given(row, status, o) ==
    [status |-> status, operator |-> o, version |-> row.version + 1, line |-> row.line,
     quantity |-> row.quantity]

\* A supervisor gives a task to another operator.
Reassign(d, o) ==
    /\ rows[d].status \in {"READY", "ASSIGNED", "CLAIMED"}
    /\ rows[d].line = 0
    /\ o # rows[d].operator
    /\ Trouble
    /\ rows' = [rows EXCEPT ![d] = Given(@, "ASSIGNED", o)]
    /\ UNCHANGED <<answers, effects, late, attempt, told, base, command, breaker>>

\* The lease of a claimed receipt is over.
LeaseExpires(d) ==
    /\ rows[d].status = "CLAIMED" /\ rows[d].line > 0
    /\ Trouble
    /\ rows' = [rows EXCEPT ![d] = Given(@, "OPEN", NoOperator)]
    /\ UNCHANGED <<answers, effects, late, attempt, told, base, command, breaker>>

-----------------------------------------------------------------------------
Serve(a) == Read(a) \/ Call(a) \/ Replayed(a) \/ Refused(a)

Next == \/ \E a \in Attempts : Admit(a) \/ Serve(a) \/ GiveUp(a) \/ OwnerUnavailable(a)
        \/ \E r \in late : Late(r)
        \/ \E d \in {command[k].doc : k \in Keys} :
            LeaseExpires(d) \/ \E o \in Operators : Reassign(d, o)
        \/ Tick

\* A goroutine runs, time passes, and a device sends its command until it is
\* told that it is done.
Fairness == /\ \A a \in Attempts : WF_vars(Serve(a))
            /\ \A k \in Keys : WF_vars(Admit(<<k, 1>>))
            /\ WF_vars(Tick)

Spec == Init /\ [][Next]_vars /\ Fairness

-----------------------------------------------------------------------------
(* Properties                                                              *)

\* The change of the owner's documents a success stands for.
Promised(c) ==
    CASE c.adapter = "RECEIVING" /\ c.kind \in {"CONFIRM", "BATCH"} -> {"CONFIRM_RECEIPT", "RECEIVE"}
      [] c.adapter = "RECEIVING" /\ c.kind = "CLAIM" -> {"CLAIM_RECEIPT"}
      [] OTHER -> {c.kind}

\* Start and Complete of a receipt change nothing at the owner.
Local(c) == c.adapter = "RECEIVING" /\ c.kind \in {"START", "COMPLETE"}

\* The owner has changed the document as asked, for the same operator.  A package
\* is verified for whoever shows it at this version, and a receipt is posted for
\* whoever confirms the quantity it was posted with.
Achieved(k) ==
    LET c == command[k] IN
    \/ \E e \in effects : /\ e.doc = c.doc
                          /\ e.op \in Promised(c)
                          /\ e.op # "VERIFY" => e.by = c.operator
    \/ /\ c.adapter = "RECEIVING" /\ c.kind \in {"CONFIRM", "BATCH"}
       /\ rows[c.doc].status = "CONFIRMED" /\ rows[c.doc].quantity = c.quantity
    \/ c.kind = "START" /\ FirstRow[c.doc].status = "IN_PROGRESS"

\* However often a command is sent, with attempts that overlap and requests that
\* arrive late, the owner makes each change of it at most once; and a device is
\* told that its command is done only if the owner's documents show it.
AnsweredIsApplied ==
    /\ \A e, f \in effects : e.from = f.from /\ e.op = f.op /\ e.op # "SCAN" => e = f
    /\ \A k \in Keys : told[k] = "ok" /\ ~Local(command[k]) => Achieved(k)

\* The operator who starts a task holds it: what Start read, or claimed, is
\* what the owner starts, although tasks are claimed by others and given to
\* others in between, and the owner does not look at who asks.
StartedByHolder == \A e \in effects : e.op = "START" => e.by = e.holder

\* The effect of k is there, and still the one asked for.  Allocate finds out
\* after the fact that the task is another's, and says so ever after.
Applied(k) ==
    LET c == command[k] IN
    /\ \E e \in effects : /\ e.from = k
                          /\ e.op \in Promised(c)
                          /\ e.op = "ALLOCATE" => e.holder \in {NoOperator, e.by}
    /\ c.adapter = "RECEIVING" /\ c.kind # "CLAIM" => rows[c.doc].quantity = c.quantity

\* The document has gone on without the device.
MovedOn(k) == \/ ~Unassigned(command[k], rows[command[k].doc])
              \/ command[k].foreign
              \/ command[k].kind = "START" /\ rows[command[k].doc].status = "COMPLETED"

\* Once a command has taken effect, the device that sends it again is told so,
\* although its answer was lost, the owner was away or the circuit was open: no
\* state of the document makes the adapter refuse its own doing for good.  Scans
\* have no key and no such promise.
RetryAnswered ==
    \A k \in Keys : (command[k].kind # "SCAN" /\ Applied(k)) ~>
        (told[k] = "ok" \/ MovedOn(k))
=============================================================================
