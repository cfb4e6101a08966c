------------------------------ MODULE WmsClient -----------------------------
(***************************************************************************)
(* The requests of the remote composition to the owner of the documents,   *)
(* the WMS (internal/integration/adapters/wmshttp/client.go), and what the *)
(* adapters take for granted of the WMS itself, which is another program.  *)
(*                                                                         *)
(* A request carries what the owner can tell requests apart by: the        *)
(* idempotency key and the version it expects.  c is the command of a      *)
(* device, k its idempotency key, base the version the device saw and seen *)
(* the version the adapter read.  A row is the owner's: version belongs to *)
(* a task, a shipment, a count or the assignment of a receipt, line to the *)
(* receipt's line, quantity is what the line has recorded.                 *)
(***************************************************************************)
EXTENDS Naturals

CONSTANTS Operators, NoOperator,
          NoKey,        \* a request without an idempotency key
          AnyVersion    \* a request without an expected version

Row == [status : STRING, operator : Operators \union {NoOperator}, version : Nat, line : Nat,
        quantity : Nat]

Request(op, c, k, key, expected) ==
    [op |-> op, doc |-> c.doc, by |-> c.operator, quantity |-> c.quantity, from |-> k,
     key |-> key, expected |-> expected]

\* Mutant: START goes out under the key of the claim.
TaskCommandOneKey(op, c, k, base, seen) ==
    Request(op, c, k, <<"execution", k>>, IF op = "START" THEN seen ELSE base)

\* Mutant: START does not say which version it read.
TaskCommandAnyVersion(op, c, k, base, seen) ==
    IF op = "START" THEN Request(op, c, k, <<"execution", k, "start">>, AnyVersion)
                    ELSE Request(op, c, k, <<"execution", k>>, base)

\* Warehouse Execution tells a command by its key alone, whatever its type:
\* this is why START has a key of its own.
ApplyExecutionTaskCommand(op, c, k, base, seen) ==
    IF op = "START" THEN Request(op, c, k, <<"execution", k, "start">>, seen)
                    ELSE Request(op, c, k, <<"execution", k>>, base)
AllocateExecutionTask(c, k) == Request("ALLOCATE", c, k, <<"execution", k>>, AnyVersion)
RecordExecutionScan(c, k, base) == Request("SCAN", c, k, NoKey, base)

\* Inbound tells the endpoints apart, which share the device's key.
ClaimReceipt(c, k) == Request("CLAIM_RECEIPT", c, k, <<"claim", k>>, AnyVersion)
RecordReceiptQuantity(c, k, seen) == Request("RECORD", c, k, <<"quantity", k>>, seen)
ConfirmReceipt(c, k) == Request("CONFIRM_RECEIPT", c, k, <<"confirm", k>>, AnyVersion)
ReceiveReceipt(c, k, seen) == Request("RECEIVE", c, k, <<"receive", k>>, seen)

SubmitCycleCount(c, k, base) == Request("SUBMIT", c, k, <<"count", k>>, base)
cycleCountCommand(op, c, k, base) == Request(op, c, k, <<"count", k>>, base)

\* The key of a transfer is the command's id; a device that sends a command
\* again sends it with its id.
TransferInventory(c, k) == Request("TRANSFER", c, k, <<"transfer", k>>, AnyVersion)

\* The key is a hash of shipment, package, barcode and version.
VerifyShippingPackage(c, k, base) == Request("VERIFY", c, k, <<"verify", c.doc, base>>, base)
ConfirmShipping(c, k, base) == Request("SHIP", c, k, <<"shipping", k>>, base)

-----------------------------------------------------------------------------
(* The owner                                                               *)

\* From which status a request leads to which.  "" leaves the status alone.
Transition(op) ==
    CASE op = "CLAIM" -> [from |-> {"READY", "ASSIGNED"}, to |-> "CLAIMED"]
      [] op = "START" -> [from |-> {"CLAIMED"}, to |-> "IN_PROGRESS"]
      [] op = "RELEASE" -> [from |-> {"CLAIMED"}, to |-> "READY"]
      [] op = "SCAN" -> [from |-> {"IN_PROGRESS"}, to |-> ""]
      [] op \in {"CONFIRM", "CONFIRM_GROUP"} -> [from |-> {"IN_PROGRESS"}, to |-> "COMPLETED"]
      [] op = "ALLOCATE" -> [from |-> {"READY", "ASSIGNED"}, to |-> ""]
      [] op = "CLAIM_RECEIPT" -> [from |-> {"OPEN"}, to |-> "CLAIMED"]
      [] op = "RECORD" -> [from |-> {"CLAIMED"}, to |-> ""]
      [] op \in {"CONFIRM_RECEIPT", "RECEIVE"} -> [from |-> {"CLAIMED"}, to |-> "CONFIRMED"]
      [] op = "SUBMIT" -> [from |-> {"OPEN"}, to |-> "COUNTED"]
      [] op = "RECOUNT" -> [from |-> {"COUNTED"}, to |-> "OPEN"]
      [] op = "COMPLETE" -> [from |-> {"COUNTED"}, to |-> "COMPLETED"]
      [] op = "TRANSFER" -> [from |-> {"STOCK"}, to |-> ""]
      [] op = "VERIFY" -> [from |-> {"PACKED"}, to |-> "VERIFIED"]
      [] op = "SHIP" -> [from |-> {"VERIFIED"}, to |-> "SHIPPED"]

\* The owner checks the status and the version it is told to expect.  Who asks
\* it checks nowhere: the code gets no promise of that.
Accepts(row, r) ==
    /\ row.status \in Transition(r.op).from
    /\ r.expected \in {AnyVersion, IF r.op = "RECORD" THEN row.line ELSE row.version}
    /\ r.op = "CONFIRM_RECEIPT" => row.quantity > 0

\* A confirmation of a receipt releases its assignment.
HolderAfter(row, r) ==
    CASE r.op \in {"CLAIM", "CLAIM_RECEIPT"} -> r.by
      [] r.op \in {"RELEASE", "CONFIRM_RECEIPT", "RECEIVE"} -> NoOperator
      [] OTHER -> row.operator

RowAfter(row, r) ==
    [status |-> IF Transition(r.op).to = "" THEN row.status ELSE Transition(r.op).to,
     operator |-> HolderAfter(row, r),
     version |-> IF r.op = "RECORD" THEN row.version ELSE row.version + 1,
     line |-> IF r.op \in {"RECORD", "RECEIVE"} THEN row.line + 1 ELSE row.line,
     quantity |-> IF r.op \in {"RECORD", "RECEIVE"} THEN r.quantity ELSE row.quantity]

\* The batch endpoint takes what is posted already for done.
AlreadyPosted(row, r) ==
    r.op = "RECEIVE" /\ row.status = "CONFIRMED" /\ row.quantity = r.quantity
=============================================================================
