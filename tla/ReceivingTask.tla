---------------------------- MODULE ReceivingTask ---------------------------
(***************************************************************************)
(* The transitions of a receipt                                            *)
(* (internal/execution/receiving/domain/receiving.go).  A row is what the  *)
(* tables receiving_task and receiving_line keep; doc is the part of them  *)
(* that never changes: the expected quantity of each line and the policy.  *)
(* The tables have no column for the condition policy, so a receipt read   *)
(* from them takes any condition.  A command x carries the operator, the   *)
(* version the device saw and, for a quantity, the line, whether the       *)
(* scanned barcode is the line's and whether there is a remark.            *)
(***************************************************************************)
EXTENDS Integers

CONSTANTS Operators, NoOperator

Statuses == {"NEW", "IN_PROGRESS", "PARTIALLY_COMPLETED", "COMPLETED"}

Row(doc) == [status : Statuses, operator : Operators \union {NoOperator}, version : Nat \ {0},
             received : [DOMAIN doc.expected -> Nat]]

Advanced(row, status) == [row EXCEPT !.status = status, !.version = @ + 1]

CanClaim(row, x) == /\ row.version = x.base
                    /\ row.status # "COMPLETED"
                    /\ row.operator \in {NoOperator, x.operator}
Claimed(row, x) == [Advanced(row, "IN_PROGRESS") EXCEPT !.operator = x.operator]

CanStart(row, x) == /\ row.version = x.base
                    /\ row.status # "COMPLETED"
                    /\ row.operator = x.operator
Started(row) == Advanced(row, "IN_PROGRESS")

CanConfirm(doc, row, x) ==
    /\ row.version = x.base
    /\ row.status # "COMPLETED"
    /\ row.operator = x.operator
    /\ x.line \in DOMAIN doc.expected
    /\ x.match
    /\ x.quantity > 0
    /\ LET remaining == doc.expected[x.line] - row.received[x.line] IN
        /\ x.quantity > remaining => doc.allowOverReceipt
        /\ x.quantity # remaining /\ doc.requireRemarkOnVariance => x.remark
Confirmed(row, x) ==
    [Advanced(row, "PARTIALLY_COMPLETED") EXCEPT !.received[x.line] = @ + x.quantity]

\* A completed receipt can be completed again.
CanComplete(doc, row, x) == /\ row.version = x.base
                            /\ row.operator = x.operator
                            /\ \A l \in DOMAIN doc.expected : row.received[l] >= doc.expected[l]
Completed(row) == Advanced(row, "COMPLETED")
=============================================================================
