---------------------------- MODULE MovementTask ----------------------------
(***************************************************************************)
(* The transitions of a movement task                                      *)
(* (internal/execution/movement/domain/movement.go): what a claim, a       *)
(* start, a scan and a quantity make of the row of the task.               *)
(*                                                                         *)
(* A row is what the table movement_task keeps of a task.  The rest of the *)
(* task, its order, never changes: workflow, item, places and the required *)
(* quantity.  The table has no column for the lot and the LPN of a task,   *)
(* so a task read from it asks for no lot.  A command x carries the        *)
(* operator, the version the device saw and, for a scan, whether the value *)
(* matches the task's.                                                     *)
(***************************************************************************)
EXTENDS Naturals

CONSTANTS Operators, NoOperator

Workflows == {"PUTAWAY", "PICKING", "REPLENISHMENT"}
Statuses == {"NEW", "ASSIGNED", "IN_PROGRESS", "PARTIALLY_COMPLETED", "COMPLETED"}

Row == [status : Statuses, operator : Operators \union {NoOperator}, version : Nat \ {0},
        completed : Nat, sourceValidated : BOOLEAN, destinationValidated : BOOLEAN,
        itemValidated : BOOLEAN]

Remaining(order, row) == order.required - row.completed

Advanced(row, status) == [row EXCEPT !.status = status, !.version = row.version + 1]

guard(row, x) == /\ row.version = x.base
                 /\ row.operator = x.operator
                 /\ row.status \in {"IN_PROGRESS", "PARTIALLY_COMPLETED"}

\* A claim asks for no status: a completed task of one's own is assigned again.
CanClaim(row, x) == row.version = x.base /\ row.operator \in {NoOperator, x.operator}
Claimed(row, x) == IF row.operator # NoOperator /\ row.status = "ASSIGNED"
                   THEN row
                   ELSE [Advanced(row, "ASSIGNED") EXCEPT !.operator = x.operator]

\* Mutant: the version stays as it is.
StartedSilently(row) == [row EXCEPT !.status = "IN_PROGRESS"]

CanStart(row, x) == /\ row.version = x.base
                    /\ row.operator = x.operator
                    /\ row.status \in {"ASSIGNED", "IN_PROGRESS"}
Started(row) == IF row.status = "IN_PROGRESS" THEN row ELSE Advanced(row, "IN_PROGRESS")

CanValidateSource(row, x) == guard(row, x) /\ x.match
SourceScanned(row) == [Advanced(row, row.status) EXCEPT !.sourceValidated = TRUE]

CanValidateDestination(row, x) == guard(row, x) /\ row.sourceValidated /\ x.match
DestinationScanned(row) == [Advanced(row, row.status) EXCEPT !.destinationValidated = TRUE]

CanValidateItem(order, row, x) ==
    /\ guard(row, x)
    /\ row.sourceValidated
    /\ order.workflow = "REPLENISHMENT" => row.destinationValidated
    /\ x.match
ItemScanned(row) == [Advanced(row, row.status) EXCEPT !.itemValidated = TRUE]

\* Any lot will do; the scan also takes a partially completed task back to
\* IN_PROGRESS.
CanValidateLot(row, x) == guard(row, x) /\ row.sourceValidated /\ row.itemValidated
LotScanned(row) == Advanced(row, "IN_PROGRESS")

\* Mutant: the quantity may exceed what remains.
CanMoveAnyQuantity(order, row, x) ==
    /\ guard(row, x)
    /\ row.sourceValidated /\ row.destinationValidated
    /\ order.workflow # "PICKING" => row.itemValidated

CanMove(order, row, x) ==
    /\ guard(row, x)
    /\ row.sourceValidated /\ row.destinationValidated
    /\ order.workflow # "PICKING" => row.itemValidated
    /\ x.quantity \in 1..Remaining(order, row)

Moved(order, row, x) ==
    [Advanced(row, IF x.quantity = Remaining(order, row) THEN "COMPLETED" ELSE "PARTIALLY_COMPLETED")
        EXCEPT !.completed = row.completed + x.quantity]

\* ConfirmGroup looks at the status only, at no version and no operator.
CanConfirmGroup(row) == row.status = "PARTIALLY_COMPLETED"
CanComplete(order, row, x) == Remaining(order, row) = 0 /\ guard(row, x)
Closed(row) == Advanced(row, "COMPLETED")
=============================================================================
