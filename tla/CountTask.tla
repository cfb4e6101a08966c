------------------------------ MODULE CountTask -----------------------------
(***************************************************************************)
(* The transitions of a cycle count (internal/inventory/domain/            *)
(* inventory.go).  A row is what the tables cycle_count_task and           *)
(* cycle_count_line keep; expected, the system's quantity of each line,    *)
(* never changes.  The variance of a line is what was counted less what    *)
(* was expected.  No transition asks for a status.                         *)
(***************************************************************************)
EXTENDS Integers

CONSTANTS Operators, NoOperator, NotCounted

Statuses == {"NEW", "IN_PROGRESS", "RECOUNT", "COMPLETED"}

Line == [counted : Int \union {NotCounted}, recountRequired : BOOLEAN]
Row(expected) == [status : Statuses, operator : Operators \union {NoOperator},
                  version : Nat \ {0}, lines : [DOMAIN expected -> Line]]

guard(row, x) == row.version = x.base /\ row.operator \in {NoOperator, x.operator}

\* Whoever is the first to change the row becomes its operator.
Advanced(row, status, x) ==
    [row EXCEPT !.status = status, !.operator = x.operator, !.version = @ + 1]

\* A negative count fails at the table (CHECK).
CanSubmit(row, x) == guard(row, x) /\ x.line \in DOMAIN row.lines /\ x.quantity >= 0
Submitted(expected, row, x) ==
    [Advanced(row, "IN_PROGRESS", x) EXCEPT !.lines[x.line] =
        [counted |-> x.quantity, recountRequired |-> x.quantity # expected[x.line]]]

CanRecount(row, x) == guard(row, x) /\ x.line \in DOMAIN row.lines
Recounted(row, x) ==
    [Advanced(row, "RECOUNT", x) EXCEPT !.lines[x.line] =
        [counted |-> NotCounted, recountRequired |-> TRUE]]

CanComplete(row, x) ==
    /\ guard(row, x)
    /\ \A l \in DOMAIN row.lines : /\ row.lines[l].counted # NotCounted
                                   /\ ~row.lines[l].recountRequired
Completed(row, x) == Advanced(row, "COMPLETED", x)
=============================================================================
