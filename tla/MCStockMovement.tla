--------------------------- MODULE MCStockMovement --------------------------
(* Two operators, two places of one item and a third of little room.  Task p  *)
(* puts away from A to B and q from C to B, which has room for one of them;   *)
(* r picks from B to A, against p; n is new; s replenishes C from A; u is     *)
(* completed.                                                                 *)
EXTENDS StockMovement

Row0(status, operator, version, scanned) ==
    [status |-> status, operator |-> operator, version |-> version, completed |-> 0,
     sourceValidated |-> scanned, destinationValidated |-> scanned, itemValidated |-> scanned]
Route0(a, b) == [source |-> a, destination |-> b, item |-> "i"]

MCTasks == {"n", "p", "q", "r", "s", "u"}
MCOrder == [n |-> [workflow |-> "PUTAWAY", required |-> 1, route |-> Route0("A", "B")],
            p |-> [workflow |-> "PUTAWAY", required |-> 2, route |-> Route0("A", "B")],
            q |-> [workflow |-> "PUTAWAY", required |-> 1, route |-> Route0("C", "B")],
            r |-> [workflow |-> "PICKING", required |-> 1, route |-> Route0("B", "A")],
            s |-> [workflow |-> "REPLENISHMENT", required |-> 1, route |-> Route0("A", "C")],
            u |-> [workflow |-> "PICKING", required |-> 1, route |-> Route0("B", "A")]]
MCFirstRow == [n |-> Row0("NEW", NoOperator, 1, FALSE),
               p |-> Row0("IN_PROGRESS", "o1", 3, TRUE),
               q |-> Row0("PARTIALLY_COMPLETED", "o2", 3, TRUE),
               r |-> Row0("IN_PROGRESS", "o2", 3, TRUE),
               s |-> [Row0("IN_PROGRESS", "o2", 2, FALSE) EXCEPT !.sourceValidated = TRUE],
               u |-> [Row0("COMPLETED", "o1", 5, TRUE) EXCEPT !.completed = 1]]

Cmd(kind, t, operator, quantity) ==
    [kind |-> kind, workflow |-> MCOrder[t].workflow, task |-> t, operator |-> operator,
     quantity |-> quantity, match |-> TRUE, foreign |-> FALSE, route |-> NoRoute]
Trf(a, b, quantity) ==
    [kind |-> "TRANSFER", workflow |-> "TRANSFER", task |-> NoTask, operator |-> "o1",
     quantity |-> quantity, match |-> TRUE, foreign |-> FALSE, route |-> Route0(a, b)]

MCCommands ==
    {Cmd("CLAIM", "n", "o1", 0), Cmd("START", "n", "o2", 0), Cmd("SOURCE", "n", "o2", 0),
     Cmd("CONFIRM", "p", "o1", 1), Cmd("CONFIRM", "p", "o1", 2), Cmd("LOT", "p", "o1", 0),
     Cmd("CONFIRM", "q", "o2", 1), Cmd("GROUP", "q", "o1", 0),
     Cmd("CONFIRM", "r", "o2", 1),
     Cmd("DESTINATION", "s", "o2", 0), Cmd("ITEM", "s", "o2", 0),
     Cmd("START", "u", "o1", 0), Cmd("COMPLETE", "u", "o1", 0), Cmd("CONFIRM", "u", "o1", 1),
     Trf("A", "B", 1), Trf("B", "A", 0)}

MCCapacity == [l \in Locations |-> IF l = "B" THEN 4 ELSE 9]
MCCompatible == [l \in Locations |-> IF l = "C" THEN "i" ELSE AnyItem]
MCFirstUsed == [l \in Locations |-> IF l = "B" THEN 2 ELSE 3]
MCFirstStock == [x \in Places \X Items |-> 2]
MCKeys == 1..2
=============================================================================
