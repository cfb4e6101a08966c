----------------------------- MODULE MCWmsGateway ---------------------------
(* Sessions of two commands, most of which meet at one document.             *)
EXTENDS WmsGateway

C0(adapter, kind, doc, operator) ==
    [adapter |-> adapter, kind |-> kind, doc |-> doc, operator |-> operator, quantity |-> 1,
     foreign |-> FALSE, match |-> TRUE]

Sample ==
    [p1 |-> C0("PUTAWAY", "START", "put", "o1"),
     p2 |-> C0("PUTAWAY", "START", "put", "o2"),
     p3 |-> C0("PUTAWAY", "CLAIM", "put", "o2"),
     p4 |-> C0("PUTAWAY", "SCAN", "work", "o1"),
     p5 |-> C0("PUTAWAY", "CONFIRM", "work", "o1"),
     p6 |-> C0("PUTAWAY", "CONFIRM_GROUP", "work", "o1"),
     k1 |-> C0("PICKING", "START", "pick", "o1"),
     k2 |-> C0("PICKING", "CLAIM", "pick", "o1"),
     k3 |-> [C0("PICKING", "ALLOCATE", "pick", "o1") EXCEPT !.foreign = TRUE],
     k4 |-> C0("PICKING", "ALLOCATE", "pick", "o2"),
     k5 |-> C0("PICKING", "COMPLETE", "work", "o1"),
     f1 |-> C0("REPLENISHMENT", "SCAN", "work", "o1"),
     f2 |-> C0("REPLENISHMENT", "CONFIRM", "work", "o1"),
     t1 |-> C0("TASK", "CLAIM", "put", "o1"),
     t2 |-> C0("TASK", "RELEASE", "put", "o1"),
     r1 |-> C0("RECEIVING", "CONFIRM", "receipt", "o1"),
     r2 |-> C0("RECEIVING", "CLAIM", "receipt", "o2"),
     r3 |-> [C0("RECEIVING", "BATCH", "receipt", "o1") EXCEPT !.quantity = 2],
     r4 |-> C0("RECEIVING", "START", "receipt", "o1"),
     r5 |-> C0("RECEIVING", "COMPLETE", "receipt", "o1"),
     r6 |-> [C0("RECEIVING", "CONFIRM", "receipt", "o1") EXCEPT !.match = FALSE],
     r7 |-> C0("RECEIVING", "CONFIRM", "receipt", "o2"),
     n1 |-> C0("COUNT", "SUBMIT", "count", "o1"),
     n2 |-> C0("COUNT", "RECOUNT", "count", "o1"),
     n3 |-> C0("COUNT", "COMPLETE", "count", "o1"),
     m1 |-> C0("TRANSFER", "TRANSFER", "stock", "o1"),
     m2 |-> C0("TRANSFER", "TRANSFER", "stock", "o2"),
     s1 |-> C0("SHIPPING", "VERIFY", "ship", "o1"),
     s2 |-> C0("SHIPPING", "VERIFY", "ship", "o2"),
     s3 |-> C0("SHIPPING", "SHIP", "ship", "o1")]

Pair(a, b) == <<Sample[a], Sample[b]>>
MCSessions == {Pair("p1", "p2"), Pair("p1", "p3"), Pair("p4", "p5"), Pair("p6", "k5"), Pair("k1", "k2"),
               Pair("k1", "k4"), Pair("k2", "k3"), Pair("f1", "f2"), Pair("t1", "t2"), Pair("p1", "t2"),
               Pair("r1", "r3"), Pair("r1", "r2"), Pair("r2", "r3"), Pair("r2", "r4"), Pair("r5", "r6"), Pair("r1", "r7"),
               Pair("n1", "n3"), Pair("n1", "n2"), Pair("m1", "m2"), Pair("s1", "s2"), Pair("s1", "s3")}
MCKeys == 1..2

Row0(status, operator, line) ==
    [status |-> status, operator |-> operator, version |-> 1, line |-> line, quantity |-> 0]
MCFirstRow == [put |-> Row0("READY", NoOperator, 0), pick |-> Row0("ASSIGNED", "o1", 0),
               work |-> Row0("IN_PROGRESS", "o1", 0), receipt |-> Row0("CLAIMED", "o1", 1),
               count |-> Row0("OPEN", NoOperator, 0), stock |-> Row0("STOCK", NoOperator, 0),
               ship |-> Row0("PACKED", NoOperator, 0)]
=============================================================================
