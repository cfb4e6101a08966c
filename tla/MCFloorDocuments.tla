-------------------------- MODULE MCFloorDocuments --------------------------
(* A receipt of two lines of one item, one of them received; a count of one  *)
(* line; a shipment of two packages, one of them verified.                    *)
EXTENDS FloorDocuments

MCReceiptDoc == [r |-> [expected |-> [l1 |-> 1, l2 |-> 2], item |-> [l1 |-> "i", l2 |-> "i"],
                        allowOverReceipt |-> FALSE, requireRemarkOnVariance |-> TRUE]]
MCFirstReceipt == [r |-> [status |-> "PARTIALLY_COMPLETED", operator |-> "o1", version |-> 2,
                          received |-> [l1 |-> 1, l2 |-> 0]]]
MCCountExpected == [c |-> [l1 |-> 1]]
MCFirstCount == [c |-> [status |-> "NEW", operator |-> NoOperator, version |-> 1,
                        lines |-> [l1 |-> [counted |-> NotCounted, recountRequired |-> FALSE]]]]
MCFirstShipment == [status |-> "PENDING", pickingComplete |-> FALSE, version |-> 1,
                    packages |-> [k1 |-> "COMPLETED", k2 |-> "PENDING"]]
MCFirstBalance == [i |-> 1]
MCKeys == 1..2

Cmd(table, kind, doc, operator) ==
    [table |-> table, kind |-> kind, doc |-> doc, operator |-> operator, foreign |-> FALSE,
     line |-> "", quantity |-> 0, match |-> TRUE, remark |-> FALSE, package |-> "", barcode |-> "",
     verified |-> {}, carrierValid |-> TRUE]
Confirm(l, q, remark) ==
    [Cmd("receiving", "CONFIRM_QUANTITY", "r", "o1") EXCEPT !.line = l, !.quantity = q, !.remark = remark]
Submit(q) == [Cmd("count", "SUBMIT", "c", "o2") EXCEPT !.line = "l1", !.quantity = q]

MCCommands ==
    {Cmd("receiving", "CLAIM", "r", "o1"),
     Cmd("receiving", "START", "r", "o1"), Cmd("receiving", "COMPLETE", "r", "o1"),
     Confirm("l2", 2, FALSE), Confirm("l2", 1, TRUE), Confirm("l2", 3, TRUE),
     Submit(1), Submit(2), Submit(-1), Cmd("count", "COMPLETE", "c", "o2"),
     [Cmd("count", "RECOUNT", "c", "o2") EXCEPT !.line = "l1"],
     [Cmd("shipping", "VERIFY", "shipment", "o1") EXCEPT !.package = "k2", !.barcode = "k2"],
     [Cmd("shipping", "CONFIRM", "shipment", "o1") EXCEPT !.verified = {"k1", "k2"}]}
=============================================================================
