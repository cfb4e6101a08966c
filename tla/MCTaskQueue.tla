----------------------------- MODULE MCTaskQueue -----------------------------
(* alice and bob compete for t1, which WMS dispatches, updates under a     *)
(* version that a claim has already used, and withdraws.                   *)
EXTENDS TaskQueue

CONSTANTS t1, alice, bob, k1, k2, k3, h1, h2

QueueRow(s, v) == [status |-> s, operator |-> NoOperator, version |-> v]

MCDispatches ==
    {[task |-> t1, withdrawn |-> FALSE, row |-> QueueRow("NEW", 1)],
     [task |-> t1, withdrawn |-> FALSE, row |-> QueueRow("IN_PROGRESS", 2)],
     [task |-> t1, withdrawn |-> TRUE, row |-> QueueRow("NEW", 3)]}

Req(k, c, o, b) ==
    [key |-> k, kind |-> c, task |-> t1, operator |-> o, base |-> b, foreign |-> FALSE]

\* k2 is used for bob's claim and for one of alice's.
MCRequests ==
    {Req(k1, "CLAIM", alice, 1),
     Req(k2, "CLAIM", bob, 1),
     Req(k2, "CLAIM", alice, 2),
     Req(k3, "RELEASE", alice, 2),
     [Req(k3, "CLAIM", bob, 1) EXCEPT !.foreign = TRUE]}
=============================================================================
