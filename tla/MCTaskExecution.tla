--------------------------- MODULE MCTaskExecution ---------------------------
(* Two tasks: t1 is dispatched twice, the second time from another source  *)
(* location and with less left to do; t2 needs no scan.                    *)
EXTENDS TaskExecution, TLC

CONSTANTS t1, t2, alice, bob, c1, c2, c3, c4, locA, locB, locC, h1, h2

Expect(v) == [k \in ScanTypes |-> IF k = "SOURCE" THEN v ELSE NoValue]

MCDispatches ==
    {[task |-> t1, version |-> 1, status |-> "CREATED", remaining |-> 2,
      required |-> {"SOURCE"}, expected |-> Expect(locA)],
     [task |-> t1, version |-> 2, status |-> "ASSIGNED", remaining |-> 1,
      required |-> {"SOURCE"}, expected |-> Expect(locB)],
     [task |-> t2, version |-> 1, status |-> "CREATED", remaining |-> 1,
      required |-> {}, expected |-> Expect(NoValue)]}

Req(c, k, t, v, o, q, e) ==
    [cmd |-> c, kind |-> k, task |-> t, version |-> v, operator |-> o,
     qty |-> q, scanType |-> "SOURCE", extra |-> e]

\* c4 is used for two different requests on t1, and for one on t2.  A request
\* without a key is one the device cannot have replayed.  Quantity 3 is the
\* last one t1's first dispatch lets pass.  locC is nowhere expected, and one
\* scan is blank.
MCRequests ==
    {Req(c1, "START", t1, 1, alice, 0, NoValue),
     Req(NoCommand, "START", t1, 2, bob, 0, NoValue),
     Req(c2, "SCAN", t1, 1, alice, 0, locA),
     Req(NoCommand, "SCAN", t1, 1, bob, 0, locB),
     Req(NoCommand, "SCAN", t1, 2, bob, 0, locB),
     Req(NoCommand, "SCAN", t1, 2, bob, 0, locC),
     Req(NoCommand, "SCAN", t1, 1, bob, 0, NoValue),
     Req(c3, "COMPLETE", t1, 1, alice, 3, NoValue),
     Req(NoCommand, "COMPLETE", t1, 2, bob, 3, NoValue),
     Req(c4, "COMPLETE", t1, 2, bob, 1, NoValue),
     Req(c4, "FAIL", t1, 1, alice, 0, locA),
     Req(c4, "FAIL", t2, 1, NoOperator, 0, locA)}

Symmetry == Permutations(Handlers)
=============================================================================
