---------------------------- MODULE MCTaskDispatch ----------------------------
(* t1 is created, updated and cancelled, one message on each of the three  *)
(* topics; t2's two versions are on one topic, newest first; the first     *)
(* message of all breaks the contract.                                     *)
EXTENDS TaskDispatch

CONSTANTS t1, t2

Msg(e, t, v, s, o) ==
    [event |-> e, task |-> t, version |-> v, status |-> s, operator |-> o,
     contract |-> TRUE]

MCLog == [Created   |-> <<[Msg("e2", t2, 9, "UNKNOWN", NoOperator) EXCEPT !.contract = FALSE],
                          Msg("e1", t1, 1, "CREATED", "alice")>>,
          Updated   |-> <<Msg("e3", t1, 2, "ASSIGNED", NoOperator),
                          Msg("e4", t2, 2, "IN_PROGRESS", NoOperator),
                          Msg("e5", t2, 1, "CREATED", NoOperator)>>,
          Cancelled |-> <<Msg("e6", t1, 3, "CANCELLED", NoOperator)>>]
=============================================================================
