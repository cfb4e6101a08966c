-------------------------- MODULE MCIntegrationRelay --------------------------
(* Two facts: about two tasks where only the fate of each one matters      *)
(* (Apart), a start and a completion of one task where their order does    *)
(* (Together).                                                             *)
EXTENDS IntegrationRelay

Apart == <<"t1", "t2">>
Together == <<"t1", "t1">>
=============================================================================
