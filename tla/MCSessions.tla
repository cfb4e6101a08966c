----------------------------- MODULE MCSessions -----------------------------
(* One operator with two devices, of which the second lies in a warehouse  *)
(* that is closed to the operator.                                         *)
EXTENDS Sessions, TLC

CONSTANTS alice, d1, d2

MCAccess == {<<alice, d1>>}

Interchangeable ==
    Permutations(Handlers) \union Permutations(SessionIds) \union Permutations(TokenIds)
=============================================================================
