------------------------------ MODULE MCPlaidSync ------------------------------
(***************************************************************************)
(* Finite instances of PlaidSync: d and c synchronise; transactions t and  *)
(* u are in accounts a and b.                                              *)
(***************************************************************************)
EXTENDS PlaidSync

CONSTANTS d, c, a, b, t, u, v, w

MCAccountOf == [x \in Tx |-> IF x = t THEN a ELSE b]
=============================================================================
