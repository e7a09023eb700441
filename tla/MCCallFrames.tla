---------------------------- MODULE MCCallFrames ----------------------------
(***************************************************************************)
(* Owner o, two deployed contracts c and d, a precompiled contract p, the  *)
(* address t a deployment would get, n that of a CREATE with nonce 0, and  *)
(* s that of c's CREATE2.                                                  *)
(***************************************************************************)
EXTENDS CallFrames

CONSTANTS o, c, d, p, t, n, s

MCBalance == [a \in Addresses |-> IF a = o THEN 3 ELSE IF a = c THEN 1 ELSE 0]
MCTxValues == {-1, 0, 1, 4}
FirstCreate == [k \in {0} |-> n]
Salted == [x \in {c} |-> s]

=============================================================================
