---------------------------- MODULE MCTransactions ----------------------------
(***************************************************************************)
(* An account with stake and a contract that does not exist at first.  A   *)
(* window of three slots and an average kept at a scale the limits do not  *)
(* divide, so that every rounding in the recovery happens.                 *)
(***************************************************************************)
EXTENDS Transactions

CONSTANTS a, c, x, y

MCStakes == {<<4, 2>>, <<7, 3>>}
MCBalance == [k \in {a} |-> 6]
MCCallValues == {-10, 2}
MCNumber == (x :> 1) @@ (y :> 2)
MCSlot == (x :> 1) @@ (y :> 2)

=============================================================================
