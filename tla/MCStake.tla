------------------------------- MODULE MCStake -------------------------------
(***************************************************************************)
(* Accounts a and b lend to each other; c is a contract.  One TRX is two   *)
(* sun, so that amounts of three sun leave a fraction of a TRX.            *)
(***************************************************************************)
EXTENDS Stake

CONSTANTS a, b, c

MCBalance == [x \in Accounts |-> IF x = a THEN 6 ELSE IF x = b THEN 3 ELSE 0]
MCErasBalance == [x \in Accounts |-> IF x = a THEN 5 ELSE 3]

=============================================================================
