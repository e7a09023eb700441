----------------------------- MODULE MCRewards -----------------------------
(***************************************************************************)
(* A witness without votes at the start and a voter with ballots of one    *)
(* and two votes: the voter alone may own the pool, or, once the count has *)
(* drifted, a share of it that does not divide it.                         *)
(***************************************************************************)
EXTENDS Rewards

CONSTANTS sr, voter

MCAccounts == {sr, voter}
MCWitnesses == {sr}
MCBallots == {[w \in MCWitnesses |-> n] : n \in {1, 2}}
MCGenesisVotes == [w \in MCWitnesses |-> 0]

=============================================================================
