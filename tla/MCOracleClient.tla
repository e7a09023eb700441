---------------------------- MODULE MCOracleClient ----------------------------
(***************************************************************************)
(* Two goroutines that call, each more than once, and two that close.      *)
(***************************************************************************)
EXTENDS OracleClient

CONSTANTS c1, c2, k1, k2

=============================================================================
