---------------------------- MODULE MCRevokingDB ----------------------------
(* RevokingDB on two keys, two values and up to three nested sessions.     *)
EXTENDS RevokingDB

=============================================================================
