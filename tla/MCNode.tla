------------------------------- MODULE MCNode -------------------------------
(***************************************************************************)
(* Four configurations: g1 and its edited form g2 (another account,        *)
(* another block), typo (g1 with an undecodable witness address) and hdr   *)
(* (g1 with an undecodable parent hash).                                   *)
(***************************************************************************)
EXTENDS Node

Write(k, v) == [key |-> k, val |-> v]

MCKeys == {"acct1", "acct2", "witness", "props"}
MCVals == {"x", "y"}

MCEntries ==
    [g \in Genesis |->
        CASE g = "g1" -> <<Write("acct1", "x"), Write("witness", "x"), Write("props", "x"),
                           Write("LATEST_BLOCK_HEADER_TIMESTAMP", "id1")>>
          [] g = "g2" -> <<Write("acct1", "y"), Write("acct2", "y"), Write("props", "x"),
                           Write("LATEST_BLOCK_HEADER_TIMESTAMP", "id2")>>
          [] g = "typo" -> <<Write("acct1", "x"), Malformed>>
          [] g = "hdr" -> <<Write("acct1", "x"), Write("witness", "x"), Write("props", "x")>>]

MCId ==
    [g \in Genesis |->
        CASE g = "g1" -> "id1" [] g = "g2" -> "id2" [] g = "typo" -> "id1"
          [] g = "hdr" -> BadHeader]

=============================================================================
