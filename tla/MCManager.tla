----------------------------- MODULE MCManager -----------------------------
(***************************************************************************)
(* Three branches, two of which share their first block:                  *)
(*   a1 - aa2                b1 - bb2 - bbb3                b1 - bc4       *)
(* enough for a switch to fail at its first, a middle or its last block,   *)
(* for a failed restore, and for a later switch from the state it leaves.  *)
(* bc4, and c3, a child of the root, are not numbered one above their      *)
(* parents: c3 prunes the root when it arrives first, bc4 prunes a1 as the *)
(* old head, and GetBranch misses the fork of bc4 and c3.                  *)
(***************************************************************************)
EXTENDS Manager, TLC

MCLabels == {"a", "b", "c"}

MCNumber ==
    <<>> :> 0
    @@ <<"a">> :> 1 @@ <<"a", "a">> :> 2
    @@ <<"b">> :> 1 @@ <<"b", "b">> :> 2 @@ <<"b", "b", "b">> :> 3
    @@ <<"b", "c">> :> 4
    @@ <<"c">> :> 3

MCBlocks == (DOMAIN MCNumber) \ {<<>>}

\* The blocks numbered one above their parents only.
MCRegularBlocks == {b \in MCBlocks : MCNumber[b] = Len(b)}
MCRegularNumber == [b \in MCRegularBlocks \cup {<<>>} |-> MCNumber[b]]

=============================================================================
