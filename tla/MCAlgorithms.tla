---------------------------- MODULE MCAlgorithms ----------------------------
(* Inputs for Algorithms: words of two bytes of two bits, the curve over   *)
(* the field of seven elements, a checksum that depends on every byte.     *)
EXTENDS Algorithms

MCCurve == {p \in (0 .. P - 1) \X (0 .. P - 1) : (p[2] * p[2]) % P = (p[1] * p[1] * p[1] + 3) % P}
MCTwist == {<<1, 2, 3, 4>>, <<2, 1, 5, 6>>, <<3, 3, 1, 1>>}
MCSubgroup == {<<1, 2, 3, 4>>, <<2, 1, 5, 6>>}
\* imaginary parts first: one of the subgroup, infinity, one outside it, one too large
MCG2Words == {<<2, 1, 4, 3>>, <<0, 0, 0, 0>>, <<3, 3, 1, 1>>, <<9, 1, 4, 3>>}
\* a pairing that holds exactly when every pair has a point at infinity
MCPairingCheck(pairs) ==
    \A i \in DOMAIN pairs : pairs[i][1] = Infinity \/ pairs[i][2] = <<0, 0, 0, 0>>
MCBlakeIV == <<106, 187, 60, 165, 81, 155, 31, 91>>
MCMaxSizes == <<1, 3, 2>>
\* as long as a slice can be, longer, negative, and beyond 64 bits
MCLengthWords == {0, 1, 3, 4, 2 ^ 20 - 1, 2 ^ 20, 2 ^ 21 - 1, 2 ^ 21, 2 ^ 21 + 1, 2 ^ 21 + 4}
\* the last is the hashes of the others
MCTxs == {<<1>>, <<2>>, <<<<1>>, <<2>>>>}

(* Two signers; a permission that needs both, one that one satisfies, and  *)
(* an account with none of its own.                                        *)
MCAccounts == {
    <<>>,
    1 :> <<>>,
    1 :> (0 :> [threshold |-> 3, weight |-> 1 :> 1 @@ 2 :> 2])
        @@ 2 :> (2 :> [threshold |-> 2, weight |-> 1 :> 2]),
    1 :> (0 :> [threshold |-> 2, weight |-> 1 :> 1 @@ 2 :> 0] @@ 1 :> [threshold |-> 1, weight |-> 2 :> 1])}

MCChecksum(payload) == <<(7 + FoldLeft(LAMBDA a, b : 3 * a + b, 0, payload)) % 256>>
MCKeyHash(key) == SubSeq(key, 1, HashLength)
MCBytes == {0, 1, 57, 58, 65, 255}
MCChars == {0, 1, 4, 57, 58}
MCAddresses == {<<65, 0>>, <<65, 47>>, <<65, 65>>}
MCSlots == {<<0, 65>>, <<65, 0>>}
MCNames == {<<65, 0>>, <<65, 65>>, <<84, 79, 84>>}
MCCycles == {-1, 0, 256}
MCLongs == {-300, -1, 0, 1, 255, 256, 16705}

MCWorlds == {
    [c |-> [balance |-> 0, code |-> "code", storage |-> 1 :> 1],
     o |-> [balance |-> 3, code |-> "none", storage |-> <<>>]],
    [c |-> [balance |-> 0, code |-> "none", storage |-> <<>>],
     o |-> [balance |-> 3, code |-> "none", storage |-> <<>>]]}
MCCalls == [owner : {"o"}, contract : {"c"}, value : {0, 2}, create : BOOLEAN]
=============================================================================
