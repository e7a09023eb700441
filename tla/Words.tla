-------------------------------- MODULE Words --------------------------------
(***************************************************************************)
(* The machine words of the TVM and what its arithmetic, comparison and    *)
(* bitwise opcodes compute on them.  In the program a word has 32 bytes of *)
(* 8 bits (uint256.Int); here both numbers are constants.  In every binary *)
(* operator x is the word on top of the stack and y the one below it.      *)
(***************************************************************************)
EXTENDS Integers, Sequences, Functions

CONSTANTS ByteBits, WordBytes

ASSUME WordsAssumption == ByteBits \in Nat \ {0} /\ WordBytes \in Nat \ {0}

(* The numbers of n bytes are those below Capacity(n).                     *)
Capacity(n) == 2 ^ (ByteBits * n)
Base == Capacity(1)
WordBits == ByteBits * WordBytes
Modulus == Capacity(WordBytes)
Byte == 0 .. Base - 1
Word == 0 .. Modulus - 1

(* Two's complement.                                                       *)
Signed(x) == IF x >= Modulus \div 2 THEN x - Modulus ELSE x
Unsigned(n) == n % Modulus
Magnitude(x) == IF Signed(x) < 0 THEN -Signed(x) ELSE Signed(x)
Flag(p) == IF p THEN 1 ELSE 0

(* Bytes32 and SetBytes: big endian; SetBytes takes up to a word of bytes. *)
ToBytes(x) == [i \in 1 .. WordBytes |-> (x \div Capacity(WordBytes - i)) % Base]
FromBytes(bytes) ==
    LET value[i \in 0 .. Len(bytes)] == IF i = 0 THEN 0 ELSE value[i - 1] * Base + bytes[i]
    IN  value[Len(bytes)]

(* ByteLen: the bytes left when leading zero bytes are dropped.            *)
ByteLen(x) == CHOOSE n \in 0 .. WordBytes : Capacity(n) > x /\ (n > 0 => Capacity(n - 1) <= x)

-----------------------------------------------------------------------------
Add(x, y) == (x + y) % Modulus
Sub(x, y) == (x - y) % Modulus

(* The product modulo m, one byte of y after the other so that TLC's       *)
(* integers suffice.                                                       *)
ProductMod(x, y, m) == ((((x * (y \div Base)) % m) * Base) + (x * (y % Base))) % m

Mul(x, y) == ProductMod(x, y, Modulus)
Div(x, y) == IF y = 0 THEN 0 ELSE x \div y
Mod(x, y) == IF y = 0 THEN 0 ELSE x % y

(* SDIV rounds towards zero; the remainder of SMOD has the sign of x.      *)
Sdiv(x, y) ==
    IF y = 0 THEN 0
    ELSE LET q == Magnitude(x) \div Magnitude(y)
         IN  Unsigned(IF (Signed(x) < 0) = (Signed(y) < 0) THEN q ELSE -q)

Smod(x, y) ==
    IF y = 0 THEN 0
    ELSE LET r == Magnitude(x) % Magnitude(y)
         IN  Unsigned(IF Signed(x) < 0 THEN -r ELSE r)

(* The sum and the product are not truncated before the modulus.           *)
Addmod(x, y, m) == IF m = 0 THEN 0 ELSE (x + y) % m
Mulmod(x, y, m) == IF m = 0 THEN 0 ELSE ProductMod(x, y, m)

(* Square and multiply, as uint256.Exp does.                               *)
Exp(x, y) ==
    LET times  == [u \in Word |-> Mul(u, x)]
        square == [u \in Word |-> Mul(u, u)]
        power[n \in Word] ==
            IF n = 0 THEN 1 % Modulus
            ELSE IF n % 2 = 0 THEN square[power[n \div 2]]
            ELSE times[square[power[n \div 2]]]
    IN  power[y]

(* SIGNEXTEND: x is the index, from the low end, of the byte that holds    *)
(* the sign of y.                                                          *)
Signextend(x, y) ==
    IF x >= WordBytes - 1 THEN y
    ELSE LET sign == Capacity(x + 1) \div 2
             low  == y % Capacity(x + 1)
         IN  IF low >= sign THEN Unsigned(low - Capacity(x + 1)) ELSE low

-----------------------------------------------------------------------------
Lt(x, y) == Flag(x < y)
Gt(x, y) == Flag(x > y)
Slt(x, y) == Flag(Signed(x) < Signed(y))
Sgt(x, y) == Flag(Signed(x) > Signed(y))
Eq(x, y) == Flag(x = y)
Iszero(x) == Flag(x = 0)

(* The set bits of a word, and the word with a set of bits.                *)
Ones(x) == {i \in 0 .. WordBits - 1 : (x \div 2 ^ i) % 2 = 1}
OfBits(S) == SumFunction([i \in 0 .. WordBits - 1 |-> IF i \in S THEN 2 ^ i ELSE 0])
OpAnd(x, y) == OfBits(Ones(x) \cap Ones(y))
OpOr(x, y) == OfBits(Ones(x) \cup Ones(y))
OpXor(x, y) == OfBits((Ones(x) \ Ones(y)) \cup (Ones(y) \ Ones(x)))
Complement(x) == Modulus - 1 - x

(* BYTE: x is an index from the high end.                                  *)
ByteAt(x, y) == IF x >= WordBytes THEN 0 ELSE ToBytes(y)[x + 1]

(* A shift by the word's width or more behaves as one by the width.        *)
ShiftAmount(x) == IF x < WordBits THEN x ELSE WordBits
Shl(x, y) == IF ShiftAmount(x) = WordBits THEN 0
             ELSE (y % 2 ^ (WordBits - ShiftAmount(x))) * 2 ^ ShiftAmount(x)
Shr(x, y) == IF ShiftAmount(x) = WordBits THEN 0 ELSE y \div 2 ^ ShiftAmount(x)
Sar(x, y) ==
    IF Signed(y) >= 0 THEN Shr(x, y)
    ELSE Complement(Shr(x, Complement(y)))

=============================================================================
