--------------------------------- MODULE Words ---------------------------------
(***************************************************************************)
(* Machine words of the compiler (src/smlrc.c) and of the processor it     *)
(* compiles for.  A value is a natural below 2^WordBits; the compiler also *)
(* keeps its constants as signed integers.                                 *)
(***************************************************************************)
EXTENDS Integers, Bitwise

CONSTANTS WordBits, CharBits   \* 32 and 8 in the code

ASSUME WordsAssumption == /\ CharBits \in Nat \ {0}
                          /\ WordBits \in Nat
                          /\ CharBits < WordBits

SizeOfWord == 4
WordSize == 2 ^ WordBits
CharSize == 2 ^ CharBits
IntMax == 2 ^ (WordBits - 1) - 1
IntMin == -(2 ^ (WordBits - 1))

truncUint(n) == n % WordSize
truncInt(n) == IF truncUint(n) > IntMax THEN truncUint(n) - WordSize ELSE truncUint(n)
ZeroExtended(n) == n % CharSize
SignExtended(n) == IF 2 * ZeroExtended(n) >= CharSize THEN ZeroExtended(n) - CharSize
                                                      ELSE ZeroExtended(n)

Abs(n) == IF n < 0 THEN -n ELSE n
(* Division rounds to zero, and a remainder has the sign of the dividend. *)
Quotient(x, y) == LET q == Abs(x) \div Abs(y) IN IF (x < 0) # (y < 0) THEN -q ELSE q
Remainder(x, y) == x - y * Quotient(x, y)

BitAnd(x, y) == truncUint(x) & truncUint(y)
BitOr(x, y) == truncUint(x) | truncUint(y)
BitXor(x, y) == truncUint(x) ^^ truncUint(y)
BitNot(x) == WordSize - 1 - truncUint(x)
ShiftLeft(x, n) == truncUint(x * 2 ^ n)
ShiftRight(x, n) == x \div 2 ^ n      \* arithmetic for a signed x, logical for an unsigned one

IsPowerOf2(m) == \E k \in 0..(WordBits - 1) : m = 2 ^ k
Log2(m) == CHOOSE k \in 0..(WordBits - 1) : m = 2 ^ k
================================================================================
