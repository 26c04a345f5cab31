---------------------------- MODULE BitPatterns -----------------------------
(***************************************************************************)
(* Bit patterns: what a register of some width holds, as a natural number, *)
(* read without or with a sign, or as the set of the bits that are one.    *)
(*                                                                         *)
(* All widths of PTX are multiples of the byte, so the byte is the         *)
(* parameter: 8 bits in the code.                                          *)
(***************************************************************************)
EXTENDS Integers, FiniteSets, FiniteSetsExt

CONSTANT Byte

ASSUME ByteAssumption == Byte \in Nat \ {0, 1}

Half == 2 * Byte           \* .u16 .s16 .b16
Word == 4 * Byte           \* .u32 .s32 .b32
Double == 8 * Byte         \* .u64 .s64 .b64

Patterns(w) == 0 .. (2 ^ w - 1)

\* The low w bits of an integer: LLVM's trunc, width_mask, a C cast.
Cut(v, w) == v % (2 ^ w)
Negative(v, w) == v >= 2 ^ (w - 1)
Signed(v, w) == IF Negative(v, w) THEN v - 2 ^ w ELSE v
Ones(w) == 2 ^ w - 1
Lowest(w) == 2 ^ (w - 1)   \* the pattern of the lowest signed integer

\* Sign extension from a narrower to a wider pattern.
SignExtend(v, from, to) == Cut(Signed(v, from), to)

ShiftLeft(v, n, w) == Cut(v * 2 ^ n, w)
ShiftRight(v, n) == v \div 2 ^ n
\* \div rounds down, as an arithmetic shift does.
ShiftSigned(v, n, w) == Cut(Signed(v, w) \div 2 ^ n, w)

Ones2Bits(v) == {n \in 0 .. (Double - 1) : (v \div 2 ^ n) % 2 = 1}
Bits2Value(bits) == MapThenSumSet(LAMBDA n : 2 ^ n, bits)

And(a, b) == Bits2Value(Ones2Bits(a) \cap Ones2Bits(b))
Or(a, b) == Bits2Value(Ones2Bits(a) \cup Ones2Bits(b))
Not(a, w) == Ones(w) - Cut(a, w)
Xor(a, b) == Bits2Value((Ones2Bits(a) \ Ones2Bits(b))
                        \cup (Ones2Bits(b) \ Ones2Bits(a)))

\* The distance of the first one from the top of w bits, w if there is none.
LeadingZeros(v, w) ==
  IF Cut(v, w) = 0 THEN w ELSE w - 1 - Max(Ones2Bits(Cut(v, w)))
Population(v) == Cardinality(Ones2Bits(v))

\* The low w bits of a product, in two halves so that no intermediate value
\* needs more than 1.5 times the widest pattern.
Product(a, b, w) ==
  Cut(a * (b % 2 ^ Word) + Cut(a * (b \div 2 ^ Word), Word) * 2 ^ Word, w)

\* C's division rounds towards zero, and the remainder makes up for it.
Magnitude(x) == IF x < 0 THEN -x ELSE x
Quotient(x, y) ==
  LET q == Magnitude(x) \div Magnitude(y)
  IN  IF (x < 0) = (y < 0) THEN q ELSE -q
Remainder(x, y) == x - y * Quotient(x, y)

\* The n-th group of g bits, with or without a sign.
Group(v, n, g, signed) ==
  LET bits == Cut(v \div 2 ^ (n * g), g)
  IN  IF signed THEN Signed(bits, g) ELSE bits

=============================================================================
