---------------------------- MODULE NarrowFloat -----------------------------
(***************************************************************************)
(* The conversions between f32 and the narrow floating-point formats, as   *)
(* the interpreter computes them (rouge-ptx/ptx.cpp: f32_to_narrow and its *)
(* neighbours, and the cvt block of run_thread_step) and as the integer    *)
(* code computes them that LlvmGen emits (emit_fp_encode, emit_fp_decode,  *)
(* emit_narrow_cvt).                                                       *)
(*                                                                         *)
(* A float is [s, e, man]: sign, 8 bits of exponent, 23 of fraction.  A    *)
(* conversion is [from, to, mods, operands]: formats, the modifiers as     *)
(* written, the operands.  A code is the number a format's field holds.    *)
(***************************************************************************)
EXTENDS Integers, Sequences, SequencesExt, FiniteSets, FiniteSetsExt

CONSTANT Conversions

VARIABLES conv,
          interpCodes, llvmCodes,    \* the result of each path, or NotTaken
          converted

narrowVars == <<conv, interpCodes, llvmCodes, converted>>

-----------------------------------------------------------------------------
NotTaken == << >>
Poison == -1

\* max is the code of the largest number, nan of the canonical NaN (0: none),
\* shift and width place the field in its byte.
Narrow(name, e, m, bias, max, nan, shift, width, nanToMax) ==
  [name |-> name, e |-> e, m |-> m, bias |-> bias, max |-> max, nan |-> nan,
   shift |-> shift, width |-> width, nanToMax |-> nanToMax]
E4M3 == Narrow("e4m3x2", 4, 3, 7, 126, 127, 0, 8, FALSE)
E5M2 == Narrow("e5m2x2", 5, 2, 15, 123, 127, 0, 8, FALSE)
E3M2 == Narrow("e3m2x2", 3, 2, 3, 31, 0, 0, 6, TRUE)
E2M3 == Narrow("e2m3x2", 2, 3, 1, 31, 0, 0, 6, TRUE)
E2M1 == Narrow("e2m1x2", 2, 1, 1, 7, 0, 2, 4, TRUE)
NarrowFormats == {E4M3, E5M2, E3M2, E2M3, E2M1}

\* These two have an infinity, right behind the largest number.
F16 == Narrow("f16x2", 5, 10, 15, 31743, 32256, 0, 16, FALSE)
BF16 == Narrow("bf16x2", 8, 7, 127, 32639, 32704, 0, 16, FALSE)
Halves == {F16, BF16}
Infinity(F) == F.max + 1
F32 == Narrow("f32", 8, 23, 127, 0, 0, 0, 32, FALSE)

Float(s, e, man) == [s |-> s, e |-> e, man |-> man]
IsNaN(f) == f.e = 255 /\ f.man # 0
IsInf(f) == f.e = 255 /\ f.man = 0
IsZero(f) == f.e = 0 /\ f.man = 0
QuietNaN == Float(0, 255, 2 ^ 22)
Zero == Float(0, 0, 0)

SignBit(F) == 2 ^ (F.width - 1)
MaxExp(F) == 2 ^ F.e - 1
AllMant(F) == 2 ^ F.m - 1
ExpField(code, F) == (code \div 2 ^ F.m) % 2 ^ F.e
Fraction(code, F) == code % 2 ^ F.m

\* The binade of the exponent with all ones holds numbers (all but e5m2).
TopNormal(F) == ExpField(F.max, F) = MaxExp(F)

\* Mutant of RoundsUp: a tie is always rounded up.
RoundsUpOnTie(val, rem, half) == rem >= half
RoundsUp(val, rem, half) == rem > half \/ (rem = half /\ val % 2 = 1)

\* n with its low k bits rounded away (RNE), or cut off.
Rounded(n, k, rz) ==
  LET val == n \div 2 ^ k
  IN  IF ~rz /\ RoundsUp(val, n % 2 ^ k, 2 ^ (k - 1)) THEN val + 1 ELSE val

-----------------------------------------------------------------------------
(* The interpreter.                                                        *)
Log2(n) == Max({k \in 0 .. 24 : 2 ^ k <= n})
Normal(s, e, man, F) == Float(s, e - F.bias + 127, man * 2 ^ (23 - F.m))

\* A number whose exponent field is 0, shifted until its leading one is where
\* a normal number has it.
Lifted(s, man, shift, F) ==
  Float(s, 127 - F.bias + 1 - shift, ((man * 2 ^ shift) % 2 ^ F.m) * 2 ^ (23 - F.m))

\* narrow_to_f32.
Decode(code, F) ==
  LET s == code \div SignBit(F)
      e == ExpField(code, F)
      man == Fraction(code, F)
      top == e = MaxExp(F) /\ F.nan # 0
  IN  IF e = 0 /\ man = 0 THEN Float(s, 0, 0)
      ELSE IF e = 0 THEN Lifted(s, man, F.m - Log2(man), F)
      ELSE IF top /\ ~TopNormal(F) /\ man = 0 THEN Float(s, 255, 0)
      ELSE IF top /\ (man = AllMant(F) \/ ~TopNormal(F)) THEN Float(s, 255, 2 ^ 22)
      ELSE Normal(s, e, man, F)

\* f16_to_f32, bf16_to_f32.
FromHalf(code) ==
  LET s == code \div SignBit(F16)
      e == ExpField(code, F16)
      man == Fraction(code, F16)
  IN  IF e = 0 THEN (IF man = 0 THEN Float(s, 0, 0) ELSE Lifted(s, man, F16.m - Log2(man), F16))
      ELSE IF e = 31 THEN Float(s, 255, man * 2 ^ 13) ELSE Normal(s, e, man, F16)
FromBrain(code) ==
  Float(code \div SignBit(BF16), ExpField(code, BF16), Fraction(code, BF16) * 2 ^ 16)

\* Past the largest number, or at a pattern that is none.
Overflows(val, F) ==
  LET e == val \div 2 ^ F.m
  IN  \/ e > MaxExp(F)
      \/ e = MaxExp(F) /\ F.nan # 0 /\ (~TopNormal(F) \/ Fraction(val, F) = AllMant(F))

\* f32_to_narrow.
Encode(f, F, rz) ==
  LET sign == f.s * SignBit(F)
      tExp == f.e - 127 + F.bias
      limit == 2 ^ (F.e + F.m)
      small == Min({limit - 1, Rounded(2 ^ 23 + f.man, 1 - tExp + 23 - F.m, rz)})
      val == tExp * 2 ^ F.m + Rounded(f.man, 23 - F.m, rz)
  IN  IF IsNaN(f) THEN (IF F.nanToMax THEN F.max ELSE sign + F.nan)
      ELSE IF IsInf(f) THEN sign + F.max
      ELSE IF IsZero(f) THEN sign
      ELSE IF tExp > MaxExp(F) THEN sign + F.max
      ELSE IF tExp < -F.m THEN 0
      ELSE IF tExp <= 0
      THEN (IF F.nan # 0 /\ small \div 2 ^ F.m = MaxExp(F) THEN sign + F.max ELSE sign + small)
      ELSE IF Overflows(val, F) THEN sign + F.max ELSE sign + val

\* f32_to_f16_rne.
HalfOf(f) ==
  LET sign == f.s * SignBit(F16)
      exp == f.e - 127 + 15
  IN  IF f.e = 255 THEN sign + (IF f.man # 0 THEN F16.nan ELSE Infinity(F16))
      ELSE IF exp >= 31 THEN sign + Infinity(F16)
      ELSE IF exp < -10 THEN sign
      ELSE IF exp <= 0 THEN sign + Rounded(f.man + 2 ^ 23, 14 - exp, FALSE)
      ELSE sign + exp * 2 ^ 10 + Rounded(f.man, 13, FALSE)

\* f32_to_bf16_rne: the upper half of the bits, after adding to the lower.
BrainOf(f) ==
  LET upper == f.s * SignBit(BF16) + f.e * 2 ^ 7 + f.man \div 2 ^ 16
  IN  IF f.e = 255 THEN upper
      ELSE upper + ((f.man % 2 ^ 16) + 32767 + (upper % 2)) \div 2 ^ 16

HalfOrBrain(f, F) == IF F = F16 THEN HalfOf(f) ELSE BrainOf(f)

Has(c, mod) == \E k \in DOMAIN c.mods : c.mods[k] = mod

\* The clamp of .relu: what is below zero; -0 is not.
Below0(f) == f.s = 1 /\ ~IsZero(f) /\ ~IsNaN(f)

IPack(f, c) ==
  LET F == c.to
      code == IF Has(c, "relu") /\ IsNaN(f) THEN (IF F.nanToMax THEN F.max ELSE F.nan)
              ELSE IF Has(c, "relu") /\ Below0(f) THEN 0
              ELSE Encode(f, F, Has(c, "rz"))
  IN  code * 2 ^ F.shift

Unpack(byte, F) == (byte \div 2 ^ F.shift) % 2 ^ F.width

IWiden(byte, c) ==
  LET f == Decode(Unpack(byte, c.from), c.from)
      clamped == IF Has(c, "relu") /\ IsNaN(f) THEN QuietNaN
                 ELSE IF Has(c, "relu") /\ Below0(f) THEN Zero ELSE f
  IN  HalfOrBrain(clamped, c.to)

\* The modifiers that the interpreter takes: it looks for a narrow format
\* anywhere in the mnemonic.
IAccepts(c) ==
  LET narrow == NarrowFormats \cap {c.from, c.to} # {}
      ok(mod) == CASE mod = "relu" -> TRUE
                   [] mod = "rn" -> narrow \/ Halves \cap {c.from, c.to} # {}
                   [] mod \in {"rz", "satfinite"} -> narrow
                   [] OTHER -> FALSE
  IN  \A k \in DOMAIN c.mods : ok(c.mods[k])

\* f32 to f16 or bf16, one at a time, and back.
ISingle(f, c) == HalfOrBrain(f, c.to)
IBack(code, c) == IF c.from = F16 THEN FromHalf(code) ELSE FromBrain(code)

IConvertFloat(x, c) ==
  CASE c.to \in NarrowFormats -> IPack(x, c)
    [] c.from \in NarrowFormats -> IWiden(x, c)
    [] c.to \in Halves /\ c.from = F32 -> ISingle(x, c)
    [] OTHER -> IBack(x, c)

InterpResult(c) ==
  IF IAccepts(c) THEN [k \in DOMAIN c.operands |-> IConvertFloat(c.operands[k], c)] ELSE NotTaken

-----------------------------------------------------------------------------
(* The emitted code.  It has no branches: everything is computed, and      *)
(* selects keep one of the results.                                        *)

\* LLVM's fptrunc: to the nearest, ties to even.
FpTrunc(f, F) ==
  LET tExp == Max({f.e, 1}) - 127 + F.bias
      sign == f.s * SignBit(F)
  IN  IF IsNaN(f) THEN sign + F.nan
      ELSE IF tExp >= MaxExp(F) THEN sign + Infinity(F)
      ELSE IF tExp > 0
      THEN sign + (f.e - 127 + F.bias) * 2 ^ F.m + Rounded(f.man, 23 - F.m, FALSE)
      ELSE IF tExp < -F.m THEN sign
      ELSE sign + Rounded(2 ^ 23 + f.man, 24 - F.m - tExp, FALSE)
\* LLVM's fpext.
FpExt(code, F) == IF F = F16 THEN FromHalf(code) ELSE FromBrain(code)

\* Shifts past the width give no value; a select may still drop them.
LSubnormal(f, tExp, F, rz) ==
  LET shift == 1 - tExp + 23 - F.m
      val == Min({2 ^ (F.e + F.m) - 1, Rounded(2 ^ 23 + f.man, shift, rz)})
  IN  IF shift \notin 1 .. 31 THEN Poison
      ELSE IF F.nan # 0 /\ val \div 2 ^ F.m = MaxExp(F) THEN f.s * SignBit(F) + F.max
      ELSE f.s * SignBit(F) + val

\* What is past the largest number.  A format with a NaN is asked for its top
\* binade alone, not for a carry out of it.
NeedMax(valR, F) ==
  LET gotExp == valR \div 2 ^ F.m
  IN  IF F.nan = 0 THEN gotExp > MaxExp(F)
      ELSE gotExp = MaxExp(F) /\ (TopNormal(F) => Fraction(valR, F) = AllMant(F))

\* The sign is or-ed into what the mask leaves of the number.
WithSign(f, valR, F) ==
  IF f.s = 0 \/ valR % 2 ^ F.width >= SignBit(F) THEN valR % 2 ^ F.width
  ELSE SignBit(F) + (valR % 2 ^ F.width)

LNormal(f, tExp, F, rz) ==
  LET valR == tExp * 2 ^ F.m + Rounded(f.man, 23 - F.m, rz)
  IN  IF NeedMax(valR, F) THEN f.s * SignBit(F) + F.max ELSE WithSign(f, valR, F)

\* emit_fp_encode: the last select that holds wins.
LEncode(f, F, rz) ==
  LET sign == f.s * SignBit(F)
      tExp == f.e - 127 + F.bias
      pattern == IF F.nanToMax THEN F.max ELSE F.nan
  IN  IF IsNaN(f) THEN sign + pattern
      ELSE IF IsInf(f) THEN sign + F.max
      ELSE IF IsZero(f) THEN sign
      ELSE IF tExp > MaxExp(F) THEN sign + F.max
      ELSE IF tExp < -F.m THEN 0
      ELSE IF tExp <= 0 THEN LSubnormal(f, tExp, F, rz) ELSE LNormal(f, tExp, F, rz)

\* The clamp comes first; what it puts for a NaN is given.
LClamped(f, c, nan) ==
  IF ~Has(c, "relu") THEN f
  ELSE IF IsNaN(f) THEN nan ELSE IF Below0(f) THEN Zero ELSE f

LPack(f, c) ==
  (LEncode(LClamped(f, c, QuietNaN), c.to, Has(c, "rz")) % 2 ^ c.to.width) * 2 ^ c.to.shift

\* Mutant of Turns: one turn fewer.
TurnsShort(F) == F.m - 1
\* The normalising loop is unrolled: so many turns for a format.
Turns(F) == F.m

\* emit_fp_decode: a turn shifts a fraction whose leading one is not in place.
LDecode(code, F) ==
  LET s == code \div SignBit(F)
      e == ExpField(code, F)
      man == Fraction(code, F)
      normal == Normal(s, e, man, F)
      top == IF F.nan = 0 THEN normal
             ELSE IF TopNormal(F)
             THEN (IF man = AllMant(F) THEN Float(s, 255, 2 ^ 22) ELSE normal)
             ELSE (IF man = 0 THEN Float(s, 255, 0) ELSE Float(s, 255, 2 ^ 22))
  IN  IF e = 0
      THEN (IF man = 0 THEN Float(s, 0, 0)
            ELSE Lifted(s, man, Min({Turns(F), F.m - Log2(man)}), F))
      ELSE IF e = MaxExp(F) THEN top ELSE normal

\* The clamp of a widening puts an infinity for a NaN.
LWiden(byte, c) ==
  FpTrunc(LClamped(LDecode(Unpack(byte, c.from), c.from), c, Float(0, 255, 0)), c.to)

LSingle(f, c) == FpTrunc(f, c.to)
LBack(code, c) == FpExt(code, c.from)

\* Only the last modifier is looked at.
LAccepts(c) ==
  LET mod == Last(c.mods)
      narrow == {c.from, c.to} \cap NarrowFormats # {}
  IN  \/ c.mods = << >>
      \/ mod = "rn" /\ (narrow \/ c.to \in {F16, BF16, F32})
      \/ mod \in {"rz", "satfinite", "relu"} /\ narrow

LConvertFloat(x, c) ==
  CASE c.to \in NarrowFormats -> LPack(x, c)
    [] c.from \in NarrowFormats -> LWiden(x, c)
    [] c.to \in Halves /\ c.from = F32 -> LSingle(x, c)
    [] OTHER -> LBack(x, c)

LlvmResult(c) ==
  IF LAccepts(c) THEN [k \in DOMAIN c.operands |-> LConvertFloat(c.operands[k], c)] ELSE NotTaken

-----------------------------------------------------------------------------
(* The operands of a conversion, and what the two paths are known to do    *)
(* differently.                                                            *)
Floats == [s : {0, 1}, e : 0 .. 255, man : 0 .. 2 ^ 23 - 1]

\* Which bits of another NaN than the canonical one are kept is up to the hardware.
Canonical(f) == IsNaN(f) => f.man = QuietNaN.man
CanonicalCode(x, F) == x % SignBit(F) <= Infinity(F) \/ x % SignBit(F) = F.nan

\* The ISA's pairs of formats: f32 into all others, and the way back in one or
\* two steps.
IsConversion(c) ==
  /\ c.mods \in Seq(STRING)
  /\ \/ /\ c.from = F32 /\ c.to \in NarrowFormats
        /\ c.operands \in Seq(Floats)
     \/ /\ c.from = F32 /\ c.to \in Halves
        /\ c.operands \in Seq({f \in Floats : Canonical(f)})
     \/ /\ c.from \in NarrowFormats /\ c.to \in Halves
        /\ c.operands \in Seq(0 .. 255)
     \/ /\ c.from \in Halves /\ c.to = F32
        /\ c.operands \in Seq({x \in 0 .. 2 ^ 16 - 1 : CanonicalCode(x, c.from)})

\* A NaN with a sign where the format has none, a NaN under .relu in a widening,
\* and .relu where neither format is narrow.
Differs(c) ==
  \/ /\ c.to.nanToMax /\ ~Has(c, "relu")
     /\ \E k \in DOMAIN c.operands : IsNaN(c.operands[k]) /\ c.operands[k].s = 1
  \/ /\ c.from.nan # 0 /\ c.from \in NarrowFormats /\ Has(c, "relu")
     /\ \E k \in DOMAIN c.operands : IsNaN(Decode(Unpack(c.operands[k], c.from), c.from))
  \/ Has(c, "relu") /\ {c.from, c.to} \cap NarrowFormats = {}

\* From 496 on a float rounds out of the top binade of e4m3, and from 122880
\* on out of that of e5m2.
TopCarry(f, F) ==
  /\ F.nan # 0 /\ f.e - 127 + F.bias = MaxExp(F)
  /\ Rounded(f.man, 23 - F.m, FALSE) = 2 ^ F.m
CarriesOut(c) ==
  /\ c.to \in NarrowFormats /\ ~Has(c, "rz")
  /\ \E k \in DOMAIN c.operands : TopCarry(c.operands[k], c.to)

-----------------------------------------------------------------------------
NarrowInit ==
  /\ conv \in Conversions
  /\ interpCodes = NotTaken /\ llvmCodes = NotTaken /\ converted = FALSE

Convert ==
  /\ ~converted
  /\ converted' = TRUE
  /\ interpCodes' = InterpResult(conv)
  /\ llvmCodes' = LlvmResult(conv)
  /\ UNCHANGED conv

NarrowNext == Convert

NarrowSpec == NarrowInit /\ [][NarrowNext]_narrowVars

-----------------------------------------------------------------------------
(* The reference: what a code stands for, as a number n * 2^k.             *)
Number(n, k) == [n |-> n, k |-> k]
Top(a) == Log2(a.n) + a.k
Less(a, b) ==
  IF b.n = 0 THEN FALSE
  ELSE IF a.n = 0 THEN TRUE
  ELSE IF Top(a) # Top(b) THEN Top(a) < Top(b)
  ELSE IF a.k >= b.k THEN a.n * 2 ^ (a.k - b.k) < b.n ELSE a.n < b.n * 2 ^ (b.k - a.k)
Same(a, b) == ~Less(a, b) /\ ~Less(b, a)

\* The sign is left out.
CodeValue(code, F) ==
  LET e == ExpField(code, F)
  IN  IF e = 0 THEN Number(Fraction(code, F), 1 - F.bias - F.m)
      ELSE Number(2 ^ F.m + Fraction(code, F), e - F.bias - F.m)
FloatValue(f) ==
  IF f.e = 0 THEN Number(f.man, -149) ELSE Number(2 ^ 23 + f.man, f.e - 150)

\* Between the numbers of a code and of the next one, with one more bit.
Midpoint(code, F) == CodeValue(2 * code + 1, [F EXCEPT !.m = @ + 1])

Highest(F) == IF F \in Halves THEN Infinity(F) ELSE F.max

\* mag is the code nearest to v, the even one of two; everything from the
\* middle below the highest code on goes to that.
Nearest(v, mag, F) ==
  /\ mag > 0 => \/ Less(Midpoint(mag - 1, F), v)
                \/ Same(Midpoint(mag - 1, F), v) /\ mag % 2 = 0
  /\ mag < Highest(F) => \/ Less(v, Midpoint(mag, F))
                         \/ Same(v, Midpoint(mag, F)) /\ mag % 2 = 0
TowardsZero(v, mag, F) ==
  ~Less(v, CodeValue(mag, F)) /\ (mag < Highest(F) => Less(v, CodeValue(mag + 1, F)))

NarrowedRight(f, code, c) ==
  LET F == c.to
      mag == code % SignBit(F)
      v == FloatValue(f)
  IN  IF IsNaN(f) THEN mag = (IF F.nanToMax THEN F.max ELSE F.nan)
      ELSE IF Has(c, "relu") /\ Below0(f) THEN code = 0
      ELSE /\ mag # 0 => code \div SignBit(F) = f.s
           /\ IF IsInf(f) THEN mag = Highest(F)
              ELSE /\ mag <= Highest(F)
                   /\ IF Has(c, "rz") THEN TowardsZero(v, mag, F) ELSE Nearest(v, mag, F)

WidenedRight(from, F, code, c) ==
  LET G == c.to
      mag == code % SignBit(G)
      bits == from % SignBit(F)
      negative == from >= SignBit(F)
      infinite == F.nan # 0 /\ ~TopNormal(F) /\ bits = Infinity(F)
  IN  IF F.nan # 0 /\ bits > F.max /\ ~infinite THEN mag = G.nan
      ELSE IF Has(c, "relu") /\ negative /\ bits # 0 THEN code = 0
      ELSE /\ (code >= SignBit(G)) = negative
           /\ IF infinite THEN mag = Infinity(G)
              ELSE mag <= G.max /\ Same(CodeValue(bits, F), CodeValue(mag, G))

BackRight(from, f, F) ==
  LET bits == from % SignBit(F)
  IN  IF bits > Infinity(F) THEN IsNaN(f)
      ELSE /\ f.s = from \div SignBit(F)
           /\ IF bits = Infinity(F) THEN IsInf(f)
              ELSE ~IsInf(f) /\ Same(CodeValue(bits, F), FloatValue(f))

(* What the interpreter converts is the nearest number of the format, the  *)
(* even one of two equally near, or the next one towards zero for .rz;     *)
(* saturated into the narrow formats, infinite into f16 and bf16; .relu    *)
(* leaves nothing below zero; and a widening keeps the number              *)
(* (f32_to_narrow, narrow_to_f32 and their f16 and bf16 neighbours).       *)
RoundsAsAsked ==
  (converted /\ interpCodes # NotTaken) =>
    \A k \in DOMAIN conv.operands :
      LET x == conv.operands[k]
          r == interpCodes[k]
      IN  CASE conv.to \in NarrowFormats ->
                 r % 2 ^ conv.to.shift = 0 /\ NarrowedRight(x, Unpack(r, conv.to), conv)
            [] conv.from \in NarrowFormats ->
                 WidenedRight(Unpack(x, conv.from), conv.from, r, conv)
            [] conv.to \in Halves /\ conv.from = F32 -> NarrowedRight(x, r, conv)
            [] OTHER -> BackRight(x, r, conv.from)

(* A conversion that the interpreter takes is taken by the compiler, and   *)
(* the integer code it emits gives the same bits: "Mirrors f32_to_narrow() *)
(* in the interpreter exactly" (ptx_to_llvm.cpp, emit_fp_encode).          *)
SameNarrowBits == (converted /\ interpCodes # NotTaken) => llvmCodes = interpCodes

=============================================================================
