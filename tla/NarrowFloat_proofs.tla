------------------------- MODULE NarrowFloat_proofs -------------------------
(***************************************************************************)
(* The conversions between f32 and the narrow formats, for every operand.  *)
(***************************************************************************)
EXTENDS NarrowFloat, SequenceTheorems, WellFoundedInduction, TLAPS

\* The five formats by their numbers.
Fields(F, bias, max, nan, nanToMax, m) ==
  /\ F.bias = bias /\ F.max = max /\ F.nan = nan /\ F.nanToMax = nanToMax /\ F.m = m
Powers(F, unit, sign, top) ==
  /\ 2 ^ F.m = unit /\ 2 ^ (F.e + F.m) = sign /\ 2 ^ F.width = 2 * sign
  /\ SignBit(F) = sign /\ MaxExp(F) = top

LEMMA FormatNumbers ==
  ASSUME NEW F \in NarrowFormats
  PROVE  \/ Fields(F, 7, 126, 127, FALSE, 3) /\ Powers(F, 8, 128, 15)
         \/ Fields(F, 15, 123, 127, FALSE, 2) /\ Powers(F, 4, 128, 31)
         \/ Fields(F, 3, 31, 0, TRUE, 2) /\ Powers(F, 4, 32, 7)
         \/ Fields(F, 1, 31, 0, TRUE, 3) /\ Powers(F, 8, 32, 3)
         \/ Fields(F, 1, 7, 0, TRUE, 1) /\ Powers(F, 2, 8, 3)
<1>1. CASE F = E4M3
  <2>1. Fields(F, 7, 126, 127, FALSE, 3)
    BY <1>1 DEF E4M3, Narrow, Fields
  <2>2. Powers(F, 8, 128, 15)
    BY SMT, <1>1 DEF E4M3, Narrow, MaxExp, SignBit, Powers
  <2> QED BY <2>1, <2>2
<1>2. CASE F = E5M2
  <2>1. Fields(F, 15, 123, 127, FALSE, 2)
    BY <1>2 DEF E5M2, Narrow, Fields
  <2>2. Powers(F, 4, 128, 31)
    BY SMT, <1>2 DEF E5M2, Narrow, MaxExp, SignBit, Powers
  <2> QED BY <2>1, <2>2
<1>3. CASE F = E3M2
  <2>1. Fields(F, 3, 31, 0, TRUE, 2)
    BY <1>3 DEF E3M2, Narrow, Fields
  <2>2. Powers(F, 4, 32, 7)
    BY SMT, <1>3 DEF E3M2, Narrow, MaxExp, SignBit, Powers
  <2> QED BY <2>1, <2>2
<1>4. CASE F = E2M3
  <2>1. Fields(F, 1, 31, 0, TRUE, 3)
    BY <1>4 DEF E2M3, Narrow, Fields
  <2>2. Powers(F, 8, 32, 3)
    BY SMT, <1>4 DEF E2M3, Narrow, MaxExp, SignBit, Powers
  <2> QED BY <2>1, <2>2
<1>5. CASE F = E2M1
  <2>1. Fields(F, 1, 7, 0, TRUE, 1)
    BY <1>5 DEF E2M1, Narrow, Fields
  <2>2. Powers(F, 2, 8, 3)
    BY SMT, <1>5 DEF E2M1, Narrow, MaxExp, SignBit, Powers
  <2> QED BY <2>1, <2>2
<1> QED BY <1>1, <1>2, <1>3, <1>4, <1>5 DEF NarrowFormats

\* In a way that leaves no powers to the provers.
LEMMA FormatFacts ==
  ASSUME NEW F \in NarrowFormats
  PROVE  /\ F.m \in {1, 2, 3} /\ F.bias \in {1, 3, 7, 15} /\ F.nanToMax \in BOOLEAN
         /\ \E unit \in {2, 4, 8}, sign \in {8, 32, 128} :
              /\ Powers(F, unit, sign, MaxExp(F))
              /\ MaxExp(F) \in Nat /\ sign = (MaxExp(F) + 1) * unit
              /\ F.max \in 0 .. sign - 1 /\ F.nan \in 0 .. sign - 1
<1>1. CASE Fields(F, 7, 126, 127, FALSE, 3) /\ Powers(F, 8, 128, 15)
  <2>1. MaxExp(F) = 15
    BY <1>1 DEF Powers
  <2>2. Powers(F, 8, 128, MaxExp(F))
    BY <1>1, <2>1
  <2>3. F.m \in {1, 2, 3} /\ F.bias \in {1, 3, 7, 15} /\ F.nanToMax \in BOOLEAN
    BY Zenon, <1>1 DEF Fields
  <2>4. MaxExp(F) \in Nat /\ 128 = (MaxExp(F) + 1) * 8
    BY <2>1
  <2>5. F.max \in 0 .. 128 - 1 /\ F.nan \in 0 .. 128 - 1
    <3>1. F.max = 126 /\ F.nan = 127
      BY Zenon, <1>1 DEF Fields
    <3> QED BY <3>1
  <2> QED BY <2>2, <2>3, <2>4, <2>5
<1>2. CASE Fields(F, 15, 123, 127, FALSE, 2) /\ Powers(F, 4, 128, 31)
  <2>1. MaxExp(F) = 31
    BY <1>2 DEF Powers
  <2>2. Powers(F, 4, 128, MaxExp(F))
    BY <1>2, <2>1
  <2>3. F.m \in {1, 2, 3} /\ F.bias \in {1, 3, 7, 15} /\ F.nanToMax \in BOOLEAN
    BY Zenon, <1>2 DEF Fields
  <2>4. MaxExp(F) \in Nat /\ 128 = (MaxExp(F) + 1) * 4
    BY <2>1
  <2>5. F.max \in 0 .. 128 - 1 /\ F.nan \in 0 .. 128 - 1
    <3>1. F.max = 123 /\ F.nan = 127
      BY Zenon, <1>2 DEF Fields
    <3> QED BY <3>1
  <2> QED BY <2>2, <2>3, <2>4, <2>5
<1>3. CASE Fields(F, 3, 31, 0, TRUE, 2) /\ Powers(F, 4, 32, 7)
  <2>1. MaxExp(F) = 7
    BY <1>3 DEF Powers
  <2>2. Powers(F, 4, 32, MaxExp(F))
    BY <1>3, <2>1
  <2>3. F.m \in {1, 2, 3} /\ F.bias \in {1, 3, 7, 15} /\ F.nanToMax \in BOOLEAN
    BY Zenon, <1>3 DEF Fields
  <2>4. MaxExp(F) \in Nat /\ 32 = (MaxExp(F) + 1) * 4
    BY <2>1
  <2>5. F.max \in 0 .. 32 - 1 /\ F.nan \in 0 .. 32 - 1
    <3>1. F.max = 31 /\ F.nan = 0
      BY Zenon, <1>3 DEF Fields
    <3> QED BY <3>1
  <2> QED BY <2>2, <2>3, <2>4, <2>5
<1>4. CASE Fields(F, 1, 31, 0, TRUE, 3) /\ Powers(F, 8, 32, 3)
  <2>1. MaxExp(F) = 3
    BY <1>4 DEF Powers
  <2>2. Powers(F, 8, 32, MaxExp(F))
    BY <1>4, <2>1
  <2>3. F.m \in {1, 2, 3} /\ F.bias \in {1, 3, 7, 15} /\ F.nanToMax \in BOOLEAN
    BY Zenon, <1>4 DEF Fields
  <2>4. MaxExp(F) \in Nat /\ 32 = (MaxExp(F) + 1) * 8
    BY <2>1
  <2>5. F.max \in 0 .. 32 - 1 /\ F.nan \in 0 .. 32 - 1
    <3>1. F.max = 31 /\ F.nan = 0
      BY Zenon, <1>4 DEF Fields
    <3> QED BY <3>1
  <2> QED BY <2>2, <2>3, <2>4, <2>5
<1>5. CASE Fields(F, 1, 7, 0, TRUE, 1) /\ Powers(F, 2, 8, 3)
  <2>1. MaxExp(F) = 3
    BY <1>5 DEF Powers
  <2>2. Powers(F, 2, 8, MaxExp(F))
    BY <1>5, <2>1
  <2>3. F.m \in {1, 2, 3} /\ F.bias \in {1, 3, 7, 15} /\ F.nanToMax \in BOOLEAN
    BY Zenon, <1>5 DEF Fields
  <2>4. MaxExp(F) \in Nat /\ 8 = (MaxExp(F) + 1) * 2
    BY <2>1
  <2>5. F.max \in 0 .. 8 - 1 /\ F.nan \in 0 .. 8 - 1
    <3>1. F.max = 7 /\ F.nan = 0
      BY Zenon, <1>5 DEF Fields
    <3> QED BY <3>1
  <2> QED BY <2>2, <2>3, <2>4, <2>5
<1> QED BY <1>1, <1>2, <1>3, <1>4, <1>5, FormatNumbers

\* Rounding the fraction to a format's gives at most the next power of two.
LEMMA RoundedFraction ==
  ASSUME NEW n \in 0 .. 2 ^ 23 - 1, NEW m \in {1, 2, 3}, NEW rz \in BOOLEAN
  PROVE  Rounded(n, 23 - m, rz) \in 0 .. 2 ^ m
<1>1. CASE m = 1
  BY SMT, <1>1 DEF Rounded, RoundsUp
<1>2. CASE m = 2
  BY SMT, <1>2 DEF Rounded, RoundsUp
<1>3. CASE m = 3
  BY SMT, <1>3 DEF Rounded, RoundsUp
<1> QED BY <1>1, <1>2, <1>3

LEMMA RoundedSubnormal ==
  ASSUME NEW n \in 0 .. 2 ^ 24 - 1, NEW k \in {21, 22, 23, 24}, NEW rz \in BOOLEAN
  PROVE  Rounded(n, k, rz) \in 0 .. 8
<1>1. CASE k = 21
  BY SMT, <1>1 DEF Rounded, RoundsUp
<1>2. CASE k = 22
  BY SMT, <1>2 DEF Rounded, RoundsUp
<1>3. CASE k = 23
  BY SMT, <1>3 DEF Rounded, RoundsUp
<1>4. CASE k = 24
  BY SMT, <1>4 DEF Rounded, RoundsUp
<1> QED BY <1>1, <1>2, <1>3, <1>4

LEMMA RoundedToZero ==
  ASSUME NEW n \in 0 .. 2 ^ 23 - 1, NEW m \in {1, 2, 3}
  PROVE  Rounded(n, 23 - m, TRUE) < 2 ^ m
<1>1. CASE m = 1
  BY SMT, <1>1 DEF Rounded, RoundsUp
<1>2. CASE m = 2
  BY SMT, <1>2 DEF Rounded, RoundsUp
<1>3. CASE m = 3
  BY SMT, <1>3 DEF Rounded, RoundsUp
<1> QED BY <1>1, <1>2, <1>3

LEMMA MinOfTwo ==
  ASSUME NEW a \in Int, NEW b \in Int
  PROVE  Min({a, b}) = IF a <= b THEN a ELSE b
BY SMT DEF Min

\* The emitted encoding is the interpreter's, outside the carry and the signed NaN.
LEMMA EncodeAgrees ==
  ASSUME NEW F \in NarrowFormats, NEW f \in Floats, NEW rz \in BOOLEAN,
         ~(F.nanToMax /\ IsNaN(f) /\ f.s = 1), rz \/ ~TopCarry(f, F)
  PROVE  /\ LEncode(f, F, rz) = Encode(f, F, rz)
         /\ Encode(f, F, rz) \in 0 .. 2 ^ F.width - 1
<1>1. f.s \in {0, 1} /\ f.e \in 0 .. 255 /\ f.man \in 0 .. 2 ^ 23 - 1
  BY DEF Floats
<1>2. PICK unit \in {2, 4, 8}, sign \in {8, 32, 128} :
        /\ Powers(F, unit, sign, MaxExp(F))
        /\ MaxExp(F) \in Nat /\ sign = (MaxExp(F) + 1) * unit
        /\ F.max \in 0 .. sign - 1 /\ F.nan \in 0 .. sign - 1
  BY FormatFacts
<1>3. PICK t : t = f.e - 127 + F.bias
  OBVIOUS
<1>4. t \in Int /\ F.m \in {1, 2, 3} /\ F.nanToMax \in BOOLEAN
  BY <1>1, <1>3, FormatFacts
<1>5. PICK R : R = Rounded(f.man, 23 - F.m, rz)
  OBVIOUS
<1>6. R \in 0 .. unit /\ (rz => R < unit)
  BY <1>1, <1>2, <1>4, <1>5, RoundedFraction, RoundedToZero DEF Powers
<1>7. ~rz /\ R = unit /\ F.nan # 0 => t # MaxExp(F)
  BY <1>2, <1>3, <1>5 DEF TopCarry, Powers
<1>8. PICK small : small = Min({sign - 1, Rounded(2 ^ 23 + f.man, 1 - t + 23 - F.m, rz)})
  OBVIOUS
<1>9. PICK v : v = t * unit + R
  OBVIOUS
<1>10. Encode(f, F, rz) =
         IF IsNaN(f) THEN (IF F.nanToMax THEN F.max ELSE f.s * sign + F.nan)
         ELSE IF IsInf(f) THEN f.s * sign + F.max
         ELSE IF IsZero(f) THEN f.s * sign
         ELSE IF t > MaxExp(F) THEN f.s * sign + F.max
         ELSE IF t < -F.m THEN 0
         ELSE IF t <= 0
         THEN (IF F.nan # 0 /\ small \div unit = MaxExp(F)
               THEN f.s * sign + F.max ELSE f.s * sign + small)
         ELSE IF Overflows(v, F) THEN f.s * sign + F.max ELSE f.s * sign + v
  BY <1>2, <1>3, <1>5, <1>8, <1>9 DEF Encode, Powers
<1>11. -F.m <= t /\ t <= 0 => small \in 0 .. sign - 1
  <2> SUFFICES ASSUME -F.m <= t, t <= 0 PROVE small \in 0 .. sign - 1
    OBVIOUS
  <2>1. 2 ^ 23 + f.man \in 0 .. 2 ^ 24 - 1 /\ 1 - t + 23 - F.m \in {21, 22, 23, 24}
    BY SMT, <1>1, <1>4
  <2>2. Rounded(2 ^ 23 + f.man, 1 - t + 23 - F.m, rz) \in 0 .. 8
    BY <2>1, RoundedSubnormal
  <2> QED BY <2>2, <1>8, MinOfTwo
<1>12. 0 < t /\ t <= MaxExp(F) =>
         /\ v \in Nat /\ v \div unit \in Nat
         /\ v \div unit > MaxExp(F) => F.nan = 0
         /\ v \div unit <= MaxExp(F) => v < sign
  <2> SUFFICES ASSUME 0 < t, t <= MaxExp(F)
               PROVE  /\ v \in Nat /\ v \div unit \in Nat
                      /\ v \div unit > MaxExp(F) => F.nan = 0
                      /\ v \div unit <= MaxExp(F) => v < sign
    OBVIOUS
  <2>1. unit \in {2, 4, 8} /\ sign = (MaxExp(F) + 1) * unit /\ MaxExp(F) \in Nat /\ t \in Nat
    BY <1>2, <1>4
  <2>2. v \in Nat
    BY SMT, <1>6, <1>9, <2>1
  <2>3. v \div unit \in Nat /\ (v \div unit <= MaxExp(F) => v < sign)
    BY SMT, <2>1, <2>2
  <2>4. v \div unit > MaxExp(F) => t = MaxExp(F) /\ R = unit
    <3>1. CASE unit = 2
      BY SMT, <1>6, <1>9, <2>1, <3>1
    <3>2. CASE unit = 4
      BY SMT, <1>6, <1>9, <2>1, <3>2
    <3>3. CASE unit = 8
      BY SMT, <1>6, <1>9, <2>1, <3>3
    <3> QED BY <2>1, <3>1, <3>2, <3>3
  <2> QED BY <1>6, <1>7, <2>1, <2>2, <2>3, <2>4
<1>13. 0 < t /\ t <= MaxExp(F) =>
         /\ NeedMax(v, F) <=> Overflows(v, F)
         /\ ~Overflows(v, F) => v \in 0 .. sign - 1
  BY <1>2, <1>12 DEF NeedMax, Overflows, Powers
<1>14. v \in 0 .. sign - 1 => WithSign(f, v, F) = f.s * sign + v
  BY <1>1, <1>2 DEF WithSign, Powers
<1>15. LEncode(f, F, rz) =
         IF IsNaN(f) THEN f.s * sign + (IF F.nanToMax THEN F.max ELSE F.nan)
         ELSE IF IsInf(f) THEN f.s * sign + F.max
         ELSE IF IsZero(f) THEN f.s * sign
         ELSE IF t > MaxExp(F) THEN f.s * sign + F.max
         ELSE IF t < -F.m THEN 0
         ELSE IF t <= 0 THEN LSubnormal(f, t, F, rz)
         ELSE IF NeedMax(v, F) THEN f.s * sign + F.max ELSE WithSign(f, v, F)
  BY <1>2, <1>3, <1>5, <1>9 DEF LEncode, LNormal, Powers
<1>16. -F.m <= t /\ t <= 0 =>
         LSubnormal(f, t, F, rz) = IF F.nan # 0 /\ small \div unit = MaxExp(F)
                                   THEN f.s * sign + F.max ELSE f.s * sign + small
  <2> SUFFICES ASSUME -F.m <= t, t <= 0
               PROVE  LSubnormal(f, t, F, rz)
                        = IF F.nan # 0 /\ small \div unit = MaxExp(F)
                          THEN f.s * sign + F.max ELSE f.s * sign + small
    OBVIOUS
  <2>1. 1 - t + 23 - F.m \in 1 .. 31
    BY SMT, <1>4
  <2> QED BY <1>2, <1>8, <2>1 DEF LSubnormal, Powers
<1>17. 2 ^ F.width = 2 * sign
  BY <1>2 DEF Powers
<1>18. /\ f.s * sign \in {0, sign} /\ sign \in Nat
       /\ F.max \in 0 .. sign - 1 /\ F.nan \in 0 .. sign - 1
  BY SMT, <1>1, <1>2
<1>19. LEncode(f, F, rz) = Encode(f, F, rz)
  <2>1. CASE IsNaN(f)
    BY <1>1, <1>10, <1>15, <1>18, <2>1
  <2>2. CASE ~IsNaN(f) /\ -F.m <= t /\ t <= 0
    BY <1>2, <1>4, <1>10, <1>15, <1>16, <2>2
  <2>3. CASE ~IsNaN(f) /\ 0 < t /\ t <= MaxExp(F)
    BY <1>2, <1>4, <1>10, <1>13, <1>14, <1>15, <2>3
  <2>4. CASE ~IsNaN(f) /\ (t < -F.m \/ t > MaxExp(F))
    BY <1>2, <1>4, <1>10, <1>15, <2>4
  <2> QED BY <1>2, <1>4, <2>1, <2>2, <2>3, <2>4
<1>20. Encode(f, F, rz) \in 0 .. 2 * sign - 1
  <2>1. CASE ~IsNaN(f) /\ -F.m <= t /\ t <= 0
    BY <1>10, <1>11, <1>18, <2>1
  <2>2. CASE ~IsNaN(f) /\ 0 < t /\ t <= MaxExp(F)
    BY <1>2, <1>4, <1>10, <1>13, <1>18, <2>2
  <2>3. CASE IsNaN(f) \/ t < -F.m \/ t > MaxExp(F)
    BY <1>2, <1>4, <1>10, <1>18, <2>3
  <2> QED BY <1>2, <1>4, <2>1, <2>2, <2>3
<1> QED BY <1>17, <1>19, <1>20

\* The emitted clamp and encoding pack what the interpreter packs.
LEMMA PackAgrees ==
  ASSUME NEW c, c.to \in NarrowFormats, NEW f \in Floats,
         ~(c.to.nanToMax /\ ~Has(c, "relu") /\ IsNaN(f) /\ f.s = 1),
         Has(c, "rz") \/ ~TopCarry(f, c.to)
  PROVE  LPack(f, c) = IPack(f, c)
<1>1. PICK F \in NarrowFormats : F = c.to
  OBVIOUS
<1>2. PICK sign \in Nat : /\ 2 ^ F.width = 2 * sign /\ SignBit(F) = sign /\ sign > 0
                          /\ F.max \in 0 .. sign - 1 /\ F.nan \in 0 .. sign - 1
  BY FormatFacts DEF Powers
<1>3. PICK g : g = LClamped(f, c, QuietNaN)
  OBVIOUS
<1>4. LPack(f, c) = (LEncode(g, F, Has(c, "rz")) % (2 * sign)) * 2 ^ F.shift
  BY <1>1, <1>2, <1>3 DEF LPack
<1>5. PICK code : code = IF Has(c, "relu") /\ IsNaN(f) THEN (IF F.nanToMax THEN F.max ELSE F.nan)
                         ELSE IF Has(c, "relu") /\ Below0(f) THEN 0
                         ELSE Encode(f, F, Has(c, "rz"))
  OBVIOUS
<1>6. IPack(f, c) = code * 2 ^ F.shift
  BY <1>1, <1>5 DEF IPack
<1>7. LEncode(g, F, Has(c, "rz")) = code /\ code \in 0 .. 2 * sign - 1
  <2>1. CASE Has(c, "relu") /\ IsNaN(f)
    <3>1. g = QuietNaN
      BY <1>3, <2>1 DEF LClamped
    <3>2. IsNaN(g) /\ g.s = 0
      BY SMT, <3>1 DEF QuietNaN, IsNaN, Float
    <3>3. LEncode(g, F, Has(c, "rz")) = 0 * sign + (IF F.nanToMax THEN F.max ELSE F.nan)
      BY <1>2, <3>2 DEF LEncode
    <3> QED BY <1>2, <1>5, <2>1, <3>3
  <2>2. CASE Has(c, "relu") /\ ~IsNaN(f) /\ Below0(f)
    <3>1. g = Zero
      BY <1>3, <2>2 DEF LClamped
    <3>2. ~IsNaN(g) /\ ~IsInf(g) /\ IsZero(g) /\ g.s = 0
      BY SMT, <3>1 DEF Zero, IsNaN, IsInf, IsZero, Float
    <3>3. LEncode(g, F, Has(c, "rz")) = 0 * sign
      BY <1>2, <3>2 DEF LEncode
    <3> QED BY <1>2, <1>5, <2>2, <3>3
  <2>3. CASE ~Has(c, "relu") \/ (~IsNaN(f) /\ ~Below0(f))
    <3>1. g = f
      BY <1>3, <2>3 DEF LClamped
    <3>2. Has(c, "rz") \in BOOLEAN
      BY DEF Has
    <3>3. ~(F.nanToMax /\ IsNaN(f) /\ f.s = 1)
      BY <1>1, <2>3
    <3>4. /\ LEncode(f, F, Has(c, "rz")) = Encode(f, F, Has(c, "rz"))
          /\ Encode(f, F, Has(c, "rz")) \in 0 .. 2 ^ F.width - 1
      BY <1>1, <3>2, <3>3, EncodeAgrees
    <3> QED BY <1>2, <1>5, <2>3, <3>1, <3>4
  <2> QED BY <2>1, <2>2, <2>3
<1>8. code % (2 * sign) = code
  BY SMT, <1>2, <1>7
<1> QED BY <1>4, <1>6, <1>7, <1>8

\* LLVM's truncation to f16 is the interpreter's.
LEMMA HalfAgrees ==
  ASSUME NEW f \in Floats
  PROVE  FpTrunc(f, F16) = HalfOf(f)
<1>1. f.s \in {0, 1} /\ f.e \in 0 .. 255 /\ f.man \in 0 .. 2 ^ 23 - 1
  BY DEF Floats
<1>2. F16.m = 10 /\ F16.e = 5 /\ F16.bias = 15
  BY DEF F16, Narrow
<1>3. MaxExp(F16) = 31
  BY SMT, <1>2 DEF MaxExp
<1>4. PICK t : t = (IF f.e = 0 THEN 1 ELSE f.e) - 127 + 15
  OBVIOUS
<1>5. Max({f.e, 1}) = IF f.e = 0 THEN 1 ELSE f.e
  BY <1>1 DEF Max
<1>6. /\ t \in Int /\ (f.e = 255 <=> t = 143) /\ (f.e = 0 => t = -111)
      /\ (f.e # 0 => t = f.e - 127 + 15)
  BY <1>1, <1>4
<1>7. FpTrunc(f, F16) =
        IF IsNaN(f) THEN f.s * SignBit(F16) + F16.nan
        ELSE IF t >= 31 THEN f.s * SignBit(F16) + Infinity(F16)
        ELSE IF t > 0 THEN f.s * SignBit(F16) + (f.e - 127 + 15) * 2 ^ 10
                             + Rounded(f.man, 13, FALSE)
        ELSE IF t < -10 THEN f.s * SignBit(F16)
        ELSE f.s * SignBit(F16) + Rounded(2 ^ 23 + f.man, 14 - t, FALSE)
  <2>1. 24 - F16.m - t = 14 - t /\ 23 - F16.m = 13 /\ -F16.m = -10
    BY <1>2, <1>6
  <2>2. Max({f.e, 1}) - 127 + F16.bias = t
    BY <1>2, <1>4, <1>5
  <2> QED BY <1>2, <1>3, <2>1, <2>2 DEF FpTrunc
<1>8. PICK big : big = 2 ^ 23
  OBVIOUS
<1>9. big \in Nat /\ 2 ^ 23 + f.man = f.man + 2 ^ 23
  BY SMT, <1>1, <1>8
<1>10. CASE f.e = 255
  BY <1>6, <1>7, <1>10 DEF HalfOf, IsNaN
<1>11. CASE f.e = 0
  BY <1>6, <1>7, <1>11 DEF HalfOf, IsNaN
<1>12. CASE f.e # 255 /\ f.e # 0
  <2>1. t = f.e - 127 + 15
    BY <1>6, <1>12
  <2>2. PICK infinite, normal, subnormal, zero :
          /\ infinite = f.s * SignBit(F16) + Infinity(F16)
          /\ normal = f.s * SignBit(F16) + t * 2 ^ 10 + Rounded(f.man, 13, FALSE)
          /\ subnormal = f.s * SignBit(F16) + Rounded(2 ^ 23 + f.man, 14 - t, FALSE)
          /\ zero = f.s * SignBit(F16)
    BY Zenon
  <2>3. HalfOf(f) = IF t >= 31 THEN infinite ELSE IF t < -10 THEN zero
                    ELSE IF t <= 0 THEN subnormal ELSE normal
    BY <1>9, <1>12, <2>1, <2>2 DEF HalfOf
  <2>4. FpTrunc(f, F16) = IF t >= 31 THEN infinite ELSE IF t > 0 THEN normal
                          ELSE IF t < -10 THEN zero ELSE subnormal
    BY <1>7, <1>12, <2>1, <2>2 DEF IsNaN
  <2> QED BY <1>6, <2>3, <2>4
<1> QED BY <1>10, <1>11, <1>12

\* LLVM's truncation to bf16: the exponents are the same.
LEMMA BrainTruncated ==
  ASSUME NEW f \in Floats
  PROVE  /\ IsNaN(f) => FpTrunc(f, BF16) = f.s * SignBit(BF16) + BF16.nan
         /\ IsInf(f) => FpTrunc(f, BF16) = f.s * SignBit(BF16) + Infinity(BF16)
         /\ f.e # 255 => FpTrunc(f, BF16)
                          = f.s * SignBit(BF16) + f.e * 2 ^ 7 + Rounded(f.man, 16, FALSE)
<1>1. f.s \in {0, 1} /\ f.e \in 0 .. 255 /\ f.man \in 0 .. 2 ^ 23 - 1
  BY DEF Floats
<1>2. BF16.m = 7 /\ BF16.e = 8 /\ BF16.bias = 127 /\ BF16.max = 32639 /\ BF16.nan = 32704
  BY DEF BF16, Narrow
<1>3. MaxExp(BF16) = 255 /\ Infinity(BF16) = 32640
  BY SMT, <1>2 DEF MaxExp, Infinity
<1>4. SignBit(BF16) = 2 ^ 15
  BY DEF SignBit, BF16, Narrow
<1>5. Max({f.e, 1}) = IF f.e = 0 THEN 1 ELSE f.e
  BY <1>1 DEF Max
<1>6. PICK t : t = (IF f.e = 0 THEN 1 ELSE f.e) - 127 + 127
  OBVIOUS
<1>7. t \in 1 .. 255 /\ (t = 255 <=> f.e = 255)
  BY <1>1, <1>6
<1>11. 23 - BF16.m = 16 /\ f.e - 127 + BF16.bias = f.e
  BY <1>1, <1>2
<1>12. Max({f.e, 1}) - 127 + BF16.bias = t
  BY <1>2, <1>5, <1>6
<1>13. PICK normal, subnormal :
        /\ normal = f.s * SignBit(BF16) + f.e * 2 ^ 7 + Rounded(f.man, 16, FALSE)
        /\ subnormal = f.s * SignBit(BF16) + Rounded(2 ^ 23 + f.man, 24 - BF16.m - t, FALSE)
  BY Zenon
<1>14. (f.e - 127 + BF16.bias) * 2 ^ BF16.m = f.e * 2 ^ 7
  BY <1>11, <1>2
<1>15. FpTrunc(f, BF16) =
        IF IsNaN(f) THEN f.s * SignBit(BF16) + BF16.nan
        ELSE IF t >= MaxExp(BF16) THEN f.s * SignBit(BF16) + Infinity(BF16)
        ELSE IF t > 0 THEN normal
        ELSE IF t < -BF16.m THEN f.s * SignBit(BF16) ELSE subnormal
  BY <1>11, <1>12, <1>13, <1>14 DEF FpTrunc
<1>16. t > 0 /\ (t >= 255 <=> f.e = 255)
  BY <1>7
<1>17. FpTrunc(f, BF16) = IF IsNaN(f) THEN f.s * SignBit(BF16) + BF16.nan
                         ELSE IF f.e = 255 THEN f.s * SignBit(BF16) + Infinity(BF16) ELSE normal
  BY <1>2, <1>3, <1>15, <1>16
<1> QED BY Zenon, <1>13, <1>17 DEF IsNaN, IsInf

\* That is the interpreter's, which adds to the bits.
LEMMA BrainAgrees ==
  ASSUME NEW f \in Floats, Canonical(f)
  PROVE  FpTrunc(f, BF16) = BrainOf(f)
<1>1. f.s \in {0, 1} /\ f.e \in 0 .. 255 /\ f.man \in 0 .. 2 ^ 23 - 1
  BY DEF Floats
<1>4. SignBit(BF16) = 2 ^ 15
  BY DEF SignBit, BF16, Narrow
<1>8. /\ IsNaN(f) => FpTrunc(f, BF16) = f.s * SignBit(BF16) + BF16.nan
      /\ IsInf(f) => FpTrunc(f, BF16) = f.s * SignBit(BF16) + Infinity(BF16)
      /\ f.e # 255 => FpTrunc(f, BF16)
                       = f.s * SignBit(BF16) + f.e * 2 ^ 7 + Rounded(f.man, 16, FALSE)
  BY Zenon, BrainTruncated
<1>2. BF16.nan = 32704 /\ Infinity(BF16) = 32640
  BY DEF BF16, Narrow, Infinity
<1>9. CASE f.e = 255
  <2>1. f.man = 0 \/ f.man = 2 ^ 22
    BY <1>9 DEF Canonical, IsNaN, QuietNaN, Float
  <2>2. f.man \div 2 ^ 16 = IF f.man = 0 THEN 0 ELSE 64
    BY SMT, <2>1
  <2>3. BrainOf(f) = f.s * SignBit(BF16) + 255 * 2 ^ 7 + f.man \div 2 ^ 16
    BY <1>9 DEF BrainOf
  <2> QED BY SMT, <1>1, <1>2, <1>4, <1>8, <1>9, <2>2, <2>3 DEF IsNaN, IsInf
<1>10. CASE f.e # 255
  <2>1. PICK high, low, sign, exp, half, one :
          /\ high = f.man \div 2 ^ 16 /\ low = f.man % 2 ^ 16
          /\ sign = f.s * SignBit(BF16) /\ exp = f.e * 2 ^ 7
          /\ half = 2 ^ 15 /\ one = 2 ^ 16
    BY Zenon
  <2>2. /\ high \in Nat /\ low \in 0 .. one - 1 /\ sign \in Nat /\ exp \in Nat
        /\ half = 32768 /\ one = 65536
    BY SMT, <1>1, <1>4, <2>1
  <2>3. PICK upper, odd : upper = sign + exp + high /\ odd = upper % 2
    BY Zenon
  <2>4. PICK rounded : rounded = Rounded(f.man, 16, FALSE)
    OBVIOUS
  <2>11. PICK carry : carry = (low + 32767 + odd) \div one
    OBVIOUS
  <2>10. BrainOf(f) = upper + carry
    BY <1>10, <2>1, <2>3, <2>11 DEF BrainOf
  <2>5. upper \in Nat /\ odd = high % 2
    <3>1. CASE f.s = 0
      BY SMT, <1>1, <1>4, <2>1, <2>2, <2>3, <3>1
    <3>2. CASE f.s = 1
      BY SMT, <1>1, <1>4, <2>1, <2>2, <2>3, <3>2
    <3> QED BY <1>1, <3>1, <3>2
  <2>6. rounded = IF RoundsUp(high, low, half) THEN high + 1 ELSE high
    BY <2>1, <2>4 DEF Rounded
  <2>7. FpTrunc(f, BF16) = sign + exp + rounded
    BY Zenon, <1>8, <1>10, <2>1, <2>4
  <2>8. CASE RoundsUp(high, low, half)
    <3>1. carry = 1
      BY SMT, <2>2, <2>11, <2>5, <2>8 DEF RoundsUp
    <3>2. rounded = high + 1
      BY Zenon, <2>6, <2>8
    <3> QED BY SMT, <2>2, <2>3, <2>7, <2>10, <3>1, <3>2
  <2>9. CASE ~RoundsUp(high, low, half)
    <3>1. carry = 0
      BY SMT, <2>2, <2>11, <2>5, <2>9 DEF RoundsUp
    <3>2. rounded = high
      BY Zenon, <2>6, <2>9
    <3> QED BY SMT, <2>2, <2>3, <2>7, <2>10, <3>1, <3>2
  <2> QED BY <2>8, <2>9
<1> QED BY <1>9, <1>10

LEMMA TruncAgrees ==
  ASSUME NEW f \in Floats, Canonical(f), NEW F \in Halves
  PROVE  FpTrunc(f, F) = HalfOrBrain(f, F)
<1>1. F16 # BF16
  BY DEF F16, BF16, Narrow
<1> QED BY <1>1, HalfAgrees, BrainAgrees DEF Halves, HalfOrBrain

-----------------------------------------------------------------------------
(* Widening.                                                               *)

\* The position of the leading one of a fraction.
LEMMA LargePowers ==
  ASSUME NEW k \in 3 .. 24
  PROVE  2 ^ k \in Nat /\ 2 ^ k >= 8
<1>1. CASE k = 3
  BY SMT, <1>1
<1>2. CASE k = 4
  BY SMT, <1>2
<1>3. CASE k = 5
  BY SMT, <1>3
<1>4. CASE k = 6
  BY SMT, <1>4
<1>5. CASE k = 7
  BY SMT, <1>5
<1>6. CASE k = 8
  BY SMT, <1>6
<1>7. CASE k = 9
  BY SMT, <1>7
<1>8. CASE k = 10
  BY SMT, <1>8
<1>9. CASE k = 11
  BY SMT, <1>9
<1>10. CASE k = 12
  BY SMT, <1>10
<1>11. CASE k = 13
  BY SMT, <1>11
<1>12. CASE k = 14
  BY SMT, <1>12
<1>13. CASE k = 15
  BY SMT, <1>13
<1>14. CASE k = 16
  BY SMT, <1>14
<1>15. CASE k = 17
  BY SMT, <1>15
<1>16. CASE k = 18
  BY SMT, <1>16
<1>17. CASE k = 19
  BY SMT, <1>17
<1>18. CASE k = 20
  BY SMT, <1>18
<1>19. CASE k = 21
  BY SMT, <1>19
<1>20. CASE k = 22
  BY SMT, <1>20
<1>21. CASE k = 23
  BY SMT, <1>21
<1>22. CASE k = 24
  BY SMT, <1>22
<1> QED BY SMT, <1>1, <1>2, <1>3, <1>4, <1>5, <1>6, <1>7, <1>8, <1>9, <1>10, <1>11,
               <1>12, <1>13, <1>14, <1>15, <1>16, <1>17, <1>18, <1>19, <1>20, <1>21, <1>22

LEMMA Log2OfFraction ==
  ASSUME NEW n \in 1 .. 7
  PROVE  Log2(n) = IF n = 1 THEN 0 ELSE IF n <= 3 THEN 1 ELSE 2
<1> DEFINE S == {k \in 0 .. 24 : 2 ^ k <= n}
<1>2. \A k \in 3 .. 24 : ~(2 ^ k <= n)
  <2> TAKE k \in 3 .. 24
  <2>1. PICK p : p = 2 ^ k
    OBVIOUS
  <2>2. p \in Nat /\ p >= 8
    BY Zenon, <2>1, LargePowers
  <2>3. ~(p <= n)
    BY <2>2
  <2> QED BY Zenon, <2>1, <2>3
<1>6. \A k \in 0 .. 24 : 2 ^ k <= n <=> k = 0 \/ (k = 1 /\ n >= 2) \/ (k = 2 /\ n >= 4)
  <2> TAKE k \in 0 .. 24
  <2>1. CASE k \in 3 .. 24
    <3>1. ~(2 ^ k <= n)
      BY Zenon, <1>2, <2>1
    <3>2. ~(k = 0 \/ (k = 1 /\ n >= 2) \/ (k = 2 /\ n >= 4))
      BY <2>1
    <3> QED BY Zenon, <3>1, <3>2
  <2>2. CASE k = 0
    BY SMT, <2>2
  <2>3. CASE k = 1
    BY SMT, <2>3
  <2>4. CASE k = 2
    BY SMT, <2>4
  <2> QED BY <2>1, <2>2, <2>3, <2>4
<1>3. S = IF n = 1 THEN {0} ELSE IF n <= 3 THEN {0, 1} ELSE {0, 1, 2}
  <2>1. \A k : k \in S <=> k \in 0 .. 24 /\ (k = 0 \/ (k = 1 /\ n >= 2) \/ (k = 2 /\ n >= 4))
    BY Zenon, <1>6
  <2> HIDE DEF S
  <2>2. CASE n = 1
    BY <2>1, <2>2
  <2>3. CASE n \in 2 .. 3
    BY <2>1, <2>3
  <2>4. CASE n \in 4 .. 7
    BY <2>1, <2>4
  <2> QED BY <2>2, <2>3, <2>4
<1>4. Max({0}) = 0 /\ Max({0, 1}) = 1 /\ Max({0, 1, 2}) = 2
  BY DEF Max
<1> HIDE DEF S
<1>5. Log2(n) = Max(S)
  BY DEF Log2, S
<1> QED BY <1>3, <1>4, <1>5

LEMMA ExponentField ==
  ASSUME NEW F \in NarrowFormats
  PROVE  2 ^ F.e = MaxExp(F) + 1
<1>1. CASE F = E4M3
  BY SMT, <1>1 DEF E4M3, Narrow, MaxExp
<1>2. CASE F = E5M2
  BY SMT, <1>2 DEF E5M2, Narrow, MaxExp
<1>3. CASE F = E3M2
  BY SMT, <1>3 DEF E3M2, Narrow, MaxExp
<1>4. CASE F = E2M3
  BY SMT, <1>4 DEF E2M3, Narrow, MaxExp
<1>5. CASE F = E2M1
  BY SMT, <1>5 DEF E2M1, Narrow, MaxExp
<1> QED BY <1>1, <1>2, <1>3, <1>4, <1>5 DEF NarrowFormats

\* A fraction of a format, put at the top of that of a float, and one of its
\* subnormal numbers on the way there.
LEMMA PlacedFraction ==
  ASSUME NEW m \in {1, 2, 3}, NEW n \in 0 .. 2 ^ m - 1
  PROVE  n * 2 ^ (23 - m) \in 0 .. 2 ^ 23 - 1
<1>1. CASE m = 1
  BY SMT, <1>1
<1>2. CASE m = 2
  BY SMT, <1>2
<1>3. CASE m = 3
  BY SMT, <1>3
<1> QED BY <1>1, <1>2, <1>3

LEMMA ShiftedFraction ==
  ASSUME NEW m \in {1, 2, 3}, NEW n \in 1 .. 2 ^ m - 1, NEW k \in {1, 2, 3}
  PROVE  (n * 2 ^ k) % 2 ^ m \in 0 .. 2 ^ m - 1
<1>1. 2 ^ k \in Nat /\ 2 ^ m \in {2, 4, 8}
  <2>1. 2 ^ 1 = 2 /\ 2 ^ 2 = 4 /\ 2 ^ 3 = 8
    BY SMT
  <2>2. 2 ^ k \in {2, 4, 8} /\ 2 ^ m \in {2, 4, 8}
    BY Zenon, <2>1
  <2> QED BY <2>2
<1>2. PICK p, q : p = 2 ^ k /\ q = 2 ^ m
  BY Zenon
<1>3. p \in Nat /\ q \in {2, 4, 8} /\ n \in 1 .. q - 1
  BY Zenon, <1>1, <1>2
<1>4. n * p \in Nat
  BY <1>3
<1>5. (n * p) % q \in 0 .. q - 1
  BY <1>3, <1>4
<1> QED BY Zenon, <1>2, <1>5

LEMMA FloatFields ==
  ASSUME NEW s \in {0, 1}, NEW e \in 0 .. 254, NEW man \in 0 .. 2 ^ 23 - 1
  PROVE  Float(s, e, man) \in Floats /\ ~IsNaN(Float(s, e, man))
<1>1. PICK big : big = 2 ^ 23 - 1
  OBVIOUS
<1>2. man \in 0 .. big /\ Floats = [s : {0, 1}, e : 0 .. 255, man : 0 .. big]
  BY Zenon, <1>1 DEF Floats
<1>3. e \in 0 .. 255 /\ e # 255
  OBVIOUS
<1> QED BY Zenon, <1>2, <1>3 DEF Float, IsNaN

\* The emitted decoding is the interpreter's: the loop is unrolled often enough.
\* What it gives is a float, its NaN the canonical one.
LEMMA DecodeAgrees ==
  ASSUME NEW F \in NarrowFormats, NEW code \in 0 .. 2 ^ F.width - 1
  PROVE  /\ LDecode(code, F) = Decode(code, F)
         /\ Decode(code, F) \in Floats /\ Canonical(Decode(code, F))
         /\ IsNaN(Decode(code, F)) => F.nan # 0
<1>1. PICK unit \in {2, 4, 8}, sign \in {8, 32, 128} :
        /\ Powers(F, unit, sign, MaxExp(F))
        /\ MaxExp(F) \in Nat /\ sign = (MaxExp(F) + 1) * unit
  BY FormatFacts
<1>2. /\ F.m \in {1, 2, 3} /\ F.bias \in {1, 3, 7, 15} /\ 2 ^ F.m = unit
      /\ SignBit(F) = sign /\ code \in 0 .. 2 * sign - 1 /\ AllMant(F) = unit - 1
  BY <1>1, FormatFacts DEF Powers, AllMant
<1>3. MaxExp(F) \in 0 .. 63
  <2>1. CASE unit = 2
    BY <1>1, <2>1
  <2>2. CASE unit = 4
    BY <1>1, <2>2
  <2>3. CASE unit = 8
    BY <1>1, <2>3
  <2> QED BY <2>1, <2>2, <2>3
<1>4. PICK s : s = code \div SignBit(F)
  OBVIOUS
<1>5. PICK e : e = ExpField(code, F)
  OBVIOUS
<1>6. PICK man : man = Fraction(code, F)
  OBVIOUS
<1>7. s \in {0, 1}
  BY <1>1, <1>2, <1>4
<1>8. e \in 0 .. MaxExp(F)
  <2>1. PICK d : d = code \div unit
    OBVIOUS
  <2>2. d \in Nat
    BY <1>1, <1>2, <2>1
  <2>3. e = d % (MaxExp(F) + 1)
    BY <1>2, <1>5, <2>1, ExponentField DEF ExpField
  <2> QED BY <1>3, <2>2, <2>3
<1>9. man \in 0 .. unit - 1
  BY <1>1, <1>2, <1>6 DEF Fraction
<1>10. man # 0 => Log2(man) \in Nat /\ F.m - Log2(man) \in {1, 2, 3}
                  /\ Min({Turns(F), F.m - Log2(man)}) = F.m - Log2(man)
  <2> SUFFICES ASSUME man # 0
               PROVE  Log2(man) \in Nat /\ F.m - Log2(man) \in {1, 2, 3}
                      /\ Min({Turns(F), F.m - Log2(man)}) = F.m - Log2(man)
    OBVIOUS
  <2>1. man \in 1 .. 7
    BY <1>1, <1>9
  <2>2. Log2(man) = IF man = 1 THEN 0 ELSE IF man <= 3 THEN 1 ELSE 2
    BY <2>1, Log2OfFraction
  <2>3. /\ F.m = 1 => man = 1
        /\ F.m = 2 => man <= 3
    <3>1. 2 ^ 1 = 2 /\ 2 ^ 2 = 4
      BY SMT
    <3>2. (F.m = 1 => unit = 2) /\ (F.m = 2 => unit = 4)
      BY Zenon, <1>2, <3>1
    <3> QED BY <1>9, <2>1, <3>2
  <2>4. Log2(man) \in Nat /\ F.m - Log2(man) \in {1, 2, 3}
    BY <1>2, <2>1, <2>2, <2>3
  <2> QED BY <1>2, <2>4, MinOfTwo DEF Turns
<1>11. PICK normal : normal = Normal(s, e, man, F)
  OBVIOUS
<1>12. PICK lifted : lifted = Lifted(s, man, F.m - Log2(man), F)
  OBVIOUS
<1>13. Decode(code, F) =
         IF e = 0 /\ man = 0 THEN Float(s, 0, 0)
         ELSE IF e = 0 THEN lifted
         ELSE IF e = MaxExp(F) /\ F.nan # 0 /\ ~TopNormal(F) /\ man = 0 THEN Float(s, 255, 0)
         ELSE IF e = MaxExp(F) /\ F.nan # 0 /\ (man = AllMant(F) \/ ~TopNormal(F))
         THEN Float(s, 255, 2 ^ 22) ELSE normal
  BY Zenon, <1>4, <1>5, <1>6, <1>11, <1>12 DEF Decode
<1>14. LDecode(code, F) =
         IF e = 0 THEN (IF man = 0 THEN Float(s, 0, 0)
                        ELSE Lifted(s, man, Min({Turns(F), F.m - Log2(man)}), F))
         ELSE IF e = MaxExp(F)
         THEN (IF F.nan = 0 THEN normal
               ELSE IF TopNormal(F)
               THEN (IF man = AllMant(F) THEN Float(s, 255, 2 ^ 22) ELSE normal)
               ELSE (IF man = 0 THEN Float(s, 255, 0) ELSE Float(s, 255, 2 ^ 22)))
         ELSE normal
  BY Zenon, <1>4, <1>5, <1>6, <1>11 DEF LDecode
<1>15. LDecode(code, F) = Decode(code, F)
  <2>1. CASE e = 0 /\ man # 0
    BY Zenon, <1>10, <1>12, <1>13, <1>14, <2>1
  <2>2. CASE e = 0 /\ man = 0
    BY Zenon, <1>13, <1>14, <2>2
  <2>3. CASE e # 0
    BY <1>13, <1>14, <2>3
  <2> QED BY Zenon, <2>1, <2>2, <2>3
<1>16. normal \in Floats /\ ~IsNaN(normal)
  <2>1. e - F.bias + 127 \in 0 .. 254
    BY <1>2, <1>3, <1>8
  <2>2. man * 2 ^ (23 - F.m) \in 0 .. 2 ^ 23 - 1
    BY Zenon, <1>2, <1>9, PlacedFraction
  <2>3. PICK x \in 0 .. 254 : x = e - F.bias + 127
    BY <2>1
  <2>4. PICK y \in 0 .. 2 ^ 23 - 1 : y = man * 2 ^ (23 - F.m)
    BY Zenon, <2>2
  <2>5. normal = Float(s, x, y)
    BY Zenon, <1>11, <2>3, <2>4 DEF Normal
  <2>6. Float(s, x, y) \in Floats /\ ~IsNaN(Float(s, x, y))
    BY ZenonT(60), <1>7, FloatFields
  <2> QED BY Zenon, <2>5, <2>6
<1>17. e = 0 /\ man # 0 => lifted \in Floats /\ ~IsNaN(lifted)
  <2> SUFFICES ASSUME man # 0 PROVE lifted \in Floats /\ ~IsNaN(lifted)
    OBVIOUS
  <2>1. PICK k \in {1, 2, 3} : k = F.m - Log2(man)
    BY <1>10
  <2>2. 127 - F.bias + 1 - k \in 0 .. 254
    BY <1>2, <2>1
  <2>3. man \in 1 .. unit - 1
    BY <1>1, <1>9
  <2>4. (man * 2 ^ k) % 2 ^ F.m \in 0 .. 2 ^ F.m - 1
    BY Zenon, <1>2, <2>3, ShiftedFraction
  <2>5. ((man * 2 ^ k) % 2 ^ F.m) * 2 ^ (23 - F.m) \in 0 .. 2 ^ 23 - 1
    BY Zenon, <1>2, <2>4, PlacedFraction
  <2>6. PICK x \in 0 .. 254 : x = 127 - F.bias + 1 - k
    BY <2>2
  <2>7. PICK y \in 0 .. 2 ^ 23 - 1 : y = ((man * 2 ^ k) % 2 ^ F.m) * 2 ^ (23 - F.m)
    BY Zenon, <2>5
  <2>8. lifted = Float(s, x, y)
    BY Zenon, <1>12, <2>1, <2>6, <2>7 DEF Lifted
  <2> QED BY <1>7, <2>8, FloatFields
<1>18. /\ Float(s, 0, 0) \in Floats /\ ~IsNaN(Float(s, 0, 0))
       /\ Float(s, 255, 0) \in Floats /\ ~IsNaN(Float(s, 255, 0))
       /\ Float(s, 255, 2 ^ 22) \in Floats /\ Canonical(Float(s, 255, 2 ^ 22))
  <2>1. 0 \in 0 .. 2 ^ 23 - 1 /\ 2 ^ 22 \in 0 .. 2 ^ 23 - 1 /\ 0 \in 0 .. 255 /\ 255 \in 0 .. 255
    BY SMT
  <2> QED BY <1>7, <2>1 DEF Float, Floats, IsNaN, Canonical, QuietNaN
<1>19. ~IsNaN(normal) => Canonical(normal)
  BY DEF Canonical
<1>20. ~IsNaN(lifted) => Canonical(lifted)
  BY DEF Canonical
<1>21. Canonical(Float(s, 0, 0)) /\ Canonical(Float(s, 255, 0))
  BY Zenon, <1>18 DEF Canonical
<1>22. /\ Decode(code, F) \in Floats /\ Canonical(Decode(code, F))
       /\ IsNaN(Decode(code, F)) => F.nan # 0
  <2>1. CASE e = 0
    BY Zenon, <1>13, <1>17, <1>18, <1>20, <1>21, <2>1
  <2>2. CASE e # 0 /\ Decode(code, F) = normal
    BY Zenon, <1>16, <1>19, <2>2
  <2>3. CASE e # 0 /\ Decode(code, F) # normal
    <3>1. \/ Decode(code, F) = Float(s, 255, 0)
          \/ Decode(code, F) = Float(s, 255, 2 ^ 22) /\ F.nan # 0
      BY Zenon, <1>13, <2>3
    <3>2. CASE Decode(code, F) = Float(s, 255, 0)
      <4>1. PICK g : g = Float(s, 255, 0)
        OBVIOUS
      <4>2. g \in Floats /\ Canonical(g) /\ ~IsNaN(g)
        BY Zenon, <1>18, <1>21, <4>1
      <4>3. Decode(code, F) = g
        BY Zenon, <3>2, <4>1
      <4> QED BY Zenon, <4>2, <4>3
    <3>3. CASE Decode(code, F) = Float(s, 255, 2 ^ 22) /\ F.nan # 0
      <4>1. PICK g : g = Float(s, 255, 2 ^ 22)
        OBVIOUS
      <4>2. g \in Floats /\ Canonical(g)
        BY Zenon, <1>18, <4>1
      <4>3. Decode(code, F) = g
        BY Zenon, <3>3, <4>1
      <4> QED BY Zenon, <3>3, <4>2, <4>3
    <3> QED BY Zenon, <3>1, <3>2, <3>3
  <2> QED BY Zenon, <2>1, <2>2, <2>3
<1> QED BY Zenon, <1>15, <1>22

LEMMA UnpackedCode ==
  ASSUME NEW F \in NarrowFormats, NEW byte \in Nat
  PROVE  Unpack(byte, F) \in 0 .. 2 ^ F.width - 1
<1>1. F.shift \in {0, 2}
  BY DEF NarrowFormats, E4M3, E5M2, E3M2, E2M3, E2M1, Narrow
<1>2. PICK d : d = byte \div 2 ^ F.shift
  OBVIOUS
<1>3. d \in Nat
  <2>1. CASE F.shift = 0
    BY SMT, <1>2, <2>1
  <2>2. CASE F.shift = 2
    BY SMT, <1>2, <2>2
  <2> QED BY <1>1, <2>1, <2>2
<1>4. PICK w : w = 2 ^ F.width
  OBVIOUS
<1>5. w \in Nat /\ w > 0
  BY <1>4, FormatFacts DEF Powers
<1>6. Unpack(byte, F) = d % w
  BY Zenon, <1>2, <1>4 DEF Unpack
<1>7. Unpack(byte, F) \in 0 .. w - 1
  BY <1>3, <1>5, <1>6
<1> QED BY Zenon, <1>4, <1>7

\* A widening clamps, and truncates, as the interpreter does, but for a NaN
\* under .relu.
LEMMA WidenAgrees ==
  ASSUME NEW c, c.from \in NarrowFormats, c.to \in Halves, NEW byte \in Nat,
         ~(Has(c, "relu") /\ IsNaN(Decode(Unpack(byte, c.from), c.from)))
  PROVE  LWiden(byte, c) = IWiden(byte, c)
<1>1. PICK F \in NarrowFormats : F = c.from
  OBVIOUS
<1>2. PICK code : code = Unpack(byte, F)
  OBVIOUS
<1>3. code \in 0 .. 2 ^ F.width - 1
  BY Zenon, <1>2, UnpackedCode
<1>4. PICK f : f = Decode(code, F)
  OBVIOUS
<1>5. LDecode(code, F) = f /\ f \in Floats /\ Canonical(f)
  BY Zenon, <1>3, <1>4, DecodeAgrees
<1>6. ~(Has(c, "relu") /\ IsNaN(f))
  BY Zenon, <1>1, <1>2, <1>4
<1>7. PICK g : g = IF Has(c, "relu") /\ Below0(f) THEN Zero ELSE f
  OBVIOUS
<1>8. LClamped(f, c, Float(0, 255, 0)) = g
  BY Zenon, <1>6, <1>7 DEF LClamped
<1>9. g \in Floats /\ Canonical(g)
  <2>1. Zero \in Floats /\ ~IsNaN(Zero)
    <3>1. 0 \in 0 .. 2 ^ 23 - 1 /\ 0 \in 0 .. 254 /\ 0 \in {0, 1}
      BY SMT
    <3> QED BY Zenon, <3>1, FloatFields DEF Zero
  <2> QED BY Zenon, <1>5, <1>7, <2>1 DEF Canonical
<1>10. LWiden(byte, c) = FpTrunc(g, c.to)
  BY Zenon, <1>1, <1>2, <1>5, <1>8 DEF LWiden
<1>11. IWiden(byte, c) = HalfOrBrain(g, c.to)
  BY Zenon, <1>1, <1>2, <1>4, <1>6, <1>7 DEF IWiden
<1> QED BY Zenon, <1>9, <1>10, <1>11, TruncAgrees

-----------------------------------------------------------------------------
(* Any conversion of the ISA's.                                            *)
LEMMA FormatsApart ==
  /\ Halves \cap NarrowFormats = {} /\ F32 \notin NarrowFormats /\ F32 \notin Halves
  /\ \A F \in Halves : ~F.nanToMax
  /\ ~F32.nanToMax
BY DEF Halves, NarrowFormats, F16, BF16, F32, E4M3, E5M2, E3M2, E2M3, E2M1, Narrow

\* What the interpreter takes, the compiler takes.
LEMMA AcceptsAgree ==
  ASSUME NEW c, IsConversion(c), ~Differs(c), IAccepts(c)
  PROVE  LAccepts(c)
<1>1. c.mods \in Seq(STRING)
  BY DEF IsConversion
<1>2. SUFFICES ASSUME c.mods # << >> PROVE LAccepts(c)
  BY DEF LAccepts
<1>3. PICK k : k = Len(c.mods)
  OBVIOUS
<1>4. k \in DOMAIN c.mods /\ Last(c.mods) = c.mods[k]
  BY <1>1, <1>2, <1>3 DEF Last
<1>5. PICK mod : mod = c.mods[k]
  OBVIOUS
<1>6. CASE mod = "rn"
  BY <1>4, <1>5, <1>6 DEF LAccepts, IsConversion, Halves
<1>7. CASE mod = "relu"
  <2>1. Has(c, "relu")
    BY <1>4, <1>5, <1>7 DEF Has
  <2>2. {c.from, c.to} \cap NarrowFormats # {}
    BY Zenon, <2>1 DEF Differs
  <2> QED BY <1>4, <1>5, <1>7, <2>2 DEF LAccepts
<1>8. CASE mod \in {"rz", "satfinite"}
  <2>1. {c.from, c.to} \cap NarrowFormats # {}
    BY <1>4, <1>5, <1>8 DEF IAccepts
  <2> QED BY <1>4, <1>5, <1>8, <2>1 DEF LAccepts
<1>9. CASE mod \notin {"rn", "relu", "rz", "satfinite"}
  BY <1>4, <1>5, <1>9 DEF IAccepts
<1> QED BY <1>6, <1>7, <1>8, <1>9

LEMMA ConvertAgrees ==
  ASSUME NEW c, IsConversion(c), ~Differs(c), ~CarriesOut(c), NEW k \in DOMAIN c.operands
  PROVE  LConvertFloat(c.operands[k], c) = IConvertFloat(c.operands[k], c)
<1>1. PICK x : x = c.operands[k]
  OBVIOUS
<1>2. CASE c.from = F32 /\ c.to \in NarrowFormats /\ c.operands \in Seq(Floats)
  <2>1. x \in Floats
    BY Zenon, <1>1, <1>2, ElementOfSeq, LenProperties
  <2>2. ~(c.to.nanToMax /\ ~Has(c, "relu") /\ IsNaN(x) /\ x.s = 1)
    BY Zenon, <1>1 DEF Differs
  <2>3. Has(c, "rz") \/ ~TopCarry(x, c.to)
    BY Zenon, <1>1, <1>2 DEF CarriesOut
  <2>4. LPack(x, c) = IPack(x, c)
    BY Zenon, <1>2, <2>1, <2>2, <2>3, PackAgrees
  <2>5. c.from \notin NarrowFormats /\ c.to \notin Halves
    BY Zenon, <1>2, FormatsApart
  <2>6. LConvertFloat(x, c) = LPack(x, c) /\ IConvertFloat(x, c) = IPack(x, c)
    BY <1>2, <2>5 DEF LConvertFloat, IConvertFloat
  <2> QED BY Zenon, <1>1, <2>4, <2>6
<1>3. CASE c.from = F32 /\ c.to \in Halves /\ c.operands \in Seq({f \in Floats : Canonical(f)})
  <2>1. x \in Floats /\ Canonical(x)
    <3>1. PICK S : S = {f \in Floats : Canonical(f)}
      OBVIOUS
    <3>2. x \in S
      BY Zenon, <1>1, <1>3, <3>1, ElementOfSeq, LenProperties
    <3> QED BY Zenon, <3>1, <3>2
  <2>2. FpTrunc(x, c.to) = HalfOrBrain(x, c.to)
    BY Zenon, <1>3, <2>1, TruncAgrees
  <2>3. c.to \notin NarrowFormats /\ c.from \notin NarrowFormats
    BY Zenon, <1>3, FormatsApart
  <2> QED BY Zenon, <1>1, <1>3, <2>2, <2>3 DEF LConvertFloat, IConvertFloat, LSingle, ISingle
<1>4. CASE c.from \in NarrowFormats /\ c.to \in Halves /\ c.operands \in Seq(0 .. 255)
  <2>1. x \in Nat
    <3>1. PICK S : S = 0 .. 255
      OBVIOUS
    <3>2. c.operands \in Seq(S)
      BY <1>4, <3>1
    <3>3. x \in S
      BY Zenon, <1>1, <3>2, ElementOfSeq, LenProperties
    <3> QED BY <3>1, <3>3
  <2>2. c.to \notin NarrowFormats
    BY Zenon, <1>4, FormatsApart
  <2>3. ~(Has(c, "relu") /\ IsNaN(Decode(Unpack(x, c.from), c.from)))
    <3>1. SUFFICES ASSUME Has(c, "relu"), IsNaN(Decode(Unpack(x, c.from), c.from))
                   PROVE  FALSE
      OBVIOUS
    <3>2. c.from.nan # 0
      BY Zenon, <1>4, <2>1, <3>1, UnpackedCode, DecodeAgrees
    <3> QED BY Zenon, <1>1, <1>4, <3>1, <3>2 DEF Differs
  <2>4. LWiden(x, c) = IWiden(x, c)
    BY Zenon, <1>4, <2>1, <2>3, WidenAgrees
  <2>5. c.from # F32
    BY Zenon, <1>4, FormatsApart
  <2>6. LConvertFloat(x, c) = LWiden(x, c) /\ IConvertFloat(x, c) = IWiden(x, c)
    BY <1>4, <2>2, <2>5 DEF LConvertFloat, IConvertFloat
  <2> QED BY Zenon, <1>1, <2>4, <2>6
<1>5. CASE c.from \in Halves /\ c.to = F32
  <2>1. c.from \notin NarrowFormats /\ c.to \notin NarrowFormats /\ c.from # F32
    BY Zenon, <1>5, FormatsApart
  <2> QED BY Zenon, <1>1, <1>5, <2>1 DEF LConvertFloat, IConvertFloat, LBack, IBack, FpExt
<1> QED BY Zenon, <1>2, <1>3, <1>4, <1>5 DEF IsConversion

LEMMA ResultAgrees ==
  ASSUME NEW c, IsConversion(c), ~Differs(c), ~CarriesOut(c), InterpResult(c) # NotTaken
  PROVE  LlvmResult(c) = InterpResult(c)
<1>1. IAccepts(c)
  BY DEF InterpResult
<1>2. LAccepts(c)
  BY <1>1, AcceptsAgree
<1> QED BY Zenon, <1>1, <1>2, ConvertAgrees DEF InterpResult, LlvmResult

(* Whatever the operands: a conversion that the interpreter takes is taken *)
(* by the compiler, and the emitted integer code gives the bits that       *)
(* f32_to_narrow and its neighbours give, outside the two disagreements    *)
(* named (emit_fp_encode, emit_fp_decode, emit_narrow_cvt).                *)
THEOREM EmittedCodeMirrors ==
  ASSUME \A c \in Conversions : IsConversion(c) /\ ~Differs(c) /\ ~CarriesOut(c)
  PROVE  NarrowSpec => []SameNarrowBits
<1> DEFINE Computed == /\ conv \in Conversions
                       /\ converted => /\ interpCodes = InterpResult(conv)
                                       /\ llvmCodes = LlvmResult(conv)
<1>1. NarrowInit => Computed
  BY DEF NarrowInit
<1>2. Computed /\ [NarrowNext]_narrowVars => Computed'
  BY DEF NarrowNext, Convert, narrowVars
<1>3. Computed => SameNarrowBits
  BY ResultAgrees DEF SameNarrowBits
<1> QED BY <1>1, <1>2, <1>3, PTL DEF NarrowSpec

-----------------------------------------------------------------------------
(* Rounding.  Powers of two, and numbers as they are compared.             *)
\* Some number of a set of naturals is the least.
LEMMA LeastNatural ==
  ASSUME NEW S \in SUBSET Nat, S # {}
  PROVE  \E x \in S : \A y \in S : x <= y
<1> DEFINE R == OpToRel(<, Nat)
<1>1. IsWellFoundedOn(R, Nat)
  BY NatLessThanWellFounded
<1>2. \A x, y \in Nat : <<y, x>> \in R <=> y < x
  BY DEF OpToRel
<1> HIDE DEF R
<1>3. PICK x \in S : \A y \in S : ~(<<y, x>> \in R)
  BY <1>1, WFMin
<1>4. \A y \in S : x \in Nat /\ y \in Nat /\ ~(y < x)
  BY <1>2, <1>3
<1> QED BY <1>4

\* Powers of two, as far as the numbers here go.  The provers know the powers
\* of literals only.
LEMMA PowerStep ==
  ASSUME NEW j \in 0 .. 30
  PROVE  2 ^ j \in Nat \ {0} /\ 2 ^ (j + 1) = 2 * 2 ^ j
<1> DEFINE P(x) == 2 ^ x
<1>1. P(0) = 1
  BY SMT
<1>2. /\ P(1) = 2 * P(0) /\ P(2) = 2 * P(1) /\ P(3) = 2 * P(2) /\ P(4) = 2 * P(3)
     /\ P(5) = 2 * P(4) /\ P(6) = 2 * P(5) /\ P(7) = 2 * P(6) /\ P(8) = 2 * P(7)
     /\ P(9) = 2 * P(8) /\ P(10) = 2 * P(9) /\ P(11) = 2 * P(10) /\ P(12) = 2 * P(11)
     /\ P(13) = 2 * P(12) /\ P(14) = 2 * P(13) /\ P(15) = 2 * P(14) /\ P(16) = 2 * P(15)
     /\ P(17) = 2 * P(16) /\ P(18) = 2 * P(17) /\ P(19) = 2 * P(18) /\ P(20) = 2 * P(19)
     /\ P(21) = 2 * P(20) /\ P(22) = 2 * P(21) /\ P(23) = 2 * P(22) /\ P(24) = 2 * P(23)
     /\ P(25) = 2 * P(24) /\ P(26) = 2 * P(25) /\ P(27) = 2 * P(26) /\ P(28) = 2 * P(27)
     /\ P(29) = 2 * P(28) /\ P(30) = 2 * P(29) /\ P(31) = 2 * P(30)
  BY SMT
<1> DEFINE power == [x \in 0 .. 31 |-> P(x)]
<1> HIDE DEF P
<1>3. power[0] = 1 /\ \A x \in 0 .. 30 : power[x + 1] = 2 * power[x]
  BY <1>1, <1>2
<1>4. j \in 0 .. 31 /\ j + 1 \in 0 .. 31 /\ \A x \in 0 .. 31 : power[x] = P(x)
  OBVIOUS
<1> HIDE DEF power
<1> DEFINE Bad == {x \in Nat : x <= 30 /\ power[x] \notin Nat \ {0}}
<1>6. Bad = {}
  <2> SUFFICES ASSUME Bad # {} PROVE FALSE
    OBVIOUS
  <2>1. PICK x \in Bad : \A y \in Bad : x <= y
    BY LeastNatural
  <2>2. x - 1 \in 0 .. 30 /\ x - 1 \notin Bad /\ power[(x - 1) + 1] = 2 * power[x - 1]
    BY <1>3, <2>1
  <2> QED BY <2>1, <2>2
<1>7. power[j] \in Nat \ {0}
  BY <1>6
<1>5. P(j) \in Nat \ {0} /\ P(j + 1) = 2 * P(j)
  BY Zenon, <1>3, <1>4, <1>7
<1> QED BY Zenon, <1>5 DEF P

\* Exponents add up.
LEMMA PowerSum ==
  ASSUME NEW a \in Nat, NEW b \in Nat, a + b <= 31
  PROVE  2 ^ (a + b) = 2 ^ a * 2 ^ b
<1> DEFINE P(x) == 2 ^ x
           power == [x \in 0 .. 31 |-> P(x)]
<1>1. P(0) = 1
  BY SMT
<1>2. \A x \in 0 .. 30 : P(x) \in Nat \ {0} /\ P(x + 1) = 2 * P(x)
  BY Zenon, PowerStep
<1> HIDE DEF P
<1>3. power[0] = 1 /\ \A x \in 0 .. 30 : power[x] \in Nat \ {0} /\ power[x + 1] = 2 * power[x]
  BY <1>1, <1>2
<1>4. \A x \in 0 .. 31 : power[x] = P(x)
  OBVIOUS
<1> HIDE DEF power
<1>5. power[31] \in Nat
  BY <1>3
<1> DEFINE Bad == {y \in Nat : a + y <= 31 /\ power[a + y] # power[a] * power[y]}
<1>6. Bad = {}
  <2> SUFFICES ASSUME Bad # {} PROVE FALSE
    OBVIOUS
  <2>1. PICK y \in Bad : \A z \in Bad : y <= z
    BY LeastNatural
  <2>2. y # 0
    BY <1>3, <1>5, <2>1
  <2>3. y - 1 \in Nat /\ a + (y - 1) <= 31 /\ y - 1 \notin Bad
    BY <2>1, <2>2
  <2>4. power[a + (y - 1)] = power[a] * power[y - 1]
    BY <2>3
  <2>5. PICK q : q = y - 1
    OBVIOUS
  <2>6. q \in 0 .. 30 /\ a + q \in 0 .. 30 /\ y = q + 1 /\ a + y = (a + q) + 1 /\ a \in 0 .. 31
    BY <2>1, <2>2, <2>5
  <2>7. power[a + y] = 2 * power[a + q] /\ power[y] = 2 * power[q]
    BY <1>3, <2>6
  <2>8. power[a] \in Int /\ power[q] \in Int
    BY <1>3, <1>5, <2>6
  <2>9. power[a] * (2 * power[q]) = 2 * (power[a] * power[q])
    BY <2>8
  <2> QED BY <2>1, <2>4, <2>5, <2>7, <2>9
<1>7. power[a + b] = power[a] * power[b]
  BY <1>6
<1>8. a \in 0 .. 31 /\ b \in 0 .. 31 /\ a + b \in 0 .. 31
  OBVIOUS
<1> QED BY Zenon, <1>4, <1>7, <1>8 DEF P

\* A larger exponent makes no smaller power.
LEMMA PowerGrows ==
  ASSUME NEW a \in 0 .. 30, NEW b \in 0 .. 30, a <= b
  PROVE  2 ^ a \in Nat \ {0} /\ 2 ^ b \in Nat \ {0} /\ 2 ^ a <= 2 ^ b
<1>1. b - a \in 0 .. 30 /\ a + (b - a) = b /\ a \in Nat /\ b - a \in Nat
  OBVIOUS
<1> DEFINE d == b - a
<1>2. PICK p, q, r : p = 2 ^ a /\ q = 2 ^ d /\ r = 2 ^ b
  OBVIOUS
<1>3. d \in 0 .. 30 /\ a + d = b /\ a \in Nat /\ d \in Nat /\ a + d <= 31
  OBVIOUS
<1> HIDE DEF d
<1>4. p \in Nat \ {0} /\ q \in Nat \ {0} /\ r \in Nat \ {0}
  BY Zenon, <1>2, <1>3, PowerStep
<1>5. r = p * q
  BY Zenon, <1>2, <1>3, PowerSum
<1>6. p <= r
  BY <1>4, <1>5
<1> QED BY Zenon, <1>2, <1>4, <1>6

\* A number lies between the power of its logarithm and the next.
LEMMA Log2Is ==
  ASSUME NEW n \in Nat, 0 < n, n < 2 ^ 24
  PROVE  Log2(n) \in 0 .. 23 /\ 2 ^ Log2(n) <= n /\ n < 2 ^ (Log2(n) + 1)
<1> DEFINE P(x) == 2 ^ x
           S == {k \in 0 .. 24 : P(k) <= n}
<1>1. P(0) = 1 /\ P(24) \in Nat /\ n < P(24)
  BY SMT
<1>2. Log2(n) = Max(S)
  BY Zenon DEF Log2
<1> HIDE DEF P
<1>3. 0 \in S /\ 24 \notin S
  BY <1>1
<1> DEFINE Room == {x \in Nat : x <= 24 /\ 24 - x \in S}
<1>4. PICK x \in Room : \A y \in Room : x <= y
  <2>1. 24 \in Room
    BY <1>3
  <2> QED BY <2>1, LeastNatural
<1>5. 24 - x \in S /\ \A y \in S : 24 - x >= y
  <2> SUFFICES ASSUME NEW y \in S PROVE 24 - x >= y
    BY <1>4
  <2>1. 24 - y \in Room
    OBVIOUS
  <2>2. x \in Nat /\ y \in 0 .. 24 /\ x <= 24 - y
    BY <1>4, <2>1
  <2> QED BY <2>2
<1>6. PICK L \in S : L = Max(S) /\ \A y \in S : L >= y
  BY <1>5 DEF Max
<1>7. L \in 0 .. 23 /\ L + 1 \in 0 .. 24 /\ L + 1 \notin S
  BY <1>3, <1>6
<1>8. P(L) <= n /\ ~(P(L + 1) <= n)
  BY <1>7
<1>9. P(L + 1) \in Nat
  <2>1. L + 1 \in 0 .. 30
    BY <1>7
  <2> QED BY Zenon, <2>1, PowerStep DEF P
<1>10. n < P(L + 1)
  BY <1>8, <1>9
<1> QED BY Zenon, <1>2, <1>6, <1>7, <1>8, <1>10 DEF P

\* Numbers in different binades.
LEMMA LessByTop ==
  ASSUME NEW a, NEW b, a.n # 0, b.n # 0, Top(a) \in Int, Top(b) \in Int, Top(a) < Top(b)
  PROVE  Less(a, b) /\ ~Less(b, a)
BY DEF Less

\* Numbers whose last bits lie d places apart, compared as integers.
LEMMA LessScaled ==
  ASSUME NEW a \in Nat, NEW b \in Nat, NEW k \in Int, NEW d \in 0 .. 25,
         0 < a, a < 2 ^ 24, 0 < b, b < 2 ^ 24, b * 2 ^ d < 2 ^ 30
  PROVE  /\ Less(Number(a, k), Number(b, k + d)) <=> a < b * 2 ^ d
         /\ Less(Number(b, k + d), Number(a, k)) <=> b * 2 ^ d < a
<1>1. PICK L \in 0 .. 23 : L = Log2(a) /\ 2 ^ L <= a /\ a < 2 ^ (L + 1)
  BY Log2Is
<1>2. PICK K \in 0 .. 23 : K = Log2(b) /\ 2 ^ K <= b /\ b < 2 ^ (K + 1)
  BY Log2Is
<1>3. PICK w : w = 2 ^ d
  OBVIOUS
<1>4. d \in 0 .. 30 /\ 30 \in 0 .. 30
  OBVIOUS
<1>5. w \in Nat \ {0}
  BY Zenon, <1>3, <1>4, PowerStep
<1>6. K + d < 30
  <2> SUFFICES ASSUME K + d >= 30 PROVE FALSE
    OBVIOUS
  <2>1. PICK i \in 0 .. 30 : i = 30 - d /\ i <= K /\ i + d = 30 /\ K \in 0 .. 30
    OBVIOUS
  <2>2. PICK p, q, r : p = 2 ^ i /\ q = 2 ^ K /\ r = 2 ^ 30
    OBVIOUS
  <2>3. p \in Nat /\ q \in Nat /\ p <= q /\ q <= b
    BY Zenon, <1>2, <2>1, <2>2, PowerGrows
  <2>4. r = p * w
    <3>1. i \in Nat /\ d \in Nat /\ i + d <= 31
      BY <2>1
    <3> QED BY Zenon, <1>3, <2>1, <2>2, <3>1, PowerSum
  <2>5. b * w < r
    BY Zenon, <1>3, <2>2
  <2>6. p * w <= b * w
    BY <1>5, <2>3
  <2>7. b * w \in Nat /\ p * w \in Nat
    BY <1>5, <2>3
  <2> QED BY <2>4, <2>5, <2>6, <2>7
<1>7. PICK p, q : p = 2 ^ (K + d) /\ q = 2 ^ (K + 1 + d)
  OBVIOUS
<1>8. PICK x, y : x = 2 ^ K /\ y = 2 ^ (K + 1)
  OBVIOUS
<1>9. p = x * w /\ q = y * w
  <2>1. K \in Nat /\ d \in Nat /\ K + d <= 31 /\ K + 1 \in Nat /\ (K + 1) + d <= 31
    BY <1>6
  <2> QED BY Zenon, <1>3, <1>7, <1>8, <2>1, PowerSum
<1>10. x \in Nat /\ y \in Nat /\ x <= b /\ b < y
  <2>1. K \in 0 .. 30 /\ K + 1 \in 0 .. 30
    OBVIOUS
  <2> QED BY Zenon, <1>2, <1>8, <2>1, PowerStep
<1>11. p <= b * w /\ b * w < q /\ p \in Nat /\ q \in Nat /\ b * w \in Nat
  BY <1>5, <1>9, <1>10
<1>12. Top(Number(a, k)) = L + k /\ Top(Number(b, k + d)) = K + (k + d)
  BY Zenon, <1>1, <1>2 DEF Top, Number
<1>13. a # 0 /\ b # 0
  OBVIOUS
<1>14. CASE L < K + d
  <2>1. L + 1 \in 0 .. 30 /\ K + d \in 0 .. 30 /\ L + 1 <= K + d
    BY <1>6, <1>14
  <2>2. PICK z : z = 2 ^ (L + 1)
    OBVIOUS
  <2>3. z \in Nat /\ z <= p /\ a < z
    BY Zenon, <1>1, <1>7, <2>1, <2>2, PowerGrows
  <2>4. a < b * w /\ ~(b * w < a)
    BY <1>11, <2>3
  <2>5. L + k \in Int /\ K + (k + d) \in Int /\ L + k < K + (k + d)
    BY <1>14
  <2>6. Number(a, k).n # 0 /\ Number(b, k + d).n # 0
    BY <1>13 DEF Number
  <2>7. Less(Number(a, k), Number(b, k + d)) /\ ~Less(Number(b, k + d), Number(a, k))
    BY Zenon, <1>12, <2>5, <2>6, LessByTop
  <2> QED BY Zenon, <1>3, <2>4, <2>7
<1>15. CASE K + d < L
  <2>1. L \in 0 .. 30 /\ K + 1 + d \in 0 .. 30 /\ K + 1 + d <= L
    BY <1>6, <1>15
  <2>2. PICK z : z = 2 ^ L
    OBVIOUS
  <2>3. z \in Nat /\ q <= z /\ z <= a
    BY Zenon, <1>1, <1>7, <2>1, <2>2, PowerGrows
  <2>4. ~(a < b * w) /\ b * w < a
    BY <1>11, <2>3
  <2>5. L + k \in Int /\ K + (k + d) \in Int /\ K + (k + d) < L + k
    BY <1>15
  <2>6. Number(a, k).n # 0 /\ Number(b, k + d).n # 0
    BY <1>13 DEF Number
  <2>7. ~Less(Number(a, k), Number(b, k + d)) /\ Less(Number(b, k + d), Number(a, k))
    BY Zenon, <1>12, <2>5, <2>6, LessByTop
  <2> QED BY Zenon, <1>3, <2>4, <2>7
<1>16. CASE L = K + d
  <2>1. L + k = K + (k + d) /\ (k + d) - k = d
    BY <1>16
  <2>2. Less(Number(a, k), Number(b, k + d))
          <=> (IF k >= k + d THEN a * 2 ^ (k - (k + d)) < b ELSE a < b * 2 ^ ((k + d) - k))
    BY Zenon, <1>12, <1>13, <2>1 DEF Less, Number
  <2>3. Less(Number(b, k + d), Number(a, k))
          <=> (IF k + d >= k THEN b * 2 ^ ((k + d) - k) < a ELSE b < a * 2 ^ (k - (k + d)))
    BY Zenon, <1>12, <1>13, <2>1 DEF Less, Number
  <2>4. k + d >= k /\ (k >= k + d => d = 0 /\ k - (k + d) = 0)
    OBVIOUS
  <2>5. 2 ^ 0 = 1
    BY SMT
  <2>6. b * 1 = b /\ a * 1 = a
    OBVIOUS
  <2>7. CASE k >= k + d
    BY Zenon, <2>1, <2>2, <2>3, <2>4, <2>5, <2>6, <2>7
  <2>8. CASE ~(k >= k + d)
    BY Zenon, <2>1, <2>2, <2>3, <2>4, <2>8
  <2> QED BY Zenon, <2>7, <2>8
<1> QED BY <1>14, <1>15, <1>16

-----------------------------------------------------------------------------
(* What rounding a number of bits away leaves.                             *)
\* Quotient and remainder of what is put together from them.
LEMMA Parts ==
  ASSUME NEW u \in Nat \ {0}, NEW q \in Nat, NEW r \in 0 .. u - 1
  PROVE  (q * u + r) \div u = q /\ (q * u + r) % u = r
<1>1. PICK x \in Nat : x = q * u + r
  OBVIOUS
<1>2. PICK p \in Int : p = x \div u
  OBVIOUS
<1>3. x = u * p + (x % u) /\ 0 <= x % u /\ x % u < u
  BY <1>2
<1>4. ~(p < q)
  <2> SUFFICES ASSUME p <= q - 1 PROVE FALSE
    OBVIOUS
  <2>1. u * p <= u * (q - 1)
    OBVIOUS
  <2> QED BY <1>1, <1>3, <2>1
<1>5. ~(p > q)
  <2> SUFFICES ASSUME p >= q + 1 PROVE FALSE
    OBVIOUS
  <2>1. u * p >= u * (q + 1)
    OBVIOUS
  <2> QED BY <1>1, <1>3, <2>1
<1>6. p = q
  BY <1>4, <1>5
<1> QED BY <1>1, <1>2, <1>3, <1>6

\* Halves of a place, w of which make the place rounded to.
LEMMA HalvesOf ==
  ASSUME NEW s \in 1 .. 25
  PROVE  2 ^ (s - 1) \in Nat \ {0} /\ 2 ^ s = 2 * 2 ^ (s - 1)
<1>1. PICK j \in 0 .. 30 : j = s - 1 /\ s = j + 1
  OBVIOUS
<1> QED BY Zenon, <1>1, PowerStep

\* q * w halves of a place and r more, rounded to the place.
LEMMA NearestPlace ==
  ASSUME NEW w \in Nat \ {0}, NEW q \in Nat, NEW r \in 0 .. 2 * w - 1, NEW n \in Nat,
         n = (2 * w) * q + r, NEW R,
         R = IF r > w \/ (r = w /\ q % 2 = 1) THEN q + 1 ELSE q
  PROVE  /\ R \in Nat
         /\ (2 * R - 1) * w < n \/ ((2 * R - 1) * w = n /\ R % 2 = 0)
         /\ n < (2 * R + 1) * w \/ (n = (2 * R + 1) * w /\ R % 2 = 0)
<1>1. PICK h \in Nat : h = w * q
  OBVIOUS
<1>2. n = 2 * h + r
  BY <1>1
<1>3. CASE r > w \/ (r = w /\ q % 2 = 1)
  <2>1. R = q + 1
    BY <1>3
  <2>2. (2 * R - 1) * w = 2 * h + w /\ (2 * R + 1) * w = 2 * h + 3 * w
    BY <1>1, <2>1
  <2>3. r = w => R % 2 = 0
    BY <1>3, <2>1
  <2> QED BY <1>1, <1>2, <1>3, <2>1, <2>2, <2>3
<1>4. CASE ~(r > w \/ (r = w /\ q % 2 = 1))
  <2>1. R = q
    BY <1>4
  <2>2. (2 * R - 1) * w = 2 * h - w /\ (2 * R + 1) * w = 2 * h + w
    BY <1>1, <2>1
  <2>3. r = w => R % 2 = 0
    BY <1>4, <2>1
  <2> QED BY <1>1, <1>2, <1>4, <2>1, <2>2, <2>3
<1> QED BY <1>3, <1>4

\* What is rounded to the nearest is at most half a place away, and even on a tie.
LEMMA RoundedNear ==
  ASSUME NEW n \in Nat, NEW s \in 1 .. 25
  PROVE  \E w \in Nat \ {0}, R \in Nat :
           /\ w = 2 ^ (s - 1) /\ 2 ^ s = 2 * w /\ R = Rounded(n, s, FALSE)
           /\ (2 * R - 1) * w < n \/ ((2 * R - 1) * w = n /\ R % 2 = 0)
           /\ n < (2 * R + 1) * w \/ (n = (2 * R + 1) * w /\ R % 2 = 0)
<1>1. PICK w \in Nat \ {0} : w = 2 ^ (s - 1) /\ 2 ^ s = 2 * w
  BY Zenon, HalvesOf
<1>2. PICK z \in Nat \ {0} : z = 2 * w
  OBVIOUS
<1>3. PICK q, r : q = n \div z /\ r = n % z
  OBVIOUS
<1>4. q \in Nat /\ r \in 0 .. 2 * w - 1 /\ n = (2 * w) * q + r
  <2>1. q \in Nat /\ r \in 0 .. z - 1 /\ n = z * q + r
    BY <1>3
  <2> QED BY Zenon, <1>2, <2>1
<1>5. PICK R : R = IF r > w \/ (r = w /\ q % 2 = 1) THEN q + 1 ELSE q
  OBVIOUS
<1>6. R = Rounded(n, s, FALSE)
  BY Zenon, <1>1, <1>2, <1>3, <1>5 DEF Rounded, RoundsUp
<1>7. /\ R \in Nat
      /\ (2 * R - 1) * w < n \/ ((2 * R - 1) * w = n /\ R % 2 = 0)
      /\ n < (2 * R + 1) * w \/ (n = (2 * R + 1) * w /\ R % 2 = 0)
  BY <1>4, <1>5, NearestPlace
<1> QED BY Zenon, <1>1, <1>6, <1>7

\* What is cut off is less than a place.
LEMMA RoundedDown ==
  ASSUME NEW n \in Nat, NEW s \in 1 .. 25
  PROVE  \E z \in Nat \ {0}, R \in Nat :
           /\ z = 2 ^ s /\ R = Rounded(n, s, TRUE)
           /\ R * z <= n /\ n < (R + 1) * z
<1>1. PICK w \in Nat \ {0} : w = 2 ^ (s - 1) /\ 2 ^ s = 2 * w
  BY Zenon, HalvesOf
<1>2. PICK z \in Nat \ {0} : z = 2 * w
  OBVIOUS
<1>3. PICK R, r : R = n \div z /\ r = n % z
  OBVIOUS
<1>4. R \in Nat /\ r \in 0 .. z - 1 /\ n = R * z + r
  BY <1>3
<1>5. R = Rounded(n, s, TRUE)
  BY Zenon, <1>1, <1>2, <1>3 DEF Rounded
<1>6. (R + 1) * z = R * z + z /\ R * z \in Nat
  BY <1>4
<1>7. R * z <= n /\ n < (R + 1) * z
  BY <1>4, <1>6
<1> QED BY Zenon, <1>1, <1>2, <1>4, <1>5, <1>7

\* What has no bits there loses none.
LEMMA RoundedExact ==
  ASSUME NEW q \in Nat, NEW s \in 1 .. 25, NEW rz \in BOOLEAN
  PROVE  Rounded(q * 2 ^ s, s, rz) = q
<1>1. PICK w : w = 2 ^ (s - 1)
  OBVIOUS
<1>2. w \in Nat \ {0} /\ 2 ^ s = 2 * w
  BY Zenon, <1>1, HalvesOf
<1>3. PICK z \in Nat \ {0} : z = 2 * w
  BY <1>2
<1>4. (q * z + 0) \div z = q /\ (q * z + 0) % z = 0
  BY Parts
<1>5. (q * z) \div z = q /\ (q * z) % z = 0
  BY <1>4
<1>6. ~(0 > w) /\ ~(0 = w)
  BY <1>2
<1> QED BY Zenon, <1>1, <1>2, <1>3, <1>5, <1>6 DEF Rounded, RoundsUp

\* A code is the binade T and the significand S of its number.
LEMMA CodeValueIs ==
  ASSUME NEW G, NEW u \in Nat \ {0}, NEW top \in Nat \ {0}, 2 ^ G.m = u, 2 ^ G.e = top,
         NEW T \in 1 .. top - 1, NEW S \in 0 .. 2 * u - 1, S >= u \/ T = 1,
         G.m \in Int, G.bias \in Int
  PROVE  CodeValue((T - 1) * u + S, G) = Number(S, T - G.bias - G.m)
<1>1. CASE S >= u
  <2>1. (T - 1) * u + S = T * u + (S - u) /\ S - u \in 0 .. u - 1 /\ T \in Nat
    BY <1>1
  <2>2. (T * u + (S - u)) \div u = T /\ (T * u + (S - u)) % u = S - u
    BY <2>1, Parts
  <2>3. T % top = T /\ T # 0
    OBVIOUS
  <2>4. ExpField((T - 1) * u + S, G) = T /\ Fraction((T - 1) * u + S, G) = S - u
    BY Zenon, <2>1, <2>2, <2>3 DEF ExpField, Fraction
  <2>5. CodeValue((T - 1) * u + S, G) = Number(u + (S - u), T - G.bias - G.m)
    BY Zenon, <2>3, <2>4 DEF CodeValue
  <2>6. u + (S - u) = S
    OBVIOUS
  <2> QED BY Zenon, <2>5, <2>6
<1>2. CASE ~(S >= u)
  <2>1. (T - 1) * u + S = 0 * u + S /\ S \in 0 .. u - 1 /\ T = 1 /\ 0 \in Nat
    BY <1>2
  <2>2. (0 * u + S) \div u = 0 /\ (0 * u + S) % u = S
    BY <2>1, Parts
  <2>3. 0 % top = 0
    OBVIOUS
  <2>4. ExpField((T - 1) * u + S, G) = 0 /\ Fraction((T - 1) * u + S, G) = S
    BY Zenon, <2>1, <2>2, <2>3 DEF ExpField, Fraction
  <2> QED BY Zenon, <2>1, <2>4 DEF CodeValue
<1> QED BY <1>1, <1>2

-----------------------------------------------------------------------------
(* Codes in their order: u steps in a binade, top binades.                 *)
Sizes(u, top) == u \in {2, 4, 8, 128, 1024} /\ top \in {4, 8, 16, 32, 256}
\* u steps in a binade, top binades.
Shape(F, u, top) ==
  /\ 2 ^ F.m = u /\ 2 ^ (F.m + 1) = 2 * u /\ 2 ^ F.e = top
  /\ SignBit(F) = top * u /\ MaxExp(F) = top - 1 /\ 2 ^ F.width = 2 * (top * u)
  /\ Sizes(u, top)
Finer(F, G) == G.m = F.m + 1 /\ G.e = F.e /\ G.bias = F.bias

\* Every format has a shape.
LEMMA Shapes ==
  ASSUME NEW F \in NarrowFormats \cup Halves
  PROVE  /\ \E u, top \in Nat \ {0} : Shape(F, u, top)
         /\ F.m \in {1, 2, 3, 7, 10} /\ F.bias \in {1, 3, 7, 15, 127}
         /\ Finer(F, [F EXCEPT !.m = @ + 1])
<1>1. CASE F = E4M3
  <2>1. Shape(F, 8, 16)
    BY SMT, <1>1 DEF E4M3, Narrow, Shape, Sizes, SignBit, MaxExp
  <2>2. F.m = 3 /\ F.bias = 7 /\ Finer(F, [F EXCEPT !.m = @ + 1])
    BY <1>1 DEF E4M3, Narrow, Finer
  <2> QED BY <2>1, <2>2
<1>2. CASE F = E5M2
  <2>1. Shape(F, 4, 32)
    BY SMT, <1>2 DEF E5M2, Narrow, Shape, Sizes, SignBit, MaxExp
  <2>2. F.m = 2 /\ F.bias = 15 /\ Finer(F, [F EXCEPT !.m = @ + 1])
    BY <1>2 DEF E5M2, Narrow, Finer
  <2> QED BY <2>1, <2>2
<1>3. CASE F = E3M2
  <2>1. Shape(F, 4, 8)
    BY SMT, <1>3 DEF E3M2, Narrow, Shape, Sizes, SignBit, MaxExp
  <2>2. F.m = 2 /\ F.bias = 3 /\ Finer(F, [F EXCEPT !.m = @ + 1])
    BY <1>3 DEF E3M2, Narrow, Finer
  <2> QED BY <2>1, <2>2
<1>4. CASE F = E2M3
  <2>1. Shape(F, 8, 4)
    BY SMT, <1>4 DEF E2M3, Narrow, Shape, Sizes, SignBit, MaxExp
  <2>2. F.m = 3 /\ F.bias = 1 /\ Finer(F, [F EXCEPT !.m = @ + 1])
    BY <1>4 DEF E2M3, Narrow, Finer
  <2> QED BY <2>1, <2>2
<1>5. CASE F = E2M1
  <2>1. Shape(F, 2, 4)
    BY SMT, <1>5 DEF E2M1, Narrow, Shape, Sizes, SignBit, MaxExp
  <2>2. F.m = 1 /\ F.bias = 1 /\ Finer(F, [F EXCEPT !.m = @ + 1])
    BY <1>5 DEF E2M1, Narrow, Finer
  <2> QED BY <2>1, <2>2
<1>6. CASE F = F16
  <2>1. Shape(F, 1024, 32)
    BY SMT, <1>6 DEF F16, Narrow, Shape, Sizes, SignBit, MaxExp
  <2>2. F.m = 10 /\ F.bias = 15 /\ Finer(F, [F EXCEPT !.m = @ + 1])
    BY <1>6 DEF F16, Narrow, Finer
  <2> QED BY <2>1, <2>2
<1>7. CASE F = BF16
  <2>1. Shape(F, 128, 256)
    BY SMT, <1>7 DEF BF16, Narrow, Shape, Sizes, SignBit, MaxExp
  <2>2. F.m = 7 /\ F.bias = 127 /\ Finer(F, [F EXCEPT !.m = @ + 1])
    BY <1>7 DEF BF16, Narrow, Finer
  <2> QED BY <2>1, <2>2
<1> QED BY <1>1, <1>2, <1>3, <1>4, <1>5, <1>6, <1>7 DEF NarrowFormats, Halves

\* The highest code leaves the sign alone.
LEMMA HighestFits ==
  ASSUME NEW F \in NarrowFormats \cup Halves
  PROVE  Highest(F) \in Nat /\ Highest(F) < SignBit(F)
<1>1. CASE F = E4M3
  <2>1. Highest(F) = 126
    BY FormatsApart, <1>1 DEF E4M3, Narrow, Highest, Infinity, NarrowFormats
  <2>2. SignBit(F) = 128
    BY SMT, <1>1 DEF E4M3, Narrow, SignBit
  <2> QED BY <2>1, <2>2
<1>2. CASE F = E5M2
  <2>1. Highest(F) = 123
    BY FormatsApart, <1>2 DEF E5M2, Narrow, Highest, Infinity, NarrowFormats
  <2>2. SignBit(F) = 128
    BY SMT, <1>2 DEF E5M2, Narrow, SignBit
  <2> QED BY <2>1, <2>2
<1>3. CASE F = E3M2
  <2>1. Highest(F) = 31
    BY FormatsApart, <1>3 DEF E3M2, Narrow, Highest, Infinity, NarrowFormats
  <2>2. SignBit(F) = 32
    BY SMT, <1>3 DEF E3M2, Narrow, SignBit
  <2> QED BY <2>1, <2>2
<1>4. CASE F = E2M3
  <2>1. Highest(F) = 31
    BY FormatsApart, <1>4 DEF E2M3, Narrow, Highest, Infinity, NarrowFormats
  <2>2. SignBit(F) = 32
    BY SMT, <1>4 DEF E2M3, Narrow, SignBit
  <2> QED BY <2>1, <2>2
<1>5. CASE F = E2M1
  <2>1. Highest(F) = 7
    BY FormatsApart, <1>5 DEF E2M1, Narrow, Highest, Infinity, NarrowFormats
  <2>2. SignBit(F) = 8
    BY SMT, <1>5 DEF E2M1, Narrow, SignBit
  <2> QED BY <2>1, <2>2
<1>6. CASE F = F16
  <2>1. Highest(F) = 31744
    BY <1>6 DEF F16, Narrow, Highest, Infinity, Halves
  <2>2. SignBit(F) = 32768
    BY SMT, <1>6 DEF F16, Narrow, SignBit
  <2> QED BY <2>1, <2>2
<1>7. CASE F = BF16
  <2>1. Highest(F) = 32640
    BY <1>7 DEF BF16, Narrow, Highest, Infinity, Halves
  <2>2. SignBit(F) = 32768
    BY SMT, <1>7 DEF BF16, Narrow, SignBit
  <2> QED BY <2>1, <2>2
<1> QED BY <1>1, <1>2, <1>3, <1>4, <1>5, <1>6, <1>7 DEF NarrowFormats, Halves
\* The number between two codes, in the binade of the lower one.
LEMMA MidpointIs ==
  ASSUME NEW F \in NarrowFormats \cup Halves, NEW u \in Nat \ {0}, NEW top \in Nat \ {0},
         Shape(F, u, top), NEW T \in 1 .. top - 1, NEW p \in 0 .. 4 * u - 1,
         p >= 2 * u \/ T = 1, NEW c \in Int, 2 * c + 1 = (T - 1) * (2 * u) + p
  PROVE  Midpoint(c, F) = Number(p, T - F.bias - F.m - 1)
<1>1. PICK G : G = [F EXCEPT !.m = @ + 1]
  OBVIOUS
<1>2. G.m = F.m + 1 /\ G.e = F.e /\ G.bias = F.bias /\ F.m \in Int /\ F.bias \in Int
  BY <1>1, Shapes DEF Finer
<1>3. PICK v \in Nat \ {0} : v = 2 * u
  OBVIOUS
<1>4. 2 ^ G.m = v /\ 2 ^ G.e = top
  BY Zenon, <1>2, <1>3 DEF Shape
<1>5. p \in 0 .. 2 * v - 1 /\ (p >= v \/ T = 1) /\ G.m \in Int /\ G.bias \in Int
  BY <1>2, <1>3
<1>6. CodeValue((T - 1) * v + p, G) = Number(p, T - G.bias - G.m)
  BY Zenon, <1>4, <1>5, CodeValueIs
<1>7. T - G.bias - G.m = T - F.bias - F.m - 1
  BY <1>2
<1> QED BY Zenon, <1>1, <1>3, <1>6, <1>7 DEF Midpoint

\* Powers that stay below a float's significand.
LEMMA SmallPower ==
  ASSUME NEW s \in 0 .. 24
  PROVE  2 ^ s \in Nat \ {0} /\ 2 ^ s <= 2 ^ 24
<1>1. s \in 0 .. 30 /\ 24 \in 0 .. 30 /\ s <= 24
  OBVIOUS
<1> QED BY Zenon, <1>1, PowerGrows

\* A float's significand, rounded by s places, stays in its binade or reaches the next.
LEMMA RoundedWithin ==
  ASSUME NEW u \in Nat \ {0}, NEW N \in Nat, NEW s \in 1 .. 25,
         NEW w \in Nat \ {0}, NEW R \in Nat,
         (2 * R - 1) * w <= N, N <= (2 * R + 1) * w, N < 4 * u * w
  PROVE  R <= 2 * u /\ (2 * u * w <= N => R >= u)
<1>1. ~(R > 2 * u)
  <2> SUFFICES ASSUME R >= 2 * u + 1 PROVE FALSE
    OBVIOUS
  <2>1. 2 * R - 1 >= 4 * u
    OBVIOUS
  <2>2. (2 * R - 1) * w >= 4 * u * w
    BY <2>1
  <2> QED BY <2>2
<1>2. ASSUME 2 * u * w <= N, R < u PROVE FALSE
  <2>1. 2 * R + 1 <= 2 * u - 1
    BY <1>2
  <2>2. (2 * R + 1) * w <= (2 * u - 1) * w
    BY <2>1
  <2>3. (2 * u - 1) * w = 2 * u * w - w
    OBVIOUS
  <2> QED BY <1>2, <2>2, <2>3
<1> QED BY <1>1, <1>2

\* A code is even when its significand is.
LEMMA EvenCode ==
  ASSUME NEW u \in {2, 4, 8, 128, 1024}, NEW T \in Nat, NEW R \in Nat, R % 2 = 0
  PROVE  (T * u + R) % 2 = 0
OBVIOUS

\* What SMT needs to know of the fields.
LEMMA ShapeNumbers ==
  ASSUME NEW F \in NarrowFormats \cup Halves
  PROVE  F.m \in Int /\ F.bias \in Int
<1>1. F.m \in {1, 2, 3, 7, 10} /\ F.bias \in {1, 3, 7, 15, 127}
  BY Shapes DEF Finer
<1> QED BY <1>1

\* LessScaled, with a name for the power.
LEMMA Compared ==
  ASSUME NEW a \in Nat, NEW b \in Nat, NEW k \in Int, NEW d \in 0 .. 25, NEW w, w = 2 ^ d,
         0 < a, a < 2 ^ 24, 0 < b, b < 2 ^ 24, b * w < 2 ^ 30
  PROVE  /\ Less(Number(a, k), Number(b, k + d)) <=> a < b * w
         /\ Less(Number(b, k + d), Number(a, k)) <=> b * w < a
<1>1. b * 2 ^ d < 2 ^ 30
  BY Zenon
<1>2. /\ Less(Number(a, k), Number(b, k + d)) <=> a < b * 2 ^ d
      /\ Less(Number(b, k + d), Number(a, k)) <=> b * 2 ^ d < a
  BY Zenon, <1>1, LessScaled
<1> QED BY Zenon, <1>2

\* w is half of what is rounded to a multiple of.
IsHalf(w, s) == w = 2 ^ (s - 1) /\ 2 ^ s = 2 * w
NearestOf(N, w, R) ==
  /\ (2 * R - 1) * w < N \/ ((2 * R - 1) * w = N /\ R % 2 = 0)
  /\ N < (2 * R + 1) * w \/ (N = (2 * R + 1) * w /\ R % 2 = 0)
\* N has its leading one in the binade T, or below it in the first.
InBinade(N, w, T, u) == N < 4 * u * w /\ (T = 1 \/ 2 * u * w <= N)

\* N * 2^k rounded to the significand R of the binade T.
LEMMA NearestSignificand ==
  ASSUME NEW F \in NarrowFormats \cup Halves,
         NEW u \in Nat \ {0}, NEW top \in Nat \ {0}, Shape(F, u, top),
         NEW T \in 1 .. top - 1, NEW s \in 2 .. 24,
         NEW N \in Nat, 0 < N, N < 2 ^ 24, NEW w \in Nat \ {0}, IsHalf(w, s),
         NEW R \in Nat, NearestOf(N, w, R), InBinade(N, w, T, u)
  PROVE  Nearest(Number(N, T - F.bias - F.m - s), (T - 1) * u + R, F)
<1>1. F.m \in Int /\ F.bias \in Int
  BY ShapeNumbers
<1>20. u \in {2, 4, 8, 128, 1024} /\ top \in {4, 8, 16, 32, 256}
  BY Zenon DEF Shape, Sizes
<1>21. Highest(F) \in Nat /\ Highest(F) < top * u
  BY Zenon, HighestFits DEF Shape
<1>2. w = 2 ^ (s - 1) /\ 2 ^ s = 2 * w
  BY Zenon DEF IsHalf
<1>3. /\ (2 * R - 1) * w < N \/ ((2 * R - 1) * w = N /\ R % 2 = 0)
      /\ N < (2 * R + 1) * w \/ (N = (2 * R + 1) * w /\ R % 2 = 0)
      /\ N < 4 * u * w /\ (T = 1 \/ 2 * u * w <= N)
  BY DEF NearestOf, InBinade
<1>4. R <= 2 * u /\ (T = 1 \/ R >= u)
  <2>1. (2 * R - 1) * w <= N /\ N <= (2 * R + 1) * w
    BY <1>3
  <2>2. s \in 1 .. 25 /\ u \in Nat \ {0}
    OBVIOUS
  <2>3. R <= 2 * u /\ (2 * u * w <= N => R >= u)
    BY <1>3, <2>1, <2>2, RoundedWithin
  <2> QED BY <1>3, <2>3
<1>5. w <= 2 ^ 24
  <2>1. s - 1 \in 0 .. 24
    OBVIOUS
  <2> QED BY Zenon, <1>2, <2>1, SmallPower
<1>12. PICK mag : mag = (T - 1) * u + R
  OBVIOUS
<1>6. mag = (T - 1) * u + R /\ (R % 2 = 0 => mag % 2 = 0) /\ mag \in Nat
  <2>1. mag = (T - 1) * u + R
    BY <1>12
  <2>2. T - 1 \in Nat
    OBVIOUS
  <2>3. R % 2 = 0 => ((T - 1) * u + R) % 2 = 0
    BY <1>20, <2>2, EvenCode
  <2> QED BY <2>1, <2>2, <2>3
<1>7. PICK k \in Int : k = T - F.bias - F.m - s
  BY <1>1
<1>8. PICK v : v = Number(N, k)
  OBVIOUS
<1>9. u \in Nat \ {0} /\ top \in Nat \ {0}
  OBVIOUS
<1>10. mag > 0 => \/ Less(Midpoint(mag - 1, F), v)
                  \/ Same(Midpoint(mag - 1, F), v) /\ mag % 2 = 0
  <2> SUFFICES ASSUME mag > 0
               PROVE  \/ Less(Midpoint(mag - 1, F), v)
                      \/ Same(Midpoint(mag - 1, F), v) /\ mag % 2 = 0
    OBVIOUS
  <2>1. CASE R > u \/ T = 1
    <3>1. PICK p \in 0 .. 4 * u - 1 : p = 2 * R - 1 /\ 0 < p
      BY <1>4, <1>6, <2>1
    <3>2. (p >= 2 * u \/ T = 1) /\ 2 * (mag - 1) + 1 = (T - 1) * (2 * u) + p /\ mag - 1 \in Int
      BY <1>6, <2>1, <3>1
    <3>3. Midpoint(mag - 1, F) = Number(p, T - F.bias - F.m - 1)
      BY <1>9, <3>2, MidpointIs
    <3>4. PICK d \in 0 .. 25 : d = s - 1
      OBVIOUS
    <3>5. T - F.bias - F.m - 1 = k + d
      BY <1>1, <1>7, <3>4
    <3>6. p * w <= N /\ (p * w = N => R % 2 = 0) /\ p * w \in Nat
      BY <1>3, <3>1
    <3>7. p \in Nat /\ p < 2 ^ 24 /\ p * w < 2 ^ 30
      BY <3>1, <3>6
    <3>8. w = 2 ^ d
      BY Zenon, <1>2, <3>4
    <3>9. /\ Less(v, Number(p, k + d)) <=> N < p * w
          /\ Less(Number(p, k + d), v) <=> p * w < N
      BY Zenon, <1>8, <3>1, <3>7, <3>8, Compared
    <3>10. p * w < N \/ (p * w = N /\ mag % 2 = 0 /\ ~(N < p * w) /\ ~(p * w < N))
      BY <1>6, <3>6
    <3>11. PICK M : M = Number(p, k + d)
      OBVIOUS
    <3>12. (Less(v, M) <=> N < p * w) /\ (Less(M, v) <=> p * w < N)
      BY <3>9, <3>11
    <3>13. Midpoint(mag - 1, F) = M
      BY Zenon, <3>3, <3>5, <3>11
    <3> QED BY <3>10, <3>12, <3>13 DEF Same
  <2>2. CASE R = u /\ T # 1
    <3>1. PICK p \in 0 .. 4 * u - 1 : p = 4 * u - 1 /\ 0 < p
      OBVIOUS
    <3>2. T - 1 \in 1 .. top - 1 /\ p >= 2 * u /\ 2 * (mag - 1) + 1 = ((T - 1) - 1) * (2 * u) + p
          /\ mag - 1 \in Int
      BY <1>6, <2>2, <3>1
    <3>3. Midpoint(mag - 1, F) = Number(p, (T - 1) - F.bias - F.m - 1)
      BY <1>9, <3>2, MidpointIs
    <3>4. PICK d \in 0 .. 25 : d = s - 2 /\ d = (s - 1) - 1 /\ s - 1 \in 1 .. 25
      OBVIOUS
    <3>5. (T - 1) - F.bias - F.m - 1 = k + d
      BY <1>1, <1>7, <3>4
    <3>6. PICK x \in Nat \ {0} : x = 2 ^ d /\ w = 2 * x
      BY Zenon, <1>2, <3>4, HalvesOf
    <3>7. p * x < N /\ p * x \in Nat
      <4>1. 4 * u * x <= N
        BY <1>3, <2>2, <3>6
      <4>2. p * x = 4 * u * x - x
        BY <3>1
      <4> QED BY <4>1, <4>2, <3>6, <3>1
    <3>8. p \in Nat /\ p < 2 ^ 24 /\ p * x < 2 ^ 30
      BY <3>1, <3>7
    <3>9. /\ Less(v, Number(p, k + d)) <=> N < p * x
          /\ Less(Number(p, k + d), v) <=> p * x < N
      BY Zenon, <1>8, <3>1, <3>6, <3>8, Compared
    <3> QED BY Zenon, <3>3, <3>5, <3>7, <3>9
  <2> QED BY <1>4, <2>1, <2>2
<1>11. mag < Highest(F) => \/ Less(v, Midpoint(mag, F))
                           \/ Same(v, Midpoint(mag, F)) /\ mag % 2 = 0
  <2> SUFFICES ASSUME mag < Highest(F)
               PROVE  \/ Less(v, Midpoint(mag, F))
                      \/ Same(v, Midpoint(mag, F)) /\ mag % 2 = 0
    OBVIOUS
  <2>1. CASE R < 2 * u
    <3>1. PICK p \in 0 .. 4 * u - 1 : p = 2 * R + 1 /\ 0 < p
      BY <2>1
    <3>2. (p >= 2 * u \/ T = 1) /\ 2 * mag + 1 = (T - 1) * (2 * u) + p /\ mag \in Int
      BY <1>4, <1>6, <3>1
    <3>3. Midpoint(mag, F) = Number(p, T - F.bias - F.m - 1)
      BY <1>9, <3>2, MidpointIs
    <3>4. PICK d \in 0 .. 25 : d = s - 1
      OBVIOUS
    <3>5. T - F.bias - F.m - 1 = k + d
      BY <1>1, <1>7, <3>4
    <3>6. N <= p * w /\ (p * w = N => R % 2 = 0) /\ p * w \in Nat
      BY <1>3, <3>1
    <3>7. p \in Nat /\ p < 2 ^ 24 /\ p * w < 2 ^ 30
      <4>1. p * w = (2 * R - 1) * w + 2 * w
        BY <3>1
      <4>2. (2 * R - 1) * w <= N
        BY <1>3
      <4> QED BY <1>5, <1>20, <3>1, <4>1, <4>2
    <3>8. w = 2 ^ d
      BY Zenon, <1>2, <3>4
    <3>9. /\ Less(v, Number(p, k + d)) <=> N < p * w
          /\ Less(Number(p, k + d), v) <=> p * w < N
      BY Zenon, <1>8, <3>1, <3>7, <3>8, Compared
    <3>10. N < p * w \/ (p * w = N /\ mag % 2 = 0 /\ ~(N < p * w) /\ ~(p * w < N))
      BY <1>6, <3>6
    <3>11. PICK M : M = Number(p, k + d)
      OBVIOUS
    <3>12. (Less(v, M) <=> N < p * w) /\ (Less(M, v) <=> p * w < N)
      BY <3>9, <3>11
    <3>13. Midpoint(mag, F) = M
      BY Zenon, <3>3, <3>5, <3>11
    <3> QED BY <3>10, <3>12, <3>13 DEF Same
  <2>2. CASE R = 2 * u
    <3>1. PICK p \in 0 .. 4 * u - 1 : p = 2 * u + 1 /\ 0 < p
      OBVIOUS
    <3>2. T + 1 \in 1 .. top - 1 /\ p >= 2 * u /\ 2 * mag + 1 = ((T + 1) - 1) * (2 * u) + p
          /\ mag \in Int
      <4>1. mag = (T + 1) * u
        BY <1>6, <2>2
      <4>2. T + 1 < top
        BY <1>21, <4>1
      <4> QED BY <3>1, <4>1, <4>2
    <3>3. Midpoint(mag, F) = Number(p, (T + 1) - F.bias - F.m - 1)
      BY <1>9, <3>2, MidpointIs
    <3>4. PICK d \in 0 .. 25 : d = s
      OBVIOUS
    <3>5. (T + 1) - F.bias - F.m - 1 = k + d
      BY <1>1, <1>7, <3>4
    <3>6. PICK x \in Nat \ {0} : x = 2 ^ d /\ x = 2 * w
      <4>1. 2 * w \in Nat \ {0}
        OBVIOUS
      <4> QED BY Zenon, <1>2, <3>4, <4>1
    <3>7. N < p * x
      <4>1. p * x = 4 * u * w + 2 * w
        BY <3>1, <3>6
      <4> QED BY <1>3, <4>1
    <3>8. p \in Nat /\ p < 2 ^ 24 /\ p * x < 2 ^ 30
      <4>1. p * x = (2 * R - 1) * w + 3 * w
        BY <2>2, <3>1, <3>6
      <4>2. (2 * R - 1) * w <= N
        BY <1>3
      <4> QED BY <1>5, <1>20, <3>1, <4>1, <4>2
    <3>11. x = 2 ^ d
      BY Zenon, <3>6
    <3>9. /\ Less(v, Number(p, k + d)) <=> N < p * x
          /\ Less(Number(p, k + d), v) <=> p * x < N
      BY Zenon, <1>8, <3>1, <3>8, <3>11, Compared
    <3> QED BY Zenon, <3>3, <3>5, <3>7, <3>9
  <2> QED BY <1>4, <2>1, <2>2
<1> QED BY Zenon, <1>7, <1>8, <1>10, <1>11, <1>12 DEF Nearest

\* No number is less than 0.
LEMMA NothingBelowZero ==
  ASSUME NEW a, NEW k
  PROVE  ~Less(a, Number(0, k))
BY Zenon DEF Less, Number

\* CodeValueIs, for a format.
LEMMA ValueIs ==
  ASSUME NEW F \in NarrowFormats \cup Halves, NEW u \in Nat \ {0}, NEW top \in Nat \ {0},
         Shape(F, u, top), NEW T \in 1 .. top - 1, NEW S \in 0 .. 2 * u - 1, S >= u \/ T = 1,
         NEW c, c = (T - 1) * u + S
  PROVE  CodeValue(c, F) = Number(S, T - F.bias - F.m)
<1>1. F.m \in Int /\ F.bias \in Int
  BY ShapeNumbers
<1>2. 2 ^ F.m = u /\ 2 ^ F.e = top
  BY Zenon DEF Shape
<1> QED BY Zenon, <1>1, <1>2, CodeValueIs

CutTo(N, z, R) == R * z <= N /\ N < (R + 1) * z

\* N * 2^k cut down to the significand R of the binade T.
LEMMA CutSignificand ==
  ASSUME NEW F \in NarrowFormats \cup Halves,
         NEW u \in Nat \ {0}, NEW top \in Nat \ {0}, Shape(F, u, top),
         NEW T \in 1 .. top - 1, NEW s \in 2 .. 24,
         NEW N \in Nat, 0 < N, N < 2 ^ 24, NEW w \in Nat \ {0}, IsHalf(w, s),
         NEW R \in Nat, CutTo(N, 2 * w, R), InBinade(N, w, T, u)
  PROVE  TowardsZero(Number(N, T - F.bias - F.m - s), (T - 1) * u + R, F)
<1>1. F.m \in Int /\ F.bias \in Int
  BY ShapeNumbers
<1>20. u \in {2, 4, 8, 128, 1024} /\ top \in {4, 8, 16, 32, 256}
  BY Zenon DEF Shape, Sizes
<1>21. Highest(F) \in Nat /\ Highest(F) < top * u
  BY Zenon, HighestFits DEF Shape
<1>2. w = 2 ^ (s - 1) /\ 2 ^ s = 2 * w
  BY Zenon DEF IsHalf
<1>3. PICK z \in Nat \ {0} : z = 2 * w
  OBVIOUS
<1>4. z = 2 ^ s
  BY Zenon, <1>2, <1>3
<1>5. R * z <= N /\ N < (R + 1) * z /\ N < 2 * u * z /\ (T = 1 \/ u * z <= N)
  BY <1>3 DEF InBinade, CutTo
<1>6. R < 2 * u /\ (T = 1 \/ R >= u)
  <2>1. ~(R >= 2 * u)
    <3> SUFFICES ASSUME R >= 2 * u PROVE FALSE
      OBVIOUS
    <3>1. R * z >= 2 * u * z
      OBVIOUS
    <3> QED BY <1>5, <3>1
  <2>2. u * z <= N => ~(R < u)
    <3> SUFFICES ASSUME u * z <= N, R + 1 <= u PROVE FALSE
      OBVIOUS
    <3>1. (R + 1) * z <= u * z
      OBVIOUS
    <3> QED BY <1>5, <3>1
  <2> QED BY <1>5, <2>1, <2>2
<1>7. z <= 2 ^ 24
  <2>1. s \in 0 .. 24
    OBVIOUS
  <2> QED BY Zenon, <1>4, <2>1, SmallPower
<1>8. PICK mag \in Nat : mag = (T - 1) * u + R
  OBVIOUS
<1>9. PICK k \in Int : k = T - F.bias - F.m - s
  BY <1>1
<1>10. PICK v : v = Number(N, k)
  OBVIOUS
<1>12. ~Less(v, CodeValue(mag, F))
  <2>1. R \in 0 .. 2 * u - 1 /\ (R >= u \/ T = 1)
    BY <1>6
  <2>2. CodeValue(mag, F) = Number(R, T - F.bias - F.m)
    BY <1>8, <2>1, ValueIs
  <2>3. CASE R = 0
    BY Zenon, <2>2, <2>3, NothingBelowZero
  <2>4. CASE R > 0
    <3>1. PICK d \in 0 .. 25 : d = s
      OBVIOUS
    <3>2. T - F.bias - F.m = k + d
      BY <1>1, <1>9, <3>1
    <3>3. R \in Nat /\ 0 < R /\ R < 2 ^ 24 /\ R * z < 2 ^ 30
      BY <1>5, <2>1, <2>4
    <3>4. z = 2 ^ d
      BY Zenon, <1>4, <3>1
    <3>5. /\ Less(v, Number(R, k + d)) <=> N < R * z
          /\ Less(Number(R, k + d), v) <=> R * z < N
      BY Zenon, <1>10, <3>3, <3>4, Compared
    <3>6. ~(N < R * z)
      BY <1>5
    <3> QED BY Zenon, <2>2, <3>2, <3>5, <3>6
  <2> QED BY <2>3, <2>4
<1>13. mag < Highest(F) => Less(v, CodeValue(mag + 1, F))
  <2> SUFFICES ASSUME mag < Highest(F) PROVE Less(v, CodeValue(mag + 1, F))
    OBVIOUS
  <2>1. PICK S \in Nat : S = R + 1
    OBVIOUS
  <2>2. N < S * z
    BY <1>5, <2>1
  <2>3. CASE S < 2 * u
    <3>1. S \in 0 .. 2 * u - 1 /\ (S >= u \/ T = 1) /\ mag + 1 = (T - 1) * u + S
      BY <1>6, <1>8, <2>1, <2>3
    <3>2. CodeValue(mag + 1, F) = Number(S, T - F.bias - F.m)
      BY <3>1, ValueIs
    <3>3. PICK d \in 0 .. 25 : d = s
      OBVIOUS
    <3>4. T - F.bias - F.m = k + d
      BY <1>1, <1>9, <3>3
    <3>5. 0 < S /\ S < 2 ^ 24 /\ S * z < 2 ^ 30
      <4>1. S * z = R * z + z
        BY <2>1
      <4> QED BY <1>5, <1>7, <1>20, <2>1, <2>3, <4>1
    <3>6. z = 2 ^ d
      BY Zenon, <1>4, <3>3
    <3>7. /\ Less(v, Number(S, k + d)) <=> N < S * z
          /\ Less(Number(S, k + d), v) <=> S * z < N
      BY ZenonT(60), <1>10, <3>5, <3>6, Compared
    <3> QED BY Zenon, <2>2, <3>2, <3>4, <3>7
  <2>4. CASE S = 2 * u
    <3>1. mag + 1 = (T + 1) * u /\ mag + 1 < top * u
      BY <1>8, <1>21, <2>1, <2>4
    <3>2. PICK U \in 1 .. top - 1 : U = T + 1
      BY <3>1
    <3>3. u \in 0 .. 2 * u - 1 /\ u >= u /\ mag + 1 = (U - 1) * u + u
      BY <3>1, <3>2
    <3>4. CodeValue(mag + 1, F) = Number(u, U - F.bias - F.m)
      BY <3>3, ValueIs
    <3>5. PICK d \in 0 .. 25 : d = s + 1 /\ s = d - 1 /\ d \in 1 .. 25
      OBVIOUS
    <3>6. U - F.bias - F.m = k + d
      BY <1>1, <1>9, <3>2, <3>5
    <3>7. PICK x \in Nat \ {0} : x = 2 * z
      OBVIOUS
    <3>8. x = 2 ^ d
      BY Zenon, <1>4, <3>5, <3>7, HalvesOf
    <3>9. N < u * x /\ u * x < 2 ^ 30 /\ 0 < u /\ u < 2 ^ 24 /\ u \in Nat
      <4>1. S * z = R * z + z /\ u * x = S * z
        BY <2>1, <2>4, <3>7
      <4> QED BY <1>5, <1>7, <1>20, <2>2, <4>1
    <3>10. /\ Less(v, Number(u, k + d)) <=> N < u * x
           /\ Less(Number(u, k + d), v) <=> u * x < N
      BY Zenon, <1>10, <3>8, <3>9, Compared
    <3> QED BY Zenon, <3>4, <3>6, <3>9, <3>10
  <2> QED BY <1>6, <2>1, <2>3, <2>4
<1> QED BY Zenon, <1>8, <1>9, <1>10, <1>12, <1>13 DEF TowardsZero

\* The leading one of a number is below any power above it.
LEMMA Log2Below ==
  ASSUME NEW n \in Nat, 0 < n, n < 2 ^ 24, NEW j \in 0 .. 30, NEW p, p = 2 ^ j, n < p
  PROVE  Log2(n) \in 0 .. 23 /\ Log2(n) < j
<1>1. PICK L \in 0 .. 23 : L = Log2(n) /\ 2 ^ L <= n
  BY Zenon, Log2Is
<1>2. ASSUME j <= L PROVE FALSE
  <2>1. L \in 0 .. 30
    OBVIOUS
  <2>2. PICK q : q = 2 ^ L
    OBVIOUS
  <2>3. p \in Nat /\ q \in Nat /\ p <= q /\ q <= n
    BY Zenon, <1>1, <1>2, <2>1, <2>2, PowerGrows
  <2>4. ~(n < p)
    BY <2>3
  <2> QED BY Zenon, <2>4
<1>3. ~(j <= L) => L < j
  OBVIOUS
<1> QED BY Zenon, <1>1, <1>2, <1>3

\* The leading one of a normal float.
LEMMA LeadingBit ==
  ASSUME NEW N \in Nat, 2 ^ 23 <= N, N < 2 ^ 24
  PROVE  Log2(N) = 23
<1>1. 0 < N
  OBVIOUS
<1>2. PICK L \in 0 .. 23 : L = Log2(N) /\ N < 2 ^ (L + 1)
  BY Zenon, <1>1, Log2Is
<1>3. ASSUME L + 1 <= 23 PROVE FALSE
  <2>1. L + 1 \in 0 .. 30 /\ 23 \in 0 .. 30
    OBVIOUS
  <2>2. PICK p, q : p = 2 ^ (L + 1) /\ q = 2 ^ 23
    OBVIOUS
  <2>3. p \in Nat /\ q \in Nat /\ p <= q /\ q <= N /\ N < p
    BY Zenon, <1>2, <1>3, <2>1, <2>2, PowerGrows
  <2> QED BY <2>3
<1>4. L = 23
  BY <1>3
<1> QED BY Zenon, <1>2, <1>4

\* The fields of a number.
LEMMA NumberIs ==
  ASSUME NEW n, NEW k
  PROVE  Number(n, k).n = n /\ Number(n, k).k = k
BY DEF Number

\* Numbers in different binades, by the bits they have.
LEMMA LessByBinade ==
  ASSUME NEW a \in Nat, NEW k \in Int, NEW b \in Nat, NEW l \in Int,
         0 < a, 0 < b, Log2(a) \in Int, Log2(b) \in Int, Log2(a) + k < Log2(b) + l
  PROVE  Less(Number(a, k), Number(b, l)) /\ ~Less(Number(b, l), Number(a, k))
<1>1. a # 0 /\ b # 0 /\ Log2(a) + k \in Int /\ Log2(b) + l \in Int
  OBVIOUS
<1>2. Number(a, k).n # 0 /\ Number(b, l).n # 0
  BY Zenon, <1>1, NumberIs
<1>3. Top(Number(a, k)) = Log2(a) + k /\ Top(Number(b, l)) = Log2(b) + l
  BY Zenon, NumberIs DEF Top
<1> QED BY Zenon, <1>1, <1>2, <1>3, LessByTop

\* 0 is less than all others.
LEMMA ZeroBelow ==
  ASSUME NEW k, NEW n, n # 0, NEW l
  PROVE  Less(Number(0, k), Number(n, l))
BY Zenon DEF Less, Number

\* One is its own leading bit.
LEMMA Log2OfOne == Log2(1) = 0
<1>1. PICK one \in Nat : one = 1
  OBVIOUS
<1>2. 0 < one /\ one < 2 ^ 24 /\ 1 \in 0 .. 30 /\ one < 2
  BY <1>1
<1>3. 2 = 2 ^ 1
  BY SMT
<1>4. Log2(one) \in 0 .. 23 /\ Log2(one) < 1
  BY Zenon, <1>2, <1>3, Log2Below
<1> QED BY <1>1, <1>4

\* What is below half of the smallest number becomes zero.
LEMMA TinyIsZero ==
  ASSUME NEW F \in NarrowFormats \cup Halves, NEW N \in Nat, NEW k \in Int,
         N # 0 => Log2(N) \in Int /\ Log2(N) + k < -F.bias - F.m
  PROVE  Nearest(Number(N, k), 0, F) /\ TowardsZero(Number(N, k), 0, F)
<1>1. PICK u \in Nat \ {0}, top \in Nat \ {0} : Shape(F, u, top)
  BY Zenon, Shapes
<1>2. u \in {2, 4, 8, 128, 1024} /\ top \in {4, 8, 16, 32, 256}
  BY Zenon, <1>1 DEF Shape, Sizes
<1>3. F.m \in Int /\ F.bias \in Int
  BY ShapeNumbers
<1>4. PICK l \in Int : l = 1 - F.bias - F.m
  BY <1>3
<1>5. Midpoint(0, F) = Number(1, l - 1)
  <2>1. PICK T \in 1 .. top - 1 : T = 1
    BY <1>2
  <2>2. PICK p \in 0 .. 4 * u - 1 : p = 1
    BY <1>2
  <2>3. PICK c \in Int : c = 0 /\ 2 * c + 1 = (T - 1) * (2 * u) + p
    BY <2>1, <2>2
  <2>4. Midpoint(c, F) = Number(p, T - F.bias - F.m - 1)
    BY <1>1, <2>1, <2>3, MidpointIs
  <2>5. T - F.bias - F.m - 1 = l - 1
    BY <1>3, <1>4, <2>1
  <2> QED BY Zenon, <2>2, <2>3, <2>4, <2>5
<1>6. CodeValue(1, F) = Number(1, l) /\ CodeValue(0, F) = Number(0, l)
  <2>1. PICK T \in 1 .. top - 1 : T = 1
    BY <1>2
  <2>2. \A S \in {0, 1} : S \in 0 .. 2 * u - 1 /\ S = (T - 1) * u + S
    BY <1>2, <2>1
  <2>3. \A S \in {0, 1} : CodeValue(S, F) = Number(S, T - F.bias - F.m)
    BY <1>1, <2>1, <2>2, ValueIs
  <2>4. T - F.bias - F.m = l
    BY <1>3, <1>4, <2>1
  <2> QED BY Zenon, <2>3, <2>4
<1>7. Less(Number(N, k), Number(1, l - 1)) /\ Less(Number(N, k), Number(1, l))
  <2>1. CASE N = 0
    BY <2>1, ZeroBelow
  <2>2. CASE N # 0
    <3>1. 0 < N /\ Log2(N) \in Int /\ Log2(N) + k < Log2(1) + (l - 1)
          /\ Log2(N) + k < Log2(1) + l /\ l - 1 \in Int
      BY <1>3, <1>4, <2>2, Log2OfOne
    <3>2. 1 \in Nat /\ 0 < 1 /\ Log2(1) \in Int
      BY Log2OfOne
    <3> QED BY <3>1, <3>2, LessByBinade
  <2> QED BY <2>1, <2>2
<1>8. ~(0 > 0) /\ 0 + 1 = 1
  OBVIOUS
<1>9. Nearest(Number(N, k), 0, F)
  BY Zenon, <1>5, <1>7, <1>8 DEF Nearest
<1>10. TowardsZero(Number(N, k), 0, F)
  BY Zenon, <1>6, <1>7, <1>8, NothingBelowZero DEF TowardsZero
<1> QED BY <1>9, <1>10

\* The largest number of a narrow format is in the upper part of its binade.
LEMMA LargestCode ==
  ASSUME NEW F \in NarrowFormats, NEW u \in Nat \ {0}, NEW top \in Nat \ {0}, Shape(F, u, top)
  PROVE  /\ Highest(F) = F.max
         /\ \E T \in 1 .. top - 1, S \in u + 1 .. 2 * u - 1 : F.max = (T - 1) * u + S
<1>1. F \notin Halves
  BY FormatsApart
<1>2. Highest(F) = F.max
  BY <1>1 DEF Highest
<1>3. 2 ^ F.m = u /\ MaxExp(F) = top - 1
  BY Zenon DEF Shape
<1>4. CASE Fields(F, 7, 126, 127, FALSE, 3) /\ Powers(F, 8, 128, 15)
  <2>1. F.max = 126
    BY Zenon, <1>4 DEF Fields
  <2>2. u = 8 /\ top - 1 = 15
    BY Zenon, <1>3, <1>4 DEF Powers
  <2>3. 15 \in 1 .. top - 1 /\ 14 \in u + 1 .. 2 * u - 1 /\ F.max = (15 - 1) * u + 14
    BY <2>1, <2>2
  <2> QED BY <1>2, <2>3
<1>5. CASE Fields(F, 15, 123, 127, FALSE, 2) /\ Powers(F, 4, 128, 31)
  <2>1. F.max = 123
    BY Zenon, <1>5 DEF Fields
  <2>2. u = 4 /\ top - 1 = 31
    BY Zenon, <1>3, <1>5 DEF Powers
  <2>3. 30 \in 1 .. top - 1 /\ 7 \in u + 1 .. 2 * u - 1 /\ F.max = (30 - 1) * u + 7
    BY <2>1, <2>2
  <2> QED BY <1>2, <2>3
<1>6. CASE Fields(F, 3, 31, 0, TRUE, 2) /\ Powers(F, 4, 32, 7)
  <2>1. F.max = 31
    BY Zenon, <1>6 DEF Fields
  <2>2. u = 4 /\ top - 1 = 7
    BY Zenon, <1>3, <1>6 DEF Powers
  <2>3. 7 \in 1 .. top - 1 /\ 7 \in u + 1 .. 2 * u - 1 /\ F.max = (7 - 1) * u + 7
    BY <2>1, <2>2
  <2> QED BY <1>2, <2>3
<1>7. CASE Fields(F, 1, 31, 0, TRUE, 3) /\ Powers(F, 8, 32, 3)
  <2>1. F.max = 31
    BY Zenon, <1>7 DEF Fields
  <2>2. u = 8 /\ top - 1 = 3
    BY Zenon, <1>3, <1>7 DEF Powers
  <2>3. 3 \in 1 .. top - 1 /\ 15 \in u + 1 .. 2 * u - 1 /\ F.max = (3 - 1) * u + 15
    BY <2>1, <2>2
  <2> QED BY <1>2, <2>3
<1>8. CASE Fields(F, 1, 7, 0, TRUE, 1) /\ Powers(F, 2, 8, 3)
  <2>1. F.max = 7
    BY Zenon, <1>8 DEF Fields
  <2>2. u = 2 /\ top - 1 = 3
    BY Zenon, <1>3, <1>8 DEF Powers
  <2>3. 3 \in 1 .. top - 1 /\ 3 \in u + 1 .. 2 * u - 1 /\ F.max = (3 - 1) * u + 3
    BY <2>1, <2>2
  <2> QED BY <1>2, <2>3
<1> QED BY <1>4, <1>5, <1>6, <1>7, <1>8, FormatNumbers

\* The interpreter's test for what is past the largest number finds just that.
LEMMA OverflowsAbove ==
  ASSUME NEW F \in NarrowFormats, NEW val \in 0 .. SignBit(F)
  PROVE  Overflows(val, F) <=> val > F.max
<1>1. CASE F = E4M3
  BY SMT, <1>1 DEF E4M3, Narrow, SignBit, Overflows, MaxExp, TopNormal, ExpField, Fraction, AllMant
<1>2. CASE F = E5M2
  BY SMT, <1>2 DEF E5M2, Narrow, SignBit, Overflows, MaxExp, TopNormal, ExpField, Fraction, AllMant
<1>3. CASE F = E3M2
  BY SMT, <1>3 DEF E3M2, Narrow, SignBit, Overflows, MaxExp, TopNormal, ExpField, Fraction, AllMant
<1>4. CASE F = E2M3
  BY SMT, <1>4 DEF E2M3, Narrow, SignBit, Overflows, MaxExp, TopNormal, ExpField, Fraction, AllMant
<1>5. CASE F = E2M1
  BY SMT, <1>5 DEF E2M1, Narrow, SignBit, Overflows, MaxExp, TopNormal, ExpField, Fraction, AllMant
<1> QED BY <1>1, <1>2, <1>3, <1>4, <1>5 DEF NarrowFormats

\* A significand of m + i bits lies below every number of a higher binade.
LEMMA HigherBinade ==
  ASSUME NEW F \in NarrowFormats \cup Halves, NEW u \in Nat \ {0}, NEW top \in Nat \ {0},
         Shape(F, u, top), NEW T \in Int, NEW U \in Int, U < T, NEW i \in {0, 1},
         NEW p \in Nat, 0 < p, p < 2 * u * (IF i = 1 THEN 2 ELSE 1),
         NEW N \in Nat, 2 ^ 23 <= N, N < 2 ^ 24
  PROVE  /\ Less(Number(p, U - F.bias - F.m - i), Number(N, T - F.bias - 23))
         /\ ~Less(Number(N, T - F.bias - 23), Number(p, U - F.bias - F.m - i))
<1>1. F.m \in {1, 2, 3, 7, 10} /\ F.bias \in Int
  <2>1. F.m \in {1, 2, 3, 7, 10}
    BY Shapes DEF Finer
  <2> QED BY <2>1, ShapeNumbers
<1>2. u \in {2, 4, 8, 128, 1024}
  BY Zenon DEF Shape, Sizes
<1>3. PICK j \in 0 .. 30 : j = F.m + 1 + i
  BY <1>1
<1>4. PICK q \in Nat : q = 2 ^ j /\ q = 2 * u * (IF i = 1 THEN 2 ELSE 1)
  <2>1. F.m + 1 \in 0 .. 30
    BY <1>1
  <2>2. PICK a : a = 2 ^ (F.m + 1)
    OBVIOUS
  <2>3. a = 2 * u /\ 2 ^ (F.m + 1 + 1) = 2 * a
    BY Zenon, <2>1, <2>2, PowerStep DEF Shape
  <2>4. CASE i = 0
    <3>1. F.m + 1 + i = F.m + 1 /\ 2 * u * (IF i = 1 THEN 2 ELSE 1) = 2 * u /\ 2 * u \in Nat
      BY <1>1, <2>4
    <3> QED BY Zenon, <1>3, <2>2, <2>3, <3>1
  <2>5. CASE i = 1
    <3>1. 2 * u * (IF i = 1 THEN 2 ELSE 1) = 2 * a /\ 2 * a \in Nat
      BY <2>3, <2>5
    <3> QED BY Zenon, <1>3, <2>3, <2>5, <3>1
  <2> QED BY <2>4, <2>5
<1>5. p < q /\ p < 2 ^ 24
  BY <1>2, <1>4
<1>6. Log2(p) \in 0 .. 23 /\ Log2(p) < j
  BY Zenon, <1>4, <1>5, Log2Below
<1>7. Log2(N) = 23
  BY LeadingBit
<1>8. PICK k, l \in Int : k = T - F.bias - 23 /\ l = U - F.bias - F.m - i
  BY <1>1
<1>9. Log2(p) + l < Log2(N) + k
  BY <1>1, <1>3, <1>6, <1>7, <1>8
<1>10. 0 < N /\ Log2(N) \in Int /\ Log2(p) \in Int
  BY <1>6, <1>7
<1>11. Less(Number(p, l), Number(N, k)) /\ ~Less(Number(N, k), Number(p, l))
  BY <1>9, <1>10, LessByBinade
<1> QED BY Zenon, <1>8, <1>11

\* Above the largest number of a narrow format.
LEMMA Saturates ==
  ASSUME NEW F \in NarrowFormats, NEW u \in Nat \ {0}, NEW top \in Nat \ {0}, Shape(F, u, top),
         NEW U \in 1 .. top - 1, NEW S \in u + 1 .. 2 * u - 1, F.max = (U - 1) * u + S,
         NEW T \in Int, NEW N \in Nat, 2 ^ 23 <= N, N < 2 ^ 24,
         NEW s \in 2 .. 24, s = 23 - F.m, NEW w \in Nat \ {0}, IsHalf(w, s),
         U <= T, T = U => 2 * S * w < N
  PROVE  /\ Nearest(Number(N, T - F.bias - 23), F.max, F)
         /\ TowardsZero(Number(N, T - F.bias - 23), F.max, F)
<1>1. F.m \in Int /\ F.bias \in Int
  BY ShapeNumbers
<1>2. u \in {2, 4, 8, 128, 1024} /\ Highest(F) = F.max
  <2>1. u \in {2, 4, 8, 128, 1024}
    BY Zenon DEF Shape, Sizes
  <2>2. Highest(F) = F.max
    BY LargestCode
  <2> QED BY <2>1, <2>2
<1>3. PICK k \in Int : k = T - F.bias - 23
  BY <1>1
<1>4. PICK max \in Nat : max = F.max /\ max = (U - 1) * u + S /\ max > 0
  OBVIOUS
<1>5. PICK p \in 0 .. 4 * u - 1 : p = 2 * S - 1
  OBVIOUS
<1>6. Midpoint(max - 1, F) = Number(p, U - F.bias - F.m - 1)
  <2>1. p >= 2 * u /\ max - 1 \in Int /\ 2 * (max - 1) + 1 = (U - 1) * (2 * u) + p
    BY <1>4, <1>5
  <2> QED BY <2>1, MidpointIs
<1>7. CodeValue(max, F) = Number(S, U - F.bias - F.m)
  <2>1. S \in 0 .. 2 * u - 1 /\ S >= u
    OBVIOUS
  <2> QED BY <1>4, <2>1, ValueIs
<1>8. Less(Midpoint(max - 1, F), Number(N, k)) /\ ~Less(Number(N, k), CodeValue(max, F))
  <2>1. CASE U < T
    <3>1. p \in Nat /\ 0 < p /\ p < 4 * u /\ S \in Nat /\ 0 < S /\ S < 2 * u
      BY <1>5
    <3>2. Less(Number(p, U - F.bias - F.m - 1), Number(N, T - F.bias - 23))
      <4>1. PICK i \in {0, 1} : i = 1
        OBVIOUS
      <4>2. p < 2 * u * (IF i = 1 THEN 2 ELSE 1)
        BY <3>1, <4>1
      <4>3. Less(Number(p, U - F.bias - F.m - i), Number(N, T - F.bias - 23))
        BY <2>1, <3>1, <4>2, HigherBinade
      <4> QED BY <4>1, <4>3
    <3>3. ~Less(Number(N, T - F.bias - 23), Number(S, U - F.bias - F.m))
      <4>1. PICK i \in {0, 1} : i = 0
        OBVIOUS
      <4>2. S < 2 * u * (IF i = 1 THEN 2 ELSE 1)
        BY <3>1, <4>1
      <4>3. ~Less(Number(N, T - F.bias - 23), Number(S, U - F.bias - F.m - i))
        BY <2>1, <3>1, <4>2, HigherBinade
      <4>4. U - F.bias - F.m - i = U - F.bias - F.m
        BY <1>1, <4>1
      <4> QED BY <4>3, <4>4
    <3> QED BY Zenon, <1>3, <1>6, <1>7, <3>2, <3>3
  <2>2. CASE T = U
    <3>1. 2 * S * w < N /\ p * w = 2 * S * w - w /\ S * (2 * w) = 2 * S * w
      BY <1>5, <2>2
    <3>2. PICK c, d \in 0 .. 25 : c = s - 1 /\ d = s
      OBVIOUS
    <3>3. U - F.bias - F.m - 1 = k + c /\ U - F.bias - F.m = k + d
      BY <1>1, <1>3, <2>2, <3>2
    <3>4. PICK z \in Nat \ {0} : z = 2 * w
      OBVIOUS
    <3>5. w = 2 ^ c /\ z = 2 ^ d
      BY Zenon, <3>2, <3>4 DEF IsHalf
    <3>6. /\ p \in Nat /\ 0 < p /\ p < 2 ^ 24 /\ p * w < N /\ p * w < 2 ^ 30
          /\ S \in Nat /\ 0 < S /\ S < 2 ^ 24 /\ S * z < N /\ S * z < 2 ^ 30 /\ 0 < N
      BY <1>2, <1>5, <3>1, <3>4
    <3>7. Less(Number(p, k + c), Number(N, k)) <=> p * w < N
      <4>1. w = 2 ^ c
        BY Zenon, <3>5
      <4> QED BY Zenon, <3>6, <4>1, Compared
    <3>8. Less(Number(N, k), Number(S, k + d)) <=> N < S * z
      <4>1. z = 2 ^ d
        BY Zenon, <3>5
      <4> QED BY Zenon, <3>6, <4>1, Compared
    <3>9. ~(N < S * z)
      BY <3>4, <3>6
    <3> QED BY Zenon, <1>6, <1>7, <3>3, <3>6, <3>7, <3>8, <3>9
  <2> QED BY <2>1, <2>2
<1>9. ~(max < Highest(F))
  BY <1>2, <1>4
<1>10. Nearest(Number(N, k), max, F)
  BY Zenon, <1>8, <1>9 DEF Nearest
<1>11. TowardsZero(Number(N, k), max, F)
  BY Zenon, <1>8, <1>9 DEF TowardsZero
<1> QED BY Zenon, <1>3, <1>4, <1>10, <1>11

\* Above every number of f16 or bf16.
LEMMA HalfOverflows ==
  ASSUME NEW F \in Halves, NEW u \in Nat \ {0}, NEW top \in Nat \ {0}, Shape(F, u, top),
         NEW T \in Int, top - 1 <= T, NEW N \in Nat, 2 ^ 23 <= N, N < 2 ^ 24
  PROVE  Nearest(Number(N, T - F.bias - 23), Infinity(F), F)
<1>1. F.m \in Int /\ F.bias \in Int
  BY ShapeNumbers
<1>2. u \in {2, 4, 8, 128, 1024} /\ top \in {4, 8, 16, 32, 256}
  BY Zenon DEF Shape, Sizes
<1>3. Highest(F) = Infinity(F)
  BY DEF Highest
<1>4. PICK inf \in Nat : inf = Infinity(F) /\ inf = (top - 1) * u /\ inf > 0
  <2>1. Infinity(F) = MaxExp(F) * 2 ^ F.m
    <3>1. CASE F = F16
      BY SMT, <3>1 DEF F16, Narrow, Infinity, MaxExp
    <3>2. CASE F = BF16
      BY SMT, <3>2 DEF BF16, Narrow, Infinity, MaxExp
    <3> QED BY <3>1, <3>2 DEF Halves
  <2>2. Infinity(F) = (top - 1) * u
    BY Zenon, <2>1 DEF Shape
  <2> QED BY <1>2, <2>2
<1>5. PICK U \in 1 .. top - 1 : U = top - 2
  BY <1>2
<1>6. PICK p \in 0 .. 4 * u - 1 : p = 4 * u - 1
  BY <1>2
<1>7. Midpoint(inf - 1, F) = Number(p, U - F.bias - F.m - 1)
  <2>1. p >= 2 * u /\ inf - 1 \in Int /\ 2 * (inf - 1) + 1 = (U - 1) * (2 * u) + p
    BY <1>2, <1>4, <1>5, <1>6
  <2> QED BY <2>1, MidpointIs
<1>8. Less(Number(p, U - F.bias - F.m - 1), Number(N, T - F.bias - 23))
  <2>1. PICK i \in {0, 1} : i = 1
    OBVIOUS
  <2>2. p \in Nat /\ 0 < p /\ p < 2 * u * (IF i = 1 THEN 2 ELSE 1) /\ U < T
    BY <1>2, <1>5, <1>6, <2>1
  <2>3. Less(Number(p, U - F.bias - F.m - i), Number(N, T - F.bias - 23))
    BY <2>2, HigherBinade
  <2> QED BY <2>1, <2>3
<1>9. ~(inf < Highest(F))
  BY <1>3, <1>4
<1> QED BY Zenon, <1>4, <1>7, <1>8, <1>9 DEF Nearest

-----------------------------------------------------------------------------
(* A number and the code it is rounded to.                                 *)
Approximates(v, mag, F, rz) == IF rz THEN TowardsZero(v, mag, F) ELSE Nearest(v, mag, F)

\* R is the rounded significand of N, and its code what the number is rounded to.
RoundedTo(R, N, F, u, T, s, w, rz) ==
  /\ R = Rounded(N, s, rz) /\ R <= 2 * u /\ (T = 1 \/ R >= u)
  /\ (2 * R - 1) * w <= N /\ N <= (2 * R + 2) * w
  /\ Approximates(Number(N, T - F.bias - F.m - s), (T - 1) * u + R, F, rz)

\* NearestSignificand and CutSignificand, for what Rounded gives.
LEMMA RoundsSignificand ==
  ASSUME NEW F \in NarrowFormats \cup Halves,
         NEW u \in Nat \ {0}, NEW top \in Nat \ {0}, Shape(F, u, top),
         NEW T \in 1 .. top - 1, NEW s \in 2 .. 24,
         NEW N \in Nat, 0 < N, N < 2 ^ 24, NEW w \in Nat \ {0}, IsHalf(w, s),
         InBinade(N, w, T, u), NEW rz \in BOOLEAN
  PROVE  \E R \in Nat : RoundedTo(R, N, F, u, T, s, w, rz)
<1>1. s \in 1 .. 25
  OBVIOUS
<1>2. CASE rz = FALSE
  <2>1. PICK v \in Nat \ {0}, R \in Nat :
          /\ v = 2 ^ (s - 1) /\ 2 ^ s = 2 * v /\ R = Rounded(N, s, FALSE)
          /\ (2 * R - 1) * v < N \/ ((2 * R - 1) * v = N /\ R % 2 = 0)
          /\ N < (2 * R + 1) * v \/ (N = (2 * R + 1) * v /\ R % 2 = 0)
    BY ONLY <1>1, RoundedNear, N \in Nat
  <2>2. v = w
    BY Zenon, <2>1 DEF IsHalf
  <2>3. NearestOf(N, w, R)
    BY Zenon, <2>1, <2>2 DEF NearestOf
  <2>4. Nearest(Number(N, T - F.bias - F.m - s), (T - 1) * u + R, F)
    BY <2>3, NearestSignificand
  <2>5. (2 * R - 1) * w <= N /\ N <= (2 * R + 1) * w
    BY <2>3 DEF NearestOf
  <2>6. N < 4 * u * w /\ (T = 1 \/ 2 * u * w <= N)
    BY DEF InBinade
  <2>7. R <= 2 * u /\ (2 * u * w <= N => R >= u)
    BY <1>1, <2>5, <2>6, RoundedWithin
  <2>8. (2 * R + 1) * w <= (2 * R + 2) * w
    OBVIOUS
  <2>9. N <= (2 * R + 2) * w /\ (T = 1 \/ R >= u) /\ R <= 2 * u
    BY <2>5, <2>6, <2>7, <2>8
  <2>10. Approximates(Number(N, T - F.bias - F.m - s), (T - 1) * u + R, F, rz)
    BY Zenon, <1>2, <2>4 DEF Approximates
  <2>11. RoundedTo(R, N, F, u, T, s, w, rz)
    BY Zenon, <1>2, <2>1, <2>5, <2>9, <2>10 DEF RoundedTo
  <2> QED BY Zenon, <2>11
<1>3. CASE rz = TRUE
  <2>1. PICK z \in Nat \ {0}, R \in Nat :
           /\ z = 2 ^ s /\ R = Rounded(N, s, TRUE)
           /\ R * z <= N /\ N < (R + 1) * z
    BY ONLY <1>1, RoundedDown, N \in Nat
  <2>2. z = 2 * w
    BY Zenon, <2>1 DEF IsHalf
  <2>3. CutTo(N, 2 * w, R)
    BY Zenon, <2>1, <2>2 DEF CutTo
  <2>4. TowardsZero(Number(N, T - F.bias - F.m - s), (T - 1) * u + R, F)
    BY <2>3, CutSignificand
  <2>5. (2 * R) * w <= N /\ N < (2 * R + 2) * w
    BY <2>3 DEF CutTo
  <2>6. N < 4 * u * w /\ (T = 1 \/ 2 * u * w <= N)
    BY DEF InBinade
  <2>7. R <= 2 * u /\ (T = 1 \/ R >= u)
    <3>1. ~(R >= 2 * u)
      <4> SUFFICES ASSUME R >= 2 * u PROVE FALSE
        OBVIOUS
      <4>1. (2 * R) * w >= 4 * u * w
        OBVIOUS
      <4> QED BY <2>5, <2>6, <4>1
    <3>2. 2 * u * w <= N => ~(R < u)
      <4> SUFFICES ASSUME 2 * u * w <= N, R + 1 <= u PROVE FALSE
        OBVIOUS
      <4>1. (2 * R + 2) * w <= 2 * u * w
        OBVIOUS
      <4> QED BY <2>5, <4>1
    <3> QED BY <2>6, <3>1, <3>2
  <2>8. (2 * R - 1) * w <= N
    BY <2>5
  <2>9. N <= (2 * R + 2) * w
    BY <2>5
  <2>10. Approximates(Number(N, T - F.bias - F.m - s), (T - 1) * u + R, F, rz)
    BY Zenon, <1>3, <2>4 DEF Approximates
  <2>11. RoundedTo(R, N, F, u, T, s, w, rz)
    BY Zenon, <1>3, <2>1, <2>7, <2>8, <2>9, <2>10 DEF RoundedTo
  <2> QED BY Zenon, <2>11
<1> QED BY <1>2, <1>3

\* Quotient and remainder, as the two numbers they are.
LEMMA DivideBy ==
  ASSUME NEW n \in Nat, NEW z \in Nat \ {0}
  PROVE  n \div z \in Nat /\ n % z \in 0 .. z - 1 /\ n = (n \div z) * z + (n % z)
OBVIOUS

\* An even multiple of the place, rounded along.
LEMMA RoundedAlong ==
  ASSUME NEW q \in Nat, q % 2 = 0, NEW n \in Nat, NEW s \in 1 .. 25, NEW rz \in BOOLEAN
  PROVE  Rounded(q * 2 ^ s + n, s, rz) = q + Rounded(n, s, rz)
<1>11. PICK z : z = 2 ^ s
  OBVIOUS
<1>1. z \in Nat \ {0}
  <2>1. s \in 0 .. 30
    OBVIOUS
  <2> QED BY Zenon, <1>11, <2>1, PowerStep
<1>2. PICK a, b : a = n \div z /\ b = n % z
  BY Zenon
<1>3. a \in Nat /\ b \in 0 .. z - 1 /\ n = a * z + b
  BY Zenon, <1>1, <1>2, DivideBy
<1>4. PICK N \in Nat : N = q * z + n /\ N = (q + a) * z + b
  BY <1>1, <1>3
<1>5. N \div z = q + a /\ N % z = b
  <2>1. q + a \in Nat
    BY <1>3
  <2>2. ((q + a) * z + b) \div z = q + a /\ ((q + a) * z + b) % z = b
    BY Zenon, <1>1, <1>3, <2>1, Parts
  <2> QED BY Zenon, <1>4, <2>2
<1>6. (q + a) % 2 = a % 2
  BY <1>3
<1>7. PICK h : h = 2 ^ (s - 1)
  OBVIOUS
<1>8. Rounded(N, s, rz) = IF ~rz /\ RoundsUp(q + a, b, h) THEN (q + a) + 1 ELSE q + a
  BY Zenon, <1>5, <1>7, <1>11 DEF Rounded
<1>9. Rounded(n, s, rz) = IF ~rz /\ RoundsUp(a, b, h) THEN a + 1 ELSE a
  BY Zenon, <1>2, <1>7, <1>11 DEF Rounded
<1>10. RoundsUp(q + a, b, h) <=> RoundsUp(a, b, h)
  BY Zenon, <1>6 DEF RoundsUp
<1>12. Rounded(N, s, rz) = q + Rounded(n, s, rz)
  <2>1. (q + a) + 1 = q + (a + 1)
    BY <1>3
  <2>2. CASE ~rz /\ RoundsUp(a, b, h)
    <3>1. Rounded(N, s, rz) = (q + a) + 1 /\ Rounded(n, s, rz) = a + 1
      BY Zenon, <1>8, <1>9, <1>10, <2>2
    <3> QED BY Zenon, <2>1, <3>1
  <2>3. CASE ~(~rz /\ RoundsUp(a, b, h))
    <3>1. Rounded(N, s, rz) = q + a /\ Rounded(n, s, rz) = a
      BY Zenon, <1>8, <1>9, <1>10, <2>3
    <3> QED BY Zenon, <3>1
  <2> QED BY Zenon, <2>2, <2>3
<1> QED BY Zenon, <1>4, <1>11, <1>12

\* A float's significand has 23 - m bits more than one of the format, or some
\* more below the first binade.
LEMMA PlacesLost ==
  ASSUME NEW F \in NarrowFormats \cup Halves,
         NEW u \in Nat \ {0}, NEW top \in Nat \ {0}, Shape(F, u, top),
         NEW s \in 2 .. 24, 23 - F.m <= s
  PROVE  \E w \in Nat \ {0} :
           /\ IsHalf(w, s)
           /\ s = 23 - F.m => 2 * u * w = 2 ^ 23
           /\ s > 23 - F.m => 2 ^ 24 <= 2 * u * w
<1>1. F.m \in 1 .. 10
  <2>1. F.m \in {1, 2, 3, 7, 10}
    BY Shapes DEF Finer
  <2> QED BY <2>1
<1>2. PICK m \in 1 .. 10 : m = F.m
  BY <1>1
<1>3. 2 ^ m = u
  BY Zenon, <1>2 DEF Shape
<1>4. PICK c \in 0 .. 30 : c = s - (23 - m) /\ m + (23 - m) = 23 /\ (23 - m) + c = s
  BY <1>2
<1>5. PICK p, q, z : p = 2 ^ (23 - m) /\ q = 2 ^ c /\ z = 2 ^ s
  BY Zenon
<1>6. 23 - m \in Nat /\ m \in Nat /\ m + (23 - m) <= 31 /\ c \in Nat /\ (23 - m) + c <= 31
      /\ c \in 0 .. 30 /\ 23 - m \in 0 .. 30
  <2>1. s <= 31
    OBVIOUS
  <2>2. 23 - m \in Nat /\ m \in Nat /\ 23 - m \in 0 .. 30 /\ c \in Nat /\ c \in 0 .. 30
    OBVIOUS
  <2>3. m + (23 - m) <= 31
    OBVIOUS
  <2> QED BY Zenon, <1>4, <2>1, <2>2, <2>3
<1>7. u * p = 2 ^ 23
  BY Zenon, <1>3, <1>4, <1>5, <1>6, PowerSum
<1>8. z = p * q
  BY Zenon, <1>4, <1>5, <1>6, PowerSum
<1>9. p \in Nat \ {0} /\ q \in Nat \ {0}
  BY Zenon, <1>5, <1>6, PowerStep
<1>10. q = 1 \/ q >= 2
  BY <1>9
<1>11. c = 0 => q = 1
  <2>1. 2 ^ 0 = 1
    BY SMT
  <2> QED BY Zenon, <1>5, <2>1
<1>12. c > 0 => q >= 2
  <2> SUFFICES ASSUME c > 0 PROVE q >= 2
    OBVIOUS
  <2>1. 1 \in 0 .. 30 /\ 1 <= c
    BY <1>4
  <2>2. 2 ^ 1 = 2
    BY SMT
  <2> QED BY Zenon, <1>5, <1>6, <2>1, <2>2, PowerGrows
<1>13. PICK w \in Nat \ {0} : w = 2 ^ (s - 1) /\ z = 2 * w
  <2>1. s \in 1 .. 25
    OBVIOUS
  <2> QED BY Zenon, <1>5, <2>1, HalvesOf
<1>14. IsHalf(w, s)
  BY Zenon, <1>5, <1>13 DEF IsHalf
<1>15. 2 * u * w = 2 ^ 23 * q
  <2>1. 2 * u * w = u * z
    BY <1>13
  <2>2. u * z = (u * p) * q
    BY <1>8, <1>9
  <2>3. u * z = 2 ^ 23 * q
    BY Zenon, <1>7, <2>2
  <2> QED BY Zenon, <2>1, <2>3
<1>16. (s = 23 - F.m <=> c = 0) /\ (s > 23 - F.m <=> c > 0)
  BY <1>2, <1>4
<1>17. PICK x : x = 2 * u * w
  OBVIOUS
<1>18. s = 23 - F.m => x = 2 ^ 23
  BY <1>11, <1>15, <1>16, <1>17
<1>19. s > 23 - F.m => 2 ^ 24 <= x
  BY <1>9, <1>12, <1>15, <1>16, <1>17
<1> QED BY Zenon, <1>14, <1>17, <1>18, <1>19

\* Only in the first binade is the leading one missing.
Normalised(N, T) == 0 < N /\ N < 2 ^ 24 /\ (T = 1 \/ 2 ^ 23 <= N)

\* The rounded significand in the binade T.
LEMMA NormalRounds ==
  ASSUME NEW F \in NarrowFormats \cup Halves,
         NEW u \in Nat \ {0}, NEW top \in Nat \ {0}, Shape(F, u, top),
         NEW T \in 1 .. top - 1, NEW N \in Nat, Normalised(N, T),
         NEW rz \in BOOLEAN
  PROVE  \E R \in Nat, w \in Nat \ {0} :
           /\ R = Rounded(N, 23 - F.m, rz) /\ R <= 2 * u /\ (T = 1 \/ R >= u)
           /\ IsHalf(w, 23 - F.m) /\ (2 * R - 1) * w <= N
           /\ Approximates(Number(N, T - F.bias - 23), (T - 1) * u + R, F, rz)
<1>1. F.m \in 1 .. 10 /\ F.bias \in Int
  <2>1. F.m \in {1, 2, 3, 7, 10}
    BY Shapes DEF Finer
  <2> QED BY <2>1, ShapeNumbers
<1>2. PICK s \in 2 .. 24 : s = 23 - F.m
  BY <1>1
<1>3. 23 - F.m <= s
  BY <1>2
<1>4. PICK w \in Nat \ {0} : IsHalf(w, s) /\ 2 * u * w = 2 ^ 23
  BY Zenon, <1>2, <1>3, PlacesLost
<1>5. InBinade(N, w, T, u)
  <2>1. 4 * u * w = 2 ^ 24
    BY <1>4
  <2> QED BY <1>4, <2>1 DEF InBinade, Normalised
<1>6. PICK R \in Nat : RoundedTo(R, N, F, u, T, s, w, rz)
  <2>1. N \in Nat /\ 0 < N /\ N < 2 ^ 24 /\ IsHalf(w, s)
    BY <1>4 DEF Normalised
  <2> QED BY <1>5, <2>1, RoundsSignificand
<1>7. T - F.bias - F.m - s = T - F.bias - 23
  BY <1>1, <1>2
<1> QED BY Zenon, <1>2, <1>4, <1>6, <1>7 DEF RoundedTo

\* The rounded significand of a number below the first binade.
LEMMA SmallRounds ==
  ASSUME NEW F \in NarrowFormats \cup Halves,
         NEW u \in Nat \ {0}, NEW top \in Nat \ {0}, Shape(F, u, top),
         NEW t \in Int, -F.m <= t, t <= 0, NEW N \in Nat, 0 < N, N < 2 ^ 24,
         NEW rz \in BOOLEAN
  PROVE  \E R \in 0 .. u :
           /\ R = Rounded(N, 24 - F.m - t, rz)
           /\ Approximates(Number(N, t - F.bias - 23), R, F, rz)
<1>1. F.m \in 1 .. 10 /\ F.bias \in Int
  <2>1. F.m \in {1, 2, 3, 7, 10}
    BY Shapes DEF Finer
  <2> QED BY <2>1, ShapeNumbers
<1>2. PICK s \in 2 .. 24 : s = 24 - F.m - t
  BY <1>1
<1>3. 23 - F.m <= s /\ s > 23 - F.m
  BY <1>1, <1>2
<1>4. PICK w \in Nat \ {0} : IsHalf(w, s) /\ 2 ^ 24 <= 2 * u * w
  BY Zenon, <1>3, PlacesLost
<1>5. PICK T \in 1 .. top - 1 : T = 1
  <2>1. top \in {4, 8, 16, 32, 256}
    BY Zenon DEF Shape, Sizes
  <2> QED BY <2>1
<1>6. InBinade(N, w, T, u)
  <2>1. 4 * u * w = 2 * u * w + 2 * u * w
    OBVIOUS
  <2> QED BY <1>4, <1>5, <2>1 DEF InBinade
<1>7. PICK R \in Nat : RoundedTo(R, N, F, u, T, s, w, rz)
  BY <1>4, <1>6, RoundsSignificand
<1>8. T - F.bias - F.m - s = t - F.bias - 23 /\ (T - 1) * u + R = R
  BY <1>1, <1>2, <1>5
<1>9. ~(R >= u + 1)
  <2> SUFFICES ASSUME R >= u + 1 PROVE FALSE
    OBVIOUS
  <2>1. (2 * R - 1) * w >= (2 * u + 1) * w
    OBVIOUS
  <2>2. (2 * u + 1) * w = 2 * u * w + w
    OBVIOUS
  <2>3. (2 * R - 1) * w <= N
    BY Zenon, <1>7 DEF RoundedTo
  <2> QED BY <1>4, <2>1, <2>2, <2>3
<1>10. R \in 0 .. u
  BY <1>9
<1> QED BY Zenon, <1>2, <1>7, <1>8, <1>10 DEF RoundedTo

\* The same, with what is above the largest number cut down to it.
LEMMA ClampRounds ==
  ASSUME NEW F \in NarrowFormats,
         NEW u \in Nat \ {0}, NEW top \in Nat \ {0}, Shape(F, u, top),
         NEW T \in 1 .. top - 1, NEW N \in Nat, 2 ^ 23 <= N, N < 2 ^ 24, NEW rz \in BOOLEAN,
         NEW R, R = Rounded(N, 23 - F.m, rz), NEW val, val = (T - 1) * u + R
  PROVE  /\ val \in 0 .. SignBit(F) /\ R \in Nat
         /\ Approximates(Number(N, T - F.bias - 23), IF val > F.max THEN F.max ELSE val, F, rz)
<1>1. Normalised(N, T)
  <2>1. 0 < N
    OBVIOUS
  <2> QED BY <2>1 DEF Normalised
<1>2. PICK w \in Nat \ {0} :
        /\ R \in Nat /\ R <= 2 * u /\ (T = 1 \/ R >= u)
        /\ IsHalf(w, 23 - F.m) /\ (2 * R - 1) * w <= N
        /\ Approximates(Number(N, T - F.bias - 23), val, F, rz)
  <2>1. F \in NarrowFormats \cup Halves
    OBVIOUS
  <2>2. PICK Q \in Nat, w \in Nat \ {0} :
           /\ Q = Rounded(N, 23 - F.m, rz) /\ Q <= 2 * u /\ (T = 1 \/ Q >= u)
           /\ IsHalf(w, 23 - F.m) /\ (2 * Q - 1) * w <= N
           /\ Approximates(Number(N, T - F.bias - 23), (T - 1) * u + Q, F, rz)
    BY <1>1, <2>1, NormalRounds
  <2>3. R = Q
    BY Zenon, <2>2
  <2> QED BY Zenon, <2>2, <2>3
<1>3. val \in 0 .. top * u
  <2>1. T - 1 <= top - 2 /\ T - 1 \in Nat
    OBVIOUS
  <2>2. (T - 1) * u <= (top - 2) * u
    BY <2>1
  <2>3. (top - 2) * u + 2 * u = top * u
    OBVIOUS
  <2> QED BY <1>2, <2>1, <2>2, <2>3
<1>4. val \in 0 .. SignBit(F)
  BY Zenon, <1>3 DEF Shape
<1>5. CASE val > F.max
  <2>1. PICK U \in 1 .. top - 1, S \in u + 1 .. 2 * u - 1 : F.max = (U - 1) * u + S
    BY LargestCode
  <2>2. F.m \in {1, 2, 3}
    BY FormatFacts
  <2>3. PICK s \in 2 .. 24 : s = 23 - F.m
    BY <2>2
  <2>4. U <= T
    <3> SUFFICES ASSUME T <= U - 1 PROVE FALSE
      OBVIOUS
    <3>1. (T - 1) * u <= (U - 2) * u
      OBVIOUS
    <3>2. (U - 1) * u = (U - 2) * u + u
      OBVIOUS
    <3> QED BY <1>2, <1>5, <2>1, <3>1, <3>2
  <2>5. T = U => 2 * S * w < N
    <3> SUFFICES ASSUME T = U PROVE 2 * S * w < N
      OBVIOUS
    <3>1. R >= S + 1
      BY <1>2, <1>5, <2>1
    <3>2. (2 * R - 1) * w >= (2 * S + 1) * w
      BY <1>2, <3>1
    <3>3. (2 * S + 1) * w = 2 * S * w + w
      OBVIOUS
    <3> QED BY <1>2, <3>2, <3>3
  <2>6. T \in Int /\ IsHalf(w, s)
    BY <1>2, <2>3
  <2>7. /\ Nearest(Number(N, T - F.bias - 23), F.max, F)
        /\ TowardsZero(Number(N, T - F.bias - 23), F.max, F)
    BY <2>1, <2>3, <2>4, <2>5, <2>6, Saturates
  <2> QED BY Zenon, <1>2, <1>4, <1>5, <2>7 DEF Approximates
<1>6. CASE ~(val > F.max)
  BY Zenon, <1>2, <1>4, <1>6
<1> QED BY Zenon, <1>5, <1>6

-----------------------------------------------------------------------------
(* The interpreter's conversions round so.                                 *)
\* A natural number is an integer, for steps that Zenon proves.
LEMMA NatInt == \A n \in Nat : n \in Int
OBVIOUS

\* The fields of a float.
LEMMA FloatParts ==
  ASSUME NEW f \in Floats
  PROVE  /\ f.s \in {0, 1} /\ f.e \in 0 .. 255 /\ f.man \in Nat /\ f.man < 2 ^ 23
         /\ f.man \in 0 .. 2 ^ 23 - 1
<1>1. f.s \in {0, 1} /\ f.e \in 0 .. 255 /\ f.man \in 0 .. 2 ^ 23 - 1
  BY DEF Floats
<1> QED BY <1>1

\* A float that is not below its first binade.
LEMMA NormalFloat ==
  ASSUME NEW f \in Floats, f.e # 0
  PROVE  \E N \in Nat : /\ N = 2 ^ 23 + f.man /\ 2 ^ 23 <= N /\ N < 2 ^ 24
                        /\ FloatValue(f) = Number(N, f.e - 150)
<1>1. PICK N \in Nat : N = 2 ^ 23 + f.man /\ 2 ^ 23 <= N /\ N < 2 ^ 24
  BY FloatParts
<1>2. FloatValue(f) = Number(N, f.e - 150)
  BY Zenon, <1>1 DEF FloatValue
<1> QED BY <1>1, <1>2

\* The leading one is even for what is rounded to, so it can be added afterwards.
LEMMA SignificandSplits ==
  ASSUME NEW F \in NarrowFormats \cup Halves, NEW u \in Nat \ {0}, NEW top \in Nat \ {0},
         Shape(F, u, top), NEW n \in Nat, NEW rz \in BOOLEAN
  PROVE  Rounded(2 ^ 23 + n, 23 - F.m, rz) = u + Rounded(n, 23 - F.m, rz)
<1>1. F.m \in {1, 2, 3, 7, 10}
  BY Shapes DEF Finer
<1>2. PICK m \in 1 .. 10, s \in 1 .. 25 : m = F.m /\ s = 23 - F.m /\ m + s = 23
  BY <1>1
<1>3. PICK z : z = 2 ^ s
  OBVIOUS
<1>4. u * z = 2 ^ 23
  <2>1. m \in Nat /\ s \in Nat /\ m + s <= 31
    BY <1>2
  <2>2. 2 ^ m = u
    BY Zenon, <1>2 DEF Shape
  <2> QED BY Zenon, <1>2, <1>3, <2>1, <2>2, PowerSum
<1>5. u % 2 = 0 /\ u \in Nat
  <2>1. u \in {2, 4, 8, 128, 1024}
    BY Zenon DEF Shape, Sizes
  <2> QED BY <2>1
<1>6. Rounded(u * 2 ^ s + n, s, rz) = u + Rounded(n, s, rz)
  BY Zenon, <1>5, RoundedAlong
<1> QED BY Zenon, <1>2, <1>3, <1>4, <1>6

\* Every float far below the first number of a format.
LEMMA FarBelow ==
  ASSUME NEW F \in NarrowFormats \cup Halves, NEW f \in Floats,
         f.e = 0 => F.bias < 100 \/ f.man = 0,
         f.e - 127 + F.bias < -F.m \/ (f.e = 0 /\ f.man = 0), NEW rz \in BOOLEAN
  PROVE  Approximates(FloatValue(f), 0, F, rz)
<1>1. F.m \in 1 .. 10 /\ F.bias \in Int
  <2>1. F.m \in {1, 2, 3, 7, 10}
    BY Shapes DEF Finer
  <2> QED BY <2>1, ShapeNumbers
<1>2. \E N \in Nat, k \in Int : /\ FloatValue(f) = Number(N, k)
                                /\ N # 0 => Log2(N) \in Int /\ Log2(N) + k < -F.bias - F.m
  <2>1. CASE f.e = 0 /\ f.man = 0
    <3>1. FloatValue(f) = Number(0, -149)
      BY <2>1 DEF FloatValue
    <3> QED BY <3>1
  <2>2. CASE f.e = 0 /\ f.man # 0
    <3>1. FloatValue(f) = Number(f.man, -149)
      BY <2>2 DEF FloatValue
    <3>2. f.man \in Nat /\ 0 < f.man /\ f.man < 2 ^ 23
      BY <2>2, FloatParts
    <3>3. Log2(f.man) \in 0 .. 23 /\ Log2(f.man) < 23
      <4>1. f.man < 2 ^ 24 /\ 23 \in 0 .. 30
        BY <3>2
      <4>2. PICK p : p = 2 ^ 23
        OBVIOUS
      <4> QED BY Zenon, <3>2, <4>1, <4>2, Log2Below
    <3>4. Log2(f.man) + (-149) < -F.bias - F.m
      BY <1>1, <2>2, <3>3
    <3> QED BY <3>1, <3>2, <3>3, <3>4
  <2>3. CASE f.e # 0
    <3>1. PICK N \in Nat : /\ N = 2 ^ 23 + f.man /\ 2 ^ 23 <= N /\ N < 2 ^ 24
                           /\ FloatValue(f) = Number(N, f.e - 150)
      BY <2>3, NormalFloat
    <3>2. Log2(N) = 23
      BY <3>1, LeadingBit
    <3>3. f.e \in Int
      BY FloatParts
    <3>4. f.e - 150 \in Int /\ Log2(N) + (f.e - 150) < -F.bias - F.m
      BY <1>1, <2>3, <3>2, <3>3
    <3> QED BY <3>1, <3>2, <3>4
  <2> QED BY <2>1, <2>2, <2>3
<1>3. Nearest(FloatValue(f), 0, F) /\ TowardsZero(FloatValue(f), 0, F)
  <2>1. PICK N \in Nat, k \in Int : /\ FloatValue(f) = Number(N, k)
                                    /\ N # 0 => Log2(N) \in Int /\ Log2(N) + k < -F.bias - F.m
    BY <1>2
  <2>2. Nearest(Number(N, k), 0, F) /\ TowardsZero(Number(N, k), 0, F)
    BY <2>1, TinyIsZero
  <2> QED BY Zenon, <2>1, <2>2
<1> QED BY Zenon, <1>3 DEF Approximates

\* What f32_to_narrow leaves of a number but its sign.
LEMMA EncodeRounds ==
  ASSUME NEW F \in NarrowFormats, NEW f \in Floats, ~IsNaN(f), NEW rz \in BOOLEAN
  PROVE  \E mag \in 0 .. F.max :
           /\ \/ Encode(f, F, rz) = f.s * SignBit(F) + mag
              \/ mag = 0 /\ Encode(f, F, rz) = 0
           /\ IsInf(f) => mag = F.max
           /\ ~IsInf(f) => Approximates(FloatValue(f), mag, F, rz)
<1> DEFINE Right(mag) ==
      /\ \/ Encode(f, F, rz) = f.s * SignBit(F) + mag
         \/ mag = 0 /\ Encode(f, F, rz) = 0
      /\ IsInf(f) => mag = F.max
      /\ ~IsInf(f) => Approximates(FloatValue(f), mag, F, rz)
<1>1. f.s \in {0, 1} /\ f.e \in 0 .. 255 /\ f.man \in Nat /\ f.man < 2 ^ 23
  BY FloatParts
<1>2. PICK u \in Nat \ {0}, top \in Nat \ {0} : Shape(F, u, top)
  <2>1. F \in NarrowFormats \cup Halves
    OBVIOUS
  <2> QED BY Zenon, <2>1, Shapes
<1>3. u \in {2, 4, 8} /\ top \in {4, 8, 16, 32} /\ F.bias \in {1, 3, 7, 15} /\ F.m \in {1, 2, 3}
  <2>1. PICK unit \in {2, 4, 8}, sign \in {8, 32, 128} :
          Powers(F, unit, sign, MaxExp(F)) /\ sign = (MaxExp(F) + 1) * unit
    BY FormatFacts
  <2>2. u = unit /\ MaxExp(F) = top - 1
    BY Zenon, <1>2, <2>1 DEF Powers, Shape
  <2>3. top \in {4, 8, 16, 32, 256}
    BY Zenon, <1>2 DEF Shape, Sizes
  <2>4. sign = top * unit
    BY <2>1, <2>2, <2>3
  <2>5. top # 256
    BY <2>1, <2>4
  <2> QED BY <2>1, <2>2, <2>3, <2>5, FormatFacts
<1>4. PICK U \in 1 .. top - 1, S \in u + 1 .. 2 * u - 1 : F.max = (U - 1) * u + S
  BY <1>2, LargestCode
<1>5. F.max \in Nat /\ F.max > u
  <2>1. (U - 1) * u \in Nat
    BY <1>3
  <2> QED BY <1>3, <1>4, <2>1
<1>6. PICK t \in Int : t = f.e - 127 + F.bias
  BY <1>1, <1>3
<1>7. PICK R, small, val, sign :
        /\ R = Rounded(f.man, 23 - F.m, rz)
        /\ small = Min({2 ^ (F.e + F.m) - 1, Rounded(2 ^ 23 + f.man, 1 - t + 23 - F.m, rz)})
        /\ val = t * u + R /\ sign = f.s * SignBit(F)
  BY Zenon
<1>8. Encode(f, F, rz) =
        IF IsInf(f) THEN sign + F.max
        ELSE IF IsZero(f) THEN sign
        ELSE IF t > top - 1 THEN sign + F.max
        ELSE IF t < -F.m THEN 0
        ELSE IF t <= 0
        THEN (IF F.nan # 0 /\ small \div u = top - 1 THEN sign + F.max ELSE sign + small)
        ELSE IF Overflows(val, F) THEN sign + F.max ELSE sign + val
  <2>1. 2 ^ F.m = u /\ MaxExp(F) = top - 1
    BY Zenon, <1>2 DEF Shape
  <2> QED BY Zenon, <1>6, <1>7, <2>1 DEF Encode
<1>9. sign = f.s * SignBit(F) /\ sign \in Int
  <2>1. SignBit(F) = top * u
    BY Zenon, <1>2 DEF Shape
  <2> QED BY <1>1, <1>3, <1>7, <2>1
<1>10. CASE IsInf(f)
  <2>1. Encode(f, F, rz) = sign + F.max
    BY Zenon, <1>8, <1>10
  <2>2. F.max \in 0 .. F.max
    BY <1>5
  <2> QED BY Zenon, <1>9, <1>10, <2>1, <2>2
<1>11. 0 \in 0 .. F.max /\ sign + 0 = sign
  BY <1>5, <1>9
<1>12. CASE ~IsInf(f) /\ IsZero(f)
  <2>1. Approximates(FloatValue(f), 0, F, rz)
    <3>1. f.e = 0 /\ f.man = 0
      BY Zenon, <1>12 DEF IsZero
    <3> QED BY <3>1, FarBelow
  <2>2. Encode(f, F, rz) = sign
    BY Zenon, <1>8, <1>12
  <2> QED BY Zenon, <1>9, <1>11, <1>12, <2>1, <2>2
<1>13. CASE ~IsInf(f) /\ ~IsZero(f) /\ t < -F.m
  <2>1. Approximates(FloatValue(f), 0, F, rz)
    <3>1. F.bias < 100 /\ f.e - 127 + F.bias < -F.m
      BY <1>3, <1>6, <1>13
    <3> QED BY <3>1, FarBelow
  <2>2. ~(t > top - 1)
    BY <1>3, <1>13
  <2>3. Encode(f, F, rz) = 0
    BY Zenon, <1>8, <1>13, <2>2
  <2> QED BY Zenon, <1>11, <1>13, <2>1, <2>3
<1>14. CASE ~IsInf(f) /\ ~IsZero(f) /\ -F.m <= t
  <2>1. f.e # 0
    BY <1>3, <1>6, <1>14
  <2>2. PICK N \in Nat : /\ N = 2 ^ 23 + f.man /\ 2 ^ 23 <= N /\ N < 2 ^ 24
                         /\ FloatValue(f) = Number(N, f.e - 150)
    BY <2>1, NormalFloat
  <2>3. f.e - 150 = t - F.bias - 23
    BY <1>1, <1>3, <1>6
  <2>4. FloatValue(f) = Number(N, t - F.bias - 23)
    BY Zenon, <2>2, <2>3
  <2>5. ~(t < -F.m)
    BY <1>3, <1>14
  <2>6. CASE t > top - 1
    <3>1. PICK s \in 2 .. 24 : s = 23 - F.m
      BY <1>3
    <3>2. 23 - F.m <= s
      BY <1>3, <3>1
    <3>3. PICK w \in Nat \ {0} : IsHalf(w, s)
      <4>1. F \in NarrowFormats \cup Halves
        OBVIOUS
      <4> QED BY ZenonT(60), <1>2, <3>2, <4>1, PlacesLost
    <3>4. U <= t /\ (t = U => 2 * S * w < N)
      BY <1>3, <2>6
    <3>5. /\ Nearest(Number(N, t - F.bias - 23), F.max, F)
          /\ TowardsZero(Number(N, t - F.bias - 23), F.max, F)
      BY ZenonT(60), <1>2, <1>4, <2>2, <3>1, <3>3, <3>4, Saturates
    <3>6. Encode(f, F, rz) = sign + F.max
      BY Zenon, <1>8, <1>14, <2>6
    <3>7. F.max \in 0 .. F.max
      BY <1>5
    <3> QED BY Zenon, <1>9, <1>14, <2>4, <3>5, <3>6, <3>7 DEF Approximates
  <2>7. CASE t <= 0
    <3>1. 0 < N /\ F \in NarrowFormats \cup Halves
      BY <2>2
    <3>2. PICK Q \in 0 .. u :
             /\ Q = Rounded(N, 24 - F.m - t, rz)
             /\ Approximates(Number(N, t - F.bias - 23), Q, F, rz)
      BY <1>2, <1>14, <2>2, <2>7, <3>1, SmallRounds
    <3>3. 24 - F.m - t = 1 - t + 23 - F.m
      BY <1>3
    <3>4. PICK limit \in Nat : limit = 2 ^ (F.e + F.m) /\ limit >= 8 /\ limit = top * u
      <4>1. PICK unit \in {2, 4, 8}, g \in {8, 32, 128} :
              Powers(F, unit, g, MaxExp(F)) /\ g = (MaxExp(F) + 1) * unit
        BY FormatFacts
      <4>2. u = unit /\ MaxExp(F) = top - 1 /\ g = 2 ^ (F.e + F.m)
        BY Zenon, <1>2, <4>1 DEF Powers, Shape
      <4>3. g = top * u /\ g >= 8 /\ g \in Nat
        BY <1>3, <4>1, <4>2
      <4> QED BY Zenon, <4>2, <4>3
    <3>5. small = Min({limit - 1, Q})
      BY Zenon, <1>7, <2>2, <3>2, <3>3, <3>4
    <3>6. Q <= limit - 1
      BY <1>3, <3>4
    <3>7. small = Q
      <4>1. limit - 1 \in Int /\ Q \in Int
        BY <3>4
      <4>2. Min({limit - 1, Q}) = IF limit - 1 <= Q THEN limit - 1 ELSE Q
        BY <4>1, MinOfTwo
      <4>3. limit - 1 <= Q => limit - 1 = Q
        BY <3>6, <4>1
      <4> QED BY Zenon, <3>5, <4>2, <4>3
    <3>8. Q \div u # top - 1
      BY <1>3
    <3>9. ~(t > top - 1)
      BY <1>3, <2>7
    <3>10. Encode(f, F, rz) = sign + Q
      BY Zenon, <1>8, <1>14, <2>5, <2>7, <3>7, <3>8, <3>9
    <3>11. Q \in 0 .. F.max
      BY <1>5
    <3> QED BY Zenon, <1>9, <1>14, <2>4, <3>2, <3>10, <3>11
  <2>8. CASE 0 < t /\ t <= top - 1
    <3>1. PICK T \in 1 .. top - 1 : T = t
      BY <2>8
    <3>2. PICK Q : Q = Rounded(N, 23 - F.m, rz)
      OBVIOUS
    <3>3. Q = u + R
      <4>1. Rounded(2 ^ 23 + f.man, 23 - F.m, rz) = u + Rounded(f.man, 23 - F.m, rz)
        <5>1. F \in NarrowFormats \cup Halves
          OBVIOUS
        <5> QED BY Zenon, <1>1, <1>2, <5>1, SignificandSplits
      <4> QED BY Zenon, <1>7, <2>2, <3>2, <4>1
    <3>4. PICK v : v = (T - 1) * u + Q
      OBVIOUS
    <3>5. /\ v \in 0 .. SignBit(F) /\ Q \in Nat
          /\ Approximates(Number(N, T - F.bias - 23), IF v > F.max THEN F.max ELSE v, F, rz)
      BY <1>2, <2>2, <3>2, <3>4, ClampRounds
    <3>6. v = val
      <4>1. R \in Int
        <5>1. PICK s : s = 23 - F.m
          OBVIOUS
        <5>2. R = Rounded(f.man, s, rz)
          BY Zenon, <1>7, <5>1
        <5>3. s \in 1 .. 25
          BY <1>3, <5>1
        <5>4. CASE rz = TRUE
          <6>1. PICK z \in Nat \ {0}, X \in Nat : X = Rounded(f.man, s, TRUE)
            BY Zenon, <1>1, <5>3, RoundedDown
          <6> QED BY Zenon, <5>2, <5>4, <6>1, NatInt
        <5>5. CASE rz = FALSE
          <6>1. PICK z \in Nat \ {0}, X \in Nat : X = Rounded(f.man, s, FALSE)
            BY Zenon, <1>1, <5>3, RoundedNear
          <6> QED BY Zenon, <5>2, <5>5, <6>1, NatInt
        <5> QED BY <5>4, <5>5
      <4>2. (T - 1) * u + (u + R) = T * u + R
        BY <1>3, <4>1
      <4> QED BY Zenon, <1>7, <3>1, <3>3, <3>4, <4>2
    <3>7. Overflows(v, F) <=> v > F.max
      BY <3>5, OverflowsAbove
    <3>8. ~(t > top - 1) /\ ~(t <= 0)
      BY <2>8
    <3>9. Encode(f, F, rz) = sign + (IF v > F.max THEN F.max ELSE v)
      BY Zenon, <1>8, <1>14, <2>5, <3>6, <3>7, <3>8
    <3>10. PICK mag : mag = IF v > F.max THEN F.max ELSE v
      OBVIOUS
    <3>11. mag \in 0 .. F.max
      <4>1. v \in Nat
        <5>1. SignBit(F) = top * u
          BY Zenon, <1>2 DEF Shape
        <5> QED BY <1>3, <3>5, <5>1
      <4> QED BY <1>5, <3>10, <4>1
    <3> QED BY Zenon, <1>9, <1>14, <2>4, <3>1, <3>5, <3>9, <3>10, <3>11
  <2> QED BY <2>6, <2>7, <2>8, <1>3
<1>15. IsInf(f) \/ IsZero(f) \/ t < -F.m \/ -F.m <= t
  BY <1>3
<1> QED BY Zenon, <1>10, <1>12, <1>13, <1>14, <1>15

\* A code is packed into its byte and out of it.
LEMMA Unpacked ==
  ASSUME NEW F \in NarrowFormats, NEW code \in 0 .. 2 ^ F.width - 1
  PROVE  (code * 2 ^ F.shift) % 2 ^ F.shift = 0 /\ Unpack(code * 2 ^ F.shift, F) = code
<1>1. F.shift \in {0, 2}
  BY DEF NarrowFormats, E4M3, E5M2, E3M2, E2M3, E2M1, Narrow
<1>2. PICK v : v = 2 ^ F.width
  OBVIOUS
<1>3. v \in Nat /\ v > 0 /\ code \in 0 .. v - 1
  <2>1. v \in Nat /\ v > 0
    BY <1>2, FormatFacts DEF Powers
  <2> QED BY Zenon, <1>2, <2>1
<1>4. PICK p \in {1, 4} : p = 2 ^ F.shift
  <2>1. 2 ^ 0 = 1 /\ 2 ^ 2 = 4
    BY SMT
  <2> QED BY Zenon, <1>1, <2>1
<1>5. (code * p) % p = 0 /\ (code * p) \div p = code
  BY <1>3
<1>6. code % v = code
  BY <1>3
<1>7. ((code * p) \div p) % v = code
  BY Zenon, <1>5, <1>6
<1> QED BY Zenon, <1>2, <1>4, <1>5, <1>7 DEF Unpack

\* A code is its sign and the rest.
LEMMA Signed ==
  ASSUME NEW sign \in Nat \ {0}, NEW s \in {0, 1}, NEW mag \in 0 .. sign - 1
  PROVE  /\ (s * sign + mag) % sign = mag /\ (s * sign + mag) \div sign = s
         /\ s * sign + mag \in 0 .. 2 * sign - 1
         /\ mag % sign = mag
<1>1. s \in Nat
  OBVIOUS
<1>2. (s * sign + mag) % sign = mag /\ (s * sign + mag) \div sign = s
  BY <1>1, Parts
<1>3. s * sign + mag \in 0 .. 2 * sign - 1
  <2>1. s * sign = 0 \/ s * sign = sign
    OBVIOUS
  <2> QED BY <2>1
<1>4. mag % sign = mag
  OBVIOUS
<1> QED BY <1>2, <1>3, <1>4

\* What is packed is the float, rounded and clamped as asked.
LEMMA PackRight ==
  ASSUME NEW c, c.to \in NarrowFormats, NEW f \in Floats
  PROVE  /\ IPack(f, c) % 2 ^ c.to.shift = 0
         /\ NarrowedRight(f, Unpack(IPack(f, c), c.to), c)
<1>1. PICK F \in NarrowFormats : F = c.to
  OBVIOUS
<1>2. PICK sign \in Nat \ {0} :
        /\ 2 ^ F.width = 2 * sign /\ SignBit(F) = sign
        /\ F.max \in 0 .. sign - 1 /\ F.nan \in 0 .. sign - 1
  <2>1. PICK unit \in {2, 4, 8}, g \in {8, 32, 128} :
           /\ Powers(F, unit, g, MaxExp(F))
           /\ F.max \in 0 .. g - 1 /\ F.nan \in 0 .. g - 1
    BY FormatFacts
  <2>2. 2 ^ F.width = 2 * g /\ SignBit(F) = g /\ g \in Nat \ {0}
    BY <2>1 DEF Powers
  <2> QED BY <2>1, <2>2
<1>3. PICK rz \in BOOLEAN : rz = Has(c, "rz")
  BY DEF Has
<1>4. PICK code : code = IF Has(c, "relu") /\ IsNaN(f) THEN (IF F.nanToMax THEN F.max ELSE F.nan)
                         ELSE IF Has(c, "relu") /\ Below0(f) THEN 0
                         ELSE Encode(f, F, rz)
  OBVIOUS
<1>5. IPack(f, c) = code * 2 ^ F.shift
  BY Zenon, <1>1, <1>3, <1>4 DEF IPack
<1>6. PICK mag : mag = code % sign
  OBVIOUS
<1>7. f.s \in {0, 1} /\ 0 \in {0, 1} /\ 0 \in 0 .. sign - 1
  BY <1>2, FloatParts
<1>8. Highest(F) = F.max
  BY FormatsApart DEF Highest
<1>9. \A s \in {0, 1}, x \in 0 .. sign - 1 :
         code = s * sign + x =>
           /\ code \in 0 .. 2 ^ F.width - 1 /\ mag = x /\ code \div sign = s
  <2> TAKE s \in {0, 1}, x \in 0 .. sign - 1
  <2>1. /\ (s * sign + x) % sign = x /\ (s * sign + x) \div sign = s
        /\ s * sign + x \in 0 .. 2 * sign - 1
    BY Signed
  <2> QED BY Zenon, <1>2, <1>6, <2>1
<1>10. \A x \in 0 .. sign - 1 : x = 0 * sign + x
  OBVIOUS
<1>11. NarrowedRight(f, code, c) <=>
         IF IsNaN(f) THEN mag = (IF F.nanToMax THEN F.max ELSE F.nan)
         ELSE IF Has(c, "relu") /\ Below0(f) THEN code = 0
         ELSE /\ mag # 0 => code \div sign = f.s
              /\ IF IsInf(f) THEN mag = F.max
                 ELSE mag <= F.max /\ Approximates(FloatValue(f), mag, F, rz)
  BY Zenon, <1>1, <1>2, <1>3, <1>6, <1>8 DEF NarrowedRight, Approximates
<1>12. code \in 0 .. 2 ^ F.width - 1 /\ NarrowedRight(f, code, c)
  <2>1. CASE IsNaN(f) /\ (Has(c, "relu") \/ F.nanToMax)
    <3>1. code = IF F.nanToMax THEN F.max ELSE F.nan
      BY Zenon, <1>4, <2>1 DEF Encode, Below0
    <3>2. code \in 0 .. sign - 1
      BY Zenon, <1>2, <3>1
    <3>3. code = 0 * sign + code
      BY Zenon, <1>10, <3>2
    <3>4. code \in 0 .. 2 ^ F.width - 1 /\ mag = code
      BY Zenon, <1>7, <1>9, <3>2, <3>3
    <3> QED BY Zenon, <1>11, <2>1, <3>1, <3>4
  <2>2. CASE IsNaN(f) /\ ~Has(c, "relu") /\ ~F.nanToMax
    <3>1. code = f.s * sign + F.nan
      BY Zenon, <1>2, <1>4, <2>2 DEF Encode
    <3>2. code \in 0 .. 2 ^ F.width - 1 /\ mag = F.nan
      BY Zenon, <1>2, <1>7, <1>9, <3>1
    <3> QED BY Zenon, <1>11, <2>2, <3>2
  <2>3. CASE ~IsNaN(f) /\ Has(c, "relu") /\ Below0(f)
    <3>1. code = 0
      BY Zenon, <1>4, <2>3
    <3>2. code \in 0 .. 2 ^ F.width - 1
      BY Zenon, <1>7, <1>9, <1>10, <3>1
    <3> QED BY Zenon, <1>11, <2>3, <3>1, <3>2
  <2>4. CASE ~IsNaN(f) /\ ~(Has(c, "relu") /\ Below0(f))
    <3>1. code = Encode(f, F, rz)
      BY Zenon, <1>4, <2>4
    <3>2. PICK x \in 0 .. F.max :
             /\ code = f.s * sign + x \/ (x = 0 /\ code = 0)
             /\ IsInf(f) => x = F.max
             /\ ~IsInf(f) => Approximates(FloatValue(f), x, F, rz)
      BY Zenon, <1>2, <2>4, <3>1, EncodeRounds
    <3>3. x \in 0 .. sign - 1 /\ x <= F.max /\ 0 = 0 * sign + 0
      BY <1>2
    <3>4. CASE code = f.s * sign + x
      <4>1. code \in 0 .. 2 ^ F.width - 1 /\ mag = x /\ code \div sign = f.s
        BY Zenon, <1>7, <1>9, <3>3, <3>4
      <4> QED BY Zenon, <1>11, <2>4, <3>2, <3>3, <4>1
    <3>5. CASE x = 0 /\ code = 0
      <4>1. code \in 0 .. 2 ^ F.width - 1 /\ mag = x
        BY Zenon, <1>7, <1>9, <3>3, <3>5
      <4> QED BY Zenon, <1>11, <2>4, <3>2, <3>3, <3>5, <4>1
    <3> QED BY Zenon, <3>2, <3>4, <3>5
  <2> QED BY Zenon, <2>1, <2>2, <2>3, <2>4
<1> QED BY Zenon, <1>1, <1>5, <1>12, Unpacked

\* f16 and bf16 by their numbers.
LEMMA HalfNumbers ==
  /\ F16 \in Halves /\ BF16 \in Halves /\ F16 # BF16
  /\ F16.m = 10 /\ F16.bias = 15 /\ Shape(F16, 1024, 32) /\ Infinity(F16) = 31744
  /\ BF16.m = 7 /\ BF16.bias = 127 /\ Shape(BF16, 128, 256) /\ Infinity(BF16) = 32640
  /\ SignBit(F16) = 32768 /\ SignBit(BF16) = 32768
  /\ F16.nan = 32256 /\ BF16.nan = 32704
<1>1. F16.m = 10 /\ F16.bias = 15 /\ Infinity(F16) = 31744 /\ F16.nan = 32256
  BY DEF F16, Narrow, Infinity
<1>2. BF16.m = 7 /\ BF16.bias = 127 /\ Infinity(BF16) = 32640 /\ BF16.nan = 32704
  BY DEF BF16, Narrow, Infinity
<1>3. Shape(F16, 1024, 32) /\ SignBit(F16) = 32768
  BY SMT DEF F16, Narrow, Shape, Sizes, SignBit, MaxExp
<1>4. Shape(BF16, 128, 256) /\ SignBit(BF16) = 32768
  BY SMT DEF BF16, Narrow, Shape, Sizes, SignBit, MaxExp
<1>5. F16 \in Halves /\ BF16 \in Halves /\ F16 # BF16
  BY <1>1, <1>2 DEF Halves
<1> QED BY <1>1, <1>2, <1>3, <1>4, <1>5

\* The shape of f16, and of bf16, for two numbers that are equal to theirs.
LEMMA HalfShapes ==
  ASSUME NEW u, NEW top
  PROVE  /\ u = 1024 /\ top = 32 => Shape(F16, u, top)
         /\ u = 128 /\ top = 256 => Shape(BF16, u, top)
<1>1. Shape(F16, 1024, 32) /\ Shape(BF16, 128, 256)
  BY HalfNumbers
<1> QED BY <1>1

\* A float in a binade of f16 or bf16.
LEMMA HalfNormal ==
  ASSUME NEW F \in Halves, NEW u \in Nat \ {0}, NEW top \in Nat \ {0}, Shape(F, u, top),
         NEW T \in 1 .. top - 2, NEW f \in Floats, f.e # 0, T - F.bias - 23 = f.e - 150,
         NEW val, val = T * u + Rounded(f.man, 23 - F.m, FALSE)
  PROVE  val \in 0 .. (top - 1) * u /\ Approximates(FloatValue(f), val, F, FALSE)
<1>1. PICK N \in Nat : /\ N = 2 ^ 23 + f.man /\ 2 ^ 23 <= N /\ N < 2 ^ 24
                       /\ FloatValue(f) = Number(N, f.e - 150)
  BY NormalFloat
<1>2. Normalised(N, T) /\ T \in 1 .. top - 1 /\ F \in NarrowFormats \cup Halves
  BY <1>1 DEF Normalised
<1>3. FALSE \in BOOLEAN /\ f.man \in Nat
  BY FloatParts
<1>4. PICK Q \in Nat, w \in Nat \ {0} :
         /\ Q = Rounded(N, 23 - F.m, FALSE) /\ Q <= 2 * u
         /\ Approximates(Number(N, T - F.bias - 23), (T - 1) * u + Q, F, FALSE)
  BY Zenon, <1>2, <1>3, NormalRounds
<1>5. PICK R : R = Rounded(f.man, 23 - F.m, FALSE)
  OBVIOUS
<1>6. Q = u + R
  BY Zenon, <1>1, <1>2, <1>3, <1>4, <1>5, SignificandSplits
<1>7. R \in Nat
  <2>1. F.m \in {1, 2, 3, 7, 10}
    BY <1>2, Shapes DEF Finer
  <2>2. PICK s \in 1 .. 25 : s = 23 - F.m
    BY <2>1
  <2>3. PICK X \in Nat : X = Rounded(f.man, s, FALSE)
    BY Zenon, <1>3, RoundedNear
  <2> QED BY Zenon, <1>5, <2>2, <2>3
<1>8. val = T * u + R /\ val = (T - 1) * u + Q
  <2>1. T * u + R = (T - 1) * u + (u + R)
    BY <1>7
  <2> QED BY Zenon, <1>5, <1>6, <2>1
<1>9. val \in 0 .. (top - 1) * u
  <2>1. T - 1 \in Nat /\ T - 1 <= top - 3 /\ top - 3 \in Int
    OBVIOUS
  <2>2. (T - 1) * u <= (top - 3) * u /\ (T - 1) * u \in Nat
    BY <2>1
  <2>3. (top - 3) * u + 2 * u = (top - 1) * u
    BY <2>1
  <2>4. Q \in Nat /\ Q <= 2 * u /\ val = (T - 1) * u + Q
    BY Zenon, <1>4, <1>8
  <2>5. PICK a, b, x, d : a = (T - 1) * u /\ b = (top - 3) * u /\ x = (top - 1) * u /\ d = 2 * u
    BY Zenon
  <2>6. /\ a <= b /\ a \in Nat /\ b + d = x /\ Q \in Nat
        /\ Q <= d /\ val = a + Q /\ b \in Int /\ d \in Int
    <3>1. (top - 3) * u \in Int /\ 2 * u \in Int
      BY <2>1
    <3> QED BY Zenon, <2>2, <2>3, <2>4, <2>5, <3>1
  <2>7. a + Q \in 0 .. x
    BY <2>6
  <2> QED BY Zenon, <2>5, <2>6, <2>7
<1> QED BY Zenon, <1>1, <1>4, <1>8, <1>9

\* The magnitude that a conversion into f16 or bf16 leaves.
HalfIs(f, F, code, mag) ==
  /\ code = f.s * SignBit(F) + mag
  /\ IsInf(f) => mag = Infinity(F)
  /\ ~IsInf(f) => Approximates(FloatValue(f), mag, F, FALSE)

\* To approximate without .rz is to be the nearest.
LEMMA NearestApproximates ==
  ASSUME NEW v, NEW mag, NEW F
  PROVE  Approximates(v, mag, F, FALSE) <=> Nearest(v, mag, F)
BY DEF Approximates

\* What f32_to_f16_rne leaves of a number but its sign.
LEMMA HalfRounds ==
  ASSUME NEW f \in Floats, ~IsNaN(f)
  PROVE  \E mag \in 0 .. Infinity(F16) : HalfIs(f, F16, HalfOf(f), mag)
<1>1. f.s \in {0, 1} /\ f.e \in 0 .. 255 /\ f.man \in Nat /\ f.man < 2 ^ 23
  BY FloatParts
<1>2. PICK t \in Int : t = f.e - 127 + 15
  BY <1>1
<1>3. f.s * SignBit(F16) \in Nat /\ Infinity(F16) = 31744
  BY <1>1, HalfNumbers
<1>4. PICK sign \in Nat : sign = f.s * SignBit(F16)
  BY <1>3
<1>5. PICK small, Q : /\ small = Rounded(f.man + 2 ^ 23, 14 - t, FALSE)
                      /\ Q = Rounded(f.man, 13, FALSE)
  BY Zenon
<1>6. CASE f.e = 255
  <2>1. f.man = 0
    BY <1>6 DEF IsNaN
  <2>2. IsInf(f) /\ HalfOf(f) = sign + Infinity(F16)
    BY <1>4, <1>6, <2>1 DEF IsInf, HalfOf
  <2>3. Infinity(F16) \in 0 .. Infinity(F16)
    BY <1>3
  <2>4. HalfIs(f, F16, HalfOf(f), Infinity(F16))
    BY Zenon, <1>4, <2>2 DEF HalfIs
  <2> QED BY Zenon, <2>3, <2>4
<1>7. CASE f.e # 255
  <2>1. ~IsInf(f)
    BY <1>7 DEF IsInf
  <2>11. \A mag : HalfOf(f) = sign + mag /\ Nearest(FloatValue(f), mag, F16)
                    => HalfIs(f, F16, HalfOf(f), mag)
    BY Zenon, <1>4, <2>1, NearestApproximates DEF HalfIs
  <2>2. HalfOf(f) = IF t >= 31 THEN sign + Infinity(F16) ELSE IF t < -10 THEN sign
                    ELSE IF t <= 0 THEN sign + small
                    ELSE sign + t * 2 ^ 10 + Q
    BY <1>2, <1>4, <1>5, <1>7 DEF HalfOf
  <2>3. F16 \in Halves /\ F16 \in NarrowFormats \cup Halves /\ Shape(F16, 1024, 32)
        /\ F16.m = 10 /\ F16.bias = 15
    BY HalfNumbers
  <2>4. PICK u \in Nat \ {0}, top \in Nat \ {0} : u = 1024 /\ top = 32
    OBVIOUS
  <2>5. Shape(F16, u, top)
    BY <2>4, HalfShapes
  <2>10. t # -112 => \E N \in Nat : /\ N = f.man + 2 ^ 23 /\ 2 ^ 23 <= N /\ N < 2 ^ 24
                                    /\ FloatValue(f) = Number(N, t - F16.bias - 23)
    <3> SUFFICES ASSUME t # -112
                 PROVE \E N \in Nat : /\ N = f.man + 2 ^ 23 /\ 2 ^ 23 <= N /\ N < 2 ^ 24
                                      /\ FloatValue(f) = Number(N, t - F16.bias - 23)
      OBVIOUS
    <3>1. f.e # 0
      BY <1>2
    <3>2. PICK N \in Nat : /\ N = 2 ^ 23 + f.man /\ 2 ^ 23 <= N /\ N < 2 ^ 24
                           /\ FloatValue(f) = Number(N, f.e - 150)
      BY <3>1, NormalFloat
    <3>3. f.e - 150 = t - F16.bias - 23 /\ 2 ^ 23 + f.man = f.man + 2 ^ 23
      BY <1>1, <1>2, <2>3
    <3> QED BY Zenon, <3>2, <3>3
  <2>6. CASE t >= 31
    <3>1. t # -112 /\ top - 1 <= t
      BY <2>4, <2>6
    <3>2. PICK N \in Nat : /\ 2 ^ 23 <= N /\ N < 2 ^ 24
                           /\ FloatValue(f) = Number(N, t - F16.bias - 23)
      BY Zenon, <2>10, <3>1
    <3>3. Nearest(Number(N, t - F16.bias - 23), Infinity(F16), F16)
      BY <2>3, <2>5, <3>1, <3>2, HalfOverflows
    <3>4. HalfOf(f) = sign + Infinity(F16)
      BY Zenon, <2>2, <2>6
    <3>5. Infinity(F16) \in 0 .. Infinity(F16)
      BY <1>3
    <3>6. HalfIs(f, F16, HalfOf(f), Infinity(F16))
      BY Zenon, <2>11, <3>2, <3>3, <3>4
    <3> QED BY Zenon, <3>5, <3>6
  <2>7. CASE t < -10
    <3>1. F16.bias < 100 /\ f.e - 127 + F16.bias < -F16.m /\ FALSE \in BOOLEAN
      BY <1>2, <2>3, <2>7
    <3>2. Approximates(FloatValue(f), 0, F16, FALSE)
      BY <2>3, <3>1, FarBelow
    <3>3. ~(t >= 31) /\ sign + 0 = sign /\ 0 \in 0 .. Infinity(F16)
      BY <1>3, <2>7
    <3>4. HalfOf(f) = sign + 0
      BY Zenon, <2>2, <2>7, <3>3
    <3>5. HalfIs(f, F16, HalfOf(f), 0)
      BY Zenon, <2>11, <3>2, <3>4, NearestApproximates
    <3> QED BY Zenon, <3>3, <3>5
  <2>8. CASE -10 <= t /\ t <= 0
    <3>1. t # -112
      BY <2>8
    <3>2. PICK N \in Nat : /\ N = f.man + 2 ^ 23 /\ 2 ^ 23 <= N /\ N < 2 ^ 24
                           /\ FloatValue(f) = Number(N, t - F16.bias - 23)
      BY Zenon, <2>10, <3>1
    <3>3. 0 < N /\ -F16.m <= t /\ t <= 0 /\ FALSE \in BOOLEAN
      BY <2>3, <2>8, <3>2
    <3>4. PICK R \in 0 .. u :
             /\ R = Rounded(N, 24 - F16.m - t, FALSE)
             /\ Approximates(Number(N, t - F16.bias - 23), R, F16, FALSE)
      BY <2>3, <2>5, <3>2, <3>3, SmallRounds
    <3>5. 24 - F16.m - t = 14 - t /\ ~(t >= 31) /\ ~(t < -10)
      BY <2>3, <2>8
    <3>6. R \in 0 .. Infinity(F16)
      BY <1>3, <2>4
    <3>7. HalfOf(f) = sign + R
      BY Zenon, <1>5, <2>2, <2>8, <3>2, <3>4, <3>5
    <3>8. HalfIs(f, F16, HalfOf(f), R)
      BY Zenon, <2>11, <3>2, <3>4, <3>7, NearestApproximates
    <3> QED BY Zenon, <3>6, <3>8
  <2>9. CASE 0 < t /\ t < 31
    <3>1. t \in 1 .. top - 2 /\ t - F16.bias - 23 = f.e - 150 /\ f.e # 0 /\ 23 - F16.m = 13
      BY <1>1, <1>2, <2>3, <2>4, <2>9
    <3>2. PICK val : val = t * u + Rounded(f.man, 23 - F16.m, FALSE)
      OBVIOUS
    <3>3. val \in 0 .. (top - 1) * u /\ Approximates(FloatValue(f), val, F16, FALSE)
      BY <2>3, <2>5, <3>1, <3>2, HalfNormal
    <3>4. val \in 0 .. Infinity(F16)
      BY <1>3, <2>4, <3>3
    <3>5. ~(t >= 31) /\ ~(t < -10) /\ ~(t <= 0)
      BY <2>9
    <3>6. HalfOf(f) = sign + t * 2 ^ 10 + Q
      BY Zenon, <2>2, <3>5
    <3>7. sign + t * 2 ^ 10 + Q = sign + val
      <4>1. Q \in Nat
        <5>1. 13 \in 1 .. 25
          OBVIOUS
        <5>2. PICK X \in Nat : X = Rounded(f.man, 13, FALSE)
          BY Zenon, <1>1, <5>1, RoundedNear
        <5> QED BY Zenon, <1>5, <5>2
      <4>2. val = t * u + Q
        BY Zenon, <1>5, <3>1, <3>2
      <4>3. 2 ^ 10 = u
        BY SMT, <2>4
      <4>4. (sign + t * u) + Q = sign + (t * u + Q)
        BY <4>1
      <4> QED BY Zenon, <4>2, <4>3, <4>4
    <3>8. HalfIs(f, F16, HalfOf(f), val)
      BY Zenon, <2>11, <3>3, <3>6, <3>7, NearestApproximates
    <3> QED BY Zenon, <3>4, <3>8
  <2> QED BY <2>6, <2>7, <2>8, <2>9
<1> QED BY Zenon, <1>6, <1>7

\* What f32_to_bf16_rne leaves of a number but its sign.
LEMMA BrainRounds ==
  ASSUME NEW f \in Floats, ~IsNaN(f)
  PROVE  \E mag \in 0 .. Infinity(BF16) : HalfIs(f, BF16, BrainOf(f), mag)
<1>1. f.s \in {0, 1} /\ f.e \in 0 .. 255 /\ f.man \in Nat /\ f.man < 2 ^ 23
  BY FloatParts
<1>2. f.s * SignBit(BF16) \in Nat /\ Infinity(BF16) = 32640
  BY <1>1, HalfNumbers
<1>3. PICK sign \in Nat : sign = f.s * SignBit(BF16)
  BY <1>2
<1>4. PICK Q \in Nat : Q = Rounded(f.man, 16, FALSE)
  <2>1. 16 \in 1 .. 25
    OBVIOUS
  <2> QED BY Zenon, <1>1, <2>1, RoundedNear
<1>5. /\ IsInf(f) => BrainOf(f) = sign + Infinity(BF16)
      /\ f.e # 255 => BrainOf(f) = sign + f.e * 2 ^ 7 + Q
  <2>1. Canonical(f)
    BY DEF Canonical
  <2>2. BrainOf(f) = FpTrunc(f, BF16)
    BY <2>1, BrainAgrees
  <2> QED BY Zenon, <1>3, <1>4, <2>2, BrainTruncated
<1>6. CASE f.e = 255
  <2>1. f.man = 0
    BY <1>6 DEF IsNaN
  <2>2. IsInf(f) /\ BrainOf(f) = sign + Infinity(BF16)
    BY Zenon, <1>5, <1>6, <2>1 DEF IsInf
  <2>3. Infinity(BF16) \in 0 .. Infinity(BF16)
    BY <1>2
  <2>4. HalfIs(f, BF16, BrainOf(f), Infinity(BF16))
    BY Zenon, <1>3, <2>2 DEF HalfIs
  <2> QED BY Zenon, <2>3, <2>4
<1>7. CASE f.e # 255
  <2>1. ~IsInf(f)
    BY <1>7 DEF IsInf
  <2>2. \A mag : BrainOf(f) = sign + mag /\ Approximates(FloatValue(f), mag, BF16, FALSE)
                   => HalfIs(f, BF16, BrainOf(f), mag)
    BY Zenon, <1>3, <2>1 DEF HalfIs
  <2>3. BF16 \in Halves /\ BF16 \in NarrowFormats \cup Halves /\ Shape(BF16, 128, 256)
        /\ BF16.m = 7 /\ BF16.bias = 127
    BY HalfNumbers
  <2>4. PICK u \in Nat \ {0}, top \in Nat \ {0} : u = 128 /\ top = 256
    OBVIOUS
  <2>5. Shape(BF16, u, top)
    BY <2>4, HalfShapes
  <2>6. BrainOf(f) = sign + (f.e * u + Q)
    <3>1. 2 ^ 7 = u
      BY SMT, <2>4
    <3>2. BrainOf(f) = sign + f.e * u + Q
      BY Zenon, <1>5, <1>7, <3>1
    <3> QED BY <1>1, <3>2
  <2>7. CASE f.e = 0 /\ f.man = 0
    <3>1. Q = 0
      <4>1. PICK q \in Nat, s \in 1 .. 25 : q = 0 /\ s = 16
        OBVIOUS
      <4>2. FALSE \in BOOLEAN
        OBVIOUS
      <4>3. Rounded(q * 2 ^ s, s, FALSE) = q
        BY Zenon, <4>2, RoundedExact
      <4>4. q * 2 ^ s = 0
        BY SMT, <4>1
      <4> QED BY Zenon, <1>4, <2>7, <4>1, <4>3, <4>4
    <3>2. FALSE \in BOOLEAN
      OBVIOUS
    <3>3. Approximates(FloatValue(f), 0, BF16, FALSE)
      BY <2>3, <2>7, <3>2, FarBelow
    <3>4. f.e * u + Q = 0 /\ 0 \in 0 .. Infinity(BF16)
      BY <1>2, <2>7, <3>1
    <3> QED BY Zenon, <2>2, <2>6, <3>3, <3>4
  <2>8. CASE f.e = 0 /\ f.man # 0
    <3>1. PICK N \in Nat, T \in 1 .. top - 1 : N = f.man /\ T = 1
      BY <1>1, <2>4
    <3>2. Normalised(N, T) /\ FALSE \in BOOLEAN
      BY <1>1, <2>8, <3>1 DEF Normalised
    <3>3. PICK R \in Nat, w \in Nat \ {0} :
             /\ R = Rounded(N, 23 - BF16.m, FALSE) /\ R <= 2 * u
             /\ Approximates(Number(N, T - BF16.bias - 23), (T - 1) * u + R, BF16, FALSE)
      BY <2>3, <2>5, <3>2, NormalRounds
    <3>4. 23 - BF16.m = 16 /\ T - BF16.bias - 23 = -149 /\ (T - 1) * u + R = R
      BY <2>3, <3>1
    <3>5. R = Q /\ FloatValue(f) = Number(N, -149)
      BY Zenon, <1>4, <2>8, <3>1, <3>3, <3>4 DEF FloatValue
    <3>6. f.e * u + R = R /\ R \in 0 .. Infinity(BF16)
      <4>1. R <= 2 * u
        BY Zenon, <3>3
      <4>3. 0 * u + R = R
        OBVIOUS
      <4>4. R \in 0 .. 256 /\ Infinity(BF16) = 32640
        BY <1>2, <2>4, <4>1
      <4>5. R \in 0 .. Infinity(BF16)
        BY <4>4
      <4>2. 0 * u + R = R /\ R \in 0 .. Infinity(BF16)
        BY <4>3, <4>5
      <4> QED BY Zenon, <2>8, <4>2
    <3>7. BrainOf(f) = sign + R
      BY Zenon, <2>6, <3>5, <3>6
    <3>8. Approximates(FloatValue(f), R, BF16, FALSE)
      BY Zenon, <3>3, <3>4, <3>5
    <3> QED BY Zenon, <2>2, <3>6, <3>7, <3>8
  <2>9. CASE f.e # 0
    <3>1. PICK T \in 1 .. top - 2 : T = f.e /\ T - BF16.bias - 23 = f.e - 150 /\ 23 - BF16.m = 16
      BY <1>1, <1>7, <2>3, <2>4, <2>9
    <3>2. PICK val : val = T * u + Rounded(f.man, 23 - BF16.m, FALSE)
      OBVIOUS
    <3>3. val \in 0 .. (top - 1) * u /\ Approximates(FloatValue(f), val, BF16, FALSE)
      <4>1. BF16 \in Halves
        BY <2>3
      <4> QED BY Zenon, <2>5, <2>9, <3>1, <3>2, <4>1, HalfNormal
    <3>4. val \in 0 .. Infinity(BF16)
      BY <1>2, <2>4, <3>3
    <3>5. val = f.e * u + Q
      BY Zenon, <1>4, <3>1, <3>2
    <3> QED BY Zenon, <2>2, <2>6, <3>3, <3>4, <3>5
  <2> QED BY <2>7, <2>8, <2>9
<1> QED BY Zenon, <1>6, <1>7

\* f16 and bf16 together.
LEMMA HalfOrBrainRounds ==
  ASSUME NEW F \in Halves, NEW f \in Floats, ~IsNaN(f)
  PROVE  \E mag \in 0 .. Infinity(F) : HalfIs(f, F, HalfOrBrain(f, F), mag)
<1>1. CASE F = F16
  BY Zenon, <1>1, HalfRounds DEF HalfOrBrain
<1>2. CASE F = BF16
  <2>1. BF16 # F16
    BY HalfNumbers
  <2> QED BY Zenon, <1>2, <2>1, BrainRounds DEF HalfOrBrain
<1> QED BY Zenon, <1>1, <1>2 DEF Halves

\* A conversion of one float to f16 or bf16.
LEMMA SingleRight ==
  ASSUME NEW c, c.to \in Halves, ~Has(c, "rz"), ~Has(c, "relu"), NEW f \in Floats, Canonical(f)
  PROVE  NarrowedRight(f, ISingle(f, c), c)
<1>1. PICK F \in Halves : F = c.to
  OBVIOUS
<1>2. PICK sign \in Nat \ {0} : /\ SignBit(F) = sign /\ F.nan \in 0 .. sign - 1
                                /\ Infinity(F) \in 0 .. sign - 1
  <2>1. F = F16 \/ F = BF16
    BY DEF Halves
  <2> QED BY <2>1, HalfNumbers
<1>3. PICK code : code = HalfOrBrain(f, F)
  OBVIOUS
<1>4. ISingle(f, c) = code
  BY Zenon, <1>1, <1>3 DEF ISingle
<1>5. f.s \in {0, 1}
  BY FloatParts
<1>6. ~F.nanToMax /\ Highest(F) = Infinity(F)
  BY FormatsApart DEF Highest
<1>7. NarrowedRight(f, code, c) <=>
         IF IsNaN(f) THEN code % sign = F.nan
         ELSE /\ code % sign # 0 => code \div sign = f.s
              /\ IF IsInf(f) THEN code % sign = Infinity(F)
                 ELSE code % sign <= Infinity(F)
                      /\ Approximates(FloatValue(f), code % sign, F, FALSE)
  BY Zenon, <1>1, <1>2, <1>6, NearestApproximates DEF NarrowedRight
<1>8. CASE IsNaN(f)
  <2>1. code = FpTrunc(f, F)
    BY Zenon, <1>3, TruncAgrees
  <2>2. FpTrunc(f, F) = f.s * sign + F.nan
    BY Zenon, <1>2, <1>8 DEF FpTrunc
  <2>3. code % sign = F.nan
    <3>1. (f.s * sign + F.nan) % sign = F.nan
      BY <1>2, <1>5, Signed
    <3> QED BY Zenon, <2>1, <2>2, <3>1
  <2> QED BY Zenon, <1>4, <1>7, <1>8, <2>3
<1>9. CASE ~IsNaN(f)
  <2>1. PICK mag \in 0 .. Infinity(F) : HalfIs(f, F, code, mag)
    BY Zenon, <1>3, <1>9, HalfOrBrainRounds
  <2>2. mag \in 0 .. sign - 1 /\ mag <= Infinity(F)
    BY <1>2
  <2>3. code = f.s * sign + mag
    BY Zenon, <1>2, <2>1 DEF HalfIs
  <2>4. code % sign = mag /\ code \div sign = f.s
    BY Zenon, <1>5, <2>2, <2>3, Signed
  <2>5. (IsInf(f) => mag = Infinity(F))
        /\ (~IsInf(f) => Approximates(FloatValue(f), mag, F, FALSE))
    BY Zenon, <2>1 DEF HalfIs
  <2> QED BY Zenon, <1>4, <1>7, <1>9, <2>2, <2>4, <2>5
<1> QED BY <1>8, <1>9

-----------------------------------------------------------------------------
(* The numbers of a code and of its float.                                 *)
\* f is the number S * 2^K, its significand shifted by a places.
Stands(f, s, S, a, K) ==
  /\ f \in Floats /\ f.s = s /\ f.e \in 1 .. 254
  /\ 2 ^ 23 + f.man = S * 2 ^ a /\ a + f.e - 150 = K

\* A float stands for the number that its significand gives.
LEMMA StandsForSame ==
  ASSUME NEW f, NEW s, NEW S \in Nat, 0 < S, S < 2 ^ 24, NEW a \in 0 .. 25, NEW K \in Int,
         Stands(f, s, S, a, K)
  PROVE  Same(Number(S, K), FloatValue(f)) /\ ~IsInf(f) /\ ~IsNaN(f) /\ f.s = s
<1>1. f \in Floats /\ f.s = s /\ f.e \in 1 .. 254 /\ a + f.e - 150 = K
  BY DEF Stands
<1>2. PICK N \in Nat : /\ N = 2 ^ 23 + f.man /\ 2 ^ 23 <= N /\ N < 2 ^ 24
                       /\ FloatValue(f) = Number(N, f.e - 150)
  BY <1>1, NormalFloat
<1>3. PICK w \in Nat \ {0} : w = 2 ^ a
  <2>1. a \in 0 .. 30
    OBVIOUS
  <2> QED BY Zenon, <2>1, PowerStep
<1>4. S * w = N
  BY Zenon, <1>2, <1>3 DEF Stands
<1>5. PICK k \in Int : k = f.e - 150 /\ K = k + a
  BY <1>1
<1>6. 0 < N /\ N < 2 ^ 24 /\ S * w < 2 ^ 30
  BY <1>2, <1>4
<1>7. /\ Less(Number(N, k), Number(S, k + a)) <=> N < S * w
      /\ Less(Number(S, k + a), Number(N, k)) <=> S * w < N
  BY Zenon, <1>3, <1>6, Compared
<1>8. ~(N < S * w) /\ ~(S * w < N)
  BY <1>4
<1>9. Same(Number(S, K), Number(N, k))
  BY Zenon, <1>5, <1>7, <1>8 DEF Same
<1>10. ~IsInf(f) /\ ~IsNaN(f)
  BY <1>1 DEF IsInf, IsNaN
<1> QED BY Zenon, <1>1, <1>2, <1>5, <1>9, <1>10

\* A code with an exponent other than 0.
LEMMA NormalNumber ==
  ASSUME NEW F \in NarrowFormats \cup Halves, NEW u \in Nat \ {0}, NEW top \in Nat \ {0},
         Shape(F, u, top), F.bias <= 15, top <= 32,
         NEW s \in {0, 1}, NEW e \in 1 .. top - 1, NEW man \in 0 .. u - 1
  PROVE  Stands(Normal(s, e, man, F), s, u + man, 23 - F.m, e - F.bias - F.m)
<1>1. F.m \in 1 .. 10 /\ F.bias \in 1 .. 15
  <2>1. F.m \in {1, 2, 3, 7, 10} /\ F.bias \in {1, 3, 7, 15, 127}
    BY Shapes DEF Finer
  <2> QED BY <2>1
<1>2. PICK x \in 1 .. 254 : x = e - F.bias + 127
  BY <1>1
<1>3. PICK z \in Nat \ {0} : z = 2 ^ (23 - F.m) /\ u * z = 2 ^ 23
  <2>1. PICK m \in Nat, b \in Nat : /\ m = F.m /\ b = 23 - F.m
                                    /\ m + b = 23 /\ m + b <= 31 /\ b \in 0 .. 30
    BY <1>1
  <2>2. 2 ^ m = u
    BY Zenon, <2>1 DEF Shape
  <2>3. u * 2 ^ b = 2 ^ 23
    BY Zenon, <2>1, <2>2, PowerSum
  <2>4. 2 ^ b \in Nat \ {0}
    BY Zenon, <2>1, PowerStep
  <2> QED BY Zenon, <2>1, <2>3, <2>4
<1>4. PICK y \in Nat : y = man * z
  OBVIOUS
<1>5. y < 2 ^ 23 /\ 2 ^ 23 + y = (u + man) * z
  <2>1. (u + man) * z = u * z + y
    BY <1>4
  <2>2. (u - man) * z > 0 /\ (u - man) * z = u * z - y
    BY <1>4
  <2> QED BY <1>3, <2>1, <2>2
<1>6. y \in 0 .. 2 ^ 23 - 1
  BY <1>5
<1>7. PICK f : f = Float(s, x, y)
  OBVIOUS
<1>8. Normal(s, e, man, F) = f
  BY Zenon, <1>2, <1>3, <1>4, <1>7 DEF Normal
<1>9. f.s = s /\ f.e = x /\ f.man = y
  BY <1>7 DEF Float
<1>10. f \in Floats
  <2>1. x \in 0 .. 255
    OBVIOUS
  <2> QED BY <1>6, <1>7, <2>1 DEF Floats, Float
<1>11. (23 - F.m) + x - 150 = e - F.bias - F.m
  BY <1>1, <1>2
<1> QED BY Zenon, <1>3, <1>5, <1>8, <1>9, <1>10, <1>11 DEF Stands

\* A fraction shifted until its leading one is in place.
LEMMA LiftedNumber ==
  ASSUME NEW F \in NarrowFormats \cup Halves, NEW u \in Nat \ {0}, NEW top \in Nat \ {0},
         Shape(F, u, top), F.bias <= 15, NEW s \in {0, 1}, NEW man \in 1 .. u - 1
  PROVE  \E j \in 1 .. F.m :
           /\ j = F.m - Log2(man)
           /\ Stands(Lifted(s, man, F.m - Log2(man), F), s, man, 23 - F.m + j, 1 - F.bias - F.m)
<1>1. F.m \in 1 .. 10 /\ F.bias \in 1 .. 15
  <2>1. F.m \in {1, 2, 3, 7, 10} /\ F.bias \in {1, 3, 7, 15, 127}
    BY Shapes DEF Finer
  <2> QED BY <2>1
<1>2. PICK m \in 1 .. 10 : m = F.m
  BY <1>1
<1>3. u = 2 ^ m /\ u \in {2, 4, 8, 128, 1024}
  BY Zenon, <1>2 DEF Shape, Sizes
<1>4. man \in Nat /\ 0 < man /\ man < 2 ^ 24 /\ man < u /\ m \in 0 .. 30
  BY <1>3
<1>5. Log2(man) \in 0 .. 23 /\ Log2(man) < m
  <2>1. u = 2 ^ m
    BY Zenon, <1>3
  <2> QED BY Zenon, <1>4, <2>1, Log2Below
<1>6. PICK L \in 0 .. m - 1 : L = Log2(man)
  BY <1>5
<1>7. 2 ^ L <= man /\ man < 2 ^ (L + 1)
  BY Zenon, <1>4, <1>6, Log2Is
<1>8. PICK j \in 1 .. m : j = m - L /\ L + j = m /\ j \in Nat /\ L \in Nat /\ L + j <= 31
                         /\ j \in 0 .. 30 /\ L \in 0 .. 30
  OBVIOUS
<1>9. PICK p, q \in Nat \ {0} : p = 2 ^ j /\ q = 2 ^ L
  BY Zenon, <1>8, PowerStep
<1>10. q * p = u /\ 2 ^ (L + 1) = 2 * q
  <2>1. 2 ^ (L + j) = 2 ^ L * 2 ^ j
    BY Zenon, <1>8, PowerSum
  <2>2. 2 ^ (L + 1) = 2 * 2 ^ L
    BY Zenon, <1>8, PowerStep
  <2> QED BY Zenon, <1>3, <1>8, <1>9, <2>1, <2>2
<1>11. q <= man /\ man < 2 * q
  BY Zenon, <1>7, <1>9, <1>10
<1>12. PICK r \in 0 .. u - 1 : man * p = 1 * u + r
  <2>1. (man - q) * p >= 0 /\ (man - q) * p = man * p - q * p
    BY <1>11
  <2>2. (2 * q - man) * p > 0 /\ (2 * q - man) * p = 2 * (q * p) - man * p
    BY <1>11
  <2>3. man * p >= u /\ man * p < 2 * u /\ man * p \in Nat
    BY <1>10, <2>1, <2>2
  <2>4. PICK x \in Nat : x = man * p
    BY <2>3
  <2>5. x - u \in 0 .. u - 1 /\ x = 1 * u + (x - u)
    BY <2>3, <2>4
  <2> QED BY Zenon, <2>4, <2>5
<1>13. (man * p) % u = r
  <2>1. 1 \in Nat
    OBVIOUS
  <2>2. (1 * u + r) % u = r
    BY Zenon, <2>1, Parts
  <2> QED BY Zenon, <1>12, <2>2
<1>14. PICK b \in Nat : b = 23 - F.m /\ b = 23 - m /\ m + b = 23 /\ m + b <= 31 /\ m \in Nat
                        /\ b \in 0 .. 30 /\ b + j <= 31 /\ b + j \in 0 .. 25
  BY <1>2
<1>15. PICK z \in Nat \ {0} : z = 2 ^ b /\ u * z = 2 ^ 23 /\ 2 ^ (b + j) = z * p
  <2>1. 2 ^ m * 2 ^ b = 2 ^ 23
    BY Zenon, <1>14, PowerSum
  <2>2. 2 ^ b \in Nat \ {0}
    BY Zenon, <1>14, PowerStep
  <2>3. 2 ^ (b + j) = 2 ^ b * 2 ^ j
    BY Zenon, <1>8, <1>14, PowerSum
  <2> QED BY Zenon, <1>3, <1>9, <2>1, <2>2, <2>3
<1>16. PICK y \in Nat : y = r * z
  OBVIOUS
<1>17. y < 2 ^ 23 /\ 2 ^ 23 + y = man * (z * p)
  <2>1. (u - r) * z > 0 /\ (u - r) * z = u * z - y
    BY <1>16
  <2>2. man * (z * p) = (man * p) * z
    OBVIOUS
  <2>3. (1 * u + r) * z = u * z + y
    BY <1>16
  <2>4. man * (z * p) = u * z + y
    BY Zenon, <1>12, <2>2, <2>3
  <2> QED BY <1>15, <2>1, <2>4
<1>18. y \in 0 .. 2 ^ 23 - 1
  BY <1>17
<1>19. PICK x \in 1 .. 254 : x = 127 - F.bias + 1 - j
  BY <1>1
<1>20. PICK f : f = Float(s, x, y)
  OBVIOUS
<1>21. j = F.m - Log2(man)
  BY Zenon, <1>2, <1>6, <1>8
<1>22. Lifted(s, man, F.m - Log2(man), F) = f
  <2>1. Lifted(s, man, j, F) = f
    BY Zenon, <1>2, <1>3, <1>9, <1>13, <1>14, <1>15, <1>16, <1>19, <1>20 DEF Lifted
  <2> QED BY Zenon, <1>21, <2>1
<1>23. f.s = s /\ f.e = x /\ f.man = y
  BY <1>20 DEF Float
<1>24. f \in Floats
  <2>1. x \in 0 .. 255
    OBVIOUS
  <2> QED BY <1>18, <1>20, <2>1 DEF Floats, Float
<1>25. (b + j) + x - 150 = 1 - F.bias - F.m
  BY <1>1, <1>14, <1>19
<1>26. Stands(f, s, man, b + j, 1 - F.bias - F.m)
  BY Zenon, <1>15, <1>17, <1>23, <1>24, <1>25 DEF Stands
<1> QED BY Zenon, <1>2, <1>14, <1>21, <1>22, <1>26

\* The patterns that are no numbers: those behind the largest number.
Infinite(bits, F) == F.nan # 0 /\ ~TopNormal(F) /\ bits = Infinity(F)
NoNumber(bits, F) == F.nan # 0 /\ bits > F.max

Patterns(bits, e, man, F) ==
  /\ (e = MaxExp(F) /\ F.nan # 0 /\ ~TopNormal(F) /\ man = 0) <=> Infinite(bits, F)
  /\ (e = MaxExp(F) /\ F.nan # 0 /\ (man = AllMant(F) \/ ~TopNormal(F))) <=> NoNumber(bits, F)
  /\ Infinite(bits, F) => bits > F.max

\* The top binade tells which patterns are no numbers.
LEMMA TopPatterns ==
  ASSUME NEW F \in NarrowFormats, NEW bits \in 0 .. SignBit(F) - 1, NEW e, NEW man,
         e = bits \div 2 ^ F.m, man = bits % 2 ^ F.m
  PROVE  Patterns(bits, e, man, F)
<1>1. CASE F = E4M3
  BY SMT, <1>1 DEF E4M3, Narrow, SignBit, MaxExp, TopNormal, ExpField, AllMant, Patterns,
                   Infinite, NoNumber, Infinity
<1>2. CASE F = E5M2
  BY SMT, <1>2 DEF E5M2, Narrow, SignBit, MaxExp, TopNormal, ExpField, AllMant, Patterns,
                   Infinite, NoNumber, Infinity
<1>3. CASE F = E3M2
  BY SMT, <1>3 DEF E3M2, Narrow, SignBit, MaxExp, TopNormal, ExpField, AllMant, Patterns,
                   Infinite, NoNumber, Infinity
<1>4. CASE F = E2M3
  BY SMT, <1>4 DEF E2M3, Narrow, SignBit, MaxExp, TopNormal, ExpField, AllMant, Patterns,
                   Infinite, NoNumber, Infinity
<1>5. CASE F = E2M1
  BY SMT, <1>5 DEF E2M1, Narrow, SignBit, MaxExp, TopNormal, ExpField, AllMant, Patterns,
                   Infinite, NoNumber, Infinity
<1> QED BY <1>1, <1>2, <1>3, <1>4, <1>5 DEF NarrowFormats

\* The fields of a code are those of its magnitude.
CodeParts(code, F, u, s, bits, e, man) ==
  /\ s = code \div SignBit(F) /\ bits = code % SignBit(F)
  /\ (code >= SignBit(F)) = (s = 1)
  /\ e = ExpField(code, F) /\ man = Fraction(code, F)
  /\ bits = e * u + man /\ e = bits \div u /\ man = bits % u

\* The parts of a code.
LEMMA CodeFields ==
  ASSUME NEW F \in NarrowFormats \cup Halves, NEW u \in Nat \ {0}, NEW top \in Nat \ {0},
         Shape(F, u, top), NEW code \in 0 .. 2 ^ F.width - 1
  PROVE  \E s \in {0, 1}, bits \in 0 .. SignBit(F) - 1, e \in 0 .. top - 1, man \in 0 .. u - 1 :
           CodeParts(code, F, u, s, bits, e, man)
<1>1. PICK sign \in Nat \ {0} : sign = SignBit(F) /\ sign = top * u /\ 2 ^ F.width = 2 * sign
  <2>1. top * u \in Nat \ {0}
    OBVIOUS
  <2> QED BY Zenon, <2>1 DEF Shape
<1>2. code \in 0 .. 2 * sign - 1
  BY Zenon, <1>1
<1>3. PICK s \in {0, 1}, bits \in 0 .. sign - 1 :
         s = code \div sign /\ bits = code % sign /\ code = s * sign + bits
         /\ (code >= sign) = (s = 1)
  <2>1. CASE code < sign
    <3>1. /\ 0 * sign + code = code /\ code \in 0 .. sign - 1
          /\ 0 \in Nat /\ 0 \in {0, 1} /\ ~(code >= sign)
      BY <1>2, <2>1
    <3>2. code \div sign = 0 /\ code % sign = code
      BY Zenon, <3>1, Parts
    <3> QED BY <3>1, <3>2
  <2>2. CASE code >= sign
    <3>1. PICK b \in 0 .. sign - 1 : code = 1 * sign + b
      <4>1. code - sign \in 0 .. sign - 1 /\ code = 1 * sign + (code - sign)
        BY <1>2, <2>2
      <4> QED BY <4>1
    <3>2. 1 \in Nat /\ 1 \in {0, 1}
      OBVIOUS
    <3>3. code \div sign = 1 /\ code % sign = b
      BY Zenon, <3>1, <3>2, Parts
    <3> QED BY <2>2, <3>1, <3>2, <3>3
  <2> QED BY <1>2, <2>1, <2>2
<1>4. PICK e \in Nat, man \in 0 .. u - 1 :
         e = bits \div u /\ man = bits % u /\ bits = e * u + man
  <2>1. bits \in Nat
    OBVIOUS
  <2> QED BY Zenon, <2>1, DivideBy
<1>5. e \in 0 .. top - 1
  <2> SUFFICES ASSUME e >= top PROVE FALSE
    OBVIOUS
  <2>1. (e - top) * u >= 0 /\ (e - top) * u = e * u - top * u
    OBVIOUS
  <2> QED BY <1>1, <1>4, <2>1
<1>6. code = (s * top + e) * u + man /\ s * top + e \in Nat
  <2>1. s * (top * u) + (e * u + man) = (s * top + e) * u + man
    OBVIOUS
  <2>2. s * top + e \in Nat
    OBVIOUS
  <2> QED BY Zenon, <1>1, <1>3, <1>4, <2>1, <2>2
<1>7. code \div u = s * top + e /\ code % u = man
  BY Zenon, <1>6, Parts
<1>8. (s * top + e) % top = e
  <2>1. s \in Nat
    OBVIOUS
  <2> QED BY Zenon, <1>5, <2>1, Parts
<1>9. ExpField(code, F) = e /\ Fraction(code, F) = man
  BY Zenon, <1>7, <1>8 DEF ExpField, Fraction, Shape
<1> QED BY Zenon, <1>1, <1>3, <1>4, <1>5, <1>9 DEF CodeParts

\* A number of at most 11 bits, and its float.
Significands == 1 .. 2047
StandsForCode(f, s, bits, F) ==
  \E S \in Significands, a \in 0 .. 25, K \in Int :
    /\ Stands(f, s, S, a, K)
    /\ CodeValue(bits, F) = Number(S, K) /\ a >= 23 - F.m

\* The number of a normal or subnormal pattern.
LEMMA NormalStands ==
  ASSUME NEW F \in NarrowFormats \cup Halves, NEW u \in Nat \ {0}, NEW top \in Nat \ {0},
         Shape(F, u, top), F.bias <= 15, top <= 32,
         NEW s \in {0, 1}, NEW e \in 1 .. top - 1, NEW man \in 0 .. u - 1
  PROVE  StandsForCode(Normal(s, e, man, F), s, e * u + man, F)
<1>1. F.m \in 1 .. 10 /\ F.bias \in 1 .. 15
  <2>1. F.m \in {1, 2, 3, 7, 10} /\ F.bias \in {1, 3, 7, 15, 127}
    BY Shapes DEF Finer
  <2> QED BY <2>1
<1>2. u \in {2, 4, 8, 128, 1024}
  BY Zenon DEF Shape, Sizes
<1>3. PICK S \in Significands : S = u + man /\ S >= u /\ S \in 0 .. 2 * u - 1
  <2>1. u + man \in Significands
    BY <1>2 DEF Significands
  <2> QED BY <1>2, <2>1
<1>4. PICK a \in 0 .. 25 : a = 23 - F.m /\ a >= 23 - F.m
  BY <1>1
<1>5. PICK K \in Int : K = e - F.bias - F.m
  BY <1>1
<1>6. Stands(Normal(s, e, man, F), s, S, a, K)
  <2>1. Stands(Normal(s, e, man, F), s, u + man, 23 - F.m, e - F.bias - F.m)
    BY Zenon, NormalNumber
  <2>2. u + man = S /\ 23 - F.m = a /\ e - F.bias - F.m = K
    BY <1>3, <1>4, <1>5
  <2> QED BY Zenon, <2>1, <2>2
<1>7. CodeValue(e * u + man, F) = Number(S, K)
  <2>1. PICK c : c = (e - 1) * u + S /\ c = (e - 1) * u + (u + man)
    BY <1>3
  <2>2. CodeValue(c, F) = Number(S, e - F.bias - F.m)
    BY <1>3, <2>1, ValueIs DEF Significands
  <2>3. (e - 1) * u + (u + man) = e * u + man
    OBVIOUS
  <2> QED BY Zenon, <1>5, <2>1, <2>2, <2>3
<1> QED BY Zenon, <1>3, <1>4, <1>6, <1>7 DEF StandsForCode

\* The same for a subnormal pattern.
LEMMA LiftedStands ==
  ASSUME NEW F \in NarrowFormats \cup Halves, NEW u \in Nat \ {0}, NEW top \in Nat \ {0},
         Shape(F, u, top), F.bias <= 15, NEW s \in {0, 1}, NEW man \in 1 .. u - 1
  PROVE  StandsForCode(Lifted(s, man, F.m - Log2(man), F), s, man, F)
<1>1. F.m \in 1 .. 10 /\ F.bias \in 1 .. 15
  <2>1. F.m \in {1, 2, 3, 7, 10} /\ F.bias \in {1, 3, 7, 15, 127}
    BY Shapes DEF Finer
  <2> QED BY <2>1
<1>2. u \in {2, 4, 8, 128, 1024} /\ top \in {4, 8, 16, 32, 256}
  BY Zenon DEF Shape, Sizes
<1>3. man \in Significands /\ man \in 0 .. 2 * u - 1
  BY <1>2 DEF Significands
<1>4. PICK j \in 1 .. F.m :
         Stands(Lifted(s, man, F.m - Log2(man), F), s, man, 23 - F.m + j, 1 - F.bias - F.m)
  BY LiftedNumber
<1>5. PICK a \in 0 .. 25 : a = 23 - F.m + j /\ a >= 23 - F.m
  BY <1>1
<1>6. PICK K \in Int : K = 1 - F.bias - F.m
  BY <1>1
<1>7. Stands(Lifted(s, man, F.m - Log2(man), F), s, man, a, K)
  BY Zenon, <1>4, <1>5, <1>6
<1>8. CodeValue(man, F) = Number(man, K)
  <2>1. PICK T \in 1 .. top - 1 : T = 1
    BY <1>2
  <2>2. man = (T - 1) * u + man
    BY <2>1
  <2>3. CodeValue(man, F) = Number(man, T - F.bias - F.m)
    BY <1>3, <2>1, <2>2, ValueIs
  <2> QED BY Zenon, <1>6, <2>1, <2>3
<1> QED BY Zenon, <1>3, <1>5, <1>7, <1>8 DEF StandsForCode

-----------------------------------------------------------------------------
(* Widening loses nothing.                                                 *)
\* Q is what f's significand leaves when s places are dropped, with nothing lost.
Kept(f, S, K, s, Q, z) ==
  /\ z = 2 ^ s /\ Q * z = 2 ^ 23 + f.man /\ Q = Rounded(2 ^ 23 + f.man, s, FALSE)
  /\ Same(Number(S, K), Number(Q, f.e - 150 + s))

\* A float with few significant bits loses none when rounded to more.
LEMMA NothingLost ==
  ASSUME NEW f, NEW sg, NEW S \in Significands, NEW a \in 20 .. 25, NEW K \in Int,
         Stands(f, sg, S, a, K), NEW s \in 1 .. 20
  PROVE  \E Q \in Nat, z \in Nat \ {0} : Kept(f, S, K, s, Q, z)
<1>1. f \in Floats /\ f.e \in 1 .. 254 /\ a + f.e - 150 = K
  BY Zenon DEF Stands
<1>2. PICK N \in Nat : N = 2 ^ 23 + f.man /\ 2 ^ 23 <= N /\ N < 2 ^ 24
  <2>1. f.e # 0
    BY <1>1
  <2> QED BY <1>1, <2>1, NormalFloat
<1>3. PICK b \in 0 .. 25 : b = a - s /\ s + b = a /\ s + b <= 31 /\ b \in Nat /\ s \in Nat
                           /\ b \in 0 .. 30 /\ s \in 0 .. 30
  OBVIOUS
<1>4. PICK z, w \in Nat \ {0} : z = 2 ^ s /\ w = 2 ^ b
  BY Zenon, <1>3, PowerStep
<1>5. 2 ^ a = z * w
  BY Zenon, <1>3, <1>4, PowerSum
<1>6. S * (z * w) = N
  BY Zenon, <1>2, <1>5 DEF Stands
<1>7. S \in Nat /\ 0 < S /\ S < 2 ^ 24
  BY DEF Significands
<1>8. PICK Q \in Nat : Q = S * w
  BY <1>7
<1>9. Q * z = N /\ Q <= N /\ 0 < Q
  <2>1. (S * w) * z = S * (z * w)
    BY <1>7
  <2>2. Q * z = N
    BY Zenon, <1>6, <1>8, <2>1
  <2>3. Q * (z - 1) >= 0 /\ Q * (z - 1) = Q * z - Q
    OBVIOUS
  <2>4. Q # 0
    <3>1. N # 0 /\ 0 * z = 0
      BY <1>2
    <3> QED BY Zenon, <2>2, <3>1
  <2> QED BY <2>2, <2>3, <2>4
<1>10. Rounded(Q * 2 ^ s, s, FALSE) = Q
  <2>1. s \in 1 .. 25 /\ FALSE \in BOOLEAN
    OBVIOUS
  <2> QED BY Zenon, <2>1, RoundedExact
<1>11. Q = Rounded(2 ^ 23 + f.man, s, FALSE)
  BY Zenon, <1>2, <1>4, <1>9, <1>10
<1>12. PICK l \in Int : l = f.e - 150 + s /\ K = l + b
  BY <1>1, <1>3
<1>13. 0 < Q /\ Q < 2 ^ 24 /\ S * w < 2 ^ 30
  BY <1>2, <1>8, <1>9
<1>14. /\ Less(Number(Q, l), Number(S, l + b)) <=> Q < S * w
       /\ Less(Number(S, l + b), Number(Q, l)) <=> S * w < Q
  BY Zenon, <1>4, <1>7, <1>13, Compared
<1>15. ~(Q < S * w) /\ ~(S * w < Q)
  BY <1>8
<1>16. Same(Number(S, K), Number(Q, l))
  BY Zenon, <1>12, <1>14, <1>15 DEF Same
<1> QED BY Zenon, <1>2, <1>4, <1>9, <1>11, <1>12, <1>16 DEF Kept

\* The code stands for the very number, which is neither 0 nor infinite.
SameInHalf(S, K, G, mag) ==
  mag \in Nat /\ 0 < mag /\ mag < Infinity(G) /\ Same(Number(S, K), CodeValue(mag, G))

\* val is the code of f in binade T of the format.
CodeInHalf(f, G, u, top, T, val) ==
  /\ Shape(G, u, top) /\ Infinity(G) = (top - 1) * u /\ G.m \in {7, 10}
  /\ T - G.bias - 23 = f.e - 150 /\ val = T * u + Rounded(f.man, 23 - G.m, FALSE)

\* Such a float in a binade of f16 or bf16.
LEMMA ExactInBinade ==
  ASSUME NEW G \in Halves, NEW u \in Nat \ {0}, NEW top \in Nat \ {0},
         NEW f, NEW sg, NEW S \in Significands, NEW a \in 20 .. 25, NEW K \in Int,
         Stands(f, sg, S, a, K), NEW T \in 1 .. top - 2, NEW val,
         CodeInHalf(f, G, u, top, T, val)
  PROVE  SameInHalf(S, K, G, val)
<1>20. /\ Shape(G, u, top) /\ Infinity(G) = (top - 1) * u /\ G.m \in {7, 10}
       /\ T - G.bias - 23 = f.e - 150 /\ val = T * u + Rounded(f.man, 23 - G.m, FALSE)
  BY Zenon DEF CodeInHalf
<1>1. G \in NarrowFormats \cup Halves /\ FALSE \in BOOLEAN /\ T \in 1 .. top - 1
  OBVIOUS
<1>2. PICK s \in 1 .. 20 : s = 23 - G.m /\ G.m = 23 - s /\ G.m \in 0 .. 30
  BY <1>20
<1>3. PICK Q \in Nat, z \in Nat \ {0} : Kept(f, S, K, s, Q, z)
  BY Zenon, NothingLost
<1>17. PICK N : N = 2 ^ 23 + f.man
  OBVIOUS
<1>18. /\ z = 2 ^ s /\ Q = Rounded(2 ^ 23 + f.man, s, FALSE)
       /\ Same(Number(S, K), Number(Q, f.e - 150 + s))
  BY Zenon, <1>3 DEF Kept
<1>19. Q * z = N
  BY Zenon, <1>3, <1>17 DEF Kept
<1>4. f \in Floats /\ f.e \in 1 .. 254
  BY Zenon DEF Stands
<1>5. f.man \in Nat /\ 2 ^ 23 + f.man < 2 ^ 24
  BY <1>4, FloatParts
<1>6. Q = u + Rounded(f.man, 23 - G.m, FALSE)
  BY Zenon, <1>1, <1>2, <1>18, <1>20, <1>5, SignificandSplits
<1>7. u * z = 2 ^ 23
  <2>1. PICK m \in Nat : m = G.m /\ s \in Nat /\ m + s = 23 /\ m + s <= 31
    BY <1>2
  <2>2. 2 ^ m * 2 ^ s = 2 ^ 23
    BY Zenon, <2>1, PowerSum
  <2>3. 2 ^ m = u
    BY Zenon, <1>20, <2>1 DEF Shape
  <2> QED BY Zenon, <1>18, <2>2, <2>3
<1>8. Q < 2 * u
  <2> SUFFICES ASSUME Q >= 2 * u PROVE FALSE
    OBVIOUS
  <2>1. (Q - 2 * u) * z >= 0 /\ (Q - 2 * u) * z = Q * z - 2 * (u * z)
    OBVIOUS
  <2>2. N < 2 ^ 24
    BY <1>5, <1>17
  <2> QED BY <1>7, <1>19, <2>1, <2>2
<1>9. PICK R : R = Rounded(f.man, 23 - G.m, FALSE)
  OBVIOUS
<1>10. R \in Nat
  <2>1. s \in 1 .. 25
    OBVIOUS
  <2>2. PICK X \in Nat : X = Rounded(f.man, s, FALSE)
    BY Zenon, <1>5, <2>1, RoundedNear
  <2> QED BY Zenon, <1>2, <1>9, <2>2
<1>11. Q = u + R /\ val = T * u + R
  BY Zenon, <1>6, <1>9, <1>20
<1>12. val = (T - 1) * u + Q
  <2>1. T * u + R = (T - 1) * u + (u + R)
    BY <1>10
  <2> QED BY Zenon, <1>11, <2>1
<1>13. Q \in 0 .. 2 * u - 1 /\ Q >= u
  BY <1>8, <1>10, <1>11
<1>14. CodeValue(val, G) = Number(Q, T - G.bias - G.m)
  <2>1. PICK t \in 1 .. top - 1 : t = T
    OBVIOUS
  <2>2. PICK v : v = (t - 1) * u + Q
    OBVIOUS
  <2>3. CodeValue(v, G) = Number(Q, t - G.bias - G.m)
    BY <1>1, <1>13, <1>20, <2>2, ValueIs
  <2>4. v = val
    BY Zenon, <1>12, <2>1, <2>2
  <2> QED BY Zenon, <2>1, <2>3, <2>4
<1>15. T - G.bias - G.m = f.e - 150 + s
  <2>1. G.bias \in Int /\ G.m \in Int
    BY <1>1, <1>20, ShapeNumbers
  <2> QED BY <1>2, <1>4, <1>20, <2>1
<1>16. val \in Nat /\ 0 < val /\ val < Infinity(G)
  <2>1. (T - 1) * u <= (top - 3) * u /\ (T - 1) * u \in Nat /\ top - 3 \in Int
    OBVIOUS
  <2>2. (top - 3) * u + 2 * u = (top - 1) * u
    OBVIOUS
  <2>3. PICK p, q, x : p = (T - 1) * u /\ q = (top - 3) * u /\ x = (top - 1) * u
    OBVIOUS
  <2>4. p <= q /\ p \in Nat /\ q + 2 * u = x /\ val = p + Q /\ Infinity(G) = x
    BY Zenon, <1>12, <1>20, <2>1, <2>2, <2>3
  <2>5. q \in Int /\ x \in Int /\ 2 * u \in Int
    BY <2>3
  <2>6. Q < 2 * u /\ 0 < Q
    BY <1>8, <1>13
  <2>7. PICK v : v = p + Q
    OBVIOUS
  <2>8. v \in Nat /\ 0 < v /\ v < x
    BY <2>4, <2>5, <2>6, <2>7
  <2>9. v = val
    BY Zenon, <2>4, <2>7
  <2> QED BY Zenon, <2>4, <2>8, <2>9
<1> QED BY Zenon, <1>18, <1>14, <1>15, <1>16 DEF SameInHalf

\* A narrow format's number is one of f16 too, subnormal at worst.
LEMMA ExactHalf ==
  ASSUME NEW f, NEW sg, NEW S \in Significands, NEW a \in 20 .. 25, NEW K \in Int,
         Stands(f, sg, S, a, K), f.e \in 111 .. 142
  PROVE  \E mag \in Nat : HalfOf(f) = sg * SignBit(F16) + mag /\ SameInHalf(S, K, F16, mag)
<1>1. f \in Floats /\ f.s = sg
  BY Zenon DEF Stands
<1>2. f.s \in {0, 1} /\ f.man \in Nat
  BY <1>1, FloatParts
<1>3. PICK sign \in Nat : sign = sg * SignBit(F16)
  BY <1>1, <1>2, HalfNumbers
<1>4. PICK t \in -1 .. 30 : t = f.e - 127 + 15 /\ ~(t >= 31) /\ ~(t < -10) /\ f.e # 255
  OBVIOUS
<1>5. PICK small, Q : /\ small = Rounded(f.man + 2 ^ 23, 14 - t, FALSE)
                      /\ Q = Rounded(f.man, 13, FALSE)
  BY Zenon
<1>6. HalfOf(f) = IF t >= 31 THEN sign + Infinity(F16) ELSE IF t < -10 THEN sign
                  ELSE IF t <= 0 THEN sign + small
                  ELSE sign + t * 2 ^ 10 + Q
  BY <1>1, <1>3, <1>4, <1>5 DEF HalfOf
<1>7. HalfOf(f) = IF t <= 0 THEN sign + small ELSE sign + t * 2 ^ 10 + Q
  BY Zenon, <1>4, <1>6
<1>8. F16 \in Halves /\ F16 \in NarrowFormats \cup Halves /\ Shape(F16, 1024, 32)
      /\ F16.m = 10 /\ F16.bias = 15
  BY HalfNumbers
<1>13. Infinity(F16) = 31744
  BY HalfNumbers
<1>9. PICK u \in Nat \ {0}, top \in Nat \ {0} : u = 1024 /\ top = 32
  OBVIOUS
<1>10. Shape(F16, u, top)
  BY <1>9, HalfShapes
<1>11. CASE t <= 0
  <2>1. PICK s \in {14, 15} : s = 14 - t /\ s \in 1 .. 20
    BY <1>4, <1>11
  <2>2. PICK q \in Nat, z \in Nat \ {0} : Kept(f, S, K, s, q, z)
    BY Zenon, <2>1, NothingLost
  <2>3. 2 ^ 23 + f.man = f.man + 2 ^ 23
    BY <1>2
  <2>4. q = small
    BY Zenon, <1>5, <2>1, <2>2, <2>3 DEF Kept
  <2>5. PICK N \in Nat : N = 2 ^ 23 + f.man /\ 2 ^ 23 <= N /\ N < 2 ^ 24
    <3>1. f.e # 0
      OBVIOUS
    <3> QED BY <1>1, <3>1, NormalFloat
  <2>6. q * z = N
    BY Zenon, <2>2, <2>5 DEF Kept
  <2>7. z \in {16384, 32768}
    <3>1. PICK x, y : x = 2 ^ 14 /\ y = 2 ^ 15 /\ x = 16384 /\ y = 32768
      <4>1. 2 ^ 14 = 16384 /\ 2 ^ 15 = 32768
        BY SMT
      <4> QED BY SMT, <4>1
    <3>2. z = 2 ^ s
      BY Zenon, <2>2 DEF Kept
    <3>3. x = 2 ^ 14 /\ y = 2 ^ 15
      BY <3>1
    <3>4. z = x \/ z = y
      BY Zenon, <2>1, <3>2, <3>3
    <3>5. x = 16384 /\ y = 32768
      BY <3>1
    <3> QED BY <3>4, <3>5
  <2>8. q \in 0 .. 1023 /\ 0 < q
    BY <2>5, <2>6, <2>7
  <2>9. CodeValue(q, F16) = Number(q, -24)
    <3>1. PICK T \in 1 .. top - 1 : T = 1
      BY <1>9
    <3>2. q \in 0 .. 2 * u - 1 /\ q = (T - 1) * u + q
      BY <1>9, <2>8, <3>1
    <3>3. CodeValue(q, F16) = Number(q, T - F16.bias - F16.m)
      BY <1>8, <1>10, <3>1, <3>2, ValueIs
    <3>4. T - F16.bias - F16.m = -24
      BY <1>8, <3>1
    <3> QED BY Zenon, <3>3, <3>4
  <2>10. f.e - 150 + s = -24
    BY <1>4, <2>1
  <2>11. Same(Number(S, K), CodeValue(q, F16))
    BY Zenon, <2>2, <2>9, <2>10 DEF Kept
  <2>12. q < Infinity(F16)
    BY <1>13, <2>8
  <2> QED BY Zenon, <1>3, <1>7, <1>11, <2>4, <2>8, <2>11, <2>12 DEF SameInHalf
<1>12. CASE ~(t <= 0)
  <2>1. t \in 1 .. top - 2 /\ t - F16.bias - 23 = f.e - 150 /\ 23 - F16.m = 13
    BY <1>4, <1>8, <1>9, <1>12
  <2>2. Infinity(F16) = (top - 1) * u /\ F16.m \in {7, 10}
    BY <1>8, <1>9, <1>13
  <2>3. PICK val : val = t * u + Rounded(f.man, 23 - F16.m, FALSE)
    OBVIOUS
  <2>4. SameInHalf(S, K, F16, val)
    <3>1. CodeInHalf(f, F16, u, top, t, val)
      BY Zenon, <1>10, <2>1, <2>2, <2>3 DEF CodeInHalf
    <3>2. F16 \in Halves
      BY HalfNumbers
    <3> QED BY Zenon, <2>1, <3>1, <3>2, ExactInBinade
  <2>5. HalfOf(f) = sign + t * 2 ^ 10 + Q
    BY Zenon, <1>7, <1>12
  <2>6. sign + t * 2 ^ 10 + Q = sign + val
    <3>1. Q \in Nat
      <4>1. 13 \in 1 .. 25
        OBVIOUS
      <4>2. PICK X \in Nat : X = Rounded(f.man, 13, FALSE)
        BY Zenon, <1>2, <4>1, RoundedNear
      <4> QED BY Zenon, <1>5, <4>2
    <3>2. val = t * u + Q
      BY Zenon, <1>5, <2>1, <2>3
    <3>3. 2 ^ 10 = u
      BY SMT, <1>9
    <3>4. (sign + t * u) + Q = sign + (t * u + Q)
      BY <3>1
    <3> QED BY Zenon, <3>2, <3>3, <3>4
  <2>7. val \in Nat
    BY Zenon, <2>4 DEF SameInHalf
  <2> QED BY Zenon, <1>3, <2>4, <2>5, <2>6, <2>7
<1> QED BY <1>11, <1>12

\* And one of bf16.
LEMMA ExactBrain ==
  ASSUME NEW f, NEW sg, NEW S \in Significands, NEW a \in 20 .. 25, NEW K \in Int,
         Stands(f, sg, S, a, K)
  PROVE  \E mag \in Nat : BrainOf(f) = sg * SignBit(BF16) + mag /\ SameInHalf(S, K, BF16, mag)
<1>1. f \in Floats /\ f.s = sg /\ f.e \in 1 .. 254
  BY Zenon DEF Stands
<1>2. f.s \in {0, 1} /\ f.man \in Nat
  BY <1>1, FloatParts
<1>3. PICK sign \in Nat : sign = sg * SignBit(BF16)
  BY <1>1, <1>2, HalfNumbers
<1>4. PICK Q \in Nat : Q = Rounded(f.man, 16, FALSE)
  <2>1. 16 \in 1 .. 25
    OBVIOUS
  <2> QED BY Zenon, <1>2, <2>1, RoundedNear
<1>5. BrainOf(f) = sign + f.e * 2 ^ 7 + Q
  <2>1. f.e # 255 /\ ~IsNaN(f)
    BY <1>1 DEF IsNaN
  <2>2. Canonical(f)
    BY <2>1 DEF Canonical
  <2>3. BrainOf(f) = FpTrunc(f, BF16)
    BY <1>1, <2>2, BrainAgrees
  <2> QED BY Zenon, <1>1, <1>3, <1>4, <2>1, <2>3, BrainTruncated
<1>6. BF16 \in Halves /\ BF16 \in NarrowFormats \cup Halves /\ Shape(BF16, 128, 256)
      /\ BF16.m = 7 /\ BF16.bias = 127
  BY HalfNumbers
<1>14. Infinity(BF16) = 32640
  BY HalfNumbers
<1>7. PICK u \in Nat \ {0}, top \in Nat \ {0} : u = 128 /\ top = 256
  OBVIOUS
<1>8. Shape(BF16, u, top)
  BY <1>7, HalfShapes
<1>9. PICK T \in 1 .. top - 2 : T = f.e /\ T - BF16.bias - 23 = f.e - 150 /\ 23 - BF16.m = 16
  BY <1>1, <1>6, <1>7
<1>10. Infinity(BF16) = (top - 1) * u /\ BF16.m \in {7, 10}
  BY <1>6, <1>7, <1>14
<1>11. PICK val : val = T * u + Rounded(f.man, 23 - BF16.m, FALSE)
  OBVIOUS
<1>12. SameInHalf(S, K, BF16, val) /\ val \in Nat
  <2>1. CodeInHalf(f, BF16, u, top, T, val)
    BY Zenon, <1>8, <1>9, <1>10, <1>11 DEF CodeInHalf
  <2>2. BF16 \in Halves
    BY HalfNumbers
  <2>3. SameInHalf(S, K, BF16, val)
    BY Zenon, <2>1, <2>2, ExactInBinade
  <2> QED BY Zenon, <2>3 DEF SameInHalf
<1>13. BrainOf(f) = sign + val
  <2>1. val = f.e * u + Q
    BY Zenon, <1>4, <1>9, <1>11
  <2>2. 2 ^ 7 = u
    BY SMT, <1>7
  <2>3. (sign + f.e * u) + Q = sign + (f.e * u + Q)
    BY <1>1
  <2> QED BY Zenon, <1>5, <2>1, <2>2, <2>3
<1> QED BY Zenon, <1>3, <1>12, <1>13 DEF SameInHalf

\* Both together.
LEMMA ExactHalfOrBrain ==
  ASSUME NEW G \in Halves, NEW f, NEW sg, NEW S \in Significands, NEW a \in 20 .. 25, NEW K \in Int,
         Stands(f, sg, S, a, K), f.e \in 111 .. 142
  PROVE  \E mag \in Nat : HalfOrBrain(f, G) = sg * SignBit(G) + mag /\ SameInHalf(S, K, G, mag)
<1>1. CASE G = F16
  BY Zenon, <1>1, ExactHalf DEF HalfOrBrain
<1>2. CASE G = BF16
  <2>1. BF16 # F16
    BY HalfNumbers
  <2> QED BY Zenon, <1>2, <2>1, ExactBrain DEF HalfOrBrain
<1> QED BY Zenon, <1>1, <1>2 DEF Halves

NarrowExps == 111 .. 142

\* The numbers of the narrow formats lie in these binades of f32.
LEMMA NarrowBinades ==
  ASSUME NEW F \in NarrowFormats
  PROVE  /\ \A e \in 1 .. MaxExp(F) :
              ~(e = MaxExp(F) /\ F.nan # 0 /\ ~TopNormal(F)) => e - F.bias + 127 \in NarrowExps
         /\ \A j \in 1 .. F.m : 127 - F.bias + 1 - j \in NarrowExps
         /\ MaxExp(F) \in 1 .. 31
<1>1. CASE F = E4M3
  BY SMT, <1>1 DEF E4M3, Narrow, MaxExp, TopNormal, ExpField, NarrowExps
<1>2. CASE F = E5M2
  BY SMT, <1>2 DEF E5M2, Narrow, MaxExp, TopNormal, ExpField, NarrowExps
<1>3. CASE F = E3M2
  BY SMT, <1>3 DEF E3M2, Narrow, MaxExp, TopNormal, ExpField, NarrowExps
<1>4. CASE F = E2M3
  BY SMT, <1>4 DEF E2M3, Narrow, MaxExp, TopNormal, ExpField, NarrowExps
<1>5. CASE F = E2M1
  BY SMT, <1>5 DEF E2M1, Narrow, MaxExp, TopNormal, ExpField, NarrowExps
<1> QED BY <1>1, <1>2, <1>3, <1>4, <1>5 DEF NarrowFormats

\* What the decoding of a code with the sign s and the other bits makes.
DecodedAs(f, s, bits, F) ==
  /\ NoNumber(bits, F) /\ ~Infinite(bits, F) => IsNaN(f)
  /\ Infinite(bits, F) => f = Float(s, 255, 0)
  /\ bits = 0 => f = Float(s, 0, 0)
  /\ bits # 0 /\ ~NoNumber(bits, F) => StandsForCode(f, s, bits, F) /\ f.e \in NarrowExps

\* narrow_to_f32 decodes every code so.
LEMMA NarrowDecoded ==
  ASSUME NEW F \in NarrowFormats, NEW code \in 0 .. 2 ^ F.width - 1
  PROVE  \E s \in {0, 1}, bits \in 0 .. SignBit(F) - 1 :
           /\ bits = code % SignBit(F) /\ (code >= SignBit(F)) = (s = 1)
           /\ DecodedAs(Decode(code, F), s, bits, F)
<1>1. F \in NarrowFormats \cup Halves
  OBVIOUS
<1>2. PICK u \in Nat \ {0}, top \in Nat \ {0} : Shape(F, u, top)
  BY Zenon, <1>1, Shapes
<1>3. F.bias <= 15 /\ top <= 32 /\ MaxExp(F) = top - 1 /\ F.m \in 1 .. 3
  <2>1. F.bias \in {1, 3, 7, 15} /\ F.m \in {1, 2, 3}
    BY FormatFacts
  <2>2. MaxExp(F) = top - 1
    BY Zenon, <1>2 DEF Shape
  <2>3. MaxExp(F) <= 31
    BY NarrowBinades
  <2> QED BY <2>1, <2>2, <2>3
<1>18. PICK s \in {0, 1}, bits \in 0 .. SignBit(F) - 1, e \in 0 .. top - 1, man \in 0 .. u - 1 :
         CodeParts(code, F, u, s, bits, e, man)
  BY Zenon, <1>1, <1>2, CodeFields
<1>4.    /\ s = code \div SignBit(F) /\ bits = code % SignBit(F)
         /\ (code >= SignBit(F)) = (s = 1)
         /\ e = ExpField(code, F) /\ man = Fraction(code, F)
         /\ bits = e * u + man /\ e = bits \div u /\ man = bits % u
  BY Zenon, <1>18 DEF CodeParts
<1>5. PICK f, lifted, nan, normal :
        /\ f = Decode(code, F) /\ lifted = Lifted(s, man, F.m - Log2(man), F)
        /\ nan = Float(s, 255, 2 ^ 22) /\ normal = Normal(s, e, man, F)
  OBVIOUS
<1>19. f = IF e = 0 /\ man = 0 THEN Float(s, 0, 0)
          ELSE IF e = 0 THEN lifted
          ELSE IF e = MaxExp(F) /\ F.nan # 0 /\ ~TopNormal(F) /\ man = 0 THEN Float(s, 255, 0)
          ELSE IF e = MaxExp(F) /\ F.nan # 0 /\ (man = AllMant(F) \/ ~TopNormal(F))
          THEN nan ELSE normal
  <2>1. s = code \div SignBit(F) /\ e = ExpField(code, F) /\ man = Fraction(code, F)
    BY Zenon, <1>4
  <2> QED BY Zenon, <1>5, <2>1 DEF Decode
<1> DEFINE infinity == e = MaxExp(F) /\ F.nan # 0 /\ ~TopNormal(F) /\ man = 0
           empty == e = MaxExp(F) /\ F.nan # 0 /\ (man = AllMant(F) \/ ~TopNormal(F))
<1>6. /\ infinity <=> e = MaxExp(F) /\ F.nan # 0 /\ ~TopNormal(F) /\ man = 0
      /\ empty <=> e = MaxExp(F) /\ F.nan # 0 /\ (man = AllMant(F) \/ ~TopNormal(F))
  OBVIOUS
<1>7. f = IF e = 0 /\ man = 0 THEN Float(s, 0, 0)
          ELSE IF e = 0 THEN lifted
          ELSE IF infinity THEN Float(s, 255, 0)
          ELSE IF empty THEN nan ELSE normal
  BY Zenon, <1>19
<1> HIDE DEF infinity, empty
<1>8. e = bits \div 2 ^ F.m /\ man = bits % 2 ^ F.m
  BY Zenon, <1>2, <1>4 DEF Shape
<1>9. (infinity <=> Infinite(bits, F)) /\ (empty <=> NoNumber(bits, F))
      /\ (Infinite(bits, F) => NoNumber(bits, F))
  <2>1. Patterns(bits, e, man, F)
    BY Zenon, <1>8, TopPatterns
  <2>2. Infinite(bits, F) => NoNumber(bits, F)
    BY Zenon, <2>1 DEF Infinite, NoNumber, Patterns
  <2> QED BY Zenon, <1>6, <2>1, <2>2 DEF Patterns
<1>10. (bits = 0) <=> (e = 0 /\ man = 0)
  <2>1. PICK p : p = e * u /\ p >= 0 /\ (e # 0 => p > 0) /\ (e = 0 => p = 0) /\ p \in Int
    OBVIOUS
  <2>2. bits = p + man
    BY Zenon, <1>4, <2>1
  <2> QED BY <2>1, <2>2
<1>11. e # 0 => MaxExp(F) # 0 /\ e \in 1 .. top - 1
  BY <1>3
<1>12. infinity \/ empty => e # 0
  <2>1. MaxExp(F) # 0
    BY NarrowBinades
  <2> QED BY Zenon, <1>6, <2>1
<1>13. CASE e = 0 /\ man = 0
  <2>1. f = Float(s, 0, 0) /\ bits = 0 /\ ~infinity /\ ~empty
    BY Zenon, <1>7, <1>10, <1>12, <1>13
  <2>2. DecodedAs(f, s, bits, F)
    BY Zenon, <1>9, <2>1 DEF DecodedAs
  <2> QED BY Zenon, <1>4, <1>5, <2>2
<1>14. CASE e = 0 /\ man # 0
  <2>1. f = lifted /\ bits # 0 /\ ~infinity /\ ~empty
    BY Zenon, <1>7, <1>10, <1>12, <1>14
  <2>2. man \in 1 .. u - 1 /\ bits = man
    <3>1. bits = e * u + man
      BY Zenon, <1>4
    <3>2. 0 * u + man = man
      OBVIOUS
    <3>3. man \in 1 .. u - 1
      BY <1>14
    <3> QED BY Zenon, <1>14, <3>1, <3>2, <3>3
  <2>3. StandsForCode(lifted, s, man, F)
    <3>1. StandsForCode(Lifted(s, man, F.m - Log2(man), F), s, man, F)
      BY <1>1, <1>2, <1>3, <2>2, LiftedStands
    <3> QED BY Zenon, <1>5, <3>1
  <2>4. lifted.e \in NarrowExps
    <3>1. PICK j \in 1 .. F.m : j = F.m - Log2(man)
      BY <1>1, <1>2, <1>3, <2>2, LiftedNumber
    <3>2. lifted = Lifted(s, man, j, F)
      BY Zenon, <1>5, <3>1
    <3>3. lifted.e = 127 - F.bias + 1 - j
      BY Zenon, <3>2 DEF Lifted, Float
    <3>4. 127 - F.bias + 1 - j \in NarrowExps
      BY Zenon, <3>1, NarrowBinades
    <3> QED BY Zenon, <3>3, <3>4
  <2>5. DecodedAs(f, s, bits, F)
    BY Zenon, <1>9, <2>1, <2>2, <2>3, <2>4 DEF DecodedAs
  <2> QED BY Zenon, <1>4, <1>5, <2>5
<1>15. CASE e # 0 /\ infinity
  <2>1. f = Float(s, 255, 0) /\ bits # 0 /\ NoNumber(bits, F)
    BY Zenon, <1>7, <1>9, <1>10, <1>15
  <2>2. DecodedAs(f, s, bits, F)
    BY Zenon, <1>9, <1>15, <2>1 DEF DecodedAs
  <2> QED BY Zenon, <1>4, <1>5, <2>2
<1>16. CASE e # 0 /\ ~infinity /\ empty
  <2>1. f = nan /\ bits # 0 /\ NoNumber(bits, F) /\ ~Infinite(bits, F)
    BY Zenon, <1>7, <1>9, <1>10, <1>16
  <2>2. IsNaN(nan)
    BY SMT, <1>5 DEF IsNaN, Float
  <2>3. DecodedAs(f, s, bits, F)
    BY Zenon, <2>1, <2>2 DEF DecodedAs
  <2> QED BY Zenon, <1>4, <1>5, <2>3
<1>17. CASE e # 0 /\ ~infinity /\ ~empty
  <2>1. f = normal /\ bits # 0 /\ ~NoNumber(bits, F) /\ ~Infinite(bits, F)
    BY Zenon, <1>7, <1>9, <1>10, <1>17
  <2>2. e \in 1 .. top - 1
    BY <1>17
  <2>3. StandsForCode(normal, s, bits, F)
    <3>1. StandsForCode(Normal(s, e, man, F), s, e * u + man, F)
      BY <1>1, <1>2, <1>3, <2>2, NormalStands
    <3> QED BY Zenon, <1>4, <1>5, <3>1
  <2>4. normal.e \in NarrowExps
    <3>1. e \in 1 .. MaxExp(F)
      BY <1>3, <2>2
    <3>2. ~(e = MaxExp(F) /\ F.nan # 0 /\ ~TopNormal(F))
      BY Zenon, <1>6, <1>17
    <3>3. normal.e = e - F.bias + 127
      BY Zenon, <1>5 DEF Normal, Float
    <3>4. e - F.bias + 127 \in NarrowExps
      BY Zenon, <3>1, <3>2, NarrowBinades
    <3> QED BY Zenon, <3>3, <3>4
  <2>5. DecodedAs(f, s, bits, F)
    BY Zenon, <2>1, <2>3, <2>4 DEF DecodedAs
  <2> QED BY Zenon, <1>4, <1>5, <2>5
<1> QED BY Zenon, <1>6, <1>13, <1>14, <1>15, <1>16, <1>17

\* Zero keeps its sign.
LEMMA ZeroInHalf ==
  ASSUME NEW G \in Halves, NEW s \in {0, 1}
  PROVE  HalfOrBrain(Float(s, 0, 0), G) = s * SignBit(G)
<1>5. PICK f : f = Float(s, 0, 0)
  OBVIOUS
<1>1. f = Float(s, 0, 0) /\ f.s = s /\ f.e = 0 /\ f.man = 0
  BY <1>5 DEF Float
<1>2. SignBit(F16) = 32768 /\ SignBit(BF16) = 32768
  BY HalfNumbers
<1>6. F16 # BF16
  BY HalfNumbers
<1>3. HalfOf(f) = s * SignBit(F16)
  <2>1. PICK t \in Int : t = f.e - 127 + 15
    BY <1>1
  <2>2. PICK small, Q, sign : /\ small = Rounded(f.man + 2 ^ 23, 14 - t, FALSE)
                              /\ Q = Rounded(f.man, 13, FALSE) /\ sign = f.s * SignBit(F16)
    BY Zenon
  <2>5. f.e # 255
    BY <1>1
  <2>3. HalfOf(f) = IF t >= 31 THEN sign + Infinity(F16) ELSE IF t < -10 THEN sign
                    ELSE IF t <= 0 THEN sign + small
                    ELSE sign + t * 2 ^ 10 + Q
    BY <2>1, <2>2, <2>5 DEF HalfOf
  <2>4. ~(t >= 31) /\ t < -10
    BY <1>1, <2>1
  <2> QED BY Zenon, <1>1, <2>2, <2>3, <2>4
<1>4. BrainOf(f) = s * SignBit(BF16)
  <2>1. CASE s = 0
    BY SMT, <1>1, <1>2, <2>1 DEF BrainOf
  <2>2. CASE s = 1
    BY SMT, <1>1, <1>2, <2>2 DEF BrainOf
  <2> QED BY <2>1, <2>2
<1> QED BY Zenon, <1>5, <1>6, <1>3, <1>4 DEF Halves, HalfOrBrain

\* The patterns of f16 and bf16 that are needed, with the sign's place a name.
LEMMA HalfPatterns ==
  ASSUME NEW G \in Halves
  PROVE  \E sign \in Nat \ {0} :
           /\ SignBit(G) = sign /\ G.nan \in 0 .. sign - 1 /\ Infinity(G) \in 0 .. sign - 1
           /\ Infinity(G) = G.max + 1 /\ G.max \in Nat
<1>1. G = F16 \/ G = BF16
  BY DEF Halves
<1>2. G.max \in Nat /\ Infinity(G) = G.max + 1
  BY <1>1 DEF F16, BF16, Narrow, Infinity
<1> QED BY <1>1, <1>2, HalfNumbers

\* The parts of WidenedRight.
Widened(bits, negative, F, r, sign, G, relu) ==
  IF NoNumber(bits, F) /\ ~Infinite(bits, F) THEN r % sign = G.nan
  ELSE IF relu /\ negative /\ bits # 0 THEN r = 0
  ELSE /\ (r >= sign) = negative
       /\ IF Infinite(bits, F) THEN r % sign = Infinity(G)
          ELSE r % sign <= G.max /\ Same(CodeValue(bits, F), CodeValue(r % sign, G))

\* WidenedRight in those parts.
LEMMA WidenedParts ==
  ASSUME NEW c, NEW code, NEW F, NEW r
  PROVE  WidenedRight(code, F, r, c)
           <=> Widened(code % SignBit(F), code >= SignBit(F), F, r, SignBit(c.to), c.to,
                       Has(c, "relu"))
BY Zenon DEF WidenedRight, Widened, NoNumber, Infinite

\* A code with a sign of its own.
LEMMA SignOfCode ==
  ASSUME NEW sign \in Nat \ {0}, NEW s \in {0, 1}, NEW mag \in 0 .. sign - 1
  PROVE  (s * sign + mag) % sign = mag /\ (s * sign + mag >= sign) = (s = 1)
<1>1. (s * sign + mag) % sign = mag
  BY Zenon, Signed
<1>2. CASE s = 0
  <2>1. s * sign + mag = mag
    BY <1>2
  <2> QED BY <1>1, <1>2, <2>1
<1>3. CASE s = 1
  <2>1. s * sign + mag = sign + mag
    BY <1>3
  <2> QED BY <1>1, <1>3, <2>1
<1> QED BY <1>2, <1>3

\* 0 is the same number in all formats.
LEMMA ZerosSame ==
  ASSUME NEW F, NEW G, 2 ^ F.m \in Nat \ {0}, 2 ^ G.m \in Nat \ {0},
         2 ^ F.e \in Nat \ {0}, 2 ^ G.e \in Nat \ {0}
  PROVE  Same(CodeValue(0, F), CodeValue(0, G))
<1>1. ASSUME NEW H, 2 ^ H.m \in Nat \ {0}, 2 ^ H.e \in Nat \ {0}
      PROVE  CodeValue(0, H) = Number(0, 1 - H.bias - H.m)
  <2>1. PICK u \in Nat \ {0}, top \in Nat \ {0} : u = 2 ^ H.m /\ top = 2 ^ H.e
    BY Zenon, <1>1
  <2>2. 0 \div u = 0 /\ 0 % u = 0 /\ 0 % top = 0
    OBVIOUS
  <2>3. ExpField(0, H) = 0 /\ Fraction(0, H) = 0
    BY Zenon, <2>1, <2>2 DEF ExpField, Fraction
  <2> QED BY Zenon, <2>3 DEF CodeValue
<1>2. CodeValue(0, F) = Number(0, 1 - F.bias - F.m) /\ CodeValue(0, G) = Number(0, 1 - G.bias - G.m)
  BY Zenon, <1>1
<1> QED BY Zenon, <1>2, NothingBelowZero DEF Same

\* A widening of the interpreter keeps the number of any byte.
LEMMA WidenRight ==
  ASSUME NEW c, c.from \in NarrowFormats, c.to \in Halves, NEW x \in Nat
  PROVE  WidenedRight(Unpack(x, c.from), c.from, IWiden(x, c), c)
<1>1. PICK F \in NarrowFormats, G \in Halves : F = c.from /\ G = c.to
  OBVIOUS
<1>2. PICK code \in 0 .. 2 ^ F.width - 1 : code = Unpack(x, F)
  <2>1. PICK p, w : p = 2 ^ F.shift /\ w = 2 ^ F.width
    OBVIOUS
  <2>2. p \in Nat \ {0}
    <3>1. F.shift \in {0, 2}
      BY DEF NarrowFormats, E4M3, E5M2, E3M2, E2M3, E2M1, Narrow
    <3>2. 2 ^ 0 = 1 /\ 2 ^ 2 = 4
      BY SMT
    <3>3. p = 1 \/ p = 4
      BY Zenon, <2>1, <3>1, <3>2
    <3> QED BY <3>3
  <2>3. w \in Nat /\ w > 0
    BY <2>1, FormatFacts DEF Powers
  <2>4. (x \div p) % w \in 0 .. w - 1
    <3>1. PICK d \in Nat : d = x \div p
      BY <2>2
    <3> QED BY <2>3, <3>1
  <2>5. Unpack(x, F) \in 0 .. 2 ^ F.width - 1
    BY Zenon, <2>1, <2>4 DEF Unpack
  <2> QED BY Zenon, <2>5
<1>3. PICK f : f = Decode(code, F)
  OBVIOUS
<1>4. f \in Floats /\ Canonical(f)
  BY Zenon, <1>3, DecodeAgrees
<1>5. PICK s \in {0, 1}, bits \in 0 .. SignBit(F) - 1 :
        /\ bits = code % SignBit(F) /\ (code >= SignBit(F)) = (s = 1)
        /\ DecodedAs(f, s, bits, F)
  BY Zenon, <1>3, NarrowDecoded
<1>6. PICK sign \in Nat \ {0} :
        /\ SignBit(G) = sign /\ G.nan \in 0 .. sign - 1 /\ Infinity(G) \in 0 .. sign - 1
        /\ Infinity(G) = G.max + 1 /\ G.max \in Nat
  BY Zenon, HalfPatterns
<1>7. PICK relu \in BOOLEAN : relu = Has(c, "relu")
  BY DEF Has
<1>8. PICK g, r : /\ g = IF relu /\ IsNaN(f) THEN QuietNaN
                         ELSE IF relu /\ Below0(f) THEN Zero ELSE f
                  /\ r = HalfOrBrain(g, G)
  OBVIOUS
<1>9. IWiden(x, c) = r
  BY Zenon, <1>1, <1>2, <1>3, <1>7, <1>8 DEF IWiden
<1>10. SUFFICES Widened(bits, s = 1, F, r, sign, G, relu)
  BY Zenon, <1>1, <1>2, <1>5, <1>6, <1>7, <1>9, WidenedParts
<1>11. Infinite(bits, F) => NoNumber(bits, F) /\ bits # 0
  <2>1. PICK u \in {2, 4, 8}, h \in {8, 32, 128} :
          Powers(F, u, h, MaxExp(F)) /\ F.max \in 0 .. h - 1
    BY FormatFacts
  <2>2. Infinite(bits, F) => F.nan # 0 /\ bits = F.max + 1
    BY Zenon DEF Infinite, Infinity
  <2> QED BY <2>1, <2>2 DEF NoNumber
<1>12. CASE NoNumber(bits, F) /\ ~Infinite(bits, F)
  <2>1. IsNaN(f)
    BY Zenon, <1>5, <1>12 DEF DecodedAs
  <2>2. ~Below0(f)
    BY Zenon, <2>1 DEF Below0
  <2>3. QuietNaN \in Floats /\ IsNaN(QuietNaN) /\ Canonical(QuietNaN)
    <3>1. QuietNaN.s = 0 /\ QuietNaN.e = 255 /\ QuietNaN.man = 2 ^ 22
      BY Zenon DEF QuietNaN, Float
    <3>2. PICK n : n = 2 ^ 22 /\ n # 0 /\ n \in 0 .. 2 ^ 23 - 1
      BY SMT
    <3>3. QuietNaN \in Floats
      <4>1. 0 \in {0, 1} /\ 255 \in 0 .. 255
        OBVIOUS
      <4> QED BY <3>2, <4>1 DEF Floats, QuietNaN, Float
    <3> QED BY Zenon, <3>1, <3>2, <3>3 DEF IsNaN, Canonical
  <2>4. g \in Floats /\ IsNaN(g) /\ Canonical(g)
    BY Zenon, <1>4, <1>8, <2>1, <2>2, <2>3
  <2>5. r = FpTrunc(g, G)
    BY Zenon, <1>8, <2>4, TruncAgrees
  <2>6. r = g.s * sign + G.nan
    BY Zenon, <1>6, <2>4, <2>5 DEF FpTrunc
  <2>7. g.s \in {0, 1}
    BY <2>4, FloatParts
  <2>8. r % sign = G.nan
    BY Zenon, <1>6, <2>6, <2>7, Signed
  <2> QED BY Zenon, <1>12, <2>8 DEF Widened
<1>13. CASE bits = 0 /\ ~NoNumber(bits, F)
  <2>1. f = Float(s, 0, 0)
    BY Zenon, <1>5, <1>13 DEF DecodedAs
  <2>2. ~IsNaN(f) /\ IsZero(f)
    BY <2>1 DEF IsNaN, IsZero, Float
  <2>3. g = f
    BY Zenon, <1>8, <2>2 DEF Below0
  <2>4. r = s * sign
    BY Zenon, <1>6, <1>8, <2>1, <2>3, ZeroInHalf
  <2>5. 0 \in 0 .. sign - 1 /\ s * sign = s * sign + 0 /\ 0 <= G.max
    BY <1>6
  <2>6. r % sign = 0 /\ (r >= sign) = (s = 1)
    <3>1. (s * sign + 0) % sign = 0 /\ (s * sign + 0 >= sign) = (s = 1)
      BY Zenon, <2>5, SignOfCode
    <3>2. s * sign + 0 = r
      BY Zenon, <2>4, <2>5
    <3> QED BY Zenon, <3>1, <3>2
  <2>7. Same(CodeValue(0, F), CodeValue(0, G))
    <3>1. ASSUME NEW H \in NarrowFormats \cup Halves
          PROVE  2 ^ H.m \in Nat \ {0} /\ 2 ^ H.e \in Nat \ {0}
      <4>1. PICK u \in Nat \ {0}, top \in Nat \ {0} : Shape(H, u, top)
        BY Zenon, Shapes
      <4> QED BY Zenon, <4>1 DEF Shape
    <3>2. F \in NarrowFormats \cup Halves /\ G \in NarrowFormats \cup Halves
      OBVIOUS
    <3> QED BY Zenon, <3>1, <3>2, ZerosSame
  <2>8. ~Infinite(bits, F) /\ bits = 0
    BY Zenon, <1>11, <1>13
  <2> QED BY Zenon, <1>13, <2>5, <2>6, <2>7, <2>8 DEF Widened
<1>14. CASE Infinite(bits, F)
  <2>1. f = Float(s, 255, 0)
    BY Zenon, <1>5, <1>14 DEF DecodedAs
  <2>2. IsInf(f) /\ ~IsNaN(f) /\ ~IsZero(f) /\ f.s = s
    BY <2>1 DEF IsInf, IsNaN, IsZero, Float
  <2>3. CASE relu /\ s = 1
    <3>1. g = Float(0, 0, 0)
      BY Zenon, <1>8, <2>2, <2>3 DEF Below0, Zero
    <3>2. 0 \in {0, 1} /\ 0 * sign = 0
      OBVIOUS
    <3>3. r = 0
      BY Zenon, <1>6, <1>8, <3>1, <3>2, ZeroInHalf
    <3> QED BY Zenon, <1>11, <1>14, <2>3, <3>3 DEF Widened
  <2>4. CASE ~(relu /\ s = 1)
    <3>1. g = f
      BY Zenon, <1>8, <2>2, <2>4 DEF Below0
    <3>2. PICK mag \in 0 .. Infinity(G) : HalfIs(f, G, r, mag)
      BY Zenon, <1>4, <1>8, <2>2, <3>1, HalfOrBrainRounds
    <3>3. mag = Infinity(G) /\ r = s * sign + mag
      BY Zenon, <1>6, <2>2, <3>2 DEF HalfIs
    <3>4. r % sign = mag /\ (r >= sign) = (s = 1)
      BY Zenon, <1>6, <3>3, SignOfCode
    <3> QED BY Zenon, <1>11, <1>14, <2>4, <3>3, <3>4 DEF Widened
  <2> QED BY <2>3, <2>4
<1>15. CASE bits # 0 /\ ~NoNumber(bits, F)
  <2>1. StandsForCode(f, s, bits, F) /\ f.e \in NarrowExps
    BY Zenon, <1>5, <1>15 DEF DecodedAs
  <2>2. PICK S \in Significands, a \in 0 .. 25, K \in Int :
          Stands(f, s, S, a, K) /\ CodeValue(bits, F) = Number(S, K) /\ a >= 23 - F.m
    BY Zenon, <2>1 DEF StandsForCode
  <2>3. a \in 20 .. 25
    <3>1. F.m \in {1, 2, 3}
      BY FormatFacts
    <3> QED BY <2>2, <3>1
  <2>4. f.s = s /\ ~IsNaN(f) /\ ~IsZero(f)
    <3>1. f.s = s /\ f.e \in 1 .. 254
      BY Zenon, <2>2 DEF Stands
    <3> QED BY <3>1 DEF IsNaN, IsZero
  <2>5. ~Infinite(bits, F)
    BY Zenon, <1>11, <1>15
  <2>6. CASE relu /\ s = 1
    <3>1. g = Float(0, 0, 0)
      BY Zenon, <1>8, <2>4, <2>6 DEF Below0, Zero
    <3>2. 0 \in {0, 1} /\ 0 * sign = 0
      OBVIOUS
    <3>3. r = 0
      BY Zenon, <1>6, <1>8, <3>1, <3>2, ZeroInHalf
    <3> QED BY Zenon, <1>15, <2>6, <3>3 DEF Widened
  <2>7. CASE ~(relu /\ s = 1)
    <3>1. g = f
      BY Zenon, <1>8, <2>4, <2>7 DEF Below0
    <3>2. f.e \in 111 .. 142
      BY <2>1 DEF NarrowExps
    <3>3. PICK mag \in Nat : HalfOrBrain(f, G) = s * SignBit(G) + mag /\ SameInHalf(S, K, G, mag)
      BY <2>2, <2>3, <3>2, ExactHalfOrBrain
    <3>4. r = s * sign + mag
      BY Zenon, <1>6, <1>8, <3>1, <3>3
    <3>5. mag < Infinity(G) /\ Same(Number(S, K), CodeValue(mag, G))
      BY Zenon, <3>3 DEF SameInHalf
    <3>6. mag \in 0 .. sign - 1 /\ mag <= G.max
      BY <1>6, <3>5
    <3>7. r % sign = mag /\ (r >= sign) = (s = 1)
      BY Zenon, <3>4, <3>6, SignOfCode
    <3> QED BY Zenon, <1>15, <2>2, <2>5, <2>7, <3>5, <3>6, <3>7 DEF Widened
  <2> QED BY <2>6, <2>7
<1> QED BY Zenon, <1>11, <1>12, <1>13, <1>14, <1>15

-----------------------------------------------------------------------------
(* The way back from f16 and bf16.                                         *)
\* What a code of f16 or bf16 with the fields s, e and man must be turned back into.
BackOf(f, s, bits, F) ==
  IF bits > Infinity(F) THEN IsNaN(f)
  ELSE /\ f.s = s
       /\ IF bits = Infinity(F) THEN IsInf(f)
          ELSE ~IsInf(f) /\ Same(CodeValue(bits, F), FloatValue(f))

\* Infinity is the first code of the last binade.
Around(bits, inf, last, man) ==
  /\ last /\ man = 0 => bits = inf /\ ~(bits > inf)
  /\ last /\ man # 0 => bits > inf
  /\ ~last => ~(bits > inf) /\ bits # inf

\* A code's place is told by its exponent field.
LEMMA AroundInfinity ==
  ASSUME NEW u \in Nat \ {0}, NEW top \in Nat \ {0}, NEW e \in 0 .. top - 1, NEW man \in 0 .. u - 1
  PROVE  Around(e * u + man, (top - 1) * u, e = top - 1, man)
<1>1. PICK p, inf \in Int : p = e * u /\ inf = (top - 1) * u /\ p >= 0
  OBVIOUS
<1>2. CASE e = top - 1
  <2>1. p = inf
    BY Zenon, <1>1, <1>2
  <2>2. Around(p + man, inf, TRUE, man)
    BY <1>1, <2>1 DEF Around
  <2> QED BY Zenon, <1>1, <1>2, <2>2 DEF Around
<1>3. CASE e # top - 1
  <2>1. (top - 2 - e) * u >= 0 /\ (top - 2 - e) * u = (top - 1) * u - e * u - u
    BY <1>3
  <2>2. inf - p - u >= 0
    BY <1>1, <2>1
  <2>3. Around(p + man, inf, FALSE, man)
    BY <1>1, <2>2 DEF Around
  <2> QED BY Zenon, <1>1, <1>3, <2>3 DEF Around
<1> QED BY <1>2, <1>3

\* f16_to_f32 keeps the number of any code.
LEMMA HalfBack ==
  ASSUME NEW x \in 0 .. 2 ^ 16 - 1
  PROVE  \E s \in {0, 1}, bits \in Nat :
           /\ s = x \div SignBit(F16) /\ bits = x % SignBit(F16)
           /\ BackOf(FromHalf(x), s, bits, F16)
<1>1. F16 \in NarrowFormats \cup Halves /\ F16 \in Halves /\ Shape(F16, 1024, 32)
      /\ F16.m = 10 /\ F16.bias = 15
  BY HalfNumbers
<1>2. PICK u \in Nat \ {0}, top \in Nat \ {0} : u = 1024 /\ top = 32
  OBVIOUS
<1>3. Shape(F16, u, top)
  BY <1>2, HalfShapes
<1>4. Infinity(F16) = (top - 1) * u
  <2>1. Infinity(F16) = 31744
    BY HalfNumbers
  <2> QED BY <1>2, <2>1
<1>5. x \in 0 .. 2 ^ F16.width - 1
  <2>1. F16.width = 16
    BY DEF F16, Narrow
  <2> QED BY Zenon, <2>1
<1>6. PICK s \in {0, 1}, bits \in 0 .. SignBit(F16) - 1, e \in 0 .. top - 1, man \in 0 .. u - 1 :
         CodeParts(x, F16, u, s, bits, e, man)
  BY Zenon, <1>1, <1>3, <1>5, CodeFields
<1>7. /\ s = x \div SignBit(F16) /\ bits = x % SignBit(F16)
      /\ e = ExpField(x, F16) /\ man = Fraction(x, F16) /\ bits = e * u + man
  BY Zenon, <1>6 DEF CodeParts
<1>8. PICK f, lifted, normal :
        /\ f = FromHalf(x) /\ lifted = Lifted(s, man, F16.m - Log2(man), F16)
        /\ normal = Normal(s, e, man, F16)
  OBVIOUS
<1>9. f = IF e = 0 THEN (IF man = 0 THEN Float(s, 0, 0) ELSE lifted)
          ELSE IF e = 31 THEN Float(s, 255, man * 2 ^ 13) ELSE normal
  BY Zenon, <1>7, <1>8 DEF FromHalf
<1>10. SUFFICES BackOf(f, s, bits, F16)
  <2>1. bits \in Nat
    OBVIOUS
  <2> QED BY Zenon, <1>7, <1>8, <2>1
<1>11. /\ e = top - 1 /\ man = 0 => bits = Infinity(F16) /\ ~(bits > Infinity(F16))
       /\ e = top - 1 /\ man # 0 => bits > Infinity(F16)
       /\ e # top - 1 => ~(bits > Infinity(F16)) /\ bits # Infinity(F16)
  <2>1. Around(bits, Infinity(F16), e = top - 1, man)
    <3>1. Around(e * u + man, (top - 1) * u, e = top - 1, man)
      BY Zenon, AroundInfinity
    <3> QED BY Zenon, <1>4, <1>7, <3>1
  <2> QED BY Zenon, <2>1 DEF Around
<1>12. F16.bias <= 15 /\ top <= 32 /\ (e = 31 <=> e = top - 1) /\ 0 # top - 1
  BY <1>1, <1>2
<1>13. CASE e = 0 /\ man = 0
  <2>1. f = Float(s, 0, 0) /\ e # top - 1
    BY Zenon, <1>9, <1>12, <1>13
  <2>2. f.s = s /\ ~IsInf(f) /\ f.e = 0 /\ f.man = 0
    BY <2>1 DEF IsInf, Float
  <2>3. FloatValue(f) = Number(0, -149)
    BY Zenon, <2>2 DEF FloatValue
  <2>4. CodeValue(bits, F16) = Number(0, 1 - F16.bias - F16.m)
    <3>1. PICK T \in 1 .. top - 1 : T = 1
      BY <1>2
    <3>2. 0 \in 0 .. 2 * u - 1 /\ bits = (T - 1) * u + 0
      BY <1>7, <1>13, <3>1
    <3>3. CodeValue(bits, F16) = Number(0, T - F16.bias - F16.m)
      BY <1>1, <1>3, <3>1, <3>2, ValueIs
    <3> QED BY Zenon, <3>1, <3>3
  <2>5. Same(CodeValue(bits, F16), FloatValue(f))
    BY Zenon, <2>3, <2>4, NothingBelowZero DEF Same
  <2> QED BY Zenon, <1>11, <2>1, <2>2, <2>5 DEF BackOf
<1>14. ASSUME StandsForCode(f, s, bits, F16), e # top - 1
       PROVE  BackOf(f, s, bits, F16)
  <2>1. PICK S \in Significands, a \in 0 .. 25, K \in Int :
          Stands(f, s, S, a, K) /\ CodeValue(bits, F16) = Number(S, K)
    BY Zenon, <1>14 DEF StandsForCode
  <2>2. S \in Nat /\ 0 < S /\ S < 2 ^ 24
    BY DEF Significands
  <2>3. Same(Number(S, K), FloatValue(f)) /\ ~IsInf(f) /\ f.s = s
    BY Zenon, <2>1, <2>2, StandsForSame
  <2> QED BY Zenon, <1>11, <1>14, <2>1, <2>3 DEF BackOf
<1>15. CASE e = 0 /\ man # 0
  <2>1. f = lifted /\ e # top - 1
    BY Zenon, <1>9, <1>12, <1>15
  <2>2. man \in 1 .. u - 1
    BY <1>15
  <2>3. 0 * u + man = man
    BY <2>2
  <2>4. bits = man
    BY Zenon, <1>7, <1>15, <2>3
  <2>5. StandsForCode(Lifted(s, man, F16.m - Log2(man), F16), s, man, F16)
    BY <1>1, <1>3, <1>12, <2>2, LiftedStands
  <2> QED BY Zenon, <1>8, <1>14, <2>1, <2>4, <2>5
<1>16. CASE e # 0 /\ e # top - 1
  <2>1. f = normal
    BY Zenon, <1>9, <1>12, <1>16
  <2>2. e \in 1 .. top - 1
    BY <1>16
  <2>3. StandsForCode(Normal(s, e, man, F16), s, e * u + man, F16)
    BY <1>1, <1>3, <1>12, <2>2, NormalStands
  <2> QED BY Zenon, <1>7, <1>8, <1>14, <1>16, <2>1, <2>3
<1>17. CASE e = top - 1
  <2>1. f = Float(s, 255, man * 2 ^ 13)
    BY Zenon, <1>9, <1>12, <1>17
  <2>2. f.s = s /\ f.e = 255 /\ f.man = man * 2 ^ 13
    BY <2>1 DEF Float
  <2>3. man # 0 <=> f.man # 0
    BY SMT, <2>2
  <2> QED BY Zenon, <1>11, <1>17, <2>2, <2>3 DEF BackOf, IsInf, IsNaN
<1> QED BY Zenon, <1>13, <1>15, <1>16, <1>17

\* The same number with 16 places more.
LEMMA SixteenPlaces ==
  ASSUME NEW S \in 1 .. 255, NEW k \in Int, NEW w, w = 2 ^ 16
  PROVE  Same(Number(S, k + 16), Number(S * w, k))
<1>1. w \in Nat \ {0}
  BY SMT
<1>9. w = 65536
  BY SMT
<1>2. S \in Nat /\ 0 < S /\ S < 2 ^ 24
  OBVIOUS
<1>3. PICK N \in Nat : N = S * w
  BY <1>1, <1>2
<1>4. 0 < N /\ N < 2 ^ 24 /\ S * w < 2 ^ 30
  <2>1. 0 < N /\ N <= 255 * 65536
    BY <1>1, <1>3, <1>9
  <2> QED BY <1>3, <2>1
<1>5. PICK d \in 0 .. 25 : d = 16
  OBVIOUS
<1>6. w = 2 ^ d
  BY Zenon, <1>5
<1>7. /\ Less(Number(N, k), Number(S, k + d)) <=> N < S * w
      /\ Less(Number(S, k + d), Number(N, k)) <=> S * w < N
  BY Zenon, <1>1, <1>2, <1>4, <1>6, Compared
<1>8. ~(N < S * w) /\ ~(S * w < N)
  BY <1>3
<1> QED BY Zenon, <1>3, <1>5, <1>7, <1>8 DEF Same

\* bf16_to_f32 keeps the number of any code.
LEMMA BrainBack ==
  ASSUME NEW x \in 0 .. 2 ^ 16 - 1
  PROVE  \E s \in {0, 1}, bits \in Nat :
           /\ s = x \div SignBit(BF16) /\ bits = x % SignBit(BF16)
           /\ BackOf(FromBrain(x), s, bits, BF16)
<1>1. BF16.m = 7 /\ BF16.bias = 127
  BY HalfNumbers
<1>19. BF16 \in NarrowFormats \cup Halves /\ BF16 \in Halves
  BY HalfNumbers
<1>2. PICK u \in Nat \ {0}, top \in Nat \ {0} : u = 128 /\ top = 256
  OBVIOUS
<1>3. Shape(BF16, u, top)
  BY <1>2, HalfShapes
<1>4. Infinity(BF16) = (top - 1) * u
  <2>1. Infinity(BF16) = 32640
    BY HalfNumbers
  <2> QED BY <1>2, <2>1
<1>5. x \in 0 .. 2 ^ BF16.width - 1
  <2>1. BF16.width = 16
    BY DEF BF16, Narrow
  <2> QED BY Zenon, <2>1
<1>6. PICK s \in {0, 1}, bits \in 0 .. SignBit(BF16) - 1, e \in 0 .. top - 1, man \in 0 .. u - 1 :
         CodeParts(x, BF16, u, s, bits, e, man)
  BY Zenon, <1>19, <1>3, <1>5, CodeFields
<1>7. /\ s = x \div SignBit(BF16) /\ bits = x % SignBit(BF16)
      /\ e = ExpField(x, BF16) /\ man = Fraction(x, BF16) /\ bits = e * u + man
  BY Zenon, <1>6 DEF CodeParts
<1>8. PICK f, w : f = FromBrain(x) /\ w = 2 ^ 16
  OBVIOUS
<1>9. f = Float(s, e, man * w)
  BY Zenon, <1>7, <1>8 DEF FromBrain
<1>10. SUFFICES BackOf(f, s, bits, BF16)
  <2>1. bits \in Nat
    OBVIOUS
  <2> QED BY Zenon, <1>7, <1>8, <2>1
<1>11. /\ e = top - 1 /\ man = 0 => bits = Infinity(BF16) /\ ~(bits > Infinity(BF16))
       /\ e = top - 1 /\ man # 0 => bits > Infinity(BF16)
       /\ e # top - 1 => ~(bits > Infinity(BF16)) /\ bits # Infinity(BF16)
  <2>1. Around(bits, Infinity(BF16), e = top - 1, man)
    <3>1. Around(e * u + man, (top - 1) * u, e = top - 1, man)
      BY Zenon, AroundInfinity
    <3> QED BY Zenon, <1>4, <1>7, <3>1
  <2> QED BY Zenon, <2>1 DEF Around
<1>12. f.s = s /\ f.e = e /\ f.man = man * w
  BY Zenon, <1>9 DEF Float
<1>13. (e = 255 <=> e = top - 1) /\ 0 # top - 1
  BY <1>2
<1>14. w \in Nat \ {0}
  BY SMT, <1>8
<1>15. CASE e = top - 1
  <2>1. man # 0 <=> f.man # 0
    BY <1>12, <1>14
  <2> QED BY Zenon, <1>11, <1>12, <1>13, <1>15, <2>1 DEF BackOf, IsInf, IsNaN
<1>16. ASSUME e # top - 1, Same(CodeValue(bits, BF16), FloatValue(f))
       PROVE  BackOf(f, s, bits, BF16)
  BY Zenon, <1>11, <1>12, <1>13, <1>16 DEF BackOf, IsInf
<1>17. CASE e = 0
  <2>1. FloatValue(f) = Number(man * w, -149)
    BY Zenon, <1>12, <1>17 DEF FloatValue
  <2>2. bits = man /\ man \in 0 .. 2 * u - 1
    <3>1. 0 * u + man = man /\ man \in 0 .. 2 * u - 1
      OBVIOUS
    <3> QED BY Zenon, <1>7, <1>17, <3>1
  <2>3. CodeValue(man, BF16) = Number(man, -133)
    <3>1. PICK T \in 1 .. top - 1 : T = 1
      BY <1>2
    <3>2. man = (T - 1) * u + man
      BY <3>1
    <3>3. CodeValue(man, BF16) = Number(man, T - BF16.bias - BF16.m)
      BY <1>19, <1>3, <2>2, <3>1, <3>2, ValueIs
    <3>4. T - BF16.bias - BF16.m = -133
      BY <1>1, <3>1
    <3> QED BY Zenon, <3>3, <3>4
  <2>4. CASE man = 0
    <3>1. man * w = 0
      BY <1>14, <2>4
    <3>3. PICK k, l : k = -149 /\ l = -133
      OBVIOUS
    <3>4. FloatValue(f) = Number(0, k) /\ CodeValue(bits, BF16) = Number(0, l)
      <4>1. FloatValue(f) = Number(man * w, k)
        BY Zenon, <2>1, <3>3
      <4>2. CodeValue(bits, BF16) = Number(man, l)
        BY Zenon, <2>2, <2>3, <3>3
      <4> QED BY Zenon, <2>4, <3>1, <4>1, <4>2
    <3>5. ~Less(CodeValue(bits, BF16), Number(0, k)) /\ ~Less(FloatValue(f), Number(0, l))
      BY Zenon, NothingBelowZero
    <3>2. Same(CodeValue(bits, BF16), FloatValue(f))
      BY Zenon, <3>4, <3>5 DEF Same
    <3> QED BY Zenon, <1>13, <1>16, <1>17, <3>2
  <2>5. CASE man # 0
    <3>1. man \in 1 .. 255
      BY <1>2, <2>5
    <3>2. PICK k \in Int : k = -149 /\ k + 16 = -133
      OBVIOUS
    <3>3. Same(Number(man, k + 16), Number(man * w, k))
      BY Zenon, <1>8, <3>1, SixteenPlaces
    <3>4. Same(CodeValue(bits, BF16), FloatValue(f))
      BY Zenon, <2>1, <2>2, <2>3, <3>2, <3>3
    <3> QED BY Zenon, <1>13, <1>16, <1>17, <3>4
  <2> QED BY <2>4, <2>5
<1>18. CASE e # 0 /\ e # top - 1
  <2>1. PICK S \in 1 .. 255 : S = u + man
    BY <1>2
  <2>2. PICK big : big = 2 ^ 23 /\ big = 128 * 65536 /\ w = 65536
    BY SMT, <1>8
  <2>3. big + man * w = S * w
    BY <1>2, <2>1, <2>2
  <2>4. FloatValue(f) = Number(S * w, e - 150)
    <3>1. FloatValue(f) = Number(2 ^ 23 + man * w, e - 150)
      BY Zenon, <1>12, <1>18 DEF FloatValue
    <3>2. big = 2 ^ 23
      BY <2>2
    <3> QED BY Zenon, <2>3, <3>1, <3>2
  <2>5. PICK T \in 1 .. top - 1 : T = e
    BY <1>18
  <2>6. S \in 0 .. 2 * u - 1 /\ S >= u
    BY <2>1
  <2>7. PICK c : c = (T - 1) * u + S
    OBVIOUS
  <2>8. c = bits
    <3>1. (T - 1) * u + (u + man) = T * u + man
      OBVIOUS
    <3> QED BY Zenon, <1>7, <2>1, <2>5, <2>7, <3>1
  <2>9. CodeValue(c, BF16) = Number(S, T - BF16.bias - BF16.m)
    BY <1>19, <1>3, <2>6, <2>7, ValueIs
  <2>10. PICK k \in Int : k = e - 150 /\ k + 16 = T - BF16.bias - BF16.m
    BY <1>1, <2>5
  <2>11. Same(Number(S, k + 16), Number(S * w, k))
    BY Zenon, <1>8, SixteenPlaces
  <2>12. Same(CodeValue(bits, BF16), FloatValue(f))
    BY Zenon, <2>4, <2>8, <2>9, <2>10, <2>11
  <2> QED BY Zenon, <1>16, <1>18, <2>12
<1> QED BY Zenon, <1>15, <1>17, <1>18

-----------------------------------------------------------------------------
(* All conversions of the interpreter.                                     *)
\* What RoundsAsAsked asks of one operand.
OperandRight(x, r, c) ==
  CASE c.to \in NarrowFormats ->
         r % 2 ^ c.to.shift = 0 /\ NarrowedRight(x, Unpack(r, c.to), c)
    [] c.from \in NarrowFormats -> WidenedRight(Unpack(x, c.from), c.from, r, c)
    [] c.to \in Halves /\ c.from = F32 -> NarrowedRight(x, r, c)
    [] OTHER -> BackRight(x, r, c.from)

\* BackRight in those parts.
LEMMA BackParts ==
  ASSUME NEW x, NEW f, NEW F, NEW s, NEW bits, s = x \div SignBit(F), bits = x % SignBit(F),
         BackOf(f, s, bits, F)
  PROVE  BackRight(x, f, F)
BY Zenon DEF BackOf, BackRight

\* Without a narrow format on either side the interpreter takes no .rz.
LEMMA NoRoundToZero ==
  ASSUME NEW c, IAccepts(c), c.to \notin NarrowFormats, c.from \notin NarrowFormats
  PROVE  ~Has(c, "rz")
<1>1. SUFFICES ASSUME NEW k \in DOMAIN c.mods, c.mods[k] = "rz" PROVE FALSE
  BY DEF Has
<1> QED BY <1>1 DEF IAccepts

\* Any operand of any conversion that the interpreter takes.
LEMMA ConvertRight ==
  ASSUME NEW c, IsConversion(c), IAccepts(c),
         Has(c, "relu") => {c.from, c.to} \cap NarrowFormats # {}, NEW k \in DOMAIN c.operands
  PROVE  OperandRight(c.operands[k], IConvertFloat(c.operands[k], c), c)
<1>1. PICK x : x = c.operands[k]
  OBVIOUS
<1>2. CASE c.from = F32 /\ c.to \in NarrowFormats /\ c.operands \in Seq(Floats)
  <2>1. x \in Floats
    BY Zenon, <1>1, <1>2, ElementOfSeq, LenProperties
  <2>2. /\ IPack(x, c) % 2 ^ c.to.shift = 0
        /\ NarrowedRight(x, Unpack(IPack(x, c), c.to), c)
    BY Zenon, <1>2, <2>1, PackRight
  <2>3. c.from \notin NarrowFormats /\ c.to \notin Halves
    BY Zenon, <1>2, FormatsApart
  <2>4. IConvertFloat(x, c) = IPack(x, c)
    BY <1>2, <2>3 DEF IConvertFloat
  <2>5. PICK r : r = IPack(x, c)
    OBVIOUS
  <2>6. OperandRight(x, r, c)
        <=> r % 2 ^ c.to.shift = 0 /\ NarrowedRight(x, Unpack(r, c.to), c)
    BY Zenon, <1>2, <2>3 DEF OperandRight
  <2> QED BY Zenon, <1>1, <2>2, <2>4, <2>5, <2>6
<1>3. CASE c.from = F32 /\ c.to \in Halves /\ c.operands \in Seq({f \in Floats : Canonical(f)})
  <2>1. x \in Floats /\ Canonical(x)
    <3>1. PICK S : S = {f \in Floats : Canonical(f)}
      OBVIOUS
    <3>2. x \in S
      BY Zenon, <1>1, <1>3, <3>1, ElementOfSeq, LenProperties
    <3> QED BY Zenon, <3>1, <3>2
  <2>2. c.to \notin NarrowFormats /\ c.from \notin NarrowFormats
    BY Zenon, <1>3, FormatsApart
  <2>3. ~Has(c, "rz") /\ ~Has(c, "relu")
    BY Zenon, <2>2, NoRoundToZero
  <2>4. NarrowedRight(x, ISingle(x, c), c)
    BY Zenon, <1>3, <2>1, <2>3, SingleRight
  <2> QED BY Zenon, <1>1, <1>3, <2>2, <2>4 DEF IConvertFloat, OperandRight
<1>4. CASE c.from \in NarrowFormats /\ c.to \in Halves /\ c.operands \in Seq(0 .. 255)
  <2>1. x \in Nat
    <3>1. PICK S : S = 0 .. 255
      OBVIOUS
    <3>2. c.operands \in Seq(S)
      BY <1>4, <3>1
    <3>3. x \in S
      BY Zenon, <1>1, <3>2, ElementOfSeq, LenProperties
    <3> QED BY <3>1, <3>3
  <2>2. c.to \notin NarrowFormats /\ c.from # F32
    BY Zenon, <1>4, FormatsApart
  <2>3. WidenedRight(Unpack(x, c.from), c.from, IWiden(x, c), c)
    BY Zenon, <1>4, <2>1, WidenRight
  <2> QED BY Zenon, <1>1, <1>4, <2>2, <2>3 DEF IConvertFloat, OperandRight
<1>5. CASE /\ c.from \in Halves /\ c.to = F32
           /\ c.operands \in Seq({y \in 0 .. 2 ^ 16 - 1 : CanonicalCode(y, c.from)})
  <2>1. x \in 0 .. 2 ^ 16 - 1
    <3>1. PICK S : S = {y \in 0 .. 2 ^ 16 - 1 : CanonicalCode(y, c.from)}
      OBVIOUS
    <3>2. x \in S
      BY Zenon, <1>1, <1>5, <3>1, ElementOfSeq, LenProperties
    <3> QED BY Zenon, <3>1, <3>2
  <2>2. c.from \notin NarrowFormats /\ c.to \notin NarrowFormats /\ c.from # F32
    BY Zenon, <1>5, FormatsApart
  <2>3. BackRight(x, IBack(x, c), c.from)
    <3>1. CASE c.from = F16
      <4>1. IBack(x, c) = FromHalf(x)
        BY Zenon, <3>1 DEF IBack
      <4>2. PICK s \in {0, 1}, bits \in Nat :
              /\ s = x \div SignBit(F16) /\ bits = x % SignBit(F16)
              /\ BackOf(FromHalf(x), s, bits, F16)
        BY Zenon, <2>1, HalfBack
      <4>3. BackRight(x, FromHalf(x), F16)
        BY Zenon, <4>2, BackParts
      <4> QED BY Zenon, <3>1, <4>1, <4>3
    <3>2. CASE c.from = BF16
      <4>1. IBack(x, c) = FromBrain(x)
        <5>1. BF16 # F16
          BY HalfNumbers
        <5> QED BY Zenon, <3>2, <5>1 DEF IBack
      <4>2. PICK s \in {0, 1}, bits \in Nat :
              /\ s = x \div SignBit(BF16) /\ bits = x % SignBit(BF16)
              /\ BackOf(FromBrain(x), s, bits, BF16)
        BY Zenon, <2>1, BrainBack
      <4>3. BackRight(x, FromBrain(x), BF16)
        BY Zenon, <4>2, BackParts
      <4> QED BY Zenon, <3>2, <4>1, <4>3
    <3> QED BY Zenon, <1>5, <3>1, <3>2 DEF Halves
  <2> QED BY Zenon, <1>1, <1>5, <2>2, <2>3 DEF IConvertFloat, OperandRight
<1> QED BY Zenon, <1>2, <1>3, <1>4, <1>5 DEF IsConversion

\* All the operands of one conversion.
LEMMA ResultRight ==
  ASSUME NEW c, IsConversion(c), Has(c, "relu") => {c.from, c.to} \cap NarrowFormats # {},
         InterpResult(c) # NotTaken, NEW k \in DOMAIN c.operands
  PROVE  OperandRight(c.operands[k], InterpResult(c)[k], c)
<1>1. IAccepts(c)
  BY Zenon DEF InterpResult
<1>2. InterpResult(c) = [j \in DOMAIN c.operands |-> IConvertFloat(c.operands[j], c)]
  BY Zenon, <1>1 DEF InterpResult
<1>3. InterpResult(c)[k] = IConvertFloat(c.operands[k], c)
  BY Zenon, <1>2
<1> QED BY Zenon, <1>1, <1>3, ConvertRight

(* RoundsAsAsked holds for every operand: whatever the interpreter         *)
(* converts is rounded as it is asked.                                     *)
THEOREM InterpreterRounds ==
  ASSUME \A c \in Conversions :
           /\ IsConversion(c)
           /\ Has(c, "relu") => {c.from, c.to} \cap NarrowFormats # {}
  PROVE  NarrowSpec => []RoundsAsAsked
<1> DEFINE Computed == conv \in Conversions /\ (converted => interpCodes = InterpResult(conv))
<1>1. NarrowInit => Computed
  BY DEF NarrowInit
<1>2. Computed /\ [NarrowNext]_narrowVars => Computed'
  BY DEF NarrowNext, Convert, narrowVars
<1>3. Computed => RoundsAsAsked
  <2> SUFFICES ASSUME Computed, converted, interpCodes # NotTaken,
                      NEW k \in DOMAIN conv.operands
               PROVE  OperandRight(conv.operands[k], interpCodes[k], conv)
    BY Zenon DEF RoundsAsAsked, OperandRight
  <2>1. interpCodes = InterpResult(conv) /\ IsConversion(conv)
        /\ (Has(conv, "relu") => {conv.from, conv.to} \cap NarrowFormats # {})
    OBVIOUS
  <2> QED BY Zenon, <2>1, ResultRight
<1> QED BY <1>1, <1>2, <1>3, PTL DEF NarrowSpec

=============================================================================
