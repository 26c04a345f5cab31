------------------------------ MODULE LlvmAlu -------------------------------
(***************************************************************************)
(* The integer instructions as LlvmGen emits them (ptx_to_llvm.cpp), and   *)
(* what the emitted LLVM instructions compute.  A register is an alloca of *)
(* its declared width.  IR that mixes widths does not get past LLVM, which *)
(* counts as a refusal.                                                    *)
(***************************************************************************)
EXTENDS AluIsa

\* operand() as a value of the integer type of w bits.
Load(o, w, f) == IF IsLiteral(o) THEN Cut(o.value, w) ELSE f[o.name]
HasWidth(o, w) == IsLiteral(o) \/ Width[o.name] = w
AllHaveWidth(ins, w) == \A n \in DOMAIN ins.src : HasWidth(ins.src[n], w)

\* zext_to_i64 and as_i64: a literal counts as 32 bits wide.
LoadWide(o, f) == IF IsLiteral(o) THEN Cut(o.value, Word) ELSE f[o.name]

\* check_reg_width: the mnemonic and the destination agree on the width.
WidthChecked(ins) == Width[ins.dst] = ins.ty.width

\* fit_reg and fit_src: a narrower register is extended with zeros, a wider
\* one truncated.
LMove(ins, f) == Cut(Load(ins.src[1], Double, f), Width[ins.dst])

LAddSub(ins, f) ==
  LET w == Width[ins.dst]
      a == Cut(Load(ins.src[1], w, f), w)
      b == Cut(Load(ins.src[2], w, f), w)
  IN  IF ~WidthChecked(ins) THEN Refused
      ELSE Cut(IF ins.op = "add" THEN a + b ELSE a - b, w)

\* The mnemonic's last character is a digit, so the test for an 's' there
\* never succeeds: .s32 and .u32 are both extended with zeros.
LWideProduct(ins, f) ==
  IF ~AllHaveWidth(ins, Word) \/ Width[ins.dst] # Double THEN Refused
  ELSE Load(ins.src[1], Word, f) * Load(ins.src[2], Word, f)

LLogic(ins, f) ==
  LET w == ins.ty.width
      A(n) == Load(ins.src[n], w, f)
  IN  IF ~WidthChecked(ins) \/ ~AllHaveWidth(ins, w) THEN Refused
      ELSE CASE ins.op = "and" -> And(A(1), A(2))
             [] ins.op = "or"  -> Or(A(1), A(2))
             [] ins.op = "xor" -> Xor(A(1), A(2))
             [] ins.op = "not" -> Not(A(1), w)

\* strtoull with base 10 stops at the x of a hexadecimal literal.
ReadDecimal(o, w) == IF o.form = "hex" THEN 0 ELSE Cut(o.value, w)

\* Mutant: amounts modulo the width, as LLVM's own shifts would have them.
LAmountModulo(ins, f) ==
  LET amount == ins.src[2]
  IN  IF IsLiteral(amount) THEN ReadDecimal(amount, Double) % ins.ty.width
      ELSE f[amount.name] % ins.ty.width

LAmount(ins, f) ==
  LET amount == ins.src[2]
  IN  IF IsLiteral(amount) THEN ReadDecimal(amount, Double)
      ELSE Cut(f[amount.name], Word)

\* An i32 amount cannot be extended to i16: such IR is refused.
LShift(ins, f) ==
  LET w == ins.ty.width
      a == Load(ins.src[1], w, f)
      amount == ins.src[2]
      n == LAmount(ins, f)
      arith == IsSigned(ins.ty)
  IN  IF \/ ~WidthChecked(ins) \/ ~HasWidth(ins.src[1], w)
         \/ ~IsLiteral(amount) /\ w = Half
      THEN Refused
      ELSE IF n >= w THEN IF arith THEN ShiftSigned(a, w - 1, w) ELSE 0
      ELSE IF ins.op = "shl" THEN ShiftLeft(a, n, w)
      ELSE IF arith THEN ShiftSigned(a, n, w) ELSE ShiftRight(a, n)

\* The high word only of 32-bit products, and without the addend of mad.
LProduct(ins, f) ==
  LET w == ins.ty.width
      A(n) == Load(ins.src[n], w, f)
      addend == IF ins.op = "mad" THEN A(3) ELSE 0
  IN  IF ~WidthChecked(ins) \/ ~AllHaveWidth(ins, w) THEN Refused
      ELSE IF ins.mod = "lo" THEN Cut(Product(A(1), A(2), w) + addend, w)
      ELSE IF w # Word THEN Refused
      ELSE Cut((IF IsSigned(ins.ty)
                THEN Signed(A(1), Word) * Signed(A(2), Word)
                ELSE A(1) * A(2)) \div 2 ^ Word, Word)

\* A literal divisor is folded; a computed one goes to sdiv, udiv, srem or
\* urem, which leave zero and the overflow undefined.
LDivide(ins, f) ==
  LET w == ins.ty.width
      signed == IsSigned(ins.ty)
      rem == ins.op = "rem"
      a == Load(ins.src[1], w, f)
      literal == IsLiteral(ins.src[2])
      b == IF literal THEN ReadDecimal(ins.src[2], w) ELSE f[ins.src[2].name]
      x == IF signed THEN Signed(a, w) ELSE a
      y == IF signed THEN Signed(b, w) ELSE b
  IN  IF ~WidthChecked(ins) \/ ~AllHaveWidth(ins, w) THEN Refused
      ELSE IF literal /\ y = 0 THEN 0
      ELSE IF literal /\ y = -1 THEN IF rem THEN 0 ELSE Cut(-a, w)
      ELSE IF y = 0 \/ (y = -1 /\ x = -Lowest(w)) THEN Undefined
      ELSE Cut(IF rem THEN Remainder(x, y) ELSE Quotient(x, y), w)

LMinMax(ins, f) ==
  LET w == Width[ins.dst]
      X(n) == IF IsSigned(ins.ty) THEN Signed(Load(ins.src[n], w, f), w)
              ELSE Load(ins.src[n], w, f)
  IN  IF ~AllHaveWidth(ins, w) THEN Refused
      ELSE Cut(IF ins.op = "min" THEN Min({X(1), X(2)}) ELSE Max({X(1), X(2)}),
               w)

\* Without branches, in i64: a mask of len ones is moved to pos.
LInsert(ins, f) ==
  LET w == Width[ins.dst]
      A(n) == LoadWide(ins.src[n], f)
      pos == A(3) % FieldRange
      len == A(4) % FieldRange
      ones == IF len >= w THEN Ones(Double) ELSE 2 ^ Min({len, w - 1}) - 1
      fits == pos < w
      safe == IF fits THEN pos ELSE 0
      mask == IF fits THEN ShiftLeft(ones, safe, Double) ELSE 0
      field == And(ShiftLeft(A(1), safe, Double), mask)
  IN  IF ~WidthChecked(ins) THEN Refused
      ELSE Cut(Or(And(A(2), Not(mask, Double)), field), w)

LExtract(ins, f) ==
  LET w == Width[ins.dst]
      A(n) == LoadWide(ins.src[n], f)
      start == Min({A(2) % FieldRange, w})
      len == A(3) % FieldRange
      effective == Min({len, w - start})
      safe == IF start = w THEN 0 ELSE start
      mask == IF effective = w THEN Ones(Double)
              ELSE 2 ^ Min({effective, w - 1}) - 1
      field == And(ShiftRight(A(1), safe), mask)
      top == IF effective = 0 THEN w - 1 ELSE start + effective - 1
      sign == ShiftRight(A(1), top) % 2
      fill == IF effective = w THEN 0
              ELSE Cut((-sign) * 2 ^ effective, Double)
  IN  IF ~WidthChecked(ins) THEN Refused
      ELSE IF len = 0 THEN 0
      ELSE Cut(IF IsSigned(ins.ty) THEN Or(field, fill) ELSE field, w)

\* The mode of the selector is not looked at.
LPermute(ins, f) ==
  LET both == LoadWide(ins.src[1], f) + LoadWide(ins.src[2], f) * 2 ^ Word
      F(i) == (ins.src[3].value \div 16 ^ i) % 16
      Byt(i) == Cut(ShiftRight(both, (F(i) % 8) * Byte), Byte)
      Out(i) == IF F(i) < 8 THEN Byt(i)
                ELSE IF Byt(i) >= Lowest(Byte) THEN Ones(Byte) ELSE 0
  IN  IF ~WidthChecked(ins) THEN Refused
      ELSE MapThenSumSet(LAMBDA i : Out(i) * 2 ^ (i * Byte), 0 .. 3)

LDot(ins, f) ==
  LET a == LoadWide(ins.src[1], f)
      b == LoadWide(ins.src[2], f)
      wide == ins.op = "dp4a"
      first == IF wide \/ ins.mod = "lo" THEN 0 ELSE 2
      Lane(v, n, g, signed) == Group(v, n, g, signed)
      Term(n) == Lane(a, n, IF wide THEN Byte ELSE Half, IsSigned(ins.from))
                 * Lane(b, first + n, Byte, IsSigned(ins.ty))
  IN  IF ~WidthChecked(ins) THEN Refused
      ELSE Cut(LoadWide(ins.src[3], f)
               + MapThenSumSet(Term, 0 .. (IF wide THEN 3 ELSE 1)), Word)

LUnary(ins, f) ==
  LET w == ins.ty.width
      a == Load(ins.src[1], w, f)
  IN  IF ~WidthChecked(ins) \/ ~HasWidth(ins.src[1], w) THEN Refused
      ELSE CASE ins.op = "neg" -> Cut(-a, w)
             [] ins.op = "abs" /\ ins.ty.kind = "u" -> Cut(a, w - 1)
             [] ins.op = "abs" /\ ins.ty.kind # "u" ->
                  Cut(Magnitude(Signed(a, w)), w)
             [] ins.op = "popc" -> Population(a)
             [] ins.op \in {"clz", "bfind"} -> LeadingZeros(a, w)

\* neg.f32 subtracts from the integer zero; abs.f32 and fnabs.f32 keep the
\* exponent (2139095040 = 0x7f800000) and clear the fraction with the sign.
\* A float of 4 bytes has as many exponent bits as a byte.
Exponent == Lowest(Word) - Lowest(Word - Byte)
LFloatSign(ins, f) ==
  LET a == Load(ins.src[1], Word, f)
  IN  IF ~HasWidth(ins.src[1], Word) \/ Width[ins.dst] # Word THEN Refused
      ELSE CASE ins.op = "neg.f32" -> Cut(-a, Word)
             [] ins.op = "fneg" -> Xor(a, Lowest(Word))
             [] ins.op \in {"abs.f32", "fnabs"} -> And(a, Exponent)

LSelect(ins, f) ==
  LET w == Width[ins.dst]
      c == Load(ins.src[3], w, f)
  IN  IF \/ ~HasWidth(ins.src[1], w) \/ ~HasWidth(ins.src[2], w)
         \/ ~HasWidth(ins.src[3], IF ins.op = "selp" THEN 1 ELSE w)
      THEN Refused
      ELSE Load(ins.src[IF c % 2 = 1 THEN 1 ELSE 2], w, f)

LPredicate(ins, f) ==
  LET P(n) == IF n > Len(ins.src) THEN 1 ELSE f[ins.src[n].name]
  IN  IF ~AllHaveWidth(ins, 1) \/ Width[ins.dst] # 1 THEN Refused
      ELSE CASE ins.mod = "and" -> Or(And(P(1), P(2)), 1 - P(3))
             [] ins.mod = "or"  -> Or(Or(P(1), P(2)), 1 - P(3))
             [] ins.mod = "not" -> Xor(P(1), P(2))

\* 32 to 64 bits: zeros for u64.u32, the sign for s64.u32 and s64.s32, nothing
\* else.  A truncation has to narrow.
LConvert(ins, f) ==
  LET dst == ins.from
      src == ins.ty
      v == Load(ins.src[1], src.width, f)
      result ==
        CASE dst.width = Double /\ src.width = Word ->
               IF dst.kind = "u" /\ src.kind = "u" THEN v
               ELSE IF dst.kind = "s" /\ src.kind # "b"
               THEN SignExtend(v, Word, Double) ELSE Refused
          [] src.width = Half /\ dst.width > Half ->
               IF IsSigned(src) THEN SignExtend(v, Half, dst.width) ELSE v
          [] src.width > dst.width -> Cut(v, dst.width)
          [] OTHER -> Refused
  IN  IF ~HasWidth(ins.src[1], src.width) \/ Width[ins.dst] # dst.width
      THEN Refused ELSE result

\* Any condition that is not in the list becomes "not equal".
LSetp(ins, f) ==
  LET w == IF ins.ty.width = Double THEN Double ELSE Word
      X(n) == IF IsSigned(ins.ty) THEN Signed(Load(ins.src[n], w, f), w)
              ELSE Load(ins.src[n], w, f)
      x == X(1)
      y == X(2)
      holds == CASE ins.mod = "lt" -> x < y   [] ins.mod = "gt" -> x > y
                 [] ins.mod = "le" -> x <= y  [] ins.mod = "ge" -> x >= y
                 [] ins.mod = "eq" -> x = y   [] OTHER -> x # y
  IN  IF ~AllHaveWidth(ins, w) THEN Refused ELSE IF holds THEN 1 ELSE 0

LlvmValue(ins, f) ==
  CASE ins.op = "mov" -> LMove(ins, f)
    [] ins.op \in {"add", "sub"} -> LAddSub(ins, f)
    [] ins.op = "mul" /\ ins.mod = "wide" -> LWideProduct(ins, f)
    [] ins.op \in {"mul", "mad"} /\ ins.mod # "wide" -> LProduct(ins, f)
    [] ins.op \in {"and", "or", "xor", "not"} -> LLogic(ins, f)
    [] ins.op \in {"shl", "shr"} -> LShift(ins, f)
    [] ins.op \in {"div", "rem"} -> LDivide(ins, f)
    [] ins.op \in {"min", "max"} -> LMinMax(ins, f)
    [] ins.op = "bfi" -> LInsert(ins, f)
    [] ins.op = "bfe" -> LExtract(ins, f)
    [] ins.op \in {"dp4a", "dp2a"} -> LDot(ins, f)
    [] ins.op = "prmt" -> LPermute(ins, f)
    [] ins.op \in {"neg", "abs", "popc", "clz", "bfind"} -> LUnary(ins, f)
    [] ins.op \in {"neg.f32", "abs.f32", "fneg", "fnabs"} -> LFloatSign(ins, f)
    [] ins.op \in {"selp", "slct"} -> LSelect(ins, f)
    [] ins.op = "pred" -> LPredicate(ins, f)
    [] ins.op = "cvt" -> LConvert(ins, f)
    [] ins.op = "setp" -> LSetp(ins, f)
    [] OTHER -> Refused

=============================================================================
