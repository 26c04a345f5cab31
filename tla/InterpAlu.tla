----------------------------- MODULE InterpAlu ------------------------------
(***************************************************************************)
(* The integer instructions in the reference interpreter (run_thread_step, *)
(* ptx.cpp).  Every register is a 64-bit cell whatever its declared width; *)
(* each block cuts its operands and its result down by itself.             *)
(***************************************************************************)
EXTENDS AluIsa

\* operand_u64: a literal is read with all its 64 bits, sign included.
Operand(o, f) == IF IsLiteral(o) THEN Cut(o.value, Double) ELSE f[o.name]

\* The uint32_t or uint64_t an operand is cast to; there is no 16-bit one.
CellWidth(w) == IF w = Double THEN Double ELSE Word
Read(ins, n, f) == Cut(Operand(ins.src[n], f), CellWidth(ins.ty.width))
ReadSigned(ins, n, f) == Signed(Read(ins, n, f), CellWidth(ins.ty.width))

\* sext64 relies on the bits above the sign being zero.
SignExtend64(v, w) == Cut(Xor(v, Lowest(w)) - Lowest(w), Double)

IMove(ins, f) ==
  LET v == Operand(ins.src[1], f)
  IN  IF ins.ty.width = Word THEN Cut(v, Word) ELSE v

\* Mutant: without width_mask, the carry stays above bit 31.
IAddSubUnmasked(ins, f) ==
  LET a == Operand(ins.src[1], f)
      b == Operand(ins.src[2], f)
  IN  IF ins.ty.width = Half THEN Refused
      ELSE Cut(IF ins.op = "add" THEN a + b ELSE a - b, Double)

IAddSub(ins, f) ==
  LET a == Operand(ins.src[1], f)
      b == Operand(ins.src[2], f)
  IN  IF ins.ty.width = Half THEN Refused
      ELSE Cut(IF ins.op = "add" THEN a + b ELSE a - b, ins.ty.width)

IWideProduct(ins, f) ==
  LET a == Cut(Operand(ins.src[1], f), Word)
      b == Cut(Operand(ins.src[2], f), Word)
  IN  IF IsSigned(ins.ty) THEN Cut(Signed(a, Word) * Signed(b, Word), Double)
                          ELSE a * b

ILogic(ins, f) ==
  LET a == Operand(ins.src[1], f)
      b == Operand(ins.src[2], f)
      w == ins.ty.width
  IN  CASE ins.op = "and" -> Cut(And(a, b), w)
        [] ins.op = "or"  -> Cut(Or(a, b), w)
        [] ins.op = "xor" -> Cut(Xor(a, b), w)
        [] ins.op = "not" -> Not(a, w)

\* The amount is a 32-bit value whatever the type, and clamped to the width.
IShift(ins, f) ==
  LET w == ins.ty.width
      cell == CellWidth(w)
      a == Read(ins, 1, f)
      n == Cut(Operand(ins.src[2], f), Word)
      beyond == n >= w
  IN  Cut(CASE ins.op = "shl" -> IF beyond THEN 0 ELSE ShiftLeft(a, n, w)
            [] ins.op = "shr" /\ ~IsSigned(ins.ty) ->
                 IF beyond THEN 0 ELSE ShiftRight(a, n)
            [] ins.op = "shr" /\ IsSigned(ins.ty) ->
                 IF ~beyond THEN ShiftSigned(a, n, cell)
                 ELSE IF Negative(a, cell) THEN Ones(cell) ELSE 0,
          w)

\* mad.hi ignores its addend; a 64-bit product has no high word here.
IProduct(ins, f) ==
  LET w == ins.ty.width
      addend == IF ins.op = "mad" THEN Operand(ins.src[3], f) ELSE 0
  IN  IF w = Half THEN Refused
      ELSE IF ins.mod = "hi" /\ w = Word
      THEN Cut((IF IsSigned(ins.ty)
                THEN ReadSigned(ins, 1, f) * ReadSigned(ins, 2, f)
                ELSE Read(ins, 1, f) * Read(ins, 2, f)) \div 2 ^ Word, Word)
      ELSE Cut(Product(Read(ins, 1, f), Read(ins, 2, f), Double) + addend, w)

\* A zero divisor gives 0, the lowest integer divided by -1 gives itself.
IDivide(ins, f) ==
  LET w == ins.ty.width
      x == IF IsSigned(ins.ty) THEN ReadSigned(ins, 1, f) ELSE Read(ins, 1, f)
      y == IF IsSigned(ins.ty) THEN ReadSigned(ins, 2, f) ELSE Read(ins, 2, f)
  IN  IF w = Half THEN Refused
      ELSE IF y = 0 THEN 0
      ELSE IF x = -Lowest(w) /\ y = -1 THEN Cut(x, w)
      ELSE Cut(IF ins.op = "rem" THEN Remainder(x, y) ELSE Quotient(x, y), w)

IMinMax(ins, f) ==
  LET x == IF IsSigned(ins.ty) THEN ReadSigned(ins, 1, f) ELSE Read(ins, 1, f)
      y == IF IsSigned(ins.ty) THEN ReadSigned(ins, 2, f) ELSE Read(ins, 2, f)
  IN  IF ins.ty.width = Half THEN Refused
      ELSE Cut(IF ins.op = "min" THEN Min({x, y}) ELSE Max({x, y}),
               ins.ty.width)

\* Position and length are the low byte of their operands; the word is the
\* destination register's.
IInsert(ins, f) ==
  LET w == Width[ins.dst]
      a == Ones2Bits(Operand(ins.src[1], f))
      b == Ones2Bits(Operand(ins.src[2], f))
      pos == Operand(ins.src[3], f) % FieldRange
      len == Operand(ins.src[4], f) % FieldRange
  IN  Bits2Value({n \in 0 .. (w - 1) :
        IF n \in pos .. (pos + len - 1) THEN (n - pos) \in a ELSE n \in b})

IExtract(ins, f) ==
  LET w == Width[ins.dst]
      a == Ones2Bits(Operand(ins.src[1], f))
      pos == Operand(ins.src[2], f) % FieldRange
      len == Operand(ins.src[3], f) % FieldRange
      top == Min({pos + len - 1, w - 1})
      sign == IsSigned(ins.ty) /\ top \in a
  IN  IF len = 0 THEN 0
      ELSE Bits2Value({n \in 0 .. (w - 1) :
             IF n < len /\ pos + n < w THEN (pos + n) \in a ELSE sign})

\* Four byte products, or two of a half word and a byte, and an addend.
IDot(ins, f) ==
  LET a == Operand(ins.src[1], f)
      b == Operand(ins.src[2], f)
      wide == ins.op = "dp4a"
      first == IF wide \/ ins.mod = "lo" THEN 0 ELSE 2
      A(n) == Group(a, n, IF wide THEN Byte ELSE Half, IsSigned(ins.from))
      B(n) == Group(b, first + n, Byte, IsSigned(ins.ty))
      pairs == 0 .. (IF wide THEN 3 ELSE 1)
  IN  Cut(Operand(ins.src[3], f) + MapThenSumSet(LAMBDA n : A(n) * B(n), pairs),
          Word)

\* Byte i of the result is byte (field i) of b:a, or its sign.  The selector
\* is four fields of four bits below a mode, whatever the width of a byte.
Field(selector, i) == (selector \div 16 ^ i) % 16
IPermute(ins, f) ==
  LET selector == ins.src[3].value
      both == Cut(Operand(ins.src[1], f), Word)
              + Cut(Operand(ins.src[2], f), Word) * 2 ^ Word
      Byt(i) == Group(both, Field(selector, i) % 8, Byte, FALSE)
      Out(i) == IF Field(selector, i) < 8 THEN Byt(i)
                ELSE IF Negative(Byt(i), Byte) THEN Ones(Byte) ELSE 0
  IN  IF Field(selector, 4) # 0 THEN Refused
      ELSE MapThenSumSet(LAMBDA i : Out(i) * 2 ^ (i * Byte), 0 .. 3)

\* abs.s16 takes the 64-bit branch; bfind.shiftamt is clz.
IUnary(ins, f) ==
  LET w == ins.ty.width
      a == Operand(ins.src[1], f)
      x == Read(ins, 1, f)
  IN  CASE ins.op = "neg" -> Cut(-a, w)
        [] ins.op = "abs" /\ ins.ty.kind = "u" ->
             Cut(And(a, Not(Lowest(w), Double)), w)
        [] ins.op = "abs" /\ ins.ty.kind # "u" ->
             Cut(IF w = Word THEN Magnitude(Signed(x, Word))
                 ELSE IF Negative(a, Double) THEN -a ELSE a, w)
        [] ins.op = "popc" -> Population(x)
        [] ins.op \in {"clz", "bfind"} -> Cut(LeadingZeros(x, CellWidth(w)), w)

\* neg.f32 and abs.f32 are not among the instructions of the interpreter.
IFloatSign(ins, f) ==
  LET a == Cut(Operand(ins.src[1], f), Word)
  IN  CASE ins.op = "fneg" -> Xor(a, Lowest(Word))
        [] ins.op = "fnabs" -> And(a, Not(Lowest(Word), Word))

ISelect(ins, f) ==
  LET c == Operand(ins.src[3], f)
  IN  Cut(Operand(ins.src[IF c % 2 = 1 THEN 1 ELSE 2], f), ins.ty.width)

\* and.pred, or.pred, not.pred with an optional last operand.
IPredicate(ins, f) ==
  LET P(n) == n > Len(ins.src) \/ Operand(ins.src[n], f) = 1
      holds == CASE ins.mod = "and" -> (P(1) /\ P(2)) \/ ~P(3)
                 [] ins.mod = "or"  -> P(1) \/ P(2) \/ ~P(3)
                 [] ins.mod = "not" -> P(1) # P(2)
  IN  IF holds THEN 1 ELSE 0

IConvert(ins, f) ==
  LET raw == Operand(ins.src[1], f)
      dst == ins.from.width
      src == ins.ty.width
  IN  IF dst = Half THEN Cut(raw, Half)
      ELSE IF src = Half
      THEN IF IsSigned(ins.ty) THEN Cut(SignExtend64(raw, Half), dst)
           ELSE IF dst = Word THEN Cut(raw, Word) ELSE Cut(raw, Half)
      ELSE IF src = Double /\ dst = Double THEN raw
      ELSE Cut(raw, Word)

Compare(cond, x, y) ==
  CASE cond = "eq" -> x = y    [] cond = "ne" -> x # y
    [] cond = "lt" -> x < y    [] cond = "le" -> x <= y
    [] cond = "gt" -> x > y    [] cond = "ge" -> x >= y
Conditions == {"eq", "ne", "lt", "le", "gt", "ge"}

\* Mutant: the signedness of the type suffix is not looked at.
ISetpUnsigned(ins, f) ==
  IF ins.mod \notin Conditions THEN Refused
  ELSE IF Compare(ins.mod, Read(ins, 1, f), Read(ins, 2, f)) THEN 1 ELSE 0

ISetp(ins, f) ==
  LET signed == IsSigned(ins.ty) /\ ins.ty.width # Half
      X(n) == IF signed THEN ReadSigned(ins, n, f) ELSE Read(ins, n, f)
  IN  IF ins.mod \notin Conditions THEN Refused
      ELSE IF Compare(ins.mod, X(1), X(2)) THEN 1 ELSE 0

InterpValue(ins, f) ==
  CASE ins.op = "mov" -> IMove(ins, f)
    [] ins.op \in {"add", "sub"} -> IAddSub(ins, f)
    [] ins.op = "mul" /\ ins.mod = "wide" -> IWideProduct(ins, f)
    [] ins.op \in {"mul", "mad"} /\ ins.mod # "wide" -> IProduct(ins, f)
    [] ins.op \in {"and", "or", "xor", "not"} -> ILogic(ins, f)
    [] ins.op \in {"shl", "shr"} -> IShift(ins, f)
    [] ins.op \in {"div", "rem"} -> IDivide(ins, f)
    [] ins.op \in {"min", "max"} -> IMinMax(ins, f)
    [] ins.op = "bfi" -> IInsert(ins, f)
    [] ins.op = "bfe" -> IExtract(ins, f)
    [] ins.op \in {"dp4a", "dp2a"} -> IDot(ins, f)
    [] ins.op = "prmt" -> IPermute(ins, f)
    [] ins.op \in {"neg", "abs", "popc", "clz", "bfind"} -> IUnary(ins, f)
    [] ins.op \in {"fneg", "fnabs"} -> IFloatSign(ins, f)
    [] ins.op \in {"selp", "slct"} -> ISelect(ins, f)
    [] ins.op = "pred" -> IPredicate(ins, f)
    [] ins.op = "cvt" -> IConvert(ins, f)
    [] ins.op = "setp" -> ISetp(ins, f)
    [] OTHER -> Refused

=============================================================================
