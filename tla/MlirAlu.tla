------------------------------ MODULE MlirAlu -------------------------------
(***************************************************************************)
(* The integer instructions as the MLIR front end translates them          *)
(* (PtxToRouge.cpp, emitInstruction).  A register is an SSA value of its   *)
(* type; an arith operation on values of different types does not verify.  *)
(***************************************************************************)
EXTENDS AluIsa

Value(o, w, f) == IF IsLiteral(o) THEN Cut(o.value, w) ELSE f[o.name]
SameType(ins, w) ==
  \A n \in DOMAIN ins.src : IsLiteral(ins.src[n]) \/ Width[ins.src[n].name] = w

\* Most blocks ask whether the mnemonic contains ".u"; some, ".s".
Unsigned(ins) == "u" \in {ins.ty.kind, ins.from.kind}

\* extendToI64 knows zero extension only.
MWideProduct(ins, f) ==
  Product(Value(ins.src[1], Double, f), Value(ins.src[2], Double, f), Double)

MBinary(ins, f) ==
  LET w == Width[ins.dst]
      a == Value(ins.src[1], w, f)
      b == Value(ins.src[2], w, f)
      X(v) == IF Unsigned(ins) THEN v ELSE Signed(v, w)
  IN  IF ~SameType([ins EXCEPT !.src = SubSeq(@, 1, 2)], w) THEN Refused
      ELSE CASE ins.op = "add" -> Cut(a + b, w)
             [] ins.op = "sub" -> Cut(a - b, w)
             [] ins.op = "mul" -> Product(a, b, w)
             [] ins.op = "and" -> And(a, b)
             [] ins.op = "or"  -> Or(a, b)
             [] ins.op = "xor" -> Xor(a, b)
             [] ins.op = "min" -> Cut(Min({X(a), X(b)}), w)
             [] ins.op = "max" -> Cut(Max({X(a), X(b)}), w)
             [] ins.op \in {"div", "rem"} ->
                  IF b = 0 \/ (X(a) = -Lowest(w) /\ X(b) = -1) THEN Undefined
                  ELSE Cut(IF ins.op = "div" THEN Quotient(X(a), X(b))
                           ELSE Remainder(X(a), X(b)), w)

\* Any mad is a low product and an addend.
MMad(ins, f) ==
  LET w == Width[ins.dst]
  IN  IF ~SameType(ins, w) THEN Refused
      ELSE Cut(Product(Value(ins.src[1], w, f), Value(ins.src[2], w, f), w)
               + Value(ins.src[3], w, f), w)

\* The amount takes the type of the shifted value before it is compared.
MShift(ins, f) ==
  LET w == Width[ins.dst]
      a == Value(ins.src[1], w, f)
      b == Cut(Value(ins.src[2], w, f), w)
      n == b % w
      signed == ins.op = "shr" /\ IsSigned(ins.ty)
      raw == IF ins.op = "shl" THEN ShiftLeft(a, n, w)
             ELSE IF signed THEN ShiftSigned(a, n, w) ELSE ShiftRight(a, n)
      saturated == IF signed THEN ShiftSigned(a, w - 1, w) ELSE 0
  IN  IF ~SameType([ins EXCEPT !.src = SubSeq(@, 1, 1)], w) THEN Refused
      ELSE IF b >= w THEN saturated ELSE raw

MUnary(ins, f) ==
  LET w == Width[ins.dst]
      a == Value(ins.src[1], w, f)
  IN  IF ~SameType(ins, w) THEN Refused
      ELSE CASE ins.op = "not" -> Xor(a, Ones(w))
             [] ins.op = "neg" -> Cut(-a, w)
             [] ins.op = "popc" -> Population(a)
             [] ins.op = "clz" -> LeadingZeros(a, w)

\* "dp4a.u32.s32" contains ".s32", but not ".s32.s32": a counts as signed if
\* either is, b only if both are.
MDot(ins, f) ==
  LET w == Width[ins.dst]
      aSigned == "s" \in {ins.from.kind, ins.ty.kind}
      bSigned == {ins.from.kind, ins.ty.kind} = {"s"}
      Term(n) == Group(Value(ins.src[1], w, f), n, Byte, aSigned)
                 * Group(Value(ins.src[2], w, f), n, Byte, bSigned)
  IN  IF ~SameType(ins, w) THEN Refused
      ELSE Cut(Signed(Value(ins.src[3], w, f), w) + MapThenSumSet(Term, 0 .. 3), w)

\* constantOf: a literal, or one of the registers whose value is the result of
\* a constant operation.
IsConstant(o, constants) == IsLiteral(o) \/ o.name \in constants

\* Position and length have to be constants.
MInsert(ins, f, constants) ==
  LET w == Width[ins.dst]
      a == Value(ins.src[1], w, f)
      b == Value(ins.src[2], w, f)
      pos == Value(ins.src[3], w, f) % FieldRange
      len == Value(ins.src[4], w, f) % FieldRange
      effective == IF pos >= w THEN 0 ELSE Min({len, w - pos})
      mask == ShiftLeft(2 ^ effective - 1, pos, w)
  IN  IF \/ ~IsConstant(ins.src[3], constants) \/ ~IsConstant(ins.src[4], constants)
         \/ ~SameType([ins EXCEPT !.src = SubSeq(@, 1, 2)], w)
      THEN Refused
      ELSE IF effective = 0 THEN b
      ELSE Or(And(b, Xor(mask, Ones(w))), And(ShiftLeft(a, pos, w), mask))

MExtract(ins, f, constants) ==
  LET w == Width[ins.dst]
      a == Value(ins.src[1], w, f)
      pos == Value(ins.src[2], w, f) % FieldRange
      len == Value(ins.src[3], w, f) % FieldRange
      signed == IsSigned(ins.ty)
      effective == Min({len, w - pos})
      field == And(ShiftRight(a, pos), 2 ^ effective - 1)
      SignAt(n) == ShiftRight(a, n) % 2
  IN  IF \/ ~IsConstant(ins.src[2], constants) \/ ~IsConstant(ins.src[3], constants)
         \/ ~SameType([ins EXCEPT !.src = SubSeq(@, 1, 1)], w)
      THEN Refused
      ELSE IF len = 0 THEN 0
      ELSE IF pos >= w THEN IF signed THEN Cut(-SignAt(w - 1), w) ELSE 0
      ELSE IF ~signed \/ effective >= w THEN field
      ELSE Or(field, ShiftLeft(Cut(-SignAt(pos + effective - 1), w), effective, w))

\* The selector is a literal (WellTyped), and has to be of mode 0.
MPermute(ins, f) ==
  LET selector == ins.src[3].value
      both == Value(ins.src[1], Word, f) + Value(ins.src[2], Word, f) * 2 ^ Word
      F(i) == (selector \div 16 ^ i) % 16
      Byt(i) == Cut(ShiftRight(both, (F(i) % 8) * Byte), Byte)
      Sign(i) == ShiftRight(Byt(i), Byte - 1) % 2
      Out(i) == IF F(i) >= 8 THEN Cut(-Sign(i), Byte) ELSE Byt(i)
  IN  IF F(4) # 0 \/ ~SameType(ins, Word) THEN Refused
      ELSE MapThenSumSet(LAMBDA i : Out(i) * 2 ^ (i * Byte), 0 .. 3)

MSelect(ins, f) ==
  LET w == Width[ins.dst]
  IN  IF ~SameType([ins EXCEPT !.src = SubSeq(@, 1, 2)], w) THEN Refused
      ELSE Value(ins.src[IF f[ins.src[3].name] = 1 THEN 1 ELSE 2], w, f)

\* and.pred and the like are the bitwise operations on one bit; a third
\* operand is not looked at.
MPredicate(ins, f) ==
  LET a == f[ins.src[1].name]
  IN  CASE ins.mod = "and" -> And(a, f[ins.src[2].name])
        [] ins.mod = "or"  -> Or(a, f[ins.src[2].name])
        [] ins.mod = "not" -> Xor(a, 1)

\* The widths are the registers'; anything without ".u" extends the sign.
MConvert(ins, f) ==
  LET w == Width[ins.src[1].name]
      dst == Width[ins.dst]
      v == f[ins.src[1].name]
  IN  IF w < dst /\ ~Unsigned(ins) THEN SignExtend(v, w, dst) ELSE Cut(v, dst)

MCompare(ins, f) ==
  LET w == Width[ins.src[1].name]
      X(n) == IF Unsigned(ins) THEN Value(ins.src[n], w, f)
              ELSE Signed(Value(ins.src[n], w, f), w)
      x == X(1)
      y == X(2)
      Truth(b) == IF b THEN 1 ELSE 0
  IN  IF ~SameType(ins, w) THEN Refused
      ELSE CASE ins.mod = "eq" -> Truth(x = y)  [] ins.mod = "ne" -> Truth(x # y)
             [] ins.mod = "lt" -> Truth(x < y)  [] ins.mod = "le" -> Truth(x <= y)
             [] ins.mod = "gt" -> Truth(x > y)  [] ins.mod = "ge" -> Truth(x >= y)
             [] OTHER -> Refused

MMove(ins, f) ==
  LET w == Width[ins.dst]
  IN  IF SameType(ins, w) THEN Value(ins.src[1], w, f) ELSE Refused

MlirValue(ins, f, constants) ==
  CASE ins.op = "mov" -> MMove(ins, f)
    [] ins.op = "setp" -> MCompare(ins, f)
    [] ins.op = "selp" -> MSelect(ins, f)
    [] ins.op = "cvt" -> MConvert(ins, f)
    [] ins.op = "mul" /\ ins.mod = "hi" -> Refused
    [] ins.op = "mul" /\ ins.mod = "wide" -> MWideProduct(ins, f)
    [] \/ ins.op = "mul" /\ ins.mod = "lo"
       \/ ins.op \in {"add", "sub", "div", "rem", "min", "max", "and", "or", "xor"}
         -> MBinary(ins, f)
    [] ins.op \in {"not", "neg", "popc", "clz"} -> MUnary(ins, f)
    [] ins.op \in {"shl", "shr"} -> MShift(ins, f)
    [] ins.op = "dp4a" -> MDot(ins, f)
    [] ins.op = "bfi" -> MInsert(ins, f, constants)
    [] ins.op = "bfe" -> MExtract(ins, f, constants)
    [] ins.op = "prmt" -> MPermute(ins, f)
    [] ins.op = "pred" -> MPredicate(ins, f)
    [] ins.op = "mad" -> MMad(ins, f)
    [] OTHER -> Refused

\* The blocks that write the register themselves leave the guard out.
IgnoresGuard(ins) == ins.op \in {"setp", "cvt", "dp4a"}

\* A move, a conversion that keeps the width and an insertion of nothing hand on
\* the value they are given; an extract of nothing is a constant of its own.
GivesConstant(ins, f, constants) ==
  LET w == Width[ins.dst]
      At(n) == Value(ins.src[n], w, f) % FieldRange
  IN  CASE ins.op = "mov" -> IsConstant(ins.src[1], constants)
        [] ins.op = "cvt" -> ins.src[1].name \in constants /\ Width[ins.src[1].name] = w
        [] ins.op = "bfe" -> At(3) = 0 \/ (At(2) >= w /\ ~IsSigned(ins.ty))
        [] ins.op = "bfi" -> (At(4) = 0 \/ At(3) >= w) /\ IsConstant(ins.src[2], constants)
        [] OTHER -> FALSE

\* Under a guard the value is that of a select.
ConstantsAfter(ins, f, constants) ==
  IF GivesConstant(ins, f, constants) /\ (ins.guard = "" \/ IgnoresGuard(ins))
  THEN constants \cup {ins.dst}
  ELSE constants \ {ins.dst}

=============================================================================
