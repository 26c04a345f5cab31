--------------------------- MODULE AluAgreement ----------------------------
(***************************************************************************)
(* A straight-line program on the three paths of the toolchain: the        *)
(* interpreter, the code LlvmGen emits, the code the MLIR front end emits. *)
(* Each has its own registers; all start from the same contents.           *)
(***************************************************************************)
EXTENDS InterpAlu, LlvmAlu, MlirAlu

CONSTANTS Contents(_)      \* the register contents a program starts from

VARIABLES program, pc,
          interp, llvm, mlir,  \* a path: its state and its registers
          constants            \* MLIR: registers whose value is a constant operation

aluVars == <<program, pc, interp, llvm, mlir, constants>>

Fresh(f) == [state |-> "running", regs |-> f]

Init ==
  /\ program \in Programs
  /\ pc = 1
  /\ \E f \in Contents(program) :
       interp = Fresh(f) /\ llvm = Fresh(f) /\ mlir = Fresh(f)
  /\ constants = {}

Runs(ins, path) == ins.guard = "" \/ path.regs[ins.guard] = 1

\* What a path is after an instruction gave v, written if the guard holds.
\* A refusal ends the path; after undefined behaviour nothing is known.
After(path, ins, v, writes) ==
  IF path.state # "running" THEN path
  ELSE IF v = Refused THEN [path EXCEPT !.state = "refused"]
  ELSE IF v = Undefined THEN [path EXCEPT !.state = "undefined"]
  ELSE IF writes THEN [path EXCEPT !.regs[ins.dst] = v] ELSE path

\* The predicate gate: a guarded-off instruction is not even looked at.
Interpret(ins) ==
  IF Runs(ins, interp) THEN After(interp, ins, InterpValue(ins, interp.regs), TRUE)
  ELSE interp

\* store_reg selects between the new value and the old.
Compiled(ins) ==
  After(llvm, ins, LlvmValue(ins, llvm.regs), Runs(ins, llvm))

Lowered(ins) ==
  After(mlir, ins, MlirValue(ins, mlir.regs, constants), IgnoresGuard(ins) \/ Runs(ins, mlir))

Step ==
  /\ pc <= Len(program)
  /\ pc' = pc + 1
  /\ interp' = Interpret(program[pc])
  /\ llvm' = Compiled(program[pc])
  /\ mlir' = Lowered(program[pc])
  /\ constants' = ConstantsAfter(program[pc], mlir.regs, constants)
  /\ UNCHANGED program

Next == Step

Spec == Init /\ [][Next]_aluVars

-----------------------------------------------------------------------------
(* The instructions about which the paths agree, whatever the registers    *)
(* hold: the widths fit, a literal is read as the same number by all, and  *)
(* the types are none of those that one of the paths takes for another.    *)
Widths == {Half, Word, Double}
Types == [kind : {"s", "u", "b"}, width : Widths]
Operands == [form : {"reg", "dec", "hex"}, name : STRING, value : Int]
IsInstruction(ins) ==
  /\ ins.ty \in Types /\ ins.from \in Types /\ ins.src \in Seq(Operands)
  /\ ins.dst \in Registers

RegisterFiles ==
  {f \in [Registers -> Nat] : \A r \in Registers : f[r] \in Patterns(Width[r])}

\* A literal, or a register of w bits; k operands of the width of the type.
OfWidth(o, w) == IsLiteral(o) \/ (o.name \in Registers /\ Width[o.name] = w)
Sized(ins, k) == Len(ins.src) = k /\ \A n \in 1 .. k : OfWidth(ins.src[n], ins.ty.width)
IsRegister(o) == ~IsLiteral(o) /\ o.name \in Registers

\* Operands for which it does not matter how wide they are read.
Short(o) == IF IsLiteral(o) THEN o.value \in 0 .. Ones(Word)
            ELSE o.name \in Registers /\ Width[o.name] = Word
PositionFits(o) == IF IsLiteral(o) THEN o.value \in 0 .. Ones(Word)
                   ELSE o.name \in Registers /\ Width[o.name] # 1
AmountFits(ins) ==
  LET o == ins.src[2]
  IN  IF IsLiteral(o)
      THEN o.form # "hex" /\ o.value \in 0 .. Ones(IF ins.ty.width = Half THEN Half ELSE Word)
      ELSE ins.ty.width # Half /\ o.name \in Registers /\ Width[o.name] = Word

\* The instructions whose result is as wide as their type.
AgreedSums(ins) ==
  /\ ins.op \in {"add", "sub"}
  /\ \/ Sized(ins, 2)
     \/ Len(ins.src) = 2 /\ \A n \in 1 .. 2 : IsRegister(ins.src[n])
AgreedProducts(ins) ==
  \/ ins.op \in {"mul", "mad"} /\ ins.mod = "lo" /\ Sized(ins, IF ins.op = "mad" THEN 3 ELSE 2)
  \/ ins.op = "mul" /\ ins.mod = "hi" /\ Sized(ins, 2) /\ ins.ty.width = Word
AgreedQuotients(ins) ==
  /\ ins.op \in {"div", "rem"} /\ Sized(ins, 2) /\ ins.ty.kind # "b" /\ ins.from = ins.ty
  /\ IsLiteral(ins.src[2]) => ins.src[2].form # "hex"
  /\ ins.op = "rem" /\ IsLiteral(ins.src[2])
       => Cut(ins.src[2].value, ins.ty.width) # Ones(ins.ty.width)
AgreedExtremes(ins) ==
  ins.op \in {"min", "max"} /\ Sized(ins, 2) /\ ins.ty.kind # "b" /\ ins.from = ins.ty
AgreedUnary(ins) ==
  /\ Sized(ins, 1)
  /\ \/ ins.op \in {"neg", "not"}
     \/ ins.op = "abs" /\ ins.ty.kind = "s" /\ ins.ty.width # Half /\ ~IsLiteral(ins.src[1])
     \/ ins.op \in {"popc", "clz", "bfind"} /\ ins.ty.width # Half
     \/ ins.op = "mov" /\ (IsLiteral(ins.src[1]) => ins.ty.width # Half)
     \/ ins.op = "fneg" /\ ins.ty.width = Word
AgreedLogic(ins) == ins.op \in {"and", "or", "xor"} /\ Sized(ins, 2)
AgreedShifts(ins) ==
  /\ ins.op \in {"shl", "shr"} /\ Len(ins.src) = 2 /\ AmountFits(ins)
  /\ ~IsLiteral(ins.src[1]) /\ OfWidth(ins.src[1], ins.ty.width)
  /\ ins.op = "shl" => ins.ty.kind # "s"
  /\ ins.ty.kind = "s" => ins.ty.width # Half
\* bfe and bfi, which take k registers, a position and a length.
IsField(ins, k) ==
  /\ Width[ins.dst] = ins.ty.width /\ ins.ty.width # Half /\ Len(ins.src) = k + 2
  /\ \A n \in 1 .. k : ~IsLiteral(ins.src[n]) /\ OfWidth(ins.src[n], ins.ty.width)
  /\ \A n \in k + 1 .. k + 2 : PositionFits(ins.src[n])
AgreedSelections(ins) ==
  /\ ins.op \in {"selp", "slct"} /\ Len(ins.src) = 3
  /\ \A n \in {1, 2} : OfWidth(ins.src[n], ins.ty.width)
  /\ IsRegister(ins.src[3]) /\ (ins.op = "selp" => Width[ins.src[3].name] = 1)
\* dp4a and dp2a of registers, where .s32.u32 is none of the types of dp4a's.
IsDot(ins) ==
  /\ ins.op \in {"dp4a", "dp2a"} /\ Width[ins.dst] = Word /\ ins.ty.width = Word /\ Sized(ins, 3)
  /\ \A n \in 1 .. 3 : ~IsLiteral(ins.src[n])
  /\ ins.op = "dp4a" /\ ins.ty.kind = "s" => ins.from.kind = "s"
\* prmt of two registers.
IsPermute(ins) ==
  /\ ins.op = "prmt" /\ Width[ins.dst] = Word /\ ins.ty.width = Word /\ Len(ins.src) = 3
  /\ \A n \in 1 .. 2 : ~IsLiteral(ins.src[n]) /\ OfWidth(ins.src[n], Word)
  /\ IsLiteral(ins.src[3])

\* And those whose result has a width of its own.
AgreedWideProducts(ins) ==
  /\ ins.op = "mul" /\ ins.mod = "wide" /\ Sized(ins, 2) /\ Width[ins.dst] = Double
  /\ ins.ty.width = Word /\ ins.ty.kind # "s" /\ \A n \in {1, 2} : Short(ins.src[n])
AgreedComparisons(ins) ==
  /\ ins.op = "setp" /\ ins.mod \in Conditions /\ Sized(ins, 2) /\ Width[ins.dst] = 1
  /\ ins.ty.width # Half /\ ins.from = ins.ty /\ ~IsLiteral(ins.src[1])
  /\ ins.ty.kind = "b" => ins.mod \in {"eq", "ne"}
IsPredicate(ins) ==
  /\ ins.op = "pred" /\ Width[ins.dst] = 1
  /\ \/ ins.mod \in {"and", "or"} /\ Len(ins.src) = 2
     \/ ins.mod = "not" /\ Len(ins.src) = 1
  /\ \A n \in 1 .. Len(ins.src) :
       ~IsLiteral(ins.src[n]) /\ ins.src[n].name \in Registers /\ Width[ins.src[n].name] = 1
\* Conversions that narrow, keep the width, widen an unsigned number, or a
\* signed one of 16 bits into a type that is not unsigned.
Resizes(ins) ==
  \/ ins.from.width <= ins.ty.width
  \/ ins.ty.kind = "u" /\ ~(ins.from.kind = "s" /\ ins.ty.width = Word)
AgreedResizings(ins) ==
  /\ ins.op = "cvt" /\ Sized(ins, 1) /\ Width[ins.dst] = ins.from.width /\ ~IsLiteral(ins.src[1])
  /\ \/ Resizes(ins)
     \/ ins.ty.width = Half /\ ins.ty.kind = "s" /\ ins.from.width # Half /\ ins.from.kind # "u"

Agreed(ins) ==
  /\ IsInstruction(ins)
  /\ ins.guard # "" => ~IgnoresGuard(ins)
  /\ \/ /\ Width[ins.dst] = ins.ty.width
        /\ \/ AgreedSums(ins) \/ AgreedProducts(ins) \/ AgreedQuotients(ins) \/ AgreedExtremes(ins)
           \/ AgreedUnary(ins) \/ AgreedLogic(ins) \/ AgreedShifts(ins) \/ AgreedSelections(ins)
     \/ ins.op = "bfe" /\ IsField(ins, 1)
     \/ ins.op = "bfi" /\ IsField(ins, 2)
     \/ IsDot(ins) \/ IsPermute(ins) \/ AgreedWideProducts(ins) \/ AgreedComparisons(ins)
     \/ IsPredicate(ins) \/ AgreedResizings(ins)

(* Whatever path executes a program, the registers hold the same bits.     *)
SameBits ==
  \A p, q \in {interp, llvm, mlir} :
    (p.state = "running" /\ q.state = "running") => p.regs = q.regs

(* What PTX says an instruction gives, v being the new pattern of the      *)
(* destination: stated with integers and single bits, not with the masks   *)
(* and shifts the paths compute it with.                                   *)
Means(ins, f, v) ==
  LET w == ins.ty.width
      U(n) == Cut(Operand(ins.src[n], f), w)
      Number(p) == IF IsSigned(ins.ty) THEN Signed(p, w) ELSE p
      X(n) == Number(U(n))
      Bit(p, n) == n \in Ones2Bits(p)
      amount == Cut(Operand(ins.src[2], f), Word)
      SameSign(r, x) == r = 0 \/ ((r < 0) = (x < 0))
      Integers ==
        CASE ins.op = "add" -> v = Cut(X(1) + X(2), w)
          [] ins.op = "sub" -> v = Cut(X(1) - X(2), w)
          [] ins.op = "mul" /\ ins.mod = "hi" -> v = Cut((X(1) * X(2)) \div 2 ^ w, w)
          [] ins.op = "mul" /\ ins.mod = "wide" -> v = Cut(X(1) * X(2), Double)
          [] ins.op = "div" /\ X(2) # 0 /\ U(1) # Lowest(w) ->
               LET r == X(1) - Number(v) * X(2)
               IN  Magnitude(r) < Magnitude(X(2)) /\ SameSign(r, X(1))
          [] ins.op = "rem" /\ X(2) # 0 /\ U(1) # Lowest(w) ->
               /\ (X(1) - Number(v)) % Magnitude(X(2)) = 0
               /\ Magnitude(Number(v)) < Magnitude(X(2))
               /\ SameSign(Number(v), X(1))
          [] ins.op \in {"min", "max"} ->
               /\ v \in {U(1), U(2)}
               /\ \A n \in {1, 2} : IF ins.op = "min" THEN Number(v) <= X(n)
                                                     ELSE Number(v) >= X(n)
          [] ins.op = "neg" -> Cut(v + U(1), w) = 0
          [] ins.op = "abs" -> Cut(Magnitude(Signed(U(1), w)), w) = v
          [] ins.op = "cvt" -> v = Cut(X(1), ins.from.width)
          [] ins.op = "setp" -> (v = 1) = Compare(ins.mod, X(1), X(2))
          [] OTHER -> TRUE
      BitAt(n) ==
        CASE ins.op = "and" -> Bit(U(1), n) /\ Bit(U(2), n)
          [] ins.op = "or"  -> Bit(U(1), n) \/ Bit(U(2), n)
          [] ins.op = "xor" -> Bit(U(1), n) # Bit(U(2), n)
          [] ins.op = "not" -> ~Bit(U(1), n)
          [] ins.op = "shl" -> n >= amount /\ Bit(U(1), n - amount)
          [] ins.op = "shr" -> IF n + amount < w THEN Bit(U(1), n + amount)
                               ELSE IsSigned(ins.ty) /\ Bit(U(1), w - 1)
          [] OTHER -> Bit(v, n)
  IN  Integers /\ \A n \in 0 .. (w - 1) : BitAt(n) = Bit(v, n)

(* An instruction the interpreter executes leaves in its destination what  *)
(* PTX says, and the rest of the registers alone; one whose guard does not *)
(* hold changes nothing.                                                   *)
MeansWhatPtxSays ==
  [][LET ins == program[pc] IN
       interp'.state = "running" =>
         /\ Runs(ins, interp) => Means(ins, interp.regs, interp'.regs[ins.dst])
         /\ \A r \in Registers :
              (r # ins.dst \/ ~Runs(ins, interp)) =>
                interp'.regs[r] = interp.regs[r]]_aluVars

=============================================================================
