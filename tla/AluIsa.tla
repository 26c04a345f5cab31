------------------------------- MODULE AluIsa -------------------------------
(***************************************************************************)
(* The integer instructions of PTX, and straight-line programs of them.    *)
(*                                                                         *)
(* An instruction is a record:                                             *)
(*   op    the family: "add", "mul", "shr", "cvt", "setp" ...              *)
(*   mod   what stands between the family and the type: "lo", "hi", "wide",*)
(*         a condition; "" if nothing does                                 *)
(*   ty    the last type of the mnemonic: kind "s", "u" or "b" and width   *)
(*   from  the type before it, where there are two: the source of cvt is   *)
(*         ty, its destination from; dp4a and dp2a have .atype (from) and  *)
(*         .btype (ty)                                                     *)
(*   dst   the destination register                                        *)
(*   src   the operands                                                    *)
(*   guard "" or a predicate register                                      *)
(* An operand is a register, or a literal written in decimal or in hex;    *)
(* the selector of prmt is a literal, kept whole whatever a byte is.       *)
(***************************************************************************)
EXTENDS BitPatterns, Sequences

CONSTANT Programs

Of(k, w) == [kind |-> k, width |-> w]
U16 == Of("u", Half)    S16 == Of("s", Half)    B16 == Of("b", Half)
U32 == Of("u", Word)    S32 == Of("s", Word)    B32 == Of("b", Word)
U64 == Of("u", Double)  S64 == Of("s", Double)  B64 == Of("b", Double)

\* The registers of a program, by the width .reg declares for them.
Width ==
  [r \in {"h1", "h2", "h3", "r1", "r2", "r3", "r4", "d1", "d2", "d3",
          "p1", "p2", "p3"} |->
     IF r \in {"h1", "h2", "h3"} THEN Half
     ELSE IF r \in {"r1", "r2", "r3", "r4"} THEN Word
     ELSE IF r \in {"d1", "d2", "d3"} THEN Double
     ELSE 1]
Registers == DOMAIN Width

Reg(r) == [form |-> "reg", name |-> r, value |-> 0]
Dec(n) == [form |-> "dec", name |-> "", value |-> n]
Hex(n) == [form |-> "hex", name |-> "", value |-> n]
IsLiteral(o) == o.form # "reg"

Ins(op, mod, ty, dst, src) ==
  [op |-> op, mod |-> mod, ty |-> ty, from |-> ty,
   dst |-> dst, src |-> src, guard |-> ""]
From(t, ins) == [ins EXCEPT !.from = t]
If(p, ins) == [ins EXCEPT !.guard = p]

IsSigned(t) == t.kind = "s"

\* A program declares every destination with the width its mnemonic gives it;
\* check_reg_width refuses most programs that do not.
ResultWidth(ins) ==
  IF ins.op \in {"setp", "pred"} THEN 1
  ELSE IF ins.op = "cvt" THEN ins.from.width
  ELSE IF ins.mod = "wide" THEN Double
  ELSE ins.ty.width
WellTyped(ins) ==
  /\ Width[ins.dst] = ResultWidth(ins)
  /\ \A n \in DOMAIN ins.src : ins.src[n].form = "reg" => ins.src[n].name \in Registers
  /\ ins.op = "prmt" => IsLiteral(ins.src[3])
  /\ ins.guard # "" => Width[ins.guard] = 1

ASSUME ProgramsAssumption ==
  \A p \in Programs : \A n \in DOMAIN p : WellTyped(p[n])

\* Positions and lengths of bit fields are cut to 8 bits, that is, to four
\* times the widest register.
FieldRange == 4 * Double

\* What a path answers instead of a register's new content: the instruction
\* is not supported, or what it does is undefined.
Refused == -1
Undefined == -2

=============================================================================
