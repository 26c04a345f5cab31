---------------------------- MODULE MCArithmetic ----------------------------
(* The run of the instructions on numbers: a program of integer            *)
(* instructions is executed, or a floating-point conversion, and the other *)
(* one rests.                                                              *)
EXTENDS AluAgreement, MCNarrowFloat

-----------------------------------------------------------------------------
(* Programs and register contents.                                         *)
R(w) == IF w = Half THEN <<"h1", "h2", "h3">>
        ELSE IF w = Word THEN <<"r1", "r2", "r3">> ELSE <<"d1", "d2", "d3">>
A(t) == Reg(R(t.width)[1])
B(t) == Reg(R(t.width)[2])
C(t) == Reg(R(t.width)[3])
D(t) == R(t.width)[3]
r2 == Reg("r2")

Unary(op, mod, types) == {Ins(op, mod, t, D(t), <<A(t)>>) : t \in types}
Binary(ops, mod, types) ==
  {Ins(op, mod, t, D(t), <<A(t), B(t)>>) : op \in ops, t \in types}
WithLiteral(ops, types, numbers) ==
  {Ins(op, "", t, D(t), <<A(t), Dec(n)>>) : op \in ops, t \in types, n \in numbers}

Whole == {U32, S32, U64, S64}
BitTypes == {B16, B32, B64}

Edges(w) == {0, 1, Byte, w - 1, w, w + 1}

Arithmetic ==
  Binary({"add", "sub"}, "", Whole) \cup Binary({"mul"}, "lo", Whole)
  \cup Binary({"mul"}, "hi", {U32, S32})
  \cup {Ins("mad", "lo", t, D(t), <<A(t), B(t), C(t)>>) : t \in Whole}
  \cup {Ins("mul", "wide", U32, "d3", <<A(U32), B(U32)>>)}
  \cup Binary({"min", "max", "div", "rem"}, "", Whole)
  \cup WithLiteral({"div", "rem"}, Whole, {0, 1, 3})
  \cup WithLiteral({"div"}, {S32, S64}, {-1, -3})
  \cup WithLiteral({"rem"}, {S32, S64}, {-3})
  \cup WithLiteral({"add", "sub"}, Whole, {-1})
  \cup {Ins("add", "", S64, "d3", <<A(S64), r2>>)}   \* a narrower source

Bits ==
  Binary({"and", "or", "xor"}, "", BitTypes) \cup Unary("not", "", BitTypes)
  \cup {Ins("shl", "", t, D(t), <<A(t), r2>>) : t \in {B32, B64}}
  \cup {Ins("shr", "", t, D(t), <<A(t), r2>>) : t \in Whole}
  \cup UNION {WithLiteral({"shl"}, {t}, Edges(t.width)) : t \in BitTypes}
  \cup UNION {WithLiteral({"shr"}, {t}, Edges(t.width)) : t \in Whole \cup {U16}}
  \cup Unary("popc", "", {B32, B64}) \cup Unary("clz", "", {B32, B64})
  \cup Unary("bfind", "shiftamt", {U32, U64})
  \cup Unary("neg", "", {S16, S32, S64}) \cup Unary("abs", "", {S32, S64})
  \cup Unary("fneg", "", {B32})

Fields ==
  UNION {{Ins("bfe", "", t, D(t), <<A(t), Dec(p), Dec(n)>>) :
            p \in Edges(t.width), n \in Edges(t.width)} : t \in Whole}
  \cup UNION {{Ins("bfi", "", t, D(t), <<A(t), B(t), Dec(p), Dec(n)>>) :
            p \in Edges(t.width), n \in Edges(t.width)} : t \in {B32, B64}}
  \cup {Ins("bfe", "", t, D(t), <<A(t), Reg("r3"), r2>>) : t \in Whole}
  \cup {Ins("bfi", "", t, D(t), <<A(t), C(t), r2, Dec(n)>>) :
          t \in {B32, B64}, n \in {0, 3, Word, Double}}

Bytes ==
  {From(t, Ins("dp4a", "", u, "r4", <<A(B32), B(B32), C(B32)>>)) :
     <<t, u>> \in {<<U32, U32>>, <<S32, S32>>, <<S32, U32>>}}
  \cup {From(t, Ins("dp2a", m, u, "r4", <<A(B32), B(B32), C(B32)>>)) :
     m \in {"lo", "hi"}, t \in {U32, S32}, u \in {U32, S32}}
  \cup {Ins("prmt", "", B32, "r3", <<A(B32), B(B32), Hex(n)>>) :
     n \in {12816 (* 0x3210 *), 30292 (* 0x7654 *), 47768 (* 0xba98 *),
            65244 (* 0xfedc *), 20800 (* 0x5140 *), 51085 (* 0xc78d *)}}

Selections ==
  {Ins("selp", "", t, D(t), <<A(t), B(t), Reg("p2")>>) : t \in BitTypes}
  \cup {Ins("slct", "", B32, "r4", <<A(B32), B(B32), C(B32)>>)}
  \cup {Ins("pred", m, B32, "p3", <<Reg("p1"), Reg("p2")>>) : m \in {"and", "or"}}
  \cup {Ins("pred", "not", B32, "p3", <<Reg("p1")>>)}
  \cup Unary("mov", "", BitTypes)
  \cup {Ins("mov", "", t, D(t), <<Dec(n)>>) : t \in {B32, B64}, n \in {-1, 1}}

Compares ==
  {Ins("setp", c, t, "p3", <<A(t), B(t)>>) : c \in Conditions, t \in Whole}
  \cup {Ins("setp", c, t, "p3", <<A(t), Dec(-1)>>) : c \in {"gt", "le"}, t \in Whole}
  \cup {Ins("setp", c, B32, "p3", <<A(B32), B(B32)>>) : c \in {"eq", "ne"}}

Resizings ==
  {From(t[1], Ins("cvt", "", t[2], D(t[1]), <<A(t[2])>>)) :
     t \in ({B16, U16, S16} \X {B32, U32, S32, B64, U64, S64})
           \cup ({U32, S32, B32} \X {U64, S64, B64})
           \cup ({U32, S32, U64, S64} \X {U16})
           \cup ({S32, S64} \X {S16}) \cup {<<U64, U32>>}}

\* Guards, on the instructions for which every path looks at them.
Guarded == {If("p1", ins) : ins \in Arithmetic \cup Selections \cup Unary("not", "", BitTypes)}

\* A result, and an instruction that reads more of the register than its
\* own width, or reads it with a sign.
Producers ==
  {Ins(op, "", t, "r3", <<A(t), B(t)>>) : op \in {"add", "sub"}, t \in {U32, S32}}
  \cup Binary({"mul"}, "lo", {S32}) \cup Unary("neg", "", {S32})
  \cup Unary("not", "", {B32}) \cup {Ins("shl", "", B32, "r3", <<A(B32), Dec(1)>>)}
  \cup {Ins("mov", "", U32, "r3", <<Dec(-1)>>)}
  \cup {Ins("bfe", "", S32, "r3", <<A(S32), Dec(Byte), Dec(Byte)>>)}
  \cup {From(S32, Ins("cvt", "", S16, "r3", <<Reg("h1")>>))}
  \cup {From(S32, Ins("cvt", "", S64, "r3", <<Reg("d2")>>))}
Consumers ==
  {From(U64, Ins("cvt", "", U32, "d3", <<Reg("r3")>>)),
   Ins("add", "", S64, "d3", <<Reg("d1"), Reg("r3")>>),
   Ins("mul", "wide", U32, "d3", <<Reg("r3"), Reg("r3")>>),
   Ins("shr", "", S32, "r3", <<Reg("r3"), Dec(1)>>),
   Ins("setp", "ge", S32, "p3", <<Reg("r3"), Dec(0)>>)}
Chains == {<<a, b>> : a \in Producers, b \in Consumers}

\* A position in a register, which MLIR takes if it is a constant there.
Positioned(ins) == {ins, If("p1", ins)}
                   \X ({Ins("bfe", "", t, "r4", <<A(t), Reg("r3"), Dec(3)>>) : t \in {U32, S32}}
                       \cup {Ins("bfi", "", B32, "r4", <<A(B32), B(B32), Reg("r3"), Dec(3)>>)})
PositionsInRegisters ==
  UNION {Positioned(Ins("mov", "", U32, "r3", <<Dec(n)>>)) : n \in {1, Word - 1, Word}}
  \cup Positioned(Ins("bfe", "", U32, "r3", <<A(U32), Dec(1), Dec(0)>>))

AgreedPrograms ==
  {<<ins>> : ins \in Arithmetic \cup Bits \cup Fields \cup Bytes \cup Selections
                      \cup Compares \cup Resizings \cup Guarded}
  \cup Chains \cup PositionsInRegisters

-----------------------------------------------------------------------------
(* Programs the paths do not agree about, one instruction each.            *)

\* The signed wide product: only the interpreter multiplies with signs.
WidePrograms == {<<Ins("mul", "wide", S32, "d3", <<A(S32), B(S32)>>)>>}

\* The interpreter against the compiled code: widening with a sign, a sign in
\* 16 bits, hexadecimal amounts and divisors, the remainder of a literal -1,
\* the absolute value of a float, conditions nobody knows, permute modes.
DifferingPrograms ==
  {<<From(t, Ins("cvt", "", u, "d3", <<A(u)>>))>> :
     <<t, u>> \in {<<S64, S32>>, <<S64, U32>>}}
  \cup {<<Ins("shr", "", S16, "h3", <<A(S16), Dec(1)>>)>>,
        <<Ins("abs", "", S16, "h3", <<A(S16)>>)>>,
        <<Ins("shl", "", B32, "r3", <<A(B32), Hex(1)>>)>>,
        <<Ins("div", "", U32, "r3", <<A(U32), Hex(3)>>)>>,
        <<Ins("rem", "", S32, "r3", <<A(S32), Dec(-1)>>)>>,
        <<Ins("fnabs", "", B32, "r3", <<A(B32)>>)>>}

\* The MLIR front end against the other two: every mad as mad.lo, the bytes of
\* dp4a.u32.s32, bit types compared and extended as signed, signed extension
\* into an unsigned type, and guards it does not look at.
MlirDifferingPrograms ==
  {<<Ins("mad", "hi", U32, "r4", <<A(U32), B(U32), C(U32)>>)>>,
   <<From(U32, Ins("dp4a", "", S32, "r4", <<A(B32), B(B32), C(B32)>>))>>,
   <<Ins("setp", "lt", B32, "p3", <<A(B32), B(B32)>>)>>,
   <<From(B32, Ins("cvt", "", B16, "r3", <<A(B16)>>))>>,
   <<From(U32, Ins("cvt", "", S16, "r3", <<A(S16)>>))>>,
   <<If("p1", Ins("setp", "lt", U32, "p3", <<A(U32), B(U32)>>))>>,
   <<If("p1", From(U64, Ins("cvt", "", U32, "d3", <<A(U32)>>)))>>}

\* The compiled code divides although the guard does not hold.
GuardedDivision == {<<If("p1", Ins("div", "", S32, "r3", <<A(S32), B(S32)>>))>>}
-----------------------------------------------------------------------------

\* Registers that are read start from the edges of their width; the others
\* from a fixed pattern.
Samples == <<0, 1, Byte, 2 * Byte - 1, 4 * Byte - 1, 4 * Byte, 8 * Byte,
             8 * Byte + 1, -1, -2, -3, -4>>
Sample(w, n) ==
  CASE Samples[n] >= 0 -> Cut(Samples[n], w)
    [] Samples[n] = -1 -> Ones(w)
    [] Samples[n] = -2 -> Ones(w) - 1
    [] Samples[n] = -3 -> Lowest(w)
    [] Samples[n] = -4 -> Lowest(w) - 1
Fixed(w) == IF w = 1 THEN 0 ELSE 2 ^ w \div 3

RegistersRead(p) ==
  UNION {{p[n].src[k].name : k \in DOMAIN p[n].src} \cup {p[n].guard} : n \in DOMAIN p}
    \cap Registers
EdgeContents(p) ==
  LET preds == {r \in RegistersRead(p) : Width[r] = 1}
      data == RegistersRead(p) \ preds
  IN  {[r \in Registers |-> IF r \in data THEN Sample(Width[r], g[r])
                            ELSE IF r \in preds THEN b[r] ELSE Fixed(Width[r])] :
         g \in [data -> DOMAIN Samples], b \in [preds -> {0, 1}]}

-----------------------------------------------------------------------------
(* The run.                                                                *)
Resting == [state |-> "refused", regs |-> << >>]
ProgramRests ==
  /\ program = << >> /\ pc = 1 /\ interp = Resting /\ llvm = Resting /\ mlir = Resting
  /\ constants = {}
ConversionRests ==
  conv = << >> /\ interpCodes = << >> /\ llvmCodes = << >> /\ converted = TRUE

ArithmeticInit == \/ Init /\ ConversionRests
                  \/ ProgramRests /\ NarrowInit

ArithmeticNext == \/ Next /\ UNCHANGED narrowVars
                  \/ NarrowNext /\ UNCHANGED aluVars

ArithmeticSpec == ArithmeticInit /\ [][ArithmeticNext]_<<aluVars, narrowVars>>

\* The conversions of the run are of the kind that the theorems are about.
ASSUME AgreedAreConversions == \A c \in AgreedConversions : IsConversion(c)

\* And so are its programs and their registers.
ASSUME AgreedAreAgreed ==
  \A p \in AgreedPrograms :
    /\ \A n \in DOMAIN p : Agreed(p[n])
    /\ EdgeContents(p) \subseteq RegisterFiles
=============================================================================
