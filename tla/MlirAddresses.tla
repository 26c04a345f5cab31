---------------------------- MODULE MlirAddresses ----------------------------
(***************************************************************************)
(* How the MLIR front end (mlir/lib/Frontend/PtxToRouge.cpp) recovers      *)
(* memref[index] from PTX address arithmetic: analyseAddresses says what   *)
(* every register holds and which instructions are not emitted, and        *)
(* emitInstruction and accessIndex rebuild the index.  A moving pointer,   *)
(* one that a loop steps, becomes a byte offset the loop carries.          *)
(*                                                                         *)
(* A kernel is [pre, loop]: instructions before a loop, and its body, run  *)
(* Turns times.  An instruction is [op, d, a, b, n, w]: d the destination, *)
(* a and b registers ("" for none), n an immediate, w the element's bytes. *)
(*   "param"  d := parameter n          "cvta"   d := a                    *)
(*   "shared" d := the shared variable  "tid"    d := the thread id        *)
(*   "const"  d := n                    "other"  d := a + n, any other op  *)
(*   "wide", "lo"  d := a * (b or n)    "add", "add32"  d := a + (b or n)  *)
(*   "cvt"    d := a                    "ld", "st", "atom"  access [a + n] *)
(* An address is [base, off], base 0 for a number; numbers are naturals.   *)
(* PTX and what is emitted run in lockstep, each on registers of its own.  *)
(***************************************************************************)
EXTENDS Naturals, Sequences, SequencesExt, FiniteSets, FiniteSetsExt, Functions

CONSTANTS Files,           \* sequences of kernels that one emitter translates
          ThreadId,        \* the thread id of the thread that runs
          Turns            \* bound: turns of the loop

VARIABLES kernel,          \* the last kernel of the file
          plan,            \* what the analysis has found
          pc, turn,
          regs, named,     \* PTX: registers, and the addresses accessed
          env, made,       \* emitted: values, and the elements accessed
          entry,           \* the registers that have a value where the loop begins
          refused          \* the front end reports an error

vars == <<kernel, plan, pc, turn, regs, named, env, made, entry, refused>>

-----------------------------------------------------------------------------
Code(k) == k.pre \o k.loop
Positions(k) == DOMAIN Code(k)
InsideLoop(k, i) == i > Len(k.pre)
HasLoop(k) == k.loop # << >>

Accesses == {"ld", "st", "atom"}
Sums == {"add", "add32"}
Dereferenced(k) == { Code(k)[i].a : i \in { j \in Positions(k) : Code(k)[j].op \in Accesses } }

\* dynAddr_: the registers that an addition in the loop steps and that are
\* dereferenced.
Moving(k) ==
  { d \in Dereferenced(k) :
      \E i \in Positions(k) : LET ins == Code(k)[i]
                              IN  InsideLoop(k, i) /\ ins.op \in Sums /\ ins.d = d
                                  /\ d \in {ins.a, ins.b} }

\* pointerParams_: parameters that additions lead to from a dereference.
AddressLike(k) ==
  LET sources(s) == s \cup UNION { {Code(k)[i].a, Code(k)[i].b} \ {""} :
                      i \in { j \in Positions(k) : Code(k)[j].op = "add" /\ Code(k)[j].d \in s } }
  IN  FoldLeftDomain(LAMBDA s, i : sources(s), Dereferenced(k), Code(k))
PointerParams(k) ==
  { Code(k)[i].d : i \in { j \in Positions(k) : Code(k)[j].op = "param" } }
  \cap UNION { {Code(k)[i].a, Code(k)[i].b} :
               i \in { j \in Positions(k) : Code(k)[j].op = "add" /\ Code(k)[j].d \in AddressLike(k) } }

\* constantAt: the constant that r holds before i, {} when it is none.
ConstantAt(k, r, i) ==
  LET defs == { j \in 1 .. i - 1 : Code(k)[j].d = r }
  IN  IF defs # {} /\ Code(k)[Max(defs)].op = "const" THEN {Code(k)[Max(defs)].n} ELSE {}

-----------------------------------------------------------------------------
(* What a register holds.  terms: more registers, each with its scale.     *)
Nothing == [kind |-> "none", base |-> 0, index |-> "", scale |-> 1, terms |-> << >>,
            const |-> 0, isThreadId |-> FALSE, dynamic |-> FALSE, steps |-> {}]
ParamPtr(p) == [Nothing EXCEPT !.kind = "param", !.base = p]
Address(b) == [Nothing EXCEPT !.kind = "address", !.base = b]
Offset(r, scale) == [Nothing EXCEPT !.kind = "offset", !.index = r, !.scale = scale]

Static(v) == v.index # "" \/ v.terms # << >> \/ v.const # 0

\* An address and an offset.
Shifted(p, o) ==
  LET first == p.index = "" /\ p.terms = << >>
  IN  [p EXCEPT !.index = IF first THEN o.index ELSE @,
                !.scale = IF first THEN o.scale ELSE @,
                !.terms = @ \o (IF first \/ o.index = "" THEN << >> ELSE <<<<o.index, o.scale>>>>)
                            \o o.terms,
                !.const = @ + o.const]

Holds(st, r) == IF r \in DOMAIN st.ptr THEN st.ptr[r] ELSE Nothing
Set(st, r, v) == [st EXCEPT !.ptr = [x \in DOMAIN @ \cup {r} |-> IF x = r THEN v ELSE @[x]]]
Skipped(st, i) == [st EXCEPT !.skip = @ \cup {i}]
Refuse(st) == [st EXCEPT !.ok = FALSE]

\* An instruction that redefines the offset of a moving pointer.
DynInit(st, i, init) == [st EXCEPT !.dyn = [x \in DOMAIN @ \cup {i} |-> IF x = i THEN init ELSE @[x]]]

\* promoteParamToAddress
Promoted(st, r) ==
  IF Holds(st, r).kind # "param" THEN st
  ELSE [Set(st, r, [Holds(st, r) EXCEPT !.kind = "address"])
          EXCEPT !.pointers = @ \cup {Holds(st, r).base}]

-----------------------------------------------------------------------------
(* analyseAddresses, one instruction at a time.                            *)

\* The base of an address: in the loop it starts a moving pointer over.
Based(k, i, st, v) ==
  LET d == Code(k)[i].d
  IN  IF d \in st.moving /\ InsideLoop(k, i)
      THEN DynInit(Set(st, d, [v EXCEPT !.dynamic = TRUE]), i,
                   [rebase |-> TRUE, src |-> "", n |-> 0, scale |-> 1])
      ELSE Skipped(Set(st, d, v), i)

Cvta(k, i, st) ==
  LET v == Holds(st, Code(k)[i].a)
  IN  IF v.kind # "param" THEN Refuse(st)
      ELSE Based(k, i, [st EXCEPT !.pointers = @ \cup {v.base}], Address(v.base))

\* A register that a step needs is emitted at once, from an index that has no
\* value yet.
Product(k, i, st) ==
  LET ins == Code(k)[i]
      of == Holds(st, ins.a)
      by == IF ins.b = "" THEN {ins.n} ELSE ConstantAt(k, ins.b, i)
      inner == IF ins.op = "lo" /\ of.kind = "offset" THEN of.scale ELSE 1
  IN  IF by # {} /\ ins.d \in st.needed /\ inner * Max(by) # 1 THEN Refuse(st)
      ELSE IF by # {}
      THEN Set(st, ins.d, [Offset(ins.a, inner * Max(by))
                             EXCEPT !.const = IF of.kind = "offset" THEN of.const ELSE 0])
      ELSE IF ins.op = "lo" /\ Holds(st, ins.d).kind = "none"
      THEN Set(st, ins.d, Offset(ins.d, 1))
      ELSE st

\* A step %p = %p + x of a moving pointer, or a rebase %p = base + x.
Move(k, i, st) ==
  LET ins == Code(k)[i]
      step == ins.d \in {ins.a, ins.b}
      aIsBase == Holds(st, ins.a).kind = "address" /\ ~Holds(st, ins.a).dynamic
      other == IF step THEN (IF ins.a = ins.d THEN ins.b ELSE ins.a)
               ELSE IF aIsBase THEN ins.b ELSE ins.a
      from == IF step THEN Holds(st, ins.d)
              ELSE Holds(st, IF other = ins.b THEN ins.a ELSE ins.b)
      x == Holds(st, other)
      plain == x.kind = "offset" /\ x.index # "" /\ x.terms = << >> /\ x.const = 0
  IN  IF \/ from.kind # "address"
         \/ (~step /\ from.dynamic)
         \/ (other # "" /\ ~plain)
      THEN Refuse(st)
      ELSE DynInit(
             Set([st EXCEPT !.needed = @ \cup (IF other = "" THEN {} ELSE {x.index})], ins.d,
                 [from EXCEPT !.index = "", !.terms = << >>, !.const = 0,
                              !.steps = @ \cup {IF other = "" THEN ins.n ELSE x.scale}]),
             i, [rebase |-> ~step, src |-> IF other = "" THEN "" ELSE x.index,
                 n |-> ins.n, scale |-> IF other = "" THEN 1 ELSE x.scale])

\* A sum in the static structure.
Add(k, i, st) ==
  LET ins == Code(k)[i]
      a == Holds(st, ins.a)
      b == Holds(st, ins.b)
      d == Holds(st, ins.d)
      put(v) == Skipped(Set(st, ins.d, v), i)
  IN  IF HasLoop(k) /\ d.kind = "address" /\ Static(d) /\ ins.d \in {ins.a, ins.b}
      THEN Refuse(st)
      ELSE IF a.kind = "address" /\ b.kind = "offset" THEN put(Shifted(a, b))
      ELSE IF b.kind = "address" /\ a.kind = "offset" THEN put(Shifted(b, a))
      ELSE IF a.kind = "address" /\ ins.b = "" THEN put([a EXCEPT !.const = @ + ins.n])
      ELSE st

Moves(k, i, st) ==
  LET d == Code(k)[i].d
  IN  d \in st.moving /\ InsideLoop(k, i) /\ Holds(st, d).kind = "address"

Sum32(k, i, st) == IF Moves(k, i, st) THEN Move(k, i, st) ELSE Add(k, i, st)

\* The wide form makes a parameter the base of an address.
Sum(k, i, st) ==
  Sum32(k, i, FoldLeft(LAMBDA s, r : IF r \in st.bases THEN Promoted(s, r) ELSE s,
                       st, <<Code(k)[i].a, Code(k)[i].b>>))

\* A conversion: the candidate survives, and its index is the destination; an
\* address keeps its static structure only.
Converted(d, v) ==
  CASE v.kind = "offset" -> [v EXCEPT !.index = d]
    [] v.kind = "address" -> [v EXCEPT !.dynamic = FALSE, !.steps = {}]
    [] OTHER -> Offset(d, 1)

Candidate(st, d) == IF d = "" \/ Holds(st, d).kind # "none" THEN st ELSE Set(st, d, Offset(d, 1))

\* Mutant of WholeElements: the steps are not looked at.
AnyStep(steps, bytes) == TRUE

WholeElements(steps, bytes) == \A s \in steps : s % bytes = 0

\* The block of the atomics does not recognise an immediate (*end == '\\0').
Immediate(ins) == IF ins.op = "atom" THEN 0 ELSE ins.n

Access(k, i, st0) ==
  LET ins == Code(k)[i]
      st == Promoted(Candidate(st0, ins.d), ins.a)
      v == Holds(st, ins.a)
      moves == v.dynamic \/ ins.a \in st.moving
  IN  IF v.kind # "address" \/ (moves /\ ~WholeElements(v.steps, ins.w)) THEN Refuse(st)
      ELSE [st EXCEPT !.access =
              [x \in DOMAIN @ \cup {i} |->
                 IF x = i THEN [base |-> v.base, index |-> v.index, scale |-> v.scale,
                                terms |-> v.terms, const |-> v.const + Immediate(ins), bytes |-> ins.w,
                                dyn |-> IF moves THEN ins.a ELSE "",
                                isThreadId |-> v.index # "" /\ Holds(st, v.index).isThreadId]
                 ELSE @[x]]]

Analyse1(k, i, st) ==
  LET ins == Code(k)[i]
  IN  IF ~st.ok THEN st
      ELSE CASE ins.op = "param" -> Set(st, ins.d, ParamPtr(ins.n))
             [] ins.op = "shared" -> Based(k, i, st, Address(ins.n))
             [] ins.op = "cvta" -> Cvta(k, i, st)
             [] ins.op \in {"wide", "lo"} -> Product(k, i, st)
             [] ins.op = "add" -> Sum(k, i, st)
             [] ins.op = "add32" -> Sum32(k, i, st)
             [] ins.op = "cvt" -> Set(st, ins.d, Converted(ins.d, Holds(st, ins.a)))
             [] ins.op = "tid" -> Set(st, ins.d, [Offset(ins.d, 1) EXCEPT !.isThreadId = TRUE])
             [] ins.op \in {"const", "other"} -> Candidate(st, ins.d)
             [] ins.op \in Accesses -> Access(k, i, st)

\* What a kernel leaves in the emitter: emitKernel clears ptrValue_, access_
\* and skip_; the moving pointers, their definitions, the registers these need,
\* the bases of addresses and the parameters that are pointers stay.
Fresh == [moving |-> {}, dyn |-> << >>, needed |-> {}, bases |-> {}, pointers |-> {}]
Analyse(k, left) ==
  FoldLeftDomain(LAMBDA st, i : Analyse1(k, i, st),
                 [ptr |-> << >>, skip |-> {}, access |-> << >>, ok |-> TRUE, dyn |-> left.dyn,
                  moving |-> left.moving \cup Moving(k), needed |-> left.needed,
                  bases |-> left.bases \cup PointerParams(k), pointers |-> left.pointers],
                 Code(k))
AnalyseFile(file) == FoldLeft(LAMBDA left, k : Analyse(k, left), Fresh, file)

\* The element type of a buffer is that of an access to it: the others agree,
\* or the module is not valid.
OneElementType(st) ==
  \A i, j \in DOMAIN st.access :
    st.access[i].base = st.access[j].base => st.access[i].bytes = st.access[j].bytes

\* inferTypes: the width of a register is that of the last one that writes it.
Is32(k, r) ==
  LET defs == { i \in Positions(k) : Code(k)[i].d = r }
  IN  defs # {} /\ Code(k)[Max(defs)].op \in {"add32", "shared"}

-----------------------------------------------------------------------------
(* Execution: PTX, and what is emitted.                                    *)
Number(n) == [base |-> 0, off |-> n]
Plus(x, y) == [base |-> x.base + y.base, off |-> x.off + y.off]
Shared == 9                      \* the base of the shared variable

PtxValue(ins, rg) ==
  CASE ins.op = "param" -> [base |-> ins.n, off |-> 0]
    [] ins.op = "shared" -> [base |-> ins.n, off |-> 0]
    [] ins.op \in {"cvta", "cvt"} -> rg[ins.a]
    [] ins.op = "tid" -> Number(ThreadId)
    [] ins.op \in {"const"} \cup Accesses -> Number(ins.n)
    [] ins.op = "other" -> Plus(rg[ins.a], Number(ins.n))
    [] ins.op \in {"wide", "lo"} ->
         Number(rg[ins.a].off * (IF ins.b = "" THEN ins.n ELSE rg[ins.b].off))
    [] ins.op \in Sums -> Plus(rg[ins.a], IF ins.b = "" THEN Number(ins.n) ELSE rg[ins.b])

Reads(ins) == IF ins.op \in Accesses THEN {} ELSE {ins.a, ins.b} \ {""}

With(e, r, v) == [x \in DOMAIN e \cup {r} |-> IF x = r THEN v ELSE e[x]]

\* materializeOffset: the registers it needs, and the value.
Terms(v) == (IF v.index = "" THEN << >> ELSE <<<<v.index, v.scale>>>>) \o v.terms
Needs(v) == { t[1] : t \in Range(Terms(v)) }
ByteOffset(v, e) == FoldLeft(LAMBDA n, t : n + e[t[1]].off * t[2], v.const, Terms(v))

\* The definition of a moving pointer's offset.  None: not understood.
StepOffset(init, d, e) ==
  LET add == IF init.src = "" THEN {init.n}
             ELSE IF init.src \in DOMAIN e THEN {e[init.src].off * init.scale} ELSE {}
      static == Holds(plan, d)
      old == IF init.rebase THEN {0}
             ELSE IF d \in DOMAIN e THEN {e[d].off}
             ELSE IF static.kind = "address" /\ ~static.dynamic /\ Needs(static) \subseteq DOMAIN e
             THEN {ByteOffset(static, e)} ELSE {}
  IN  { x + y : x \in old, y \in add }

\* The part of an index that does not move (and the mutant of ElementIndex).
StaticIndex(acc, e) ==
  LET divides == \A t \in Range(Terms(acc)) : t[2] % acc.bytes = 0
  IN  IF Needs(acc) \subseteq DOMAIN e /\ divides /\ acc.const % acc.bytes = 0
      THEN {ByteOffset(acc, e) \div acc.bytes} ELSE {}

\* accessIndex: the element, none when the index is not understood.
ElementIndex(acc, e) ==
  LET moved == IF acc.dyn = "" THEN {0}
               ELSE IF acc.dyn \in DOMAIN e THEN {e[acc.dyn].off \div acc.bytes} ELSE {}
  IN  IF acc.isThreadId /\ acc.terms = << >>
      THEN IF acc.scale = acc.bytes /\ acc.const % acc.bytes = 0
           THEN {ThreadId + acc.const \div acc.bytes} ELSE {}
      ELSE { x + y : x \in StaticIndex(acc, e), y \in moved }

\* The value of an instruction, none when an operand has no value.
HasOperands(ins, e) == Reads(ins) \subseteq DOMAIN e
EmittedValue(ins, e) == IF HasOperands(ins, e) THEN {PtxValue(ins, e)} ELSE {}

\* The instruction is emitted, on the values e: [e, made, refused].
Emit(ins, i, e) ==
  LET unchanged == [env |-> e, made |-> made, refused |-> FALSE]
      fails == [unchanged EXCEPT !.refused = TRUE]
      value(v) == IF v = {} THEN fails
                  ELSE [unchanged EXCEPT !.env = With(e, ins.d, CHOOSE x \in v : TRUE)]
  IN  IF i \in DOMAIN plan.dyn
      THEN LET off == StepOffset(plan.dyn[i], ins.d, e)
           IN  value({ Number(o) : o \in off })
      ELSE IF i \in plan.skip \/ (ins.op = "param" /\ ins.n \in plan.pointers) THEN unchanged
      ELSE IF ins.op \in Accesses
      THEN LET acc == plan.access[i]
               idx == ElementIndex(acc, e)
           IN  IF idx = {} THEN fails
               ELSE [(IF ins.d # "" THEN value(EmittedValue(ins, e)) ELSE unchanged)
                       EXCEPT !.made = Append(@, [base |-> acc.base,
                                                  off |-> Max(idx) * acc.bytes])]
      ELSE value(EmittedValue(ins, e))

-----------------------------------------------------------------------------
Init == /\ \E file \in Files : kernel = Last(file) /\ plan = AnalyseFile(file)
        /\ pc = 1 /\ turn = 1
        /\ regs = << >> /\ named = << >>
        /\ env = << >> /\ made = << >>
        /\ entry = {}
        /\ refused = ~(plan.ok /\ OneElementType(plan))

Execute ==
  LET ins == Code(kernel)[pc]
      emitted == Emit(ins, pc, env)
  IN  /\ ~refused /\ pc \in Positions(kernel) /\ (InsideLoop(kernel, pc) => entry # {})
      /\ pc' = pc + 1
      /\ regs' = IF ins.d = "" THEN regs ELSE With(regs, ins.d, PtxValue(ins, regs))
      /\ named' = IF ins.op \in Accesses THEN Append(named, Plus(regs[ins.a], Number(ins.n)))
                  ELSE named
      /\ env' = emitted.env
      /\ made' = emitted.made
      /\ refused' = emitted.refused
      /\ UNCHANGED <<kernel, plan, turn, entry>>

\* emitLoop: what the loop carries has a value where it begins; a moving
\* pointer without one begins at 0, an offset of 64 bits.
EnterLoop ==
  /\ ~refused /\ pc = Len(kernel.pre) + 1 /\ turn = 1 /\ entry = {} /\ HasLoop(kernel)
  /\ LET before == { kernel.pre[i].d : i \in DOMAIN kernel.pre }
         inside == { kernel.loop[i].d : i \in DOMAIN kernel.loop }
         zero == ((before \cap inside) \cap plan.moving) \ (DOMAIN env \cup {""})
     IN  /\ env' = [r \in DOMAIN env \cup zero |-> IF r \in DOMAIN env THEN env[r] ELSE Number(0)]
         /\ entry' = DOMAIN env \cup zero \cup {""}
         /\ refused' = \E r \in zero : Is32(kernel, r)
  /\ UNCHANGED <<kernel, plan, pc, turn, regs, named, made>>

\* The loop turns: what it does not carry is computed again.
NextTurn ==
  /\ ~refused /\ pc = Len(Code(kernel)) + 1 /\ turn < Turns /\ HasLoop(kernel)
  /\ pc' = Len(kernel.pre) + 1
  /\ turn' = turn + 1
  /\ env' = Restrict(env, entry \cap DOMAIN env)
  /\ UNCHANGED <<kernel, plan, regs, named, made, entry, refused>>

Next ==
  \/ EnterLoop
  \/ Execute
  \/ NextTurn

Spec == Init /\ [][Next]_vars

-----------------------------------------------------------------------------
\* The recovered structure names what PTX names: a kernel that is translated
\* accesses the addresses the PTX accesses, in the same order, whether a
\* register is folded into the access or carried by the loop (accessIndex).
SameAddresses ==
  (~refused /\ pc = Len(Code(kernel)) + 1 /\ (turn = Turns \/ ~HasLoop(kernel))) => made = named
=============================================================================
