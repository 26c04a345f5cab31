--------------------------- MODULE MlirStructure ----------------------------
(***************************************************************************)
(* The structuriser of the MLIR front end (mlir/lib/Frontend/              *)
(* PtxToRouge.cpp: emitBody, emitRange, emitLoop): a flat PTX body becomes *)
(* scf.if and scf.while, or is refused.  The flat body runs step by step;  *)
(* when it has halted, what it has put out is compared with what the       *)
(* structured program puts out.                                            *)
(*                                                                         *)
(* An instruction is [op, d, reads, pred, to]: "inc" d := read + 1, "copy", *)
(* "lt"/"ge" (setp on two registers), "out" (a store of a register), "bra" *)
(* to a position, "ret"; pred is the predicate of a branch, "" for none.   *)
(* A node of the structured program is an instruction, an if or a while.   *)
(***************************************************************************)
EXTENDS Naturals, Sequences, SequencesExt, FiniteSets, FiniteSetsExt

CONSTANTS Kernels,         \* [body, given]: kernels and values of their parameters
          MaxSteps         \* bound: steps of the flat run, turns of the loops

VARIABLES body,
          structured,      \* what the front end makes of it
          given,           \* the parameters
          pc, regs, out, steps  \* the flat run

vars == <<body, structured, given, pc, regs, out, steps>>

-----------------------------------------------------------------------------
(* The front end.  have is the set of registers that have a value.         *)

Compares == {"lt", "ge"}
WritesRegister(ins) == ins.op \in {"inc", "copy"} \cup Compares

\* The loops: header -> the branch that closes it (the last of them).
LoopBack(b) ==
  LET closing(h) == { i \in DOMAIN b : b[i].op = "bra" /\ b[i].to = h /\ h < i }
  IN  [h \in { b[i].to : i \in { j \in DOMAIN b : b[j].op = "bra" /\ b[j].to < j } }
         |-> Max(closing(h))]

\* Mutant of LiveAfter: the scan ends at the next branch.
LiveInBlock(b, r, from) ==
  \E k \in from .. Len(b) :
    /\ r \in b[k].reads
    /\ \A j \in from .. k - 1 : b[j].op # "bra" /\ ~(WritesRegister(b[j]) /\ b[j].d = r)

\* Is r read behind from, before anything writes it?
LiveAfter(b, r, from) ==
  \E k \in from .. Len(b) :
    /\ r \in b[k].reads
    /\ \A j \in from .. k - 1 : ~(WritesRegister(b[j]) /\ b[j].d = r)

Defines(b, lo, hi) == { b[k].d : k \in { j \in lo .. hi - 1 : WritesRegister(b[j]) } }

Refused == [ok |-> FALSE, code |-> << >>, have |-> {}]
Emitted(code, have) == [ok |-> TRUE, code |-> code, have |-> have]

\* Mutant of Erased: stale values stay.
NothingErased(defined, carried) == {}

\* Registers that have no value behind a region.
Erased(defined, carried) == defined \ carried

\* The block a guard at position i runs, and where the code goes on.
\*   @p bra L; <block>; L:          or          @p bra L; bra E; L: <block>; E:
GuardOf(b, i, hi) ==
  IF i + 1 < b[i].to /\ b[i + 1].op = "bra" /\ b[i + 1].pred = ""
  THEN [taken |-> TRUE, lo |-> b[i].to, end |-> Min({b[i + 1].to, hi}),
        bad |-> b[i + 1].to < b[i].to \/ b[i].to > i + 2]
  ELSE [taken |-> FALSE, lo |-> i + 1, end |-> b[i].to, bad |-> FALSE]

\* The branch that leaves a loop closed by an unconditional branch (0: none).
ExitOf(b, header, back) ==
  LET exits == { k \in header .. back - 1 :
                   b[k].op = "bra" /\ b[k].pred # "" /\ b[k].to > back }
  IN  IF exits = {} THEN 0 ELSE Min(exits)

RECURSIVE EmitRange(_, _, _, _, _)

\* What follows node on the way from next to hi.
Then(node, b, next, hi, skips, have) ==
  LET rest == EmitRange(b, next, hi, skips, have)
  IN  IF rest.ok THEN Emitted(<<node>> \o rest.code, rest.have) ELSE Refused

EmitGuard(b, i, hi, skips, have) ==
  LET g == GuardOf(b, i, hi)
      defined == Defines(b, g.lo, g.end)
      carried == { r \in defined : LiveAfter(b, r, g.end) }
      block == EmitRange(b, g.lo, g.end, skips, have)
  IN  IF \/ b[i].to <= i \/ b[i].to > hi \/ g.bad
         \/ b[i].pred \notin have \/ ~(carried \subseteq have)
         \/ ~block.ok \/ ~(carried \subseteq block.have)
      THEN Refused
      ELSE Then([op |-> "if", pred |-> b[i].pred, taken |-> g.taken,
                 code |-> block.code, carried |-> carried],
                b, g.end, hi, skips,
                (block.have \cup carried) \ Erased(defined, carried))

\* emitLoop: the condition is the branch that closes the loop, or leaves it.
EmitLoop(b, header, back, hi, skips, have) ==
  LET exit == IF b[back].pred = "" THEN ExitOf(b, header, back) ELSE 0
      pred == IF b[back].pred # "" THEN b[back].pred
              ELSE IF exit = 0 THEN "" ELSE b[exit].pred
      setps == { k \in header .. back - 1 : b[k].op \in Compares /\ b[k].d = pred }
      setp == Min(setps)
      defined == Defines(b, header, back)
      before == { b[k].d : k \in 1 .. header - 1 }
      carried == ((defined \ {pred}) \cap before) \cap have
      inner == EmitRange(b, header, back, {setp, exit}, have \cup {pred})
  IN  IF pred = "" \/ setps = {} THEN Refused
      ELSE IF ~(b[setp].reads \subseteq have) \/ ~inner.ok THEN Refused
      ELSE Then([op |-> "while", setp |-> b[setp], inverted |-> exit # 0,
                 code |-> inner.code, carried |-> carried,
                 kept |-> carried \cap inner.have],
                b, back + 1, hi, skips,
                (inner.have \cup carried) \ Erased(defined, carried))

\* emitRange: the instructions lo .. hi - 1, in the order they stand.
EmitRange(b, lo, hi, skips, have) ==
  IF lo >= hi THEN Emitted(<< >>, have)
  ELSE IF lo \in skips THEN EmitRange(b, lo + 1, hi, skips, have)
  ELSE LET back == LoopBack(b)
           ins == b[lo]
       IN  CASE lo \in DOMAIN back /\ back[lo] < hi ->
                  EmitLoop(b, lo, back[lo], hi, skips, have)
             [] ~(lo \in DOMAIN back /\ back[lo] < hi) /\ ins.op = "bra" /\ ins.pred # "" ->
                  EmitGuard(b, lo, hi, skips, have)
             [] ~(lo \in DOMAIN back /\ back[lo] < hi) /\ ins.op = "bra" /\ ins.pred = "" ->
                  IF ins.to = hi THEN Emitted(<< >>, have) ELSE Refused
             [] ins.op = "ret" -> EmitRange(b, lo + 1, hi, skips, have)
             [] OTHER ->
                  IF ~(ins.reads \subseteq have) THEN Refused
                  ELSE Then(ins, b, lo + 1, hi, skips,
                            IF WritesRegister(ins) THEN have \cup {ins.d} ELSE have)

EmitBody(b, have) == EmitRange(b, 1, Len(b) + 1, {}, have)

-----------------------------------------------------------------------------
(* Runs.                                                                   *)
Read(ins, rg) == rg[CHOOSE r \in ins.reads : TRUE]

\* A comparison is of a register with the parameter n.
Compared(ins, rg) == rg[CHOOSE r \in ins.reads : r # "n"]
Value(ins, rg) ==
  CASE ins.op = "inc" -> Read(ins, rg) + 1
    [] ins.op = "copy" -> Read(ins, rg)
    [] ins.op = "lt" -> IF Compared(ins, rg) < rg["n"] THEN 1 ELSE 0
    [] ins.op = "ge" -> IF Compared(ins, rg) >= rg["n"] THEN 1 ELSE 0

After(ins, rg) == IF WritesRegister(ins) THEN [rg EXCEPT ![ins.d] = Value(ins, rg)] ELSE rg
Put(ins, rg, o) == IF ins.op = "out" THEN Append(o, Read(ins, rg)) ELSE o

\* The structured program.  seen is the set of registers whose values are
\* visible at a node, torn says that one that is not has been read.
RECURSIVE Run(_, _), WhileTurns(_, _)

Outside(inside, s, carried, kept) ==
  [inside EXCEPT !.regs = [r \in DOMAIN s.regs |->
                             IF r \in carried \cap kept THEN inside.regs[r] ELSE s.regs[r]],
                 !.seen = s.seen \cup carried]

RunNode(node, s) ==
  CASE node.op = "if" ->
         LET inside == IF (s.regs[node.pred] = 1) = node.taken THEN Run(node.code, s) ELSE s
         IN  [Outside(inside, s, node.carried, node.carried)
                EXCEPT !.torn = @ \/ node.pred \notin s.seen]
    [] node.op = "while" -> WhileTurns(node, s)
    [] OTHER ->
         [s EXCEPT !.regs = After(node, s.regs), !.out = Put(node, s.regs, s.out),
                   !.torn = @ \/ ~(node.reads \subseteq s.seen),
                   !.seen = IF WritesRegister(node) THEN @ \cup {node.d} ELSE @]

WhileTurns(node, s) ==
  LET tested == RunNode(node.setp, s)
      goes == (tested.regs[node.setp.d] = 1) # node.inverted
      turned == Outside(Run(node.code, [tested EXCEPT !.seen = s.seen]), s,
                        node.carried, node.kept)
  IN  IF ~goes \/ s.turns = 0 THEN [tested EXCEPT !.seen = s.seen, !.regs = s.regs]
      ELSE WhileTurns(node, [turned EXCEPT !.turns = @ - 1])

Run(code, s) == IF code = << >> THEN s ELSE Run(Tail(code), RunNode(Head(code), s))

\* A register that has not been written holds something; here 0.
Registers == {"a", "n", "x", "y", "z", "p", "q"}
Extended(rg) == [r \in Registers |-> IF r \in DOMAIN rg THEN rg[r] ELSE 0]

Structured == Run(structured.code,
                  [regs |-> Extended(given), out |-> << >>, seen |-> DOMAIN given,
                   torn |-> FALSE, turns |-> MaxSteps])

Init == /\ \E k \in Kernels : body = k.body /\ given = k.given
        /\ structured = EmitBody(body, DOMAIN given)
        /\ pc = 1 /\ out = << >> /\ steps = 0
        /\ regs = Extended(given)

Halted == pc > Len(body)

Step ==
  LET ins == body[pc]
  IN  /\ ~Halted /\ steps < MaxSteps
      /\ pc' = CASE ins.op = "ret" -> Len(body) + 1
                 [] ins.op = "bra" /\ (ins.pred = "" \/ regs[ins.pred] = 1) -> ins.to
                 [] OTHER -> pc + 1
      /\ regs' = After(ins, regs)
      /\ out' = Put(ins, regs, out)
      /\ steps' = steps + 1
      /\ UNCHANGED <<body, structured, given>>

Next == Step

Spec == Init /\ [][Next]_vars

-----------------------------------------------------------------------------
\* The front end keeps the meaning: a body it accepts puts out, once it has
\* been structured, what the flat body has put out when it halts
\* (emitRange, emitLoop: branches become regions and registers become values).
SameOutput == (Halted /\ structured.ok) => Structured.out = out

\* No value is used where it is not visible: what a region computes stays in
\* it unless the region carries it out (liveAfter, and the erasures of
\* regValue_ behind every scf.if and scf.while).
ValuesAreVisible == (pc = 1 /\ structured.ok) => ~Structured.torn
=============================================================================
