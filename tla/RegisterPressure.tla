--------------------------- MODULE RegisterPressure ---------------------------
(***************************************************************************)
(* max_live_regs and kernel_stats (rouge-cuda/src/occupancy.cpp): how many *)
(* registers a kernel needs, by backward data flow over its body.          *)
(*                                                                         *)
(* A body is a sequence of instructions [op, guarded, target, first, rest]:*)
(*   op      "ret", "bra", "bar", "st", "atom", "red", "setp", "call" or   *)
(*           "op" (everything else);                                       *)
(*   target  the position a bra goes to;                                   *)
(*   first   the register of the first operand, as a set ({} for a         *)
(*           predicate, a symbol or a literal), rest those of the others.  *)
(* A register of the model stands for registers that are used together;    *)
(* Weight is their size in 32-bit registers.                               *)
(***************************************************************************)
EXTENDS Naturals, Sequences, FiniteSetsExt

CONSTANTS Bodies,          \* the kernel bodies considered
          Regs,            \* declared registers other than predicates
          Weight,
          MaxPasses        \* 100000 in the code

Instructions ==
  [op : {"ret", "bra", "bar", "st", "atom", "red", "setp", "call", "op"},
   guarded : BOOLEAN, target : Nat, first : SUBSET Regs, rest : SUBSET Regs]

\* Labels name instructions of the body.
ASSUME BodyAssumption ==
  \A b \in Bodies :
    /\ b \in Seq(Instructions)
    /\ \A i \in DOMAIN b : b[i].op = "bra" => b[i].target \in DOMAIN b
ASSUME PassAssumption == MaxPasses \in Nat \ {0}
ASSUME RegAssumption == IsFiniteSet(Regs) /\ Weight \in [Regs -> Nat]

VARIABLES body,            \* the kernel asked about
          stage,           \* "flow", "refused" or "counted"
          at,              \* the instruction visited next; 0 ends a pass
          pass,            \* iter
          changes,         \* the positions this pass changed; none: ~changed
          liveIn, liveOut,
          numRegs          \* KernelStats::numRegs

flowVars == <<at, pass, changes, liveIn, liveOut>>
pressureVars == <<body, stage, flowVars, numRegs>>

Positions == DOMAIN body

\* Mutant of Uses: a store reads its address only.
UsesAddress(ins) == IF ins.op = "st" THEN ins.first
                    ELSE IF ins.op \in {"atom", "red"} THEN ins.rest \ ins.first
                    ELSE IF ins.op \in {"setp", "op"} THEN ins.rest ELSE {}

Uses(ins) == IF ins.op = "st" THEN ins.first \cup ins.rest
             ELSE IF ins.op \in {"atom", "red"} THEN ins.rest \ ins.first
             ELSE IF ins.op \in {"setp", "op"} THEN ins.rest ELSE {}

Defs(ins) == IF ins.op \in {"atom", "red", "op"} THEN ins.first ELSE {}

FallsThrough(ins) == ins.op # "ret" /\ (ins.op = "bra" => ins.guarded)

Succ(i) == {j \in Positions : \/ j = i + 1 /\ FallsThrough(body[i])
                              \/ body[i].op = "bra" /\ j = body[i].target}

\* The right-hand sides of the data-flow equations.
OutOf(i, in) == UNION {in[s] : s \in Succ(i)}
InOf(i, out) == Uses(body[i]) \cup (out \ Defs(body[i]))

\* No call: the analysis does not cross functions.
Applicable(b) == Len(b) > 0 /\ \A i \in DOMAIN b : b[i].op # "call"

PressureInit ==
  /\ body \in Bodies
  /\ stage = (IF Applicable(body) THEN "flow" ELSE "refused")
  /\ at = Len(body) /\ pass = 1 /\ changes = {}
  /\ liveIn = [i \in Positions |-> {}]
  /\ liveOut = [i \in Positions |-> {}]
  /\ numRegs = 0

\* Mutant of Visit: forgets to note the change.
VisitUnnoted ==
  /\ stage = "flow" /\ at > 0
  /\ liveOut' = [liveOut EXCEPT ![at] = @ \cup OutOf(at, liveIn)]
  /\ liveIn' = [liveIn EXCEPT ![at] = @ \cup InOf(at, liveOut'[at])]
  /\ at' = at - 1
  /\ UNCHANGED <<body, stage, pass, numRegs, changes>>

\* Mutant of Visit: no pass ever finds that nothing changed.
VisitRestless ==
  /\ stage = "flow" /\ at > 0
  /\ liveOut' = [liveOut EXCEPT ![at] = @ \cup OutOf(at, liveIn)]
  /\ liveIn' = [liveIn EXCEPT ![at] = @ \cup InOf(at, liveOut'[at])]
  /\ changes' = changes \cup {at}
  /\ at' = at - 1
  /\ UNCHANGED <<body, stage, pass, numRegs>>

Visit ==
  /\ stage = "flow" /\ at > 0
  /\ liveOut' = [liveOut EXCEPT ![at] = @ \cup OutOf(at, liveIn)]
  /\ liveIn' = [liveIn EXCEPT ![at] = @ \cup InOf(at, liveOut'[at])]
  /\ changes' = changes \cup
       (IF liveOut' = liveOut /\ liveIn' = liveIn THEN {} ELSE {at})
  /\ at' = at - 1
  /\ UNCHANGED <<body, stage, pass, numRegs>>

Again == changes # {} /\ pass < MaxPasses

NextPass ==
  /\ stage = "flow" /\ at = 0 /\ Again
  /\ at' = Len(body)
  /\ pass' = pass + 1
  /\ changes' = {}
  /\ UNCHANGED <<body, stage, liveIn, liveOut, numRegs>>

\* The 32-bit registers a set of registers stands for.
Units(S) == UNION {{r} \X (1 .. Weight[r]) : r \in S}
Size(S) == Cardinality(Units(S))
MaxLive == Max({Size(liveOut[i]) : i \in Positions} \cup {0})

\* declared_regs_bound
Declared == Size(Regs)

\* kernel_stats: the estimate, else the declarations, and at least one.
Count ==
  /\ \/ stage = "refused"
     \/ stage = "flow" /\ at = 0 /\ ~Again
  /\ numRegs' = LET live == IF stage = "flow" THEN MaxLive ELSE 0
                IN  Max({1, IF live > 0 THEN live ELSE Declared})
  /\ stage' = "counted"
  /\ UNCHANGED <<body, flowVars>>

PressureNext == Visit \/ NextPass \/ Count

PressureSpec == PressureInit /\ [][PressureNext]_pressureVars

-----------------------------------------------------------------------------
PressureTypeOK ==
  /\ body \in Bodies
  /\ stage \in {"flow", "refused", "counted"}
  /\ at \in 0 .. Len(body)
  /\ pass \in 1 .. MaxPasses
  /\ changes \subseteq Positions
  /\ liveIn \in [Positions -> SUBSET Regs]
  /\ liveOut \in [Positions -> SUBSET Regs]

Equations(in, out) ==
  \A i \in Positions : out[i] = OutOf(i, in) /\ in[i] = InOf(i, out[i])

(* When the passes end, the sets solve the data-flow equations: stopping   *)
(* at the first pass without a change (and not at MaxPasses) loses nothing.*)
Solved == (stage = "flow" /\ at = 0 /\ changes = {}) => Equations(liveIn, liveOut)

(* No register is ever taken for live that need not be: the sets are below *)
(* every solution of the equations, loops included.                        *)
BelowEverySolution ==
  \A in, out \in [Positions -> SUBSET Regs] :
    Equations(in, out) =>
      \A i \in Positions : liveIn[i] \subseteq in[i] /\ liveOut[i] \subseteq out[i]

(* The passes are bounded by the backward jumps of the body, and so the    *)
(* limit on passes is out of reach of real kernels.                        *)
Jumps == {e \in Positions \X Positions : e[2] \in Succ(e[1]) /\ e[2] <= e[1]}
FewPasses == pass <= Cardinality(Jumps) + 2

\* PTX's own rules: a guarded instruction may do nothing, and red reads its
\* operands and writes no register.
TrueUses(ins) ==
  IF ins.op \in {"st", "red"} THEN ins.first \cup ins.rest
  ELSE IF ins.op \in {"bar", "bra", "ret"} THEN {} ELSE ins.rest
TrueDefs(ins) ==
  IF ins.op \in {"atom", "op"} /\ ~ins.guarded THEN ins.first ELSE {}
TrueSucc(i) ==
  {j \in Positions : \/ j = i + 1 /\ (body[i].op \in {"ret", "bra"} => body[i].guarded)
                     \/ body[i].op = "bra" /\ j = body[i].target}

\* r holds a value behind instruction i that some path still reads.
Needed(r, i) ==
  \E n \in 1 .. Len(body) : \E p \in [1 .. n -> Positions] :
    /\ p[1] \in TrueSucc(i)
    /\ \A k \in 1 .. n - 1 : /\ p[k + 1] \in TrueSucc(p[k])
                             /\ r \notin TrueDefs(body[p[k]])
    /\ r \in TrueUses(body[p[n]])

(* numRegs is never less than the registers whose values some execution    *)
(* needs at the same time.                                                 *)
NeverUndercounts ==
  (stage = "counted" /\ Applicable(body)) =>
    \A i \in Positions : Size({r \in Regs : Needed(r, i)}) <= numRegs
=============================================================================
