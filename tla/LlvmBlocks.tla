----------------------------- MODULE LlvmBlocks -----------------------------
(***************************************************************************)
(* How LlvmGen (rouge-compiler/src/ptx_to_llvm.cpp) cuts a PTX body into   *)
(* LLVM basic blocks: build_block_names, then one pass over the body that  *)
(* prints the label of a block where it begins, the code of each           *)
(* instruction, and its terminator.                                        *)
(*                                                                         *)
(* A body is [ins, at]: ins the instructions, at[l] the position of label  *)
(* l.  An instruction is [op, target, guarded], op "bra", "ret" or         *)
(* "other".  Labels are numbers, in the order of the label map.  A block   *)
(* name is a pair <<kind, number>>.                                        *)
(*                                                                         *)
(* The printed IR is a sequence of items: the label of a block, the code   *)
(* of an instruction (empty for a terminator), br with its targets, ret.   *)
(***************************************************************************)
EXTENDS Naturals, Sequences, FiniteSets, FiniteSetsExt

CONSTANT Bodies            \* the kernel bodies considered

VARIABLES body,            \* chosen once
          i,               \* next instruction to emit
          out,             \* the IR printed so far
          needRet,         \* need_ret_block_
          failed,          \* *error was set
          done

vars == <<body, i, out, needRet, failed, done>>

Len1 == Len(body.ins)
Ins == body.ins[i]
Labels == DOMAIN body.at

-----------------------------------------------------------------------------
\* Mutants of IsTerminator: a guarded branch falls through; ret is no end.
IsTerminatorUnguarded(ins) == ins.op = "ret" \/ (ins.op = "bra" /\ ~ins.guarded)
IsTerminatorBranchOnly(ins) == ins.op = "bra"

IsTerminator(ins) == ins.op \in {"bra", "ret"}

\* The first label of the map that names position n.
LabelsAt(n) == {l \in Labels : body.at[l] = n}
LabelAt(n) == Min(LabelsAt(n))

\* build_block_names: a block begins at a label and behind a terminator.
BeginsBlock(n) == n = 1 \/ LabelsAt(n) # {} \/ IsTerminator(body.ins[n - 1])
BlockName(n) ==
  LET first == Max({m \in 1 .. n : BeginsBlock(m)})
  IN  IF LabelsAt(first) # {} THEN <<"b", LabelAt(first)>>
      ELSE IF first = 1 THEN <<"entry", 0>> ELSE <<"ba", first>>

RetBlock == <<"b_ret", 0>>

Label(name) == [k |-> "label", name |-> name]
Code(n) == [k |-> "code", at |-> n]
Br(targets) == [k |-> "br", to |-> targets]
RetItem == [k |-> "ret"]

\* emit_allocas: the entry block, and a jump to the first one if it is named.
Prologue == IF BlockName(1) = <<"entry", 0>> THEN <<>> ELSE << Br({BlockName(1)}) >>

\* A label is printed where the block name changes.
Header == IF i > 1 /\ BlockName(i) # BlockName(i - 1)
            THEN << Label(BlockName(i)) >> ELSE <<>>

Init == /\ body \in Bodies
        /\ i = 1
        /\ out = Prologue
        /\ needRet = FALSE /\ failed = FALSE /\ done = FALSE

More(op) == i <= Len1 /\ Ins.op = op

Emit(items) == /\ out' = out \o Header \o <<Code(i)>> \o items
               /\ i' = i + 1
               /\ UNCHANGED <<body, done>>

EmitOther ==
  /\ More("other")
  /\ Emit(IF i = Len1 THEN <<RetItem>>
          ELSE IF BlockName(i + 1) # BlockName(i) THEN << Br({BlockName(i + 1)}) >>
          ELSE <<>>)
  /\ UNCHANGED <<needRet, failed>>

EmitRet ==
  /\ More("ret")
  /\ Emit(<<RetItem>>)
  /\ UNCHANGED <<needRet, failed>>

EmitBranch ==
  /\ More("bra") /\ Ins.target \in Labels
  /\ LET fall == IF i < Len1 THEN BlockName(i + 1) ELSE RetBlock
         target == <<"b", Ins.target>>
     IN  /\ Emit(<< Br(IF Ins.guarded THEN {target, fall} ELSE {target}) >>)
         /\ needRet' = (needRet \/ (Ins.guarded /\ i = Len1))
  /\ UNCHANGED failed

\* "branch to an undefined label": fail() records the message, nothing is
\* printed, and the pass goes on.
EmitUndefined ==
  /\ More("bra") /\ Ins.target \notin Labels
  /\ Emit(<<>>)
  /\ failed' = TRUE
  /\ UNCHANGED needRet

Finish ==
  /\ ~done /\ i > Len1
  /\ out' = out \o (IF needRet THEN <<Label(RetBlock), RetItem>> ELSE <<>>)
  /\ done' = TRUE
  /\ UNCHANGED <<body, i, needRet, failed>>

Next == EmitOther \/ EmitRet \/ EmitBranch \/ EmitUndefined \/ Finish

Spec == Init /\ [][Next]_vars

\* What the callers take for the kernel: any text that is not empty.
Accepted == done /\ out # <<>>

-----------------------------------------------------------------------------
Positions == 1 .. Len(out)
Exit == 0

\* Where control goes on entry to the named block: the instructions (or the
\* exit) printed behind its label.
Entered(name) ==
  { IF out[p + 1].k = "code" THEN out[p + 1].at ELSE Exit :
      p \in {q \in Positions : out[q] = Label(name)} }

\* Where control goes from item p of the IR.
Flow(p) ==
  CASE out[p].k = "code" -> {out[p].at}
    [] out[p].k = "ret" -> {Exit}
    [] out[p].k = "br" -> UNION {Entered(name) : name \in out[p].to}
    [] OTHER -> {}                   \* running into a label is not allowed

PtxFlow(n) ==
  LET ins == body.ins[n]
      next == IF n < Len1 THEN n + 1 ELSE Exit
  IN  CASE ins.op = "ret" -> {Exit}
        [] ins.op = "bra" -> {body.at[ins.target]}
                             \cup (IF ins.guarded THEN {next} ELSE {})
        [] OTHER -> {next}

(* The blocks have the control flow of the PTX body: the code starts with  *)
(* its first instruction, and from the code of every instruction control   *)
(* goes to the same instructions as in PTX.  (What a guarded ret does is   *)
(* PathAgreement's subject.)                                               *)
FlowPreserved ==
  (Accepted /\ ~failed) =>
    /\ Flow(1) = {1}
    /\ \A p \in Positions : out[p].k = "code" =>
         Flow(p + 1) = PtxFlow(out[p].at)

(* Blocks are well formed: each has one terminator, at its end.            *)
OneTerminator ==
  (Accepted /\ ~failed) =>
    \A p \in Positions :
      out[p].k \in {"br", "ret"} <=> (p = Len(out) \/ out[p + 1].k = "label")
=============================================================================
