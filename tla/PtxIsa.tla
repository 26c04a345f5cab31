------------------------------- MODULE PtxIsa -------------------------------
(***************************************************************************)
(* The instructions of a kernel, cut down to what tells the two execution  *)
(* paths apart: one operation of each kind the paths treat differently     *)
(* (registers only, memory, control, barrier, warp shuffle), each with an  *)
(* optional guard predicate (@p, @!p).                                     *)
(*                                                                         *)
(* An instruction is a record:                                             *)
(*   op    "add"   d := a + k           (mov, arithmetic, logic, cvt ...)  *)
(*         "setp"  p := a < k                                              *)
(*         "ld"    d := mem[a + k]                                         *)
(*         "st"    mem[a + k] := b                                         *)
(*         "atom"  d := mem[a + k], mem[a + k] += b, indivisibly           *)
(*         "red"   mem[a + k] += b, indivisibly                            *)
(*         "shfl"  d := b of the lane whose index is this one's xor k      *)
(*         "bra"   go to instruction k                                     *)
(*         "bar"   bar.sync                                                *)
(*         "ret"   ret, exit                                               *)
(*   guard "always", "if" (@p) or "unless" (@!p)                           *)
(*   d, a, b  registers:  "z" is 0, "t" the thread's index, "r" and "s"    *)
(*         are free.                                                       *)
(* Registers and memory cells hold one machine word, 0 .. Word - 1, and    *)
(* every word is the address of a cell.                                    *)
(***************************************************************************)
EXTENDS Naturals, Sequences

CONSTANTS Kernels,         \* the kernels considered
          Word             \* 2^32 in the code

VARIABLE kernel            \* the kernel being run, chosen once

ASSUME WordAssumption == Word \in Nat \ {0}

Registers == {"z", "t", "r", "s"}
Ops == {"add", "setp", "ld", "st", "atom", "red", "shfl", "bra", "bar", "ret"}
Instructions == [op : Ops, guard : {"always", "if", "unless"},
                 d : Registers, a : Registers, b : Registers, k : Nat]

\* Labels resolve to instructions of the body (one at its very end is
\* refused by the translation).
ASSUME KernelAssumption ==
  \A body \in Kernels :
    /\ body \in Seq(Instructions)
    /\ \A n \in DOMAIN body :
         body[n].op = "bra" => body[n].k \in 1 .. Len(body)

Words == 0 .. (Word - 1)
Addresses == Words

FreshRegs(t) == [reg \in Registers |-> IF reg = "t" THEN t % Word ELSE 0]
FreshMem == [c \in Addresses |-> 0]

\* Does the guard let this instruction run, p being the predicate register?
Passes(ins, p) == \/ ins.guard = "always"
                  \/ ins.guard = "if" /\ p
                  \/ ins.guard = "unless" /\ ~p

Sum(x, y) == (x + y) % Word
Address(ins, rg) == Sum(rg[ins.a], ins.k)

\* What the destination register is given; peer is the shuffled-in value.
Result(ins, rg, mem, peer) ==
  CASE ins.op = "add" -> Sum(rg[ins.a], ins.k)
    [] ins.op \in {"ld", "atom"} -> mem[Address(ins, rg)]
    [] ins.op = "shfl" -> peer

Writes(ins) == ins.op \in {"add", "ld", "atom", "shfl"}
Compare(ins, rg) == rg[ins.a] < ins.k

\* Memory after the instruction.
Stored(ins, rg, mem) ==
  CASE ins.op = "st" -> [mem EXCEPT ![Address(ins, rg)] = rg[ins.b]]
    [] ins.op \in {"atom", "red"} ->
         [mem EXCEPT ![Address(ins, rg)] = Sum(@, rg[ins.b])]
    [] OTHER -> mem

=============================================================================
