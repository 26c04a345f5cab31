----------------------------- MODULE PtxInterp ------------------------------
(***************************************************************************)
(* The reference interpreter: run_thread_step under the CTA scheduler      *)
(* (rouge-ptx/ptx.cpp).  Each of the scheduler's steps of a thread now     *)
(* executes the thread's next instruction, and the instruction decides     *)
(* which step it is.                                                       *)
(*                                                                         *)
(* The guard is tested before anything else: an instruction whose guard    *)
(* fails does nothing but move on, whatever it is.  A shuffle reads the    *)
(* neighbour's register as it is at that moment.                           *)
(*                                                                         *)
(* sent and got are history variables: the source register of a thread,    *)
(* and the value it was given, at each shuffle it executed in its block.   *)
(***************************************************************************)
EXTENDS CtaScheduler, PtxIsa

CONSTANT Shared            \* the cells of the scratchpad; others are buffers

ASSUME SharedAssumption == Shared \subseteq Addresses

VARIABLES pc, regs, pred,  \* the threads' ExecState
          mem,             \* scratchpad and buffers
          sent, got        \* history

data == <<pc, regs, pred, mem, sent, got>>
interpVars == <<vars, kernel, data>>

\* A fresh ExecState per thread.
FreshPc == [t \in Threads |-> 1]
FreshRegisters == [t \in Threads |-> FreshRegs(t)]
FreshPred == [t \in Threads |-> FALSE]

InterpInit == /\ Init
              /\ kernel \in Kernels
              /\ pc = FreshPc /\ regs = FreshRegisters /\ pred = FreshPred
              /\ mem = FreshMem
              /\ sent = [t \in Threads |-> <<>>]
              /\ got = [t \in Threads |-> <<>>]

-----------------------------------------------------------------------------
InBody == pc[i] <= Len(kernel)
Ins == kernel[pc[i]]
Taken == InBody /\ Passes(Ins, pred[i])

\* The register of the lane addressed by a .bfly shuffle; a lane beyond the
\* block keeps its own value.
Xor(x, k) == IF k = 0 THEN x ELSE IF x % 2 = 0 THEN x + 1 ELSE x - 1
SourceLane(t) == IF Xor(t, Ins.k) < N THEN Xor(t, Ins.k) ELSE t
\* Mutant of Peer: the neighbour's destination register.
PeerDestination == regs[SourceLane(i)][Ins.d]

Peer == regs[SourceLane(i)][Ins.b]

NextPc == pc' = [pc EXCEPT ![i] = @ + 1]

\* "program counter out of range (missing ret?)".
RunOff ==
  /\ Fault
  /\ ~InBody
  /\ UNCHANGED <<kernel, data>>

\* Predicate gate: val == negate.
GatedOff ==
  /\ Advance
  /\ InBody /\ ~Taken
  /\ NextPc
  /\ UNCHANGED <<kernel, regs, pred, mem, sent, got>>

Branch ==
  /\ Advance
  /\ Taken /\ Ins.op = "bra"
  /\ pc' = [pc EXCEPT ![i] = Ins.k]
  /\ UNCHANGED <<kernel, regs, pred, mem, sent, got>>

Setp ==
  /\ Advance
  /\ Taken /\ Ins.op = "setp"
  /\ pred' = [pred EXCEPT ![i] = Compare(Ins, regs[i])]
  /\ NextPc
  /\ UNCHANGED <<kernel, regs, mem, sent, got>>

\* Arithmetic, loads, stores, atomics: one indivisible step each.
Execute ==
  /\ Advance
  /\ Taken /\ Ins.op \in {"add", "ld", "st", "atom", "red"}
  /\ regs' = IF Writes(Ins)
               THEN [regs EXCEPT ![i][Ins.d] = Result(Ins, regs[i], mem, 0)]
               ELSE regs
  /\ mem' = Stored(Ins, regs[i], mem)
  /\ NextPc
  /\ UNCHANGED <<kernel, pred, sent, got>>

Shuffle ==
  /\ Advance
  /\ Taken /\ Ins.op = "shfl"
  /\ regs' = [regs EXCEPT ![i][Ins.d] = Peer]
  /\ sent' = [sent EXCEPT ![i] = Append(@, regs[i][Ins.b])]
  /\ got' = [got EXCEPT ![i] = Append(@, Peer)]
  /\ NextPc
  /\ UNCHANGED <<kernel, pred, mem>>

BarSync ==
  /\ Park
  /\ Taken /\ Ins.op = "bar"
  /\ NextPc
  /\ UNCHANGED <<kernel, regs, pred, mem, sent, got>>

Ret ==
  /\ Finish
  /\ Taken /\ Ins.op = "ret"
  /\ UNCHANGED <<kernel, data>>

\* A new block gets fresh thread states and a cleared scratchpad.
FreshBlock ==
  /\ pc' = FreshPc /\ regs' = FreshRegisters /\ pred' = FreshPred
  /\ mem' = [c \in Addresses |-> IF c \in Shared THEN 0 ELSE mem[c]]
  /\ sent' = [t \in Threads |-> <<>>]
  /\ got' = [t \in Threads |-> <<>>]

\* What the scheduler does between instructions.
Schedule ==
  /\ Skip \/ OutOfSteps \/ NextRound \/ EndBlock
  /\ IF block' = block \/ status' = "done" THEN UNCHANGED data ELSE FreshBlock
  /\ UNCHANGED kernel

InterpNext == \/ RunOff \/ GatedOff \/ Branch \/ Setp \/ Execute
              \/ Shuffle \/ BarSync \/ Ret \/ Schedule

InterpSpec == InterpInit /\ [][InterpNext]_interpVars

DataOK ==
  /\ kernel \in Kernels
  /\ pc \in [Threads -> 1 .. (Len(kernel) + 1)]
  /\ regs \in [Threads -> [Registers -> Words]]
  /\ pred \in [Threads -> BOOLEAN]
  /\ mem \in [Addresses -> Words]

InterpTypeOK == TypeOK /\ DataOK

(* A shuffle is one exchange of the warp, as it is on a machine whose      *)
(* lanes run in lockstep: the n-th shuffle of a lane gives it what its     *)
(* source lane offered at its own n-th shuffle, whichever of the two ran   *)
(* first.  (All the shuffles of our kernels swap neighbouring lanes.)      *)
ShuffleIsAnExchange ==
  \A t \in Threads : \A n \in 1 .. Len(got[t]) :
    LET u == IF Xor(t, 1) < N THEN Xor(t, 1) ELSE t
    IN  n <= Len(sent[u]) => got[t][n] = sent[u][n]

=============================================================================
