------------------------- MODULE PathAgreement_proofs -------------------------
(***************************************************************************)
(* Proofs about the execution of a kernel, for every block size, every     *)
(* grid size, every step budget and every kernel: first the interpreter's  *)
(* CTA scheduler by itself, whatever the threads do; then the instructions *)
(* (every step of one is one of the scheduler's steps, so everything       *)
(* proved of the scheduler holds for every kernel the interpreter runs);   *)
(* then the ahead-of-time path against the interpreter, for one block.     *)
(***************************************************************************)
EXTENDS PathAgreement, FiniteSetTheorems, SequenceTheorems, WellFoundedInduction, TLAPS

\* A parked thread is alive: an exited one is never waiting.
ParkedIsAlive == blocked \subseteq alive

\* The history agrees: the survivors of the block are at the same barrier and
\* nobody who exited had crossed more of them.
EpochsAgree ==
  \A t \in Threads, u \in alive : /\ epoch[t] <= epoch[u]
                                  /\ t \in alive => epoch[t] = epoch[u]

\* anyAlive is faithful: while it is FALSE the threads visited so far could
\* not be stepped, and the round has somebody left to step unless all exited.
RoundIsLive ==
  (status = "running" /\ ~anyAlive) =>
    /\ \A t \in Threads : t < i => ~Runnable(t)
    /\ alive # {} => \E t \in Threads : Runnable(t)

\* A round starts with the flag cleared.
RoundStartsClear == (status = "running" /\ i = 0) => ~anyAlive

IInv == /\ TypeOK
        /\ ParkedIsAlive
        /\ EpochsAgree
        /\ RoundIsLive
        /\ RoundStartsClear
        /\ SuccessMeansFinished

-----------------------------------------------------------------------------
LEMMA InitInv == Init => IInv
<1> SUFFICES ASSUME Init PROVE IInv
  OBVIOUS
<1> USE NAssumption, BlocksAssumption DEF Init, Threads, Runnable
<1>1. TypeOK
  <2>1. anyAlive \in BOOLEAN
    OBVIOUS
  <2>2. epoch \in [Threads -> Nat]
    OBVIOUS
  <2> QED
    BY <2>1, <2>2 DEF TypeOK
<1>2. ParkedIsAlive /\ EpochsAgree
  BY DEF ParkedIsAlive, EpochsAgree
<1>3. RoundIsLive /\ RoundStartsClear /\ SuccessMeansFinished
  BY DEF RoundIsLive, RoundStartsClear, SuccessMeansFinished
<1> QED
  BY <1>1, <1>2, <1>3 DEF IInv

\* A block whose round stepped nobody has no thread left: the fact on which
\* both the end of a block and the end of the launch rest.
LEMMA IdleRoundIsOver ==
  ASSUME IInv, status = "running", i = N, ~anyAlive
  PROVE  alive = {}
<1>1. \A t \in Threads : t < i
  BY NAssumption DEF Threads, IInv, TypeOK
<1> QED
  BY <1>1 DEF IInv, RoundIsLive

LEMMA TypeStep == IInv /\ [Next]_vars => TypeOK'
<1> SUFFICES ASSUME IInv, [Next]_vars PROVE TypeOK'
  OBVIOUS
<1> USE NAssumption DEF IInv, TypeOK, Threads
<1>1. CASE Skip
  BY <1>1 DEF Skip
<1>2. CASE Advance
  BY <1>2 DEF Advance, Step
<1>3. CASE Park
  BY <1>3 DEF Park, Step
<1>4. CASE Finish
  BY <1>4 DEF Finish, Step
<1>5. CASE Fault
  BY <1>5 DEF Fault, Step
<1>6. CASE OutOfSteps
  BY <1>6 DEF OutOfSteps
<1>7. CASE NextRound
  <2>1. epoch' \in [Threads -> Nat]
    BY <1>7 DEF NextRound
  <2>2. anyAlive' \in BOOLEAN /\ blocked' \subseteq Threads
    BY <1>7 DEF NextRound
  <2> QED
    BY <1>7, <2>1, <2>2 DEF NextRound
<1>8. CASE EndBlock
  <2>1. epoch' \in [Threads -> Nat] /\ anyAlive' \in BOOLEAN
    BY <1>8 DEF EndBlock
  <2>2. alive' \subseteq Threads /\ blocked' \subseteq Threads
    BY <1>8 DEF EndBlock
  <2>3. i' \in 0 .. N /\ steps' \in Nat /\ block' \in Nat
    BY <1>8 DEF EndBlock
  <2>4. status' \in {"running", "done", "failed"}
    BY <1>8 DEF EndBlock
  <2> QED
    BY <2>1, <2>2, <2>3, <2>4
<1>9. CASE UNCHANGED vars
  BY <1>9 DEF vars
<1> QED
  BY <1>1, <1>2, <1>3, <1>4, <1>5, <1>6, <1>7, <1>8, <1>9 DEF Next

LEMMA StepInv == IInv /\ [Next]_vars => IInv'
<1> SUFFICES ASSUME IInv, [Next]_vars PROVE IInv'
  OBVIOUS
<1>t. TypeOK'
  BY TypeStep
<1> USE NAssumption DEF IInv, TypeOK, Threads
<1>1. ParkedIsAlive' /\ EpochsAgree'
  <2> USE DEF ParkedIsAlive, EpochsAgree
  <2>1. CASE Skip \/ Advance \/ Fault \/ OutOfSteps
    BY <2>1 DEF Skip, Advance, Fault, OutOfSteps, Step
  <2>2. CASE Park
    BY <2>2 DEF Park, Step, Runnable
  <2>3. CASE Finish
    BY <2>3 DEF Finish, Step, Runnable
  <2>4. CASE NextRound
    <3>1. CASE AllBlocked
      <4>1. alive' = alive /\ blocked' = {}
        BY <2>4, <3>1 DEF NextRound
      <4>2. \A t \in Threads : epoch'[t] = IF t \in blocked THEN epoch[t] + 1
                                                            ELSE epoch[t]
        BY <2>4, <3>1 DEF NextRound
      <4>3. blocked = alive
        BY <3>1 DEF AllBlocked
      <4> QED
        BY <4>1, <4>2, <4>3
    <3>2. CASE ~AllBlocked
      <4>1. UNCHANGED <<alive, blocked, epoch>>
        BY <2>4, <3>2 DEF NextRound
      <4> QED
        BY <4>1
    <3> QED
      BY <3>1, <3>2
  <2>5. CASE EndBlock
    <3>1. CASE block + 1 < Blocks
      <4>1. alive' = Threads /\ blocked' = {} /\ epoch' = [t \in Threads |-> 0]
        BY <2>5, <3>1 DEF EndBlock
      <4> QED
        BY <4>1
    <3>2. CASE ~(block + 1 < Blocks)
      BY <2>5, <3>2 DEF EndBlock
    <3> QED
      BY <3>1, <3>2
  <2>6. CASE UNCHANGED vars
    BY <2>6 DEF vars
  <2> QED
    BY <2>1, <2>2, <2>3, <2>4, <2>5, <2>6 DEF Next
<1>2. RoundIsLive' /\ RoundStartsClear'
  <2> USE DEF RoundIsLive, RoundStartsClear, Runnable
  <2>1. CASE Skip
    BY <2>1 DEF Skip
  <2>2. CASE Advance \/ Park \/ Finish \/ Fault \/ OutOfSteps
    BY <2>2 DEF Advance, Park, Finish, Fault, OutOfSteps, Step
  <2>3. CASE NextRound
    <3>1. CASE AllBlocked
      <4>1. i' = 0 /\ ~anyAlive' /\ alive' = alive /\ blocked' = {}
        BY <2>3, <3>1 DEF NextRound
      <4>2. \A t \in Threads : ~(t < i')
        BY <4>1
      <4>3. alive' # {} => \E t \in Threads : t \in alive' \ blocked'
        BY <4>1
      <4> QED
        BY <4>1, <4>2, <4>3
    <3>2. CASE ~AllBlocked
      BY <2>3, <3>2 DEF NextRound, AllBlocked
    <3> QED
      BY <3>1, <3>2
  <2>4. CASE EndBlock
    BY <2>4 DEF EndBlock
  <2>5. CASE UNCHANGED vars
    BY <2>5 DEF vars
  <2> QED
    BY <2>1, <2>2, <2>3, <2>4, <2>5 DEF Next
<1>3. SuccessMeansFinished'
  <2> USE DEF SuccessMeansFinished
  <2>1. CASE EndBlock
    BY <2>1, IdleRoundIsOver DEF EndBlock
  <2>2. CASE ~EndBlock
    BY <2>2 DEF Next, vars, Skip, Advance, Park, Finish, Fault, OutOfSteps,
                Step, NextRound
  <2> QED
    BY <2>1, <2>2
<1> QED
  BY <1>t, <1>1, <1>2, <1>3

(* The invariant the other theorems use holds in every reachable state.    *)
THEOREM Invariance == Spec => []IInv
BY InitInv, StepInv, PTL DEF Spec

-----------------------------------------------------------------------------
(* Type correctness of the scheduler's state.                              *)
THEOREM TypeCorrect == Spec => []TypeOK
<1>1. IInv => TypeOK
  BY DEF IInv
<1> QED
  BY Invariance, <1>1, PTL

(* execute_kernel returns true only when every thread has run to its ret.  *)
THEOREM SuccessIsCompletion == Spec => []SuccessMeansFinished
<1>1. IInv => SuccessMeansFinished
  BY DEF IInv
<1> QED
  BY Invariance, <1>1, PTL

(* Between rounds the barrier never leaves the block with everyone parked: *)
(* the interpreter cannot deadlock at a barrier.                           *)
THEOREM NeverStuck == Spec => []SomeoneCanRun
<1>1. IInv => SomeoneCanRun
  BY DEF IInv, SomeoneCanRun, RoundIsLive, RoundStartsClear
<1> QED
  BY Invariance, <1>1, PTL

(* The next block of the grid never starts over threads that still run.    *)
THEOREM BlocksAreCompleted == Spec => NoThreadAbandoned
<1>1. IInv /\ [Next]_vars => [block' # block => alive = {}]_vars
  BY IdleRoundIsOver DEF Next, vars, Skip, Advance, Park, Finish, Fault,
     OutOfSteps, Step, NextRound, EndBlock
<1> QED
  BY Invariance, <1>1, PTL DEF Spec, NoThreadAbandoned

-----------------------------------------------------------------------------
LEMMA InitRefines == Init => Barrier!Init
BY DEF Init, Barrier!Init, ThreadState

LEMMA StepRefines == IInv /\ [Next]_vars => [Barrier!Next]_(Barrier!vars)
<1> SUFFICES ASSUME IInv, [Next]_vars PROVE [Barrier!Next]_(Barrier!vars)
  OBVIOUS
<1> USE NAssumption DEF IInv, TypeOK, ThreadState
<1>1. CASE Skip \/ Advance \/ Fault \/ OutOfSteps \/ UNCHANGED vars
  <2>1. UNCHANGED <<alive, blocked, epoch>>
    BY <1>1 DEF Skip, Advance, Fault, OutOfSteps, Step, vars
  <2> QED
    BY <2>1 DEF Barrier!vars
<1>2. CASE Park
  <2>1. i \in Threads /\ i \in alive /\ i \notin blocked
    BY <1>2 DEF Park, Step, Runnable, Threads
  <2>2. Barrier!Arrive(i)
    BY <1>2, <2>1 DEF Park, Barrier!Arrive
  <2> QED
    BY <2>1, <2>2 DEF Barrier!Next, Barrier!Arrive
<1>3. CASE Finish
  <2>1. i \in Threads /\ i \in alive /\ i \notin blocked
    BY <1>3 DEF Finish, Step, Runnable, Threads
  <2>2. Barrier!Exit(i)
    BY <1>3, <2>1 DEF Finish, Barrier!Exit
  <2> QED
    BY <2>1, <2>2 DEF Barrier!Next, Barrier!Exit
<1>4. CASE NextRound
  <2>1. CASE ~AllBlocked
    <3>1. UNCHANGED <<alive, blocked, epoch>>
      BY <1>4, <2>1 DEF NextRound
    <3> QED
      BY <3>1 DEF Barrier!vars
  <2>0. AllBlocked => blocked = alive
    BY DEF AllBlocked, ParkedIsAlive
  <2>2. CASE AllBlocked /\ alive # {}
    <3>1. Barrier!Release
      BY <1>4, <2>0, <2>2 DEF NextRound, Barrier!Release
    <3> QED
      BY <3>1 DEF Barrier!Next
  <2>3. CASE alive = {}
    <3>1. alive' = {} /\ epoch' = epoch
      BY <1>4, <2>0, <2>3 DEF NextRound
    <3> QED
      BY <2>3, <3>1 DEF Barrier!vars
  <2> QED
    BY <2>1, <2>2, <2>3
<1>5. CASE EndBlock
  <2>1. alive = {}
    BY <1>5, IdleRoundIsOver DEF EndBlock
  <2>2. CASE block + 1 < Blocks
    <3>1. Barrier!NextBlock
      BY <1>5, <2>1, <2>2 DEF EndBlock, Barrier!NextBlock
    <3> QED
      BY <3>1 DEF Barrier!Next
  <2>3. CASE ~(block + 1 < Blocks)
    BY <1>5, <2>3 DEF EndBlock, Barrier!vars
  <2> QED
    BY <2>2, <2>3
<1> QED
  BY <1>1, <1>2, <1>3, <1>4, <1>5 DEF Next

(* The interpreter implements the block barrier: whatever the kernel, what *)
(* its threads see of bar.sync is what BlockBarrier allows.                *)
THEOREM SchedulerImplementsBarrier == Spec => BarrierSpec
BY InitRefines, StepRefines, Invariance, PTL
   DEF Spec, BarrierSpec, Barrier!Spec

(* Two living threads of a block are never on different sides of a         *)
(* barrier, and no exited thread had run ahead of a living one.            *)
THEOREM BarrierSeparatesPhases == Spec => [](Synchronised /\ NoRunAhead)
<1>1. IInv => Synchronised /\ NoRunAhead
  BY DEF IInv, EpochsAgree, Synchronised, NoRunAhead, Barrier!Synchronised,
         Barrier!NoRunAhead, ThreadState
<1> QED
  BY Invariance, <1>1, PTL

-----------------------------------------------------------------------------
\* The interpreter runs its threads under the scheduler.
LEMMA StepIsScheduled == [InterpNext]_interpVars => [Next]_vars
<1> SUFFICES ASSUME [InterpNext]_interpVars
             PROVE  [Next]_vars
  OBVIOUS
<1>1. CASE RunOff
  BY <1>1 DEF RunOff, Next
<1>2. CASE GatedOff \/ Branch \/ Setp \/ Execute \/ Shuffle
  BY <1>2 DEF GatedOff, Branch, Setp, Execute, Shuffle, Next
<1>3. CASE BarSync
  BY <1>3 DEF BarSync, Next
<1>4. CASE Ret
  BY <1>4 DEF Ret, Next
<1>5. CASE Schedule
  BY <1>5 DEF Schedule, Next
<1>6. CASE UNCHANGED interpVars
  BY <1>6 DEF interpVars
<1> QED
  BY <1>1, <1>2, <1>3, <1>4, <1>5, <1>6 DEF InterpNext

(* A run of the interpreter is a run of the scheduler.                     *)
THEOREM InterpIsScheduled == InterpSpec => Spec
  BY StepIsScheduled, PTL DEF InterpSpec, InterpInit, Spec

(* A kernel whose launch reports success has been run to its ret by every  *)
(* thread.                                                                 *)
THEOREM KernelSuccessIsCompletion == InterpSpec => []SuccessMeansFinished
  BY InterpIsScheduled, SuccessIsCompletion, PTL

(* bar.sync as the interpreter executes it keeps the block together, for   *)
(* every kernel.                                                           *)
THEOREM KernelBarriersSynchronise == InterpSpec => []Synchronised
  BY InterpIsScheduled, BarrierSeparatesPhases, PTL

-----------------------------------------------------------------------------
\* What an instruction computes from words is a word.
LEMMA SumIsWord == \A x, y \in Nat : Sum(x, y) \in Words
  BY WordAssumption DEF Sum, Words

LEMMA WordsAreNat == Words \subseteq Nat /\ 0 \in Words
  BY WordAssumption DEF Words

LEMMA InsIsInstruction ==
  ASSUME TypeOK, DataOK, Step, InBody
  PROVE  /\ i \in Threads
         /\ Ins \in Instructions
         /\ pc[i] + 1 \in 1 .. (Len(kernel) + 1)
         /\ Ins.op = "bra" => Ins.k \in 1 .. (Len(kernel) + 1)
<1>1. i \in Threads
  BY DEF TypeOK, Step, Runnable
<1>2. kernel \in Seq(Instructions) /\ Len(kernel) \in Nat
  BY KernelAssumption DEF DataOK
<1>3. pc[i] \in 1 .. Len(kernel) /\ pc[i] \in DOMAIN kernel
  BY <1>1, <1>2 DEF DataOK, InBody
<1>4. Ins \in Instructions
  BY <1>2, <1>3 DEF Ins
<1>5. Ins.op = "bra" => Ins.k \in 1 .. Len(kernel)
  BY <1>3, KernelAssumption DEF DataOK, Ins
<1> QED
  BY <1>1, <1>2, <1>3, <1>4, <1>5

\* Fresh thread states are well typed, whichever kernel they are to run.
LEMMA FreshIsWords ==
  ASSUME kernel \in Kernels
  PROVE  /\ FreshPc \in [Threads -> 1 .. (Len(kernel) + 1)]
         /\ FreshRegisters \in [Threads -> [Registers -> Words]]
         /\ FreshPred \in [Threads -> BOOLEAN]
<1>1. kernel \in Seq(Instructions) /\ Len(kernel) \in Nat
  BY KernelAssumption
<1>2. FreshPc \in [Threads -> 1 .. (Len(kernel) + 1)]
  BY <1>1 DEF FreshPc
<1>3. \A t \in Threads : FreshRegs(t) \in [Registers -> Words]
  <2> SUFFICES ASSUME NEW t \in Threads
               PROVE  t % Word \in Words /\ 0 \in Words
    BY DEF FreshRegs
  <2> QED
    BY WordAssumption, NAssumption DEF Words, Threads
<1> QED
  BY <1>2, <1>3 DEF FreshRegisters, FreshPred

LEMMA DataInit == InterpInit => DataOK
<1> SUFFICES ASSUME InterpInit
             PROVE  DataOK
  OBVIOUS
<1>1. FreshMem \in [Addresses -> Words]
  BY WordsAreNat DEF FreshMem
<1> QED
  BY <1>1, FreshIsWords DEF InterpInit, DataOK

LEMMA DataStep == TypeOK /\ DataOK /\ [InterpNext]_interpVars => DataOK'
<1> SUFFICES ASSUME TypeOK, DataOK, [InterpNext]_interpVars
             PROVE  DataOK'
  OBVIOUS
<1>1. CASE RunOff
  BY <1>1 DEF RunOff, data, DataOK
<1>2. CASE GatedOff
  <2>1. i \in Threads /\ pc[i] + 1 \in 1 .. (Len(kernel) + 1)
    BY <1>2, InsIsInstruction DEF GatedOff, Advance
  <2> QED
    BY <1>2, <2>1 DEF GatedOff, NextPc, DataOK
<1>3. CASE Branch
  <2>1. i \in Threads /\ Ins.k \in 1 .. (Len(kernel) + 1)
    BY <1>3, InsIsInstruction DEF Branch, Advance, Taken
  <2> QED
    BY <1>3, <2>1 DEF Branch, DataOK
<1>4. CASE Setp
  <2>1. i \in Threads /\ pc[i] + 1 \in 1 .. (Len(kernel) + 1)
    BY <1>4, InsIsInstruction DEF Setp, Advance, Taken
  <2>2. Compare(Ins, regs[i]) \in BOOLEAN
    BY DEF Compare
  <2>3. pred' \in [Threads -> BOOLEAN]
    BY <1>4, <2>1, <2>2, Zenon DEF Setp, DataOK
  <2>4. pc' \in [Threads -> 1 .. (Len(kernel) + 1)]
    BY <1>4, <2>1 DEF Setp, NextPc, DataOK
  <2> QED
    BY <1>4, <2>3, <2>4 DEF Setp, DataOK
<1>5. CASE Execute
  <2>1. /\ i \in Threads
        /\ Ins \in Instructions
        /\ pc[i] + 1 \in 1 .. (Len(kernel) + 1)
    BY <1>5, InsIsInstruction DEF Execute, Advance, Taken
  <2>2. regs[i] \in [Registers -> Words]
    BY <2>1 DEF DataOK
  <2>3. /\ Ins.d \in Registers
        /\ regs[i][Ins.a] \in Nat /\ regs[i][Ins.b] \in Words
        /\ Ins.k \in Nat
    BY <2>1, <2>2, WordsAreNat DEF Instructions
  <2>4. Address(Ins, regs[i]) \in Addresses
    BY <2>3, SumIsWord DEF Address, Addresses
  <2>5. mem[Address(Ins, regs[i])] \in Words
    BY <2>4 DEF DataOK
  <2>6. Writes(Ins) => Result(Ins, regs[i], mem, 0) \in Words
    BY <1>5, <2>3, <2>5, SumIsWord DEF Execute, Writes, Result
  <2>7. regs' \in [Threads -> [Registers -> Words]]
    BY <1>5, <2>1, <2>2, <2>3, <2>6 DEF Execute, DataOK
  <2>8. Sum(mem[Address(Ins, regs[i])], regs[i][Ins.b]) \in Words
    BY <2>3, <2>5, SumIsWord, WordsAreNat
  <2>9. mem' \in [Addresses -> Words]
    BY <1>5, <2>3, <2>4, <2>8 DEF Execute, Stored, DataOK
  <2>10. pc' \in [Threads -> 1 .. (Len(kernel) + 1)]
    BY <1>5, <2>1 DEF Execute, NextPc, DataOK
  <2> QED
    BY <1>5, <2>7, <2>9, <2>10 DEF Execute, DataOK
<1>6. CASE Shuffle
  <2>1. /\ i \in Threads
        /\ Ins \in Instructions
        /\ pc[i] + 1 \in 1 .. (Len(kernel) + 1)
    BY <1>6, InsIsInstruction DEF Shuffle, Advance, Taken
  <2>2. SourceLane(i) \in Threads
    BY <2>1, NAssumption DEF SourceLane, Xor, Threads
  <2>3. Ins.d \in Registers /\ Ins.b \in Registers
    BY <2>1 DEF Instructions
  <2>4. Peer \in Words
    BY <2>2, <2>3 DEF Peer, DataOK
  <2>5. regs' \in [Threads -> [Registers -> Words]]
    BY <1>6, <2>1, <2>3, <2>4 DEF Shuffle, DataOK
  <2>6. pc' \in [Threads -> 1 .. (Len(kernel) + 1)]
    BY <1>6, <2>1 DEF Shuffle, NextPc, DataOK
  <2> QED
    BY <1>6, <2>5, <2>6 DEF Shuffle, DataOK
<1>7. CASE BarSync
  <2>1. i \in Threads /\ pc[i] + 1 \in 1 .. (Len(kernel) + 1)
    BY <1>7, InsIsInstruction DEF BarSync, Park, Taken
  <2> QED
    BY <1>7, <2>1 DEF BarSync, NextPc, DataOK
<1>8. CASE Ret
  BY <1>8 DEF Ret, data, DataOK
<1>9. CASE Schedule
  BY <1>9, FreshIsWords, WordsAreNat DEF Schedule, FreshBlock, data, DataOK
<1>10. CASE UNCHANGED interpVars
  BY <1>10 DEF interpVars, data, DataOK
<1> QED
  BY <1>1, <1>2, <1>3, <1>4, <1>5, <1>6, <1>7, <1>8, <1>9, <1>10 DEF InterpNext

(* Registers and memory hold words and the program counter stays in the    *)
(* body (or right behind it), for every kernel.                            *)
THEOREM InterpTypeCorrect == InterpSpec => []InterpTypeOK
<1>1. InterpSpec => []TypeOK
  BY InterpIsScheduled, TypeCorrect, PTL
<1> QED
  BY <1>1, DataInit, DataStep, PTL DEF InterpSpec, InterpTypeOK
-----------------------------------------------------------------------------
(***************************************************************************)
(* Shuffles.  Neighbouring lanes that take their branches, barriers and    *)
(* shuffles alike stay in step: the scheduler visits one of them and then  *)
(* the other in every round, at the same instruction.                      *)
(***************************************************************************)

\* Every shuffle swaps neighbours and leaves the register it reads alone.
Exchanging ==
  \A body \in Kernels : \A n \in DOMAIN body :
    body[n].op = "shfl" => body[n].k = 1 /\ body[n].d # body[n].b

Neighbours(a, b) == a % 2 = 0 /\ b = a + 1

\* What PTX asks of a kernel that shuffles: at a branch, barrier or shuffle
\* neighbours that stand at it are let through both or neither.
Convergent ==
  \A a, b \in alive :
    (/\ Neighbours(a, b) /\ pc[a] = pc[b] /\ pc[a] \in DOMAIN kernel
     /\ kernel[pc[a]].op \in {"bra", "bar", "shfl"}) =>
       (Passes(kernel[pc[a]], pred[a]) <=> Passes(kernel[pc[a]], pred[b]))

Together(a, b) ==
  /\ pc[a] = pc[b]
  /\ a \in blocked <=> b \in blocked
  /\ Len(sent[a]) = Len(sent[b])

\* In this round a has executed ins, at which b still stands.
Ahead(ins, a, b) ==
  LET passed == Passes(ins, pred[b])
      n == Len(sent[b]) + 1
  IN  /\ pc[a] = (IF ins.op = "bra" /\ passed THEN ins.k ELSE pc[b] + 1)
      /\ a \in blocked <=> (ins.op = "bar" /\ passed)
      /\ IF ins.op = "shfl" /\ passed
           THEN /\ Len(sent[a]) = n
                /\ sent[a][n] = regs[a][ins.b]
                /\ got[a][n] = regs[b][ins.b]
           ELSE Len(sent[a]) = Len(sent[b])

InStep(a, b) ==
  (a \in alive /\ b \in alive) =>
    IF i = b /\ b \notin blocked
      THEN pc[b] \in DOMAIN kernel /\ Ahead(kernel[pc[b]], a, b)
      ELSE Together(a, b)

\* A lane that has exited has not shuffled more often than its neighbour.
StaysBehind(x, y) ==
  (x \notin alive /\ y \in alive) => Len(sent[x]) <= Len(sent[y])

HistoryOK ==
  /\ sent \in [Threads -> Seq(Words)]
  /\ got \in [Threads -> Seq(Words)]
  /\ \A t \in Threads : Len(got[t]) = Len(sent[t])

PairsInStep ==
  \A a, b \in Threads : Neighbours(a, b) =>
    InStep(a, b) /\ StaysBehind(a, b) /\ StaysBehind(b, a)

LaneInv == InterpTypeOK /\ HistoryOK /\ PairsInStep /\ ShuffleIsAnExchange

-----------------------------------------------------------------------------
\* The step of a thread that stays alive, whatever the instruction.
Moves ==
  LET passed == Passes(Ins, pred[i])
  IN  /\ i \in Threads /\ i \in alive /\ i \notin blocked
      /\ pc[i] \in DOMAIN kernel
      /\ i' = i + 1
      /\ alive' = alive /\ kernel' = kernel
      /\ blocked' = (IF Ins.op = "bar" /\ passed THEN blocked \cup {i} ELSE blocked)
      /\ pc' = [pc EXCEPT ![i] = IF Ins.op = "bra" /\ passed THEN Ins.k ELSE @ + 1]
      /\ \A t \in Threads \ {i} : regs'[t] = regs[t] /\ pred'[t] = pred[t]
      /\ IF Ins.op = "shfl" /\ passed
           THEN /\ Shuffle
                /\ Ins.k = 1 /\ Ins.b \in Registers
                /\ regs'[i][Ins.b] = regs[i][Ins.b]
           ELSE UNCHANGED <<sent, got>>

LEMMA StepMoves ==
  ASSUME InterpTypeOK, Exchanging,
         GatedOff \/ Branch \/ Setp \/ Execute \/ Shuffle \/ BarSync
  PROVE  Moves
<1>1. Step /\ InBody
  BY DEF GatedOff, Branch, Setp, Execute, Shuffle, BarSync, Advance, Park, Taken
<1>2. i \in Threads /\ Ins \in Instructions
  BY <1>1, InsIsInstruction DEF InterpTypeOK
<1>3. i \in alive /\ i \notin blocked
  BY <1>1 DEF Step, Runnable
<1>4. kernel \in Kernels /\ pc[i] \in DOMAIN kernel
  <2>1. kernel \in Seq(Instructions)
    BY KernelAssumption DEF InterpTypeOK, DataOK
  <2> QED
    BY <1>1, <1>2, <2>1 DEF InterpTypeOK, DataOK, InBody
<1>5. /\ i' = i + 1 /\ alive' = alive /\ kernel' = kernel
      /\ blocked' = (IF Ins.op = "bar" /\ Passes(Ins, pred[i])
                       THEN blocked \cup {i} ELSE blocked)
  BY <1>1 DEF GatedOff, Branch, Setp, Execute, Shuffle, BarSync, Advance, Park, Taken
<1>6. pc' = [pc EXCEPT ![i] = IF Ins.op = "bra" /\ Passes(Ins, pred[i])
                                THEN Ins.k ELSE @ + 1]
  BY <1>1 DEF GatedOff, Branch, Setp, Execute, Shuffle, BarSync, Taken, NextPc
<1>7. ASSUME NEW t \in Threads, t # i
      PROVE  regs'[t] = regs[t] /\ pred'[t] = pred[t]
  BY <1>2, <1>7 DEF GatedOff, Branch, Setp, Execute, Shuffle, BarSync,
                    InterpTypeOK, DataOK
<1>8. ASSUME Ins.op = "shfl", Passes(Ins, pred[i])
      PROVE  /\ Shuffle
             /\ Ins.k = 1 /\ Ins.b \in Registers
             /\ regs'[i][Ins.b] = regs[i][Ins.b]
  <2>1. Shuffle
    BY <1>1, <1>8 DEF GatedOff, Branch, Setp, Execute, BarSync, Taken
  <2>2. Ins.k = 1 /\ Ins.d # Ins.b
    BY <1>4, <1>8 DEF Exchanging, Ins
  <2>3. Ins.b \in Registers
    BY <1>2 DEF Instructions
  <2>4. regs[i] \in [Registers -> Words]
    BY <1>2 DEF InterpTypeOK, DataOK
  <2>5. regs'[i][Ins.b] = regs[i][Ins.b]
    BY <1>2, <2>1, <2>2, <2>3, <2>4 DEF Shuffle, InterpTypeOK, DataOK
  <2> QED
    BY <2>1, <2>2, <2>3, <2>5
<1>9. ~(Ins.op = "shfl" /\ Passes(Ins, pred[i])) => UNCHANGED <<sent, got>>
  BY DEF GatedOff, Branch, Setp, Execute, Shuffle, BarSync, Taken
<1> QED
  BY <1>2, <1>3, <1>4, <1>5, <1>6, <1>7, <1>8, <1>9 DEF Moves
-----------------------------------------------------------------------------
\* The lane whose register a shuffle reads.
Mate(t) == IF Xor(t, 1) < N THEN Xor(t, 1) ELSE t

LEMMA MateIsNeighbour ==
  ASSUME NEW t \in Threads
  PROVE  /\ Mate(t) \in Threads
         /\ Mate(t) = t \/ Neighbours(t, Mate(t)) \/ Neighbours(Mate(t), t)
         /\ Mate(Mate(t)) = t
BY NAssumption DEF Mate, Xor, Neighbours, Threads

\* What a shuffle adds to the history.
LEMMA ShuffleHistory ==
  ASSUME InterpTypeOK, HistoryOK, Moves, Ins.op = "shfl", Passes(Ins, pred[i])
  PROVE  LET n == Len(sent[i]) + 1
         IN  /\ HistoryOK'
             /\ \A t \in Threads \ {i} : sent'[t] = sent[t] /\ got'[t] = got[t]
             /\ Len(sent[i]) \in Nat /\ Len(sent'[i]) = n
             /\ \A m \in 1 .. Len(sent[i]) : /\ sent'[i][m] = sent[i][m]
                                             /\ got'[i][m] = got[i][m]
             /\ sent'[i][n] = regs[i][Ins.b]
             /\ got'[i][n] = regs[Mate(i)][Ins.b]
<1>1. i \in Threads /\ Shuffle /\ Ins.k = 1 /\ Ins.b \in Registers
  BY DEF Moves
<1>2. Peer = regs[Mate(i)][Ins.b]
  BY <1>1 DEF Peer, SourceLane, Mate
<1>3. regs[i][Ins.b] \in Words /\ Peer \in Words
  BY <1>1, <1>2, MateIsNeighbour DEF InterpTypeOK, DataOK
<1>4. /\ sent[i] \in Seq(Words) /\ got[i] \in Seq(Words)
      /\ Len(got[i]) = Len(sent[i]) /\ Len(sent[i]) \in Nat
  BY <1>1 DEF HistoryOK
<1>5. /\ sent'[i] = Append(sent[i], regs[i][Ins.b])
      /\ got'[i] = Append(got[i], Peer)
      /\ \A t \in Threads \ {i} : sent'[t] = sent[t] /\ got'[t] = got[t]
      /\ sent' \in [Threads -> Seq(Words)] /\ got' \in [Threads -> Seq(Words)]
  <2>1. /\ Append(sent[i], regs[i][Ins.b]) \in Seq(Words)
        /\ Append(got[i], Peer) \in Seq(Words)
    BY <1>3, <1>4, AppendProperties
  <2> QED
    BY <1>1, <2>1 DEF Shuffle, HistoryOK
<1>6. /\ Len(sent'[i]) = Len(sent[i]) + 1
      /\ \A m \in 1 .. Len(sent[i]) : sent'[i][m] = sent[i][m]
      /\ sent'[i][Len(sent[i]) + 1] = regs[i][Ins.b]
  BY <1>3, <1>4, <1>5, AppendProperties
<1>7. /\ Len(got'[i]) = Len(sent[i]) + 1
      /\ \A m \in 1 .. Len(sent[i]) : got'[i][m] = got[i][m]
      /\ got'[i][Len(sent[i]) + 1] = Peer
  BY <1>3, <1>4, <1>5, AppendProperties
<1>8. HistoryOK'
  BY <1>5, <1>6, <1>7 DEF HistoryOK
<1> QED
  BY <1>2, <1>4, <1>5, <1>6, <1>7, <1>8

LEMMA MovesHistory ==
  ASSUME InterpTypeOK, HistoryOK, Moves
  PROVE  HistoryOK'
<1>1. CASE Ins.op = "shfl" /\ Passes(Ins, pred[i])
  BY <1>1, ShuffleHistory
<1>2. CASE ~(Ins.op = "shfl" /\ Passes(Ins, pred[i]))
  BY <1>2 DEF Moves, HistoryOK
<1> QED
  BY <1>1, <1>2

-----------------------------------------------------------------------------
\* A lane stays alive by its own steps and by those of the others.
LEMMA OthersStay ==
  ASSUME InterpTypeOK, HistoryOK, Moves, NEW t \in Threads, t # i
  PROVE  /\ pc'[t] = pc[t] /\ regs'[t] = regs[t] /\ pred'[t] = pred[t]
         /\ sent'[t] = sent[t] /\ got'[t] = got[t]
         /\ t \in blocked' <=> t \in blocked
<1>1. sent'[t] = sent[t] /\ got'[t] = got[t]
  BY ShuffleHistory DEF Moves
<1>2. pc'[t] = pc[t]
  BY DEF Moves, InterpTypeOK, DataOK
<1> QED
  BY <1>1, <1>2 DEF Moves

\* The first lane of a pair moves: it was level with the other, and is now
\* one instruction ahead.
LEMMA FirstMoves ==
  ASSUME LaneInv, Convergent, Moves,
         NEW a \in Threads, NEW b \in Threads, Neighbours(a, b), a = i
  PROVE  InStep(a, b)'
<1> SUFFICES ASSUME b \in alive
             PROVE  (pc[b] \in DOMAIN kernel /\ Ahead(kernel[pc[b]], a, b))'
                    /\ i' = b /\ b \notin blocked'
  BY DEF InStep, Moves
<1>1. b # i /\ i' = b /\ a \in alive
  BY NAssumption DEF Neighbours, Moves, Threads
<1>2. Together(a, b) /\ b \notin blocked
  BY <1>1 DEF LaneInv, PairsInStep, InStep, Together, Moves
<1>3. /\ pc'[b] = pc[b] /\ regs'[b] = regs[b] /\ pred'[b] = pred[b]
      /\ sent'[b] = sent[b] /\ got'[b] = got[b] /\ b \notin blocked'
  BY <1>1, <1>2, OthersStay DEF LaneInv
<1>4. Ins = kernel[pc[b]] /\ pc[b] \in DOMAIN kernel /\ kernel' = kernel
  BY <1>2 DEF Ins, Together, Moves
<1>5. Ins.op \in {"bra", "bar", "shfl"} =>
        (Passes(Ins, pred[a]) <=> Passes(Ins, pred[b]))
  BY <1>1, <1>2, <1>4 DEF Convergent, Together
<1> DEFINE ins == kernel[pc[b]]
           passed == Passes(ins, pred[b])
<1>6. pc'[a] = (IF ins.op = "bra" /\ passed THEN ins.k ELSE pc[b] + 1)
  BY <1>2, <1>4, <1>5 DEF Moves, Together, LaneInv, InterpTypeOK, DataOK
<1>7. a \in blocked' <=> (ins.op = "bar" /\ passed)
  BY <1>4, <1>5 DEF Moves
<1>8. ASSUME ins.op = "shfl", passed
      PROVE  /\ Len(sent'[a]) = Len(sent[b]) + 1
             /\ sent'[a][Len(sent[b]) + 1] = regs'[a][ins.b]
             /\ got'[a][Len(sent[b]) + 1] = regs[b][ins.b]
  <2>1. Ins.op = "shfl" /\ Passes(Ins, pred[i]) /\ Len(sent[a]) = Len(sent[b])
    BY <1>2, <1>4, <1>5, <1>8 DEF Together
  <2>2. /\ Len(sent'[a]) = Len(sent[a]) + 1
        /\ sent'[a][Len(sent[a]) + 1] = regs[a][Ins.b]
        /\ got'[a][Len(sent[a]) + 1] = regs[Mate(a)][Ins.b]
    BY <2>1, ShuffleHistory DEF LaneInv
  <2>3. Mate(a) = b
    BY NAssumption DEF Mate, Xor, Neighbours, Threads
  <2>4. regs'[a][Ins.b] = regs[a][Ins.b]
    BY <2>1 DEF Moves
  <2> QED
    BY <1>4, <2>1, <2>2, <2>3, <2>4
<1>9. ~(ins.op = "shfl" /\ passed) => Len(sent'[a]) = Len(sent[b])
  BY <1>2, <1>4, <1>5 DEF Moves, Together
<1>10. Ahead(kernel[pc[b]], a, b)'
  BY <1>3, <1>4, <1>6, <1>7, <1>8, <1>9 DEF Ahead
<1> QED
  BY <1>1, <1>3, <1>4, <1>10

\* The second lane moves: it executes the same instruction and is level.
LEMMA SecondMoves ==
  ASSUME LaneInv, Moves,
         NEW a \in Threads, NEW b \in Threads, Neighbours(a, b), b = i
  PROVE  InStep(a, b)'
<1> SUFFICES ASSUME a \in alive
             PROVE  Together(a, b)' /\ i' # b
  BY DEF InStep, Moves
<1>1. a # i /\ i' # b
  BY NAssumption DEF Neighbours, Moves, Threads
<1>2. pc[b] \in DOMAIN kernel /\ Ahead(kernel[pc[b]], a, b)
  BY DEF LaneInv, PairsInStep, InStep, Moves
<1>3. /\ pc'[a] = pc[a] /\ sent'[a] = sent[a]
      /\ a \in blocked' <=> a \in blocked
  BY <1>1, OthersStay DEF LaneInv
<1>4. Ins = kernel[pc[b]]
  BY DEF Ins
<1>5. pc'[b] = pc[a]
  BY <1>2, <1>4 DEF Ahead, Moves, LaneInv, InterpTypeOK, DataOK
<1>6. b \in blocked' <=> a \in blocked
  BY <1>2, <1>4 DEF Ahead, Moves
<1>7. CASE Ins.op = "shfl" /\ Passes(Ins, pred[i])
  <2>1. Len(sent'[b]) = Len(sent[b]) + 1
    BY <1>7, ShuffleHistory DEF LaneInv
  <2> QED
    BY <1>1, <1>2, <1>3, <1>4, <1>5, <1>6, <1>7, <2>1 DEF Ahead, Together
<1>8. CASE ~(Ins.op = "shfl" /\ Passes(Ins, pred[i]))
  BY <1>1, <1>2, <1>3, <1>4, <1>5, <1>6, <1>8 DEF Ahead, Together, Moves
<1> QED
  BY <1>7, <1>8

\* A lane of neither moves.
LEMMA AnotherMoves ==
  ASSUME LaneInv, Moves, NEW a \in Threads, NEW b \in Threads,
         Neighbours(a, b), a # i, b # i
  PROVE  InStep(a, b)'
<1>1. i' # b
  BY NAssumption DEF Neighbours, Moves, Threads
<1>2. /\ pc'[a] = pc[a] /\ sent'[a] = sent[a]
      /\ a \in blocked' <=> a \in blocked
  BY OthersStay DEF LaneInv
<1>3. /\ pc'[b] = pc[b] /\ sent'[b] = sent[b]
      /\ b \in blocked' <=> b \in blocked
  BY OthersStay DEF LaneInv
<1>4. (a \in alive /\ b \in alive) => Together(a, b)
  BY DEF LaneInv, PairsInStep, InStep
<1> QED
  BY <1>1, <1>2, <1>3, <1>4 DEF InStep, Together, Moves

LEMMA MovesBehind ==
  ASSUME LaneInv, Moves, NEW x \in Threads, NEW y \in Threads, StaysBehind(x, y)
  PROVE  StaysBehind(x, y)'
<1> SUFFICES ASSUME x \notin alive, y \in alive
             PROVE  Len(sent'[x]) <= Len(sent'[y])
  BY DEF StaysBehind, Moves
<1>1. sent'[x] = sent[x]
  BY OthersStay DEF LaneInv, Moves
<1>2. Len(sent[x]) <= Len(sent[y]) /\ Len(sent[x]) \in Nat /\ Len(sent[y]) \in Nat
  BY DEF StaysBehind, LaneInv, HistoryOK
<1>3. Len(sent'[y]) \in {Len(sent[y]), Len(sent[y]) + 1}
  <2>1. CASE y # i
    BY <2>1, OthersStay DEF LaneInv
  <2>2. CASE y = i /\ Ins.op = "shfl" /\ Passes(Ins, pred[i])
    BY <2>2, ShuffleHistory DEF LaneInv
  <2>3. CASE y = i /\ ~(Ins.op = "shfl" /\ Passes(Ins, pred[i]))
    BY <2>3 DEF Moves
  <2> QED
    BY <2>1, <2>2, <2>3
<1> QED
  BY <1>1, <1>2, <1>3

-----------------------------------------------------------------------------
\* When a lane shuffles, its mate has either not come to this shuffle or has
\* just done it, and offered what is in its register now.
LEMMA MateAtShuffle ==
  ASSUME LaneInv, Moves, Ins.op = "shfl", Passes(Ins, pred[i]), Mate(i) # i
  PROVE  LET u == Mate(i)
             n == Len(sent[i]) + 1
         IN  \/ Len(sent[u]) <= Len(sent[i])
             \/ /\ Len(sent[u]) = n
                /\ sent[u][n] = regs[u][Ins.b]
                /\ got[u][n] = regs[i][Ins.b]
<1>1. PICK u \in Threads : u = Mate(i)
  BY MateIsNeighbour DEF Moves
<1>2. i \in Threads /\ i \in alive /\ i \notin blocked /\ Ins = kernel[pc[i]]
  BY DEF Moves, Ins
<1>3. Len(sent[u]) \in Nat /\ Len(sent[i]) \in Nat
  BY <1>2 DEF LaneInv, HistoryOK
<1>4. CASE Neighbours(i, u)
  <2>1. i # u
    BY <1>1
  <2>2. u \in alive => Len(sent[i]) = Len(sent[u])
    BY <1>2, <1>4, <2>1 DEF LaneInv, PairsInStep, InStep, Together
  <2>3. u \notin alive => Len(sent[u]) <= Len(sent[i])
    BY <1>2, <1>4 DEF LaneInv, PairsInStep, StaysBehind
  <2> QED
    BY <1>1, <1>3, <2>2, <2>3
<1>5. CASE Neighbours(u, i)
  <2>1. u \in alive => Ahead(kernel[pc[i]], u, i)
    BY <1>2, <1>5 DEF LaneInv, PairsInStep, InStep
  <2>2. u \notin alive => Len(sent[u]) <= Len(sent[i])
    BY <1>2, <1>5 DEF LaneInv, PairsInStep, StaysBehind
  <2> QED
    BY <1>1, <1>2, <2>1, <2>2 DEF Ahead
<1> QED
  BY <1>1, <1>2, <1>4, <1>5, MateIsNeighbour

\* ShuffleIsAnExchange, lane by lane.
Exchanged(t) ==
  \A n \in 1 .. Len(got[t]) : n <= Len(sent[Mate(t)]) => got[t][n] = sent[Mate(t)][n]

LEMMA ExchangeByLane == ShuffleIsAnExchange <=> \A t \in Threads : Exchanged(t)
BY DEF ShuffleIsAnExchange, Exchanged, Mate

LEMMA ShuffleExchanges ==
  ASSUME LaneInv, Moves, Ins.op = "shfl", Passes(Ins, pred[i]), NEW t \in Threads
  PROVE  Exchanged(t)'
<1> SUFFICES ASSUME NEW m \in 1 .. Len(got'[t]), m <= Len(sent'[Mate(t)])
             PROVE  got'[t][m] = sent'[Mate(t)][m]
  BY DEF Exchanged, Mate
<1>1. PICK u \in Threads : u = Mate(t) /\ t = Mate(u)
  BY MateIsNeighbour
<1>2. PICK l \in Threads : l = i
  BY DEF Moves
<1>3. PICK n : n = Len(sent[l]) + 1
  OBVIOUS
<1>4. /\ \A x \in Threads \ {l} : sent'[x] = sent[x] /\ got'[x] = got[x]
      /\ Len(sent[l]) \in Nat /\ Len(sent'[l]) = n
      /\ \A k \in 1 .. Len(sent[l]) : sent'[l][k] = sent[l][k] /\ got'[l][k] = got[l][k]
      /\ sent'[l][n] = regs[l][Ins.b] /\ got'[l][n] = regs[Mate(l)][Ins.b]
  BY <1>2, <1>3, ShuffleHistory DEF LaneInv
<1>5. Len(got'[t]) = Len(sent'[t])
  BY MovesHistory DEF LaneInv, HistoryOK
<1>6. /\ Len(got[t]) = Len(sent[t]) /\ Len(sent[t]) \in Nat /\ Len(sent[u]) \in Nat
      /\ \A k \in 1 .. Len(sent[t]) : k <= Len(sent[u]) => got[t][k] = sent[u][k]
  BY <1>1, ExchangeByLane DEF LaneInv, Exchanged, HistoryOK
<1>7. CASE t # l /\ u # l
  BY <1>1, <1>4, <1>5, <1>6, <1>7
<1>8. CASE t = l /\ u = l
  <2>1. m \in 1 .. n
    BY <1>3, <1>4, <1>5, <1>8
  <2>2. CASE m = n
    BY <1>1, <1>4, <1>8, <2>2
  <2>3. CASE m # n
    BY <1>1, <1>3, <1>4, <1>6, <1>8, <2>1, <2>3
  <2> QED
    BY <2>2, <2>3
<1>9. CASE t = l /\ u # l
  <2>1. m \in 1 .. n /\ m <= Len(sent[u]) /\ sent'[u] = sent[u]
    BY <1>1, <1>3, <1>4, <1>5, <1>9
  <2>2. CASE m = n
    <3>1. Len(sent[u]) = n /\ sent[u][n] = regs[u][Ins.b]
      BY <1>1, <1>2, <1>3, <1>4, <1>9, <2>1, <2>2, MateAtShuffle
    <3> QED
      BY <1>1, <1>4, <1>9, <2>1, <2>2, <3>1
  <2>3. CASE m # n
    <3>1. m \in 1 .. Len(sent[t])
      BY <1>3, <1>4, <1>9, <2>1, <2>3
    <3>2. got'[t][m] = got[t][m] /\ got[t][m] = sent[u][m]
      BY <1>4, <1>6, <1>9, <2>1, <3>1
    <3> QED
      BY <1>1, <2>1, <3>2
  <2> QED
    BY <2>2, <2>3
<1>10. CASE t # l /\ u = l
  <2>1. m \in 1 .. n /\ m <= Len(sent[t]) /\ sent'[t] = sent[t] /\ got'[t] = got[t]
    BY <1>1, <1>3, <1>4, <1>5, <1>10
  <2>2. CASE m = n
    <3>1. Len(sent[t]) = n /\ got[t][n] = regs[l][Ins.b]
      BY <1>1, <1>2, <1>3, <1>4, <1>6, <1>10, <2>1, <2>2, MateAtShuffle
    <3> QED
      BY <1>1, <1>4, <1>10, <2>1, <2>2, <3>1
  <2>3. CASE m # n
    BY <1>1, <1>3, <1>4, <1>6, <1>10, <2>1, <2>3
  <2> QED
    BY <2>2, <2>3
<1> QED
  BY <1>7, <1>8, <1>9, <1>10

LEMMA MovesKeep ==
  ASSUME LaneInv, Convergent, Moves
  PROVE  HistoryOK' /\ PairsInStep' /\ ShuffleIsAnExchange'
<1>1. HistoryOK'
  BY MovesHistory DEF LaneInv
<1>2. PairsInStep'
  <2>1. ASSUME NEW a \in Threads, NEW b \in Threads, Neighbours(a, b)
        PROVE  InStep(a, b)' /\ StaysBehind(a, b)' /\ StaysBehind(b, a)'
    <3>1. StaysBehind(a, b) /\ StaysBehind(b, a)
      BY <2>1 DEF LaneInv, PairsInStep
    <3> QED
      BY <2>1, <3>1, FirstMoves, SecondMoves, AnotherMoves, MovesBehind
  <2> QED
    BY <2>1 DEF PairsInStep, Neighbours
<1>3. ShuffleIsAnExchange'
  <2>1. CASE Ins.op = "shfl" /\ Passes(Ins, pred[i])
    <3>1. \A t \in Threads : Exchanged(t)'
      BY <2>1, ShuffleExchanges
    <3> QED
      BY <3>1 DEF ShuffleIsAnExchange, Exchanged, Mate
  <2>2. CASE ~(Ins.op = "shfl" /\ Passes(Ins, pred[i]))
    BY <2>2 DEF Moves, LaneInv, ShuffleIsAnExchange
  <2> QED
    BY <2>1, <2>2
<1> QED
  BY <1>1, <1>2, <1>3

-----------------------------------------------------------------------------
\* What the scheduler does between instructions keeps the pairs in step: it
\* skips both lanes or none and releases both or none.
LEMMA ScheduleKeeps ==
  ASSUME LaneInv, Schedule, block' = block \/ status' = "done"
  PROVE  HistoryOK' /\ PairsInStep' /\ ShuffleIsAnExchange'
<1>0. UNCHANGED data
  BY DEF Schedule
<1>1. HistoryOK' /\ ShuffleIsAnExchange'
  BY <1>0 DEF data, HistoryOK, LaneInv, ShuffleIsAnExchange
<1>2. ASSUME NEW a \in Threads, NEW b \in Threads, Neighbours(a, b)
      PROVE  InStep(a, b)' /\ StaysBehind(a, b)' /\ StaysBehind(b, a)'
  <2>1. InStep(a, b) /\ StaysBehind(a, b) /\ StaysBehind(b, a)
    BY <1>2 DEF LaneInv, PairsInStep
  <2>2. b \in 1 .. N - 1 /\ a # b /\ a + 1 = b /\ i \in 0 .. N
    BY <1>2, NAssumption DEF Neighbours, Threads, LaneInv, InterpTypeOK, TypeOK
  <2>3. CASE Skip
    <3>1. UNCHANGED <<alive, blocked, kernel>> /\ i' = i + 1 /\ i \notin alive \ blocked
      BY <2>3 DEF Skip, Runnable, Schedule
    <3>2. StaysBehind(a, b)' /\ StaysBehind(b, a)'
      BY <1>0, <2>1, <3>1 DEF StaysBehind, data
    <3>3. ASSUME a \in alive, b \in alive
          PROVE  Together(a, b) /\ (i' = b => b \in blocked)
      BY <2>1, <2>2, <3>1, <3>3 DEF InStep, Together
    <3>4. InStep(a, b)'
      BY <1>0, <3>1, <3>3 DEF InStep, Together, data
    <3> QED
      BY <3>2, <3>4
  <2>4. CASE OutOfSteps
    BY <1>0, <2>1, <2>4 DEF OutOfSteps, Schedule, InStep, Ahead, Together, StaysBehind, data
  <2>5. CASE NextRound
    <3>1. UNCHANGED <<alive, kernel>> /\ i = N /\ i' = 0
      BY <2>5 DEF NextRound, Schedule
    <3>2. blocked' = {} \/ blocked' = blocked
      BY <2>5 DEF NextRound
    <3>3. (a \in alive /\ b \in alive) => Together(a, b)
      BY <2>1, <2>2, <3>1 DEF InStep
    <3>4. InStep(a, b)'
      BY <1>0, <2>2, <3>1, <3>2, <3>3 DEF InStep, Together, data
    <3> QED
      BY <1>0, <2>1, <3>1, <3>4 DEF StaysBehind, data
  <2>6. CASE EndBlock
    <3>1. UNCHANGED <<alive, blocked, i, kernel>>
      BY <2>6 DEF EndBlock, Schedule, LaneInv, InterpTypeOK, TypeOK
    <3> QED
      BY <1>0, <2>1, <3>1 DEF InStep, Ahead, Together, StaysBehind, data
  <2> QED
    BY <2>3, <2>4, <2>5, <2>6 DEF Schedule
<1> QED
  BY <1>1, <1>2 DEF PairsInStep, Neighbours

\* Fresh thread states are in step.
LEMMA FreshInStep ==
  ASSUME NAssumption, i = 0, pc = FreshPc, blocked = {}, alive = Threads,
         sent = [t \in Threads |-> <<>>], got = [t \in Threads |-> <<>>]
  PROVE  HistoryOK /\ PairsInStep /\ ShuffleIsAnExchange
<1>1. HistoryOK /\ ShuffleIsAnExchange
  BY DEF HistoryOK, ShuffleIsAnExchange
<1>2. ASSUME NEW a \in Threads, NEW b \in Threads, Neighbours(a, b)
      PROVE  InStep(a, b) /\ StaysBehind(a, b) /\ StaysBehind(b, a)
  <2>1. b # 0
    BY <1>2 DEF Neighbours, Threads
  <2> QED
    BY <2>1 DEF InStep, Together, StaysBehind, FreshPc
<1> QED
  BY <1>1, <1>2 DEF PairsInStep

LEMMA FreshKeeps ==
  ASSUME LaneInv, Schedule, ~(block' = block \/ status' = "done")
  PROVE  HistoryOK' /\ PairsInStep' /\ ShuffleIsAnExchange'
<1>1. FreshBlock /\ EndBlock /\ block + 1 < Blocks
  BY DEF Schedule, Skip, OutOfSteps, NextRound, EndBlock
<1>2. (/\ i = 0 /\ pc = FreshPc /\ blocked = {} /\ alive = Threads
       /\ sent = [t \in Threads |-> <<>>] /\ got = [t \in Threads |-> <<>>])'
  BY <1>1 DEF FreshBlock, EndBlock, FreshPc
<1> QED
  BY <1>2, NAssumption, FreshInStep, PTL

\* The ret of a lane: from now on it is behind its neighbour.
LEMMA RetKeeps ==
  ASSUME LaneInv, Ret
  PROVE  HistoryOK' /\ PairsInStep' /\ ShuffleIsAnExchange'
<1>1. /\ UNCHANGED <<blocked, kernel, data>>
      /\ i' = i + 1 /\ alive' = alive \ {i} /\ i \in alive /\ i \notin blocked
      /\ Ins.op = "ret" /\ i \in Threads
      /\ Passes(Ins, pred[i])
  BY DEF Ret, Finish, Step, Runnable, Taken, LaneInv, InterpTypeOK, TypeOK
<1>2. HistoryOK' /\ ShuffleIsAnExchange'
  BY <1>1 DEF data, HistoryOK, LaneInv, ShuffleIsAnExchange
<1>3. ASSUME NEW a \in Threads, NEW b \in Threads, Neighbours(a, b)
      PROVE  InStep(a, b)' /\ StaysBehind(a, b)' /\ StaysBehind(b, a)'
  <2>1. InStep(a, b) /\ StaysBehind(a, b) /\ StaysBehind(b, a)
    BY <1>3 DEF LaneInv, PairsInStep
  <2>2. b = a + 1 /\ a \in Nat /\ b # a
    BY <1>3, NAssumption DEF Neighbours, Threads
  <2>3. Len(sent[a]) \in Nat /\ Len(sent[b]) \in Nat
    BY DEF LaneInv, HistoryOK
  <2>4. CASE a # i /\ b # i
    <3>1. i' # b
      BY <1>1, <2>2, <2>4, NAssumption DEF Threads
    <3> QED
      BY <1>1, <2>1, <2>4, <3>1 DEF InStep, Together, StaysBehind, data
  <2>5. CASE a = i \/ b = i
    <3>1. InStep(a, b)'
      BY <1>1, <2>5 DEF InStep
    <3>2. (a \in alive /\ b \in alive) => Len(sent[a]) = Len(sent[b])
      BY <1>1, <2>1, <2>2, <2>5 DEF InStep, Together, Ahead, Ins
    <3>3. StaysBehind(a, b)' /\ StaysBehind(b, a)'
      BY <1>1, <2>1, <2>3, <3>2 DEF StaysBehind, data
    <3> QED
      BY <3>1, <3>3
  <2> QED
    BY <2>4, <2>5
<1> QED
  BY <1>2, <1>3 DEF PairsInStep, Neighbours

LEMMA LaneInvInit == InterpInit => LaneInv
<1> SUFFICES ASSUME InterpInit PROVE LaneInv
  OBVIOUS
<1>1. InterpTypeOK
  BY InitInv, DataInit DEF InterpInit, InterpTypeOK, IInv
<1> QED
  BY <1>1, NAssumption, FreshInStep DEF InterpInit, Init, LaneInv

LEMMA LaneInvStep ==
  ASSUME LaneInv, InterpTypeOK', Exchanging, Convergent, [InterpNext]_interpVars
  PROVE  LaneInv'
<1>1. CASE RunOff
  <2>1. UNCHANGED <<alive, blocked, i, kernel, data>>
    BY <1>1 DEF RunOff, Fault
  <2> QED
    BY <2>1 DEF LaneInv, data, HistoryOK, PairsInStep, InStep, Ahead, Together,
                StaysBehind, ShuffleIsAnExchange
<1>2. CASE GatedOff \/ Branch \/ Setp \/ Execute \/ Shuffle \/ BarSync
  BY <1>2, StepMoves, MovesKeep DEF LaneInv
<1>3. CASE Ret
  BY <1>3, RetKeeps DEF LaneInv
<1>4. CASE Schedule
  BY <1>4, ScheduleKeeps, FreshKeeps DEF LaneInv
<1>5. CASE UNCHANGED interpVars
  BY <1>5 DEF interpVars, vars, LaneInv, data, HistoryOK, PairsInStep, InStep,
              Ahead, Together, StaysBehind, ShuffleIsAnExchange
<1> QED
  BY <1>1, <1>2, <1>3, <1>4, <1>5 DEF InterpNext

(* A warp shuffle is one exchange although the interpreter runs the lanes  *)
(* one after the other: the n-th shuffle of a lane gives it what its       *)
(* neighbour offered at its own n-th.  It is so in every kernel that swaps *)
(* neighbours into another register, when neighbours branch, synchronise   *)
(* and shuffle alike, whatever other lanes do and whoever exits early.     *)
THEOREM ShufflesExchange ==
  ASSUME Exchanging PROVE InterpSpec /\ []Convergent => []ShuffleIsAnExchange
<1>1. InterpSpec => []InterpTypeOK
  BY InterpTypeCorrect
<1>2. LaneInv /\ InterpTypeOK' /\ Convergent /\ [InterpNext]_interpVars => LaneInv'
  BY LaneInvStep
<1>3. LaneInv => ShuffleIsAnExchange
  BY DEF LaneInv
<1> QED
  BY <1>1, <1>2, <1>3, LaneInvInit, PTL DEF InterpSpec

-----------------------------------------------------------------------------
(* The same kernel, the same result: a kernel that is free of races on the *)
(* reference interpreter leaves the same memory on the ahead-of-time path, *)
(* under every schedule of its lanes.                                      *)
(*                                                                         *)
(* Owner says how the cells are shared out between two barriers: Owner[e]  *)
(* gives each cell, after e barriers, to a thread, or to all for reading,  *)
(* or to all as a tally that is added to and not read.                     *)

CONSTANT Owner

ReadOnly == N
Tally == N + 1

OwnerOK == Owner \in [Nat -> [Addresses -> 0 .. N + 1]]

\* May thread t access the cell of the instruction, after e barriers?
MayAccess(t, e, ins, rg) ==
  LET owner == Owner[e][Address(ins, rg)]
  IN  /\ ins.op = "ld" => owner \in {t, ReadOnly}
      /\ ins.op \in {"st", "atom"} => owner = t
      /\ ins.op = "red" => owner \in {t, Tally}

\* The instruction that the interpreter comes to keeps to the owners.
RaceFree == (Runnable(i) /\ Taken) => MayAccess(i, epoch[i], Ins, regs[i])

\* Guards stand where both paths honour them.
GuardsHonoured ==
  \A body \in Kernels : \A n \in DOMAIN body :
    \/ body[n].guard = "always"
    \/ body[n].op \in {"add", "setp", "ld", "shfl", "bra"}

-----------------------------------------------------------------------------
(* Sums of words.                                                          *)

LEMMA LowestNatural ==
  ASSUME NEW S \in SUBSET Nat, S # {}
  PROVE  \E x \in S : \A y \in S : x <= y
<1> DEFINE R == OpToRel(<, Nat)
<1>1. IsWellFoundedOn(R, Nat)
  BY NatLessThanWellFounded
<1>2. \A x, y \in Nat : <<y, x>> \in R <=> y < x
  BY DEF OpToRel
<1> HIDE DEF R
<1>3. PICK x \in S : \A y \in S : ~(<<y, x>> \in R)
  BY <1>1, WFMin
<1>4. \A y \in S : x \in Nat /\ y \in Nat /\ ~(y < x)
  BY <1>2, <1>3
<1> QED BY <1>4

LEMMA SumIs ==
  ASSUME NEW a \in Words, NEW b \in Words
  PROVE  Sum(a, b) = IF a + b < Word THEN a + b ELSE a + b - Word
<1>1. a \in Nat /\ b \in Nat /\ a + b < 2 * Word /\ Word \in Nat \ {0}
  BY WordAssumption DEF Words
<1>2. CASE a + b < Word
  BY <1>1, <1>2 DEF Sum
<1>3. CASE ~(a + b < Word)
  <2> DEFINE x == a + b
             q == x \div Word
  <2>1. x \in Nat /\ Word <= x /\ x < 2 * Word
    BY <1>1, <1>3
  <2> HIDE DEF x
  <2>2. q \in Int /\ x = Word * q + (x % Word) /\ 0 <= x % Word /\ x % Word < Word
    BY <1>1, <2>1
  <2> HIDE DEF q
  <2>3. q >= 1
    BY <1>1, <2>1, <2>2
  <2>4. ~(q >= 2)
    BY <1>1, <2>1, <2>2
  <2>5. q = 1
    BY <2>2, <2>3, <2>4
  <2>6. x % Word = x - Word
    BY <1>1, <2>1, <2>2, <2>5
  <2>7. Sum(a, b) = x - Word
    BY <2>6 DEF Sum, x
  <2>8. Sum(a, b) = a + b - Word
    BY <1>1, <2>7 DEF x
  <2> QED BY <1>1, <1>3, <2>8
<1> QED BY <1>2, <1>3

LEMMA SumAssociates ==
  ASSUME NEW a \in Words, NEW b \in Words, NEW c \in Words
  PROVE  /\ Sum(Sum(a, b), c) = Sum(a, Sum(b, c))
         /\ Sum(a, b) = Sum(b, a) /\ Sum(a, b) \in Words /\ Sum(a, 0) = a
<1>1. a \in Nat /\ b \in Nat /\ c \in Nat /\ Word \in Nat \ {0} /\ 0 \in Words
      /\ a < Word /\ b < Word /\ c < Word
  BY WordAssumption DEF Words
<1>2. Sum(a, b) \in Words /\ Sum(b, c) \in Words
  BY <1>1, SumIsWord
<1>3. Sum(a, b) = IF a + b < Word THEN a + b ELSE a + b - Word
  BY SumIs
<1>4. Sum(b, c) = IF b + c < Word THEN b + c ELSE b + c - Word
  BY SumIs
<1>5. Sum(Sum(a, b), c) = IF Sum(a, b) + c < Word THEN Sum(a, b) + c
                          ELSE Sum(a, b) + c - Word
  BY <1>2, SumIs
<1>6. Sum(a, Sum(b, c)) = IF a + Sum(b, c) < Word THEN a + Sum(b, c)
                          ELSE a + Sum(b, c) - Word
  BY <1>2, SumIs
<1>7. Sum(b, a) = IF b + a < Word THEN b + a ELSE b + a - Word
  BY SumIs
<1>8. Sum(a, 0) = IF a + 0 < Word THEN a + 0 ELSE a + 0 - Word
  BY <1>1, SumIs
<1>9. Sum(Sum(a, b), c) = Sum(a, Sum(b, c))
  BY <1>1, <1>3, <1>4, <1>5, <1>6
<1> QED BY <1>1, <1>2, <1>3, <1>7, <1>8, <1>9

\* total is base and what each of the threads has added, w.
Totals(base, w, total) ==
  \E P \in [0 .. N -> Words] :
    /\ P[0] = base /\ P[N] = total
    /\ \A n \in Threads : P[n + 1] = Sum(P[n], w[n])

LEMMA NothingAdded ==
  ASSUME NEW base \in Words, NEW w \in [Threads -> Words], \A t \in Threads : w[t] = 0
  PROVE  Totals(base, w, base)
<1> DEFINE P == [n \in 0 .. N |-> base]
<1>1. P \in [0 .. N -> Words] /\ P[0] = base /\ P[N] = base
  BY NAssumption
<1>2. \A n \in Threads : P[n + 1] = base /\ P[n] = base
  BY NAssumption DEF Threads
<1>3. Sum(base, 0) = base
  BY SumAssociates
<1> HIDE DEF P
<1>4. \A n \in Threads : P[n + 1] = Sum(P[n], w[n])
  BY <1>2, <1>3
<1> QED BY <1>1, <1>4 DEF Totals

LEMMA OneAdds ==
  ASSUME NEW base \in Words, NEW w \in [Threads -> Words], NEW total \in Words,
         Totals(base, w, total), NEW t \in Threads, NEW d \in Words,
         NEW v \in [Threads -> Words], v[t] = Sum(w[t], d),
         \A u \in Threads \ {t} : v[u] = w[u]
  PROVE  Totals(base, v, Sum(total, d))
<1>1. PICK P \in [0 .. N -> Words] :
        /\ P[0] = base /\ P[N] = total
        /\ \A n \in Threads : P[n + 1] = Sum(P[n], w[n])
  BY DEF Totals
<1> DEFINE Q == [n \in 0 .. N |-> IF n > t THEN Sum(P[n], d) ELSE P[n]]
<1>2. N \in Nat /\ t \in 0 .. N - 1
  BY NAssumption DEF Threads
<1>3. \A n \in 0 .. N : P[n] \in Words /\ Sum(P[n], d) \in Words
  BY SumAssociates
<1>4. Q \in [0 .. N -> Words]
  BY <1>3
<1>5. Q[0] = base /\ Q[N] = Sum(total, d)
  BY <1>1, <1>2
<1>6. ASSUME NEW n \in Threads PROVE Q[n + 1] = Sum(Q[n], v[n])
  <2>1. n \in 0 .. N /\ n + 1 \in 0 .. N /\ n \in Nat
    BY <1>2 DEF Threads
  <2>2. P[n + 1] = Sum(P[n], w[n]) /\ w[n] \in Words /\ P[n] \in Words
    BY <1>1, <1>3, <2>1
  <2>3. \A x, y, z \in Words : /\ Sum(Sum(x, y), z) = Sum(x, Sum(y, z))
                               /\ Sum(x, y) = Sum(y, x)
    BY SumAssociates
  <2>4. CASE n = t
    <3>1. Q[n + 1] = Sum(P[n + 1], d) /\ Q[n] = P[n] /\ v[n] = Sum(w[n], d)
      BY <1>2, <2>1, <2>4
    <3> HIDE DEF Q
    <3> QED BY <2>2, <2>3, <3>1
  <2>5. CASE n < t
    <3>1. Q[n + 1] = P[n + 1] /\ Q[n] = P[n]
      BY <1>2, <2>1, <2>5
    <3>2. n # t
      BY <1>2, <2>1, <2>5
    <3>3. v[n] = w[n]
      BY <3>2
    <3> HIDE DEF Q
    <3> QED BY <2>2, <3>1, <3>3
  <2>6. CASE n > t
    <3>1. Q[n + 1] = Sum(P[n + 1], d) /\ Q[n] = Sum(P[n], d)
      BY <1>2, <2>1, <2>6
    <3>2. n # t
      BY <1>2, <2>1, <2>6
    <3>3. v[n] = w[n]
      BY <3>2
    <3>4. Sum(Sum(P[n], w[n]), d) = Sum(P[n], Sum(w[n], d))
      BY <2>2, <2>3
    <3>5. Sum(w[n], d) = Sum(d, w[n])
      BY <2>2, <2>3
    <3>6. Sum(P[n], Sum(d, w[n])) = Sum(Sum(P[n], d), w[n])
      BY <2>2, <2>3
    <3> HIDE DEF Q
    <3> QED BY <2>2, <3>1, <3>3, <3>4, <3>5, <3>6
  <2> QED BY <1>2, <2>1, <2>4, <2>5, <2>6
<1> HIDE DEF Q
<1> QED BY <1>4, <1>5, <1>6 DEF Totals

LEMMA OneTotal ==
  ASSUME NEW base, NEW w, NEW x, NEW y, Totals(base, w, x), Totals(base, w, y)
  PROVE  x = y
<1>1. PICK P \in [0 .. N -> Words] :
        /\ P[0] = base /\ P[N] = x
        /\ \A n \in Threads : P[n + 1] = Sum(P[n], w[n])
  BY DEF Totals
<1>2. PICK Q \in [0 .. N -> Words] :
        /\ Q[0] = base /\ Q[N] = y
        /\ \A n \in Threads : Q[n + 1] = Sum(Q[n], w[n])
  BY DEF Totals
<1> DEFINE S == {n \in 0 .. N : P[n] # Q[n]}
<1>3. ASSUME S # {} PROVE FALSE
  <2>1. S \in SUBSET Nat
    BY NAssumption
  <2>2. PICK n \in S : \A m \in S : n <= m
    BY <1>3, <2>1, LowestNatural
  <2>3. n # 0 /\ n \in 0 .. N
    BY <1>1, <1>2
  <2>4. n - 1 \in Threads /\ n - 1 \in 0 .. N /\ n - 1 \notin S /\ (n - 1) + 1 = n
    BY <2>2, <2>3, NAssumption DEF Threads
  <2>5. P[n - 1] = Q[n - 1]
    BY <2>4
  <2> QED BY <1>1, <1>2, <2>2, <2>4, <2>5
<1>4. N \in 0 .. N
  BY NAssumption
<1> QED BY <1>1, <1>2, <1>3, <1>4

-----------------------------------------------------------------------------
(* A thread by itself: its state, with the barriers it has crossed and its *)
(* view of the memory, and what an instruction makes of it.  The view is   *)
(* the thread's own cells, the cells all may read as they were when the    *)
(* last barrier opened, and what it has added to the tallies since.        *)

Memories == [Addresses -> Words]
States == [pc : Nat, regs : [Registers -> Words], pred : BOOLEAN, ep : Nat,
           view : Memories]

NextRegs(ins, rg, p, m) ==
  IF Passes(ins, p) /\ Writes(ins)
    THEN [rg EXCEPT ![ins.d] = Result(ins, rg, m, 0)] ELSE rg
NextPred(ins, rg, p) ==
  IF Passes(ins, p) /\ ins.op = "setp" THEN Compare(ins, rg) ELSE p
NextPlace(ins, p, n) == IF Passes(ins, p) /\ ins.op = "bra" THEN ins.k ELSE n + 1
NextMem(ins, rg, p, m) == IF Passes(ins, p) THEN Stored(ins, rg, m) ELSE m

PlainOps == Ops \ {"bar", "ret", "shfl"}

\* A cell of the memory, as the threads that are in phase e see it: S are the
\* states of all threads, base is the memory the phase began with.
CellFits(e, base, S, m, c) ==
  /\ Owner[e][c] = ReadOnly =>
       /\ m[c] = base[c]
       /\ \A t \in Threads : S[t].ep = e => S[t].view[c] = base[c]
  /\ \A t \in Threads : (Owner[e][c] = t /\ S[t].ep = e) => m[c] = S[t].view[c]
  /\ (Owner[e][c] = Tally /\ \A t \in Threads : S[t].ep = e) =>
       Totals(base[c], [t \in Threads |-> S[t].view[c]], m[c])

CellsFit(e, base, S, m) == \A c \in Addresses : CellFits(e, base, S, m, c)

LEMMA MemoryStep ==
  ASSUME NEW ins \in Instructions, NEW rg \in [Registers -> Words],
         NEW p \in BOOLEAN, NEW m \in Memories, ins.op \in PlainOps
  PROVE  LET a == Address(ins, rg)
             n == NextMem(ins, rg, p, m)
         IN  /\ a \in Addresses /\ n \in Memories /\ rg[ins.b] \in Words
             /\ \A c \in Addresses \ {a} : n[c] = m[c]
             /\ (Passes(ins, p) /\ ins.op = "st") => n[a] = rg[ins.b]
             /\ (Passes(ins, p) /\ ins.op \in {"atom", "red"}) =>
                  n[a] = Sum(m[a], rg[ins.b])
             /\ ~(Passes(ins, p) /\ ins.op \in {"st", "atom", "red"}) => n = m
<1> DEFINE a == Address(ins, rg)
<1>1. rg[ins.b] \in Words /\ rg[ins.a] \in Nat /\ ins.k \in Nat
  BY WordsAreNat DEF Instructions
<1>2. a \in Addresses
  BY <1>1, SumIsWord DEF Address, Addresses
<1>3. m[a] \in Words /\ Sum(m[a], rg[ins.b]) \in Words
  BY <1>1, <1>2, SumIsWord, WordsAreNat DEF Memories
<1> QED
  BY <1>1, <1>2, <1>3 DEF NextMem, Stored, Memories

LEMMA SameCell ==
  ASSUME NEW e, NEW base, NEW S, NEW Z, NEW m, NEW n, NEW c,
         CellFits(e, base, S, m, c), n[c] = m[c],
         \A t \in Threads : Z[t].ep = S[t].ep /\ Z[t].view[c] = S[t].view[c]
  PROVE  CellFits(e, base, Z, n, c)
<1>1. [t \in Threads |-> Z[t].view[c]] = [t \in Threads |-> S[t].view[c]]
  OBVIOUS
<1> QED
  BY <1>1 DEF CellFits

LEMMA StepFits ==
  ASSUME OwnerOK, NEW e \in Nat, NEW base \in Memories,
         NEW S \in [Threads -> States], NEW m \in Memories,
         CellsFit(e, base, S, m),
         NEW t \in Threads, NEW s \in States, s = S[t], s.ep = e,
         NEW ins \in Instructions, ins.op \in PlainOps,
         Passes(ins, s.pred) => MayAccess(t, e, ins, s.regs),
         NEW n \in States, n.ep = e,
         n.view = NextMem(ins, s.regs, s.pred, s.view),
         NEW Z, Z[t] = n, \A u \in Threads \ {t} : Z[u] = S[u]
  PROVE  /\ NextRegs(ins, s.regs, s.pred, m) = NextRegs(ins, s.regs, s.pred, s.view)
         /\ CellsFit(e, base, Z, NextMem(ins, s.regs, s.pred, m))
<1> DEFINE a == Address(ins, s.regs)
           w == s.regs[ins.b]
           v == s.view
           m1 == NextMem(ins, s.regs, s.pred, m)
           v1 == NextMem(ins, s.regs, s.pred, s.view)
           passes == Passes(ins, s.pred)
<1>1. s.regs \in [Registers -> Words] /\ s.pred \in BOOLEAN /\ v \in Memories
  BY DEF States
<1>2. /\ a \in Addresses /\ m1 \in Memories /\ w \in Words
      /\ \A c \in Addresses \ {a} : m1[c] = m[c]
      /\ (passes /\ ins.op = "st") => m1[a] = w
      /\ (passes /\ ins.op \in {"atom", "red"}) => m1[a] = Sum(m[a], w)
      /\ ~(passes /\ ins.op \in {"st", "atom", "red"}) => m1 = m
  BY <1>1, MemoryStep
<1>3. /\ v1 \in Memories
      /\ \A c \in Addresses \ {a} : v1[c] = v[c]
      /\ (passes /\ ins.op = "st") => v1[a] = w
      /\ (passes /\ ins.op \in {"atom", "red"}) => v1[a] = Sum(v[a], w)
      /\ ~(passes /\ ins.op \in {"st", "atom", "red"}) => v1 = v
  BY <1>1, MemoryStep
<1>4. /\ Z[t] = n /\ n.view = v1 /\ n.ep = e
      /\ \A u \in Threads \ {t} : Z[u] = S[u]
  OBVIOUS
<1>5. CellFits(e, base, S, m, a)
  BY <1>2 DEF CellsFit
<1>6. passes => /\ ins.op = "ld" => Owner[e][a] \in {t, ReadOnly}
                /\ ins.op \in {"st", "atom"} => Owner[e][a] = t
                /\ ins.op = "red" => Owner[e][a] \in {t, Tally}
  BY DEF MayAccess
<1>7. t # ReadOnly /\ t # Tally /\ ReadOnly # Tally /\ Tally \notin Threads
      /\ ReadOnly \notin Threads
  BY NAssumption DEF Threads, ReadOnly, Tally
<1> HIDE DEF a, w, v, m1, v1, passes
<1>8. Owner[e][a] \in {t, ReadOnly} => m[a] = v[a]
  BY <1>5 DEF CellFits, v
<1>9. NextRegs(ins, s.regs, s.pred, m) = NextRegs(ins, s.regs, s.pred, s.view)
  <2>1. CASE passes /\ ins.op \in {"ld", "atom"}
    <3>1. m[a] = s.view[a]
      BY <1>6, <1>8, <2>1 DEF v
    <3> QED
      BY <2>1, <3>1 DEF NextRegs, Result, a
  <2>2. CASE ~(passes /\ ins.op \in {"ld", "atom"})
    BY <2>2 DEF NextRegs, Result, Writes, passes, PlainOps
  <2> QED
    BY <2>1, <2>2
<1>10. ASSUME NEW c \in Addresses
       PROVE  CellFits(e, base, Z, m1, c)
  <2>1. CellFits(e, base, S, m, c)
    BY DEF CellsFit
  <2>2. \A u \in Threads : Z[u].ep = S[u].ep
    BY <1>4
  <2>3. CASE c # a \/ ~(passes /\ ins.op \in {"st", "atom", "red"})
    <3>1. m1[c] = m[c] /\ v1[c] = v[c]
      BY <1>2, <1>3, <2>3
    <3>2. \A u \in Threads : Z[u].view[c] = S[u].view[c]
      BY <1>4, <3>1 DEF v
    <3> QED
      BY <2>1, <2>2, <3>1, <3>2, SameCell
  <2>4. CASE c = a /\ passes /\ ins.op \in {"st", "atom", "red"} /\ Owner[e][a] = t
    <3>1. m1[a] = v1[a]
      BY <1>2, <1>3, <1>8, <2>4
    <3> QED
      BY <1>4, <1>7, <2>4, <3>1 DEF CellFits
  <2>5. CASE c = a /\ passes /\ ins.op = "red" /\ Owner[e][a] = Tally
    <3>1. SUFFICES ASSUME \A u \in Threads : S[u].ep = e
                   PROVE  Totals(base[a], [u \in Threads |-> Z[u].view[a]], m1[a])
      BY <1>7, <2>2, <2>5 DEF CellFits
    <3> DEFINE x == [u \in Threads |-> S[u].view[a]]
               y == [u \in Threads |-> Z[u].view[a]]
    <3>2. Totals(base[a], x, m[a])
      BY <1>5, <2>5, <3>1 DEF CellFits
    <3>3. \A u \in Threads : S[u].view[a] \in Words /\ Z[u].view[a] \in Words
      BY <1>2, <1>4 DEF States, Memories
    <3>4. x \in [Threads -> Words] /\ y \in [Threads -> Words]
      BY <3>3
    <3>5. x[t] = v[a] /\ y[t] = v1[a] /\ \A u \in Threads \ {t} : y[u] = x[u]
      BY <1>4 DEF v
    <3>6. y[t] = Sum(x[t], w) /\ m1[a] = Sum(m[a], w)
      BY <1>2, <1>3, <2>5, <3>5
    <3>7. base[a] \in Words /\ m[a] \in Words
      BY <1>2 DEF Memories
    <3> HIDE DEF x, y
    <3>8. Totals(base[a], y, Sum(m[a], w))
      BY <1>2, <3>2, <3>4, <3>5, <3>6, <3>7, OneAdds
    <3> QED
      BY <3>6, <3>8 DEF y
  <2> QED
    BY <1>6, <2>3, <2>4, <2>5
<1> QED
  BY <1>9, <1>10 DEF CellsFit, m1

\* When all threads have come to the end of a phase the memory is determined.
LEMMA OneMemory ==
  ASSUME OwnerOK, NEW e \in Nat, NEW base, NEW S,
         NEW x \in Memories, NEW y \in Memories,
         \A t \in Threads : S[t].ep = e,
         CellsFit(e, base, S, x), CellsFit(e, base, S, y)
  PROVE  x = y
<1>1. ASSUME NEW c \in Addresses PROVE x[c] = y[c]
  <2>1. CellFits(e, base, S, x, c) /\ CellFits(e, base, S, y, c)
    BY DEF CellsFit
  <2>0. Owner[e][c] \in 0 .. N + 1
    BY DEF OwnerOK
  <2>2. Owner[e][c] \in Threads \cup {ReadOnly, Tally}
    BY <2>0, NAssumption DEF Threads, ReadOnly, Tally
  <2>3. CASE Owner[e][c] = Tally
    BY <2>1, <2>3, OneTotal DEF CellFits
  <2>4. CASE Owner[e][c] # Tally
    BY <2>1, <2>2, <2>4 DEF CellFits
  <2> QED
    BY <2>3, <2>4
<1> QED
  BY <1>1 DEF Memories

-----------------------------------------------------------------------------
(* What the interpreter's run leaves behind of its threads: V[t] are the   *)
(* states thread t has been in, C[t] the one it is in, M[e] the memory     *)
(* when the e-th barrier opened, E the number of barriers opened, A the    *)
(* threads that have not exited.                                           *)

AtPlain(k, s) == s.pc \in DOMAIN k /\ k[s.pc].op \in PlainOps
AtBar(k, s) == s.pc \in DOMAIN k /\ k[s.pc].op = "bar"
AtRet(k, s) == s.pc \in DOMAIN k /\ k[s.pc].op = "ret"
AtEnd(k, s) == s.pc \notin DOMAIN k

Kept(k, t, s) == Passes(k[s.pc], s.pred) => MayAccess(t, s.ep, k[s.pc], s.regs)

StartOf(t) == [pc |-> 1, regs |-> FreshRegs(t), pred |-> FALSE, ep |-> 0,
               view |-> FreshMem]

NextState(k, s) ==
  [pc |-> NextPlace(k[s.pc], s.pred, s.pc),
   regs |-> NextRegs(k[s.pc], s.regs, s.pred, s.view),
   pred |-> NextPred(k[s.pc], s.regs, s.pred),
   ep |-> s.ep,
   view |-> NextMem(k[s.pc], s.regs, s.pred, s.view)]

\* The view of a thread when phase e begins with memory m.
Opening(e, m) == [c \in Addresses |-> IF Owner[e][c] = Tally THEN 0 ELSE m[c]]

AfterBar(s, m) == [pc |-> s.pc + 1, regs |-> s.regs, pred |-> s.pred,
                   ep |-> s.ep + 1, view |-> Opening(s.ep + 1, m)]

\* The states W of thread t, of which last is the last, are closed under its
\* instructions, but for the next one it has still to execute.
TraceOf(k, t, W, last, M, E, live) ==
  /\ StartOf(t) \in W /\ last \in W
  /\ last.ep <= E
  /\ live => last.ep = E
  /\ ~live => AtRet(k, last)
  /\ \A s \in W :
       /\ AtRet(k, s) \/ AtEnd(k, s) => s = last
       /\ AtEnd(k, s) => live
       /\ AtPlain(k, s) => \/ live /\ s = last
                           \/ Kept(k, t, s) /\ NextState(k, s) \in W
       /\ AtBar(k, s) => \/ live /\ s = last
                         \/ s.ep < E /\ AfterBar(s, M[s.ep + 1]) \in W

\* Threads that all stand at a barrier the interpreter has opened determine
\* the memory it was opened with.
Barriers(k, V, M, E) ==
  \A e \in Nat : \A S \in [Threads -> States] :
    (e < E /\ \A t \in Threads : S[t] \in V[t] /\ S[t].ep = e /\ AtBar(k, S[t])) =>
      CellsFit(e, M[e], S, M[e + 1])

Trace(k, V, C, M, E, A) ==
  /\ V \in [Threads -> SUBSET States] /\ C \in [Threads -> States]
  /\ M \in [Nat -> Memories] /\ E \in Nat
  /\ M[0] = FreshMem
  /\ \A t \in Threads : TraceOf(k, t, V[t], C[t], M, E, t \in A)
  /\ \E t \in Threads : C[t].ep = E
  /\ Barriers(k, V, M, E)

LEMMA FreshIsState ==
  /\ FreshMem \in Memories
  /\ \A t \in Threads : StartOf(t) \in States
<1>1. FreshMem \in Memories
  BY WordsAreNat DEF FreshMem, Memories
<1>2. ASSUME NEW t \in Threads PROVE FreshRegs(t) \in [Registers -> Words]
  <2>1. t % Word \in Words /\ 0 \in Words
    BY WordAssumption, NAssumption DEF Words, Threads
  <2> QED
    BY <2>1 DEF FreshRegs
<1> QED
  BY <1>1, <1>2 DEF StartOf, States

LEMMA StepIsState ==
  ASSUME NEW k \in Kernels, NEW s \in States, AtPlain(k, s)
  PROVE  k[s.pc] \in Instructions /\ NextState(k, s) \in States
<1> DEFINE ins == k[s.pc]
<1>1. k \in Seq(Instructions) /\ s.pc \in DOMAIN k
  BY KernelAssumption DEF AtPlain
<1>2. ins \in Instructions /\ ins.op \in PlainOps
  BY <1>1 DEF AtPlain
<1>3. s.pc \in Nat /\ s.regs \in [Registers -> Words] /\ s.pred \in BOOLEAN
      /\ s.ep \in Nat /\ s.view \in Memories
  BY DEF States
<1> HIDE DEF ins
<1>4. NextPlace(ins, s.pred, s.pc) \in Nat
  BY <1>2, <1>3 DEF NextPlace, Instructions
<1>5. NextMem(ins, s.regs, s.pred, s.view) \in Memories
      /\ Address(ins, s.regs) \in Addresses
  BY <1>2, <1>3, MemoryStep
<1>6. NextRegs(ins, s.regs, s.pred, s.view) \in [Registers -> Words]
  <2>1. s.view[Address(ins, s.regs)] \in Words
    BY <1>3, <1>5 DEF Memories
  <2>2. s.regs[ins.a] \in Nat /\ ins.k \in Nat /\ ins.d \in Registers
    BY <1>2, <1>3, WordsAreNat DEF Instructions
  <2>3. Sum(s.regs[ins.a], ins.k) \in Words
    BY <2>2, SumIsWord
  <2>4. Writes(ins) => Result(ins, s.regs, s.view, 0) \in Words
    BY <1>2, <2>1, <2>3 DEF Writes, Result, PlainOps
  <2> QED
    BY <1>3, <2>2, <2>4 DEF NextRegs
<1>7. NextPred(ins, s.regs, s.pred) \in BOOLEAN
  <2>1. Compare(ins, s.regs) \in BOOLEAN
    BY DEF Compare
  <2>2. NextPred(ins, s.regs, s.pred) \in {Compare(ins, s.regs), s.pred}
    BY DEF NextPred
  <2> QED
    BY <1>3, <2>1, <2>2, Zenon
<1>8. NextState(k, s) \in States
  BY <1>3, <1>4, <1>5, <1>6, <1>7 DEF NextState, States, ins
<1> QED
  BY <1>2, <1>8 DEF ins

LEMMA OpeningIsMemory ==
  ASSUME NEW e, NEW m \in Memories PROVE Opening(e, m) \in Memories
BY WordsAreNat DEF Opening, Memories

LEMMA AfterBarIsState ==
  ASSUME NEW s \in States, NEW m \in Memories
  PROVE  AfterBar(s, m) \in States /\ AfterBar(s, m).ep = s.ep + 1
<1>1. Opening(s.ep + 1, m) \in Memories
  BY OpeningIsMemory
<1> QED
  BY <1>1 DEF AfterBar, States

\* A phase begins with every view in agreement with the memory.
LEMMA PhaseBegins ==
  ASSUME NEW e \in Nat, NEW m \in Memories, NEW S,
         \A t \in Threads : S[t].ep = e => S[t].view = Opening(e, m)
  PROVE  CellsFit(e, m, S, m)
<1> SUFFICES ASSUME NEW c \in Addresses PROVE CellFits(e, m, S, m, c)
  BY DEF CellsFit
<1>1. \A t \in Threads : t # Tally /\ ReadOnly # Tally
  BY NAssumption DEF Threads, Tally, ReadOnly
<1>2. \A t \in Threads : S[t].ep = e =>
        S[t].view[c] = IF Owner[e][c] = Tally THEN 0 ELSE m[c]
  BY DEF Opening
<1>3. ASSUME Owner[e][c] = Tally, \A t \in Threads : S[t].ep = e
      PROVE  Totals(m[c], [t \in Threads |-> S[t].view[c]], m[c])
  <2> DEFINE w == [t \in Threads |-> S[t].view[c]]
  <2>1. m[c] \in Words
    BY DEF Memories
  <2>2. \A t \in Threads : S[t].view[c] = 0
    BY <1>2, <1>3
  <2>3. w \in [Threads -> Words] /\ \A t \in Threads : w[t] = 0
    BY <2>2, WordsAreNat
  <2> HIDE DEF w
  <2>4. Totals(m[c], w, m[c])
    BY <2>1, <2>3, NothingAdded
  <2> QED
    BY <2>4 DEF w
<1> QED
  BY <1>1, <1>2, <1>3 DEF CellFits

-----------------------------------------------------------------------------
(* The trace grows with the interpreter's run.                             *)

LEMMA TraceStarts ==
  ASSUME NEW k \in Kernels, Threads # {}
  PROVE  Trace(k, [t \in Threads |-> {StartOf(t)}], [t \in Threads |-> StartOf(t)],
               [n \in Nat |-> FreshMem], 0, Threads)
<1> DEFINE V == [t \in Threads |-> {StartOf(t)}]
           C == [t \in Threads |-> StartOf(t)]
           M == [n \in Nat |-> FreshMem]
<1>1. V \in [Threads -> SUBSET States] /\ C \in [Threads -> States]
      /\ M \in [Nat -> Memories] /\ M[0] = FreshMem
  BY FreshIsState
<1>2. \A t \in Threads : V[t] = {StartOf(t)} /\ C[t] = StartOf(t) /\ C[t].ep = 0
  BY DEF StartOf
<1> HIDE DEF V, C, M
<1>3. ASSUME NEW t \in Threads PROVE TraceOf(k, t, V[t], C[t], M, 0, t \in Threads)
  BY <1>2 DEF TraceOf
<1>4. Barriers(k, V, M, 0)
  BY DEF Barriers
<1>5. Trace(k, V, C, M, 0, Threads)
  BY <1>1, <1>2, <1>3, <1>4 DEF Trace
<1> QED
  BY <1>5 DEF V, C, M

LEMMA TraceMoves ==
  ASSUME NEW k \in Kernels, NEW V, NEW C, NEW M, NEW E, NEW A,
         Trace(k, V, C, M, E, A), NEW t \in Threads, t \in A,
         AtPlain(k, C[t]), Kept(k, t, C[t])
  PROVE  LET n == NextState(k, C[t])
         IN  Trace(k, [V EXCEPT ![t] = @ \cup {n}], [C EXCEPT ![t] = n], M, E, A)
<1> DEFINE n == NextState(k, C[t])
           W == [V EXCEPT ![t] = @ \cup {n}]
           D == [C EXCEPT ![t] = n]
<1>1. /\ V \in [Threads -> SUBSET States] /\ C \in [Threads -> States]
      /\ M \in [Nat -> Memories] /\ E \in Nat /\ M[0] = FreshMem
      /\ \A u \in Threads : TraceOf(k, u, V[u], C[u], M, E, u \in A)
      /\ Barriers(k, V, M, E)
  BY DEF Trace
<1>2. n \in States /\ n.ep = C[t].ep
  BY <1>1, StepIsState DEF NextState
<1>3. TraceOf(k, t, V[t], C[t], M, E, TRUE)
  BY <1>1
<1>4. C[t] \in V[t] /\ C[t].ep = E
  BY <1>3 DEF TraceOf
<1>5. /\ W \in [Threads -> SUBSET States] /\ D \in [Threads -> States]
      /\ W[t] = V[t] \cup {n} /\ D[t] = n
      /\ \A u \in Threads \ {t} : W[u] = V[u] /\ D[u] = C[u]
  BY <1>1, <1>2
<1>6. n = NextState(k, C[t])
  OBVIOUS
<1> HIDE DEF n, W, D
<1>7. TraceOf(k, t, V[t] \cup {n}, n, M, E, TRUE)
  <2>1. StartOf(t) \in V[t] /\ n.ep = E /\ n.ep <= E
    BY <1>2, <1>3, <1>4 DEF TraceOf
  <2>2. ASSUME NEW s \in V[t]
        PROVE  /\ ~AtRet(k, s) /\ ~AtEnd(k, s)
               /\ AtPlain(k, s) => Kept(k, t, s) /\ NextState(k, s) \in V[t] \cup {n}
               /\ AtBar(k, s) => s.ep < E /\ AfterBar(s, M[s.ep + 1]) \in V[t]
    <3>1. CASE s = C[t]
      BY <1>6, <3>1 DEF AtPlain, AtRet, AtEnd, AtBar, PlainOps
    <3>2. CASE s # C[t]
      BY <1>3, <3>2 DEF TraceOf
    <3> QED
      BY <3>1, <3>2
  <2> QED
    BY <2>1, <2>2 DEF TraceOf
<1>8. ASSUME NEW u \in Threads PROVE TraceOf(k, u, W[u], D[u], M, E, u \in A)
  <2>1. CASE u = t
    <3>1. (u \in A) = TRUE
      BY <2>1
    <3> QED
      BY <1>5, <1>7, <2>1, <3>1
  <2>2. CASE u # t
    BY <1>1, <1>5, <2>2
  <2> QED
    BY <2>1, <2>2
<1>9. Barriers(k, W, M, E)
  <2>1. ASSUME NEW e \in Nat, NEW S \in [Threads -> States], e < E,
               \A u \in Threads : S[u] \in W[u] /\ S[u].ep = e /\ AtBar(k, S[u])
        PROVE  CellsFit(e, M[e], S, M[e + 1])
    <3>1. \A u \in Threads : S[u] \in V[u]
      BY <1>1, <1>2, <1>4, <1>5, <2>1
    <3> QED
      BY <1>1, <2>1, <3>1 DEF Barriers
  <2> QED
    BY <2>1 DEF Barriers
<1>10. \E u \in Threads : D[u].ep = E
  BY <1>2, <1>4, <1>5
<1>11. Trace(k, W, D, M, E, A)
  BY <1>1, <1>5, <1>8, <1>9, <1>10 DEF Trace
<1> QED
  BY <1>11 DEF W, D, n

LEMMA TraceReturns ==
  ASSUME NEW k, NEW V, NEW C, NEW M, NEW E, NEW A,
         Trace(k, V, C, M, E, A), NEW t \in Threads, AtRet(k, C[t])
  PROVE  Trace(k, V, C, M, E, A \ {t})
<1>1. ASSUME NEW u \in Threads PROVE TraceOf(k, u, V[u], C[u], M, E, u \in A \ {t})
  <2>1. TraceOf(k, u, V[u], C[u], M, E, u \in A)
    BY DEF Trace
  <2>2. CASE u = t
    <3>1. TraceOf(k, u, V[u], C[u], M, E, FALSE)
      BY <2>1, <2>2 DEF TraceOf, AtPlain, AtRet, AtEnd, AtBar, PlainOps
    <3>2. (u \in A \ {t}) = FALSE
      BY <2>2
    <3> QED
      BY <3>1, <3>2
  <2>3. CASE u # t
    <3>1. (u \in A \ {t}) = (u \in A)
      BY <2>3
    <3> QED
      BY <2>1, <3>1
  <2> QED
    BY <2>2, <2>3
<1> QED
  BY <1>1 DEF Trace

LEMMA TraceOpens ==
  ASSUME NEW k, NEW V, NEW C, NEW M, NEW E, NEW A, NEW m \in Memories,
         Trace(k, V, C, M, E, A), NEW x \in Threads, x \in A,
         \A t \in Threads : t \in A => AtBar(k, C[t]),
         CellsFit(E, M[E], C, m)
  PROVE  Trace(k, [t \in Threads |-> IF t \in A THEN V[t] \cup {AfterBar(C[t], m)}
                                                 ELSE V[t]],
               [t \in Threads |-> IF t \in A THEN AfterBar(C[t], m) ELSE C[t]],
               [M EXCEPT ![E + 1] = m], E + 1, A)
<1> DEFINE W == [t \in Threads |-> IF t \in A THEN V[t] \cup {AfterBar(C[t], m)}
                                              ELSE V[t]]
           D == [t \in Threads |-> IF t \in A THEN AfterBar(C[t], m) ELSE C[t]]
           L == [M EXCEPT ![E + 1] = m]
           F == E + 1
<1>1. /\ V \in [Threads -> SUBSET States] /\ C \in [Threads -> States]
      /\ M \in [Nat -> Memories] /\ E \in Nat /\ M[0] = FreshMem
      /\ \A t \in Threads : TraceOf(k, t, V[t], C[t], M, E, t \in A)
      /\ Barriers(k, V, M, E)
  BY DEF Trace
<1>2. /\ F \in Nat /\ E < F /\ F # 0 /\ L \in [Nat -> Memories] /\ L[F] = m
      /\ \A e \in Nat : e # F => L[e] = M[e]
  BY <1>1
<1>3. ASSUME NEW t \in Threads
      PROVE  /\ AfterBar(C[t], m) \in States
             /\ AfterBar(C[t], m).ep = C[t].ep + 1
             /\ C[t] \in V[t]
             /\ t \in A => C[t].ep = E
  BY <1>1, AfterBarIsState DEF TraceOf
<1>4. /\ W \in [Threads -> SUBSET States] /\ D \in [Threads -> States]
  BY <1>1, <1>3
<1>5. \A t \in Threads :
        IF t \in A THEN W[t] = V[t] \cup {D[t]} /\ D[t] = AfterBar(C[t], m)
                   ELSE W[t] = V[t] /\ D[t] = C[t]
  OBVIOUS
<1>6. F = E + 1
  OBVIOUS
<1> HIDE DEF W, D, L, F
<1>7. \A t \in Threads : t \in A => D[t].ep = F
  BY <1>3, <1>5, <1>6
<1>8. ASSUME NEW t \in Threads PROVE TraceOf(k, t, W[t], D[t], L, F, t \in A)
  <2>1. TraceOf(k, t, V[t], C[t], M, E, t \in A)
    BY <1>1
  <2>2. ASSUME NEW s \in V[t], AtBar(k, s), s.ep < E,
               AfterBar(s, M[s.ep + 1]) \in V[t]
        PROVE  s.ep < F /\ AfterBar(s, L[s.ep + 1]) \in V[t]
    <3>1. s.ep \in Nat
      BY <1>1 DEF States
    <3>2. s.ep + 1 \in Nat /\ s.ep + 1 # F /\ s.ep < F
      BY <1>1, <1>6, <2>2, <3>1
    <3> QED
      BY <1>2, <2>2, <3>2
  <2>3. CASE t \notin A
    <3>1. (t \in A) = FALSE /\ W[t] = V[t] /\ D[t] = C[t]
      BY <1>5, <2>3
    <3>2. TraceOf(k, t, V[t], C[t], M, E, FALSE)
      BY <2>1, <3>1
    <3>3. C[t].ep \in Nat /\ C[t].ep <= E
      BY <1>1, <3>2 DEF TraceOf, States
    <3>4. C[t].ep <= F
      BY <1>1, <1>6, <3>3
    <3>5. TraceOf(k, t, V[t], C[t], L, F, FALSE)
      BY <2>2, <3>2, <3>4 DEF TraceOf
    <3> QED
      BY <3>1, <3>5
  <2>4. CASE t \in A
    <3>1. /\ (t \in A) = TRUE /\ W[t] = V[t] \cup {D[t]} /\ D[t] = AfterBar(C[t], m)
          /\ AtBar(k, C[t]) /\ C[t].ep = E /\ D[t].ep = F /\ D[t].ep <= F
      BY <1>2, <1>3, <1>5, <1>7, <2>4
    <3>2. TraceOf(k, t, V[t], C[t], M, E, TRUE)
      BY <2>1, <3>1
    <3>3. ASSUME NEW s \in V[t]
          PROVE  /\ ~AtRet(k, s) /\ ~AtEnd(k, s)
                 /\ AtPlain(k, s) => Kept(k, t, s) /\ NextState(k, s) \in V[t]
                 /\ AtBar(k, s) => s.ep < F /\ AfterBar(s, L[s.ep + 1]) \in W[t]
      <4>1. CASE s = C[t]
        <5>1. L[s.ep + 1] = m /\ s.ep < F
          BY <1>2, <1>6, <3>1, <4>1
        <5> QED
          BY <3>1, <4>1, <5>1 DEF AtPlain, AtRet, AtEnd, AtBar, PlainOps
      <4>2. CASE s # C[t]
        BY <2>2, <3>1, <3>2, <4>2 DEF TraceOf
      <4> QED
        BY <4>1, <4>2
    <3>4. StartOf(t) \in V[t]
      BY <3>2 DEF TraceOf
    <3>5. TraceOf(k, t, W[t], D[t], L, F, TRUE)
      BY <3>1, <3>3, <3>4 DEF TraceOf
    <3> QED
      BY <3>1, <3>5
  <2> QED
    BY <2>3, <2>4
<1>9. Barriers(k, W, L, F)
  <2> SUFFICES ASSUME NEW e \in Nat, NEW S \in [Threads -> States], e < F,
                      \A t \in Threads : S[t] \in W[t] /\ S[t].ep = e /\ AtBar(k, S[t])
               PROVE  CellsFit(e, L[e], S, L[e + 1])
    BY DEF Barriers
  <2>1. \A t \in Threads : S[t] \in V[t]
    BY <1>1, <1>2, <1>5, <1>7
  <2>2. e # F
    BY <1>2
  <2>3. CASE e < E
    <3>1. e + 1 # F /\ e + 1 \in Nat
      BY <1>1, <1>6, <2>3
    <3> QED
      BY <1>1, <1>2, <2>1, <2>2, <2>3, <3>1 DEF Barriers
  <2>4. CASE e = E
    <3>1. ASSUME NEW t \in Threads PROVE S[t] = C[t]
      <4>1. S[t] \in V[t] /\ S[t].ep = E /\ AtBar(k, S[t]) /\ ~(E < E)
        BY <1>1, <2>1, <2>4
      <4> QED
        BY <1>1, <4>1 DEF TraceOf
    <3>2. S = C
      BY <1>1, <3>1
    <3> QED
      BY <1>1, <1>2, <1>6, <2>2, <2>4, <3>2
  <2> QED
    BY <1>1, <1>6, <2>3, <2>4
<1>10. D[x].ep = F
  BY <1>7
<1>11. L[0] = FreshMem
  BY <1>1, <1>2
<1>12. Trace(k, W, D, L, F, A)
  BY <1>2, <1>4, <1>8, <1>9, <1>10, <1>11 DEF Trace
<1> QED
  BY <1>12 DEF W, D, L, F

-----------------------------------------------------------------------------
(* The interpreter follows the trace.                                      *)

\* The interpreter is where C says its living threads are; a thread parked at
\* a barrier has not crossed it in C.
Now(C, M, E) ==
  /\ \A t \in alive :
       /\ regs[t] = C[t].regs /\ pred[t] = C[t].pred /\ epoch[t] = E
       /\ pc[t] = IF t \in blocked THEN C[t].pc + 1 ELSE C[t].pc
       /\ t \in blocked => AtBar(kernel, C[t])
  /\ CellsFit(E, M[E], C, mem)

Traced == \E V, C, M, E : Trace(kernel, V, C, M, E, alive) /\ Now(C, M, E)

RunInv ==
  /\ IInv /\ DataOK
  /\ status = "running" => block = 0
  /\ (status # "failed" /\ ~Shuffles) => Traced

\* What is left alone by every instruction but bar.sync and ret.
Others == <<block, alive, blocked, status, epoch, kernel>>

LEMMA InterpMoves ==
  ASSUME TypeOK, DataOK, GuardsHonoured, ~Shuffles,
         GatedOff \/ Branch \/ Setp \/ Execute \/ Shuffle
  PROVE  /\ i \in Threads /\ i \in alive /\ i \notin blocked
         /\ pc[i] \in DOMAIN kernel /\ Ins \in Instructions /\ Ins.op \in PlainOps
         /\ pc' = [pc EXCEPT ![i] = NextPlace(Ins, pred[i], pc[i])]
         /\ regs' = [regs EXCEPT ![i] = NextRegs(Ins, regs[i], pred[i], mem)]
         /\ pred' = [pred EXCEPT ![i] = NextPred(Ins, regs[i], pred[i])]
         /\ mem' = NextMem(Ins, regs[i], pred[i], mem)
         /\ UNCHANGED Others
<1>1. Step /\ InBody /\ UNCHANGED Others
  BY DEF GatedOff, Branch, Setp, Execute, Shuffle, Advance, Taken, Others
<1>2. i \in Threads /\ Ins \in Instructions
  BY <1>1, InsIsInstruction
<1>3. i \in alive /\ i \notin blocked
  BY <1>1 DEF Step, Runnable
<1>4. kernel \in Kernels /\ pc[i] \in DOMAIN kernel
  <2>1. kernel \in Seq(Instructions)
    BY KernelAssumption DEF DataOK
  <2> QED
    BY <1>1, <1>2, <2>1 DEF DataOK, InBody
<1>5. Ins.op # "shfl" /\ Ins.op \in Ops
  BY <1>2, <1>4 DEF Shuffles, Ins, Instructions
<1>6. Ins.guard = "always" \/ Ins.op \in {"add", "setp", "ld", "bra"}
  BY <1>4, <1>5 DEF GuardsHonoured, Ins
<1>7. /\ regs \in [Threads -> [Registers -> Words]]
      /\ pred \in [Threads -> BOOLEAN]
      /\ regs[i] \in [Registers -> Words]
  BY <1>2 DEF DataOK
<1>8. CASE GatedOff
  <2>1. ~Passes(Ins, pred[i]) /\ UNCHANGED <<regs, pred, mem>> /\ NextPc
    BY <1>1, <1>8 DEF GatedOff, Taken
  <2>2. Ins.op \in PlainOps
    BY <1>6, <2>1 DEF Passes, PlainOps, Ops
  <2>3. pc' = [pc EXCEPT ![i] = NextPlace(Ins, pred[i], pc[i])]
    BY <2>1 DEF NextPc, NextPlace
  <2>4. /\ NextRegs(Ins, regs[i], pred[i], mem) = regs[i]
        /\ NextPred(Ins, regs[i], pred[i]) = pred[i]
        /\ NextMem(Ins, regs[i], pred[i], mem) = mem
    BY <2>1 DEF NextRegs, NextPred, NextMem
  <2>5. /\ regs' = [regs EXCEPT ![i] = NextRegs(Ins, regs[i], pred[i], mem)]
        /\ mem' = NextMem(Ins, regs[i], pred[i], mem)
    BY <1>2, <1>7, <2>1, <2>4
  <2>6. pred' = [pred EXCEPT ![i] = NextPred(Ins, regs[i], pred[i])]
    BY <1>2, <1>7, <2>1, <2>4, Zenon
  <2> QED
    BY <1>1, <1>2, <1>3, <1>4, <2>2, <2>3, <2>5, <2>6
<1>9. CASE Branch
  <2>1. /\ Passes(Ins, pred[i]) /\ Ins.op = "bra" /\ UNCHANGED <<regs, pred, mem>>
        /\ pc' = [pc EXCEPT ![i] = Ins.k]
    BY <1>9 DEF Branch, Taken
  <2>2. Ins.op \in PlainOps
    BY <2>1 DEF PlainOps, Ops
  <2>3. pc' = [pc EXCEPT ![i] = NextPlace(Ins, pred[i], pc[i])]
    BY <2>1 DEF NextPlace
  <2>4. /\ NextRegs(Ins, regs[i], pred[i], mem) = regs[i]
        /\ NextPred(Ins, regs[i], pred[i]) = pred[i]
        /\ NextMem(Ins, regs[i], pred[i], mem) = mem
    BY <2>1 DEF NextRegs, NextPred, NextMem, Writes, Stored
  <2>5. /\ regs' = [regs EXCEPT ![i] = NextRegs(Ins, regs[i], pred[i], mem)]
        /\ mem' = NextMem(Ins, regs[i], pred[i], mem)
    BY <1>2, <1>7, <2>1, <2>4
  <2>6. pred' = [pred EXCEPT ![i] = NextPred(Ins, regs[i], pred[i])]
    BY <1>2, <1>7, <2>1, <2>4, Zenon
  <2> QED
    BY <1>1, <1>2, <1>3, <1>4, <2>2, <2>3, <2>5, <2>6
<1>10. CASE Setp
  <2>1. /\ Passes(Ins, pred[i]) /\ Ins.op = "setp" /\ UNCHANGED <<regs, mem>>
        /\ pred' = [pred EXCEPT ![i] = Compare(Ins, regs[i])] /\ NextPc
    BY <1>10 DEF Setp, Taken
  <2>2. Ins.op \in PlainOps
    BY <2>1 DEF PlainOps, Ops
  <2>3. pc' = [pc EXCEPT ![i] = NextPlace(Ins, pred[i], pc[i])]
    BY <2>1 DEF NextPc, NextPlace
  <2>4. /\ NextRegs(Ins, regs[i], pred[i], mem) = regs[i]
        /\ NextMem(Ins, regs[i], pred[i], mem) = mem
    BY <2>1 DEF NextRegs, NextMem, Writes, Stored
  <2>5. NextPred(Ins, regs[i], pred[i]) = Compare(Ins, regs[i])
    BY <2>1, Zenon DEF NextPred
  <2>6. /\ regs' = [regs EXCEPT ![i] = NextRegs(Ins, regs[i], pred[i], mem)]
        /\ mem' = NextMem(Ins, regs[i], pred[i], mem)
    BY <1>2, <1>7, <2>1, <2>4
  <2>7. pred' = [pred EXCEPT ![i] = NextPred(Ins, regs[i], pred[i])]
    BY <2>1, <2>5, Zenon
  <2> QED
    BY <1>1, <1>2, <1>3, <1>4, <2>2, <2>3, <2>6, <2>7
<1>11. CASE Execute
  <2>1. /\ Passes(Ins, pred[i]) /\ Ins.op \in {"add", "ld", "st", "atom", "red"}
        /\ pred' = pred /\ NextPc
        /\ mem' = Stored(Ins, regs[i], mem)
        /\ regs' = IF Writes(Ins)
                     THEN [regs EXCEPT ![i][Ins.d] = Result(Ins, regs[i], mem, 0)]
                     ELSE regs
    BY <1>11 DEF Execute, Taken
  <2>2. Ins.op \in PlainOps
    BY <2>1 DEF PlainOps, Ops
  <2>3. pc' = [pc EXCEPT ![i] = NextPlace(Ins, pred[i], pc[i])]
    BY <2>1 DEF NextPc, NextPlace
  <2>4. /\ NextPred(Ins, regs[i], pred[i]) = pred[i]
        /\ NextMem(Ins, regs[i], pred[i], mem) = Stored(Ins, regs[i], mem)
    BY <2>1 DEF NextPred, NextMem
  <2>5. regs' = [regs EXCEPT ![i] = NextRegs(Ins, regs[i], pred[i], mem)]
    <3>1. CASE Writes(Ins)
      <4>1. NextRegs(Ins, regs[i], pred[i], mem) =
              [regs[i] EXCEPT ![Ins.d] = Result(Ins, regs[i], mem, 0)]
        BY <2>1, <3>1 DEF NextRegs
      <4> QED
        BY <2>1, <3>1, <4>1
    <3>2. CASE ~Writes(Ins)
      <4>1. NextRegs(Ins, regs[i], pred[i], mem) = regs[i]
        BY <3>2 DEF NextRegs
      <4> QED
        BY <1>2, <1>7, <2>1, <3>2, <4>1
    <3> QED
      BY <3>1, <3>2
  <2>6. pred' = [pred EXCEPT ![i] = NextPred(Ins, regs[i], pred[i])]
    BY <1>2, <1>7, <2>1, <2>4, Zenon
  <2> QED
    BY <1>1, <1>2, <1>3, <1>4, <2>1, <2>2, <2>3, <2>4, <2>5, <2>6
<1>12. CASE Shuffle
  BY <1>5, <1>12 DEF Shuffle
<1> QED
  BY <1>8, <1>9, <1>10, <1>11, <1>12

LEMMA MovesTraced ==
  ASSUME RunInv, GuardsHonoured, OwnerOK, RaceFree, ~Shuffles, status # "failed",
         GatedOff \/ Branch \/ Setp \/ Execute \/ Shuffle
  PROVE  Traced'
<1>1. TypeOK /\ DataOK /\ kernel \in Kernels
  BY DEF RunInv, IInv, DataOK
<1>2. PICK V, C, M, E : Trace(kernel, V, C, M, E, alive) /\ Now(C, M, E)
  BY DEF RunInv, Traced
<1>3. PICK t \in Threads : t = i
  BY <1>1, InterpMoves
<1>4. PICK ins \in Instructions : ins = Ins
  BY <1>1, InterpMoves
<1>5. /\ t \in alive /\ t \notin blocked
      /\ pc[t] \in DOMAIN kernel /\ ins = kernel[pc[t]] /\ ins.op \in PlainOps
      /\ pc' = [pc EXCEPT ![t] = NextPlace(ins, pred[t], pc[t])]
      /\ regs' = [regs EXCEPT ![t] = NextRegs(ins, regs[t], pred[t], mem)]
      /\ pred' = [pred EXCEPT ![t] = NextPred(ins, regs[t], pred[t])]
      /\ mem' = NextMem(ins, regs[t], pred[t], mem)
      /\ UNCHANGED <<alive, blocked, epoch, kernel>>
  BY <1>1, <1>3, <1>4, InterpMoves DEF Others, Ins
<1>6. PICK s \in States : s = C[t]
  BY <1>2 DEF Trace
<1>7. s.pc = pc[t] /\ s.regs = regs[t] /\ s.pred = pred[t] /\ epoch[t] = E
  BY <1>2, <1>5, <1>6 DEF Now
<1>8. AtPlain(kernel, s) /\ ins = kernel[s.pc]
  BY <1>5, <1>7 DEF AtPlain
<1>9. s.ep = E /\ E \in Nat /\ M \in [Nat -> Memories] /\ C \in [Threads -> States]
  <2>1. TraceOf(kernel, t, V[t], C[t], M, E, t \in alive)
    BY <1>2 DEF Trace
  <2> QED
    BY <1>2, <1>5, <1>6, <2>1 DEF Trace, TraceOf
<1>10. Passes(ins, s.pred) => MayAccess(t, E, ins, s.regs)
  <2>1. Runnable(i) /\ InBody
    BY <1>3, <1>5 DEF GatedOff, Branch, Setp, Execute, Shuffle, Advance, Step, Taken
  <2>2. Passes(Ins, pred[i]) => MayAccess(i, epoch[i], Ins, regs[i])
    BY <2>1 DEF RaceFree, Taken
  <2> QED
    BY <1>3, <1>4, <1>7, <2>2
<1>11. Kept(kernel, t, s)
  BY <1>8, <1>9, <1>10 DEF Kept
<1>n. PICK n : n = NextState(kernel, s)
  OBVIOUS
<1>d. PICK D : D = [C EXCEPT ![t] = n]
  OBVIOUS
<1>w. PICK W : W = [V EXCEPT ![t] = @ \cup {n}]
  OBVIOUS
<1>12. /\ n \in States /\ n.ep = E
       /\ n.pc = NextPlace(ins, s.pred, s.pc)
       /\ n.regs = NextRegs(ins, s.regs, s.pred, s.view)
       /\ n.pred = NextPred(ins, s.regs, s.pred)
       /\ n.view = NextMem(ins, s.regs, s.pred, s.view)
  BY <1>1, <1>8, <1>9, <1>n, StepIsState DEF NextState
<1>13. Trace(kernel, W, D, M, E, alive)
  BY <1>1, <1>2, <1>5, <1>6, <1>8, <1>11, <1>n, <1>d, <1>w, TraceMoves
<1>14. D[t] = n /\ \A u \in Threads \ {t} : D[u] = C[u]
  BY <1>9, <1>d
<1>15. /\ NextRegs(ins, s.regs, s.pred, mem) = NextRegs(ins, s.regs, s.pred, s.view)
       /\ CellsFit(E, M[E], D, NextMem(ins, s.regs, s.pred, mem))
  <2>1. PICK b \in Memories, m \in Memories : b = M[E] /\ m = mem
    BY <1>1, <1>9 DEF DataOK, Memories
  <2>3. CellsFit(E, b, C, m)
    BY <1>2, <2>1 DEF Now
  <2>2. ins.op \in PlainOps /\ s = C[t] /\ s.ep = E
    BY <1>5, <1>6, <1>9
  <2> QED
    <3>1. E \in Nat /\ C \in [Threads -> States] /\ n \in States /\ n.ep = E
          /\ n.view = NextMem(ins, s.regs, s.pred, s.view)
      BY <1>9, <1>12
    <3>2. /\ NextRegs(ins, s.regs, s.pred, m) = NextRegs(ins, s.regs, s.pred, s.view)
          /\ CellsFit(E, b, D, NextMem(ins, s.regs, s.pred, m))
      BY <1>10, <1>14, <2>2, <2>3, <3>1, StepFits
    <3> QED
      BY <2>1, <3>2
<1>16. CellsFit(E, M[E], D, mem')
  BY <1>5, <1>7, <1>15
<1>17. ASSUME NEW u \in alive
       PROVE  /\ regs'[u] = D[u].regs /\ pred'[u] = D[u].pred /\ epoch'[u] = E
              /\ pc'[u] = IF u \in blocked THEN D[u].pc + 1 ELSE D[u].pc
              /\ u \in blocked => AtBar(kernel, D[u])
  <2>1. u \in Threads
    BY <1>1 DEF TypeOK
  <2>2. /\ regs[u] = C[u].regs /\ pred[u] = C[u].pred /\ epoch[u] = E
        /\ pc[u] = IF u \in blocked THEN C[u].pc + 1 ELSE C[u].pc
        /\ u \in blocked => AtBar(kernel, C[u])
    BY <1>2 DEF Now
  <2>3. CASE u = t
    <3>1. regs'[t] = n.regs /\ pc'[t] = n.pc
      BY <1>1, <1>5, <1>7, <1>12, <1>15 DEF DataOK
    <3>2. pred'[t] = n.pred
      BY <1>1, <1>5, <1>7, <1>12, Zenon DEF DataOK
    <3> QED
      BY <1>5, <1>14, <2>2, <2>3, <3>1, <3>2
  <2>4. CASE u # t
    <3>1. D[u] = C[u] /\ regs'[u] = regs[u] /\ pc'[u] = pc[u]
      BY <1>1, <1>5, <1>14, <2>1, <2>4 DEF DataOK
    <3>2. pred'[u] = pred[u]
      BY <1>1, <1>5, <2>1, <2>4, Zenon DEF DataOK
    <3> QED
      BY <1>5, <2>2, <3>1, <3>2
  <2> QED
    BY <2>3, <2>4
<1>18. Now(D, M, E)'
  BY <1>5, <1>16, <1>17 DEF Now
<1>19. Trace(kernel, W, D, M, E, alive)'
  BY <1>5, <1>13
<1> QED
  BY <1>18, <1>19 DEF Traced

LEMMA BarTraced ==
  ASSUME RunInv, ~Shuffles, status # "failed", BarSync
  PROVE  Traced'
<1>1. TypeOK /\ DataOK /\ kernel \in Kernels
  BY DEF RunInv, IInv, DataOK
<1>2. PICK V, C, M, E : Trace(kernel, V, C, M, E, alive) /\ Now(C, M, E)
  BY DEF RunInv, Traced
<1>3. Step /\ InBody
  BY DEF BarSync, Park, Taken
<1>4. /\ i \in Threads /\ i \in alive /\ i \notin blocked /\ pc[i] \in DOMAIN kernel
      /\ kernel[pc[i]].op = "bar"
      /\ pc' = [pc EXCEPT ![i] = @ + 1] /\ blocked' = blocked \cup {i}
      /\ UNCHANGED <<alive, epoch, kernel, regs, pred, mem>>
  <2>1. i \in Threads /\ pc[i] + 1 \in 1 .. Len(kernel) + 1
    BY <1>1, <1>3, InsIsInstruction
  <2>2. kernel \in Seq(Instructions) /\ pc[i] \in 1 .. Len(kernel) + 1
    BY <1>1, <2>1, KernelAssumption DEF DataOK
  <2>3. pc[i] \in DOMAIN kernel
    BY <1>3, <2>2 DEF InBody
  <2> QED
    BY <2>1, <2>3 DEF BarSync, Park, Step, Runnable, NextPc, Ins
<1>5. AtBar(kernel, C[i])
  BY <1>2, <1>4 DEF Now, AtBar
<1>6. ASSUME NEW u \in alive
      PROVE  /\ regs[u] = C[u].regs /\ pred[u] = C[u].pred /\ epoch[u] = E
             /\ pc'[u] = IF u \in blocked \cup {i} THEN C[u].pc + 1 ELSE C[u].pc
             /\ u \in blocked \cup {i} => AtBar(kernel, C[u])
  <2>1. u \in Threads
    BY <1>1 DEF TypeOK
  <2>2. pc'[u] = IF u = i THEN pc[u] + 1 ELSE pc[u]
    BY <1>1, <1>4, <2>1 DEF DataOK
  <2> QED
    BY <1>2, <1>4, <1>5, <2>2 DEF Now
<1>7. Now(C, M, E)'
  BY <1>2, <1>4, <1>6 DEF Now
<1> QED
  BY <1>2, <1>4, <1>7 DEF Traced

LEMMA RetTraced ==
  ASSUME RunInv, ~Shuffles, status # "failed", Ret
  PROVE  Traced'
<1>1. TypeOK /\ DataOK /\ kernel \in Kernels
  BY DEF RunInv, IInv, DataOK
<1>2. PICK V, C, M, E : Trace(kernel, V, C, M, E, alive) /\ Now(C, M, E)
  BY DEF RunInv, Traced
<1>3. Step /\ InBody
  BY DEF Ret, Finish, Taken
<1>4. /\ i \in Threads /\ i \in alive /\ i \notin blocked /\ pc[i] \in DOMAIN kernel
      /\ kernel[pc[i]].op = "ret"
      /\ alive' = alive \ {i}
      /\ UNCHANGED <<blocked, epoch, kernel, pc, regs, pred, mem>>
  <2>1. i \in Threads /\ pc[i] + 1 \in 1 .. Len(kernel) + 1
    BY <1>1, <1>3, InsIsInstruction
  <2>2. kernel \in Seq(Instructions) /\ pc[i] \in 1 .. Len(kernel) + 1
    BY <1>1, <2>1, KernelAssumption DEF DataOK
  <2>3. pc[i] \in DOMAIN kernel
    BY <1>3, <2>2 DEF InBody
  <2> QED
    BY <2>1, <2>3 DEF Ret, Finish, Step, Runnable, Ins, data
<1>5. AtRet(kernel, C[i])
  BY <1>2, <1>4 DEF Now, AtRet
<1>6. Trace(kernel, V, C, M, E, alive \ {i})
  BY <1>2, <1>4, <1>5, TraceReturns
<1>7. Now(C, M, E)'
  BY <1>2, <1>4 DEF Now
<1> QED
  BY <1>4, <1>6, <1>7 DEF Traced

LEMMA RoundTraced ==
  ASSUME RunInv, ~Shuffles, status # "failed", NextRound, UNCHANGED <<kernel, data>>
  PROVE  Traced'
<1>1. TypeOK /\ DataOK /\ blocked \subseteq alive
  BY DEF RunInv, IInv, ParkedIsAlive
<1>2. PICK V, C, M, E : Trace(kernel, V, C, M, E, alive) /\ Now(C, M, E)
  BY DEF RunInv, Traced
<1>3. UNCHANGED <<kernel, alive, pc, regs, pred, mem>>
  BY DEF NextRound, data
<1>4. CASE UNCHANGED <<blocked, epoch>>
  <2>1. Now(C, M, E)'
    BY <1>2, <1>3, <1>4 DEF Now
  <2> QED
    BY <1>2, <1>3, <2>1 DEF Traced
<1>5. CASE AllBlocked /\ blocked = {}
  <2>1. UNCHANGED <<blocked, epoch>>
    BY <1>1, <1>5 DEF NextRound, TypeOK
  <2> QED
    BY <1>4, <2>1
<1>6. CASE AllBlocked /\ blocked # {}
  <2>1. /\ blocked = alive /\ blocked' = {}
        /\ \A t \in alive : epoch'[t] = epoch[t] + 1
    BY <1>1, <1>6 DEF NextRound, AllBlocked, TypeOK
  <2>2. PICK x \in Threads : x \in alive
    BY <1>1, <1>6 DEF TypeOK
  <2>3. \A t \in Threads : t \in alive => AtBar(kernel, C[t])
    BY <1>2, <2>1 DEF Now
  <2>4. PICK m \in Memories : m = mem
    BY <1>1 DEF DataOK, Memories
  <2>5. CellsFit(E, M[E], C, m)
    BY <1>2, <2>4 DEF Now
  <2>w. PICK W : W = [t \in Threads |-> IF t \in alive THEN V[t] \cup {AfterBar(C[t], m)}
                                                      ELSE V[t]]
    OBVIOUS
  <2>d. PICK D : D = [t \in Threads |-> IF t \in alive THEN AfterBar(C[t], m) ELSE C[t]]
    OBVIOUS
  <2>l. PICK L : L = [M EXCEPT ![E + 1] = m]
    OBVIOUS
  <2>o. Trace(kernel, [t \in Threads |-> IF t \in alive THEN V[t] \cup {AfterBar(C[t], m)}
                                                         ELSE V[t]],
              [t \in Threads |-> IF t \in alive THEN AfterBar(C[t], m) ELSE C[t]],
              [M EXCEPT ![E + 1] = m], E + 1, alive)
    BY <1>2, <2>2, <2>3, <2>5, TraceOpens
  <2>6. Trace(kernel, W, D, L, E + 1, alive)
    BY <2>o, <2>w, <2>d, <2>l
  <2>7. /\ C \in [Threads -> States] /\ M \in [Nat -> Memories] /\ E \in Nat
        /\ \A t \in Threads : TraceOf(kernel, t, V[t], C[t], M, E, t \in alive)
    BY <1>2 DEF Trace
  <2>8. \A t \in Threads : t \in alive => D[t] = AfterBar(C[t], m)
    BY <2>d
  <2>9. \A t \in Threads : t \notin alive => D[t] = C[t]
    BY <2>d
  <2>10. L[E + 1] = m
    BY <2>7, <2>l
  <2>11. CellsFit(E + 1, m, D, m)
    <3>1. ASSUME NEW t \in Threads, D[t].ep = E + 1
          PROVE  D[t].view = Opening(E + 1, m)
      <4>1. C[t].ep <= E /\ C[t].ep \in Nat
        BY <2>7 DEF TraceOf, States
      <4>2. t \in alive
        BY <2>7, <2>9, <3>1, <4>1
      <4>3. C[t].ep = E
        BY <2>7, <4>2 DEF TraceOf
      <4>4. AfterBar(C[t], m).view = Opening(C[t].ep + 1, m)
        BY DEF AfterBar
      <4> QED
        BY <2>8, <4>2, <4>3, <4>4
    <3>2. E + 1 \in Nat
      BY <2>7
    <3> QED
      BY <3>1, <3>2, PhaseBegins
  <2>12. ASSUME NEW t \in alive
         PROVE  /\ regs[t] = D[t].regs /\ pred[t] = D[t].pred
                /\ pc[t] = D[t].pc /\ epoch'[t] = E + 1
    <3>1. t \in Threads /\ t \in blocked
      BY <1>1, <2>1 DEF TypeOK
    <3>2. D[t] = AfterBar(C[t], m)
      BY <2>8, <3>1
    <3> QED
      BY <1>2, <2>1, <3>1, <3>2 DEF Now, AfterBar
  <2>13. Now(D, L, E + 1)'
    BY <1>3, <2>1, <2>4, <2>10, <2>11, <2>12 DEF Now
  <2> QED
    BY <1>3, <2>6, <2>13 DEF Traced
<1> QED
  BY <1>4, <1>5, <1>6 DEF NextRound

LEMMA RunInvInit ==
  ASSUME InterpInit, Threads # {}, OwnerOK
  PROVE  RunInv
<1>1. IInv /\ DataOK /\ kernel \in Kernels
  BY InitInv, DataInit DEF InterpInit
<1>2. block = 0 /\ alive = Threads /\ blocked = {} /\ \A t \in Threads : epoch[t] = 0
  BY DEF InterpInit, Init
<1> DEFINE V == [t \in Threads |-> {StartOf(t)}]
           C == [t \in Threads |-> StartOf(t)]
           M == [n \in Nat |-> FreshMem]
<1>3. Trace(kernel, V, C, M, 0, Threads)
  BY <1>1, TraceStarts
<1>4. \A t \in Threads : C[t] = StartOf(t)
  OBVIOUS
<1>5. M[0] = FreshMem
  OBVIOUS
<1> HIDE DEF V, C, M
<1>s. \A t \in Threads : /\ StartOf(t).pc = 1 /\ StartOf(t).regs = FreshRegs(t)
                         /\ StartOf(t).pred = FALSE /\ StartOf(t).view = FreshMem
  BY DEF StartOf
<1>6. Opening(0, FreshMem) = FreshMem
  BY DEF Opening, FreshMem
<1>7. CellsFit(0, FreshMem, C, FreshMem)
  <2>1. \A t \in Threads : C[t].view = Opening(0, FreshMem)
    BY <1>4, <1>6, <1>s
  <2> QED
    BY <2>1, FreshIsState, PhaseBegins
<1>8. \A t \in Threads : regs[t] = C[t].regs /\ pred[t] = C[t].pred /\ pc[t] = C[t].pc
  BY <1>4, <1>s DEF InterpInit, FreshPc, FreshRegisters, FreshPred
<1>9. mem = FreshMem
  BY DEF InterpInit
<1>10. Now(C, M, 0)
  BY <1>2, <1>5, <1>7, <1>8, <1>9 DEF Now
<1>11. Traced
  BY <1>2, <1>3, <1>10 DEF Traced
<1> QED
  BY <1>1, <1>2, <1>11 DEF RunInv

LEMMA RunInvStep ==
  ASSUME SameBlock, RunInv, OwnerOK, GuardsHonoured, RaceFree,
         [InterpNext]_interpVars
  PROVE  RunInv'
<1>1. IInv'
  BY StepInv, StepIsScheduled DEF RunInv
<1>2. DataOK'
  BY DataStep DEF RunInv, IInv
<1>3. (status = "running" => block = 0)'
  BY StepIsScheduled DEF SameBlock, RunInv, Next, vars, Skip, Advance, Park, Finish,
     Fault, OutOfSteps, Step, NextRound, EndBlock
<1>4. ASSUME status' # "failed", ~Shuffles'
      PROVE  Traced'
  <2>1. ~Shuffles /\ kernel' = kernel
    BY <1>4 DEF InterpNext, interpVars, RunOff, GatedOff, Branch, Setp, Execute,
                Shuffle, BarSync, Ret, Schedule, Shuffles
  <2>2. status # "failed"
    BY <1>4, StepIsScheduled DEF Next, vars, Skip, Advance, Park, Finish,
       Fault, OutOfSteps, Step, NextRound, EndBlock
  <2>3. PICK V, C, M, E : Trace(kernel, V, C, M, E, alive) /\ Now(C, M, E)
    BY <2>1, <2>2 DEF RunInv, Traced
  <2>4. CASE UNCHANGED <<alive, blocked, epoch, data>>
    <3>1. Now(C, M, E)'
      BY <2>1, <2>3, <2>4 DEF Now, data
    <3> QED
      BY <2>1, <2>3, <2>4, <3>1 DEF Traced
  <2>5. CASE RunOff
    BY <1>4, <2>5 DEF RunOff, Fault
  <2>6. CASE GatedOff \/ Branch \/ Setp \/ Execute \/ Shuffle
    BY <2>1, <2>2, <2>6, MovesTraced
  <2>7. CASE BarSync
    BY <2>1, <2>2, <2>7, BarTraced
  <2>8. CASE Ret
    BY <2>1, <2>2, <2>8, RetTraced
  <2>9. CASE Schedule
    <3>1. CASE NextRound
      <4>1. UNCHANGED <<kernel, data>>
        BY <2>9, <3>1 DEF Schedule, NextRound
      <4> QED
        BY <2>1, <2>2, <3>1, <4>1, RoundTraced
    <3>2. CASE Skip
      <4>1. UNCHANGED <<alive, blocked, epoch, data>>
        BY <2>9, <3>2 DEF Schedule, Skip
      <4> QED
        BY <2>4, <4>1
    <3>3. CASE OutOfSteps
      BY <1>4, <3>3 DEF OutOfSteps
    <3>4. CASE EndBlock
      <4>1. status' = "done" /\ UNCHANGED <<alive, blocked, epoch>>
        BY <3>4 DEF SameBlock, EndBlock, RunInv
      <4>2. UNCHANGED data
        BY <2>9, <4>1 DEF Schedule
      <4> QED
        BY <2>4, <4>1, <4>2
    <3> QED
      BY <2>9, <3>1, <3>2, <3>3, <3>4 DEF Schedule
  <2>10. CASE UNCHANGED interpVars
    BY <2>4, <2>10 DEF interpVars, vars
  <2> QED
    BY <2>5, <2>6, <2>7, <2>8, <2>9, <2>10 DEF InterpNext
<1> QED
  BY <1>1, <1>2, <1>3, <1>4 DEF RunInv

-----------------------------------------------------------------------------
(* The lanes of the ahead-of-time path follow the trace, each at its own   *)
(* pace within a phase.                                                    *)

AotTypes ==
  /\ apc \in [Lanes -> Nat]
  /\ aregs \in [Lanes -> [Registers -> Words]]
  /\ apred \in [Lanes -> BOOLEAN]
  /\ amem \in Memories
  /\ inside \subseteq Lanes /\ leaving \subseteq Lanes
  /\ inside \cap leaving = {}

\* Lane t is in the state L[t] of the trace; one that was released and has
\* not woken up yet is past the barrier in L.
LaneAt(t, W, s, e) ==
  /\ s \in W /\ s.ep = e
  /\ aregs[t] = s.regs /\ apred[t] = s.pred
  /\ t \in leaving => apc[t] + 1 = s.pc /\ apc[t] \in DOMAIN kernel
  /\ t \in inside => apc[t] = s.pc /\ AtBar(kernel, s)
  /\ t \notin inside \cup leaving =>
       apc[t] = s.pc \/ (apc[t] = Exited /\ AtRet(kernel, s))

Follows(V, M, L, e) ==
  /\ AotTypes
  /\ L \in [Threads -> States] /\ e \in Nat
  /\ \A t \in Threads : LaneAt(t, V[t], L[t], e)
  /\ CellsFit(e, M[e], L, amem)

Followed ==
  \E V, C, M, E, L, e :
    /\ Trace(kernel, V, C, M, E, {}) /\ CellsFit(E, M[E], C, mem)
    /\ Follows(V, M, L, e)

AotFresh ==
  /\ apc = [t \in Lanes |-> 1]
  /\ aregs = [t \in Lanes |-> FreshRegs(t)]
  /\ apred = [t \in Lanes |-> FALSE]
  /\ amem = FreshMem
  /\ inside = {} /\ leaving = {}

PathInv ==
  /\ RunInv
  /\ status = "running" => AotFresh
  /\ (status = "done" /\ ~Shuffles) => Followed

LEMMA SameLanes ==
  ASSUME SameBlock
  PROVE  Lanes = Threads /\ Count = N
BY DEF SameBlock, Lanes, Threads

LEMMA AotMoves ==
  ASSUME kernel \in Kernels, AotTypes, GuardsHonoured, ~Shuffles, NEW t \in Lanes,
         Compute(t) \/ ASetp(t) \/ ABranch(t)
  PROVE  LET ins == AIns(t)
         IN  /\ t \notin inside \cup leaving /\ apc[t] \in DOMAIN kernel
             /\ apc[t] # 0
             /\ ins \in Instructions /\ ins.op \in PlainOps
             /\ apc' = [apc EXCEPT ![t] = NextPlace(ins, apred[t], apc[t])]
             /\ aregs' = [aregs EXCEPT ![t] = NextRegs(ins, aregs[t], apred[t], amem)]
             /\ apred' = [apred EXCEPT ![t] = NextPred(ins, aregs[t], apred[t])]
             /\ amem' = NextMem(ins, aregs[t], apred[t], amem)
             /\ UNCHANGED <<kernel, inside, leaving>>
<1> DEFINE ins == AIns(t)
<1>1. Ready(t) /\ UNCHANGED <<kernel, inside, leaving>>
  BY DEF Compute, ASetp, ABranch
<1>2. kernel \in Seq(Instructions)
  BY KernelAssumption
<1>3. /\ t \notin inside \cup leaving /\ apc[t] \in DOMAIN kernel /\ apc[t] # 0
      /\ ins \in Instructions
  BY <1>1, <1>2 DEF Ready, AIns
<1>4. ins.op # "shfl" /\ ins.op \in Ops /\ ins.d \in Registers
  BY <1>3 DEF Shuffles, AIns, Instructions
<1>5. ins.guard = "always" \/ ins.op \in {"add", "setp", "ld", "bra"}
  BY <1>3, <1>4 DEF GuardsHonoured, AIns
<1>6. aregs[t] \in [Registers -> Words] /\ apred[t] \in BOOLEAN
  BY DEF AotTypes
<1>7. CASE Compute(t)
  <2>1. /\ ins.op \in {"add", "ld", "st", "atom", "red"}
        /\ ANextPc(t) /\ apred' = apred
        /\ amem' = Stored(ins, aregs[t], amem)
        /\ aregs' = IF Writes(ins)
                      THEN [aregs EXCEPT ![t][ins.d] =
                              Selected(t, Result(ins, aregs[t], amem, aregs[t][ins.b]))]
                      ELSE aregs
    BY <1>4, <1>7 DEF Compute
  <2>2. ins.op \in PlainOps
    BY <2>1 DEF PlainOps, Ops
  <2>3. apc' = [apc EXCEPT ![t] = NextPlace(ins, apred[t], apc[t])]
    BY <2>1 DEF ANextPc, NextPlace
  <2>4. NextPred(ins, aregs[t], apred[t]) = apred[t]
    BY <2>1 DEF NextPred
  <2>5. apred' = [apred EXCEPT ![t] = NextPred(ins, aregs[t], apred[t])]
    BY <2>1, <2>4, Zenon DEF AotTypes
  <2>6. amem' = NextMem(ins, aregs[t], apred[t], amem)
    BY <1>5, <2>1 DEF NextMem, Stored, Passes
  <2>7. aregs' = [aregs EXCEPT ![t] = NextRegs(ins, aregs[t], apred[t], amem)]
    <3>1. CASE ~Writes(ins)
      <4>1. NextRegs(ins, aregs[t], apred[t], amem) = aregs[t]
        BY <3>1 DEF NextRegs
      <4> QED
        BY <2>1, <3>1, <4>1 DEF AotTypes
    <3>2. CASE Writes(ins) /\ Passes(ins, apred[t])
      <4>1. Result(ins, aregs[t], amem, aregs[t][ins.b]) = Result(ins, aregs[t], amem, 0)
        BY <2>1 DEF Result
      <4>2. Selected(t, Result(ins, aregs[t], amem, aregs[t][ins.b]))
              = Result(ins, aregs[t], amem, 0)
        BY <3>2, <4>1 DEF Selected
      <4>3. NextRegs(ins, aregs[t], apred[t], amem) =
              [aregs[t] EXCEPT ![ins.d] = Result(ins, aregs[t], amem, 0)]
        BY <3>2 DEF NextRegs
      <4> HIDE DEF ins
      <4> QED
        BY <2>1, <3>2, <4>2, <4>3
    <3>3. CASE Writes(ins) /\ ~Passes(ins, apred[t])
      <4>1. Selected(t, Result(ins, aregs[t], amem, aregs[t][ins.b])) = aregs[t][ins.d]
        BY <1>4, <3>3 DEF Selected
      <4>2. NextRegs(ins, aregs[t], apred[t], amem) = aregs[t]
        BY <3>3 DEF NextRegs
      <4>3. aregs' = [aregs EXCEPT ![t][ins.d] = aregs[t][ins.d]]
        BY <2>1, <3>3, <4>1
      <4> HIDE DEF ins
      <4> QED
        BY <1>4, <1>6, <4>2, <4>3 DEF AotTypes
    <3> QED
      BY <3>1, <3>2, <3>3
  <2> QED
    BY <1>1, <1>3, <2>2, <2>3, <2>5, <2>6, <2>7
<1>8. CASE ASetp(t)
  <2>1. /\ ins.op = "setp" /\ ANextPc(t) /\ aregs' = aregs /\ amem' = amem
        /\ apred' = [apred EXCEPT ![t] = IF Passes(ins, @)
                                           THEN Compare(ins, aregs[t]) ELSE @]
    BY <1>8 DEF ASetp
  <2>2. ins.op \in PlainOps
    BY <2>1 DEF PlainOps, Ops
  <2>3. apc' = [apc EXCEPT ![t] = NextPlace(ins, apred[t], apc[t])]
    BY <2>1 DEF ANextPc, NextPlace
  <2>4. NextPred(ins, aregs[t], apred[t]) =
          IF Passes(ins, apred[t]) THEN Compare(ins, aregs[t]) ELSE apred[t]
    BY <2>1, Zenon DEF NextPred
  <2>5. apred' = [apred EXCEPT ![t] = NextPred(ins, aregs[t], apred[t])]
    BY <2>1, <2>4, Zenon
  <2>6. /\ NextRegs(ins, aregs[t], apred[t], amem) = aregs[t]
        /\ NextMem(ins, aregs[t], apred[t], amem) = amem
    BY <2>1 DEF NextRegs, NextMem, Writes, Stored
  <2>7. aregs' = [aregs EXCEPT ![t] = NextRegs(ins, aregs[t], apred[t], amem)]
    BY <2>1, <2>6 DEF AotTypes
  <2> QED
    BY <1>1, <1>3, <2>1, <2>2, <2>3, <2>5, <2>6, <2>7
<1>9. CASE ABranch(t)
  <2>1. /\ ins.op = "bra" /\ aregs' = aregs /\ amem' = amem /\ apred' = apred
        /\ apc' = [apc EXCEPT ![t] = IF Passes(ins, apred[t]) THEN ins.k ELSE @ + 1]
    BY <1>9 DEF ABranch
  <2>2. ins.op \in PlainOps
    BY <2>1 DEF PlainOps, Ops
  <2>3. apc' = [apc EXCEPT ![t] = NextPlace(ins, apred[t], apc[t])]
    BY <2>1 DEF NextPlace
  <2>4. NextPred(ins, aregs[t], apred[t]) = apred[t]
    BY <2>1 DEF NextPred
  <2>5. apred' = [apred EXCEPT ![t] = NextPred(ins, aregs[t], apred[t])]
    BY <2>1, <2>4, Zenon DEF AotTypes
  <2>6. /\ NextRegs(ins, aregs[t], apred[t], amem) = aregs[t]
        /\ NextMem(ins, aregs[t], apred[t], amem) = amem
    BY <2>1 DEF NextRegs, NextMem, Writes, Stored
  <2>7. aregs' = [aregs EXCEPT ![t] = NextRegs(ins, aregs[t], apred[t], amem)]
    BY <2>1, <2>6 DEF AotTypes
  <2> QED
    BY <1>1, <1>3, <2>1, <2>2, <2>3, <2>5, <2>6, <2>7
<1> QED
  BY <1>7, <1>8, <1>9

LEMMA LaneMoves ==
  ASSUME SameBlock, Followed, kernel \in Kernels, GuardsHonoured, OwnerOK,
         ~Shuffles, NEW t \in Lanes, Compute(t) \/ ASetp(t) \/ ABranch(t), mem' = mem
  PROVE  Followed'
<1>1. PICK V, C, M, E, L, e :
        /\ Trace(kernel, V, C, M, E, {}) /\ CellsFit(E, M[E], C, mem)
        /\ Follows(V, M, L, e)
  BY DEF Followed
<1>2. AotTypes /\ t \in Threads /\ LaneAt(t, V[t], L[t], e)
  BY <1>1, SameLanes DEF Follows
<1>3. PICK ins \in Instructions : ins = AIns(t)
  BY <1>2, AotMoves
<1>4. /\ t \notin inside \cup leaving /\ apc[t] \in DOMAIN kernel
      /\ apc[t] # 0 /\ ins.op \in PlainOps
      /\ apc' = [apc EXCEPT ![t] = NextPlace(ins, apred[t], apc[t])]
      /\ aregs' = [aregs EXCEPT ![t] = NextRegs(ins, aregs[t], apred[t], amem)]
      /\ apred' = [apred EXCEPT ![t] = NextPred(ins, aregs[t], apred[t])]
      /\ amem' = NextMem(ins, aregs[t], apred[t], amem)
      /\ kernel' = kernel /\ inside' = inside /\ leaving' = leaving
  BY <1>2, <1>3, AotMoves
<1>5. PICK s \in States : s = L[t]
  BY <1>1, <1>2 DEF Follows
<1>6. /\ s \in V[t] /\ s.ep = e /\ aregs[t] = s.regs /\ apred[t] = s.pred
      /\ apc[t] = s.pc
  BY <1>2, <1>4, <1>5 DEF LaneAt, Exited
<1>7. AtPlain(kernel, s) /\ ins = kernel[s.pc]
  BY <1>3, <1>4, <1>6 DEF AtPlain, AIns
<1>8. Kept(kernel, t, s) /\ NextState(kernel, s) \in V[t]
  <2>1. TraceOf(kernel, t, V[t], C[t], M, E, t \in {})
    BY <1>1, <1>2 DEF Trace
  <2> QED
    BY <1>6, <1>7, <2>1 DEF TraceOf
<1>n. PICK n : n = NextState(kernel, s)
  OBVIOUS
<1>d. PICK D : D = [L EXCEPT ![t] = n]
  OBVIOUS
<1>9. /\ n \in States /\ n.ep = e
      /\ n.pc = NextPlace(ins, s.pred, s.pc)
      /\ n.regs = NextRegs(ins, s.regs, s.pred, s.view)
      /\ n.pred = NextPred(ins, s.regs, s.pred)
      /\ n.view = NextMem(ins, s.regs, s.pred, s.view)
  BY <1>6, <1>7, <1>n, StepIsState DEF NextState
<1>10. L \in [Threads -> States] /\ e \in Nat /\ M \in [Nat -> Memories]
  BY <1>1 DEF Follows, Trace
<1>11. D \in [Threads -> States] /\ D[t] = n /\ \A u \in Threads \ {t} : D[u] = L[u]
  BY <1>2, <1>9, <1>10, <1>d
<1>12. PICK b \in Memories, m \in Memories : b = M[e] /\ m = amem
  BY <1>2, <1>10 DEF AotTypes
<1>13. Passes(ins, s.pred) => MayAccess(t, e, ins, s.regs)
  BY <1>6, <1>7, <1>8 DEF Kept
<1>14. /\ NextRegs(ins, s.regs, s.pred, m) = NextRegs(ins, s.regs, s.pred, s.view)
       /\ CellsFit(e, b, D, NextMem(ins, s.regs, s.pred, m))
  <2>1. CellsFit(e, b, L, m)
    BY <1>1, <1>12 DEF Follows
  <2>2. s = L[t] /\ s.ep = e /\ ins.op \in PlainOps
    BY <1>4, <1>5, <1>6
  <2> QED
    BY <1>2, <1>9, <1>10, <1>11, <1>13, <2>1, <2>2, StepFits
<1>15. CellsFit(e, M[e], D, amem')
  BY <1>4, <1>6, <1>12, <1>14
<1>16. aregs'[t] = n.regs /\ apc'[t] = n.pc
  BY <1>2, <1>4, <1>6, <1>9, <1>12, <1>14 DEF AotTypes
<1>17. apred'[t] = n.pred
  BY <1>2, <1>4, <1>6, <1>9, Zenon DEF AotTypes
<1>18. AotTypes'
  <2>1. /\ n.pc \in Nat /\ n.regs \in [Registers -> Words] /\ n.pred \in BOOLEAN
    BY <1>9 DEF States
  <2>2. NextMem(ins, s.regs, s.pred, m) \in Memories
    BY <1>4, <1>12, MemoryStep DEF States
  <2>3. /\ apc' = [apc EXCEPT ![t] = n.pc] /\ aregs' = [aregs EXCEPT ![t] = n.regs]
        /\ amem' \in Memories
    BY <1>4, <1>6, <1>9, <1>12, <1>14, <2>2
  <2>4. apred' = [apred EXCEPT ![t] = n.pred]
    BY <1>4, <1>6, <1>9, Zenon
  <2>5. apred' \in [Lanes -> BOOLEAN]
    BY <1>2, <2>1, <2>4 DEF AotTypes
  <2> QED
    BY <1>2, <1>4, <2>1, <2>3, <2>5 DEF AotTypes
<1>19. ASSUME NEW u \in Threads PROVE LaneAt(u, V[u], D[u], e)'
  <2>1. LaneAt(u, V[u], L[u], e)
    BY <1>1 DEF Follows
  <2>2. CASE u = t
    BY <1>4, <1>8, <1>9, <1>11, <1>16, <1>17, <1>n, <2>2 DEF LaneAt
  <2>3. CASE u # t
    <3>1. D[u] = L[u] /\ aregs'[u] = aregs[u] /\ apc'[u] = apc[u]
      BY <1>2, <1>4, <1>11, <2>3, SameLanes DEF AotTypes
    <3>2. apred'[u] = apred[u]
      BY <1>2, <1>4, <2>3, SameLanes, Zenon DEF AotTypes
    <3> QED
      BY <1>4, <2>1, <3>1, <3>2 DEF LaneAt
  <2> QED
    BY <2>2, <2>3
<1>20. Follows(V, M, D, e)'
  BY <1>10, <1>11, <1>15, <1>18, <1>19 DEF Follows
<1> QED
  BY <1>1, <1>4, <1>20 DEF Followed

LEMMA LaneWaits ==
  ASSUME SameBlock, Followed, kernel \in Kernels, NEW t \in Lanes,
         ARet(t) \/ AFallOff(t) \/ AWait(t) \/ AWake(t), mem' = mem
  PROVE  Followed'
<1>1. PICK V, C, M, E, L, e :
        /\ Trace(kernel, V, C, M, E, {}) /\ CellsFit(E, M[E], C, mem)
        /\ Follows(V, M, L, e)
  BY DEF Followed
<1>2. /\ AotTypes /\ t \in Threads /\ L \in [Threads -> States] /\ e \in Nat
      /\ \A u \in Threads : LaneAt(u, V[u], L[u], e)
      /\ CellsFit(e, M[e], L, amem)
  BY <1>1, SameLanes DEF Follows
<1>3. kernel \in Seq(Instructions) /\ DOMAIN kernel = 1 .. Len(kernel)
      /\ Len(kernel) \in Nat
  BY KernelAssumption
<1>4. /\ UNCHANGED <<kernel, aregs, apred, amem>>
      /\ \A u \in Threads \ {t} : apc'[u] = apc[u]
      /\ \A u \in Threads \ {t} : u \in inside' <=> u \in inside
      /\ \A u \in Threads \ {t} : u \in leaving' <=> u \in leaving
  BY <1>2, SameLanes DEF ARet, AFallOff, AWait, AWake, ANextPc, Enter, Leave,
     aotData, AotTypes
<1>5. LaneAt(t, V[t], L[t], e)
  BY <1>2
<1>6. AotTypes' /\ LaneAt(t, V[t], L[t], e)'
  <2>1. CASE ARet(t)
    <3>1. /\ t \notin inside \cup leaving /\ apc[t] \in DOMAIN kernel /\ apc[t] # 0
          /\ kernel[apc[t]].op = "ret" /\ apc' = [apc EXCEPT ![t] = Exited]
          /\ UNCHANGED <<kernel, inside, leaving>>
      BY <1>3, <2>1 DEF ARet, Ready, AIns
    <3>2. AtRet(kernel, L[t])
      BY <1>5, <3>1 DEF LaneAt, AtRet
    <3>3. AotTypes'
      BY <1>2, <1>4, <3>1 DEF AotTypes, Exited
    <3>4. apc'[t] = Exited
      BY <1>2, <3>1 DEF AotTypes
    <3> QED
      BY <1>4, <1>5, <3>1, <3>2, <3>3, <3>4 DEF LaneAt
  <2>2. CASE AFallOff(t)
    <3>1. apc[t] = Len(kernel) + 1
      BY <2>2 DEF AFallOff
    <3>2. apc[t] \notin DOMAIN kernel /\ apc[t] # 0
      BY <1>3, <3>1
    <3>3. apc[t] = L[t].pc /\ L[t] \in V[t]
      BY <1>5, <3>2 DEF LaneAt, AtBar, Exited
    <3>4. TraceOf(kernel, t, V[t], C[t], M, E, t \in {})
      BY <1>1, <1>2 DEF Trace
    <3> QED
      BY <3>2, <3>3, <3>4 DEF TraceOf, AtEnd
  <2>3. CASE AWait(t)
    <3>1. /\ t \notin inside \cup leaving /\ apc[t] \in DOMAIN kernel /\ apc[t] # 0
          /\ kernel[apc[t]].op = "bar" /\ apc' = apc
          /\ inside' = inside \cup {t} /\ leaving' = leaving
      BY <1>3, <2>3 DEF AWait, Ready, AIns, Enter, aotData
    <3>2. apc[t] = L[t].pc /\ AtBar(kernel, L[t])
      BY <1>5, <3>1 DEF LaneAt, AtBar, Exited
    <3>3. AotTypes'
      BY <1>2, <1>4, <3>1 DEF AotTypes
    <3> QED
      BY <1>4, <1>5, <3>1, <3>2, <3>3 DEF LaneAt
  <2>4. CASE AWake(t)
    <3>1. /\ t \in leaving /\ leaving' = leaving \ {t} /\ inside' = inside
          /\ apc' = [apc EXCEPT ![t] = @ + 1]
      BY <2>4 DEF AWake, Leave, ANextPc
    <3>2. t \notin inside
      BY <1>2, <3>1 DEF AotTypes
    <3>3. apc'[t] = apc[t] + 1 /\ apc[t] + 1 = L[t].pc
      BY <1>2, <1>5, <3>1 DEF AotTypes, LaneAt
    <3>4. AotTypes'
      BY <1>2, <1>4, <3>1 DEF AotTypes
    <3> QED
      BY <1>4, <1>5, <3>1, <3>2, <3>3, <3>4 DEF LaneAt
  <2> QED
    BY <2>1, <2>2, <2>3, <2>4
<1>7. ASSUME NEW u \in Threads PROVE LaneAt(u, V[u], L[u], e)'
  <2>1. CASE u = t
    BY <1>6, <2>1
  <2>2. CASE u # t
    BY <1>2, <1>4, <2>2 DEF LaneAt
  <2> QED
    BY <2>1, <2>2
<1>8. Follows(V, M, L, e)'
  BY <1>2, <1>4, <1>6, <1>7 DEF Follows
<1> QED
  BY <1>1, <1>4, <1>8 DEF Followed

LEMMA LanesOpen ==
  ASSUME SameBlock, Followed, Threads # {}, OwnerOK, AOpen, mem' = mem
  PROVE  Followed'
<1>1. PICK V, C, M, E, L, e :
        /\ Trace(kernel, V, C, M, E, {}) /\ CellsFit(E, M[E], C, mem)
        /\ Follows(V, M, L, e)
  BY DEF Followed
<1>2. /\ AotTypes /\ L \in [Threads -> States] /\ e \in Nat
      /\ \A u \in Threads : LaneAt(u, V[u], L[u], e)
      /\ CellsFit(e, M[e], L, amem)
      /\ M \in [Nat -> Memories] /\ E \in Nat
  BY <1>1 DEF Follows, Trace
<1>3. inside = Threads
  <2>1. IsFiniteSet(Threads) /\ Cardinality(Threads) = N
    BY FS_Interval, NAssumption DEF Threads
  <2>2. inside \subseteq Threads /\ Cardinality(inside) = N
    BY <1>2, SameLanes DEF AotTypes, AOpen, Trip
  <2> QED
    BY <2>1, <2>2, FS_Subset
<1>4. /\ inside' = {} /\ leaving' = Threads
      /\ UNCHANGED <<kernel, apc, aregs, apred, amem>>
  BY <1>2, <1>3, SameLanes DEF AOpen, Trip, aotData, AotTypes
<1>5. ASSUME NEW u \in Threads
      PROVE  /\ L[u] \in V[u] /\ L[u].ep = e /\ AtBar(kernel, L[u])
             /\ aregs[u] = L[u].regs /\ apred[u] = L[u].pred /\ apc[u] = L[u].pc
             /\ e < E /\ AfterBar(L[u], M[e + 1]) \in V[u]
  <2>1. TraceOf(kernel, u, V[u], C[u], M, E, u \in {})
    BY <1>1 DEF Trace
  <2>2. /\ L[u] \in V[u] /\ L[u].ep = e /\ AtBar(kernel, L[u])
        /\ aregs[u] = L[u].regs /\ apred[u] = L[u].pred /\ apc[u] = L[u].pc
    BY <1>2, <1>3 DEF LaneAt
  <2> QED
    BY <2>1, <2>2 DEF TraceOf
<1>6. PICK m \in Memories : m = M[e + 1]
  BY <1>2
<1>7. CellsFit(e, M[e], L, m)
  <2>1. Barriers(kernel, V, M, E) /\ e < E
    BY <1>1, <1>5 DEF Trace
  <2> QED
    BY <1>2, <1>5, <1>6, <2>1 DEF Barriers
<1>8. amem = m
  <2>1. amem \in Memories /\ \A u \in Threads : L[u].ep = e
    BY <1>2, <1>5 DEF AotTypes
  <2> QED
    BY <1>2, <1>7, <2>1, OneMemory
<1>d. PICK D : D = [u \in Threads |-> AfterBar(L[u], m)]
  OBVIOUS
<1>9. /\ D \in [Threads -> States]
      /\ \A u \in Threads : D[u] = AfterBar(L[u], m)
  BY <1>2, <1>d, AfterBarIsState
<1>10. ASSUME NEW u \in Threads
       PROVE  /\ D[u].pc = L[u].pc + 1 /\ D[u].regs = L[u].regs
              /\ D[u].pred = L[u].pred /\ D[u].ep = e + 1
              /\ D[u].view = Opening(e + 1, m) /\ D[u] \in V[u]
  <2>1. /\ AfterBar(L[u], m).pc = L[u].pc + 1 /\ AfterBar(L[u], m).regs = L[u].regs
        /\ AfterBar(L[u], m).pred = L[u].pred /\ AfterBar(L[u], m).ep = L[u].ep + 1
        /\ AfterBar(L[u], m).view = Opening(L[u].ep + 1, m)
    BY DEF AfterBar
  <2>2. L[u].ep = e /\ AfterBar(L[u], m) \in V[u]
    BY <1>5, <1>6
  <2> QED
    BY <1>9, <2>1, <2>2
<1>11. CellsFit(e + 1, M[e + 1], D, amem')
  <2>1. e + 1 \in Nat /\ \A u \in Threads : D[u].view = Opening(e + 1, m)
    BY <1>2, <1>10
  <2>2. CellsFit(e + 1, m, D, m)
    BY <2>1, PhaseBegins
  <2> QED
    BY <1>4, <1>6, <1>8, <2>2
<1>12. ASSUME NEW u \in Threads PROVE LaneAt(u, V[u], D[u], e + 1)'
  BY <1>4, <1>5, <1>10 DEF LaneAt, AtBar
<1>13. AotTypes'
  BY <1>2, <1>4, SameLanes DEF AotTypes
<1>14. Follows(V, M, D, e + 1)'
  BY <1>2, <1>9, <1>11, <1>12, <1>13 DEF Follows
<1> QED
  BY <1>1, <1>4, <1>14 DEF Followed

LEMMA RunEnds ==
  ASSUME SameBlock, RunInv, AotFresh, status = "done", ~Shuffles
  PROVE  Followed
<1>1. alive = {}
  BY DEF SameBlock, RunInv, IInv, SuccessMeansFinished
<1>2. PICK V, C, M, E : Trace(kernel, V, C, M, E, {}) /\ CellsFit(E, M[E], C, mem)
  BY <1>1 DEF RunInv, Traced, Now
<1>l. PICK L : L = [t \in Threads |-> StartOf(t)]
  OBVIOUS
<1>3. /\ L \in [Threads -> States]
      /\ \A t \in Threads : /\ L[t] = StartOf(t)
                            /\ StartOf(t).pc = 1 /\ StartOf(t).regs = FreshRegs(t)
                            /\ StartOf(t).pred = FALSE /\ StartOf(t).ep = 0
                            /\ StartOf(t).view = FreshMem
  BY <1>l, FreshIsState DEF StartOf
<1>4. Opening(0, FreshMem) = FreshMem
  BY DEF Opening, FreshMem
<1>5. M[0] = FreshMem
  BY <1>2 DEF Trace
<1>6. CellsFit(0, M[0], L, amem)
  <2>1. \A t \in Threads : L[t].view = Opening(0, FreshMem)
    BY <1>3, <1>4
  <2> QED
    BY <1>5, <2>1, FreshIsState, PhaseBegins DEF AotFresh
<1>7. AotTypes
  <2>1. \A t \in Threads : StartOf(t).regs \in [Registers -> Words]
    BY FreshIsState DEF States
  <2>2. \A t \in Lanes : FreshRegs(t) \in [Registers -> Words]
    BY <1>3, <2>1, SameLanes
  <2> QED
    BY <2>2, FreshIsState DEF AotTypes, AotFresh
<1>8. ASSUME NEW t \in Threads PROVE LaneAt(t, V[t], L[t], 0)
  <2>1. TraceOf(kernel, t, V[t], C[t], M, E, t \in {})
    BY <1>2 DEF Trace
  <2>2. StartOf(t) \in V[t]
    BY <2>1 DEF TraceOf
  <2>3. apc[t] = 1 /\ aregs[t] = FreshRegs(t) /\ apred[t] = FALSE
    BY SameLanes DEF AotFresh
  <2> QED
    BY <1>3, <2>2, <2>3 DEF LaneAt, AotFresh
<1>9. Follows(V, M, L, 0)
  BY <1>3, <1>6, <1>7, <1>8 DEF Follows
<1> QED
  BY <1>2, <1>9 DEF Followed

LEMMA BothAgree ==
  ASSUME SameBlock, Followed, kernel \in Kernels, OwnerOK, AotDone, mem \in Memories
  PROVE  amem = mem
<1>1. PICK V, C, M, E, L, e :
        /\ Trace(kernel, V, C, M, E, {}) /\ CellsFit(E, M[E], C, mem)
        /\ Follows(V, M, L, e)
  BY DEF Followed
<1>2. /\ L \in [Threads -> States] /\ C \in [Threads -> States] /\ E \in Nat
      /\ amem \in Memories /\ CellsFit(e, M[e], L, amem)
  BY <1>1 DEF Follows, Trace, AotTypes
<1>3. kernel \in Seq(Instructions) /\ 0 \notin DOMAIN kernel
  BY KernelAssumption
<1>4. ASSUME NEW t \in Threads PROVE L[t] = C[t] /\ L[t].ep = e
  <2>1. TraceOf(kernel, t, V[t], C[t], M, E, t \in {})
    BY <1>1 DEF Trace
  <2>2. LaneAt(t, V[t], L[t], e) /\ apc[t] = 0
    BY <1>1, SameLanes DEF Follows, AotDone, Exited
  <2>3. AtRet(kernel, L[t]) \/ L[t].pc = 0
    BY <1>3, <2>2 DEF LaneAt, AtBar
  <2>4. L[t].pc # 0
    BY <1>3, <2>1, <2>2 DEF TraceOf, LaneAt, AtEnd
  <2> QED
    BY <2>1, <2>2, <2>3, <2>4 DEF TraceOf, LaneAt
<1>5. PICK x \in Threads : C[x].ep = E
  BY <1>1 DEF Trace
<1>6. e = E /\ L = C
  BY <1>2, <1>4, <1>5
<1>7. \A t \in Threads : C[t].ep = E
  BY <1>4, <1>6
<1> QED
  BY <1>1, <1>2, <1>6, <1>7, OneMemory

LEMMA PathInvInit ==
  ASSUME SameBlock, PathInit, Threads # {}, OwnerOK
  PROVE  PathInv
<1>1. RunInv
  BY RunInvInit DEF PathInit
<1>2. AotFresh
  BY DEF PathInit, AotInit, AotFresh
<1>3. status # "done"
  BY DEF SameBlock, PathInit, InterpInit, Init
<1> QED
  BY <1>1, <1>2, <1>3 DEF PathInv

LEMMA PathInvStep ==
  ASSUME SameBlock, PathInv, Threads # {}, OwnerOK, GuardsHonoured, RaceFree,
         [PathNext]_pathVars
  PROVE  PathInv'
<1>1. [InterpNext]_interpVars
  BY DEF PathNext, pathVars, InterpStep, LaneStep, OpenStep
<1>2. RunInv'
  BY <1>1, RunInvStep DEF PathInv
<1>3. kernel \in Kernels
  BY DEF PathInv, RunInv, DataOK
<1>4. CASE InterpStep
  <2>1. status = "running"
    BY <1>4 DEF InterpStep, InterpNext, RunOff, GatedOff, Branch, Setp, Execute,
       Shuffle, BarSync, Ret, Schedule, Fault, Advance, Park, Finish, Step, Skip,
       OutOfSteps, NextRound, EndBlock
  <2>2. AotFresh'
    BY <1>4, <2>1 DEF PathInv, InterpStep, AotFresh, aotData
  <2>3. (status = "done" /\ ~Shuffles)' => Followed'
    BY <1>2, <2>2, RunEnds, PTL
  <2> QED
    BY <1>2, <2>2, <2>3 DEF PathInv
<1>5. CASE (\E t \in Lanes : LaneStep(t)) \/ OpenStep
  <2>1. status # "running" /\ UNCHANGED interpVars
    BY <1>5 DEF LaneStep, OpenStep
  <2>2. ASSUME status = "done", ~Shuffles
        PROVE  Followed'
    <3>1. Followed /\ mem' = mem
      BY <2>1, <2>2 DEF PathInv, interpVars, data
    <3>2. CASE OpenStep
      BY <3>1, <3>2, LanesOpen DEF OpenStep
    <3>3. CASE \E t \in Lanes : LaneStep(t)
      BY <1>3, <2>2, <3>1, <3>3, LaneMoves, LaneWaits DEF LaneStep, ALane
    <3> QED
      BY <1>5, <3>2, <3>3
  <2> QED
    BY <1>2, <2>1, <2>2 DEF PathInv, interpVars, vars, Shuffles
<1>6. CASE UNCHANGED pathVars
  <2>1. UNCHANGED <<status, kernel, mem, apc, aregs, apred, amem, inside, leaving>>
    BY <1>6 DEF pathVars, interpVars, vars, data, aotVars, aotData
  <2>2. AotFresh => AotFresh'
    BY <2>1 DEF AotFresh
  <2>3. ASSUME Followed PROVE Followed'
    <3>1. PICK V, C, M, E, L, e :
            /\ Trace(kernel, V, C, M, E, {}) /\ CellsFit(E, M[E], C, mem)
            /\ Follows(V, M, L, e)
      BY <2>3 DEF Followed
    <3>2. Follows(V, M, L, e)'
      BY <2>1, <3>1 DEF Follows, AotTypes, LaneAt
    <3> QED
      BY <2>1, <3>1, <3>2 DEF Followed
  <2> QED
    BY <1>2, <2>1, <2>2, <2>3 DEF PathInv, Shuffles
<1> QED
  BY <1>4, <1>5, <1>6 DEF PathNext

(* A kernel that no race decides, whose guards stand where both paths      *)
(* honour them, leaves the same memory on the ahead-of-time path as on the *)
(* reference interpreter: for every kernel, every number of lanes and      *)
(* every schedule of them.                                                 *)
THEOREM SameResult ==
  ASSUME SameBlock, N # 0, OwnerOK, GuardsHonoured
  PROVE  PathSpec /\ []RaceFree => []Agreement
<1>1. Threads # {}
  BY NAssumption DEF Threads
<1>2. PathInit => PathInv
  BY <1>1, PathInvInit
<1>3. PathInv /\ RaceFree /\ [PathNext]_pathVars => PathInv'
  BY <1>1, PathInvStep
<1>4. PathInv => Agreement
  <2>1. PathInv => mem \in Memories /\ kernel \in Kernels
    BY DEF PathInv, RunInv, DataOK, Memories
  <2> QED
    BY <2>1, BothAgree DEF PathInv, Agreement
<1> QED
  BY <1>2, <1>3, <1>4, PTL DEF PathSpec

=============================================================================
