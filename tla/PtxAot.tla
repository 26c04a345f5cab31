------------------------------- MODULE PtxAot -------------------------------
(***************************************************************************)
(* The same kernel compiled ahead of time: the code LlvmGen                *)
(* (rouge-compiler/src/ptx_to_llvm.cpp) emits for the host, one OS thread  *)
(* per lane, meeting in __rouge_syncthreads (rouge_runtime.cpp).           *)
(*                                                                         *)
(* The translation honours a guard in two places only: store_reg selects   *)
(* between the new and the old value of the destination register, and a    *)
(* guarded bra becomes a conditional br.  The code of every other          *)
(* instruction is emitted as if it had no guard: a guarded st stores, a    *)
(* guarded atom updates memory, a guarded bar.sync waits and a guarded ret *)
(* returns.                                                                *)
(*                                                                         *)
(* A shuffle is a scalar fallback on the host, which keeps the lane's own  *)
(* value (documented: such kernels are not run on this path), and its      *)
(* destination is always written.                                          *)
(***************************************************************************)
EXTENDS PthreadBarrier, PtxIsa

VARIABLES apc, aregs, apred,   \* the lanes' position and allocas
          amem                 \* scratchpad and buffers

aotData == <<apc, aregs, apred, amem>>
aotVars == <<kernel, aotData, inside, leaving>>

\* The driver starts one thread per lane and initialises the block's
\* barrier with their number.
Lanes == 0 .. (Count - 1)
Exited == 0                \* apc of a lane whose function has returned

AotInit == /\ kernel \in Kernels
           /\ apc = [t \in Lanes |-> 1]
           /\ aregs = [t \in Lanes |-> FreshRegs(t)]
           /\ apred = [t \in Lanes |-> FALSE]
           /\ amem = FreshMem
           /\ inside = {} /\ leaving = {}

-----------------------------------------------------------------------------
AIns(t) == kernel[apc[t]]
Ready(t) == apc[t] \in 1 .. Len(kernel) /\ t \notin inside \cup leaving
ANextPc(t) == apc' = [apc EXCEPT ![t] = @ + 1]

\* Mutant of Selected: the old value is never kept.
SelectedAlways(t, new) == new

\* store_reg: select i1 pred, new, old, unless always_writes_.
Selected(t, new) ==
  IF AIns(t).op = "shfl" \/ Passes(AIns(t), apred[t])
    THEN new ELSE aregs[t][AIns(t).d]

\* Everything that computes a register or touches memory.
Compute(t) ==
  /\ Ready(t)
  /\ AIns(t).op \in {"add", "ld", "st", "atom", "red", "shfl"}
  /\ aregs' = IF Writes(AIns(t))
                THEN [aregs EXCEPT ![t][AIns(t).d] =
                        Selected(t, Result(AIns(t), aregs[t], amem,
                                           aregs[t][AIns(t).b]))]
                ELSE aregs
  /\ amem' = Stored(AIns(t), aregs[t], amem)
  /\ ANextPc(t)
  /\ UNCHANGED <<kernel, apred, inside, leaving>>

\* A predicate is a register like any other: its store is selected too.
ASetp(t) ==
  /\ Ready(t) /\ AIns(t).op = "setp"
  /\ apred' = [apred EXCEPT ![t] = IF Passes(AIns(t), @)
                                     THEN Compare(AIns(t), aregs[t]) ELSE @]
  /\ ANextPc(t)
  /\ UNCHANGED <<kernel, aregs, amem, inside, leaving>>

\* Mutant of ABranch: an unconditional br.
ABranchAlways(t) ==
  /\ Ready(t) /\ AIns(t).op = "bra"
  /\ apc' = [apc EXCEPT ![t] = AIns(t).k]
  /\ UNCHANGED <<kernel, aregs, apred, amem, inside, leaving>>

ABranch(t) ==
  /\ Ready(t) /\ AIns(t).op = "bra"
  /\ apc' = [apc EXCEPT ![t] = IF Passes(AIns(t), apred[t])
                                 THEN AIns(t).k ELSE @ + 1]
  /\ UNCHANGED <<kernel, aregs, apred, amem, inside, leaving>>

ARet(t) ==
  /\ Ready(t) /\ AIns(t).op = "ret"
  /\ apc' = [apc EXCEPT ![t] = Exited]
  /\ UNCHANGED <<kernel, aregs, apred, amem, inside, leaving>>

\* The body may end without a ret: the translation adds one.
AFallOff(t) ==
  /\ apc[t] = Len(kernel) + 1
  /\ apc' = [apc EXCEPT ![t] = Exited]
  /\ UNCHANGED <<kernel, aregs, apred, amem, inside, leaving>>

AWait(t) ==
  /\ Ready(t) /\ AIns(t).op = "bar"
  /\ Enter(t)
  /\ UNCHANGED <<kernel, aotData>>

AWake(t) ==
  /\ Leave(t)
  /\ ANextPc(t)
  /\ UNCHANGED <<kernel, aregs, apred, amem>>

AOpen == /\ Trip
         /\ UNCHANGED <<kernel, aotData>>

ALane(t) == \/ Compute(t) \/ ASetp(t) \/ ABranch(t) \/ ARet(t) \/ AFallOff(t)
            \/ AWait(t) \/ AWake(t)

AotNext == AOpen \/ \E t \in Lanes : ALane(t)

AotSpec == AotInit /\ [][AotNext]_aotVars

AotDone == \A t \in Lanes : apc[t] = Exited

AotTypeOK ==
  /\ kernel \in Kernels
  /\ apc \in [Lanes -> 0 .. (Len(kernel) + 1)]
  /\ aregs \in [Lanes -> [Registers -> Words]]
  /\ apred \in [Lanes -> BOOLEAN]
  /\ amem \in [Addresses -> Words]
  /\ inside \subseteq Lanes /\ leaving \subseteq Lanes

=============================================================================
