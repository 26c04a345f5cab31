------------------------------- MODULE Occupancy -------------------------------
(***************************************************************************)
(* The occupancy calculator (rouge-cuda/src/occupancy.cpp) and the search  *)
(* of cudaOccupancyMaxPotentialBlockSize and its driver variant with a     *)
(* block size limit, on the register estimate of RegisterPressure.  The    *)
(* numbers are those of sm_75, in the code and here.                       *)
(***************************************************************************)
EXTENDS RegisterPressure, Integers

CONSTANTS IntRange,        \* 2^32: a size_t is cut down to an int
          StaticSizes,     \* .shared bytes of the kernel
          DynamicSizes,    \* callbacks: block size -> bytes
          Limits           \* blockSizeLimit; 0 is no limit

WarpSize == 32
MaxThreads == 1024         \* per block, and per SM
MaxBlocks == 16
RegsPerSm == 65536         \* and per block
Partitions == 4
Granularity == 256         \* of registers per warp, and of shared memory
SmemPerSm == 65536
SmemPerBlock == 49152

\* The sizes of whole warps, and what the callers hand over.
BlockSizes == {WarpSize * w : w \in 1 .. MaxThreads \div WarpSize}

ASSUME QueryAssumption ==
  /\ IntRange \in Nat \ {0}
  /\ StaticSizes \subseteq Nat
  /\ DynamicSizes \subseteq [BlockSizes -> Nat]
  /\ Limits \subseteq Int

VARIABLES static,          \* KernelStats::staticSmem, -1 before it is known
          dynamic,         \* the callback, or the fixed amount
          top, trySize,    \* the first size tried, and the next one
          bestBlock, bestBlocks, bestThreads,
          answered

queryVars == <<dynamic, top, trySize, bestBlock, bestBlocks, bestThreads>>
vars == <<pressureVars, static, queryVars, answered>>

DivUp(x, y) == (x + (y - 1)) \div y

RoundUp(x, y) == y * DivUp(x, y)

\* static_cast<int>
AsInt(x) == LET low == x % IntRange
            IN  IF low < IntRange \div 2 THEN low ELSE low - IntRange

Limit(cond, value) == IF cond THEN value ELSE 0

WarpLimit(warps) == (MaxThreads \div WarpSize) \div warps

RegLimit(warps) ==
  LET perWarp == RoundUp(numRegs * WarpSize, Granularity)
  IN  Limit(/\ perWarp * RoundUp(warps, Partitions) <= RegsPerSm
            /\ numRegs <= 256,
            (((RegsPerSm \div Partitions) \div perWarp) * Partitions) \div warps)

\* A negative int turned back into a size_t is above every limit.
SmemLimit(bytes) ==
  LET allocated == RoundUp(AsInt(static + bytes), Granularity)
  IN  Limit(0 <= allocated /\ allocated <= SmemPerBlock,
            IF allocated = 0 THEN MaxBlocks ELSE SmemPerSm \div allocated)

\* occ_active_blocks
ActiveBlocks(size, bytes) ==
  LET warps == DivUp(size, WarpSize)
  IN  IF size \in 1 .. MaxThreads
        THEN Min({WarpLimit(warps), RegLimit(warps), MaxBlocks, SmemLimit(bytes)})
        ELSE 0

\* Mutant of Available: one block may take the whole SM.
AvailableWhole(blocks, size) ==
  LET share == SmemPerSm \div blocks
      avail == Min({Granularity * (share \div Granularity), SmemPerSm})
  IN  IF ActiveBlocks(size, 0) < blocks \/ avail < static THEN {}
      ELSE {avail - static}

\* occ_available_dynamic_smem: {} is a refusal.
Available(blocks, size) ==
  LET share == IF blocks = 1 THEN SmemPerBlock ELSE SmemPerSm \div blocks
      avail == Min({Granularity * (share \div Granularity), SmemPerBlock})
      most == Max({0, SmemPerBlock - static})
  IN  IF ActiveBlocks(size, 0) < blocks \/ avail < static THEN {}
      ELSE {Min({avail - static, most})}

-----------------------------------------------------------------------------
Init ==
  /\ PressureInit
  /\ static = -1
  /\ dynamic = <<>> /\ top = 0 /\ trySize = 0
  /\ bestBlock = 0 /\ bestBlocks = 0 /\ bestThreads = 0
  /\ answered = FALSE

Analyse ==
  /\ PressureNext
  /\ static' \in (IF stage' = "counted" THEN StaticSizes ELSE {static})
  /\ UNCHANGED <<queryVars, answered>>

Start(limit) ==
  IF limit > 0 /\ limit < MaxThreads
    THEN (limit \div WarpSize) * WarpSize ELSE MaxThreads

\* No limit, or one of a whole block, is the Runtime API's search.  It sees
\* the KernelStats and nothing else: the body and the sets are forgotten.
Ask(limit) ==
  /\ stage = "counted" /\ dynamic = <<>>
  /\ dynamic' \in DynamicSizes
  /\ top' = Start(limit)
  /\ trySize' = top'
  /\ body' = <<>> /\ liveIn' = <<>> /\ liveOut' = <<>>
  /\ at' = 0 /\ pass' = 1 /\ changes' = {}
  /\ UNCHANGED <<stage, numRegs, static, bestBlock, bestBlocks, bestThreads, answered>>

Searching == dynamic # <<>> /\ ~answered

\* Mutant of Better: the smaller of two equal sizes wins.
BetterOrEqual(threads) == threads >= bestThreads

Better(threads) == threads > bestThreads

Try ==
  /\ Searching /\ trySize > 0 /\ bestThreads # MaxThreads
  /\ LET active == ActiveBlocks(trySize, dynamic[trySize])
         threads == trySize * active
     IN  IF Better(threads)
           THEN /\ bestThreads' = threads
                /\ bestBlock' = trySize
                /\ bestBlocks' = active
           ELSE UNCHANGED <<bestThreads, bestBlock, bestBlocks>>
  /\ trySize' = trySize - WarpSize
  /\ UNCHANGED <<pressureVars, static, dynamic, top, answered>>

Answer ==
  /\ Searching /\ (trySize <= 0 \/ bestThreads = MaxThreads)
  /\ answered' = TRUE
  /\ UNCHANGED <<pressureVars, static, queryVars>>

Next == Analyse \/ (\E limit \in Limits : Ask(limit)) \/ Try \/ Answer

Spec == Init /\ [][Next]_vars

-----------------------------------------------------------------------------
(* The answer is the best block size up to the limit, and the largest of   *)
(* equally good ones, although the search stops at the first full SM.      *)
SearchFindsBest ==
  answered =>
    \A size \in BlockSizes :
      LET threads == size * ActiveBlocks(size, dynamic[size])
      IN  size <= top =>
            \/ threads < bestThreads
            \/ threads = bestThreads /\ (size <= bestBlock \/ threads = 0)

(* What occ_available_dynamic_smem grants, occ_active_blocks lets run, and *)
(* one byte more it does not; a refusal means that the blocks do not fit.  *)
GrantsTheMost ==
  (dynamic # <<>> /\ trySize = top) =>
    \A size \in BlockSizes, blocks \in 1 .. MaxBlocks :
      /\ \A bytes \in Available(blocks, size) :
           /\ ActiveBlocks(size, bytes) >= blocks
           /\ ActiveBlocks(size, bytes + 1) < blocks
      /\ Available(blocks, size) = {} => ActiveBlocks(size, 0) < blocks

(* A launch that cannot run has occupancy zero.                            *)
ImpossibleIsZero ==
  \A size \in DOMAIN dynamic :
    static + dynamic[size] > SmemPerBlock => ActiveBlocks(size, dynamic[size]) = 0
=============================================================================
