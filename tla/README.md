# ROUGE-V in TLA+

ROUGE-V runs CUDA kernels without NVIDIA hardware. It reads PTX, and either interprets it
(`rouge-ptx`) or compiles it ahead of time to LLVM IR (`rouge-compiler`); `rouge-cuda` puts the
interpreter behind the CUDA driver and runtime APIs; `rouge-numerics` and `rouge-render` replace
the closed libraries. The project's own claim is *the same kernel, the same result*: the
interpreter is the behavioural reference, every other path is compared with it.

This directory holds TLA+ models of the parts whose correctness depends on order, on several
actors, or on arithmetic at a boundary, the TLC configurations that check them, and TLAPS proofs
of what matters most. Paths below are relative to `software/`; `ptx.cpp` is
`rouge-ptx/ptx.cpp`, `LLVM` is `rouge-compiler/src/ptx_to_llvm.cpp`, `RT` is
`rouge-compiler/runtime/rouge_runtime.cpp`, `MLIR` is
`rouge-compiler/mlir/lib/Frontend/PtxToRouge.cpp`, `SCF` is
`rouge-compiler/mlir/lib/Transforms/SimtToScfImpl.h`.

## 1. Inventory

### Components, their state, their operations

| Component | State it keeps | Operations | Correct when |
|---|---|---|---|
| **Interpreter: CTA scheduler** (`execute_kernel`, ptx.cpp:3205-3290) | alive and barrier flags of the threads of a block, step budget | start a block, one round over the threads, release a barrier, finish, give up | every thread of every block runs to its `ret` or the launch fails; nobody crosses a barrier before all live threads reach it; every launch returns |
| **Interpreter: instructions** (`run_thread_step`) | per thread: pc, 64-bit registers, predicates; per block: scratchpad; global memory | the predicate gate, one branch per opcode | PTX semantics; collectives read what the other lanes had, not what they have become |
| **Interpreter: `.shared` layout** (`parse_shared_decl`) | list of variables, running size | place a declaration | variables disjoint, aligned, in bounds; the dynamic region behind all static ones |
| **PTX parser** (`parse_ptx`) | the module under construction, the current kernel | one line at a time | labels and declarations attach to the right kernel |
| **LlvmGen: control flow** (LLVM:120-190, 520-560, 4530-4590) | block names per instruction, output | cut the body into blocks, emit terminators | the blocks' graph is the graph of the PTX body; an impossible translation is refused |
| **LlvmGen: instructions** | current guard, output | one emitter per opcode | the emitted code does what the interpreter does |
| **LlvmGen: warp collectives** (`emit_mma`, `emit_ldmatrix`, `emit_stmatrix`) | the exchange region of the block | publish, wait, read, wait | each lane reads what its peers published for this very collective |
| **Host runtime** (RT) | one `pthread_barrier_t` per block | `__rouge_syncthreads` | all lanes of a block wait for each other |
| **Command-line tools** (`ptx2ir`, `rouge-run`, `rouge-cc`) | files | translate, compile, report | a refusal leaves no output |
| **Narrow floating point** (`f32_to_narrow` and its neighbours; `emit_fp_encode`, `emit_fp_decode`) | none | convert | the nearest number, or the next towards zero; saturation; both paths the same bits |
| **MLIR front end** (`PtxToRouge.cpp`) | the value each register has here, what each pointer is made of | recover loops and branches; analyse addresses; emit | same as LlvmGen; no value used outside its region |
| **MLIR transforms** (`SimtToScfImpl.h`) | the phases of the body, clones of operations | a block of threads becomes loops cut at barriers | the loops do what some interleaving of the threads does |
| **Driver API** (`driver_api.cpp`) | context, allocations, loaded modules, function handles, storage of globals | allocate, free, copy, load, unload, get function, get global, launch | handles and globals belong to the module that was loaded |
| **Runtime API** (`runtime_api.cpp`, `runtime_register.cpp`) | registered fat binaries, the call-configuration stack, last error per thread | register, push/pop configuration, launch | a launch runs the kernel and the configuration its thread asked for |
| **Occupancy** (`occupancy.cpp`) | live sets of a kernel body | register estimate, active blocks, block-size search | never promises what does not fit; the search finds the best |
| **Fat-binary reader, forwarding** | none | parse bytes; `dlsym` | |
| **rouge-numerics** | none between calls (handles hold settings) | GEMM, convolution, FFT, cuBLAS and cuDNN shims | numerics; every element computed once |
| **rouge-render** | none | path tracing, denoising, upsampling | numerics |

### How they interact

- A **launch** on the CUDA side (`cuLaunchKernel`, `cudaLaunchKernel`) finds a parsed kernel and
  calls `execute_kernel`, synchronously, on the caller's thread. The blocks of the grid run one
  after the other; in a block the threads are stepped in rounds by one OS thread. There is no
  preemption: interleaving is the round order, decided by the results of `run_thread_step`.
- On the **ahead-of-time path** each lane is a function called on an OS thread of its own. Lanes
  share the scratchpad and the exchange region and meet only in `pthread_barrier_wait`. Here
  the interleaving is the operating system's.
- The **parser** serves both: its instruction list, labels and `.shared` layout are the input of
  the interpreter and of LlvmGen, so a mistake there is made twice and no comparison shows it.
- The **occupancy** calculator reads the parsed body and answers queries on which the program
  then bases its launch configuration.

### What is hard

Threads that part at a branch and meet at a barrier; threads that leave early; collectives built
from barriers of the wrong scope; registers of one lane read by another; guards that are honoured
in one translation and not in the other; layout in an order that differs from the order of the
text; data flow around loops; sizes cut down to 32 bits; rounding that carries into the next binade;
handles and addresses that outlive what they named; values that a region of structured code makes and
that are wanted outside it; memory read again in a later phase than the one the program read it in. The full list, at its lines, is
`hazards` in `PROJECT.json`.

## 2. Modules

Every module says at its top which code it is about; every definition is tied to its source
lines in `PROJECT.json` (`map`). Definitions marked "Mutant of" change the definition they
name the way a plausible mistake would; they are not part of the model.

```
BlockBarrier                      what a block barrier promises (abstract)
  ^ refined by          ^ refined by
CtaScheduler            AotBlock --- extends PthreadBarrier
  ^ extended by                              ^ extended by
PtxInterp  (PtxIsa)                 PtxAot  (PtxIsa)
        \____________ PathAgreement ____________/

BitPatterns <- AluIsa <- InterpAlu, LlvmAlu, MlirAlu <- AluAgreement      NarrowFloat
                                             MCArithmetic: AluAgreement, or NarrowFloat

SharedLayout <- ModuleParser      RegisterPressure <- Occupancy

DriverApi <- RuntimeApi --- refines DeviceGlobals (abstract)
SimtIr <- SimtToScf --- refines SimtLaunch (abstract)

LlvmBlocks      MlirStructure      MlirAddresses
          MCTranslators: one of the three
```

**BlockBarrier** is the abstract specification: threads cross barriers, an epoch counter each;
a thread is outside a barrier, inside it, or gone; the barrier opens only when all live threads
are inside. Both implementations are checked, and proved, to refine it.

**CtaScheduler** is the block loop of `execute_kernel`. `alive`, `blocked`, `i`, `anyAlive`,
`steps` are the code's variables; `epoch` is a history variable. `Advance`, `Park`, `Exit`,
`Fault` are the four results of `run_thread_step`; they are unconstrained, so whatever holds here
holds for every kernel.

**PtxIsa, PtxInterp, PtxAot, PathAgreement** run one kernel on both paths. PtxIsa is a small
instruction set with one instruction of each kind the two paths treat differently: register
write, predicate write, load, store, atomic, reduction, shuffle, branch, barrier, return, each
with or without a guard. PtxInterp fixes the result of each step of CtaScheduler by what
`run_thread_step` does (the predicate gate comes before everything, ptx.cpp:1161-1168). PtxAot is
the emitted code: lanes interleave freely between barriers, guards are honoured by `store_reg`
and by a conditional branch and by nothing else. PathAgreement runs the interpreter to its end and
then the compiled kernel from the same start, and compares.

**BitPatterns, AluIsa, InterpAlu, LlvmAlu, MlirAlu, AluAgreement** are the integer instructions.
BitPatterns reads a register's content as a number, as a signed number or as a set of bits; the
width of a byte is its parameter, so that the instance can be small while half word, word and
double word keep their proportions. InterpAlu is what `run_thread_step` computes (64-bit cells, cut
down by each block of code on its own), LlvmAlu what the LLVM instructions emitted by LlvmGen
compute (allocas of the declared width; mixed widths are refused by LLVM), MlirAlu what the `arith`
operations of the MLIR front end compute. A path answers a pattern, `Refused` (an error, or IR that
does not verify) or `Undefined`. AluAgreement executes a straight-line program on the three, with
their three ways to treat a guard and with the registers whose MLIR value is the result of a constant
operation (`constants`: `bfe` and `bfi` take a position or length from such a register and refuse any other), and states what PTX asks of each instruction with integers and
single bits (`Means`), which none of the paths computes with.

**PthreadBarrier, AotBlock** are the ahead-of-time block: `Count` arrivals open the barrier
(`pthread_barrier_wait`: arrivals and departures are separate steps), and a lane that executes a
warp collective publishes its operand, waits, reads its peers' slots one at a time, waits again.

**SharedLayout** replays `parse_shared_decl` over the declarations in the order `parse_ptx` hands
them over: the kernel's own, then the module's `extern` ones, then the module's static ones.

**ModuleParser** is `parse_ptx`, one action per kind of line: `current` and `inParams` decide what a
line means, since the parser keeps no scopes; declarations in front of the first kernel are stashed and
attached at the end of the text. A line is a record whose kind says how it begins, with what its words
mean. `HandOver` gives the lines of one kernel to SharedLayout, as `execute_kernel` and LlvmGen use the
layout of one kernel. The reference (`ScopeOf`, `Visible`) reads the same text by its braces.

**LlvmBlocks** replays the cutting of a body into basic blocks (block names, `br`, fall-through,
the `b_ret` block) as one action per instruction kind; the control flow of the output is then
compared with the control flow of the PTX body (`FlowPreserved`).

**NarrowFloat** is one conversion: a float is sign, exponent and fraction, a narrow number is the code
its field holds, with the constants of the code's format table. `Encode` and `Decode` are
`f32_to_narrow` and `narrow_to_f32`, `LEncode` and `LDecode` the integer instructions LlvmGen emits,
each with the modifiers its path accepts. The reference is not a third copy of the algorithm:
a number is *n* times 2^*k*, and `Nearest` compares the operand with the middles between the result
and its neighbours.

**DriverApi, RuntimeApi** are the CUDA layer, one action per entry point. The heap is a set of
addresses that are used again after they are freed: a module, a function handle, an allocation and the
storage of a global each live at one. A launch has phases (marshal, execute, end), so that two host
threads can interleave where the code lets them. **DeviceGlobals** is what a program may expect of the
globals of its loaded modules: a cell per module and symbol, zero when the module is loaded, changed
by writes alone, gone when it is unloaded. GlobalsSpec is the refinement, although the code
allocates the storage of a global when it is first asked for and keys it by the module's address.

**SimtIr, SimtToScf** are the pass that turns a launch into loops: it cuts the body at its barriers into
phases, hoists what is the same for all threads, and clones into a phase what it needs of earlier
ones. The model runs the pass on a kernel (`Lower`) and then the function it made, loop by loop.
`WellFormed` says which kernels there are: what the verifier of the IR asks for, and the model's own limit to
regions that do not nest. The clones of a thread-dependent value are the least set closed
under use (`NeededBy`), as the worklist of the code computes it.
**SimtLaunch** is the launch itself: threads that interleave between barriers. `LaunchSpec`
is the refinement: every memory the loops leave is one the threads could have left.

**MlirStructure** is `emitBody`, `emitRange` and `emitLoop`: blocks and loops of a flat body become
`scf.if` and `scf.while` with the registers they yield. It translates a body and then executes the
flat and the structured one. **MlirAddresses** is `analyseAddresses`, `promoteParamToAddress`,
`materializeOffset`, `accessIndex` and the emission of address arithmetic: what each pointer
register is made of (a parameter, a constant, an index register and its width, or a moving offset), and
which element an access reaches. It executes the PTX and the emitted operations in lockstep; a file has
up to two kernels, since the analysis keeps its maps from one kernel to the next.

**RegisterPressure** is `max_live_regs` and `kernel_stats`: one action per visited instruction,
passes until nothing changes, then the count. **Occupancy** extends it with
`occ_active_blocks`, `occ_available_dynamic_smem` and the block-size search with the real numbers
of sm_75; a query sees the `KernelStats` only, so `Ask` forgets the body.

The `MC*` modules hold the instances: kernels, scripts, modules of declarations, bodies.
The `*_proofs` modules hold the theorems.

## 3. Runs

| Run | What it shows | Bounds, and why they are enough |
|---|---|---|
| `CtaScheduler` | no thread is lost, abandoned or stranded; barriers synchronise; the scheduler implements `BlockBarrier`; launches return | 3 threads, 2 blocks, 11 steps: each thread can cross two barriers, exit anywhere, and the budget can run out |
| `AotBlock` | a lane reads what its peers published for this collective; the block implements `BlockBarrier`; every lane returns | 4 lanes in 2 warps, scripts of two or three synchronising instructions: two collectives in a row are what the second wait protects, and two warps are what the block-wide barrier mixes |
| `PathAgreement` | both paths leave the same memory, and end; a shuffle is an exchange | 3 lanes, words mod 8; three hand-written kernels (exchange twice, loop and atomic, divergence), all 512 three-instruction kernels over eight instructions, and all 216 over six that include shuffles |
| `Arithmetic` | integer instructions: the three paths leave the same bits, the interpreter those PTX asks for, so no stale bits above a register's width; conversions: correctly rounded, saturated and clamped, and the same bits on both paths | bytes of 2 bits (words of 8, double words of 16): widths still differ by two, a word still has four bytes; every instruction on all three paths, the registers it reads at the twelve edges of their width (zero, one, widths and their neighbours, all ones, lowest, highest), literals at the edges of shift amounts and bit fields; 11 producers before 5 consumers that read the result wider or signed; bit fields at a position a register holds, constant for MLIR or not. Conversions at their real widths: each code of each narrow format, the floats at it, at the middle to the next, and next to both, both signs, zeros, infinities, NaNs, the smallest and largest floats |
| `SharedLayout` | a parsed kernel has the code, labels, parameters, registers and symbols its text gives it, and the text is rejected otherwise; `.shared` variables are disjoint, aligned, in bounds | texts of a prologue of up to two of six declarations (one a device function), a kernel with one of four forms of signature and two of eight pieces of body, and a second kernel that uses the same label and names again; modules of up to three declaration lines, four size and alignment shapes, repeated names |
| `Translators` | LlvmGen: the block graph is the body's graph, one terminator per block; structuriser: the structured body puts out what the flat one does, and uses no value outside its region; addresses: a translated kernel accesses what the PTX accesses | bodies of three and four instructions with two labels; all bodies of a block of up to four instructions (two in a row, a guard, an if/else) in a loop closed at its bottom, left at its top, under a guard or in a loop, with up to three registers set before; about seven thousand files of one or two kernels with up to three address instructions before an access, straight or in a loop of two turns |
| `CudaLayer` | every block of the heap has one owner; no launch starts a kernel its image does not have; globals are cells of their own | three addresses (a module, its function and its global together, or two modules), three images (two kernels and a global; one kernel that fails after its store; one that does not parse), two function handles, one stub, one host thread |
| `SimtToScf` | loops made of a block of threads do what an interleaving of the threads does; no clone refers to what the pass erases | two blocks of two threads, three cells, 525 kernels of up to eight operations: loads, stores, atomics, computations and barriers, deep enough for a value of a value that crosses a barrier |
| `Occupancy` | the estimate solves the data-flow equations and never undercounts; the passes end early; the search is optimal; grants are exact | all four-instruction bodies over three register groups (a jump back inside a jump back fits), all block sizes, four static sizes on both sides of the limit, three dynamic-size callbacks, three limits |

`Arithmetic` and `Translators` each hold models that share no state: an initial state has work for one
of them, the others rest (`MCArithmetic`, `MCTranslators`).

Three runs end in a counterexample: there the code contradicts a sentence of its own comments or
documentation (`findings` in `PROJECT.json`).

| Run | Disagreement |
|---|---|
| `PathAgreement_guarded_store` | a guarded `st` stores on the compiled path where its guard fails |
| `NarrowFloat_top_binade` | "Mirrors f32_to_narrow() in the interpreter exactly" (LLVM:3388): a float that rounds out of the top binade of e4m3 or e5m2 (500.0, say) is not saturated by the emitted code; it becomes minus zero |
| `MlirStructure_lost_update` | "Live beyond the block. Scan to the end of the FUNCTION" (MLIR:1922): a register written under a guard in a loop and read again only at the top of the next turn loses the update |

The passing runs stay inside what the two sides are meant to agree on, and say where the line
is: guards on register writes and branches only, shuffles between lanes that arrive together
into another register, collectives that the whole block executes, two labels on different
instructions and none on the first, texts whose module declarations stand before the first kernel,
unguarded bodies in the register analysis, integer instructions
on which the paths do not knowingly differ (`DifferingPrograms` and `MlirDifferingPrograms` of
MCArithmetic are the others; each of them violates `SameBits`), conversions outside `Differs` and
`CarriesOut` of NarrowFloat, loops whose updates are not lost and that are entered with a true
predicate, one host thread. What is known
to happen beyond the line is in section 6.

### Fairness

The interpreter is a loop in one OS thread: weak fairness of its next step says that the loop is
executed. The compiled lanes are OS threads: weak fairness of each lane's step says that the
operating system runs every thread that can run; weak fairness of the barrier's opening is
POSIX's. The translations and analyses are sequential and their runs check safety; SimtToScf's loops
are executed to their end (weak fairness of `Next`), which is what its refinement needs, since a launch
ends. No run needs strong fairness,
and `LaunchReturns` also needs `kMaxSteps` (a kernel may loop for ever; the budget ends it).

## 4. Proofs

All theorems are about arbitrary constants (any number of threads, blocks, steps, any kernel, any
declarations). They rest on the named assumptions of the modules, and where a theorem needs more than
that of its inputs, on a hypothesis it states itself. These are the hypotheses, none of them empty:

| Hypothesis | Of | Says | Why |
|---|---|---|---|
| `Uniform` | Block_proofs | all lanes have the same synchronising instructions | what PTX asks of `bar.sync` and of collectives; the run's scripts are such |
| `Exchanging` | PathAgreement_proofs | a kernel's shuffles swap neighbours, into another register than they read | `shfl r, r` is the known exception (section 6) |
| `[]Convergent` | PathAgreement_proofs | neighbours branch, synchronise and shuffle alike | what PTX asks of `shfl.sync`; the shuffling kernels of the run are of this kind; other lanes may diverge, and any lane may leave early |
| `SameBlock` | PathAgreement_proofs, `SameResult` | one block, whose threads are the lanes of the other path | compares the paths on one block; the theorems about the interpreter alone are for any number |
| `OwnerOK`, `[]RaceFree` | PathAgreement_proofs | between two barriers a cell belongs to one thread, or is only read, or is only added to and not read (`red`) | without it the result depends on the order of the lanes, in CUDA too; the exchanging, the diverging and all 512 straight-line kernels of the run are of this kind |
| `GuardsHonoured` | PathAgreement_proofs | guards stand on arithmetic, `setp`, `ld`, `shfl` and `bra` only | a guarded `st` is the finding of `PathAgreement_guarded_store`; `atom`, `bar.sync` and `ret` are like it (section 6) |
| `PlainBodies` | Occupancy_proofs | no guards, no `red` or `atom` | the analysis reads those differently from PTX (section 6) |
| `EnoughPasses` | Occupancy_proofs | a kernel has fewer than `MaxPasses` - 2 instructions | `MaxPasses` is 100000; a longer kernel would also need that many jumps back (`AnalysisIsShort`) |
| `IntsAreWide` | Occupancy_proofs | the static shared memory of a kernel and that of an SM are below 2 GiB | the conversion to `int` is the known exception (section 6) |
| `Flat` | SimtToScf_proofs | a value that is the same for all threads is computed from such values, not from a load | the others are the known exception (section 6) |
| `IsConversion`, outside `Differs` and `CarriesOut` | NarrowFloat_proofs | a pair of formats of the ISA's, with operands of the first; not a negative NaN into a format without one, a NaN under `.relu` in a widening, `.relu` where neither format is narrow, or a carry out of the top binade | for `SameNarrowBits`; `InterpreterRounds` excludes `.relu` where neither format is narrow and nothing else. The last is the finding of `NarrowFloat_top_binade`, the others are in section 6 |
| `Agreed`, `RegisterFiles` | AluAgreement_proofs | programs of instructions whose operands are as wide as their types (or as PTX has them: shift amounts, positions, wide products), whose literals all paths read as one number, none of the types and guards that one path takes for another; registers that hold patterns of their widths | the others are `DifferingPrograms`, `WidePrograms`, `MlirDifferingPrograms` of MCArithmetic and the like (section 6); every program of the run is of this kind, which TLC evaluates (`AgreedAreAgreed`) |
| `WellLabelled` | LlvmBlocks_proofs | labels name different instructions, none of them the first | the others are the known exception (section 6) |

- **PathAgreement_proofs**, in three parts, for what one kernel does. First the CTA scheduler by itself.
  The inductive invariant adds to `TypeOK` what the round has done so far:
  the threads below `i` have been visited, `anyAlive` is true exactly if one of them was stepped
  (`RoundIsLive`), and at the start of a round not all live threads are parked
  (`RoundStartsClear`). From it: `SuccessIsCompletion`, `NeverStuck`, `BlocksAreCompleted`,
  the refinement `SchedulerImplementsBarrier`, and `BarrierSeparatesPhases`.
  Then of the instructions. A kernel's run is a run of the scheduler (`InterpIsScheduled`: each
  instruction is one of the four results), so the scheduler's theorems hold for every kernel;
  `InterpTypeCorrect` adds the data: words stay words, pc stays in the body or one behind.
  `ShufflesExchange`: a warp shuffle reads its neighbour's register file while lanes run one after the
  other, so when the second lane of a pair comes, the first has gone on. The invariant is that a pair is
  never more than one instruction apart (`PairsInStep`): in a round the lanes below `i` are one step
  ahead of their neighbour or both are level, a lane that waits at a barrier waits with its neighbour,
  and the history of what a lane had before its last shuffle is that of the same shuffle (`HistoryOK`).
  Since the destination is another register, what the neighbour still holds is what it had. The model
  starts each block with fresh threads, a cleared scratchpad and a new history (`FreshBlock`), so
  the theorem covers any number of blocks, where the run has one.
  Then the two paths together. `SameResult`, "the same kernel, the same result", by a *trace* of the
  interpreter's run (`Trace`): for each thread the set of the states it has been in, each with the number of
  barriers crossed and the thread's own *view* of the memory (the cells it owns, the cells all may only
  read, and what it has itself added to a tally), and for each barrier the memory it opened with. The
  sets are closed: the state after an instruction, computed on the view alone (`NextState`), is in the
  set again, and so is the state behind a barrier. The memory of either path is at any time what the
  views say it is (`CellsFit`), whoever runs first, and `StepFits` is that an instruction on the memory
  does what it does on the view; for tallies this is that sums of words may be taken in any order
  (`Totals`). So a compiled lane, at its own pace, is always in a state of its thread's set
  (`Follows`), a barrier it meets opens with the memory the interpreter's opened with (`OneMemory`), and
  where it returns the interpreter's thread returned, in the same state. No induction over the run is
  needed: the sets are witnesses of the invariant (`RunInv`, `PathInv`) and grow with it. Any number
  of lanes, any kernel with loops, divergence and barriers, any schedule. Left out are kernels in which several lanes
  apply `atom` to one cell: what it returns depends on their order, even where nobody looks at it, as in
  `ReduceKernel`, which TLC covers; `red`, which returns nothing, is included.
- **Block_proofs**, of the threads of a block and of its scratchpad. For lanes with equal scripts the
  inductive invariant says that all
  lanes are in the same *gap* between two openings of the barrier (`SameGap`), that a lane waits
  exactly where its label says so (`AtBarrier`), and that the label fits the instruction
  (`PcMatches`). `SameGap` is what the plain property lacks: it excludes a peer one collective
  ahead. From it `CollectivesReadTheirOwn`, `AotImplementsBarrier` and `BlockSynchronised`, for any
  number of lanes and any warp size. Of the layout: every placed variable lies below the running size and
  at a multiple of its alignment; a new one starts at the running size or above. From it
  `LayoutIsDisjoint` and `LayoutIsInBounds`.
- **LlvmBlocks_proofs.** `BlocksInv` describes the text printed so far, item by item: the code of an
  instruction is followed by its terminator (`Closing`), or by the code of the next instruction where no
  block begins (`BehindCode`); a label names the block of the instruction behind it, or the block
  of the implicit `ret` (`BehindLabel`); a label follows a terminator and nothing else does
  (`TermsBeforeLabels`); every block seen has its label (`AllPrinted`), and `needRet` is set where a
  branch wants that of the `ret`. It rests on two lemmas about names: the name of a block determines
  its first instruction (`NamesDiffer`), and the name changes exactly where a block begins
  (`BlockNameFacts`). From it `BlocksEndOnce`, and `FlowIsPreserved` by looking up where each name in a
  terminator is printed (`EnteredBlock`, `EnteredRet`, `EnteredLabel`).
- **Occupancy_proofs**, first of RegisterPressure by itself. `AnalysisIsLeast`: no solution of the equations lies below what was
  computed, so nothing is counted that need not be. `PassesAreFew` gives every
  register found live behind an instruction a level, the pass that found it. What a later instruction
  lets live is seen in the same pass (`Prompt`), so a level above one comes through a jump back, and
  behind some jump back every lower level is found too (`Inherited`): each pass but the first is paid for
  with a jump of its own. A pass that changes something finds something of its level (`Noted`).
  `NeededIsLive`: any solution contains what a path through the body still reads; with it
  `EstimateIsEnough`, since the count is the largest over the positions.
  Then under the queries. During a pass, the live sets only contain what the equations justify
  (`Justified`), and every position behind the current one whose successors did not change in
  this pass already satisfies them (`Behind`). When a pass ends without a change the
  equations hold: `AnalysisSolves`. `AnalysisIsShort` and `EstimateIsSafe` carry `PassesAreFew` and
  `EstimateIsEnough` over to a queried kernel. `SearchIsRight` is the loop invariant of the block-size
  search: the best so far is the best of the sizes tried, the largest of equal ones, and the sizes tried
  are all the multiples of the warp above the current one. `GrantIsTheMost` is arithmetic: the
  rounding to allocation units in the query and in the occupancy are the same.
- **RuntimeApi_proofs**, for any heap, images, host threads and bounds. `OneOwner` written out over the
  five kinds of owners (`Owned`) is inductive: an address is taken only when nothing owns it, and an
  unload gives back the module and the storage of its globals in one step; its function handles stay, and
  go on owning their addresses. `Ranged` is about what a launch carries; from it `LaunchesAreInRange`. `GlobalsAreCells` is the refinement of DeviceGlobals, for one host thread: the
  bases a launch reads must be those of its own module (`BasesOfItsOwn`), which a second thread breaks.
- **SimtToScf_proofs**, for every well-formed kernel, grid, block and memory. The pass is made of recursive
  functions (what depends on the thread, what can be computed again, the values of an operation), so
  the module first shows that a recursion that only looks at smaller numbers has one solution
  (`RecursionExists`, by a least counterexample), and reads off the equations of each. Then the
  function: what is rematerialised uses ids, invariants and its own kind (`RematFacts`), the body
  of a phase lists an operation behind what it uses (`BodyFacts`, `RegionFacts`), and in an accepted
  kernel a value that stays in its phase is used there alone. The inductive invariant `IInv` says where the
  *launch* would stand: a thread has got exactly the accesses and barriers that the loops are past and
  whose condition holds (`GotAsLaunched`), and what is hoisted or cloned has the values the launch gives
  those operations for that thread (`HoistedAsLaunched`, `EnvAsLaunched`). "The loops are past" is the
  order of blocks, phases, threads and the body's list, so that iterations that are over and
  those that are not differ only by where the loops stand. An access does not disturb what another thread
  has, and the value of an operation depends only on the results of the effects before it
  (`ValuesStable`). From it `ClonesAreClosed`, since values of the launch are
  numbers, and the refinement `LoopsImplementLaunch`: the access the loops make is the next one of its
  thread, and at the end of a phase all threads of the block have the same barrier ahead. The two assumptions on
  constants are that kernels are well formed and that the depth bound of `dependsOnThread` is a number: the
  bound may be any, since what is too deep counts as dependent.

- **NarrowFloat_proofs**, for every operand. The invariant is that both results are computed from the
  conversion; the work is in the lemmas, one per pair of functions. `EncodeAgrees`: the selects of the
  emitted encoder keep what the interpreter's branches return, because a rounded fraction is at most the
  next power of two (`RoundedFraction`), so that a carry shows in the exponent, and the mask loses
  nothing. `DecodeAgrees`: the unrolled loop is long enough, since the leading one of a fraction is
  within its width (`Log2OfFraction`). `TruncAgrees`: LLVM's truncation is `f32_to_f16_rne`, and is
  `f32_to_bf16_rne`, which rounds by adding to the bits. From them `EmittedCodeMirrors`. The attempt
  corrected the model of `fptrunc` twice, for f32 subnormals and for the binade above the
  largest f16, where no operand of the run had been.

  `InterpreterRounds` states `RoundsAsAsked` for every operand. A format is *u* steps in each of *top*
  binades (`Shape`), so a code is (T - 1) * u + S, its number S at the exponent of binade T (`ValueIs`), and
  numbers are in the order of their codes. What `Rounded` returns is within half a place of
  what it was given, or within one below it (`RoundedNear`, `RoundedDown`); so the code that the
  significand R lands on, also when R reaches 2 * u and carries into the next binade, has the number
  between the middles to its neighbours (`RoundsSignificand`, `NormalRounds`, and `SmallRounds` below the
  first binade). The saturating branch stands apart (`Saturates`), and so does a float far
  below the smallest code (`FarBelow`). For a widening the number has as few bits as the narrow format keeps, so that
  rounding it loses nothing (`NothingLost`, `ExactInBinade`); `HalfBack` and `BrainBack` are the way
  back to f32. The powers of two of a variable exponent that the provers have no theory of are carried
  by lemmas of their own (`PowerStep`, `PowerSum`, by the least counterexample, `LeastNatural`), and a power is named before it is computed
  with.

- **AluAgreement_proofs**, for every width of a byte, every program of the class and every content of the
  registers: `PathsHoldTheSameBits`. The invariant adds to `SameBits` that the registers hold patterns of
  their widths; the work is in the lemmas, one per block of instructions, each of which names the pattern that
  every path leaves unless it refuses the instruction or finds it undefined (`AllAnswer`). Sums and products
  are equal because they are congruent modulo the power of two (`Like`, `CutSame`). Bitwise operations, bit
  fields and shifts are compared bit by bit: a number below a power of two is determined by its bits
  (`BitsDetermine`), `Bits2Value` adds up the powers of a set of bits in whatever order it
  takes them (`NumberOfTaken`), and each path's shifts and masks have the bits of the field (`LFieldIs`,
  `MFieldIs`). `dp4a`, `dp2a` and `prmt` add up four bytes. The
  proof found two conversions missing from the cases of `IConvert` and `LConvert`, now there, and literals
  that the paths read differently, now outside the class.

Model-checked only, and why:

- everything under fairness: `LaunchReturns`, `ParkedIsReleased`, `EveryThreadReturns`, `BothEnd`, the
  progress part of `LaunchSpec`;
- `MeansWhatPtxSays`: PTX's own meaning of each instruction, in integers; the paths would each need it again;
- `SameOutput`, `ValuesAreVisible`, `SameAddresses`, `ParsedAsWritten`: what a pass over a whole body computes
  through a `RECURSIVE` operator, which the provers do not take, or through folds and `SelectSeq` over bodies
  of any length, each of which would need an induction of its own, as the sums of AluAgreement_proofs did.

## 5. What is not modelled

- Floating-point arithmetic: one host operation per instruction, rounded by the hardware.
- Cutting lines of PTX into words, the fat-binary container, files, processes and `dlsym`.
- The GPU back end: the same generator with intrinsics whose meaning is the hardware's.
- rouge-numerics, rouge-render: sequential floating-point algorithms.
- In the MLIR front end, floating-point and warp instructions and the printing; of the transforms, the
  vectoriser and the GPU lowering (pattern rewrites of single operations), and kernels with nested
  regions in SimtToScf.
- In the CUDA layer, forwarding (each call first asks for the real driver), and calls that change
  nothing but their output (one action, `QueryCall`).

## 6. Disagreements outside the checked inputs

Met while reading, each either excluded from the instances above or covered by a finding of the
same kind:

- *Guards in compiled code.* A guarded `atom` updates memory, a guarded `bar.sync` waits, a guarded
  `ret` returns unconditionally (LLVM:4539), a guarded `shfl` always writes (LLVM:957-960).
- *Early exit.* A lane that returns early is never replaced at the pthread barrier (RT:124-128), so
  the others wait for ever; the interpreter counts live threads only (ptx.cpp:3274).
- *No `ret`.* The interpreter fails a thread that runs off the end, LlvmGen appends `ret void`.
- *Exited lanes.* `shfl`, `vote` and `activemask` read the registers and predicates of lanes that have
  exited (ptx.cpp:2537, 2568-2631, 3099-3120).
- *Labels.* Two labels on one instruction (LLVM:539), and a label on the first instruction
  (LLVM:168 against 934), lose a block or name it twice.
- *Undefined labels.* "A branch to a label that is never defined must be a LOUD failure" (LLVM:4547);
  `fail()` records it, generation goes on and the text is returned, and `ptx2ir` only tests it for
  being empty (`EmitUndefined` of LlvmBlocks).
- *Integer instructions, interpreter against LLVM.* `cvt.s64.s32` extends with zeros in the interpreter
  although LLVM:3871 says otherwise; LlvmGen extends `cvt.s64.u32` with the sign, and refuses
  `cvt.u64.s32`. `shr.s16` and `abs.s16` miss the sign of 16 bits in the interpreter, which has no
  16-bit `add`, `mul`, `div`, `min`, `max` at all; a negative literal moved to a 16-bit register
  leaves 64 bits there. `rem` of the lowest integer by a literal -1 is the dividend in the
  interpreter and 0 in LLVM. Shift amounts and divisors written in hex are read in decimal by
  LlvmGen (LLVM:2239). `neg.f32` subtracts from the integer zero, `abs.f32` and `fnabs.f32` clear
  the fraction (LLVM:2871). An unknown condition of `setp` becomes "not equal", a mode of `prmt` is
  ignored. A guarded `div` divides even where its guard fails (`GuardedDivision`).
- *Integer instructions, MLIR.* Every `mad` is `mad.lo`, the bytes of `dp4a.u32.s32` get each other's
  signedness, bit types are compared and extended as signed, `cvt.u32.s16` extends with zeros,
  `mul.wide.s32` too, and `setp`, `cvt` and `dp4a` do not look at their guard.
- *Integer instructions, the interpreter against PTX.* `mul.hi.u64` and `mul.hi.s64` give the low word of
  the product (ptx.cpp:1429-1432); LlvmGen and the MLIR front end refuse them, so no program of the run has
  one.
- *Integer instructions, all paths against PTX.* `mad.hi` ignores its addend, `slct` tests the lowest
  bit instead of the sign, `bfind.shiftamt` counts leading zeros of signed operands too, and gives the
  width instead of all ones where no bit is set.
- *Narrow floating point.* A negative NaN becomes the largest number in the interpreter and its
  negative in the emitted code where the format has no NaN; `.relu` on a widening turns a NaN into an
  infinity in the emitted code (LLVM:3650: 2139095040 is 0x7F800000); `cvt.rn.relu.f16.f32` is taken by
  the interpreter, which then ignores the `.relu` (ptx.cpp:1887); a NaN whose payload is in its low 16
  bits becomes an infinity in bf16 (ptx.cpp:442-443); "-0 -> +0" (ptx.cpp:1950) is not what the test
  does, -0 stays; LlvmGen looks at the last modifier only and takes `cvt.rp.satfinite` as `.rn`. An
  f16 or bf16 widened to f64 by the interpreter gets the bits of an f32 (ptx.cpp:1988-1999).
- *`mul.wide.s32`* on LlvmGen extends with zeros (LLVM:1103 looks for an `s` at the end of the mnemonic)
  although ptx.cpp:1272 says of the interpreter "matches the AOT's sext+mul": `WidePrograms` of
  MCArithmetic violates `SameBits`.
- *Collectives of one warp.* "The block barrier is stronger than warp scope … correct, not free"
  (LLVM:1428): if only one warp executes the `mma`, its waits are matched with the other warp's
  `bar.sync`, which then runs on alone. `WarpSpecialisedScripts` of AotBlock violates `Synchronised`.
- *`shfl r, r`* reads registers the round has already overwritten (ptx.cpp:2538): `InPlaceKernel` of
  MCPathAgreement violates `ShuffleIsAnExchange`.
- *Dynamic `.shared`.* "Dynamic region base lands after each kernel's static scratchpad"
  (ptx.cpp:796): the module's dynamic declarations are placed before its static ones.
  `DynamicModules` of MCSharedLayout violates `DynamicAfterStatic`.
- *Last error.* "Peek must not clear the sticky error" (runtime_api.cpp:192), but every call stores its
  own result, so the next call that succeeds clears it; and a refused launch stores nothing.
  `StickyError` of RuntimeApi.
- *Launches.* A launch with dynamic shared memory is refused after the kernel has run
  (runtime_register.cpp:143). `load_ptx_modules` keeps the files before one that does not parse, and
  fails again at each launch. Host threads share the configuration stack and the bases of globals
  (`ConfigOfItsOwn`, `BasesOfItsOwn` of RuntimeApi fail with two of them). A store to a global by a
  kernel is lost if no `cuModuleGetGlobal` has asked for it before, and always through the Runtime API,
  which passes no bases (runtime_register.cpp:139).
- *SimtToScf.* "Both groups are CLONED … a dangling reference" (SCF:358): a value computed from a load at
  an address that all threads share is hoisted, the load is not, and the clone refers to the erased
  kernel (kernels outside `FlatKernels` of MCSimtToScf violate `NoDangling`). A barrier inside `scf.while`
  or `scf.for` is not seen (SCF:131-146); a kernel that is launched twice is lowered twice.
- *MLIR structuriser.* A loop closed at its bottom is emitted with the test first, so it is not entered
  where PTX takes one turn (`NeverEntered`); a body that reads the predicate of its own loop, or the
  address register of an access, is not counted as reading it (`ReadsPredicate`); a branch out of a loop in its middle
  becomes a skip of the rest of the turn (MLIR:1897).
- *MLIR addresses.* An access through a pointer that moves but whose index is static takes the static
  index (MLIR:1711-1727); zero extension of a negative 32-bit index; arithmetic on addresses under a
  guard is taken as unconditional. The pointer that starts at a thread's element and then moves, one stepped
  before it is dereferenced, an offset scaled twice, and a kernel behind one with a moving pointer, whose
  maps it inherits, are `ThreadPointers`, `SteppedFirst`, `TwiceScaled` and `Behind` of MCMlirAddresses;
  each violates `SameAddresses`. "atom.* / red.* — the same address recovery as a load/store"
  (MLIR:1519): that of a load compares the end of the number with `'\0'`, this one with `'\\0'`, which no
  character equals (MLIR:1540, 1549), so the immediate is dropped: `atom [r+4]` accesses `[r]`
  (`Immediate` of MlirAddresses; `AtomicOffsets` of MCMlirAddresses violates `SameAddresses`; the
  atomics of the run have no offset).
- *Lines behind a kernel.* "Such a declaration still belongs to every kernel of the module"
  (ptx.cpp:702-703): `current` is not reset at `}`, so a `.shared` or `.local` line of the module behind a
  kernel goes to that kernel alone, a `.global` one is dropped, and the body of a `.func` is
  appended to the kernel in front of it, where its labels replace the kernel's. A signature that is
  closed by `) {` on a line of its own stays open and swallows the body (ptx.cpp:723); parameters behind an
  open parenthesis are not read (ptx.cpp:671). `LateTexts` of MCSharedLayout violates `ParsedAsWritten`.
  `.visible .global` and `.weak .entry` are not recognised; a label with an instruction behind it on its
  line becomes an instruction (ptx.cpp:772).
- *Scalar `.shared`* declarations are dropped without an error (ptx.cpp:314-315), and their symbol
  is address zero.
- *Negative register offsets*: `split_reg_offset` drops the sign (ptx.cpp:942-953, LLVM:96-107).
- *Register analysis*: a guarded write kills liveness although it may not happen, a guarded `ret`
  has no successor, the address register of `red` counts as its result, and the destination of
  `atom` is removed from its operands: `NeverUndercounts` fails on such bodies (`GuardedBodies` of
  MCOccupancy). occupancy.h:27-29 promises a fallback when the passes do not converge; there is
  none. A label at the end of the body gives a successor outside it.
- *Sizes of 4 GiB and more* are cut down to an int before they are compared, so an impossible
  launch counts as possible (`ImpossibleIsZero` of Occupancy).

## 7. Plan

What is done is in the order it was planned: scheduler and barrier, compiled block, agreement of the
two paths, layout, block structure, occupancy, integer instructions, CUDA layer, SimtToScf,
structuriser, address analysis, narrow floating point, parser. Next, in this order:

1. **Proofs.** Done for the scheduler, the compiled block, the agreement of the two paths, the CUDA layer,
   LlvmBlocks, the layout, occupancy, SimtToScf, the narrow formats (the agreement of the paths, and the
   rounding) and the agreement of the integer instructions. Next: `MeansWhatPtxSays`, on the same lemmas.
2. **Texts of the parser that go on behind a kernel**, once the code gives them a meaning.
3. **Collectives of the interpreter** (`vote`, `activemask`, `mma`, `ldmatrix`) in PtxInterp, and
   the same in PtxAot through AotBlock's exchange region: agreement of the two paths on what the
   other lanes contributed.
4. **Nested regions in SimtToScf**: `scf.if` and `scf.while` around accesses, and barriers in them.
5. **Guards and early exit in the compiled block**: PathAgreement over lanes that leave before a
   barrier, as far as the pthread barrier allows.
6. **GemmPartition** (`rouge-numerics/src/gemm.cpp`): the rows are divided among threads; each element
   is computed exactly once, for every number of rows and threads (a theorem).
7. **Memory widths** of `ld` and `st` in both paths, with vector forms, on BitPatterns.
