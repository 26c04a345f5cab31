----------------------------- MODULE SimtToScf ------------------------------
(***************************************************************************)
(* The pass rouge-to-scf (mlir/lib/Transforms/SimtToScfImpl.h) and a run of *)
(* what it produces.  The operations of the kernel are cloned into a       *)
(* function: the invariants once at its start, the others into one loop    *)
(* over the threads per phase, the phases being split at the barriers; the *)
(* launch becomes a loop over the blocks that calls the function.          *)
(*                                                                         *)
(* An operand of a clone that has not been remapped still refers to the    *)
(* old kernel, which is erased: it has no value (Dangling).                *)
(***************************************************************************)
EXTENDS SimtIr, Integers

CONSTANTS Kernels,
          MaxDepth         \* bound of dependsOnThread's recursion: 16

ASSUME KernelsAssumption == \A k \in Kernels : WellFormed(k)
ASSUME DepthAssumption == MaxDepth \in Nat

VARIABLES kernel,
          function,        \* what the pass has made of it
          memory,
          got,             \* what each thread has got so far (observation)
          block, phase, thread, at,   \* the loops, and the clone to run next
          hoisted,         \* values of the invariants' clones
          env              \* values of the clones of this iteration

vars == <<kernel, function, memory, got, block, phase, thread, at, hoisted, env>>

Dangling == -1

-----------------------------------------------------------------------------
(* The pass.                                                               *)

\* dependsOnThread: through operands and regions; too deep counts as dependent.
ThreadDependent(k) ==
  LET dep[left \in 0 .. MaxDepth + 1] ==    \* with so many steps left to look
        IF left = 0 THEN DOMAIN k
        ELSE LET below == dep[left - 1]
             IN  { j \in DOMAIN k :
                     \/ k[j].op = "thread_id"
                     \/ (Operands(k, j) \cup Inner(k, j)) \cap below # {} }
  IN  dep[MaxDepth + 1]

\* Mutant of ReadsOrWrites: only the writing of memory is looked for.
OnlyWrites(k, i) == k[i].op \in {"store", "atomic", "if"}

\* readsOrWritesMemory: an operation with a region counts as one that does, an
\* allocation does not.
ReadsOrWrites(k, i) == k[i].op \in Accesses \cup {"if"}

Clonable(k) == TopLevel(k) \ Kinds(k, {"barrier"} \cup Ids \cup Sizes)

Invariants(k) ==
  { i \in Clonable(k) \ ThreadDependent(k) : ~ReadsOrWrites(k, i) }

\* Does an invariant use a value that stays in its phase?
UsesLoaded(k) == \E i \in Invariants(k) : \E j \in Operands(k, i) \ {0} :
                   ReadsOrWrites(k, j)

\* Mutant of EffectFree: a load is taken for a computation.
EffectFreeOrLoad(k, i) == k[i].op \in {"constant", "sum", "load"}

\* isMemoryEffectFree, for an operation without regions.
EffectFree(k, i) == k[i].op \in {"constant", "sum"}

\* The dependent values that every phase can compute again.
Rematerialisable(k) ==
  LET invariants == Invariants(k)
      remat[i \in DOMAIN k] ==
        /\ i \in Clonable(k) \ invariants /\ EffectFree(k, i)
        /\ \A j \in Operands(k, i) :
             j # 0 /\ (k[j].op \in Ids \cup Sizes \/ j \in invariants \/ remat[j])
  IN  { i \in DOMAIN k : remat[i] }

PhaseOf(k, i) == 1 + Cardinality({ j \in Kinds(k, {"barrier"}) \cap TopLevel(k) : j < i })
Phases(k) == 1 + Cardinality(Kinds(k, {"barrier"}) \cap TopLevel(k))

\* The operands of an operation and of everything inside it.
Uses(k, i) == (UNION { Operands(k, j) : j \in {i} \cup Inner(k, i) }) \ {0}

\* Mutant of CrossesPhase: no value is seen to cross.
NothingCrosses(k) == FALSE

\* A value of one phase that is used in another.
CrossesPhase(k) ==
  LET everywhere == Rematerialisable(k) \cup Invariants(k) \cup Kinds(k, Ids)
  IN  \E i \in TopLevel(k) \ Kinds(k, {"barrier"} \cup Ids) :
        \E j \in (Uses(k, i) \cap TopLevel(k)) \ everywhere :
          PhaseOf(k, j) # PhaseOf(k, i)

\* hasBarrierInDivergentRegion
DivergentBarrier(k) == \E i \in Kinds(k, {"barrier"}) : k[i].in # 0

Accepted(k) == ~DivergentBarrier(k) /\ ~CrossesPhase(k)

\* The rematerialisable values that operations need, through others: the
\* smallest set with all that they and its members use.
NeededBy(k, ops) ==
  LET remat == Rematerialisable(k)
      UsedIn(S) == { i \in remat : \E u \in ops \cup S : i \in Uses(k, u) }
  IN  { i \in remat : \A S \in SUBSET remat : UsedIn(S) \subseteq S => i \in S }

Dependents(k, p) ==
  { i \in Clonable(k) : PhaseOf(k, i) = p } \ (Invariants(k) \cup Rematerialisable(k))

\* The body of a phase's loop: what is computed again, then the phase's own
\* operations, an scf.if with what stands in it.
Body(k, p) ==
  LET own == Dependents(k, p)
  IN  InOrder(NeededBy(k, own))
        \o InOrder(own \cup UNION { Inner(k, i) : i \in own })

\* The function the pass makes: the hoisted operations and the loops' bodies.
Lower(k) == [invariants |-> Invariants(k), bodies |-> [p \in 1 .. Phases(k) |-> Body(k, p)],
             barriers |-> InOrder(Kinds(k, {"barrier"}))]

\* The value of an operation at the start of the function, from those before it.
\* The thread id and the operations that stay in a phase are not mapped here.
HoistedValue(k, invariants, b, before, i) ==
  LET values == [n \in DOMAIN k[i].args |-> before[k[i].args[n]]]
  IN  CASE k[i].op = "block_id" -> b
        [] k[i].op \in Sizes -> SizeOf(k[i].op)
        [] i \in invariants ->
             IF Dangling \in ToSet(values) THEN Dangling
             ELSE IF k[i].op = "load" THEN memory[Cell(k[i].buf, b, values[1])]
             ELSE Compute(k[i].op, values)
        [] OTHER -> Dangling

\* Values of the invariants, cloned in order at the start of the function, where
\* a load would see the memory of that moment.
Hoist(k, invariants, b) ==
  LET v[i \in 0 .. Len(k)] ==
        IF i = 0 THEN Parameter ELSE HoistedValue(k, invariants, b, v, i)
  IN  [i \in invariants |-> v[i]]

-----------------------------------------------------------------------------
(* The run of the result.                                                  *)
None == << >>

Init == /\ kernel \in { k \in Kernels : Accepted(k) }
        /\ function = Lower(kernel)
        /\ memory = EmptyMemory(kernel)
        /\ got = [bt \in Blocks \X Threads |-> << >>]
        /\ block = 0 /\ phase = 0 /\ thread = 0 /\ at = 1
        /\ hoisted = None /\ env = None

\* Mutant of ValueOf: only the first phase maps the thread id.
ValueInFirstPhase(j) ==
  CASE j = 0 -> Parameter
    [] j > 0 /\ kernel[j].op = "thread_id" -> IF phase = 1 THEN thread ELSE Dangling
    [] j > 0 /\ kernel[j].op = "block_id" -> block
    [] j > 0 /\ kernel[j].op \in Sizes -> SizeOf(kernel[j].op)
    [] j \in DOMAIN hoisted -> hoisted[j]
    [] j \in DOMAIN env -> env[j]
    [] OTHER -> Dangling

\* What the mapping of a phase gives for the result of operation j.
ValueOf(j) ==
  CASE j = 0 -> Parameter
    [] j > 0 /\ kernel[j].op = "thread_id" -> thread
    [] j > 0 /\ kernel[j].op = "block_id" -> block
    [] j > 0 /\ kernel[j].op \in Sizes -> SizeOf(kernel[j].op)
    [] j \in DOMAIN hoisted -> hoisted[j]
    [] j \in DOMAIN env -> env[j]
    [] OTHER -> Dangling

\* The call of the function for a block, up to the first loop.
EnterKernel ==
  /\ block \in Blocks /\ phase = 0
  /\ hoisted' = Hoist(kernel, function.invariants, block)
  /\ phase' = 1 /\ thread' = 0 /\ at' = 1 /\ env' = None
  /\ UNCHANGED <<kernel, function, memory, got, block>>

Here == function.bodies[phase]
InBody == phase > 0 /\ thread \in Threads

Define(i, value) == env' = [j \in DOMAIN env \cup {i} |-> IF j = i THEN value ELSE env[j]]

Record(i, result) ==
  got' = [got EXCEPT ![<<block, thread>>] =
            [j \in DOMAIN @ \cup {i} |-> IF j = i THEN result ELSE @[j]]]

\* An operation of an scf.if runs when the condition holds.
Runs(i) == IF kernel[i].in = 0 THEN TRUE ELSE env[kernel[i].in] # 0

\* One clone of the loop's body.
Execute ==
  /\ InBody /\ at <= Len(Here)
  /\ LET i == Here[at]
         values == [n \in DOMAIN kernel[i].args |-> ValueOf(kernel[i].args[n])]
         cell == Cell(kernel[i].buf, block, values[1])
     IN  CASE ~Runs(i) -> UNCHANGED <<memory, got, env>>
           [] Runs(i) /\ Dangling \in ToSet(values) ->
                Define(i, Dangling) /\ UNCHANGED <<memory, got>>
           [] Runs(i) /\ Dangling \notin ToSet(values) /\ kernel[i].op \in Accesses ->
                /\ memory' = MemoryAfter(memory, kernel[i].op, cell, values)
                /\ Define(i, ResultOf(memory, kernel[i].op, cell))
                /\ Record(i, ResultOf(memory, kernel[i].op, cell))
           [] OTHER -> Define(i, Compute(kernel[i].op, values)) /\ UNCHANGED <<memory, got>>
  /\ at' = at + 1
  /\ UNCHANGED <<kernel, function, block, phase, thread, hoisted>>

EndIteration ==
  /\ InBody /\ at > Len(Here)
  /\ thread' = thread + 1 /\ at' = 1 /\ env' = None
  /\ UNCHANGED <<kernel, function, memory, got, block, phase, hoisted>>

\* The loop has run for every thread.  The barrier is gone; what is recorded is
\* that all threads of the block are past it.
EndPhase ==
  /\ phase > 0 /\ thread = BlockSize
  /\ IF phase < Len(function.bodies)
     THEN LET i == function.barriers[phase]
          IN  /\ phase' = phase + 1
              /\ got' = [bt \in DOMAIN got |->
                           IF bt[1] # block THEN got[bt]
                           ELSE [j \in DOMAIN got[bt] \cup {i} |->
                                   IF j = i THEN 0 ELSE got[bt][j]]]
              /\ UNCHANGED block
     ELSE phase' = 0 /\ block' = block + 1 /\ UNCHANGED got
  /\ thread' = 0 /\ at' = 1
  /\ UNCHANGED <<kernel, function, memory, hoisted, env>>

Next == EnterKernel \/ Execute \/ EndIteration \/ EndPhase

Spec == Init /\ [][Next]_vars /\ WF_vars(Next)

-----------------------------------------------------------------------------
(* Properties.                                                             *)

\* Every clone refers to values of the new function: none is left that refers
\* to the kernel the pass erases (the comment at the splitting of the body:
\* "the originals die with the old kernel, and a clone that still referred to
\* them would be a dangling reference").
NoDangling ==
  /\ \A i \in DOMAIN hoisted : hoisted[i] # Dangling
  /\ \A i \in DOMAIN env : env[i] # Dangling

\* The loops do what some run of the launch does, for every kernel the pass
\* accepts: accesses happen with the values of their thread, between the
\* barriers they stand between, and no thread or block is left out.
Launch == INSTANCE SimtLaunch
LaunchSpec == Launch!Spec
=============================================================================
