----------------------------- MODULE SimtLaunch -----------------------------
(***************************************************************************)
(* What rouge.launch promises: the threads of all blocks run the kernel,   *)
(* each with values of its own and in any order; a thread goes past a      *)
(* barrier only together with all threads of its block.                    *)
(***************************************************************************)
EXTENDS SimtIr

CONSTANT Kernels

VARIABLES kernel,
          memory,
          got              \* of each thread, the results of the accesses it has
                           \* made and the barriers it has passed

launchVars == <<kernel, memory, got>>

\* The values of the operations for a thread that has got g so far.
Values(k, b, t, g) ==
  LET v[i \in 0 .. Len(k)] ==
        IF i = 0 THEN Parameter
        ELSE CASE k[i].op = "thread_id" -> t
               [] k[i].op = "block_id" -> b
               [] k[i].op \in Sizes -> SizeOf(k[i].op)
               [] k[i].op \in Effects -> IF i \in DOMAIN g THEN g[i] ELSE 0
               [] k[i].op \in {"alloc", "if"} -> 0
               [] OTHER -> Compute(k[i].op, [n \in DOMAIN k[i].args |-> v[k[i].args[n]]])
  IN  v

\* The accesses and barriers still ahead of the thread.  One that stands in an
\* scf.if counts when the condition holds.
Ahead(b, t) ==
  LET v == Values(kernel, b, t, got[<<b, t>>])
  IN  { i \in Kinds(kernel, Effects) \ DOMAIN got[<<b, t>>] :
          kernel[i].in = 0 \/ v[kernel[kernel[i].in].args[1]] # 0 }

NextOf(b, t) == Min(Ahead(b, t))

With(g, i, result) == [j \in DOMAIN g \cup {i} |-> IF j = i THEN result ELSE g[j]]

Init == /\ kernel \in Kernels /\ memory = EmptyMemory(kernel)
        /\ got = [bt \in Blocks \X Threads |-> << >>]

Access(b, t) ==
  /\ Ahead(b, t) # {}
  /\ LET i == NextOf(b, t)
         v == Values(kernel, b, t, got[<<b, t>>])
         values == [n \in DOMAIN kernel[i].args |-> v[kernel[i].args[n]]]
         cell == Cell(kernel[i].buf, b, values[1])
     IN  /\ kernel[i].op \in Accesses
         /\ memory' = MemoryAfter(memory, kernel[i].op, cell, values)
         /\ got' = [got EXCEPT ![<<b, t>>] =
                      With(@, i, ResultOf(memory, kernel[i].op, cell))]
  /\ UNCHANGED kernel

Barrier(b) ==
  \E i \in Kinds(kernel, {"barrier"}) :
    /\ \A t \in Threads : Ahead(b, t) # {} /\ NextOf(b, t) = i
    /\ got' = [bt \in DOMAIN got |-> IF bt[1] = b THEN With(got[bt], i, 0) ELSE got[bt]]
    /\ UNCHANGED <<kernel, memory>>

Next == \E b \in Blocks : Barrier(b) \/ \E t \in Threads : Access(b, t)

\* No thread is left behind.
Spec == Init /\ [][Next]_launchVars /\ WF_launchVars(Next)
=============================================================================
