--------------------------- MODULE PthreadBarrier ---------------------------
(***************************************************************************)
(* The POSIX barrier that __rouge_syncthreads calls on the host (external  *)
(* to the repository): it was initialised with a count, opens when that    *)
(* many threads wait at it, and is at once ready for the next generation,  *)
(* whether or not the released threads have woken up yet.                  *)
(***************************************************************************)
EXTENDS FiniteSets, Naturals

CONSTANT Count             \* the count given to pthread_barrier_init

VARIABLES inside,          \* threads waiting in the current generation
          leaving          \* released threads that have not returned yet

Enter(t) == /\ inside' = inside \cup {t}
            /\ UNCHANGED leaving

Trip == /\ Cardinality(inside) = Count
        /\ leaving' = leaving \cup inside
        /\ inside' = {}

Leave(t) == /\ t \in leaving
            /\ leaving' = leaving \ {t}
            /\ UNCHANGED inside

=============================================================================
