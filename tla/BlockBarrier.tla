---------------------------- MODULE BlockBarrier ----------------------------
(***************************************************************************)
(* What a block-wide barrier ("bar.sync") promises to the threads of one   *)
(* CTA, whichever execution path runs the kernel.                          *)
(*                                                                         *)
(* A thread runs, waits at a barrier, or has exited (ret / exit).  The     *)
(* barrier opens only when no thread of the block is still running: every  *)
(* thread that has not exited is waiting.  Threads that exited do not      *)
(* count.  When all threads of a block have exited the next block of the   *)
(* grid may start, with fresh threads.                                     *)
(*                                                                         *)
(* The interpreter's CTA scheduler (CtaScheduler) and the ahead-of-time    *)
(* path on one OS thread per lane (AotBlock) are both shown to implement   *)
(* this specification.                                                     *)
(***************************************************************************)
EXTENDS Naturals

CONSTANT Threads           \* the threads of one block

VARIABLES state,           \* "running", "waiting" or "exited", per thread
          epoch            \* how many barriers each thread has crossed

vars == <<state, epoch>>

Init == /\ state = [t \in Threads |-> "running"]
        /\ epoch = [t \in Threads |-> 0]

Arrive(t) == /\ state[t] = "running"
             /\ state' = [state EXCEPT ![t] = "waiting"]
             /\ UNCHANGED epoch

Exit(t) == /\ state[t] = "running"
           /\ state' = [state EXCEPT ![t] = "exited"]
           /\ UNCHANGED epoch

\* The barrier opens for everyone who waits at it, at once.
Release ==
  /\ \E t \in Threads : state[t] = "waiting"
  /\ \A t \in Threads : state[t] # "running"
  /\ state' = [t \in Threads |-> IF state[t] = "waiting" THEN "running"
                                                         ELSE state[t]]
  /\ epoch' = [t \in Threads |-> IF state[t] = "waiting" THEN epoch[t] + 1
                                                         ELSE epoch[t]]

NextBlock ==
  /\ \A t \in Threads : state[t] = "exited"
  /\ state' = [t \in Threads |-> "running"]
  /\ epoch' = [t \in Threads |-> 0]

Next == \/ \E t \in Threads : Arrive(t) \/ Exit(t)
        \/ Release
        \/ NextBlock

Spec == Init /\ [][Next]_vars

-----------------------------------------------------------------------------
TypeOK == /\ state \in [Threads -> {"running", "waiting", "exited"}]
          /\ epoch \in [Threads -> Nat]

(* No two threads of a block that are still alive are ever on different    *)
(* sides of a barrier: what one of them wrote before its n-th bar.sync was *)
(* written before the other one executes anything after its own n-th.      *)
Synchronised ==
  \A t, u \in Threads :
    (state[t] # "exited" /\ state[u] # "exited") => epoch[t] = epoch[u]

(* A thread that exited did so at or before the barrier the survivors have *)
(* reached: nobody runs ahead of the block and exits there.                *)
NoRunAhead ==
  \A t, u \in Threads : state[u] # "exited" => epoch[t] <= epoch[u]

=============================================================================
