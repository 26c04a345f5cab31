---------------------------- MODULE CtaScheduler ----------------------------
(***************************************************************************)
(* The interpreter's CTA scheduler: the block loop of execute_kernel       *)
(* (rouge-ptx/ptx.cpp).                                                    *)
(*                                                                         *)
(* Blocks of the grid run one after the other.  In a block, rounds follow  *)
(* each other: a round visits threads 0 .. N-1 in order, skips those that  *)
(* have exited or are parked at a barrier, and steps each of the others by *)
(* one instruction.  The result of run_thread_step decides what happens to *)
(* the thread: 1 advanced, 2 parked at a barrier, 3 finished, 0 error.     *)
(* Here the result is any of the four, so what is shown of the scheduler   *)
(* holds for every kernel.                                                 *)
(*                                                                         *)
(* i is the loop index of the round (i = N: the round is over), anyAlive   *)
(* the flag "some thread was stepped in this round", steps the budget      *)
(* counter of the block.  epoch is a history variable, read by no action:  *)
(* how many barriers each thread of the current block has crossed.         *)
(***************************************************************************)
EXTENDS Naturals

CONSTANTS N,               \* threadsPerBlock
          Blocks,          \* gx * gy * gz
          MaxSteps         \* kMaxSteps

ASSUME NAssumption == N \in Nat
ASSUME BlocksAssumption == Blocks \in Nat
ASSUME MaxStepsAssumption == MaxSteps \in Nat

Threads == 0 .. (N - 1)

VARIABLES block,           \* index of the block being run
          alive,           \* its threads that have not exited
          blocked,         \* its threads parked at a barrier
          i, anyAlive,     \* the round in progress
          steps,           \* instructions the block has executed
          status,          \* "running", "done" (returned true) or "failed"
          epoch            \* history: barriers crossed, per thread

vars == <<block, alive, blocked, i, anyAlive, steps, status, epoch>>

Init == /\ block = 0
        /\ alive = Threads
        /\ blocked = {}
        /\ i = 0 /\ anyAlive = FALSE
        /\ steps = 0
        /\ status = IF Blocks = 0 THEN "done" ELSE "running"
        /\ epoch = [t \in Threads |-> 0]

-----------------------------------------------------------------------------
Runnable(t) == t \in alive \ blocked

\* Mutant of Skip: the loop runs one thread too far.
SkipPastEnd ==
  /\ status = "running" /\ i <= N
  /\ ~Runnable(i)
  /\ i' = i + 1
  /\ UNCHANGED <<block, alive, blocked, anyAlive, steps, status, epoch>>

\* The loop body skips a thread that has exited or is parked.
Skip ==
  /\ status = "running" /\ i < N
  /\ ~Runnable(i)
  /\ i' = i + 1
  /\ UNCHANGED <<block, alive, blocked, anyAlive, steps, status, epoch>>

\* Mutant of Step: the instruction is not counted.
StepUncounted ==
  /\ status = "running" /\ i < N
  /\ Runnable(i)
  /\ steps < MaxSteps
  /\ UNCHANGED steps
  /\ anyAlive' = TRUE

\* ++steps, within the budget: what every step below starts with.
Step ==
  /\ status = "running" /\ i < N
  /\ Runnable(i)
  /\ steps < MaxSteps
  /\ steps' = steps + 1
  /\ anyAlive' = TRUE

Advance ==                                          \* rc = 1
  /\ Step
  /\ i' = i + 1
  /\ UNCHANGED <<block, alive, blocked, status, epoch>>

Park ==                                             \* rc = 2
  /\ Step
  /\ i' = i + 1
  /\ blocked' = blocked \cup {i}
  /\ UNCHANGED <<block, alive, status, epoch>>

Finish ==                                           \* rc = 3
  /\ Step
  /\ i' = i + 1
  /\ alive' = alive \ {i}
  /\ UNCHANGED <<block, blocked, status, epoch>>

Fault ==                                            \* rc = 0
  /\ Step
  /\ status' = "failed"
  /\ UNCHANGED <<block, alive, blocked, i, epoch>>

\* The budget of the block is used up: the launch is abandoned.
OutOfSteps ==
  /\ status = "running" /\ i < N
  /\ Runnable(i)
  /\ steps >= MaxSteps
  /\ steps' = steps + 1
  /\ anyAlive' = TRUE
  /\ status' = "failed"
  /\ UNCHANGED <<block, alive, blocked, i, epoch>>

-----------------------------------------------------------------------------
\* Mutants of AllBlocked: exited threads count; one parked thread is enough.
AllBlockedCountingExited == Threads \subseteq blocked
AllBlockedByAny == \E t \in alive : t \in blocked

AllBlocked == alive \subseteq blocked

\* End of a round in which something ran: open the barrier if every thread
\* still alive is parked, and start the next round.
NextRound ==
  /\ status = "running" /\ i = N /\ anyAlive
  /\ i' = 0 /\ anyAlive' = FALSE
  /\ IF AllBlocked
       THEN /\ blocked' = {}
            /\ epoch' = [t \in Threads |-> IF t \in blocked THEN epoch[t] + 1
                                                            ELSE epoch[t]]
       ELSE UNCHANGED <<blocked, epoch>>
  /\ UNCHANGED <<block, alive, steps, status>>

\* End of a round in which nothing ran: the block is over.  The next block
\* gets fresh thread states and a fresh budget; after the last one the
\* launch has succeeded.
EndBlock ==
  /\ status = "running" /\ i = N /\ ~anyAlive
  /\ block' = block + 1
  /\ IF block + 1 < Blocks
       THEN /\ alive' = Threads
            /\ blocked' = {}
            /\ i' = 0 /\ steps' = 0
            /\ epoch' = [t \in Threads |-> 0]
            /\ UNCHANGED status
       ELSE /\ status' = "done"
            /\ UNCHANGED <<alive, blocked, i, steps, epoch>>
  /\ UNCHANGED anyAlive

Next == \/ Skip \/ Advance \/ Park \/ Finish \/ Fault \/ OutOfSteps
        \/ NextRound \/ EndBlock

Spec == Init /\ [][Next]_vars

\* The scheduler is a loop of one host thread: it keeps going while it can.
FairSpec == Spec /\ WF_vars(Next)

-----------------------------------------------------------------------------
TypeOK ==
  /\ block \in Nat
  /\ alive \subseteq Threads
  /\ blocked \subseteq Threads
  /\ i \in 0 .. N
  /\ anyAlive \in BOOLEAN
  /\ steps \in Nat
  /\ status \in {"running", "done", "failed"}
  /\ epoch \in [Threads -> Nat]

(* A launch that reports success has run every thread of the last block to *)
(* its ret: the "nobody was stepped" test never mistakes a block whose     *)
(* threads are all parked at a barrier for a finished one.                 *)
SuccessMeansFinished ==
  (status = "done" /\ Blocks > 0) => alive = {}

(* Going on to the next block never abandons a thread of the current one.  *)
NoThreadAbandoned ==
  [][block' # block => alive = {}]_vars

(* Whenever the scheduler is between two rounds of a running block, some   *)
(* thread can be stepped unless all have exited: the barrier never leaves  *)
(* the block with everybody parked.                                        *)
SomeoneCanRun ==
  (status = "running" /\ i = 0 /\ alive # {}) => \E t \in Threads : Runnable(t)

(* The step cap makes every launch return, whatever the kernel does.       *)
LaunchReturns == <>(status # "running")

(* A thread parked at a barrier is released, unless the launch fails.      *)
ParkedIsReleased ==
  \A t \in Threads : t \in blocked ~> (t \notin blocked \/ status = "failed")

-----------------------------------------------------------------------------
(* The scheduler implements the barrier the threads rely on.               *)
ThreadState(t) == IF t \notin alive THEN "exited"
                  ELSE IF t \in blocked THEN "waiting" ELSE "running"

Barrier == INSTANCE BlockBarrier
             WITH state <- [t \in Threads |-> ThreadState(t)]

BarrierSpec == Barrier!Spec
Synchronised == Barrier!Synchronised
NoRunAhead == Barrier!NoRunAhead

=============================================================================
