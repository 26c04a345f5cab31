------------------------------ MODULE AotBlock ------------------------------
(***************************************************************************)
(* One block of a kernel on the ahead-of-time path: one OS thread per lane *)
(* runs the code LlvmGen (ptx_to_llvm.cpp) emitted, and the threads meet   *)
(* in __rouge_syncthreads (rouge_runtime.cpp).                             *)
(*                                                                         *)
(* Of a thread's code we keep the instructions that synchronise, in the    *)
(* order the thread executes them (its script):                            *)
(*   "bar"  bar.sync: one call of __rouge_syncthreads;                     *)
(*   "mma"  mma.sync: publish the A/B fragments in the thread's own        *)
(*          exchange slot, synchronise, read the slots of the warp's       *)
(*          lanes, synchronise again;                                      *)
(*   "ldm"  ldmatrix / stmatrix: the same with the row address.            *)
(* A thread whose script is used up returns.  A script shorter than the    *)
(* others is a thread that returned early.                                 *)
(*                                                                         *)
(* A slot has two fields, one per kind of collective; we record in each    *)
(* the script position whose data it holds.  epoch is a history variable:  *)
(* the bar.syncs a thread has come back from.  Count and the barrier's own *)
(* variables come from PthreadBarrier.                                     *)
(***************************************************************************)
EXTENDS PthreadBarrier, Sequences

CONSTANTS N,               \* threads of the block
          WarpSize,        \* 32 in the code
          Scripts          \* the assignments of scripts considered

Threads == 0 .. (N - 1)
Collectives == {"mma", "ldm"}

ASSUME NAssumption == N \in Nat \ {0}
ASSUME WarpAssumption == WarpSize \in Nat \ {0}
ASSUME CountAssumption == Count \in Nat \ {0}
ASSUME ScriptAssumption ==
         Scripts \subseteq [Threads -> Seq(Collectives \cup {"bar"})]

VARIABLES script,          \* chosen once
          pos,             \* index of the next instruction of the script
          pc,              \* what the thread is doing about it
          slot,            \* the exchange region
          unread,          \* lanes whose slot the thread has still to read
          epoch            \* history: bar.syncs crossed

vars == <<script, pos, pc, slot, unread, inside, leaving, epoch>>

Warp(t) == {u \in Threads : u \div WarpSize = t \div WarpSize}
Op(t) == script[t][pos[t]]
More(t) == pos[t] <= Len(script[t])

Init == /\ script \in Scripts
        /\ pos = [t \in Threads |-> 1]
        /\ pc = [t \in Threads |-> "ready"]
        /\ slot = [t \in Threads |-> [c \in Collectives |-> 0]]
        /\ unread = [t \in Threads |-> {}]
        /\ inside = {} /\ leaving = {}
        /\ epoch = [t \in Threads |-> 0]

-----------------------------------------------------------------------------
Goto(t, label) == pc' = [pc EXCEPT ![t] = label]

\* Mutant of EnterBar: lane 0's descriptor has no barrier handle.
EnterBarNoHandle(t) ==
  /\ pc[t] = "ready" /\ More(t) /\ Op(t) = "bar"
  /\ IF t = 0 THEN /\ pos' = [pos EXCEPT ![t] = @ + 1]
                   /\ epoch' = [epoch EXCEPT ![t] = @ + 1]
                   /\ UNCHANGED <<pc, inside, leaving>>
              ELSE /\ Goto(t, "bar")
                   /\ Enter(t)
                   /\ UNCHANGED <<pos, epoch>>
  /\ UNCHANGED <<script, slot, unread>>

\* call void @__rouge_syncthreads: wait at the block's barrier.
EnterBar(t) ==
  /\ pc[t] = "ready" /\ More(t) /\ Op(t) = "bar"
  /\ Goto(t, "bar")
  /\ Enter(t)
  /\ UNCHANGED <<script, pos, slot, unread, epoch>>

\* Mutant of LeaveBar: the lane goes back instead of on.
LeaveBarBackwards(t) ==
  /\ pc[t] = "bar"
  /\ Leave(t)
  /\ Goto(t, "ready")
  /\ pos' = [pos EXCEPT ![t] = @ - 1]
  /\ epoch' = [epoch EXCEPT ![t] = @ + 1]
  /\ UNCHANGED <<script, slot, unread>>

LeaveBar(t) ==
  /\ pc[t] = "bar"
  /\ Leave(t)
  /\ Goto(t, "ready")
  /\ pos' = [pos EXCEPT ![t] = @ + 1]
  /\ epoch' = [epoch EXCEPT ![t] = @ + 1]
  /\ UNCHANGED <<script, slot, unread>>

\* A collective begins: store this lane's data in its own slot.
Publish(t) ==
  /\ pc[t] = "ready" /\ More(t) /\ Op(t) \in Collectives
  /\ slot' = [slot EXCEPT ![t][Op(t)] = pos[t]]
  /\ Goto(t, "published")
  /\ UNCHANGED <<script, pos, unread, inside, leaving, epoch>>

EnterFirst(t) ==
  /\ pc[t] = "published"
  /\ Goto(t, "first")
  /\ Enter(t)
  /\ UNCHANGED <<script, pos, slot, unread, epoch>>

LeaveFirst(t) ==
  /\ pc[t] = "first"
  /\ Leave(t)
  /\ Goto(t, "reading")
  /\ unread' = [unread EXCEPT ![t] = Warp(t)]
  /\ UNCHANGED <<script, pos, slot, epoch>>

Read(t, u) ==
  /\ pc[t] = "reading"
  /\ u \in unread[t]
  /\ unread' = [unread EXCEPT ![t] = @ \ {u}]
  /\ UNCHANGED <<script, pos, pc, slot, inside, leaving, epoch>>

\* Mutant of EnterSecond: the collective has no second barrier.
EnterSecondMissing(t) ==
  /\ pc[t] = "reading" /\ unread[t] = {}
  /\ Goto(t, "ready")
  /\ pos' = [pos EXCEPT ![t] = @ + 1]
  /\ UNCHANGED <<script, slot, unread, inside, leaving, epoch>>

EnterSecond(t) ==
  /\ pc[t] = "reading" /\ unread[t] = {}
  /\ Goto(t, "second")
  /\ Enter(t)
  /\ UNCHANGED <<script, pos, slot, unread, epoch>>

LeaveSecond(t) ==
  /\ pc[t] = "second"
  /\ Leave(t)
  /\ Goto(t, "ready")
  /\ pos' = [pos EXCEPT ![t] = @ + 1]
  /\ UNCHANGED <<script, slot, unread, epoch>>

\* ret void: the OS thread ends.
Return(t) ==
  /\ pc[t] = "ready" /\ ~More(t)
  /\ Goto(t, "exited")
  /\ UNCHANGED <<script, pos, slot, unread, inside, leaving, epoch>>

\* The barrier opens.
Open ==
  /\ Trip
  /\ UNCHANGED <<script, pos, pc, slot, unread, epoch>>

Lane(t) == \/ EnterBar(t) \/ LeaveBar(t)
           \/ Publish(t) \/ EnterFirst(t) \/ LeaveFirst(t)
           \/ \E u \in Warp(t) : Read(t, u)
           \/ EnterSecond(t) \/ LeaveSecond(t)
           \/ Return(t)

Next == Open \/ \E t \in Threads : Lane(t)

Spec == Init /\ [][Next]_vars

\* The operating system runs every thread and the barrier wakes its waiters.
FairSpec == Spec /\ WF_vars(Open) /\ \A t \in Threads : WF_vars(Lane(t))

-----------------------------------------------------------------------------
Labels == {"ready", "bar", "published", "first", "reading", "second", "exited"}

TypeOK ==
  /\ script \in Scripts
  /\ pos \in [Threads -> Nat \ {0}]
  /\ pc \in [Threads -> Labels]
  /\ slot \in [Threads -> [Collectives -> Nat]]
  /\ unread \in [Threads -> SUBSET Threads]
  /\ inside \subseteq Threads
  /\ leaving \subseteq Threads
  /\ epoch \in [Threads -> Nat]

(* A lane in the middle of a collective finds in every slot of its warp    *)
(* the data its owner published for this very collective: not yet nothing, *)
(* and not already the data of the next one.                               *)
ReadsArePublished ==
  \A t \in Threads : pc[t] = "reading" =>
    \A u \in Warp(t) : slot[u][Op(t)] = pos[t]

(* Every thread of the block returns.                                      *)
EveryThreadReturns == \A t \in Threads : <>(pc[t] = "exited")

-----------------------------------------------------------------------------
(* The block as its kernel sees it: a thread waits from its call of        *)
(* bar.sync until the barrier opens; a thread that was released but has    *)
(* not woken up is past the barrier.                                       *)
BarState(t) == IF pc[t] = "exited" THEN "exited"
               ELSE IF pc[t] = "bar" /\ t \in inside THEN "waiting"
               ELSE "running"

BarEpoch(t) == IF pc[t] = "bar" /\ t \in leaving THEN epoch[t] + 1
                                                 ELSE epoch[t]

Barrier == INSTANCE BlockBarrier
             WITH state <- [t \in Threads |-> BarState(t)],
                  epoch <- [t \in Threads |-> BarEpoch(t)]

BarrierSpec == Barrier!Spec
Synchronised == Barrier!Synchronised

-----------------------------------------------------------------------------
\* Families of scripts.
AllThreads(s) == [t \in Threads |-> s]

\* Every thread executes the same synchronising instructions: what the
\* programming model asks of bar.sync, and what the kernels of the test
\* suite do.
UniformScripts ==
  {AllThreads(s) : s \in {<<"mma", "mma">>, <<"mma", "ldm", "bar">>,
                          <<"bar", "mma", "bar">>, <<"bar", "bar">>}}

\* Only the first warp executes a collective; all execute the bar.sync.
WarpSpecialisedScripts ==
  {[t \in Threads |-> IF t < WarpSize THEN <<"mma", "bar">> ELSE <<"bar">>]}

=============================================================================
