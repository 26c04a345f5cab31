---------------------------- MODULE Block_proofs -----------------------------
(***************************************************************************)
(* What a block of threads rests on, for every size of it.                 *)
(*                                                                         *)
(* Its threads on the ahead-of-time path, for every warp size and script,  *)
(* when the kernel keeps the contract of bar.sync: all threads of the      *)
(* block execute the same synchronising instructions, and the driver sized *)
(* the barrier for the whole block.                                        *)
(*                                                                         *)
(* Its scratchpad, whatever the number, the sizes and the alignments of    *)
(* the variables.  Disjoint is not inductive alone: a new variable is      *)
(* disjoint from the ones already laid out only because all of them end at *)
(* or before sharedSize, which is what InBounds adds.                      *)
(***************************************************************************)
EXTENDS AotBlock, SharedLayout, FiniteSetTheorems, TLAPS

-----------------------------------------------------------------------------
(* The threads.                                                            *)

\* The contract.
Uniform == /\ Count = N
           /\ \A s \in Scripts : \A t, u \in Threads : s[t] = s[u]

\* Who is at the barrier is told by the pc.
AtBarrier ==
  /\ inside \cap leaving = {}
  /\ \A t \in Threads :
       t \in inside \cup leaving <=> pc[t] \in {"bar", "first", "second"}

\* The pc matches the instruction, and a lane inside a collective has
\* published its data for it.
PcMatches ==
  \A t \in Threads :
    /\ pc[t] = "bar" => More(t) /\ Op(t) = "bar"
    /\ pc[t] \in {"published", "first", "reading", "second"} =>
         More(t) /\ Op(t) \in Collectives /\ slot[t][Op(t)] = pos[t]
    /\ pc[t] = "exited" => ~More(t)

\* The stretch of code between two synchronisations a thread is in: the
\* script position, and whether the first half of a collective is over.
GapPos(t) == IF t \in leaving /\ pc[t] \in {"bar", "second"} THEN pos[t] + 1
                                                             ELSE pos[t]
GapHalf(t) == IF \/ pc[t] = "reading"
                 \/ pc[t] = "first" /\ t \in leaving
                 \/ pc[t] = "second" /\ t \in inside
              THEN 1 ELSE 0

\* All threads are in the same one: this is what a barrier is for.
SameGap ==
  \A t, u \in Threads : /\ GapPos(t) = GapPos(u)
                        /\ GapHalf(t) = GapHalf(u)
                        /\ BarEpoch(t) = BarEpoch(u)

IInv == TypeOK /\ AtBarrier /\ PcMatches /\ SameGap

-----------------------------------------------------------------------------
LEMMA ScriptsAgree ==
  ASSUME Uniform, TypeOK, NEW t \in Threads, NEW u \in Threads
  PROVE  /\ script[t] = script[u]
         /\ script[t] \in Seq(Collectives \cup {"bar"})
         /\ Len(script[t]) \in Nat
<1>1. script \in [Threads -> Seq(Collectives \cup {"bar"})]
  BY ScriptAssumption DEF TypeOK
<1>2. script[t] \in Seq(Collectives \cup {"bar"})
  BY <1>1
<1>3. script[t] = script[u]
  BY DEF Uniform, TypeOK
<1> QED
  BY <1>2, <1>3

\* The barrier opens only when every thread of the block is inside it.
LEMMA EverybodyInside ==
  ASSUME Uniform, inside \subseteq Threads, Cardinality(inside) = Count
  PROVE  inside = Threads
<1>1. IsFiniteSet(Threads) /\ Cardinality(Threads) = N
  <2>1. 0 \in Int /\ N - 1 \in Int
    BY NAssumption
  <2> QED
    BY <2>1, FS_Interval, NAssumption DEF Threads
<1>2. Cardinality(Threads) = Cardinality(inside) => Threads = inside
  BY <1>1, FS_Subset
<1>3. Cardinality(inside) = N
  BY DEF Uniform
<1> QED
  BY <1>1, <1>2, <1>3

LEMMA InitInv == Init => IInv
<1> SUFFICES ASSUME Init PROVE IInv
  OBVIOUS
<1>1. TypeOK
  BY DEF Init, TypeOK, Labels
<1>2. AtBarrier /\ PcMatches
  BY DEF Init, AtBarrier, PcMatches
<1>3. SameGap
  BY DEF Init, SameGap, GapPos, GapHalf, BarEpoch
<1> QED
  BY <1>1, <1>2, <1>3 DEF IInv

-----------------------------------------------------------------------------
\* What opening the barrier finds: everybody is at the same place.
LEMMA OpenTogether ==
  ASSUME Uniform, IInv, Open
  PROVE  /\ inside = Threads /\ leaving = {}
         /\ inside' = {} /\ leaving' = Threads
         /\ UNCHANGED <<script, pos, pc, slot, unread, epoch>>
         /\ \A t, u \in Threads : pos[t] = pos[u] /\ pc[t] = pc[u]
         /\ \A t \in Threads : pc[t] \in {"bar", "first", "second"}
<1>1. inside = Threads
  BY EverybodyInside DEF Open, Trip, IInv, TypeOK
<1>2. leaving = {}
  BY <1>1 DEF IInv, AtBarrier, TypeOK
<1>3. /\ inside' = {} /\ leaving' = Threads
      /\ UNCHANGED <<script, pos, pc, slot, unread, epoch>>
  BY <1>1, <1>2 DEF Open, Trip
<1>4. \A t \in Threads : pc[t] \in {"bar", "first", "second"}
  BY <1>1 DEF IInv, AtBarrier
<1>5. ASSUME NEW t \in Threads, NEW u \in Threads
      PROVE  pos[t] = pos[u] /\ pc[t] = pc[u]
  <2>1. pos[t] = pos[u]
    BY <1>2 DEF IInv, SameGap, GapPos
  <2>2. Op(t) = Op(u)
    BY <2>1, ScriptsAgree DEF IInv, Op
  <2>3. \A v \in Threads : pc[v] = "bar" <=> Op(v) = "bar"
    BY <1>4 DEF IInv, PcMatches, Collectives
  <2>4. \A v \in Threads : pc[v] = "second" <=> pc[v] # "bar" /\ GapHalf(v) = 1
    BY <1>1, <1>2, <1>4 DEF GapHalf
  <2>5. GapHalf(t) = GapHalf(u)
    BY DEF IInv, SameGap
  <2> QED
    BY <1>4, <2>1, <2>2, <2>3, <2>4, <2>5
<1> QED
  BY <1>1, <1>2, <1>3, <1>4, <1>5

LEMMA OpenInv == Uniform /\ IInv /\ Open => IInv'
<1> SUFFICES ASSUME Uniform, IInv, Open PROVE IInv'
  OBVIOUS
<1>1. /\ inside = Threads /\ leaving = {}
      /\ inside' = {} /\ leaving' = Threads
      /\ UNCHANGED <<script, pos, pc, slot, unread, epoch>>
      /\ \A t, u \in Threads : pos[t] = pos[u] /\ pc[t] = pc[u]
      /\ \A t \in Threads : pc[t] \in {"bar", "first", "second"}
  BY OpenTogether
<1>2. TypeOK'
  BY <1>1 DEF IInv, TypeOK
<1>3. AtBarrier' /\ PcMatches'
  BY <1>1 DEF IInv, AtBarrier, PcMatches, More, Op
<1>4. SameGap'
  <2>1. \A t, u \in Threads : epoch[t] = epoch[u]
    BY <1>1 DEF IInv, SameGap, BarEpoch
  <2> SUFFICES ASSUME NEW t \in Threads, NEW u \in Threads
               PROVE  /\ GapPos(t)' = GapPos(u)'
                      /\ GapHalf(t)' = GapHalf(u)'
                      /\ BarEpoch(t)' = BarEpoch(u)'
    BY DEF SameGap
  <2>2. pos'[t] = pos'[u] /\ pc'[t] = pc'[u] /\ epoch'[t] = epoch'[u]
    BY <1>1, <2>1
  <2> QED
    BY <1>1, <2>2 DEF GapPos, GapHalf, BarEpoch
<1> QED
  BY <1>2, <1>3, <1>4 DEF IInv

\* A step of one lane leaves it in its stretch of code.
LEMMA LaneGap ==
  ASSUME IInv, NEW t \in Threads, Lane(t)
  PROVE  /\ TypeOK' /\ AtBarrier' /\ PcMatches'
         /\ \A u \in Threads : /\ GapPos(u)' = GapPos(u)
                               /\ GapHalf(u)' = GapHalf(u)
                               /\ BarEpoch(u)' = BarEpoch(u)
<1> USE DEF IInv, TypeOK, AtBarrier, PcMatches, Goto, More, Op, GapPos,
            GapHalf, BarEpoch, Labels, Enter, Leave
<1>1. CASE EnterBar(t)
  BY <1>1 DEF EnterBar
<1>2. CASE LeaveBar(t)
  BY <1>2 DEF LeaveBar
<1>3. CASE Publish(t)
  BY <1>3 DEF Publish
<1>4. CASE EnterFirst(t)
  BY <1>4 DEF EnterFirst
<1>5. CASE LeaveFirst(t)
  BY <1>5 DEF LeaveFirst, Warp
<1>6. CASE \E u \in Warp(t) : Read(t, u)
  BY <1>6 DEF Read
<1>7. CASE EnterSecond(t)
  BY <1>7 DEF EnterSecond
<1>8. CASE LeaveSecond(t)
  BY <1>8 DEF LeaveSecond
<1>9. CASE Return(t)
  BY <1>9 DEF Return
<1> QED
  BY <1>1, <1>2, <1>3, <1>4, <1>5, <1>6, <1>7, <1>8, <1>9 DEF Lane

LEMMA StepInv == Uniform /\ IInv /\ [Next]_vars => IInv'
<1> SUFFICES ASSUME Uniform, IInv, [Next]_vars PROVE IInv'
  OBVIOUS
<1>1. CASE Open
  BY <1>1, OpenInv
<1>2. ASSUME NEW t \in Threads, Lane(t) PROVE IInv'
  <2>1. TypeOK' /\ AtBarrier' /\ PcMatches'
    BY <1>2, LaneGap
  <2>2. SameGap'
    BY <1>2, LaneGap DEF IInv, SameGap
  <2> QED
    BY <2>1, <2>2 DEF IInv
<1>3. CASE UNCHANGED vars
  BY <1>3 DEF vars, IInv, TypeOK, AtBarrier, PcMatches, SameGap, GapPos,
              GapHalf, BarEpoch, More, Op
<1> QED
  BY <1>1, <1>2, <1>3 DEF Next

(* The invariant holds in every reachable state of a kernel that keeps the *)
(* contract of bar.sync.                                                   *)
THEOREM Invariance == ASSUME Uniform PROVE Spec => []IInv
<1>1. IInv /\ [Next]_vars => IInv'
  BY StepInv
<1> QED
  BY InitInv, <1>1, PTL DEF Spec

-----------------------------------------------------------------------------
(* Type correctness of the block's state.                                  *)
THEOREM TypeCorrect == ASSUME Uniform PROVE Spec => []TypeOK
<1>1. IInv => TypeOK
  BY DEF IInv
<1> QED
  BY Invariance, <1>1, PTL

(* A warp collective never reads a slot before its owner has published for *)
(* it, nor after the owner has gone on to publish for the next collective: *)
(* the two calls of __rouge_syncthreads in emit_mma and emit_matrix_move   *)
(* are enough, for every number of lanes and every sequence of             *)
(* collectives and bar.syncs.                                              *)
THEOREM CollectivesReadTheirOwn ==
  ASSUME Uniform PROVE Spec => []ReadsArePublished
<1>1. ASSUME IInv PROVE ReadsArePublished
  <2> SUFFICES ASSUME NEW t \in Threads, pc[t] = "reading",
                      NEW u \in Warp(t)
               PROVE  slot[u][Op(t)] = pos[t]
    BY DEF ReadsArePublished
  <2>1. u \in Threads
    BY DEF Warp
  <2>2. GapPos(u) = pos[t] /\ GapHalf(u) = 1
    <3>1. t \notin leaving
      BY <1>1 DEF IInv, AtBarrier
    <3>2. GapPos(t) = pos[t] /\ GapHalf(t) = 1
      BY <3>1 DEF GapPos, GapHalf
    <3> QED
      BY <1>1, <2>1, <3>2 DEF IInv, SameGap
  <2>3. pc[u] \in {"first", "reading", "second"} /\ pos[u] = pos[t]
    BY <1>1, <2>1, <2>2 DEF GapPos, GapHalf, IInv, AtBarrier
  <2>4. Op(u) = Op(t)
    BY <1>1, <2>1, <2>3, ScriptsAgree DEF IInv, Op
  <2> QED
    BY <1>1, <2>1, <2>3, <2>4 DEF IInv, PcMatches
<1>2. IInv => ReadsArePublished
  BY <1>1
<1> QED
  BY Invariance, <1>2, PTL

(* No two threads of the block that are still running are ever on          *)
(* different sides of a bar.sync, although the collectives pass through    *)
(* the same pthread barrier: a thread is never released by the barrier of  *)
(* another instruction than the one it waits at.                           *)
THEOREM BlockSynchronised == ASSUME Uniform PROVE Spec => []Synchronised
<1>1. IInv => Synchronised
  BY DEF IInv, SameGap, Synchronised, Barrier!Synchronised
<1> QED
  BY Invariance, <1>1, PTL

-----------------------------------------------------------------------------
LEMMA InitRefines == Init => Barrier!Init
BY DEF Init, Barrier!Init, BarState, BarEpoch

LEMMA LaneRefines ==
  ASSUME IInv, NEW t \in Threads, Lane(t)
  PROVE  [Barrier!Next]_(Barrier!vars)
<1> USE DEF BarState
<1>1. \A u \in Threads : BarEpoch(u)' = BarEpoch(u)
  BY LaneGap
<1>2. CASE EnterBar(t)
  <2>1. BarState(t) = "running" /\ BarState(t)' = "waiting"
    BY <1>2 DEF EnterBar, Goto, Enter, IInv, TypeOK
  <2>2. \A u \in Threads \ {t} : BarState(u)' = BarState(u)
    BY <1>2 DEF EnterBar, Goto, Enter, IInv, TypeOK
  <2>3. Barrier!Arrive(t)
    BY <1>1, <2>1, <2>2 DEF Barrier!Arrive
  <2> QED
    BY <2>3 DEF Barrier!Next, Barrier!Arrive
<1>3. CASE Return(t)
  <2>1. BarState(t) = "running" /\ BarState(t)' = "exited"
    BY <1>3 DEF Return, Goto, IInv, TypeOK
  <2>2. \A u \in Threads \ {t} : BarState(u)' = BarState(u)
    BY <1>3 DEF Return, Goto, IInv, TypeOK
  <2>3. Barrier!Exit(t)
    BY <1>1, <2>1, <2>2 DEF Barrier!Exit
  <2> QED
    BY <2>3 DEF Barrier!Next, Barrier!Exit
<1>4. CASE ~EnterBar(t) /\ ~Return(t)
  <2>1. \A u \in Threads : BarState(u)' = BarState(u)
    BY <1>4 DEF Lane, LeaveBar, Publish, EnterFirst, LeaveFirst, Read,
                EnterSecond, LeaveSecond, Goto, Enter, Leave,
                IInv, TypeOK, AtBarrier, Labels
  <2> QED
    BY <1>1, <2>1 DEF Barrier!vars
<1> QED
  BY <1>2, <1>3, <1>4

LEMMA OpenRefines ==
  ASSUME Uniform, IInv, Open
  PROVE  [Barrier!Next]_(Barrier!vars)
<1>1. /\ inside = Threads /\ leaving = {}
      /\ inside' = {} /\ leaving' = Threads
      /\ UNCHANGED <<script, pos, pc, slot, unread, epoch>>
      /\ \A t, u \in Threads : pos[t] = pos[u] /\ pc[t] = pc[u]
      /\ \A t \in Threads : pc[t] \in {"bar", "first", "second"}
  BY OpenTogether
<1>2. CASE \A t \in Threads : pc[t] = "bar"
  <2>1. \A t \in Threads : /\ BarState(t) = "waiting"
                           /\ BarState(t)' = "running"
                           /\ BarEpoch(t)' = BarEpoch(t) + 1
    BY <1>1, <1>2 DEF BarState, BarEpoch
  <2>2. \E t \in Threads : TRUE
    BY NAssumption DEF Threads
  <2>3. Barrier!Release
    BY <2>1, <2>2 DEF Barrier!Release
  <2> QED
    BY <2>3 DEF Barrier!Next
<1>3. CASE \A t \in Threads : pc[t] # "bar"
  <2>1. \A t \in Threads : /\ BarState(t)' = BarState(t)
                           /\ BarEpoch(t)' = BarEpoch(t)
    BY <1>1, <1>3 DEF BarState, BarEpoch
  <2> QED
    BY <2>1 DEF Barrier!vars
<1> QED
  BY <1>1, <1>2, <1>3

(* The ahead-of-time path implements the same block barrier as the         *)
(* interpreter: a collective's own synchronisations are invisible to the   *)
(* kernel's bar.sync.                                                      *)
THEOREM AotImplementsBarrier == ASSUME Uniform PROVE Spec => BarrierSpec
<1>1. IInv /\ [Next]_vars => [Barrier!Next]_(Barrier!vars)
  <2> SUFFICES ASSUME IInv, [Next]_vars
               PROVE  [Barrier!Next]_(Barrier!vars)
    OBVIOUS
  <2>1. CASE UNCHANGED vars
    <3>1. \A t \in Threads : /\ BarState(t)' = BarState(t)
                             /\ BarEpoch(t)' = BarEpoch(t)
      BY <2>1 DEF vars, BarState, BarEpoch
    <3> QED
      BY <3>1 DEF Barrier!vars
  <2>2. CASE Open
    BY <2>2, OpenRefines
  <2>3. CASE \E t \in Threads : Lane(t)
    BY <2>3, LaneRefines
  <2> QED
    BY <2>1, <2>2, <2>3 DEF Next
<1> QED
  BY InitRefines, <1>1, Invariance, PTL DEF Spec, BarrierSpec, Barrier!Spec

-----------------------------------------------------------------------------
(* The scratchpad.                                                         *)

\* align_up does not move down, and returns a multiple of the alignment.
LEMMA AlignUpIsAbove ==
  ASSUME NEW v \in Nat, NEW a \in Nat \ {0}
  PROVE  /\ AlignUp(v, a) \in Nat
         /\ v <= AlignUp(v, a)
         /\ \E k \in 0 .. AlignUp(v, a) : AlignUp(v, a) = k * a
<1> DEFINE x == v + a - 1
           q == x \div a
           r == x % a
<1>1. x \in Nat /\ a \in Int /\ a > 0
  OBVIOUS
<1>2. q \in Nat /\ r \in 0 .. (a - 1)
  BY <1>1
<1>3. x = a * q + r
  BY <1>1
<1> HIDE DEF q, r
<1>4. q * a = a * q /\ q * a \in Nat
  BY <1>1, <1>2
<1>5. v <= q * a
  BY <1>2, <1>3, <1>4 DEF x
<1>6. q <= q * a
  BY <1>1, <1>2
<1>7. AlignUp(v, a) = q * a
  BY DEF AlignUp, q, x
<1> QED
  BY <1>2, <1>4, <1>5, <1>6, <1>7

LayoutInvariant == LayoutTypeOK /\ Disjoint /\ InBounds

\* The lines of a module are lines.
LEMMA LinesOfIsSeq == \A m \in Modules : LinesOf(m) \in Seq(Lines)
  BY ModulesAssumption DEF LinesOf

LEMMA RestIsSeq ==
  ASSUME todo \in Seq(Lines), todo # <<>>, Head(todo) # <<>>
  PROVE  /\ Rest \in Seq(Lines)
         /\ Head(Head(todo)) \in Variables
<1>1. 1 \in DOMAIN todo /\ todo[1] = Head(todo)
  OBVIOUS
<1>2. todo[1] \in Seq(Variables)
  BY <1>1 DEF Lines
<1>3. Tail(todo[1]) \in Lines
  BY <1>1, <1>2 DEF Lines
<1>4. Rest \in Seq(Lines)
  BY <1>1, <1>3 DEF Rest
<1> QED
  BY <1>1, <1>2, <1>4

(* The layout invariant holds in every reachable state of the parser.      *)
THEOREM LayoutInvariance == LayoutSpec => []LayoutInvariant
<1>1. LayoutInit => LayoutInvariant
  BY LinesOfIsSeq DEF LayoutInit, LayoutInvariant, LayoutTypeOK, Disjoint, InBounds, Placed
<1>2. LayoutInvariant /\ [LayoutNext]_layoutVars => LayoutInvariant'
  <2> SUFFICES ASSUME LayoutInvariant, [LayoutNext]_layoutVars
               PROVE  LayoutInvariant'
    OBVIOUS
  <2> USE DEF LayoutInvariant
  <2>1. CASE Place
    <3> DEFINE v == Head(Head(todo))
               offset == AlignUp(sharedSize, v.align)
               new == [var |-> v, offset |-> offset]
    <3>1. v \in Variables /\ Rest \in Seq(Lines)
      BY <2>1, RestIsSeq DEF Place, LayoutTypeOK
    <3>2. /\ v.align \in Nat \ {0}
          /\ v.bytes \in Nat
          /\ sharedSize \in Nat
      BY <3>1 DEF Variables, LayoutTypeOK
    <3>3. /\ offset \in Nat
          /\ sharedSize <= offset
          /\ \E k \in 0 .. offset : offset = k * v.align
      BY <3>2, AlignUpIsAbove
    <3>4. /\ ~Known(v.name)
          /\ sharedVars' = sharedVars \cup {new}
          /\ sharedSize' = offset + v.bytes
          /\ todo' = Rest
          /\ module' = module
      BY <2>1 DEF Place
    <3>5. new \in Placed
      BY <3>1, <3>3 DEF Placed
    <3> HIDE DEF v, offset
    <3>6. new.var = v /\ new.offset = offset
      OBVIOUS
    <3> HIDE DEF new
    <3>7. LayoutTypeOK'
      BY <3>1, <3>2, <3>3, <3>4, <3>5 DEF LayoutTypeOK
    <3>8. \A s \in sharedVars : End(s) <= sharedSize /\ Aligned(s)
      BY DEF InBounds
    <3>9. \A s \in sharedVars : s.offset \in Nat /\ s.var.bytes \in Nat
                                /\ End(s) \in Nat
      BY DEF LayoutTypeOK, Placed, Variables, End
    <3>10. InBounds'
      <4> SUFFICES ASSUME NEW s \in sharedVars'
                   PROVE  End(s) <= sharedSize' /\ Aligned(s)
        BY DEF InBounds, End, Aligned
      <4>1. CASE s = new
        BY <4>1, <3>2, <3>3, <3>4, <3>6 DEF End, Aligned
      <4>2. CASE s \in sharedVars
        BY <4>2, <3>2, <3>3, <3>4, <3>8, <3>9
      <4> QED
        BY <4>1, <4>2, <3>4
    <3>11. Disjoint'
      <4>1. \A s \in sharedVars : s.var.name # v.name /\ End(s) <= offset
        BY <3>2, <3>3, <3>4, <3>8, <3>9 DEF Known
      <4> SUFFICES ASSUME NEW s \in sharedVars', NEW u \in sharedVars', s # u
                   PROVE  /\ s.var.name # u.var.name
                          /\ End(s) <= u.offset \/ End(u) <= s.offset
        BY DEF Disjoint, End
      <4>2. CASE s \in sharedVars /\ u \in sharedVars
        BY <4>2 DEF Disjoint
      <4>3. CASE s = new \/ u = new
        BY <4>1, <4>3, <3>4, <3>6
      <4> QED
        BY <4>2, <4>3, <3>4
    <3> QED
      BY <3>7, <3>10, <3>11
  <2>2. CASE PassOver
    <3>1. Rest \in Seq(Lines)
      BY <2>2, RestIsSeq DEF PassOver, LayoutTypeOK
    <3> QED
      BY <2>2, <3>1 DEF PassOver, LayoutTypeOK, Disjoint, InBounds
  <2>3. CASE EndLine
    <3>1. /\ sharedSize' \in Nat
          /\ sharedSize <= sharedSize'
      <4>1. sharedSize \in Nat /\ ScratchpadAlign \in Nat \ {0}
        BY DEF LayoutTypeOK, ScratchpadAlign
      <4> QED
        BY <4>1, <2>3, AlignUpIsAbove DEF EndLine
    <3>2. /\ todo' \in Seq(Lines)
          /\ sharedVars' = sharedVars
          /\ module' = module
      BY <2>3 DEF EndLine, LayoutTypeOK
    <3>3. LayoutTypeOK' /\ Disjoint'
      BY <3>1, <3>2 DEF LayoutTypeOK, Disjoint
    <3>4. \A s \in sharedVars : End(s) \in Nat
      BY DEF LayoutTypeOK, Placed, Variables, End
    <3>5. InBounds'
      <4> SUFFICES ASSUME NEW s \in sharedVars
                   PROVE  End(s) <= sharedSize' /\ Aligned(s)
        BY <3>2 DEF InBounds, End, Aligned
      <4> QED
        BY <3>1, <3>4 DEF InBounds, LayoutTypeOK
    <3> QED
      BY <3>3, <3>5
  <2>4. CASE UNCHANGED layoutVars
    BY <2>4 DEF layoutVars, LayoutTypeOK, Disjoint, InBounds
  <2> QED
    BY <2>1, <2>2, <2>3, <2>4 DEF LayoutNext
<1> QED
  BY <1>1, <1>2, PTL DEF LayoutSpec

(* The layout pass keeps its state well typed.                             *)
THEOREM LayoutTypeCorrect == LayoutSpec => []LayoutTypeOK
  BY LayoutInvariance, PTL DEF LayoutInvariant

(* Two .shared variables of a kernel never overlap, and no two share a     *)
(* name.                                                                   *)
THEOREM LayoutIsDisjoint == LayoutSpec => []Disjoint
  BY LayoutInvariance, PTL DEF LayoutInvariant

(* Every .shared variable lies in the scratchpad, aligned.                 *)
THEOREM LayoutIsInBounds == LayoutSpec => []InBounds
  BY LayoutInvariance, PTL DEF LayoutInvariant
=============================================================================
