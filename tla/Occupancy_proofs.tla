--------------------------- MODULE Occupancy_proofs ---------------------------
(***************************************************************************)
(* First the register estimate by itself: it computes the least solution   *)
(* of the data-flow equations.  Then the same analysis under the queries   *)
(* of the occupancy calculator, and the calculator's own search and grant, *)
(* for every kernel, limit and callback.                                   *)
(***************************************************************************)
EXTENDS Occupancy, FiniteSetTheorems, WellFoundedInduction, TLAPS

USE DEF Positions

Flows == [Positions -> SUBSET Regs]

\* Instructions of a body use and write declared registers.
LEMMA OperandTypes ==
  ASSUME body \in Bodies, NEW i \in Positions
  PROVE  Uses(body[i]) \subseteq Regs /\ Defs(body[i]) \subseteq Regs
<1>1. body[i] \in Instructions
  BY BodyAssumption
<1>2. body[i].first \subseteq Regs /\ body[i].rest \subseteq Regs
  BY <1>1 DEF Instructions
<1> QED BY <1>2 DEF Uses, Defs

LEMMA PressureTypeInit == PressureInit => PressureTypeOK
<1> SUFFICES ASSUME PressureInit PROVE PressureTypeOK
  OBVIOUS
<1>1. Len(body) \in Nat
  BY BodyAssumption DEF PressureInit
<1> QED BY <1>1, PassAssumption DEF PressureInit, PressureTypeOK

LEMMA PressureTypeStep ==
  PressureTypeOK /\ [PressureNext]_pressureVars => PressureTypeOK'
<1> SUFFICES ASSUME PressureTypeOK, [PressureNext]_pressureVars
             PROVE  PressureTypeOK'
  OBVIOUS
<1>1. Len(body) \in Nat /\ Positions = 1 .. Len(body)
  BY BodyAssumption DEF PressureTypeOK
<1>2. CASE Visit
  <2>1. at \in Positions /\ at - 1 \in 0 .. Len(body)
    BY <1>1, <1>2 DEF Visit, PressureTypeOK
  <2>2. OutOf(at, liveIn) \subseteq Regs
    BY DEF OutOf, Succ, PressureTypeOK
  <2>3. liveOut' \in Flows
    BY <1>2, <2>1, <2>2 DEF Visit, PressureTypeOK, Flows
  <2>4. InOf(at, liveOut'[at]) \subseteq Regs
    BY <2>1, <2>3, OperandTypes DEF InOf, PressureTypeOK, Flows
  <2>5. liveIn' \in Flows
    BY <1>2, <2>1, <2>4 DEF Visit, PressureTypeOK, Flows
  <2> QED BY <1>2, <2>1, <2>3, <2>5 DEF Visit, PressureTypeOK, Flows
<1>3. CASE NextPass
  BY <1>1, <1>3, PassAssumption DEF NextPass, Again, PressureTypeOK
<1>4. CASE Count
  BY <1>4 DEF Count, flowVars, PressureTypeOK
<1>5. CASE UNCHANGED pressureVars
  BY <1>5 DEF pressureVars, flowVars, PressureTypeOK
<1> QED BY <1>2, <1>3, <1>4, <1>5 DEF PressureNext

\* The passes keep their state well typed.
THEOREM PressureTypeCorrect == PressureSpec => []PressureTypeOK
  BY PressureTypeInit, PressureTypeStep, PTL DEF PressureSpec

-----------------------------------------------------------------------------
\* The equations of one instruction.
Holds(i) == liveOut[i] = OutOf(i, liveIn) /\ liveIn[i] = InOf(i, liveOut[i])

\* Inductive strengthening of Solved: sets never exceed what the equations
\* give them, and a pass without a change so far has left the instructions
\* it has visited solved.
Justified == \A i \in Positions : /\ liveOut[i] \subseteq OutOf(i, liveIn)
                                  /\ liveIn[i] \subseteq InOf(i, liveOut[i])
Behind == (stage = "flow" /\ changes = {}) => \A i \in Positions : i > at => Holds(i)
SolvedInv == PressureTypeOK /\ Justified /\ Behind

LEMMA SolvedInit == PressureInit => Justified /\ Behind
<1> SUFFICES ASSUME PressureInit PROVE Justified /\ Behind
  OBVIOUS
<1>1. Len(body) \in Nat /\ Positions = 1 .. Len(body)
  BY BodyAssumption DEF PressureInit
<1> QED BY <1>1 DEF PressureInit, Justified, Behind

LEMMA SolvedStep ==
  SolvedInv /\ [PressureNext]_pressureVars => (Justified /\ Behind)'
<1> SUFFICES ASSUME SolvedInv, [PressureNext]_pressureVars
             PROVE  (Justified /\ Behind)'
  OBVIOUS
<1> USE DEF SolvedInv
<1>1. Len(body) \in Nat /\ Positions = 1 .. Len(body)
  BY BodyAssumption DEF PressureTypeOK
<1>2. CASE Visit
  <2>0. at \in Positions /\ stage = "flow" /\ stage' = stage /\ body' = body
        /\ Positions' = Positions /\ at' = at - 1
    BY <1>1, <1>2 DEF Visit, PressureTypeOK
  <2>1. \A i \in Positions : liveIn[i] \subseteq liveIn'[i] /\ liveOut[i] \subseteq liveOut'[i]
    BY <1>2 DEF Visit, PressureTypeOK
  <2>2. \A i \in Positions : OutOf(i, liveIn) \subseteq OutOf(i, liveIn')
    BY <2>1 DEF OutOf, Succ
  <2>3. \A i \in Positions : OutOf(i, liveIn)' = OutOf(i, liveIn')
    BY <2>0 DEF OutOf, Succ
  <2>4. \A i \in Positions : InOf(i, liveOut[i]) \subseteq InOf(i, liveOut'[i])
    BY <2>1 DEF InOf
  <2>5. \A i \in Positions : i # at =>
          liveIn'[i] = liveIn[i] /\ liveOut'[i] = liveOut[i]
    BY <1>2 DEF Visit, PressureTypeOK
  <2>6. liveOut'[at] = liveOut[at] \cup OutOf(at, liveIn)
    BY <1>2, <2>0 DEF Visit, PressureTypeOK
  <2>7. liveIn'[at] = liveIn[at] \cup InOf(at, liveOut'[at])
    BY <1>2, <2>0 DEF Visit, PressureTypeOK
  <2>8. \A i \in Positions : InOf(i, liveOut[i])' = InOf(i, liveOut'[i])
    BY <2>0 DEF InOf
  <2>9. Justified'
    <3> SUFFICES ASSUME NEW i \in Positions
                 PROVE  /\ liveOut'[i] \subseteq OutOf(i, liveIn')
                        /\ liveIn'[i] \subseteq InOf(i, liveOut'[i])
      BY <2>0, <2>3, <2>8 DEF Justified
    <3>1. CASE i = at
      BY <3>1, <2>2, <2>4, <2>6, <2>7 DEF Justified
    <3>2. CASE i # at
      BY <3>2, <2>2, <2>4, <2>5 DEF Justified
    <3> QED BY <3>1, <3>2
  <2>10. Behind'
    <3> SUFFICES ASSUME changes' = {}, NEW i \in Positions, i > at - 1 PROVE Holds(i)'
      BY <2>0 DEF Behind
    <3>1. changes = {} /\ liveIn' = liveIn /\ liveOut' = liveOut
      BY <1>2 DEF Visit
    <3>2. Holds(i)' = Holds(i)
      BY <2>0, <3>1 DEF Holds, OutOf, InOf, Succ
    <3>3. CASE i = at
      BY <3>1, <3>2, <3>3, <2>6, <2>7 DEF Justified, Holds
    <3>4. CASE i # at
      <4>1. i > at
        BY <1>1, <3>4 DEF PressureTypeOK
      <4> QED BY <2>0, <3>1, <3>2, <4>1 DEF Behind
    <3> QED BY <3>3, <3>4
  <2> QED BY <2>9, <2>10
<1>3. CASE NextPass
  <2>1. /\ Positions' = Positions /\ body' = body /\ liveIn' = liveIn /\ liveOut' = liveOut
        /\ at' = Len(body)
    BY <1>3 DEF NextPass
  <2>2. Justified'
    BY <2>1 DEF Justified, OutOf, InOf, Succ
  <2> QED BY <1>1, <2>1, <2>2 DEF Behind
<1>4. CASE Count
  BY <1>4 DEF Count, flowVars, Justified, Behind, OutOf, InOf, Succ, Positions, Holds
<1>5. CASE UNCHANGED pressureVars
  BY <1>5 DEF pressureVars, flowVars, Justified, Behind, OutOf, InOf, Succ, Positions, Holds
<1> QED BY <1>2, <1>3, <1>4, <1>5 DEF PressureNext

LEMMA SolvedInvSuffices == SolvedInv => Solved
  BY DEF SolvedInv, Behind, Solved, Equations, Holds, PressureTypeOK

-----------------------------------------------------------------------------
\* No register is taken for live that some solution of the equations leaves
\* out: with AnalysisSolves, the estimate is computed from the least solution.
THEOREM AnalysisIsLeast == PressureSpec => []BelowEverySolution
<1>1. PressureInit => BelowEverySolution
  BY DEF PressureInit, BelowEverySolution
<1>2. PressureTypeOK /\ BelowEverySolution /\ [PressureNext]_pressureVars
        => BelowEverySolution'
  <2> SUFFICES ASSUME PressureTypeOK, BelowEverySolution, [PressureNext]_pressureVars
               PROVE  BelowEverySolution'
    OBVIOUS
  <2>1. body' = body
    BY DEF PressureNext, Visit, NextPass, Count, pressureVars
  <2>2. \A in, out : Equations(in, out)' = Equations(in, out)
    BY <2>1 DEF Equations, OutOf, InOf, Succ
  <2>3. CASE liveIn' = liveIn /\ liveOut' = liveOut
    BY <2>1, <2>2, <2>3 DEF BelowEverySolution
  <2>4. CASE Visit
    <3> SUFFICES ASSUME NEW in \in Flows, NEW out \in Flows, Equations(in, out),
                        NEW i \in Positions
                 PROVE  liveIn'[i] \subseteq in[i] /\ liveOut'[i] \subseteq out[i]
      BY <2>1, <2>2 DEF BelowEverySolution, Flows
    <3>1. \A j \in Positions : liveIn[j] \subseteq in[j] /\ liveOut[j] \subseteq out[j]
      BY DEF BelowEverySolution, Flows
    <3>2. CASE i # at
      BY <2>4, <3>1, <3>2 DEF Visit, PressureTypeOK
    <3>3. CASE i = at
      <4>1. liveOut'[i] = liveOut[i] \cup OutOf(i, liveIn)
        BY <2>4, <3>3 DEF Visit, PressureTypeOK
      <4>2. liveIn'[i] = liveIn[i] \cup InOf(i, liveOut'[i])
        BY <2>4, <3>3 DEF Visit, PressureTypeOK
      <4>3. OutOf(i, liveIn) \subseteq out[i]
        BY <3>1 DEF Equations, OutOf, Succ
      <4>4. liveOut'[i] \subseteq out[i]
        BY <3>1, <4>1, <4>3
      <4>5. InOf(i, liveOut'[i]) \subseteq in[i]
        BY <4>4 DEF Equations, InOf
      <4> QED BY <3>1, <4>2, <4>4, <4>5
    <3> QED BY <3>2, <3>3
  <2> QED BY <2>3, <2>4 DEF PressureNext, NextPass, Count, pressureVars, flowVars
<1> QED BY <1>1, <1>2, PressureTypeCorrect, PTL DEF PressureSpec

-----------------------------------------------------------------------------
(***************************************************************************)
(* How many passes there are.  Every register found live behind an         *)
(* instruction was found in some pass, its level.  A register has a level  *)
(* above one only because a jump back brought it there: what a later       *)
(* instruction lets live is seen in the same pass.                         *)
(***************************************************************************)
Levels == [Positions -> [Regs -> Nat]]

\* The pass in which r, live before instruction i, was found to be.
InLevel(q, i, r) == IF r \in Uses(body[i]) THEN 1 ELSE q[i][r]

LevelsFit(q) ==
  \A i \in Positions : \A r \in Regs :
    q[i][r] \in 0 .. pass /\ (q[i][r] # 0 <=> r \in liveOut[i])

\* A register of some level has every lower one behind some jump back.
Inherited(q) ==
  \A i \in Positions : \A r \in Regs : \A k \in 2 .. q[i][r] :
    \E e \in Jumps : q[e[1]][r] = k

\* Instruction i has been visited in pass k.
Visited(i, k) == pass > k \/ (pass = k /\ at < i)

\* A register live before s is live behind its predecessor i after the next
\* visit to i: in the same pass, unless i jumps back to s.
Prompt(q) ==
  \A i \in Positions : \A s \in Succ(i) : \A r \in liveIn[s] :
    LET k == InLevel(q, s, r)
    IN  Visited(i, k + 1) \/ (s > i /\ Visited(i, k)) => r \in liveOut[i]

Noted(q) == changes # {} => \/ pass = 1
                            \/ \E i \in Positions : \E r \in Regs : q[i][r] = pass

Dated(q) == LevelsFit(q) /\ Inherited(q) /\ Prompt(q) /\ Noted(q)

\* What the first pass leaves behind, and every visit.
Collected ==
  \A i \in Positions :
    /\ (pass > 1 \/ i > at) => Uses(body[i]) \subseteq liveIn[i]
    /\ liveOut[i] \ Defs(body[i]) \subseteq liveIn[i]

PassInv == SolvedInv /\ Collected /\ FewPasses /\ \E q \in Levels : Dated(q)

\* The frame of a visit, instruction by instruction.
LEMMA VisitFrame ==
  ASSUME PressureTypeOK, Visit
  PROVE  /\ Len(body) \in Nat /\ Positions = 1 .. Len(body)
         /\ at \in Positions /\ at' = at - 1 /\ pass' = pass
         /\ body' = body /\ stage = "flow" /\ stage' = stage
         /\ liveOut'[at] = liveOut[at] \cup OutOf(at, liveIn)
         /\ liveIn'[at] = liveIn[at] \cup InOf(at, liveOut'[at])
         /\ \A i \in Positions : i # at =>
              liveIn'[i] = liveIn[i] /\ liveOut'[i] = liveOut[i]
<1>1. Len(body) \in Nat /\ Positions = 1 .. Len(body)
  BY BodyAssumption DEF PressureTypeOK
<1> QED BY <1>1 DEF Visit, PressureTypeOK

LEMMA JumpsFinite == body \in Bodies => IsFiniteSet(Jumps) /\ Cardinality(Jumps) \in Nat
<1> SUFFICES ASSUME body \in Bodies PROVE IsFiniteSet(Jumps)
  BY FS_CardinalityType
<1>1. IsFiniteSet(Positions)
  BY BodyAssumption, FS_Interval
<1>2. IsFiniteSet(Positions \X Positions)
  BY <1>1, FS_Product
<1>3. Jumps \in SUBSET (Positions \X Positions)
  BY DEF Jumps
<1> QED BY <1>2, <1>3, FS_Subset

\* A level that is reached is paid for with one jump back per pass.
LEMMA LevelsBounded ==
  ASSUME body \in Bodies, NEW q \in Levels, Inherited(q),
         NEW i \in Positions, NEW r \in Regs
  PROVE  q[i][r] <= Cardinality(Jumps) + 1
<1> DEFINE n == q[i][r]
<1>1. n \in Nat
  BY DEF Levels
<1>2. IsFiniteSet(Jumps) /\ Cardinality(Jumps) \in Nat
  BY JumpsFinite
<1>3. \A k \in 2 .. n : \E e \in Jumps : q[e[1]][r] = k
  BY DEF Inherited
<1> DEFINE f == [k \in 2 .. n |-> CHOOSE e \in Jumps : q[e[1]][r] = k]
<1>4. \A k \in 2 .. n : f[k] \in Jumps /\ q[f[k][1]][r] = k
  BY <1>3
<1>5. f \in Injection(2 .. n, Jumps)
  <2>1. f \in [2 .. n -> Jumps]
    BY <1>4
  <2>2. \A k, m \in 2 .. n : f[k] = f[m] => k = m
    BY <1>4
  <2> HIDE DEF f
  <2> QED BY <2>1, <2>2 DEF Injection, IsInjective
<1>6. Cardinality(2 .. n) <= Cardinality(Jumps)
  BY <1>2, <1>5, FS_Injection
<1>7. Cardinality(2 .. n) = IF 2 > n THEN 0 ELSE n - 2 + 1
  BY <1>1, FS_Interval
<1> QED BY <1>1, <1>2, <1>6, <1>7

LEMMA PassInit == PressureInit => PassInv
<1> SUFFICES ASSUME PressureInit PROVE PassInv
  OBVIOUS
<1>1. Len(body) \in Nat /\ Positions = 1 .. Len(body) /\ body \in Bodies
  BY BodyAssumption DEF PressureInit
<1>2. SolvedInv
  BY PressureTypeInit, SolvedInit DEF SolvedInv
<1>3. Collected
  BY <1>1 DEF PressureInit, Collected
<1>4. FewPasses
  BY <1>1, JumpsFinite DEF PressureInit, FewPasses
<1> DEFINE q == [i \in Positions |-> [r \in Regs |-> 0]]
<1>5. q \in Levels /\ Dated(q)
  <2>1. q \in Levels
    BY DEF Levels
  <2>2. LevelsFit(q) /\ Inherited(q)
    BY DEF LevelsFit, Inherited, PressureInit
  <2>3. Prompt(q)
    BY DEF Prompt, Succ, PressureInit
  <2>4. Noted(q)
    BY DEF Noted, PressureInit
  <2> QED BY <2>1, <2>2, <2>3, <2>4 DEF Dated
<1> QED BY <1>2, <1>3, <1>4, <1>5 DEF PassInv

LEMMA CollectedStep ==
  SolvedInv /\ Collected /\ [PressureNext]_pressureVars => Collected'
<1> SUFFICES ASSUME SolvedInv, Collected, [PressureNext]_pressureVars
             PROVE  Collected'
  OBVIOUS
<1> USE DEF SolvedInv, Collected
<1>1. Len(body) \in Nat /\ Positions = 1 .. Len(body)
  BY BodyAssumption DEF PressureTypeOK
<1>2. CASE Visit
  <2>1. /\ at \in Positions /\ at' = at - 1 /\ pass' = pass /\ body' = body
        /\ Positions' = Positions
        /\ liveOut'[at] = liveOut[at] \cup OutOf(at, liveIn)
        /\ liveIn'[at] = liveIn[at] \cup InOf(at, liveOut'[at])
        /\ \A i \in Positions : i # at =>
             liveIn'[i] = liveIn[i] /\ liveOut'[i] = liveOut[i]
    BY <1>2, VisitFrame
  <2> SUFFICES ASSUME NEW i \in Positions
               PROVE  /\ (pass > 1 \/ i > at - 1) => Uses(body[i]) \subseteq liveIn'[i]
                      /\ liveOut'[i] \ Defs(body[i]) \subseteq liveIn'[i]
    BY <2>1
  <2>2. CASE i = at
    BY <2>1, <2>2 DEF InOf
  <2>3. CASE i # at
    <3>1. i > at - 1 => i > at
      BY <1>1, <2>1, <2>3
    <3> QED BY <2>1, <2>3, <3>1
  <2> QED BY <2>2, <2>3
<1>3. CASE NextPass
  <2>1. at = 0 /\ body' = body /\ liveIn' = liveIn /\ liveOut' = liveOut
    BY <1>3 DEF NextPass
  <2>2. \A i \in Positions : i > 0
    BY <1>1
  <2> QED BY <2>1, <2>2
<1>4. CASE Count \/ UNCHANGED pressureVars
  BY <1>4 DEF Count, pressureVars, flowVars
<1> QED BY <1>2, <1>3, <1>4 DEF PressureNext

\* A visit finds registers of the level of its pass: the witness q is
\* extended with them.
LEMMA VisitDated ==
  ASSUME SolvedInv, Collected, Visit, NEW q \in Levels, Dated(q)
  PROVE  \E n \in Levels : Dated(n)'
<1> USE DEF SolvedInv
<1>0. /\ Len(body) \in Nat /\ Positions = 1 .. Len(body)
      /\ at \in Positions /\ at' = at - 1 /\ pass' = pass
      /\ body' = body /\ Positions' = Positions
      /\ liveOut'[at] = liveOut[at] \cup OutOf(at, liveIn)
      /\ liveIn'[at] = liveIn[at] \cup InOf(at, liveOut'[at])
      /\ \A i \in Positions : i # at =>
           liveIn'[i] = liveIn[i] /\ liveOut'[i] = liveOut[i]
  BY VisitFrame
<1>1. pass \in Nat /\ pass >= 1
  BY PassAssumption DEF PressureTypeOK
<1>2. liveIn \in Flows /\ liveOut \in Flows /\ liveIn' \in Flows /\ liveOut' \in Flows
  <2>1. PressureTypeOK'
    BY PressureTypeStep DEF PressureNext
  <2> QED BY <1>0, <2>1 DEF PressureTypeOK, Flows
<1>3. \A i : Succ(i)' = Succ(i)
  BY <1>0 DEF Succ
<1>4. Jumps' = Jumps
  BY <1>0, <1>3 DEF Jumps
<1> DEFINE new == {r \in Regs : r \in liveOut'[at] /\ r \notin liveOut[at]}
<1>5. PICK n \in Levels :
        \A i \in Positions : \A r \in Regs :
          n[i][r] = IF i = at /\ r \in new THEN pass ELSE q[i][r]
  <2>1. [i \in Positions |-> [r \in Regs |->
           IF i = at /\ r \in new THEN pass ELSE q[i][r]]] \in Levels
    BY <1>1 DEF Levels
  <2> QED BY <2>1
<1>6. \A i \in Positions : \A r \in Regs : r \in liveOut[i] => n[i][r] = q[i][r]
  BY <1>5
<1>7. \A i \in Positions : \A r \in Regs :
        q[i][r] \in 0 .. pass /\ (q[i][r] # 0 <=> r \in liveOut[i])
  BY DEF Dated, LevelsFit
<1>8. LevelsFit(n)'
  BY <1>0, <1>1, <1>5, <1>7 DEF LevelsFit
\* The register r of a level k stays there.
<1>9. \A i \in Positions : \A r \in Regs : \A k \in 2 .. pass :
        q[i][r] = k => n[i][r] = k
  BY <1>6, <1>7
<1>10. Inherited(n)'
  <2> SUFFICES ASSUME NEW i \in Positions, NEW r \in Regs, NEW k \in 2 .. n[i][r]
               PROVE  \E e \in Jumps : n[e[1]][r] = k
    BY <1>0, <1>4 DEF Inherited
  <2>1. \A e \in Jumps : e[1] \in Positions
    BY DEF Jumps
  <2>2. \A j \in Positions : k \in 2 .. q[j][r] => \E e \in Jumps : n[e[1]][r] = k
    <3> SUFFICES ASSUME NEW j \in Positions, k \in 2 .. q[j][r]
                 PROVE  \E e \in Jumps : n[e[1]][r] = k
      OBVIOUS
    <3>1. PICK e \in Jumps : q[e[1]][r] = k
      BY DEF Dated, Inherited
    <3>2. k \in 2 .. pass
      BY <1>1, <1>7
    <3> QED BY <1>9, <2>1, <3>1, <3>2
  <2>3. CASE ~(i = at /\ r \in new)
    BY <1>5, <2>2, <2>3
  <2>4. CASE i = at /\ r \in new
    <3>1. n[i][r] = pass /\ k \in 2 .. pass
      BY <1>5, <2>4
    <3>2. PICK s \in Succ(at) : r \in liveIn[s]
      BY <1>0, <2>4 DEF OutOf
    <3>3. s \in Positions
      BY DEF Succ
    <3> DEFINE m == InLevel(q, s, r)
    <3>4. /\ Visited(at, m + 1) => r \in liveOut[at]
          /\ s > at /\ Visited(at, m) => r \in liveOut[at]
      BY <1>0, <3>2 DEF Dated, Prompt
    <3>5. m \in 0 .. pass /\ m # 0
      <4>1. r \in Uses(body[s]) \/ r \in liveOut[s]
        BY <3>2, <3>3 DEF Justified, InOf
      <4> QED BY <1>1, <1>7, <3>3, <4>1 DEF InLevel
    <3>6. m >= pass - 1
      BY <1>1, <2>4, <3>4, <3>5 DEF Visited
    <3>7. m >= 2 => q[s][r] = m
      BY DEF InLevel
    <3> HIDE DEF m
    <3>8. CASE k <= m
      <4>1. q[s][r] = m /\ k \in 2 .. q[s][r]
        BY <3>1, <3>5, <3>7, <3>8
      <4> QED BY <2>2, <3>3, <4>1
    <3>9. CASE k > m
      <4>1. k = pass /\ m = pass - 1
        BY <1>1, <3>1, <3>5, <3>6, <3>9
      <4>2. Visited(at, m)
        BY <1>1, <4>1 DEF Visited
      <4>3. s <= at
        BY <1>0, <2>4, <3>3, <3>4, <4>2
      <4>4. <<at, s>> \in Jumps
        BY <1>0, <3>2, <3>3, <4>3 DEF Jumps
      <4>5. n[<<at, s>>[1]][r] = k
        BY <2>4, <3>1, <4>1
      <4> QED BY <4>4, <4>5
    <3> QED BY <1>1, <3>1, <3>5, <3>8, <3>9
  <2> QED BY <2>3, <2>4
\* What is new before s has the level of this pass.
<1>11. \A s \in Positions : \A r \in liveIn'[s] :
         /\ r \in liveIn[s] => InLevel(n, s, r)' = InLevel(q, s, r)
         /\ r \notin liveIn[s] => s = at /\ InLevel(n, s, r)' = pass
  <2> SUFFICES ASSUME NEW s \in Positions, NEW r \in liveIn'[s]
               PROVE  /\ r \in liveIn[s] => InLevel(n, s, r)' = InLevel(q, s, r)
                      /\ r \notin liveIn[s] => s = at /\ InLevel(n, s, r)' = pass
    OBVIOUS
  <2>1. r \in Regs
    BY <1>2 DEF Flows
  <2>2. InLevel(n, s, r)' = InLevel(n, s, r)
    BY <1>0 DEF InLevel
  <2>3. CASE r \in liveIn[s]
    <3>1. r \in Uses(body[s]) \/ r \in liveOut[s]
      BY <2>3 DEF Justified, InOf
    <3> QED BY <1>6, <2>1, <2>2, <2>3, <3>1 DEF InLevel
  <2>4. CASE r \notin liveIn[s]
    <3>1. s = at
      BY <1>0, <2>4
    <3>2. r \in Uses(body[at]) \/ r \in liveOut'[at] \ Defs(body[at])
      BY <1>0, <2>4, <3>1 DEF InOf
    <3>3. r \in Uses(body[at]) => pass = 1
      BY <1>0, <1>1, <2>4, <3>1 DEF Collected
    <3>4. r \notin Uses(body[at]) => r \in new
      BY <1>0, <2>1, <2>4, <3>1, <3>2 DEF Collected
    <3> QED BY <1>5, <2>1, <2>2, <2>4, <3>1, <3>3, <3>4 DEF InLevel
  <2> QED BY <2>3, <2>4
<1>12. Prompt(n)'
  <2> SUFFICES ASSUME NEW i \in Positions, NEW s \in Succ(i), NEW r \in liveIn'[s],
                      NEW k, k = InLevel(n, s, r)',
                      Visited(i, k + 1)' \/ (s > i /\ Visited(i, k)')
               PROVE  r \in liveOut'[i]
    BY <1>0, <1>3 DEF Prompt, Visited
  <2>1. s \in Positions
    BY DEF Succ
  <2>2. CASE r \notin liveIn[s]
    <3>1. s = at /\ InLevel(n, s, r)' = pass
      BY <1>11, <2>1, <2>2
    <3> QED BY <1>0, <1>1, <3>1 DEF Visited
  <2>3. CASE r \in liveIn[s] /\ i = at
    BY <1>0, <2>3 DEF OutOf
  <2>4. CASE r \in liveIn[s] /\ i # at
    <3>1. InLevel(q, s, r) = k
      BY <1>11, <2>1, <2>4
    <3>2. /\ Visited(i, k + 1)' => Visited(i, k + 1)
          /\ Visited(i, k)' => Visited(i, k)
      BY <1>0, <2>4 DEF Visited
    <3>3. r \in liveOut[i]
      BY <2>4, <3>1, <3>2 DEF Dated, Prompt
    <3> QED BY <1>0, <2>4, <3>3
  <2> QED BY <2>2, <2>3, <2>4
<1>13. Noted(n)'
  <2> SUFFICES ASSUME changes' # {}, pass # 1
               PROVE  \E i \in Positions : \E r \in Regs : n[i][r] = pass
    BY <1>0 DEF Noted
  <2>1. CASE changes # {}
    <3>1. PICK i \in Positions, r \in Regs : q[i][r] = pass
      BY <2>1 DEF Dated, Noted
    <3>2. pass \in 2 .. pass
      BY <1>1
    <3> QED BY <1>9, <3>1, <3>2
  <2>2. CASE changes = {}
    <3>1. liveOut' # liveOut \/ liveIn' # liveIn
      BY <2>2 DEF Visit
    <3>2. liveOut'[at] # liveOut[at] \/ liveIn'[at] # liveIn[at]
      <4> SUFFICES ASSUME liveOut'[at] = liveOut[at], liveIn'[at] = liveIn[at]
                   PROVE  liveOut' = liveOut /\ liveIn' = liveIn
        BY <3>1
      <4>1. \A i \in Positions : liveOut'[i] = liveOut[i] /\ liveIn'[i] = liveIn[i]
        BY <1>0
      <4> QED BY <1>2, <4>1 DEF Flows
    <3>3. CASE liveOut'[at] # liveOut[at]
      <4>1. PICK r \in liveOut'[at] : r \notin liveOut[at]
        BY <1>0, <3>3
      <4>2. r \in Regs /\ r \in new
        BY <1>0, <1>2, <4>1 DEF Flows
      <4> QED BY <1>0, <1>5, <4>2
    <3>4. CASE liveIn'[at] # liveIn[at]
      <4>1. PICK r \in liveIn'[at] : r \notin liveIn[at]
        BY <1>0, <3>4
      <4>2. PICK a \in Positions : a = at
        BY <1>0
      <4>3. InLevel(n, a, r)' = pass
        BY <1>11, <4>1, <4>2
      <4>4. r \in Regs
        BY <1>0, <1>2, <4>1 DEF Flows
      <4> QED BY <1>0, <4>3, <4>4 DEF InLevel
    <3> QED BY <3>2, <3>3, <3>4
  <2> QED BY <2>1, <2>2
<1> QED BY <1>8, <1>10, <1>12, <1>13 DEF Dated

LEMMA PassStep == PassInv /\ [PressureNext]_pressureVars => PassInv'
<1> SUFFICES ASSUME PassInv, [PressureNext]_pressureVars PROVE PassInv'
  OBVIOUS
<1> USE DEF PassInv
<1>1. SolvedInv' /\ Collected'
  BY PressureTypeStep, SolvedStep, CollectedStep DEF SolvedInv
<1>2. PICK q \in Levels : Dated(q)
  OBVIOUS
<1>3. body \in Bodies /\ pass \in Nat /\ pass >= 1
  BY PassAssumption DEF SolvedInv, PressureTypeOK
<1>4. body' = body
  BY DEF PressureNext, Visit, NextPass, Count, pressureVars
<1>5. Jumps' = Jumps /\ Levels' = Levels /\ \A i : Succ(i)' = Succ(i)
  BY <1>4 DEF Jumps, Succ, Levels
<1>6. CASE Visit
  <2>1. pass' = pass
    BY <1>6 DEF Visit
  <2>2. FewPasses'
    BY <1>5, <2>1 DEF FewPasses
  <2> QED BY <1>1, <1>2, <1>5, <1>6, <2>2, VisitDated
<1>7. CASE NextPass
  <2>1. /\ at = 0 /\ changes # {} /\ pass' = pass + 1 /\ changes' = {}
        /\ at' = Len(body) /\ liveIn' = liveIn /\ liveOut' = liveOut
    BY <1>7 DEF NextPass, Again
  <2>2. Len(body) \in Nat /\ Positions = 1 .. Len(body)
    BY <1>3, BodyAssumption
  <2>3. LevelsFit(q)' /\ Inherited(q)'
    BY <1>2, <1>3, <1>4, <1>5, <2>1 DEF Dated, LevelsFit, Inherited
  <2>4. Prompt(q)'
    <3> SUFFICES ASSUME NEW i \in Positions, NEW s \in Succ(i), NEW r \in liveIn[s],
                        NEW k, k = InLevel(q, s, r),
                        Visited(i, k + 1)' \/ (s > i /\ Visited(i, k)')
                 PROVE  r \in liveOut[i]
      BY <1>4, <1>5, <2>1 DEF Prompt, Visited, InLevel
    <3>1. r \in Regs /\ s \in Positions
      BY DEF SolvedInv, PressureTypeOK, Succ
    <3>2. k \in Nat
      BY <3>1 DEF InLevel, Levels
    <3>3. /\ Visited(i, k + 1)' => Visited(i, k + 1)
          /\ Visited(i, k)' => Visited(i, k)
      BY <1>3, <2>1, <2>2, <3>2 DEF Visited
    <3> QED BY <1>2, <3>3 DEF Dated, Prompt
  <2>5. Noted(q)'
    BY <2>1 DEF Noted
  <2>6. FewPasses'
    <3>1. Cardinality(Jumps) \in Nat
      BY <1>3, JumpsFinite
    <3>2. CASE pass = 1
      BY <1>5, <2>1, <3>1, <3>2 DEF FewPasses
    <3>3. CASE pass # 1
      <4>1. PICK i \in Positions, r \in Regs : q[i][r] = pass
        BY <1>2, <2>1, <3>3 DEF Dated, Noted
      <4>2. pass <= Cardinality(Jumps) + 1
        BY <1>2, <1>3, <4>1, LevelsBounded DEF Dated
      <4> QED BY <1>3, <1>5, <2>1, <3>1, <4>2 DEF FewPasses
    <3> QED BY <3>2, <3>3
  <2> QED BY <1>1, <1>2, <1>5, <2>3, <2>4, <2>5, <2>6 DEF Dated
<1>8. CASE Count \/ UNCHANGED pressureVars
  <2>1. UNCHANGED <<body, at, pass, changes, liveIn, liveOut>>
    BY <1>8 DEF Count, pressureVars, flowVars
  <2>2. FewPasses'
    BY <1>5, <2>1 DEF FewPasses
  <2>3. Dated(q)'
    BY <1>2, <1>5, <2>1 DEF Dated, LevelsFit, Inherited, Prompt, Noted, Visited, InLevel
  <2> QED BY <1>1, <1>2, <1>5, <2>2, <2>3
<1> QED BY <1>6, <1>7, <1>8 DEF PressureNext

\* The backward analysis needs at most two passes more than the body has
\* jumps back, whatever the body.
THEOREM PassesAreFew == PressureSpec => []FewPasses
<1>1. PassInv => FewPasses
  BY DEF PassInv
<1> QED BY PassInit, PassStep, <1>1, PTL DEF PressureSpec

-----------------------------------------------------------------------------
(***************************************************************************)
(* The estimate is enough for what an execution needs, when the kernel     *)
(* holds none of the instructions the analysis misreads.                   *)
(***************************************************************************)
\* No red, no guard on a result or on a ret, no atom into its own operand.
Plain(ins) ==
  /\ ins.op # "red"
  /\ ins.guarded => ins.op \notin {"op", "atom", "ret"}
  /\ ins.op = "atom" => ins.first \cap ins.rest = {}

PlainBodies == \A b \in Bodies : \A i \in DOMAIN b : Plain(b[i])

\* Kernels of fewer than MaxPasses - 2 instructions.
EnoughPasses == \A b \in Bodies : Len(b) + 2 < MaxPasses

LEMMA LowestNatural ==
  ASSUME NEW S \in SUBSET Nat, S # {}
  PROVE  \E x \in S : \A y \in S : x <= y
<1> DEFINE R == OpToRel(<, Nat)
<1>1. IsWellFoundedOn(R, Nat)
  BY NatLessThanWellFounded
<1>2. \A x, y \in Nat : <<y, x>> \in R <=> y < x
  BY DEF OpToRel
<1> HIDE DEF R
<1>3. PICK x \in S : \A y \in S : ~(<<y, x>> \in R)
  BY <1>1, WFMin
<1>4. \A y \in S : x \in Nat /\ y \in Nat /\ ~(y < x)
  BY <1>2, <1>3
<1> QED BY <1>4

LEMMA HighestNatural ==
  ASSUME NEW n \in Nat, NEW S \in SUBSET (0 .. n), S # {}
  PROVE  \E x \in S : \A y \in S : y <= x
<1> DEFINE T == {n - x : x \in S}
<1>1. T \in SUBSET Nat /\ T # {}
  <2>1. \A x \in S : n - x \in Nat
    OBVIOUS
  <2> QED BY <2>1
<1>2. PICK t \in T : \A u \in T : t <= u
  BY <1>1, LowestNatural
<1>3. PICK x \in S : t = n - x
  OBVIOUS
<1>4. \A y \in S : n - x <= n - y
  BY <1>2, <1>3
<1> QED BY <1>4

\* Max of the community modules, on a bounded set of numbers.
LEMMA MaxIsHighest ==
  ASSUME NEW n \in Nat, NEW S \in SUBSET (0 .. n), S # {}
  PROVE  Max(S) \in S /\ \A y \in S : y <= Max(S)
<1>1. PICK x \in S : \A y \in S : y <= x
  BY HighestNatural
<1>2. \A y \in S : x >= y
  BY <1>1
<1>3. Max(S) \in S /\ \A y \in S : Max(S) >= y
  BY <1>2 DEF Max
<1> QED BY <1>3

\* Sizes of sets of registers are numbers, and grow with the set.
LEMMA SizeMonotone ==
  ASSUME NEW S \in SUBSET Regs, NEW T \in SUBSET S
  PROVE  Size(S) \in Nat /\ Size(T) \in Nat /\ Size(T) <= Size(S)
<1> DEFINE U(r) == {r} \X (1 .. Weight[r])
           f == [r \in S |-> U(r)]
           W == {U(r) : r \in S}
<1>1. IsFiniteSet(S)
  BY RegAssumption, FS_Subset
<1>2. f \in Surjection(S, W)
  BY DEF Surjection
<1>3. IsFiniteSet(W)
  BY <1>1, <1>2, FS_Surjection
<1>4. \A V \in W : IsFiniteSet(V)
  <2> SUFFICES ASSUME NEW r \in S PROVE IsFiniteSet(U(r))
    OBVIOUS
  <2>1. Weight[r] \in Int /\ 1 \in Int
    BY RegAssumption
  <2>2. IsFiniteSet({r}) /\ IsFiniteSet(1 .. Weight[r])
    BY <2>1, FS_Singleton, FS_Interval
  <2> QED BY <2>2, FS_Product
<1>5. IsFiniteSet(UNION W)
  <2> HIDE DEF W
  <2> QED BY <1>3, <1>4, FS_UNION
<1>6. Units(S) = UNION W /\ Units(T) \in SUBSET Units(S)
  BY DEF Units
<1>7. /\ IsFiniteSet(Units(T))
      /\ Cardinality(Units(T)) <= Cardinality(Units(S))
  BY <1>5, <1>6, FS_Subset
<1> QED BY <1>5, <1>6, <1>7, FS_CardinalityType DEF Size

LEMMA OneJumpEach == body \in Bodies => Cardinality(Jumps) <= Len(body)
<1> SUFFICES ASSUME body \in Bodies PROVE Cardinality(Jumps) <= Len(body)
  OBVIOUS
<1>1. Len(body) \in Nat /\ Positions = 1 .. Len(body)
  BY BodyAssumption
<1> DEFINE f == [e \in Jumps |-> e[1]]
<1>2. \A e \in Jumps : e = <<e[1], e[2]>> /\ e[1] \in Positions /\ e[2] = body[e[1]].target
  BY <1>1 DEF Jumps, Succ
<1>3. f \in Injection(Jumps, Positions)
  <2>1. f \in [Jumps -> Positions]
    BY <1>2
  <2>2. \A d, e \in Jumps : f[d] = f[e] => d = e
    BY <1>2
  <2> HIDE DEF f
  <2> QED BY <2>1, <2>2 DEF Injection, IsInjective
<1>4. 1 \in Int /\ Len(body) \in Int
  BY <1>1
<1>5. IsFiniteSet(Positions) /\ Cardinality(Positions) = Len(body)
  <2>1. /\ IsFiniteSet(1 .. Len(body))
        /\ Cardinality(1 .. Len(body))
             = IF 1 > Len(body) THEN 0 ELSE Len(body) - 1 + 1
    BY <1>4, FS_Interval
  <2>2. Cardinality(1 .. Len(body)) = Len(body)
    BY <1>1, <2>1
  <2> QED BY <1>1, <2>1, <2>2
<1> QED BY <1>3, <1>5, FS_Injection

\* A solution of the equations holds whatever is still read on some path.
LEMMA NeededIsLive ==
  ASSUME PlainBodies, body \in Bodies, Applicable(body), liveIn \in Flows, liveOut \in Flows,
         Equations(liveIn, liveOut), NEW i \in Positions, NEW r \in Regs, Needed(r, i)
  PROVE  r \in liveOut[i]
<1>1. Len(body) \in Nat /\ Positions = 1 .. Len(body)
  BY BodyAssumption
<1>2. \A j \in Positions : /\ TrueUses(body[j]) \subseteq Uses(body[j])
                           /\ Defs(body[j]) \subseteq TrueDefs(body[j])
                           /\ TrueSucc(j) \subseteq Succ(j)
  <2> SUFFICES ASSUME NEW j \in Positions
               PROVE  /\ TrueUses(body[j]) \subseteq Uses(body[j])
                      /\ Defs(body[j]) \subseteq TrueDefs(body[j])
                      /\ TrueSucc(j) \subseteq Succ(j)
    OBVIOUS
  <2>1. Plain(body[j]) /\ body[j] \in Instructions /\ body[j].op # "call"
    BY BodyAssumption DEF PlainBodies, Applicable
  <2>2. TrueUses(body[j]) \subseteq Uses(body[j])
    BY <2>1 DEF Plain, Instructions, TrueUses, Uses
  <2>3. Defs(body[j]) \subseteq TrueDefs(body[j])
    BY <2>1 DEF Plain, Instructions, TrueDefs, Defs
  <2>4. TrueSucc(j) \subseteq Succ(j)
    BY <2>1 DEF Plain, Instructions, TrueSucc, Succ, FallsThrough
  <2> QED BY <2>2, <2>3, <2>4
<1>3. PICK n \in 1 .. Len(body) : \E p \in [1 .. n -> Positions] :
        /\ p[1] \in TrueSucc(i)
        /\ \A k \in 1 .. n - 1 : /\ p[k + 1] \in TrueSucc(p[k])
                                 /\ r \notin TrueDefs(body[p[k]])
        /\ r \in TrueUses(body[p[n]])
  BY DEF Needed
<1>4. PICK p \in [1 .. n -> Positions] :
        /\ p[1] \in TrueSucc(i)
        /\ \A k \in 1 .. n - 1 : /\ p[k + 1] \in TrueSucc(p[k])
                                 /\ r \notin TrueDefs(body[p[k]])
        /\ r \in TrueUses(body[p[n]])
  BY <1>3
<1>5. n \in Nat /\ n \in 1 .. n /\ 1 \in 1 .. n
  BY <1>1
\* The last stretch of the path where r would not be live.
<1> DEFINE dead == {k \in 1 .. n : r \notin liveIn[p[k]]}
<1>6. dead = {}
  <2> SUFFICES ASSUME dead # {} PROVE FALSE
    OBVIOUS
  <2>1. dead \in SUBSET (0 .. n)
    BY <1>5
  <2>2. PICK m \in dead : \A k \in dead : k <= m
    BY <1>5, <2>1, HighestNatural
  <2>3. m \in 1 .. n /\ p[m] \in Positions /\ r \notin liveIn[p[m]]
    OBVIOUS
  <2>4. m # n
    <3>1. r \in Uses(body[p[n]])
      BY <1>2, <1>4, <1>5
    <3>2. r \in liveIn[p[n]]
      BY <1>5, <3>1 DEF Equations, InOf
    <3> QED BY <2>3, <3>2
  <2>5. m \in 1 .. n - 1 /\ m + 1 \in 1 .. n /\ p[m + 1] \in Positions
    BY <1>5, <2>3, <2>4
  <2>6. r \in liveIn[p[m + 1]]
    BY <2>2, <2>5
  <2>7. p[m + 1] \in Succ(p[m]) /\ r \notin Defs(body[p[m]])
    BY <1>2, <1>4, <2>3, <2>5
  <2>8. r \in OutOf(p[m], liveIn)
    BY <2>6, <2>7 DEF OutOf
  <2>9. r \in InOf(p[m], liveOut[p[m]])
    BY <2>3, <2>7, <2>8 DEF Equations, InOf
  <2> QED BY <2>3, <2>9 DEF Equations
<1>7. r \in liveIn[p[1]] /\ p[1] \in Succ(i)
  BY <1>2, <1>4, <1>5, <1>6
<1> QED BY <1>7 DEF Equations, OutOf

\* What the estimate holds once it is made.
Counted ==
  /\ stage = "refused" => ~Applicable(body)
  /\ stage = "counted" /\ Applicable(body) =>
       /\ Equations(liveIn, liveOut)
       /\ numRegs \in Nat
       /\ \A i \in Positions : Size(liveOut[i]) <= numRegs

CountedInv == PassInv /\ Counted

\* The register sets behind the instructions are among the numbers the
\* maximum is taken of.
LEMMA MaxLiveIsHighest ==
  ASSUME liveOut \in Flows
  PROVE  /\ MaxLive \in Nat
         /\ \A i \in Positions : Size(liveOut[i]) <= MaxLive
<1> DEFINE sizes == {Size(liveOut[i]) : i \in Positions} \cup {0}
           bound == Size(Regs)
<1>1. bound \in Nat
  BY SizeMonotone
<1>2. \A i \in Positions : Size(liveOut[i]) \in 0 .. bound
  <2> SUFFICES ASSUME NEW i \in Positions PROVE Size(liveOut[i]) \in 0 .. bound
    OBVIOUS
  <2>1. liveOut[i] \in SUBSET Regs
    BY DEF Flows
  <2>2. Size(liveOut[i]) \in Nat /\ Size(liveOut[i]) <= bound
    BY <2>1, SizeMonotone
  <2> QED BY <1>1, <2>2
<1> HIDE DEF bound
<1>3. sizes \in SUBSET (0 .. bound) /\ sizes # {}
  BY <1>1, <1>2
<1>4. Max(sizes) \in sizes /\ \A y \in sizes : y <= Max(sizes)
  <2> HIDE DEF sizes
  <2> QED BY <1>1, <1>3, MaxIsHighest
<1>5. MaxLive = Max(sizes)
  BY DEF MaxLive
<1>6. \A i \in Positions : Size(liveOut[i]) \in sizes
  OBVIOUS
<1>7. MaxLive \in Nat
  BY <1>1, <1>3, <1>4, <1>5
<1> HIDE DEF sizes
<1> QED BY <1>4, <1>5, <1>6, <1>7

\* The declarations are a number too, and so is the estimate.
LEMMA EstimateIsHighest ==
  ASSUME liveOut \in Flows, Count
  PROVE  numRegs' \in Nat \ {0} /\ (stage = "flow" => MaxLive <= numRegs')
<1> DEFINE live == IF stage = "flow" THEN MaxLive ELSE 0
           least == IF live > 0 THEN live ELSE Declared
<1>1. MaxLive \in Nat /\ Declared \in Nat
  BY MaxLiveIsHighest, SizeMonotone DEF Declared
<1>2. least \in Nat /\ live <= least
  BY <1>1
<1>3. numRegs' = Max({1, least})
  BY DEF Count
<1> HIDE DEF least
<1>4. {1, least} \in SUBSET (0 .. (least + 1)) /\ least + 1 \in Nat /\ {1, least} # {}
  BY <1>2
<1>5. /\ Max({1, least}) \in {1, least}
      /\ \A y \in {1, least} : y <= Max({1, least})
  BY <1>4, MaxIsHighest
<1>6. numRegs' \in Nat /\ 1 <= numRegs' /\ least <= numRegs'
  BY <1>2, <1>3, <1>5
<1> QED BY <1>1, <1>2, <1>6

LEMMA CountedInit == PressureInit => CountedInv
BY PassInit DEF PressureInit, CountedInv, Counted

LEMMA CountedStep ==
  EnoughPasses /\ CountedInv /\ [PressureNext]_pressureVars => CountedInv'
<1> SUFFICES ASSUME EnoughPasses, CountedInv, [PressureNext]_pressureVars
             PROVE  CountedInv'
  OBVIOUS
<1>1. PassInv'
  BY PassStep DEF CountedInv
<1>2. Counted'
  <2>1. CASE Visit \/ NextPass
    BY <2>1 DEF Visit, NextPass, CountedInv, Counted
  <2>2. CASE UNCHANGED pressureVars
    BY <2>2 DEF pressureVars, flowVars, CountedInv, Counted, Applicable, Equations,
                OutOf, InOf, Succ
  <2>3. CASE Count
    <3>1. /\ stage' = "counted" /\ body' = body /\ liveIn' = liveIn
          /\ liveOut' = liveOut
          /\ stage = "refused" \/ (stage = "flow" /\ at = 0 /\ ~Again)
      BY <2>3 DEF Count, flowVars
    <3>2. CASE stage = "refused"
      BY <3>1, <3>2 DEF CountedInv, Counted, Applicable
    <3>3. CASE stage = "flow"
      <4>1. PressureTypeOK /\ Solved /\ FewPasses
        BY SolvedInvSuffices DEF CountedInv, PassInv, SolvedInv
      <4>2. Len(body) \in Nat /\ Len(body) + 2 < MaxPasses
        BY <4>1, BodyAssumption DEF PressureTypeOK, EnoughPasses
      <4>3. pass < MaxPasses
        <5>1. /\ Cardinality(Jumps) \in Nat /\ Cardinality(Jumps) <= Len(body)
              /\ pass <= Cardinality(Jumps) + 2
          BY <4>1, JumpsFinite, OneJumpEach DEF PressureTypeOK, FewPasses
        <5> QED BY <4>1, <4>2, <5>1, PassAssumption DEF PressureTypeOK
      <4>4. Equations(liveIn, liveOut)
        BY <3>1, <3>3, <4>1, <4>3 DEF Again, Solved
      <4>5. Equations(liveIn, liveOut)'
        BY <3>1, <4>4 DEF Equations, OutOf, InOf, Succ
      <4>6. liveOut \in Flows
        BY <4>1 DEF PressureTypeOK, Flows
      <4>7. /\ numRegs' \in Nat /\ MaxLive <= numRegs' /\ MaxLive \in Nat
            /\ \A i \in Positions : Size(liveOut[i]) <= MaxLive
        BY <2>3, <3>3, <4>6, EstimateIsHighest, MaxLiveIsHighest
      <4>8. \A i \in Positions : Size(liveOut[i]) \in Nat
        <5> SUFFICES ASSUME NEW i \in Positions PROVE Size(liveOut[i]) \in Nat
          OBVIOUS
        <5>1. liveOut[i] \in SUBSET Regs
          BY <4>6 DEF Flows
        <5> QED BY <5>1, SizeMonotone
      <4>9. \A i \in Positions : Size(liveOut[i]) <= numRegs'
        BY <4>7, <4>8
      <4> QED BY <3>1, <4>5, <4>7, <4>9 DEF Counted, Size
    <3> QED BY <3>1, <3>2, <3>3
  <2> QED BY <2>1, <2>2, <2>3 DEF PressureNext
<1> QED BY <1>1, <1>2 DEF CountedInv

LEMMA CountedSuffices == PlainBodies /\ CountedInv => NeverUndercounts
<1> SUFFICES ASSUME PlainBodies, CountedInv, stage = "counted", Applicable(body),
                    NEW i \in Positions
             PROVE  Size({r \in Regs : Needed(r, i)}) <= numRegs
  BY DEF NeverUndercounts
<1>1. body \in Bodies /\ liveIn \in Flows /\ liveOut \in Flows
  BY DEF CountedInv, PassInv, SolvedInv, PressureTypeOK, Flows
<1>2. /\ Equations(liveIn, liveOut) /\ numRegs \in Nat
      /\ Size(liveOut[i]) <= numRegs
  BY DEF CountedInv, Counted
<1> DEFINE needed == {r \in Regs : Needed(r, i)}
<1>3. needed \subseteq liveOut[i]
  BY <1>1, <1>2, NeededIsLive
<1>4. liveOut[i] \in SUBSET Regs
  BY <1>1 DEF Flows
<1>5. /\ Size(needed) \in Nat /\ Size(liveOut[i]) \in Nat
      /\ Size(needed) <= Size(liveOut[i])
  <2> HIDE DEF needed
  <2> QED BY <1>3, <1>4, SizeMonotone
<1> QED BY <1>2, <1>5

\* The estimate is never below what some execution needs at the same time,
\* for every kernel in which the analysis reads each instruction as PTX
\* defines it, and that MaxPasses cannot cut short.
THEOREM EstimateIsEnough ==
  ASSUME PlainBodies, EnoughPasses PROVE PressureSpec => []NeverUndercounts
<1>1. CountedInv /\ [PressureNext]_pressureVars => CountedInv'
  BY CountedStep
<1>2. CountedInv => NeverUndercounts
  BY CountedSuffices
<1> QED BY CountedInit, <1>1, <1>2, PTL DEF PressureSpec

-----------------------------------------------------------------------------
(* The calculator.                                                         *)

\* The first query forgets the body.
Forgotten == stage = "counted" /\ body = <<>> /\ pass = 1

AnalysisInv == PassInv \/ Forgotten

LEMMA ForgottenStep ==
  ASSUME Forgotten, [Next]_vars PROVE Forgotten' /\ numRegs' = numRegs
BY DEF Forgotten, Next, Analyse, PressureNext, Visit, NextPass, Count, Ask, Try,
       Answer, vars, pressureVars, flowVars

LEMMA NextIsPressure ==
  ASSUME [Next]_vars
  PROVE  [PressureNext]_pressureVars \/ Forgotten'
<1>1. CASE \E limit \in Limits : Ask(limit)
  BY <1>1 DEF Ask, Forgotten
<1>2. CASE ~\E limit \in Limits : Ask(limit)
  BY <1>2 DEF Next, Analyse, Try, Answer, vars
<1> QED BY <1>1, <1>2

LEMMA AnalysisKept == Spec => []AnalysisInv
<1>1. Init => AnalysisInv
  BY PassInit DEF Init, AnalysisInv
<1>2. AnalysisInv /\ [Next]_vars => AnalysisInv'
  BY NextIsPressure, ForgottenStep, PassStep DEF AnalysisInv
<1> QED BY <1>1, <1>2, PTL DEF Spec

(* Whenever a pass ends without a change, the sets solve the data-flow     *)
(* equations of the kernel, for every kernel and every query.              *)
THEOREM AnalysisSolves == Spec => []Solved
<1>1. AnalysisInv => Solved
  BY SolvedInvSuffices DEF AnalysisInv, PassInv, Forgotten, Solved
<1> QED BY AnalysisKept, <1>1, PTL

(* The analysis of occupancy.cpp ends after at most two passes more than   *)
(* the kernel has jumps back: its limit of 100000 passes is out of reach   *)
(* of any kernel with fewer jumps.                                         *)
THEOREM AnalysisIsShort == Spec => []FewPasses
<1>1. AnalysisInv => FewPasses
  <2>1. CASE PassInv
    BY <2>1 DEF PassInv
  <2>2. CASE Forgotten
    <3>1. Jumps = {}
      <4>1. Positions = {}
        BY <2>2 DEF Forgotten, Positions
      <4> QED BY <4>1 DEF Jumps
    <3>2. Cardinality(Jumps) = 0
      BY <3>1, FS_EmptySet
    <3> QED BY <2>2, <3>2 DEF Forgotten, FewPasses
  <2> QED BY <2>1, <2>2 DEF AnalysisInv
<1> QED BY AnalysisKept, <1>1, PTL

(* numRegs is never below the registers whose values some execution needs  *)
(* at once, for every kernel in which the analysis reads each instruction  *)
(* as PTX defines it (no red, no guard on a result or a ret, no atom into  *)
(* its own operand) and of fewer than MaxPasses - 2 instructions.          *)
THEOREM EstimateIsSafe ==
  ASSUME PlainBodies, EnoughPasses PROVE Spec => []NeverUndercounts
<1> DEFINE Inv == CountedInv \/ Forgotten
<1>1. Init => Inv
  BY CountedInit DEF Init
<1>2. Inv /\ [Next]_vars => Inv'
  BY NextIsPressure, ForgottenStep, CountedStep
<1>3. Inv => NeverUndercounts
  BY CountedSuffices DEF Forgotten, NeverUndercounts, Applicable
<1> HIDE DEF Inv
<1> QED BY <1>1, <1>2, <1>3, PTL DEF Spec

-----------------------------------------------------------------------------
(* The arithmetic of the calculator.                                       *)

LEMMA DivBounds ==
  ASSUME NEW x \in Nat, NEW y \in Nat \ {0}
  PROVE  /\ x \div y \in Nat
         /\ y * (x \div y) <= x
         /\ x < y * (x \div y) + y
BY Z3

LEMMA MinOfFour ==
  ASSUME NEW a \in Int, NEW b \in Int, NEW c \in Int, NEW d \in Int
  PROVE  /\ Min({a, b, c, d}) \in {a, b, c, d}
         /\ Min({a, b, c, d}) <= a /\ Min({a, b, c, d}) <= b
         /\ Min({a, b, c, d}) <= c /\ Min({a, b, c, d}) <= d
<1>1. \E x \in {a, b, c, d} : \A y \in {a, b, c, d} : x <= y
  OBVIOUS
<1> QED BY <1>1 DEF Min

LEMMA MinMaxOfTwo ==
  ASSUME NEW a \in Int, NEW b \in Int
  PROVE  /\ Min({a, b}) = IF a <= b THEN a ELSE b
         /\ Max({a, b}) = IF a <= b THEN b ELSE a
<1>1. \E x \in {a, b} : \A y \in {a, b} : x <= y
  OBVIOUS
<1>2. \E x \in {a, b} : \A y \in {a, b} : x >= y
  OBVIOUS
<1>3. Min({a, b}) \in {a, b} /\ \A y \in {a, b} : Min({a, b}) <= y
  BY <1>1 DEF Min
<1>4. Max({a, b}) \in {a, b} /\ \A y \in {a, b} : Max({a, b}) >= y
  BY <1>2 DEF Max
<1> QED BY <1>3, <1>4

\* Rounding up: the least multiple not below.
LEMMA RoundUpBounds ==
  ASSUME NEW x \in Nat, NEW y \in Nat \ {0}
  PROVE  /\ RoundUp(x, y) \in Nat
         /\ x <= RoundUp(x, y) /\ RoundUp(x, y) < x + y
<1>1. x + (y - 1) \in Nat
  OBVIOUS
<1> DEFINE q == (x + (y - 1)) \div y
<1>2. q \in Nat /\ y * q <= x + (y - 1) /\ x + (y - 1) < y * q + y
  BY <1>1, DivBounds
<1>3. RoundUp(x, y) = y * q
  BY DEF RoundUp, DivUp
<1> HIDE DEF q
<1>4. y * q \in Nat
  BY <1>2
<1> QED BY <1>2, <1>3, <1>4

LEMMA AsIntIsInt == ASSUME NEW x \in Nat PROVE AsInt(x) \in Int
<1>1. x % IntRange \in Int
  BY QueryAssumption
<1> QED BY <1>1, QueryAssumption DEF AsInt

LEMMA WholeWarps ==
  ASSUME NEW size \in BlockSizes
  PROVE  \E w \in 1 .. 32 : /\ size = 32 * w /\ DivUp(size, WarpSize) = w
                            /\ size \in 1 .. MaxThreads
<1>1. MaxThreads \div WarpSize = 32
  BY DEF MaxThreads, WarpSize
<1>2. PICK w \in 1 .. 32 : size = 32 * w
  BY <1>1 DEF BlockSizes, WarpSize
<1>3. (32 * w + 31) \div 32 = w
  OBVIOUS
<1>4. DivUp(size, WarpSize) = w
  BY <1>2, <1>3 DEF DivUp, WarpSize
<1> QED BY <1>2, <1>4 DEF MaxThreads

\* The four limits are numbers, and the occupancy is the least of them.
LEMMA LimitTypes ==
  ASSUME NEW warps \in 1 .. 32, NEW bytes \in Nat,
         numRegs \in Nat \ {0}, static \in Nat
  PROVE  /\ WarpLimit(warps) \in Nat /\ warps * WarpLimit(warps) <= 32
         /\ RegLimit(warps) \in Nat /\ SmemLimit(bytes) \in Int
<1>1. WarpLimit(warps) \in Nat /\ warps * WarpLimit(warps) <= 32
  <2>1. MaxThreads \div WarpSize = 32
    BY DEF MaxThreads, WarpSize
  <2> QED BY <2>1, DivBounds DEF WarpLimit
<1>2. RegLimit(warps) \in Nat
  <2> DEFINE perWarp == RoundUp(numRegs * WarpSize, Granularity)
             parts == (RegsPerSm \div Partitions) \div perWarp
  <2>1. numRegs * WarpSize \in Nat \ {0} /\ Granularity \in Nat \ {0}
    BY DEF WarpSize, Granularity
  <2>2. perWarp \in Nat \ {0}
    <3>1. perWarp \in Nat /\ numRegs * WarpSize <= perWarp
      BY <2>1, RoundUpBounds
    <3> QED BY <2>1, <3>1
  <2>3. RegsPerSm \div Partitions = 16384
    BY DEF RegsPerSm, Partitions
  <2> HIDE DEF perWarp
  <2>4. parts \in Nat
    BY <2>2, <2>3, DivBounds
  <2> HIDE DEF parts
  <2>5. parts * Partitions \in Nat
    BY <2>4 DEF Partitions
  <2>6. (parts * Partitions) \div warps \in Nat
    BY <2>5, DivBounds
  <2>7. RegLimit(warps) \in {0, (parts * Partitions) \div warps}
    BY DEF RegLimit, Limit, perWarp, parts
  <2> QED BY <2>6, <2>7
<1>3. SmemLimit(bytes) \in Int
  <2> DEFINE x == AsInt(static + bytes)
             allocated == RoundUp(x, Granularity)
  <2>1. x \in Int
    BY AsIntIsInt
  <2> HIDE DEF x
  <2>2. allocated \in Int
    BY <2>1 DEF RoundUp, DivUp, Granularity
  <2> HIDE DEF allocated
  <2>3. \/ SmemLimit(bytes) \in {0, MaxBlocks}
        \/ allocated \in Nat \ {0} /\ SmemLimit(bytes) = 65536 \div allocated
    BY <2>2 DEF SmemLimit, Limit, allocated, x, SmemPerSm
  <2> QED BY <2>3, DivBounds DEF MaxBlocks
<1> QED BY <1>1, <1>2, <1>3

LEMMA OccupancyIsLeast ==
  ASSUME NEW size \in BlockSizes, NEW bytes \in Nat,
         numRegs \in Nat \ {0}, static \in Nat
  PROVE  /\ ActiveBlocks(size, bytes) \in Int
         /\ ActiveBlocks(size, bytes) <= SmemLimit(bytes)
         /\ SmemLimit(bytes) \in Int
         /\ size * ActiveBlocks(size, bytes) <= MaxThreads
         /\ \A other \in Nat, n \in Int :
              n <= ActiveBlocks(size, other) /\ n <= SmemLimit(bytes)
                => n <= ActiveBlocks(size, bytes)
<1>1. PICK w \in 1 .. 32 : /\ size = 32 * w /\ DivUp(size, WarpSize) = w
                           /\ size \in 1 .. MaxThreads
  BY WholeWarps
<1> DEFINE Least(b) == Min({WarpLimit(w), RegLimit(w), MaxBlocks, SmemLimit(b)})
<1>2. \A b : ActiveBlocks(size, b) = Least(b)
  BY <1>1 DEF ActiveBlocks
<1>3. ASSUME NEW b \in Nat
      PROVE  /\ WarpLimit(w) \in Nat /\ w * WarpLimit(w) <= 32
             /\ RegLimit(w) \in Nat /\ MaxBlocks \in Nat /\ SmemLimit(b) \in Int
             /\ Least(b) \in {WarpLimit(w), RegLimit(w), MaxBlocks, SmemLimit(b)}
             /\ Least(b) <= WarpLimit(w) /\ Least(b) <= RegLimit(w)
             /\ Least(b) <= MaxBlocks /\ Least(b) <= SmemLimit(b)
  <2>1. /\ WarpLimit(w) \in Nat /\ w * WarpLimit(w) <= 32
        /\ RegLimit(w) \in Nat /\ SmemLimit(b) \in Int
    BY LimitTypes
  <2>2. MaxBlocks \in Nat
    BY DEF MaxBlocks
  <2>3. WarpLimit(w) \in Int /\ RegLimit(w) \in Int /\ MaxBlocks \in Int
    BY <2>1, <2>2
  <2>4. /\ Least(b) \in {WarpLimit(w), RegLimit(w), MaxBlocks, SmemLimit(b)}
        /\ Least(b) <= WarpLimit(w) /\ Least(b) <= RegLimit(w)
        /\ Least(b) <= MaxBlocks /\ Least(b) <= SmemLimit(b)
    BY <2>1, <2>3, MinOfFour
  <2> HIDE DEF Least
  <2> QED BY <2>1, <2>2, <2>4
<1> HIDE DEF Least
<1>4. Least(bytes) \in Int
  BY <1>3
<1>5. w * Least(bytes) <= w * WarpLimit(w)
  <2>1. w \in Nat /\ WarpLimit(w) \in Nat /\ Least(bytes) <= WarpLimit(w)
    BY <1>3
  <2> QED BY <1>4, <2>1
<1>6. size * Least(bytes) <= MaxThreads
  <2>1. w * Least(bytes) <= 32
    BY <1>3, <1>4, <1>5
  <2>2. size * Least(bytes) = 32 * (w * Least(bytes))
    BY <1>1, <1>4
  <2> QED BY <1>4, <2>1, <2>2 DEF MaxThreads
<1>7. ASSUME NEW other \in Nat, NEW n \in Int,
             n <= Least(other), n <= SmemLimit(bytes)
      PROVE  n <= Least(bytes)
  <2>1. Least(other) \in Int
    BY <1>3
  <2>2. n <= WarpLimit(w) /\ n <= RegLimit(w) /\ n <= MaxBlocks
    BY <1>3, <1>7, <2>1
  <2> QED BY <1>3, <1>7, <2>2
<1> QED BY <1>2, <1>3, <1>4, <1>6, <1>7

-----------------------------------------------------------------------------
(* The search.                                                             *)

MultiplesOfWarp == {WarpSize * w : w \in 0 .. 32}

LEMMA MultiplesAreNumbers == \A t \in MultiplesOfWarp : t \in Int /\ 0 <= t
BY DEF MultiplesOfWarp, WarpSize

\* What a query works on.
QueryOK ==
  /\ AnalysisInv
  /\ stage = "counted" => numRegs \in Nat \ {0} /\ static \in StaticSizes
  /\ dynamic # <<>> => stage = "counted" /\ dynamic \in DynamicSizes
  /\ dynamic = <<>> => ~answered /\ bestThreads = 0 /\ bestBlock = 0

ThreadsAt(size) == size * ActiveBlocks(size, dynamic[size])

\* The sizes tried so far are no better than the best, nor as good and
\* larger; and the sizes still to try are smaller than the best.
Tried ==
  /\ top \in MultiplesOfWarp /\ trySize \in MultiplesOfWarp /\ trySize <= top
  /\ bestThreads \in 0 .. MaxThreads /\ bestBlock \in Int
  /\ bestThreads > 0 => trySize < bestBlock
  /\ \A size \in BlockSizes :
       trySize < size /\ size <= top =>
         \/ ThreadsAt(size) < bestThreads
         \/ ThreadsAt(size) = bestThreads /\ (size <= bestBlock \/ ThreadsAt(size) = 0)
  /\ answered => trySize <= 0 \/ bestThreads = MaxThreads

SearchInv == QueryOK /\ (dynamic # <<>> => Tried)

\* A callback gives a number of bytes for every size.
LEMMA CallbackTypes ==
  ASSUME NEW d \in DynamicSizes
  PROVE  d # <<>> /\ \A size \in BlockSizes : d[size] \in Nat
<1>1. d \in [BlockSizes -> Nat]
  BY QueryAssumption
<1>2. 32 \in BlockSizes
  BY DEF BlockSizes, WarpSize, MaxThreads
<1>3. 32 \in DOMAIN d
  BY <1>1, <1>2
<1> QED BY <1>1, <1>3

LEMMA ThreadsBounded ==
  ASSUME QueryOK, dynamic # <<>>, NEW size \in BlockSizes
  PROVE  /\ ActiveBlocks(size, dynamic[size]) \in Int
         /\ ThreadsAt(size) \in Int /\ ThreadsAt(size) <= MaxThreads
         /\ size \in 1 .. MaxThreads
<1>1. numRegs \in Nat \ {0} /\ static \in Nat /\ dynamic[size] \in Nat
  BY QueryAssumption, CallbackTypes DEF QueryOK
<1>2. size \in 1 .. MaxThreads
  BY WholeWarps
<1> QED BY <1>1, <1>2, OccupancyIsLeast DEF ThreadsAt, MaxThreads

LEMMA QueryStep == QueryOK /\ [Next]_vars => QueryOK'
<1> SUFFICES ASSUME QueryOK, [Next]_vars PROVE QueryOK'
  OBVIOUS
<1>1. AnalysisInv'
  BY NextIsPressure, ForgottenStep, PassStep DEF QueryOK, AnalysisInv
<1>2. CASE Analyse
  <2>1. UNCHANGED queryVars /\ UNCHANGED answered /\ stage # "counted"
    BY <1>2 DEF Analyse, PressureNext, Visit, NextPass, Count
  <2>2. stage' = "counted" => numRegs' \in Nat \ {0} /\ static' \in StaticSizes
    <3> SUFFICES ASSUME stage' = "counted"
                 PROVE  numRegs' \in Nat \ {0} /\ static' \in StaticSizes
      OBVIOUS
    <3>1. Count
      BY <1>2, <2>1 DEF Analyse, PressureNext, Visit, NextPass
    <3>2. liveOut \in Flows
      BY <2>1 DEF QueryOK, AnalysisInv, Forgotten, PassInv, SolvedInv, PressureTypeOK, Flows
    <3> QED BY <1>2, <3>1, <3>2, EstimateIsHighest DEF Analyse
  <2> QED BY <1>1, <2>1, <2>2 DEF QueryOK, queryVars
<1>3. CASE \E limit \in Limits : Ask(limit)
  BY <1>1, <1>3, CallbackTypes DEF Ask, QueryOK
<1>4. CASE Try \/ Answer \/ UNCHANGED vars
  <2>1. /\ UNCHANGED <<stage, numRegs, static, dynamic>>
        /\ dynamic = <<>> => UNCHANGED <<answered, bestThreads, bestBlock>>
    BY <1>4 DEF Try, Answer, Searching, vars, pressureVars, queryVars
  <2> QED BY <1>1, <2>1 DEF QueryOK
<1> QED BY <1>2, <1>3, <1>4 DEF Next

LEMMA StartIsWholeWarps ==
  ASSUME NEW limit \in Int PROVE Start(limit) \in MultiplesOfWarp
<1>1. 1024 \in MultiplesOfWarp
  BY DEF MultiplesOfWarp, WarpSize
<1>2. CASE limit > 0 /\ limit < MaxThreads
  <2>1. limit \div 32 \in 0 .. 32
    BY <1>2 DEF MaxThreads
  <2>2. (limit \div 32) * 32 = 32 * (limit \div 32)
    BY <2>1
  <2> QED BY <1>2, <2>1, <2>2 DEF Start, MultiplesOfWarp, WarpSize
<1> QED BY <1>1, <1>2 DEF Start, MaxThreads

\* A multiple above the next one to try is the one just tried, or above it.
LEMMA NextMultiple ==
  ASSUME NEW t \in MultiplesOfWarp, t > 0
  PROVE  /\ t \in BlockSizes /\ t - WarpSize \in MultiplesOfWarp /\ t \in Int
         /\ \A size \in BlockSizes : size > t - WarpSize => size = t \/ size > t
<1>1. PICK w \in 0 .. 32 : t = 32 * w
  BY DEF MultiplesOfWarp, WarpSize
<1>2. w \in 1 .. 32 /\ w - 1 \in 0 .. 32 /\ t - 32 = 32 * (w - 1)
  BY <1>1
<1>3. MaxThreads \div WarpSize = 32
  BY DEF MaxThreads, WarpSize
<1>4. t \in BlockSizes /\ t - 32 \in MultiplesOfWarp
  BY <1>1, <1>2, <1>3 DEF BlockSizes, MultiplesOfWarp, WarpSize
<1>5. ASSUME NEW size \in BlockSizes, size > t - 32 PROVE size = t \/ size > t
  <2>1. PICK v \in 1 .. 32 : size = 32 * v
    BY <1>3 DEF BlockSizes, WarpSize
  <2> QED BY <1>1, <1>5, <2>1
<1> QED BY <1>1, <1>4, <1>5 DEF WarpSize

LEMMA SearchStep == SearchInv /\ [Next]_vars => SearchInv'
<1> SUFFICES ASSUME SearchInv, [Next]_vars, dynamic' # <<>> PROVE Tried'
  BY QueryStep DEF SearchInv
<1>1. CASE Analyse
  BY <1>1 DEF Analyse, PressureNext, Visit, NextPass, Count, queryVars, SearchInv, QueryOK
<1>2. CASE \E limit \in Limits : Ask(limit)
  <2>1. PICK limit \in Limits : Ask(limit)
    BY <1>2
  <2>2. /\ top' = Start(limit) /\ trySize' = top' /\ ~answered'
        /\ bestThreads' = 0 /\ bestBlock' = 0
    BY <2>1 DEF Ask, SearchInv, QueryOK
  <2>3. top' \in MultiplesOfWarp /\ top' \in Int
    <3>1. top' \in MultiplesOfWarp
      BY <2>2, StartIsWholeWarps, QueryAssumption
    <3> QED BY <3>1, MultiplesAreNumbers
  <2>4. \A size \in BlockSizes : ~(trySize' < size /\ size <= top')
    BY <2>2, <2>3 DEF BlockSizes, WarpSize
  <2> QED BY <2>2, <2>3, <2>4 DEF Tried, MaxThreads
<1>3. CASE Try
  <2>1. /\ dynamic # <<>> /\ ~answered /\ trySize > 0 /\ bestThreads # MaxThreads
        /\ trySize' = trySize - WarpSize
        /\ UNCHANGED <<numRegs, static, dynamic, top, answered>>
    BY <1>3 DEF Try, Searching, pressureVars
  <2>2. Tried /\ QueryOK
    BY <2>1 DEF SearchInv
  <2>3. /\ trySize \in BlockSizes /\ trySize' \in MultiplesOfWarp /\ trySize \in Int
        /\ \A size \in BlockSizes : size > trySize' => size = trySize \/ size > trySize
    BY <2>1, <2>2, NextMultiple DEF Tried
  <2>4. trySize' < trySize /\ trySize' \in Int /\ top \in Int /\ trySize' <= top
    BY <2>1, <2>2, <2>3, MultiplesAreNumbers DEF Tried, WarpSize
  <2>5. /\ IF ThreadsAt(trySize) > bestThreads
             THEN bestThreads' = ThreadsAt(trySize) /\ bestBlock' = trySize
             ELSE bestThreads' = bestThreads /\ bestBlock' = bestBlock
    BY <1>3 DEF Try, Better, ThreadsAt
  <2>6. \A size \in BlockSizes : ThreadsAt(size)' = ThreadsAt(size)
    BY <2>1 DEF ThreadsAt, ActiveBlocks, RegLimit, SmemLimit, WarpLimit
  <2>7. \A size \in BlockSizes : /\ ThreadsAt(size) \in Int
                                 /\ ThreadsAt(size) <= MaxThreads /\ size \in Int
    BY <2>1, <2>2, ThreadsBounded
  <2>8. bestThreads \in 0 .. MaxThreads /\ bestBlock \in Int
    BY <2>2 DEF Tried
  <2>9. bestThreads' \in 0 .. MaxThreads /\ bestBlock' \in Int
    <3>1. ThreadsAt(trySize) \in Int /\ ThreadsAt(trySize) <= MaxThreads
      BY <2>3, <2>7
    <3>2. MaxThreads \in Nat
      BY DEF MaxThreads
    <3>3. CASE ThreadsAt(trySize) > bestThreads
      BY <2>3, <2>5, <2>8, <3>1, <3>2, <3>3
    <3>4. CASE ~(ThreadsAt(trySize) > bestThreads)
      BY <2>5, <2>8, <3>4
    <3> QED BY <3>3, <3>4
  <2>10. bestThreads' > 0 => trySize' < bestBlock'
    BY <2>2, <2>3, <2>4, <2>5, <2>8 DEF Tried
  <2>11. ASSUME NEW size \in BlockSizes, trySize' < size, size <= top
         PROVE  \/ ThreadsAt(size) < bestThreads'
                \/ /\ ThreadsAt(size) = bestThreads'
                   /\ size <= bestBlock' \/ ThreadsAt(size) = 0
    <3>1. CASE size = trySize
      <4>1. CASE ThreadsAt(trySize) > bestThreads
        BY <2>3, <2>5, <3>1, <4>1
      <4>2. CASE ~(ThreadsAt(trySize) > bestThreads)
        <5>1. ThreadsAt(size) <= bestThreads /\ bestThreads' = bestThreads
          BY <2>5, <2>7, <2>8, <3>1, <4>2
        <5>2. bestThreads > 0 => size <= bestBlock
          BY <2>2, <2>3, <2>8, <3>1 DEF Tried
        <5> QED BY <2>5, <2>7, <2>8, <4>2, <5>1, <5>2
      <4> QED BY <4>1, <4>2
    <3>2. CASE size > trySize
      <4>1. \/ ThreadsAt(size) < bestThreads
            \/ /\ ThreadsAt(size) = bestThreads
               /\ size <= bestBlock \/ ThreadsAt(size) = 0
        BY <2>2, <2>11, <3>2 DEF Tried
      <4> QED BY <2>3, <2>5, <2>7, <2>8, <4>1
    <3> QED BY <2>3, <2>11, <3>1, <3>2
  <2> QED BY <2>1, <2>2, <2>3, <2>4, <2>6, <2>9, <2>10, <2>11 DEF Tried
<1>4. CASE Answer \/ UNCHANGED vars
  <2>1. UNCHANGED <<numRegs, static, dynamic, top, trySize, bestThreads, bestBlock>>
    BY <1>4 DEF Answer, vars, queryVars, pressureVars
  <2>2. \A size \in BlockSizes : ThreadsAt(size)' = ThreadsAt(size)
    BY <2>1 DEF ThreadsAt, ActiveBlocks, RegLimit, SmemLimit, WarpLimit
  <2>3. answered' => answered \/ trySize <= 0 \/ bestThreads = MaxThreads
    BY <1>4 DEF Answer, vars
  <2> QED BY <2>1, <2>2, <2>3 DEF SearchInv, Tried
<1> QED BY <1>1, <1>2, <1>3, <1>4 DEF Next

LEMMA SearchInit == Init => SearchInv
BY PassInit DEF Init, PressureInit, SearchInv, QueryOK, AnalysisInv

LEMMA SearchSuffices == SearchInv => SearchFindsBest
<1> SUFFICES ASSUME SearchInv, answered, NEW size \in BlockSizes, size <= top
             PROVE  \/ ThreadsAt(size) < bestThreads
                    \/ /\ ThreadsAt(size) = bestThreads
                       /\ size <= bestBlock \/ ThreadsAt(size) = 0
  BY DEF SearchFindsBest, ThreadsAt
<1>1. Tried /\ QueryOK /\ dynamic # <<>>
  BY DEF SearchInv, QueryOK
<1>2. /\ ThreadsAt(size) \in Int /\ ThreadsAt(size) <= MaxThreads
      /\ size \in 1 .. MaxThreads
  BY <1>1, ThreadsBounded
<1>3. CASE trySize < size
  BY <1>1, <1>3 DEF Tried
<1>4. CASE ~(trySize < size)
  <2>1. trySize \in Int /\ size <= trySize /\ bestThreads = MaxThreads
    <3>1. trySize \in Int
      BY <1>1, MultiplesAreNumbers DEF Tried
    <3>2. size <= trySize
      BY <1>2, <1>4, <3>1
    <3> QED BY <1>1, <1>2, <3>1, <3>2 DEF Tried
  <2>2. bestBlock \in Int /\ size <= bestBlock
    BY <1>1, <1>2, <2>1 DEF Tried, MaxThreads
  <2> QED BY <1>2, <2>1, <2>2 DEF MaxThreads
<1> QED BY <1>3, <1>4

LEMMA SearchKept == Spec => []SearchInv
BY SearchInit, SearchStep, PTL DEF Spec

(* cudaOccupancyMaxPotentialBlockSize and its driver variant answer the    *)
(* best size up to the limit, and the largest of equally good ones: for    *)
(* every kernel, limit and callback, also when they stop at the first full *)
(* SM they meet.                                                           *)
THEOREM SearchIsRight == Spec => []SearchFindsBest
BY SearchKept, SearchSuffices, PTL

-----------------------------------------------------------------------------
(* What occ_available_dynamic_smem grants.                                 *)

\* The .shared bytes of the kernels and of an SM are numbers an int holds.
IntsAreWide == \A bytes \in StaticSizes \cup {SmemPerSm} : bytes < IntRange \div 2

\* The block's share of the SM in whole granules: blocks of that size fit,
\* with one granule more they do not.
Share(blocks) == IF blocks = 1 THEN SmemPerBlock ELSE SmemPerSm \div blocks
Granted(blocks) ==
  Min({Granularity * (Share(blocks) \div Granularity), SmemPerBlock})

LEMMA ShareIsTight ==
  ASSUME NEW blocks \in 1 .. MaxBlocks
  PROVE  /\ \E k \in 0 .. 192 : Granted(blocks) = 256 * k
         /\ Granted(blocks) <= 49152 /\ Granted(blocks) * blocks <= 65536
         /\ \/ Granted(blocks) + 256 > 49152
            \/ (Granted(blocks) + 256) * blocks > 65536
<1> DEFINE share == Share(blocks)
           avail == Granted(blocks)
           granules == 256 * (share \div 256)
<1>1. blocks \in Nat \ {0} /\ blocks <= 16
  BY DEF MaxBlocks
<1>2. /\ share \in Nat /\ share * blocks <= 65536
      /\ share >= 49152 \/ 65536 < blocks * share + blocks
  <2>1. CASE blocks = 1
    BY <2>1 DEF Share, SmemPerBlock
  <2>2. CASE blocks # 1
    BY <1>1, <2>2, DivBounds DEF Share, SmemPerSm
  <2> QED BY <2>1, <2>2
<1> HIDE DEF share
<1>3. /\ share \div 256 \in Nat /\ granules \in Nat /\ granules <= share
      /\ share < granules + 256
  BY <1>2, DivBounds
<1>4. avail = IF granules <= 49152 THEN granules ELSE 49152
  <2> HIDE DEF granules
  <2>1. Min({granules, 49152}) = IF granules <= 49152 THEN granules ELSE 49152
    BY <1>3, MinMaxOfTwo
  <2> QED BY <2>1 DEF Granularity, SmemPerBlock, Granted, share, granules
<1> HIDE DEF avail
<1>5. CASE granules <= 49152
  <2>1. avail = granules /\ share \div 256 \in 0 .. 192
    BY <1>3, <1>4, <1>5
  <2>2. granules * blocks <= share * blocks
    BY <1>1, <1>2, <1>3
  <2>3. granules + 256 > 49152 \/ (granules + 256) * blocks > 65536
    <3>1. CASE share >= 49152
      BY <1>2, <1>3, <3>1
    <3>2. CASE 65536 < blocks * share + blocks
      <4>1. (share + 1) * blocks <= (granules + 256) * blocks
        BY <1>1, <1>2, <1>3
      <4> QED BY <1>1, <1>2, <1>3, <3>2, <4>1
    <3> QED BY <1>2, <3>1, <3>2
  <2>4. granules * blocks <= 65536
    BY <1>1, <1>2, <1>3, <2>2
  <2> QED BY <1>5, <2>1, <2>3, <2>4 DEF avail
<1>6. CASE ~(granules <= 49152)
  <2>1. avail = 49152 /\ 49152 < share
    BY <1>2, <1>3, <1>4, <1>6
  <2>2. 49152 * blocks <= share * blocks
    BY <1>1, <1>2, <2>1
  <2>3. 49152 * blocks <= 65536
    BY <1>1, <1>2, <2>2
  <2>4. 49152 = 256 * 192 /\ 192 \in 0 .. 192
    OBVIOUS
  <2> QED BY <2>1, <2>3, <2>4 DEF avail
<1> QED BY <1>5, <1>6

LEMMA AsIntOfSmall ==
  ASSUME NEW x \in Nat, x < IntRange \div 2 PROVE AsInt(x) = x
<1>1. IntRange \in Nat \ {0}
  BY QueryAssumption
<1>2. x % IntRange = x
  BY <1>1
<1> QED BY <1>2 DEF AsInt

\* The limit by shared memory, as an int holds it.
LEMMA SmemLimitIs ==
  ASSUME NEW bytes \in Nat, static \in Nat, static + bytes < IntRange \div 2
  PROVE  /\ RoundUp(static + bytes, 256) \in Nat
         /\ SmemLimit(bytes)
              = IF RoundUp(static + bytes, 256) > 49152 THEN 0
                ELSE IF RoundUp(static + bytes, 256) = 0 THEN 16
                ELSE 65536 \div RoundUp(static + bytes, 256)
<1>1. RoundUp(static + bytes, 256) \in Nat
  <2>1. static + bytes \in Nat /\ 256 \in Nat \ {0}
    OBVIOUS
  <2> QED BY <2>1, RoundUpBounds
<1>2. AsInt(static + bytes) = static + bytes
  BY AsIntOfSmall
<1> QED BY <1>1, <1>2 DEF SmemLimit, Limit, Granularity, SmemPerBlock, SmemPerSm, MaxBlocks

\* What is granted fits `blocks` times, and nothing above it does.
LEMMA GrantFits ==
  ASSUME NEW blocks \in 1 .. MaxBlocks, NEW bytes \in Nat, static \in Nat,
         static + bytes < IntRange \div 2
  PROVE  /\ static + bytes = Granted(blocks) => blocks <= SmemLimit(bytes)
         /\ static + bytes > Granted(blocks) => SmemLimit(bytes) < blocks
<1> DEFINE all == static + bytes
           avail == Granted(blocks)
           limit == SmemLimit(bytes)
           rounded == RoundUp(static + bytes, 256)
<1>1. blocks \in Nat \ {0} /\ blocks <= 16
  BY DEF MaxBlocks
<1>2. PICK k \in 0 .. 192 : avail = 256 * k
  BY ShareIsTight
<1>3. /\ avail <= 49152 /\ avail * blocks <= 65536
      /\ avail + 256 > 49152 \/ (avail + 256) * blocks > 65536
  BY ShareIsTight
<1>4. /\ rounded \in Nat
      /\ limit = IF rounded > 49152 THEN 0
                 ELSE IF rounded = 0 THEN 16 ELSE 65536 \div rounded
  BY SmemLimitIs
<1>5. rounded = 256 * ((all + 255) \div 256)
  BY DEF RoundUp, DivUp
<1>6. ASSUME rounded # 0
      PROVE  LET q == 65536 \div rounded
             IN  q \in Nat /\ rounded * q <= 65536 /\ 65536 < rounded * q + rounded
  BY <1>4, <1>6, DivBounds
<1> HIDE DEF avail, limit, rounded
<1>7. ASSUME all = avail PROVE blocks <= limit
  <2>1. (256 * k + 255) \div 256 = k
    OBVIOUS
  <2>2. rounded = avail
    BY <1>2, <1>5, <1>7, <2>1
  <2>3. CASE rounded = 0
    BY <1>1, <1>4, <2>3
  <2>4. CASE rounded # 0
    <3> DEFINE q == 65536 \div rounded
    <3>1. limit = q /\ q \in Nat /\ 65536 < rounded * q + rounded
      BY <1>3, <1>4, <1>6, <2>2, <2>4
    <3> HIDE DEF q
    <3>2. rounded * blocks < rounded * (q + 1)
      BY <1>1, <1>3, <1>4, <2>2, <3>1
    <3>3. ASSUME q + 1 <= blocks PROVE FALSE
      <4>1. rounded * (q + 1) <= rounded * blocks
        BY <1>1, <1>4, <3>1, <3>3
      <4> QED BY <1>1, <1>4, <3>1, <3>2, <4>1
    <3> QED BY <1>1, <3>1, <3>3
  <2> QED BY <2>3, <2>4
<1>8. ASSUME all > avail PROVE limit < blocks
  <2>1. all \in Nat /\ all >= 256 * k + 1
    BY <1>2, <1>8
  <2>2. (all + 255) \div 256 >= k + 1
    BY <2>1
  <2>3. rounded >= avail + 256
    BY <1>2, <1>5, <2>1, <2>2
  <2>4. CASE rounded > 49152
    BY <1>1, <1>4, <2>4
  <2>5. CASE rounded <= 49152
    <3> DEFINE q == 65536 \div rounded
    <3>1. rounded # 0 /\ avail \in Nat
      BY <1>2, <2>3
    <3>2. limit = q /\ q \in Nat /\ rounded * q <= 65536
      BY <1>4, <1>6, <2>5, <3>1
    <3> HIDE DEF q
    <3>3. (avail + 256) * blocks > 65536
      BY <1>3, <1>4, <2>3, <2>5, <3>1
    <3>4. (avail + 256) * blocks <= rounded * blocks
      BY <1>1, <1>4, <2>3, <3>1
    <3>5. ASSUME blocks <= q PROVE FALSE
      <4>1. rounded * blocks <= rounded * q
        BY <1>1, <1>4, <3>2, <3>5
      <4> QED BY <1>1, <1>4, <3>1, <3>2, <3>3, <3>4, <4>1
    <3> QED BY <1>1, <3>2, <3>5
  <2> QED BY <1>4, <2>4, <2>5
<1> QED BY <1>7, <1>8 DEF avail, limit

(* occ_available_dynamic_smem grants the most dynamic shared memory with   *)
(* which occ_active_blocks still runs that many blocks, and refuses only   *)
(* when they do not run without any: for every kernel whose .shared bytes  *)
(* are a number that an int holds.                                         *)
THEOREM GrantIsTheMost == ASSUME IntsAreWide PROVE Spec => []GrantsTheMost
<1>1. ASSUME QueryOK, dynamic # <<>>, NEW size \in BlockSizes,
             NEW blocks \in 1 .. MaxBlocks
      PROVE  /\ \A bytes \in Available(blocks, size) :
                  /\ ActiveBlocks(size, bytes) >= blocks
                  /\ ActiveBlocks(size, bytes + 1) < blocks
             /\ Available(blocks, size) = {} => ActiveBlocks(size, 0) < blocks
  <2> DEFINE avail == Granted(blocks)
             most == Max({0, SmemPerBlock - static})
  <2>1. /\ numRegs \in Nat \ {0} /\ static \in Nat
        /\ static < IntRange \div 2 /\ 65536 < IntRange \div 2
        /\ IntRange \div 2 \in Int
    <3>1. static \in StaticSizes /\ numRegs \in Nat \ {0}
      BY <1>1 DEF QueryOK
    <3>2. static < IntRange \div 2 /\ SmemPerSm < IntRange \div 2
      BY <3>1 DEF IntsAreWide
    <3> QED BY <3>1, <3>2, QueryAssumption DEF SmemPerSm
  <2>2. avail \in Nat /\ avail <= 49152 /\ blocks \in Nat
    BY ShareIsTight
  <2>3. \A b \in Nat : /\ ActiveBlocks(size, b) \in Int /\ SmemLimit(b) \in Int
                       /\ ActiveBlocks(size, b) <= SmemLimit(b)
    BY <2>1, OccupancyIsLeast
  <2>4. Available(blocks, size)
          = IF ActiveBlocks(size, 0) < blocks \/ avail < static THEN {}
            ELSE {Min({avail - static, most})}
    BY DEF Available, Granted, Share
  <2>5. CASE ActiveBlocks(size, 0) < blocks
    BY <2>4, <2>5
  <2>6. CASE ~(ActiveBlocks(size, 0) < blocks) /\ avail < static
    <3>1. SmemLimit(0) < blocks
      BY <2>1, <2>2, <2>6, GrantFits
    <3> QED BY <2>2, <2>3, <2>6, <3>1
  <2>7. CASE ~(ActiveBlocks(size, 0) < blocks) /\ ~(avail < static)
    <3> DEFINE bytes == avail - static
    <3>1. bytes \in Nat /\ static + bytes = avail /\ static + (bytes + 1) = avail + 1
      BY <2>1, <2>2, <2>7
    <3>2. Min({bytes, most}) = bytes
      <4>1. SmemPerBlock - static \in Nat /\ bytes <= SmemPerBlock - static
        BY <2>1, <2>2, <2>7 DEF SmemPerBlock
      <4>2. most = SmemPerBlock - static
        BY <4>1, MinMaxOfTwo
      <4> HIDE DEF most, bytes
      <4> QED BY <3>1, <4>1, <4>2, MinMaxOfTwo
    <3>3. Available(blocks, size) = {bytes}
      BY <2>4, <2>7, <3>2
    <3> HIDE DEF bytes
    <3>4. blocks <= SmemLimit(bytes)
      <4>1. static + bytes < IntRange \div 2
        BY <2>1, <2>2, <3>1
      <4> QED BY <2>1, <3>1, <4>1, GrantFits
    <3>5. SmemLimit(bytes + 1) < blocks /\ bytes + 1 \in Nat
      <4>1. bytes + 1 \in Nat /\ static + (bytes + 1) > avail
            /\ static + (bytes + 1) < IntRange \div 2
        BY <2>1, <2>2, <3>1
      <4> QED BY <2>1, <4>1, GrantFits
    <3>6. ActiveBlocks(size, bytes) >= blocks
      <4>1. 0 \in Nat /\ blocks \in Int /\ blocks <= ActiveBlocks(size, 0)
        BY <2>2, <2>3, <2>7
      <4>2. blocks <= ActiveBlocks(size, bytes) /\ ActiveBlocks(size, bytes) \in Int
        BY <2>1, <3>1, <3>4, <4>1, OccupancyIsLeast
      <4> QED BY <2>2, <4>2
    <3>7. ActiveBlocks(size, bytes + 1) < blocks
      BY <2>2, <2>3, <3>5
    <3> QED BY <2>2, <2>3, <2>7, <3>3, <3>6, <3>7
  <2> QED BY <2>5, <2>6, <2>7
<1>2. SearchInv => GrantsTheMost
  BY <1>1 DEF SearchInv, GrantsTheMost
<1> QED BY SearchKept, <1>2, PTL

=============================================================================
