-------------------------- MODULE SimtToScf_proofs --------------------------
(***************************************************************************)
(* The pass rouge-to-scf, for every well-formed kernel and every launch:   *)
(* what it has cloned refers to nothing it erases, and its loops do what   *)
(* the launch does.                                                        *)
(***************************************************************************)
EXTENDS SimtToScf, FiniteSetTheorems, WellFoundedInduction, TLAPS

-----------------------------------------------------------------------------
(* Numbers and recursion.                                                  *)

\* A set of numbers has a lowest one.
LEMMA LowestNatural ==
  ASSUME NEW S \in SUBSET Nat, S # {}
  PROVE  \E x \in S : \A y \in S : x <= y
<1> DEFINE R == OpToRel(<, Nat)
<1>1. IsWellFoundedOn(R, Nat)
  BY NatLessThanWellFounded
<1>2. \A x, y \in Nat : <<y, x>> \in R <=> y < x
  BY DEF OpToRel
<1> HIDE DEF R
<1>3. PICK x \in S : \A y \in S : ~(<<y, x>> \in R)
  BY <1>1, WFMin
<1>4. \A y \in S : x \in Nat /\ y \in Nat /\ ~(y < x)
  BY <1>2, <1>3
<1> QED BY <1>4

\* A recursive definition f[i] = G[i][f] on the numbers of D, whose value at a
\* number depends only on those at smaller numbers, and what it means to solve it.
Recursion(D, V, G) ==
  /\ G \in [D -> [[D -> V] -> V]]
  /\ \A i \in D : \A p, q \in [D -> V] :
       (\A j \in D : j < i => p[j] = q[j]) => G[i][p] = G[i][q]

Solution(D, V, G, f) == f \in [D -> V] /\ \A i \in D : f[i] = G[i][f]

\* Such a recursion has a solution.
LEMMA RecursionExists ==
  ASSUME NEW N \in Nat, NEW D \in SUBSET (0 .. N), NEW V, V # {},
         NEW G, Recursion(D, V, G)
  PROVE  \E f : Solution(D, V, G, f)
<1> DEFINE Upto(n) == \E p \in [D -> V] : \A i \in D : i < n => p[i] = G[i][p]
           Fails == { n \in Nat : ~Upto(n) }
<1>0. G \in [D -> [[D -> V] -> V]] /\
      \A i \in D : \A p, q \in [D -> V] :
        (\A j \in D : j < i => p[j] = q[j]) => G[i][p] = G[i][q]
  BY DEF Recursion
<1>1. CASE Fails = {}
  <2>1. Upto(N + 1)
    <3> HIDE DEF Upto
    <3>1. N + 1 \in Nat
      OBVIOUS
    <3> QED BY <1>1, <3>1
  <2>2. PICK p \in [D -> V] : \A i \in D : i < N + 1 => p[i] = G[i][p]
    BY <2>1
  <2>3. \A i \in D : i < N + 1
    OBVIOUS
  <2> QED BY <2>2, <2>3 DEF Solution
<1>2. CASE Fails # {}
  <2>1. PICK n \in Fails : \A m \in Fails : n <= m
    BY <1>2, LowestNatural
  <2>2. n # 0
    <3>1. PICK v \in V : TRUE
      OBVIOUS
    <3>2. [i \in D |-> v] \in [D -> V] /\ \A i \in D : ~(i < 0)
      OBVIOUS
    <3>3. Upto(0)
      BY <3>2
    <3> QED BY <3>3
  <2>3. n - 1 \in Nat /\ Upto(n - 1)
    <3>1. n - 1 \in Nat /\ ~(n <= n - 1)
      BY <2>2
    <3> QED BY <2>1, <3>1
  <2>4. PICK p \in [D -> V] : \A i \in D : i < n - 1 => p[i] = G[i][p]
    BY <2>3
  <2> DEFINE q == [i \in D |-> IF i = n - 1 THEN G[i][p] ELSE p[i]]
  <2>5. q \in [D -> V]
    BY <1>0
  <2>6. \A i \in D : i < n - 1 => q[i] = p[i]
    OBVIOUS
  <2>7. \A i \in D : i = n - 1 => q[i] = G[i][p]
    OBVIOUS
  <2> HIDE DEF q
  <2>8. ASSUME NEW i \in D, i < n PROVE q[i] = G[i][q]
    <3>1. i <= n - 1
      BY <2>8
    <3>2. \A j \in D : j < i => q[j] = p[j]
      BY <2>6, <3>1
    <3>3. G[i][q] = G[i][p]
      BY <1>0, <2>5, <3>2
    <3>4. i < n - 1 \/ i = n - 1
      BY <3>1
    <3> QED BY <2>4, <2>6, <2>7, <3>3, <3>4
  <2>9. Upto(n)
    BY <2>5, <2>8
  <2> QED BY <2>9
<1> QED BY <1>1, <1>2

-----------------------------------------------------------------------------
(* The order of a program.                                                 *)

\* InOrder lists every member of a set once, in ascending order.
LEMMA InOrderLists ==
  ASSUME NEW N \in Nat, NEW S \in SUBSET (1 .. N)
  PROVE  /\ Cardinality(S) \in Nat
         /\ DOMAIN InOrder(S) = 1 .. Cardinality(S)
         /\ Len(InOrder(S)) = Cardinality(S)
         /\ InOrder(S) \in Seq(S)
         /\ \A n \in DOMAIN InOrder(S) :
              /\ InOrder(S)[n] \in S
              /\ Cardinality({ j \in S : j < InOrder(S)[n] }) = n - 1
         /\ \A i \in S : \E n \in DOMAIN InOrder(S) : InOrder(S)[n] = i
         /\ \A m, n \in DOMAIN InOrder(S) : m < n <=> InOrder(S)[m] < InOrder(S)[n]
<1> DEFINE Below(i) == { j \in S : j < i }
           c == Cardinality(S)
           f == [i \in S |-> Cardinality(Below(i)) + 1]
<1>0. \A i \in S : i \in Nat
  OBVIOUS
<1>1. IsFiniteSet(S) /\ c \in Nat
  <2>1. IsFiniteSet(1 .. N)
    BY FS_Interval
  <2>2. IsFiniteSet(S)
    BY <2>1, FS_Subset
  <2> QED BY <2>2, FS_CardinalityType
<1>2. \A i \in S : IsFiniteSet(Below(i)) /\ Cardinality(Below(i)) \in Nat
  BY <1>1, FS_Subset, FS_CardinalityType
<1>3. ASSUME NEW i \in S, NEW j \in S, i < j
      PROVE  Cardinality(Below(i)) < Cardinality(Below(j))
  <2>1. Below(i) \in SUBSET Below(j) /\ i \in Below(j) /\ i \notin Below(i)
    <3>1. i \in Nat /\ j \in Nat /\ \A x \in S : x \in Nat /\ (x < i => x < j)
      BY <1>0, <1>3
    <3>2. \A x \in Below(i) : x \in Below(j)
      BY <3>1
    <3>3. i \in Below(j) /\ ~(i \in Below(i))
      BY <1>3, <3>1
    <3> QED BY <3>2, <3>3
  <2>2. /\ Cardinality(Below(i)) <= Cardinality(Below(j))
        /\ Cardinality(Below(j)) = Cardinality(Below(i)) => Below(j) = Below(i)
    BY <1>2, <2>1, FS_Subset
  <2> QED BY <1>2, <2>1, <2>2
<1>4. ASSUME NEW i \in S PROVE Cardinality(Below(i)) < c
  <2>1. Below(i) \in SUBSET S /\ i \notin Below(i)
    OBVIOUS
  <2>2. Cardinality(Below(i)) <= c /\ (c = Cardinality(Below(i)) => S = Below(i))
    BY <1>1, <2>1, FS_Subset
  <2> QED BY <1>1, <1>2, <2>1, <2>2
<1>5. f \in Injection(S, 1 .. c)
  <2>1. \A i \in S : f[i] \in 1 .. c
    BY <1>1, <1>2, <1>4
  <2>2. \A i, j \in S : f[i] = f[j] => i = j
    <3> SUFFICES ASSUME NEW i \in S, NEW j \in S, i # j PROVE f[i] # f[j]
      OBVIOUS
    <3>1. i < j \/ j < i
      OBVIOUS
    <3>2. CASE i < j
      BY <1>2, <1>3, <3>2
    <3>3. CASE j < i
      BY <1>2, <1>3, <3>3
    <3> QED BY <3>1, <3>2, <3>3
  <2>3. f \in [S -> 1 .. c]
    BY <2>1
  <2> HIDE DEF f
  <2> QED BY <2>2, <2>3 DEF Injection, IsInjective
<1>6. f \in Surjection(S, 1 .. c)
  <2>1. IsFiniteSet(1 .. c) /\ Cardinality(1 .. c) = IF 1 > c THEN 0 ELSE c - 1 + 1
    BY <1>1, FS_Interval
  <2>2. Cardinality(1 .. c) = c
    BY <1>1, <2>1
  <2> HIDE DEF f
  <2> QED BY <1>5, <2>1, <2>2, FS_Injection
<1>7. \A n \in 1 .. c : \E i \in S : f[i] = n
  <2> HIDE DEF f
  <2> QED BY <1>6 DEF Surjection
<1>8. \A n \in 1 .. c : \E i \in S : Cardinality(Below(i)) = n - 1
  <2> TAKE n \in 1 .. c
  <2>1. PICK i \in S : f[i] = n
    BY <1>7
  <2>2. f[i] = Cardinality(Below(i)) + 1
    BY DEF f
  <2> QED BY <1>2, <2>1, <2>2
<1> DEFINE s == InOrder(S)
<1>9. s = [n \in 1 .. c |-> CHOOSE i \in S : Cardinality(Below(i)) = n - 1]
  BY DEF InOrder
<1>10. \A n \in 1 .. c : s[n] \in S /\ Cardinality(Below(s[n])) = n - 1
  <2> HIDE DEF c, f, s
  <2> QED BY <1>8, <1>9
<1> DEFINE r(i) == Cardinality(Below(i))
<1>11. /\ c \in Nat /\ \A i \in S : i \in Nat /\ r(i) \in Nat /\ r(i) < c
       /\ \A i, j \in S : i < j => r(i) < r(j)
       /\ \A n \in 1 .. c : s[n] \in S /\ r(s[n]) = n - 1
  BY <1>0, <1>1, <1>2, <1>3, <1>4, <1>10
<1> HIDE DEF c, f, s, r
<1>12. ASSUME NEW m \in 1 .. c, NEW n \in 1 .. c PROVE m < n <=> s[m] < s[n]
  <2>1. PICK x, y \in S : x = s[m] /\ y = s[n] /\ r(x) = m - 1 /\ r(y) = n - 1
    BY <1>11
  <2>2. x \in Nat /\ y \in Nat /\ m \in Int /\ n \in Int
    BY <1>11
  <2>3. (x < y => m - 1 < n - 1) /\ (y < x => n - 1 < m - 1) /\ (x = y => m - 1 = n - 1)
    BY <1>11, <2>1
  <2> QED BY <2>1, <2>2, <2>3
<1>14. ASSUME NEW i \in S PROVE \E n \in 1 .. c : s[n] = i
  <2>1. r(i) + 1 \in 1 .. c /\ (r(i) + 1) - 1 = r(i)
    BY <1>11
  <2>2. PICK x \in S : x = s[r(i) + 1] /\ r(x) = r(i)
    BY <1>11, <2>1
  <2>3. x \in Nat /\ i \in Nat /\ ~(x < i) /\ ~(i < x)
    BY <1>11, <2>2
  <2>4. x = i
    BY <2>3
  <2> QED BY <2>1, <2>2, <2>4
<1>13. s \in Seq(S) /\ DOMAIN s = 1 .. c /\ Len(s) = c
  <2>1. s \in [1 .. c -> S]
    BY <1>9, <1>11
  <2> QED BY <1>11, <2>1
<1> QED BY <1>11, <1>12, <1>13, <1>14 DEF s, c, r

-----------------------------------------------------------------------------
(* Kernels.                                                                *)

\* What WellFormed says of each operation, in the form the lemmas below use.
LEMMA KernelFacts ==
  ASSUME NEW k, WellFormed(k)
  PROVE  /\ Len(k) \in Nat /\ DOMAIN k = 1 .. Len(k)
         /\ \A i \in DOMAIN k :
              /\ i \in Nat /\ i > 0 /\ k[i] \in Operations
              /\ k[i].args \in Seq(Nat) /\ DOMAIN k[i].args = 1 .. Arity(k[i].op)
              /\ \A n \in DOMAIN k[i].args : k[i].args[n] \in Operands(k, i)
              /\ k[i].in \in Nat /\ k[i].buf \in Nat
         /\ \A i \in DOMAIN k : \A j \in Operands(k, i) :
              /\ j \in 0 .. i - 1 /\ j \in 0 .. Len(k)
              /\ j # 0 => /\ j \in DOMAIN k /\ k[j].in \in {0, k[i].in}
                          /\ k[j].op \notin {"store", "barrier", "if", "alloc"}
         /\ \A i \in DOMAIN k : k[i].in # 0 =>
              /\ k[i].in \in DOMAIN k /\ k[i].in < i
              /\ k[k[i].in].op = "if" /\ k[k[i].in].in = 0
              /\ \A j \in k[i].in + 1 .. i : k[j].in = k[i].in
              /\ k[i].op \notin Ids \cup Sizes \cup {"alloc", "if"}
         /\ \A i \in DOMAIN k : k[i].buf # 0 =>
              k[i].buf \in DOMAIN k /\ k[k[i].buf].op = "alloc"
<1>1. k \in Seq(Operations) /\ Len(k) \in Nat /\ DOMAIN k = 1 .. Len(k)
  BY DEF WellFormed
<1>2. \A i \in DOMAIN k : i \in Nat /\ i > 0 /\ k[i] \in Operations
  BY <1>1
<1>3. ASSUME NEW i \in DOMAIN k
      PROVE  /\ k[i].args \in Seq(Nat) /\ DOMAIN k[i].args = 1 .. Arity(k[i].op)
             /\ \A n \in DOMAIN k[i].args : k[i].args[n] \in Operands(k, i)
             /\ k[i].in \in Nat /\ k[i].buf \in Nat
  <2>1. k[i].args \in Seq(Nat) /\ k[i].in \in Nat /\ k[i].buf \in Nat
    BY <1>2 DEF Operations
  <2>2. Len(k[i].args) = Arity(k[i].op)
    BY DEF WellFormed
  <2> QED BY <2>1, <2>2 DEF Operands, ToSet
<1>4. ASSUME NEW i \in DOMAIN k, NEW j \in Operands(k, i)
      PROVE  /\ j \in 0 .. i - 1 /\ j \in 0 .. Len(k)
             /\ j # 0 => /\ j \in DOMAIN k /\ k[j].in \in {0, k[i].in}
                         /\ k[j].op \notin {"store", "barrier", "if", "alloc"}
  <2>1. j \in Nat
    BY <1>3 DEF Operands, ToSet
  <2>2. j # 0 => /\ j < i /\ k[j].in \in {0, k[i].in}
                 /\ k[j].op \notin {"store", "barrier", "if", "alloc"}
    BY DEF WellFormed
  <2> QED BY <1>1, <1>2, <2>1, <2>2
<1>5. ASSUME NEW i \in DOMAIN k, k[i].in # 0
      PROVE  /\ k[i].in \in DOMAIN k /\ k[i].in < i
             /\ k[k[i].in].op = "if" /\ k[k[i].in].in = 0
             /\ \A j \in k[i].in + 1 .. i : k[j].in = k[i].in
             /\ k[i].op \notin Ids \cup Sizes \cup {"alloc", "if"}
  <2>1. /\ k[i].in < i /\ k[k[i].in].op = "if" /\ k[k[i].in].in = 0
        /\ \A j \in k[i].in + 1 .. i : k[j].in = k[i].in
        /\ k[i].op \notin Ids \cup Sizes \cup {"alloc", "if"}
    BY <1>5 DEF WellFormed
  <2> QED BY <1>1, <1>2, <1>3, <1>5, <2>1
<1>6. ASSUME NEW i \in DOMAIN k, k[i].buf # 0
      PROVE  k[i].buf \in DOMAIN k /\ k[k[i].buf].op = "alloc"
  <2>1. k[i].buf < i /\ k[k[i].buf].op = "alloc"
    BY <1>6 DEF WellFormed
  <2> QED BY <1>1, <1>2, <1>3, <1>6, <2>1
<1> QED BY <1>1, <1>2, <1>3, <1>4, <1>5, <1>6

\* The operands of an operation are before it.
LEMMA Arguments ==
  ASSUME NEW k, WellFormed(k), NEW i \in DOMAIN k
  PROVE  /\ \A n \in 1 .. Arity(k[i].op) :
              /\ n \in DOMAIN k[i].args /\ k[i].args[n] \in Operands(k, i)
              /\ k[i].args[n] \in 0 .. i - 1 /\ k[i].args[n] \in 0 .. Len(k)
         /\ k[i].op \in {"sum", "store", "atomic"} => Arity(k[i].op) = 2
         /\ k[i].op \in {"load", "if"} => Arity(k[i].op) = 1
         /\ k[i].op \notin {"sum", "store", "atomic", "load", "if"} => Arity(k[i].op) = 0
<1>1. DOMAIN k[i].args = 1 .. Arity(k[i].op)
  BY KernelFacts
<1>2. \A n \in DOMAIN k[i].args : k[i].args[n] \in Operands(k, i)
  BY KernelFacts
<1>3. \A j \in Operands(k, i) : j \in 0 .. i - 1 /\ j \in 0 .. Len(k)
  BY KernelFacts
<1> QED BY <1>1, <1>2, <1>3 DEF Arity

\* What does not depend on the thread uses nothing that does, although the
\* search gives up at some depth.
LEMMA IndependentOperands ==
  ASSUME NEW k, WellFormed(k), NEW i \in DOMAIN k \ ThreadDependent(k)
  PROVE  /\ k[i].op # "thread_id"
         /\ \A j \in Operands(k, i) \ {0} : j \in DOMAIN k \ ThreadDependent(k)
<1> DEFINE D == 0 .. MaxDepth + 1
           Step(below) == { j \in DOMAIN k :
                              \/ k[j].op = "thread_id"
                              \/ (Operands(k, j) \cup Inner(k, j)) \cap below # {} }
           Solves(dep) == dep = [left \in D |-> IF left = 0 THEN DOMAIN k
                                                ELSE Step(dep[left - 1])]
           V == SUBSET DOMAIN k
           G == [left \in D |-> [p \in [D -> V] |->
                   IF left = 0 THEN DOMAIN k ELSE Step(p[left - 1])]]
<1>0. MaxDepth + 1 \in Nat /\ D \in SUBSET (0 .. MaxDepth + 1) /\ V # {}
  BY DepthAssumption
<1>1. \E dep : Solves(dep)
  <2>1. \A x : Step(x) \in V
    OBVIOUS
  <2> HIDE DEF Step
  <2>2. G \in [D -> [[D -> V] -> V]]
    BY <2>1
  <2>3. \A n \in D : \A p, q \in [D -> V] :
          (\A j \in D : j < n => p[j] = q[j]) => G[n][p] = G[n][q]
    <3> SUFFICES ASSUME NEW n \in D, NEW p \in [D -> V], NEW q \in [D -> V],
                        \A j \in D : j < n => p[j] = q[j]
                 PROVE  G[n][p] = G[n][q]
      OBVIOUS
    <3>1. n # 0 => n - 1 \in D /\ n - 1 < n
      BY DepthAssumption
    <3> QED BY <3>1
  <2>4. Recursion(D, V, G)
    <3> HIDE DEF D, V, G
    <3> QED BY <2>2, <2>3 DEF Recursion
  <2> HIDE DEF D, V, G
  <2>7. PICK f : Solution(D, V, G, f)
    BY <1>0, <2>4, RecursionExists
  <2>5. \A n \in D : f[n] = IF n = 0 THEN DOMAIN k ELSE Step(f[n - 1])
    BY <2>7 DEF G, Solution
  <2>8. f = [n \in D |-> f[n]]
    BY <2>7 DEF Solution
  <2>9. Solves(f)
    BY <2>5, <2>8
  <2> HIDE DEF Solves
  <2> QED BY <2>9
<1> DEFINE dep == CHOOSE dep : Solves(dep)
<1>2. Solves(dep)
  BY <1>1
<1>3. ThreadDependent(k) = dep[MaxDepth + 1]
  BY DEF ThreadDependent
<1> HIDE DEF dep
<1>4. dep[0] = DOMAIN k /\ \A n \in 0 .. MaxDepth : dep[n + 1] = Step(dep[n])
  <2>1. \A n \in D : dep[n] = IF n = 0 THEN DOMAIN k ELSE Step(dep[n - 1])
    BY <1>2
  <2>2. 0 \in D
    BY DepthAssumption
  <2>3. ASSUME NEW n \in 0 .. MaxDepth PROVE dep[n + 1] = Step(dep[n])
    <3>1. n + 1 \in D /\ n + 1 # 0 /\ n + 1 - 1 = n
      BY DepthAssumption
    <3> HIDE DEF Step, D
    <3> QED BY <2>1, <3>1
  <2> HIDE DEF Step, D
  <2> QED BY <2>1, <2>2, <2>3
<1>5. \A n \in 0 .. MaxDepth : dep[n + 1] \subseteq dep[n]
  <2> DEFINE Fails == { n \in 0 .. MaxDepth : ~(dep[n + 1] \subseteq dep[n]) }
  <2> SUFFICES ASSUME Fails # {} PROVE FALSE
    OBVIOUS
  <2>1. PICK n \in Fails : \A m \in Fails : n <= m
    <3>1. Fails \in SUBSET Nat
      BY DepthAssumption
    <3> HIDE DEF Fails
    <3> QED BY <3>1, LowestNatural
  <2>2. n \in 0 .. MaxDepth /\ dep[n + 1] = Step(dep[n])
    BY <1>4
  <2>3. CASE n = 0
    BY <1>4, <2>2, <2>3
  <2>4. CASE n # 0
    <3>1. n - 1 \in 0 .. MaxDepth /\ ~(n <= n - 1) /\ (n - 1) + 1 = n
      BY <2>2, <2>4, DepthAssumption
    <3>2. dep[n] \subseteq dep[n - 1] /\ dep[n] = Step(dep[n - 1])
      BY <1>4, <2>1, <3>1
    <3>3. Step(dep[n]) \subseteq Step(dep[n - 1])
      BY <3>2
    <3> QED BY <2>1, <2>2, <3>2, <3>3
  <2> QED BY <2>3, <2>4
<1>6. MaxDepth \in 0 .. MaxDepth
  BY DepthAssumption
<1>7. i \notin Step(dep[MaxDepth]) /\ dep[MaxDepth + 1] \subseteq dep[MaxDepth]
  BY <1>3, <1>4, <1>5, <1>6
<1>8. ASSUME NEW j \in Operands(k, i) \ {0}
      PROVE  j \in DOMAIN k \ ThreadDependent(k)
  <2>1. j \in DOMAIN k
    BY KernelFacts
  <2>2. j \notin dep[MaxDepth]
    BY <1>7
  <2> QED BY <1>3, <1>7, <2>1, <2>2
<1> QED BY <1>7, <1>8

-----------------------------------------------------------------------------
(* The launch's own names.                                                 *)

\* The abstract launch is an instance with the same constants: its names for the
\* machine mean the same.
LEMMA LaunchNames ==
  /\ Launch!Blocks = Blocks /\ Launch!Threads = Threads
  /\ Launch!Sizes = Sizes /\ Launch!Accesses = Accesses /\ Launch!Effects = Effects
  /\ \A k, kinds : Launch!Kinds(k, kinds) = Kinds(k, kinds)
  /\ \A kind : Launch!SizeOf(kind) = SizeOf(kind)
  /\ \A kind, values : Launch!Compute(kind, values) = Compute(kind, values)
  /\ \A buf, b, a : Launch!Cell(buf, b, a) = Cell(buf, b, a)
  /\ \A k : Launch!EmptyMemory(k) = EmptyMemory(k)
  /\ \A m, kind, c, values : Launch!MemoryAfter(m, kind, c, values)
                               = MemoryAfter(m, kind, c, values)
  /\ \A m, kind, c : Launch!ResultOf(m, kind, c) = ResultOf(m, kind, c)
<1>1. Launch!Blocks = Blocks /\ Launch!Threads = Threads
  BY DEF Launch!Blocks, Launch!Threads, Blocks, Threads
<1>2. /\ Launch!Sizes = Sizes /\ Launch!Accesses = Accesses
      /\ Launch!Effects = Effects
  BY DEF Launch!Sizes, Launch!Accesses, Launch!Effects, Sizes, Accesses, Effects
<1>3. \A k, kinds : Launch!Kinds(k, kinds) = Kinds(k, kinds)
  BY DEF Launch!Kinds, Kinds
<1>4. \A kind : Launch!SizeOf(kind) = SizeOf(kind)
  BY DEF Launch!SizeOf, SizeOf
<1>5. \A kind, values : Launch!Compute(kind, values) = Compute(kind, values)
  BY DEF Launch!Compute, Compute
<1>6. \A buf, b, a : Launch!Cell(buf, b, a) = Cell(buf, b, a)
  BY DEF Launch!Cell, Cell
<1>7. \A k : Launch!EmptyMemory(k) = EmptyMemory(k)
  <2> TAKE k
  <2>1. Launch!Kinds(k, {"alloc"}) = Kinds(k, {"alloc"})
    BY <1>3
  <2> QED BY <1>1, <1>6, <2>1 DEF Launch!EmptyMemory, EmptyMemory
<1>8. \A m, kind, c, values :
        Launch!MemoryAfter(m, kind, c, values) = MemoryAfter(m, kind, c, values)
  BY DEF Launch!MemoryAfter, MemoryAfter
<1>9. \A m, kind, c : Launch!ResultOf(m, kind, c) = ResultOf(m, kind, c)
  BY DEF Launch!ResultOf, ResultOf
<1> QED BY <1>1, <1>2, <1>3, <1>4, <1>5, <1>6, <1>7, <1>8, <1>9

-----------------------------------------------------------------------------
(* The values of a thread of the launch.                                   *)

\* What a thread has got are values.
Held(k, g) == \A e \in Kinds(k, Effects) \cap DOMAIN g : g[e] \in Nat

Operation == Ids \cup Sizes \cup Effects \cup Computations \cup {"alloc", "if"}

Plus(a, b) == (a + b) % Cells

\* The result of an operation for a thread that has got g.
Result(g, e) == IF e \in DOMAIN g THEN g[e] ELSE 0

\* The value of operation i, by its kind.
Equation(k, b, t, g, v, i) ==
  /\ k[i].op = "thread_id" => v[i] = t
  /\ k[i].op = "block_id" => v[i] = b
  /\ k[i].op \in Sizes => v[i] = SizeOf(k[i].op)
  /\ k[i].op \in Effects => v[i] = Result(g, i)
  /\ k[i].op \in {"alloc", "if"} => v[i] = 0
  /\ k[i].op = "constant" => v[i] = 1
  /\ k[i].op = "sum" => v[i] = Plus(v[k[i].args[1]], v[k[i].args[2]])

\* What Launch!Values computes.
LEMMA ValuesEquations ==
  ASSUME NEW k, WellFormed(k), NEW b \in Nat, NEW t \in Nat, NEW g, Held(k, g),
         NEW v, v = Launch!Values(k, b, t, g)
  PROVE  /\ v \in [0 .. Len(k) -> Nat] /\ v[0] = Parameter
         /\ \A i \in DOMAIN k : Equation(k, b, t, g, v, i)
<1> DEFINE D == 0 .. Len(k)
           F(w, i) ==
             IF i = 0 THEN Parameter
             ELSE CASE k[i].op = "thread_id" -> t
                    [] k[i].op = "block_id" -> b
                    [] k[i].op \in Sizes -> SizeOf(k[i].op)
                    [] k[i].op \in Effects -> IF i \in DOMAIN g THEN g[i] ELSE 0
                    [] k[i].op \in {"alloc", "if"} -> 0
                    [] OTHER -> Compute(k[i].op,
                                        [n \in DOMAIN k[i].args |-> w[k[i].args[n]]])
           L(w, i) ==
             IF i = 0 THEN Parameter
             ELSE CASE k[i].op = "thread_id" -> t
                    [] k[i].op = "block_id" -> b
                    [] k[i].op \in Launch!Sizes -> Launch!SizeOf(k[i].op)
                    [] k[i].op \in Launch!Effects -> IF i \in DOMAIN g THEN g[i] ELSE 0
                    [] k[i].op \in {"alloc", "if"} -> 0
                    [] OTHER -> Launch!Compute(k[i].op,
                                        [n \in DOMAIN k[i].args |-> w[k[i].args[n]]])
           Solves(w) == w = [i \in D |-> L(w, i)]
           Typed(w, i) == k[i].op = "sum" => /\ w[k[i].args[1]] \in Nat
                                             /\ w[k[i].args[2]] \in Nat
<1>0. /\ Len(k) \in Nat /\ D \in SUBSET (0 .. Len(k)) /\ DOMAIN k = 1 .. Len(k)
      /\ Cells \in Nat \ {0} /\ Parameter \in Nat /\ BlockSize \in Nat /\ GridSize \in Nat
      /\ \A i \in DOMAIN k : k[i].op \in Operation
  BY KernelFacts, SimtAssumption DEF Operations, Operation
<1>1. ASSUME NEW i \in DOMAIN k, k[i].op = "sum"
      PROVE  /\ DOMAIN k[i].args = 1 .. 2 /\ 1 \in DOMAIN k[i].args /\ 2 \in DOMAIN k[i].args
             /\ k[i].args[1] \in 0 .. i - 1 /\ k[i].args[2] \in 0 .. i - 1
             /\ k[i].args[1] \in D /\ k[i].args[2] \in D
  <2>1. DOMAIN k[i].args = 1 .. 2
    BY <1>1, KernelFacts DEF Arity
  <2>2. k[i].args[1] \in Operands(k, i) /\ k[i].args[2] \in Operands(k, i)
    BY <2>1, KernelFacts
  <2> QED BY <2>1, <2>2, KernelFacts
\* What one step gives.
<1>14. \A w, i : L(w, i) = F(w, i)
  <2> TAKE w, i
  <2>1. Launch!Compute(k[i].op, [n \in DOMAIN k[i].args |-> w[k[i].args[n]]])
          = Compute(k[i].op, [n \in DOMAIN k[i].args |-> w[k[i].args[n]]])
    BY LaunchNames
  <2>2. Launch!SizeOf(k[i].op) = SizeOf(k[i].op)
    BY LaunchNames
  <2> QED BY <2>1, <2>2, LaunchNames
<1>2. \A w : F(w, 0) = Parameter
  OBVIOUS
<1>3. ASSUME NEW w, NEW i \in DOMAIN k
      PROVE  /\ k[i].op = "thread_id" => F(w, i) = t
             /\ k[i].op = "block_id" => F(w, i) = b
             /\ k[i].op \in Sizes => F(w, i) = SizeOf(k[i].op)
             /\ k[i].op \in Effects => F(w, i) = IF i \in DOMAIN g THEN g[i] ELSE 0
             /\ k[i].op \in {"alloc", "if"} => F(w, i) = 0
             /\ k[i].op = "constant" => F(w, i) = 1
             /\ k[i].op = "sum" => F(w, i) = Plus(w[k[i].args[1]], w[k[i].args[2]])
  <2>1. i # 0 /\ k[i].op \in Operation
    BY <1>0
  <2>2. CASE k[i].op \in Ids \cup Sizes
    BY <2>1, <2>2 DEF Ids, Sizes, Effects, Accesses
  <2>3. CASE k[i].op \in Effects
    BY <2>1, <2>3 DEF Ids, Sizes, Effects, Accesses
  <2>4. CASE k[i].op \in {"alloc", "if"}
    BY <2>1, <2>4 DEF Ids, Sizes, Effects, Accesses
  <2>5. CASE k[i].op = "constant"
    <3>1. F(w, i) = Compute("constant", [n \in DOMAIN k[i].args |-> w[k[i].args[n]]])
      BY <2>1, <2>5 DEF Ids, Sizes, Effects, Accesses
    <3> QED BY <2>5, <3>1 DEF Compute, Ids, Sizes, Effects, Accesses
  <2>6. CASE k[i].op = "sum"
    <3> DEFINE values == [n \in DOMAIN k[i].args |-> w[k[i].args[n]]]
    <3>1. F(w, i) = Compute("sum", values)
      BY <2>1, <2>6 DEF Ids, Sizes, Effects, Accesses
    <3>2. values[1] = w[k[i].args[1]] /\ values[2] = w[k[i].args[2]]
      BY <1>1, <2>6
    <3> HIDE DEF values, F
    <3> QED BY <2>6, <3>1, <3>2 DEF Compute, Plus, Ids, Sizes, Effects, Accesses
  <2> QED BY <2>1, <2>2, <2>3, <2>4, <2>5, <2>6 DEF Operation, Computations
<1> HIDE DEF F, L
<1>4. ASSUME NEW w, NEW i \in D, i # 0 => Typed(w, i)
      PROVE  F(w, i) \in Nat
  <2>1. CASE i = 0
    BY <1>0, <1>2, <2>1
  <2>2. CASE i # 0
    <3>1. i \in DOMAIN k /\ k[i].op \in Operation
      BY <1>0, <2>2
    <3>2. CASE k[i].op \in Effects
      <4>1. i \in DOMAIN g => g[i] \in Nat
        BY <3>1, <3>2 DEF Held, Kinds
      <4> QED BY <1>3, <3>1, <3>2, <4>1
    <3>3. CASE k[i].op \in Sizes
      BY <1>0, <1>3, <3>1, <3>3 DEF SizeOf
    <3>4. CASE k[i].op = "sum"
      <4>1. w[k[i].args[1]] \in Nat /\ w[k[i].args[2]] \in Nat
        BY <1>4, <2>2, <3>4
      <4>2. F(w, i) = Plus(w[k[i].args[1]], w[k[i].args[2]])
        BY <1>3, <3>1, <3>4
      <4> QED BY <1>0, <4>1, <4>2 DEF Plus
    <3>5. CASE k[i].op \in Ids \cup {"alloc", "if", "constant"}
      BY <1>3, <3>1, <3>5 DEF Ids
    <3> QED BY <3>1, <3>2, <3>3, <3>4, <3>5 DEF Operation, Computations
  <2> QED BY <2>1, <2>2
<1>5. ASSUME NEW w, NEW u, NEW i \in D, \A j \in D : j < i => w[j] = u[j]
      PROVE  F(w, i) = F(u, i)
  <2>1. CASE i = 0
    BY <1>2, <2>1
  <2>2. CASE i # 0
    <3>1. i \in DOMAIN k /\ k[i].op \in Operation
      BY <1>0, <2>2
    <3>2. CASE k[i].op = "sum"
      <4>1. w[k[i].args[1]] = u[k[i].args[1]] /\ w[k[i].args[2]] = u[k[i].args[2]]
        BY <1>0, <1>1, <1>5, <3>1, <3>2
      <4> QED BY <1>3, <3>1, <3>2, <4>1
    <3>3. CASE k[i].op # "sum"
      BY <1>3, <3>1, <3>3 DEF Operation, Computations, Ids
    <3> QED BY <3>2, <3>3
  <2> QED BY <2>1, <2>2
\* There is such a function.
<1>6. \E w : Solves(w)
  <2> DEFINE G == [i \in D |-> [w \in [D -> Nat] |-> F(w, i)]]
  <2>1. ASSUME NEW w \in [D -> Nat], NEW i \in D PROVE F(w, i) \in Nat
    <3>1. i # 0 => Typed(w, i)
      BY <1>0, <1>1
    <3> QED BY <1>4, <3>1
  <2>2. G \in [D -> [[D -> Nat] -> Nat]]
    BY <2>1
  <2>3. ASSUME NEW i \in D, NEW p \in [D -> Nat], NEW q \in [D -> Nat],
               \A j \in D : j < i => p[j] = q[j]
        PROVE  G[i][p] = G[i][q]
    BY <1>5, <2>3
  <2>4. Recursion(D, Nat, G)
    <3> HIDE DEF D, G
    <3> QED BY <2>2, <2>3 DEF Recursion
  <2>5. Nat # {}
    OBVIOUS
  <2> HIDE DEF D, G
  <2>6. PICK f : Solution(D, Nat, G, f)
    BY <1>0, <2>4, <2>5, RecursionExists
  <2>7. f \in [D -> Nat] /\ \A i \in D : f[i] = F(f, i)
    BY <2>6 DEF Solution, G
  <2>8. f = [i \in D |-> L(f, i)]
    BY <1>14, <2>7
  <2> QED BY <2>8
<1>7. v = [i \in D |-> F(v, i)]
  <2>1. v = CHOOSE w : Solves(w)
    BY DEF Launch!Values, L
  <2> HIDE DEF Solves
  <2>2. Solves(v)
    BY <1>6, <2>1
  <2> QED BY <1>14, <2>2 DEF Solves
<1>8. \A i \in D : v[i] = F(v, i)
  BY <1>7
\* Its values are numbers.
<1>9. \A i \in D : v[i] \in Nat
  <2> DEFINE Fails == { i \in D : v[i] \notin Nat }
  <2> SUFFICES ASSUME Fails # {} PROVE FALSE
    OBVIOUS
  <2>1. PICK i \in Fails : \A j \in Fails : i <= j
    <3>1. Fails \in SUBSET Nat
      OBVIOUS
    <3> HIDE DEF Fails
    <3> QED BY <3>1, LowestNatural
  <2>2. i # 0 => Typed(v, i)
    <3> SUFFICES ASSUME i # 0, k[i].op = "sum"
                 PROVE  v[k[i].args[1]] \in Nat /\ v[k[i].args[2]] \in Nat
      OBVIOUS
    <3>1. i \in DOMAIN k
      BY <1>0
    <3>2. \A j \in D : j < i => v[j] \in Nat
      BY <2>1
    <3> QED BY <1>1, <3>1, <3>2
  <2> QED BY <1>4, <1>8, <2>1, <2>2
<1>10. v \in [D -> Nat]
  BY <1>7, <1>9
<1>11. 0 \in D /\ \A i \in DOMAIN k : i \in D
  BY <1>0
<1> HIDE DEF D
<1>12. v[0] = Parameter
  BY <1>2, <1>8, <1>11
<1>13. \A i \in DOMAIN k : v[i] = F(v, i)
  BY <1>8, <1>11
<1>15. \A i \in DOMAIN k : Equation(k, b, t, g, v, i)
  BY <1>3, <1>13 DEF Equation, Result
<1> QED BY <1>10, <1>12, <1>15 DEF D


\* A value depends on the results of the operations up to it and no others.
LEMMA ValuesStable ==
  ASSUME NEW k, WellFormed(k), NEW b \in Nat, NEW t \in Nat,
         NEW g, Held(k, g), NEW h, Held(k, h), NEW n \in 0 .. Len(k),
         \A e \in Kinds(k, Effects) : e <= n => Result(g, e) = Result(h, e)
  PROVE  Launch!Values(k, b, t, g)[n] = Launch!Values(k, b, t, h)[n]
<1> DEFINE v == Launch!Values(k, b, t, g)
           w == Launch!Values(k, b, t, h)
           Fails == { i \in 0 .. n : v[i] # w[i] }
<1>1. PICK x : x = v
  OBVIOUS
<1>2. PICK y : y = w
  OBVIOUS
<1>3. /\ Len(k) \in Nat /\ DOMAIN k = 1 .. Len(k)
      /\ \A i \in DOMAIN k : k[i].op \in Operation
  BY KernelFacts DEF Operations, Operation
<1> SUFFICES ASSUME Fails # {} PROVE FALSE
  BY <1>3
<1>4. PICK i \in Fails : \A j \in Fails : i <= j
  <2>1. Fails \in SUBSET Nat
    BY <1>3
  <2> HIDE DEF Fails
  <2> QED BY <2>1, LowestNatural
<1>5. i \in 0 .. n /\ x[i] # y[i] /\ \A j \in 0 .. n : j < i => x[j] = y[j]
  BY <1>1, <1>2, <1>3, <1>4
<1>6. i # 0
  BY <1>1, <1>2, <1>5, ValuesEquations
<1>7. i \in DOMAIN k /\ i <= n /\ k[i].op \in Operation
  BY <1>3, <1>5, <1>6
<1> HIDE DEF v, w, Fails
<1>11. Equation(k, b, t, g, x, i) /\ Equation(k, b, t, h, y, i)
  BY <1>1, <1>2, <1>7, ValuesEquations DEF v, w
<1>8. CASE k[i].op \in Ids \cup Sizes \cup {"alloc", "if", "constant"}
  BY <1>5, <1>8, <1>11 DEF Ids, Equation
<1>9. CASE k[i].op \in Effects
  <2>1. Result(g, i) = Result(h, i)
    BY <1>7, <1>9 DEF Kinds
  <2>2. x[i] = Result(g, i) /\ y[i] = Result(h, i)
    BY <1>9, <1>11 DEF Equation
  <2> QED BY <1>5, <2>1, <2>2
<1>10. CASE k[i].op = "sum"
  <2>3. k[i].args[1] \in 0 .. i - 1 /\ k[i].args[2] \in 0 .. i - 1
    <3>1. Arity(k[i].op) = 2
      BY <1>7, <1>10, Arguments
    <3> QED BY <1>7, <3>1, Arguments
  <2>4. x[k[i].args[1]] = y[k[i].args[1]] /\ x[k[i].args[2]] = y[k[i].args[2]]
    BY <1>5, <2>3
  <2>5. /\ x[i] = Plus(x[k[i].args[1]], x[k[i].args[2]])
        /\ y[i] = Plus(y[k[i].args[1]], y[k[i].args[2]])
    BY <1>10, <1>11 DEF Equation
  <2> QED BY <1>5, <2>4, <2>5
<1> QED BY <1>7, <1>8, <1>9, <1>10 DEF Operation, Computations

-----------------------------------------------------------------------------
(* What is cloned where.                                                   *)

\* An invariant computes, from the parameter, the block, the sizes and other
\* invariants alone.
LEMMA InvariantOperands ==
  ASSUME NEW k, WellFormed(k), ~UsesLoaded(k), NEW i \in Invariants(k)
  PROVE  /\ i \in DOMAIN k /\ k[i].in = 0 /\ k[i].op \in {"constant", "sum", "alloc"}
         /\ \A j \in Operands(k, i) \ {0} :
              /\ j \in DOMAIN k /\ j < i
              /\ k[j].op = "block_id" \/ k[j].op \in Sizes \/ j \in Invariants(k)
<1>1. /\ i \in DOMAIN k \ ThreadDependent(k) /\ k[i].in = 0
      /\ k[i].op \notin {"barrier"} \cup Ids \cup Sizes /\ ~ReadsOrWrites(k, i)
  BY DEF Invariants, Clonable, TopLevel, Kinds
<1>2. k[i].op \in {"constant", "sum", "alloc"}
  BY <1>1, KernelFacts DEF ReadsOrWrites, Operations, Effects, Computations
<1>3. ASSUME NEW j \in Operands(k, i) \ {0}
      PROVE  /\ j \in DOMAIN k /\ j < i
             /\ k[j].op = "block_id" \/ k[j].op \in Sizes \/ j \in Invariants(k)
  <2>1. j \in DOMAIN k \ ThreadDependent(k)
    BY <1>1, IndependentOperands
  <2>2. k[j].op # "thread_id"
    BY <2>1, IndependentOperands
  <2>3. j < i /\ k[j].in = 0 /\ k[j].op \notin {"store", "barrier", "if", "alloc"}
    <3>1. j \in 0 .. i - 1 /\ k[j].in \in {0, k[i].in}
          /\ k[j].op \notin {"store", "barrier", "if", "alloc"}
      BY <1>1, KernelFacts
    <3>2. i \in Nat
      BY <1>1, KernelFacts
    <3> QED BY <1>1, <3>1, <3>2
  <2>4. ~ReadsOrWrites(k, j)
    BY DEF UsesLoaded
  <2>5. k[j].op \in {"block_id"} \cup Sizes \cup {"constant", "sum"}
    <3>1. k[j].op \in Operation
      BY <2>1, KernelFacts DEF Operations, Operation
    <3> QED BY <2>2, <2>3, <2>4, <3>1
            DEF Operation, ReadsOrWrites, Effects, Computations, Ids
  <2>6. k[j].op \in {"constant", "sum"} => j \in Invariants(k)
    BY <2>1, <2>3, <2>4 DEF Invariants, Clonable, TopLevel, Kinds, Ids, Sizes
  <2> QED BY <2>1, <2>3, <2>5, <2>6
<1> QED BY <1>1, <1>2, <1>3

\* A value that every phase can compute again computes, and from such values.
LEMMA RematFacts ==
  ASSUME NEW k, WellFormed(k), NEW i \in Rematerialisable(k)
  PROVE  /\ i \in DOMAIN k /\ k[i].in = 0 /\ k[i].op \in {"constant", "sum"}
         /\ i \in Clonable(k) \ Invariants(k)
         /\ \A j \in Operands(k, i) :
              /\ j # 0 /\ j \in DOMAIN k /\ j < i
              /\ k[j].op \in Ids \cup Sizes \/ j \in Invariants(k) \/ j \in Rematerialisable(k)
<1> DEFINE D == DOMAIN k
           inv == Invariants(k)
           Good(p, n) == /\ n \in Clonable(k) \ inv /\ EffectFree(k, n)
                         /\ \A j \in Operands(k, n) :
                              j # 0 /\ (k[j].op \in Ids \cup Sizes \/ j \in inv \/ p[j])
           Solves(p) == p = [n \in D |-> Good(p, n)]
           remat == CHOOSE p : Solves(p)
<1>1. \E p : Solves(p)
  <2> DEFINE G == [n \in D |-> [p \in [D -> BOOLEAN] |-> Good(p, n)]]
  <2>1. /\ Len(k) \in Nat /\ D \in SUBSET (0 .. Len(k))
        /\ \A n \in D : \A j \in Operands(k, n) : j # 0 => j \in D /\ j < n
    <3>1. Len(k) \in Nat /\ D = 1 .. Len(k)
      BY KernelFacts
    <3>2. ASSUME NEW n \in D, NEW j \in Operands(k, n), j # 0
          PROVE  j \in D /\ j < n
      <4>1. j \in D /\ j \in 0 .. n - 1 /\ n \in Nat
        BY <3>2, KernelFacts
      <4> QED BY <4>1
    <3> QED BY <3>1, <3>2
  <2>2. G \in [D -> [[D -> BOOLEAN] -> BOOLEAN]]
    <3>1. ASSUME NEW p, NEW n PROVE Good(p, n) \in BOOLEAN
      OBVIOUS
    <3> HIDE DEF Good
    <3> QED BY <3>1
  <2>3. ASSUME NEW n \in D, NEW p \in [D -> BOOLEAN], NEW q \in [D -> BOOLEAN],
               \A j \in D : j < n => p[j] = q[j]
        PROVE  G[n][p] = G[n][q]
    <3>1. \A j \in Operands(k, n) : j # 0 => p[j] = q[j]
      BY <2>1, <2>3
    <3>2. Good(p, n) = Good(q, n)
      BY <3>1
    <3> HIDE DEF Good
    <3> QED BY <3>2
  <2>4. Recursion(D, BOOLEAN, G)
    <3> HIDE DEF D, G
    <3> QED BY <2>2, <2>3 DEF Recursion
  <2> HIDE DEF D, G
  <2>5. PICK f : Solution(D, BOOLEAN, G, f)
    BY <2>1, <2>4, RecursionExists
  <2> HIDE DEF Good
  <2>6. f \in [D -> BOOLEAN] /\ \A n \in D : f[n] = Good(f, n)
    BY <2>5 DEF Solution, G
  <2> QED BY <2>6
<1>2. Solves(remat)
  <2> HIDE DEF Solves
  <2> QED BY <1>1
<1>3. Rematerialisable(k) = { n \in D : remat[n] }
  BY DEF Rematerialisable
<1> HIDE DEF remat
<1>4. \A n \in D : remat[n] = Good(remat, n)
  <2> HIDE DEF Good
  <2> QED BY <1>2
<1>5. i \in D /\ Good(remat, i)
  <2> HIDE DEF Good
  <2> QED BY <1>3, <1>4
<1>6. i \in Clonable(k) \ Invariants(k) /\ k[i].op \in {"constant", "sum"} /\ k[i].in = 0
  BY <1>5 DEF EffectFree, Clonable, TopLevel
<1>7. ASSUME NEW j \in Operands(k, i)
      PROVE  /\ j # 0 /\ j \in DOMAIN k /\ j < i
             /\ k[j].op \in Ids \cup Sizes \/ j \in Invariants(k) \/ j \in Rematerialisable(k)
  <2>1. j # 0 /\ (k[j].op \in Ids \cup Sizes \/ j \in Invariants(k) \/ remat[j])
    BY <1>5
  <2>2. j \in D /\ j \in 0 .. i - 1 /\ i \in Nat
    BY <1>5, <2>1, KernelFacts
  <2>3. j < i
    BY <2>2
  <2> QED BY <1>3, <2>1, <2>2, <2>3
<1> QED BY <1>5, <1>6, <1>7


\* An invariant has one value for all threads of a block, at any time.
LEMMA InvariantStable ==
  ASSUME NEW k, WellFormed(k), ~UsesLoaded(k), NEW b \in Nat,
         NEW t \in Nat, NEW u \in Nat, NEW g, Held(k, g), NEW h, Held(k, h),
         NEW i \in Invariants(k)
  PROVE  Launch!Values(k, b, t, g)[i] = Launch!Values(k, b, u, h)[i]
<1> DEFINE Fails == { n \in Invariants(k) :
                        Launch!Values(k, b, t, g)[n] # Launch!Values(k, b, u, h)[n] }
<1> SUFFICES ASSUME Fails # {} PROVE FALSE
  OBVIOUS
<1>1. PICK x : x = Launch!Values(k, b, t, g)
  OBVIOUS
<1>2. PICK y : y = Launch!Values(k, b, u, h)
  OBVIOUS
<1>3. PICK n \in Fails : \A m \in Fails : n <= m
  <2>1. Fails \in SUBSET Nat
    <3>1. \A m \in Invariants(k) : m \in Nat
      BY InvariantOperands, KernelFacts
    <3> QED BY <3>1
  <2> HIDE DEF Fails
  <2> QED BY <2>1, LowestNatural
<1>4. /\ n \in Invariants(k) /\ x[n] # y[n] /\ n \in DOMAIN k /\ n \in Nat
      /\ k[n].op \in {"constant", "sum", "alloc"}
      /\ \A m \in Invariants(k) : m < n => x[m] = y[m]
  <2>1. n \in Invariants(k) /\ x[n] # y[n]
    BY <1>1, <1>2
  <2>2. \A m \in Invariants(k) : m \in DOMAIN k /\ m \in Nat
    BY InvariantOperands, KernelFacts
  <2>3. ASSUME NEW m \in Invariants(k), m < n PROVE x[m] = y[m]
    <3>1. m \notin Fails
      BY <1>3, <2>1, <2>2, <2>3
    <3> QED BY <1>1, <1>2, <3>1
  <2> QED BY <2>1, <2>2, <2>3, InvariantOperands
<1> HIDE DEF Fails
<1>5. \A m \in DOMAIN k : Equation(k, b, t, g, x, m) /\ Equation(k, b, u, h, y, m)
  BY <1>1, <1>2, ValuesEquations
<1>6. x[0] = y[0]
  BY <1>1, <1>2, ValuesEquations
<1>7. ASSUME NEW j \in Operands(k, n) PROVE x[j] = y[j]
  <2>1. CASE j = 0
    BY <1>6, <2>1
  <2>2. CASE j # 0
    <3>1. /\ j \in DOMAIN k /\ j < n
          /\ k[j].op = "block_id" \/ k[j].op \in Sizes \/ j \in Invariants(k)
      BY <1>4, <2>2, InvariantOperands
    <3>2. CASE j \in Invariants(k)
      BY <1>4, <3>1, <3>2
    <3>3. CASE k[j].op = "block_id" \/ k[j].op \in Sizes
      BY <1>5, <3>1, <3>3 DEF Equation
    <3> QED BY <3>1, <3>2, <3>3
  <2> QED BY <2>1, <2>2
<1>8. CASE k[n].op = "sum"
  <2>1. k[n].args[1] \in Operands(k, n) /\ k[n].args[2] \in Operands(k, n)
    <3>1. Arity(k[n].op) = 2
      BY <1>4, <1>8, Arguments
    <3> QED BY <1>4, <3>1, Arguments
  <2>2. x[k[n].args[1]] = y[k[n].args[1]] /\ x[k[n].args[2]] = y[k[n].args[2]]
    BY <1>7, <2>1
  <2> QED BY <1>4, <1>5, <1>8, <2>2 DEF Equation
<1>9. CASE k[n].op \in {"constant", "alloc"}
  BY <1>4, <1>5, <1>9 DEF Equation
<1> QED BY <1>4, <1>8, <1>9

\* What every phase computes again does not depend on what the thread has got.
LEMMA RematStable ==
  ASSUME NEW k, WellFormed(k), ~UsesLoaded(k), NEW b \in Nat,
         NEW t \in Nat, NEW g, Held(k, g), NEW h, Held(k, h),
         NEW i \in Rematerialisable(k)
  PROVE  Launch!Values(k, b, t, g)[i] = Launch!Values(k, b, t, h)[i]
<1> DEFINE Fails == { n \in Rematerialisable(k) :
                        Launch!Values(k, b, t, g)[n] # Launch!Values(k, b, t, h)[n] }
<1> SUFFICES ASSUME Fails # {} PROVE FALSE
  OBVIOUS
<1>1. PICK x : x = Launch!Values(k, b, t, g)
  OBVIOUS
<1>2. PICK y : y = Launch!Values(k, b, t, h)
  OBVIOUS
<1>3. PICK n \in Fails : \A m \in Fails : n <= m
  <2>1. Fails \in SUBSET Nat
    <3>1. \A m \in Rematerialisable(k) : m \in Nat
      BY RematFacts, KernelFacts
    <3> QED BY <3>1
  <2> HIDE DEF Fails
  <2> QED BY <2>1, LowestNatural
<1>4. /\ n \in Rematerialisable(k) /\ x[n] # y[n] /\ n \in DOMAIN k /\ n \in Nat
      /\ k[n].op \in {"constant", "sum"}
      /\ \A m \in Rematerialisable(k) : m < n => x[m] = y[m]
  <2>1. n \in Rematerialisable(k) /\ x[n] # y[n]
    BY <1>1, <1>2
  <2>2. \A m \in Rematerialisable(k) : m \in DOMAIN k /\ m \in Nat
    BY RematFacts, KernelFacts
  <2>3. ASSUME NEW m \in Rematerialisable(k), m < n PROVE x[m] = y[m]
    <3>1. m \notin Fails
      BY <1>3, <2>1, <2>2, <2>3
    <3> QED BY <1>1, <1>2, <3>1
  <2> QED BY <2>1, <2>2, <2>3, RematFacts
<1> HIDE DEF Fails
<1>5. \A m \in DOMAIN k : Equation(k, b, t, g, x, m) /\ Equation(k, b, t, h, y, m)
  BY <1>1, <1>2, ValuesEquations
<1>6. ASSUME NEW j \in Operands(k, n) PROVE x[j] = y[j]
  <2>1. /\ j \in DOMAIN k /\ j < n
        /\ k[j].op \in Ids \cup Sizes \/ j \in Invariants(k) \/ j \in Rematerialisable(k)
    BY <1>4, RematFacts
  <2>2. CASE j \in Rematerialisable(k)
    BY <1>4, <2>1, <2>2
  <2>3. CASE j \in Invariants(k)
    BY <1>1, <1>2, <2>3, InvariantStable
  <2>4. CASE k[j].op \in Ids \cup Sizes
    BY <1>5, <2>1, <2>4 DEF Equation, Ids
  <2> QED BY <2>1, <2>2, <2>3, <2>4
<1>7. CASE k[n].op = "sum"
  <2>1. k[n].args[1] \in Operands(k, n) /\ k[n].args[2] \in Operands(k, n)
    <3>1. Arity(k[n].op) = 2
      BY <1>4, <1>7, Arguments
    <3> QED BY <1>4, <3>1, Arguments
  <2>2. x[k[n].args[1]] = y[k[n].args[1]] /\ x[k[n].args[2]] = y[k[n].args[2]]
    BY <1>6, <2>1
  <2> QED BY <1>4, <1>5, <1>7, <2>2 DEF Equation
<1>8. CASE k[n].op = "constant"
  BY <1>4, <1>5, <1>8 DEF Equation
<1> QED BY <1>4, <1>7, <1>8


\* Hoisting gives the invariants the values they have in the launch.
LEMMA HoistValues ==
  ASSUME NEW k, WellFormed(k), ~UsesLoaded(k), NEW b \in Nat,
         NEW t \in Nat, NEW g, Held(k, g)
  PROVE  /\ DOMAIN Hoist(k, Invariants(k), b) = Invariants(k)
         /\ \A i \in Invariants(k) :
              Hoist(k, Invariants(k), b)[i] = Launch!Values(k, b, t, g)[i]
<1> DEFINE D == 0 .. Len(k)
           inv == Invariants(k)
           F(v, i) ==
             IF i = 0 THEN Parameter ELSE HoistedValue(k, inv, b, v, i)
           S(v, i) ==
             IF i = 0 THEN Parameter
             ELSE IF k[i].op = "block_id" THEN b
             ELSE IF k[i].op \in Sizes THEN SizeOf(k[i].op)
             ELSE IF i \notin inv THEN Dangling
             ELSE IF k[i].op = "constant" THEN 1
             ELSE IF k[i].op = "alloc" THEN 0
             ELSE IF Dangling \in {v[k[i].args[1]], v[k[i].args[2]]} THEN Dangling
             ELSE Plus(v[k[i].args[1]], v[k[i].args[2]])
           Solves(v) == v = [i \in D |-> F(v, i)]
           v == CHOOSE w : Solves(w)
<1>7. Hoist(k, inv, b) = [i \in inv |-> v[i]]
  <2> HIDE DEF inv
  <2> QED BY DEF Hoist
<1>0. /\ Len(k) \in Nat /\ D \in SUBSET (0 .. Len(k)) /\ DOMAIN k = 1 .. Len(k)
      /\ Cells \in Nat \ {0} /\ Parameter \in Nat /\ BlockSize \in Nat /\ GridSize \in Nat
      /\ \A i \in inv : /\ i \in DOMAIN k /\ i \in D
                        /\ k[i].op \in {"constant", "sum", "alloc"}
  BY KernelFacts, InvariantOperands, SimtAssumption
<1>1. ASSUME NEW i \in inv, k[i].op = "sum"
      PROVE  /\ DOMAIN k[i].args = 1 .. 2
             /\ k[i].args[1] \in Operands(k, i) /\ k[i].args[2] \in Operands(k, i)
             /\ k[i].args[1] \in 0 .. i - 1 /\ k[i].args[2] \in 0 .. i - 1
             /\ k[i].args[1] \in D /\ k[i].args[2] \in D
  <2>1. i \in DOMAIN k /\ Arity(k[i].op) = 2
    BY <1>0, <1>1, Arguments
  <2>2. DOMAIN k[i].args = 1 .. 2
    BY <2>1, KernelFacts
  <2> QED BY <2>1, <2>2, Arguments
<1>2. ASSUME NEW w, NEW i \in D PROVE F(w, i) = S(w, i)
  <2> DEFINE values == [n \in DOMAIN k[i].args |-> w[k[i].args[n]]]
  <2>1. CASE i \notin inv
    <3>1. F(w, i) = IF i = 0 THEN Parameter
                    ELSE IF k[i].op = "block_id" THEN b
                    ELSE IF k[i].op \in Sizes THEN SizeOf(k[i].op) ELSE Dangling
      <4> HIDE DEF inv
      <4> QED BY <2>1 DEF HoistedValue, Sizes
    <3> HIDE DEF inv
    <3> QED BY <2>1, <3>1
  <2>2. CASE i \in inv /\ k[i].op = "sum"
    <3>1. /\ DOMAIN values = 1 .. 2
          /\ values[1] = w[k[i].args[1]] /\ values[2] = w[k[i].args[2]]
      BY <1>1, <2>2
    <3>2. ToSet(values) = {w[k[i].args[1]], w[k[i].args[2]]}
      BY <3>1 DEF ToSet
    <3>3. F(w, i) = IF Dangling \in ToSet(values) THEN Dangling
                    ELSE Compute("sum", values)
      BY <1>0, <2>2 DEF HoistedValue, Sizes
    <3>4. Compute("sum", values) = Plus(w[k[i].args[1]], w[k[i].args[2]])
      <4> HIDE DEF values
      <4> QED BY <3>1 DEF Compute, Plus
    <3>5. S(w, i) = IF Dangling \in {w[k[i].args[1]], w[k[i].args[2]]} THEN Dangling
                    ELSE Plus(w[k[i].args[1]], w[k[i].args[2]])
      BY <1>0, <2>2 DEF Sizes
    <3> HIDE DEF F, S, values
    <3> QED BY <3>2, <3>3, <3>4, <3>5
  <2>3. CASE i \in inv /\ k[i].op \in {"constant", "alloc"}
    <3>1. DOMAIN values = {}
      <4>1. i \in DOMAIN k /\ Arity(k[i].op) = 0
        BY <1>0, <2>3, Arguments
      <4>2. DOMAIN k[i].args = 1 .. 0
        BY <4>1, KernelFacts
      <4> QED BY <4>2
    <3>2. ToSet(values) = {}
      BY <3>1 DEF ToSet
    <3>3. F(w, i) = IF Dangling \in ToSet(values) THEN Dangling
                    ELSE Compute(k[i].op, values)
      BY <1>0, <2>3 DEF HoistedValue, Sizes
    <3>4. Compute(k[i].op, values) = IF k[i].op = "constant" THEN 1 ELSE 0
      BY <2>3 DEF Compute
    <3>5. S(w, i) = IF k[i].op = "constant" THEN 1 ELSE 0
      BY <1>0, <2>3 DEF Sizes
    <3> HIDE DEF F, S, values
    <3> QED BY <3>2, <3>3, <3>4, <3>5
  <2> QED BY <1>0, <2>1, <2>2, <2>3
<1> HIDE DEF F
<1>3. ASSUME NEW p \in [D -> Int], NEW i \in D PROVE S(p, i) \in Int
  <2>1. CASE i \in inv /\ k[i].op = "sum"
    <3>1. p[k[i].args[1]] \in Int /\ p[k[i].args[2]] \in Int
      BY <1>1, <2>1
    <3>2. Plus(p[k[i].args[1]], p[k[i].args[2]]) \in Int
      BY <1>0, <3>1 DEF Plus
    <3>3. Dangling \in Int
      BY DEF Dangling
    <3> QED BY <1>0, <2>1, <3>2, <3>3 DEF SizeOf
  <2>2. CASE ~(i \in inv /\ k[i].op = "sum")
    BY <1>0, <2>2 DEF SizeOf, Dangling
  <2> QED BY <2>1, <2>2
<1>4. ASSUME NEW p, NEW q, NEW i \in D, \A j \in D : j < i => p[j] = q[j]
      PROVE  S(p, i) = S(q, i)
  <2>1. CASE i \in inv /\ k[i].op = "sum"
    <3>1. p[k[i].args[1]] = q[k[i].args[1]] /\ p[k[i].args[2]] = q[k[i].args[2]]
      <4>1. k[i].args[1] \in D /\ k[i].args[2] \in D
            /\ k[i].args[1] < i /\ k[i].args[2] < i
        BY <1>0, <1>1, <2>1
      <4> QED BY <1>4, <4>1
    <3> QED BY <3>1
  <2>2. CASE ~(i \in inv /\ k[i].op = "sum")
    BY <1>0, <2>2
  <2> QED BY <2>1, <2>2
<1>5. \E w : Solves(w)
  <2> DEFINE G == [i \in D |-> [p \in [D -> Int] |-> S(p, i)]]
  <2>1. G \in [D -> [[D -> Int] -> Int]]
    <3> HIDE DEF S, D
    <3> QED BY <1>3
  <2>2. Recursion(D, Int, G)
    <3>1. \A i \in D : \A p, q \in [D -> Int] :
            (\A j \in D : j < i => p[j] = q[j]) => G[i][p] = G[i][q]
      <4> HIDE DEF S, D
      <4> QED BY <1>4
    <3> HIDE DEF D, G
    <3> QED BY <2>1, <3>1 DEF Recursion
  <2>3. Int # {}
    OBVIOUS
  <2> HIDE DEF D, G, S
  <2>4. PICK f : Solution(D, Int, G, f)
    BY <1>0, <2>2, <2>3, RecursionExists
  <2>5. f \in [D -> Int] /\ \A i \in D : f[i] = S(f, i)
    BY <2>4 DEF Solution, G
  <2>6. f = [i \in D |-> F(f, i)]
    BY <1>2, <2>5
  <2> QED BY <2>6
<1>6. v = [i \in D |-> F(v, i)]
  <2> HIDE DEF Solves
  <2>1. Solves(v)
    BY <1>5
  <2> QED BY <2>1 DEF Solves
<1> HIDE DEF v
<1>8. \A i \in D : v[i] = S(v, i)
  BY <1>2, <1>6
<1>9. PICK y : y = Launch!Values(k, b, t, g)
  OBVIOUS
<1>10. /\ y \in [0 .. Len(k) -> Nat] /\ y[0] = Parameter
       /\ \A i \in DOMAIN k : Equation(k, b, t, g, y, i)
  BY <1>9, ValuesEquations
<1>11. \A i \in inv : v[i] = y[i]
  <2> DEFINE Fails == { i \in inv : v[i] # y[i] }
  <2> SUFFICES ASSUME Fails # {} PROVE FALSE
    OBVIOUS
  <2>1. PICK i \in Fails : \A j \in Fails : i <= j
    <3>1. Fails \in SUBSET Nat
      BY <1>0
    <3> HIDE DEF Fails
    <3> QED BY <3>1, LowestNatural
  <2>2. /\ i \in inv /\ i \in DOMAIN k /\ i \in D /\ v[i] # y[i]
        /\ \A j \in inv : j < i => v[j] = y[j]
    BY <1>0, <2>1
  <2>3. CASE k[i].op \in {"constant", "alloc"}
    <3>1. v[i] = IF k[i].op = "constant" THEN 1 ELSE 0
      BY <1>0, <1>8, <2>2, <2>3 DEF Sizes
    <3> QED BY <1>10, <2>2, <2>3, <3>1 DEF Equation
  <2>4. CASE k[i].op = "sum"
    <3>1. ASSUME NEW j \in Operands(k, i), j \in D PROVE v[j] = y[j] /\ v[j] # Dangling
      <4>1. v[j] = y[j]
        <5>1. CASE j = 0
          BY <1>8, <1>10, <3>1, <5>1
        <5>2. CASE j # 0
          <6>1. /\ j \in DOMAIN k /\ j < i
                /\ k[j].op = "block_id" \/ k[j].op \in Sizes \/ j \in inv
            BY <2>2, <5>2, InvariantOperands
          <6>2. CASE j \in inv
            BY <2>2, <6>1, <6>2
          <6>3. CASE k[j].op = "block_id" \/ k[j].op \in Sizes
            <7>1. v[j] = IF k[j].op = "block_id" THEN b ELSE SizeOf(k[j].op)
              BY <1>8, <3>1, <5>2, <6>3
            <7> QED BY <1>10, <6>1, <6>3, <7>1 DEF Equation, Sizes
          <6> QED BY <6>1, <6>2, <6>3
        <5> QED BY <5>1, <5>2
      <4>2. y[j] \in Nat
        BY <1>10, <3>1
      <4> QED BY <4>1, <4>2 DEF Dangling
    <3>2. v[i] = IF Dangling \in {v[k[i].args[1]], v[k[i].args[2]]} THEN Dangling
                 ELSE Plus(v[k[i].args[1]], v[k[i].args[2]])
      BY <1>0, <1>8, <2>2, <2>4 DEF Sizes
    <3>3. /\ v[k[i].args[1]] = y[k[i].args[1]] /\ v[k[i].args[1]] # Dangling
          /\ v[k[i].args[2]] = y[k[i].args[2]] /\ v[k[i].args[2]] # Dangling
      BY <1>1, <2>2, <2>4, <3>1
    <3>4. y[i] = Plus(y[k[i].args[1]], y[k[i].args[2]])
      BY <1>10, <2>2, <2>4 DEF Equation
    <3> QED BY <2>2, <3>2, <3>3, <3>4
  <2> QED BY <1>0, <2>2, <2>3, <2>4
<1> QED BY <1>7, <1>9, <1>11


\* What a phase computes again: such values, and all that the phase or they use.
LEMMA NeededFacts ==
  ASSUME NEW k, NEW ops
  PROVE  /\ NeededBy(k, ops) \subseteq Rematerialisable(k)
         /\ \A i \in Rematerialisable(k), u \in ops \cup NeededBy(k, ops) :
              i \in Uses(k, u) => i \in NeededBy(k, ops)
<1> DEFINE remat == Rematerialisable(k)
           UsedIn(S) == { i \in remat : \E u \in ops \cup S : i \in Uses(k, u) }
           Closed(S) == S \in SUBSET remat /\ UsedIn(S) \subseteq S
           needed == NeededBy(k, ops)
<1>1. /\ needed \subseteq remat
      /\ \A i \in remat : i \in needed <=> \A S : Closed(S) => i \in S
  BY DEF NeededBy
<1> HIDE DEF needed
<1>2. ASSUME NEW i \in remat, NEW u \in ops \cup needed, i \in Uses(k, u)
      PROVE  i \in needed
  <2>1. ASSUME NEW S, Closed(S) PROVE i \in S
    <3>1. u \in ops \cup S
      <4>1. u \in needed => u \in remat
        BY <1>1
      <4> HIDE DEF Closed
      <4> QED BY <1>1, <2>1, <4>1
    <3>2. i \in UsedIn(S)
      BY <1>2, <3>1
    <3> QED BY <2>1, <3>2
  <2> HIDE DEF Closed
  <2> QED BY <1>1, <2>1
<1> QED BY <1>1, <1>2 DEF needed

\* The top-level barriers, which split the kernel into phases.
Barriers(k) == Kinds(k, {"barrier"}) \cap TopLevel(k)

\* Phases are numbered from 1 in the order of the program, and a barrier is the
\* last operation of its phase.
LEMMA PhaseFacts ==
  ASSUME NEW k, WellFormed(k)
  PROVE  /\ Phases(k) \in Nat /\ Phases(k) = 1 + Cardinality(Barriers(k))
         /\ \A i \in Nat : /\ PhaseOf(k, i) \in 1 .. Phases(k)
                           /\ \A j \in Nat : i <= j => PhaseOf(k, i) <= PhaseOf(k, j)
         /\ \A i \in Barriers(k) :
              /\ i \in DOMAIN k /\ i \in Nat /\ PhaseOf(k, i) < Phases(k)
              /\ \A j \in Nat : i < j => PhaseOf(k, i) < PhaseOf(k, j)
<1> DEFINE B == Barriers(k)
           Below(i) == { j \in B : j < i }
<1>1. /\ Len(k) \in Nat /\ B \in SUBSET (1 .. Len(k))
      /\ \A i \in B : i \in DOMAIN k /\ i \in Nat
  BY KernelFacts DEF Barriers, TopLevel
<1>2. IsFiniteSet(B) /\ Cardinality(B) \in Nat
  <2>1. IsFiniteSet(1 .. Len(k))
    BY <1>1, FS_Interval
  <2>2. IsFiniteSet(B)
    BY <1>1, <2>1, FS_Subset
  <2> QED BY <2>2, FS_CardinalityType
<1>3. /\ \A i : PhaseOf(k, i) = 1 + Cardinality(Below(i))
      /\ Phases(k) = 1 + Cardinality(B)
  BY DEF PhaseOf, Phases, Barriers
<1> HIDE DEF B
<1>4. \A i : /\ IsFiniteSet(Below(i)) /\ Cardinality(Below(i)) \in Nat
             /\ Cardinality(Below(i)) <= Cardinality(B)
             /\ Cardinality(B) = Cardinality(Below(i)) => B = Below(i)
  <2> TAKE i
  <2>1. Below(i) \in SUBSET B
    OBVIOUS
  <2>2. IsFiniteSet(Below(i))
    BY <1>2, <2>1, FS_Subset
  <2>3. Cardinality(Below(i)) \in Nat
    BY <2>2, FS_CardinalityType
  <2> HIDE DEF Below
  <2> QED BY <1>2, <2>1, <2>2, <2>3, FS_Subset
<1>5. ASSUME NEW i \in Nat, NEW j \in Nat, i <= j
      PROVE  /\ Cardinality(Below(i)) <= Cardinality(Below(j))
             /\ Cardinality(Below(j)) = Cardinality(Below(i)) => Below(j) = Below(i)
  <2>1. Below(i) \in SUBSET Below(j)
    <3>1. \A x \in B : x < i => x < j
      BY <1>1, <1>5
    <3> QED BY <3>1
  <2> HIDE DEF Below
  <2> QED BY <1>4, <2>1, FS_Subset
<1>6. ASSUME NEW i \in Nat
      PROVE  /\ PhaseOf(k, i) \in 1 .. Phases(k)
             /\ \A j \in Nat : i <= j => PhaseOf(k, i) <= PhaseOf(k, j)
  <2> HIDE DEF Below
  <2>1. Cardinality(Below(i)) \in Nat /\ Cardinality(Below(i)) <= Cardinality(B)
    BY <1>4
  <2>2. PhaseOf(k, i) \in 1 .. Phases(k)
    BY <1>2, <1>3, <2>1
  <2>3. ASSUME NEW j \in Nat, i <= j PROVE PhaseOf(k, i) <= PhaseOf(k, j)
    <3>1. Cardinality(Below(i)) <= Cardinality(Below(j)) /\ Cardinality(Below(j)) \in Nat
      BY <1>4, <1>5, <2>3
    <3> QED BY <1>3, <2>1, <3>1
  <2> QED BY <2>2, <2>3
<1>7. ASSUME NEW i \in B
      PROVE  /\ PhaseOf(k, i) < Phases(k)
             /\ \A j \in Nat : i < j => PhaseOf(k, i) < PhaseOf(k, j)
  <2>1. i \in Nat /\ i \notin Below(i)
    BY <1>1
  <2>2. PhaseOf(k, i) < Phases(k)
    <3>1. B # Below(i)
      BY <2>1
    <3> HIDE DEF Below
    <3>2. /\ Cardinality(Below(i)) \in Nat /\ Cardinality(Below(i)) <= Cardinality(B)
          /\ Cardinality(B) # Cardinality(Below(i))
      BY <1>4, <3>1
    <3> QED BY <1>2, <1>3, <3>2
  <2>3. ASSUME NEW j \in Nat, i < j PROVE PhaseOf(k, i) < PhaseOf(k, j)
    <3>1. i \in Below(j) /\ Below(i) # Below(j)
      BY <2>1, <2>3
    <3> HIDE DEF Below
    <3>2. /\ Cardinality(Below(i)) <= Cardinality(Below(j))
          /\ Cardinality(Below(j)) # Cardinality(Below(i))
      BY <1>5, <2>1, <2>3, <3>1
    <3>3. Cardinality(Below(i)) \in Nat /\ Cardinality(Below(j)) \in Nat
      BY <1>4
    <3> QED BY <1>3, <3>2, <3>3
  <2> QED BY <2>2, <2>3
<1>8. 1 + Cardinality(B) \in Nat
  BY <1>2
<1> QED BY <1>1, <1>3, <1>6, <1>7, <1>8 DEF B

\* The operations of a phase that its loop does not compute again.
Region(k, p) == LET own == Dependents(k, p)
                IN  own \cup UNION { Inner(k, i) : i \in own }

\* The operations a phase has of its own: the ones left at top level and what
\* their regions hold.
LEMMA RegionFacts ==
  ASSUME NEW k, WellFormed(k), Accepted(k), NEW p
  PROVE  /\ Region(k, p) \in SUBSET (1 .. Len(k))
         /\ \A i \in Region(k, p) :
              /\ i \in DOMAIN k /\ i \in Nat /\ PhaseOf(k, i) = p
              /\ k[i].op \in Accesses \cup Computations \cup {"alloc", "if"}
              /\ i \notin Invariants(k) /\ i \notin Rematerialisable(k)
              /\ k[i].in = 0 => i \in Dependents(k, p)
              /\ k[i].in # 0 => /\ k[i].in \in Dependents(k, p) /\ k[i].in < i
                                /\ k[k[i].in].op = "if" /\ k[k[i].in].in = 0
         /\ \A e \in Kinds(k, Accesses) : PhaseOf(k, e) = p => e \in Region(k, p)
         /\ \A i, j \in DOMAIN k : i \in Region(k, p) /\ k[j].in = k[i].in /\ k[i].in # 0
              => j \in Region(k, p)
<1>1. Len(k) \in Nat /\ DOMAIN k = 1 .. Len(k) /\ \A i \in DOMAIN k : i \in Nat
  BY KernelFacts
<1>2. \A i : i \in Dependents(k, p) <=>
             /\ i \in DOMAIN k /\ k[i].in = 0
             /\ k[i].op \notin {"barrier"} \cup Ids \cup Sizes
             /\ PhaseOf(k, i) = p /\ i \notin Invariants(k) /\ i \notin Rematerialisable(k)
  BY DEF Dependents, Clonable, TopLevel, Kinds
<1>3. \A i : i \in Region(k, p) <=>
             i \in Dependents(k, p) \/ (i \in DOMAIN k /\ k[i].in \in Dependents(k, p))
  BY DEF Region, Inner
<1>4. \A i \in DOMAIN k : i \in Invariants(k) \/ i \in Rematerialisable(k) => k[i].in = 0
  BY RematFacts DEF Invariants, Clonable, TopLevel
<1>5. ASSUME NEW i \in DOMAIN k, k[i].in # 0
      PROVE  PhaseOf(k, i) = PhaseOf(k, k[i].in)
  <2> DEFINE u == k[i].in
             B == Barriers(k)
  <2>1. /\ u \in DOMAIN k /\ u < i /\ k[u].op = "if" /\ u \in Nat /\ i \in Nat
        /\ \A j \in u + 1 .. i : k[j].in = u
    BY <1>1, <1>5, KernelFacts
  <2>2. \A j \in B : j \in DOMAIN k /\ j \in Nat /\ k[j].op = "barrier" /\ k[j].in = 0
    BY <1>1 DEF Barriers, Kinds, TopLevel
  <2>3. ASSUME NEW j \in B PROVE j < i <=> j < u
    <3>1. j # u
      BY <2>1, <2>2
    <3>2. ~(j \in u + 1 .. i)
      BY <1>5, <2>1, <2>2
    <3> QED BY <2>1, <2>2, <3>1, <3>2
  <2>4. { j \in B : j < i } = { j \in B : j < u }
    BY <2>3
  <2> HIDE DEF u
  <2>5. PhaseOf(k, i) = PhaseOf(k, u)
    BY <2>4 DEF PhaseOf, Barriers
  <2> QED BY <2>5 DEF u
<1>6. ASSUME NEW i \in Region(k, p)
      PROVE  /\ i \in DOMAIN k /\ i \in Nat /\ PhaseOf(k, i) = p
             /\ k[i].op \in Accesses \cup Computations \cup {"alloc", "if"}
             /\ i \notin Invariants(k) /\ i \notin Rematerialisable(k)
             /\ k[i].in = 0 => i \in Dependents(k, p)
             /\ k[i].in # 0 => /\ k[i].in \in Dependents(k, p) /\ k[i].in < i
                               /\ k[k[i].in].op = "if" /\ k[k[i].in].in = 0
  <2>1. i \in DOMAIN k
    BY <1>2, <1>3
  <2>2. k[i].op \in Operation
    BY <2>1, KernelFacts DEF Operations, Operation
  <2>3. CASE k[i].in = 0
    <3>1. i \in Dependents(k, p)
      <4>1. k[i].in \notin DOMAIN k
        BY <1>1, <2>3
      <4> QED BY <1>2, <1>3, <4>1
    <3> QED BY <1>1, <1>2, <2>1, <2>2, <2>3, <3>1 DEF Operation, Effects
  <2>4. CASE k[i].in # 0
    <3>1. k[i].in \in Dependents(k, p)
      BY <1>2, <1>3, <2>4
    <3>2. /\ k[i].in < i /\ k[k[i].in].op = "if" /\ k[k[i].in].in = 0
          /\ k[i].op \notin Ids \cup Sizes \cup {"alloc", "if"}
      BY <2>1, <2>4, KernelFacts
    <3>3. k[i].op # "barrier"
      BY <2>1, <2>4 DEF Accepted, DivergentBarrier, Kinds
    <3>4. PhaseOf(k, i) = p
      BY <1>2, <1>5, <2>1, <2>4, <3>1
    <3> QED BY <1>1, <1>4, <2>1, <2>2, <2>4, <3>1, <3>2, <3>3, <3>4 DEF Operation, Effects
  <2> QED BY <2>3, <2>4
<1>7. ASSUME NEW e \in Kinds(k, Accesses), PhaseOf(k, e) = p
      PROVE  e \in Region(k, p)
  <2>1. e \in DOMAIN k /\ k[e].op \in Accesses
    BY DEF Kinds
  <2>2. \A i \in DOMAIN k : k[i].op \in Accesses \cup {"if"} =>
          /\ i \notin Invariants(k) /\ i \notin Rematerialisable(k)
          /\ k[i].op \notin {"barrier"} \cup Ids \cup Sizes
    <3> TAKE i \in DOMAIN k
    <3>1. i \in Invariants(k) => k[i].op \notin Accesses \cup {"if"}
      BY DEF Invariants, ReadsOrWrites
    <3>2. i \in Rematerialisable(k) => k[i].op \in {"constant", "sum"}
      BY RematFacts
    <3> QED BY <3>1, <3>2 DEF Accesses, Ids, Sizes
  <2>3. CASE k[e].in = 0
    BY <1>2, <1>3, <1>7, <2>1, <2>2, <2>3
  <2>4. CASE k[e].in # 0
    <3>1. k[e].in \in DOMAIN k /\ k[k[e].in].op = "if" /\ k[k[e].in].in = 0
      BY <2>1, <2>4, KernelFacts
    <3>2. PhaseOf(k, k[e].in) = p
      BY <1>5, <1>7, <2>1, <2>4
    <3>3. k[e].in \in Dependents(k, p)
      BY <1>2, <2>2, <3>1, <3>2
    <3> QED BY <1>3, <2>1, <3>3
  <2> QED BY <2>3, <2>4
<1>8. Region(k, p) \in SUBSET (1 .. Len(k))
  BY <1>1, <1>6
<1>9. \A i, j \in DOMAIN k : i \in Region(k, p) /\ k[j].in = k[i].in /\ k[i].in # 0
        => j \in Region(k, p)
  BY <1>3, <1>6
<1> QED BY <1>6, <1>7, <1>8, <1>9


Needed(k, p) == NeededBy(k, Dependents(k, p))

\* The body of a phase lists what it computes again and then its own
\* operations, each once and each part in the order of the program.
LEMMA BodyFacts ==
  ASSUME NEW k, WellFormed(k), Accepted(k), NEW p, NEW body, body = Body(k, p)
  PROVE  /\ Len(body) \in Nat /\ DOMAIN body = 1 .. Len(body)
         /\ Needed(k, p) \subseteq Rematerialisable(k)
         /\ Needed(k, p) \cap Region(k, p) = {}
         /\ \A n \in DOMAIN body : body[n] \in Needed(k, p) \cup Region(k, p)
         /\ \A i \in Needed(k, p) \cup Region(k, p) : \E n \in DOMAIN body : body[n] = i
         /\ \A m, n \in DOMAIN body :
              /\ body[m] = body[n] => m = n
              /\ body[m] \in Needed(k, p) /\ body[n] \in Region(k, p) => m < n
              /\ body[m] \in Needed(k, p) /\ body[n] \in Needed(k, p)
                   => (m < n <=> body[m] < body[n])
              /\ body[m] \in Region(k, p) /\ body[n] \in Region(k, p)
                   => (m < n <=> body[m] < body[n])
<1> DEFINE N == Needed(k, p)
           R == Region(k, p)
           s == InOrder(N)
           r == InOrder(R)
<1>1. N \subseteq Rematerialisable(k)
  BY NeededFacts DEF Needed
<1>2. Len(k) \in Nat /\ N \in SUBSET (1 .. Len(k)) /\ R \in SUBSET (1 .. Len(k))
  <2>1. Len(k) \in Nat /\ DOMAIN k = 1 .. Len(k)
    BY KernelFacts
  <2>2. \A i \in N : i \in DOMAIN k
    BY <1>1, RematFacts
  <2> QED BY <2>1, <2>2, RegionFacts
<1>3. N \cap R = {}
  BY <1>1, RegionFacts
<1>4. body = s \o r
  BY DEF Body, Needed, Region
<1>5. /\ Cardinality(N) \in Nat /\ s \in Seq(N) /\ Len(s) = Cardinality(N)
      /\ DOMAIN s = 1 .. Len(s)
      /\ \A n \in DOMAIN s : s[n] \in N
      /\ \A i \in N : \E n \in DOMAIN s : s[n] = i
      /\ \A m, n \in DOMAIN s : m < n <=> s[m] < s[n]
  <2> HIDE DEF N, R
  <2> QED BY <1>2, InOrderLists
<1>6. /\ Cardinality(R) \in Nat /\ r \in Seq(R) /\ Len(r) = Cardinality(R)
      /\ DOMAIN r = 1 .. Len(r)
      /\ \A n \in DOMAIN r : r[n] \in R
      /\ \A i \in R : \E n \in DOMAIN r : r[n] = i
      /\ \A m, n \in DOMAIN r : m < n <=> r[m] < r[n]
  <2> HIDE DEF N, R
  <2> QED BY <1>2, InOrderLists
<1> DEFINE a == Len(s)
           c == Len(r)
<1>7. /\ a \in Nat /\ c \in Nat /\ Len(body) = a + c /\ DOMAIN body = 1 .. a + c
      /\ \A n \in 1 .. a + c : body[n] = IF n <= a THEN s[n] ELSE r[n - a]
  <2> HIDE DEF N, R, s, r
  <2>1. s \in Seq(N \cup R) /\ r \in Seq(N \cup R)
    BY <1>5, <1>6
  <2> QED BY <1>4, <2>1
<1> HIDE DEF N, R, s, r, a, c
<1>8. ASSUME NEW n \in DOMAIN body
      PROVE  \/ n \in DOMAIN s /\ body[n] = s[n] /\ body[n] \in N /\ body[n] \notin R /\ n <= a
             \/ /\ n - a \in DOMAIN r /\ body[n] = r[n - a] /\ body[n] \in R
                /\ body[n] \notin N /\ n > a
  <2>1. CASE n <= a
    BY <1>3, <1>5, <1>7, <2>1 DEF a
  <2>2. CASE n > a
    <3>1. n - a \in DOMAIN r /\ body[n] = r[n - a]
      BY <1>6, <1>7, <2>2 DEF c
    <3> QED BY <1>3, <1>6, <1>7, <2>2, <3>1
  <2> QED BY <1>7, <2>1, <2>2
<1>9. ASSUME NEW i \in N PROVE \E n \in DOMAIN body : body[n] = i
  <2>1. PICK n \in DOMAIN s : s[n] = i
    BY <1>5
  <2>2. n \in 1 .. a + c /\ n <= a
    BY <1>5, <1>7, <2>1 DEF a
  <2> QED BY <1>7, <2>1, <2>2
<1>10. ASSUME NEW i \in R PROVE \E n \in DOMAIN body : body[n] = i
  <2>1. PICK n \in DOMAIN r : r[n] = i
    BY <1>6
  <2>2. n + a \in 1 .. a + c /\ ~(n + a <= a) /\ (n + a) - a = n
    BY <1>6, <1>7, <2>1 DEF c
  <2> QED BY <1>7, <2>1, <2>2
<1>11. \A x \in N \cup R : x \in Nat
  BY <1>2
<1>12. ASSUME NEW m \in DOMAIN body, NEW n \in DOMAIN body
       PROVE  /\ body[m] \in N /\ body[n] \in R => m < n
              /\ body[m] \in N /\ body[n] \in N => (m < n <=> body[m] < body[n])
              /\ body[m] \in R /\ body[n] \in R => (m < n <=> body[m] < body[n])
  <2>1. m \in Nat /\ n \in Nat /\ a \in Nat
    BY <1>7
  <2>2. CASE body[m] \in N /\ body[n] \in R
    BY <1>8, <2>1, <2>2
  <2>3. CASE body[m] \in N /\ body[n] \in N
    BY <1>5, <1>8, <2>1, <2>3
  <2>4. CASE body[m] \in R /\ body[n] \in R
    <3>1. m - a \in DOMAIN r /\ body[m] = r[m - a] /\ n - a \in DOMAIN r /\ body[n] = r[n - a]
      BY <1>8, <2>4
    <3>2. m - a < n - a <=> body[m] < body[n]
      BY <1>6, <3>1
    <3> QED BY <1>3, <2>1, <2>4, <3>2
  <2> QED BY <1>3, <2>2, <2>3, <2>4
<1>13. ASSUME NEW m \in DOMAIN body, NEW n \in DOMAIN body, body[m] = body[n]
       PROVE  m = n
  <2>1. m \in Nat /\ n \in Nat /\ body[n] \in Nat
    BY <1>7, <1>8, <1>11
  <2>2. ~(m < n) /\ ~(n < m)
    BY <1>8, <1>12, <1>13, <2>1
  <2> QED BY <2>1, <2>2
<1>14. \A n \in DOMAIN body : body[n] \in N \cup R
  BY <1>8
<1>15. Len(body) \in Nat /\ DOMAIN body = 1 .. Len(body)
  BY <1>7
<1> QED BY <1>1, <1>3, <1>9, <1>10, <1>12, <1>13, <1>14, <1>15 DEF N, R

-----------------------------------------------------------------------------
(* The inductive invariant.                                                *)

\* The values a thread of the launch has at this moment.
ValuesNow(b, t) == Launch!Values(kernel, b, t, got[<<b, t>>])

\* With values v, the operation is not skipped by the scf.if it stands in.
Taken(v, i) == kernel[i].in = 0 \/ v[kernel[kernel[i].in].args[1]] # 0

\* The loop over the threads has come past operation i of its body.
Seen(i) == \E n \in DOMAIN Here : n < at /\ Here[n] = i

\* The loops are past effect e of thread t of block b.
Past(b, t, e) ==
  \/ b < block
  \/ /\ b = block /\ phase > 0
     /\ \/ PhaseOf(kernel, e) < phase
        \/ /\ PhaseOf(kernel, e) = phase /\ kernel[e].op # "barrier"
           /\ t < thread \/ (t = thread /\ Seen(e))

TypeOK ==
  /\ kernel \in Kernels /\ Accepted(kernel) /\ function = Lower(kernel)
  /\ memory \in [DOMAIN EmptyMemory(kernel) -> Nat]
  /\ DOMAIN got = Blocks \X Threads
  /\ \A bt \in Blocks \X Threads : Held(kernel, got[bt])
  /\ block \in 0 .. GridSize /\ phase \in 0 .. Phases(kernel)
  /\ thread \in 0 .. BlockSize /\ at \in Nat \ {0}

Control ==
  /\ phase > 0 => block \in Blocks
  /\ phase = 0 => thread = 0
  /\ phase = 0 \/ thread = BlockSize => at = 1 /\ env = None

\* What has been hoisted has the values of the launch.
HoistedAsLaunched ==
  /\ \A i \in DOMAIN hoisted : hoisted[i] # Dangling
  /\ phase > 0 =>
       /\ DOMAIN hoisted = Invariants(kernel)
       /\ \A t \in Threads, i \in Invariants(kernel) : hoisted[i] = ValuesNow(block, t)[i]

\* So have the clones that have run in this iteration: those are the ones that
\* the body lists up to here and no condition skips.
EnvAsLaunched ==
  InBody =>
    /\ \A i : i \in DOMAIN env <=> Seen(i) /\ Taken(ValuesNow(block, thread), i)
    /\ \A i \in DOMAIN env :
         env[i] = IF kernel[i].op = "if" THEN ValuesNow(block, thread)[kernel[i].args[1]]
                  ELSE ValuesNow(block, thread)[i]

\* A thread has got the effects that the loops are past and that it takes.
GotAsLaunched ==
  \A b \in Blocks, t \in Threads : \A e :
    e \in DOMAIN got[<<b, t>>] <=>
      e \in Kinds(kernel, Effects) /\ Past(b, t, e) /\ Taken(ValuesNow(b, t), e)

IInv == TypeOK /\ Control /\ HoistedAsLaunched /\ EnvAsLaunched /\ GotAsLaunched


Flat == \A k \in Kernels : ~UsesLoaded(k)

\* What the invariant of types says of the function and of where the loops stand.
LEMMA StateFacts ==
  ASSUME TypeOK, Flat
  PROVE  /\ WellFormed(kernel) /\ ~UsesLoaded(kernel) /\ Accepted(kernel)
         /\ function.invariants = Invariants(kernel)
         /\ function.barriers = InOrder(Kinds(kernel, {"barrier"}))
         /\ Len(function.bodies) = Phases(kernel)
         /\ phase > 0 => Here = Body(kernel, phase)
         /\ \A b \in Blocks, t \in Threads :
              /\ b \in Nat /\ t \in Nat /\ <<b, t>> \in DOMAIN got
              /\ Held(kernel, got[<<b, t>>])
         /\ \A t \in Threads : t < BlockSize
         /\ BlockSize \in Nat \ {0} /\ GridSize \in Nat \ {0}

<1>1. WellFormed(kernel) /\ ~UsesLoaded(kernel) /\ Accepted(kernel)
  BY KernelsAssumption DEF TypeOK, Flat
<1>2. /\ function.invariants = Invariants(kernel)
      /\ function.barriers = InOrder(Kinds(kernel, {"barrier"}))
      /\ function.bodies = [p \in 1 .. Phases(kernel) |-> Body(kernel, p)]
  BY DEF TypeOK, Lower
<1>3. Phases(kernel) \in Nat
  BY <1>1, PhaseFacts
<1>4. Len(function.bodies) = Phases(kernel)
  BY <1>2, <1>3
<1>5. phase > 0 => Here = Body(kernel, phase)
  <2>1. phase \in 0 .. Phases(kernel)
    BY DEF TypeOK
  <2> QED BY <1>2, <1>3, <2>1 DEF Here
<1>6. ASSUME NEW b \in Blocks, NEW t \in Threads
      PROVE  /\ b \in Nat /\ t \in Nat /\ <<b, t>> \in DOMAIN got
             /\ Held(kernel, got[<<b, t>>]) /\ t < BlockSize
  <2>1. b \in Nat /\ t \in Nat /\ t < BlockSize
    BY SimtAssumption DEF Blocks, Threads
  <2>2. <<b, t>> \in DOMAIN got /\ <<b, t>> \in Blocks \X Threads
    BY DEF TypeOK
  <2>3. Held(kernel, got[<<b, t>>])
    BY <2>2 DEF TypeOK
  <2> QED BY <2>1, <2>2, <2>3
<1>7. \A t \in Threads : t < BlockSize
  BY SimtAssumption DEF Threads
<1> QED BY <1>1, <1>2, <1>4, <1>5, <1>6, <1>7, SimtAssumption

\* The mapping of a phase, kind by kind: no operation is in it twice.
LEMMA ValueOfFacts ==
  ASSUME DOMAIN hoisted \cap DOMAIN env = {}, 0 \notin DOMAIN hoisted \cup DOMAIN env,
         \A j \in DOMAIN hoisted \cup DOMAIN env : kernel[j].op \notin Ids \cup Sizes
  PROVE  /\ ValueOf(0) = Parameter
         /\ \A j \in Nat \ {0} :
              /\ kernel[j].op = "thread_id" => ValueOf(j) = thread
              /\ kernel[j].op = "block_id" => ValueOf(j) = block
              /\ kernel[j].op \in Sizes => ValueOf(j) = SizeOf(kernel[j].op)
              /\ j \in DOMAIN hoisted => ValueOf(j) = hoisted[j]
              /\ j \in DOMAIN env => ValueOf(j) = env[j]
<1>1. ValueOf(0) = Parameter
  BY DEF ValueOf
<1>2. ASSUME NEW j \in Nat \ {0}
      PROVE  /\ kernel[j].op = "thread_id" => ValueOf(j) = thread
             /\ kernel[j].op = "block_id" => ValueOf(j) = block
             /\ kernel[j].op \in Sizes => ValueOf(j) = SizeOf(kernel[j].op)
             /\ j \in DOMAIN hoisted => ValueOf(j) = hoisted[j]
             /\ j \in DOMAIN env => ValueOf(j) = env[j]
  BY DEF ValueOf, Ids, Sizes
<1> QED BY <1>1, <1>2


\* The operation that the loop is at runs when the launch takes it, and its
\* operands are mapped to the values of the launch.
LEMMA OperandValues ==
  ASSUME IInv, Flat, InBody, at <= Len(Here), NEW i, i = Here[at],
         NEW v, v = ValuesNow(block, thread)
  PROVE  /\ i \in Needed(kernel, phase) \cup Region(kernel, phase)
         /\ i \in DOMAIN kernel /\ i \in Nat \ {0}
         /\ Runs(i) <=> Taken(v, i)
         /\ Taken(v, i) => \A j \in Operands(kernel, i) : ValueOf(j) = v[j] /\ v[j] \in Nat
<1> DEFINE p == phase
           N == Needed(kernel, p)
           R == Region(kernel, p)
           Inv == Invariants(kernel)
           Rem == Rematerialisable(kernel)
           Own == Dependents(kernel, p)
<1>1. /\ WellFormed(kernel) /\ ~UsesLoaded(kernel) /\ Accepted(kernel)
      /\ p > 0 /\ Here = Body(kernel, p)
      /\ block \in Blocks /\ thread \in Threads /\ block \in Nat /\ thread \in Nat
      /\ Held(kernel, got[<<block, thread>>]) /\ at \in Nat \ {0}
  BY StateFacts DEF IInv, TypeOK, Control, InBody
<1>2. /\ Len(Here) \in Nat /\ DOMAIN Here = 1 .. Len(Here) /\ N \subseteq Rem /\ N \cap R = {}
      /\ \A n \in DOMAIN Here : Here[n] \in N \cup R
      /\ \A j \in N \cup R : \E n \in DOMAIN Here : Here[n] = j
      /\ \A m, n \in DOMAIN Here :
           /\ Here[m] \in N /\ Here[n] \in R => m < n
           /\ Here[m] \in N /\ Here[n] \in N => (m < n <=> Here[m] < Here[n])
           /\ Here[m] \in R /\ Here[n] \in R => (m < n <=> Here[m] < Here[n])
  BY <1>1, BodyFacts
<1>3. at \in DOMAIN Here /\ i \in N \cup R
  BY <1>1, <1>2
<1>4. /\ v \in [0 .. Len(kernel) -> Nat] /\ v[0] = Parameter
      /\ \A j \in DOMAIN kernel :
           Equation(kernel, block, thread, got[<<block, thread>>], v, j)
  BY <1>1, ValuesEquations DEF ValuesNow
<1>5. /\ Len(kernel) \in Nat /\ DOMAIN kernel = 1 .. Len(kernel)
      /\ \A j \in DOMAIN kernel : j \in Nat \ {0}
  BY <1>1, KernelFacts
<1>6. /\ \A j \in Inv : j \in DOMAIN kernel /\ kernel[j].op \in {"constant", "sum", "alloc"}
      /\ \A j \in Rem : j \in DOMAIN kernel /\ kernel[j].op \in {"constant", "sum"}
                        /\ kernel[j].in = 0 /\ j \notin Inv
      /\ \A j \in R : /\ j \in DOMAIN kernel /\ j \notin Inv /\ j \notin Rem
                      /\ kernel[j].op \in Accesses \cup Computations \cup {"alloc", "if"}
  BY <1>1, InvariantOperands, RematFacts, RegionFacts
<1>7. i \in DOMAIN kernel /\ i \in Nat \ {0}
  BY <1>2, <1>3, <1>5, <1>6
<1>8. DOMAIN hoisted = Inv /\ \A j \in Inv : hoisted[j] = v[j]
  BY <1>1 DEF IInv, HoistedAsLaunched
<1>9. /\ \A j : j \in DOMAIN env <=> Seen(j) /\ Taken(v, j)
      /\ \A j \in DOMAIN env : env[j] = IF kernel[j].op = "if" THEN v[kernel[j].args[1]]
                                        ELSE v[j]
  BY DEF IInv, EnvAsLaunched
<1>10. \A j \in DOMAIN env : j \in N \cup R
  BY <1>2, <1>9 DEF Seen
<1>11. /\ DOMAIN hoisted \cap DOMAIN env = {} /\ 0 \notin DOMAIN hoisted \cup DOMAIN env
       /\ \A j \in DOMAIN hoisted \cup DOMAIN env : kernel[j].op \notin Ids \cup Sizes
  <2>1. DOMAIN hoisted \cap DOMAIN env = {}
    BY <1>2, <1>6, <1>8, <1>10
  <2>2. \A j \in DOMAIN hoisted \cup DOMAIN env : j \in DOMAIN kernel
    BY <1>2, <1>6, <1>8, <1>10
  <2>3. \A j \in DOMAIN hoisted \cup DOMAIN env :
          kernel[j].op \in Accesses \cup {"constant", "sum", "alloc", "if"}
    BY <1>2, <1>6, <1>8, <1>10 DEF Computations
  <2> QED BY <1>5, <2>1, <2>2, <2>3 DEF Ids, Sizes, Accesses
<1> HIDE DEF p, N, R, Inv, Rem, Own
\* What the body has come past, or the mapping of the phase knows, has its value.
<1>12. ASSUME NEW j \in N \cup R, kernel[j].op # "if", Taken(v, j),
              \/ j \in N /\ i \in R
              \/ j < i /\ j \in N /\ i \in N
              \/ j < i /\ j \in R /\ i \in R
       PROVE  ValueOf(j) = v[j]
  <2>1. PICK n \in DOMAIN Here : Here[n] = j
    BY <1>2
  <2>2. n < at
    BY <1>2, <1>3, <1>12, <2>1
  <2>3. j \in DOMAIN env /\ env[j] = v[j]
    BY <1>9, <1>12, <2>1, <2>2 DEF Seen
  <2>4. j \in Nat \ {0}
    BY <1>2, <1>5, <1>6
  <2> QED BY <1>11, <2>3, <2>4, ValueOfFacts
<1>13. ASSUME NEW j \in DOMAIN kernel, kernel[j].op \in Ids \cup Sizes \/ j \in Inv
       PROVE  ValueOf(j) = v[j]
  <2>1. j \in Nat \ {0} /\ Equation(kernel, block, thread, got[<<block, thread>>], v, j)
    BY <1>4, <1>5
  <2>2. CASE j \in Inv
    BY <1>8, <1>11, <2>1, <2>2, ValueOfFacts
  <2>3. CASE kernel[j].op \in Ids \cup Sizes
    <3>1. CASE kernel[j].op = "thread_id"
      BY <1>11, <2>1, <3>1, ValueOfFacts DEF Equation
    <3>2. CASE kernel[j].op = "block_id"
      BY <1>11, <2>1, <3>2, ValueOfFacts DEF Equation
    <3>3. CASE kernel[j].op \in Sizes
      BY <1>11, <2>1, <3>3, ValueOfFacts DEF Equation
    <3> QED BY <2>3, <3>1, <3>2, <3>3 DEF Ids
  <2> QED BY <1>13, <2>2, <2>3
<1>14. ValueOf(0) = v[0]
  BY <1>4, <1>11, ValueOfFacts
<1>15. \A j \in Operands(kernel, i) : v[j] \in Nat
  <2>1. \A j \in Operands(kernel, i) : j \in 0 .. Len(kernel)
    BY <1>1, <1>7, KernelFacts
  <2> QED BY <1>4, <2>1
<1>16. CASE i \in N
  <2>1. i \in Rem /\ kernel[i].in = 0
    BY <1>2, <1>6, <1>16
  <2>2. Runs(i) /\ Taken(v, i)
    BY <2>1 DEF Runs, Taken
  <2>3. ASSUME NEW j \in Operands(kernel, i) PROVE ValueOf(j) = v[j]
    <3>1. /\ j # 0 /\ j \in DOMAIN kernel /\ j < i
          /\ kernel[j].op \in Ids \cup Sizes \/ j \in Inv \/ j \in Rem
      BY <1>1, <2>1, RematFacts DEF Inv, Rem
    <3>2. CASE j \in Rem
      <4>1. j \in Uses(kernel, i)
        BY <3>1 DEF Uses
      <4>2. j \in N
        BY <1>16, <3>2, <4>1, NeededFacts DEF N, Needed, Rem
      <4>3. kernel[j].op # "if" /\ Taken(v, j)
        BY <1>6, <3>2 DEF Taken
      <4> QED BY <1>12, <1>16, <3>1, <4>2, <4>3
    <3> QED BY <1>13, <3>1, <3>2
  <2> QED BY <1>3, <1>7, <1>15, <2>2, <2>3 DEF N, R, p
<1>17. CASE i \in R
  <2> DEFINE u == IF kernel[i].in = 0 THEN i ELSE kernel[i].in
  <2>1. /\ u \in Own /\ i \in {u} \cup Inner(kernel, u)
        /\ u \in DOMAIN kernel /\ kernel[u].in = 0 /\ u \in R
        /\ u # i => u < i /\ kernel[u].op = "if" /\ u = kernel[i].in
    <3>1. CASE kernel[i].in = 0
      BY <1>1, <1>6, <1>17, <3>1, RegionFacts DEF R, Own, p
    <3>2. CASE kernel[i].in # 0
      <4>1. /\ kernel[i].in \in Own /\ kernel[i].in < i
            /\ kernel[kernel[i].in].op = "if" /\ kernel[kernel[i].in].in = 0
        BY <1>1, <1>17, <3>2, RegionFacts DEF R, Own, p
      <4>2. kernel[i].in \in DOMAIN kernel
        BY <1>1, <1>7, <3>2, KernelFacts
      <4>3. kernel[i].in \in R
        BY <4>1 DEF R, Region, Own
      <4> QED BY <1>7, <3>2, <4>1, <4>2, <4>3 DEF Inner
    <3> QED BY <3>1, <3>2
  <2> HIDE DEF u
  <2>2. Runs(i) <=> Taken(v, i)
    <3>1. CASE kernel[i].in = 0
      BY <3>1 DEF Runs, Taken
    <3>2. CASE kernel[i].in # 0
      <4>1. u = kernel[i].in /\ u < i /\ kernel[u].op = "if"
        BY <2>1, <3>2 DEF u
      <4>2. PICK n \in DOMAIN Here : Here[n] = u
        BY <1>2, <2>1
      <4>3. n < at
        BY <1>2, <1>3, <1>17, <2>1, <4>1, <4>2
      <4>4. Seen(u) /\ Taken(v, u)
        BY <2>1, <4>2, <4>3 DEF Seen, Taken
      <4>5. env[u] = v[kernel[u].args[1]]
        BY <1>9, <4>1, <4>4
      <4> QED BY <3>2, <4>1, <4>5 DEF Runs, Taken
    <3> QED BY <3>1, <3>2
  <2>3. ASSUME Taken(v, i), NEW j \in Operands(kernel, i) PROVE ValueOf(j) = v[j]
    <3>1. CASE j = 0
      BY <1>14, <3>1
    <3>2. CASE j # 0
      <4>1. /\ j \in DOMAIN kernel /\ j < i /\ kernel[j].in \in {0, kernel[i].in}
            /\ kernel[j].op \notin {"store", "barrier", "if", "alloc"}
        <5>1. /\ j \in 0 .. i - 1 /\ j \in DOMAIN kernel /\ kernel[j].in \in {0, kernel[i].in}
              /\ kernel[j].op \notin {"store", "barrier", "if", "alloc"}
          BY <1>1, <1>7, <3>2, KernelFacts
        <5> QED BY <1>7, <5>1
      <4>2. j \in Uses(kernel, u)
        BY <2>1, <3>2 DEF Uses
      <4>3. CASE kernel[j].op \in Ids \cup Sizes \/ j \in Inv
        BY <1>13, <4>1, <4>3
      <4>4. CASE j \in Rem
        <5>1. j \in N
          BY <2>1, <4>2, <4>4, NeededFacts DEF N, Needed, Rem, Own
        <5>2. Taken(v, j)
          BY <1>6, <4>4 DEF Taken
        <5> QED BY <1>12, <1>17, <4>1, <5>1, <5>2
      <4>5. CASE kernel[j].op \notin Ids \cup Sizes /\ j \notin Inv /\ j \notin Rem
        <5>1. j \in R /\ Taken(v, j)
          <6>1. CASE kernel[j].in = 0
            <7>1. j \in TopLevel(kernel) /\ u \in TopLevel(kernel)
              BY <2>1, <4>1, <6>1 DEF TopLevel
            <7>2. kernel[u].op \notin {"barrier"} \cup Ids
              BY <1>6, <2>1 DEF Accesses, Computations, Ids
            <7>3. PhaseOf(kernel, j) = PhaseOf(kernel, u)
              <8>1. u \in TopLevel(kernel) \ Kinds(kernel, {"barrier"} \cup Ids)
                BY <7>1, <7>2 DEF Kinds
              <8>2. j \in (Uses(kernel, u) \cap TopLevel(kernel))
                          \ (Rem \cup Inv \cup Kinds(kernel, Ids))
                BY <4>2, <4>5, <7>1 DEF Kinds
              <8> QED BY <1>1, <8>1, <8>2 DEF Accepted, CrossesPhase, Rem, Inv
            <7>4. PhaseOf(kernel, u) = p
              BY <2>1 DEF Own, Dependents
            <7>5. j \in Clonable(kernel)
              BY <4>1, <4>5, <7>1 DEF Clonable, Kinds
            <7>6. j \in Own
              BY <4>5, <7>3, <7>4, <7>5 DEF Own, Dependents, Inv, Rem
            <7> QED BY <6>1, <7>6 DEF R, Region, Own, Taken
          <6>2. CASE kernel[j].in # 0
            <7>1. kernel[j].in = kernel[i].in
              BY <4>1, <6>2
            <7>2. j \in R
              BY <1>1, <1>7, <1>17, <4>1, <6>2, <7>1, RegionFacts DEF R
            <7> QED BY <2>3, <7>1, <7>2 DEF Taken
          <6> QED BY <6>1, <6>2
        <5> QED BY <1>12, <1>17, <4>1, <5>1
      <4> QED BY <4>3, <4>4, <4>5
    <3> QED BY <3>1, <3>2
  <2> QED BY <1>3, <1>7, <1>15, <2>2, <2>3 DEF N, R, p
<1> QED BY <1>3, <1>16, <1>17


\* The condition of an scf.if is computed before it and what stands in it.
LEMMA ConditionBefore ==
  ASSUME NEW k, WellFormed(k), NEW e \in DOMAIN k
  PROVE  /\ k[e].in # 0 => /\ k[k[e].in].args[1] \in 0 .. Len(k)
                           /\ k[k[e].in].args[1] < e
         /\ k[e].op = "if" => k[e].args[1] \in 0 .. Len(k) /\ k[e].args[1] < e
<1>1. ASSUME NEW u \in DOMAIN k, k[u].op = "if"
      PROVE  k[u].args[1] \in 0 .. Len(k) /\ k[u].args[1] < u /\ k[u].args[1] \in Nat
  <2>1. Arity(k[u].op) = 1
    BY <1>1, Arguments
  <2>2. k[u].args[1] \in 0 .. u - 1 /\ k[u].args[1] \in 0 .. Len(k)
    BY <2>1, Arguments
  <2>3. u \in Nat
    BY KernelFacts
  <2> QED BY <2>2, <2>3
<1>2. CASE k[e].in # 0
  <2>1. k[e].in \in DOMAIN k /\ k[e].in < e /\ k[k[e].in].op = "if"
        /\ k[e].in \in Nat /\ e \in Nat /\ k[e].op # "if"
    BY <1>2, KernelFacts
  <2>2. k[k[e].in].args[1] \in 0 .. Len(k) /\ k[k[e].in].args[1] < k[e].in
        /\ k[k[e].in].args[1] \in Nat
    BY <1>1, <2>1
  <2> QED BY <1>1, <2>1, <2>2
<1>3. CASE k[e].in = 0
  BY <1>1, <1>3
<1> QED BY <1>2, <1>3

\* Whether the launch takes an operation depends on values before it.
LEMMA TakenStable ==
  ASSUME WellFormed(kernel), NEW e \in DOMAIN kernel, NEW v, NEW w,
         \A j \in 0 .. Len(kernel) : j < e => v[j] = w[j]
  PROVE  Taken(v, e) <=> Taken(w, e)
BY ConditionBefore DEF Taken

\* A step through the body of a loop, in terms of the values of the launch.
LEMMA ExecuteFacts ==
  ASSUME IInv, Flat, Execute, NEW i, i = Here[at], NEW v, v = ValuesNow(block, thread),
         NEW values, values = [n \in DOMAIN kernel[i].args |-> v[kernel[i].args[n]]],
         NEW cell, cell = Cell(kernel[i].buf, block, values[1])
  PROVE  /\ i \in Needed(kernel, phase) \cup Region(kernel, phase)
         /\ i \in DOMAIN kernel /\ i \in Nat \ {0} /\ at \in DOMAIN Here /\ at' = at + 1
         /\ ~Taken(v, i) => UNCHANGED <<memory, got, env>>
         /\ Taken(v, i) /\ kernel[i].op \in Accesses =>
              /\ i \in Region(kernel, phase)
              /\ memory' = MemoryAfter(memory, kernel[i].op, cell, values)
              /\ Define(i, ResultOf(memory, kernel[i].op, cell))
              /\ Record(i, ResultOf(memory, kernel[i].op, cell))
         /\ Taken(v, i) /\ kernel[i].op \notin Accesses =>
              /\ kernel[i].op \notin Effects
              /\ Define(i, IF kernel[i].op = "if" THEN v[kernel[i].args[1]] ELSE v[i])
              /\ UNCHANGED <<memory, got>>
<1>1. InBody /\ at <= Len(Here)
  BY DEF Execute
<1>2. /\ i \in Needed(kernel, phase) \cup Region(kernel, phase)
      /\ i \in DOMAIN kernel /\ i \in Nat \ {0}
      /\ Runs(i) <=> Taken(v, i)
      /\ Taken(v, i) => \A j \in Operands(kernel, i) : ValueOf(j) = v[j] /\ v[j] \in Nat
  BY <1>1, OperandValues
<1>3. /\ WellFormed(kernel) /\ ~UsesLoaded(kernel) /\ Accepted(kernel)
      /\ phase > 0 /\ Here = Body(kernel, phase)
      /\ block \in Blocks /\ thread \in Threads /\ block \in Nat /\ thread \in Nat
      /\ Held(kernel, got[<<block, thread>>]) /\ at \in Nat \ {0}
  BY <1>1, StateFacts DEF IInv, TypeOK, Control, InBody
<1>4. at \in DOMAIN Here /\ at' = at + 1
  <2>1. Len(Here) \in Nat /\ DOMAIN Here = 1 .. Len(Here)
    BY <1>3, BodyFacts
  <2> QED BY <1>1, <1>3, <2>1 DEF Execute
<1>5. /\ kernel[i].op \in Accesses \cup Computations \cup {"alloc", "if"}
      /\ kernel[i].op \in Accesses => i \in Region(kernel, phase)
  <2>1. i \in Region(kernel, phase) =>
          kernel[i].op \in Accesses \cup Computations \cup {"alloc", "if"}
    BY <1>3, RegionFacts
  <2>2. i \in Needed(kernel, phase) => kernel[i].op \in {"constant", "sum"}
    BY <1>3, BodyFacts, RematFacts
  <2> QED BY <1>2, <2>1, <2>2 DEF Computations, Accesses
<1>6. \A n \in DOMAIN kernel[i].args : kernel[i].args[n] \in Operands(kernel, i)
  BY <1>2, <1>3, KernelFacts
<1> DEFINE mapped == [n \in DOMAIN kernel[i].args |-> ValueOf(kernel[i].args[n])]
           place == Cell(kernel[i].buf, block, mapped[1])
<1>7. /\ ~Runs(i) => UNCHANGED <<memory, got, env>>
      /\ Runs(i) /\ Dangling \notin ToSet(mapped) /\ kernel[i].op \in Accesses =>
           /\ memory' = MemoryAfter(memory, kernel[i].op, place, mapped)
           /\ Define(i, ResultOf(memory, kernel[i].op, place))
           /\ Record(i, ResultOf(memory, kernel[i].op, place))
      /\ Runs(i) /\ Dangling \notin ToSet(mapped) /\ kernel[i].op \notin Accesses =>
           Define(i, Compute(kernel[i].op, mapped)) /\ UNCHANGED <<memory, got>>
  BY DEF Execute
<1>8. ASSUME Taken(v, i) PROVE mapped = values /\ Dangling \notin ToSet(mapped)
  <2>1. \A n \in DOMAIN kernel[i].args :
          mapped[n] = v[kernel[i].args[n]] /\ mapped[n] \in Nat
    BY <1>2, <1>6, <1>8
  <2>2. mapped = values
    BY <2>1
  <2>3. \A n \in DOMAIN mapped : mapped[n] # Dangling
    BY <2>1 DEF Dangling
  <2> HIDE DEF mapped
  <2> QED BY <2>2, <2>3 DEF ToSet
<1> HIDE DEF mapped
<1>9. CASE ~Taken(v, i)
  BY <1>2, <1>4, <1>7, <1>9
<1>10. CASE Taken(v, i) /\ kernel[i].op \in Accesses
  BY <1>2, <1>4, <1>5, <1>7, <1>8, <1>10
<1>11. CASE Taken(v, i) /\ kernel[i].op \notin Accesses
  <2>1. Define(i, Compute(kernel[i].op, values)) /\ UNCHANGED <<memory, got>>
    BY <1>2, <1>7, <1>8, <1>11
  <2>2. kernel[i].op \in {"constant", "sum", "alloc", "if"} /\ kernel[i].op \notin Effects
    BY <1>5, <1>11 DEF Computations, Effects, Accesses
  <2>3. Equation(kernel, block, thread, got[<<block, thread>>], v, i)
    BY <1>2, <1>3, ValuesEquations DEF ValuesNow
  <2>4. Compute(kernel[i].op, values)
          = IF kernel[i].op = "if" THEN v[kernel[i].args[1]] ELSE v[i]
    <3>1. CASE kernel[i].op = "constant"
      BY <2>3, <3>1 DEF Compute, Equation
    <3>2. CASE kernel[i].op = "alloc"
      BY <2>3, <3>2 DEF Compute, Equation
    <3>3. CASE kernel[i].op = "if"
      <4>1. Arity(kernel[i].op) = 1
        BY <1>2, <1>3, <3>3, Arguments
      <4>2. 1 \in DOMAIN kernel[i].args
        BY <1>2, <1>3, <4>1, Arguments
      <4>3. values[1] = v[kernel[i].args[1]]
        BY <4>2
      <4> QED BY <3>3, <4>3 DEF Compute
    <3>4. CASE kernel[i].op = "sum"
      <4>1. Arity(kernel[i].op) = 2
        BY <1>2, <1>3, <3>4, Arguments
      <4>2. 1 \in DOMAIN kernel[i].args /\ 2 \in DOMAIN kernel[i].args
        BY <1>2, <1>3, <4>1, Arguments
      <4>3. values[1] = v[kernel[i].args[1]] /\ values[2] = v[kernel[i].args[2]]
        BY <4>2
      <4>4. Compute(kernel[i].op, values) = Plus(values[1], values[2])
        BY <3>4 DEF Compute, Plus
      <4>5. v[i] = Plus(v[kernel[i].args[1]], v[kernel[i].args[2]])
        BY <2>3, <3>4 DEF Equation
      <4> QED BY <3>4, <4>3, <4>4, <4>5
    <3> QED BY <2>2, <3>1, <3>2, <3>3, <3>4
  <2> QED BY <1>2, <1>4, <1>11, <2>1, <2>2, <2>4
<1> QED BY <1>9, <1>10, <1>11


\* A thread that has executed nothing has got nothing.
LEMMA NothingYet == DOMAIN None = {} /\ \A k : Held(k, None)
BY DEF None, Held

\* The invariant holds when the launch is lowered.
LEMMA InitIInv ==
  ASSUME Init, Flat
  PROVE  IInv
<1>1. WellFormed(kernel)
  BY KernelsAssumption DEF Init
<1>2. \A bt \in Blocks \X Threads : got[bt] = None
  BY DEF Init, None
<1>3. Phases(kernel) \in Nat
  BY <1>1, PhaseFacts
<1>4. memory \in [DOMAIN EmptyMemory(kernel) -> Nat]
  <2>1. memory = EmptyMemory(kernel)
    BY DEF Init
  <2> QED BY <2>1 DEF EmptyMemory
<1>5. TypeOK
  <2>1. /\ kernel \in Kernels /\ Accepted(kernel) /\ function = Lower(kernel)
        /\ DOMAIN got = Blocks \X Threads
    BY DEF Init
  <2>2. \A bt \in Blocks \X Threads : Held(kernel, got[bt])
    BY <1>2, NothingYet
  <2>3. /\ block \in 0 .. GridSize /\ phase \in 0 .. Phases(kernel)
        /\ thread \in 0 .. BlockSize /\ at \in Nat \ {0}
    BY <1>3, SimtAssumption DEF Init
  <2> QED BY <1>4, <2>1, <2>2, <2>3 DEF TypeOK
<1>6. Control
  BY DEF Init, Control
<1>7. HoistedAsLaunched
  BY NothingYet DEF Init, HoistedAsLaunched
<1>8. EnvAsLaunched
  BY DEF Init, EnvAsLaunched, InBody
<1>9. GotAsLaunched
  <2>1. ASSUME NEW b \in Blocks, NEW t \in Threads, NEW e
        PROVE  e \notin DOMAIN got[<<b, t>>] /\ ~Past(b, t, e)
    <3>1. e \notin DOMAIN got[<<b, t>>]
      BY <1>2, NothingYet
    <3>2. ~(b < block) /\ ~(phase > 0)
      BY SimtAssumption DEF Init, Blocks
    <3> QED BY <3>1, <3>2 DEF Past
  <2> QED BY <2>1 DEF GotAsLaunched
<1> QED BY <1>5, <1>6, <1>7, <1>8, <1>9 DEF IInv

\* Effects stand in some phase.
LEMMA EffectPhase ==
  ASSUME TypeOK, Flat, NEW e \in Kinds(kernel, Effects)
  PROVE  /\ e \in DOMAIN kernel /\ e \in Nat /\ PhaseOf(kernel, e) \in 1 .. Phases(kernel)
         /\ Phases(kernel) \in Nat \ {0} /\ kernel[e].op \in Effects
         /\ kernel[e].op # "barrier" => e \in Kinds(kernel, Accesses)
         /\ kernel[e].op = "barrier" => e \in Barriers(kernel) /\ kernel[e].in = 0
<1>1. e \in DOMAIN kernel /\ e \in Nat /\ kernel[e].op \in Effects
  BY StateFacts, KernelFacts DEF Kinds
<1>2. PhaseOf(kernel, e) \in 1 .. Phases(kernel) /\ Phases(kernel) \in Nat \ {0}
  BY <1>1, StateFacts, PhaseFacts
<1>3. kernel[e].op # "barrier" => e \in Kinds(kernel, Accesses)
  BY <1>1 DEF Kinds, Effects
<1>4. kernel[e].op = "barrier" => e \in Barriers(kernel) /\ kernel[e].in = 0
  BY <1>1, StateFacts DEF Accepted, DivergentBarrier, Kinds, Barriers, TopLevel
<1> QED BY <1>1, <1>2, <1>3, <1>4

\* The function is entered: its hoisted values are those of the launch.
LEMMA EnterKernelIInv ==
  ASSUME IInv, Flat, EnterKernel
  PROVE  IInv'
<1>1. /\ WellFormed(kernel) /\ ~UsesLoaded(kernel) /\ TypeOK
      /\ function.invariants = Invariants(kernel)
      /\ Phases(kernel) \in Nat /\ Phases(kernel) > 0
      /\ BlockSize \in Nat \ {0} /\ GridSize \in Nat \ {0} /\ 0 \in Threads
  <2>1. Phases(kernel) \in Nat /\ PhaseOf(kernel, 0) \in 1 .. Phases(kernel)
    BY StateFacts, PhaseFacts DEF IInv
  <2> QED BY <2>1, StateFacts DEF IInv, Threads
<1>2. /\ block \in Blocks /\ phase = 0 /\ phase' = 1 /\ thread' = 0 /\ at' = 1 /\ env' = None
      /\ hoisted' = Hoist(kernel, Invariants(kernel), block)
      /\ UNCHANGED <<kernel, function, memory, got, block>>
  BY <1>1 DEF EnterKernel
<1>3. TypeOK'
  BY <1>1, <1>2 DEF TypeOK
<1>4. Control'
  BY <1>1, <1>2 DEF Control
<1>5. \A b, t : ValuesNow(b, t)' = ValuesNow(b, t)
  BY <1>2 DEF ValuesNow, Launch!Values
<1>6. HoistedAsLaunched'
  <2>3. ASSUME NEW t \in Threads
        PROVE  /\ DOMAIN hoisted' = Invariants(kernel)
               /\ \A i \in Invariants(kernel) : hoisted'[i] = ValuesNow(block, t)[i]
    <3>1. block \in Nat /\ t \in Nat /\ Held(kernel, got[<<block, t>>])
      BY <1>1, <1>2, StateFacts
    <3> QED BY <1>1, <1>2, <3>1, HoistValues DEF ValuesNow
  <2>1. /\ DOMAIN hoisted' = Invariants(kernel)
        /\ \A t \in Threads, i \in Invariants(kernel) : hoisted'[i] = ValuesNow(block, t)[i]
    BY <1>1, <2>3
  <2>2. ASSUME NEW i \in Invariants(kernel) PROVE hoisted'[i] # Dangling
    <3>1. ValuesNow(block, 0) \in [0 .. Len(kernel) -> Nat]
      BY <1>1, <1>2, StateFacts, ValuesEquations DEF ValuesNow
    <3>2. i \in 0 .. Len(kernel)
      BY <1>1, InvariantOperands, KernelFacts
    <3>3. ValuesNow(block, 0)[i] \in Nat
      BY <3>1, <3>2
    <3> QED BY <1>1, <2>1, <3>3 DEF Dangling
  <2> QED BY <1>2, <1>5, <2>1, <2>2 DEF HoistedAsLaunched
<1>9. \A i : ~Seen(i)'
  <2>1. Here' = Body(kernel, 1)
    BY <1>1, <1>2, <1>3, StateFacts DEF Here, TypeOK, Lower
  <2>2. DOMAIN Here' = 1 .. Len(Here')
    BY <1>1, <2>1, BodyFacts DEF TypeOK
  <2> QED BY <1>2, <2>2 DEF Seen
<1>7. EnvAsLaunched'
  BY <1>2, <1>9, NothingYet DEF EnvAsLaunched
<1>8. GotAsLaunched'
  <2>1. ASSUME NEW b \in Blocks, NEW t \in Threads, NEW e \in Kinds(kernel, Effects)
        PROVE  Past(b, t, e)' <=> Past(b, t, e)
    <3>1. PhaseOf(kernel, e) \in 1 .. Phases(kernel)
      BY <1>1, EffectPhase
    <3>3. ~(t < 0)
      BY DEF Threads
    <3> QED BY <1>1, <1>2, <1>9, <3>1, <3>3 DEF Past
  <2>2. ASSUME NEW b \in Blocks, NEW t \in Threads, NEW e
        PROVE  Taken(ValuesNow(b, t), e)' <=> Taken(ValuesNow(b, t), e)
    BY <1>2, <1>5 DEF Taken
  <2> QED BY <1>2, <2>1, <2>2 DEF IInv, GotAsLaunched
<1> QED BY <1>3, <1>4, <1>6, <1>7, <1>8 DEF IInv


\* The barriers in order, each at the end of its phase.
LEMMA BarrierFacts ==
  ASSUME TypeOK, Flat, NEW p \in Nat \ {0}, p < Phases(kernel),
         NEW i, i = function.barriers[p]
  PROVE  /\ i \in Kinds(kernel, {"barrier"}) /\ i \in Kinds(kernel, Effects)
         /\ i \in DOMAIN kernel /\ i \in Nat /\ kernel[i].in = 0
         /\ kernel[i].op = "barrier" /\ PhaseOf(kernel, i) = p
         /\ \A e \in Kinds(kernel, {"barrier"}) : PhaseOf(kernel, e) = p => e = i
<1> DEFINE B == Kinds(kernel, {"barrier"})
<1>1. WellFormed(kernel) /\ Accepted(kernel) /\ function.barriers = InOrder(B)
  BY StateFacts
<1>2. B = Barriers(kernel)
  BY <1>1 DEF Accepted, DivergentBarrier, Kinds, Barriers, TopLevel
<1>3. Len(kernel) \in Nat /\ B \in SUBSET (1 .. Len(kernel)) /\ DOMAIN kernel = 1 .. Len(kernel)
  BY <1>1, KernelFacts DEF Kinds
<1>4. Phases(kernel) = 1 + Cardinality(B)
  BY <1>1, <1>2, PhaseFacts
<1>5. \A e \in B : e \in Nat /\ e \in DOMAIN kernel /\ kernel[e].op = "barrier"
                   /\ kernel[e].in = 0
  BY <1>1, <1>2, PhaseFacts DEF Barriers, TopLevel, Kinds
<1>6. \A e \in B : \A f \in Nat : e < f => PhaseOf(kernel, e) < PhaseOf(kernel, f)
  BY <1>1, <1>2, PhaseFacts
<1>7. \A f : PhaseOf(kernel, f) = 1 + Cardinality({ j \in B : j < f })
  BY <1>2 DEF PhaseOf, Barriers
<1>8. \A f \in Nat : PhaseOf(kernel, f) \in Nat
  BY <1>1, PhaseFacts
<1> HIDE DEF B
<1>9. /\ Cardinality(B) \in Nat /\ DOMAIN InOrder(B) = 1 .. Cardinality(B)
      /\ \A n \in DOMAIN InOrder(B) :
           InOrder(B)[n] \in B /\ Cardinality({ j \in B : j < InOrder(B)[n] }) = n - 1
  BY <1>3, InOrderLists
<1>10. p \in DOMAIN InOrder(B) /\ i = InOrder(B)[p]
  BY <1>1, <1>4, <1>9
<1>11. i \in B /\ PhaseOf(kernel, i) = p
  <2>1. i \in B /\ Cardinality({ j \in B : j < i }) = p - 1
    BY <1>9, <1>10
  <2>2. PhaseOf(kernel, i) = 1 + Cardinality({ j \in B : j < i })
    BY <1>7
  <2> QED BY <2>1, <2>2
<1>12. ASSUME NEW e \in B, PhaseOf(kernel, e) = p PROVE e = i
  <2>1. e \in Nat /\ i \in Nat /\ ~(e < i) /\ ~(i < e)
    BY <1>5, <1>6, <1>11, <1>12
  <2> QED BY <2>1
<1>13. i \in Kinds(kernel, Effects)
  BY <1>5, <1>11 DEF Kinds, Effects
<1> QED BY <1>5, <1>11, <1>12, <1>13 DEF B

\* The body of a phase lists the accesses of the phase.
LEMMA AccessListed ==
  ASSUME TypeOK, Flat, phase > 0, NEW e \in Kinds(kernel, Accesses),
         PhaseOf(kernel, e) = phase
  PROVE  /\ Len(Here) \in Nat /\ DOMAIN Here = 1 .. Len(Here)
         /\ e \in Region(kernel, phase) /\ \E n \in DOMAIN Here : Here[n] = e
<1>1. WellFormed(kernel) /\ Accepted(kernel) /\ Here = Body(kernel, phase)
  BY StateFacts
<1>2. e \in Region(kernel, phase)
  BY <1>1, RegionFacts
<1> QED BY <1>1, <1>2, BodyFacts

\* At the end of an iteration the thread is past all accesses of the phase.
LEMMA IterationDone ==
  ASSUME TypeOK, Flat, phase > 0, at > Len(Here), NEW e \in Kinds(kernel, Accesses),
         PhaseOf(kernel, e) = phase
  PROVE  Seen(e)
<1>1. Len(Here) \in Nat /\ DOMAIN Here = 1 .. Len(Here)
  BY AccessListed
<1>2. PICK n \in DOMAIN Here : Here[n] = e
  BY AccessListed
<1>3. n < at
  BY <1>1 DEF TypeOK
<1> QED BY <1>2, <1>3 DEF Seen

\* The next thread of the block takes its turn in the phase.
LEMMA EndIterationIInv ==
  ASSUME IInv, Flat, EndIteration
  PROVE  IInv'
<1>1. /\ TypeOK /\ phase > 0 /\ phase' = phase /\ thread \in Threads /\ at > Len(Here)
      /\ thread' = thread + 1 /\ at' = 1 /\ env' = None
      /\ UNCHANGED <<kernel, function, memory, got, block, hoisted>>
  BY DEF EndIteration, InBody, IInv
<1>2. /\ thread \in Nat /\ thread < BlockSize /\ BlockSize \in Nat /\ phase \in Nat
      /\ thread + 1 \in 0 .. BlockSize
  BY <1>1, StateFacts DEF TypeOK
<1>3. TypeOK'
  BY <1>1, <1>2 DEF TypeOK
<1>4. Control'
  BY <1>1, <1>2 DEF IInv, Control
<1>5. \A b, t : ValuesNow(b, t)' = ValuesNow(b, t)
  BY <1>1 DEF ValuesNow, Launch!Values
<1>6. HoistedAsLaunched'
  BY <1>1, <1>5 DEF IInv, HoistedAsLaunched
<1>7. Here' = Here
  BY <1>1 DEF Here
<1>8. \A i : ~Seen(i)'
  <2>1. Here = Body(kernel, phase) /\ DOMAIN Here = 1 .. Len(Here)
    BY <1>1, StateFacts, BodyFacts
  <2> QED BY <1>1, <1>7, <2>1 DEF Seen
<1>9. EnvAsLaunched'
  BY <1>1, <1>8, NothingYet DEF EnvAsLaunched
<1>10. GotAsLaunched'
  <2>1. ASSUME NEW b \in Blocks, NEW t \in Threads, NEW e \in Kinds(kernel, Effects)
        PROVE  Past(b, t, e)' <=> Past(b, t, e)
    <3>1. t \in Nat
      BY StateFacts, <1>1
    <3>2. PhaseOf(kernel, e) = phase /\ kernel[e].op # "barrier" => Seen(e)
      BY <1>1, EffectPhase, IterationDone
    <3>3. t < thread + 1 <=> t < thread \/ t = thread
      BY <1>2, <3>1
    <3> QED BY <1>1, <1>8, <3>2, <3>3 DEF Past
  <2>2. ASSUME NEW b \in Blocks, NEW t \in Threads, NEW e
        PROVE  Taken(ValuesNow(b, t), e)' <=> Taken(ValuesNow(b, t), e)
    BY <1>1, <1>5 DEF Taken
  <2> QED BY <1>1, <2>1, <2>2 DEF IInv, GotAsLaunched
<1> QED BY <1>3, <1>4, <1>6, <1>9, <1>10 DEF IInv


\* Two threads that have got the same results have the same values.
LEMMA SameValues ==
  ASSUME NEW k, WellFormed(k), NEW b \in Nat, NEW t \in Nat,
         NEW g, Held(k, g), NEW h, Held(k, h),
         \A e \in Kinds(k, Effects) : Result(g, e) = Result(h, e)
  PROVE  Launch!Values(k, b, t, g) = Launch!Values(k, b, t, h)
<1>1. PICK x : x = Launch!Values(k, b, t, g)
  OBVIOUS
<1>2. PICK y : y = Launch!Values(k, b, t, h)
  OBVIOUS
<1>3. x \in [0 .. Len(k) -> Nat] /\ y \in [0 .. Len(k) -> Nat]
  BY <1>1, <1>2, ValuesEquations
<1>4. \A n \in 0 .. Len(k) : x[n] = y[n]
  BY <1>1, <1>2, ValuesStable
<1>5. x = y
  BY <1>3, <1>4
<1> QED BY <1>1, <1>2, <1>5

\* The end of a phase that is not the last: the threads of the block get the
\* barrier, which changes none of their values.
LEMMA EndPhaseFacts ==
  ASSUME IInv, Flat, EndPhase, phase < Phases(kernel), NEW i, i = function.barriers[phase]
  PROVE  /\ phase' = phase + 1 /\ block' = block /\ i \in Kinds(kernel, {"barrier"})
         /\ \A b \in Blocks, t \in Threads :
              /\ b # block => got'[<<b, t>>] = got[<<b, t>>]
              /\ b = block => got'[<<b, t>>] = Launch!With(got[<<b, t>>], i, 0)
         /\ DOMAIN got' = Blocks \X Threads
         /\ got' = [bt \in DOMAIN got |-> IF bt[1] = block THEN Launch!With(got[bt], i, 0)
                                          ELSE got[bt]]
         /\ \A b \in Blocks, t \in Threads :
              /\ Held(kernel, got'[<<b, t>>])
              /\ Launch!Values(kernel, b, t, got'[<<b, t>>]) = ValuesNow(b, t)
<1>1. /\ TypeOK /\ WellFormed(kernel) /\ ~UsesLoaded(kernel) /\ phase > 0 /\ phase \in Nat \ {0}
      /\ Len(function.bodies) = Phases(kernel)
      /\ DOMAIN got = Blocks \X Threads /\ thread = BlockSize
  BY StateFacts DEF IInv, TypeOK, EndPhase
<1>2. /\ i \in Kinds(kernel, {"barrier"}) /\ i \in Kinds(kernel, Effects) /\ i \in DOMAIN kernel
      /\ kernel[i].op = "barrier" /\ PhaseOf(kernel, i) = phase
  BY <1>1, BarrierFacts
<1>3. /\ phase' = phase + 1 /\ block' = block
      /\ got' = [bt \in DOMAIN got |->
                   IF bt[1] # block THEN got[bt]
                   ELSE [j \in DOMAIN got[bt] \cup {i} |-> IF j = i THEN 0 ELSE got[bt][j]]]
  BY <1>1 DEF EndPhase
<1>4. got' = [bt \in DOMAIN got |-> IF bt[1] = block THEN Launch!With(got[bt], i, 0)
                                    ELSE got[bt]]
  BY <1>3 DEF Launch!With
<1>5. \A b \in Blocks, t \in Threads :
        /\ b # block => got'[<<b, t>>] = got[<<b, t>>]
        /\ b = block => got'[<<b, t>>] = Launch!With(got[<<b, t>>], i, 0)
  BY <1>1, <1>4
<1>6. ASSUME NEW b \in Blocks, NEW t \in Threads
      PROVE  /\ Held(kernel, got'[<<b, t>>])
             /\ Launch!Values(kernel, b, t, got'[<<b, t>>]) = ValuesNow(b, t)
  <2>1. b \in Nat /\ t \in Nat /\ Held(kernel, got[<<b, t>>])
    BY <1>1, StateFacts
  <2>2. CASE b # block
    BY <1>5, <2>1, <2>2 DEF ValuesNow
  <2>3. CASE b = block
    <3> DEFINE g == got[<<b, t>>]
               h == Launch!With(g, i, 0)
    <3>1. i \notin DOMAIN g
      <4>1. ~Past(b, t, i)
        <5>1. block \in Nat /\ phase \in Nat
          BY <1>1 DEF TypeOK
        <5> QED BY <1>2, <2>3, <5>1 DEF Past
      <4> QED BY <4>1 DEF IInv, GotAsLaunched
    <3>2. /\ DOMAIN h = DOMAIN g \cup {i} /\ h[i] = 0
          /\ \A e \in DOMAIN g : h[e] = g[e]
      BY <3>1 DEF Launch!With
    <3> HIDE DEF g, h
    <3>3. Held(kernel, h)
      BY <2>1, <3>2 DEF Held, g
    <3>4. \A e \in Kinds(kernel, Effects) : Result(h, e) = Result(g, e)
      BY <3>1, <3>2 DEF Result
    <3>5. Launch!Values(kernel, b, t, h) = Launch!Values(kernel, b, t, g)
      BY <1>1, <2>1, <3>3, <3>4, SameValues DEF g
    <3> QED BY <1>5, <2>3, <3>3, <3>5 DEF ValuesNow, g, h
  <2> QED BY <2>2, <2>3
<1>7. DOMAIN got' = Blocks \X Threads
  BY <1>1, <1>4
<1> QED BY <1>2, <1>3, <1>4, <1>5, <1>6, <1>7

\* The next phase, or the next block.
LEMMA EndPhaseIInv ==
  ASSUME IInv, Flat, EndPhase
  PROVE  IInv'
<1>1. /\ TypeOK /\ WellFormed(kernel) /\ ~UsesLoaded(kernel) /\ phase > 0 /\ phase \in Nat \ {0}
      /\ Len(function.bodies) = Phases(kernel) /\ Phases(kernel) \in Nat
      /\ phase \in 1 .. Phases(kernel)
      /\ DOMAIN got = Blocks \X Threads /\ thread = BlockSize
      /\ block \in Blocks /\ block \in Nat /\ GridSize \in Nat /\ BlockSize \in Nat \ {0}
      /\ thread' = 0 /\ at' = 1 /\ at = 1 /\ env = None
      /\ UNCHANGED <<kernel, function, memory, hoisted, env>>
      /\ block + 1 \in 0 .. GridSize
  <2>1. /\ TypeOK /\ WellFormed(kernel) /\ ~UsesLoaded(kernel) /\ phase > 0
        /\ Len(function.bodies) = Phases(kernel) /\ Phases(kernel) \in Nat
        /\ DOMAIN got = Blocks \X Threads /\ thread = BlockSize
        /\ block \in Blocks /\ at = 1 /\ env = None
        /\ BlockSize \in Nat \ {0} /\ GridSize \in Nat \ {0}
    BY StateFacts, PhaseFacts DEF IInv, TypeOK, EndPhase, Control
  <2>2. phase \in 0 .. Phases(kernel) /\ block \in 0 .. GridSize - 1
    BY <2>1 DEF TypeOK, Blocks
  <2> QED BY <2>1, <2>2 DEF EndPhase
<1>2. \A t \in Threads : t \in Nat /\ t < BlockSize
  BY <1>1, StateFacts
<1>3. CASE phase < Phases(kernel)
  <2>1. PICK i : i = function.barriers[phase]
    OBVIOUS
  <2>2. /\ phase' = phase + 1 /\ block' = block /\ DOMAIN got' = Blocks \X Threads
        /\ \A b \in Blocks, t \in Threads :
             /\ b # block => got'[<<b, t>>] = got[<<b, t>>]
             /\ b = block => got'[<<b, t>>] = Launch!With(got[<<b, t>>], i, 0)
             /\ Held(kernel, got'[<<b, t>>])
             /\ Launch!Values(kernel, b, t, got'[<<b, t>>]) = ValuesNow(b, t)
    BY <1>3, <2>1, EndPhaseFacts
  <2>3. /\ i \in Kinds(kernel, Effects) /\ kernel[i].in = 0 /\ kernel[i].op = "barrier"
        /\ PhaseOf(kernel, i) = phase
        /\ \A e \in Kinds(kernel, {"barrier"}) : PhaseOf(kernel, e) = phase => e = i
    BY <1>1, <1>3, <2>1, BarrierFacts
  <2>4. TypeOK'
    <3>1. \A bt \in Blocks \X Threads : Held(kernel, got'[bt])
      <4> TAKE bt \in Blocks \X Threads
      <4>1. PICK b \in Blocks, t \in Threads : bt = <<b, t>>
        OBVIOUS
      <4> QED BY <2>2, <4>1
    <3>2. phase + 1 \in 0 .. Phases(kernel) /\ 0 \in 0 .. BlockSize /\ 1 \in Nat \ {0}
      BY <1>1, <1>3
    <3> QED BY <1>1, <2>2, <3>1, <3>2 DEF TypeOK
  <2>5. Control'
    BY <1>1, <2>2 DEF Control
  <2>6. \A b \in Blocks, t \in Threads : ValuesNow(b, t)' = ValuesNow(b, t)
    <3> TAKE b \in Blocks, t \in Threads
    <3>1. ValuesNow(b, t)' = Launch!Values(kernel, b, t, got'[<<b, t>>])
      BY <1>1 DEF ValuesNow, Launch!Values
    <3> QED BY <2>2, <3>1
  <2>7. HoistedAsLaunched'
    BY <1>1, <2>2, <2>6 DEF IInv, HoistedAsLaunched
  <2>8. \A n : ~Seen(n)'
    <3>1. phase' > 0 /\ at' = 1
      BY <1>1, <2>2
    <3>2. Here' = Body(kernel, phase')
      BY <1>1, <2>4, <3>1, PhaseFacts DEF Here, TypeOK, Lower
    <3>3. DOMAIN Here' = 1 .. Len(Here')
      BY <1>1, <3>2, BodyFacts DEF TypeOK
    <3> QED BY <3>1, <3>3 DEF Seen
  <2>9. EnvAsLaunched'
    BY <1>1, <2>8, NothingYet DEF EnvAsLaunched
  <2>10. GotAsLaunched'
    <3>1. ASSUME NEW b \in Blocks, NEW t \in Threads, NEW e \in Kinds(kernel, Effects)
          PROVE  Past(b, t, e)' <=> Past(b, t, e) \/ (b = block /\ e = i)
      <4>1. /\ PhaseOf(kernel, e) \in 1 .. Phases(kernel)
            /\ kernel[e].op = "barrier" => e \in Kinds(kernel, {"barrier"})
        BY <1>1, EffectPhase DEF Kinds
      <4>2. t < thread /\ ~(t < 0)
        BY <1>1, <1>2
      <4>3. CASE b = block
        <5>1. Past(b, t, e)' <=> PhaseOf(kernel, e) <= phase
          BY <1>1, <2>2, <2>8, <4>1, <4>2, <4>3 DEF Past
        <5>2. Past(b, t, e) <=> \/ PhaseOf(kernel, e) < phase
                                \/ PhaseOf(kernel, e) = phase /\ kernel[e].op # "barrier"
          BY <1>1, <4>2, <4>3 DEF Past
        <5>3. PhaseOf(kernel, e) = phase /\ kernel[e].op = "barrier" <=> e = i
          BY <2>3, <4>1
        <5> QED BY <1>1, <2>3, <4>1, <4>3, <5>1, <5>2, <5>3
      <4>4. CASE b # block
        BY <1>1, <2>2, <4>4 DEF Past
      <4> QED BY <4>3, <4>4
    <3>2. ASSUME NEW b \in Blocks, NEW t \in Threads, NEW e
          PROVE  Taken(ValuesNow(b, t), e)' <=> Taken(ValuesNow(b, t), e)
      BY <1>1, <2>6 DEF Taken
    <3>3. ASSUME NEW b \in Blocks, NEW t \in Threads, NEW e
          PROVE  e \in DOMAIN got'[<<b, t>>] <=>
                   e \in DOMAIN got[<<b, t>>] \/ (b = block /\ e = i)
      <4>1. b = block => got'[<<b, t>>] = Launch!With(got[<<b, t>>], i, 0)
        BY <2>2
      <4>2. b # block => got'[<<b, t>>] = got[<<b, t>>]
        BY <2>2
      <4>3. PICK g : g = got[<<b, t>>]
        OBVIOUS
      <4>4. PICK h : h = got'[<<b, t>>]
        OBVIOUS
      <4>5. CASE b = block
        <5>1. DOMAIN h = DOMAIN g \cup {i}
          <6>1. h = Launch!With(g, i, 0)
            BY <4>1, <4>3, <4>4, <4>5
          <6> QED BY <6>1 DEF Launch!With
        <5> QED BY <4>3, <4>4, <4>5, <5>1
      <4>6. CASE b # block
        BY <4>2, <4>6
      <4> QED BY <4>5, <4>6
    <3>4. ASSUME NEW b \in Blocks, NEW t \in Threads, NEW e
          PROVE  e \in DOMAIN got'[<<b, t>>] <=>
                   e \in Kinds(kernel, Effects) /\ Past(b, t, e)'
                     /\ Taken(ValuesNow(b, t), e)'
      <4>1. e \in DOMAIN got[<<b, t>>] <=>
              e \in Kinds(kernel, Effects) /\ Past(b, t, e) /\ Taken(ValuesNow(b, t), e)
        BY DEF IInv, GotAsLaunched
      <4>2. Taken(ValuesNow(b, t), i)
        BY <2>3 DEF Taken
      <4> QED BY <2>3, <3>1, <3>2, <3>3, <4>1, <4>2
    <3> QED BY <1>1, <3>4 DEF GotAsLaunched
  <2> QED BY <2>4, <2>5, <2>7, <2>9, <2>10 DEF IInv
<1>4. CASE ~(phase < Phases(kernel))
  <2>1. phase = Phases(kernel) /\ phase' = 0 /\ block' = block + 1 /\ UNCHANGED got
    BY <1>1, <1>4 DEF EndPhase
  <2>2. TypeOK'
    BY <1>1, <2>1 DEF TypeOK
  <2>3. Control'
    BY <1>1, <2>1 DEF Control
  <2>4. \A b, t : ValuesNow(b, t)' = ValuesNow(b, t)
    BY <1>1, <2>1 DEF ValuesNow, Launch!Values
  <2>5. HoistedAsLaunched'
    BY <1>1, <2>1 DEF IInv, HoistedAsLaunched
  <2>6. EnvAsLaunched'
    BY <2>1 DEF EnvAsLaunched, InBody
  <2>7. GotAsLaunched'
    <3>1. ASSUME NEW b \in Blocks, NEW t \in Threads, NEW e \in Kinds(kernel, Effects)
          PROVE  Past(b, t, e)' <=> Past(b, t, e)
      <4>1. PhaseOf(kernel, e) < phase \/ (PhaseOf(kernel, e) = phase /\ kernel[e].op # "barrier")
        <5>1. PhaseOf(kernel, e) \in 1 .. Phases(kernel)
          BY <1>1, EffectPhase
        <5>2. kernel[e].op = "barrier" => PhaseOf(kernel, e) < Phases(kernel)
          BY <1>1, EffectPhase, PhaseFacts
        <5> QED BY <1>1, <2>1, <5>1, <5>2
      <4>2. t < thread
        BY <1>1, <1>2
      <4>3. Past(b, t, e) <=> b < block \/ b = block
        BY <1>1, <4>1, <4>2 DEF Past
      <4>4. Past(b, t, e)' <=> b < block + 1
        BY <2>1 DEF Past
      <4>5. b \in Nat
        BY <1>1, StateFacts
      <4> QED BY <1>1, <4>3, <4>4, <4>5
    <3>2. ASSUME NEW b \in Blocks, NEW t \in Threads, NEW e
          PROVE  Taken(ValuesNow(b, t), e)' <=> Taken(ValuesNow(b, t), e)
      BY <1>1, <2>4 DEF Taken
    <3> QED BY <1>1, <2>1, <3>1, <3>2 DEF IInv, GotAsLaunched
  <2> QED BY <2>2, <2>3, <2>5, <2>6, <2>7 DEF IInv
<1> QED BY <1>3, <1>4


\* An access stays in the memory of the launch.
LEMMA CellFacts ==
  ASSUME NEW k, WellFormed(k), NEW i \in DOMAIN k, NEW b \in Blocks, NEW a \in Nat
  PROVE  Cell(k[i].buf, b, a) \in DOMAIN EmptyMemory(k)
<1>1. Cells \in Nat \ {0} /\ a % Cells \in 0 .. Cells - 1
  BY SimtAssumption
<1>2. \A r \in 0 .. Cells - 1 : r % Cells = r
  BY <1>1
<1>3. PICK r \in 0 .. Cells - 1 : r = a % Cells /\ r % Cells = r
  BY <1>1, <1>2
<1>4. DOMAIN EmptyMemory(k)
        = { Cell(0, 0, x) : x \in 0 .. Cells - 1 }
          \cup { Cell(j, c, x) : j \in Kinds(k, {"alloc"}), c \in Blocks, x \in 0 .. Cells - 1 }
  BY DEF EmptyMemory
<1>5. CASE k[i].buf = 0
  <2>1. Cell(k[i].buf, b, a) = <<0, 0, r>> /\ Cell(0, 0, r) = <<0, 0, r>>
    BY <1>3, <1>5 DEF Cell
  <2>2. Cell(0, 0, r) \in { Cell(0, 0, x) : x \in 0 .. Cells - 1 }
    OBVIOUS
  <2> QED BY <1>4, <2>1, <2>2
<1>6. CASE k[i].buf # 0
  <2>1. k[i].buf \in Kinds(k, {"alloc"})
    BY <1>6, KernelFacts DEF Kinds
  <2>2. Cell(k[i].buf, b, a) = Cell(k[i].buf, b, r)
    BY <1>3, <1>6 DEF Cell
  <2>3. Cell(k[i].buf, b, r) \in { Cell(j, c, x) : j \in Kinds(k, {"alloc"}), c \in Blocks,
                                                   x \in 0 .. Cells - 1 }
    BY <2>1
  <2> QED BY <1>4, <2>2, <2>3
<1> QED BY <1>5, <1>6

\* An access keeps the memory well typed and returns a number.
LEMMA MemoryFacts ==
  ASSUME NEW D, NEW m \in [D -> Nat], NEW kind \in Accesses, NEW c \in D, NEW values,
         kind \in {"store", "atomic"} => values[2] \in Nat
  PROVE  MemoryAfter(m, kind, c, values) \in [D -> Nat] /\ ResultOf(m, kind, c) \in Nat
<1>1. Cells \in Nat \ {0}
  BY SimtAssumption
<1>2. CASE kind = "load"
  BY <1>2 DEF MemoryAfter, ResultOf
<1>3. CASE kind = "store"
  <2>1. values[2] % Cells \in Nat
    BY <1>1, <1>3
  <2> QED BY <1>3, <2>1 DEF MemoryAfter, ResultOf
<1>4. CASE kind = "atomic"
  <2>1. (m[c] + values[2]) % Cells \in Nat
    BY <1>1, <1>4
  <2> QED BY <1>4, <2>1 DEF MemoryAfter, ResultOf
<1> QED BY <1>2, <1>3, <1>4 DEF Accesses

\* An access gives its thread a result and disturbs none of the values that the
\* body has computed: those before it, and those computed again at its start.
LEMMA AccessFacts ==
  ASSUME IInv, Flat, Execute, NEW i, i = Here[at], NEW v, v = ValuesNow(block, thread),
         Taken(v, i), kernel[i].op \in Accesses
  PROVE  /\ memory' \in [DOMAIN EmptyMemory(kernel) -> Nat]
         /\ DOMAIN got' = Blocks \X Threads
         /\ \A b \in Blocks, t \in Threads :
              /\ Held(kernel, got'[<<b, t>>])
              /\ <<b, t>> # <<block, thread>> => got'[<<b, t>>] = got[<<b, t>>]
         /\ \A e : e \in DOMAIN got'[<<block, thread>>] <=>
                     e \in DOMAIN got[<<block, thread>>] \/ e = i
         /\ \A j \in 0 .. Len(kernel) :
              j < i => Launch!Values(kernel, block, thread, got'[<<block, thread>>])[j] = v[j]
         /\ \A j \in Rematerialisable(kernel) :
              Launch!Values(kernel, block, thread, got'[<<block, thread>>])[j] = v[j]
         /\ env' = [j \in DOMAIN env \cup {i} |->
                      IF j = i THEN Launch!Values(kernel, block, thread,
                                                  got'[<<block, thread>>])[i]
                      ELSE env[j]]
<1> DEFINE values == [n \in DOMAIN kernel[i].args |-> v[kernel[i].args[n]]]
           cell == Cell(kernel[i].buf, block, values[1])
           result == ResultOf(memory, kernel[i].op, cell)
           g == got[<<block, thread>>]
           h == got'[<<block, thread>>]
           D == DOMAIN EmptyMemory(kernel)
<1>1. /\ WellFormed(kernel) /\ ~UsesLoaded(kernel) /\ memory \in [D -> Nat]
      /\ block \in Blocks /\ thread \in Threads /\ block \in Nat /\ thread \in Nat
      /\ <<block, thread>> \in DOMAIN got /\ DOMAIN got = Blocks \X Threads
      /\ \A b \in Blocks, t \in Threads : Held(kernel, got[<<b, t>>])
  BY StateFacts DEF IInv, TypeOK, Control, Execute, InBody
<1>2. /\ i \in DOMAIN kernel /\ i \in Nat \ {0}
      /\ memory' = MemoryAfter(memory, kernel[i].op, cell, values)
      /\ Define(i, result) /\ Record(i, result)
  BY ExecuteFacts
<1>3. /\ v \in [0 .. Len(kernel) -> Nat] /\ Len(kernel) \in Nat
      /\ DOMAIN kernel = 1 .. Len(kernel)
  BY <1>1, ValuesEquations, KernelFacts DEF ValuesNow
<1>4. \A n \in 1 .. Arity(kernel[i].op) : values[n] \in Nat
  <2> TAKE n \in 1 .. Arity(kernel[i].op)
  <2>1. n \in DOMAIN kernel[i].args /\ kernel[i].args[n] \in 0 .. Len(kernel)
    BY <1>1, <1>2, Arguments
  <2> QED BY <1>3, <2>1
<1>5. /\ values[1] \in Nat
      /\ kernel[i].op \in {"store", "atomic"} => values[2] \in Nat
  <2>1. /\ kernel[i].op \in {"store", "atomic"} => Arity(kernel[i].op) = 2
        /\ kernel[i].op = "load" => Arity(kernel[i].op) = 1
    BY <1>1, <1>2, Arguments
  <2> HIDE DEF values
  <2> QED BY <1>4, <2>1 DEF Accesses
<1> HIDE DEF values
<1>6. cell \in D
  BY <1>1, <1>2, <1>5, CellFacts
<1> HIDE DEF cell
<1>7. memory' \in [D -> Nat] /\ result \in Nat
  <2> HIDE DEF D
  <2> QED BY <1>1, <1>2, <1>5, <1>6, MemoryFacts
<1> HIDE DEF D, result
<1>8. got' = [got EXCEPT ![<<block, thread>>] =
                [j \in DOMAIN @ \cup {i} |-> IF j = i THEN result ELSE @[j]]]
  BY <1>2 DEF Record
<1>9. DOMAIN got' = Blocks \X Threads
  BY <1>1, <1>8
<1>10. h = [j \in DOMAIN g \cup {i} |-> IF j = i THEN result ELSE g[j]]
  BY <1>1, <1>8
<1>11. \A b \in Blocks, t \in Threads :
         <<b, t>> # <<block, thread>> => got'[<<b, t>>] = got[<<b, t>>]
  BY <1>1, <1>8
<1>12. Held(kernel, g)
  BY <1>1
<1> HIDE DEF g, h
<1>13. Held(kernel, h)
  BY <1>7, <1>10, <1>12 DEF Held
<1>14. ASSUME NEW b \in Blocks, NEW t \in Threads PROVE Held(kernel, got'[<<b, t>>])
  <2>1. CASE <<b, t>> = <<block, thread>>
    BY <1>13, <2>1 DEF h
  <2>2. CASE <<b, t>> # <<block, thread>>
    BY <1>1, <1>11, <2>2
  <2> QED BY <2>1, <2>2
<1>15. \A e : e # i => Result(h, e) = Result(g, e)
  BY <1>10 DEF Result
<1>16. v = Launch!Values(kernel, block, thread, g)
  BY DEF ValuesNow, g
<1>17. ASSUME NEW j \in 0 .. Len(kernel), j < i
       PROVE  Launch!Values(kernel, block, thread, h)[j] = v[j]
  <2>1. \A e \in Kinds(kernel, Effects) : e <= j => Result(h, e) = Result(g, e)
    <3>1. \A e \in Kinds(kernel, Effects) : e \in Nat
      BY <1>3 DEF Kinds
    <3>2. \A e \in Kinds(kernel, Effects) : e <= j => e # i
      BY <1>2, <1>17, <3>1
    <3> QED BY <1>15, <3>2
  <2> QED BY <1>1, <1>12, <1>13, <1>16, <2>1, ValuesStable
<1>18. ASSUME NEW j \in Rematerialisable(kernel)
       PROVE  Launch!Values(kernel, block, thread, h)[j] = v[j]
  BY <1>1, <1>12, <1>13, <1>16, RematStable
<1>19. Launch!Values(kernel, block, thread, h)[i] = result
  <2>1. PICK w : w = Launch!Values(kernel, block, thread, h)
    OBVIOUS
  <2>2. Equation(kernel, block, thread, h, w, i)
    BY <1>1, <1>2, <1>13, <2>1, ValuesEquations
  <2>3. w[i] = Result(h, i)
    BY <2>2 DEF Equation, Effects
  <2>4. Result(h, i) = result
    BY <1>10 DEF Result
  <2> QED BY <2>1, <2>3, <2>4
<1>20. env' = [j \in DOMAIN env \cup {i} |->
                 IF j = i THEN Launch!Values(kernel, block, thread, h)[i] ELSE env[j]]
  BY <1>2, <1>19 DEF Define
<1>21. \A e : e \in DOMAIN h <=> e \in DOMAIN g \/ e = i
  BY <1>10
<1> QED BY <1>7, <1>9, <1>11, <1>14, <1>17, <1>18, <1>20, <1>21 DEF g, h, D


\* What a step through the body leaves alone.
LEMMA ExecuteFrame ==
  ASSUME IInv, Flat, Execute, NEW i, i = Here[at]
  PROVE  /\ UNCHANGED <<kernel, function, block, phase, thread, hoisted>>
         /\ TypeOK /\ WellFormed(kernel) /\ ~UsesLoaded(kernel) /\ Accepted(kernel)
         /\ InBody /\ phase > 0 /\ at \in Nat \ {0} /\ at + 1 \in Nat \ {0}
         /\ block \in Blocks /\ thread \in Threads /\ block \in Nat /\ thread \in Nat
         /\ thread < BlockSize /\ BlockSize \in Nat \ {0}
         /\ Held(kernel, got[<<block, thread>>])
         /\ Here = Body(kernel, phase) /\ Here' = Here
         /\ \A j : Seen(j)' <=> Seen(j) \/ j = i
         /\ i \in Region(kernel, phase) => PhaseOf(kernel, i) = phase
<1>1. /\ UNCHANGED <<kernel, function, block, phase, thread, hoisted>>
      /\ InBody /\ phase > 0 /\ Here' = Here
  BY DEF Execute, InBody, Here
<1>2. /\ TypeOK /\ WellFormed(kernel) /\ ~UsesLoaded(kernel) /\ Accepted(kernel)
      /\ at \in Nat \ {0} /\ at + 1 \in Nat \ {0}
      /\ block \in Blocks /\ thread \in Threads /\ block \in Nat /\ thread \in Nat
      /\ thread < BlockSize /\ BlockSize \in Nat \ {0}
      /\ Held(kernel, got[<<block, thread>>]) /\ Here = Body(kernel, phase)
  BY <1>1, StateFacts DEF IInv, TypeOK, Control, InBody
<1>3. at \in DOMAIN Here /\ at' = at + 1
  BY ExecuteFacts
<1>4. DOMAIN Here = 1 .. Len(Here)
  BY <1>2, BodyFacts
<1>5. \A n \in DOMAIN Here : n < at + 1 <=> n < at \/ n = at
  BY <1>2, <1>4
<1>6. \A j : Seen(j)' <=> Seen(j) \/ j = i
  <2> TAKE j
  <2>1. Seen(j)' <=> \E n \in DOMAIN Here : n < at + 1 /\ Here[n] = j
    BY <1>1, <1>3 DEF Seen
  <2> QED BY <1>3, <1>5, <2>1 DEF Seen
<1>7. i \in Region(kernel, phase) => PhaseOf(kernel, i) = phase
  BY <1>2, RegionFacts
<1> QED BY <1>1, <1>2, <1>6, <1>7

\* A step that is no access: skipped by its condition, or a computation.
LEMMA ComputeIInv ==
  ASSUME IInv, Flat, Execute, NEW i, i = Here[at], NEW v, v = ValuesNow(block, thread),
         ~(Taken(v, i) /\ kernel[i].op \in Accesses)
  PROVE  IInv'
<1>1. /\ UNCHANGED <<kernel, function, block, phase, thread, hoisted>>
      /\ TypeOK /\ InBody /\ phase > 0 /\ at + 1 \in Nat \ {0}
      /\ thread \in Threads /\ thread < BlockSize /\ block \in Blocks
      /\ \A j : Seen(j)' <=> Seen(j) \/ j = i
  BY ExecuteFrame
<1>2. /\ UNCHANGED <<memory, got>> /\ at' = at + 1 /\ i \in DOMAIN kernel
      /\ ~Taken(v, i) => UNCHANGED env
      /\ Taken(v, i) =>
           /\ kernel[i].op \notin Effects
           /\ Define(i, IF kernel[i].op = "if" THEN v[kernel[i].args[1]] ELSE v[i])
  BY ExecuteFacts
<1>3. TypeOK'
  BY <1>1, <1>2 DEF TypeOK
<1>4. Control'
  <2>1. ~(phase = 0 \/ thread = BlockSize)
    BY <1>1 DEF TypeOK
  <2> QED BY <1>1, <2>1 DEF IInv, Control
<1>5. \A b, t : ValuesNow(b, t)' = ValuesNow(b, t)
  BY <1>1, <1>2 DEF ValuesNow, Launch!Values
<1>6. HoistedAsLaunched'
  BY <1>1, <1>5 DEF IInv, HoistedAsLaunched
<1>7. \A e : Taken(v, e)' <=> Taken(v, e)
  BY <1>1 DEF Taken
<1>8. EnvAsLaunched'
  <2>1. /\ \A j : j \in DOMAIN env <=> Seen(j) /\ Taken(v, j)
        /\ \A j \in DOMAIN env : env[j] = IF kernel[j].op = "if" THEN v[kernel[j].args[1]]
                                          ELSE v[j]
    BY <1>1 DEF IInv, EnvAsLaunched
  <2>2. /\ \A j : j \in DOMAIN env' <=> (Seen(j) \/ j = i) /\ Taken(v, j)
        /\ \A j \in DOMAIN env' : env'[j] = IF kernel[j].op = "if" THEN v[kernel[j].args[1]]
                                            ELSE v[j]
    <3>1. CASE ~Taken(v, i)
      BY <1>2, <2>1, <3>1
    <3>2. CASE Taken(v, i)
      <4>1. env' = [j \in DOMAIN env \cup {i} |->
                      IF j = i THEN IF kernel[i].op = "if" THEN v[kernel[i].args[1]] ELSE v[i]
                      ELSE env[j]]
        BY <1>2, <3>2 DEF Define
      <4> QED BY <2>1, <3>2, <4>1
    <3> QED BY <3>1, <3>2
  <2>3. ValuesNow(block, thread)' = v
    BY <1>1, <1>5
  <2> QED BY <1>1, <2>2, <2>3 DEF EnvAsLaunched, Taken
<1>9. GotAsLaunched'
  <2>1. ASSUME NEW b \in Blocks, NEW t \in Threads, NEW e
        PROVE  /\ Past(b, t, e) => Past(b, t, e)'
               /\ Past(b, t, e)' => Past(b, t, e) \/ (b = block /\ t = thread /\ e = i)
    BY <1>1 DEF Past
  <2>2. ASSUME NEW b \in Blocks, NEW t \in Threads, NEW e
        PROVE  Taken(ValuesNow(b, t), e)' <=> Taken(ValuesNow(b, t), e)
    BY <1>1, <1>5 DEF Taken
  <2>3. ~(i \in Kinds(kernel, Effects) /\ Taken(v, i))
    BY <1>2 DEF Kinds
  <2>4. ASSUME NEW b \in Blocks, NEW t \in Threads, NEW e
        PROVE  e \in DOMAIN got[<<b, t>>] <=>
                 e \in Kinds(kernel, Effects) /\ Past(b, t, e)' /\ Taken(ValuesNow(b, t), e)
    <3>1. e \in DOMAIN got[<<b, t>>] <=>
            e \in Kinds(kernel, Effects) /\ Past(b, t, e) /\ Taken(ValuesNow(b, t), e)
      BY DEF IInv, GotAsLaunched
    <3> QED BY <2>1, <2>3, <3>1
  <2> QED BY <1>1, <1>2, <2>2, <2>4 DEF GotAsLaunched
<1> QED BY <1>3, <1>4, <1>6, <1>8, <1>9 DEF IInv

\* A step that accesses memory.
LEMMA AccessIInv ==
  ASSUME IInv, Flat, Execute, NEW i, i = Here[at], NEW v, v = ValuesNow(block, thread),
         Taken(v, i), kernel[i].op \in Accesses
  PROVE  IInv'
<1> DEFINE w == ValuesNow(block, thread)'
           N == Needed(kernel, phase)
           R == Region(kernel, phase)
<1>1. /\ UNCHANGED <<kernel, function, block, phase, thread, hoisted>>
      /\ TypeOK /\ WellFormed(kernel) /\ ~UsesLoaded(kernel) /\ Accepted(kernel)
      /\ InBody /\ phase > 0 /\ at + 1 \in Nat \ {0}
      /\ block \in Blocks /\ thread \in Threads /\ block \in Nat /\ thread \in Nat
      /\ thread < BlockSize /\ Here = Body(kernel, phase)
      /\ Held(kernel, got[<<block, thread>>])
      /\ \A j : Seen(j)' <=> Seen(j) \/ j = i
      /\ i \in R => PhaseOf(kernel, i) = phase
  BY ExecuteFrame
<1>2. /\ i \in DOMAIN kernel /\ i \in Nat \ {0} /\ at \in DOMAIN Here /\ at' = at + 1 /\ i \in R
  BY ExecuteFacts
<1>3. /\ memory' \in [DOMAIN EmptyMemory(kernel) -> Nat] /\ DOMAIN got' = Blocks \X Threads
      /\ \A b \in Blocks, t \in Threads :
           /\ Held(kernel, got'[<<b, t>>])
           /\ <<b, t>> # <<block, thread>> => got'[<<b, t>>] = got[<<b, t>>]
      /\ \A e : e \in DOMAIN got'[<<block, thread>>] <=>
                  e \in DOMAIN got[<<block, thread>>] \/ e = i
  BY AccessFacts
<1>4. w = Launch!Values(kernel, block, thread, got'[<<block, thread>>])
  BY <1>1 DEF ValuesNow, Launch!Values
<1>5. /\ \A j \in 0 .. Len(kernel) : j < i => w[j] = v[j]
      /\ \A j \in Rematerialisable(kernel) : w[j] = v[j]
      /\ env' = [j \in DOMAIN env \cup {i} |-> IF j = i THEN w[i] ELSE env[j]]
  <2>1. PICK x : x = Launch!Values(kernel, block, thread, got'[<<block, thread>>])
    OBVIOUS
  <2>2. /\ \A j \in 0 .. Len(kernel) : j < i => x[j] = v[j]
        /\ \A j \in Rematerialisable(kernel) : x[j] = v[j]
        /\ env' = [j \in DOMAIN env \cup {i} |-> IF j = i THEN x[i] ELSE env[j]]
    BY <2>1, AccessFacts
  <2> HIDE DEF w
  <2> QED BY <1>4, <2>1, <2>2
<1>6. \A b \in Blocks, t \in Threads :
        <<b, t>> # <<block, thread>> => ValuesNow(b, t)' = ValuesNow(b, t)
  <2> TAKE b \in Blocks, t \in Threads
  <2>1. ValuesNow(b, t)' = Launch!Values(kernel, b, t, got'[<<b, t>>])
    BY <1>1 DEF ValuesNow, Launch!Values
  <2> QED BY <1>3, <2>1 DEF ValuesNow
<1> HIDE DEF w
<1>7. /\ Len(kernel) \in Nat /\ DOMAIN kernel = 1 .. Len(kernel)
      /\ \A j \in DOMAIN kernel : j \in Nat
  BY <1>1, KernelFacts
<1>8. TypeOK'
  <2>1. \A bt \in Blocks \X Threads : Held(kernel, got'[bt])
    <3> TAKE bt \in Blocks \X Threads
    <3>1. PICK b \in Blocks, t \in Threads : bt = <<b, t>>
      OBVIOUS
    <3> QED BY <1>3, <3>1
  <2> QED BY <1>1, <1>2, <1>3, <2>1 DEF TypeOK
<1>9. Control'
  <2>1. ~(phase = 0 \/ thread = BlockSize)
    BY <1>1 DEF TypeOK
  <2> QED BY <1>1, <2>1 DEF IInv, Control
<1>10. HoistedAsLaunched'
  <2>1. ASSUME NEW t \in Threads, NEW j \in Invariants(kernel)
        PROVE  ValuesNow(block, t)'[j] = ValuesNow(block, t)[j]
    <3>1. ValuesNow(block, t)' = Launch!Values(kernel, block, t, got'[<<block, t>>])
      BY <1>1 DEF ValuesNow, Launch!Values
    <3>2. /\ t \in Nat /\ Held(kernel, got[<<block, t>>])
          /\ Held(kernel, got'[<<block, t>>])
      BY <1>1, <1>3, StateFacts
    <3> QED BY <1>1, <3>1, <3>2, InvariantStable DEF ValuesNow
  <2> QED BY <1>1, <2>1 DEF IInv, HoistedAsLaunched
\* Conditions up to the access, and of what is computed again, are as before.
<1>11. ASSUME NEW e \in DOMAIN kernel, e <= i PROVE Taken(w, e) <=> Taken(v, e)
  <2>1. \A j \in 0 .. Len(kernel) : j < e => w[j] = v[j]
    BY <1>2, <1>5, <1>7, <1>11
  <2> QED BY <1>1, <2>1, TakenStable
<1>12. \A j \in N \cup R : j \in DOMAIN kernel /\ (j \in N => j \in Rematerialisable(kernel)
                                                /\ kernel[j].in = 0 /\ kernel[j].op # "if"
                                                /\ kernel[j].op \notin Effects)
  <2>1. N \subseteq Rematerialisable(kernel)
    BY <1>1, BodyFacts
  <2>2. \A j \in Rematerialisable(kernel) :
          /\ j \in DOMAIN kernel /\ kernel[j].in = 0 /\ kernel[j].op \in {"constant", "sum"}
    BY <1>1, RematFacts
  <2>3. \A j \in R : j \in DOMAIN kernel
    BY <1>1, RegionFacts
  <2> QED BY <2>1, <2>2, <2>3 DEF Effects, Accesses
<1>13. ASSUME NEW j, Seen(j) PROVE j \in N \/ (j \in R /\ j < i)
  <2>1. PICK n \in DOMAIN Here : n < at /\ Here[n] = j
    BY <1>13 DEF Seen
  <2>2. j \in N \cup R
    BY <1>1, <2>1, BodyFacts
  <2>3. j \in R => j < i
    BY <1>1, <1>2, <2>1, BodyFacts
  <2> QED BY <2>2, <2>3
<1> HIDE DEF N, R
<1>14. ASSUME NEW j, Seen(j) \/ j = i PROVE Taken(w, j) <=> Taken(v, j)
  <2>1. CASE j \in N
    BY <1>12, <2>1 DEF Taken
  <2>2. CASE j \notin N
    <3>1. j \in DOMAIN kernel /\ j <= i
      BY <1>2, <1>7, <1>12, <1>13, <1>14, <2>2
    <3> QED BY <1>11, <3>1
  <2> QED BY <2>1, <2>2
<1>15. EnvAsLaunched'
  <2>1. /\ \A j : j \in DOMAIN env <=> Seen(j) /\ Taken(v, j)
        /\ \A j \in DOMAIN env : env[j] = IF kernel[j].op = "if" THEN v[kernel[j].args[1]]
                                          ELSE v[j]
    BY <1>1 DEF IInv, EnvAsLaunched
  <2>2. ASSUME NEW j
        PROVE  j \in DOMAIN env' <=> (Seen(j) \/ j = i) /\ Taken(w, j)
    <3>1. j \in DOMAIN env' <=> (Seen(j) /\ Taken(v, j)) \/ j = i
      BY <1>5, <2>1
    <3> QED BY <1>14, <3>1
  <2>3. ASSUME NEW j \in DOMAIN env'
        PROVE  env'[j] = IF kernel[j].op = "if" THEN w[kernel[j].args[1]] ELSE w[j]
    <3>1. CASE j = i
      <4>1. kernel[i].op # "if"
        BY DEF Accesses
      <4> QED BY <1>5, <3>1, <4>1
    <3>2. CASE j # i
      <4>1. j \in DOMAIN env /\ env'[j] = env[j] /\ Seen(j)
        BY <1>5, <2>1, <3>2
      <4>2. CASE j \in N
        BY <1>5, <1>12, <2>1, <4>1, <4>2
      <4>3. CASE j \in R /\ j < i
        <5>1. j \in DOMAIN kernel /\ j \in 0 .. Len(kernel) /\ j \in Nat
          BY <1>7, <1>12, <4>3
        <5>2. w[j] = v[j]
          BY <1>5, <4>3, <5>1
        <5>3. kernel[j].op = "if" => w[kernel[j].args[1]] = v[kernel[j].args[1]]
          <6> SUFFICES ASSUME kernel[j].op = "if"
                       PROVE  w[kernel[j].args[1]] = v[kernel[j].args[1]]
            OBVIOUS
          <6>1. kernel[j].args[1] \in 0 .. Len(kernel) /\ kernel[j].args[1] < j
            BY <1>1, <5>1, ConditionBefore
          <6>2. kernel[j].args[1] < i
            BY <1>2, <1>7, <4>3, <5>1, <6>1
          <6> QED BY <1>5, <6>1, <6>2
        <5> QED BY <2>1, <4>1, <5>2, <5>3
      <4> QED BY <1>13, <4>1, <4>2, <4>3
    <3> QED BY <3>1, <3>2
  <2> QED BY <1>1, <2>2, <2>3 DEF EnvAsLaunched, Taken, w
<1>16. GotAsLaunched'
  <2>1. ASSUME NEW b \in Blocks, NEW t \in Threads, NEW e
        PROVE  Past(b, t, e)' <=> Past(b, t, e)
                 \/ (b = block /\ t = thread /\ e = i)
    <3>1. kernel[i].op # "barrier"
      BY DEF Accesses
    <3> QED BY <1>1, <1>2, <3>1 DEF Past
  <2>2. ASSUME NEW b \in Blocks, NEW t \in Threads, NEW e
        PROVE  e \in DOMAIN got[<<b, t>>] <=>
                 e \in Kinds(kernel, Effects) /\ Past(b, t, e) /\ Taken(ValuesNow(b, t), e)
    BY DEF IInv, GotAsLaunched
  <2>3. i \in Kinds(kernel, Effects)
    BY <1>2 DEF Kinds, Effects
  <2>4. ASSUME NEW e \in Kinds(kernel, Effects), Past(block, thread, e) \/ e = i
        PROVE  Taken(w, e) <=> Taken(v, e)
    <3>1. e \in DOMAIN kernel /\ e \in Nat
      BY <1>1, EffectPhase
    <3>2. CASE Seen(e) \/ e = i
      BY <1>14, <3>2
    <3>3. CASE PhaseOf(kernel, e) < phase
      <4>1. e <= i
        <5>1. ~(i <= e)
          <6>1. i <= e => PhaseOf(kernel, i) <= PhaseOf(kernel, e)
            BY <1>1, <1>2, <3>1, PhaseFacts
          <6>2. PhaseOf(kernel, e) \in Nat /\ PhaseOf(kernel, i) \in Nat
            BY <1>1, <1>2, <3>1, PhaseFacts
          <6> QED BY <1>1, <1>2, <3>3, <6>1, <6>2
        <5> QED BY <1>2, <3>1, <5>1
      <4> QED BY <1>11, <3>1, <4>1
    <3> QED BY <1>1, <2>4, <3>2, <3>3 DEF Past
  <2>5. ASSUME NEW b \in Blocks, NEW t \in Threads, NEW e
        PROVE  e \in DOMAIN got'[<<b, t>>] <=>
                 e \in Kinds(kernel, Effects) /\ Past(b, t, e)'
                   /\ Taken(ValuesNow(b, t)', e)
    <3>1. CASE b = block /\ t = thread
      <4>1. e \in DOMAIN got'[<<b, t>>] <=> e \in DOMAIN got[<<b, t>>] \/ e = i
        BY <1>3, <3>1
      <4>2. e \in DOMAIN got[<<b, t>>] <=>
              e \in Kinds(kernel, Effects) /\ Past(block, thread, e) /\ Taken(v, e)
        BY <2>2, <3>1
      <4>3. Past(b, t, e)' <=> Past(block, thread, e) \/ e = i
        BY <2>1, <3>1
      <4>4. ValuesNow(b, t)' = w
        BY <1>1, <3>1 DEF w
      <4> QED BY <2>3, <2>4, <4>1, <4>2, <4>3, <4>4
    <3>2. CASE ~(b = block /\ t = thread)
      <4>1. <<b, t>> # <<block, thread>>
        BY <3>2
      <4>2. got'[<<b, t>>] = got[<<b, t>>] /\ ValuesNow(b, t)' = ValuesNow(b, t)
        BY <1>3, <1>6, <4>1
      <4>3. Past(b, t, e)' <=> Past(b, t, e)
        BY <2>1, <3>2
      <4> QED BY <2>2, <4>2, <4>3
    <3> QED BY <3>1, <3>2
  <2> QED BY <1>1, <2>5 DEF GotAsLaunched, Taken
<1> QED BY <1>8, <1>9, <1>10, <1>15, <1>16 DEF IInv

-----------------------------------------------------------------------------
(* The loops do what the launch does.                                      *)

\* What is ahead of a thread: what it takes and the loops are not past.
LEMMA AheadFacts ==
  ASSUME IInv, NEW b \in Blocks, NEW t \in Threads, NEW e
  PROVE  e \in Launch!Ahead(b, t) <=>
           e \in Kinds(kernel, Effects) /\ Taken(ValuesNow(b, t), e) /\ ~Past(b, t, e)
<1>1. e \in Launch!Ahead(b, t) <=>
        /\ e \in Kinds(kernel, Effects) /\ e \notin DOMAIN got[<<b, t>>]
        /\ Taken(ValuesNow(b, t), e)
  <2>1. Launch!Kinds(kernel, Launch!Effects) = Kinds(kernel, Effects)
    BY LaunchNames
  <2> QED BY <2>1 DEF Launch!Ahead, Taken, ValuesNow
<1>2. e \in DOMAIN got[<<b, t>>] <=>
        e \in Kinds(kernel, Effects) /\ Past(b, t, e) /\ Taken(ValuesNow(b, t), e)
  BY DEF IInv, GotAsLaunched
<1> QED BY <1>1, <1>2

\* What a thread of the launch does next, found from below.
LEMMA NextIsFirst ==
  ASSUME NEW b, NEW t, NEW i \in Launch!Ahead(b, t), i \in Nat,
         \A e \in Launch!Ahead(b, t) : e \in Nat /\ i <= e
  PROVE  Launch!Ahead(b, t) # {} /\ Launch!NextOf(b, t) = i
<1> DEFINE S == Launch!Ahead(b, t)
<1>1. Launch!NextOf(b, t) = CHOOSE x \in S : \A y \in S : x <= y
  BY DEF Launch!NextOf, Launch!Min
<1> HIDE DEF S
<1>2. i \in S /\ \A e \in S : e \in Nat /\ i <= e
  BY DEF S
<1>3. \A x \in S : (\A y \in S : x <= y) => x = i
  BY <1>2
<1> QED BY <1>1, <1>2, <1>3 DEF S


\* An access of the loop is the next access of its thread.
LEMMA AccessIsNext ==
  ASSUME IInv, Flat, Execute, NEW i, i = Here[at], NEW v, v = ValuesNow(block, thread),
         Taken(v, i), kernel[i].op \in Accesses
  PROVE  Launch!Access(block, thread)
<1>1. /\ TypeOK /\ WellFormed(kernel) /\ Accepted(kernel) /\ kernel' = kernel
      /\ phase > 0 /\ phase \in Nat /\ block \in Nat /\ thread \in Nat
      /\ block \in Blocks /\ thread \in Threads /\ Here = Body(kernel, phase)
      /\ i \in Region(kernel, phase) => PhaseOf(kernel, i) = phase
  BY ExecuteFrame DEF TypeOK
<1>2. /\ i \in DOMAIN kernel /\ i \in Nat /\ at \in DOMAIN Here /\ i \in Region(kernel, phase)
      /\ PhaseOf(kernel, i) = phase /\ i \in Kinds(kernel, Effects)
  BY <1>1, ExecuteFacts DEF Kinds, Effects
<1>3. /\ DOMAIN Here = 1 .. Len(Here) /\ Len(Here) \in Nat
      /\ \A m, n \in DOMAIN Here :
           /\ Here[m] = Here[n] => m = n
           /\ Here[m] \in Region(kernel, phase) /\ Here[n] \in Region(kernel, phase)
                => (m < n <=> Here[m] < Here[n])
  BY <1>1, BodyFacts
<1>4. ~Seen(i)
  BY <1>2, <1>3 DEF Seen
<1>5. i \in Launch!Ahead(block, thread)
  <2>1. ~Past(block, thread, i)
    BY <1>1, <1>2, <1>4 DEF Past
  <2> QED BY <1>1, <1>2, <2>1, AheadFacts
<1>6. ASSUME NEW e \in Launch!Ahead(block, thread) PROVE e \in Nat /\ i <= e
  <2>1. e \in Kinds(kernel, Effects) /\ ~Past(block, thread, e)
    BY <1>1, AheadFacts
  <2>2. /\ e \in DOMAIN kernel /\ e \in Nat /\ PhaseOf(kernel, e) \in Nat
        /\ kernel[e].op # "barrier" => e \in Kinds(kernel, Accesses)
        /\ kernel[e].op = "barrier" => e \in Barriers(kernel)
    BY <1>1, <2>1, EffectPhase
  <2>3. ASSUME e < i PROVE FALSE
    <3>1. PhaseOf(kernel, e) <= phase
      BY <1>1, <1>2, <2>2, <2>3, PhaseFacts
    <3>2. PhaseOf(kernel, e) = phase
      BY <1>1, <2>1, <2>2, <3>1 DEF Past
    <3>3. kernel[e].op # "barrier"
      <4>1. kernel[e].op = "barrier" => PhaseOf(kernel, e) < PhaseOf(kernel, i)
        BY <1>1, <1>2, <2>2, <2>3, PhaseFacts
      <4> QED BY <1>1, <1>2, <3>2, <4>1
    <3>4. e \in Region(kernel, phase) /\ \E n \in DOMAIN Here : Here[n] = e
      BY <1>1, <2>2, <3>2, <3>3, AccessListed
    <3>5. Seen(e)
      BY <1>2, <1>3, <2>3, <3>4 DEF Seen
    <3> QED BY <1>1, <2>1, <3>2, <3>3, <3>5 DEF Past
  <2> QED BY <1>2, <2>2, <2>3
<1>7. Launch!Ahead(block, thread) # {} /\ Launch!NextOf(block, thread) = i
  BY <1>2, <1>5, <1>6, NextIsFirst
<1> DEFINE values == [n \in DOMAIN kernel[i].args |-> v[kernel[i].args[n]]]
           cell == Cell(kernel[i].buf, block, values[1])
<1>8. /\ memory' = MemoryAfter(memory, kernel[i].op, cell, values)
      /\ Record(i, ResultOf(memory, kernel[i].op, cell))
  BY ExecuteFacts
<1> DEFINE place == Launch!Cell(kernel[i].buf, block, values[1])
<1>9. place = cell
  BY LaunchNames
<1> HIDE DEF values, cell, place
<1>10. memory' = Launch!MemoryAfter(memory, kernel[i].op, place, values)
  BY <1>8, <1>9, LaunchNames
<1>11. got' = [got EXCEPT ![<<block, thread>>] =
                 Launch!With(@, i, Launch!ResultOf(memory, kernel[i].op, place))]
  <2>1. Launch!ResultOf(memory, kernel[i].op, place) = ResultOf(memory, kernel[i].op, cell)
    BY <1>9, LaunchNames
  <2> QED BY <1>8, <2>1 DEF Record, Launch!With
<1>12. kernel[i].op \in Launch!Accesses
  BY LaunchNames
<1> QED BY <1>1, <1>7, <1>10, <1>11, <1>12 DEF Launch!Access, ValuesNow, values, place

\* The end of a phase that is not the last is a barrier of its block.
LEMMA EndPhaseIsBarrier ==
  ASSUME IInv, Flat, EndPhase, phase < Phases(kernel)
  PROVE  Launch!Barrier(block)
<1>1. PICK i : i = function.barriers[phase]
  OBVIOUS
<1>2. /\ TypeOK /\ WellFormed(kernel) /\ phase \in Nat \ {0} /\ thread = BlockSize
      /\ block \in Blocks /\ block \in Nat /\ UNCHANGED <<kernel, memory>>
      /\ \A t \in Threads : t \in Nat /\ t < BlockSize
  <2>1. /\ TypeOK /\ phase \in Nat \ {0} /\ thread = BlockSize
        /\ block \in Blocks /\ UNCHANGED <<kernel, memory>>
    BY DEF IInv, TypeOK, EndPhase, Control
  <2>2. WellFormed(kernel) /\ \A t \in Threads : t < BlockSize
    BY <2>1, StateFacts
  <2>3. block \in Nat /\ \A t \in Threads : t \in Nat
    BY <2>1, SimtAssumption DEF Blocks, Threads
  <2> QED BY <2>1, <2>2, <2>3
<1>3. /\ i \in Kinds(kernel, {"barrier"}) /\ i \in Kinds(kernel, Effects)
      /\ i \in DOMAIN kernel /\ i \in Nat /\ kernel[i].in = 0 /\ kernel[i].op = "barrier"
      /\ PhaseOf(kernel, i) = phase
  BY <1>1, <1>2, BarrierFacts
<1>4. ASSUME NEW t \in Threads
      PROVE  Launch!Ahead(block, t) # {} /\ Launch!NextOf(block, t) = i
  <2>1. i \in Launch!Ahead(block, t)
    <3>1. ~Past(block, t, i) /\ Taken(ValuesNow(block, t), i)
      BY <1>2, <1>3 DEF Past, Taken
    <3> QED BY <1>2, <1>3, <3>1, AheadFacts
  <2>2. ASSUME NEW e \in Launch!Ahead(block, t) PROVE e \in Nat /\ i <= e
    <3>1. e \in Kinds(kernel, Effects) /\ ~Past(block, t, e)
      BY <1>2, AheadFacts
    <3>2. /\ e \in DOMAIN kernel /\ e \in Nat /\ PhaseOf(kernel, e) \in Nat
          /\ kernel[e].op = "barrier" => e \in Barriers(kernel)
      BY <1>2, <3>1, EffectPhase
    <3>3. ASSUME e < i PROVE FALSE
      <4>1. PhaseOf(kernel, e) <= phase
        BY <1>2, <1>3, <3>2, <3>3, PhaseFacts
      <4>2. PhaseOf(kernel, e) = phase /\ kernel[e].op = "barrier"
        BY <1>2, <3>1, <3>2, <4>1 DEF Past
      <4>3. PhaseOf(kernel, e) < PhaseOf(kernel, i)
        BY <1>2, <1>3, <3>2, <3>3, <4>2, PhaseFacts
      <4> QED BY <1>2, <1>3, <4>2, <4>3
    <3> QED BY <1>3, <3>2, <3>3
  <2> QED BY <1>3, <2>1, <2>2, NextIsFirst
<1>5. got' = [bt \in DOMAIN got |-> IF bt[1] = block THEN Launch!With(got[bt], i, 0)
                                    ELSE got[bt]]
  BY <1>1, EndPhaseFacts
<1>6. i \in Launch!Kinds(kernel, {"barrier"}) /\ Launch!Threads = Threads
  BY <1>3, LaunchNames
<1> QED BY <1>2, <1>4, <1>5, <1>6 DEF Launch!Barrier

\* The loops begin as the launch does.
LEMMA InitIsLaunched ==
  ASSUME Init
  PROVE  Launch!Init
<1>1. EmptyMemory(kernel) = Launch!EmptyMemory(kernel) /\ Launch!Blocks = Blocks
      /\ Launch!Threads = Threads
  BY LaunchNames
<1> QED BY <1>1 DEF Init, Launch!Init

\* Every step of the loops is a step of the launch, or nothing to it.
LEMMA StepIsLaunched ==
  ASSUME IInv, Flat, [Next]_vars
  PROVE  [Launch!Next]_Launch!launchVars
<1>1. Launch!Blocks = Blocks /\ Launch!Threads = Threads
  BY LaunchNames
<1>2. CASE EnterKernel
  BY <1>2 DEF EnterKernel, Launch!launchVars
<1>3. CASE Execute
  <2>1. PICK i : i = Here[at]
    OBVIOUS
  <2>2. PICK v : v = ValuesNow(block, thread)
    OBVIOUS
  <2>3. block \in Blocks /\ thread \in Threads /\ kernel' = kernel
    BY <1>3, ExecuteFrame
  <2>4. CASE Taken(v, i) /\ kernel[i].op \in Accesses
    <3>1. Launch!Access(block, thread)
      BY <1>3, <2>1, <2>2, <2>4, AccessIsNext
    <3> QED BY <1>1, <2>3, <3>1 DEF Launch!Next
  <2>5. CASE ~(Taken(v, i) /\ kernel[i].op \in Accesses)
    <3>1. UNCHANGED <<memory, got>>
      BY <1>3, <2>1, <2>2, <2>5, ExecuteFacts
    <3> QED BY <2>3, <3>1 DEF Launch!launchVars
  <2> QED BY <2>4, <2>5
<1>4. CASE EndIteration
  BY <1>4 DEF EndIteration, Launch!launchVars
<1>5. CASE EndPhase
  <2>1. TypeOK /\ Len(function.bodies) = Phases(kernel) /\ block \in Blocks
    BY <1>5, StateFacts DEF IInv, EndPhase, Control
  <2>2. CASE phase < Phases(kernel)
    <3>1. Launch!Barrier(block)
      BY <1>5, <2>2, EndPhaseIsBarrier
    <3> QED BY <1>1, <2>1, <3>1 DEF Launch!Next
  <2>3. CASE ~(phase < Phases(kernel))
    BY <1>5, <2>1, <2>3 DEF EndPhase, Launch!launchVars
  <2> QED BY <2>2, <2>3
<1>6. CASE UNCHANGED vars
  BY <1>6 DEF vars, Launch!launchVars
<1> QED BY <1>2, <1>3, <1>4, <1>5, <1>6 DEF Next

-----------------------------------------------------------------------------
(* The theorems.                                                           *)

\* Every step keeps the invariant.
LEMMA NextIInv ==
  ASSUME IInv, Flat, [Next]_vars
  PROVE  IInv'
<1>1. CASE EnterKernel
  BY <1>1, EnterKernelIInv
<1>2. CASE Execute
  <2>1. PICK i : i = Here[at]
    OBVIOUS
  <2>2. PICK v : v = ValuesNow(block, thread)
    OBVIOUS
  <2>3. CASE Taken(v, i) /\ kernel[i].op \in Accesses
    BY <1>2, <2>1, <2>2, <2>3, AccessIInv
  <2>4. CASE ~(Taken(v, i) /\ kernel[i].op \in Accesses)
    BY <1>2, <2>1, <2>2, <2>4, ComputeIInv
  <2> QED BY <2>3, <2>4
<1>3. CASE EndIteration
  BY <1>3, EndIterationIInv
<1>4. CASE EndPhase
  BY <1>4, EndPhaseIInv
<1>5. CASE UNCHANGED vars
  <2>1. /\ TypeOK' /\ Control' /\ Here' = Here
        /\ \A b, t : ValuesNow(b, t)' = ValuesNow(b, t)
    BY <1>5 DEF vars, IInv, TypeOK, Control, Here, ValuesNow, Launch!Values
  <2>2. \A i : Seen(i)' <=> Seen(i)
    BY <1>5, <2>1 DEF vars, Seen
  <2>3. \A b, t, e : Past(b, t, e)' <=> Past(b, t, e)
    BY <1>5, <2>2 DEF vars, Past
  <2>4. HoistedAsLaunched'
    BY <1>5, <2>1 DEF vars, IInv, HoistedAsLaunched
  <2>5. EnvAsLaunched'
    BY <1>5, <2>1, <2>2 DEF vars, IInv, EnvAsLaunched, InBody, Taken
  <2>6. GotAsLaunched'
    BY <1>5, <2>1, <2>3 DEF vars, IInv, GotAsLaunched, Taken
  <2> QED BY <2>1, <2>4, <2>5, <2>6 DEF IInv
<1> QED BY <1>1, <1>2, <1>3, <1>4, <1>5 DEF Next

\* The inductive invariant: at any time every thread of the launch has got just
\* the accesses and barriers that the loops are past, and the clones have the
\* values which the launch gives their operations.
THEOREM LoopsFollowLaunch ==
  ASSUME Flat
  PROVE  Spec => []IInv
<1>1. Init => IInv
  BY InitIInv
<1>2. IInv /\ [Next]_vars => IInv'
  BY NextIInv
<1> QED BY <1>1, <1>2, PTL DEF Spec

\* No clone refers to an operation of the kernel that the pass erases (the
\* splitting of the body at the barriers in SimtToScfImpl.h): whatever the
\* kernel, an accepted one is lowered to a function that is closed.
THEOREM ClonesAreClosed ==
  ASSUME Flat
  PROVE  Spec => []NoDangling
<1>1. IInv => NoDangling
  <2> SUFFICES ASSUME IInv PROVE NoDangling
    OBVIOUS
  <2>1. \A i \in DOMAIN hoisted : hoisted[i] # Dangling
    BY DEF IInv, HoistedAsLaunched
  <2>2. ASSUME NEW i \in DOMAIN env PROVE env[i] # Dangling
    <3>1. CASE ~InBody
      <4>1. phase = 0 \/ thread = BlockSize
        BY <3>1, SimtAssumption DEF IInv, TypeOK, InBody, Threads
      <4> QED BY <4>1, NothingYet DEF IInv, Control
    <3>2. CASE InBody
      <4>1. PICK v : v = ValuesNow(block, thread)
        OBVIOUS
      <4>2. /\ Seen(i) /\ i \in DOMAIN env
            /\ env[i] = IF kernel[i].op = "if" THEN v[kernel[i].args[1]] ELSE v[i]
        BY <3>2, <4>1 DEF IInv, EnvAsLaunched
      <4>3. /\ TypeOK /\ WellFormed(kernel) /\ Accepted(kernel) /\ Here = Body(kernel, phase)
            /\ block \in Nat /\ thread \in Nat /\ Held(kernel, got[<<block, thread>>])
        BY <3>2, StateFacts DEF IInv, Control, InBody
      <4>4. i \in DOMAIN kernel
        BY <4>2, <4>3, BodyFacts, RegionFacts, RematFacts DEF Seen
      <4>5. v \in [0 .. Len(kernel) -> Nat]
        BY <4>1, <4>3, ValuesEquations DEF ValuesNow
      <4>6. i \in 0 .. Len(kernel)
        BY <4>3, <4>4, KernelFacts
      <4>7. kernel[i].op = "if" => kernel[i].args[1] \in 0 .. Len(kernel)
        BY <4>3, <4>4, ConditionBefore
      <4>8. env[i] \in Nat
        BY <4>2, <4>5, <4>6, <4>7
      <4> QED BY <4>8 DEF Dangling
    <3> QED BY <3>1, <3>2
  <2> QED BY <2>1, <2>2 DEF NoDangling
<1> QED BY <1>1, LoopsFollowLaunch, PTL

\* The loops do what some run of the launch does: every access of the loops is
\* the next access of its thread, with the values of that thread, and every end
\* of a phase but the last is a barrier of the block.  This is the safety part
\* of LaunchSpec, for every kernel and launch.
THEOREM LoopsImplementLaunch ==
  ASSUME Flat
  PROVE  Spec => Launch!Init /\ [][Launch!Next]_Launch!launchVars
<1>1. Init => Launch!Init
  BY InitIsLaunched
<1>2. IInv /\ [Next]_vars => [Launch!Next]_Launch!launchVars
  BY StepIsLaunched
<1> QED BY <1>1, <1>2, LoopsFollowLaunch, PTL DEF Spec

=============================================================================
