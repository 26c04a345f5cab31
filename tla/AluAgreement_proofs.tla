------------------------- MODULE AluAgreement_proofs -------------------------
(***************************************************************************)
(* The three paths hold the same bits, for every program of the            *)
(* instructions they agree about.                                          *)
(***************************************************************************)
EXTENDS AluAgreement, SequenceTheorems, FiniteSetTheorems, WellFoundedInduction, TLAPS

\* A power of two, as a number the provers do not look into.
Two(n) == 2 ^ n

\* Some number of a set of naturals is the least.
LEMMA LeastNatural ==
  ASSUME NEW S \in SUBSET Nat, S # {}
  PROVE  \E x \in S : \A y \in S : x <= y
<1> DEFINE R == OpToRel(<, Nat)
<1>1. IsWellFoundedOn(R, Nat)
  BY NatLessThanWellFounded
<1>2. \A x, y \in Nat : <<y, x>> \in R <=> y < x
  BY DEF OpToRel
<1> HIDE DEF R
<1>3. PICK x \in S : \A y \in S : ~(<<y, x>> \in R)
  BY <1>1, WFMin
<1>4. \A y \in S : x \in Nat /\ y \in Nat /\ ~(y < x)
  BY <1>2, <1>3
<1> QED BY <1>4

\* The subsets of n things are 2^n; with one more thing, there are as many again.
LEMMA TwoStep ==
  ASSUME NEW n \in Nat
  PROVE  Two(n) \in Nat \ {0} /\ Two(n + 1) = 2 * Two(n)
<1> DEFINE S == 1 .. n
           T == 1 .. (n + 1)
           A == SUBSET S
           B == {X \cup {n + 1} : X \in A}
           add == [X \in A |-> X \cup {n + 1}]
<1>1. IsFiniteSet(S) /\ Cardinality(S) = n /\ IsFiniteSet(T) /\ Cardinality(T) = n + 1
  BY FS_Interval
<1>2. IsFiniteSet(A) /\ Cardinality(A) = Two(n) /\ Cardinality(SUBSET T) = Two(n + 1)
  BY Zenon, <1>1, FS_SUBSET DEF Two
<1>3. n + 1 \notin S /\ T = S \cup {n + 1}
  OBVIOUS
<1>4. add \in Bijection(A, B)
  <2>1. add \in [A -> B]
    OBVIOUS
  <2>2. \A X, Y \in A : add[X] = add[Y] => X = Y
    <3> SUFFICES ASSUME NEW X \in A, NEW Y \in A, X \cup {n + 1} = Y \cup {n + 1}
                 PROVE  X = Y
      OBVIOUS
    <3>1. n + 1 \notin X /\ n + 1 \notin Y
      BY <1>3
    <3>2. \A z : z \in X <=> z \in Y
      BY <3>1
    <3> QED BY <3>2
  <2>3. \A Z \in B : \E X \in A : add[X] = Z
    OBVIOUS
  <2> QED BY <2>1, <2>2, <2>3, Zenon DEF Bijection, Injection, Surjection, IsInjective
<1>5. IsFiniteSet(B) /\ Cardinality(B) = Cardinality(A)
  BY <1>2, <1>4, FS_Bijection DEF ExistsBijection
<1>6. SUBSET T = A \cup B
  <2>1. ASSUME NEW Z \in SUBSET T PROVE Z \in A \cup B
    <3>1. CASE n + 1 \in Z
      <4>1. Z \ {n + 1} \in A /\ Z = (Z \ {n + 1}) \cup {n + 1}
        BY <1>3, <3>1
      <4> QED BY <4>1
    <3>2. CASE n + 1 \notin Z
      BY <1>3, <3>2
    <3> QED BY <3>1, <3>2
  <2>2. ASSUME NEW Z \in A \cup B PROVE Z \in SUBSET T
    BY <1>3
  <2> QED BY <2>1, <2>2
<1>7. A \cap B = {}
  BY <1>3
<1>8. Cardinality(A \cup B) = Cardinality(A) + Cardinality(B) - Cardinality(A \cap B)
  BY <1>2, <1>5, FS_Union
<1>9. Two(n + 1) = Two(n) + Two(n) - 0
  BY Zenon, <1>2, <1>5, <1>6, <1>7, <1>8, FS_EmptySet
<1>10. Two(n) \in Nat
  BY <1>2, FS_CardinalityType
<1>11. {} \in A /\ A # {}
  OBVIOUS
<1>12. Two(n) # 0
  BY Zenon, <1>2, <1>11, FS_EmptySet
<1> QED BY <1>9, <1>10, <1>12

LEMMA TwoZero == Two(0) = 1
  BY SMT DEF Two

\* Exponents add up.
LEMMA TwoSum ==
  ASSUME NEW a \in Nat, NEW b \in Nat
  PROVE  Two(a + b) = Two(a) * Two(b)
<1>1. \A n \in Nat : Two(n) \in Nat \ {0} /\ Two(n + 1) = 2 * Two(n)
  BY TwoStep
<1> DEFINE Bad == {y \in Nat : Two(a + y) # Two(a) * Two(y)}
<1>2. Bad = {}
  <2> SUFFICES ASSUME Bad # {} PROVE FALSE
    OBVIOUS
  <2>1. PICK y \in Bad : \A z \in Bad : y <= z
    BY LeastNatural
  <2>2. y # 0
    BY <1>1, <2>1, TwoZero
  <2>3. PICK q \in Nat : y = q + 1
    BY <2>1, <2>2
  <2>4. q \notin Bad
    BY <2>1, <2>3
  <2>5. Two(a + q) = Two(a) * Two(q)
    BY <2>4
  <2>6. Two(a + y) = 2 * Two(a + q) /\ Two(y) = 2 * Two(q)
    <3>1. a + y = (a + q) + 1 /\ a + q \in Nat
      BY <2>3
    <3> QED BY <1>1, <2>3, <3>1
  <2>7. Two(a) \in Nat /\ Two(q) \in Nat
    BY <1>1
  <2>8. Two(a) * (2 * Two(q)) = 2 * (Two(a) * Two(q))
    BY <2>7
  <2> QED BY <2>1, <2>5, <2>6, <2>8
<1> QED BY <1>2

\* A larger exponent makes no smaller power, and a power exceeds its exponent.
LEMMA TwoGrows ==
  ASSUME NEW a \in Nat, NEW b \in Nat, a <= b
  PROVE  Two(a) <= Two(b) /\ (a < b => 2 * Two(a) <= Two(b))
<1>1. PICK c \in Nat : b = a + c
  <2>1. b - a \in Nat /\ b = a + (b - a)
    OBVIOUS
  <2> QED BY <2>1
<1>2. Two(b) = Two(a) * Two(c)
  BY <1>1, TwoSum
<1>3. Two(a) \in Nat \ {0} /\ Two(c) \in Nat \ {0}
  BY TwoStep
<1>4. PICK x \in Nat \ {0}, z \in Nat \ {0} : x = Two(a) /\ z = Two(c)
  BY <1>3
<1>5. x <= x * z
  BY <1>4
<1>6. CASE c = 0
  BY <1>1, <1>2, <1>4, <1>5, <1>6
<1>7. CASE c # 0
  <2>1. PICK d \in Nat : c = d + 1
    BY <1>7
  <2>2. Two(c) = 2 * Two(d) /\ Two(d) \in Nat \ {0}
    BY <2>1, TwoStep
  <2>3. z >= 2
    BY <1>4, <2>2
  <2>4. 2 * x <= x * z
    <3>1. (z - 2) * x >= 0 /\ (z - 2) * x = x * z - 2 * x
      BY <2>3
    <3> QED BY <3>1
  <2> QED BY <1>2, <1>4, <1>5, <2>4
<1> QED BY <1>6, <1>7

LEMMA TwoAbove ==
  ASSUME NEW n \in Nat
  PROVE  n < Two(n)
<1>1. \A k \in Nat : Two(k) \in Nat \ {0} /\ Two(k + 1) = 2 * Two(k)
  BY TwoStep
<1> DEFINE Bad == {y \in Nat : ~(y < Two(y))}
<1>2. Bad = {}
  <2> SUFFICES ASSUME Bad # {} PROVE FALSE
    OBVIOUS
  <2>1. PICK y \in Bad : \A z \in Bad : y <= z
    BY LeastNatural
  <2>2. y # 0
    BY <2>1, TwoZero
  <2>3. PICK q \in Nat : y = q + 1
    BY <2>1, <2>2
  <2>4. q < Two(q)
    BY <2>1, <2>3
  <2>5. Two(y) = 2 * Two(q) /\ Two(q) \in Nat
    BY <1>1, <2>3
  <2> QED BY <2>1, <2>3, <2>4, <2>5
<1> QED BY <1>2

LEMMA WidthNumbers ==
  /\ Byte \in Nat /\ Byte >= 2
  /\ Half = 2 * Byte /\ Word = 4 * Byte /\ Double = 8 * Byte
  /\ \A w \in Widths : w \in Nat /\ w >= 4 /\ w <= Double /\ w - 1 \in Nat
BY ByteAssumption DEF Widths, Half, Word, Double

LEMMA DivideBy ==
  ASSUME NEW n \in Int, NEW z \in Nat \ {0}
  PROVE  n \div z \in Int /\ n % z \in 0 .. z - 1 /\ n = (n \div z) * z + (n % z)
OBVIOUS

LEMMA DividedInto ==
  ASSUME NEW z \in Nat \ {0}, NEW q \in Int, NEW r \in 0 .. z - 1, NEW n, n = q * z + r
  PROVE  n \div z = q /\ n % z = r
<1>1. n \in Int
  OBVIOUS
<1>2. PICK p \in Int, s \in 0 .. z - 1 : p = n \div z /\ s = n % z /\ n = p * z + s
  BY <1>1, DivideBy
<1>3. (q - p) * z = s - r
  BY <1>2
<1>4. ~(q - p >= 1)
  <2> SUFFICES ASSUME q - p >= 1 PROVE FALSE
    OBVIOUS
  <2>1. (q - p - 1) * z >= 0 /\ (q - p - 1) * z = (q - p) * z - z
    OBVIOUS
  <2> QED BY <1>2, <1>3, <2>1
<1>5. ~(p - q >= 1)
  <2> SUFFICES ASSUME p - q >= 1 PROVE FALSE
    OBVIOUS
  <2>1. (p - q - 1) * z >= 0 /\ (p - q - 1) * z = -((q - p) * z) - z
    OBVIOUS
  <2> QED BY <1>2, <1>3, <2>1
<1>6. p = q
  BY <1>4, <1>5
<1> QED BY <1>2, <1>3, <1>6

\* Two numbers of which w bits are the same.
Like(a, b, w) == \E k \in Int : a = b + k * Two(w)

LEMMA CutIs ==
  ASSUME NEW v \in Int, NEW w \in Nat
  PROVE  /\ Cut(v, w) \in Nat /\ Cut(v, w) \in 0 .. Two(w) - 1
         /\ Like(v, Cut(v, w), w) /\ Like(Cut(v, w), v, w)
<1>1. PICK z \in Nat \ {0} : z = Two(w)
  BY TwoStep
<1>2. Cut(v, w) = v % z
  BY Zenon, <1>1 DEF Cut, Two
<1>3. PICK q \in Int, r \in 0 .. z - 1 : r = v % z /\ v = q * z + r
  BY DivideBy
<1>6. r \in Nat
  BY <1>3
<1>4. v = r + q * z /\ r = v + (-q) * z /\ -q \in Int
  BY <1>3
<1>5. Like(v, r, w) /\ Like(r, v, w)
  BY Zenon, <1>1, <1>4 DEF Like
<1> QED BY Zenon, <1>1, <1>2, <1>3, <1>5, <1>6

LEMMA CutLike ==
  ASSUME NEW w \in Nat, NEW a \in Int, NEW b \in 0 .. Two(w) - 1, Like(a, b, w)
  PROVE  Cut(a, w) = b
<1>1. PICK z \in Nat \ {0} : z = Two(w)
  BY TwoStep
<1>2. PICK k \in Int : a = b + k * z
  BY Zenon, <1>1 DEF Like
<1>3. a = k * z + b /\ b \in 0 .. z - 1
  BY <1>1, <1>2
<1>4. a % z = b
  BY <1>3, DividedInto
<1> QED BY Zenon, <1>1, <1>4 DEF Cut, Two
LEMMA LikeSelf ==
  ASSUME NEW a \in Int, NEW w \in Nat
  PROVE  Like(a, a, w)
<1>1. PICK z \in Nat \ {0} : z = Two(w)
  BY TwoStep
<1>2. a = a + 0 * z /\ 0 \in Int
  OBVIOUS
<1> QED BY Zenon, <1>1, <1>2 DEF Like

LEMMA LikeBack ==
  ASSUME NEW a \in Int, NEW b \in Int, NEW w \in Nat, Like(a, b, w)
  PROVE  Like(b, a, w)
<1>1. PICK z \in Nat \ {0} : z = Two(w)
  BY TwoStep
<1>2. PICK k \in Int : a = b + k * z
  BY Zenon, <1>1 DEF Like
<1>3. b = a + (-k) * z /\ -k \in Int
  BY <1>2
<1> QED BY Zenon, <1>1, <1>3 DEF Like

LEMMA LikeOn ==
  ASSUME NEW a \in Int, NEW b \in Int, NEW c \in Int, NEW w \in Nat,
         Like(a, b, w), Like(b, c, w)
  PROVE  Like(a, c, w)
<1>1. PICK z \in Nat \ {0} : z = Two(w)
  BY TwoStep
<1>2. PICK k \in Int, m \in Int : a = b + k * z /\ b = c + m * z
  BY Zenon, <1>1 DEF Like
<1>3. a = c + (k + m) * z /\ k + m \in Int
  BY <1>2
<1> QED BY Zenon, <1>1, <1>3 DEF Like

LEMMA LikeNarrower ==
  ASSUME NEW a \in Int, NEW b \in Int, NEW w \in Nat, NEW x \in Nat, w <= x, Like(a, b, x)
  PROVE  Like(a, b, w)
<1>1. PICK z \in Nat \ {0} : z = Two(w)
  BY TwoStep
<1>2. PICK d \in Nat : x = w + d
  <2>1. x - w \in Nat /\ x = w + (x - w)
    OBVIOUS
  <2> QED BY <2>1
<1>3. PICK y \in Nat \ {0} : y = Two(d) /\ Two(x) = z * y
  BY <1>1, <1>2, TwoSum, TwoStep
<1>4. PICK k \in Int : a = b + k * (z * y)
  BY Zenon, <1>3 DEF Like
<1>5. a = b + (k * y) * z /\ k * y \in Int
  BY <1>4
<1> QED BY Zenon, <1>1, <1>5 DEF Like

\* Sums, differences and products of such numbers are alike.
LEMMA LikeTogether ==
  ASSUME NEW a \in Int, NEW b \in Int, NEW c \in Int, NEW d \in Int, NEW w \in Nat,
         Like(a, b, w), Like(c, d, w)
  PROVE  Like(a + c, b + d, w) /\ Like(a - c, b - d, w) /\ Like(a * c, b * d, w)
<1>1. PICK z \in Nat \ {0} : z = Two(w)
  BY TwoStep
<1>2. PICK k \in Int, m \in Int : a = b + k * z /\ c = d + m * z
  BY Zenon, <1>1 DEF Like
<1>3. a + c = (b + d) + (k + m) * z /\ k + m \in Int
  BY <1>2
<1>4. a - c = (b - d) + (k - m) * z /\ k - m \in Int
  BY <1>2
<1>5. PICK n \in Int : n = b * m + k * d + (k * m) * z
  OBVIOUS
<1>6. a * c = b * d + n * z
  <2>1. (b + k * z) * (d + m * z) = b * d + b * (m * z) + (k * z) * d + (k * z) * (m * z)
    OBVIOUS
  <2>2. b * (m * z) = (b * m) * z /\ (k * z) * d = (k * d) * z
        /\ (k * z) * (m * z) = ((k * m) * z) * z
    OBVIOUS
  <2>3. n * z = (b * m) * z + (k * d) * z + ((k * m) * z) * z
    BY <1>5
  <2> QED BY <1>2, <2>1, <2>2, <2>3
<1> QED BY Zenon, <1>1, <1>3, <1>4, <1>5, <1>6 DEF Like

\* Numbers that are alike are cut to the same.
LEMMA CutSame ==
  ASSUME NEW a \in Int, NEW b \in Int, NEW w \in Nat, Like(a, b, w)
  PROVE  Cut(a, w) = Cut(b, w)
<1>1. Cut(b, w) \in 0 .. Two(w) - 1 /\ Like(b, Cut(b, w), w)
  BY CutIs
<1>2. PICK c \in 0 .. Two(w) - 1 : c = Cut(b, w) /\ Like(b, c, w)
  BY <1>1
<1>3. c \in Int
  BY <1>2, TwoStep
<1>4. Like(a, c, w)
  BY Zenon, <1>2, <1>3, LikeOn
<1> QED BY Zenon, <1>2, <1>4, CutLike

LEMMA CutSmall ==
  ASSUME NEW w \in Nat, NEW b \in 0 .. Two(w) - 1
  PROVE  Cut(b, w) = b
<1>1. b \in Int
  BY TwoStep
<1> QED BY <1>1, LikeSelf, CutLike

LEMMA CutNarrower ==
  ASSUME NEW v \in Int, NEW w \in Nat, NEW x \in Nat, w <= x
  PROVE  Cut(Cut(v, x), w) = Cut(v, w)
<1>1. PICK c \in Nat : c = Cut(v, x) /\ Like(c, v, x)
  BY Zenon, CutIs
<1>2. Like(c, v, w)
  BY <1>1, LikeNarrower
<1>3. c \in Int
  OBVIOUS
<1> QED BY Zenon, <1>1, <1>2, <1>3, CutSame

\* Bit n of a number.
Bit(v, n) == (v \div Two(n)) % 2 = 1

LEMMA BitsAre ==
  ASSUME NEW v \in Nat
  PROVE  /\ Ones2Bits(v) \in SUBSET (0 .. Double - 1)
         /\ \A n \in 0 .. Double - 1 : n \in Ones2Bits(v) <=> Bit(v, n)
BY Zenon DEF Ones2Bits, Bit, Two

\* The quotient by one more power of two is the half of the quotient.
LEMMA NextQuotient ==
  ASSUME NEW v \in Nat, NEW n \in Nat
  PROVE  \E q \in Nat, c \in {0, 1} : /\ q = v \div Two(n + 1) /\ v \div Two(n) = 2 * q + c
                                      /\ (Bit(v, n) <=> c = 1)
<1>1. PICK z \in Nat \ {0} : z = Two(n) /\ Two(n + 1) = 2 * z
  BY TwoStep
<1>2. PICK m \in Nat, r \in 0 .. z - 1 : m = v \div z /\ v = m * z + r
  <2>1. v \div z \in Nat /\ v % z \in 0 .. z - 1 /\ v = (v \div z) * z + (v % z)
    OBVIOUS
  <2> QED BY Zenon, <2>1
<1>3. PICK q \in Nat, c \in {0, 1} : m = 2 * q + c /\ c = m % 2
  <2>1. m \div 2 \in Nat /\ m % 2 \in {0, 1} /\ m = 2 * (m \div 2) + (m % 2)
    OBVIOUS
  <2> QED BY Zenon, <2>1
<1>4. PICK y \in Nat \ {0}, t \in Nat, k \in Int : y = 2 * z /\ t = c * z + r /\ k = q
  OBVIOUS
<1>5. v = k * y + t /\ t \in 0 .. y - 1
  <2>1. (2 * q + c) * z = q * (2 * z) + c * z
    OBVIOUS
  <2>2. c * z <= z /\ c * z >= 0
    BY <1>3
  <2> QED BY <1>2, <1>3, <1>4, <2>1, <2>2
<1>6. v \div y = k
  BY <1>5, DividedInto
<1>7. Bit(v, n) <=> c = 1
  BY Zenon, <1>1, <1>2, <1>3 DEF Bit
<1> QED BY Zenon, <1>1, <1>2, <1>3, <1>4, <1>6, <1>7

\* A number below 2^w has nothing above, and is determined by the bits below.
LEMMA QuotientOfSmall ==
  ASSUME NEW n \in Nat, NEW v \in 0 .. Two(n) - 1
  PROVE  v \div Two(n) = 0
<1>1. PICK z \in Nat \ {0} : z = Two(n)
  BY TwoStep
<1>2. v \in 0 .. z - 1
  BY <1>1
<1>3. PICK k \in Int : k = 0 /\ v = k * z + v
  BY <1>2
<1>4. v \div z = k
  BY <1>2, <1>3, DividedInto
<1> QED BY Zenon, <1>1, <1>3, <1>4

LEMMA NoBitsAbove ==
  ASSUME NEW w \in Nat, NEW v \in 0 .. Two(w) - 1, NEW n \in Nat, n >= w
  PROVE  ~Bit(v, n)
<1>1. Two(w) <= Two(n) /\ Two(w) \in Nat /\ Two(n) \in Nat
  BY TwoGrows, TwoStep
<1>2. v \in 0 .. Two(n) - 1
  BY <1>1
<1>3. v \div Two(n) = 0
  BY <1>2, QuotientOfSmall
<1>4. 0 % 2 # 1
  OBVIOUS
<1> QED BY Zenon, <1>3, <1>4 DEF Bit

LEMMA SameNumber ==
  ASSUME NEW w \in Nat, NEW u \in 0 .. Two(w) - 1, NEW v \in 0 .. Two(w) - 1,
         \A n \in 0 .. w - 1 : Bit(u, n) <=> Bit(v, n)
  PROVE  u = v
<1>1. u \in Nat /\ v \in Nat
  BY TwoStep
<1>2. u \div Two(w) = 0 /\ v \div Two(w) = 0
  BY QuotientOfSmall
<1> DEFINE Bad == {j \in Nat : j <= w /\ u \div Two(w - j) # v \div Two(w - j)}
<1>3. Bad = {}
  <2> SUFFICES ASSUME Bad # {} PROVE FALSE
    OBVIOUS
  <2>1. PICK j \in Bad : \A i \in Bad : j <= i
    <3>1. Bad \in SUBSET Nat
      OBVIOUS
    <3> HIDE DEF Bad
    <3> QED BY <3>1, LeastNatural
  <2>2. j # 0
    <3>1. w - 0 = w
      OBVIOUS
    <3> QED BY Zenon, <1>2, <2>1, <3>1
  <2>3. PICK i \in Nat, n \in Nat : j = i + 1 /\ n = w - j /\ n + 1 = w - i /\ n \in 0 .. w - 1 /\ i <= w
    <3>1. j - 1 \in Nat /\ w - j \in Nat /\ j = (j - 1) + 1 /\ (w - j) + 1 = w - (j - 1) /\ w - j \in 0 .. w - 1
          /\ j - 1 <= w
      BY <2>1, <2>2
    <3> QED BY Zenon, <3>1
  <2>4. i \notin Bad
    BY <2>1, <2>3
  <2>5. u \div Two(n + 1) = v \div Two(n + 1)
    BY Zenon, <2>3, <2>4
  <2>6. PICK p \in Nat, c \in {0, 1} : p = u \div Two(n + 1) /\ u \div Two(n) = 2 * p + c
          /\ (Bit(u, n) <=> c = 1)
    BY <1>1, NextQuotient
  <2>7. PICK q \in Nat, d \in {0, 1} : q = v \div Two(n + 1) /\ v \div Two(n) = 2 * q + d
          /\ (Bit(v, n) <=> d = 1)
    BY <1>1, NextQuotient
  <2>8. p = q /\ c = d
    <3>1. Bit(u, n) <=> Bit(v, n)
      BY <2>3
    <3> QED BY <2>5, <2>6, <2>7, <3>1
  <2> QED BY Zenon, <2>1, <2>3, <2>6, <2>7, <2>8
<1>4. u \div Two(0) = v \div Two(0)
  <2>1. w <= w /\ w - w = 0
    OBVIOUS
  <2>2. w \notin Bad
    BY Zenon, <1>3
  <2> QED BY Zenon, <2>1, <2>2
<1>5. u \div 1 = u /\ v \div 1 = v
  BY <1>1
<1> QED BY Zenon, <1>4, <1>5, TwoZero

\* A power of two added where there is no bit sets this bit and no other.
LEMMA AddBit ==
  ASSUME NEW u \in Nat, NEW x \in Nat, ~Bit(u, x)
  PROVE  /\ u + Two(x) \in Nat
         /\ \A n \in Nat : Bit(u + Two(x), n) <=> (n = x \/ Bit(u, n))
         /\ \A n \in Nat : n > x => (u + Two(x)) \div Two(n) = u \div Two(n)
<1>1. PICK z \in Nat \ {0} : z = Two(x)
  BY TwoStep
<1>2. PICK q \in Nat, c \in {0, 1} : u \div Two(x) = 2 * q + c /\ (Bit(u, x) <=> c = 1)
  BY NextQuotient
<1>3. u \div z = 2 * q
  BY <1>1, <1>2
<1>4. PICK r \in 0 .. z - 1 : u = (2 * q) * z + r
  <2>1. u % z \in 0 .. z - 1 /\ u = (u \div z) * z + (u % z)
    OBVIOUS
  <2> QED BY Zenon, <1>3, <2>1
<1>5. PICK y \in Nat : y = u + z
  OBVIOUS
<1>6. ASSUME NEW n \in Nat, n = x PROVE Bit(y, n)
  <2>1. PICK k \in Int : k = 2 * q + 1
    OBVIOUS
  <2>2. y = k * z + r
    <3>1. (2 * q + 1) * z = (2 * q) * z + z
      OBVIOUS
    <3> QED BY <1>4, <1>5, <2>1, <3>1
  <2>3. y \div z = k
    BY <2>2, DividedInto
  <2>4. k % 2 = 1
    BY <2>1
  <2> QED BY Zenon, <1>1, <1>6, <2>3, <2>4 DEF Bit
<1>7. ASSUME NEW n \in Nat, n < x PROVE Bit(y, n) <=> Bit(u, n)
  <2>1. PICK d \in Nat : x = n + (d + 1)
    <3>1. x - n - 1 \in Nat /\ x = n + ((x - n - 1) + 1)
      BY <1>7
    <3> QED BY Zenon, <3>1
  <2>2. PICK s \in Nat \ {0}, e \in Nat \ {0} : s = Two(n) /\ e = Two(d) /\ Two(d + 1) = 2 * e
    BY TwoStep
  <2>3. z = s * (2 * e)
    <3>1. d + 1 \in Nat
      OBVIOUS
    <3>2. Two(x) = Two(n) * Two(d + 1)
      BY Zenon, <2>1, <3>1, TwoSum
    <3> QED BY Zenon, <1>1, <2>2, <3>2
  <2>4. PICK a \in Nat, b \in 0 .. s - 1 : a = u \div s /\ u = a * s + b
    <3>1. u \div s \in Nat /\ u % s \in 0 .. s - 1 /\ u = (u \div s) * s + (u % s)
      OBVIOUS
    <3> QED BY Zenon, <3>1
  <2>5. PICK k \in Int : k = a + 2 * e
    OBVIOUS
  <2>6. y = k * s + b
    <3>1. (a + 2 * e) * s = a * s + s * (2 * e)
      OBVIOUS
    <3> QED BY <1>5, <2>3, <2>4, <2>5, <3>1
  <2>7. y \div s = k
    BY <2>6, DividedInto
  <2>8. k % 2 = a % 2
    BY <2>5
  <2> QED BY Zenon, <2>2, <2>4, <2>7, <2>8 DEF Bit
<1>8. ASSUME NEW n \in Nat, n > x PROVE y \div Two(n) = u \div Two(n)
  <2>1. PICK d \in Nat : n = x + (d + 1)
    <3>1. n - x - 1 \in Nat /\ n = x + ((n - x - 1) + 1)
      BY <1>8
    <3> QED BY Zenon, <3>1
  <2>2. PICK s \in Nat \ {0}, e \in Nat \ {0} : s = Two(n) /\ e = Two(d) /\ Two(d + 1) = 2 * e
    BY TwoStep
  <2>3. s = z * (2 * e)
    <3>1. d + 1 \in Nat
      OBVIOUS
    <3>2. Two(n) = Two(x) * Two(d + 1)
      BY Zenon, <2>1, <3>1, TwoSum
    <3> QED BY Zenon, <1>1, <2>2, <3>2
  <2>4. PICK a \in Nat, b \in 0 .. s - 1 : a = u \div s /\ u = a * s + b
    <3>1. u \div s \in Nat /\ u % s \in 0 .. s - 1 /\ u = (u \div s) * s + (u % s)
      OBVIOUS
    <3> QED BY Zenon, <3>1
  <2>5. PICK g \in Nat, t \in 0 .. z - 1 : b = g * z + t
    <3>1. b \in Nat
      OBVIOUS
    <3>2. b \div z \in Nat /\ b % z \in 0 .. z - 1 /\ b = (b \div z) * z + (b % z)
      BY <3>1
    <3> QED BY Zenon, <3>2
  <2>6. PICK k \in Int : k = 2 * (a * e) + g
    OBVIOUS
  <2>7. u = k * z + t
    <3>1. (2 * (a * e) + g) * z = a * (z * (2 * e)) + g * z
      OBVIOUS
    <3>2. a * s = a * (z * (2 * e))
      BY Zenon, <2>3
    <3>3. k * z = a * s + g * z
      BY Zenon, <2>6, <3>1, <3>2
    <3> QED BY <2>4, <2>5, <3>3
  <2>8. u \div z = k
    BY <2>7, DividedInto
  <2>9. 2 * q = 2 * (a * e) + g
    BY <1>3, <2>6, <2>8
  <2>10. g + 2 <= 2 * e
    <3>1. g < 2 * e
      <4> SUFFICES ASSUME g >= 2 * e PROVE FALSE
        OBVIOUS
      <4>1. (g - 2 * e) * z >= 0 /\ (g - 2 * e) * z = g * z - z * (2 * e)
        OBVIOUS
      <4> QED BY <2>3, <2>5, <4>1
    <3>2. PICK m \in Int : m = a * e
      OBVIOUS
    <3>3. g = 2 * (q - m)
      BY <2>9, <3>2
    <3> QED BY <3>1, <3>3
  <2>11. b + z \in 0 .. s - 1
    <3>1. (2 * e - g - 2) * z >= 0 /\ (2 * e - g - 2) * z = z * (2 * e) - g * z - 2 * z
      BY <2>10
    <3> QED BY <2>3, <2>5, <3>1
  <2>12. PICK p \in 0 .. s - 1 : p = b + z
    BY <2>11
  <2>13. y = a * s + p /\ a \in Int
    BY <1>5, <2>4, <2>12
  <2>14. y \div s = a
    BY Zenon, <2>12, <2>13, DividedInto
  <2> QED BY Zenon, <2>2, <2>4, <2>14
<1>9. ASSUME NEW n \in Nat PROVE Bit(y, n) <=> (n = x \/ Bit(u, n))
  <2>1. CASE n < x
    BY <1>7, <2>1
  <2>2. CASE n = x
    BY <1>6, <2>2
  <2>3. CASE n > x
    <3>1. n # x
      BY <2>3
    <3> QED BY Zenon, <1>8, <2>3, <3>1 DEF Bit
  <2> QED BY <2>1, <2>2, <2>3
<1> QED BY Zenon, <1>1, <1>5, <1>8, <1>9

\* Every set of bits belongs to a number.
LEMMA SomeNumber ==
  ASSUME NEW w \in Nat, NEW S \in SUBSET (0 .. w - 1)
  PROVE  \E v \in 0 .. Two(w) - 1 : \A n \in Nat : Bit(v, n) <=> n \in S
<1> DEFINE Has(k) == \E v \in 0 .. Two(k) - 1 : \A n \in Nat : Bit(v, n) <=> (n \in S /\ n < k)
           Bad == {k \in Nat : ~Has(k)}
<1>1. Bad = {}
  <2> SUFFICES ASSUME Bad # {} PROVE FALSE
    OBVIOUS
  <2>1. PICK k \in Bad : \A i \in Bad : k <= i
    <3>1. Bad \in SUBSET Nat
      OBVIOUS
    <3> HIDE DEF Bad
    <3> QED BY <3>1, LeastNatural
  <2>2. k # 0
    <3>1. 0 \in 0 .. Two(0) - 1 /\ 0 \in Nat
      BY TwoZero
    <3>2. \A n \in Nat : ~Bit(0, n) /\ ~(n < 0)
      BY <3>1, NoBitsAbove
    <3>3. Has(0)
      BY <3>1, <3>2
    <3> HIDE DEF Has
    <3> QED BY <2>1, <3>3
  <2>3. PICK i \in Nat : k = i + 1
    <3>1. k - 1 \in Nat /\ k = (k - 1) + 1
      BY <2>1, <2>2
    <3> QED BY Zenon, <3>1
  <2>4. Has(i)
    <3> HIDE DEF Has
    <3> QED BY <2>1, <2>3
  <2>5. PICK u \in 0 .. Two(i) - 1 : \A n \in Nat : Bit(u, n) <=> (n \in S /\ n < i)
    BY <2>4
  <2>6. Two(k) = 2 * Two(i) /\ Two(i) \in Nat \ {0} /\ u \in Nat
    BY <2>3, TwoStep
  <2>7. CASE i \in S
    <3>1. ~Bit(u, i)
      BY <2>5
    <3>2. u + Two(i) \in 0 .. Two(k) - 1
      BY <2>6
    <3>3. \A n \in Nat : Bit(u + Two(i), n) <=> (n = i \/ Bit(u, n))
      BY <2>6, <3>1, AddBit
    <3>4. \A n \in Nat : Bit(u + Two(i), n) <=> (n \in S /\ n < k)
      BY <2>3, <2>5, <2>7, <3>3
    <3>5. Has(k)
      BY <3>2, <3>4
    <3> HIDE DEF Has
    <3> QED BY <2>1, <3>5
  <2>8. CASE i \notin S
    <3>1. u \in 0 .. Two(k) - 1
      BY <2>6
    <3>2. \A n \in Nat : Bit(u, n) <=> (n \in S /\ n < k)
      BY <2>3, <2>5, <2>8
    <3>3. Has(k)
      BY <3>1, <3>2
    <3> HIDE DEF Has
    <3> QED BY <2>1, <3>3
  <2> QED BY <2>7, <2>8
<1>2. Has(w)
  <2> HIDE DEF Has
  <2> QED BY <1>1
<1> QED BY <1>2

\* The sum of the powers of two of a set of bits, as the fold takes it: one
\* bit after the other is removed.
Taken(s) == CHOOSE x \in s : TRUE
Weights(S) ==
  CHOOSE it : it = [s \in SUBSET S |-> IF s = {} THEN 0
                                       ELSE 2 ^ Taken(s) + it[s \ {Taken(s)}]]

LEMMA WeightsUnfold == \A S : Bits2Value(S) = Weights(S)[S]
BY Zenon DEF Bits2Value, MapThenSumSet, MapThenFoldSet, Weights, Taken

NumberOf(s) == CHOOSE v \in 0 .. Two(Double) - 1 : \A n \in Nat : Bit(v, n) <=> n \in s

LEMMA NumberOfIs ==
  ASSUME NEW s \in SUBSET (0 .. Double - 1)
  PROVE  NumberOf(s) \in 0 .. Two(Double) - 1 /\ \A n \in Nat : Bit(NumberOf(s), n) <=> n \in s
<1>1. \E v \in 0 .. Two(Double) - 1 : \A n \in Nat : Bit(v, n) <=> n \in s
  BY WidthNumbers, SomeNumber
<1> QED BY Zenon, <1>1 DEF NumberOf

LEMMA NumberOfTaken ==
  ASSUME NEW s \in SUBSET (0 .. Double - 1), NEW x \in s
  PROVE  NumberOf(s) = Two(x) + NumberOf(s \ {x})
<1>1. x \in Nat /\ x < Double /\ Double \in Nat
  BY WidthNumbers
<1>2. PICK u \in 0 .. Two(Double) - 1 :
        u = NumberOf(s \ {x}) /\ \A n \in Nat : Bit(u, n) <=> n \in s \ {x}
  BY NumberOfIs
<1>3. PICK v \in 0 .. Two(Double) - 1 :
        v = NumberOf(s) /\ \A n \in Nat : Bit(v, n) <=> n \in s
  BY NumberOfIs
<1>4. u \in Nat /\ ~Bit(u, x) /\ Two(x) \in Nat /\ Two(Double) \in Nat \ {0}
  <2>1. Two(x) \in Nat /\ Two(Double) \in Nat \ {0}
    BY <1>1, TwoStep
  <2>2. ~Bit(u, x)
    BY <1>1, <1>2
  <2> QED BY <2>1, <2>2
<1>5. /\ u + Two(x) \in Nat
      /\ \A n \in Nat : Bit(u + Two(x), n) <=> (n = x \/ Bit(u, n))
      /\ (u + Two(x)) \div Two(Double) = u \div Two(Double)
  BY <1>1, <1>4, AddBit
<1>6. PICK y \in Nat : y = u + Two(x)
  BY <1>5
<1>7. y \in 0 .. Two(Double) - 1
  <2>1. y \div Two(Double) = 0
    BY <1>1, <1>5, <1>6, QuotientOfSmall
  <2>2. PICK z \in Nat \ {0} : z = Two(Double)
    BY <1>4
  <2>3. y % z \in 0 .. z - 1 /\ y = (y \div z) * z + (y % z)
    OBVIOUS
  <2> QED BY <2>1, <2>2, <2>3
<1>8. \A n \in 0 .. Double - 1 : Bit(y, n) <=> Bit(v, n)
  <2>1. \A n \in Nat : Bit(y, n) <=> (n = x \/ Bit(u, n))
    BY Zenon, <1>5, <1>6
  <2>2. \A n \in Nat : (n = x \/ Bit(u, n)) <=> n \in s
    BY <1>1, <1>2
  <2> QED BY <1>1, <1>3, <2>1, <2>2
<1>9. y = v
  BY <1>1, <1>7, <1>8, SameNumber
<1> QED BY <1>1, <1>2, <1>3, <1>4, <1>6, <1>9

LEMMA WeightsAre ==
  ASSUME NEW S \in SUBSET (0 .. Double - 1)
  PROVE  Bits2Value(S) = NumberOf(S)
<1> DEFINE D == 0 .. Double - 1
           F(it) == [s \in SUBSET S |-> IF s = {} THEN 0
                                        ELSE 2 ^ Taken(s) + it[s \ {Taken(s)}]]
           g == [s \in SUBSET S |-> NumberOf(s)]
<1>1. \A s \in SUBSET S : s # {} => Taken(s) \in s
  BY DEF Taken
<1>2. NumberOf({}) = 0
  <2>1. {} \in SUBSET D
    OBVIOUS
  <2>2. 0 \in 0 .. Two(Double) - 1 /\ Two(0) - 1 = 0 /\ 0 \in Nat /\ Double \in Nat
    BY WidthNumbers, TwoZero, TwoStep
  <2>3. \A n \in Nat : ~Bit(0, n)
    <3>1. 0 \in 0 .. Two(0) - 1
      BY <2>2
    <3> QED BY <2>2, <3>1, NoBitsAbove
  <2>4. NumberOf({}) \in 0 .. Two(Double) - 1 /\ \A n \in Nat : ~Bit(NumberOf({}), n)
    BY <2>1, NumberOfIs
  <2>5. \A n \in 0 .. Double - 1 : Bit(NumberOf({}), n) <=> Bit(0, n)
    BY <2>3, <2>4
  <2> QED BY <2>2, <2>4, <2>5, SameNumber
<1>3. g = F(g)
  <2>1. ASSUME NEW s \in SUBSET S PROVE NumberOf(s) = IF s = {} THEN 0 ELSE 2 ^ Taken(s) + g[s \ {Taken(s)}]
    <3>1. CASE s = {}
      BY Zenon, <1>2, <3>1
    <3>2. CASE s # {}
      <4>1. Taken(s) \in s /\ s \in SUBSET D /\ s \ {Taken(s)} \in SUBSET S
        BY <1>1, <3>2
      <4>2. NumberOf(s) = Two(Taken(s)) + NumberOf(s \ {Taken(s)})
        BY Zenon, <4>1, NumberOfTaken
      <4>3. g[s \ {Taken(s)}] = NumberOf(s \ {Taken(s)})
        BY Zenon, <4>1
      <4> QED BY Zenon, <3>2, <4>2, <4>3 DEF Two
    <3> QED BY <3>1, <3>2
  <2> QED BY Zenon, <2>1
<1>4. PICK h : h = Weights(S)
  OBVIOUS
<1>5. h = F(h)
  BY Zenon, <1>3, <1>4 DEF Weights
<1>6. \A s \in SUBSET S : h[s] = IF s = {} THEN 0 ELSE 2 ^ Taken(s) + h[s \ {Taken(s)}]
  <2>1. \A s \in SUBSET S : F(h)[s] = IF s = {} THEN 0 ELSE 2 ^ Taken(s) + h[s \ {Taken(s)}]
    BY Zenon
  <2> HIDE DEF F
  <2> QED BY Zenon, <1>5, <2>1
<1> HIDE DEF F
<1>7. IsFiniteSet(S)
  <2>1. Double - 1 \in Int
    BY WidthNumbers
  <2>2. IsFiniteSet(0 .. Double - 1)
    BY <2>1, FS_Interval
  <2> QED BY <2>2, FS_Subset
<1> DEFINE Bad == {k \in Nat : \E s \in SUBSET S : Cardinality(s) = k /\ h[s] # NumberOf(s)}
<1>8. Bad = {}
  <2> SUFFICES ASSUME Bad # {} PROVE FALSE
    OBVIOUS
  <2>1. PICK k \in Bad : \A i \in Bad : k <= i
    <3>1. Bad \in SUBSET Nat
      OBVIOUS
    <3> HIDE DEF Bad
    <3> QED BY <3>1, LeastNatural
  <2>2. PICK s \in SUBSET S : Cardinality(s) = k /\ h[s] # NumberOf(s)
    BY <2>1
  <2>3. s # {}
    BY Zenon, <1>2, <1>6, <2>2
  <2>4. PICK x \in s : x = Taken(s)
    BY <1>1, <2>3
  <2>5. s \in SUBSET D /\ s \ {x} \in SUBSET S /\ IsFiniteSet(s) /\ IsFiniteSet(s \ {x})
    BY <1>7, FS_Subset
  <2>6. Cardinality(s \ {x}) \in Nat /\ Cardinality(s \ {x}) < k
    <3>1. Cardinality(s \ {x}) = Cardinality(s) - 1
      BY <2>5, FS_RemoveElement
    <3>2. Cardinality(s \ {x}) \in Nat /\ Cardinality(s) \in Nat
      BY <2>5, FS_CardinalityType
    <3> QED BY <2>2, <3>1, <3>2
  <2>7. h[s \ {x}] = NumberOf(s \ {x})
    BY <2>1, <2>5, <2>6
  <2>8. h[s] = 2 ^ x + h[s \ {x}]
    BY Zenon, <1>6, <2>3, <2>4
  <2>9. NumberOf(s) = Two(x) + NumberOf(s \ {x})
    BY <2>5, NumberOfTaken
  <2> QED BY Zenon, <2>2, <2>7, <2>8, <2>9 DEF Two
<1>9. h[S] = NumberOf(S)
  <2>1. Cardinality(S) \in Nat
    BY <1>7, FS_CardinalityType
  <2> QED BY <1>8, <2>1
<1> QED BY Zenon, <1>4, <1>9, WeightsUnfold

LEMMA ValueOfBits ==
  ASSUME NEW S \in SUBSET (0 .. Double - 1)
  PROVE  /\ Bits2Value(S) \in Nat /\ Bits2Value(S) \in 0 .. Two(Double) - 1
         /\ \A n \in Nat : Bit(Bits2Value(S), n) <=> n \in S
<1>1. \A v \in 0 .. Two(Double) - 1 : v \in Nat
  BY TwoStep
<1>2. Bits2Value(S) = NumberOf(S)
  BY Zenon, WeightsAre
<1>3. /\ NumberOf(S) \in 0 .. Two(Double) - 1
      /\ \A n \in Nat : Bit(NumberOf(S), n) <=> n \in S
  BY NumberOfIs
<1> QED BY Zenon, <1>1, <1>2, <1>3

LEMMA BitsBelow ==
  ASSUME NEW v \in 0 .. Two(Double) - 1, NEW w \in Nat, w <= Double,
         \A n \in Nat : Bit(v, n) => n < w
  PROVE  v \in 0 .. Two(w) - 1
<1>1. Double \in Nat /\ Two(w) <= Two(Double) /\ Two(w) \in Nat /\ Two(Double) \in Nat
  <2>1. Double \in Nat
    BY WidthNumbers
  <2>2. Two(w) <= Two(Double)
    BY <2>1, TwoGrows
  <2>3. Two(w) \in Nat /\ Two(Double) \in Nat
    BY <2>1, TwoStep
  <2> QED BY <2>1, <2>2, <2>3
<1> DEFINE S == {n \in 0 .. w - 1 : Bit(v, n)}
<1>2. PICK u \in 0 .. Two(w) - 1 : \A n \in Nat : Bit(u, n) <=> n \in S
  BY SomeNumber
<1>3. u \in 0 .. Two(Double) - 1
  BY <1>1
<1>4. \A n \in 0 .. Double - 1 : Bit(u, n) <=> Bit(v, n)
  BY <1>2
<1>5. u = v
  BY <1>1, <1>3, <1>4, SameNumber
<1> QED BY <1>5

\* A multiple of 2^x does not change the bits below x.
LEMMA AddMultiple ==
  ASSUME NEW u \in Nat, NEW k \in Nat, NEW x \in Nat, NEW n \in Nat, n < x
  PROVE  Bit(u + k * Two(x), n) <=> Bit(u, n)
<1>1. PICK d \in Nat : x = n + (d + 1)
  <2>1. x - n - 1 \in Nat /\ x = n + ((x - n - 1) + 1)
    OBVIOUS
  <2> QED BY Zenon, <2>1
<1>2. PICK s \in Nat \ {0}, e \in Nat \ {0} : s = Two(n) /\ e = Two(d) /\ Two(d + 1) = 2 * e
  BY TwoStep
<1>3. Two(x) = s * (2 * e)
  <2>1. d + 1 \in Nat
    OBVIOUS
  <2>2. Two(x) = Two(n) * Two(d + 1)
    BY Zenon, <1>1, <2>1, TwoSum
  <2> QED BY Zenon, <1>2, <2>2
<1>4. PICK a \in Nat, b \in 0 .. s - 1 : a = u \div s /\ u = a * s + b
  <2>1. u \div s \in Nat /\ u % s \in 0 .. s - 1 /\ u = (u \div s) * s + (u % s)
    OBVIOUS
  <2> QED BY Zenon, <2>1
<1>5. PICK m \in Int, j \in Int : m = k * e /\ j = a + 2 * m
  OBVIOUS
<1>6. PICK y \in Int : y = u + k * Two(x) /\ y = j * s + b
  <2>1. k * (s * (2 * e)) = (2 * (k * e)) * s
    OBVIOUS
  <2>2. (a + 2 * m) * s = a * s + (2 * m) * s
    OBVIOUS
  <2>3. k * Two(x) = (2 * m) * s
    BY Zenon, <1>3, <1>5, <2>1
  <2>4. (2 * m) * s \in Int
    OBVIOUS
  <2>5. j * s = a * s + (2 * m) * s
    BY Zenon, <1>5, <2>2
  <2>7. PICK p \in Int, o \in Int, h \in Int : p = (2 * m) * s /\ o = a * s /\ h = j * s
    OBVIOUS
  <2>8. b \in Int
    BY <1>4
  <2>9. h = o + p /\ u = o + b
    BY Zenon, <1>4, <2>5, <2>7
  <2>10. u + p = h + b /\ u + p \in Int
    BY <2>8, <2>9
  <2>6. u + (2 * m) * s = j * s + b /\ u + (2 * m) * s \in Int
    BY Zenon, <2>7, <2>10
  <2> QED BY Zenon, <2>3, <2>6
<1>7. y \div s = j
  BY Zenon, <1>6, DividedInto
<1>8. j % 2 = a % 2
  BY <1>5
<1> QED BY Zenon, <1>2, <1>4, <1>6, <1>7, <1>8 DEF Bit

LEMMA BitOfCut ==
  ASSUME NEW v \in Nat, NEW w \in Nat, NEW n \in Nat
  PROVE  Bit(Cut(v, w), n) <=> n < w /\ Bit(v, n)
<1>1. PICK z \in Nat \ {0} : z = Two(w)
  BY TwoStep
<1>2. PICK q \in Nat, r \in 0 .. z - 1 : r = v % z /\ v = r + q * z
  <2>1. v \div z \in Nat /\ v % z \in 0 .. z - 1 /\ v = (v % z) + (v \div z) * z
    OBVIOUS
  <2> QED BY Zenon, <2>1
<1>3. Cut(v, w) = r /\ r \in 0 .. Two(w) - 1 /\ r \in Nat
  <2>1. r \in Nat
    OBVIOUS
  <2> QED BY Zenon, <1>1, <1>2, <2>1 DEF Cut, Two
<1>4. CASE n < w
  <2>1. Bit(r + q * Two(w), n) <=> Bit(r, n)
    BY <1>3, <1>4, AddMultiple
  <2> QED BY Zenon, <1>1, <1>2, <1>3, <1>4, <2>1
<1>5. CASE n >= w
  <2>1. ~Bit(r, n)
    BY <1>3, <1>5, NoBitsAbove
  <2> QED BY <1>3, <1>5, <2>1
<1> QED BY <1>4, <1>5

LEMMA BitOfRight ==
  ASSUME NEW v \in Nat, NEW k \in Nat, NEW n \in Nat
  PROVE  ShiftRight(v, k) \in Nat /\ (Bit(ShiftRight(v, k), n) <=> Bit(v, n + k))
<1>1. PICK z \in Nat \ {0}, s \in Nat \ {0} : z = Two(k) /\ s = Two(n)
  BY TwoStep
<1>2. PICK m \in Nat, r \in 0 .. z - 1 : m = v \div z /\ v = m * z + r
  <2>1. v \div z \in Nat /\ v % z \in 0 .. z - 1 /\ v = (v \div z) * z + (v % z)
    OBVIOUS
  <2> QED BY Zenon, <2>1
<1>3. PICK a \in Nat, b \in 0 .. s - 1 : a = m \div s /\ m = a * s + b
  <2>1. m \div s \in Nat /\ m % s \in 0 .. s - 1 /\ m = (m \div s) * s + (m % s)
    OBVIOUS
  <2> QED BY Zenon, <2>1
<1>4. PICK y \in Nat \ {0} : y = s * z
  <2>1. s * z > 0
    OBVIOUS
  <2> QED BY <2>1
<1>5. PICK t \in 0 .. y - 1 : t = b * z + r
  <2>1. (s - 1 - b) * z >= 0 /\ (s - 1 - b) * z = s * z - z - b * z
    OBVIOUS
  <2>2. b * z >= 0
    OBVIOUS
  <2> QED BY <1>4, <2>1, <2>2
<1>6. v = a * y + t /\ a \in Int
  <2>1. (a * s + b) * z = a * (s * z) + b * z
    OBVIOUS
  <2>2. a * (s * z) = a * y
    BY Zenon, <1>4
  <2>3. PICK p \in Int, o \in Int : p = b * z /\ o = a * y
    OBVIOUS
  <2>4. m * z = o + p
    BY Zenon, <1>3, <2>1, <2>2, <2>3
  <2>5. v = (o + p) + r /\ t = p + r
    BY Zenon, <1>2, <1>5, <2>3, <2>4
  <2>6. v = o + t
    BY <2>5
  <2>7. a \in Int
    OBVIOUS
  <2> QED BY Zenon, <2>3, <2>6, <2>7
<1>7. v \div y = a
  BY Zenon, <1>6, DividedInto
<1>8. Two(n + k) = y
  BY <1>1, <1>4, TwoSum
<1>9. ShiftRight(v, k) = m
  BY Zenon, <1>1, <1>2 DEF ShiftRight, Two
<1> QED BY Zenon, <1>1, <1>3, <1>7, <1>8, <1>9 DEF Bit

\* Shifted to the left: the bits move up, zeros follow.
LEMMA BitOfMultiple ==
  ASSUME NEW v \in Nat, NEW k \in Nat, NEW n \in Nat
  PROVE  v * Two(k) \in Nat /\ (Bit(v * Two(k), n) <=> n >= k /\ Bit(v, n - k))
<1>1. PICK z \in Nat \ {0} : z = Two(k)
  BY TwoStep
<1>2. PICK y \in Nat : y = v * z /\ y = 0 + v * z
  OBVIOUS
<1>3. CASE n < k
  <2>1. Bit(0 + v * Two(k), n) <=> Bit(0, n)
    BY <1>3, AddMultiple
  <2>2. ~Bit(0, n)
    <3>1. 0 \in 0 .. Two(0) - 1
      BY TwoZero
    <3> QED BY <3>1, NoBitsAbove
  <2>3. ~(n >= k)
    BY <1>3
  <2> QED BY Zenon, <1>1, <1>2, <2>1, <2>2, <2>3
<1>4. CASE n >= k
  <2>1. PICK d \in Nat : d = n - k /\ d + k = n
    BY <1>4
  <2>2. ShiftRight(y, k) = v
    <3>1. y \div z = v
      BY <1>2
    <3> QED BY Zenon, <1>1, <3>1 DEF ShiftRight, Two
  <2>4. Bit(ShiftRight(y, k), d) <=> Bit(y, d + k)
    BY BitOfRight
  <2>3. Bit(v, d) <=> Bit(y, n)
    BY Zenon, <2>1, <2>2, <2>4
  <2> QED BY Zenon, <1>1, <1>2, <1>4, <2>1, <2>3
<1> QED BY <1>3, <1>4

LEMMA BitOfLeft ==
  ASSUME NEW v \in Nat, NEW k \in Nat, NEW w \in Nat, NEW n \in Nat
  PROVE  Bit(ShiftLeft(v, k, w), n) <=> n < w /\ n >= k /\ Bit(v, n - k)
<1>1. PICK y \in Nat : y = v * Two(k)
  BY BitOfMultiple
<1>2. ShiftLeft(v, k, w) = Cut(y, w)
  BY Zenon, <1>1 DEF ShiftLeft, Two
<1>3. Bit(y, n) <=> n >= k /\ Bit(v, n - k)
  BY Zenon, <1>1, BitOfMultiple
<1> QED BY Zenon, <1>2, <1>3, BitOfCut

\* The complement to 2^w - 1 has the other bits.
LEMMA BitOfComplement ==
  ASSUME NEW w \in Nat, NEW v \in 0 .. Two(w) - 1, NEW n \in Nat
  PROVE  /\ Two(w) - 1 - v \in 0 .. Two(w) - 1
         /\ Bit(Two(w) - 1 - v, n) <=> n < w /\ ~Bit(v, n)
<1>1. PICK z \in Nat \ {0} : z = Two(w)
  BY TwoStep
<1>2. PICK c \in 0 .. z - 1 : c = z - 1 - v /\ v \in Nat /\ v \in 0 .. z - 1
  BY <1>1
<1>3. CASE n >= w
  <2>1. ~Bit(c, n)
    BY <1>1, <1>3, NoBitsAbove
  <2> QED BY <1>1, <1>2, <1>3, <2>1
<1>4. CASE n < w
  <2>1. PICK d \in Nat : w = n + (d + 1)
    <3>1. w - n - 1 \in Nat /\ w = n + ((w - n - 1) + 1)
      BY <1>4
    <3> QED BY Zenon, <3>1
  <2>2. PICK s \in Nat \ {0}, e \in Nat \ {0} : s = Two(n) /\ e = Two(d) /\ Two(d + 1) = 2 * e
    BY TwoStep
  <2>3. z = s * (2 * e)
    <3>1. d + 1 \in Nat
      OBVIOUS
    <3>2. Two(w) = Two(n) * Two(d + 1)
      BY Zenon, <2>1, <3>1, TwoSum
    <3> QED BY Zenon, <1>1, <2>2, <3>2
  <2>4. PICK a \in Nat, b \in 0 .. s - 1 : a = v \div s /\ v = a * s + b
    <3>1. v \in Nat
      BY <1>2
    <3>2. v \div s \in Nat /\ v % s \in 0 .. s - 1 /\ v = (v \div s) * s + (v % s)
      BY <3>1
    <3> QED BY Zenon, <3>2
  <2>5. PICK j \in Int, t \in 0 .. s - 1 : j = 2 * e - 1 - a /\ t = s - 1 - b
    OBVIOUS
  <2>6. c = j * s + t
    <3>1. (2 * e - 1 - a) * s = s * (2 * e) - s - a * s
      OBVIOUS
    <3>2. j * s = s * (2 * e) - s - a * s
      BY Zenon, <2>5, <3>1
    <3> QED BY <1>2, <2>3, <2>4, <2>5, <3>2
  <2>7. c \div s = j
    BY Zenon, <2>6, DividedInto
  <2>8. j % 2 = 1 <=> a % 2 # 1
    BY <2>5
  <2>9. Bit(c, n) <=> ~Bit(v, n)
    BY Zenon, <2>2, <2>4, <2>7, <2>8 DEF Bit
  <2> QED BY <1>1, <1>2, <1>4, <2>9
<1> QED BY <1>3, <1>4

LEMMA BitOfNot ==
  ASSUME NEW v \in Nat, NEW w \in Nat, NEW n \in Nat
  PROVE  /\ Not(v, w) \in 0 .. Two(w) - 1
         /\ Bit(Not(v, w), n) <=> n < w /\ ~Bit(v, n)
<1>1. PICK c \in 0 .. Two(w) - 1 : c = Cut(v, w)
  <2>1. v \in Int
    OBVIOUS
  <2> QED BY Zenon, <2>1, CutIs
<1>2. Not(v, w) = Two(w) - 1 - c
  BY Zenon, <1>1 DEF Not, Ones, Two
<1>3. Bit(c, n) <=> n < w /\ Bit(v, n)
  <2>1. Bit(Cut(v, w), n) <=> n < w /\ Bit(v, n)
    BY BitOfCut
  <2> QED BY Zenon, <1>1, <2>1
<1>4. /\ Two(w) - 1 - c \in 0 .. Two(w) - 1
      /\ Bit(Two(w) - 1 - c, n) <=> n < w /\ ~Bit(c, n)
  BY BitOfComplement
<1> QED BY Zenon, <1>2, <1>3, <1>4

LEMMA BitOfOnes ==
  ASSUME NEW w \in Nat, NEW n \in Nat
  PROVE  Ones(w) \in Nat /\ Ones(w) \in 0 .. Two(w) - 1 /\ (Bit(Ones(w), n) <=> n < w)
<1>1. PICK z \in Nat \ {0} : z = Two(w)
  BY TwoStep
<1>2. 0 \in 0 .. Two(w) - 1 /\ z - 1 - 0 = z - 1 /\ z - 1 \in Nat /\ z - 1 \in 0 .. z - 1
  BY <1>1
<1>3. Ones(w) = z - 1 - 0
  BY Zenon, <1>1, <1>2 DEF Ones, Two
<1>4. ~Bit(0, n)
  <2>1. 0 \in 0 .. Two(0) - 1
    BY TwoZero
  <2> QED BY <2>1, NoBitsAbove
<1>5. Bit(z - 1 - 0, n) <=> n < w
  BY Zenon, <1>1, <1>2, <1>4, BitOfComplement
<1> QED BY Zenon, <1>1, <1>2, <1>3, <1>5

LEMMA BitOfLogic ==
  ASSUME NEW a \in Nat, NEW b \in Nat
  PROVE  /\ And(a, b) \in Nat /\ And(a, b) \in 0 .. Two(Double) - 1
         /\ Or(a, b) \in Nat /\ Or(a, b) \in 0 .. Two(Double) - 1
         /\ Xor(a, b) \in Nat /\ Xor(a, b) \in 0 .. Two(Double) - 1
         /\ \A n \in Nat : /\ Bit(And(a, b), n) <=> n < Double /\ Bit(a, n) /\ Bit(b, n)
                           /\ Bit(Or(a, b), n) <=> n < Double /\ (Bit(a, n) \/ Bit(b, n))
                           /\ Bit(Xor(a, b), n) <=> n < Double /\ ~(Bit(a, n) <=> Bit(b, n))
<1>1. PICK A \in SUBSET (0 .. Double - 1), B \in SUBSET (0 .. Double - 1) :
        /\ A = Ones2Bits(a) /\ B = Ones2Bits(b)
        /\ \A n \in 0 .. Double - 1 : (n \in A <=> Bit(a, n)) /\ (n \in B <=> Bit(b, n))
  BY BitsAre
<1>2. Double \in Nat
  BY WidthNumbers
<1>3. \A n \in Nat : (n \in A <=> n < Double /\ Bit(a, n)) /\ (n \in B <=> n < Double /\ Bit(b, n))
  BY <1>1, <1>2
<1>4. A \cap B \in SUBSET (0 .. Double - 1) /\ A \cup B \in SUBSET (0 .. Double - 1)
      /\ (A \ B) \cup (B \ A) \in SUBSET (0 .. Double - 1)
  OBVIOUS
<1>5. And(a, b) = Bits2Value(A \cap B) /\ Or(a, b) = Bits2Value(A \cup B)
      /\ Xor(a, b) = Bits2Value((A \ B) \cup (B \ A))
  BY Zenon, <1>1 DEF And, Or, Xor
<1>6. /\ And(a, b) \in Nat /\ And(a, b) \in 0 .. Two(Double) - 1
      /\ \A n \in Nat : Bit(And(a, b), n) <=> n \in A \cap B
  <2>1. PICK S \in SUBSET (0 .. Double - 1) : S = A \cap B /\ And(a, b) = Bits2Value(S)
    BY Zenon, <1>4, <1>5
  <2>2. /\ Bits2Value(S) \in Nat /\ Bits2Value(S) \in 0 .. Two(Double) - 1
        /\ \A n \in Nat : Bit(Bits2Value(S), n) <=> n \in S
    BY ValueOfBits
  <2> QED BY Zenon, <2>1, <2>2
<1>7. /\ Or(a, b) \in Nat /\ Or(a, b) \in 0 .. Two(Double) - 1
      /\ \A n \in Nat : Bit(Or(a, b), n) <=> n \in A \cup B
  <2>1. PICK S \in SUBSET (0 .. Double - 1) : S = A \cup B /\ Or(a, b) = Bits2Value(S)
    BY Zenon, <1>4, <1>5
  <2>2. /\ Bits2Value(S) \in Nat /\ Bits2Value(S) \in 0 .. Two(Double) - 1
        /\ \A n \in Nat : Bit(Bits2Value(S), n) <=> n \in S
    BY ValueOfBits
  <2> QED BY Zenon, <2>1, <2>2
<1>8. /\ Xor(a, b) \in Nat /\ Xor(a, b) \in 0 .. Two(Double) - 1
      /\ \A n \in Nat : Bit(Xor(a, b), n) <=> n \in (A \ B) \cup (B \ A)
  <2>1. PICK S \in SUBSET (0 .. Double - 1) : S = (A \ B) \cup (B \ A) /\ Xor(a, b) = Bits2Value(S)
    BY Zenon, <1>4, <1>5
  <2>2. /\ Bits2Value(S) \in Nat /\ Bits2Value(S) \in 0 .. Two(Double) - 1
        /\ \A n \in Nat : Bit(Bits2Value(S), n) <=> n \in S
    BY ValueOfBits
  <2> QED BY Zenon, <2>1, <2>2
<1>9. ASSUME NEW n \in Nat
      PROVE  /\ Bit(And(a, b), n) <=> n < Double /\ Bit(a, n) /\ Bit(b, n)
             /\ Bit(Or(a, b), n) <=> n < Double /\ (Bit(a, n) \/ Bit(b, n))
             /\ Bit(Xor(a, b), n) <=> n < Double /\ ~(Bit(a, n) <=> Bit(b, n))
  BY Zenon, <1>3, <1>6, <1>7, <1>8
<1> QED BY Zenon, <1>6, <1>7, <1>8, <1>9

\* The two's complement reading of a pattern.
LEMMA LowestIs ==
  ASSUME NEW w \in Nat, w >= 1
  PROVE  /\ Lowest(w) = Two(w - 1) /\ Lowest(w) \in Nat \ {0} /\ Two(w) = 2 * Lowest(w)
         /\ Ones(w) = Two(w) - 1 /\ Ones(w) \in 0 .. Two(w) - 1
<1>1. w - 1 \in Nat /\ (w - 1) + 1 = w
  OBVIOUS
<1>2. Lowest(w) = Two(w - 1) /\ Ones(w) = Two(w) - 1
  BY Zenon DEF Lowest, Ones, Two
<1>3. Two(w - 1) \in Nat \ {0} /\ Two((w - 1) + 1) = 2 * Two(w - 1)
  BY <1>1, TwoStep
<1> QED BY <1>1, <1>2, <1>3

LEMMA SignedIs ==
  ASSUME NEW w \in Nat, w >= 1, NEW v \in 0 .. Two(w) - 1
  PROVE  /\ Signed(v, w) \in Int /\ Signed(v, w) \in -Lowest(w) .. Lowest(w) - 1
         /\ Signed(v, w) = IF v >= Lowest(w) THEN v - Two(w) ELSE v
         /\ (Negative(v, w) <=> v >= Lowest(w))
         /\ (Negative(v, w) <=> Signed(v, w) < 0)
         /\ Like(Signed(v, w), v, w) /\ Like(v, Signed(v, w), w)
         /\ Cut(Signed(v, w), w) = v
<1>1. PICK l \in Nat \ {0} : l = Lowest(w) /\ Two(w) = 2 * l
  BY LowestIs
<1>2. Negative(v, w) <=> v >= l
  BY Zenon, <1>1 DEF Negative, Lowest
<1>3. Signed(v, w) = IF v >= l THEN v - Two(w) ELSE v
  BY Zenon, <1>2 DEF Signed, Two
<1>4. v \in Int /\ v < 2 * l /\ v >= 0
  BY <1>1
<1>5. PICK s \in Int : s = Signed(v, w) /\ s = IF v >= l THEN v - Two(w) ELSE v
  BY <1>1, <1>3, <1>4
<1>6. s \in -l .. l - 1 /\ (v >= l <=> s < 0)
  BY <1>1, <1>4, <1>5
<1>7. Like(s, v, w) /\ Like(v, s, w)
  <2>1. PICK k \in {0, 1} : v = s + k * Two(w) /\ s = v + (-k) * Two(w)
    <3>1. CASE v >= l
      <4>1. v = s + 1 * Two(w) /\ s = v + (-1) * Two(w)
        BY <1>1, <1>5, <3>1
      <4> QED BY <4>1
    <3>2. CASE ~(v >= l)
      <4>1. v = s + 0 * Two(w) /\ s = v + (-0) * Two(w)
        BY <1>1, <1>5, <3>2
      <4> QED BY <4>1
    <3> QED BY <3>1, <3>2
  <2>2. k \in Int /\ -k \in Int
    OBVIOUS
  <2> QED BY Zenon, <2>1, <2>2 DEF Like
<1>8. Cut(s, w) = v
  BY Zenon, <1>7, CutLike
<1> QED BY Zenon, <1>1, <1>2, <1>3, <1>5, <1>6, <1>7, <1>8

\* A signed number is the only one in its range with its low bits.
LEMMA SignedUnique ==
  ASSUME NEW w \in Nat, w >= 1, NEW v \in 0 .. Two(w) - 1,
         NEW x \in -Lowest(w) .. Lowest(w) - 1, Like(x, v, w)
  PROVE  x = Signed(v, w)
<1>1. PICK l \in Nat \ {0} : l = Lowest(w) /\ Two(w) = 2 * l
  BY LowestIs
<1>2. PICK k \in Int : x = v + k * (2 * l)
  BY Zenon, <1>1 DEF Like
<1>3. x \in -l .. l - 1 /\ v \in 0 .. 2 * l - 1
  BY <1>1
<1>4. ~(k >= 1)
  <2> SUFFICES ASSUME k >= 1 PROVE FALSE
    OBVIOUS
  <2>1. (k - 1) * (2 * l) >= 0 /\ (k - 1) * (2 * l) = k * (2 * l) - 2 * l
    OBVIOUS
  <2> QED BY <1>2, <1>3, <2>1
<1>5. ~(k <= -2)
  <2> SUFFICES ASSUME k <= -2 PROVE FALSE
    OBVIOUS
  <2>1. (-2 - k) * (2 * l) >= 0 /\ (-2 - k) * (2 * l) = -(k * (2 * l)) - 2 * (2 * l)
    OBVIOUS
  <2> QED BY <1>2, <1>3, <2>1
<1>6. k = 0 \/ k = -1
  BY <1>4, <1>5
<1>7. x = IF v >= l THEN v - 2 * l ELSE v
  BY <1>2, <1>3, <1>6
<1> QED BY Zenon, <1>1, <1>7, SignedIs

-----------------------------------------------------------------------------

LEMMA WidthOf ==
  ASSUME NEW r \in Registers
  PROVE  Width[r] \in Widths \cup {1} /\ Width[r] \in Nat /\ Width[r] <= Double /\ Width[r] >= 1
<1>1. Width[r] \in {Half, Word, Double, 1}
  BY DEF Registers, Width
<1> QED BY <1>1, WidthNumbers DEF Widths

\* What an operand is on the three paths.
LEMMA OperandIs ==
  ASSUME NEW o \in Operands, NEW f \in RegisterFiles, NEW w \in Widths, OfWidth(o, w)
  PROVE  \E v \in Nat : /\ v \in 0 .. Two(w) - 1
                        /\ Load(o, w, f) = v /\ Value(o, w, f) = v
                        /\ Operand(o, f) \in Nat /\ Like(Operand(o, f), v, w)
                        /\ Cut(Operand(o, f), w) = v /\ Cut(v, w) = v
                        /\ (~IsLiteral(o) => Operand(o, f) = v /\ f[o.name] = v)
<1>1. w \in Nat /\ w <= Double /\ Double \in Nat /\ o.value \in Int
  BY WidthNumbers DEF Operands, Widths
<1>2. CASE IsLiteral(o)
  <2>1. PICK v \in Nat : v = Cut(o.value, w) /\ v \in 0 .. Two(w) - 1 /\ Like(o.value, v, w)
    BY Zenon, <1>1, CutIs
  <2>2. PICK c \in Nat : c = Cut(o.value, Double) /\ Like(c, o.value, Double)
    BY Zenon, <1>1, CutIs
  <2>3. c \in Int /\ v \in Int
    OBVIOUS
  <2>4. Like(c, o.value, w)
    BY <1>1, <2>2, <2>3, LikeNarrower
  <2>5. Like(c, v, w)
    BY Zenon, <1>1, <2>1, <2>3, <2>4, LikeOn
  <2>6. Cut(c, w) = v /\ Cut(v, w) = v
    BY Zenon, <1>1, <2>1, <2>3, <2>5, CutLike, CutSmall
  <2>7. Load(o, w, f) = v /\ Value(o, w, f) = v /\ Operand(o, f) = c
    BY Zenon, <1>2, <2>1, <2>2 DEF Load, Value, Operand
  <2> QED BY Zenon, <1>2, <2>1, <2>5, <2>6, <2>7
<1>3. CASE ~IsLiteral(o)
  <2>1. o.name \in Registers /\ Width[o.name] = w
    BY <1>3 DEF OfWidth
  <2>2. PICK v \in Nat : v = f[o.name] /\ v \in 0 .. Two(w) - 1
    BY <2>1 DEF RegisterFiles, Patterns, Two
  <2>3. Load(o, w, f) = v /\ Value(o, w, f) = v /\ Operand(o, f) = v
    BY Zenon, <1>3, <2>2 DEF Load, Value, Operand
  <2>4. v \in Int
    OBVIOUS
  <2>5. Like(v, v, w) /\ Cut(v, w) = v
    BY Zenon, <1>1, <2>2, <2>4, LikeSelf, CutSmall
  <2> QED BY Zenon, <2>2, <2>3, <2>5
<1> QED BY <1>2, <1>3

Answer(x, v) == x = v \/ x = Refused \/ x = Undefined
AllAnswer(ins, f, K, v) ==
  /\ v \in 0 .. Two(Width[ins.dst]) - 1
  /\ Answer(InterpValue(ins, f), v) /\ Answer(LlvmValue(ins, f), v)
  /\ Answer(MlirValue(ins, f, K), v)

LEMMA TypeWidth ==
  ASSUME NEW ins, IsInstruction(ins)
  PROVE  ins.ty.width \in Widths /\ ins.from.width \in Widths
BY DEF IsInstruction, Types

\* One of the operands, as OperandIs gives it.
Holds(ins, n, f, w, v) ==
  /\ v \in 0 .. Two(w) - 1
  /\ Load(ins.src[n], w, f) = v /\ Value(ins.src[n], w, f) = v
  /\ Operand(ins.src[n], f) \in Nat /\ Like(Operand(ins.src[n], f), v, w)
  /\ Cut(Operand(ins.src[n], f), w) = v /\ Cut(v, w) = v
  /\ (~IsLiteral(ins.src[n]) => Operand(ins.src[n], f) = v /\ f[ins.src[n].name] = v)
  /\ (w = ins.ty.width /\ w # Half => Read(ins, n, f) = v /\ ReadSigned(ins, n, f) = Signed(v, w))

LEMMA SourceIs ==
  ASSUME NEW ins, IsInstruction(ins), NEW f \in RegisterFiles, NEW n \in 1 .. Len(ins.src),
         NEW w \in Widths, OfWidth(ins.src[n], w)
  PROVE  \E v \in Nat : Holds(ins, n, f, w, v)
<1>1. ins.src[n] \in Operands
  <2>1. ins.src \in Seq(Operands)
    BY DEF IsInstruction
  <2> QED BY <2>1
<1>2. PICK o : o = ins.src[n]
  OBVIOUS
<1>3. o \in Operands /\ OfWidth(o, w)
  BY <1>1, <1>2
<1>4. PICK v \in Nat : /\ v \in 0 .. Two(w) - 1
                        /\ Load(o, w, f) = v /\ Value(o, w, f) = v
                        /\ Operand(o, f) \in Nat /\ Like(Operand(o, f), v, w)
                        /\ Cut(Operand(o, f), w) = v /\ Cut(v, w) = v
                        /\ (~IsLiteral(o) => Operand(o, f) = v /\ f[o.name] = v)
  BY <1>3, OperandIs
<1>6. w # Half => CellWidth(w) = w
  BY DEF CellWidth, Widths
<1>7. w = ins.ty.width /\ w # Half => Read(ins, n, f) = v /\ ReadSigned(ins, n, f) = Signed(v, w)
  BY Zenon, <1>2, <1>4, <1>6 DEF Read, ReadSigned
<1>5. Holds(ins, n, f, w, v)
  BY Zenon, <1>2, <1>4, <1>7 DEF Holds
<1> QED BY Zenon, <1>5

LEMMA SizedSource ==
  ASSUME NEW ins, IsInstruction(ins), NEW f \in RegisterFiles, NEW k \in Nat, Sized(ins, k),
         NEW n \in 1 .. k
  PROVE  \E v \in Nat : Holds(ins, n, f, ins.ty.width, v)
<1>1. Len(ins.src) = k /\ OfWidth(ins.src[n], ins.ty.width)
  BY DEF Sized
<1>2. ins.ty.width \in Widths
  BY TypeWidth
<1>3. n \in 1 .. Len(ins.src)
  BY <1>1
<1> QED BY Zenon, <1>1, <1>2, <1>3, SourceIs

LEMMA TwoSources ==
  ASSUME NEW ins, IsInstruction(ins), NEW f \in RegisterFiles, NEW k \in Nat, k >= 2, Sized(ins, k)
  PROVE  \E w \in Widths, a \in Nat, b \in Nat :
           /\ w = ins.ty.width /\ w \in Nat /\ w >= 1
           /\ Holds(ins, 1, f, w, a) /\ Holds(ins, 2, f, w, b)
<1>1. PICK w \in Widths : w = ins.ty.width /\ w \in Nat /\ w >= 1
  BY TypeWidth, WidthNumbers
<1>2. 1 \in 1 .. k /\ 2 \in 1 .. k
  OBVIOUS
<1>3. PICK a \in Nat : Holds(ins, 1, f, w, a)
  BY Zenon, <1>1, <1>2, SizedSource
<1>4. PICK b \in Nat : Holds(ins, 2, f, w, b)
  BY Zenon, <1>1, <1>2, SizedSource
<1> QED BY Zenon, <1>1, <1>3, <1>4

-----------------------------------------------------------------------------
LEMMA AddSub ==
  ASSUME NEW ins, IsInstruction(ins), NEW f \in RegisterFiles, NEW K, Sized(ins, 2),
         ins.op \in {"add", "sub"}, Width[ins.dst] = ins.ty.width
  PROVE  \E v \in Nat : AllAnswer(ins, f, K, v)
<1>1. PICK w \in Widths : w = ins.ty.width /\ w \in Nat
  BY TypeWidth, WidthNumbers
<1>2. PICK a \in Nat, b \in Nat : Holds(ins, 1, f, w, a) /\ Holds(ins, 2, f, w, b)
  <2>1. 1 \in 1 .. 2 /\ 2 \in 1 .. 2 /\ 2 \in Nat
    OBVIOUS
  <2> QED BY Zenon, <1>1, <2>1, SizedSource
<1>3. PICK x \in Int : x = IF ins.op = "add" THEN a + b ELSE a - b
  <2>1. a + b \in Int /\ a - b \in Int
    OBVIOUS
  <2> QED BY Zenon, <2>1
<1>4. PICK v \in Nat : v = Cut(x, w) /\ v \in 0 .. Two(w) - 1
  BY Zenon, <1>1, CutIs
<1>5. Answer(InterpValue(ins, f), v)
  <2>1. InterpValue(ins, f) = IAddSub(ins, f)
    BY DEF InterpValue
  <2>2. PICK A \in Int, B \in Int :
          /\ A = Operand(ins.src[1], f) /\ B = Operand(ins.src[2], f)
          /\ Like(A, a, w) /\ Like(B, b, w)
    BY <1>2 DEF Holds
  <2>3. PICK y \in Int : y = IF ins.op = "add" THEN A + B ELSE A - B
    <3>1. A + B \in Int /\ A - B \in Int
      OBVIOUS
    <3> QED BY Zenon, <3>1
  <2>4. a \in Int /\ b \in Int
    OBVIOUS
  <2>5. Like(y, x, w)
    <3>1. Like(A + B, a + b, w) /\ Like(A - B, a - b, w)
      BY Zenon, <1>1, <2>2, <2>4, LikeTogether
    <3> QED BY Zenon, <1>3, <2>3, <3>1
  <2>6. Cut(y, w) = v
    BY Zenon, <1>1, <1>4, <2>5, CutSame
  <2> QED BY Zenon, <1>1, <2>1, <2>2, <2>3, <2>6 DEF IAddSub, Answer
<1>6. Answer(LlvmValue(ins, f), v)
  <2>1. LlvmValue(ins, f) = LAddSub(ins, f)
    BY DEF LlvmValue
  <2> QED BY Zenon, <1>1, <1>2, <1>3, <1>4, <2>1 DEF LAddSub, Answer, Holds
<1>7. Answer(MlirValue(ins, f, K), v)
  <2>1. MlirValue(ins, f, K) = MBinary(ins, f)
    BY DEF MlirValue
  <2>2. MBinary(ins, f) = Refused \/ MBinary(ins, f) = Cut(x, w)
    <3>1. Value(ins.src[1], w, f) = a /\ Value(ins.src[2], w, f) = b
      BY Zenon, <1>2 DEF Holds
    <3> QED BY <1>1, <1>3, <3>1 DEF MBinary
  <2> QED BY Zenon, <1>4, <2>1, <2>2 DEF Answer
<1> QED BY Zenon, <1>1, <1>4, <1>5, <1>6, <1>7 DEF AllAnswer

LEMMA ProductIs ==
  ASSUME NEW a \in Nat, NEW b \in Nat, NEW w \in Nat, w <= Double
  PROVE  Product(a, b, w) = Cut(a * b, w)
<1>1. Word \in Nat /\ Double = Word + Word /\ Double \in Nat
  BY WidthNumbers
<1>2. PICK z \in Nat \ {0} : z = Two(Word)
  BY <1>1, TwoStep
<1>3. Two(Double) = z * z
  BY <1>1, <1>2, TwoSum
<1>4. PICK q \in Nat, r \in Int : q = b \div z /\ r = b % z /\ b = q * z + r
  <2>1. b \div z \in Nat /\ b % z \in Int /\ b = (b \div z) * z + (b % z)
    OBVIOUS
  <2> QED BY Zenon, <2>1
<1>5. PICK m \in Int : m = a * q
  OBVIOUS
<1>6. PICK c \in Nat : c = Cut(m, Word) /\ Like(m, c, Word)
  BY Zenon, <1>1, CutIs
<1>7. PICK k \in Int : m = c + k * z
  BY Zenon, <1>2, <1>6 DEF Like
<1>8. PICK x \in Int : x = a * r + c * z
  OBVIOUS
<1>9. PICK p \in Int : p = a * b
  OBVIOUS
<1>10. p = x + k * (z * z)
  <2>1. a * (q * z + r) = (a * q) * z + a * r
    BY <1>4
  <2>2. (c + k * z) * z = c * z + k * (z * z)
    OBVIOUS
  <2>3. p = m * z + a * r
    BY <1>4, <1>5, <1>9, <2>1
  <2>4. m * z = c * z + k * (z * z)
    BY <1>7, <2>2
  <2>5. p = (c * z + k * (z * z)) + a * r
    BY <2>3, <2>4
  <2> QED BY <1>8, <2>5
<1>11. Like(p, x, Double)
  BY Zenon, <1>3, <1>10 DEF Like
<1>12. Like(p, x, w)
  BY <1>1, <1>11, LikeNarrower
<1>13. Cut(p, w) = Cut(x, w)
  BY Zenon, <1>12, CutSame
<1> QED BY Zenon, <1>2, <1>4, <1>5, <1>6, <1>8, <1>9, <1>13 DEF Product, Two

LEMMA LowProducts ==
  ASSUME NEW ins, IsInstruction(ins), NEW f \in RegisterFiles, NEW K,
         ins.op \in {"mul", "mad"}, ins.mod = "lo", Width[ins.dst] = ins.ty.width,
         Sized(ins, IF ins.op = "mad" THEN 3 ELSE 2)
  PROVE  \E v \in Nat : AllAnswer(ins, f, K, v)
<1>1. PICK k \in {2, 3} : k = (IF ins.op = "mad" THEN 3 ELSE 2) /\ Sized(ins, k)
  OBVIOUS
<1>2. PICK w \in Widths, a \in Nat, b \in Nat :
         /\ w = ins.ty.width /\ w \in Nat /\ w >= 1
         /\ Holds(ins, 1, f, w, a) /\ Holds(ins, 2, f, w, b)
  BY <1>1, TwoSources
<1>3. PICK C \in Nat, c \in Nat :
        /\ C = (IF ins.op = "mad" THEN Operand(ins.src[3], f) ELSE 0)
        /\ Like(C, c, w)
        /\ c = (IF ins.op = "mad" THEN Load(ins.src[3], w, f) ELSE 0)
        /\ (ins.op = "mad" => c = Value(ins.src[3], w, f))
  <2>1. CASE ins.op = "mad"
    <3>1. k \in Nat /\ 3 \in 1 .. k
      BY <1>1, <2>1
    <3>2. PICK c \in Nat : Holds(ins, 3, f, w, c)
      BY Zenon, <1>1, <1>2, <3>1, SizedSource
    <3>3. Operand(ins.src[3], f) \in Nat /\ Like(Operand(ins.src[3], f), c, w)
          /\ c = Load(ins.src[3], w, f) /\ c = Value(ins.src[3], w, f)
      BY Zenon, <3>2 DEF Holds
    <3> QED BY Zenon, <2>1, <3>3
  <2>2. CASE ins.op # "mad"
    <3>1. 0 \in Nat /\ 0 \in Int
      OBVIOUS
    <3>2. Like(0, 0, w)
      BY Zenon, <1>2, <3>1, LikeSelf
    <3> QED BY Zenon, <2>2, <3>1, <3>2
  <2> QED BY Zenon, <2>1, <2>2
<1>4. PICK p \in Int, x \in Int : p = a * b /\ x = p + c
  <2>1. a * b \in Int /\ a * b + c \in Int
    OBVIOUS
  <2> QED BY <2>1
<1>5. PICK v \in Nat : v = Cut(x, w) /\ v \in 0 .. Two(w) - 1
  BY Zenon, <1>2, CutIs
<1>6. w <= Double /\ Double <= Double /\ Double \in Nat /\ p \in Int /\ c \in Int /\ C \in Int
  BY WidthNumbers
<1>7. Product(a, b, w) = Cut(p, w) /\ Product(a, b, Double) = Cut(p, Double)
  <2>1. Product(a, b, w) = Cut(a * b, w)
    BY <1>2, <1>6, ProductIs
  <2>2. Product(a, b, Double) = Cut(a * b, Double)
    BY <1>6, ProductIs
  <2> QED BY Zenon, <1>4, <2>1, <2>2
<1>8. PICK s \in Nat, t \in Nat :
        s = Cut(p, w) /\ Like(s, p, w) /\ t = Cut(p, Double) /\ Like(t, p, Double)
  BY Zenon, <1>2, <1>6, CutIs
<1>9. s \in Int /\ t \in Int
  OBVIOUS
<1>10. Like(t, p, w)
  BY <1>2, <1>6, <1>8, <1>9, LikeNarrower
<1>11. PICK y \in Int, z \in Int : y = t + C /\ z = s + c
  OBVIOUS
<1>12. Like(y, x, w) /\ Like(z, x, w)
  <2>1. Like(c, c, w)
    BY Zenon, <1>2, <1>6, LikeSelf
  <2>2. Like(t + C, p + c, w) /\ Like(s + c, p + c, w)
    BY Zenon, <1>2, <1>3, <1>6, <1>8, <1>9, <1>10, <2>1, LikeTogether
  <2> QED BY Zenon, <1>4, <1>11, <2>2
<1>13. Cut(y, w) = v /\ Cut(z, w) = v
  BY Zenon, <1>2, <1>5, <1>12, CutSame
<1>14. Answer(InterpValue(ins, f), v)
  <2>1. InterpValue(ins, f) = IProduct(ins, f)
    BY DEF InterpValue
  <2>2. CASE w = Half
    BY Zenon, <1>2, <2>1, <2>2 DEF IProduct, Answer
  <2>3. CASE w # Half
    <3>1. Read(ins, 1, f) = a /\ Read(ins, 2, f) = b
      BY Zenon, <1>2, <2>3 DEF Holds
    <3>2. ins.mod # "hi"
      OBVIOUS
    <3> QED BY Zenon, <1>2, <1>3, <1>7, <1>8, <1>11, <1>13, <2>1, <2>3, <3>1, <3>2 DEF IProduct, Answer
  <2> QED BY <2>2, <2>3
<1>15. Answer(LlvmValue(ins, f), v)
  <2>1. LlvmValue(ins, f) = LProduct(ins, f)
    BY DEF LlvmValue
  <2>2. Load(ins.src[1], w, f) = a /\ Load(ins.src[2], w, f) = b
    BY Zenon, <1>2 DEF Holds
  <2> QED BY Zenon, <1>2, <1>3, <1>7, <1>8, <1>11, <1>13, <2>1, <2>2 DEF LProduct, Answer
<1>16. Answer(MlirValue(ins, f, K), v)
  <2>1. Value(ins.src[1], w, f) = a /\ Value(ins.src[2], w, f) = b
    BY Zenon, <1>2 DEF Holds
  <2>2. CASE ins.op = "mul"
    <3>1. MlirValue(ins, f, K) = MBinary(ins, f)
      BY <2>2 DEF MlirValue
    <3>2. MBinary(ins, f) = Refused \/ MBinary(ins, f) = s
      BY <1>2, <1>7, <1>8, <2>1, <2>2 DEF MBinary
    <3>3. c = 0
      BY <1>3, <2>2
    <3>4. x = p
      BY <1>4, <3>3
    <3> QED BY Zenon, <1>5, <1>8, <3>1, <3>2, <3>4 DEF Answer
  <2>3. CASE ins.op = "mad"
    <3>1. MlirValue(ins, f, K) = MMad(ins, f)
      BY <2>3 DEF MlirValue
    <3> QED BY Zenon, <1>2, <1>3, <1>7, <1>8, <1>11, <1>13, <2>1, <2>3, <3>1 DEF MMad, Answer
  <2> QED BY <2>2, <2>3
<1> QED BY Zenon, <1>2, <1>5, <1>14, <1>15, <1>16 DEF AllAnswer

LEMMA HighProduct ==
  ASSUME NEW ins, IsInstruction(ins), NEW f \in RegisterFiles, NEW K, Sized(ins, 2),
         ins.op = "mul", ins.mod = "hi", ins.ty.width = Word, Width[ins.dst] = Word
  PROVE  \E v \in Nat : AllAnswer(ins, f, K, v)
<1>1. PICK w \in Widths, a \in Nat, b \in Nat :
         /\ w = ins.ty.width /\ w \in Nat /\ w >= 1
         /\ Holds(ins, 1, f, w, a) /\ Holds(ins, 2, f, w, b)
  BY TwoSources
<1>2. w = Word /\ w # Half
  BY <1>1, WidthNumbers
<1>3. PICK x \in Int : x = (IF IsSigned(ins.ty) THEN Signed(a, w) * Signed(b, w) ELSE a * b)
  <2>1. Signed(a, w) \in Int /\ Signed(b, w) \in Int
    <3>1. a \in 0 .. Two(w) - 1 /\ b \in 0 .. Two(w) - 1
      BY Zenon, <1>1 DEF Holds
    <3> QED BY Zenon, <1>1, <3>1, SignedIs
  <2>2. Signed(a, w) * Signed(b, w) \in Int /\ a * b \in Int
    BY <2>1
  <2> QED BY Zenon, <2>2
<1>4. PICK z \in Nat \ {0} : z = Two(w)
  BY <1>1, TwoStep
<1>5. x \div z \in Int
  OBVIOUS
<1>6. PICK v \in Nat : v = Cut(x \div z, w) /\ v \in 0 .. Two(w) - 1
  BY Zenon, <1>1, <1>5, CutIs
<1>7. v = Cut(x \div 2 ^ w, w)
  BY Zenon, <1>4, <1>6 DEF Two
<1>8. Answer(InterpValue(ins, f), v)
  <2>1. InterpValue(ins, f) = IProduct(ins, f)
    BY DEF InterpValue
  <2>2. /\ Read(ins, 1, f) = a /\ Read(ins, 2, f) = b
        /\ ReadSigned(ins, 1, f) = Signed(a, w) /\ ReadSigned(ins, 2, f) = Signed(b, w)
    BY Zenon, <1>1, <1>2 DEF Holds
  <2> QED BY Zenon, <1>1, <1>2, <1>3, <1>7, <2>1, <2>2 DEF IProduct, Answer
<1>9. Answer(LlvmValue(ins, f), v)
  <2>1. LlvmValue(ins, f) = LProduct(ins, f)
    BY DEF LlvmValue
  <2>2. Load(ins.src[1], w, f) = a /\ Load(ins.src[2], w, f) = b
    BY Zenon, <1>1 DEF Holds
  <2>3. ins.mod # "lo"
    OBVIOUS
  <2> QED BY Zenon, <1>1, <1>2, <1>3, <1>7, <2>1, <2>2, <2>3 DEF LProduct, Answer
<1>10. Answer(MlirValue(ins, f, K), v)
  <2>1. MlirValue(ins, f, K) = Refused
    BY DEF MlirValue
  <2> QED BY Zenon, <2>1 DEF Answer
<1> QED BY Zenon, <1>1, <1>2, <1>6, <1>8, <1>9, <1>10 DEF AllAnswer

LEMMA WideProduct ==
  ASSUME NEW ins, IsInstruction(ins), NEW f \in RegisterFiles, NEW K, Sized(ins, 2),
         ins.op = "mul", ins.mod = "wide", ins.ty.width = Word, ins.ty.kind # "s",
         \A n \in {1, 2} : Short(ins.src[n]), Width[ins.dst] = Double
  PROVE  \E v \in Nat : AllAnswer(ins, f, K, v)
<1>1. PICK w \in Widths, a \in Nat, b \in Nat :
         /\ w = ins.ty.width /\ w \in Nat /\ w >= 1
         /\ Holds(ins, 1, f, w, a) /\ Holds(ins, 2, f, w, b)
  BY TwoSources
<1>2. w = Word /\ Double = w + w /\ Double \in Nat /\ w <= Double /\ Double <= Double
  BY <1>1, WidthNumbers
<1>3. PICK z \in Nat \ {0} : z = Two(w) /\ Two(Double) = z * z
  BY <1>1, <1>2, TwoStep, TwoSum
<1>4. a \in 0 .. Two(w) - 1 /\ b \in 0 .. Two(w) - 1
  BY Zenon, <1>1 DEF Holds
<1>5. PICK v \in Nat : v = a * b /\ v \in 0 .. Two(Double) - 1
  <2>1. a \in 0 .. z - 1 /\ b \in 0 .. z - 1
    BY <1>3, <1>4
  <2>2. (z - 1 - a) * b >= 0 /\ (z - 1 - a) * b = z * b - b - a * b
    BY <2>1
  <2>3. (z - 1 - b) * z >= 0 /\ (z - 1 - b) * z = z * z - z - z * b
    BY <2>1
  <2>4. a * b \in Nat /\ a * b <= z * z - z
    BY <2>1, <2>2, <2>3
  <2> QED BY <1>3, <2>4
<1>6. \A n \in {1, 2} : Value(ins.src[n], Double, f) = Value(ins.src[n], w, f)
  <2> SUFFICES ASSUME NEW n \in {1, 2}
               PROVE  Value(ins.src[n], Double, f) = Value(ins.src[n], w, f)
    OBVIOUS
  <2>1. CASE IsLiteral(ins.src[n])
    <3>1. PICK e \in Nat : e = ins.src[n].value /\ e \in 0 .. Ones(Word)
      BY <2>1 DEF Short
    <3>2. e \in 0 .. Two(w) - 1 /\ Two(w) <= Two(Double) /\ Two(Double) \in Nat
      <4>1. Ones(Word) = Two(w) - 1
        BY <1>1, <1>2, LowestIs
      <4> QED BY <1>1, <1>2, <3>1, <4>1, TwoGrows, TwoStep
    <3>3. e \in 0 .. Two(Double) - 1
      BY <1>3, <3>2
    <3>4. Cut(e, w) = e /\ Cut(e, Double) = e
      BY Zenon, <1>1, <1>2, <3>2, <3>3, CutSmall
    <3> QED BY Zenon, <2>1, <3>1, <3>4 DEF Value
  <2>2. CASE ~IsLiteral(ins.src[n])
    BY Zenon, <2>2 DEF Value
  <2> QED BY <2>1, <2>2
<1>7. Answer(InterpValue(ins, f), v)
  <2>1. InterpValue(ins, f) = IWideProduct(ins, f)
    BY DEF InterpValue
  <2>2. Cut(Operand(ins.src[1], f), w) = a /\ Cut(Operand(ins.src[2], f), w) = b
    BY Zenon, <1>1 DEF Holds
  <2>3. ~IsSigned(ins.ty)
    BY Zenon DEF IsSigned
  <2> QED BY Zenon, <1>1, <1>2, <1>5, <2>1, <2>2, <2>3 DEF IWideProduct, Answer
<1>8. Answer(LlvmValue(ins, f), v)
  <2>1. LlvmValue(ins, f) = LWideProduct(ins, f)
    BY DEF LlvmValue
  <2>2. Load(ins.src[1], w, f) = a /\ Load(ins.src[2], w, f) = b
    BY Zenon, <1>1 DEF Holds
  <2> QED BY Zenon, <1>1, <1>2, <1>5, <2>1, <2>2 DEF LWideProduct, Answer
<1>9. Answer(MlirValue(ins, f, K), v)
  <2>1. MlirValue(ins, f, K) = MWideProduct(ins, f)
    BY DEF MlirValue
  <2>2. Value(ins.src[1], w, f) = a /\ Value(ins.src[2], w, f) = b
    BY Zenon, <1>1 DEF Holds
  <2>3. 1 \in {1, 2} /\ 2 \in {1, 2}
    OBVIOUS
  <2>4. MWideProduct(ins, f) = Product(a, b, Double)
    BY Zenon, <1>6, <2>2, <2>3 DEF MWideProduct
  <2>5. Product(a, b, Double) = Cut(a * b, Double)
    BY <1>2, ProductIs
  <2>6. Cut(v, Double) = v
    BY <1>2, <1>5, CutSmall
  <2> QED BY Zenon, <1>5, <2>1, <2>4, <2>5, <2>6 DEF Answer
<1> QED BY Zenon, <1>1, <1>2, <1>5, <1>7, <1>8, <1>9 DEF AllAnswer

\* The number an operand stands for, with or without a sign.
Number(ins, a, w) == IF IsSigned(ins.ty) THEN Signed(a, w) ELSE a

LEMMA NumberIs ==
  ASSUME NEW ins, NEW w \in Nat, w >= 1, NEW a \in 0 .. Two(w) - 1
  PROVE  /\ Number(ins, a, w) \in Int /\ Like(Number(ins, a, w), a, w)
         /\ Cut(Number(ins, a, w), w) = a
         /\ (Number(ins, a, w) = 0 => a = 0)
         /\ (Number(ins, a, w) = -1 => IsSigned(ins.ty) /\ a = Ones(w))
<1>1. PICK t \in Nat \ {0} : t = Two(w) /\ Ones(w) = t - 1
  BY LowestIs, TwoStep
<1>2. a \in Int /\ a \in 0 .. t - 1
  BY <1>1
<1>3. Like(a, a, w) /\ Cut(a, w) = a
  BY Zenon, <1>2, LikeSelf, CutSmall
<1>4. PICK s \in Int : s = Signed(a, w) /\ s = (IF a >= Lowest(w) THEN a - t ELSE a)
        /\ Like(s, a, w) /\ Cut(s, w) = a
  BY <1>1, SignedIs
<1>5. CASE IsSigned(ins.ty)
  <2>1. Number(ins, a, w) = s
    BY Zenon, <1>4, <1>5 DEF Number
  <2>2. (s = 0 => a = 0) /\ (s = -1 => a = t - 1)
    BY <1>2, <1>4
  <2> QED BY Zenon, <1>1, <1>4, <1>5, <2>1, <2>2
<1>6. CASE ~IsSigned(ins.ty)
  <2>1. Number(ins, a, w) = a
    BY Zenon, <1>6 DEF Number
  <2>2. a # -1
    BY <1>2
  <2> QED BY Zenon, <1>2, <1>3, <2>1, <2>2
<1> QED BY Zenon, <1>5, <1>6

LEMMA QuotientIs ==
  ASSUME NEW x \in Int, NEW y \in Int, y # 0
  PROVE  /\ Quotient(x, y) \in Int /\ Remainder(x, y) \in Int
         /\ (y = -1 => Quotient(x, y) = -x /\ Remainder(x, y) = 0)
<1>1. PICK m \in Nat : m = Magnitude(x) /\ m = (IF x < 0 THEN -x ELSE x)
  <2>1. (IF x < 0 THEN -x ELSE x) \in Nat
    OBVIOUS
  <2> QED BY Zenon, <2>1 DEF Magnitude
<1>2. PICK n \in Nat \ {0} : n = Magnitude(y) /\ n = (IF y < 0 THEN -y ELSE y)
  <2>1. (IF y < 0 THEN -y ELSE y) \in Nat \ {0}
    OBVIOUS
  <2> QED BY Zenon, <2>1 DEF Magnitude
<1>3. PICK q \in Int : q = m \div n /\ (n = 1 => q = m)
  <2>1. m \div n \in Int /\ (n = 1 => m \div n = m)
    OBVIOUS
  <2> QED BY Zenon, <2>1
<1>4. Quotient(x, y) = IF (x < 0) = (y < 0) THEN q ELSE -q
  BY Zenon, <1>1, <1>2, <1>3 DEF Quotient
<1>5. PICK p \in Int : p = Quotient(x, y) /\ (y = -1 => p = -x)
  <2>1. (IF (x < 0) = (y < 0) THEN q ELSE -q) \in Int
    OBVIOUS
  <2>2. y = -1 => (IF (x < 0) = (y < 0) THEN q ELSE -q) = -x
    BY <1>1, <1>2, <1>3
  <2> QED BY Zenon, <1>4, <2>1, <2>2
<1>6. x - y * p \in Int /\ (y = -1 => x - y * p = 0)
  BY <1>5
<1> QED BY Zenon, <1>5, <1>6 DEF Remainder

LEMMA Divisions ==
  ASSUME NEW ins, IsInstruction(ins), NEW f \in RegisterFiles, NEW K, Sized(ins, 2),
         ins.op \in {"div", "rem"}, Width[ins.dst] = ins.ty.width,
         ins.ty.kind \in {"s", "u"}, ins.from = ins.ty,
         IsLiteral(ins.src[2]) => ins.src[2].form # "hex",
         ins.op = "rem" /\ IsLiteral(ins.src[2])
           => Cut(ins.src[2].value, ins.ty.width) # Ones(ins.ty.width)
  PROVE  \E v \in Nat : AllAnswer(ins, f, K, v)
<1>1. PICK w \in Widths, a \in Nat, b \in Nat :
         /\ w = ins.ty.width /\ w \in Nat /\ w >= 1
         /\ Holds(ins, 1, f, w, a) /\ Holds(ins, 2, f, w, b)
  BY TwoSources
<1>2. a \in 0 .. Two(w) - 1 /\ b \in 0 .. Two(w) - 1
  BY Zenon, <1>1 DEF Holds
<1>3. PICK x \in Int, y \in Int :
        /\ x = Number(ins, a, w) /\ Like(x, a, w) /\ Cut(x, w) = a
        /\ y = Number(ins, b, w) /\ (y = 0 => b = 0)
        /\ (y = -1 => IsSigned(ins.ty) /\ b = Ones(w))
  <2>1. Number(ins, a, w) \in Int /\ Like(Number(ins, a, w), a, w) /\ Cut(Number(ins, a, w), w) = a
    BY Zenon, <1>1, <1>2, NumberIs
  <2>2. /\ Number(ins, b, w) \in Int /\ (Number(ins, b, w) = 0 => b = 0)
        /\ (Number(ins, b, w) = -1 => IsSigned(ins.ty) /\ b = Ones(w))
    BY <1>1, <1>2, NumberIs
  <2> QED BY Zenon, <2>1, <2>2
<1>4. PICK r \in Int :
        /\ y # 0 => r = IF ins.op = "rem" THEN Remainder(x, y) ELSE Quotient(x, y)
        /\ y = -1 => r = IF ins.op = "rem" THEN 0 ELSE -x
  <2>1. CASE y = 0
    BY <2>1
  <2>2. CASE y # 0
    BY Zenon, <2>2, QuotientIs
  <2> QED BY <2>1, <2>2
<1>5. PICK l \in Nat \ {0} : l = Lowest(w) /\ Two(w) = 2 * l /\ -Lowest(w) = -l
  BY <1>1, LowestIs
<1>6. PICK n \in Int : n = IF y = 0 THEN 0 ELSE IF x = -l /\ y = -1 THEN x ELSE r
  BY <1>3
<1>7. PICK v \in Nat : v = Cut(n, w) /\ v \in 0 .. Two(w) - 1
  BY Zenon, <1>1, CutIs
<1>8. y = 0 => v = 0
  <2>1. 0 \in 0 .. Two(w) - 1
    BY <1>5
  <2>2. Cut(0, w) = 0
    BY Zenon, <1>1, <2>1, CutSmall
  <2> QED BY Zenon, <1>6, <1>7, <2>2
<1>9. v = IF y = 0 THEN 0 ELSE IF x = -Lowest(w) /\ y = -1 THEN Cut(x, w) ELSE Cut(r, w)
  BY Zenon, <1>5, <1>6, <1>7, <1>8
<1>10. Answer(InterpValue(ins, f), v)
  <2>1. InterpValue(ins, f) = IDivide(ins, f)
    BY DEF InterpValue
  <2>2. CASE w = Half
    BY Zenon, <1>1, <2>1, <2>2 DEF IDivide, Answer
  <2>3. CASE w # Half
    <3>1. /\ Read(ins, 1, f) = a /\ Read(ins, 2, f) = b
          /\ ReadSigned(ins, 1, f) = Signed(a, w) /\ ReadSigned(ins, 2, f) = Signed(b, w)
      BY Zenon, <1>1, <2>3 DEF Holds
    <3> QED BY Zenon, <1>1, <1>3, <1>4, <1>9, <2>1, <2>3, <3>1 DEF IDivide, Answer, Number
  <2> QED BY <2>2, <2>3
<1>11. Answer(LlvmValue(ins, f), v)
  <2>1. LlvmValue(ins, f) = LDivide(ins, f)
    BY DEF LlvmValue
  <2>2. Load(ins.src[1], w, f) = a /\ Load(ins.src[2], w, f) = b
    BY Zenon, <1>1 DEF Holds
  <2>3. (IF IsLiteral(ins.src[2]) THEN ReadDecimal(ins.src[2], w) ELSE f[ins.src[2].name]) = b
    BY Zenon, <1>1, <2>2 DEF Load, ReadDecimal
  <2>4. IsLiteral(ins.src[2]) /\ y = -1 => ins.op # "rem"
    <3>1. IsLiteral(ins.src[2]) => Cut(ins.src[2].value, w) = b
      BY Zenon, <2>2 DEF Load
    <3> QED BY Zenon, <1>1, <1>3, <3>1
  <2>5. y = -1 /\ ins.op # "rem" => Cut(-a, w) = v
    <3> SUFFICES ASSUME y = -1, ins.op # "rem" PROVE Cut(-a, w) = v
      OBVIOUS
    <3>1. PICK c \in Int : c = -a
      OBVIOUS
    <3>2. Like(c, -x, w) /\ -x \in Int
      <4>1. PICK k \in Int : x = a + k * Two(w)
        BY Zenon, <1>3 DEF Like
      <4>2. c = -x + k * Two(w)
        BY <1>5, <3>1, <4>1
      <4> QED BY <4>2 DEF Like
    <3>3. Like(c, n, w)
      <4>1. CASE x = -l
        <5>1. n = x
          BY <1>6, <4>1
        <5>2. -x = x + 1 * Two(w) /\ 1 \in Int
          BY <1>5, <4>1
        <5>3. Like(-x, x, w)
          BY Zenon, <5>2 DEF Like
        <5> QED BY Zenon, <1>1, <3>2, <5>1, <5>3, LikeOn
      <4>2. CASE x # -l
        <5>1. y # 0
          OBVIOUS
        <5>2. n = -x
          BY Zenon, <1>4, <1>6, <4>2, <5>1
        <5> QED BY Zenon, <3>2, <5>2
      <4> QED BY <4>1, <4>2
    <3> QED BY Zenon, <1>1, <1>7, <3>1, <3>3, CutSame
  <2>6. \/ LDivide(ins, f) = Refused
        \/ IsLiteral(ins.src[2]) /\ y = 0 /\ LDivide(ins, f) = 0
        \/ IsLiteral(ins.src[2]) /\ y = -1 /\ ins.op # "rem" /\ LDivide(ins, f) = Cut(-a, w)
        \/ LDivide(ins, f) = Undefined
        \/ y # 0 /\ ~(y = -1 /\ x = -Lowest(w)) /\ LDivide(ins, f) = Cut(r, w)
    BY Zenon, <1>1, <1>3, <1>4, <2>2, <2>3, <2>4 DEF LDivide, Number
  <2> QED BY Zenon, <1>8, <1>9, <2>1, <2>5, <2>6 DEF Answer
<1>12. Answer(MlirValue(ins, f, K), v)
  <2>1. MlirValue(ins, f, K) = MBinary(ins, f)
    BY DEF MlirValue
  <2>2. Value(ins.src[1], w, f) = a /\ Value(ins.src[2], w, f) = b
    BY Zenon, <1>1 DEF Holds
  <2>3. Unsigned(ins) <=> ~IsSigned(ins.ty)
    BY DEF Unsigned, IsSigned
  <2>4. x = (IF Unsigned(ins) THEN a ELSE Signed(a, w))
        /\ y = (IF Unsigned(ins) THEN b ELSE Signed(b, w))
    BY Zenon, <1>3, <2>3 DEF Number
  <2>5. \/ MBinary(ins, f) = Refused \/ MBinary(ins, f) = Undefined
        \/ /\ ~(b = 0 \/ (x = -Lowest(w) /\ y = -1))
           /\ MBinary(ins, f) = Cut(IF ins.op = "div" THEN Quotient(x, y) ELSE Remainder(x, y), w)
    BY <1>1, <2>2, <2>4 DEF MBinary
  <2>6. (IF ins.op = "div" THEN Quotient(x, y) ELSE Remainder(x, y))
          = (IF ins.op = "rem" THEN Remainder(x, y) ELSE Quotient(x, y))
    OBVIOUS
  <2> QED BY Zenon, <1>3, <1>4, <1>9, <2>1, <2>5, <2>6 DEF Answer
<1> QED BY Zenon, <1>1, <1>7, <1>10, <1>11, <1>12 DEF AllAnswer

LEMMA Extremes ==
  ASSUME NEW ins, IsInstruction(ins), NEW f \in RegisterFiles, NEW K, Sized(ins, 2),
         ins.op \in {"min", "max"}, Width[ins.dst] = ins.ty.width,
         ins.ty.kind \in {"s", "u"}, ins.from = ins.ty
  PROVE  \E v \in Nat : AllAnswer(ins, f, K, v)
<1>1. PICK w \in Widths, a \in Nat, b \in Nat :
         /\ w = ins.ty.width /\ w \in Nat /\ w >= 1
         /\ Holds(ins, 1, f, w, a) /\ Holds(ins, 2, f, w, b)
  BY TwoSources
<1>2. a \in 0 .. Two(w) - 1 /\ b \in 0 .. Two(w) - 1
  BY Zenon, <1>1 DEF Holds
<1>3. PICK x \in Int, y \in Int : x = Number(ins, a, w) /\ y = Number(ins, b, w)
  <2>1. Number(ins, a, w) \in Int
    BY Zenon, <1>1, <1>2, NumberIs
  <2>2. Number(ins, b, w) \in Int
    BY Zenon, <1>1, <1>2, NumberIs
  <2> QED BY Zenon, <2>1, <2>2
<1>4. PICK m \in Int : m = IF ins.op = "min" THEN Min({x, y}) ELSE Max({x, y})
  <2>1. Min({x, y}) \in Int
    <3>1. \E z \in {x, y} : \A u \in {x, y} : z <= u
      <4>1. CASE x <= y
        BY <4>1
      <4>2. CASE y <= x
        BY <4>2
      <4> QED BY <4>1, <4>2
    <3>2. Min({x, y}) \in {x, y}
      BY <3>1 DEF Min
    <3> QED BY <3>2
  <2>2. Max({x, y}) \in Int
    <3>1. \E z \in {x, y} : \A u \in {x, y} : z >= u
      <4>1. CASE x <= y
        BY <4>1
      <4>2. CASE y <= x
        BY <4>2
      <4> QED BY <4>1, <4>2
    <3>2. Max({x, y}) \in {x, y}
      BY <3>1 DEF Max
    <3> QED BY <3>2
  <2> QED BY Zenon, <2>1, <2>2
<1>5. PICK v \in Nat : v = Cut(m, w) /\ v \in 0 .. Two(w) - 1
  BY Zenon, <1>1, CutIs
<1>6. Answer(InterpValue(ins, f), v)
  <2>1. InterpValue(ins, f) = IMinMax(ins, f)
    BY DEF InterpValue
  <2>2. CASE w = Half
    BY Zenon, <1>1, <2>1, <2>2 DEF IMinMax, Answer
  <2>3. CASE w # Half
    <3>1. /\ Read(ins, 1, f) = a /\ Read(ins, 2, f) = b
          /\ ReadSigned(ins, 1, f) = Signed(a, w) /\ ReadSigned(ins, 2, f) = Signed(b, w)
      BY Zenon, <1>1, <2>3 DEF Holds
    <3> QED BY Zenon, <1>1, <1>3, <1>4, <1>5, <2>1, <2>3, <3>1 DEF IMinMax, Answer, Number
  <2> QED BY <2>2, <2>3
<1>7. Answer(LlvmValue(ins, f), v)
  <2>1. LlvmValue(ins, f) = LMinMax(ins, f)
    BY DEF LlvmValue
  <2>2. Load(ins.src[1], w, f) = a /\ Load(ins.src[2], w, f) = b
    BY Zenon, <1>1 DEF Holds
  <2> QED BY Zenon, <1>1, <1>3, <1>4, <1>5, <2>1, <2>2 DEF LMinMax, Answer, Number
<1>8. Answer(MlirValue(ins, f, K), v)
  <2>1. MlirValue(ins, f, K) = MBinary(ins, f)
    BY DEF MlirValue
  <2>2. Value(ins.src[1], w, f) = a /\ Value(ins.src[2], w, f) = b
    BY Zenon, <1>1 DEF Holds
  <2>3. Unsigned(ins) <=> ~IsSigned(ins.ty)
    BY DEF Unsigned, IsSigned
  <2>4. x = (IF Unsigned(ins) THEN a ELSE Signed(a, w))
        /\ y = (IF Unsigned(ins) THEN b ELSE Signed(b, w))
    BY Zenon, <1>3, <2>3 DEF Number
  <2>5. \/ MBinary(ins, f) = Refused
        \/ ins.op = "min" /\ MBinary(ins, f) = Cut(Min({x, y}), w)
        \/ ins.op = "max" /\ MBinary(ins, f) = Cut(Max({x, y}), w)
    BY <1>1, <2>2, <2>4 DEF MBinary
  <2>6. ins.op = "max" => ins.op # "min"
    OBVIOUS
  <2> QED BY Zenon, <1>4, <1>5, <2>1, <2>5, <2>6 DEF Answer
<1> QED BY Zenon, <1>1, <1>5, <1>6, <1>7, <1>8 DEF AllAnswer

LEMMA OneSource ==
  ASSUME NEW ins, IsInstruction(ins), NEW f \in RegisterFiles, Sized(ins, 1)
  PROVE  \E w \in Widths, a \in Nat :
           w = ins.ty.width /\ w \in Nat /\ w >= 1 /\ Holds(ins, 1, f, w, a)
<1>1. PICK w \in Widths : w = ins.ty.width /\ w \in Nat /\ w >= 1
  BY TypeWidth, WidthNumbers
<1>2. 1 \in 1 .. 1 /\ 1 \in Nat
  OBVIOUS
<1> QED BY Zenon, <1>1, <1>2, SizedSource

LEMMA LikeNegative ==
  ASSUME NEW a \in Int, NEW b \in Int, NEW w \in Nat, Like(a, b, w)
  PROVE  Like(-a, -b, w)
<1>1. PICK z \in Nat \ {0} : z = Two(w)
  BY TwoStep
<1>2. PICK k \in Int : a = b + k * z
  BY Zenon, <1>1 DEF Like
<1>3. -a = -b + (-k) * z /\ -k \in Int
  BY <1>2
<1> QED BY Zenon, <1>1, <1>3 DEF Like

LEMMA Negations ==
  ASSUME NEW ins, IsInstruction(ins), NEW f \in RegisterFiles, NEW K, Sized(ins, 1),
         ins.op = "neg", Width[ins.dst] = ins.ty.width
  PROVE  \E v \in Nat : AllAnswer(ins, f, K, v)
<1>1. PICK w \in Widths, a \in Nat :
        w = ins.ty.width /\ w \in Nat /\ w >= 1 /\ Holds(ins, 1, f, w, a)
  BY OneSource
<1>2. -a \in Int /\ a \in Int
  OBVIOUS
<1>3. PICK v \in Nat : v = Cut(-a, w) /\ v \in 0 .. Two(w) - 1
  BY Zenon, <1>1, <1>2, CutIs
<1>4. Answer(InterpValue(ins, f), v)
  <2>1. InterpValue(ins, f) = IUnary(ins, f)
    BY DEF InterpValue
  <2>2. PICK A \in Int : A = Operand(ins.src[1], f) /\ Like(A, a, w)
    BY <1>1 DEF Holds
  <2>3. Like(-A, -a, w) /\ -A \in Int
    BY <1>1, <1>2, <2>2, LikeNegative
  <2>4. Cut(-A, w) = v
    BY Zenon, <1>1, <1>2, <1>3, <2>3, CutSame
  <2>5. IUnary(ins, f) = Cut(-A, w)
    BY <1>1, <2>2 DEF IUnary
  <2> QED BY Zenon, <2>1, <2>4, <2>5 DEF Answer
<1>5. Answer(LlvmValue(ins, f), v)
  <2>1. LlvmValue(ins, f) = LUnary(ins, f)
    BY DEF LlvmValue
  <2>2. Load(ins.src[1], w, f) = a
    BY Zenon, <1>1 DEF Holds
  <2>3. LUnary(ins, f) = Refused \/ LUnary(ins, f) = Cut(-a, w)
    BY <1>1, <2>2 DEF LUnary
  <2> QED BY Zenon, <1>3, <2>1, <2>3 DEF Answer
<1>6. Answer(MlirValue(ins, f, K), v)
  <2>1. MlirValue(ins, f, K) = MUnary(ins, f)
    BY DEF MlirValue
  <2>2. Value(ins.src[1], w, f) = a
    BY Zenon, <1>1 DEF Holds
  <2>3. MUnary(ins, f) = Refused \/ MUnary(ins, f) = Cut(-a, w)
    BY <1>1, <2>2 DEF MUnary
  <2> QED BY Zenon, <1>3, <2>1, <2>3 DEF Answer
<1> QED BY Zenon, <1>1, <1>3, <1>4, <1>5, <1>6 DEF AllAnswer

LEMMA AbsoluteValues ==
  ASSUME NEW ins, IsInstruction(ins), NEW f \in RegisterFiles, NEW K, Sized(ins, 1),
         ins.op = "abs", ins.ty.kind = "s", ins.ty.width # Half,
         ~IsLiteral(ins.src[1]), Width[ins.dst] = ins.ty.width
  PROVE  \E v \in Nat : AllAnswer(ins, f, K, v)
<1>1. PICK w \in Widths, a \in Nat :
        w = ins.ty.width /\ w \in Nat /\ w >= 1 /\ Holds(ins, 1, f, w, a)
  BY OneSource
<1>2. a \in 0 .. Two(w) - 1
  BY Zenon, <1>1 DEF Holds
<1>3. PICK s \in Int : s = Signed(a, w) /\ Like(s, a, w) /\ (Negative(a, w) <=> s < 0)
        /\ (~Negative(a, w) => s = a)
  <2>1. /\ Signed(a, w) \in Int /\ Like(Signed(a, w), a, w)
        /\ (Negative(a, w) <=> Signed(a, w) < 0)
    BY <1>1, <1>2, SignedIs
  <2>2. ~Negative(a, w) => Signed(a, w) = a
    BY Zenon DEF Signed
  <2> QED BY Zenon, <2>1, <2>2
<1>4. PICK m \in Int : m = Magnitude(s) /\ m = IF s < 0 THEN -s ELSE s
  <2>1. (IF s < 0 THEN -s ELSE s) \in Int
    OBVIOUS
  <2> QED BY Zenon, <2>1 DEF Magnitude
<1>5. PICK v \in Nat : v = Cut(m, w) /\ v \in 0 .. Two(w) - 1
  BY Zenon, <1>1, CutIs
<1>6. PICK n \in Int : n = IF Negative(a, w) THEN -a ELSE a
  <2>1. -a \in Int /\ a \in Int
    OBVIOUS
  <2> QED BY Zenon, <2>1
<1>7. Cut(n, w) = v
  <2>1. CASE Negative(a, w)
    <3>1. m = -s /\ n = -a
      BY <1>3, <1>4, <1>6, <2>1
    <3>2. Like(-s, -a, w) /\ a \in Int
      BY <1>1, <1>3, LikeNegative
    <3>3. Like(m, n, w)
      BY Zenon, <3>1, <3>2
    <3> QED BY Zenon, <1>1, <1>5, <3>3, CutSame
  <2>2. CASE ~Negative(a, w)
    <3>1. m = n
      BY <1>3, <1>4, <1>6, <2>2
    <3> QED BY Zenon, <1>5, <3>1
  <2> QED BY <2>1, <2>2
<1>8. Answer(InterpValue(ins, f), v)
  <2>1. InterpValue(ins, f) = IUnary(ins, f)
    BY DEF InterpValue
  <2>2. Operand(ins.src[1], f) = a /\ Read(ins, 1, f) = a
    BY Zenon, <1>1 DEF Holds
  <2>3. IUnary(ins, f) = Cut(IF w = Word THEN Magnitude(Signed(a, Word))
                             ELSE IF Negative(a, Double) THEN -a ELSE a, w)
    BY <1>1, <2>2 DEF IUnary
  <2>4. CASE w = Word
    BY Zenon, <1>3, <1>4, <1>5, <2>1, <2>3, <2>4 DEF Answer
  <2>5. CASE w # Word
    <3>1. w = Double
      BY <1>1, <2>5 DEF Widths
    <3> QED BY Zenon, <1>6, <1>7, <2>1, <2>3, <2>5, <3>1 DEF Answer
  <2> QED BY <2>4, <2>5
<1>9. Answer(LlvmValue(ins, f), v)
  <2>1. LlvmValue(ins, f) = LUnary(ins, f)
    BY DEF LlvmValue
  <2>2. Load(ins.src[1], w, f) = a
    BY Zenon, <1>1 DEF Holds
  <2>3. LUnary(ins, f) = Refused \/ LUnary(ins, f) = Cut(Magnitude(Signed(a, w)), w)
    BY <1>1, <2>2 DEF LUnary
  <2> QED BY Zenon, <1>3, <1>4, <1>5, <2>1, <2>3 DEF Answer
<1>10. Answer(MlirValue(ins, f, K), v)
  <2>1. MlirValue(ins, f, K) = Refused
    BY DEF MlirValue
  <2> QED BY Zenon, <2>1 DEF Answer
<1> QED BY Zenon, <1>1, <1>5, <1>8, <1>9, <1>10 DEF AllAnswer

LEMMA Moves ==
  ASSUME NEW ins, IsInstruction(ins), NEW f \in RegisterFiles, NEW K, Sized(ins, 1),
         ins.op = "mov", Width[ins.dst] = ins.ty.width,
         IsLiteral(ins.src[1]) => ins.ty.width # Half
  PROVE  \E v \in Nat : AllAnswer(ins, f, K, v)
<1>1. PICK w \in Widths, v \in Nat :
        w = ins.ty.width /\ w \in Nat /\ w >= 1 /\ Holds(ins, 1, f, w, v)
  BY OneSource
<1>2. v \in 0 .. Two(w) - 1 /\ Cut(v, w) = v
  BY Zenon, <1>1 DEF Holds
<1>3. Answer(InterpValue(ins, f), v)
  <2>1. InterpValue(ins, f) = IMove(ins, f)
    BY DEF InterpValue
  <2>2. CASE w = Word
    BY Zenon, <1>1, <2>1, <2>2 DEF IMove, Holds, Answer
  <2>3. CASE w # Word
    <3>1. Operand(ins.src[1], f) = v
      <4>1. CASE IsLiteral(ins.src[1])
        <5>1. w = Double
          BY <1>1, <2>3, <4>1 DEF Widths
        <5>2. Operand(ins.src[1], f) = Load(ins.src[1], w, f)
          BY Zenon, <4>1, <5>1 DEF Operand, Load
        <5> QED BY Zenon, <1>1, <5>2 DEF Holds
      <4>2. CASE ~IsLiteral(ins.src[1])
        BY Zenon, <1>1, <4>2 DEF Holds
      <4> QED BY <4>1, <4>2
    <3> QED BY Zenon, <1>1, <2>1, <2>3, <3>1 DEF IMove, Answer
  <2> QED BY <2>2, <2>3
<1>4. Answer(LlvmValue(ins, f), v)
  <2>1. LlvmValue(ins, f) = LMove(ins, f)
    BY DEF LlvmValue
  <2>2. Load(ins.src[1], Double, f) = Operand(ins.src[1], f)
    BY Zenon DEF Load, Operand
  <2>3. Cut(Operand(ins.src[1], f), w) = v
    BY Zenon, <1>1 DEF Holds
  <2> QED BY Zenon, <1>1, <2>1, <2>2, <2>3 DEF LMove, Answer
<1>5. Answer(MlirValue(ins, f, K), v)
  <2>1. MlirValue(ins, f, K) = MMove(ins, f)
    BY DEF MlirValue
  <2> QED BY Zenon, <1>1, <2>1 DEF MMove, Holds, Answer
<1> QED BY Zenon, <1>1, <1>2, <1>3, <1>4, <1>5 DEF AllAnswer

-----------------------------------------------------------------------------
LEMMA SelectionsAgree ==
  ASSUME NEW ins, IsInstruction(ins), NEW f \in RegisterFiles, NEW K,
         ins.op \in {"selp", "slct"}, Width[ins.dst] = ins.ty.width, Len(ins.src) = 3,
         \A n \in {1, 2} : OfWidth(ins.src[n], ins.ty.width),
         ~IsLiteral(ins.src[3]), ins.src[3].name \in Registers,
         ins.op = "selp" => Width[ins.src[3].name] = 1
  PROVE  \E v \in Nat : AllAnswer(ins, f, K, v)
<1>1. PICK w \in Widths : w = ins.ty.width /\ w \in Nat
  BY TypeWidth, WidthNumbers
<1>2. PICK c \in Nat : c = f[ins.src[3].name] /\ (ins.op = "selp" => c \in {0, 1})
  <2>1. f[ins.src[3].name] \in Nat /\ f[ins.src[3].name] \in 0 .. Two(Width[ins.src[3].name]) - 1
    BY DEF RegisterFiles, Patterns, Two
  <2>2. Two(1) = 2
    <3>1. 0 \in Nat /\ 0 + 1 = 1
      OBVIOUS
    <3>2. Two(0 + 1) = 2 * Two(0)
      BY <3>1, TwoStep
    <3> QED BY <3>1, <3>2, TwoZero
  <2>3. ins.op = "selp" => f[ins.src[3].name] \in 0 .. 1
    BY <2>1, <2>2
  <2> QED BY <2>1, <2>3
<1>3. Operand(ins.src[3], f) = c /\ Load(ins.src[3], w, f) = c
  BY Zenon, <1>2 DEF Operand, Load
<1>4. PICK n \in {1, 2} : n = IF c % 2 = 1 THEN 1 ELSE 2
  OBVIOUS
<1>5. PICK v \in Nat : Holds(ins, n, f, w, v)
  <2>1. n \in 1 .. Len(ins.src) /\ OfWidth(ins.src[n], w)
    BY <1>1
  <2> QED BY <1>1, <2>1, SourceIs
<1>6. v \in 0 .. Two(w) - 1 /\ Load(ins.src[n], w, f) = v /\ Value(ins.src[n], w, f) = v
      /\ Cut(Operand(ins.src[n], f), w) = v
  BY Zenon, <1>5 DEF Holds
<1>7. Answer(InterpValue(ins, f), v)
  <2>1. InterpValue(ins, f) = ISelect(ins, f)
    BY DEF InterpValue
  <2> QED BY Zenon, <1>1, <1>3, <1>4, <1>6, <2>1 DEF ISelect, Answer
<1>8. Answer(LlvmValue(ins, f), v)
  <2>1. LlvmValue(ins, f) = LSelect(ins, f)
    BY DEF LlvmValue
  <2> QED BY Zenon, <1>1, <1>3, <1>4, <1>6, <2>1 DEF LSelect, Answer
<1>9. Answer(MlirValue(ins, f, K), v)
  <2>1. CASE ins.op = "selp"
    <3>1. MlirValue(ins, f, K) = MSelect(ins, f)
      BY <2>1 DEF MlirValue
    <3>2. n = IF f[ins.src[3].name] = 1 THEN 1 ELSE 2
      BY <1>2, <1>4, <2>1
    <3> QED BY Zenon, <1>1, <1>6, <3>1, <3>2 DEF MSelect, Answer
  <2>2. CASE ins.op = "slct"
    <3>1. MlirValue(ins, f, K) = Refused
      BY <2>2 DEF MlirValue
    <3> QED BY Zenon, <3>1 DEF Answer
  <2> QED BY <2>1, <2>2
<1> QED BY Zenon, <1>1, <1>6, <1>7, <1>8, <1>9 DEF AllAnswer

-----------------------------------------------------------------------------
\* The truth of a comparison as the content of a predicate register.
LEMMA TruthFits ==
  ASSUME NEW b
  PROVE  (IF b THEN 1 ELSE 0) \in Nat /\ (IF b THEN 1 ELSE 0) \in 0 .. Two(1) - 1
<1>1. 0 \in Nat /\ 0 + 1 = 1
  OBVIOUS
<1>2. Two(0 + 1) = 2 * Two(0)
  BY <1>1, TwoStep
<1> QED BY <1>1, <1>2, TwoZero

LEMMA Comparisons ==
  ASSUME NEW ins, IsInstruction(ins), NEW f \in RegisterFiles, NEW K, Sized(ins, 2),
         ins.op = "setp", Width[ins.dst] = 1, ins.mod \in Conditions,
         ins.ty.width # Half, ins.from = ins.ty, ~IsLiteral(ins.src[1]),
         ins.ty.kind = "b" => ins.mod \in {"eq", "ne"}
  PROVE  \E v \in Nat : AllAnswer(ins, f, K, v)
<1>1. PICK w \in Widths, a \in Nat, b \in Nat :
         /\ w = ins.ty.width /\ w \in Nat /\ w >= 1
         /\ Holds(ins, 1, f, w, a) /\ Holds(ins, 2, f, w, b)
  BY TwoSources
<1>2. a \in 0 .. Two(w) - 1 /\ b \in 0 .. Two(w) - 1
  BY Zenon, <1>1 DEF Holds
<1>3. PICK x \in Int, y \in Int : x = Number(ins, a, w) /\ y = Number(ins, b, w)
  <2>1. Number(ins, a, w) \in Int
    BY Zenon, <1>1, <1>2, NumberIs
  <2>2. Number(ins, b, w) \in Int
    BY Zenon, <1>1, <1>2, NumberIs
  <2> QED BY Zenon, <2>1, <2>2
<1>5. PICK v \in Nat : v = (IF Compare(ins.mod, x, y) THEN 1 ELSE 0) /\ v \in 0 .. Two(1) - 1
  BY TruthFits
<1>6. Answer(InterpValue(ins, f), v)
  <2>1. InterpValue(ins, f) = ISetp(ins, f)
    BY DEF InterpValue
  <2>2. /\ Read(ins, 1, f) = a /\ Read(ins, 2, f) = b
        /\ ReadSigned(ins, 1, f) = Signed(a, w) /\ ReadSigned(ins, 2, f) = Signed(b, w)
    BY Zenon, <1>1 DEF Holds
  <2> QED BY Zenon, <1>1, <1>3, <1>5, <2>1, <2>2 DEF ISetp, Answer, Number
<1>7. Answer(LlvmValue(ins, f), v)
  <2>1. LlvmValue(ins, f) = LSetp(ins, f)
    BY DEF LlvmValue
  <2>2. Load(ins.src[1], w, f) = a /\ Load(ins.src[2], w, f) = b
    BY Zenon, <1>1 DEF Holds
  <2>3. w = IF ins.ty.width = Double THEN Double ELSE Word
    BY <1>1 DEF Widths
  <2>4. (IF IsSigned(ins.ty) THEN Signed(a, w) ELSE a) = x
        /\ (IF IsSigned(ins.ty) THEN Signed(b, w) ELSE b) = y
    BY Zenon, <1>3 DEF Number
  <2>5. LSetp(ins, f) = Refused
        \/ LSetp(ins, f) = IF (CASE ins.mod = "lt" -> x < y   [] ins.mod = "gt" -> x > y
                                 [] ins.mod = "le" -> x <= y  [] ins.mod = "ge" -> x >= y
                                 [] ins.mod = "eq" -> x = y   [] OTHER -> x # y)
                           THEN 1 ELSE 0
    BY Zenon, <2>2, <2>3, <2>4 DEF LSetp
  <2>6. v = IF (CASE ins.mod = "lt" -> x < y   [] ins.mod = "gt" -> x > y
                  [] ins.mod = "le" -> x <= y  [] ins.mod = "ge" -> x >= y
                  [] ins.mod = "eq" -> x = y   [] OTHER -> x # y) THEN 1 ELSE 0
    BY <1>5 DEF Compare, Conditions
  <2> QED BY Zenon, <2>1, <2>5, <2>6 DEF Answer
<1>8. Answer(MlirValue(ins, f, K), v)
  <2>1. MlirValue(ins, f, K) = MCompare(ins, f)
    BY DEF MlirValue
  <2>2. Value(ins.src[1], w, f) = a /\ Value(ins.src[2], w, f) = b
    BY Zenon, <1>1 DEF Holds
  <2>3. Width[ins.src[1].name] = w
    BY <1>1 DEF Sized, OfWidth
  <2>4. PICK p \in Int, q \in Int :
          /\ p = (IF Unsigned(ins) THEN a ELSE Signed(a, w))
          /\ q = (IF Unsigned(ins) THEN b ELSE Signed(b, w))
    <3>1. Signed(a, w) \in Int /\ Signed(b, w) \in Int
      BY <1>1, <1>2, SignedIs
    <3>2. a \in Int /\ b \in Int
      OBVIOUS
    <3> QED BY Zenon, <3>1, <3>2
  <2>5. (IF Compare(ins.mod, p, q) THEN 1 ELSE 0) = v
    <3>1. CASE ins.ty.kind # "b"
      <4>1. Unsigned(ins) <=> ~IsSigned(ins.ty)
        BY <3>1 DEF Unsigned, IsSigned, IsInstruction, Types
      <4> QED BY Zenon, <1>3, <1>5, <2>4, <4>1 DEF Number
    <3>2. CASE ins.ty.kind = "b"
      <4>1. x = a /\ y = b /\ p = Signed(a, w) /\ q = Signed(b, w)
        <5>1. ~Unsigned(ins) /\ ~IsSigned(ins.ty)
          BY <3>2 DEF Unsigned, IsSigned
        <5> QED BY Zenon, <1>3, <2>4, <5>1 DEF Number
      <4>2. Cut(p, w) = a /\ Cut(q, w) = b
        BY <1>1, <1>2, <4>1, SignedIs
      <4>3. p = q <=> x = y
        BY Zenon, <4>1, <4>2
      <4> QED BY <1>5, <3>2, <4>3 DEF Compare
    <3> QED BY <3>1, <3>2
  <2>6. \/ MCompare(ins, f) = Refused
        \/ MCompare(ins, f) = IF Compare(ins.mod, p, q) THEN 1 ELSE 0
    <3> DEFINE Truth(t) == IF t THEN 1 ELSE 0
    <3>1. \/ MCompare(ins, f) = Refused
          \/ MCompare(ins, f) =
               CASE ins.mod = "eq" -> Truth(p = q)  [] ins.mod = "ne" -> Truth(p # q)
                 [] ins.mod = "lt" -> Truth(p < q)  [] ins.mod = "le" -> Truth(p <= q)
                 [] ins.mod = "gt" -> Truth(p > q)  [] ins.mod = "ge" -> Truth(p >= q)
                 [] OTHER -> Refused
      BY Zenon, <2>2, <2>3, <2>4 DEF MCompare
    <3> QED BY <3>1 DEF Compare, Conditions
  <2> QED BY Zenon, <1>5, <2>1, <2>5, <2>6 DEF Answer
<1> QED BY Zenon, <1>5, <1>6, <1>7, <1>8 DEF AllAnswer

LEMMA AmountIs ==
  ASSUME NEW ins, NEW f \in RegisterFiles, AmountFits(ins), NEW w \in Widths, w = ins.ty.width
  PROVE  \E n \in Nat : /\ Cut(Operand(ins.src[2], f), Word) = n /\ LAmount(ins, f) = n
                        /\ Cut(Value(ins.src[2], w, f), w) = n
<1>1. w \in Nat /\ Word \in Nat /\ Half \in Nat /\ Double \in Nat /\ Half <= w /\ Half <= Word
      /\ Half <= Double /\ (w # Half => Word <= w)
  BY WidthNumbers DEF Widths
<1>2. \A x \in Nat : Two(x) \in Nat
  BY TwoStep
<1>6. PICK m \in Nat : m = (IF w = Half THEN Half ELSE Word) /\ m >= 1
                       /\ m <= w /\ m <= Word /\ m <= Double
  <2>1. Half >= 1 /\ Word >= 1 /\ Word <= Double
    BY WidthNumbers
  <2> QED BY <1>1, <2>1
<1>3. Two(m) <= Two(w) /\ Two(m) <= Two(Word) /\ Two(m) <= Two(Double)
  BY <1>1, <1>6, TwoGrows
<1>4. CASE IsLiteral(ins.src[2])
  <2>1. PICK n \in Nat : n = ins.src[2].value /\ n \in 0 .. Two(m) - 1 /\ ins.src[2].form # "hex"
    <3>1. Ones(m) = Two(m) - 1
      BY <1>6, LowestIs
    <3>2. ins.src[2].form # "hex" /\ ins.src[2].value \in 0 .. Ones(m)
      BY Zenon, <1>4, <1>6 DEF AmountFits
    <3>3. Two(m) \in Nat
      BY <1>2
    <3> QED BY <3>1, <3>2, <3>3
  <2>2. n \in 0 .. Two(w) - 1 /\ n \in 0 .. Two(Word) - 1 /\ n \in 0 .. Two(Double) - 1
    BY <1>1, <1>2, <1>3, <2>1
  <2>3. Cut(n, w) = n /\ Cut(n, Word) = n /\ Cut(n, Double) = n
    BY <1>1, <2>2, CutSmall
  <2>4. Operand(ins.src[2], f) = n /\ Value(ins.src[2], w, f) = n
    BY Zenon, <1>4, <2>1, <2>3 DEF Operand, Value
  <2>5. LAmount(ins, f) = n
    BY Zenon, <1>4, <2>1, <2>3 DEF LAmount, ReadDecimal
  <2> QED BY Zenon, <2>3, <2>4, <2>5
<1>5. CASE ~IsLiteral(ins.src[2])
  <2>1. ins.src[2].name \in Registers /\ Width[ins.src[2].name] = Word /\ w # Half
    BY Zenon, <1>5 DEF AmountFits
  <2>2. PICK n \in Nat : n = f[ins.src[2].name] /\ n \in 0 .. Two(Word) - 1
    BY <2>1 DEF RegisterFiles, Patterns, Two
  <2>3. Two(Word) <= Two(w)
    BY <1>1, <2>1, TwoGrows
  <2>4. n \in 0 .. Two(w) - 1
    BY <1>1, <1>2, <2>2, <2>3
  <2>5. Cut(n, w) = n /\ Cut(n, Word) = n
    BY <1>1, <2>2, <2>4, CutSmall
  <2> QED BY Zenon, <1>5, <2>2, <2>5 DEF Operand, Value, LAmount
<1> QED BY <1>4, <1>5

\* A register that is shifted, as the interpreter reads it: with the bits above the type's as zeros.
LEMMA ShiftedIs ==
  ASSUME NEW ins, NEW f, NEW w \in Widths, w = ins.ty.width, NEW a \in Nat,
         Holds(ins, 1, f, w, a), ~IsLiteral(ins.src[1])
  PROVE  Read(ins, 1, f) = a
<1>1. Operand(ins.src[1], f) = a /\ a \in 0 .. Two(w) - 1
  BY Zenon DEF Holds
<1>2. PICK c \in Nat : c = CellWidth(w) /\ w <= c /\ w \in Nat
  BY WidthNumbers DEF CellWidth, Widths
<1>3. Two(w) \in Nat /\ Two(c) \in Nat /\ Two(w) <= Two(c)
  BY <1>2, TwoGrows, TwoStep
<1>4. a \in 0 .. Two(c) - 1
  BY <1>1, <1>3
<1>5. Cut(a, c) = a
  BY <1>2, <1>4, CutSmall
<1> QED BY Zenon, <1>1, <1>2, <1>5 DEF Read

\* A pattern shifted right to its sign is nothing but signs.
LEMMA SignsOnly ==
  ASSUME NEW w \in Nat, w >= 1, NEW a \in 0 .. Two(w) - 1
  PROVE  ShiftSigned(a, w - 1, w) = IF Negative(a, w) THEN Ones(w) ELSE 0
<1>1. PICK l \in Nat \ {0} : l = Lowest(w) /\ Two(w) = 2 * l /\ l = Two(w - 1)
        /\ Ones(w) = Two(w) - 1
  BY LowestIs
<1>2. PICK s \in Int : s = Signed(a, w) /\ s \in -l .. l - 1 /\ (Negative(a, w) <=> s < 0)
  BY <1>1, SignedIs
<1>3. PICK q \in Int : q = s \div l /\ q = IF Negative(a, w) THEN -1 ELSE 0
  <2>1. CASE s < 0
    <3>1. PICK k \in Int, r \in 0 .. l - 1 : k = -1 /\ s = k * l + r
      <4>1. s = (-1) * l + (s + l) /\ s + l \in 0 .. l - 1
        BY <1>2, <2>1
      <4> QED BY <4>1
    <3>2. s \div l = -1
      BY Zenon, <3>1, DividedInto
    <3> QED BY <1>2, <2>1, <3>2
  <2>2. CASE ~(s < 0)
    <3>1. PICK k \in Int, r \in 0 .. l - 1 : k = 0 /\ s = k * l + r
      <4>1. s = 0 * l + s /\ s \in 0 .. l - 1
        BY <1>2, <2>2
      <4> QED BY <4>1
    <3>2. s \div l = 0
      BY Zenon, <3>1, DividedInto
    <3> QED BY <1>2, <2>2, <3>2
  <2> QED BY <2>1, <2>2
<1>4. ShiftSigned(a, w - 1, w) = Cut(q, w)
  BY Zenon, <1>1, <1>2, <1>3 DEF ShiftSigned, Two
<1>5. Cut(q, w) = IF Negative(a, w) THEN Ones(w) ELSE 0
  <2>1. CASE Negative(a, w)
    <3>1. q = (Two(w) - 1) + (-1) * Two(w) /\ Two(w) - 1 \in 0 .. Two(w) - 1
      BY <1>1, <1>3, <2>1
    <3>2. Like(q, Two(w) - 1, w)
      BY <3>1 DEF Like
    <3> QED BY Zenon, <1>1, <2>1, <3>1, <3>2, CutLike
  <2>2. CASE ~Negative(a, w)
    <3>1. q = 0 /\ 0 \in 0 .. Two(w) - 1
      BY <1>1, <1>3, <2>2
    <3> QED BY Zenon, <2>2, <3>1, CutSmall
  <2> QED BY <2>1, <2>2
<1> QED BY Zenon, <1>4, <1>5

LEMMA Shifts ==
  ASSUME NEW ins, IsInstruction(ins), NEW f \in RegisterFiles, NEW K, Len(ins.src) = 2,
         ins.op \in {"shl", "shr"}, Width[ins.dst] = ins.ty.width,
         ~IsLiteral(ins.src[1]), OfWidth(ins.src[1], ins.ty.width), AmountFits(ins),
         ins.op = "shl" => ins.ty.kind # "s",
         ins.ty.kind = "s" => ins.ty.width # Half
  PROVE  \E v \in Nat : AllAnswer(ins, f, K, v)
<1>1. PICK w \in Widths : w = ins.ty.width /\ w \in Nat /\ w >= 1 /\ w - 1 \in Nat
  BY TypeWidth, WidthNumbers
<1>2. PICK a \in Nat : Holds(ins, 1, f, w, a)
  <2>1. 1 \in 1 .. Len(ins.src) /\ OfWidth(ins.src[1], w)
    BY <1>1
  <2> QED BY <1>1, <2>1, SourceIs
<1>3. PICK n \in Nat : /\ Cut(Operand(ins.src[2], f), Word) = n /\ LAmount(ins, f) = n
                       /\ Cut(Value(ins.src[2], w, f), w) = n
  BY <1>1, AmountIs
<1>4. a \in 0 .. Two(w) - 1 /\ Load(ins.src[1], w, f) = a /\ Value(ins.src[1], w, f) = a
  BY Zenon, <1>2 DEF Holds
<1>5. PICK z \in Nat \ {0}, t \in Nat \ {0} : z = Two(n) /\ t = Two(w)
  BY <1>1, TwoStep
<1>6. PICK s \in Int : s = Signed(a, w)
  BY <1>1, <1>4, SignedIs
<1>7. a * z \in Int /\ s \div z \in Int /\ a \div z \in Int /\ a \div z \in 0 .. t - 1
  <2>1. a \div z \in Nat /\ a \div z <= a
    OBVIOUS
  <2> QED BY <1>4, <1>5, <2>1
<1>8. ShiftLeft(a, n, w) = Cut(a * z, w) /\ ShiftSigned(a, n, w) = Cut(s \div z, w)
      /\ ShiftRight(a, n) = a \div z
  BY Zenon, <1>5, <1>6 DEF ShiftLeft, ShiftRight, ShiftSigned, Two
<1>9. 0 \in 0 .. Two(w) - 1 /\ Ones(w) \in 0 .. Two(w) - 1
  BY <1>1, <1>5, LowestIs
<1>10. ShiftSigned(a, w - 1, w) = IF Negative(a, w) THEN Ones(w) ELSE 0
  BY <1>1, <1>4, SignsOnly
<1> DEFINE u == IF n >= w
                THEN IF ins.op = "shr" /\ IsSigned(ins.ty) /\ Negative(a, w) THEN Ones(w) ELSE 0
                ELSE IF ins.op = "shl" THEN ShiftLeft(a, n, w)
                ELSE IF IsSigned(ins.ty) THEN ShiftSigned(a, n, w) ELSE ShiftRight(a, n)
<1>11. u \in 0 .. Two(w) - 1
  <2>1. Cut(a * z, w) \in 0 .. Two(w) - 1 /\ Cut(s \div z, w) \in 0 .. Two(w) - 1
    BY <1>1, <1>7, CutIs
  <2> QED BY Zenon, <1>5, <1>7, <1>8, <1>9, <2>1
<1> HIDE DEF u
<1>12. PICK v \in Nat : v = u /\ v \in 0 .. Two(w) - 1 /\ Cut(v, w) = v
  <2>1. Cut(u, w) = u
    BY <1>1, <1>11, CutSmall
  <2>2. u \in Nat
    BY <1>5, <1>11
  <2> QED BY Zenon, <1>11, <2>1, <2>2
<1>13. IsSigned(ins.ty) <=> ins.ty.kind = "s"
  BY DEF IsSigned
<1>14. Answer(InterpValue(ins, f), v)
  <2>1. InterpValue(ins, f) = IShift(ins, f)
    BY DEF InterpValue
  <2>2. Read(ins, 1, f) = a
    BY <1>1, <1>2, ShiftedIs
  <2>3. IsSigned(ins.ty) => CellWidth(w) = w
    BY <1>1, <1>13 DEF CellWidth, Widths
  <2>4. CASE ins.op = "shl"
    <3>1. IShift(ins, f) = Cut(IF n >= w THEN 0 ELSE ShiftLeft(a, n, w), w)
      BY <1>1, <1>3, <2>2, <2>4 DEF IShift
    <3>2. u = IF n >= w THEN 0 ELSE ShiftLeft(a, n, w)
      BY <2>4 DEF u
    <3> QED BY Zenon, <1>12, <2>1, <3>1, <3>2 DEF Answer
  <2>5. CASE ins.op = "shr" /\ ~IsSigned(ins.ty)
    <3>1. IShift(ins, f) = Cut(IF n >= w THEN 0 ELSE ShiftRight(a, n), w)
      BY <1>1, <1>3, <2>2, <2>5 DEF IShift
    <3>2. u = IF n >= w THEN 0 ELSE ShiftRight(a, n)
      BY <2>5 DEF u
    <3> QED BY Zenon, <1>12, <2>1, <3>1, <3>2 DEF Answer
  <2>6. CASE ins.op = "shr" /\ IsSigned(ins.ty)
    <3>1. IShift(ins, f) = Cut(IF ~(n >= w) THEN ShiftSigned(a, n, w)
                               ELSE IF Negative(a, w) THEN Ones(w) ELSE 0, w)
      BY <1>1, <1>3, <2>2, <2>3, <2>6 DEF IShift
    <3>2. u = IF ~(n >= w) THEN ShiftSigned(a, n, w)
              ELSE IF Negative(a, w) THEN Ones(w) ELSE 0
      BY <2>6 DEF u
    <3> QED BY Zenon, <1>12, <2>1, <3>1, <3>2 DEF Answer
  <2> QED BY Zenon, <2>4, <2>5, <2>6
<1>15. Answer(LlvmValue(ins, f), v)
  <2>1. LlvmValue(ins, f) = LShift(ins, f)
    BY DEF LlvmValue
  <2>2. LShift(ins, f) = Refused \/ LShift(ins, f) =
          IF n >= w THEN IF IsSigned(ins.ty) THEN ShiftSigned(a, w - 1, w) ELSE 0
          ELSE IF ins.op = "shl" THEN ShiftLeft(a, n, w)
          ELSE IF IsSigned(ins.ty) THEN ShiftSigned(a, n, w) ELSE ShiftRight(a, n)
    BY Zenon, <1>1, <1>3, <1>4 DEF LShift
  <2>3. ins.op = "shr" \/ ~IsSigned(ins.ty)
    BY <1>13
  <2> QED BY Zenon, <1>10, <1>12, <2>1, <2>2, <2>3 DEF Answer, u
<1>16. Answer(MlirValue(ins, f, K), v)
  <2>1. MlirValue(ins, f, K) = MShift(ins, f)
    BY DEF MlirValue
  <2>2. ~(n >= w) => n % w = n
    BY <1>1
  <2>3. MShift(ins, f) = Refused \/ MShift(ins, f) =
          IF n >= w THEN IF ins.op = "shr" /\ IsSigned(ins.ty) THEN ShiftSigned(a, w - 1, w) ELSE 0
          ELSE IF ins.op = "shl" THEN ShiftLeft(a, n % w, w)
          ELSE IF ins.op = "shr" /\ IsSigned(ins.ty) THEN ShiftSigned(a, n % w, w)
          ELSE ShiftRight(a, n % w)
    BY Zenon, <1>1, <1>3, <1>4 DEF MShift
  <2>4. ins.op # "shl" => ins.op = "shr"
    OBVIOUS
  <2> QED BY Zenon, <1>10, <1>12, <2>1, <2>2, <2>3, <2>4 DEF Answer, u
<1> QED BY Zenon, <1>1, <1>12, <1>14, <1>15, <1>16 DEF AllAnswer

-----------------------------------------------------------------------------

LEMMA Conversions1 ==
  ASSUME NEW ins, IsInstruction(ins), NEW f \in RegisterFiles, NEW K, Sized(ins, 1),
         ins.op = "cvt", Width[ins.dst] = ins.from.width, ~IsLiteral(ins.src[1]), Resizes(ins)
  PROVE  \E v \in Nat : AllAnswer(ins, f, K, v)
<1>1. PICK w \in Widths, a \in Nat :
        w = ins.ty.width /\ w \in Nat /\ w >= 1 /\ Holds(ins, 1, f, w, a)
  BY OneSource
<1>2. PICK d \in Widths : d = ins.from.width /\ d \in Nat
  BY TypeWidth, WidthNumbers
<1>3. /\ a \in 0 .. Two(w) - 1 /\ Cut(a, w) = a /\ Load(ins.src[1], w, f) = a
      /\ Operand(ins.src[1], f) = a /\ f[ins.src[1].name] = a
  BY Zenon, <1>1 DEF Holds
<1>4. Half < Word /\ Word < Double /\ Half \in Nat /\ Word \in Nat /\ Double \in Nat
  BY WidthNumbers
<1>5. PICK v \in Nat : v = Cut(a, d) /\ v \in 0 .. Two(d) - 1
  <2>1. a \in Int
    OBVIOUS
  <2> QED BY Zenon, <1>2, <2>1, CutIs
<1>6. w <= d => Cut(a, d) = a
  <2> SUFFICES ASSUME w <= d PROVE Cut(a, d) = a
    OBVIOUS
  <2>1. Two(w) <= Two(d) /\ Two(w) \in Nat /\ Two(d) \in Nat
    BY <1>1, <1>2, TwoGrows, TwoStep
  <2>2. a \in 0 .. Two(d) - 1
    BY <1>3, <2>1
  <2> QED BY <1>2, <2>2, CutSmall
<1>7. w < d => ins.ty.kind = "u" /\ ~(ins.from.kind = "s" /\ w = Word)
  BY <1>1, <1>2 DEF Resizes
<1>8. w \in {Half, Word, Double} /\ d \in {Half, Word, Double}
  BY DEF Widths
<1>9. Answer(InterpValue(ins, f), v)
  <2>1. InterpValue(ins, f) = IConvert(ins, f)
    BY DEF InterpValue
  <2>2. IConvert(ins, f) =
          IF d = Half THEN Cut(a, Half)
          ELSE IF w = Half
          THEN IF IsSigned(ins.ty) THEN Cut(SignExtend64(a, Half), d)
               ELSE IF d = Word THEN Cut(a, Word) ELSE Cut(a, Half)
          ELSE IF w = Double /\ d = Double THEN a
          ELSE Cut(a, Word)
    BY Zenon, <1>1, <1>2, <1>3 DEF IConvert
  <2>3. w = Half /\ d # Half => ~IsSigned(ins.ty)
    BY <1>4, <1>7, <1>8 DEF IsSigned
  <2>4. w = Half => Cut(a, Half) = a
    BY Zenon, <1>3
  <2>5. w = Word => Cut(a, Word) = a
    BY Zenon, <1>3
  <2>6. IConvert(ins, f) = Cut(a, d)
    <3>1. CASE d = Half
      BY Zenon, <2>2, <3>1
    <3>2. CASE d # Half /\ w = Half
      <4>1. Cut(a, d) = a /\ (d # Word => d = Double) /\ ~IsSigned(ins.ty)
        BY <1>4, <1>6, <1>8, <2>3, <3>2
      <4> QED BY Zenon, <2>2, <2>4, <3>2, <4>1
    <3>3. CASE d # Half /\ w # Half /\ d = Word
      BY <1>4, <2>2, <3>3
    <3>4. CASE d # Half /\ w # Half /\ d # Word
      <4>1. Cut(a, d) = a /\ d = Double /\ (w # Double => w = Word)
        BY <1>4, <1>6, <1>8, <3>4
      <4> QED BY Zenon, <2>2, <2>5, <3>4, <4>1
    <3> QED BY Zenon, <3>1, <3>2, <3>3, <3>4
  <2> QED BY Zenon, <1>5, <2>1, <2>6 DEF Answer
<1>10. Answer(LlvmValue(ins, f), v)
  <2>1. LlvmValue(ins, f) = LConvert(ins, f)
    BY DEF LlvmValue
  <2>2. CASE d = Double /\ w = Word
    <3>1. ~(w = Half /\ d > Half) /\ ~(w > d) /\ w < d /\ Cut(a, d) = a
      BY <1>4, <1>6, <2>2
    <3>2. LConvert(ins, f) = Refused
          \/ LConvert(ins, f) = IF ins.from.kind = "u" /\ ins.ty.kind = "u" THEN a
                ELSE IF ins.from.kind = "s" /\ ins.ty.kind # "b"
                THEN SignExtend(a, Word, Double) ELSE Refused
      BY <1>1, <1>2, <1>3, <2>2, <3>1 DEF LConvert
    <3>3. ins.from.kind # "s"
      BY <1>7, <2>2, <3>1
    <3> QED BY Zenon, <1>5, <2>1, <3>1, <3>2, <3>3 DEF Answer
  <2>3. CASE w = Half /\ d > Half
    <3>1. ~(d = Double /\ w = Word) /\ ~(w > d) /\ Cut(a, d) = a
      BY <1>4, <1>6, <1>8, <2>3
    <3>2. LConvert(ins, f) = Refused
          \/ LConvert(ins, f) = IF IsSigned(ins.ty) THEN SignExtend(a, Half, d) ELSE a
      BY <1>1, <1>2, <1>3, <2>3, <3>1 DEF LConvert
    <3>3. ~IsSigned(ins.ty)
      BY <1>7, <2>3 DEF IsSigned
    <3> QED BY Zenon, <1>5, <2>1, <3>1, <3>2, <3>3 DEF Answer
  <2>4. CASE ~(d = Double /\ w = Word) /\ ~(w = Half /\ d > Half)
    <3>1. LConvert(ins, f) = Refused \/ LConvert(ins, f) = Cut(a, d)
      BY <1>1, <1>2, <1>3, <2>4 DEF LConvert
    <3> QED BY Zenon, <1>5, <2>1, <3>1 DEF Answer
  <2> QED BY Zenon, <2>2, <2>3, <2>4
<1>11. Answer(MlirValue(ins, f, K), v)
  <2>1. MlirValue(ins, f, K) = MConvert(ins, f)
    BY DEF MlirValue
  <2>2. Width[ins.src[1].name] = w
    BY <1>1 DEF Sized, OfWidth
  <2>3. w < d => Unsigned(ins)
    BY <1>7 DEF Unsigned
  <2>4. MConvert(ins, f) = Cut(a, d)
    BY Zenon, <1>2, <1>3, <2>2, <2>3 DEF MConvert
  <2> QED BY Zenon, <1>5, <2>1, <2>4 DEF Answer
<1> QED BY Zenon, <1>2, <1>5, <1>9, <1>10, <1>11 DEF AllAnswer

\* What BitOfLogic says, of all numbers at once.
LEMMA LogicBits ==
  \A a, b \in Nat :
    /\ And(a, b) \in Nat /\ And(a, b) \in 0 .. Two(Double) - 1
    /\ Or(a, b) \in Nat /\ Or(a, b) \in 0 .. Two(Double) - 1
    /\ Xor(a, b) \in Nat /\ Xor(a, b) \in 0 .. Two(Double) - 1
    /\ \A n \in Nat : /\ Bit(And(a, b), n) <=> n < Double /\ Bit(a, n) /\ Bit(b, n)
                      /\ Bit(Or(a, b), n) <=> n < Double /\ (Bit(a, n) \/ Bit(b, n))
                      /\ Bit(Xor(a, b), n) <=> n < Double /\ ~(Bit(a, n) <=> Bit(b, n))
BY BitOfLogic

\* v has the bits of V below w, and no others.
LowBits(v, V, w) == \A n \in Nat : Bit(v, n) <=> n < w /\ Bit(V, n)

LEMMA LowBitsOfCut ==
  ASSUME NEW V \in Nat, NEW w \in Nat
  PROVE  LowBits(Cut(V, w), V, w)
<1>1. \A n \in Nat : Bit(Cut(V, w), n) <=> n < w /\ Bit(V, n)
  BY BitOfCut
<1> QED BY Zenon, <1>1 DEF LowBits

\* The bitwise operations on the low bits give the low bits.
Kept(c, d, A, B, w) ==
  /\ And(c, d) \in 0 .. Two(w) - 1 /\ Cut(And(A, B), w) = And(c, d)
  /\ Or(c, d) \in 0 .. Two(w) - 1 /\ Cut(Or(A, B), w) = Or(c, d)
  /\ Xor(c, d) \in 0 .. Two(w) - 1 /\ Cut(Xor(A, B), w) = Xor(c, d)

LEMMA LogicFits ==
  ASSUME NEW A \in Nat, NEW B \in Nat, NEW c \in Nat, NEW d \in Nat, NEW w \in Nat,
         w <= Double,
         LowBits(c, A, w), LowBits(d, B, w)
  PROVE  Kept(c, d, A, B, w)
<1>2. PICK x \in 0 .. Two(Double) - 1, y \in 0 .. Two(Double) - 1, z \in 0 .. Two(Double) - 1 :
        /\ x = And(c, d) /\ y = Or(c, d) /\ z = Xor(c, d)
        /\ \A n \in Nat : /\ Bit(x, n) <=> n < Double /\ Bit(c, n) /\ Bit(d, n)
                          /\ Bit(y, n) <=> n < Double /\ (Bit(c, n) \/ Bit(d, n))
                          /\ Bit(z, n) <=> n < Double /\ ~(Bit(c, n) <=> Bit(d, n))
  <2>1. /\ And(c, d) \in Nat /\ And(c, d) \in 0 .. Two(Double) - 1
        /\ Or(c, d) \in Nat /\ Or(c, d) \in 0 .. Two(Double) - 1
        /\ Xor(c, d) \in Nat /\ Xor(c, d) \in 0 .. Two(Double) - 1
        /\ \A n \in Nat : /\ Bit(And(c, d), n) <=> n < Double /\ Bit(c, n) /\ Bit(d, n)
                          /\ Bit(Or(c, d), n) <=> n < Double /\ (Bit(c, n) \/ Bit(d, n))
                          /\ Bit(Xor(c, d), n) <=> n < Double /\ ~(Bit(c, n) <=> Bit(d, n))
    BY Zenon, LogicBits
  <2> QED BY Zenon, <2>1
<1>3. PICK X \in Nat, Y \in Nat, Z \in Nat :
        /\ X = And(A, B) /\ Y = Or(A, B) /\ Z = Xor(A, B)
        /\ \A n \in Nat : /\ Bit(X, n) <=> n < Double /\ Bit(A, n) /\ Bit(B, n)
                          /\ Bit(Y, n) <=> n < Double /\ (Bit(A, n) \/ Bit(B, n))
                          /\ Bit(Z, n) <=> n < Double /\ ~(Bit(A, n) <=> Bit(B, n))
  <2>1. /\ And(A, B) \in Nat /\ And(A, B) \in 0 .. Two(Double) - 1
        /\ Or(A, B) \in Nat /\ Or(A, B) \in 0 .. Two(Double) - 1
        /\ Xor(A, B) \in Nat /\ Xor(A, B) \in 0 .. Two(Double) - 1
        /\ \A n \in Nat : /\ Bit(And(A, B), n) <=> n < Double /\ Bit(A, n) /\ Bit(B, n)
                          /\ Bit(Or(A, B), n) <=> n < Double /\ (Bit(A, n) \/ Bit(B, n))
                          /\ Bit(Xor(A, B), n) <=> n < Double /\ ~(Bit(A, n) <=> Bit(B, n))
    BY Zenon, LogicBits
  <2> QED BY Zenon, <2>1
<1>4. /\ \A n \in Nat : Bit(x, n) => n < w
      /\ \A n \in Nat : Bit(y, n) => n < w
      /\ \A n \in Nat : Bit(z, n) => n < w
  BY Zenon, <1>2 DEF LowBits
<1>5. x \in 0 .. Two(w) - 1 /\ y \in 0 .. Two(w) - 1 /\ z \in 0 .. Two(w) - 1
  BY <1>4, BitsBelow
<1>6. \A n \in 0 .. w - 1 : n \in Nat /\ n < w /\ n < Double
  BY WidthNumbers
<1>7. ASSUME NEW V \in Nat, NEW v \in 0 .. Two(w) - 1,
             \A n \in Nat : n < w /\ n < Double => (Bit(V, n) <=> Bit(v, n))
      PROVE  Cut(V, w) = v
  <2>1. PICK u \in 0 .. Two(w) - 1 : u = Cut(V, w)
    <3>1. V \in Int
      OBVIOUS
    <3> QED BY Zenon, <3>1, CutIs
  <2>2. \A n \in Nat : Bit(u, n) <=> n < w /\ Bit(V, n)
    <3>1. ASSUME NEW n \in Nat PROVE Bit(Cut(V, w), n) <=> n < w /\ Bit(V, n)
      BY BitOfCut
    <3> QED BY Zenon, <2>1, <3>1
  <2>3. \A n \in 0 .. w - 1 : Bit(u, n) <=> Bit(v, n)
    BY Zenon, <1>6, <1>7, <2>2
  <2>4. u = v
    BY <2>3, SameNumber
  <2> QED BY <2>1, <2>4
<1>8. Cut(X, w) = x /\ Cut(Y, w) = y /\ Cut(Z, w) = z
  <2>1. \A n \in Nat : n < w /\ n < Double => (Bit(X, n) <=> Bit(x, n))
    BY Zenon, <1>2, <1>3 DEF LowBits
  <2>2. \A n \in Nat : n < w /\ n < Double => (Bit(Y, n) <=> Bit(y, n))
    BY Zenon, <1>2, <1>3 DEF LowBits
  <2>3. \A n \in Nat : n < w /\ n < Double => (Bit(Z, n) <=> Bit(z, n))
    BY Zenon, <1>2, <1>3 DEF LowBits
  <2> QED BY Zenon, <1>5, <1>7, <2>1, <2>2, <2>3
<1> QED BY Zenon, <1>2, <1>3, <1>5, <1>8 DEF Kept

LEMMA Logic ==
  ASSUME NEW ins, IsInstruction(ins), NEW f \in RegisterFiles, NEW K, Sized(ins, 2),
         ins.op \in {"and", "or", "xor"}, Width[ins.dst] = ins.ty.width
  PROVE  \E v \in Nat : AllAnswer(ins, f, K, v)
<1>1. PICK w \in Widths, a \in Nat, b \in Nat :
         /\ w = ins.ty.width /\ w \in Nat /\ w >= 1
         /\ Holds(ins, 1, f, w, a) /\ Holds(ins, 2, f, w, b)
  BY TwoSources
<1>2. PICK A \in Nat, B \in Nat :
        /\ A = Operand(ins.src[1], f) /\ B = Operand(ins.src[2], f)
        /\ Cut(A, w) = a /\ Cut(B, w) = b
  BY Zenon, <1>1 DEF Holds
<1>3. /\ Load(ins.src[1], w, f) = a /\ Load(ins.src[2], w, f) = b
      /\ Value(ins.src[1], w, f) = a /\ Value(ins.src[2], w, f) = b
  BY Zenon, <1>1 DEF Holds
<1>4. w <= Double /\ LowBits(a, A, w) /\ LowBits(b, B, w)
  <2>1. w <= Double /\ w \in Nat
    BY WidthNumbers, <1>1
  <2>2. LowBits(Cut(A, w), A, w) /\ LowBits(Cut(B, w), B, w)
    BY Zenon, <2>1, LowBitsOfCut
  <2> QED BY Zenon, <1>2, <2>1, <2>2
<1>5. /\ And(a, b) \in 0 .. Two(w) - 1 /\ Cut(And(A, B), w) = And(a, b)
      /\ Or(a, b) \in 0 .. Two(w) - 1 /\ Cut(Or(A, B), w) = Or(a, b)
      /\ Xor(a, b) \in 0 .. Two(w) - 1 /\ Cut(Xor(A, B), w) = Xor(a, b)
  <2>1. w \in Nat
    BY <1>1
  <2>2. Kept(a, b, A, B, w)
    BY Zenon, <1>4, <2>1, LogicFits
  <2> QED BY Zenon, <2>2 DEF Kept
<1>6. PICK v \in 0 .. Two(w) - 1 :
        v = IF ins.op = "and" THEN And(a, b) ELSE IF ins.op = "or" THEN Or(a, b) ELSE Xor(a, b)
  BY Zenon, <1>5
<1>7. v \in Nat
  BY <1>1, TwoStep
<1>8. InterpValue(ins, f) = v
  <2>1. InterpValue(ins, f) = ILogic(ins, f)
    BY DEF InterpValue
  <2>2. ILogic(ins, f) = IF ins.op = "and" THEN Cut(And(A, B), w)
                         ELSE IF ins.op = "or" THEN Cut(Or(A, B), w) ELSE Cut(Xor(A, B), w)
    BY <1>1, <1>2 DEF ILogic
  <2> QED BY Zenon, <1>5, <1>6, <2>1, <2>2
<1>9. Answer(LlvmValue(ins, f), v)
  <2>1. LlvmValue(ins, f) = LLogic(ins, f)
    BY DEF LlvmValue
  <2>2. LLogic(ins, f) = Refused \/ LLogic(ins, f) = v
    BY <1>1, <1>3, <1>6 DEF LLogic
  <2> QED BY Zenon, <2>1, <2>2 DEF Answer
<1>10. Answer(MlirValue(ins, f, K), v)
  <2>1. MlirValue(ins, f, K) = MBinary(ins, f)
    BY DEF MlirValue
  <2>2. MBinary(ins, f) = Refused \/ MBinary(ins, f) = v
    BY <1>1, <1>3, <1>6 DEF MBinary
  <2> QED BY Zenon, <2>1, <2>2 DEF Answer
<1> QED BY Zenon, <1>1, <1>6, <1>7, <1>8, <1>9, <1>10 DEF AllAnswer, Answer

\* not: the complement on two paths, the exclusive or with ones on the third.
LEMMA NotIs ==
  ASSUME NEW w \in Nat, w <= Double, NEW a \in 0 .. Two(w) - 1
  PROVE  /\ Not(a, w) \in 0 .. Two(w) - 1 /\ Not(a, w) = Ones(w) - a
         /\ Xor(a, Ones(w)) = Not(a, w)
<1>1. a \in Nat /\ Cut(a, w) = a
  BY TwoStep, CutSmall
<1>2. PICK v \in 0 .. Two(w) - 1 : v = Not(a, w) /\ \A n \in Nat : Bit(v, n) <=> n < w /\ ~Bit(a, n)
  BY <1>1, BitOfNot
<1>3. PICK o \in Nat : o = Ones(w) /\ o \in 0 .. Two(w) - 1 /\ \A n \in Nat : Bit(o, n) <=> n < w
  <2>1. 0 \in Nat
    OBVIOUS
  <2>2. \A n \in Nat : Ones(w) \in Nat /\ Ones(w) \in 0 .. Two(w) - 1 /\ (Bit(Ones(w), n) <=> n < w)
    BY BitOfOnes
  <2> QED BY Zenon, <2>1, <2>2
<1>4. PICK x \in 0 .. Two(Double) - 1 :
        x = Xor(a, o) /\ \A n \in Nat : Bit(x, n) <=> n < Double /\ ~(Bit(a, n) <=> Bit(o, n))
  <2>1. /\ And(a, o) \in Nat /\ And(a, o) \in 0 .. Two(Double) - 1
        /\ Or(a, o) \in Nat /\ Or(a, o) \in 0 .. Two(Double) - 1
        /\ Xor(a, o) \in Nat /\ Xor(a, o) \in 0 .. Two(Double) - 1
        /\ \A n \in Nat : /\ Bit(And(a, o), n) <=> n < Double /\ Bit(a, n) /\ Bit(o, n)
                          /\ Bit(Or(a, o), n) <=> n < Double /\ (Bit(a, n) \/ Bit(o, n))
                          /\ Bit(Xor(a, o), n) <=> n < Double /\ ~(Bit(a, n) <=> Bit(o, n))
    BY Zenon, <1>1, LogicBits
  <2> QED BY Zenon, <2>1
<1>5. \A n \in Nat : Bit(a, n) => n < w
  BY <1>1, NoBitsAbove
<1>6. \A n \in Nat : Bit(x, n) => n < w
  BY Zenon, <1>3, <1>4, <1>5
<1>7. x \in 0 .. Two(w) - 1
  BY <1>6, BitsBelow
<1>8. \A n \in 0 .. w - 1 : n \in Nat /\ n < w /\ n < Double
  BY WidthNumbers
<1>9. \A n \in 0 .. w - 1 : Bit(x, n) <=> Bit(v, n)
  BY Zenon, <1>2, <1>3, <1>4, <1>8
<1>10. x = v
  BY <1>7, <1>9, SameNumber
<1> QED BY Zenon, <1>1, <1>2, <1>3, <1>4, <1>10 DEF Not

LEMMA Complements ==
  ASSUME NEW ins, IsInstruction(ins), NEW f \in RegisterFiles, NEW K, Sized(ins, 1),
         ins.op = "not", Width[ins.dst] = ins.ty.width
  PROVE  \E v \in Nat : AllAnswer(ins, f, K, v)
<1>1. PICK w \in Widths, a \in Nat :
        w = ins.ty.width /\ w \in Nat /\ w >= 1 /\ Holds(ins, 1, f, w, a)
  BY OneSource
<1>2. /\ a \in 0 .. Two(w) - 1 /\ Load(ins.src[1], w, f) = a /\ Value(ins.src[1], w, f) = a
      /\ Cut(Operand(ins.src[1], f), w) = a /\ Cut(a, w) = a
  BY Zenon, <1>1 DEF Holds
<1>3. w <= Double
  BY WidthNumbers
<1>4. PICK v \in 0 .. Two(w) - 1 : v = Not(a, w) /\ v = Ones(w) - a /\ Xor(a, Ones(w)) = v
  BY <1>1, <1>2, <1>3, NotIs
<1>5. v \in Nat
  BY <1>1, TwoStep
<1>6. InterpValue(ins, f) = v
  <2>1. InterpValue(ins, f) = ILogic(ins, f)
    BY DEF InterpValue
  <2>2. ILogic(ins, f) = Not(Operand(ins.src[1], f), w)
    BY <1>1 DEF ILogic
  <2> QED BY Zenon, <1>2, <1>4, <2>1, <2>2 DEF Not
<1>7. Answer(LlvmValue(ins, f), v)
  <2>1. LlvmValue(ins, f) = LLogic(ins, f)
    BY DEF LlvmValue
  <2>2. LLogic(ins, f) = Refused \/ LLogic(ins, f) = Not(a, w)
    BY <1>1, <1>2 DEF LLogic
  <2> QED BY Zenon, <1>4, <2>1, <2>2 DEF Answer
<1>8. Answer(MlirValue(ins, f, K), v)
  <2>1. MlirValue(ins, f, K) = MUnary(ins, f)
    BY DEF MlirValue
  <2>2. MUnary(ins, f) = Refused \/ MUnary(ins, f) = Xor(a, Ones(w))
    BY <1>1, <1>2 DEF MUnary
  <2> QED BY Zenon, <1>4, <2>1, <2>2 DEF Answer
<1> QED BY Zenon, <1>1, <1>4, <1>5, <1>6, <1>7, <1>8 DEF AllAnswer, Answer

LEMMA OnesBelow ==
  ASSUME NEW w \in Nat, w <= Double, NEW a \in 0 .. Two(w) - 1
  PROVE  /\ Ones2Bits(a) \in SUBSET (0 .. w - 1)
         /\ \A n \in 0 .. w - 1 : n \in Ones2Bits(a) <=> Bit(a, n)
<1>1. a \in Nat /\ Double \in Nat
  BY TwoStep, WidthNumbers
<1>2. Ones2Bits(a) \in SUBSET (0 .. Double - 1)
      /\ \A n \in 0 .. Double - 1 : n \in Ones2Bits(a) <=> Bit(a, n)
  BY <1>1, BitsAre
<1>3. \A n \in Nat : n >= w => ~Bit(a, n)
  BY NoBitsAbove
<1>4. \A n \in 0 .. Double - 1 : n \in Nat /\ (n >= w \/ n \in 0 .. w - 1)
  BY <1>1
<1>5. \A n \in 0 .. w - 1 : n \in 0 .. Double - 1
  BY <1>1
<1> QED BY Zenon, <1>2, <1>3, <1>4, <1>5

LEMMA PopulationFits ==
  ASSUME NEW w \in Nat, w <= Double, NEW a \in 0 .. Two(w) - 1
  PROVE  Population(a) \in Nat /\ Population(a) \in 0 .. Two(w) - 1
<1>1. PICK S \in SUBSET (0 .. w - 1) : S = Ones2Bits(a)
  BY OnesBelow
<1>2. IsFiniteSet(0 .. w - 1) /\ Cardinality(0 .. w - 1) = w
  <2>1. 0 \in Int /\ w - 1 \in Int
    OBVIOUS
  <2>2. IsFiniteSet(0 .. w - 1)
        /\ Cardinality(0 .. w - 1) = IF 0 > w - 1 THEN 0 ELSE (w - 1) - 0 + 1
    BY <2>1, FS_Interval
  <2> QED BY <2>2
<1>3. IsFiniteSet(S) /\ Cardinality(S) <= w
  BY <1>2, FS_Subset
<1>4. Cardinality(S) \in Nat
  BY <1>3, FS_CardinalityType
<1>5. w < Two(w) /\ Two(w) \in Nat
  BY TwoAbove, TwoStep
<1>6. PICK k \in Nat : k = Cardinality(S) /\ k <= w
  BY <1>3, <1>4
<1>7. Population(a) = k
  BY Zenon, <1>1, <1>6 DEF Population
<1> QED BY <1>5, <1>6, <1>7

LEMMA LeadingZerosFit ==
  ASSUME NEW w \in Nat, w <= Double, NEW a \in 0 .. Two(w) - 1
  PROVE  LeadingZeros(a, w) \in Nat /\ LeadingZeros(a, w) \in 0 .. Two(w) - 1
<1>1. w < Two(w) /\ Two(w) \in Nat /\ a \in Nat
  BY TwoAbove, TwoStep
<1>2. Cut(a, w) = a
  BY CutSmall
<1>3. LeadingZeros(a, w) = IF a = 0 THEN w ELSE w - 1 - Max(Ones2Bits(a))
  BY Zenon, <1>2 DEF LeadingZeros
<1>4. CASE a = 0
  BY <1>1, <1>3, <1>4
<1>5. CASE a # 0
  <2>1. PICK S \in SUBSET (0 .. w - 1) :
          S = Ones2Bits(a) /\ \A n \in 0 .. w - 1 : n \in S <=> Bit(a, n)
    BY OnesBelow
  <2>2. S # {}
    <3> SUFFICES ASSUME S = {} PROVE FALSE
      OBVIOUS
    <3>1. 0 \in 0 .. Two(w) - 1 /\ 0 \in 0 .. Two(0) - 1
      BY <1>1, TwoZero
    <3>2. \A n \in 0 .. w - 1 : ~Bit(0, n)
      BY <3>1, NoBitsAbove
    <3>3. \A n \in 0 .. w - 1 : Bit(a, n) <=> Bit(0, n)
      BY <2>1, <3>2
    <3>4. a = 0
      BY <3>1, <3>3, SameNumber
    <3> QED BY <1>5, <3>4
  <2>3. \E x \in S : \A y \in S : x >= y
    <3> DEFINE T == {w - n : n \in S}
    <3>1. T \in SUBSET Nat /\ T # {}
      <4>1. \A n \in S : w - n \in Nat
        <5>1. \A n \in 0 .. w - 1 : w - n \in Nat
          OBVIOUS
        <5> QED BY <5>1
      <4> QED BY Zenon, <2>2, <4>1
    <3>2. PICK t \in T : \A u \in T : t <= u
      <4> HIDE DEF T
      <4> QED BY <3>1, LeastNatural
    <3>3. PICK x \in S : t = w - x
      OBVIOUS
    <3>4. \A y \in S : w - y \in T
      OBVIOUS
    <3>5. \A y \in S : w - x <= w - y
      BY <3>2, <3>3, <3>4
    <3>6. \A y \in S : x >= y
      BY <3>5
    <3> QED BY <3>6
  <2>4. Max(S) \in S
    BY Zenon, <2>3 DEF Max
  <2>5. PICK m \in 0 .. w - 1 : m = Max(S)
    BY <2>4
  <2>6. LeadingZeros(a, w) = w - 1 - m
    BY Zenon, <1>3, <1>5, <2>1, <2>5
  <2> QED BY <1>1, <2>6
<1> QED BY <1>4, <1>5

LEMMA Counts ==
  ASSUME NEW ins, IsInstruction(ins), NEW f \in RegisterFiles, NEW K, Sized(ins, 1),
         ins.op \in {"popc", "clz", "bfind"}, ins.ty.width # Half, Width[ins.dst] = ins.ty.width
  PROVE  \E v \in Nat : AllAnswer(ins, f, K, v)
<1>1. PICK w \in Widths, a \in Nat :
        w = ins.ty.width /\ w \in Nat /\ w >= 1 /\ Holds(ins, 1, f, w, a)
  BY OneSource
<1>2. /\ a \in 0 .. Two(w) - 1 /\ Load(ins.src[1], w, f) = a /\ Value(ins.src[1], w, f) = a
      /\ Read(ins, 1, f) = a
  BY Zenon, <1>1 DEF Holds
<1>3. w <= Double
  BY WidthNumbers
<1>4. CellWidth(w) = w
  BY <1>1 DEF CellWidth, Widths
<1>5. /\ Population(a) \in Nat /\ Population(a) \in 0 .. Two(w) - 1
      /\ LeadingZeros(a, w) \in Nat /\ LeadingZeros(a, w) \in 0 .. Two(w) - 1
  BY <1>1, <1>2, <1>3, PopulationFits, LeadingZerosFit
<1>6. PICK v \in Nat : /\ v = IF ins.op = "popc" THEN Population(a) ELSE LeadingZeros(a, w)
                       /\ v \in 0 .. Two(w) - 1
  BY Zenon, <1>5
<1>7. Cut(v, w) = v
  BY <1>1, <1>6, CutSmall
<1>8. InterpValue(ins, f) = v
  <2>1. InterpValue(ins, f) = IUnary(ins, f)
    BY DEF InterpValue
  <2>2. IUnary(ins, f) = IF ins.op = "popc" THEN Population(a) ELSE Cut(LeadingZeros(a, w), w)
    <3>1. IUnary(ins, f) = IF ins.op = "popc" THEN Population(Read(ins, 1, f))
                           ELSE Cut(LeadingZeros(Read(ins, 1, f), CellWidth(ins.ty.width)), ins.ty.width)
      BY DEF IUnary
    <3> QED BY Zenon, <1>1, <1>2, <1>4, <3>1
  <2> QED BY Zenon, <1>6, <1>7, <2>1, <2>2
<1>9. Answer(LlvmValue(ins, f), v)
  <2>1. LlvmValue(ins, f) = LUnary(ins, f)
    BY DEF LlvmValue
  <2>2. LUnary(ins, f) = Refused \/ LUnary(ins, f) = v
    BY <1>1, <1>2, <1>6 DEF LUnary
  <2> QED BY Zenon, <2>1, <2>2 DEF Answer
<1>10. Answer(MlirValue(ins, f, K), v)
  <2>1. MlirValue(ins, f, K) = IF ins.op = "bfind" THEN Refused ELSE MUnary(ins, f)
    BY DEF MlirValue
  <2>2. ins.op # "bfind" => MUnary(ins, f) = Refused \/ MUnary(ins, f) = v
    BY <1>1, <1>2, <1>6 DEF MUnary
  <2> QED BY Zenon, <2>1, <2>2 DEF Answer
<1> QED BY Zenon, <1>1, <1>6, <1>8, <1>9, <1>10 DEF AllAnswer, Answer

-----------------------------------------------------------------------------
\* The exclusive or with the top bit turns it over.
LEMMA TopBit ==
  ASSUME NEW w \in Nat, w >= 1
  PROVE  Lowest(w) \in 0 .. Two(w) - 1 /\ \A n \in Nat : Bit(Lowest(w), n) <=> n = w - 1
<1>1. w - 1 \in Nat /\ 0 \in 0 .. Two(0) - 1 /\ 0 \in Nat
  BY TwoZero
<1>2. Lowest(w) = Two(w - 1) /\ Lowest(w) \in 0 .. Two(w) - 1
  BY LowestIs
<1>3. \A n \in Nat : ~Bit(0, n)
  BY <1>1, NoBitsAbove
<1>4. \A n \in Nat : Bit(0 + Two(w - 1), n) <=> (n = w - 1 \/ Bit(0, n))
  BY <1>1, <1>3, AddBit
<1>5. 0 + Two(w - 1) = Two(w - 1)
  BY <1>1, TwoStep
<1> QED BY Zenon, <1>2, <1>3, <1>4, <1>5

LEMMA LowBitsOfSelf ==
  ASSUME NEW w \in Nat, NEW a \in 0 .. Two(w) - 1
  PROVE  LowBits(a, a, w)
<1>1. \A n \in Nat : Bit(a, n) => n < w
  BY NoBitsAbove
<1> QED BY Zenon, <1>1 DEF LowBits

LEMMA TurnOver ==
  ASSUME NEW w \in Nat, w >= 1, w <= Double, NEW a \in 0 .. Two(w) - 1
  PROVE  /\ Xor(a, Lowest(w)) \in 0 .. Two(w) - 1
         /\ Xor(a, Lowest(w)) = Signed(a, w) + Lowest(w)
<1>1. PICK l \in Nat : /\ l = Lowest(w) /\ l = Two(w - 1) /\ Two(w) = 2 * l /\ l \in 0 .. Two(w) - 1
                       /\ \A n \in Nat : Bit(l, n) <=> n = w - 1
  BY LowestIs, TopBit
<1>2. a \in Nat /\ w - 1 \in Nat
  BY TwoStep
<1>3. LowBits(a, a, w) /\ LowBits(l, l, w)
  BY <1>1, LowBitsOfSelf
<1>4. Xor(a, l) \in 0 .. Two(w) - 1
  <2>1. w \in Nat /\ w <= Double
    OBVIOUS
  <2>2. Kept(a, l, a, l, w)
    BY Zenon, <1>1, <1>2, <1>3, <2>1, LogicFits
  <2> QED BY Zenon, <2>2 DEF Kept
<1>5. \A n \in Nat : Bit(Xor(a, l), n) <=> n < Double /\ ~(Bit(a, n) <=> Bit(l, n))
  BY Zenon, <1>2, LogicBits
<1>6. Signed(a, w) = IF a >= l THEN a - Two(w) ELSE a
  <2>1. Signed(a, w) = IF a >= Lowest(w) THEN a - Two(w) ELSE a
    BY SignedIs
  <2> QED BY Zenon, <1>1, <2>1
<1>7. PICK y \in 0 .. Two(w) - 1 : /\ y = IF a >= l THEN a - l ELSE a + l
                                   /\ y = Signed(a, w) + l
  BY <1>1, <1>2, <1>6
<1>8. \A n \in 0 .. w - 1 : n \in Nat /\ n < w /\ n < Double
  BY WidthNumbers
<1>9. \A n \in 0 .. w - 1 : Bit(y, n) <=> ~(Bit(a, n) <=> n = w - 1)
  <2>1. CASE ~(a >= l)
    <3>1. a \in 0 .. Two(w - 1) - 1
      BY <1>1, <1>2, <2>1
    <3>2. \A n \in Nat : Bit(a, n) => n < w - 1
      BY <1>2, <3>1, NoBitsAbove
    <3>3. ~Bit(a, w - 1)
      BY <1>2, <3>2
    <3>4. \A n \in Nat : Bit(a + Two(w - 1), n) <=> (n = w - 1 \/ Bit(a, n))
      BY <1>2, <3>3, AddBit
    <3>5. y = a + Two(w - 1)
      BY Zenon, <1>1, <1>7, <2>1
    <3> QED BY Zenon, <1>8, <3>3, <3>4, <3>5
  <2>2. CASE a >= l
    <3>1. y \in 0 .. Two(w - 1) - 1 /\ y \in Nat /\ a = y + Two(w - 1)
      BY <1>1, <1>2, <1>7, <2>2
    <3>2. \A n \in Nat : Bit(y, n) => n < w - 1
      BY <1>2, <3>1, NoBitsAbove
    <3>3. ~Bit(y, w - 1)
      BY <1>2, <3>2
    <3>4. \A n \in Nat : Bit(y + Two(w - 1), n) <=> (n = w - 1 \/ Bit(y, n))
      BY <1>2, <3>1, <3>3, AddBit
    <3> QED BY Zenon, <1>8, <3>1, <3>3, <3>4
  <2> QED BY <2>1, <2>2
<1>10. \A n \in 0 .. w - 1 : Bit(Xor(a, l), n) <=> Bit(y, n)
  BY Zenon, <1>1, <1>5, <1>8, <1>9
<1>11. Xor(a, l) = y
  BY <1>4, <1>10, SameNumber
<1> QED BY Zenon, <1>1, <1>4, <1>7, <1>11

LEMMA FloatSigns ==
  ASSUME NEW ins, IsInstruction(ins), NEW f \in RegisterFiles, NEW K, Sized(ins, 1),
         ins.op = "fneg", ins.ty.width = Word, Width[ins.dst] = Word
  PROVE  \E v \in Nat : AllAnswer(ins, f, K, v)
<1>1. PICK w \in Widths, a \in Nat :
        w = ins.ty.width /\ w \in Nat /\ w >= 1 /\ Holds(ins, 1, f, w, a)
  BY OneSource
<1>2. /\ a \in 0 .. Two(w) - 1 /\ Load(ins.src[1], w, f) = a
      /\ Cut(Operand(ins.src[1], f), w) = a
  BY Zenon, <1>1 DEF Holds
<1>3. w <= Double
  BY WidthNumbers
<1>4. PICK v \in 0 .. Two(w) - 1 : v = Xor(a, Lowest(w))
  BY <1>1, <1>2, <1>3, TurnOver
<1>5. v \in Nat
  BY <1>1, TwoStep
<1>6. InterpValue(ins, f) = v
  <2>1. InterpValue(ins, f) = IFloatSign(ins, f)
    BY DEF InterpValue
  <2>2. IFloatSign(ins, f) = Xor(Cut(Operand(ins.src[1], f), Word), Lowest(Word))
    BY DEF IFloatSign
  <2> QED BY Zenon, <1>1, <1>2, <1>4, <2>1, <2>2
<1>7. Answer(LlvmValue(ins, f), v)
  <2>1. LlvmValue(ins, f) = LFloatSign(ins, f)
    BY DEF LlvmValue
  <2>2. LFloatSign(ins, f) = Refused \/ LFloatSign(ins, f) = Xor(Load(ins.src[1], Word, f), Lowest(Word))
    BY DEF LFloatSign
  <2> QED BY Zenon, <1>1, <1>2, <1>4, <2>1, <2>2 DEF Answer
<1>8. Answer(MlirValue(ins, f, K), v)
  <2>1. MlirValue(ins, f, K) = Refused
    BY DEF MlirValue
  <2> QED BY Zenon, <2>1 DEF Answer
<1> QED BY Zenon, <1>1, <1>4, <1>5, <1>6, <1>7, <1>8 DEF AllAnswer, Answer

\* A 16-bit number widened with its sign; the MLIR front end does so unless it
\* sees a ".u".
LEMMA SignedConversions ==
  ASSUME NEW ins, IsInstruction(ins), NEW f \in RegisterFiles, NEW K, Sized(ins, 1),
         ins.op = "cvt", Width[ins.dst] = ins.from.width, ~IsLiteral(ins.src[1]),
         ins.ty.width = Half, ins.ty.kind = "s", ins.from.width # Half, ins.from.kind # "u"
  PROVE  \E v \in Nat : AllAnswer(ins, f, K, v)
<1>1. PICK w \in Widths, a \in Nat :
        w = ins.ty.width /\ w \in Nat /\ w >= 1 /\ Holds(ins, 1, f, w, a)
  BY OneSource
<1>2. PICK d \in Widths : /\ d = ins.from.width /\ d \in Nat /\ d # Half /\ w = Half
                          /\ d <= Double /\ w < d /\ w <= Double /\ Double \in Nat
  <2>1. ins.from.width \in Widths
    BY TypeWidth
  <2>2. PICK d \in Widths : d = ins.from.width
    BY <2>1
  <2>3. d \in Nat /\ d # Half /\ w = Half /\ d <= Double /\ w < d /\ w <= Double /\ Double \in Nat
    BY <1>1, <2>2, WidthNumbers DEF Widths
  <2> QED BY Zenon, <2>2, <2>3
<1>3. /\ a \in 0 .. Two(w) - 1 /\ Load(ins.src[1], w, f) = a
      /\ Operand(ins.src[1], f) = a /\ f[ins.src[1].name] = a
  BY Zenon, <1>1 DEF Holds
<1>4. PICK s \in Int : s = Signed(a, w)
  BY <1>1, <1>3, SignedIs
<1>5. PICK v \in Nat : v = Cut(s, d) /\ v \in 0 .. Two(d) - 1
  BY Zenon, <1>2, CutIs
<1>6. InterpValue(ins, f) = v
  <2>1. InterpValue(ins, f) = IConvert(ins, f)
    BY DEF InterpValue
  <2>2. IConvert(ins, f) = Cut(SignExtend64(Operand(ins.src[1], f), Half), ins.from.width)
    BY DEF IConvert, IsSigned
  <2>3. PICK x \in Int, l \in Int : x = Xor(a, Lowest(w)) /\ l = Lowest(w) /\ x = s + l
    <3>1. Xor(a, Lowest(w)) \in 0 .. Two(w) - 1 /\ Xor(a, Lowest(w)) = Signed(a, w) + Lowest(w)
      BY <1>1, <1>2, <1>3, TurnOver
    <3>2. Lowest(w) \in Int /\ Two(w) \in Nat
      BY <1>1, LowestIs, TwoStep
    <3>3. Xor(a, Lowest(w)) \in Int
      BY <3>1, <3>2
    <3> QED BY Zenon, <1>4, <3>1, <3>2, <3>3
  <2>4. x - l = s
    BY <2>3
  <2>5. SignExtend64(a, w) = Cut(s, Double)
    BY Zenon, <2>3, <2>4 DEF SignExtend64
  <2>6. Cut(Cut(s, Double), d) = Cut(s, d)
    BY <1>2, CutNarrower
  <2> QED BY Zenon, <1>2, <1>3, <1>5, <2>1, <2>2, <2>5, <2>6
<1>7. Answer(LlvmValue(ins, f), v)
  <2>1. LlvmValue(ins, f) = LConvert(ins, f)
    BY DEF LlvmValue
  <2>2. ins.from.width > Half /\ ~(Half > ins.from.width) /\ Half # Word
    BY <1>1, <1>2, WidthNumbers
  <2>3. LConvert(ins, f) = Refused \/ LConvert(ins, f) = SignExtend(Load(ins.src[1], Half, f), Half, ins.from.width)
    BY <2>2 DEF LConvert, IsSigned
  <2> QED BY Zenon, <1>1, <1>2, <1>3, <1>4, <1>5, <2>1, <2>3 DEF Answer, SignExtend
<1>8. Answer(MlirValue(ins, f, K), v)
  <2>1. MlirValue(ins, f, K) = MConvert(ins, f)
    BY DEF MlirValue
  <2>2. Width[ins.src[1].name] = w
    BY <1>1 DEF Sized, OfWidth
  <2>3. ~Unsigned(ins)
    BY DEF Unsigned
  <2>4. MConvert(ins, f) = SignExtend(f[ins.src[1].name], w, d)
    BY <1>2, <2>2, <2>3 DEF MConvert
  <2> QED BY Zenon, <1>3, <1>4, <1>5, <2>1, <2>4 DEF Answer, SignExtend
<1> QED BY Zenon, <1>2, <1>5, <1>6, <1>7, <1>8 DEF AllAnswer, Answer

\* On one bit, the bitwise operations are those of logic.
LEMMA OneBit ==
  ASSUME NEW a \in {0, 1}, NEW b \in {0, 1}
  PROVE  /\ And(a, b) = IF a = 1 /\ b = 1 THEN 1 ELSE 0
         /\ Or(a, b) = IF a = 1 \/ b = 1 THEN 1 ELSE 0
         /\ Xor(a, b) = IF a = b THEN 0 ELSE 1
<1>1. Two(0) = 1 /\ Two(1) = 2
  <2>1. Two(0 + 1) = 2 * Two(0)
    BY TwoStep
  <2> QED BY <2>1, TwoZero
<1>2. a \in 0 .. Two(1) - 1 /\ b \in 0 .. Two(1) - 1 /\ a \in Nat /\ b \in Nat /\ 1 \in Nat /\ 0 \in Nat
  BY <1>1
<1>3. 1 <= Double /\ 0 < Double
  BY WidthNumbers
<1>4. \A x \in {0, 1} : Bit(x, 0) <=> x = 1
  <2>1. ASSUME NEW x \in {0, 1} PROVE (x \div 1) % 2 = x
    OBVIOUS
  <2> QED BY Zenon, <1>1, <2>1 DEF Bit
<1>5. LowBits(a, a, 1) /\ LowBits(b, b, 1)
  BY Zenon, <1>2, LowBitsOfSelf
<1>6. And(a, b) \in {0, 1} /\ Or(a, b) \in {0, 1} /\ Xor(a, b) \in {0, 1}
  <2>1. And(a, b) \in 0 .. Two(1) - 1 /\ Or(a, b) \in 0 .. Two(1) - 1 /\ Xor(a, b) \in 0 .. Two(1) - 1
    <3>1. Kept(a, b, a, b, 1)
      BY Zenon, <1>2, <1>3, <1>5, LogicFits
    <3> QED BY Zenon, <3>1 DEF Kept
  <2>2. 0 .. Two(1) - 1 = {0, 1}
    BY <1>1
  <2> QED BY Zenon, <2>1, <2>2
<1>7. /\ Bit(And(a, b), 0) <=> Bit(a, 0) /\ Bit(b, 0)
      /\ Bit(Or(a, b), 0) <=> (Bit(a, 0) \/ Bit(b, 0))
      /\ Bit(Xor(a, b), 0) <=> ~(Bit(a, 0) <=> Bit(b, 0))
  BY Zenon, <1>2, <1>3, LogicBits
<1>8. (Bit(a, 0) <=> a = 1) /\ (Bit(b, 0) <=> b = 1)
  BY Zenon, <1>4
<1>9. PICK x \in {0, 1}, y \in {0, 1}, z \in {0, 1} : x = And(a, b) /\ y = Or(a, b) /\ z = Xor(a, b)
  BY Zenon, <1>6
<1>10. (x = 1 <=> a = 1 /\ b = 1) /\ (y = 1 <=> a = 1 \/ b = 1) /\ (z = 1 <=> ~(a = 1 <=> b = 1))
  BY Zenon, <1>4, <1>7, <1>8, <1>9
<1>11. /\ x = IF a = 1 /\ b = 1 THEN 1 ELSE 0
       /\ y = IF a = 1 \/ b = 1 THEN 1 ELSE 0
       /\ z = IF a = b THEN 0 ELSE 1
  BY <1>10
<1> QED BY Zenon, <1>9, <1>11

LEMMA Predicates ==
  ASSUME NEW ins, IsInstruction(ins), NEW f \in RegisterFiles, NEW K, IsPredicate(ins)
  PROVE  \E v \in Nat : AllAnswer(ins, f, K, v)
<1>1. \A n \in 1 .. Len(ins.src) : f[ins.src[n].name] \in {0, 1}
  <2>1. 0 .. Two(1) - 1 = {0, 1}
    <3>1. Two(0 + 1) = 2 * Two(0)
      BY TwoStep
    <3> QED BY <3>1, TwoZero
  <2>2. ASSUME NEW n \in 1 .. Len(ins.src) PROVE f[ins.src[n].name] \in 0 .. Two(1) - 1
    <3>1. ins.src[n].name \in Registers /\ Width[ins.src[n].name] = 1
      BY DEF IsPredicate
    <3> QED BY <3>1 DEF RegisterFiles, Patterns, Two
  <2> QED BY Zenon, <2>1, <2>2
<1>13. \/ ins.mod \in {"and", "or"} /\ Len(ins.src) = 2
       \/ ins.mod = "not" /\ Len(ins.src) = 1
  BY Zenon DEF IsPredicate
<1>14. PICK m, k : m = ins.mod /\ k = Len(ins.src)
  OBVIOUS
<1>15. (m \in {"and", "or"} /\ k = 2) \/ (m = "not" /\ k = 1)
  BY Zenon, <1>13, <1>14
<1>2. 1 \in 1 .. Len(ins.src) /\ (ins.mod # "not" => 2 \in 1 .. Len(ins.src))
  <2>1. 1 \in 1 .. k /\ (m # "not" => 2 \in 1 .. k)
    BY <1>15
  <2> QED BY Zenon, <1>14, <2>1
<1>3. PICK a \in {0, 1} : a = f[ins.src[1].name]
  BY <1>1, <1>2
<1>4. PICK b \in {0, 1} : ins.mod # "not" => b = f[ins.src[2].name]
  BY <1>1, <1>2
<1>5. /\ Operand(ins.src[1], f) = a
      /\ ins.mod # "not" => Operand(ins.src[2], f) = b
  <2>1. ~IsLiteral(ins.src[1]) /\ (ins.mod # "not" => ~IsLiteral(ins.src[2]))
    BY Zenon, <1>2 DEF IsPredicate
  <2> QED BY Zenon, <1>3, <1>4, <2>1 DEF Operand
<1>6. PICK v \in {0, 1} : v = IF ins.mod = "and" THEN (IF a = 1 /\ b = 1 THEN 1 ELSE 0)
                              ELSE IF ins.mod = "or" THEN (IF a = 1 \/ b = 1 THEN 1 ELSE 0)
                              ELSE (IF a = 1 THEN 0 ELSE 1)
  OBVIOUS
<1>7. And(a, b) = (IF a = 1 /\ b = 1 THEN 1 ELSE 0) /\ Or(a, b) = (IF a = 1 \/ b = 1 THEN 1 ELSE 0)
      /\ Or(And(a, b), 0) = And(a, b) /\ Or(Or(a, b), 0) = Or(a, b)
      /\ Xor(a, 1) = (IF a = 1 THEN 0 ELSE 1)
  <2>1. \A x, y \in {0, 1} : /\ And(x, y) = IF x = 1 /\ y = 1 THEN 1 ELSE 0
                             /\ Or(x, y) = IF x = 1 \/ y = 1 THEN 1 ELSE 0
                             /\ Xor(x, y) = IF x = y THEN 0 ELSE 1
    BY OneBit
  <2> QED BY <2>1
<1>8. Len(ins.src) \in Nat /\ ~(1 > Len(ins.src)) /\ 3 > Len(ins.src)
      /\ (2 > Len(ins.src) <=> ins.mod = "not")
      /\ ins.mod \in {"and", "or", "not"}
  <2>1. k \in Nat /\ ~(1 > k) /\ 3 > k /\ (2 > k <=> m = "not") /\ m \in {"and", "or", "not"}
    BY <1>15
  <2> QED BY Zenon, <1>14, <2>1
<1>9. InterpValue(ins, f) = v
  <2>1. InterpValue(ins, f) = IPredicate(ins, f)
    BY DEF InterpValue, IsPredicate
  <2>2. CASE ins.mod = "and"
    BY <1>5, <1>6, <1>8, <2>1, <2>2 DEF IPredicate
  <2>3. CASE ins.mod = "or"
    BY <1>5, <1>6, <1>8, <2>1, <2>3 DEF IPredicate
  <2>4. CASE ins.mod = "not"
    BY <1>5, <1>6, <1>8, <2>1, <2>4 DEF IPredicate
  <2> QED BY <1>8, <2>2, <2>3, <2>4
<1>10. Answer(LlvmValue(ins, f), v)
  <2>1. LlvmValue(ins, f) = LPredicate(ins, f)
    BY DEF LlvmValue, IsPredicate
  <2>2. CASE ins.mod = "and"
    <3>1. LPredicate(ins, f) = Refused \/ LPredicate(ins, f) = Or(And(a, b), 0)
      BY <1>3, <1>4, <1>8, <2>2 DEF LPredicate
    <3> QED BY Zenon, <1>6, <1>7, <2>1, <2>2, <3>1 DEF Answer
  <2>3. CASE ins.mod = "or"
    <3>1. LPredicate(ins, f) = Refused \/ LPredicate(ins, f) = Or(Or(a, b), 0)
      BY <1>3, <1>4, <1>8, <2>3 DEF LPredicate
    <3>2. ins.mod # "and"
      BY <2>3
    <3> QED BY Zenon, <1>6, <1>7, <2>1, <2>3, <3>1, <3>2 DEF Answer
  <2>4. CASE ins.mod = "not"
    <3>1. LPredicate(ins, f) = Refused \/ LPredicate(ins, f) = Xor(a, 1)
      BY <1>3, <1>4, <1>8, <2>4 DEF LPredicate
    <3>2. ins.mod # "and" /\ ins.mod # "or"
      BY <2>4
    <3> QED BY Zenon, <1>6, <1>7, <2>1, <2>4, <3>1, <3>2 DEF Answer
  <2> QED BY <1>8, <2>2, <2>3, <2>4
<1>11. Answer(MlirValue(ins, f, K), v)
  <2>1. MlirValue(ins, f, K) = MPredicate(ins, f)
    BY DEF MlirValue, IsPredicate
  <2>2. MPredicate(ins, f) = IF ins.mod = "and" THEN And(a, b) ELSE IF ins.mod = "or" THEN Or(a, b)
                             ELSE Xor(a, 1)
    BY <1>3, <1>4, <1>8 DEF MPredicate
  <2>3. MPredicate(ins, f) = v
    BY Zenon, <1>6, <1>7, <2>2
  <2> QED BY Zenon, <2>1, <2>3 DEF Answer
<1>12. v \in Nat /\ v \in 0 .. Two(1) - 1 /\ Width[ins.dst] = 1
  <2>1. Two(0 + 1) = 2 * Two(0)
    BY TwoStep
  <2>2. v \in Nat /\ v \in 0 .. Two(1) - 1
    BY <2>1, TwoZero
  <2> QED BY <2>2 DEF IsPredicate
<1> QED BY Zenon, <1>9, <1>10, <1>11, <1>12 DEF AllAnswer, Answer

\* Sums of at most four terms, as the fold takes them: one after the other is
\* removed, and what is left is summed.
Summing(h, t, D) ==
  h = [s \in SUBSET D |-> IF s = {} THEN 0 ELSE t[Taken(s)] + h[s \ {Taken(s)}]]
Total(t, s) ==
  (IF 0 \in s THEN t[0] ELSE 0) + (IF 1 \in s THEN t[1] ELSE 0)
  + (IF 2 \in s THEN t[2] ELSE 0) + (IF 3 \in s THEN t[3] ELSE 0)

LEMMA TotalIs ==
  ASSUME NEW D \in SUBSET (0 .. 3), NEW t \in [D -> Int], NEW s \in SUBSET D
  PROVE  /\ Total(t, s) \in Int /\ (s = {} => Total(t, s) = 0)
         /\ \A x \in s : Total(t, s) = t[x] + Total(t, s \ {x})
<1> DEFINE P(n, r) == IF n \in r THEN t[n] ELSE 0
<1>1. \A n \in 0 .. 3, r \in SUBSET D : P(n, r) \in Int
  <2>1. ASSUME NEW n \in 0 .. 3, NEW r \in SUBSET D PROVE P(n, r) \in Int
    <3>1. n \in r => t[n] \in Int
      OBVIOUS
    <3>2. 0 \in Int
      OBVIOUS
    <3> QED BY Zenon, <3>1, <3>2
  <2> QED BY Zenon, <2>1
<1>2. \A n \in 0 .. 3, x \in s : P(n, s \ {x}) = IF n = x THEN 0 ELSE P(n, s)
  BY Zenon
<1>3. \A x \in s : P(x, s) = t[x]
  BY Zenon
<1>4. \A n \in 0 .. 3 : s = {} => P(n, s) = 0
  BY Zenon
<1>5. \A r : Total(t, r) = P(0, r) + P(1, r) + P(2, r) + P(3, r)
  BY Zenon DEF Total
<1> HIDE DEF P
<1>6. 0 \in 0 .. 3 /\ 1 \in 0 .. 3 /\ 2 \in 0 .. 3 /\ 3 \in 0 .. 3
  OBVIOUS
<1>7. PICK a \in Int, b \in Int, c \in Int, d \in Int :
        a = P(0, s) /\ b = P(1, s) /\ c = P(2, s) /\ d = P(3, s)
  BY Zenon, <1>1, <1>6
<1>8. Total(t, s) = a + b + c + d
  BY Zenon, <1>5, <1>7
<1>9. s = {} => a = 0 /\ b = 0 /\ c = 0 /\ d = 0
  BY Zenon, <1>4, <1>6, <1>7
<1>10. ASSUME NEW x \in s PROVE Total(t, s) = t[x] + Total(t, s \ {x})
  <2>1. x \in {0, 1, 2, 3}
    <3>1. x \in 0 .. 3
      OBVIOUS
    <3> QED BY <3>1
  <2>2. /\ P(0, s \ {x}) = IF 0 = x THEN 0 ELSE a
        /\ P(1, s \ {x}) = IF 1 = x THEN 0 ELSE b
        /\ P(2, s \ {x}) = IF 2 = x THEN 0 ELSE c
        /\ P(3, s \ {x}) = IF 3 = x THEN 0 ELSE d
    BY Zenon, <1>2, <1>6, <1>7
  <2>3. t[x] = P(x, s)
    BY Zenon, <1>3
  <2>4. Total(t, s \ {x}) = (IF 0 = x THEN 0 ELSE a) + (IF 1 = x THEN 0 ELSE b)
                            + (IF 2 = x THEN 0 ELSE c) + (IF 3 = x THEN 0 ELSE d)
    BY Zenon, <1>5, <2>2
  <2>5. CASE x = 0
    <3>1. t[x] = a /\ Total(t, s \ {x}) = 0 + b + c + d
      BY <1>7, <2>3, <2>4, <2>5
    <3> QED BY <1>8, <3>1
  <2>6. CASE x = 1
    <3>1. t[x] = b /\ Total(t, s \ {x}) = a + 0 + c + d
      BY <1>7, <2>3, <2>4, <2>6
    <3> QED BY <1>8, <3>1
  <2>7. CASE x = 2
    <3>1. t[x] = c /\ Total(t, s \ {x}) = a + b + 0 + d
      BY <1>7, <2>3, <2>4, <2>7
    <3> QED BY <1>8, <3>1
  <2>8. CASE x = 3
    <3>1. t[x] = d /\ Total(t, s \ {x}) = a + b + c + 0
      BY <1>7, <2>3, <2>4, <2>8
    <3> QED BY <1>8, <3>1
  <2> QED BY <2>1, <2>5, <2>6, <2>7, <2>8
<1> QED BY <1>8, <1>9, <1>10

LEMMA TakenIs ==
  ASSUME NEW s, s # {}
  PROVE  Taken(s) \in s
BY DEF Taken

LEMMA SummingExists ==
  ASSUME NEW D \in SUBSET (0 .. 3), NEW t \in [D -> Int]
  PROVE  Summing([s \in SUBSET D |-> Total(t, s)], t, D)
<1> DEFINE g == [s \in SUBSET D |-> Total(t, s)]
<1>1. ASSUME NEW s \in SUBSET D
      PROVE  Total(t, s) = IF s = {} THEN 0 ELSE t[Taken(s)] + g[s \ {Taken(s)}]
  <2>1. CASE s = {}
    <3>1. Total(t, s) = 0
      BY <2>1, TotalIs
    <3> QED BY Zenon, <2>1, <3>1
  <2>2. CASE s # {}
    <3>1. Taken(s) \in s
      BY Zenon, <2>2, TakenIs
    <3>2. Total(t, s) = t[Taken(s)] + Total(t, s \ {Taken(s)})
      BY <3>1, TotalIs
    <3>3. g[s \ {Taken(s)}] = Total(t, s \ {Taken(s)})
      <4>1. s \ {Taken(s)} \in SUBSET D
        BY Zenon
      <4> QED BY Zenon, <4>1
    <3> QED BY Zenon, <2>2, <3>2, <3>3
  <2> QED BY Zenon, <2>1, <2>2
<1>2. g = [s \in SUBSET D |-> IF s = {} THEN 0 ELSE t[Taken(s)] + g[s \ {Taken(s)}]]
  BY Zenon, <1>1
<1> QED BY Zenon, <1>2 DEF Summing

LEMMA SummingUnique ==
  ASSUME NEW D \in SUBSET (0 .. 3), NEW t \in [D -> Int], NEW h, Summing(h, t, D)
  PROVE  h[D] = Total(t, D)
<1>1. \A s \in SUBSET D : h[s] = IF s = {} THEN 0 ELSE t[Taken(s)] + h[s \ {Taken(s)}]
  <2> DEFINE F == [s \in SUBSET D |-> IF s = {} THEN 0 ELSE t[Taken(s)] + h[s \ {Taken(s)}]]
  <2>1. \A s \in SUBSET D : F[s] = IF s = {} THEN 0 ELSE t[Taken(s)] + h[s \ {Taken(s)}]
    BY Zenon
  <2>2. h = F
    BY Zenon DEF Summing
  <2> HIDE DEF F
  <2> QED BY Zenon, <2>1, <2>2
<1>2. \A s \in SUBSET D : IsFiniteSet(s) /\ Cardinality(s) \in Nat
  <2>1. IsFiniteSet(0 .. 3)
    <3>1. PICK i \in Int, j \in Int : i = 0 /\ j = 3
      OBVIOUS
    <3>2. IsFiniteSet(i .. j)
      BY FS_Interval
    <3> QED BY <3>1, <3>2
  <2>2. ASSUME NEW s \in SUBSET D PROVE IsFiniteSet(s)
    BY <2>1, FS_Subset
  <2> QED BY <2>2, FS_CardinalityType
<1> DEFINE Bad == {k \in Nat : \E s \in SUBSET D : Cardinality(s) = k /\ h[s] # Total(t, s)}
<1>3. Bad = {}
  <2> SUFFICES ASSUME Bad # {} PROVE FALSE
    OBVIOUS
  <2>1. PICK k \in Bad : \A i \in Bad : k <= i
    <3>1. Bad \in SUBSET Nat
      OBVIOUS
    <3> HIDE DEF Bad
    <3> QED BY <3>1, LeastNatural
  <2>2. PICK s \in SUBSET D : Cardinality(s) = k /\ h[s] # Total(t, s)
    BY <2>1
  <2>3. s # {}
    <3>1. s = {} => Total(t, s) = 0
      BY TotalIs
    <3> QED BY Zenon, <1>1, <2>2, <3>1
  <2>4. PICK x \in s : x = Taken(s)
    BY Zenon, <2>3, TakenIs
  <2>5. s \ {x} \in SUBSET D
    BY Zenon
  <2>6. Cardinality(s \ {x}) \in Nat /\ Cardinality(s \ {x}) < k
    <3>1. Cardinality(s \ {x}) = Cardinality(s) - 1
      BY <1>2, FS_RemoveElement
    <3> QED BY <1>2, <2>2, <2>5, <3>1
  <2>7. h[s \ {x}] = Total(t, s \ {x})
    BY <2>1, <2>5, <2>6
  <2>8. h[s] = t[x] + h[s \ {x}]
    BY Zenon, <1>1, <2>3, <2>4
  <2>9. Total(t, s) = t[x] + Total(t, s \ {x})
    BY TotalIs
  <2> QED BY Zenon, <2>2, <2>7, <2>8, <2>9
<1> QED BY <1>2, <1>3

\* The sum of products of dp4a and dp2a, and what the three paths make of it.
DotTerm(a, b, g, first, sa, sb, n) == Group(a, n, g, sa) * Group(b, first + n, Byte, sb)
DotTerms(a, b, g, first, sa, sb, D) == [n \in D |-> DotTerm(a, b, g, first, sa, sb, n)]
DotSum(a, b, g, first, sa, sb, D) ==
  MapThenSumSet(LAMBDA n : Group(a, n, g, sa) * Group(b, first + n, Byte, sb), D)
DotChosen(a, b, g, first, sa, sb, D) ==
  CHOOSE it : it = [s \in SUBSET D |-> IF s = {} THEN 0
                      ELSE DotTerm(a, b, g, first, sa, sb, Taken(s)) + it[s \ {Taken(s)}]]

LEMMA DotSumUnfold ==
  \A a, b, g, first, sa, sb, D :
    DotSum(a, b, g, first, sa, sb, D) = DotChosen(a, b, g, first, sa, sb, D)[D]
BY Zenon DEF DotSum, MapThenSumSet, MapThenFoldSet, DotChosen, DotTerm, Taken

LEMMA GroupIs ==
  ASSUME NEW v \in Nat, NEW n \in Nat, NEW g \in Nat, g >= 1, NEW sg \in BOOLEAN
  PROVE  Group(v, n, g, sg) \in Int
<1>1. PICK k \in Nat : k = n * g
  OBVIOUS
<1>2. PICK z \in Nat \ {0} : z = Two(k)
  BY TwoStep
<1>3. PICK q \in Int : q = v \div z
  OBVIOUS
<1>4. PICK x \in 0 .. Two(g) - 1 : x = Cut(q, g)
  BY CutIs
<1>5. Signed(x, g) \in Int /\ x \in Int
  BY <1>4, SignedIs, TwoStep
<1>6. Group(v, n, g, sg) = IF sg THEN Signed(x, g) ELSE x
  BY Zenon, <1>1, <1>2, <1>3, <1>4 DEF Group, Two
<1> QED BY Zenon, <1>5, <1>6

LEMMA DotTermsAre ==
  ASSUME NEW a \in Nat, NEW b \in Nat, NEW g \in Nat, g >= 1, NEW first \in Nat,
         NEW sa \in BOOLEAN, NEW sb \in BOOLEAN, NEW D \in SUBSET (0 .. 3)
  PROVE  /\ DotTerms(a, b, g, first, sa, sb, D) \in [D -> Int]
         /\ \A n \in D : DotTerms(a, b, g, first, sa, sb, D)[n] = DotTerm(a, b, g, first, sa, sb, n)
<1>1. \A n \in D : DotTerm(a, b, g, first, sa, sb, n) \in Int
  <2>1. ASSUME NEW n \in D PROVE DotTerm(a, b, g, first, sa, sb, n) \in Int
    <3>1. n \in Nat /\ first + n \in Nat /\ Byte \in Nat /\ Byte >= 1
      BY WidthNumbers
    <3>2. Group(a, n, g, sa) \in Int /\ Group(b, first + n, Byte, sb) \in Int
      BY <3>1, GroupIs
    <3>3. \A x, y \in Int : x * y \in Int
      OBVIOUS
    <3> QED BY Zenon, <3>2, <3>3 DEF DotTerm
  <2> QED BY <2>1
<1> QED BY Zenon, <1>1 DEF DotTerms

LEMMA DotSumIs ==
  ASSUME NEW a \in Nat, NEW b \in Nat, NEW g \in Nat, g >= 1, NEW first \in Nat,
         NEW sa \in BOOLEAN, NEW sb \in BOOLEAN, NEW D \in SUBSET (0 .. 3)
  PROVE  /\ DotSum(a, b, g, first, sa, sb, D) \in Int
         /\ DotSum(a, b, g, first, sa, sb, D) = Total(DotTerms(a, b, g, first, sa, sb, D), D)
<1> DEFINE t == DotTerms(a, b, g, first, sa, sb, D)
           T(n) == DotTerm(a, b, g, first, sa, sb, n)
           F(it) == [s \in SUBSET D |-> IF s = {} THEN 0 ELSE T(Taken(s)) + it[s \ {Taken(s)}]]
           k == [s \in SUBSET D |-> Total(t, s)]
<1>2. t \in [D -> Int] /\ \A n \in D : t[n] = T(n)
  BY DotTermsAre
<1> HIDE DEF t, T
<1>3. \A s \in SUBSET D : s # {} => Taken(s) \in D
  BY Zenon, TakenIs
<1>4. Summing(k, t, D)
  BY <1>2, SummingExists
<1>5. k = F(k)
  <2>1. k = [s \in SUBSET D |-> IF s = {} THEN 0 ELSE t[Taken(s)] + k[s \ {Taken(s)}]]
    BY Zenon, <1>4 DEF Summing
  <2> HIDE DEF k
  <2>2. \A s \in SUBSET D : (IF s = {} THEN 0 ELSE t[Taken(s)] + k[s \ {Taken(s)}])
                            = (IF s = {} THEN 0 ELSE T(Taken(s)) + k[s \ {Taken(s)}])
    BY Zenon, <1>2, <1>3
  <2>3. [s \in SUBSET D |-> IF s = {} THEN 0 ELSE t[Taken(s)] + k[s \ {Taken(s)}]] = F(k)
    BY Zenon, <2>2
  <2> QED BY Zenon, <2>1, <2>3
<1>6. PICK h : h = DotChosen(a, b, g, first, sa, sb, D)
  OBVIOUS
<1>7. h = F(h)
  BY Zenon, <1>5, <1>6 DEF DotChosen, T
<1>8. Summing(h, t, D)
  <2>1. \A s \in SUBSET D : (IF s = {} THEN 0 ELSE t[Taken(s)] + h[s \ {Taken(s)}])
                            = (IF s = {} THEN 0 ELSE T(Taken(s)) + h[s \ {Taken(s)}])
    BY Zenon, <1>2, <1>3
  <2>2. [s \in SUBSET D |-> IF s = {} THEN 0 ELSE t[Taken(s)] + h[s \ {Taken(s)}]] = F(h)
    BY Zenon, <2>1
  <2> QED BY Zenon, <1>7, <2>2 DEF Summing
<1>9. h[D] = Total(t, D) /\ Total(t, D) \in Int
  BY <1>2, <1>8, SummingUnique, TotalIs
<1> QED BY Zenon, <1>6, <1>9, DotSumUnfold DEF t

\* The sum as the MLIR front end writes it.
LaneSum(a, b, sa, sb) ==
  MapThenSumSet(LAMBDA n : Group(a, n, Byte, sa) * Group(b, n, Byte, sb), 0 .. 3)
LaneChosen(a, b, sa, sb) ==
  CHOOSE it : it = [s \in SUBSET (0 .. 3) |-> IF s = {} THEN 0
                      ELSE Group(a, Taken(s), Byte, sa) * Group(b, Taken(s), Byte, sb)
                           + it[s \ {Taken(s)}]]

LEMMA LaneSumUnfold ==
  \A a, b, sa, sb : LaneSum(a, b, sa, sb) = LaneChosen(a, b, sa, sb)[0 .. 3]
BY Zenon DEF LaneSum, MapThenSumSet, MapThenFoldSet, LaneChosen, Taken

LEMMA LaneSumIs ==
  ASSUME NEW a \in Nat, NEW b \in Nat, NEW sa \in BOOLEAN, NEW sb \in BOOLEAN
  PROVE  LaneSum(a, b, sa, sb) = DotSum(a, b, Byte, 0, sa, sb, 0 .. 3)
<1> DEFINE D == 0 .. 3
           t == DotTerms(a, b, Byte, 0, sa, sb, D)
           T(n) == Group(a, n, Byte, sa) * Group(b, n, Byte, sb)
           F(it) == [s \in SUBSET D |-> IF s = {} THEN 0 ELSE T(Taken(s)) + it[s \ {Taken(s)}]]
           k == [s \in SUBSET D |-> Total(t, s)]
<1>1. Byte \in Nat /\ Byte >= 1 /\ 0 \in Nat /\ D \in SUBSET (0 .. 3)
  BY WidthNumbers
<1>2. t \in [D -> Int] /\ \A n \in D : t[n] = T(n)
  <2>1. t \in [D -> Int] /\ \A n \in D : t[n] = DotTerm(a, b, Byte, 0, sa, sb, n)
    BY <1>1, DotTermsAre
  <2>2. ASSUME NEW n \in D PROVE DotTerm(a, b, Byte, 0, sa, sb, n) = T(n)
    <3>1. 0 + n = n
      OBVIOUS
    <3> QED BY Zenon, <3>1 DEF DotTerm
  <2> QED BY Zenon, <2>1, <2>2
<1>10. DotSum(a, b, Byte, 0, sa, sb, D) = Total(t, D)
  BY <1>1, DotSumIs
<1> HIDE DEF t, T, D
<1>11. D \in SUBSET (0 .. 3)
  BY <1>1
<1>3. \A s \in SUBSET D : s # {} => Taken(s) \in D
  BY Zenon, TakenIs
<1>4. Summing(k, t, D)
  BY <1>2, <1>11, SummingExists
<1>5. k = F(k)
  <2>1. k = [s \in SUBSET D |-> IF s = {} THEN 0 ELSE t[Taken(s)] + k[s \ {Taken(s)}]]
    BY Zenon, <1>4 DEF Summing
  <2> HIDE DEF k
  <2>2. \A s \in SUBSET D : (IF s = {} THEN 0 ELSE t[Taken(s)] + k[s \ {Taken(s)}])
                            = (IF s = {} THEN 0 ELSE T(Taken(s)) + k[s \ {Taken(s)}])
    BY Zenon, <1>2, <1>3
  <2>3. [s \in SUBSET D |-> IF s = {} THEN 0 ELSE t[Taken(s)] + k[s \ {Taken(s)}]] = F(k)
    BY Zenon, <2>2
  <2> QED BY Zenon, <2>1, <2>3
<1>6. PICK h : h = LaneChosen(a, b, sa, sb)
  OBVIOUS
<1>7. h = F(h)
  BY Zenon, <1>5, <1>6 DEF LaneChosen, T, D
<1>8. Summing(h, t, D)
  <2>1. \A s \in SUBSET D : (IF s = {} THEN 0 ELSE t[Taken(s)] + h[s \ {Taken(s)}])
                            = (IF s = {} THEN 0 ELSE T(Taken(s)) + h[s \ {Taken(s)}])
    BY Zenon, <1>2, <1>3
  <2>2. [s \in SUBSET D |-> IF s = {} THEN 0 ELSE t[Taken(s)] + h[s \ {Taken(s)}]] = F(h)
    BY Zenon, <2>1
  <2> QED BY Zenon, <1>7, <2>2 DEF Summing
<1>9. h[D] = Total(t, D) /\ Total(t, D) \in Int
  BY <1>2, <1>8, <1>11, SummingUnique, TotalIs
<1> QED BY Zenon, <1>6, <1>9, <1>10, LaneSumUnfold DEF D

LEMMA Dots ==
  ASSUME NEW ins, IsInstruction(ins), NEW f \in RegisterFiles, NEW K, IsDot(ins)
  PROVE  \E v \in Nat : AllAnswer(ins, f, K, v)
<1>1. /\ ins.op \in {"dp4a", "dp2a"} /\ Width[ins.dst] = Word /\ ins.ty.width = Word
      /\ Sized(ins, 3) /\ Word \in Widths /\ Word \in Nat /\ Word >= 1
  BY WidthNumbers DEF IsDot, Widths
<1>2. \A n \in 1 .. 3 : ~IsLiteral(ins.src[n])
  BY Zenon DEF IsDot
<1>3. 1 \in 1 .. 3 /\ 2 \in 1 .. 3 /\ 3 \in 1 .. 3 /\ 3 \in Nat
  OBVIOUS
<1>4. PICK a \in Nat, b \in Nat, c \in Nat :
        Holds(ins, 1, f, Word, a) /\ Holds(ins, 2, f, Word, b) /\ Holds(ins, 3, f, Word, c)
  <2>1. \A n \in 1 .. 3 : \E v \in Nat : Holds(ins, n, f, ins.ty.width, v)
    BY <1>1, SizedSource
  <2> QED BY Zenon, <1>1, <1>3, <2>1
<1>5. /\ Operand(ins.src[1], f) = a /\ Operand(ins.src[2], f) = b /\ Operand(ins.src[3], f) = c
      /\ LoadWide(ins.src[1], f) = a /\ LoadWide(ins.src[2], f) = b /\ LoadWide(ins.src[3], f) = c
      /\ Value(ins.src[1], Word, f) = a /\ Value(ins.src[2], Word, f) = b
      /\ Value(ins.src[3], Word, f) = c
      /\ c \in 0 .. Two(Word) - 1
  BY Zenon, <1>2, <1>3, <1>4 DEF Holds, LoadWide
<1> DEFINE wide == ins.op = "dp4a"
           first == IF wide \/ ins.mod = "lo" THEN 0 ELSE 2
           g == IF wide THEN Byte ELSE Half
           D == 0 .. (IF wide THEN 3 ELSE 1)
           sum == DotSum(a, b, g, first, IsSigned(ins.from), IsSigned(ins.ty), D)
<1>6. sum \in Int
  <2>1. g \in Nat /\ g >= 1 /\ first \in Nat /\ D \in SUBSET (0 .. 3)
    BY WidthNumbers
  <2>2. IsSigned(ins.from) \in BOOLEAN /\ IsSigned(ins.ty) \in BOOLEAN
    BY DEF IsSigned
  <2> HIDE DEF g, first, D
  <2> QED BY <2>1, <2>2, DotSumIs
<1>7. PICK v \in Nat : v = Cut(c + sum, Word) /\ v \in 0 .. Two(Word) - 1
  <2>1. c + sum \in Int
    BY <1>6
  <2> QED BY Zenon, <1>1, <2>1, CutIs
<1>8. InterpValue(ins, f) = v
  <2>1. InterpValue(ins, f) = IDot(ins, f)
    BY <1>1 DEF InterpValue
  <2>2. IDot(ins, f) = Cut(Operand(ins.src[3], f)
                           + DotSum(Operand(ins.src[1], f), Operand(ins.src[2], f), g, first,
                                    IsSigned(ins.from), IsSigned(ins.ty), D), Word)
    BY Zenon DEF IDot, DotSum
  <2> QED BY Zenon, <1>5, <1>7, <2>1, <2>2
<1>9. Answer(LlvmValue(ins, f), v)
  <2>1. LlvmValue(ins, f) = LDot(ins, f)
    BY <1>1 DEF LlvmValue
  <2>2. \/ LDot(ins, f) = Refused
        \/ LDot(ins, f) = Cut(LoadWide(ins.src[3], f)
                              + DotSum(LoadWide(ins.src[1], f), LoadWide(ins.src[2], f), g, first,
                                       IsSigned(ins.from), IsSigned(ins.ty), D), Word)
    BY Zenon DEF LDot, DotSum
  <2> QED BY Zenon, <1>5, <1>7, <2>1, <2>2 DEF Answer
<1>10. Answer(MlirValue(ins, f, K), v)
  <2>1. CASE ~wide
    <3>1. MlirValue(ins, f, K) = Refused
      BY <1>1, <2>1 DEF MlirValue
    <3> QED BY Zenon, <3>1 DEF Answer
  <2>2. CASE wide
    <3>1. MlirValue(ins, f, K) = MDot(ins, f)
      BY <2>2 DEF MlirValue
    <3> DEFINE sa == "s" \in {ins.from.kind, ins.ty.kind}
               sb == {ins.from.kind, ins.ty.kind} = {"s"}
    <3>2. sa = IsSigned(ins.from) /\ sb = IsSigned(ins.ty)
      <4>1. ins.ty.kind = "s" => ins.from.kind = "s"
        BY Zenon, <2>2 DEF IsDot
      <4> QED BY <4>1 DEF IsSigned
    <3>3. \/ MDot(ins, f) = Refused
          \/ LET w == Width[ins.dst] IN
             MDot(ins, f) = Cut(Signed(Value(ins.src[3], w, f), w)
                                + LaneSum(Value(ins.src[1], w, f), Value(ins.src[2], w, f), sa, sb), w)
      BY Zenon DEF MDot, LaneSum
    <3>4. g = Byte /\ first = 0 /\ D = 0 .. 3
      BY Zenon, <2>2
    <3>5. \/ MDot(ins, f) = Refused
          \/ MDot(ins, f) = Cut(Signed(c, Word) + sum, Word)
      <4>1. IsSigned(ins.from) \in BOOLEAN /\ IsSigned(ins.ty) \in BOOLEAN
        BY DEF IsSigned
      <4>2. LaneSum(a, b, IsSigned(ins.from), IsSigned(ins.ty)) = sum
        <5>1. LaneSum(a, b, IsSigned(ins.from), IsSigned(ins.ty))
              = DotSum(a, b, Byte, 0, IsSigned(ins.from), IsSigned(ins.ty), 0 .. 3)
          BY <4>1, LaneSumIs
        <5> QED BY Zenon, <3>4, <5>1
      <4> HIDE DEF sa, sb, sum
      <4> QED BY Zenon, <1>1, <1>5, <3>2, <3>3, <4>2
    <3>6. Cut(Signed(c, Word) + sum, Word) = Cut(c + sum, Word)
      <4> HIDE DEF sum
      <4>1. PICK s \in Int : s = Signed(c, Word) /\ Like(s, c, Word)
        BY <1>1, <1>5, SignedIs
      <4>2. c \in Int
        OBVIOUS
      <4>3. Like(sum, sum, Word)
        BY <1>1, <1>6, LikeSelf
      <4>4. Like(s + sum, c + sum, Word)
        BY Zenon, <1>1, <1>6, <4>1, <4>2, <4>3, LikeTogether
      <4>5. s + sum \in Int /\ c + sum \in Int
        BY <1>6
      <4>6. Cut(s + sum, Word) = Cut(c + sum, Word)
        BY Zenon, <1>1, <4>4, <4>5, CutSame
      <4> QED BY Zenon, <4>1, <4>6
    <3> QED BY Zenon, <1>7, <3>1, <3>5, <3>6 DEF Answer
  <2> QED BY <2>1, <2>2
<1> QED BY Zenon, <1>1, <1>7, <1>8, <1>9, <1>10 DEF AllAnswer, Answer

\* The bytes of a permutation: i of the selector's field i.
Chosen(both, sel, i) == Cut(both \div 2 ^ ((Field(sel, i) % 8) * Byte), Byte)
Permuted(both, sel, i) ==
  IF Field(sel, i) < 8 THEN Chosen(both, sel, i)
  ELSE IF Chosen(both, sel, i) >= Lowest(Byte) THEN Ones(Byte) ELSE 0
PermutedTerms(both, sel) == [i \in 0 .. 3 |-> Permuted(both, sel, i) * Two(i * Byte)]

LEMMA FieldIs ==
  ASSUME NEW sel \in Int, NEW i \in 0 .. 3
  PROVE  Field(sel, i) \in 0 .. 15
<1>1. PICK z \in Nat \ {0} : z = 16 ^ i
  <2>1. 16 ^ 0 \in Nat \ {0}
    BY SMT
  <2>2. 16 ^ 1 \in Nat \ {0}
    BY SMT
  <2>3. 16 ^ 2 \in Nat \ {0}
    BY SMT
  <2>4. 16 ^ 3 \in Nat \ {0}
    BY SMT
  <2>5. i = 0 \/ i = 1 \/ i = 2 \/ i = 3
    OBVIOUS
  <2> QED BY Zenon, <2>1, <2>2, <2>3, <2>4, <2>5
<1>2. PICK q \in Int : q = sel \div z
  OBVIOUS
<1>3. q % 16 \in 0 .. 15
  OBVIOUS
<1> QED BY Zenon, <1>1, <1>2, <1>3 DEF Field

LEMMA ChosenIs ==
  ASSUME NEW both \in Nat, NEW sel \in Int, NEW i \in 0 .. 3
  PROVE  Chosen(both, sel, i) \in 0 .. Two(Byte) - 1
<1>1. PICK m \in Nat : m = Field(sel, i) % 8
  <2>1. Field(sel, i) \in 0 .. 15
    BY FieldIs
  <2> QED BY <2>1
<1>2. PICK k \in Nat : k = m * Byte
  BY WidthNumbers
<1>3. PICK z \in Nat \ {0} : z = Two(k)
  BY TwoStep
<1>4. PICK q \in Int : q = both \div z
  OBVIOUS
<1>5. Byte \in Nat
  BY WidthNumbers
<1>6. Cut(q, Byte) \in 0 .. Two(Byte) - 1
  BY <1>5, CutIs
<1> QED BY Zenon, <1>1, <1>2, <1>3, <1>4, <1>6 DEF Chosen, Two

LEMMA PermutedIs ==
  ASSUME NEW both \in Nat, NEW sel \in Int, NEW i \in 0 .. 3
  PROVE  Permuted(both, sel, i) \in 0 .. Two(Byte) - 1
<1>1. Chosen(both, sel, i) \in 0 .. Two(Byte) - 1
  BY ChosenIs
<1>2. Ones(Byte) \in 0 .. Two(Byte) - 1 /\ 0 \in 0 .. Two(Byte) - 1
  <2>1. Byte \in Nat /\ Byte >= 1
    BY WidthNumbers
  <2>2. Ones(Byte) \in 0 .. Two(Byte) - 1
    BY <2>1, LowestIs
  <2> QED BY <2>1, <2>2, TwoStep
<1> QED BY Zenon, <1>1, <1>2 DEF Permuted

LEMMA TermsAre ==
  ASSUME NEW both \in Nat, NEW sel \in Int
  PROVE  /\ PermutedTerms(both, sel) \in [0 .. 3 -> Int]
         /\ \A i \in 0 .. 3 : PermutedTerms(both, sel)[i] = Permuted(both, sel, i) * 2 ^ (i * Byte)
<1>1. ASSUME NEW i \in 0 .. 3 PROVE Permuted(both, sel, i) * Two(i * Byte) \in Int
  <2>1. PICK x \in Int : x = Permuted(both, sel, i)
    <3>1. Permuted(both, sel, i) \in 0 .. Two(Byte) - 1
      BY PermutedIs
    <3> QED BY <3>1
  <2>2. PICK k \in Nat : k = i * Byte
    BY WidthNumbers
  <2>3. PICK z \in Nat : z = Two(k)
    BY TwoStep
  <2>4. x * z \in Int
    OBVIOUS
  <2> QED BY Zenon, <2>1, <2>2, <2>3, <2>4
<1>2. \A i \in 0 .. 3 : PermutedTerms(both, sel)[i] = Permuted(both, sel, i) * Two(i * Byte)
  BY Zenon DEF PermutedTerms
<1>3. PermutedTerms(both, sel) \in [0 .. 3 -> Int]
  BY Zenon, <1>1 DEF PermutedTerms
<1> QED BY Zenon, <1>2, <1>3 DEF Two

\* Four bytes make a word.
LEMMA OneMore ==
  ASSUME NEW P \in Nat \ {0}, NEW M \in Nat \ {0}, NEW x \in 0 .. P - 1, NEW y \in 0 .. M - 1
  PROVE  x + y * P \in 0 .. M * P - 1
<1>1. (M - 1 - y) * P >= 0 /\ (M - 1 - y) * P = M * P - P - y * P
  OBVIOUS
<1>2. y * P >= 0 /\ y * P \in Int /\ M * P \in Int
  OBVIOUS
<1> QED BY <1>1, <1>2

LEMMA PermutedTotal ==
  ASSUME NEW both \in Nat, NEW sel \in Int
  PROVE  Total(PermutedTerms(both, sel), 0 .. 3) \in 0 .. Two(Word) - 1
<1>1. PICK P \in Nat \ {0} : P = Two(Byte)
  BY TwoStep, WidthNumbers
<1>2. Byte \in Nat /\ Word = 4 * Byte
  BY WidthNumbers
<1>3. /\ Two(0 * Byte) = 1 /\ Two(1 * Byte) = P /\ Two(2 * Byte) = P * P
      /\ Two(3 * Byte) = (P * P) * P /\ Two(Word) = ((P * P) * P) * P
  <2>1. /\ 0 * Byte = 0 /\ 1 * Byte = Byte /\ 2 * Byte = Byte + Byte
        /\ 3 * Byte = (Byte + Byte) + Byte /\ 4 * Byte = ((Byte + Byte) + Byte) + Byte
        /\ Byte + Byte \in Nat /\ (Byte + Byte) + Byte \in Nat
    BY <1>2
  <2>2. Two(Byte + Byte) = P * P
    BY Zenon, <1>1, <1>2, TwoSum
  <2>3. Two((Byte + Byte) + Byte) = (P * P) * P
    BY Zenon, <1>1, <1>2, <2>1, <2>2, TwoSum
  <2>4. Two(((Byte + Byte) + Byte) + Byte) = ((P * P) * P) * P
    BY Zenon, <1>1, <1>2, <2>1, <2>3, TwoSum
  <2> QED BY Zenon, <1>1, <1>2, <2>1, <2>2, <2>3, <2>4, TwoZero
<1>4. 0 \in 0 .. 3 /\ 1 \in 0 .. 3 /\ 2 \in 0 .. 3 /\ 3 \in 0 .. 3
  OBVIOUS
<1>5. PICK a \in 0 .. P - 1, b \in 0 .. P - 1, c \in 0 .. P - 1, d \in 0 .. P - 1 :
        /\ a = Permuted(both, sel, 0) /\ b = Permuted(both, sel, 1)
        /\ c = Permuted(both, sel, 2) /\ d = Permuted(both, sel, 3)
  <2>1. \A i \in 0 .. 3 : Permuted(both, sel, i) \in 0 .. P - 1
    BY <1>1, PermutedIs
  <2> QED BY Zenon, <1>4, <2>1
<1>6. Total(PermutedTerms(both, sel), 0 .. 3) = a * 1 + b * P + c * (P * P) + d * ((P * P) * P)
  <2>1. \A i \in 0 .. 3 : PermutedTerms(both, sel)[i] = Permuted(both, sel, i) * Two(i * Byte)
    BY Zenon DEF PermutedTerms
  <2> QED BY Zenon, <1>3, <1>4, <1>5, <2>1 DEF Total
<1>7. PICK Q \in Nat \ {0}, S \in Nat \ {0}, W \in Nat \ {0} : Q = P * P /\ S = Q * P /\ W = S * P
  <2>1. \A x, y \in Nat \ {0} : x * y \in Nat \ {0}
    OBVIOUS
  <2> QED BY Zenon, <2>1
<1>8. PICK y \in 0 .. Q - 1 : y = c + d * P
  BY <1>7, OneMore
<1>9. PICK x \in 0 .. S - 1 : x = b + y * P
  BY <1>7, OneMore
<1>10. PICK v \in 0 .. W - 1 : v = a + x * P
  BY <1>7, OneMore
<1>11. v = a * 1 + b * P + c * (P * P) + d * ((P * P) * P)
  <2>1. (c + d * P) * P = c * P + (d * P) * P
    OBVIOUS
  <2>2. (b + (c * P + (d * P) * P)) * P = b * P + (c * (P * P) + d * ((P * P) * P))
    OBVIOUS
  <2>3. x * P = b * P + (c * (P * P) + d * ((P * P) * P))
    BY Zenon, <1>8, <1>9, <2>1, <2>2
  <2>4. PICK p \in Int, q \in Int, r \in Int :
          p = b * P /\ q = c * (P * P) /\ r = d * ((P * P) * P)
    OBVIOUS
  <2>5. v = a + (p + (q + r))
    BY Zenon, <1>10, <2>3, <2>4
  <2>6. a + (p + (q + r)) = a * 1 + p + q + r
    BY <1>5
  <2> QED BY Zenon, <2>4, <2>5, <2>6
<1> QED BY Zenon, <1>3, <1>6, <1>7, <1>10, <1>11

-----------------------------------------------------------------------------
\* The three ways a path writes that sum.
InterpByte(both, sel, i) ==
  LET b == Group(both, Field(sel, i) % 8, Byte, FALSE)
  IN  IF Field(sel, i) < 8 THEN b ELSE IF Negative(b, Byte) THEN Ones(Byte) ELSE 0
InterpSum(both, sel) == MapThenSumSet(LAMBDA i : InterpByte(both, sel, i) * 2 ^ (i * Byte), 0 .. 3)
InterpChosen(both, sel) ==
  CHOOSE it : it = [s \in SUBSET (0 .. 3) |-> IF s = {} THEN 0
                      ELSE InterpByte(both, sel, Taken(s)) * 2 ^ (Taken(s) * Byte) + it[s \ {Taken(s)}]]

LEMMA InterpUnfold ==
  \A both, sel : InterpSum(both, sel) = InterpChosen(both, sel)[0 .. 3]
BY Zenon DEF InterpSum, MapThenSumSet, MapThenFoldSet, InterpChosen, Taken

LEMMA InterpSumIs ==
  ASSUME NEW both \in Nat, NEW sel \in Int
  PROVE  InterpSum(both, sel) = Total(PermutedTerms(both, sel), 0 .. 3)
<1> DEFINE D == 0 .. 3
           t == PermutedTerms(both, sel)
           T(n) == InterpByte(both, sel, n) * 2 ^ (n * Byte)
           F(it) == [s \in SUBSET D |-> IF s = {} THEN 0 ELSE T(Taken(s)) + it[s \ {Taken(s)}]]
           k == [s \in SUBSET D |-> Total(t, s)]
<1>1. ASSUME NEW i \in 0 .. 3 PROVE InterpByte(both, sel, i) = Permuted(both, sel, i)
  <2>1. Group(both, Field(sel, i) % 8, Byte, FALSE) = Chosen(both, sel, i)
    BY Zenon DEF Group, Chosen
  <2> QED BY Zenon, <2>1 DEF InterpByte, Permuted, Negative, Lowest
<1>2. t \in [D -> Int] /\ \A n \in D : t[n] = T(n)
  <2>1. t \in [D -> Int] /\ \A n \in D : t[n] = Permuted(both, sel, n) * 2 ^ (n * Byte)
    BY TermsAre
  <2> QED BY Zenon, <1>1, <2>1
<1>11. D \in SUBSET (0 .. 3)
  OBVIOUS
<1> HIDE DEF t, T, D
<1>3. \A s \in SUBSET D : s # {} => Taken(s) \in D
  BY Zenon, TakenIs
<1>4. Summing(k, t, D)
  BY <1>2, <1>11, SummingExists
<1>5. k = F(k)
  <2>1. k = [s \in SUBSET D |-> IF s = {} THEN 0 ELSE t[Taken(s)] + k[s \ {Taken(s)}]]
    BY Zenon, <1>4 DEF Summing
  <2> HIDE DEF k
  <2>2. \A s \in SUBSET D : (IF s = {} THEN 0 ELSE t[Taken(s)] + k[s \ {Taken(s)}])
                            = (IF s = {} THEN 0 ELSE T(Taken(s)) + k[s \ {Taken(s)}])
    BY Zenon, <1>2, <1>3
  <2>3. [s \in SUBSET D |-> IF s = {} THEN 0 ELSE t[Taken(s)] + k[s \ {Taken(s)}]] = F(k)
    BY Zenon, <2>2
  <2> QED BY Zenon, <2>1, <2>3
<1>6. PICK h : h = InterpChosen(both, sel)
  OBVIOUS
<1>7. h = F(h)
  BY Zenon, <1>5, <1>6 DEF InterpChosen, T, D
<1>8. Summing(h, t, D)
  <2>1. \A s \in SUBSET D : (IF s = {} THEN 0 ELSE t[Taken(s)] + h[s \ {Taken(s)}])
                            = (IF s = {} THEN 0 ELSE T(Taken(s)) + h[s \ {Taken(s)}])
    BY Zenon, <1>2, <1>3
  <2>2. [s \in SUBSET D |-> IF s = {} THEN 0 ELSE t[Taken(s)] + h[s \ {Taken(s)}]] = F(h)
    BY Zenon, <2>1
  <2> QED BY Zenon, <1>7, <2>2 DEF Summing
<1>9. h[D] = Total(t, D)
  BY <1>2, <1>8, <1>11, SummingUnique
<1> QED BY Zenon, <1>6, <1>9, InterpUnfold DEF D, t

LlvmByte(both, sel, i) ==
  LET b == Cut(ShiftRight(both, (((sel \div 16 ^ i) % 16) % 8) * Byte), Byte)
  IN  IF (sel \div 16 ^ i) % 16 < 8 THEN b ELSE IF b >= Lowest(Byte) THEN Ones(Byte) ELSE 0
LlvmSum(both, sel) == MapThenSumSet(LAMBDA i : LlvmByte(both, sel, i) * 2 ^ (i * Byte), 0 .. 3)
LlvmChosen(both, sel) ==
  CHOOSE it : it = [s \in SUBSET (0 .. 3) |-> IF s = {} THEN 0
                      ELSE LlvmByte(both, sel, Taken(s)) * 2 ^ (Taken(s) * Byte) + it[s \ {Taken(s)}]]

LEMMA LlvmUnfold ==
  \A both, sel : LlvmSum(both, sel) = LlvmChosen(both, sel)[0 .. 3]
BY Zenon DEF LlvmSum, MapThenSumSet, MapThenFoldSet, LlvmChosen, Taken

LEMMA LlvmSumIs ==
  ASSUME NEW both \in Nat, NEW sel \in Int
  PROVE  LlvmSum(both, sel) = Total(PermutedTerms(both, sel), 0 .. 3)
<1> DEFINE D == 0 .. 3
           t == PermutedTerms(both, sel)
           T(n) == LlvmByte(both, sel, n) * 2 ^ (n * Byte)
           F(it) == [s \in SUBSET D |-> IF s = {} THEN 0 ELSE T(Taken(s)) + it[s \ {Taken(s)}]]
           k == [s \in SUBSET D |-> Total(t, s)]
<1>1. ASSUME NEW i \in 0 .. 3 PROVE LlvmByte(both, sel, i) = Permuted(both, sel, i)
  BY Zenon DEF LlvmByte, Permuted, Chosen, ShiftRight, Field
<1>2. t \in [D -> Int] /\ \A n \in D : t[n] = T(n)
  <2>1. t \in [D -> Int] /\ \A n \in D : t[n] = Permuted(both, sel, n) * 2 ^ (n * Byte)
    BY TermsAre
  <2> QED BY Zenon, <1>1, <2>1
<1>11. D \in SUBSET (0 .. 3)
  OBVIOUS
<1> HIDE DEF t, T, D
<1>3. \A s \in SUBSET D : s # {} => Taken(s) \in D
  BY Zenon, TakenIs
<1>4. Summing(k, t, D)
  BY <1>2, <1>11, SummingExists
<1>5. k = F(k)
  <2>1. k = [s \in SUBSET D |-> IF s = {} THEN 0 ELSE t[Taken(s)] + k[s \ {Taken(s)}]]
    BY Zenon, <1>4 DEF Summing
  <2> HIDE DEF k
  <2>2. \A s \in SUBSET D : (IF s = {} THEN 0 ELSE t[Taken(s)] + k[s \ {Taken(s)}])
                            = (IF s = {} THEN 0 ELSE T(Taken(s)) + k[s \ {Taken(s)}])
    BY Zenon, <1>2, <1>3
  <2>3. [s \in SUBSET D |-> IF s = {} THEN 0 ELSE t[Taken(s)] + k[s \ {Taken(s)}]] = F(k)
    BY Zenon, <2>2
  <2> QED BY Zenon, <2>1, <2>3
<1>6. PICK h : h = LlvmChosen(both, sel)
  OBVIOUS
<1>7. h = F(h)
  BY Zenon, <1>5, <1>6 DEF LlvmChosen, T, D
<1>8. Summing(h, t, D)
  <2>1. \A s \in SUBSET D : (IF s = {} THEN 0 ELSE t[Taken(s)] + h[s \ {Taken(s)}])
                            = (IF s = {} THEN 0 ELSE T(Taken(s)) + h[s \ {Taken(s)}])
    BY Zenon, <1>2, <1>3
  <2>2. [s \in SUBSET D |-> IF s = {} THEN 0 ELSE t[Taken(s)] + h[s \ {Taken(s)}]] = F(h)
    BY Zenon, <2>1
  <2> QED BY Zenon, <1>7, <2>2 DEF Summing
<1>9. h[D] = Total(t, D)
  BY <1>2, <1>8, <1>11, SummingUnique
<1> QED BY Zenon, <1>6, <1>9, LlvmUnfold DEF D, t

MlirByte(both, sel, i) ==
  LET n == (sel \div 16 ^ i) % 16
      b == Cut(ShiftRight(both, (n % 8) * Byte), Byte)
  IN  IF n >= 8 THEN Cut(-(ShiftRight(b, Byte - 1) % 2), Byte) ELSE b
MlirSum(both, sel) == MapThenSumSet(LAMBDA i : MlirByte(both, sel, i) * 2 ^ (i * Byte), 0 .. 3)
MlirChosen(both, sel) ==
  CHOOSE it : it = [s \in SUBSET (0 .. 3) |-> IF s = {} THEN 0
                      ELSE MlirByte(both, sel, Taken(s)) * 2 ^ (Taken(s) * Byte) + it[s \ {Taken(s)}]]

LEMMA MlirUnfold ==
  \A both, sel : MlirSum(both, sel) = MlirChosen(both, sel)[0 .. 3]
BY Zenon DEF MlirSum, MapThenSumSet, MapThenFoldSet, MlirChosen, Taken

LEMMA MlirSumIs ==
  ASSUME NEW both \in Nat, NEW sel \in Int
  PROVE  MlirSum(both, sel) = Total(PermutedTerms(both, sel), 0 .. 3)
<1> DEFINE D == 0 .. 3
           t == PermutedTerms(both, sel)
           T(n) == MlirByte(both, sel, n) * 2 ^ (n * Byte)
           F(it) == [s \in SUBSET D |-> IF s = {} THEN 0 ELSE T(Taken(s)) + it[s \ {Taken(s)}]]
           k == [s \in SUBSET D |-> Total(t, s)]
<1>1. ASSUME NEW i \in 0 .. 3 PROVE MlirByte(both, sel, i) = Permuted(both, sel, i)
  <2>1. Field(sel, i) \in 0 .. 15
    BY FieldIs
  <2>2. PICK n \in 0 .. 15 : n = Field(sel, i)
    BY <2>1
  <2>3. PICK b \in 0 .. Two(Byte) - 1 : b = Chosen(both, sel, i)
    BY ChosenIs
  <2>4. MlirByte(both, sel, i) = IF n >= 8 THEN Cut(-(ShiftRight(b, Byte - 1) % 2), Byte) ELSE b
    BY Zenon, <2>2, <2>3 DEF MlirByte, Chosen, ShiftRight, Field
  <2>5. Byte \in Nat /\ Byte >= 1 /\ Byte - 1 \in Nat
    BY WidthNumbers
  <2>6. PICK l \in Nat \ {0} : l = Lowest(Byte) /\ l = Two(Byte - 1) /\ Two(Byte) = 2 * l
                            /\ Ones(Byte) = 2 * l - 1 /\ Ones(Byte) \in 0 .. Two(Byte) - 1
    BY <2>5, LowestIs
  <2>7. PICK q \in {0, 1} : q = b \div l /\ (q = 1 <=> b >= l)
    <3>1. b \in 0 .. 2 * l - 1
      BY <2>6
    <3>2. PICK q \in {0, 1}, r \in 0 .. l - 1 : b = q * l + r /\ (q = 1 <=> b >= l)
      <4>1. CASE b >= l
        <5>1. b = 1 * l + (b - l) /\ b - l \in 0 .. l - 1
          BY <3>1, <4>1
        <5> QED BY <4>1, <5>1
      <4>2. CASE ~(b >= l)
        <5>1. b = 0 * l + b /\ b \in 0 .. l - 1
          BY <3>1, <4>2
        <5> QED BY <4>2, <5>1
      <4> QED BY <4>1, <4>2
    <3>3. q \in Int
      OBVIOUS
    <3>4. b \div l = q
      BY <3>2, <3>3, DividedInto
    <3> QED BY <3>2, <3>4
  <2>8. ShiftRight(b, Byte - 1) % 2 = q
    <3>1. q % 2 = q
      OBVIOUS
    <3> QED BY Zenon, <2>6, <2>7, <3>1 DEF ShiftRight, Two
  <2>9. Cut(-q, Byte) = IF b >= l THEN Ones(Byte) ELSE 0
    <3>1. CASE q = 1
      <4>1. Like(-1, Ones(Byte), Byte)
        <5>1. PICK z \in Int, j \in Int : z = Two(Byte) /\ j = -1 /\ -1 = Ones(Byte) + j * z
          BY <2>6
        <5> QED BY Zenon, <5>1 DEF Like
      <4>2. PICK e \in Int, o \in 0 .. Two(Byte) - 1 : e = -1 /\ o = Ones(Byte) /\ Like(e, o, Byte)
        BY <2>6, <4>1
      <4>3. Cut(e, Byte) = o
        BY <2>5, <4>2, CutLike
      <4>4. -q = e
        BY <3>1, <4>2
      <4> QED BY Zenon, <2>7, <3>1, <4>2, <4>3, <4>4
    <3>2. CASE q = 0
      <4>1. 0 \in 0 .. Two(Byte) - 1
        BY <2>6
      <4>2. Cut(0, Byte) = 0
        BY <2>5, <4>1, CutSmall
      <4>3. 0 # 1
        OBVIOUS
      <4>4. PICK e \in Int : e = 0 /\ 0 - e = e
        OBVIOUS
      <4>5. -q = 0 /\ q # 1
        <5>1. q = e /\ q \in Int
          BY <3>2, <4>4
        <5>2. -q = 0 - e
          BY <5>1
        <5> QED BY Zenon, <3>2, <4>3, <4>4, <5>2
      <4> QED BY Zenon, <2>7, <4>2, <4>5
    <3>3. q = 0 \/ q = 1
      BY <2>7
    <3> QED BY Zenon, <3>1, <3>2, <3>3
  <2>10. n >= 8 <=> ~(n < 8)
    OBVIOUS
  <2> QED BY Zenon, <2>2, <2>3, <2>4, <2>6, <2>8, <2>9, <2>10 DEF Permuted
<1>2. t \in [D -> Int] /\ \A n \in D : t[n] = T(n)
  <2>1. t \in [D -> Int] /\ \A n \in D : t[n] = Permuted(both, sel, n) * 2 ^ (n * Byte)
    BY TermsAre
  <2> QED BY Zenon, <1>1, <2>1
<1>11. D \in SUBSET (0 .. 3)
  OBVIOUS
<1> HIDE DEF t, T, D
<1>3. \A s \in SUBSET D : s # {} => Taken(s) \in D
  BY Zenon, TakenIs
<1>4. Summing(k, t, D)
  BY <1>2, <1>11, SummingExists
<1>5. k = F(k)
  <2>1. k = [s \in SUBSET D |-> IF s = {} THEN 0 ELSE t[Taken(s)] + k[s \ {Taken(s)}]]
    BY Zenon, <1>4 DEF Summing
  <2> HIDE DEF k
  <2>2. \A s \in SUBSET D : (IF s = {} THEN 0 ELSE t[Taken(s)] + k[s \ {Taken(s)}])
                            = (IF s = {} THEN 0 ELSE T(Taken(s)) + k[s \ {Taken(s)}])
    BY Zenon, <1>2, <1>3
  <2>3. [s \in SUBSET D |-> IF s = {} THEN 0 ELSE t[Taken(s)] + k[s \ {Taken(s)}]] = F(k)
    BY Zenon, <2>2
  <2> QED BY Zenon, <2>1, <2>3
<1>6. PICK h : h = MlirChosen(both, sel)
  OBVIOUS
<1>7. h = F(h)
  BY Zenon, <1>5, <1>6 DEF MlirChosen, T, D
<1>8. Summing(h, t, D)
  <2>1. \A s \in SUBSET D : (IF s = {} THEN 0 ELSE t[Taken(s)] + h[s \ {Taken(s)}])
                            = (IF s = {} THEN 0 ELSE T(Taken(s)) + h[s \ {Taken(s)}])
    BY Zenon, <1>2, <1>3
  <2>2. [s \in SUBSET D |-> IF s = {} THEN 0 ELSE t[Taken(s)] + h[s \ {Taken(s)}]] = F(h)
    BY Zenon, <2>1
  <2> QED BY Zenon, <1>7, <2>2 DEF Summing
<1>9. h[D] = Total(t, D)
  BY <1>2, <1>8, <1>11, SummingUnique
<1> QED BY Zenon, <1>6, <1>9, MlirUnfold DEF D, t

-----------------------------------------------------------------------------

LEMMA Permutes ==
  ASSUME NEW ins, IsInstruction(ins), NEW f \in RegisterFiles, NEW K, IsPermute(ins)
  PROVE  \E v \in Nat : AllAnswer(ins, f, K, v)
<1>1. /\ ins.op = "prmt" /\ Width[ins.dst] = Word /\ ins.ty.width = Word /\ Len(ins.src) = 3
      /\ Word \in Widths /\ Word \in Nat
  BY WidthNumbers DEF IsPermute, Widths
<1>2. \A n \in 1 .. 2 : ~IsLiteral(ins.src[n]) /\ OfWidth(ins.src[n], Word)
  BY Zenon DEF IsPermute
<1>3. 1 \in 1 .. 2 /\ 2 \in 1 .. 2 /\ 1 \in 1 .. Len(ins.src) /\ 2 \in 1 .. Len(ins.src)
      /\ 3 \in 1 .. Len(ins.src)
  BY <1>1
<1>4. PICK a \in Nat, b \in Nat : Holds(ins, 1, f, Word, a) /\ Holds(ins, 2, f, Word, b)
  <2>1. (\E v \in Nat : Holds(ins, 1, f, Word, v)) /\ (\E v \in Nat : Holds(ins, 2, f, Word, v))
    BY Zenon, <1>1, <1>2, <1>3, SourceIs
  <2> QED BY Zenon, <2>1
<1>5. /\ Operand(ins.src[1], f) = a /\ Operand(ins.src[2], f) = b
      /\ LoadWide(ins.src[1], f) = a /\ LoadWide(ins.src[2], f) = b
      /\ Value(ins.src[1], Word, f) = a /\ Value(ins.src[2], Word, f) = b
      /\ Cut(a, Word) = a /\ Cut(b, Word) = b
  BY Zenon, <1>2, <1>3, <1>4 DEF Holds, LoadWide
<1>6. PICK sel \in Int : sel = ins.src[3].value
  <2>1. ins.src[3] \in Operands
    <3>1. ins.src \in Seq(Operands)
      BY DEF IsInstruction
    <3> QED BY <1>3, <3>1
  <2> QED BY <2>1 DEF Operands
<1>7. PICK both \in Nat : both = a + b * 2 ^ Word
  <2>1. PICK z \in Nat : z = Two(Word)
    BY <1>1, TwoStep
  <2>2. a + b * z \in Nat
    OBVIOUS
  <2> QED BY Zenon, <2>1, <2>2 DEF Two
<1>8. PICK v \in 0 .. Two(Word) - 1 : v = Total(PermutedTerms(both, sel), 0 .. 3)
  BY PermutedTotal
<1>9. v \in Nat
  BY <1>1, TwoStep
<1>10. InterpSum(both, sel) = v /\ LlvmSum(both, sel) = v /\ MlirSum(both, sel) = v
  BY <1>8, InterpSumIs, LlvmSumIs, MlirSumIs
<1>11. Answer(InterpValue(ins, f), v)
  <2>1. InterpValue(ins, f) = IPermute(ins, f)
    BY <1>1 DEF InterpValue
  <2>2. \/ IPermute(ins, f) = Refused
        \/ IPermute(ins, f) = InterpSum(Cut(Operand(ins.src[1], f), Word)
                                        + Cut(Operand(ins.src[2], f), Word) * 2 ^ Word, ins.src[3].value)
    BY Zenon DEF IPermute, InterpSum, InterpByte
  <2> QED BY Zenon, <1>5, <1>6, <1>7, <1>10, <2>1, <2>2 DEF Answer
<1>12. Answer(LlvmValue(ins, f), v)
  <2>1. LlvmValue(ins, f) = LPermute(ins, f)
    BY <1>1 DEF LlvmValue
  <2>2. \/ LPermute(ins, f) = Refused
        \/ LPermute(ins, f) = LlvmSum(LoadWide(ins.src[1], f) + LoadWide(ins.src[2], f) * 2 ^ Word,
                                      ins.src[3].value)
    BY Zenon DEF LPermute, LlvmSum, LlvmByte
  <2> QED BY Zenon, <1>5, <1>6, <1>7, <1>10, <2>1, <2>2 DEF Answer
<1>13. Answer(MlirValue(ins, f, K), v)
  <2>1. MlirValue(ins, f, K) = MPermute(ins, f)
    BY <1>1 DEF MlirValue
  <2>2. \/ MPermute(ins, f) = Refused
        \/ MPermute(ins, f) = MlirSum(Value(ins.src[1], Word, f) + Value(ins.src[2], Word, f) * 2 ^ Word,
                                      ins.src[3].value)
    BY Zenon DEF MPermute, MlirSum, MlirByte
  <2> QED BY Zenon, <1>5, <1>6, <1>7, <1>10, <2>1, <2>2 DEF Answer
<1> QED BY Zenon, <1>1, <1>8, <1>9, <1>11, <1>12, <1>13 DEF AllAnswer

LEMMA SmallerIs ==
  ASSUME NEW x \in Int, NEW y \in Int
  PROVE  Min({x, y}) = IF x <= y THEN x ELSE y
<1>1. \E z \in {x, y} : \A u \in {x, y} : z <= u
  <2>1. CASE x <= y
    BY <2>1
  <2>2. CASE y <= x
    BY <2>2
  <2> QED BY <2>1, <2>2
<1>2. Min({x, y}) \in {x, y} /\ \A u \in {x, y} : Min({x, y}) <= u
  BY <1>1 DEF Min
<1>3. PICK m \in Int : m = Min({x, y})
  BY <1>2
<1>4. m \in {x, y} /\ m <= x /\ m <= y
  BY <1>2, <1>3
<1>5. m = IF x <= y THEN x ELSE y
  BY <1>4
<1> QED BY Zenon, <1>3, <1>5

\* V has the bits of S below w.
HasBits(V, S, w) == \A n \in Nat : n < w => (Bit(V, n) <=> n \in S)

LEMMA BitsDetermine ==
  ASSUME NEW w \in Nat, w <= Double, NEW S \in SUBSET (0 .. w - 1), NEW V \in Nat, HasBits(V, S, w)
  PROVE  /\ Bits2Value(S) \in 0 .. Two(w) - 1 /\ Cut(V, w) = Bits2Value(S)
         /\ V \in 0 .. Two(w) - 1 => V = Bits2Value(S)
<1>1. S \in SUBSET (0 .. Double - 1)
  BY WidthNumbers
<1>2. PICK b \in 0 .. Two(Double) - 1 : b = Bits2Value(S) /\ \A n \in Nat : Bit(b, n) <=> n \in S
  BY <1>1, ValueOfBits
<1>3. \A n \in 0 .. w - 1 : n \in Nat /\ n < w
  OBVIOUS
<1>4. \A n \in Nat : n \in S => n < w
  OBVIOUS
<1>5. \A n \in Nat : Bit(b, n) => n < w
  BY Zenon, <1>2, <1>4
<1>6. b \in 0 .. Two(w) - 1
  BY <1>5, BitsBelow
<1>7. PICK u \in 0 .. Two(w) - 1 : u = Cut(V, w)
  <2>1. V \in Int
    OBVIOUS
  <2> QED BY Zenon, <2>1, CutIs
<1>8. \A n \in 0 .. w - 1 : Bit(u, n) <=> Bit(b, n)
  <2>1. ASSUME NEW n \in Nat PROVE Bit(Cut(V, w), n) <=> n < w /\ Bit(V, n)
    BY BitOfCut
  <2> QED BY Zenon, <1>2, <1>3, <1>7, <2>1 DEF HasBits
<1>9. u = b
  BY <1>6, <1>8, SameNumber
<1>10. V \in 0 .. Two(w) - 1 => V = u
  BY Zenon, <1>7, CutSmall
<1> QED BY Zenon, <1>2, <1>6, <1>7, <1>9, <1>10

\* The mask of a field: as many ones as the field has bits.
LEMMA MaskIs ==
  ASSUME NEW k \in Nat
  PROVE  2 ^ k - 1 = Ones(k) /\ Ones(k) \in Nat /\ \A n \in Nat : Bit(Ones(k), n) <=> n < k
<1>1. \A n \in Nat : Ones(k) \in Nat /\ (Bit(Ones(k), n) <=> n < k)
  BY BitOfOnes
<1>2. 0 \in Nat
  OBVIOUS
<1> QED BY Zenon, <1>1, <1>2 DEF Ones

\* A bit as a number, and the sign it spreads over w bits.
LEMMA BitNumber ==
  ASSUME NEW v \in Nat, NEW n \in Nat
  PROVE  ShiftRight(v, n) % 2 = IF Bit(v, n) THEN 1 ELSE 0
<1>1. PICK z \in Nat \ {0} : z = Two(n)
  BY TwoStep
<1>2. PICK q \in Int : q = v \div z
  BY <1>1, DivideBy
<1>3. PICK c \in Int : c = q % 2 /\ c \in 0 .. 1
  OBVIOUS
<1>4. c # 1 => c = 0
  BY <1>3
<1>5. ShiftRight(v, n) % 2 = c /\ (Bit(v, n) <=> c = 1)
  BY Zenon, <1>1, <1>2, <1>3 DEF ShiftRight, Bit, Two
<1> QED BY Zenon, <1>4, <1>5

LEMMA SpreadSign ==
  ASSUME NEW w \in Nat, NEW k \in Nat, k <= w, NEW b
  PROVE  Cut((-(IF b THEN 1 ELSE 0)) * 2 ^ k, w) = IF b THEN Two(w) - Two(k) ELSE 0
<1>1. PICK z \in Nat \ {0}, p \in Nat \ {0} : z = Two(w) /\ p = Two(k) /\ p <= z
  BY TwoStep, TwoGrows
<1>2. CASE b
  <2>1. PICK e \in Int, d \in 0 .. z - 1 : e = (-1) * p /\ d = z - p /\ e = d + (-1) * z
    BY <1>1
  <2>2. Like(e, d, w)
    <3>1. PICK j \in Int : j = -1
      OBVIOUS
    <3>2. e = d + j * z
      BY <2>1, <3>1
    <3> QED BY Zenon, <1>1, <3>2 DEF Like
  <2>3. Cut(e, w) = d
    <3>1. d \in 0 .. Two(w) - 1
      BY <1>1
    <3> QED BY Zenon, <2>2, <3>1, CutLike
  <2>4. (-(IF b THEN 1 ELSE 0)) = -1
    BY <1>2
  <2> QED BY Zenon, <1>1, <1>2, <2>1, <2>3, <2>4 DEF Two
<1>3. CASE ~b
  <2>1. PICK y \in Int : y = -(IF b THEN 1 ELSE 0) /\ y * p = 0
    <3>1. PICK i \in Int : i = (IF b THEN 1 ELSE 0) /\ i = 0
      BY <1>3
    <3>2. \E y \in Int : y = -i /\ y * p = 0
      BY <3>1
    <3> QED BY Zenon, <3>1, <3>2
  <2>2. Cut(0, w) = 0
    <3>1. 0 \in 0 .. Two(w) - 1
      BY <1>1
    <3> QED BY <3>1, CutSmall
  <2> QED BY Zenon, <1>1, <1>3, <2>1, <2>2 DEF Two
<1> QED BY <1>2, <1>3

LEMMA SignMask ==
  ASSUME NEW w \in Nat, NEW k \in Nat, k <= w, NEW b
  PROVE  /\ Cut((-(IF b THEN 1 ELSE 0)) * 2 ^ k, w) \in Nat
         /\ \A n \in Nat : Bit(Cut((-(IF b THEN 1 ELSE 0)) * 2 ^ k, w), n) <=> b /\ k <= n /\ n < w
<1>1. PICK o \in Nat : o = Ones(k) /\ o = Two(k) - 1 /\ o \in 0 .. Two(k) - 1
                       /\ \A n \in Nat : Bit(o, n) <=> n < k
  BY MaskIs, BitOfOnes DEF Two
<1>2. o \in 0 .. Two(w) - 1
  BY <1>1, TwoGrows, TwoStep
<1>3. Two(w) - Two(k) = Two(w) - 1 - o
  BY <1>1, TwoStep
<1>4. /\ Two(w) - 1 - o \in 0 .. Two(w) - 1
      /\ \A n \in Nat : Bit(Two(w) - 1 - o, n) <=> n < w /\ ~Bit(o, n)
  <2>1. \A n \in Nat : /\ Two(w) - 1 - o \in 0 .. Two(w) - 1
                       /\ Bit(Two(w) - 1 - o, n) <=> n < w /\ ~Bit(o, n)
    BY <1>2, BitOfComplement
  <2>2. 0 \in Nat
    OBVIOUS
  <2> QED BY Zenon, <2>1, <2>2
<1>5. \A n \in Nat : ~(n < k) <=> k <= n
  OBVIOUS
<1>6. \A n \in Nat : ~Bit(0, n)
  <2>1. 0 \in 0 .. Two(0) - 1 /\ 0 \in Nat
    BY TwoZero
  <2> QED BY <2>1, NoBitsAbove
<1>7. PICK v : v = Cut((-(IF b THEN 1 ELSE 0)) * 2 ^ k, w)
  OBVIOUS
<1>8. v = IF b THEN Two(w) - Two(k) ELSE 0
  BY <1>7, SpreadSign
<1>9. v \in Nat
  BY <1>3, <1>4, <1>8, TwoStep
<1>10. \A n \in Nat : Bit(v, n) <=> b /\ k <= n /\ n < w
  BY Zenon, <1>1, <1>3, <1>4, <1>5, <1>6, <1>8
<1> QED BY Zenon, <1>7, <1>9, <1>10

\* The highest bit of a field, or of the register if the field leaves it.
FieldTop(pos, len, w) == IF pos + len - 1 <= w - 1 THEN pos + len - 1 ELSE w - 1
\* The bits that bfe gives: the field, and above it zeros or its sign.
FieldBits(a, pos, len, w, signed) ==
  {n \in 0 .. w - 1 : IF n < len /\ pos + n < w THEN Bit(a, pos + n)
                      ELSE signed /\ Bit(a, FieldTop(pos, len, w))}

\* The field as LExtract computes it.
LField(a, pos, len, w, signed) ==
  LET start == Min({pos, w})
      effective == Min({len, w - start})
      safe == IF start = w THEN 0 ELSE start
      mask == IF effective = w THEN Ones(Double)
              ELSE 2 ^ Min({effective, w - 1}) - 1
      field == And(ShiftRight(a, safe), mask)
      top == IF effective = 0 THEN w - 1 ELSE start + effective - 1
      sign == ShiftRight(a, top) % 2
      fill == IF effective = w THEN 0
              ELSE Cut((-sign) * 2 ^ effective, Double)
  IN  IF signed THEN Or(field, fill) ELSE field

LEMMA LFieldIs ==
  ASSUME NEW w \in Nat, w >= 1, w <= Double, NEW a \in 0 .. Two(w) - 1,
         NEW pos \in Nat, NEW len \in Nat, len # 0, NEW signed
  PROVE  /\ LField(a, pos, len, w, signed) \in Nat
         /\ HasBits(LField(a, pos, len, w, signed), FieldBits(a, pos, len, w, signed), w)
<1>1. PICK start \in Nat : start = Min({pos, w}) /\ start = IF pos <= w THEN pos ELSE w
  BY SmallerIs
<1>2. PICK eff \in Nat : eff = Min({len, w - start}) /\ eff = IF len <= w - start THEN len ELSE w - start
  <2>1. w - start \in Int
    BY <1>1
  <2> QED BY <1>1, <2>1, SmallerIs
<1>3. PICK safe \in Nat : safe = IF start = w THEN 0 ELSE start
  BY <1>1
<1>20. start = IF pos <= w THEN pos ELSE w
  BY Zenon, <1>1
<1>21. eff = IF len <= w - start THEN len ELSE w - start
  BY Zenon, <1>2
<1>22. eff <= w /\ start <= w
  BY <1>20, <1>21
<1>4. a \in Nat
  BY TwoStep
<1>5. PICK mask \in Nat :
        /\ mask = IF eff = w THEN Ones(Double) ELSE 2 ^ Min({eff, w - 1}) - 1
        /\ \A n \in Nat : n < w => (Bit(mask, n) <=> n < eff)
  <2>1. CASE eff = w
    <3>1. Double \in Nat
      BY WidthNumbers
    <3>2. Ones(Double) \in Nat /\ \A n \in Nat : Bit(Ones(Double), n) <=> n < Double
      BY <3>1, MaskIs
    <3>3. \A n \in Nat : n < w => n < Double /\ n < eff
      BY <2>1, <3>1
    <3> QED BY Zenon, <2>1, <3>2, <3>3
  <2>2. CASE eff # w
    <3>1. w - 1 \in Int /\ eff \in Int
      OBVIOUS
    <3>2. Min({eff, w - 1}) = eff
      <4>1. Min({eff, w - 1}) = IF eff <= w - 1 THEN eff ELSE w - 1
        BY Zenon, <3>1, SmallerIs
      <4>2. eff <= w - 1
        BY <1>22, <2>2
      <4> QED BY <4>1, <4>2
    <3>3. 2 ^ eff - 1 = Ones(eff) /\ Ones(eff) \in Nat /\ \A n \in Nat : Bit(Ones(eff), n) <=> n < eff
      BY MaskIs
    <3> QED BY Zenon, <2>2, <3>2, <3>3
  <2> QED BY Zenon, <2>1, <2>2
<1>6. PICK right \in Nat : /\ right = ShiftRight(a, safe)
                           /\ \A n \in Nat : Bit(right, n) <=> Bit(a, n + safe)
  <2>1. \A n \in Nat : ShiftRight(a, safe) \in Nat /\ (Bit(ShiftRight(a, safe), n) <=> Bit(a, n + safe))
    BY <1>4, BitOfRight
  <2>2. 0 \in Nat
    OBVIOUS
  <2> QED BY Zenon, <2>1, <2>2
<1>7. \A n \in Nat : n < w => n < Double
  BY WidthNumbers
<1>8. PICK field \in Nat : /\ field = And(right, mask)
                           /\ \A n \in Nat : n < w => (Bit(field, n) <=> n < eff /\ Bit(a, n + safe))
  <2>1. /\ And(right, mask) \in Nat
        /\ \A n \in Nat : Bit(And(right, mask), n) <=> n < Double /\ Bit(right, n) /\ Bit(mask, n)
    BY Zenon, LogicBits
  <2> QED BY Zenon, <1>5, <1>6, <1>7, <2>1
<1>9. PICK top \in Nat : /\ top = IF eff = 0 THEN w - 1 ELSE start + eff - 1
                         /\ top = FieldTop(pos, len, w)
  BY <1>20, <1>21 DEF FieldTop
<1>10. ShiftRight(a, top) % 2 = IF Bit(a, top) THEN 1 ELSE 0
  BY <1>4, BitNumber
<1>11. PICK fill \in Nat :
        /\ fill = IF eff = w THEN 0 ELSE Cut((-(ShiftRight(a, top) % 2)) * 2 ^ eff, Double)
        /\ \A n \in Nat : n < w => (Bit(fill, n) <=> Bit(a, top) /\ eff <= n)
  <2>1. CASE eff = w
    <3>1. 0 \in 0 .. Two(0) - 1 /\ 0 \in Nat
      BY TwoZero
    <3>2. \A n \in Nat : ~Bit(0, n)
      BY <3>1, NoBitsAbove
    <3>3. \A n \in Nat : n < w => ~(eff <= n)
      BY <2>1
    <3> QED BY Zenon, <2>1, <3>1, <3>2, <3>3
  <2>2. CASE eff # w
    <3>1. Double \in Nat /\ eff <= Double
      BY <1>22, WidthNumbers
    <3>2. /\ Cut((-(IF Bit(a, top) THEN 1 ELSE 0)) * 2 ^ eff, Double) \in Nat
          /\ \A n \in Nat : Bit(Cut((-(IF Bit(a, top) THEN 1 ELSE 0)) * 2 ^ eff, Double), n)
                            <=> Bit(a, top) /\ eff <= n /\ n < Double
      BY Zenon, <3>1, SignMask
    <3> QED BY Zenon, <1>7, <1>10, <2>2, <3>2
  <2> QED BY Zenon, <2>1, <2>2
<1>12. PICK V \in Nat :
        /\ V = IF signed THEN Or(field, fill) ELSE field
        /\ \A n \in Nat : n < w => (Bit(V, n) <=> \/ n < eff /\ Bit(a, n + safe)
                                                  \/ signed /\ Bit(a, top) /\ eff <= n)
  <2>1. /\ Or(field, fill) \in Nat
        /\ \A n \in Nat : Bit(Or(field, fill), n) <=> n < Double /\ (Bit(field, n) \/ Bit(fill, n))
    BY Zenon, LogicBits
  <2> QED BY Zenon, <1>7, <1>8, <1>11, <2>1
<1>13. V = LField(a, pos, len, w, signed)
  BY Zenon, <1>1, <1>2, <1>3, <1>5, <1>6, <1>8, <1>9, <1>11, <1>12 DEF LField
<1>14. \A n \in Nat : n < w => /\ (n < eff <=> n < len /\ pos + n < w)
                               /\ (eff <= n <=> ~(n < eff))
                               /\ (n < eff => n + safe = pos + n)
                               /\ n \in 0 .. w - 1
  <2> SUFFICES ASSUME NEW n \in Nat, n < w
               PROVE  /\ (n < eff <=> n < len /\ pos + n < w)
                      /\ (eff <= n <=> ~(n < eff))
                      /\ (n < eff => n + safe = pos + n)
                      /\ n \in 0 .. w - 1
    OBVIOUS
  <2>1. n < eff <=> n < len /\ pos + n < w
    BY <1>20, <1>21
  <2>2. n < eff => n + safe = pos + n
    BY <1>3, <1>20, <1>21
  <2> QED BY <2>1, <2>2
<1>15. HasBits(V, FieldBits(a, pos, len, w, signed), w)
  BY Zenon, <1>9, <1>12, <1>14 DEF HasBits, FieldBits
<1> QED BY Zenon, <1>13, <1>15

\* And as MExtract does.
MField(a, pos, len, w, signed) ==
  LET effective == Min({len, w - pos})
      field == And(ShiftRight(a, pos), 2 ^ effective - 1)
      SignAt(n) == ShiftRight(a, n) % 2
  IN  IF pos >= w THEN IF signed THEN Cut(-SignAt(w - 1), w) ELSE 0
      ELSE IF ~signed \/ effective >= w THEN field
      ELSE Or(field, ShiftLeft(Cut(-SignAt(pos + effective - 1), w), effective, w))

\* A sign spread over all bits, not moved.
LEMMA SignWord ==
  ASSUME NEW w \in Nat, NEW b
  PROVE  /\ Cut(-(IF b THEN 1 ELSE 0), w) \in Nat
         /\ \A n \in Nat : Bit(Cut(-(IF b THEN 1 ELSE 0), w), n) <=> b /\ n < w
<1>1. 0 \in Nat /\ 0 <= w /\ \A n \in Nat : 0 <= n
  OBVIOUS
<1>2. /\ Cut((-(IF b THEN 1 ELSE 0)) * 2 ^ 0, w) \in Nat
      /\ \A n \in Nat : Bit(Cut((-(IF b THEN 1 ELSE 0)) * 2 ^ 0, w), n) <=> b /\ 0 <= n /\ n < w
  BY Zenon, <1>1, SignMask
<1>3. (-(IF b THEN 1 ELSE 0)) * 2 ^ 0 = -(IF b THEN 1 ELSE 0)
  <2>1. PICK i \in Int : i = (IF b THEN 1 ELSE 0)
    OBVIOUS
  <2>2. (-i) * 1 = -i
    OBVIOUS
  <2>3. 2 ^ 0 = 1
    BY TwoZero DEF Two
  <2> QED BY Zenon, <2>1, <2>2, <2>3
<1> QED BY Zenon, <1>1, <1>2, <1>3

LEMMA MFieldIs ==
  ASSUME NEW w \in Nat, w >= 1, w <= Double, NEW a \in 0 .. Two(w) - 1,
         NEW pos \in Nat, NEW len \in Nat, len # 0, NEW signed
  PROVE  /\ MField(a, pos, len, w, signed) \in 0 .. Two(w) - 1
         /\ HasBits(MField(a, pos, len, w, signed), FieldBits(a, pos, len, w, signed), w)
<1>1. a \in Nat
  BY TwoStep
<1>2. \A n \in Nat : ShiftRight(a, n) % 2 = IF Bit(a, n) THEN 1 ELSE 0
  BY <1>1, BitNumber
<1>3. \A n \in Nat : n < w => n < Double /\ n \in 0 .. w - 1
  BY WidthNumbers
<1>4. CASE pos >= w
  <2>1. w - 1 \in Nat /\ w - 1 = FieldTop(pos, len, w)
    BY <1>4 DEF FieldTop
  <2>2. PICK s \in Nat : /\ s = Cut(-(ShiftRight(a, w - 1) % 2), w)
                         /\ \A n \in Nat : Bit(s, n) <=> Bit(a, w - 1) /\ n < w
    <3>1. /\ Cut(-(IF Bit(a, w - 1) THEN 1 ELSE 0), w) \in Nat
          /\ \A n \in Nat : Bit(Cut(-(IF Bit(a, w - 1) THEN 1 ELSE 0), w), n) <=> Bit(a, w - 1) /\ n < w
      BY Zenon, SignWord
    <3> QED BY Zenon, <1>2, <2>1, <3>1
  <2>3. s \in 0 .. Two(w) - 1 /\ 0 \in 0 .. Two(w) - 1 /\ 0 \in Nat
    <3>1. -(ShiftRight(a, w - 1) % 2) \in Int
      <4>1. PICK i \in Int : i = ShiftRight(a, w - 1) % 2
        <5>1. ShiftRight(a, w - 1) % 2 = IF Bit(a, w - 1) THEN 1 ELSE 0
          BY Zenon, <1>2, <2>1
        <5> QED BY <5>1
      <4> QED BY <4>1
    <3>2. s \in 0 .. Two(w) - 1
      BY Zenon, <2>2, <3>1, CutIs
    <3> QED BY <3>2, TwoStep
  <2>4. \A n \in Nat : ~Bit(0, n)
    <3>1. 0 \in 0 .. Two(0) - 1 /\ 0 \in Nat
      BY TwoZero
    <3> QED BY <3>1, NoBitsAbove
  <2>5. MField(a, pos, len, w, signed) = IF signed THEN s ELSE 0
    BY Zenon, <1>4, <2>2 DEF MField
  <2>6. \A n \in Nat : n < w => ~(n < len /\ pos + n < w)
    BY <1>4
  <2>7. HasBits(IF signed THEN s ELSE 0, FieldBits(a, pos, len, w, signed), w)
    BY Zenon, <1>3, <2>1, <2>2, <2>4, <2>6 DEF HasBits, FieldBits
  <2> QED BY Zenon, <2>3, <2>5, <2>7
<1>5. CASE ~(pos >= w)
  <2>1. PICK eff \in Nat : eff = Min({len, w - pos}) /\ eff = IF len <= w - pos THEN len ELSE w - pos
    <3>1. w - pos \in Int
      OBVIOUS
    <3> QED BY <1>5, <3>1, SmallerIs
  <2>2. PICK right \in Nat : /\ right = ShiftRight(a, pos)
                             /\ \A n \in Nat : Bit(right, n) <=> Bit(a, n + pos)
    <3>1. \A n \in Nat : ShiftRight(a, pos) \in Nat /\ (Bit(ShiftRight(a, pos), n) <=> Bit(a, n + pos))
      BY <1>1, BitOfRight
    <3>2. 0 \in Nat
      OBVIOUS
    <3> QED BY Zenon, <3>1, <3>2
  <2>3. PICK mask \in Nat : mask = 2 ^ eff - 1 /\ \A n \in Nat : Bit(mask, n) <=> n < eff
    BY Zenon, <2>1, MaskIs
  <2>4. \A n \in Nat : n < eff => n < w /\ n < Double
    BY <1>3, <2>1
  <2>5. PICK field \in 0 .. Two(Double) - 1 :
          /\ field \in Nat /\ field = And(right, mask)
          /\ \A n \in Nat : Bit(field, n) <=> n < eff /\ Bit(a, n + pos)
    <3>1. /\ And(right, mask) \in Nat /\ And(right, mask) \in 0 .. Two(Double) - 1
          /\ \A n \in Nat : Bit(And(right, mask), n) <=> n < Double /\ Bit(right, n) /\ Bit(mask, n)
      BY Zenon, LogicBits
    <3> QED BY Zenon, <2>2, <2>3, <2>4, <3>1
  <2>6. field \in 0 .. Two(w) - 1
    <3>1. \A n \in Nat : Bit(field, n) => n < w
      BY Zenon, <2>4, <2>5
    <3> QED BY <2>5, <3>1, BitsBelow
  <2>7. PICK top \in Nat : top = pos + eff - 1 /\ top = FieldTop(pos, len, w)
    BY <1>5, <2>1 DEF FieldTop
  <2>8. PICK s \in Nat : /\ s = Cut(-(ShiftRight(a, top) % 2), w)
                         /\ \A n \in Nat : Bit(s, n) <=> Bit(a, top) /\ n < w
    <3>1. /\ Cut(-(IF Bit(a, top) THEN 1 ELSE 0), w) \in Nat
          /\ \A n \in Nat : Bit(Cut(-(IF Bit(a, top) THEN 1 ELSE 0), w), n) <=> Bit(a, top) /\ n < w
      BY Zenon, SignWord
    <3> QED BY Zenon, <1>2, <2>7, <3>1
  <2>9. PICK moved \in Nat : /\ moved = ShiftLeft(s, eff, w)
                             /\ \A n \in Nat : Bit(moved, n) <=> n < w /\ eff <= n /\ Bit(a, top)
    <3>1. ShiftLeft(s, eff, w) \in Nat
      <4>1. PICK z \in Nat : z = 2 ^ eff
        BY TwoStep DEF Two
      <4>2. s * z \in Int
        OBVIOUS
      <4> QED BY Zenon, <4>1, <4>2, CutIs DEF ShiftLeft
    <3>2. \A n \in Nat : Bit(ShiftLeft(s, eff, w), n) <=> n < w /\ n >= eff /\ Bit(s, n - eff)
      BY BitOfLeft
    <3>3. \A n \in Nat : n < w /\ n >= eff => n - eff \in Nat /\ n - eff < w /\ eff <= n
      OBVIOUS
    <3>4. \A n \in Nat : eff <= n => n >= eff
      OBVIOUS
    <3> QED BY Zenon, <2>8, <3>1, <3>2, <3>3, <3>4
  <2>10. PICK both \in 0 .. Two(Double) - 1 :
           /\ both = Or(field, moved)
           /\ \A n \in Nat : Bit(both, n) <=> \/ n < eff /\ Bit(a, n + pos)
                                              \/ n < w /\ eff <= n /\ Bit(a, top)
    <3>0. field \in Nat
      BY <2>5
    <3>1. /\ Or(field, moved) \in 0 .. Two(Double) - 1
          /\ \A n \in Nat : Bit(Or(field, moved), n) <=> n < Double /\ (Bit(field, n) \/ Bit(moved, n))
      BY Zenon, <3>0, LogicBits
    <3> QED BY Zenon, <1>3, <2>4, <2>5, <2>9, <3>1
  <2>11. both \in 0 .. Two(w) - 1
    <3>1. \A n \in Nat : Bit(both, n) => n < w
      BY Zenon, <2>4, <2>10
    <3> QED BY <3>1, BitsBelow
  <2>12. MField(a, pos, len, w, signed) = IF ~signed \/ eff >= w THEN field ELSE both
    BY Zenon, <1>5, <2>1, <2>2, <2>3, <2>5, <2>7, <2>8, <2>9, <2>10 DEF MField
  <2>13. \A n \in Nat : n < w => /\ (n < eff <=> n < len /\ pos + n < w)
                                 /\ (eff <= n <=> ~(n < eff))
                                 /\ (eff >= w => n < eff)
                                 /\ n + pos = pos + n
                                 /\ n \in 0 .. w - 1
    BY <1>5, <2>1
  <2>14. HasBits(IF ~signed \/ eff >= w THEN field ELSE both, FieldBits(a, pos, len, w, signed), w)
    BY Zenon, <2>5, <2>7, <2>10, <2>13 DEF HasBits, FieldBits
  <2> QED BY Zenon, <2>6, <2>11, <2>12, <2>14
<1> QED BY <1>4, <1>5

LEMMA PositionIs ==
  ASSUME NEW o \in Operands, NEW f \in RegisterFiles, PositionFits(o), NEW w \in {Word, Double}
  PROVE  \E p \in Nat : /\ Operand(o, f) % FieldRange = p /\ LoadWide(o, f) % FieldRange = p
                        /\ Value(o, w, f) % FieldRange = p
<1>1. Word \in Nat /\ Double \in Nat /\ Word <= Double /\ FieldRange \in Nat \ {0}
      /\ w \in Nat /\ Word <= w
  BY WidthNumbers DEF FieldRange
<1>2. PICK m \in Nat \ {0} : m = FieldRange
  BY <1>1
<1>3. \A x \in Nat : x % m \in Nat
  BY <1>2, DivideBy
<1>4. CASE IsLiteral(o)
  <2>1. PICK x \in Nat : x = o.value /\ x \in 0 .. Ones(Word)
    BY <1>4 DEF PositionFits
  <2>2. Ones(Word) = Two(Word) - 1 /\ Two(Word) \in Nat
    BY <1>1, TwoStep DEF Ones, Two
  <2>3. Two(Word) <= Two(Double) /\ Two(Word) <= Two(w) /\ Two(Double) \in Nat /\ Two(w) \in Nat
    BY <1>1, TwoGrows, TwoStep
  <2>4. x \in 0 .. Two(Word) - 1 /\ x \in 0 .. Two(Double) - 1 /\ x \in 0 .. Two(w) - 1
    BY <2>1, <2>2, <2>3
  <2>5. Cut(x, Word) = x /\ Cut(x, Double) = x /\ Cut(x, w) = x
    BY Zenon, <1>1, <2>4, CutSmall
  <2>6. Operand(o, f) = x /\ LoadWide(o, f) = x /\ Value(o, w, f) = x
    BY Zenon, <1>4, <2>1, <2>5 DEF Operand, LoadWide, Value
  <2> QED BY Zenon, <1>2, <1>3, <2>6
<1>5. CASE ~IsLiteral(o)
  <2>1. o.name \in Registers
    BY <1>5 DEF PositionFits
  <2>2. f \in [Registers -> Nat]
    BY DEF RegisterFiles, Patterns, Two
  <2>3. PICK x \in Nat : x = f[o.name]
    BY <2>1, <2>2
  <2>4. Operand(o, f) = x /\ LoadWide(o, f) = x /\ Value(o, w, f) = x
    BY Zenon, <1>5, <2>3 DEF Operand, LoadWide, Value
  <2> QED BY Zenon, <1>2, <1>3, <1>5, <2>4
<1> QED BY Zenon, <1>4, <1>5

\* The operands of an instruction on bit fields.
LEMMA FieldOperands ==
  ASSUME NEW ins, IsInstruction(ins), NEW f \in RegisterFiles, NEW k \in {1, 2}, IsField(ins, k),
         NEW w \in Widths, w = ins.ty.width
  PROVE  /\ \A n \in 1 .. k : \E a \in Nat :
              /\ a \in 0 .. Two(w) - 1 /\ Operand(ins.src[n], f) = a
              /\ LoadWide(ins.src[n], f) = a /\ Value(ins.src[n], w, f) = a
         /\ \A n \in k + 1 .. k + 2 : \E p \in Nat :
              /\ Operand(ins.src[n], f) % FieldRange = p
              /\ LoadWide(ins.src[n], f) % FieldRange = p
              /\ Value(ins.src[n], w, f) % FieldRange = p
<1>1. Len(ins.src) = k + 2 /\ ins.src \in Seq(Operands) /\ w \in {Word, Double}
  BY DEF IsField, IsInstruction, Widths
<1>2. \A n \in 1 .. k + 2 : n \in 1 .. Len(ins.src) /\ ins.src[n] \in Operands
  BY <1>1
<1>3. ASSUME NEW n \in 1 .. k
      PROVE  \E a \in Nat :
               /\ a \in 0 .. Two(w) - 1 /\ Operand(ins.src[n], f) = a
               /\ LoadWide(ins.src[n], f) = a /\ Value(ins.src[n], w, f) = a
  <2>1. n \in 1 .. Len(ins.src)
    BY <1>2
  <2>2. ~IsLiteral(ins.src[n]) /\ OfWidth(ins.src[n], w)
    BY Zenon DEF IsField
  <2>3. PICK a \in Nat : Holds(ins, n, f, w, a)
    <3>1. \E v \in Nat : Holds(ins, n, f, w, v)
      BY Zenon, <2>1, <2>2, SourceIs
    <3> QED BY Zenon, <3>1
  <2>4. /\ a \in 0 .. Two(w) - 1 /\ Operand(ins.src[n], f) = a
        /\ LoadWide(ins.src[n], f) = a /\ Value(ins.src[n], w, f) = a
    BY Zenon, <2>2, <2>3 DEF Holds, LoadWide
  <2> QED BY Zenon, <2>4
<1>4. ASSUME NEW n \in k + 1 .. k + 2
      PROVE  \E p \in Nat :
              /\ Operand(ins.src[n], f) % FieldRange = p
              /\ LoadWide(ins.src[n], f) % FieldRange = p
              /\ Value(ins.src[n], w, f) % FieldRange = p
  <2>1. ins.src[n] \in Operands
    BY <1>2
  <2>2. PositionFits(ins.src[n])
    BY Zenon DEF IsField
  <2> QED BY Zenon, <1>1, <2>1, <2>2, PositionIs
<1> QED BY Zenon, <1>3, <1>4

LEMMA Extracts ==
  ASSUME NEW ins, IsInstruction(ins), NEW f \in RegisterFiles, NEW K,
         ins.op = "bfe", IsField(ins, 1)
  PROVE  \E v \in Nat : AllAnswer(ins, f, K, v)
<1>1. PICK w \in Widths : w = ins.ty.width /\ w \in Nat /\ w >= 1 /\ w <= Double
  BY TypeWidth, WidthNumbers
<1>2. Width[ins.dst] = w
  BY Zenon, <1>1 DEF IsField
<1>3. 1 \in {1, 2} /\ 1 \in 1 .. 1 /\ 2 \in 1 + 1 .. 1 + 2 /\ 3 \in 1 + 1 .. 1 + 2
  OBVIOUS
<1>4. /\ \A n \in 1 .. 1 : \E a \in Nat :
           /\ a \in 0 .. Two(w) - 1 /\ Operand(ins.src[n], f) = a
           /\ LoadWide(ins.src[n], f) = a /\ Value(ins.src[n], w, f) = a
      /\ \A n \in 1 + 1 .. 1 + 2 : \E p \in Nat :
           /\ Operand(ins.src[n], f) % FieldRange = p
           /\ LoadWide(ins.src[n], f) % FieldRange = p
           /\ Value(ins.src[n], w, f) % FieldRange = p
  BY <1>1, <1>3, FieldOperands
<1>5. PICK a \in Nat, pos \in Nat, len \in Nat :
        /\ a \in 0 .. Two(w) - 1 /\ Operand(ins.src[1], f) = a
        /\ LoadWide(ins.src[1], f) = a /\ Value(ins.src[1], w, f) = a
        /\ Operand(ins.src[2], f) % FieldRange = pos /\ LoadWide(ins.src[2], f) % FieldRange = pos
        /\ Value(ins.src[2], w, f) % FieldRange = pos
        /\ Operand(ins.src[3], f) % FieldRange = len /\ LoadWide(ins.src[3], f) % FieldRange = len
        /\ Value(ins.src[3], w, f) % FieldRange = len
  BY Zenon, <1>3, <1>4
<1>6. PICK signed \in BOOLEAN : signed = IsSigned(ins.ty)
  BY DEF IsSigned
<1>7. InterpValue(ins, f) = IExtract(ins, f)
  BY DEF InterpValue
<1>8. LlvmValue(ins, f) = LExtract(ins, f)
  BY DEF LlvmValue
<1>9. MlirValue(ins, f, K) = MExtract(ins, f, K)
  BY DEF MlirValue
<1>10. IExtract(ins, f) =
         IF len = 0 THEN 0
         ELSE Bits2Value({n \in 0 .. (w - 1) :
                IF n < len /\ pos + n < w THEN (pos + n) \in Ones2Bits(a)
                ELSE signed /\ Min({pos + len - 1, w - 1}) \in Ones2Bits(a)})
  BY Zenon, <1>2, <1>5, <1>6 DEF IExtract
<1>11. \/ LExtract(ins, f) = Refused
       \/ LExtract(ins, f) = IF len = 0 THEN 0 ELSE Cut(LField(a, pos, len, w, signed), w)
  BY Zenon, <1>2, <1>5, <1>6 DEF LExtract, LField
<1>12. \/ MExtract(ins, f, K) = Refused
       \/ MExtract(ins, f, K) = IF len = 0 THEN 0 ELSE MField(a, pos, len, w, signed)
  BY Zenon, <1>2, <1>5, <1>6 DEF MExtract, MField
<1>13. CASE len = 0
  <2>1. 0 \in Nat /\ 0 \in 0 .. Two(w) - 1
    BY <1>1, TwoStep
  <2> QED BY Zenon, <1>2, <1>7, <1>8, <1>9, <1>10, <1>11, <1>12, <1>13, <2>1 DEF AllAnswer, Answer
<1>14. CASE len # 0
  <2> DEFINE S == FieldBits(a, pos, len, w, signed)
  <2>1. S \in SUBSET (0 .. w - 1)
    BY DEF FieldBits
  <2>2. LField(a, pos, len, w, signed) \in Nat /\ HasBits(LField(a, pos, len, w, signed), S, w)
    BY <1>1, <1>5, <1>14, LFieldIs
  <2>3. MField(a, pos, len, w, signed) \in 0 .. Two(w) - 1 /\ HasBits(MField(a, pos, len, w, signed), S, w)
    BY <1>1, <1>5, <1>14, MFieldIs
  <2>4. {n \in 0 .. (w - 1) :
                IF n < len /\ pos + n < w THEN (pos + n) \in Ones2Bits(a)
                ELSE signed /\ Min({pos + len - 1, w - 1}) \in Ones2Bits(a)} = S
    <3>1. \A n \in 0 .. Double - 1 : n \in Ones2Bits(a) <=> Bit(a, n)
      BY <1>5, BitsAre
    <3>2. Min({pos + len - 1, w - 1}) = FieldTop(pos, len, w)
      <4>1. pos + len - 1 \in Int /\ w - 1 \in Int
        BY <1>1
      <4> QED BY Zenon, <4>1, SmallerIs DEF FieldTop
    <3>3. FieldTop(pos, len, w) \in 0 .. Double - 1
      BY <1>1, <1>14, WidthNumbers DEF FieldTop
    <3>4. \A n \in 0 .. w - 1 : pos + n < w => pos + n \in 0 .. Double - 1
      BY <1>1, WidthNumbers
    <3> QED BY Zenon, <3>1, <3>2, <3>3, <3>4 DEF FieldBits
  <2> HIDE DEF S
  <2>5. PICK L \in Nat : L = LField(a, pos, len, w, signed) /\ HasBits(L, S, w)
    BY <2>2
  <2>6. PICK M \in Nat : M = MField(a, pos, len, w, signed) /\ HasBits(M, S, w) /\ M \in 0 .. Two(w) - 1
    BY <1>1, <2>3, TwoStep
  <2>7. Bits2Value(S) \in 0 .. Two(w) - 1 /\ Cut(L, w) = Bits2Value(S)
    BY <1>1, <2>1, <2>5, BitsDetermine
  <2>8. M = Bits2Value(S)
    BY <1>1, <2>1, <2>6, BitsDetermine
  <2>9. Bits2Value(S) \in Nat
    BY <1>1, <2>7, TwoStep
  <2> QED BY Zenon, <1>2, <1>7, <1>8, <1>9, <1>10, <1>11, <1>12, <1>14, <2>4, <2>5, <2>6, <2>7,
             <2>8, <2>9 DEF AllAnswer, Answer
<1> QED BY <1>13, <1>14

\* The bits that bfi gives: those of the first operand moved to the field, and
\* around them those of the second.
InsertedBits(a, b, pos, len, w) ==
  {n \in 0 .. w - 1 : IF n \in pos .. (pos + len - 1) THEN Bit(a, n - pos) ELSE Bit(b, n)}

\* The mask on two paths, and what the paths make of it.
LMask(pos, len, w) ==
  LET ones == IF len >= w THEN Ones(Double) ELSE 2 ^ Min({len, w - 1}) - 1
      fits == pos < w
      safe == IF fits THEN pos ELSE 0
  IN  IF fits THEN ShiftLeft(ones, safe, Double) ELSE 0
LInserted(a, b, pos, len, w) ==
  LET safe == IF pos < w THEN pos ELSE 0
  IN  Or(And(b, Not(LMask(pos, len, w), Double)),
         And(ShiftLeft(a, safe, Double), LMask(pos, len, w)))
MInserted(a, b, pos, len, w) ==
  LET effective == IF pos >= w THEN 0 ELSE Min({len, w - pos})
      mask == ShiftLeft(2 ^ effective - 1, pos, w)
  IN  IF effective = 0 THEN b
      ELSE Or(And(b, Xor(mask, Ones(w))), And(ShiftLeft(a, pos, w), mask))

LEMMA ShiftedLeft ==
  ASSUME NEW v \in Nat, NEW k \in Nat, NEW w \in Nat
  PROVE  /\ ShiftLeft(v, k, w) \in Nat
         /\ \A n \in Nat : Bit(ShiftLeft(v, k, w), n) <=> n < w /\ k <= n /\ Bit(v, n - k)
<1>1. ShiftLeft(v, k, w) \in Nat
  <2>1. PICK z \in Nat : z = 2 ^ k
    BY TwoStep DEF Two
  <2>2. v * z \in Int
    OBVIOUS
  <2> QED BY Zenon, <2>1, <2>2, CutIs DEF ShiftLeft
<1>2. \A n \in Nat : Bit(ShiftLeft(v, k, w), n) <=> n < w /\ n >= k /\ Bit(v, n - k)
  BY BitOfLeft
<1>3. \A n \in Nat : n >= k <=> k <= n
  OBVIOUS
<1> QED BY Zenon, <1>1, <1>2, <1>3

LEMMA LMaskIs ==
  ASSUME NEW w \in Nat, w >= 1, w <= Double, NEW pos \in Nat, NEW len \in Nat
  PROVE  /\ LMask(pos, len, w) \in Nat
         /\ \A n \in Nat : n < w => (Bit(LMask(pos, len, w), n) <=> n \in pos .. (pos + len - 1))
<1>1. Double \in Nat
  BY WidthNumbers
<1>2. CASE pos < w
  <2>1. PICK ones \in Nat : /\ ones = IF len >= w THEN Ones(Double) ELSE 2 ^ Min({len, w - 1}) - 1
                            /\ \A n \in Nat : n < w => (Bit(ones, n) <=> n < len)
    <3>1. CASE len >= w
      <4>1. Ones(Double) \in Nat /\ \A n \in Nat : Bit(Ones(Double), n) <=> n < Double
        BY <1>1, MaskIs
      <4>2. \A n \in Nat : n < w => n < Double /\ n < len
        BY <1>1, <3>1
      <4> QED BY Zenon, <3>1, <4>1, <4>2
    <3>2. CASE ~(len >= w)
      <4>1. w - 1 \in Int /\ len \in Int /\ len <= w - 1
        BY <3>2
      <4>2. Min({len, w - 1}) = len
        BY <4>1, SmallerIs
      <4>3. 2 ^ len - 1 = Ones(len) /\ Ones(len) \in Nat /\ \A n \in Nat : Bit(Ones(len), n) <=> n < len
        BY MaskIs
      <4> QED BY Zenon, <3>2, <4>2, <4>3
    <3> QED BY Zenon, <3>1, <3>2
  <2>2. PICK mask \in Nat :
          /\ mask = ShiftLeft(ones, pos, Double)
          /\ \A n \in Nat : Bit(mask, n) <=> n < Double /\ pos <= n /\ Bit(ones, n - pos)
    BY Zenon, <1>1, ShiftedLeft
  <2>3. \A n \in Nat : n < w => n < Double /\ (pos <= n => n - pos \in Nat /\ n - pos < w)
                                /\ (n \in pos .. (pos + len - 1) <=> pos <= n /\ n - pos < len)
    BY <1>1
  <2>4. \A n \in Nat : n < w => (Bit(mask, n) <=> n \in pos .. (pos + len - 1))
    BY Zenon, <2>1, <2>2, <2>3
  <2>5. mask = LMask(pos, len, w)
    BY Zenon, <1>2, <2>1, <2>2 DEF LMask
  <2> QED BY Zenon, <2>4, <2>5
<1>3. CASE ~(pos < w)
  <2>1. LMask(pos, len, w) = 0 /\ 0 \in Nat /\ 0 \in 0 .. Two(0) - 1
    BY <1>3, TwoZero DEF LMask
  <2>2. \A n \in Nat : ~Bit(0, n)
    BY <2>1, NoBitsAbove
  <2>3. \A n \in Nat : n < w => n \notin pos .. (pos + len - 1)
    BY <1>3
  <2> QED BY Zenon, <2>1, <2>2, <2>3
<1> QED BY Zenon, <1>2, <1>3

LEMMA LInsertedIs ==
  ASSUME NEW w \in Nat, w >= 1, w <= Double, NEW a \in Nat, NEW b \in Nat,
         NEW pos \in Nat, NEW len \in Nat
  PROVE  /\ LInserted(a, b, pos, len, w) \in Nat
         /\ HasBits(LInserted(a, b, pos, len, w), InsertedBits(a, b, pos, len, w), w)
<1>1. Double \in Nat /\ \A n \in Nat : n < w => n < Double /\ n \in 0 .. w - 1
  BY WidthNumbers
<1>2. PICK mask \in Nat :
        /\ mask = LMask(pos, len, w)
        /\ \A n \in Nat : n < w => (Bit(mask, n) <=> n \in pos .. (pos + len - 1))
  BY LMaskIs
<1>3. PICK safe \in Nat : safe = IF pos < w THEN pos ELSE 0
  OBVIOUS
<1>4. PICK rest \in Nat : /\ rest = Not(mask, Double)
                          /\ \A n \in Nat : Bit(rest, n) <=> n < Double /\ ~Bit(mask, n)
  <2>1. \A n \in Nat : /\ Not(mask, Double) \in 0 .. Two(Double) - 1
                       /\ Bit(Not(mask, Double), n) <=> n < Double /\ ~Bit(mask, n)
    BY <1>1, BitOfNot
  <2>2. 0 \in Nat
    OBVIOUS
  <2>3. Not(mask, Double) \in 0 .. Two(Double) - 1
    BY Zenon, <2>1, <2>2
  <2>4. Not(mask, Double) \in Nat
    BY <1>1, <2>3, TwoStep
  <2> QED BY Zenon, <2>1, <2>4
<1>5. PICK moved \in Nat :
        /\ moved = ShiftLeft(a, safe, Double)
        /\ \A n \in Nat : Bit(moved, n) <=> n < Double /\ safe <= n /\ Bit(a, n - safe)
  BY Zenon, <1>1, ShiftedLeft
<1>6. PICK around \in Nat : /\ around = And(b, rest)
                            /\ \A n \in Nat : Bit(around, n) <=> n < Double /\ Bit(b, n) /\ Bit(rest, n)
  <2>1. /\ And(b, rest) \in Nat
        /\ \A n \in Nat : Bit(And(b, rest), n) <=> n < Double /\ Bit(b, n) /\ Bit(rest, n)
    BY Zenon, LogicBits
  <2> QED BY Zenon, <2>1
<1>7. PICK field \in Nat : /\ field = And(moved, mask)
                           /\ \A n \in Nat : Bit(field, n) <=> n < Double /\ Bit(moved, n) /\ Bit(mask, n)
  <2>1. /\ And(moved, mask) \in Nat
        /\ \A n \in Nat : Bit(And(moved, mask), n) <=> n < Double /\ Bit(moved, n) /\ Bit(mask, n)
    BY Zenon, LogicBits
  <2> QED BY Zenon, <2>1
<1>8. PICK V \in Nat : /\ V = Or(around, field)
                       /\ \A n \in Nat : Bit(V, n) <=> n < Double /\ (Bit(around, n) \/ Bit(field, n))
  <2>1. /\ Or(around, field) \in Nat
        /\ \A n \in Nat : Bit(Or(around, field), n) <=> n < Double /\ (Bit(around, n) \/ Bit(field, n))
    BY Zenon, LogicBits
  <2> QED BY Zenon, <2>1
<1>9. V = LInserted(a, b, pos, len, w)
  BY Zenon, <1>2, <1>3, <1>4, <1>5, <1>6, <1>7, <1>8 DEF LInserted
<1>10. \A n \in Nat : n < w /\ n \in pos .. (pos + len - 1) => safe = pos /\ safe <= n
  BY <1>3
<1>11. HasBits(V, InsertedBits(a, b, pos, len, w), w)
  <2> SUFFICES ASSUME NEW n \in Nat, n < w
               PROVE  Bit(V, n) <=> n \in InsertedBits(a, b, pos, len, w)
    BY DEF HasBits
  <2>1. n < Double /\ n \in 0 .. w - 1
    BY <1>1
  <2>2. Bit(mask, n) <=> n \in pos .. (pos + len - 1)
    BY <1>2
  <2>3. CASE n \in pos .. (pos + len - 1)
    <3>1. n \in InsertedBits(a, b, pos, len, w) <=> Bit(a, n - pos)
      BY Zenon, <2>1, <2>3 DEF InsertedBits
    <3>2. Bit(V, n) <=> Bit(moved, n)
      BY Zenon, <1>4, <1>6, <1>7, <1>8, <2>1, <2>2, <2>3
    <3> QED BY Zenon, <1>5, <1>10, <2>1, <2>3, <3>1, <3>2
  <2>4. CASE n \notin pos .. (pos + len - 1)
    <3>1. n \in InsertedBits(a, b, pos, len, w) <=> Bit(b, n)
      BY Zenon, <2>1, <2>4 DEF InsertedBits
    <3> QED BY Zenon, <1>4, <1>6, <1>7, <1>8, <2>1, <2>2, <2>4, <3>1
  <2> QED BY Zenon, <2>3, <2>4
<1> QED BY Zenon, <1>9, <1>11

LEMMA MInsertedIs ==
  ASSUME NEW w \in Nat, w >= 1, w <= Double, NEW a \in Nat, NEW b \in 0 .. Two(w) - 1,
         NEW pos \in Nat, NEW len \in Nat
  PROVE  /\ MInserted(a, b, pos, len, w) \in 0 .. Two(w) - 1
         /\ HasBits(MInserted(a, b, pos, len, w), InsertedBits(a, b, pos, len, w), w)
<1>1. Double \in Nat /\ b \in Nat /\ \A n \in Nat : n < w => n < Double /\ n \in 0 .. w - 1
  BY WidthNumbers, TwoStep
<1>2. PICK eff \in Nat : /\ eff = IF pos >= w THEN 0 ELSE Min({len, w - pos})
                         /\ \A n \in Nat : n < w => (n \in pos .. (pos + len - 1) <=> pos <= n /\ n - pos < eff)
  <2>1. CASE pos >= w
    <3>1. 0 \in Nat /\ \A n \in Nat : n < w => ~(n \in pos .. (pos + len - 1)) /\ ~(pos <= n)
      BY <2>1
    <3> QED BY Zenon, <2>1, <3>1
  <2>2. CASE ~(pos >= w)
    <3>4. w - pos \in Nat
      BY <2>2
    <3>1. PICK e \in Nat : e = IF len <= w - pos THEN len ELSE w - pos
      BY <3>4
    <3>2. \A n \in Nat : n < w => (n \in pos .. (pos + len - 1) <=> pos <= n /\ n - pos < e)
      BY <2>2, <3>1
    <3>3. Min({len, w - pos}) = e
      <4>1. w - pos \in Int /\ len \in Int
        OBVIOUS
      <4> QED BY Zenon, <3>1, <4>1, SmallerIs
    <3> QED BY Zenon, <2>2, <3>2, <3>3
  <2> QED BY Zenon, <2>1, <2>2
<1>3. CASE eff = 0
  <2>1. MInserted(a, b, pos, len, w) = b
    BY Zenon, <1>2, <1>3 DEF MInserted
  <2>2. \A n \in Nat : n < w => n \notin pos .. (pos + len - 1)
    <3>1. \A n \in Nat : pos <= n => ~(n - pos < eff)
      BY <1>3
    <3> QED BY Zenon, <1>2, <3>1
  <2>3. HasBits(b, InsertedBits(a, b, pos, len, w), w)
    BY Zenon, <1>1, <2>2 DEF HasBits, InsertedBits
  <2> QED BY Zenon, <2>1, <2>3
<1>4. CASE eff # 0
  <2>1. PICK ones \in Nat : ones = 2 ^ eff - 1 /\ \A n \in Nat : Bit(ones, n) <=> n < eff
    BY Zenon, <1>2, MaskIs
  <2>2. PICK mask \in Nat :
          /\ mask = ShiftLeft(ones, pos, w)
          /\ \A n \in Nat : Bit(mask, n) <=> n < w /\ pos <= n /\ Bit(ones, n - pos)
    BY Zenon, <1>1, ShiftedLeft
  <2>3. \A n \in Nat : Bit(mask, n) <=> n < w /\ n \in pos .. (pos + len - 1)
    <3>1. \A n \in Nat : pos <= n => n - pos \in Nat
      OBVIOUS
    <3> QED BY Zenon, <1>2, <2>1, <2>2, <3>1
  <2>4. PICK o \in Nat : o = Ones(w) /\ \A n \in Nat : Bit(o, n) <=> n < w
    BY MaskIs
  <2>5. PICK rest \in Nat : /\ rest = Xor(mask, o)
                            /\ \A n \in Nat : Bit(rest, n) <=> n < Double /\ ~(Bit(mask, n) <=> Bit(o, n))
    <3>1. /\ Xor(mask, o) \in Nat
          /\ \A n \in Nat : Bit(Xor(mask, o), n) <=> n < Double /\ ~(Bit(mask, n) <=> Bit(o, n))
      BY Zenon, LogicBits
    <3> QED BY Zenon, <3>1
  <2>6. PICK moved \in Nat :
          /\ moved = ShiftLeft(a, pos, w)
          /\ \A n \in Nat : Bit(moved, n) <=> n < w /\ pos <= n /\ Bit(a, n - pos)
    BY Zenon, <1>1, ShiftedLeft
  <2>7. PICK around \in Nat : /\ around = And(b, rest)
                              /\ \A n \in Nat : Bit(around, n) <=> n < Double /\ Bit(b, n) /\ Bit(rest, n)
    <3>1. /\ And(b, rest) \in Nat
          /\ \A n \in Nat : Bit(And(b, rest), n) <=> n < Double /\ Bit(b, n) /\ Bit(rest, n)
      BY Zenon, <1>1, LogicBits
    <3> QED BY Zenon, <3>1
  <2>8. PICK field \in Nat : /\ field = And(moved, mask)
                             /\ \A n \in Nat : Bit(field, n) <=> n < Double /\ Bit(moved, n) /\ Bit(mask, n)
    <3>1. /\ And(moved, mask) \in Nat
          /\ \A n \in Nat : Bit(And(moved, mask), n) <=> n < Double /\ Bit(moved, n) /\ Bit(mask, n)
      BY Zenon, LogicBits
    <3> QED BY Zenon, <3>1
  <2>9. PICK V \in Nat : /\ V = Or(around, field) /\ V \in 0 .. Two(Double) - 1
                         /\ \A n \in Nat : Bit(V, n) <=> n < Double /\ (Bit(around, n) \/ Bit(field, n))
    <3>1. /\ Or(around, field) \in Nat /\ Or(around, field) \in 0 .. Two(Double) - 1
          /\ \A n \in Nat : Bit(Or(around, field), n) <=> n < Double /\ (Bit(around, n) \/ Bit(field, n))
      BY Zenon, LogicBits
    <3> QED BY Zenon, <3>1
  <2>10. V = MInserted(a, b, pos, len, w)
    BY Zenon, <1>2, <1>4, <2>1, <2>2, <2>4, <2>5, <2>6, <2>7, <2>8, <2>9 DEF MInserted
  <2>11. \A n \in Nat : Bit(b, n) => n < w
    BY NoBitsAbove
  <2>12. \A n \in Nat : Bit(V, n) => n < w
    BY Zenon, <2>6, <2>7, <2>8, <2>9, <2>11
  <2>13. V \in 0 .. Two(w) - 1
    BY <2>9, <2>12, BitsBelow
  <2>14. \A n \in Nat : n < w /\ n \in pos .. (pos + len - 1) => pos <= n
    OBVIOUS
  <2>15. HasBits(V, InsertedBits(a, b, pos, len, w), w)
    <3> SUFFICES ASSUME NEW n \in Nat, n < w
                 PROVE  Bit(V, n) <=> n \in InsertedBits(a, b, pos, len, w)
      BY DEF HasBits
    <3>1. n < Double /\ n \in 0 .. w - 1
      BY <1>1
    <3>2. Bit(mask, n) <=> n \in pos .. (pos + len - 1)
      BY <2>3
    <3>3. CASE n \in pos .. (pos + len - 1)
      <4>1. n \in InsertedBits(a, b, pos, len, w) <=> Bit(a, n - pos)
        BY Zenon, <3>1, <3>3 DEF InsertedBits
      <4>2. Bit(V, n) <=> Bit(moved, n)
        BY Zenon, <2>4, <2>5, <2>7, <2>8, <2>9, <3>1, <3>2, <3>3
      <4> QED BY Zenon, <2>6, <2>14, <3>3, <4>1, <4>2
    <3>4. CASE n \notin pos .. (pos + len - 1)
      <4>1. n \in InsertedBits(a, b, pos, len, w) <=> Bit(b, n)
        BY Zenon, <3>1, <3>4 DEF InsertedBits
      <4> QED BY Zenon, <2>4, <2>5, <2>7, <2>8, <2>9, <3>1, <3>2, <3>4, <4>1
    <3> QED BY Zenon, <3>3, <3>4
  <2> QED BY Zenon, <2>10, <2>13, <2>15
<1> QED BY Zenon, <1>3, <1>4

LEMMA Inserts ==
  ASSUME NEW ins, IsInstruction(ins), NEW f \in RegisterFiles, NEW K,
         ins.op = "bfi", IsField(ins, 2)
  PROVE  \E v \in Nat : AllAnswer(ins, f, K, v)
<1>1. PICK w \in Widths : w = ins.ty.width /\ w \in Nat /\ w >= 1 /\ w <= Double
  BY TypeWidth, WidthNumbers
<1>2. Width[ins.dst] = w
  BY Zenon, <1>1 DEF IsField
<1>3. 2 \in {1, 2} /\ 1 \in 1 .. 2 /\ 2 \in 1 .. 2 /\ 3 \in 2 + 1 .. 2 + 2 /\ 4 \in 2 + 1 .. 2 + 2
  OBVIOUS
<1>4. /\ \A n \in 1 .. 2 : \E a \in Nat :
           /\ a \in 0 .. Two(w) - 1 /\ Operand(ins.src[n], f) = a
           /\ LoadWide(ins.src[n], f) = a /\ Value(ins.src[n], w, f) = a
      /\ \A n \in 2 + 1 .. 2 + 2 : \E p \in Nat :
           /\ Operand(ins.src[n], f) % FieldRange = p
           /\ LoadWide(ins.src[n], f) % FieldRange = p
           /\ Value(ins.src[n], w, f) % FieldRange = p
  BY <1>1, <1>3, FieldOperands
<1>5. PICK a \in Nat, b \in Nat, pos \in Nat, len \in Nat :
        /\ Operand(ins.src[1], f) = a
        /\ LoadWide(ins.src[1], f) = a /\ Value(ins.src[1], w, f) = a
        /\ b \in 0 .. Two(w) - 1 /\ Operand(ins.src[2], f) = b
        /\ LoadWide(ins.src[2], f) = b /\ Value(ins.src[2], w, f) = b
        /\ Operand(ins.src[3], f) % FieldRange = pos /\ LoadWide(ins.src[3], f) % FieldRange = pos
        /\ Value(ins.src[3], w, f) % FieldRange = pos
        /\ Operand(ins.src[4], f) % FieldRange = len /\ LoadWide(ins.src[4], f) % FieldRange = len
        /\ Value(ins.src[4], w, f) % FieldRange = len
  BY Zenon, <1>3, <1>4
<1>6. InterpValue(ins, f) = IInsert(ins, f)
  BY DEF InterpValue
<1>7. LlvmValue(ins, f) = LInsert(ins, f)
  BY DEF LlvmValue
<1>8. MlirValue(ins, f, K) = MInsert(ins, f, K)
  BY DEF MlirValue
<1>9. IInsert(ins, f) =
        Bits2Value({n \in 0 .. (w - 1) :
          IF n \in pos .. (pos + len - 1) THEN (n - pos) \in Ones2Bits(a) ELSE n \in Ones2Bits(b)})
  BY Zenon, <1>2, <1>5 DEF IInsert
<1>10. \/ LInsert(ins, f) = Refused
       \/ LInsert(ins, f) = Cut(LInserted(a, b, pos, len, w), w)
  BY Zenon, <1>2, <1>5 DEF LInsert, LInserted, LMask
<1>11. \/ MInsert(ins, f, K) = Refused
       \/ MInsert(ins, f, K) = MInserted(a, b, pos, len, w)
  <2>1. PICK refused \in BOOLEAN :
          refused <=> \/ ~IsConstant(ins.src[3], K) \/ ~IsConstant(ins.src[4], K)
                      \/ ~SameType([ins EXCEPT !.src = SubSeq(@, 1, 2)], w)
    OBVIOUS
  <2>2. /\ Value(ins.src[1], w, f) = a /\ Value(ins.src[2], w, f) = b
        /\ Value(ins.src[3], w, f) % FieldRange = pos
        /\ Value(ins.src[4], w, f) % FieldRange = len
    BY Zenon, <1>5
  <2>3. MInsert(ins, f, K) = IF refused THEN Refused ELSE MInserted(a, b, pos, len, w)
    BY Zenon, <1>2, <2>1, <2>2 DEF MInsert, MInserted
  <2> QED BY <2>3
<1> DEFINE S == InsertedBits(a, b, pos, len, w)
<1>12. S \in SUBSET (0 .. w - 1)
  BY DEF InsertedBits
<1>13. LInserted(a, b, pos, len, w) \in Nat /\ HasBits(LInserted(a, b, pos, len, w), S, w)
  BY <1>1, LInsertedIs
<1>14. MInserted(a, b, pos, len, w) \in 0 .. Two(w) - 1 /\ HasBits(MInserted(a, b, pos, len, w), S, w)
  BY <1>1, <1>5, MInsertedIs
<1>15. {n \in 0 .. (w - 1) :
          IF n \in pos .. (pos + len - 1) THEN (n - pos) \in Ones2Bits(a) ELSE n \in Ones2Bits(b)} = S
  <2>1. \A n \in 0 .. Double - 1 : n \in Ones2Bits(a) <=> Bit(a, n)
    BY <1>5, BitsAre
  <2>2. \A n \in 0 .. Double - 1 : n \in Ones2Bits(b) <=> Bit(b, n)
    BY <1>5, BitsAre
  <2>3. \A n \in 0 .. w - 1 : n \in 0 .. Double - 1
                              /\ (n \in pos .. (pos + len - 1) => n - pos \in 0 .. Double - 1)
    BY <1>1, WidthNumbers
  <2> QED BY Zenon, <2>1, <2>2, <2>3 DEF InsertedBits
<1> HIDE DEF S
<1>16. PICK L \in Nat : L = LInserted(a, b, pos, len, w) /\ HasBits(L, S, w)
  BY <1>13
<1>17. PICK M \in Nat : M = MInserted(a, b, pos, len, w) /\ HasBits(M, S, w) /\ M \in 0 .. Two(w) - 1
  BY <1>1, <1>14, TwoStep
<1>18. Bits2Value(S) \in 0 .. Two(w) - 1 /\ Cut(L, w) = Bits2Value(S)
  BY <1>1, <1>12, <1>16, BitsDetermine
<1>19. M = Bits2Value(S)
  BY <1>1, <1>12, <1>17, BitsDetermine
<1>20. Bits2Value(S) \in Nat
  BY <1>1, <1>18, TwoStep
<1> QED BY Zenon, <1>2, <1>6, <1>7, <1>8, <1>9, <1>10, <1>11, <1>15, <1>16, <1>17, <1>18, <1>19,
           <1>20 DEF AllAnswer, Answer

-----------------------------------------------------------------------------
\* Sums of registers of any width: the MLIR front end refuses what is not of
\* the width of the type.
LEMMA RegisterSums ==
  ASSUME NEW ins, IsInstruction(ins), NEW f \in RegisterFiles, NEW K,
         ins.op \in {"add", "sub"}, Width[ins.dst] = ins.ty.width,
         Len(ins.src) = 2, \A n \in 1 .. 2 : IsRegister(ins.src[n])
  PROVE  \E v \in Nat : AllAnswer(ins, f, K, v)
<1>1. PICK w \in Widths : w = ins.ty.width /\ w \in Nat
  BY TypeWidth, WidthNumbers
<1>2. 1 \in 1 .. 2 /\ 2 \in 1 .. 2
  OBVIOUS
<1>3. ~IsLiteral(ins.src[1]) /\ ~IsLiteral(ins.src[2])
      /\ ins.src[1].name \in Registers /\ ins.src[2].name \in Registers
  BY Zenon, <1>2 DEF IsRegister
<1>4. f \in [Registers -> Nat]
  BY DEF RegisterFiles
<1>5. PICK a \in Nat, b \in Nat : a = f[ins.src[1].name] /\ b = f[ins.src[2].name]
  BY <1>3, <1>4
<1>6. PICK c \in Nat, d \in Nat : /\ c = Cut(a, w) /\ d = Cut(b, w)
                                  /\ Like(a, c, w) /\ Like(b, d, w)
  <2>1. a \in Int /\ b \in Int
    OBVIOUS
  <2> QED BY Zenon, <1>1, <2>1, CutIs
<1>7. PICK x \in Int, y \in Int :
        /\ x = IF ins.op = "add" THEN a + b ELSE a - b
        /\ y = IF ins.op = "add" THEN c + d ELSE c - d
        /\ Like(x, y, w)
  <2>1. a \in Int /\ b \in Int /\ c \in Int /\ d \in Int
        /\ a + b \in Int /\ c + d \in Int /\ a - b \in Int /\ c - d \in Int
    OBVIOUS
  <2>3. Like(a + b, c + d, w) /\ Like(a - b, c - d, w)
    BY Zenon, <1>1, <1>6, <2>1, LikeTogether
  <2> QED BY Zenon, <2>1, <2>3
<1>8. PICK v \in Nat : v \in 0 .. Two(w) - 1 /\ v = Cut(x, w) /\ v = Cut(y, w)
  <2>1. Cut(x, w) = Cut(y, w)
    BY <1>1, <1>7, CutSame
  <2> QED BY Zenon, <1>1, <1>7, <2>1, CutIs
<1>9. Width[ins.dst] = w
  BY <1>1
<1>10. Operand(ins.src[1], f) = a /\ Operand(ins.src[2], f) = b
       /\ Load(ins.src[1], w, f) = a /\ Load(ins.src[2], w, f) = b
       /\ Value(ins.src[1], w, f) = a /\ Value(ins.src[2], w, f) = b
  BY Zenon, <1>3, <1>5 DEF Operand, Load, Value
<1>11. Answer(InterpValue(ins, f), v)
  <2>1. InterpValue(ins, f) = IAddSub(ins, f)
    BY DEF InterpValue
  <2>2. IAddSub(ins, f) = Refused \/ IAddSub(ins, f) = Cut(x, w)
    BY Zenon, <1>1, <1>7, <1>10 DEF IAddSub
  <2> QED BY Zenon, <1>8, <2>1, <2>2 DEF Answer
<1>12. Answer(LlvmValue(ins, f), v)
  <2>1. LlvmValue(ins, f) = LAddSub(ins, f)
    BY DEF LlvmValue
  <2>2. LAddSub(ins, f) = Refused \/ LAddSub(ins, f) = Cut(y, w)
    BY Zenon, <1>6, <1>7, <1>9, <1>10 DEF LAddSub
  <2> QED BY Zenon, <1>8, <2>1, <2>2 DEF Answer
<1>13. Answer(MlirValue(ins, f, K), v)
  <2>1. MlirValue(ins, f, K) = MBinary(ins, f)
    BY DEF MlirValue
  <2>2. \/ MBinary(ins, f) = Refused
        \/ MBinary(ins, f) = IF ins.op = "add" THEN Cut(a + b, w) ELSE Cut(a - b, w)
    BY <1>9, <1>10 DEF MBinary
  <2> QED BY Zenon, <1>7, <1>8, <2>1, <2>2 DEF Answer
<1> QED BY Zenon, <1>8, <1>9, <1>11, <1>12, <1>13 DEF AllAnswer

\* Every instruction of the class has one answer.
LEMMA AgreedAnswer ==
  ASSUME NEW ins, Agreed(ins), NEW f \in RegisterFiles, NEW K
  PROVE  \E v \in Nat : AllAnswer(ins, f, K, v)
<1>1. IsInstruction(ins)
  BY Zenon DEF Agreed
<1>2. CASE Width[ins.dst] = ins.ty.width /\ AgreedSums(ins)
  <2>1. CASE Sized(ins, 2)
    BY <1>1, <1>2, <2>1, AddSub DEF AgreedSums
  <2>2. CASE Len(ins.src) = 2 /\ \A n \in 1 .. 2 : IsRegister(ins.src[n])
    BY <1>1, <1>2, <2>2, RegisterSums DEF AgreedSums
  <2> QED BY Zenon, <1>2, <2>1, <2>2 DEF AgreedSums
<1>3. CASE Width[ins.dst] = ins.ty.width /\ AgreedProducts(ins)
  <2>1. CASE ins.op \in {"mul", "mad"} /\ ins.mod = "lo" /\ Sized(ins, IF ins.op = "mad" THEN 3 ELSE 2)
    BY <1>1, <1>3, <2>1, LowProducts
  <2>2. CASE ins.op = "mul" /\ ins.mod = "hi" /\ Sized(ins, 2) /\ ins.ty.width = Word
    BY <1>1, <1>3, <2>2, HighProduct
  <2> QED BY Zenon, <1>3, <2>1, <2>2 DEF AgreedProducts
<1>4. ins.ty.kind # "b" => ins.ty.kind \in {"s", "u"}
  BY <1>1 DEF IsInstruction, Types
<1>5. CASE Width[ins.dst] = ins.ty.width /\ AgreedQuotients(ins)
  BY <1>1, <1>4, <1>5, Divisions DEF AgreedQuotients
<1>6. CASE Width[ins.dst] = ins.ty.width /\ AgreedExtremes(ins)
  BY <1>1, <1>4, <1>6, Extremes DEF AgreedExtremes
<1>7. CASE Width[ins.dst] = ins.ty.width /\ AgreedUnary(ins)
  <2>1. Sized(ins, 1)
    BY Zenon, <1>7 DEF AgreedUnary
  <2>2. CASE ins.op = "neg"
    BY <1>1, <1>7, <2>1, <2>2, Negations
  <2>3. CASE ins.op = "not"
    BY <1>1, <1>7, <2>1, <2>3, Complements
  <2>4. CASE ins.op = "abs" /\ ins.ty.kind = "s" /\ ins.ty.width # Half /\ ~IsLiteral(ins.src[1])
    BY <1>1, <1>7, <2>1, <2>4, AbsoluteValues
  <2>5. CASE ins.op \in {"popc", "clz", "bfind"} /\ ins.ty.width # Half
    BY <1>1, <1>7, <2>1, <2>5, Counts
  <2>6. CASE ins.op = "mov" /\ (IsLiteral(ins.src[1]) => ins.ty.width # Half)
    BY <1>1, <1>7, <2>1, <2>6, Moves
  <2>7. CASE ins.op = "fneg" /\ ins.ty.width = Word
    BY <1>1, <1>7, <2>1, <2>7, FloatSigns
  <2>8. \/ ins.op \in {"neg", "not"}
        \/ ins.op = "abs" /\ ins.ty.kind = "s" /\ ins.ty.width # Half /\ ~IsLiteral(ins.src[1])
        \/ ins.op \in {"popc", "clz", "bfind"} /\ ins.ty.width # Half
        \/ ins.op = "mov" /\ (IsLiteral(ins.src[1]) => ins.ty.width # Half)
        \/ ins.op = "fneg" /\ ins.ty.width = Word
    BY Zenon, <1>7 DEF AgreedUnary
  <2>9. ins.op \in {"neg", "not"} => ins.op = "neg" \/ ins.op = "not"
    OBVIOUS
  <2> QED BY Zenon, <2>2, <2>3, <2>4, <2>5, <2>6, <2>7, <2>8, <2>9
<1>8. CASE Width[ins.dst] = ins.ty.width /\ AgreedLogic(ins)
  BY <1>1, <1>8, Logic DEF AgreedLogic
<1>9. CASE Width[ins.dst] = ins.ty.width /\ AgreedShifts(ins)
  BY <1>1, <1>9, Shifts DEF AgreedShifts
<1>10. CASE Width[ins.dst] = ins.ty.width /\ AgreedSelections(ins)
  BY <1>1, <1>10, SelectionsAgree DEF AgreedSelections, IsRegister
<1>11. CASE ins.op = "bfe" /\ IsField(ins, 1)
  BY <1>1, <1>11, Extracts
<1>12. CASE ins.op = "bfi" /\ IsField(ins, 2)
  BY <1>1, <1>12, Inserts
<1>13. CASE IsDot(ins)
  BY <1>1, <1>13, Dots
<1>14. CASE IsPermute(ins)
  BY <1>1, <1>14, Permutes
<1>15. CASE AgreedWideProducts(ins)
  BY <1>1, <1>15, WideProduct DEF AgreedWideProducts
<1>16. CASE AgreedComparisons(ins)
  BY <1>1, <1>16, Comparisons DEF AgreedComparisons
<1>17. CASE IsPredicate(ins)
  BY <1>1, <1>17, Predicates
<1>18. CASE AgreedResizings(ins)
  <2>1. CASE Resizes(ins)
    BY <1>1, <1>18, <2>1, Conversions1 DEF AgreedResizings
  <2>2. CASE ins.ty.width = Half /\ ins.ty.kind = "s" /\ ins.from.width # Half /\ ins.from.kind # "u"
    BY <1>1, <1>18, <2>2, SignedConversions DEF AgreedResizings
  <2> QED BY Zenon, <1>18, <2>1, <2>2 DEF AgreedResizings
<1> QED BY Zenon, <1>2, <1>3, <1>5, <1>6, <1>7, <1>8, <1>9, <1>10, <1>11, <1>12, <1>13, <1>14,
           <1>15, <1>16, <1>17, <1>18 DEF Agreed

-----------------------------------------------------------------------------
(* The invariant: the registers of a path hold patterns of their widths,   *)
(* and paths that are still running hold the same.                         *)
PathStates == [state : {"running", "refused", "undefined"}, regs : RegisterFiles]
AluTypeOK ==
  /\ program \in Programs /\ pc \in Nat /\ pc >= 1
  /\ interp \in PathStates /\ llvm \in PathStates /\ mlir \in PathStates
AluInv == AluTypeOK /\ SameBits

\* What a path is after an instruction, given the answer it may have found.
Writes(path, after, ins, v, writes) ==
  after.state = "running" =>
    /\ path.state = "running"
    /\ after.regs = IF writes THEN [path.regs EXCEPT ![ins.dst] = v] ELSE path.regs

LEMMA AfterIs ==
  ASSUME NEW path \in PathStates, NEW ins, ins.dst \in Registers,
         NEW v \in Nat, v \in Patterns(Width[ins.dst]),
         NEW x, path.state = "running" => Answer(x, v), NEW writes \in BOOLEAN
  PROVE  /\ After(path, ins, x, writes) \in PathStates
         /\ Writes(path, After(path, ins, x, writes), ins, v, writes)
<1>1. path.regs \in RegisterFiles /\ path = [state |-> path.state, regs |-> path.regs]
  BY DEF PathStates
<1>2. [path.regs EXCEPT ![ins.dst] = v] \in RegisterFiles
  BY <1>1 DEF RegisterFiles
<1>3. CASE path.state # "running"
  BY <1>3 DEF After, Writes
<1>4. CASE path.state = "running" /\ (x = Refused \/ x = Undefined)
  <2>1. [path EXCEPT !.state = "refused"] \in PathStates
        /\ [path EXCEPT !.state = "refused"].state = "refused"
        /\ [path EXCEPT !.state = "undefined"] \in PathStates
        /\ [path EXCEPT !.state = "undefined"].state = "undefined"
    BY DEF PathStates
  <2>2. \/ After(path, ins, x, writes) = [path EXCEPT !.state = "refused"]
        \/ After(path, ins, x, writes) = [path EXCEPT !.state = "undefined"]
    BY Zenon, <1>4 DEF After
  <2>3. "refused" # "running" /\ "undefined" # "running"
    OBVIOUS
  <2> QED BY Zenon, <2>1, <2>2, <2>3 DEF Writes
<1>5. CASE path.state = "running" /\ x # Refused /\ x # Undefined
  <2>1. x = v
    BY Zenon, <1>5 DEF Answer
  <2>2. After(path, ins, x, writes) = IF writes THEN [path EXCEPT !.regs[ins.dst] = v] ELSE path
    BY Zenon, <1>5, <2>1 DEF After
  <2>3. /\ [path EXCEPT !.regs[ins.dst] = v] \in PathStates
        /\ [path EXCEPT !.regs[ins.dst] = v].regs = [path.regs EXCEPT ![ins.dst] = v]
    BY <1>1, <1>2 DEF PathStates
  <2>4. CASE writes
    BY Zenon, <1>5, <2>2, <2>3, <2>4 DEF Writes
  <2>5. CASE ~writes
    BY Zenon, <1>5, <2>2, <2>5 DEF Writes
  <2> QED BY Zenon, <2>4, <2>5
<1> QED BY Zenon, <1>3, <1>4, <1>5

LEMMA AluStep ==
  ASSUME AluInv, [Next]_aluVars,
         NEW S, \A ins \in S : Agreed(ins), Programs \subseteq Seq(S)
  PROVE  AluInv'
<1>1. CASE UNCHANGED aluVars
  BY <1>1 DEF AluInv, AluTypeOK, SameBits, aluVars
<1>2. CASE Step
  <2>1. /\ program \in Programs /\ pc \in Nat /\ pc >= 1 /\ pc <= Len(program)
        /\ interp \in PathStates /\ llvm \in PathStates /\ mlir \in PathStates
    BY <1>2 DEF AluInv, AluTypeOK, Step
  <2>2. PICK ins \in S : ins = program[pc]
    BY <2>1
  <2>3. /\ Agreed(ins) /\ ins.dst \in Registers /\ (ins.guard # "" => ~IgnoresGuard(ins))
    BY Zenon DEF Agreed, IsInstruction
  <2>4. interp' = Interpret(ins) /\ llvm' = Compiled(ins) /\ mlir' = Lowered(ins)
        /\ pc' = pc + 1 /\ program' = program
    BY Zenon, <1>2, <2>2 DEF Step
  <2>5. PICK g \in RegisterFiles :
          /\ interp.state = "running" => interp.regs = g
          /\ llvm.state = "running" => llvm.regs = g
          /\ mlir.state = "running" => mlir.regs = g
    <3>1. interp.regs \in RegisterFiles /\ llvm.regs \in RegisterFiles /\ mlir.regs \in RegisterFiles
      BY <2>1 DEF PathStates
    <3>2. \A p, q \in {interp, llvm, mlir} :
            (p.state = "running" /\ q.state = "running") => p.regs = q.regs
      BY Zenon DEF AluInv, SameBits
    <3>3. /\ interp.state = "running" /\ llvm.state = "running" => interp.regs = llvm.regs
          /\ interp.state = "running" /\ mlir.state = "running" => interp.regs = mlir.regs
          /\ llvm.state = "running" /\ mlir.state = "running" => llvm.regs = mlir.regs
      BY <3>2
    <3> QED BY Zenon, <3>1, <3>3
  <2>6. PICK v \in Nat : AllAnswer(ins, g, constants, v)
    BY <2>3, AgreedAnswer
  <2>7. v \in Patterns(Width[ins.dst])
    BY Zenon, <2>6 DEF AllAnswer, Patterns, Two
  <2>8. PICK runs \in BOOLEAN : runs = (ins.guard = "" \/ g[ins.guard] = 1)
    OBVIOUS
  <2> DEFINE h == IF runs THEN [g EXCEPT ![ins.dst] = v] ELSE g
  <2>9. interp' \in PathStates /\ (interp'.state = "running" => interp'.regs = h)
    <3>1. CASE Runs(ins, interp)
      <4>1. interp' = After(interp, ins, InterpValue(ins, interp.regs), TRUE)
        BY Zenon, <2>4, <3>1 DEF Interpret
      <4>2. interp.state = "running" => Answer(InterpValue(ins, interp.regs), v)
        BY Zenon, <2>5, <2>6 DEF AllAnswer
      <4>3. interp.state = "running" => runs
        BY Zenon, <2>5, <2>8, <3>1 DEF Runs
      <4>4. TRUE \in BOOLEAN
        OBVIOUS
      <4>5. PICK x : x = InterpValue(ins, interp.regs)
        OBVIOUS
      <4>6. interp.state = "running" => Answer(x, v)
        BY Zenon, <4>2, <4>5
      <4>7. /\ After(interp, ins, x, TRUE) \in PathStates
            /\ Writes(interp, After(interp, ins, x, TRUE), ins, v, TRUE)
        BY Zenon, <2>1, <2>3, <2>7, <4>4, <4>6, AfterIs
      <4> QED BY Zenon, <2>5, <4>1, <4>3, <4>5, <4>7 DEF Writes
    <3>2. CASE ~Runs(ins, interp)
      <4>1. interp' = interp
        BY Zenon, <2>4, <3>2 DEF Interpret
      <4>2. interp.state = "running" => ~runs
        BY Zenon, <2>5, <2>8, <3>2 DEF Runs
      <4> QED BY Zenon, <2>1, <2>5, <4>1, <4>2
    <3> QED BY Zenon, <3>1, <3>2
  <2>10. llvm' \in PathStates /\ (llvm'.state = "running" => llvm'.regs = h)
    <3>1. llvm' = After(llvm, ins, LlvmValue(ins, llvm.regs), Runs(ins, llvm))
      BY Zenon, <2>4 DEF Compiled
    <3>2. llvm.state = "running" => Answer(LlvmValue(ins, llvm.regs), v)
      BY Zenon, <2>5, <2>6 DEF AllAnswer
    <3>3. llvm.state = "running" => (Runs(ins, llvm) <=> runs)
      BY Zenon, <2>5, <2>8 DEF Runs
    <3>4. Runs(ins, llvm) \in BOOLEAN
      BY DEF Runs
    <3>5. PICK x : x = LlvmValue(ins, llvm.regs)
      OBVIOUS
    <3>6. llvm.state = "running" => Answer(x, v)
      BY Zenon, <3>2, <3>5
    <3>7. PICK writes \in BOOLEAN : writes = (Runs(ins, llvm))
      BY <3>4
    <3>8. /\ After(llvm, ins, x, writes) \in PathStates
          /\ Writes(llvm, After(llvm, ins, x, writes), ins, v, writes)
      BY Zenon, <2>1, <2>3, <2>7, <3>6, AfterIs
    <3>9. llvm' = After(llvm, ins, x, writes)
      BY Zenon, <3>1, <3>5, <3>7
    <3> QED BY Zenon, <2>5, <3>3, <3>7, <3>8, <3>9 DEF Writes
  <2>11. mlir' \in PathStates /\ (mlir'.state = "running" => mlir'.regs = h)
    <3>1. mlir' = After(mlir, ins, MlirValue(ins, mlir.regs, constants), IgnoresGuard(ins) \/ Runs(ins, mlir))
      BY Zenon, <2>4 DEF Lowered
    <3>2. mlir.state = "running" => Answer(MlirValue(ins, mlir.regs, constants), v)
      BY Zenon, <2>5, <2>6 DEF AllAnswer
    <3>3. mlir.state = "running" => ((IgnoresGuard(ins) \/ Runs(ins, mlir)) <=> runs)
      BY Zenon, <2>3, <2>5, <2>8 DEF Runs
    <3>4. (IgnoresGuard(ins) \/ Runs(ins, mlir)) \in BOOLEAN
      OBVIOUS
    <3>5. PICK x : x = MlirValue(ins, mlir.regs, constants)
      OBVIOUS
    <3>6. mlir.state = "running" => Answer(x, v)
      BY Zenon, <3>2, <3>5
    <3>7. PICK writes \in BOOLEAN : writes = (IgnoresGuard(ins) \/ Runs(ins, mlir))
      BY <3>4
    <3>8. /\ After(mlir, ins, x, writes) \in PathStates
          /\ Writes(mlir, After(mlir, ins, x, writes), ins, v, writes)
      BY Zenon, <2>1, <2>3, <2>7, <3>6, AfterIs
    <3>9. mlir' = After(mlir, ins, x, writes)
      BY Zenon, <3>1, <3>5, <3>7
    <3> QED BY Zenon, <2>5, <3>3, <3>7, <3>8, <3>9 DEF Writes
  <2> HIDE DEF h
  <2>12. AluTypeOK'
    <3>1. pc' \in Nat /\ pc' >= 1
      BY <2>1, <2>4
    <3> QED BY Zenon, <2>1, <2>4, <2>9, <2>10, <2>11, <3>1 DEF AluTypeOK
  <2>13. SameBits'
    BY <2>9, <2>10, <2>11 DEF SameBits
  <2> QED BY Zenon, <2>12, <2>13 DEF AluInv
<1> QED BY Zenon, <1>1, <1>2 DEF Next

(* Whatever path executes a program of instructions of the class, from     *)
(* whatever patterns in the registers, and whatever the byte: the paths    *)
(* that have not refused it hold the same bits in every register.          *)
THEOREM PathsHoldTheSameBits ==
  ASSUME NEW S, \A ins \in S : Agreed(ins), Programs \subseteq Seq(S),
         \A p \in Programs : Contents(p) \subseteq RegisterFiles
  PROVE  Spec => []SameBits
<1>1. Init => AluInv
  <2> SUFFICES ASSUME Init PROVE AluInv
    OBVIOUS
  <2>1. PICK f \in Contents(program) : interp = Fresh(f) /\ llvm = Fresh(f) /\ mlir = Fresh(f)
    BY DEF Init
  <2>2. f \in RegisterFiles /\ program \in Programs /\ pc = 1
    BY DEF Init
  <2>3. Fresh(f) \in PathStates
    BY <2>2 DEF Fresh, PathStates
  <2>4. AluTypeOK
    BY <2>1, <2>2, <2>3 DEF AluTypeOK
  <2>5. SameBits
    BY <2>1 DEF SameBits
  <2> QED BY Zenon, <2>4, <2>5 DEF AluInv
<1>2. AluInv /\ [Next]_aluVars => AluInv'
  BY Zenon, AluStep
<1>3. AluInv => SameBits
  BY Zenon DEF AluInv
<1> QED BY <1>1, <1>2, <1>3, PTL DEF Spec
=============================================================================
