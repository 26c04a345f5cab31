-------------------------- MODULE LlvmBlocks_proofs --------------------------
(***************************************************************************)
(* The basic blocks LlvmGen prints have one terminator each and the        *)
(* control flow of the PTX body, for every body whose labels name          *)
(* different instructions, none of them the first.                         *)
(***************************************************************************)
EXTENDS LlvmBlocks, SequenceTheorems, WellFoundedInduction, TLAPS

Instructions == [op : {"bra", "ret", "other"}, target : Nat, guarded : BOOLEAN]

\* The bodies for which a block name stands for one instruction.  With a label on
\* the first instruction, or two on one, a block has no name of its own.
WellLabelled ==
  \A b \in Bodies :
    /\ b.ins \in Seq(Instructions)
    /\ DOMAIN b.at \subseteq Nat
    /\ \A l \in DOMAIN b.at : b.at[l] \in 2 .. Len(b.ins)
    /\ \A l, m \in DOMAIN b.at : b.at[l] = b.at[m] => l = m

BlockNames == {"b", "ba", "entry", "b_ret"} \X Nat
Items == [k : {"label"}, name : BlockNames] \cup [k : {"code"}, at : Nat]
           \cup [k : {"br"}, to : SUBSET BlockNames] \cup [k : {"ret"}]

-----------------------------------------------------------------------------
\* The greatest member of a bounded set of numbers.
LEMMA LowestNatural ==
  ASSUME NEW S \in SUBSET Nat, S # {}
  PROVE  \E x \in S : \A y \in S : x <= y
<1> DEFINE R == OpToRel(<, Nat)
<1>1. IsWellFoundedOn(R, Nat)
  BY NatLessThanWellFounded
<1>2. \A x, y \in Nat : <<y, x>> \in R <=> y < x
  BY DEF OpToRel
<1> HIDE DEF R
<1>3. PICK x \in S : \A y \in S : ~(<<y, x>> \in R)
  BY <1>1, WFMin
<1>4. \A y \in S : x \in Nat /\ y \in Nat /\ ~(y < x)
  BY <1>2, <1>3
<1> QED BY <1>4

LEMMA MaxIsHighest ==
  ASSUME NEW n \in Nat, NEW S \in SUBSET (0 .. n), S # {}
  PROVE  Max(S) \in S /\ \A y \in S : y <= Max(S)
<1> DEFINE T == {n - x : x \in S}
<1>1. T \in SUBSET Nat /\ T # {}
  <2>1. \A x \in S : n - x \in Nat
    OBVIOUS
  <2> QED BY <2>1
<1>2. PICK t \in T : \A u \in T : t <= u
  BY <1>1, LowestNatural
<1>3. PICK x \in S : t = n - x
  OBVIOUS
<1>4. \A y \in S : n - x <= n - y
  BY <1>2, <1>3
<1>5. \A y \in S : x >= y
  BY <1>4
<1>6. Max(S) \in S /\ \A y \in S : Max(S) >= y
  BY <1>5 DEF Max
<1> QED BY <1>6

-----------------------------------------------------------------------------
\* The first instruction of the block of instruction n.
First(n) == Max({m \in 1 .. n : BeginsBlock(m)})

LEMMA FirstFacts ==
  ASSUME NEW n \in Nat \ {0}
  PROVE  /\ First(n) \in 1 .. n /\ BeginsBlock(First(n))
         /\ \A m \in 1 .. n : BeginsBlock(m) => m <= First(n)
<1> DEFINE S == {m \in 1 .. n : BeginsBlock(m)}
<1>1. S \in SUBSET (0 .. n) /\ 1 \in S
  BY DEF BeginsBlock
<1>2. Max(S) \in S /\ \A y \in S : y <= Max(S)
  BY <1>1, MaxIsHighest
<1> QED BY <1>2 DEF First

LEMMA FirstOfNext ==
  ASSUME NEW n \in Nat \ {0}
  PROVE  First(n + 1) = IF BeginsBlock(n + 1) THEN n + 1 ELSE First(n)
<1>1. /\ First(n) \in 1 .. n /\ BeginsBlock(First(n))
      /\ \A m \in 1 .. n : BeginsBlock(m) => m <= First(n)
  BY FirstFacts
<1>2. n + 1 \in Nat \ {0}
  OBVIOUS
<1>3. /\ First(n + 1) \in 1 .. n + 1 /\ BeginsBlock(First(n + 1))
      /\ \A m \in 1 .. n + 1 : BeginsBlock(m) => m <= First(n + 1)
  BY <1>2, FirstFacts
<1> QED BY <1>1, <1>3

LEMMA LabelFacts ==
  ASSUME WellLabelled, body \in Bodies
  PROVE  /\ Len1 \in Nat
         /\ \A l \in Labels : /\ l \in Nat /\ body.at[l] \in 2 .. Len1
                              /\ LabelsAt(body.at[l]) = {l}
         /\ \A n : LabelsAt(n) # {} => /\ LabelAt(n) \in Labels
                                       /\ body.at[LabelAt(n)] = n
<1>1. /\ Len1 \in Nat
      /\ \A l \in Labels : l \in Nat /\ body.at[l] \in 2 .. Len1
      /\ \A l, m \in Labels : body.at[l] = body.at[m] => l = m
  BY DEF WellLabelled, Len1, Labels
<1>2. \A l \in Labels : LabelsAt(body.at[l]) = {l}
  BY <1>1 DEF LabelsAt
<1>3. ASSUME NEW n, LabelsAt(n) # {}
      PROVE  LabelAt(n) \in Labels /\ body.at[LabelAt(n)] = n
  <2>1. PICK l \in Labels : body.at[l] = n
    BY <1>3 DEF LabelsAt
  <2>2. LabelsAt(n) = {l} /\ l \in Nat
    BY <1>1, <1>2, <2>1
  <2>3. LabelAt(n) = l
    BY <2>2 DEF LabelAt, Min
  <2> QED BY <2>1, <2>3
<1> QED BY <1>1, <1>2, <1>3

\* The name of a block stands for its first instruction.
NameOf(first) == IF LabelsAt(first) # {} THEN <<"b", LabelAt(first)>>
                 ELSE IF first = 1 THEN <<"entry", 0>> ELSE <<"ba", first>>

LEMMA NamesDiffer ==
  ASSUME WellLabelled, body \in Bodies, NEW m \in Nat, NEW n \in Nat,
         NameOf(m) = NameOf(n)
  PROVE  m = n
<1>1. LabelsAt(m) # {} => body.at[LabelAt(m)] = m
  BY LabelFacts
<1>2. LabelsAt(n) # {} => body.at[LabelAt(n)] = n
  BY LabelFacts
<1>3. CASE LabelsAt(m) # {} /\ LabelsAt(n) # {}
  <2>1. LabelAt(m) = LabelAt(n)
    BY <1>3 DEF NameOf
  <2> QED BY <1>1, <1>2, <1>3, <2>1
<1>4. CASE ~(LabelsAt(m) # {} /\ LabelsAt(n) # {})
  BY <1>4 DEF NameOf
<1> QED BY <1>3, <1>4

LEMMA BlockNameFacts ==
  ASSUME WellLabelled, body \in Bodies, NEW n \in Nat \ {0}
  PROVE  /\ BlockName(n) = NameOf(First(n))
         /\ BlockName(n) \in BlockNames /\ BlockName(n) # RetBlock
         /\ BlockName(n + 1) # BlockName(n) <=> BeginsBlock(n + 1)
<1>1. \A m \in Nat \ {0} : BlockName(m) = NameOf(First(m))
  BY DEF BlockName, NameOf, First
<1>2. First(n) \in 1 .. n /\ First(n) \in Nat /\ First(n + 1) \in Nat
  BY FirstFacts, FirstOfNext
<1>3. NameOf(First(n)) \in BlockNames /\ NameOf(First(n)) # RetBlock
  <2>1. LabelsAt(First(n)) # {} => LabelAt(First(n)) \in Nat
    BY LabelFacts
  <2> QED BY <1>2, <2>1 DEF NameOf, BlockNames, RetBlock
<1>4. n + 1 \in Nat \ {0}
  OBVIOUS
<1>5. BlockName(n + 1) = NameOf(First(n + 1))
  BY <1>1, <1>4
<1>6. First(n + 1) # First(n) <=> BeginsBlock(n + 1)
  BY <1>2, FirstOfNext
<1> QED BY <1>1, <1>2, <1>3, <1>5, <1>6, NamesDiffer

\* Where a block begins, its name is that of the instruction.
LEMMA NameOfStart ==
  ASSUME WellLabelled, body \in Bodies, NEW n \in Nat \ {0}, BeginsBlock(n)
  PROVE  BlockName(n) = NameOf(n)
<1>1. First(n) = n
  BY FirstFacts
<1> QED BY <1>1, BlockNameFacts

-----------------------------------------------------------------------------
\* Where the branch at n may go, and the terminator printed behind its code.
Targets(n) ==
  LET target == <<"b", body.ins[n].target>>
      fall == IF n < Len1 THEN BlockName(n + 1) ELSE RetBlock
  IN  IF body.ins[n].guarded THEN {target, fall} ELSE {target}

Closing(n) ==
  IF body.ins[n].op = "ret" THEN <<RetItem>>
  ELSE IF body.ins[n].op = "bra" THEN << Br(Targets(n)) >>
  ELSE IF n = Len1 THEN <<RetItem>>
  ELSE IF BlockName(n + 1) # BlockName(n) THEN << Br({BlockName(n + 1)}) >>
  ELSE <<>>

IsTerm(item) == item.k \in {"br", "ret"}

LEMMA ClosingFacts ==
  ASSUME WellLabelled, body \in Bodies, NEW n \in 1 .. Len1,
         body.ins[n].op = "bra" => body.ins[n].target \in Labels
  PROVE  /\ Closing(n) \in Seq(Items)
         /\ Len(Closing(n)) \in {0, 1}
         /\ Len(Closing(n)) = 1 <=> (n = Len1 \/ BeginsBlock(n + 1))
         /\ Len(Closing(n)) = 1 => Closing(n)[1] \in Items /\ IsTerm(Closing(n)[1])
<1>1. Len1 \in Nat /\ n \in Nat \ {0} /\ n + 1 \in Nat \ {0}
  BY LabelFacts
<1>2. body.ins[n] \in Instructions
  BY <1>1 DEF WellLabelled, Len1
<1>3. RetItem \in Items /\ IsTerm(RetItem)
  BY DEF RetItem, Items, IsTerm
<1>4. \A to \in SUBSET BlockNames : Br(to) \in Items /\ IsTerm(Br(to))
  BY DEF Br, Items, IsTerm
<1>5. BlockName(n + 1) \in BlockNames /\ RetBlock \in BlockNames
  BY <1>1, BlockNameFacts DEF RetBlock, BlockNames
<1>6. body.ins[n].op = "bra" => Targets(n) \in SUBSET BlockNames
  BY <1>2, <1>5 DEF Targets, BlockNames, Instructions
<1>7. BlockName(n + 1) # BlockName(n) <=> BeginsBlock(n + 1)
  BY <1>1, BlockNameFacts
<1>8. body.ins[n].op \in {"bra", "ret"} => BeginsBlock(n + 1)
  BY <1>1 DEF BeginsBlock, IsTerminator
<1>9. CASE body.ins[n].op = "ret"
  BY <1>3, <1>8, <1>9 DEF Closing
<1>10. CASE body.ins[n].op = "bra"
  <2>1. Closing(n) = << Br(Targets(n)) >>
    BY <1>10 DEF Closing
  <2>2. Br(Targets(n)) \in Items /\ IsTerm(Br(Targets(n)))
    BY <1>4, <1>6, <1>10
  <2> QED BY <1>8, <1>10, <2>1, <2>2
<1>11. CASE body.ins[n].op \notin {"bra", "ret"}
  <2>1. CASE n = Len1
    BY <1>3, <1>11, <2>1 DEF Closing
  <2>2. CASE n # Len1 /\ BeginsBlock(n + 1)
    <3>1. Closing(n) = << Br({BlockName(n + 1)}) >>
      BY <1>7, <1>11, <2>2 DEF Closing
    <3>2. Br({BlockName(n + 1)}) \in Items /\ IsTerm(Br({BlockName(n + 1)}))
      BY <1>4, <1>5
    <3> QED BY <2>2, <3>1, <3>2
  <2>3. CASE n # Len1 /\ ~BeginsBlock(n + 1)
    <3>1. Closing(n) = <<>>
      BY <1>7, <1>11, <2>3 DEF Closing
    <3> QED BY <2>3, <3>1
  <2> QED BY <2>1, <2>2, <2>3
<1> QED BY <1>9, <1>10, <1>11

-----------------------------------------------------------------------------
\* The output so far, item by item.
BlocksTypeOK ==
  /\ body \in Bodies
  /\ i \in 1 .. Len1 + 1
  /\ out \in Seq(Items)
  /\ needRet \in BOOLEAN /\ failed \in BOOLEAN /\ done \in BOOLEAN
  /\ done => i = Len1 + 1

Defined == \A n \in 1 .. i - 1 : body.ins[n].op = "bra" => body.ins[n].target \in Labels

Starts == IF i = 1 THEN out = <<>> /\ needRet = FALSE
          ELSE Len(out) > 0 /\ out[1] = Code(1)

\* The item printed last.
LastItem ==
  /\ (i > 1 /\ ~done) =>
       LET tail == Closing(i - 1)
       IN  out[Len(out)] = IF Len(tail) = 1 THEN tail[1] ELSE Code(i - 1)
  /\ (done /\ Len(out) > 0) => IsTerm(out[Len(out)])

\* What is printed behind the code of an instruction.
BehindCode ==
  \A p \in Positions : out[p].k = "code" =>
    LET n == out[p].at
    IN  /\ n \in 1 .. i - 1
        /\ Len(Closing(n)) = 1 => p < Len(out) /\ out[p + 1] = Closing(n)[1]
        /\ Len(Closing(n)) # 1 =>
             IF p < Len(out) THEN n < Len1 /\ out[p + 1] = Code(n + 1) ELSE i = n + 1

\* A label names the block of the instruction behind it.
BehindLabel ==
  \A p \in Positions : out[p].k = "label" =>
    /\ p < Len(out)
    /\ \/ \E m \in 2 .. i - 1 : /\ BeginsBlock(m)
                                /\ out[p] = Label(BlockName(m))
                                /\ out[p + 1] = Code(m)
       \/ done /\ out[p] = Label(RetBlock) /\ out[p + 1] = RetItem

TermsBeforeLabels ==
  \A p \in 1 .. Len(out) - 1 : IsTerm(out[p]) <=> out[p + 1].k = "label"

Printed(name) == \E p \in Positions : out[p] = Label(name)

AllPrinted ==
  /\ \A m \in 2 .. i - 1 : BeginsBlock(m) => Printed(BlockName(m))
  /\ (i > Len1 /\ Len1 > 0 /\ body.ins[Len1].op = "bra" /\ body.ins[Len1].guarded)
       => needRet
  /\ (done /\ needRet) => Printed(RetBlock)

BlocksInv ==
  /\ BlocksTypeOK
  /\ ~failed => /\ Defined /\ Starts /\ LastItem /\ BehindCode /\ BehindLabel
                /\ TermsBeforeLabels /\ AllPrinted

-----------------------------------------------------------------------------
\* The body does not change, and with it the names of its blocks.
LEMMA SameBody ==
  ASSUME body' = body
  PROVE  /\ Len1' = Len1 /\ Labels' = Labels
         /\ \A n : BlockName(n)' = BlockName(n)
         /\ \A n : BeginsBlock(n)' <=> BeginsBlock(n)
         /\ \A n : Closing(n)' = Closing(n)
<1>1. Len1' = Len1 /\ Labels' = Labels
  BY DEF Len1, Labels
<1>2. \A n : LabelsAt(n)' = LabelsAt(n)
  BY <1>1 DEF LabelsAt
<1>3. \A n : LabelAt(n)' = LabelAt(n)
  BY <1>2 DEF LabelAt
<1>4. \A n : BeginsBlock(n)' <=> BeginsBlock(n)
  BY <1>2 DEF BeginsBlock
<1>5. \A n : {m \in 1 .. n : BeginsBlock(m)}' = {m \in 1 .. n : BeginsBlock(m)}
  BY <1>4
<1>6. \A n : BlockName(n)' = BlockName(n)
  BY <1>2, <1>3, <1>5 DEF BlockName
<1>7. \A n : Closing(n)' = Closing(n)
  BY <1>1, <1>6 DEF Closing, Targets
<1> QED BY <1>1, <1>4, <1>6, <1>7

\* What a step of the pass prints: the label of a block that begins, the code
\* of the instruction and what closes its block.
Emits(h) ==
  /\ out' \in Seq(Items)
  /\ Len(out') = Len(out) + h + 1 + Len(Closing(i))
  /\ \A p \in 1 .. Len(out) : out'[p] = out[p]
  /\ h = 1 => out'[Len(out) + 1] = Label(BlockName(i))
  /\ out'[Len(out) + h + 1] = Code(i)
  /\ Len(Closing(i)) = 1 => out'[Len(out) + h + 2] = Closing(i)[1]

LEMMA Emission ==
  ASSUME WellLabelled, BlocksTypeOK, EmitOther \/ EmitRet \/ EmitBranch
  PROVE  /\ body' = body /\ i' = i + 1 /\ failed' = failed
         /\ done = FALSE /\ done' = FALSE /\ i \in 1 .. Len1
         /\ body.ins[i].op = "bra" => body.ins[i].target \in Labels
         /\ \E h \in {0, 1} : /\ h = 1 <=> (i > 1 /\ BeginsBlock(i))
                              /\ Emits(h)
<1>1. /\ body' = body /\ i' = i + 1 /\ failed' = failed /\ done' = done
      /\ i \in 1 .. Len1 /\ Len1 \in Nat
  BY LabelFacts DEF EmitOther, EmitRet, EmitBranch, Emit, More, BlocksTypeOK
<1>2. done = FALSE
  BY <1>1 DEF BlocksTypeOK
<1>3. body.ins[i].op = "bra" => body.ins[i].target \in Labels
  BY DEF EmitOther, EmitRet, EmitBranch, More, Ins
<1>4. Emit(Closing(i))
  BY <1>1 DEF EmitOther, EmitRet, EmitBranch, More, Ins, Closing, Targets
<1>5. /\ Closing(i) \in Seq(Items) /\ Len(Closing(i)) \in {0, 1}
  BY <1>1, <1>3, ClosingFacts DEF BlocksTypeOK
<1>6. PICK h \in {0, 1} : h = 1 <=> (i > 1 /\ BeginsBlock(i))
  OBVIOUS
<1>7. i > 1 => (BlockName(i) # BlockName(i - 1) <=> BeginsBlock(i))
  <2>1. CASE i > 1
    <3>1. i - 1 \in Nat \ {0} /\ (i - 1) + 1 = i
      BY <1>1, <2>1
    <3> QED BY <3>1, BlockNameFacts DEF BlocksTypeOK
  <2> QED BY <2>1
<1>8. Header = IF h = 1 THEN << Label(BlockName(i)) >> ELSE <<>>
  BY <1>6, <1>7 DEF Header
<1>9. Label(BlockName(i)) \in Items /\ Code(i) \in Items
  <2>1. BlockName(i) \in BlockNames /\ i \in Nat
    BY <1>1, BlockNameFacts DEF BlocksTypeOK
  <2> QED BY <2>1 DEF Label, Code, Items
<1> DEFINE front == out \o Header
           upto == front \o <<Code(i)>>
<1>10. /\ Header \in Seq(Items) /\ Len(Header) = h
       /\ h = 1 => Header[1] = Label(BlockName(i))
  BY <1>6, <1>8, <1>9
<1>11. out \in Seq(Items) /\ Len(out) \in Nat
  BY DEF BlocksTypeOK
<1>12. /\ front \in Seq(Items) /\ Len(front) = Len(out) + h
       /\ \A p \in 1 .. Len(out) : front[p] = out[p]
       /\ h = 1 => front[Len(out) + 1] = Label(BlockName(i))
  <2>1. /\ front \in Seq(Items) /\ Len(front) = Len(out) + Len(Header)
        /\ \A p \in 1 .. Len(out) + Len(Header) :
             front[p] = IF p <= Len(out) THEN out[p] ELSE Header[p - Len(out)]
    BY <1>10, <1>11, ConcatProperties
  <2> QED BY <1>6, <1>10, <1>11, <2>1
<1>13. <<Code(i)>> \in Seq(Items) /\ Len(<<Code(i)>>) = 1 /\ <<Code(i)>>[1] = Code(i)
  BY <1>9
<1> HIDE DEF front
<1>14. /\ upto \in Seq(Items) /\ Len(upto) = Len(out) + h + 1
       /\ \A p \in 1 .. Len(out) + h : upto[p] = front[p]
       /\ upto[Len(out) + h + 1] = Code(i)
  <2>1. /\ upto \in Seq(Items) /\ Len(upto) = Len(front) + 1
        /\ \A p \in 1 .. Len(front) + 1 :
             upto[p] = IF p <= Len(front) THEN front[p] ELSE <<Code(i)>>[p - Len(front)]
    BY <1>12, <1>13, ConcatProperties
  <2> QED BY <1>6, <1>11, <1>12, <1>13, <2>1
<1>15. out' = upto \o Closing(i)
  BY <1>4 DEF Emit, front
<1> HIDE DEF upto
<1>16. /\ out' \in Seq(Items) /\ Len(out') = Len(out) + h + 1 + Len(Closing(i))
       /\ \A p \in 1 .. Len(out) + h + 1 : out'[p] = upto[p]
       /\ Len(Closing(i)) = 1 => out'[Len(out) + h + 2] = Closing(i)[1]
  <2>1. /\ out' \in Seq(Items) /\ Len(out') = Len(upto) + Len(Closing(i))
        /\ \A p \in 1 .. Len(upto) + Len(Closing(i)) :
             out'[p] = IF p <= Len(upto) THEN upto[p] ELSE Closing(i)[p - Len(upto)]
    BY <1>5, <1>14, <1>15, ConcatProperties
  <2> QED BY <1>5, <1>6, <1>11, <1>14, <2>1
<1>17. Emits(h)
  <2>1. \A p \in 1 .. Len(out) : out'[p] = out[p]
    BY <1>6, <1>11, <1>12, <1>14, <1>16
  <2>2. h = 1 => out'[Len(out) + 1] = Label(BlockName(i))
    BY <1>11, <1>12, <1>14, <1>16
  <2>3. out'[Len(out) + h + 1] = Code(i)
    BY <1>6, <1>11, <1>14, <1>16
  <2> QED BY <1>16, <2>1, <2>2, <2>3 DEF Emits
<1> QED BY <1>1, <1>2, <1>3, <1>6, <1>17

LEMMA EmissionKeeps ==
  ASSUME WellLabelled, BlocksInv, failed = FALSE, EmitOther \/ EmitRet \/ EmitBranch
  PROVE  BlocksInv'
<1>1. /\ body' = body /\ i' = i + 1 /\ failed' = FALSE
      /\ done = FALSE /\ done' = FALSE /\ i \in 1 .. Len1
      /\ body.ins[i].op = "bra" => body.ins[i].target \in Labels
  BY Emission DEF BlocksInv
<1>2. PICK h \in {0, 1} : (h = 1 <=> (i > 1 /\ BeginsBlock(i))) /\ Emits(h)
  BY Emission DEF BlocksInv
<1>3. /\ Len1' = Len1 /\ Labels' = Labels
      /\ \A n : BlockName(n)' = BlockName(n)
      /\ \A n : BeginsBlock(n)' <=> BeginsBlock(n)
      /\ \A n : Closing(n)' = Closing(n)
  BY <1>1, SameBody
<1>4. Len1 \in Nat /\ body \in Bodies /\ out \in Seq(Items) /\ Len(out) \in Nat
  BY LabelFacts DEF BlocksInv, BlocksTypeOK
<1>5. PICK L \in Nat : L = Len(out)
  BY <1>4
<1>6. PICK c \in {0, 1} : c = Len(Closing(i))
  BY <1>1, <1>4, ClosingFacts
<1>7. /\ c = 1 <=> (i = Len1 \/ BeginsBlock(i + 1))
      /\ c = 1 => IsTerm(Closing(i)[1])
  BY <1>1, <1>4, <1>6, ClosingFacts
<1>8. /\ out' \in Seq(Items) /\ Len(out') = L + h + 1 + c
      /\ \A p \in 1 .. L : out'[p] = out[p]
      /\ h = 1 => out'[L + 1] = Label(BlockName(i))
      /\ out'[L + h + 1] = Code(i)
      /\ c = 1 => out'[L + h + 2] = Closing(i)[1]
  BY <1>2, <1>5, <1>6 DEF Emits
\* The kinds of the new items.
<1>9. /\ h = 1 => out'[L + 1].k = "label" /\ ~IsTerm(out'[L + 1])
      /\ out'[L + h + 1].k = "code" /\ ~IsTerm(out'[L + h + 1])
      /\ c = 1 => out'[L + h + 2].k \in {"br", "ret"} /\ IsTerm(out'[L + h + 2])
  BY <1>7, <1>8 DEF Label, Code, IsTerm
<1>10. BlocksTypeOK'
  <2>1. needRet' \in BOOLEAN
    BY DEF EmitOther, EmitRet, EmitBranch, BlocksInv, BlocksTypeOK
  <2>2. body' \in Bodies /\ i' \in 1 .. Len1' + 1
    BY <1>1, <1>3, <1>4
  <2>3. failed' \in BOOLEAN /\ done' \in BOOLEAN /\ ~done'
    BY <1>1
  <2> QED BY <1>8, <2>1, <2>2, <2>3 DEF BlocksTypeOK
<1>11. Defined'
  BY <1>1, <1>3 DEF BlocksInv, BlocksTypeOK, Defined
<1>12. Starts'
  <2>1. CASE i = 1
    <3>1. L = 0 /\ h = 0
      BY <1>2, <1>5, <2>1 DEF BlocksInv, Starts
    <3> QED BY <1>1, <1>8, <2>1, <3>1 DEF Starts
  <2>2. CASE i # 1
    <3>1. L > 0 /\ out[1] = Code(1)
      BY <1>1, <1>5, <2>2 DEF BlocksInv, Starts
    <3> QED BY <1>1, <1>8, <3>1 DEF Starts
  <2> QED BY <2>1, <2>2
<1>13. LastItem'
  <2>1. i' - 1 = i
    BY <1>1
  <2>2. Len(out') = L + h + 1 + c
    BY <1>8
  <2>3. out'[L + h + 1 + c] = IF c = 1 THEN Closing(i)[1] ELSE Code(i)
    BY <1>8
  <2>4. (LET tail == Closing(i - 1)
         IN  out[Len(out)] = IF Len(tail) = 1 THEN tail[1] ELSE Code(i - 1))'
    BY <1>3, <1>6, <2>1, <2>2, <2>3
  <2> QED BY <1>1, <2>4 DEF LastItem
\* The item printed last, when there is one, against the block of i.
<1>14. ASSUME L > 0
       PROVE  /\ i > 1 /\ i - 1 \in 1 .. Len1
              /\ Len(Closing(i - 1)) = h
              /\ h = 1 => IsTerm(out[L])
              /\ h = 0 => out[L] = Code(i - 1)
  <2>1. i > 1
    BY <1>1, <1>5, <1>14 DEF BlocksInv, Starts
  <2>2. i - 1 \in 1 .. Len1 /\ i - 1 # Len1 /\ (i - 1) + 1 = i
    BY <1>1, <1>4, <2>1
  <2>3. body.ins[i - 1].op = "bra" => body.ins[i - 1].target \in Labels
    BY <2>2 DEF BlocksInv, Defined
  <2>4. /\ Len(Closing(i - 1)) \in {0, 1}
        /\ Len(Closing(i - 1)) = 1 <=> BeginsBlock(i)
        /\ Len(Closing(i - 1)) = 1 => IsTerm(Closing(i - 1)[1])
    BY <1>4, <2>2, <2>3, ClosingFacts
  <2>5. out[L] = IF Len(Closing(i - 1)) = 1 THEN Closing(i - 1)[1] ELSE Code(i - 1)
    BY <1>1, <1>5, <2>1 DEF BlocksInv, LastItem
  <2>6. Len(Closing(i - 1)) = h
    <3>1. CASE BeginsBlock(i)
      <4>1. h = 1 /\ Len(Closing(i - 1)) = 1
        BY <1>2, <2>1, <2>4, <3>1
      <4> QED BY <4>1
    <3>2. CASE ~BeginsBlock(i)
      <4>1. h = 0 /\ Len(Closing(i - 1)) = 0
        BY <1>2, <2>1, <2>4, <3>2
      <4> QED BY <4>1
    <3> QED BY <3>1, <3>2
  <2> QED BY <2>1, <2>2, <2>4, <2>5, <2>6
<1>15. BehindCode'
  <2> SUFFICES ASSUME NEW p \in 1 .. L + h + 1 + c, out'[p].k = "code",
                      NEW n, n = out'[p].at
               PROVE  /\ n \in 1 .. i
                      /\ Len(Closing(n)) = 1 =>
                           p < L + h + 1 + c /\ out'[p + 1] = Closing(n)[1]
                      /\ Len(Closing(n)) # 1 =>
                           IF p < L + h + 1 + c THEN n < Len1 /\ out'[p + 1] = Code(n + 1)
                           ELSE i' = n + 1
    BY <1>1, <1>3, <1>8 DEF BehindCode, Positions
  <2>1. CASE p < L
    <3>1. out'[p] = out[p] /\ out'[p + 1] = out[p + 1] /\ p \in 1 .. Len(out)
      BY <1>5, <1>8, <2>1
    <3>2. /\ n \in 1 .. i - 1
          /\ Len(Closing(n)) = 1 => out[p + 1] = Closing(n)[1]
          /\ Len(Closing(n)) # 1 => n < Len1 /\ out[p + 1] = Code(n + 1)
      BY <1>5, <2>1, <3>1 DEF BlocksInv, BehindCode, Positions
    <3> QED BY <1>1, <2>1, <3>1, <3>2
  <2>2. CASE p = L
    <3>1. out'[p] = out[p] /\ p \in 1 .. Len(out)
      BY <1>5, <1>8, <2>2
    <3>2. n \in 1 .. i - 1 /\ Len(Closing(n)) # 1 /\ i = n + 1
      BY <1>5, <2>2, <3>1 DEF BlocksInv, BehindCode, Positions
    <3>3. L > 0 /\ n = i - 1
      BY <1>1, <2>2, <3>2
    <3>4. h = 0 /\ n \in 1 .. Len1 /\ n # Len1 /\ n + 1 = i
      <4>1. i - 1 \in 1 .. Len1 /\ Len(Closing(i - 1)) = h
        BY <1>14, <3>3
      <4>2. Len(Closing(n)) = h
        BY <3>3, <4>1
      <4>3. h = 0
        BY <3>2, <4>2
      <4>4. n \in 1 .. Len1 /\ n + 1 = i
        BY <3>3, <4>1, <1>1
      <4>5. n # Len1
        BY <1>1, <1>4, <4>4
      <4> QED BY <4>3, <4>4, <4>5
    <3>5. out'[p + 1] = Code(n + 1) /\ p < L + h + 1 + c
      BY <1>8, <2>2, <3>4
    <3>6. n \in 1 .. i /\ n < Len1
      BY <1>1, <1>4, <3>4
    <3> QED BY <3>2, <3>5, <3>6
  <2>3. CASE p > L
    <3>1. p = L + h + 1
      BY <1>9, <2>3
    <3>2. n = i
      BY <1>8, <3>1 DEF Code
    <3>3. c = 1 => p < L + h + 1 + c /\ out'[p + 1] = Closing(i)[1]
      BY <1>8, <3>1
    <3>4. c # 1 => ~(p < L + h + 1 + c)
      BY <3>1
    <3> QED BY <1>1, <1>6, <3>2, <3>3, <3>4
  <2> QED BY <2>1, <2>2, <2>3
<1>16. BehindLabel'
  <2> SUFFICES ASSUME NEW p \in 1 .. L + h + 1 + c, out'[p].k = "label"
               PROVE  /\ p < L + h + 1 + c
                      /\ \E m \in 2 .. i : /\ BeginsBlock(m)
                                           /\ out'[p] = Label(BlockName(m))
                                           /\ out'[p + 1] = Code(m)
    BY <1>1, <1>3, <1>8 DEF BehindLabel, Positions
  <2>1. CASE p <= L
    <3>1. out'[p] = out[p] /\ p \in 1 .. Len(out)
      BY <1>5, <1>8, <2>1
    <3>2. /\ p < L
          /\ \E m \in 2 .. i - 1 : /\ BeginsBlock(m)
                                   /\ out[p] = Label(BlockName(m))
                                   /\ out[p + 1] = Code(m)
      BY <1>1, <1>5, <3>1 DEF BlocksInv, BehindLabel, Positions
    <3>3. out'[p + 1] = out[p + 1]
      BY <1>8, <3>2
    <3> QED BY <1>1, <3>1, <3>2, <3>3
  <2>2. CASE p > L
    <3>1. h = 1 /\ p = L + 1
      BY <1>9, <2>2
    <3>2. i \in 2 .. i /\ BeginsBlock(i)
      BY <1>1, <1>2, <3>1
    <3>3. out'[p] = Label(BlockName(i)) /\ out'[p + 1] = Code(i)
      BY <1>8, <3>1
    <3> QED BY <3>1, <3>2, <3>3
  <2> QED BY <2>1, <2>2
<1>17. TermsBeforeLabels'
  <2> SUFFICES ASSUME NEW p \in 1 .. L + h + c
               PROVE  IsTerm(out'[p]) <=> out'[p + 1].k = "label"
    BY <1>8 DEF TermsBeforeLabels
  <2>1. CASE p < L
    <3>1. out'[p] = out[p] /\ out'[p + 1] = out[p + 1] /\ p \in 1 .. Len(out) - 1
      BY <1>5, <1>8, <2>1
    <3> QED BY <3>1 DEF BlocksInv, TermsBeforeLabels
  <2>2. CASE p = L
    <3>1. out'[p] = out[p] /\ L > 0
      BY <1>8, <2>2
    <3>2. IsTerm(out[L]) <=> h = 1
      BY <1>14, <3>1 DEF Code, IsTerm
    <3>3. out'[L + 1].k = "label" <=> h = 1
      BY <1>9
    <3> QED BY <2>2, <3>1, <3>2, <3>3
  <2>3. CASE p > L
    BY <1>9, <2>3
  <2> QED BY <2>1, <2>2, <2>3
<1>18. AllPrinted'
  <2>1. ASSUME NEW m \in 2 .. i, BeginsBlock(m)
        PROVE  \E p \in 1 .. L + h + 1 + c : out'[p] = Label(BlockName(m))
    <3>1. CASE m = i
      <4>1. h = 1 /\ L + 1 \in 1 .. L + h + 1 + c
        BY <1>2, <2>1, <3>1
      <4> QED BY <1>8, <3>1, <4>1
    <3>2. CASE m # i
      <4>1. m \in 2 .. i - 1
        BY <1>1, <2>1, <3>2
      <4>2. PICK p \in 1 .. Len(out) : out[p] = Label(BlockName(m))
        BY <2>1, <4>1 DEF BlocksInv, AllPrinted, Printed, Positions
      <4> QED BY <1>5, <1>8, <4>2
    <3> QED BY <3>1, <3>2
  <2>2. ASSUME i' > Len1, body.ins[Len1].op = "bra", body.ins[Len1].guarded
        PROVE  needRet'
    <3>1. i = Len1
      BY <1>1, <1>4, <2>2
    <3>2. EmitBranch
      BY <2>2, <3>1 DEF EmitOther, EmitRet, More, Ins
    <3> QED BY <2>2, <3>1, <3>2 DEF EmitBranch, Ins
  <2>3. \A m \in 2 .. i : BeginsBlock(m)' => Printed(BlockName(m))'
    <3> SUFFICES ASSUME NEW m \in 2 .. i, BeginsBlock(m)
                 PROVE  \E p \in 1 .. Len(out') : out'[p] = Label(BlockName(m))'
      BY <1>3 DEF Printed, Positions
    <3>1. Label(BlockName(m))' = Label(BlockName(m))
      BY <1>3 DEF Label
    <3> QED BY <1>8, <2>1, <3>1
  <2>4. (i' - 1) = i
    BY <1>1
  <2> QED BY <1>1, <1>3, <2>2, <2>3, <2>4 DEF AllPrinted
<1> QED
  BY <1>10, <1>11, <1>12, <1>13, <1>15, <1>16, <1>17, <1>18 DEF BlocksInv

-----------------------------------------------------------------------------
LEMMA BlocksInit == ASSUME WellLabelled, Init PROVE BlocksInv
<1>1. body \in Bodies /\ Len1 \in Nat
  BY LabelFacts DEF Init
<1>2. BlockName(1) = <<"entry", 0>>
  <2>1. BeginsBlock(1) /\ LabelsAt(1) = {}
    BY <1>1, LabelFacts DEF BeginsBlock, LabelsAt
  <2> QED BY <1>1, <2>1, NameOfStart DEF NameOf
<1>3. out = <<>> /\ Len(out) = 0 /\ out \in Seq(Items)
  BY <1>2 DEF Init, Prologue
<1> USE <1>1, <1>3
<1>4. BlocksTypeOK
  <2>1. i = 1 /\ i \in 1 .. Len1 + 1
    BY DEF Init
  <2>2. /\ needRet = FALSE /\ failed = FALSE /\ done = FALSE
    BY DEF Init
  <2> QED BY <2>1, <2>2 DEF BlocksTypeOK
<1>5. Defined /\ Starts /\ LastItem
  BY DEF Init, Defined, Starts, LastItem
<1>6. BehindCode /\ BehindLabel /\ TermsBeforeLabels
  BY DEF Init, BehindCode, BehindLabel, TermsBeforeLabels, Positions
<1>7. AllPrinted
  BY DEF Init, AllPrinted
<1> QED BY <1>4, <1>5, <1>6, <1>7 DEF BlocksInv

\* A branch to an undefined label: from now on the text is of no interest.
LEMMA UndefinedKeeps ==
  ASSUME WellLabelled, BlocksInv, EmitUndefined
  PROVE  BlocksInv'
<1>1. /\ body' = body /\ i' = i + 1 /\ failed' = TRUE /\ done' = done
      /\ needRet' = needRet /\ i \in 1 .. Len1 /\ Len1 \in Nat /\ body \in Bodies
      /\ out \in Seq(Items)
  BY LabelFacts DEF BlocksInv, BlocksTypeOK, EmitUndefined, Emit, More
<1>2. Len1' = Len1
  BY <1>1, SameBody
<1>3. Header \in Seq(Items)
  <2>1. BlockName(i) \in BlockNames
    BY <1>1, BlockNameFacts
  <2>2. Label(BlockName(i)) \in Items
    BY <2>1 DEF Label, Items
  <2> QED BY <2>2 DEF Header
<1>4. <<Code(i)>> \in Seq(Items)
  BY <1>1 DEF Code, Items
<1>5. out' \in Seq(Items)
  <2>1. out \o Header \in Seq(Items)
    BY <1>1, <1>3, ConcatProperties
  <2>2. (out \o Header) \o <<Code(i)>> \in Seq(Items)
    BY <1>4, <2>1, ConcatProperties
  <2>3. ((out \o Header) \o <<Code(i)>>) \o <<>> \in Seq(Items)
    BY <2>2, ConcatEmptySeq
  <2> QED BY <2>3 DEF EmitUndefined, Emit
<1>6. needRet' \in BOOLEAN /\ done' \in BOOLEAN /\ done = FALSE
  BY <1>1 DEF BlocksInv, BlocksTypeOK
<1>7. BlocksTypeOK'
  BY <1>1, <1>2, <1>5, <1>6 DEF BlocksTypeOK
<1> QED BY <1>1, <1>7 DEF BlocksInv

\* The end of the pass: the block of the implicit ret, if it is needed.
LEMMA FinishOutput ==
  ASSUME WellLabelled, BlocksTypeOK, Finish
  PROVE  /\ body' = body /\ i' = i /\ i = Len1 + 1 /\ Len1 \in Nat
         /\ done = FALSE /\ done' = TRUE /\ failed' = failed /\ needRet' = needRet
         /\ out' \in Seq(Items)
         /\ \A p \in 1 .. Len(out) : out'[p] = out[p]
         /\ IF needRet THEN /\ Len(out') = Len(out) + 2
                            /\ out'[Len(out) + 1] = Label(RetBlock)
                            /\ out'[Len(out) + 2] = RetItem
                       ELSE out' = out
<1>1. /\ body' = body /\ i' = i /\ i = Len1 + 1 /\ Len1 \in Nat
      /\ done = FALSE /\ done' = TRUE /\ failed' = failed /\ needRet' = needRet
      /\ out \in Seq(Items) /\ Len(out) \in Nat
  BY LabelFacts DEF Finish, BlocksTypeOK
<1>2. CASE needRet
  <2> DEFINE last == <<Label(RetBlock), RetItem>>
  <2>1. Label(RetBlock) \in Items /\ RetItem \in Items
    BY DEF Label, RetBlock, RetItem, Items, BlockNames
  <2>2. /\ last \in Seq(Items) /\ Len(last) = 2
        /\ last[1] = Label(RetBlock) /\ last[2] = RetItem
    BY <2>1
  <2>3. out' = out \o last
    BY <1>2 DEF Finish
  <2> HIDE DEF last
  <2>4. /\ out' \in Seq(Items) /\ Len(out') = Len(out) + 2
        /\ \A p \in 1 .. Len(out) + 2 :
             out'[p] = IF p <= Len(out) THEN out[p] ELSE last[p - Len(out)]
    <3>1. last \in Seq(Items) /\ out \in Seq(Items)
      BY <1>1, <2>2
    <3>2. /\ out' \in Seq(Items) /\ Len(out') = Len(out) + Len(last)
          /\ \A p \in 1 .. Len(out) + Len(last) :
               out'[p] = IF p <= Len(out) THEN out[p] ELSE last[p - Len(out)]
      BY <2>3, <3>1, ConcatProperties
    <3> QED BY <2>2, <3>2
  <2>5. /\ \A p \in 1 .. Len(out) : out'[p] = out[p]
        /\ out'[Len(out) + 1] = last[1] /\ out'[Len(out) + 2] = last[2]
    BY <1>1, <2>4
  <2> QED BY <1>1, <1>2, <2>2, <2>4, <2>5
<1>3. CASE ~needRet
  <2>1. out' = out
    BY <1>1, <1>3, ConcatEmptySeq DEF Finish
  <2> QED BY <1>1, <1>3, <2>1
<1> QED BY <1>2, <1>3

LEMMA FinishKeeps ==
  ASSUME WellLabelled, BlocksInv, Finish
  PROVE  BlocksInv'
<1>1. /\ body' = body /\ i' = i /\ i = Len1 + 1 /\ Len1 \in Nat
      /\ done = FALSE /\ done' = TRUE /\ failed' = failed /\ needRet' = needRet
      /\ out' \in Seq(Items)
  BY FinishOutput DEF BlocksInv
<1>2. PICK L \in Nat : L = Len(out)
  BY DEF BlocksInv, BlocksTypeOK
<1>3. PICK h \in {0, 1} : h = 1 <=> needRet
  OBVIOUS
<1>4. /\ Len(out') = L + 2 * h
      /\ \A p \in 1 .. L : out'[p] = out[p]
      /\ h = 1 => out'[L + 1] = Label(RetBlock) /\ out'[L + 2] = RetItem
  BY <1>2, <1>3, FinishOutput DEF BlocksInv
<1>5. h = 1 => /\ out'[L + 1].k = "label" /\ ~IsTerm(out'[L + 1])
               /\ out'[L + 2].k = "ret" /\ IsTerm(out'[L + 2])
  BY <1>4 DEF Label, RetItem, IsTerm
<1>6. /\ Len1' = Len1 /\ Labels' = Labels
      /\ \A n : BlockName(n)' = BlockName(n)
      /\ \A n : BeginsBlock(n)' <=> BeginsBlock(n)
      /\ \A n : Closing(n)' = Closing(n)
  BY <1>1, SameBody
<1>7. BlocksTypeOK'
  <2>1. body' \in Bodies /\ i' \in 1 .. Len1' + 1 /\ i' = Len1' + 1
    BY <1>1, <1>6 DEF BlocksInv, BlocksTypeOK
  <2>2. needRet' \in BOOLEAN /\ failed' \in BOOLEAN /\ done' \in BOOLEAN
    BY <1>1 DEF BlocksInv, BlocksTypeOK
  <2> QED BY <1>1, <2>1, <2>2 DEF BlocksTypeOK
<1> SUFFICES ASSUME failed = FALSE
             PROVE  (/\ Defined /\ Starts /\ LastItem /\ BehindCode /\ BehindLabel
                     /\ TermsBeforeLabels /\ AllPrinted)'
  BY <1>1, <1>7 DEF BlocksInv, BlocksTypeOK
<1>8. L > 0 => i > 1 /\ IsTerm(out[L])
  <2> SUFFICES ASSUME L > 0 PROVE i > 1 /\ IsTerm(out[L])
    OBVIOUS
  <2>1. i > 1 /\ i - 1 = Len1 /\ Len1 \in 1 .. Len1
    BY <1>1, <1>2 DEF BlocksInv, Starts
  <2>2. body.ins[Len1].op = "bra" => body.ins[Len1].target \in Labels
    BY <2>1 DEF BlocksInv, Defined
  <2>3. Len(Closing(Len1)) = 1 /\ IsTerm(Closing(Len1)[1])
    BY <2>1, <2>2, ClosingFacts DEF BlocksInv, BlocksTypeOK
  <2>4. out[L] = Closing(Len1)[1]
    BY <1>1, <1>2, <2>1, <2>3 DEF BlocksInv, LastItem
  <2> QED BY <2>1, <2>3, <2>4
<1>9. Defined'
  BY <1>1, <1>6 DEF BlocksInv, Defined
<1>10. Starts'
  <2>1. CASE i = 1
    <3>1. out = <<>> /\ needRet = FALSE
      BY <2>1 DEF BlocksInv, Starts
    <3>2. out' = <<>> /\ needRet' = FALSE
      BY <1>1, <3>1, FinishOutput DEF BlocksInv
    <3> QED BY <1>1, <2>1, <3>2 DEF Starts
  <2>2. CASE i # 1
    <3>1. L > 0 /\ out[1] = Code(1)
      BY <1>2, <2>2 DEF BlocksInv, Starts
    <3>2. out'[1] = Code(1) /\ Len(out') > 0
      BY <1>4, <3>1
    <3> QED BY <1>1, <2>2, <3>2 DEF Starts
  <2> QED BY <2>1, <2>2
<1>11. LastItem'
  <2>1. Len(out') > 0 => IsTerm(out'[Len(out')])
    <3>1. CASE h = 1
      BY <1>4, <1>5, <3>1
    <3>2. CASE h = 0
      <4>1. Len(out') = L
        BY <1>4, <3>2
      <4>2. L > 0 => IsTerm(out'[L])
        BY <1>4, <1>8
      <4> QED BY <4>1, <4>2
    <3> QED BY <3>1, <3>2
  <2> QED BY <1>1, <2>1 DEF LastItem
<1>12. BehindCode'
  <2> SUFFICES ASSUME NEW p \in 1 .. L + 2 * h, out'[p].k = "code",
                      NEW n, n = out'[p].at
               PROVE  /\ n \in 1 .. i - 1 /\ p < L + 2 * h
                      /\ Len(Closing(n)) = 1 => out'[p + 1] = Closing(n)[1]
                      /\ Len(Closing(n)) # 1 => n < Len1 /\ out'[p + 1] = Code(n + 1)
    BY <1>1, <1>4, <1>6 DEF BehindCode, Positions
  <2>1. p < L
    BY <1>4, <1>5, <1>8 DEF IsTerm
  <2>2. out'[p] = out[p] /\ out'[p + 1] = out[p + 1] /\ p \in 1 .. Len(out)
    BY <1>2, <1>4, <2>1
  <2>3. /\ n \in 1 .. i - 1
        /\ Len(Closing(n)) = 1 => out[p + 1] = Closing(n)[1]
        /\ Len(Closing(n)) # 1 => n < Len1 /\ out[p + 1] = Code(n + 1)
    BY <1>2, <2>1, <2>2 DEF BlocksInv, BehindCode, Positions
  <2> QED BY <2>1, <2>2, <2>3
<1>13. BehindLabel'
  <2> SUFFICES ASSUME NEW p \in 1 .. L + 2 * h, out'[p].k = "label"
               PROVE  /\ p < L + 2 * h
                      /\ \/ \E m \in 2 .. i - 1 : /\ BeginsBlock(m)
                                                  /\ out'[p] = Label(BlockName(m))
                                                  /\ out'[p + 1] = Code(m)
                         \/ out'[p] = Label(RetBlock) /\ out'[p + 1] = RetItem
    BY <1>1, <1>4, <1>6 DEF BehindLabel, Positions
  <2>1. CASE p <= L
    <3>1. out'[p] = out[p] /\ p \in 1 .. Len(out)
      BY <1>2, <1>4, <2>1
    <3>2. /\ p < L
          /\ \E m \in 2 .. i - 1 : /\ BeginsBlock(m)
                                   /\ out[p] = Label(BlockName(m))
                                   /\ out[p + 1] = Code(m)
      BY <1>1, <1>2, <3>1 DEF BlocksInv, BehindLabel, Positions
    <3>3. out'[p + 1] = out[p + 1]
      BY <1>4, <3>2
    <3> QED BY <3>1, <3>2, <3>3
  <2>2. CASE p > L
    <3>1. h = 1 /\ p = L + 1
      BY <1>5, <2>2
    <3> QED BY <1>4, <3>1
  <2> QED BY <2>1, <2>2
<1>14. TermsBeforeLabels'
  <2> SUFFICES ASSUME NEW p \in 1 .. L + 2 * h - 1
               PROVE  IsTerm(out'[p]) <=> out'[p + 1].k = "label"
    BY <1>4 DEF TermsBeforeLabels
  <2>1. CASE p < L
    <3>1. out'[p] = out[p] /\ out'[p + 1] = out[p + 1] /\ p \in 1 .. Len(out) - 1
      BY <1>2, <1>4, <2>1
    <3> QED BY <3>1 DEF BlocksInv, TermsBeforeLabels
  <2>2. CASE p = L
    BY <1>4, <1>5, <1>8, <2>2
  <2>3. CASE p > L
    BY <1>5, <2>3
  <2> QED BY <2>1, <2>2, <2>3
<1>15. AllPrinted'
  <2>1. ASSUME NEW m \in 2 .. i - 1, BeginsBlock(m)
        PROVE  Printed(BlockName(m))'
    <3>1. PICK p \in 1 .. L : out[p] = Label(BlockName(m))
      BY <1>2, <2>1 DEF BlocksInv, AllPrinted, Printed, Positions
    <3>2. out'[p] = Label(BlockName(m)) /\ p \in 1 .. Len(out')
      BY <1>4, <3>1
    <3>3. Label(BlockName(m))' = Label(BlockName(m))
      BY <1>6 DEF Label
    <3> QED BY <3>2, <3>3 DEF Printed, Positions
  <2>2. needRet => Printed(RetBlock)'
    <3>1. h = 1 => L + 1 \in 1 .. Len(out')
      BY <1>4
    <3> QED BY <1>3, <1>4, <3>1 DEF Printed, Positions, Label, RetBlock
  <2>3. (i > Len1 /\ Len1 > 0 /\ body.ins[Len1].op = "bra" /\ body.ins[Len1].guarded)
          => needRet
    BY DEF BlocksInv, AllPrinted
  <2> QED BY <1>1, <1>6, <2>1, <2>2, <2>3 DEF AllPrinted
<1> QED BY <1>9, <1>10, <1>11, <1>12, <1>13, <1>14, <1>15

\* After a failure only the shape of the text matters.
LEMMA FailedKeeps ==
  ASSUME WellLabelled, BlocksInv, failed = TRUE, EmitOther \/ EmitRet \/ EmitBranch
  PROVE  BlocksInv'
<1>1. /\ body' = body /\ i' = i + 1 /\ failed' = TRUE
      /\ done = FALSE /\ done' = FALSE /\ i \in 1 .. Len1
  BY Emission DEF BlocksInv
<1>2. out' \in Seq(Items)
  BY Emission DEF BlocksInv, Emits
<1>3. Len1' = Len1
  BY <1>1, SameBody
<1>4. Len1 \in Nat /\ body \in Bodies
  BY LabelFacts DEF BlocksInv, BlocksTypeOK
<1>5. needRet' \in BOOLEAN
  BY DEF EmitOther, EmitRet, EmitBranch, BlocksInv, BlocksTypeOK
<1>6. body' \in Bodies /\ i' \in 1 .. Len1' + 1
  BY <1>1, <1>3, <1>4
<1>7. failed' \in BOOLEAN /\ done' \in BOOLEAN /\ ~done'
  BY <1>1
<1>8. BlocksTypeOK'
  BY <1>2, <1>5, <1>6, <1>7 DEF BlocksTypeOK
<1> QED BY <1>1, <1>8 DEF BlocksInv

LEMMA StutterKeeps == ASSUME BlocksInv, UNCHANGED vars PROVE BlocksInv'
<1>1. /\ body' = body /\ i' = i /\ out' = out /\ needRet' = needRet
      /\ failed' = failed /\ done' = done
  BY DEF vars
<1>2. /\ Len1' = Len1 /\ Labels' = Labels
      /\ \A n : BlockName(n)' = BlockName(n)
      /\ \A n : BeginsBlock(n)' <=> BeginsBlock(n)
      /\ \A n : Closing(n)' = Closing(n)
  BY <1>1, SameBody
<1>3. Positions' = Positions
  BY <1>1 DEF Positions
<1>4. \A n : Label(BlockName(n))' = Label(BlockName(n))
  BY <1>2 DEF Label
<1>5. BlocksTypeOK'
  BY <1>1, <1>2 DEF BlocksInv, BlocksTypeOK
<1> SUFFICES ASSUME ~failed
             PROVE  (/\ Defined /\ Starts /\ LastItem /\ BehindCode /\ BehindLabel
                     /\ TermsBeforeLabels /\ AllPrinted)'
  BY <1>1, <1>5 DEF BlocksInv
<1>6. Defined' /\ Starts' /\ TermsBeforeLabels'
  BY <1>1, <1>2 DEF BlocksInv, Defined, Starts, TermsBeforeLabels
<1>7. LastItem'
  BY <1>1, <1>2 DEF BlocksInv, LastItem
<1>8. BehindCode'
  BY <1>1, <1>2, <1>3 DEF BlocksInv, BehindCode
<1>9. BehindLabel'
  BY <1>1, <1>2, <1>3, <1>4 DEF BlocksInv, BehindLabel
<1>10. AllPrinted'
  BY <1>1, <1>2, <1>3, <1>4 DEF BlocksInv, AllPrinted, Printed
<1> QED BY <1>6, <1>7, <1>8, <1>9, <1>10

LEMMA BlocksStep ==
  ASSUME WellLabelled, BlocksInv, [Next]_vars
  PROVE  BlocksInv'
<1>1. failed \in BOOLEAN
  BY DEF BlocksInv, BlocksTypeOK
<1>2. CASE EmitOther \/ EmitRet \/ EmitBranch
  BY <1>1, <1>2, EmissionKeeps, FailedKeeps
<1>3. CASE EmitUndefined
  BY <1>3, UndefinedKeeps
<1>4. CASE Finish
  BY <1>4, FinishKeeps
<1>5. CASE UNCHANGED vars
  BY <1>5, StutterKeeps
<1> QED BY <1>2, <1>3, <1>4, <1>5 DEF Next

\* The invariant behind both theorems: what has been printed fits the
\* instructions read so far.
THEOREM BlocksAreInvariant == ASSUME WellLabelled PROVE Spec => []BlocksInv
<1>1. Init => BlocksInv
  BY BlocksInit
<1>2. BlocksInv /\ [Next]_vars => BlocksInv'
  BY BlocksStep
<1> QED BY <1>1, <1>2, PTL DEF Spec

-----------------------------------------------------------------------------
\* A finished text has code in it, and the pass has seen the whole body.
LEMMA FinishedText ==
  ASSUME WellLabelled, BlocksInv, Accepted, ~failed
  PROVE  /\ Len1 \in Nat \ {0} /\ i = Len1 + 1 /\ Len(out) \in Nat \ {0}
         /\ out[1] = Code(1) /\ IsTerm(out[Len(out)])
<1>1. done /\ Len(out) \in Nat /\ i = Len1 + 1 /\ Len1 \in Nat
  BY LabelFacts DEF Accepted, BlocksInv, BlocksTypeOK
<1>2. i # 1
  BY DEF Accepted, BlocksInv, Starts
<1>3. Len(out) > 0 /\ out[1] = Code(1)
  BY <1>2 DEF BlocksInv, Starts
<1>4. IsTerm(out[Len(out)])
  BY <1>1, <1>3 DEF BlocksInv, LastItem
<1> QED BY <1>1, <1>2, <1>3, <1>4

\* Entering the block that begins at instruction m is going to m.
LEMMA EnteredBlock ==
  ASSUME WellLabelled, BlocksInv, Accepted, ~failed, NEW m \in 2 .. Len1, BeginsBlock(m)
  PROVE  Entered(BlockName(m)) = {m}
<1>1. Len1 \in Nat /\ i - 1 = Len1 /\ body \in Bodies /\ m \in Nat \ {0}
  BY FinishedText DEF BlocksInv, BlocksTypeOK
<1>2. PICK q \in Positions : out[q] = Label(BlockName(m))
  BY <1>1 DEF BlocksInv, AllPrinted, Printed
<1>3. BlockName(m) = NameOf(m) /\ BlockName(m) # RetBlock
  BY <1>1, NameOfStart, BlockNameFacts
<1>4. ASSUME NEW p \in Positions, out[p] = Label(BlockName(m))
      PROVE  out[p + 1] = Code(m)
  <2>1. out[p].k = "label"
    BY <1>4 DEF Label
  <2>2. CASE \E n \in 2 .. i - 1 : /\ BeginsBlock(n)
                                   /\ out[p] = Label(BlockName(n))
                                   /\ out[p + 1] = Code(n)
    <3>1. PICK n \in 2 .. i - 1 : /\ BeginsBlock(n)
                                  /\ out[p] = Label(BlockName(n))
                                  /\ out[p + 1] = Code(n)
      BY <2>2
    <3>2. BlockName(n) = BlockName(m)
      BY <1>4, <3>1 DEF Label
    <3>3. n \in Nat \ {0}
      BY <1>1
    <3>4. BlockName(n) = NameOf(n)
      BY <1>1, <3>1, <3>3, NameOfStart
    <3>5. n = m
      BY <1>1, <1>3, <3>2, <3>3, <3>4, NamesDiffer
    <3> QED BY <3>1, <3>5
  <2>3. CASE out[p] = Label(RetBlock)
    BY <1>3, <1>4, <2>3 DEF Label
  <2> QED BY <2>1, <2>2, <2>3 DEF BlocksInv, BehindLabel
<1>5. Code(m).k = "code" /\ Code(m).at = m
  BY DEF Code
<1> QED BY <1>2, <1>4, <1>5 DEF Entered

\* Entering the block of the implicit ret is leaving the kernel.
LEMMA EnteredRet ==
  ASSUME WellLabelled, BlocksInv, Accepted, ~failed, needRet
  PROVE  Entered(RetBlock) = {Exit}
<1>1. Len1 \in Nat /\ i - 1 = Len1 /\ body \in Bodies
  BY FinishedText DEF BlocksInv, BlocksTypeOK
<1>2. PICK q \in Positions : out[q] = Label(RetBlock)
  BY DEF Accepted, BlocksInv, AllPrinted, Printed
<1>3. ASSUME NEW p \in Positions, out[p] = Label(RetBlock)
      PROVE  out[p + 1] = RetItem
  <2>1. out[p].k = "label"
    BY <1>3 DEF Label
  <2>2. ASSUME NEW n \in 2 .. i - 1, out[p] = Label(BlockName(n))
        PROVE  FALSE
    <3>1. BlockName(n) = RetBlock
      BY <1>3, <2>2 DEF Label
    <3>2. n \in Nat \ {0}
      BY <1>1
    <3> QED BY <1>1, <3>1, <3>2, BlockNameFacts
  <2> QED BY <2>1, <2>2 DEF BlocksInv, BehindLabel
<1>4. RetItem.k # "code"
  BY DEF RetItem
<1> QED BY <1>2, <1>3, <1>4 DEF Entered

\* The block of a label is entered at its instruction.
LEMMA EnteredLabel ==
  ASSUME WellLabelled, BlocksInv, Accepted, ~failed, NEW l \in Labels
  PROVE  Entered(<<"b", l>>) = {body.at[l]}
<1>1. body \in Bodies
  BY DEF BlocksInv, BlocksTypeOK
<1>2. PICK m \in 2 .. Len1 : m = body.at[l]
  BY <1>1, LabelFacts
<1>3. LabelsAt(m) = {l} /\ BeginsBlock(m) /\ Len1 \in Nat /\ m \in Nat \ {0}
  BY <1>1, <1>2, LabelFacts DEF BeginsBlock
<1>4. LabelAt(m) = l
  <2>1. LabelAt(m) \in Labels /\ body.at[LabelAt(m)] = m
    BY <1>1, <1>3, LabelFacts
  <2>2. LabelAt(m) \in LabelsAt(m)
    BY <2>1 DEF LabelsAt
  <2> QED BY <1>3, <2>2
<1>5. BlockName(m) = <<"b", l>>
  BY <1>1, <1>3, <1>4, NameOfStart DEF NameOf
<1> QED BY <1>2, <1>3, <1>5, EnteredBlock

-----------------------------------------------------------------------------
\* LlvmGen, for every body whose labels name different instructions, none of
\* them the first: each basic block of an accepted text ends in one terminator,
\* and there is none before its end (emit_terminator and the loop of gen).
THEOREM BlocksEndOnce == ASSUME WellLabelled PROVE Spec => []OneTerminator
<1>1. BlocksInv => OneTerminator
  <2> SUFFICES ASSUME BlocksInv, Accepted, ~failed, NEW p \in Positions
               PROVE  IsTerm(out[p]) <=> (p = Len(out) \/ out[p + 1].k = "label")
    BY DEF OneTerminator, IsTerm
  <2>1. Len(out) \in Nat \ {0} /\ IsTerm(out[Len(out)])
    BY FinishedText
  <2>2. CASE p = Len(out)
    BY <2>1, <2>2
  <2>3. CASE p # Len(out)
    <3>1. p \in 1 .. Len(out) - 1
      BY <2>1, <2>3 DEF Positions
    <3> QED BY <2>3, <3>1 DEF BlocksInv, TermsBeforeLabels
  <2> QED BY <2>2, <2>3
<1> QED BY <1>1, BlocksAreInvariant, PTL

\* What is printed behind the code of instruction n goes where PTX goes.
LEMMA ClosingFlow ==
  ASSUME WellLabelled, BlocksInv, Accepted, ~failed,
         NEW p \in Positions, out[p].k = "code", NEW n, n = out[p].at
  PROVE  Flow(p + 1) = PtxFlow(n)
<1>1. /\ Len1 \in Nat \ {0} /\ i = Len1 + 1 /\ body \in Bodies
      /\ Len(out) \in Nat \ {0}
  BY FinishedText DEF BlocksInv, BlocksTypeOK
<1>2. n \in 1 .. Len1
  BY <1>1 DEF BlocksInv, BehindCode
<1>3. body.ins[n] \in Instructions
  BY <1>1, <1>2 DEF WellLabelled, Len1
<1>4. body.ins[n].op = "bra" => body.ins[n].target \in Labels
  BY <1>1, <1>2 DEF BlocksInv, Defined
<1>5. /\ Len(Closing(n)) \in {0, 1}
      /\ Len(Closing(n)) = 1 <=> (n = Len1 \/ BeginsBlock(n + 1))
  BY <1>1, <1>2, <1>4, ClosingFacts
<1>6. Len(Closing(n)) = 1 => out[p + 1] = Closing(n)[1]
  BY DEF BlocksInv, BehindCode
<1>7. n < Len1 => n + 1 \in 2 .. Len1
  BY <1>1, <1>2
<1>8. n < Len1 /\ BeginsBlock(n + 1) => Entered(BlockName(n + 1)) = {n + 1}
  BY <1>7, EnteredBlock
<1>9. BlockName(n + 1) # BlockName(n) <=> BeginsBlock(n + 1)
  <2>1. n \in Nat \ {0}
    BY <1>1, <1>2
  <2> QED BY <1>1, <2>1, BlockNameFacts
<1>10. body.ins[n].op \in {"bra", "ret"} => BeginsBlock(n + 1)
  BY <1>1, <1>2 DEF BeginsBlock, IsTerminator
<1>11. out[p + 1] = RetItem => Flow(p + 1) = {Exit}
  BY DEF Flow, RetItem
<1>12. \A to : out[p + 1] = Br(to) => Flow(p + 1) = UNION {Entered(name) : name \in to}
  BY DEF Flow, Br
<1>13. CASE body.ins[n].op = "ret"
  <2>1. Closing(n) = <<RetItem>>
    BY <1>13 DEF Closing
  <2>2. out[p + 1] = RetItem
    BY <1>6, <2>1
  <2> QED BY <1>11, <1>13, <2>2 DEF PtxFlow
<1>14. CASE body.ins[n].op = "bra"
  <2>1. Closing(n) = << Br(Targets(n)) >>
    BY <1>14 DEF Closing
  <2>2. Flow(p + 1) = UNION {Entered(name) : name \in Targets(n)}
    BY <1>6, <1>12, <2>1
  <2>3. Entered(<<"b", body.ins[n].target>>) = {body.at[body.ins[n].target]}
    BY <1>4, <1>14, EnteredLabel
  <2>4. CASE ~body.ins[n].guarded
    <3>1. Targets(n) = {<<"b", body.ins[n].target>>}
      BY <2>4 DEF Targets
    <3> QED BY <1>14, <2>2, <2>3, <2>4, <3>1 DEF PtxFlow
  <2>5. CASE body.ins[n].guarded
    <3> DEFINE fall == IF n < Len1 THEN BlockName(n + 1) ELSE RetBlock
               next == IF n < Len1 THEN n + 1 ELSE Exit
    <3>1. Targets(n) = {<<"b", body.ins[n].target>>, fall}
      BY <2>5 DEF Targets
    <3>2. Entered(fall) = {next}
      <4>1. CASE n < Len1
        BY <1>8, <1>10, <1>14, <4>1
      <4>2. CASE ~(n < Len1)
        <5>1. n = Len1
          BY <1>1, <1>2, <4>2
        <5>2. needRet
          BY <1>1, <1>14, <2>5, <5>1 DEF BlocksInv, AllPrinted
        <5> QED BY <4>2, <5>2, EnteredRet
      <4> QED BY <4>1, <4>2
    <3>3. PtxFlow(n) = {body.at[body.ins[n].target]} \cup {next}
      BY <1>14, <2>5 DEF PtxFlow
    <3> HIDE DEF fall, next
    <3> QED BY <2>2, <2>3, <3>1, <3>2, <3>3
  <2> QED BY <2>4, <2>5
<1>15. CASE body.ins[n].op \notin {"bra", "ret"}
  <2>1. PtxFlow(n) = {IF n < Len1 THEN n + 1 ELSE Exit}
    BY <1>15 DEF PtxFlow
  <2>2. CASE n = Len1
    <3>1. Closing(n) = <<RetItem>>
      BY <1>15, <2>2 DEF Closing
    <3>2. out[p + 1] = RetItem
      BY <1>6, <3>1
    <3> QED BY <1>1, <1>11, <2>1, <2>2, <3>2
  <2>3. CASE n # Len1 /\ BeginsBlock(n + 1)
    <3>1. Closing(n) = << Br({BlockName(n + 1)}) >> /\ n < Len1
      BY <1>1, <1>2, <1>9, <1>15, <2>3 DEF Closing
    <3>2. Flow(p + 1) = UNION {Entered(name) : name \in {BlockName(n + 1)}}
      BY <1>6, <1>12, <3>1
    <3>3. Flow(p + 1) = {n + 1}
      BY <1>8, <2>3, <3>1, <3>2
    <3> QED BY <2>1, <3>1, <3>3
  <2>4. CASE n # Len1 /\ ~BeginsBlock(n + 1)
    <3>1. Len(Closing(n)) # 1 /\ n < Len1
      BY <1>1, <1>2, <1>5, <2>4
    <3>2. p < Len(out)
      BY <1>1, <3>1 DEF BlocksInv, BehindCode
    <3>3. out[p + 1] = Code(n + 1)
      BY <3>1, <3>2 DEF BlocksInv, BehindCode
    <3>4. Flow(p + 1) = {n + 1}
      BY <3>3 DEF Flow, Code
    <3> QED BY <2>1, <3>1, <3>4
  <2> QED BY <2>2, <2>3, <2>4
<1> QED BY <1>3, <1>13, <1>14, <1>15

\* LlvmGen, for every such body: the code starts with the first instruction,
\* and from the code of every instruction control goes, through the branches
\* and labels printed behind it, exactly where the PTX body sends it.
THEOREM FlowIsPreserved == ASSUME WellLabelled PROVE Spec => []FlowPreserved
<1>1. BlocksInv => FlowPreserved
  <2> SUFFICES ASSUME BlocksInv, Accepted, ~failed
               PROVE  /\ Flow(1) = {1}
                      /\ \A p \in Positions : out[p].k = "code" =>
                           Flow(p + 1) = PtxFlow(out[p].at)
    BY DEF FlowPreserved
  <2>1. out[1] = Code(1)
    BY FinishedText
  <2>2. Flow(1) = {1}
    BY <2>1 DEF Flow, Code
  <2> QED BY <2>2, ClosingFlow
<1> QED BY <1>1, BlocksAreInvariant, PTL

=============================================================================
