--------------------------- MODULE MCMlirAddresses --------------------------
(* Kernels for the runs of MlirAddresses: every way to a base, to an index *)
(* and to their sum, and loops that move a pointer.                        *)
EXTENDS MlirAddresses

Op(op, d, a, b, n) == [op |-> op, d |-> d, a |-> a, b |-> b, n |-> n, w |-> 0]
Access0(op, r, n, bytes) ==
  [Op(op, IF op = "st" THEN "" ELSE "v", r, "", n) EXCEPT !.w = bytes]
SharedMove(d) == Op("shared", d, "", "", Shared)

Openings == { <<Op("param", "p", "", "", 1), Op("cvta", "q", "p", "", 0), Op("tid", "t", "", "", 0)>>,
              <<Op("param", "q", "", "", 2), Op("tid", "t", "", "", 0)>>,
              <<SharedMove("q"), Op("tid", "t", "", "", 0)>> }

Indices == { <<Op("wide", "o", "t", "", 4)>>, <<Op("lo", "o", "t", "", 4)>>,
             <<Op("const", "c", "", "", 4), Op("wide", "o", "t", "c", 0)>>,
             <<Op("cvt", "o", "t", "", 0)>>, <<Op("other", "o", "t", "", 1)>>,
             <<Op("other", "u", "t", "", 1), Op("wide", "o", "u", "", 4)>>,
             <<Op("cvt", "u", "t", "", 0), Op("lo", "o", "u", "", 8)>> }

\* A conversion or a product of what has been scaled already.
ScaledTwice == { <<Op("lo", "u", "t", "", 4), Op("cvt", "o", "u", "", 0)>>,
                 <<Op("lo", "u", "t", "", 2), Op("lo", "o", "u", "", 2)>> }

SumForms == { <<Op("add", "r", "q", "o", 0)>>, <<Op("add", "r", "o", "q", 0)>>,
          <<Op("add", "s", "q", "", 8), Op("add", "r", "s", "o", 0)>>,
          <<Op("add", "s", "q", "o", 0), Op("add", "r", "s", "", 4)>>,
          <<Op("add", "s", "q", "o", 0), Op("add", "r", "s", "o", 0)>>,
          <<Op("add32", "s", "q", "o", 0), Op("add32", "r", "s", "", 4)>> }

Touch(r) == { <<Access0(op, r, n, b)>> : op \in {"ld", "st"}, n \in {0, 4}, b \in {1, 4} }
            \cup { <<Access0("atom", r, 0, b)>> : b \in {1, 4} }
            \cup { <<Access0("st", r, 0, b), Access0("ld", "q", 4, c)>> : b, c \in {1, 4} }

StraightOf(indices) == { [pre |-> a \o i \o s \o t, loop |-> << >>] :
                           a \in Openings, i \in indices, s \in SumForms, t \in Touch("r") }

\* A pointer that a loop steps: bytes in whole elements, or not.
Whole == { <<Op("add", "r", "r", "", 16)>>, <<Op("add32", "r", "r", "", 16)>>, <<Op("add", "r", "r", "o", 0)>> }
Steps == Whole \cup { <<Op("add", "r", "r", "", 6)>> }
Rebases == { <<Op("add", "r", "q", "o", 0)>>, <<SharedMove("r")>> }

OfThread == { <<Op("wide", "o", "t", "", 4)>> }
OfAnother == { <<Op("other", "u", "t", "", 1), Op("wide", "o", "u", "", 4)>> }
Bare == { <<Op("add", "r", "q", "", 0)>> }
Indexed == { <<Op("add", "r", "q", "o", 0)>> }

LoopsOf(indices, pointers, bodies) ==
  { [pre |-> a \o i \o p, loop |-> b] :
      a \in Openings, i \in indices, p \in pointers, b \in bodies }

StepFirst == { s \o t : s \in Steps, t \in Touch("r") }
StepLast == { t \o s : s \in Whole, t \in Touch("r") }
Rebased == { x \o b : x \in Rebases, b \in StepFirst }

\* A pointer with an index of its own moves behind the access, and the index
\* is not the thread id itself.
Loops == LoopsOf(OfThread \cup OfAnother, Bare, StepFirst \cup StepLast)
         \cup LoopsOf(OfThread \cup OfAnother, Bare \cup Indexed, Rebased)
         \cup LoopsOf(OfAnother, Indexed, StepLast)
Straight == StraightOf(Indices)
First == { [pre |-> a \o i \o s \o t, loop |-> << >>] :
             a \in Openings, i \in OfAnother, s \in {<<Op("add", "r", "q", "o", 0)>>},
             t \in {<<Access0("st", "r", 0, 4)>>} }

AllFiles == { <<k>> : k \in Straight \cup Loops } \cup { <<f, k>> : f \in First, k \in Straight }

\* Files of the violations: a pointer that starts at the thread's element, an
\* offset scaled twice, a pointer that is stepped before it is dereferenced, a
\* kernel behind one with a moving pointer, an atomic at an offset.
ThreadPointers == { <<k>> : k \in LoopsOf(OfThread, Indexed, StepLast) }
TwiceScaled == { <<k>> : k \in StraightOf(ScaledTwice) }
SteppedFirst == { <<k>> : k \in LoopsOf(OfAnother, Indexed, StepFirst) }
AtomicOffsets == { <<[pre |-> a \o i \o s \o <<Access0("atom", "r", 4, 4)>>, loop |-> << >>]>> :
                     a \in Openings, i \in OfThread, s \in {<<Op("add", "r", "q", "o", 0)>>} }
Behind == { <<f, k>> : f \in LoopsOf(OfAnother, Bare, StepLast), k \in Straight }
=============================================================================
