------------------------------ MODULE MCOccupancy ------------------------------
(***************************************************************************)
(* Kernel bodies for the register estimate: every sequence of four         *)
(* instructions over three groups of registers, closed by a ret, a loop or *)
(* a loop with an exit.                                                    *)
(***************************************************************************)
EXTENDS Occupancy

MCRegs == {"a", "b", "w"}
MCWeight == [r \in MCRegs |-> CASE r = "a" -> 40 [] r = "b" -> 52 [] r = "w" -> 90]

Ins(op, guarded, target, first, rest) ==
  [op |-> op, guarded |-> guarded, target |-> target, first |-> first, rest |-> rest]

Body == 4
Straight ==
  { Ins("op", FALSE, 0, {"a"}, {}), Ins("op", FALSE, 0, {"b"}, {"a"}),
    Ins("op", FALSE, 0, {"w"}, {"a", "b"}), Ins("st", FALSE, 0, {"w"}, {"b"}),
    Ins("atom", FALSE, 0, {"a"}, {"w"}), Ins("setp", FALSE, 0, {}, {"a"}),
    Ins("bar", FALSE, 0, {}, {}) }
Branches == { Ins("bra", g, k, {}, {}) : g \in BOOLEAN, k \in 1 .. Body }
Ends == { Ins("ret", FALSE, 0, {}, {}), Ins("bra", TRUE, 1, {}, {}) }

SomeBodies ==
  { << f, g, h, e >> : f \in Straight, g, h \in Straight \cup Branches, e \in Ends }
  \cup { << Ins("call", FALSE, 0, {}, {}), Ins("ret", FALSE, 0, {}, {}) >>, <<>> }

\* The instructions whose guard or operands the analysis misreads.
GuardedBodies ==
  { << Ins("op", FALSE, 0, {"a"}, {}), Ins("op", FALSE, 0, {"w"}, {}),
       Ins("st", FALSE, 0, {"w"}, {}), Ins("op", TRUE, 0, {"a"}, {}),
       Ins("st", FALSE, 0, {}, {"a"}), Ins("ret", FALSE, 0, {}, {}) >> }

Sizes == BlockSizes
MCDynamic == { [s \in Sizes |-> 0], [s \in Sizes |-> 20000], [s \in Sizes |-> 70 * s] }
=============================================================================
