--------------------------- MODULE MCMlirStructure --------------------------
(* Bodies for the runs of MlirStructure: the shapes nvcc gives to loops and *)
(* branches, around every short block of a small menu.                     *)
EXTENDS MlirStructure

Ins(op, d, reads) == [op |-> op, d |-> d, reads |-> reads, pred |-> "", to |-> 0]
Inc(r) == Ins("inc", r, {r})
Copy(d, r) == Ins("copy", d, {r})
Out(r) == Ins("out", "", {r})
Setp(op, d) == Ins(op, d, {"x", "n"})
Bra(pred, to) == [Ins("bra", "", {}) EXCEPT !.pred = pred, !.to = to]
Ret == Ins("ret", "", {})

\* Shifted by k positions.
At(k, block) == [i \in DOMAIN block |-> IF block[i].op = "bra" THEN [block[i] EXCEPT !.to = @ + k]
                                        ELSE block[i]]

\* Blocks of straight code, of a guard, of an if/else in nvcc's shape.
Simple == {Inc("y"), Copy("y", "x"), Copy("z", "y"), Out("x"), Out("y"), Out("z")}
Straight == { <<a, b>> : a, b \in Simple }
Guards == { <<Setp(c, "q"), Bra("q", 4), a>> : c \in Compares, a \in Simple }
          \cup { <<Setp(c, "q"), Bra("q", 4), Bra("", 5), a>> : c \in Compares, a \in Simple }
Blocks == Straight \cup Guards \cup { <<a>> \o At(1, g) : a \in Simple, g \in Guards }
                   \cup { g \o <<a>> : a \in Simple, g \in Guards }

Ends == { <<Out("y"), Ret>>, <<Out("x"), Out("z"), Ret>> }

DoWhile(blk, end) ==
  blk \o <<Inc("x"), Setp("lt", "p"), Bra("p", 1)>> \o end
While(blk, end) ==
  <<Setp("ge", "p"), Bra("p", Len(blk) + 5)>> \o At(2, blk) \o <<Inc("x"), Bra("", 1)>> \o end

Plain == { b \o e : b \in Blocks, e \in Ends }
Bottom == { DoWhile(b, e) : b \in Blocks, e \in Ends }
Top == { While(b, e) : b \in Blocks, e \in Ends }

\* The registers that have a value where the block starts.
Prefix == { <<Copy("x", "a")>> \o rest :
              rest \in { << >>, <<Copy("y", "n")>>, <<Copy("y", "n"), Copy("z", "n")>> } }

\* A loop under a guard, as nvcc guards one that may not be entered; a loop in
\* a loop; a loop that reads its predicate.
Guarded == { <<Setp("ge", "q"), Bra("q", 6 + Len(b))>> \o At(2, DoWhile(b, e)) :
               b \in { <<a>> : a \in Simple } \cup Guards, e \in {<<Out("x")>>, <<Out("y")>>} }
InALoop == { <<Copy("y", "n"), Copy("z", "a"), Copy("x", "a")>> \o At(3, DoWhile(b, << >>))
               \o <<c, Inc("z"), Ins("lt", "q", {"z", "n"}), Bra("q", 3), Out("z"), Out("y")>> :
               b \in { <<a>> : a \in Simple },
               c \in Simple }
Behind(bodies) == { p \o At(Len(p), b) : p \in Prefix, b \in bodies }
With(bodies, v) == [body : bodies, given : {[a |-> v, n |-> 2]}]

\* A value that a turn of a loop computes and does not hand to the next one: a
\* guard in the loop writes the register, and no later instruction reads it.
LosesAnUpdate(b) ==
  LET e == EmitBody(b, {"a", "n"})
      loops == { i \in DOMAIN e.code : e.code[i].op = "while" }
  IN  e.ok /\ \E i \in loops : e.code[i].kept # e.code[i].carried

\* A loop closed by a predicate is entered with the predicate true.
AllKernels ==
  LET b == Behind(Bottom \cup InALoop)  t == Behind(Top \cup Guarded)
      kept == { k \in b \cup t : ~LosesAnUpdate(k) }
  IN  With(Behind(Plain) \cup kept, 0) \cup With(Behind(Plain) \cup (kept \ b), 2)

\* A count of turns under a condition, read only at the start of a turn.
LosingKernels == With({ k \in Behind(Bottom) : LosesAnUpdate(k) }, 0)

\* A loop closed by a predicate that is false when the loop is entered, and one
\* whose body reads that predicate.
NeverEntered == With(Behind({ DoWhile(<<a>>, e) : a \in Simple, e \in Ends }), 2)
ReadsPredicate ==
  With(Behind({ DoWhile(<<a, Out("p")>>, <<Out("y")>>) : a \in Simple }), 0)
=============================================================================
