----------------------------- MODULE MCSimtToScf ----------------------------
(* Kernels for the runs of SimtToScf: a prefix of identities and constants,*)
(* and around a barrier every choice of operations from small menus.       *)
EXTENDS SimtToScf

Op(kind, args) == [op |-> kind, args |-> args, buf |-> 0, in |-> 0]
Shared(o) == [o EXCEPT !.buf = 3]
InIf(o, i) == [o EXCEPT !.in = i]

\* 1: thread id, 2: constant or block id, 3: shared buffer
Openings == { <<Op("thread_id", << >>), second, Op("alloc", << >>)>> :
                second \in { Op("constant", << >>), Op("block_id", << >>) } }

\* The operations at position i that use the results named.
Menu(vs) == { Op("sum", <<a, b>>) : a, b \in vs }
            \cup { Op("load", <<a>>) : a \in vs }
            \cup { Shared(Op("load", <<a>>)) : a \in vs }
            \cup { Shared(Op("store", <<a, b>>)) : a, b \in vs }
            \cup { Op("atomic", <<a, a>>) : a \in vs }

Split == { p \o <<x, Op("barrier", << >>), y, z>> :
             p \in Openings, x \in Menu({1, 2}), y \in Menu({1, 4}),
             z \in { Op("store", <<a, b>>) : a \in {1, 6}, b \in {4, 6} } }

\* A condition around an access or a barrier, sizes, the parameter, a chain of
\* constants deeper than MaxDepth.
Branching ==
  { <<Op("thread_id", << >>), x, Op("if", <<c>>), InIf(y, 3), Op("barrier", << >>), z>> :
      x \in {Op("load", <<1>>), Op("sum", <<0, 1>>), Op("block_dim", << >>)},
      c \in {1, 2},
      y \in {Op("store", <<1, 2>>), Op("atomic", <<0, 2>>), Op("barrier", << >>)},
      z \in {Op("store", <<1, 2>>), Op("load", <<2>>), Op("atomic", <<0, 1>>)} }
Chained ==
  { <<Op("constant", << >>), Op("sum", <<1, 1>>), Op("sum", <<2, 1>>), Op("sum", <<3, d>>),
      Op("grid_dim", << >>), Op("thread_id", << >>), Op("barrier", << >>),
      Op("store", <<6, 4>>)>> : d \in {1, 0} }

\* A value that all threads load alike, and what is computed from it.
Uniform == { <<Op("thread_id", << >>), Op("constant", << >>), Op("load", <<2>>),
               Op("sum", <<3, 2>>)>> \o rest :
               rest \in { << Op("store", <<1, 4>>) >>,
                         << Op("barrier", << >>), Op("store", <<1, 4>>) >> } }

AllKernels == { k \in Split \cup Branching \cup Chained \cup Uniform : WellFormed(k) }

FlatKernels == { k \in AllKernels : ~UsesLoaded(k) }
=============================================================================
