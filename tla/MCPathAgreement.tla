-------------------------- MODULE MCPathAgreement ---------------------------
(* Kernels for the runs of PathAgreement and PtxInterp.                    *)
EXTENDS PathAgreement

ASSUME OneBlock == SameBlock

Plain(op, d, a, b, k) ==
  [op |-> op, guard |-> "always", d |-> d, a |-> a, b |-> b, k |-> k]
If(ins) == [ins EXCEPT !.guard = "if"]
Unless(ins) == [ins EXCEPT !.guard = "unless"]

Add(d, a, k) == Plain("add", d, a, "z", k)
SetLt(a, k) == Plain("setp", "z", a, "z", k)
Ld(d, a, k) == Plain("ld", d, a, "z", k)
St(a, k, b) == Plain("st", "z", a, b, k)
Atom(d, a, k, b) == Plain("atom", d, a, b, k)
Red(a, k, b) == Plain("red", "z", a, b, k)
Shfl(d, b) == Plain("shfl", d, "z", b, 1)
Bra(k) == Plain("bra", "z", "z", "z", k)
Bar == Plain("bar", "z", "z", "z", 0)
RetI == Plain("ret", "z", "z", "z", 0)

-----------------------------------------------------------------------------
(* Race-free kernels in which every guard sits on an instruction that only *)
(* writes a register, or on a branch.                                      *)

\* Publish, synchronise, read the neighbour's cell; twice over.
ExchangeKernel ==
  << Add("s", "t", 1), St("t", 0, "s"), Bar, Ld("r", "t", 1),
     St("t", 4, "r"), Bar, Ld("s", "t", 5), St("t", 0, "s"), RetI >>

\* A loop, an atomic per lane, a barrier, and everybody reads the total.
ReduceKernel ==
  << Add("r", "r", 1), SetLt("r", 2), If(Bra(1)), Atom("s", "z", 0, "r"),
     Bar, Ld("s", "z", 0), St("t", 1, "s"), RetI >>

\* The lanes part and meet again at the barrier.
DivergeKernel ==
  << SetLt("t", 1), If(Bra(5)), St("t", 0, "t"), Bra(6), Add("r", "z", 2),
     Bar, Unless(Ld("r", "z", 1)), Unless(Add("r", "r", 1)),
     St("t", 2, "r"), RetI >>

\* Straight-line kernels of three instructions, each lane on its own cell,
\* and a counter that is only ever added to.
OwnCell ==
  { SetLt("t", 1), SetLt("r", 2), If(Add("r", "t", 1)), Unless(Ld("r", "t", 1)),
    Add("r", "r", 2), St("t", 1, "r"), Red("z", 0, "r"), If(Bra(3)) }
OwnCellKernels == { Append(body, RetI) : body \in [1 .. 3 -> OwnCell] }

\* Kernels the interpreter abandons: no ret at the end, a runaway loop.
NoRetKernel == << St("t", 1, "t") >>
RunawayKernel == << Bra(1), RetI >>

AgreeingKernels ==
  {ExchangeKernel, ReduceKernel, DivergeKernel, NoRetKernel, RunawayKernel}
  \cup OwnCellKernels

-----------------------------------------------------------------------------
(* A guard on an instruction with an effect of its own.                    *)
GuardedStoreKernel == {<< SetLt("t", 1), Add("r", "z", 1),
                          If(St("t", 0, "r")), RetI >>}

-----------------------------------------------------------------------------
(* Shuffles between lanes that arrive together, into another register.     *)
Converged == { Shfl("s", "r"), Shfl("r", "s"), Add("r", "t", 1),
               Add("s", "r", 1), St("t", 0, "s"), Bar }
\* A loop that the lanes leave together, though their guards are read alone.
ShuffleLoopKernel ==
  << Add("r", "r", 1), Shfl("s", "t"), St("t", 0, "s"), SetLt("r", 2),
     If(Bra(1)), RetI >>
ConvergedKernels ==
  { Append(body, RetI) : body \in [1 .. 3 -> Converged] } \cup {ShuffleLoopKernel}

\* Everything the passing run of PathAgreement covers.
CheckedKernels == AgreeingKernels \cup ConvergedKernels

\* The same register on both sides of a shuffle.
InPlaceKernel == {<< Add("r", "t", 1), Shfl("r", "r"), St("t", 0, "r"), RetI >>}

=============================================================================
