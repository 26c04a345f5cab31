------------------------------- MODULE SimtIr -------------------------------
(***************************************************************************)
(* The kernels that the pass rouge-to-scf (rouge-compiler/mlir) takes: the *)
(* operations of a SIMT kernel in program order.  An operation is a record *)
(*   op   its kind,                                                        *)
(*   args the operations whose results it uses, in order; 0 is the scalar  *)
(*        parameter of the kernel,                                         *)
(*   buf  the buffer it accesses: 0 is the memory passed to the kernel, any *)
(*        other number the shared allocation of that index,                *)
(*   in   the scf.if it stands in, 0 when it is at the top level.          *)
(* Values are the addresses of the cells of a buffer, so that sums are     *)
(* taken modulo the number of cells.                                       *)
(***************************************************************************)
EXTENDS Naturals, Sequences, SequencesExt, FiniteSets, FiniteSetsExt

CONSTANTS GridSize, BlockSize,
          Cells,           \* cells of a buffer
          Parameter        \* the scalar argument of the launch

ASSUME SimtAssumption ==
  /\ GridSize \in Nat \ {0} /\ BlockSize \in Nat \ {0} /\ Cells \in Nat \ {0}
  /\ Parameter \in 0 .. Cells - 1

Blocks == 0 .. GridSize - 1
Threads == 0 .. BlockSize - 1

Sizes == {"block_dim", "grid_dim"}
Ids == {"thread_id", "block_id"}
Accesses == {"load", "store", "atomic"}
Effects == Accesses \cup {"barrier"}
Computations == {"constant", "sum"}

Arity(kind) == CASE kind \in {"sum", "store", "atomic"} -> 2
                 [] kind \in {"load", "if"} -> 1
                 [] OTHER -> 0
Operations == [op : Ids \cup Sizes \cup Effects \cup Computations \cup {"alloc", "if"},
               args : Seq(Nat), buf : Nat, in : Nat]

Kinds(k, kinds) == { i \in DOMAIN k : k[i].op \in kinds }
TopLevel(k) == { i \in DOMAIN k : k[i].in = 0 }
Inner(k, i) == { j \in DOMAIN k : k[j].in = i }
Operands(k, i) == ToSet(k[i].args)

\* The operations of a set in the order of the program.
InOrder(S) ==
  [n \in 1 .. Cardinality(S) |->
     CHOOSE i \in S : Cardinality({ j \in S : j < i }) = n - 1]

\* What the verifier of the IR asks for: an operand is an operation that has a
\* result and stands before its use, at the top level or in the same region; an
\* access names the kernel's memory or an allocation above it.  And the limits
\* of the model: a region is one scf.if that does not nest, its operations
\* follow it, and what the pass maps or hoists by itself stands outside.
WellFormed(k) ==
  /\ k \in Seq(Operations)
  /\ \A i \in DOMAIN k :
       /\ Len(k[i].args) = Arity(k[i].op)
       /\ \A j \in Operands(k, i) \ {0} :
            /\ j < i /\ k[j].in \in {0, k[i].in}
            /\ k[j].op \notin {"store", "barrier", "if", "alloc"}
       /\ k[i].buf # 0 => k[i].buf < i /\ k[k[i].buf].op = "alloc"
       /\ k[i].in # 0 =>
            /\ k[i].in < i /\ k[k[i].in].op = "if" /\ k[k[i].in].in = 0
            /\ \A j \in k[i].in + 1 .. i : k[j].in = k[i].in
            /\ k[i].op \notin Ids \cup Sizes \cup {"alloc", "if"}

SizeOf(kind) == IF kind = "block_dim" THEN BlockSize ELSE GridSize

\* The operations that only compute; of an scf.if, its condition.
Compute(kind, values) ==
  CASE kind = "constant" -> 1
    [] kind = "alloc" -> 0             \* accesses name their buffer
    [] kind = "if" -> values[1]
    [] OTHER -> (values[1] + values[2]) % Cells

\* The cell that an access by a thread of block b names.
Cell(buf, b, address) ==
  IF buf = 0 THEN <<0, 0, address % Cells>> ELSE <<buf, b, address % Cells>>

EmptyMemory(k) ==
  [c \in { Cell(0, 0, a) : a \in 0 .. Cells - 1 }
         \cup { Cell(i, b, a) : i \in Kinds(k, {"alloc"}), b \in Blocks,
                                a \in 0 .. Cells - 1 } |-> 0]

\* Memory after the access, and the result of the access.
MemoryAfter(memory, kind, cell, values) ==
  CASE kind = "load" -> memory
    [] kind = "store" -> [memory EXCEPT ![cell] = values[2] % Cells]
    [] kind = "atomic" -> [memory EXCEPT ![cell] = (@ + values[2]) % Cells]

ResultOf(memory, kind, cell) == IF kind = "store" THEN 0 ELSE memory[cell]
=============================================================================
