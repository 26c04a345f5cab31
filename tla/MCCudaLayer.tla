---------------------------- MODULE MCCudaLayer ----------------------------
(* Instances for the runs of RuntimeApi.                                   *)
EXTENDS RuntimeApi, TLC

Kernel(name, symbol, v, ends) ==
  [name |-> name, touches |-> symbol, stores |-> v, ends |-> ends]

\* An image with two kernels and a global, one with a kernel that fails after
\* its store and none of the first one's second kernel, and a text that does
\* not parse.
Writer == [parses |-> TRUE, globals |-> {"g"},
           kernels |-> <<Kernel("k", "g", 1, "returns"),
                         Kernel("h", NoSymbol, NoStore, "dynamic")>>]
Reader == [parses |-> TRUE, globals |-> {"g"},
           kernels |-> <<Kernel("k", "g", NoStore, "unsupported")>>]
Broken == [parses |-> FALSE, globals |-> {}, kernels |-> << >>]

SomeImages == {Writer, Reader, Broken}
SomeFatBinaries == {<<Broken, Reader>>}
SomePtxFiles == <<Writer, Broken>>
AddressSymmetry == Permutations(Addresses)
OneConfig == {[grid |-> 1, sharedMem |-> 0]}
SomeConfigs == {[grid |-> 1, sharedMem |-> 0], [grid |-> 2, sharedMem |-> 64]}
=============================================================================
