---------------------------- MODULE MCTranslators ----------------------------
(* The run of the three translators of control flow and addresses: one of  *)
(* them works on a body of its own, the others rest.  The variables of     *)
(* LlvmBlocks keep their names.                                            *)
EXTENDS LlvmBlocks

CONSTANTS Kernels, MaxSteps,       \* of MlirStructure
          Files, ThreadId, Turns   \* of MlirAddresses

VARIABLES sBody, sStructured, sGiven, sPc, sRegs, sOut, sSteps,
          aKernel, aPlan, aPc, aTurn, aRegs, aNamed, aEnv, aMade, aEntry, aRefused

Structure == INSTANCE MlirStructure
  WITH body <- sBody, structured <- sStructured, given <- sGiven, pc <- sPc,
       regs <- sRegs, out <- sOut, steps <- sSteps
Addresses == INSTANCE MlirAddresses
  WITH kernel <- aKernel, plan <- aPlan, pc <- aPc, turn <- aTurn, regs <- aRegs,
       named <- aNamed, env <- aEnv, made <- aMade, entry <- aEntry, refused <- aRefused

structureVars == <<sBody, sStructured, sGiven, sPc, sRegs, sOut, sSteps>>
addressesVars == <<aKernel, aPlan, aPc, aTurn, aRegs, aNamed, aEnv, aMade, aEntry, aRefused>>

\* At rest: nothing to translate, nothing accepted.
BlocksRest ==
  /\ body = [ins |-> << >>, at |-> << >>] /\ i = 1 /\ out = << >>
  /\ needRet = FALSE /\ failed = TRUE /\ done = TRUE
StructureRest ==
  /\ sBody = << >> /\ sStructured = [ok |-> FALSE] /\ sGiven = << >>
  /\ sPc = 1 /\ sRegs = << >> /\ sOut = << >> /\ sSteps = 0
AddressesRest ==
  /\ aKernel = [pre |-> << >>, loop |-> << >>] /\ aPlan = << >> /\ aPc = 1 /\ aTurn = 1
  /\ aRegs = << >> /\ aNamed = << >> /\ aEnv = << >> /\ aMade = << >>
  /\ aEntry = {} /\ aRefused = TRUE

OneInit == \/ Init /\ StructureRest /\ AddressesRest
           \/ BlocksRest /\ Structure!Init /\ AddressesRest
           \/ BlocksRest /\ StructureRest /\ Addresses!Init

OneNext == \/ Next /\ UNCHANGED <<structureVars, addressesVars>>
           \/ Structure!Next /\ UNCHANGED <<vars, addressesVars>>
           \/ Addresses!Next /\ UNCHANGED <<vars, structureVars>>

OneSpec == OneInit /\ [][OneNext]_<<vars, structureVars, addressesVars>>

\* Constants of the run, from instances of which nothing else is taken.
StructureInputs == INSTANCE MCMlirStructure
  WITH Kernels <- {}, MaxSteps <- 0, body <- << >>, structured <- << >>, given <- << >>,
       pc <- 1, regs <- << >>, out <- << >>, steps <- 0
AddressInputs == INSTANCE MCMlirAddresses
  WITH Files <- {}, ThreadId <- 0, Turns <- 0, kernel <- << >>, plan <- << >>, pc <- 1,
       turn <- 1, regs <- << >>, named <- << >>, env <- << >>, made <- << >>,
       entry <- {}, refused <- FALSE
AllKernels == StructureInputs!AllKernels
AllFiles == AddressInputs!AllFiles

(* Kernel bodies for LlvmBlocks.                                            *)
Other == [op |-> "other", target |-> 0, guarded |-> FALSE]
RetI == [op |-> "ret", target |-> 0, guarded |-> FALSE]
Bra(l) == [op |-> "bra", target |-> l, guarded |-> FALSE]
GuardedBra(l) == [op |-> "bra", target |-> l, guarded |-> TRUE]

AllBodies(n) ==
  [ins : [1 .. n -> {Other, RetI, Bra(1), Bra(2), GuardedBra(1), GuardedBra(2)}],
   at : [1 .. 2 -> 1 .. n]]

\* Two labels on different instructions, neither of them the first.
WellLabelled ==
  {[ins |-> <<Other, Bra(3), Other, RetI>>, at |-> [l \in {1} |-> 3]]} \cup
  {b \in AllBodies(3) \cup AllBodies(4) :
     1 \notin {b.at[1], b.at[2]} /\ b.at[1] # b.at[2]}

\* The structuriser: an accepted body puts out in its scf form what the flat
\* body puts out (MlirStructure, emitRange and emitLoop).
SameOutput == Structure!SameOutput

\* The structuriser: no value is used outside the region that made it
\* (MlirStructure, liveAfter and the erasures of regValue_).
ValuesAreVisible == Structure!ValuesAreVisible

\* The address analysis: a translated kernel accesses the addresses that the
\* PTX accesses (MlirAddresses, analyseAddresses and accessIndex).
SameAddresses == Addresses!SameAddresses
=============================================================================
