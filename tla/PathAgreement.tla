--------------------------- MODULE PathAgreement ----------------------------
(***************************************************************************)
(* One kernel on both execution paths, on the same input: first the        *)
(* reference interpreter runs it to its end, then the ahead-of-time code   *)
(* runs it with its lanes interleaved in every way.                        *)
(***************************************************************************)
EXTENDS PtxInterp, PtxAot

\* One block, the lanes of the one path the threads of the other.
SameBlock == Count = N /\ Blocks = 1

pathVars == <<interpVars, aotVars>>

PathInit == InterpInit /\ AotInit

InterpStep == InterpNext /\ UNCHANGED <<aotData, inside, leaving>>
LaneStep(t) == status # "running" /\ ALane(t) /\ UNCHANGED interpVars
OpenStep == status # "running" /\ AOpen /\ UNCHANGED interpVars

PathNext == InterpStep \/ OpenStep \/ \E t \in Lanes : LaneStep(t)

PathSpec == PathInit /\ [][PathNext]_pathVars

\* The interpreter is a loop, the operating system runs every lane.
FairPathSpec ==
  /\ PathSpec
  /\ WF_pathVars(InterpStep)
  /\ WF_pathVars(OpenStep)
  /\ \A t \in Lanes : WF_pathVars(LaneStep(t))

(* The two paths agree: a kernel the interpreter completes leaves, on the  *)
(* ahead-of-time path and under every schedule of its lanes, the same      *)
(* memory.  Kernels that shuffle are not run on the host path (its scalar  *)
(* fallback is documented), so they are left out.                          *)
Shuffles == \E n \in DOMAIN kernel : kernel[n].op = "shfl"
Agreement == (status = "done" /\ AotDone /\ ~Shuffles) => amem = mem

(* A kernel that the interpreter completes also ends on the other path.    *)
BothEnd == status = "done" ~> AotDone

=============================================================================
