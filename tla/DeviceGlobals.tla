--------------------------- MODULE DeviceGlobals ---------------------------
(***************************************************************************)
(* What the CUDA layer promises of the __device__ variables of a program:  *)
(* every loaded module has its own cell for each of its symbols, which     *)
(* starts at zero when the module is loaded, may be shown to the host,     *)
(* and from then on changes only when somebody writes to it.  Nothing a    *)
(* module that is gone has left behind is ever seen.                       *)
(***************************************************************************)
EXTENDS Naturals

CONSTANTS Keys,            \* what a loaded module is known by
          Symbols,
          Contents         \* what a cell may hold; 0 is the initial content

VARIABLES cell,            \* [loaded module -> [its symbols -> Contents]]
          shown            \* the <<module, symbol>> the host may write to

globalVars == <<cell, shown>>

Loaded == DOMAIN cell

Init == cell = << >> /\ shown = {}

Load(m) ==
  /\ m \notin Loaded
  /\ \E symbols \in SUBSET Symbols :
       cell' = [n \in Loaded \cup {m} |-> IF n = m THEN [s \in symbols |-> 0] ELSE cell[n]]
  /\ UNCHANGED shown

Unload(m) ==
  /\ m \in Loaded
  /\ cell' = [n \in Loaded \ {m} |-> cell[n]]
  /\ shown' = { ms \in shown : ms[1] # m }

Show(m, s) ==
  /\ m \in Loaded /\ s \in DOMAIN cell[m]
  /\ shown' = shown \cup {<<m, s>>}
  /\ UNCHANGED cell

Write(m, s, v) ==
  /\ <<m, s>> \in shown
  /\ cell' = [cell EXCEPT ![m][s] = v]
  /\ UNCHANGED shown

Next == \E m \in Keys :
          \/ Load(m)
          \/ Unload(m)
          \/ \E s \in Symbols : Show(m, s) \/ \E v \in Contents : Write(m, s, v)

Spec == Init /\ [][Next]_globalVars
=============================================================================
