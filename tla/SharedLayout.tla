---------------------------- MODULE SharedLayout ----------------------------
(***************************************************************************)
(* How the PTX parser lays the .shared variables of one kernel out in the  *)
(* block scratchpad (parse_shared_decl and the end of parse_ptx,           *)
(* rouge-ptx/ptx.cpp).  Declarations are processed line by line, first the *)
(* kernel's own, then the module's ".extern .shared" (dynamic) ones, then  *)
(* the module's static ones.                                               *)
(*                                                                         *)
(* A line is a sequence of variables [name, align, bytes, form]; align is  *)
(* the effective alignment (declared, or the element size), bytes the      *)
(* element size times the count.  The form is                              *)
(*   "array"    name[count]                                                *)
(*   "dynamic"  name[], whose size is only known at launch (bytes = 0)     *)
(*   "scalar"   name, without brackets.                                    *)
(* A variable without brackets is passed over, and so is a name that is    *)
(* already laid out.                                                       *)
(***************************************************************************)
EXTENDS Integers, Sequences

CONSTANTS Names,           \* PTX symbols
          Modules          \* the modules considered

Forms == {"array", "dynamic", "scalar"}
Variables == [name : Names, align : Nat \ {0}, bytes : Nat, form : Forms]
Lines == Seq(Variables)

ASSUME ModulesAssumption ==
  Modules \subseteq [own : Seq(Lines), extern : Seq(Lines), module : Seq(Lines)]

VARIABLES module,          \* the module being parsed, chosen once
          todo,            \* lines still to process
          sharedSize,
          sharedVars       \* variables laid out, each with its offset

layoutVars == <<module, todo, sharedSize, sharedVars>>

\* The order in which the parser hands the lines to the kernel.
LinesOf(m) == m.own \o m.extern \o m.module

LayoutInit ==
  /\ module \in Modules
  /\ todo = LinesOf(module)
  /\ sharedSize = 0
  /\ sharedVars = {}

-----------------------------------------------------------------------------
\* Mutant of AlignUp: down instead of up.
AlignDown(v, a) == (v \div a) * a

\* align_up: v rounded up to a multiple of a.
AlignUp(v, a) == ((v + a - 1) \div a) * a

ScratchpadAlign == 16

Rest == [todo EXCEPT ![1] = Tail(@)]

Known(name) == \E s \in sharedVars : s.var.name = name

Place ==
  /\ todo # <<>> /\ Head(todo) # <<>>
  /\ LET v == Head(Head(todo))
         offset == AlignUp(sharedSize, v.align)
     IN  /\ v.form # "scalar" /\ ~Known(v.name)
         /\ sharedVars' = sharedVars \cup {[var |-> v, offset |-> offset]}
         /\ sharedSize' = offset + v.bytes
  /\ todo' = Rest
  /\ UNCHANGED module

PassOver ==
  /\ todo # <<>> /\ Head(todo) # <<>>
  /\ LET v == Head(Head(todo)) IN v.form = "scalar" \/ Known(v.name)
  /\ todo' = Rest
  /\ UNCHANGED <<module, sharedSize, sharedVars>>

EndLine ==
  /\ todo # <<>> /\ Head(todo) = <<>>
  /\ sharedSize' = AlignUp(sharedSize, ScratchpadAlign)
  /\ todo' = Tail(todo)
  /\ UNCHANGED <<module, sharedVars>>

LayoutNext == Place \/ PassOver \/ EndLine

LayoutSpec == LayoutInit /\ [][LayoutNext]_layoutVars

-----------------------------------------------------------------------------
Placed == [var : Variables, offset : Nat]

LayoutTypeOK ==
  /\ module \in Modules
  /\ todo \in Seq(Lines)
  /\ sharedSize \in Nat
  /\ sharedVars \subseteq Placed

End(s) == s.offset + s.var.bytes
Aligned(s) == \E k \in 0 .. s.offset : s.offset = k * s.var.align

(* Two variables never share a byte of the scratchpad, and a symbol names  *)
(* one variable.                                                           *)
Disjoint ==
  \A s, u \in sharedVars : s # u =>
    /\ s.var.name # u.var.name
    /\ End(s) <= u.offset \/ End(u) <= s.offset

(* Every variable lies inside the scratchpad the block gets, at an offset  *)
(* that is a multiple of its alignment.                                    *)
InBounds == \A s \in sharedVars : End(s) <= sharedSize /\ Aligned(s)

(* "Dynamic region base lands after each kernel's static scratchpad."      *)
DynamicAfterStatic ==
  todo = <<>> =>
    \A d, s \in sharedVars :
      (d.var.form = "dynamic" /\ s.var.form # "dynamic") => End(s) <= d.offset

=============================================================================
