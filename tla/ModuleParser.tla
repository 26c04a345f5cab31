---------------------------- MODULE ModuleParser ----------------------------
(***************************************************************************)
(* parse_ptx (rouge-ptx/ptx.cpp): a PTX text is read line by line.  The    *)
(* parser has no stack of scopes; where a line belongs follows from        *)
(* whether there has been a kernel header yet (current), whether its       *)
(* signature is still open (inParams), and from how the line begins.       *)
(* Declarations in front of the first kernel are stashed and handed to     *)
(* every kernel at the end of the text.                                    *)
(*                                                                         *)
(* A line is a record whose kind says how it begins:                       *)
(*   "entry"          name, signature, params, opens   .visible .entry     *)
(*   "param"          params, closes                   .param              *)
(*   "paren"                                           )                   *)
(*   "brace"          opens                            { or }              *)
(*   "reg"            regs, bits                       .reg                *)
(*   "shared", "extern shared", "local", "global"      vars                *)
(*   "target"         sm                               .target             *)
(*   "directive"                                       any other .word     *)
(*   "label"          label, instrs   what stands before the label         *)
(*   "instruction"    instrs          a sequence of one                    *)
(* A signature is "whole" when its parenthesis closes on the header's line *)
(* and "open" when it does not; params are the widths of the entries, 0    *)
(* for a type without one.                                                 *)
(*                                                                         *)
(* The .shared variables of a kernel are laid out by SharedLayout once the *)
(* text is read: the parser lays a kernel's own lines out as it meets      *)
(* them, which comes to the same, since nothing reads the layout before.   *)
(***************************************************************************)
EXTENDS SharedLayout, SequencesExt

CONSTANTS Texts,           \* the texts considered
          Malformed        \* what parse_instruction refuses

Reads(l, kinds) == l.kind \in kinds

ASSUME TextsAssumption ==
  \A t \in Texts : \A n \in DOMAIN t :
    /\ Reads(t[n], {"entry", "param"}) => t[n].params \in Seq(Nat)
    /\ Reads(t[n], {"shared", "extern shared", "local", "global"}) => t[n].vars \in Lines

VARIABLES text,
          lineNo,          \* the line to read next
          current,         \* kernel the lines belong to, 0 before the first
          inParams,
          functions,
          stash,           \* declarations in front of the first kernel
          globals,
          targetSm,
          outcome,         \* "reading", "parsed" or "rejected"
          chosen           \* kernel whose scratchpad is laid out, 0 before

parserVars == <<text, lineNo, current, inParams, functions, stash, globals,
                targetSm, outcome, chosen>>

With(f, a, v) == [x \in DOMAIN f \cup {a} |-> IF x = a THEN v ELSE f[x]]
Empty == [x \in {} |-> 0]

NewFunction(name) ==
  [name |-> name, params |-> <<>>, paramsBlobSize |-> 0, body |-> <<>>,
   labels |-> Empty, regBits |-> Empty, shared |-> <<>>,
   localVars |-> {}, localSize |-> 0]

Line == text[lineNo]
Reading(kinds) == outcome = "reading" /\ lineNo <= Len(text) /\ Reads(Line, kinds)
NextLine == lineNo' = lineNo + 1 /\ UNCHANGED <<text, outcome, chosen, layoutVars>>

\* A line of the current kernel's body.
InBody(kinds) == Reading(kinds) /\ current # 0 /\ ~inParams
Update(f) == functions' = [functions EXCEPT ![current] = f]
Here == functions[current]

-----------------------------------------------------------------------------
\* parse_param_entry, once per entry: offsets follow each other without gaps.
WithParams(fn, widths) ==
  LET Add(f, w) == [f EXCEPT !.params = Append(@, [width |-> w, offset |-> f.paramsBlobSize]),
                             !.paramsBlobSize = @ + w]
  IN  FoldLeft(Add, fn, widths)

\* The newest function of a name is the one it finds.
functionIndex ==
  [name \in {functions[k].name : k \in DOMAIN functions} |->
     CHOOSE k \in DOMAIN functions :
       /\ functions[k].name = name
       /\ \A j \in k + 1 .. Len(functions) : functions[j].name # name]

\* What stands behind an open parenthesis on the header's line is not read.
Header ==
  /\ Reading({"entry"})
  /\ Line.signature = "whole" => 0 \notin Range(Line.params)
  /\ functions' = Append(functions,
       WithParams(NewFunction(Line.name),
                  IF Line.signature = "whole" THEN Line.params ELSE <<>>))
  /\ current' = Len(functions) + 1
  /\ inParams' = (Line.signature = "open")
  /\ NextLine /\ UNCHANGED <<stash, globals, targetSm>>

\* parse_global_decl: a variable declared again is appended again.
WithGlobals(gs, line) == gs \o line

\* In front of the first kernel: what is not listed is passed over.
ModuleScope ==
  /\ outcome = "reading" /\ lineNo <= Len(text) /\ Line.kind # "entry" /\ current = 0
  /\ LET Stashed(kind) == IF Line.kind = kind THEN Append(stash[kind], Line.vars)
                          ELSE stash[kind]
     IN  stash' = [kind \in DOMAIN stash |-> Stashed(kind)]
  /\ globals' = IF Line.kind = "global" THEN WithGlobals(globals, Line.vars) ELSE globals
  /\ targetSm' = IF Line.kind = "target" THEN Line.sm ELSE targetSm
  /\ NextLine /\ UNCHANGED <<current, inParams, functions>>

\* In an open signature only a parenthesis on a line of its own, or one
\* behind an entry, ends it; every other line is passed over.
Signature ==
  /\ outcome = "reading" /\ lineNo <= Len(text) /\ Line.kind # "entry"
  /\ current # 0 /\ inParams
  /\ Line.kind = "param" => 0 \notin Range(Line.params)
  /\ IF Line.kind = "param" THEN Update(WithParams(Here, Line.params))
     ELSE UNCHANGED functions
  /\ inParams' = ~(Line.kind = "paren" \/ (Line.kind = "param" /\ Line.closes))
  /\ NextLine /\ UNCHANGED <<current, stash, globals, targetSm>>

\* Braces and the directives that say nothing about a kernel's body.
Ignored ==
  /\ InBody({"brace", "directive", "target", "global", "extern shared", "param"})
  /\ NextLine /\ UNCHANGED <<current, inParams, functions, stash, globals, targetSm>>

Registers ==
  /\ InBody({"reg"})
  /\ Update([Here EXCEPT !.regBits =
               [r \in DOMAIN @ \cup Line.regs |-> IF r \in Line.regs THEN Line.bits ELSE @[r]]])
  /\ NextLine /\ UNCHANGED <<current, inParams, stash, globals, targetSm>>

Shared ==
  /\ InBody({"shared"})
  /\ Update([Here EXCEPT !.shared = Append(@, Line.vars)])
  /\ NextLine /\ UNCHANGED <<current, inParams, stash, globals, targetSm>>

\* parse_local_decl: the first declaration of a name counts; variables with
\* and without brackets are placed.
WithLocals(fn, line) ==
  LET Add(f, v) ==
        IF \E l \in f.localVars : l.var.name = v.name THEN f
        ELSE LET offset == AlignUp(f.localSize, v.align)
             IN  [f EXCEPT !.localVars = @ \cup {[var |-> v, offset |-> offset]},
                           !.localSize = offset + v.bytes]
  IN  FoldLeft(Add, fn, line)

Local ==
  /\ InBody({"local"})
  /\ Update(WithLocals(Here, Line.vars))
  /\ NextLine /\ UNCHANGED <<current, inParams, stash, globals, targetSm>>

\* Mutant of WithLabel: the label before the instruction in front of it.
LabelFirst(fn, line) ==
  [fn EXCEPT !.labels = With(@, line.label, Len(fn.body)),
             !.body = @ \o line.instrs]

\* The instruction in front of the label is emitted first, so the label
\* names the position behind it.
WithLabel(fn, line) ==
  [fn EXCEPT !.body = @ \o line.instrs,
             !.labels = With(@, line.label, Len(fn.body) + Len(line.instrs))]

Label ==
  /\ InBody({"label"}) /\ Malformed \notin Range(Line.instrs)
  /\ Update(WithLabel(Here, Line))
  /\ NextLine /\ UNCHANGED <<current, inParams, stash, globals, targetSm>>

\* A parenthesis outside a signature is read as an instruction.
Instruction ==
  /\ InBody({"instruction", "paren"})
  /\ LET instrs == IF Line.kind = "paren" THEN <<")">> ELSE Line.instrs
     IN  /\ Malformed \notin Range(instrs)
         /\ Update([Here EXCEPT !.body = @ \o instrs])
  /\ NextLine /\ UNCHANGED <<current, inParams, stash, globals, targetSm>>

\* parse_ptx returns nothing: a parameter without a width, an instruction
\* that cannot be read.
Reject ==
  /\ \/ Reading({"entry"}) /\ Line.signature = "whole" /\ 0 \in Range(Line.params)
     \/ Reading({"param"}) /\ current # 0 /\ inParams /\ 0 \in Range(Line.params)
     \/ InBody({"label", "instruction"}) /\ Malformed \in Range(Line.instrs)
  /\ outcome' = "rejected"
  /\ UNCHANGED <<text, lineNo, current, inParams, functions, stash, globals, targetSm, chosen>>
  /\ UNCHANGED layoutVars

\* At the end of the text the stashed declarations go to every kernel; its
\* own come first, so they hide those of the module (HandOver for .shared).
EndOfText ==
  /\ outcome = "reading" /\ lineNo > Len(text)
  /\ functions' = [k \in DOMAIN functions |->
                     FoldLeft(WithLocals, functions[k], stash["local"])]
  /\ outcome' = "parsed"
  /\ UNCHANGED <<text, lineNo, current, inParams, stash, globals, targetSm, chosen>>
  /\ UNCHANGED layoutVars

ParserNext == \/ Header \/ ModuleScope \/ Signature \/ Ignored \/ Registers
              \/ Shared \/ Local \/ Label \/ Instruction \/ Reject \/ EndOfText

-----------------------------------------------------------------------------
\* A kernel is asked for by its name; its scratchpad is laid out.
HandOver ==
  /\ outcome = "parsed" /\ chosen = 0
  /\ \E name \in DOMAIN functionIndex :
       LET k == functionIndex[name]
       IN  /\ chosen' = k
           /\ module' = [own |-> functions[k].shared, extern |-> stash["extern shared"],
                         module |-> stash["shared"]]
  /\ todo' = LinesOf(module')
  /\ UNCHANGED <<text, lineNo, current, inParams, functions, stash, globals, targetSm,
                 outcome, sharedSize, sharedVars>>

NoLines == [own |-> <<>>, extern |-> <<>>, module |-> <<>>]

NothingRead == /\ lineNo = 1 /\ current = 0 /\ inParams = FALSE /\ functions = <<>>
               /\ stash = [kind \in {"extern shared", "shared", "local"} |-> <<>>]
               /\ globals = <<>> /\ targetSm = 0 /\ chosen = 0

ParserInit == text \in Texts /\ NothingRead /\ outcome = "reading"

ModuleInit == /\ ParserInit
              /\ module = NoLines /\ todo = <<>> /\ sharedSize = 0 /\ sharedVars = {}

ModuleNext == \/ ParserNext
              \/ HandOver
              \/ Place /\ UNCHANGED parserVars
              \/ PassOver /\ UNCHANGED parserVars
              \/ EndLine /\ UNCHANGED parserVars

-----------------------------------------------------------------------------
(* The text as PTX scopes it, by its braces.                               *)
Opens(l) == Reads(l, {"entry", "brace"}) /\ l.opens
Closes(l) == Reads(l, {"brace"}) /\ ~l.opens
Depth(n) == Cardinality({j \in 1 .. n : Opens(text[j])})
            - Cardinality({j \in 1 .. n : Closes(text[j])})

\* The kernel whose signature or body line n is in, 0 at module scope.
ScopeOf(n) ==
  LET entries == {e \in 1 .. n : text[e].kind = "entry"}
      Left(e) == \E j \in e .. n - 1 : Closes(text[j]) /\ Depth(j) = 0
  IN  IF entries = {} \/ \E e \in entries : (\A d \in entries : d <= e) /\ Left(e)
      THEN 0 ELSE Cardinality(entries)

Within(k, kinds) == {n \in DOMAIN text : ScopeOf(n) = k /\ Reads(text[n], kinds)}
InOrder(S) == SetToSortSeq(S, <)
Code(S) == FlattenSeq([i \in DOMAIN InOrder(S) |-> text[InOrder(S)[i]].instrs])
Widths(S) == FlattenSeq([i \in DOMAIN InOrder(S) |-> text[InOrder(S)[i]].params])
Declared(S) == UNION {Range(text[n].vars) : n \in S}

\* Declarations kernel k sees: its own, and the module's it does not hide.
Visible(k, kinds) ==
  LET own == Declared(Within(k, kinds))
  IN  own \cup {v \in Declared(Within(0, kinds)) : \A u \in own : u.name # v.name}

Body(k) ==
  LET code == Within(k, {"label", "instruction"})
      labels == Within(k, {"label"})
  IN  /\ functions[k].body = Code(code)
      /\ DOMAIN functions[k].labels = {text[n].label : n \in labels}
      /\ \A n \in labels :
           (\A m \in labels : text[m].label = text[n].label => m <= n) =>
             functions[k].labels[text[n].label] = Len(Code({m \in code : m <= n}))

Operands(k) ==
  LET f == functions[k]
      params == f.params
      InSignature(n) == text[n].kind = "entry" \/ Depth(n) = 0
  IN  /\ [i \in DOMAIN params |-> params[i].width]
           = Widths({n \in Within(k, {"entry", "param"}) : InSignature(n)})
      /\ \A i, j \in DOMAIN params : i < j =>
           params[i].offset + params[i].width <= params[j].offset
      /\ DOMAIN f.regBits = UNION {text[n].regs : n \in Within(k, {"reg"})}
      /\ {l.var : l \in f.localVars} = Visible(k, {"local"})
      /\ \A l \in f.localVars : End(l) <= f.localSize /\ Aligned(l)
      /\ \A l, m \in f.localVars : l = m \/ End(l) <= m.offset \/ End(m) <= l.offset

(* Every kernel of a parsed module is the kernel PTX's scoping describes:  *)
(* its own instructions in their order, each label in front of the         *)
(* instruction that follows it in the text, parameters one behind the      *)
(* other, its own registers; and every symbol it can see, in .local and    *)
(* .shared, is laid out as the innermost declaration says.                 *)
ParsedAsWritten ==
  outcome = "parsed" =>
    /\ \A k \in DOMAIN functions : Body(k) /\ Operands(k)
    /\ chosen # 0 /\ todo = <<>> =>
         {s.var : s \in sharedVars} = Visible(chosen, {"shared", "extern shared"})

=============================================================================
