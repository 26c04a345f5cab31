--------------------------- MODULE MCSharedLayout ---------------------------
(***************************************************************************)
(* The layout of the .shared variables, of modules given as declarations   *)
(* and of the kernels of parsed texts.                                     *)
(***************************************************************************)
EXTENDS ModuleParser

Static(name, align, bytes) ==
  [name |-> name, align |-> align, bytes |-> bytes, form |-> "array"]
Dynamic(name) == [name |-> name, align |-> 4, bytes |-> 0, form |-> "dynamic"]
Scalar(name) == [name |-> name, align |-> 4, bytes |-> 4, form |-> "scalar"]

\* Sizes and alignments that leave gaps: bytes, halves, words, doubles.
SomeVariables ==
  { Static(name, shape[1], shape[2]) :
      name \in {"a", "b"}, shape \in {<<1, 3>>, <<2, 6>>, <<8, 8>>, <<32, 4>>} }
SomeLines == {<<>>, <<Scalar("b")>>} \cup { <<v>> : v \in SomeVariables }
             \cup { <<v, w>> : v \in SomeVariables, w \in {Static("c", 4, 20)} }

StaticModules ==
  [own : { <<k, l>> : k, l \in SomeLines }, extern : {<< >>},
   module : { <<l>> : l \in SomeLines }]

DynamicModules ==
  { [own |-> << <<Static("a", 4, 20)>> >>, extern |-> << <<Dynamic("d")>> >>,
     module |-> << <<Static("b", 4, 20)>> >>] }

-----------------------------------------------------------------------------
Instr(i) == [kind |-> "instruction", instrs |-> <<i>>]
LabelAfter(instrs) == [kind |-> "label", label |-> "L", instrs |-> instrs]
Brace(opens) == [kind |-> "brace", opens |-> opens]
Decl(kind, v) == [kind |-> kind, vars |-> <<v>>]
Reg(r) == [kind |-> "reg", regs |-> {r}, bits |-> 32]

\* A kernel's signature: on one line, over several lines in three ways.
Entry(name, signature, params, opens) ==
  [kind |-> "entry", name |-> name, signature |-> signature, params |-> params, opens |-> opens]
Param(widths, closes) == [kind |-> "param", params |-> widths, closes |-> closes]
Signatures(name) ==
  { << Entry(name, "absent", <<>>, FALSE), Brace(TRUE) >>,
    << Entry(name, "whole", <<8, 4>>, TRUE) >>,
    << Entry(name, "open", <<>>, FALSE), Param(<<8, 4>>, FALSE), Param(<<4>>, TRUE), Brace(TRUE) >>,
    << Entry(name, "open", <<>>, FALSE), Param(<<4, 8>>, FALSE), [kind |-> "paren"],
       [kind |-> "directive"], Brace(TRUE) >> }

\* A device function in front of the kernels: its lines are nobody's.
DeviceFunction == << [kind |-> "directive"], Brace(TRUE), Reg("f"), Instr("mov"), Brace(FALSE) >>
Prologues ==
  LET lines == { <<Decl("extern shared", Dynamic("d"))>>, <<Decl("shared", Static("a", 1, 3))>>,
                 <<Decl("shared", Static("b", 8, 8))>>, <<Decl("local", Static("x", 8, 24))>>,
                 <<Decl("global", Static("g", 4, 4)), [kind |-> "target", sm |-> 75]>>,
                 DeviceFunction }
  IN  {<<>>} \cup lines \cup { p \o q : p \in lines, q \in lines }

Pieces ==
  { <<LabelAfter(<<>>)>>, <<LabelAfter(<<"bra">>)>>, <<Instr("add")>>,
    <<Decl("shared", Static("a", 2, 6))>>, <<Decl("shared", Static("c", 4, 20))>>,
    <<Decl("local", Static("x", 1, 3))>>, <<Reg("r")>>,
    <<Brace(TRUE), Reg("s"), [kind |-> "param", params |-> <<4>>, closes |-> FALSE],
      Instr("call"), Brace(FALSE)>> }
Kernel(signature, body) == signature \o body \o << Instr("ret"), Brace(FALSE) >>
Bodies == { p \o q : p, q \in Pieces }

\* The second kernel has a label and variables of the first one's names.
Seconds ==
  { <<>>,
    Kernel(<<Entry("l", "whole", <<4>>, TRUE)>>,
           <<Decl("shared", Static("a", 8, 8)), Instr("add"), LabelAfter(<<>>)>>) }

Distinct(p, kinds) ==
  \A i, j \in DOMAIN p : (i # j /\ Reads(p[i], kinds) /\ Reads(p[j], kinds)) =>
                           p[i].vars # p[j].vars
TextsOf(prologues, signatures, bodies) ==
  { p \o Kernel(s, b) \o k : p \in prologues, s \in signatures, b \in bodies, k \in Seconds }

RejectedTexts ==
  { Kernel(s, <<LabelAfter(<<"bra">>), i>>) :
      s \in Signatures("k"), i \in {LabelAfter(<<"@p">>), Instr("@p")} }
  \cup { Kernel(<<Entry("k", "whole", <<8, 0>>, TRUE)>>, <<>>),
         Kernel(<<Entry("k", "open", <<>>, FALSE), Param(<<0>>, TRUE), Brace(TRUE)>>, <<>>) }

MCTexts ==
  TextsOf({p \in Prologues : Distinct(p, {"extern shared", "shared", "local"})},
          {<<Entry("k", "whole", <<8, 4>>, TRUE)>>}, Bodies)
  \cup TextsOf({<<>>, DeviceFunction}, Signatures("k"), Bodies)
  \cup RejectedTexts

\* Texts beyond the line: a declaration of the module behind a kernel goes
\* to that kernel alone, a function behind a kernel becomes part of its body,
\* a parenthesis and a brace on one line leave the signature open.
LateTexts ==
  LET first == Kernel(<<Entry("k", "whole", <<8>>, TRUE)>>, <<>>)
      second == Kernel(<<Entry("l", "whole", <<4>>, TRUE)>>, <<>>)
  IN  { first \o <<Decl("shared", Static("b", 8, 8))>> \o second,
        first \o DeviceFunction,
        Kernel(<<Entry("k", "open", <<>>, FALSE), Brace(TRUE)>>, <<>>) }

\* Either a module of declarations, the parser at rest, or a text to parse.
MCInit == \/ ModuleInit
          \/ LayoutInit /\ text = <<>> /\ NothingRead /\ outcome = "parsed"
MCSpec == MCInit /\ [][ModuleNext]_<<layoutVars, parserVars>>
=============================================================================
