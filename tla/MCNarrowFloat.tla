---------------------------- MODULE MCNarrowFloat ---------------------------
(* Conversions for the runs of NarrowFloat: every number of every narrow   *)
(* format and the floats around it.                                        *)
EXTENDS NarrowFloat

Conversion(from, to, mods, operands) ==
  [from |-> from, to |-> to, mods |-> mods, operands |-> operands]

\* The float next to f, away from zero and towards it.
Up(f) == IF f.man = 2 ^ 23 - 1 THEN Float(f.s, f.e + 1, 0) ELSE [f EXCEPT !.man = @ + 1]
Down(f) == IF f.man = 0 THEN Float(f.s, f.e - 1, 2 ^ 23 - 1) ELSE [f EXCEPT !.man = @ - 1]
Around(f) == {f, Up(f), Down(f)}

\* The float of a number n * 2^k.
FloatOf(v) ==
  LET top == Log2(v.n) IN Float(0, top + v.k + 127, (v.n * 2 ^ (23 - top)) % 2 ^ 23)

BothSigns(floats) == floats \cup {[f EXCEPT !.s = 1] : f \in floats}
Specials == BothSigns({Zero, QuietNaN, Float(0, 255, 0), Float(0, 254, 2 ^ 23 - 1),
                    Float(0, 1, 0), Float(0, 60, 5)})

\* At every number of the format, at those its NaN takes the place of, and at
\* every middle of two.
AroundCodes(F, codes) ==
  UNION {Around(FloatOf(CodeValue(code, F))) \cup Around(FloatOf(Midpoint(code, F))) :
           code \in codes}
FloatsFor(F) == BothSigns(AroundCodes(F, 1 .. 2 ^ (F.e + F.m) - 1)) \cup Specials

Codes(F) == {c * 2 ^ F.shift : c \in 0 .. 2 ^ F.width - 1}
HalfCodes == {0, 1, 2, 512, 1023, 1024, 1025, 15360, 31743, 31744, 32256,
              32768, 32769, 33791, 33792, 49152, 64511, 64512, 65024}
BrainCodes == {0, 1, 127, 128, 129, 16256, 32639, 32640, 32704,
               32768, 32769, 32895, 32896, 49024, 65407, 65408, 65472}

Roundings == {<<"rn", "satfinite">>, <<"rz", "satfinite">>,
              <<"rn", "satfinite", "relu">>, <<"rz", "satfinite", "relu">>}

\* Two operands per instruction; the second is fixed.
Narrowings ==
  {Conversion(F32, F, m, <<f, Float(1, 127, 0)>>) :
     <<F, f, m>> \in UNION {{F} \X FloatsFor(F) \X Roundings : F \in NarrowFormats}}
Widenings ==
  UNION {{Conversion(F, H, m, <<x, 2 ^ F.shift>>) :
            x \in Codes(F), H \in Halves, m \in {<< >>, <<"rn">>, <<"rn", "relu">>, <<"rz">>}} :
         F \in NarrowFormats}
Singles ==
  {Conversion(F32, F16, <<"rn">>, <<f>>) :
     f \in BothSigns(AroundCodes(F16, {1, 2, 3, 1022, 1023, 1024, 1025, 15360, 31742, 31743}))
           \cup Specials \cup {Float(0, 0, 98304), Float(1, 0, 8388607), Float(0, 143, 5),
                              Float(1, 143, 0)}}
  \cup {Conversion(F32, BF16, <<"rn">>, <<f>>) :
     f \in BothSigns(AroundCodes(BF16, {128, 129, 130, 16256, 16257, 32638, 32639}))
           \cup Specials \cup {Float(0, 0, 98304), Float(1, 0, 32768)}}
Backs ==
  {Conversion(F16, F32, << >>, <<x>>) : x \in HalfCodes}
  \cup {Conversion(BF16, F32, << >>, <<x>>) : x \in BrainCodes}
Others ==
  {Conversion(F32, E4M3, m, <<QuietNaN, Zero>>) : m \in {<<"rp", "satfinite">>, <<"sat">>}}

AgreedConversions ==
  {c \in Narrowings \cup Widenings \cup Singles \cup Backs \cup Others :
     ~Differs(c) /\ ~CarriesOut(c)}

\* Numbers between the largest of a format and the next binade.
CarryConversions == {c \in Narrowings : CarriesOut(c) /\ ~Has(c, "relu")}
=============================================================================
