---------------------------- MODULE MCTranslation ----------------------------
(***************************************************************************)
(* Small functions of the source language: the operands whose order        *)
(* matters in every pair and triple, and the statements around them.       *)
(***************************************************************************)
EXTENDS Translation

I(c)     == <<"int", c>>
V(x)     == <<"id", x>>
f(args)  == <<"call", "f", args>>
Bin(op, a, b) == <<"bin", op, a, b>>
Index(a, i)   == <<"index", a, i>>
Let(x, e)     == <<"assign", <<V(x)>>, <<e>>>>
Block(ss)     == <<"block", ss>>
Ret(es)       == <<"return", es>>
P(args)       == <<"proc", "p", args>>

Function(args, n, ss) == [args |-> args, returns |-> n, body |-> Block(ss)]

\* A local variable, a global, an element that calls change, a call.
Operands == {V("x"), V("g"), Index(V("ga"), I(0)), f(<<V("x")>>)}
Sums == {Bin("SUB", a, Bin("MUL", b, I(3))) : a, b \in Operands}

Conditions == {Bin("LT", V("x"), I(1)), Bin("EQ", f(<<>>), I(11)), <<"bool", TRUE>>, Bin("LT", V("g"), I(2))}
Guards == {Bin(op, a, <<"not", b>>) : op \in {"AND", "OR"}, a, b \in Conditions}

\* Expressions: operators over three operands, arguments, conditions as values.
ExpressionFunctions ==
  {Function(<<"x">>, 1, <<Ret(<<Bin("ADD", Bin("MUL", e, I(5)), o)>>)>>) : e \in Sums, o \in Operands}
    \cup {Function(<<"x">>, 1, <<Ret(<<Bin("SUB", o, Bin("MUL", e, I(5)))>>)>>) : e \in Sums, o \in Operands}
    \cup {Function(<<"x">>, 1, <<P(<<a, b>>), Ret(<<f(<<b, a>>)>>)>>) : a, b \in Operands}
    \cup {Function(<<"x">>, 1, <<Ret(<<Bin("ADD", V("g"), g)>>)>>) : g \in Guards}

\* Assignments: the place of a target is found before the values.
AssignmentFunctions ==
  {Function(<<"x">>, 2, <<<<"assign", <<Index(V("ga"), a), V("g")>>, <<b, c>>>>, Ret(<<V("g"), Index(V("ga"), I(1))>>)>>) :
      a \in {V("x"), V("g"), Bin("SUB", f(<<>>), I(11))}, b \in Operands, c \in Operands}
    \cup {Function(<<"x">>, 2, <<<<"assign", <<t, V("x")>>, <<f(<<a>>)>>>>, Ret(<<V("x"), V("g")>>)>>) :
      t \in {V("g"), <<"_">>, Index(V("ga"), V("x"))}, a \in Operands}

\* Conditions as control, loops, break.
ControlFunctions ==
  {Function(<<"x">>, 0, <<<<"if", g, P(<<I(1)>>), P(<<I(2)>>)>>>>) : g \in Guards}
    \cup {Function(<<"x">>, 1,
            <<<<"decl", <<"i", "j">>>>,
              <<"while", <<"bool", TRUE>>,
                Block(<<<<"while", Bin("LT", V("j"), I(2)),
                          Block(<<Let("j", Bin("ADD", V("j"), I(1))), P(<<V("i"), V("j")>>), <<"if", g, <<"break">>, Block(<<>>)>>>>)>>,
                        Let("i", Bin("ADD", V("i"), I(1))),
                        <<"if", Bin("LT", V("i"), I(2)), Let("j", I(0)), <<"break">>>>>>)>>,
              Ret(<<Bin("SUB", V("i"), V("j"))>>)>>) : g \in Conditions}

\* Arrays and records: literals, concatenation, nested arrays, fields.
HeapFunctions ==
  LET pair(a, b) == <<"array", <<a, b>>>>
      joined(a, b) == <<"concat", V("ga"), pair(a, b)>>
  IN
  {Function(<<"x">>, 2, <<Let("a", joined(a, b)), Ret(<<<<"length", V("a")>>, Index(V("a"), Bin("ADD", V("x"), I(2)))>>)>>) :
      a, b \in Operands}
    \cup {Function(<<"x">>, 1, <<Let("r", <<"record", <<a, b>>>>),
                                 <<"assign", <<<<"field", V("r"), 1>>>>, <<f(<<<<"field", V("r"), 1>>>>)>>>>,
                                 Ret(<<Bin("SUB", <<"field", V("r"), 0>>, <<"field", V("r"), 1>>)>>)>>) :
      a, b \in Operands}
    \cup {Function(<<"x">>, 2, <<<<"initarr", "a", <<Bin("ADD", V("x"), I(1)), d>>>>,
                                 <<"assign", <<Index(Index(V("a"), V("x")), I(0))>>, <<<<"neg", V("g")>>>>>>,
                                 Ret(<<Index(Index(V("a"), I(0)), I(0)), <<"length", Index(V("a"), I(1))>>>>)>>) :
      d \in {I(1), f(<<>>)}}

\* Constants at the ends of words and of halves of words.
Numbers == {-32768, -32767, -257, -1, 0, 1, 3, 256, 32767}
Foldable(op, m, n) == op \in {"DIV", "MOD"} => n # 0 /\ ~(m = -32768 /\ n = -1)
ConstantFunctions ==
  {Function(<<>>, 1, <<Ret(<<Bin(x[1], I(x[2]), I(x[3]))>>)>>) :
     x \in {y \in {"ADD", "SUB", "MUL", "HMUL", "DIV", "MOD", "LT", "ULT"} \X Numbers \X Numbers :
              Foldable(y[1], y[2], y[3])}}

MCFunctions == ConstantFunctions \cup ExpressionFunctions \cup AssignmentFunctions \cup ControlFunctions \cup HeapFunctions
MCGlobals == {"g", "ga"}
MCInputs == {<<>>, <<0>>, <<1>>, <<2>>}

\* An array of no arrays.
ZeroDimension ==
  {Function(<<"x">>, 1, <<<<"initarr", "a", <<V("x"), I(1)>>>>, Ret(<<<<"length", V("a")>>>>)>>)}
=============================================================================
