----------------------------- MODULE MCDataflow -----------------------------
(***************************************************************************)
(* Functions for Dataflow.  A node's expressions are listed; In(i) loads   *)
(* word i of the memory, which holds anything.                             *)
(***************************************************************************)
EXTENDS Dataflow

In(i) == Mem(Const(i))

G(k)  == <<"gets", k>>
M(k)  == <<"mem", k>>
C(k)  == <<"call", k>>
I(k)  == <<"if", k>>
R(k)  == <<"ret", k>>
K(k)  == <<"cricket", k>>

Fall(a, b) == <<a, b, FALSE>>
Jump(a, b) == <<a, b, TRUE>>

Is(n, v, es) == n :> [var |-> v, es |-> es]
Gets(n, v, e) == Is(n, v, <<e>>)
Call(n, v, es, cell) == n :> [var |-> v, es |-> es, from |-> cell]

Func(vs, edges, stmts) == [vars |-> vs, args |-> <<>>, edges |-> edges, stmts |-> stmts]

\* x = 1; if (x == 1) y = [0] else y = 5; z = y; return z, x
ConstantGuard ==
  Func({"x", "y", "z"},
       << Fall(Start, G(1)), Fall(G(1), I(2)), Fall(I(2), G(3)), Jump(I(2), G(4)),
          Fall(G(3), K(1)), Jump(K(1), G(5)), Fall(G(4), G(5)), Fall(G(5), R(6)) >>,
       Gets(G(1), "x", Const(1)) @@ Is(I(2), NoVar, <<BOp("EQ", Var("x"), Const(1))>>)
       @@ Gets(G(3), "y", Const(5)) @@ Gets(G(4), "y", In(0))
       @@ Gets(G(5), "z", Var("y")) @@ Is(R(6), NoVar, <<Var("z"), Var("x")>>))

\* t = 1; if ([0] == 1) y = 2 else { y = 2; t = 3 }; [0] = y; return y + t
Branches ==
  Func({"y", "t"},
       << Fall(Start, G(1)), Fall(G(1), I(2)), Fall(I(2), G(3)), Jump(I(2), G(5)),
          Fall(G(3), G(4)), Fall(G(4), M(6)), Fall(G(5), K(1)), Jump(K(1), M(6)), Fall(M(6), R(7)) >>,
       Gets(G(1), "t", Const(1)) @@ Is(I(2), NoVar, <<BOp("EQ", In(0), Const(1))>>)
       @@ Gets(G(3), "y", Const(2)) @@ Gets(G(4), "t", Const(3)) @@ Gets(G(5), "y", Const(2))
       @@ Is(M(6), NoVar, <<Const(0), Var("y")>>)
       @@ Is(R(7), NoVar, <<BOp("ADD", Var("y"), Var("t"))>>))

\* n = [0]; i = 0; d = 9; while (i < n) { i = i + 1; d = i }; return i
Loop ==
  Func({"n", "i", "d"},
       << Fall(Start, G(1)), Fall(G(1), G(2)), Fall(G(2), G(3)), Fall(G(3), I(4)),
          Jump(I(4), G(5)), Fall(I(4), R(7)), Fall(G(5), G(6)), Fall(G(6), K(1)), Jump(K(1), I(4)) >>,
       Gets(G(1), "n", In(0)) @@ Gets(G(2), "i", Const(0)) @@ Gets(G(3), "d", Const(9))
       @@ Is(I(4), NoVar, <<BOp("LT", Var("i"), Var("n"))>>)
       @@ Gets(G(5), "i", BOp("ADD", Var("i"), Const(1))) @@ Gets(G(6), "d", Var("i"))
       @@ Is(R(7), NoVar, <<Var("i")>>))

\* a = [0]; b = a; a = [1]; c = b; b = c; call f(a, b, c) -> r; return r, c
Copies ==
  Func({"a", "b", "c", "r"},
       << Fall(Start, G(1)), Fall(G(1), G(2)), Fall(G(2), G(3)), Fall(G(3), G(4)),
          Fall(G(4), G(5)), Fall(G(5), C(6)), Fall(C(6), R(7)) >>,
       Gets(G(1), "a", In(0)) @@ Gets(G(2), "b", Var("a")) @@ Gets(G(3), "a", In(1))
       @@ Gets(G(4), "c", Var("b")) @@ Gets(G(5), "b", Var("c"))
       @@ Call(C(6), "r", <<Var("a"), Var("b"), Var("c")>>, 2)
       @@ Is(R(7), NoVar, <<Var("r"), Var("c")>>))

\* x = [0]; y = x; k = [1]; while (k != 0) { k = k - 1; x = y; y = x + 1 }; return x, y
CopyLoop ==
  Func({"x", "y", "k"},
       << Fall(Start, G(1)), Fall(G(1), G(2)), Fall(G(2), G(3)), Fall(G(3), I(4)),
          Jump(I(4), R(8)), Fall(I(4), G(5)), Fall(G(5), G(6)), Fall(G(6), G(7)), Fall(G(7), K(1)), Jump(K(1), I(4)) >>,
       Gets(G(1), "x", In(0)) @@ Gets(G(2), "y", Var("x")) @@ Gets(G(3), "k", In(1))
       @@ Is(I(4), NoVar, <<BOp("EQ", Var("k"), Const(0))>>)
       @@ Gets(G(5), "k", BOp("SUB", Var("k"), Const(1))) @@ Gets(G(6), "x", Var("y"))
       @@ Gets(G(7), "y", BOp("ADD", Var("x"), Const(1)))
       @@ Is(R(8), NoVar, <<Var("x"), Var("y")>>))

\* if ([0] == 1) { x = f() } else { x = 3 }; return x
CallOrConstant ==
  Func({"x", "t"},
       << Fall(Start, I(1)), Fall(I(1), G(2)), Jump(I(1), C(3)), Fall(G(2), K(1)),
          Fall(C(3), G(4)), Fall(G(4), R(5)), Jump(K(1), R(5)) >>,
       Is(I(1), NoVar, <<BOp("EQ", In(0), Const(1))>>) @@ Gets(G(2), "x", Const(3))
       @@ Call(C(3), "t", <<>>, 2) @@ Gets(G(4), "x", Var("t")) @@ Is(R(5), NoVar, <<Var("x")>>))

\* x = _ARG1; while (x == 1) { x = 0 }; return x
ArgumentLoop ==
  [Func({"x", "_ARG1"},
        << Fall(Start, G(1)), Fall(G(1), I(2)), Jump(I(2), G(3)), Fall(I(2), R(4)),
           Fall(G(3), K(1)), Jump(K(1), I(2)) >>,
        Gets(G(1), "x", Var("_ARG1")) @@ Is(I(2), NoVar, <<BOp("EQ", Var("x"), Const(1))>>)
        @@ Gets(G(3), "x", Const(0)) @@ Is(R(4), NoVar, <<Var("x")>>))
     EXCEPT !.args = [v \in {"_ARG1"} |-> 0]]

MCCallOrConstant == {CallOrConstant}
MCArgumentLoop   == {ArgumentLoop}

MCFunctions == {ConstantGuard, Branches, Loop, Copies, CopyLoop}
MCSettings  == {{"cp", "dce", "copy"}, {"dce"}, {"copy"}}
MCInputs    == [0 .. 2 -> 0 .. 2]
=============================================================================
