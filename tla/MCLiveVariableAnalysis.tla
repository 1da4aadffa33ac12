----------------------- MODULE MCLiveVariableAnalysis -----------------------
(***************************************************************************)
(* Small function bodies for the liveness analysis: every choice of three  *)
(* instructions over two temporaries in each control-flow shape.           *)
(***************************************************************************)
EXTENDS LiveVariableAnalysis

a == Abstract(<<"t", 1>>)
b == Abstract(<<"t", 2>>)

L == <<"L", 1>>
M == <<"L", 2>>

Ops == {MOV(a, b), MOVConst(a), Arith(b, a), MOV(x86(RAX), b)}

Straight(o) == <<o[1], o[2], o[3], RET>>
Loop(o)     == <<Label(L), o[1], o[2], Jcc(L), o[3], RET>>
Skip(o)     == <<o[1], Jcc(L), o[2], Label(L), Label(M), o[3], RET>>
Diamond(o)  == <<o[1], Jcc(L), o[2], JMP(M), Label(L), o[3], Label(M), RET>>
Spin(o)     == <<o[1], Label(L), o[2], Label(M), o[3], Jcc(M), JMP(L)>>

\* A comparison of a sum with b as a value, in a loop that is left with it.
c == Abstract(<<"t", 3>>)
Sum       == [code |-> <<Arith(a, b)>>, outputRegister |-> a]
Variable  == [code |-> <<>>, outputRegister |-> b]
Flag(op)  == <<Label(L)>> \o Comparison(Sum, Variable, c)
               \o <<op, Jcc(L), MOV(x86(RAX), c), RET>>

MCFunctions ==
  LET triples == [1 .. 3 -> Ops] IN
  UNION {{Straight(o), Loop(o), Skip(o), Diamond(o), Spin(o)} : o \in triples}
    \cup {Flag(op) : op \in {MOV(a, b), Arith(b, a)}}

\* A body whose label CFGDestroyer drew from the same "$X" names as the builder.
MCOptimised ==
  {<<o[1], o[2], Jcc(<<"X", n>>), o[3], Label(<<"X", n>>), RET>> :
     o \in [1 .. 3 -> {MOV(a, b), MOVConst(a)}], n \in 1 .. 3}
=============================================================================
