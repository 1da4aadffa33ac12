----------------------------- MODULE MCOptimiser -----------------------------
(***************************************************************************)
(* Small functions for the optimiser, in the form IRTranslator gives to    *)
(* if and while statements.                                                *)
(***************************************************************************)
EXTENDS Optimiser

L(k) == <<"L", k>>

If(k, g, then, else) ==
  <<LIRCJump(g, L(k), L(k+1)), LIRLabel(L(k))>> \o then
    \o <<LIRJump(L(k+2)), LIRLabel(L(k+1))>> \o else \o <<LIRLabel(L(k+2))>>

While(k, g, body) ==
  <<LIRLabel(L(k+2)), LIRCJump(g, L(k), L(k+1)), LIRLabel(L(k))>> \o body
    \o <<LIRJump(L(k+2)), LIRLabel(L(k+1))>>

a == LIRMove(11)
b == LIRMove(12)
c == LIRMove(13)
r == LIRReturn(21)
s == LIRReturn(22)

p == Guard(1)
q == Guard(2)

\* The functions a body gives, for what is known of the guards used in it.
Variants(body, guards, deads, copies, rounds) ==
  [body : {body}, known : [guards -> {"true", "false", "?"}], dead : deads, copies : copies,
   rounds : {rounds}]

\* Branches that join, branches that return, a loop.
SmallFunctions ==
  Variants(<<a>> \o If(1, p, <<b>>, <<c>>) \o <<r>>, {1}, {{12}, {11, 12}}, {{13}}, 2)
    \cup Variants(If(1, p, <<a, r>>, <<b, s>>), {1}, {{11}}, {{12}}, 2)
    \cup Variants(<<a>> \o While(1, p, <<b>>) \o <<c, r>>, {1}, {{12}, {11, 12}}, {{13}}, 2)

\* A loop after a branch that returns, a branch in a loop.
LoopFunctions ==
  Variants(<<a>> \o If(1, p, <<r>>, <<>>) \o While(4, q, <<b>>) \o <<s>>, {1, 2}, {{11}, {12}}, {{}}, 1)
    \cup Variants(While(1, p, If(4, q, <<b>>, <<c>>)) \o <<r>>, {1, 2}, {{12}}, {{}}, 1)

MCFunctions == SmallFunctions \cup LoopFunctions

MCSettings == {{}, {"dce", "copy"}, {"cp", "dce", "copy"}}

AllPasses == {{"cp", "dce", "copy"}}

\* An endless loop whose body ends in a branch that is always taken, after a
\* branch that returns.
EndlessLoopFunctions ==
  [body : {If(1, p, <<>>, <<r>>) \o While(4, q, <<b>> \o If(7, Guard(3), <<>>, <<>>)) \o <<s>>},
   known : {(1 :> "?") @@ (2 :> "true") @@ (3 :> "true")}, dead : {{}}, copies : {{}}, rounds : {1}]
=============================================================================
