------------------------------- MODULE CFGExpr -------------------------------
(***************************************************************************)
(* The expressions of the optimiser's flow graph (CFGExpr.kt), the two     *)
(* ways the passes rewrite them, constant folding, and, as a reference,    *)
(* what an expression evaluates to when the function runs.                 *)
(***************************************************************************)
EXTENDS Integers, Sequences

Const(c)        == <<"const", c>>
Var(v)          == <<"var", v>>
Mem(loc)        == <<"mem", loc>>
BOp(op, l, r)   == <<"bop", op, l, r>>

RECURSIVE exprUse(_), replaceConst(_, _, _), replaceCopy(_, _)

\* Properties.Use.exprUse
exprUse(e) ==
  CASE e[1] = "const" -> {}
    [] e[1] = "var"   -> {e[2]}
    [] e[1] = "mem"   -> exprUse(e[2])
    [] e[1] = "bop"   -> exprUse(e[3]) \cup exprUse(e[4])

\* CondConstProp.replaceVar: a division keeps its operands when its divisor is
\* zero or becomes zero.
replaceConst(e, v, c) ==
  CASE e[1] = "const" -> e
    [] e[1] = "var"   -> IF e[2] = v THEN Const(c) ELSE e
    [] e[1] = "mem"   -> Mem(replaceConst(e[2], v, c))
    [] e[1] = "bop"   -> LET right == replaceConst(e[4], v, c) IN
                         IF e[2] = "DIV" /\ right = Const(0) THEN e
                         ELSE BOp(e[2], replaceConst(e[3], v, c), right)

\* CopyProp.replaceVar: copies maps a variable to the one it is a copy of.
replaceCopy(e, copies) ==
  CASE e[1] = "const" -> e
    [] e[1] = "var"   -> IF e[2] \in DOMAIN copies THEN Var(copies[e[2]]) ELSE e
    [] e[1] = "mem"   -> Mem(replaceCopy(e[2], copies))
    [] e[1] = "bop"   -> BOp(e[2], replaceCopy(e[3], copies), replaceCopy(e[4], copies))

Truth(b) == IF b THEN 1 ELSE 0

\* ConstantFolder.calculate for the operators of the functions examined; XOR is
\* applied to truth values only.
calculate(n1, n2, op) ==
  CASE op = "ADD" -> n1 + n2
    [] op = "SUB" -> n1 - n2
    [] op = "DIV" -> n1 \div n2
    [] op = "XOR" -> (n1 + n2) % 2
    [] op = "EQ"  -> Truth(n1 = n2)
    [] op = "NEQ" -> Truth(n1 # n2)
    [] op = "LT"  -> Truth(n1 < n2)

-----------------------------------------------------------------------------
(* Reference: evaluation with the variables env and the memory input.  The *)
(* result is <<value>>, or <<>> if a division has no result.               *)

RECURSIVE Evaluate(_, _, _)
Evaluate(e, env, input) ==
  CASE e[1] = "const" -> <<e[2]>>
    [] e[1] = "var"   -> <<env[e[2]]>>
    [] e[1] = "mem"   -> LET at == Evaluate(e[2], env, input) IN
                         IF at = <<>> THEN <<>> ELSE <<input[at[1]]>>
    [] e[1] = "bop"   -> LET l == Evaluate(e[3], env, input)
                             r == Evaluate(e[4], env, input)
                         IN  IF l = <<>> \/ r = <<>> \/ (e[2] = "DIV" /\ r = <<0>>) THEN <<>>
                             ELSE <<calculate(l[1], r[1], e[2])>>
=============================================================================
