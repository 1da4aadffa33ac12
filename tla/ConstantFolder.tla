--------------------------- MODULE ConstantFolder ---------------------------
(***************************************************************************)
(* ConstantFolder.kt and the traversal it inherits (ir/optimize): an       *)
(* operation on two constants is replaced by its result, computed in words *)
(* of Width bits (64 in the code).                                         *)
(***************************************************************************)
EXTENDS IRLowerer, Words

-----------------------------------------------------------------------------
(* lowMul multiplies by halves of words.                                   *)

Half == Width \div 2
shl(n, k)  == Wrap(Wrap(n) * 2^k)
ushr(n, k) == Wrap((n % 2^Width) \div 2^k)
Sign(n)    == IF n >= 0 THEN 1 ELSE -1
High(n)    == ushr(n * Sign(n), Half)
Low(n)     == ushr(shl(n * Sign(n), Half), Half)

lowMul(n1, n2) ==
  Wrap(Wrap(Wrap(Low(n1) * Low(n2)) + shl(High(n1) * Low(n2), Half) + shl(High(n2) * Low(n1), Half))
         * Sign(n1) * Sign(n2))

highMul(n1, n2) == (n1 * n2) \div 2^Width

\* The operators of the functions examined; AND, OR and XOR there are applied to
\* truth values.  MOD by zero throws, and the compiler with it.
calculate(n1, n2, op) ==
  CASE op = "ADD"  -> Wrap(n1 + n2)
    [] op = "SUB"  -> Wrap(n1 - n2)
    [] op = "MUL"  -> lowMul(n1, n2)
    [] op = "HMUL" -> highMul(n1, n2)
    [] op = "DIV"  -> Wrap(Quotient(n1, n2))
    [] op = "MOD"  -> Remainder(n1, n2)
    [] op = "XOR"  -> (n1 + n2) % 2
    [] op = "EQ"   -> TruthValue(n1 = n2)
    [] op = "LT"   -> TruthValue(n1 < n2)
    [] op = "GEQ"  -> TruthValue(n1 >= n2)
    [] op = "ULT"  -> TruthValue(n1 % 2^Width < n2 % 2^Width)

-----------------------------------------------------------------------------
RECURSIVE applyExpr(_)
applyExpr(e) ==
  CASE e[1] \in {"const", "name", "temp"} -> e
    [] e[1] = "mem" -> Mem(applyExpr(e[2]))
    [] e[1] = "op"  ->
         LET left  == applyExpr(e[3])
             right == applyExpr(e[4])
         IN  IF left[1] = "const" /\ right[1] = "const" /\ ~(e[2] = "DIV" /\ right[2] = 0)
             THEN Const(calculate(left[2], right[2], e[2]))
             ELSE Op(e[2], left, right)

applyFlatStmt(s) ==
  LET all(es) == [i \in DOMAIN es |-> applyExpr(es[i])] IN
  CASE s[1] = "cjump"    -> CJump(applyExpr(s[2]), s[3], s[4])
    [] s[1] = "return"   -> Return(all(s[2]))
    [] s[1] = "callstmt" -> CallStmt(s[2], s[3], all(s[4]))
    [] s[1] = "move"     -> Move(applyExpr(s[2]), applyExpr(s[3]))
    [] s[1] \in {"jump", "label"} -> s

ApplyFolder(stmts) == [i \in DOMAIN stmts |-> applyFlatStmt(stmts[i])]
=============================================================================
