------------------------------ MODULE IRLowerer ------------------------------
(***************************************************************************)
(* IRLowerer.kt: the tree of a function as a list of statements without    *)
(* side effects inside expressions.  An operand is left where it is if the *)
(* statements of the next operand commute with it, and is saved in a       *)
(* temporary otherwise.                                                    *)
(***************************************************************************)
EXTENDS IRTranslator

lowTemp(p, k) == Temp(<<"TL", p, k>>)

-----------------------------------------------------------------------------
(* What the statements of a list may change.  globalsUsed stays empty in   *)
(* the code (the result of its union is dropped), so that the address of a *)
(* global is fixed unless a statement is of an unknown kind.               *)

unknownUsed(stmts) == \E i \in DOMAIN stmts : stmts[i][1] \notin {"callstmt", "label", "move"}

\* Mutant of memUsed: a call leaves memory alone.
memUsedByMoves(stmts) ==
  unknownUsed(stmts) \/ \E i \in DOMAIN stmts : stmts[i][1] = "move" /\ stmts[i][2][1] = "mem"

memUsed(stmts) ==
  \/ unknownUsed(stmts)
  \/ \E i \in DOMAIN stmts : \/ stmts[i][1] = "callstmt"
                             \/ stmts[i][1] = "move" /\ stmts[i][2][1] = "mem"

tempsUsed(stmts) ==
  {stmts[i][2] : i \in {j \in DOMAIN stmts : stmts[j][1] = "move" /\ stmts[j][2][1] = "temp"}}

RECURSIVE commutes(_, _)
commutes(stmts, e) ==
  CASE e[1] = "const" -> TRUE
    [] e[1] = "mem"   -> ~memUsed(stmts)
    [] e[1] = "name"  -> e[2] \notin Globals \/ ~unknownUsed(stmts)
    [] e[1] = "op"    -> commutes(stmts, e[3]) /\ commutes(stmts, e[4])
    [] e[1] = "temp"  -> ~unknownUsed(stmts) /\ e \notin tempsUsed(stmts)

\* Two lowered operands, the first evaluated first: the statements, and the
\* expressions for their values.
InOrder(first, second, temp) ==
  IF commutes(second.s, first.e)
  THEN [s |-> first.s \o second.s, e1 |-> first.e, e2 |-> second.e]
  ELSE [s |-> first.s \o <<Move(temp, first.e)>> \o second.s, e1 |-> temp, e2 |-> second.e]

\* Mutant of argumentStatements: all the values are saved after all the statements.
argumentStatementsLate(lowered, temps) ==
  FlattenSeq([i \in DOMAIN lowered |-> lowered[i].s]) \o [i \in DOMAIN lowered |-> Move(temps[i], lowered[i].e)]

\* The arguments of a call, each saved before the next one is evaluated.
argumentStatements(lowered, temps) ==
  FlattenSeq([i \in DOMAIN lowered |-> lowered[i].s \o <<Move(temps[i], lowered[i].e)>>])

-----------------------------------------------------------------------------
(* lowerExpr gives [s |-> statements, e |-> expression].                   *)

RECURSIVE lowerExpr(_, _), lowerStatement(_, _), factorMoveTarget(_, _, _)

lowerExpr(n, p) ==
  CASE n[1] \in {"const", "name", "temp"} -> [s |-> <<>>, e |-> n]
    [] n[1] = "call" ->
         LET lowered == [i \in 1..Len(n[3]) |-> lowerExpr(n[3][i], At(p, i))]
             temps   == [i \in 1..Len(n[3]) |-> lowTemp(p, i)]
         IN  [s |-> argumentStatements(lowered, temps)
                      \o <<CallStmt(n[2], 1, temps), Move(lowTemp(p, 0), Result(1))>>,
              e |-> lowTemp(p, 0)]
    [] n[1] = "eseq" ->
         LET value == lowerExpr(n[3], At(p, 2))
         IN  [s |-> lowerStatement(n[2], At(p, 1)) \o value.s, e |-> value.e]
    [] n[1] = "mem" ->
         LET address == lowerExpr(n[2], At(p, 1)) IN [s |-> address.s, e |-> Mem(address.e)]
    [] n[1] = "op" ->
         LET both == InOrder(lowerExpr(n[3], At(p, 1)), lowerExpr(n[4], At(p, 2)), lowTemp(p, 0))
         IN  [s |-> both.s, e |-> Op(n[2], both.e1, both.e2)]

factorMoveTarget(target, arg, p) ==
  CASE target[1] = "temp" ->
         LET value == lowerExpr(arg, At(p, 2)) IN Append(value.s, Move(target, value.e))
    [] target[1] = "mem" ->
         LET both == InOrder(lowerExpr(target[2], At(p, 1)), lowerExpr(arg, At(p, 2)), lowTemp(p, 0))
         IN  Append(both.s, Move(Mem(both.e1), both.e2))
    [] target[1] = "eseq" ->
         lowerStatement(target[2], At(p, 3)) \o factorMoveTarget(target[3], arg, At(p, 4))

lowerStatement(n, p) ==
  CASE n[1] = "cjump" ->
         LET guard == lowerExpr(n[2], At(p, 1)) IN Append(guard.s, CJump(guard.e, n[3], n[4]))
    [] n[1] \in {"jump", "label"} -> <<n>>
    [] n[1] = "move"   -> factorMoveTarget(n[2], n[3], p)
    [] n[1] = "return" ->
         LET lowered == [i \in 1..Len(n[2]) |-> lowerExpr(n[2][i], At(p, i))]
         IN  FlattenSeq([i \in DOMAIN lowered |-> lowered[i].s])
               \o <<Return([i \in DOMAIN lowered |-> lowered[i].e])>>
    [] n[1] = "seq"    -> FlattenSeq([i \in 1..Len(n[2]) |-> lowerStatement(n[2][i], At(p, i))])
    [] n[1] = "callstmt" ->
         LET lowered == [i \in 1..Len(n[4]) |-> lowerExpr(n[4][i], At(p, i))]
             temps   == [i \in 1..Len(n[4]) |-> lowTemp(p, i)]
         IN  argumentStatements(lowered, temps) \o <<CallStmt(n[2], n[3], temps)>>
=============================================================================
