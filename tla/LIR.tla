--------------------------------- MODULE LIR ---------------------------------
(***************************************************************************)
(* Lowered statements (ir/lowered/LIRStmt.kt) as far as control flow goes, *)
(* and what it means for two forms of a function to have the same flow.    *)
(*                                                                         *)
(* A move, or a call with the moves of its results, is a "stmt"; it, a     *)
(* return and a guard are known by a number.  A guard is the number and    *)
(* whether it is negated (XOR 1).                                          *)
(***************************************************************************)
EXTENDS Integers, Sequences, FiniteSets

NoLabel == <<"none", 0>>
NoGuard == [on |-> 0, neg |-> FALSE]

\* Labels: none, of lowering, of block reordering, of the nodes of the
\* optimiser's graph.
CFGNodeKind == {"start", "stmt", "ret", "if", "unless", "cricket", "noop"}
Label ==
  ({"none", "L", "B"} \X Nat) \cup ({"X"} \X (CFGNodeKind \X Nat))

\* A guard's jump has the number of the guard.
LIRStatement ==
  {s \in [op : {"stmt", "ret", "label", "jump", "tjump", "cjump"}, id : Nat,
          guard : [on : Nat, neg : BOOLEAN], lab : Label, els : Label] :
     s.op \in {"tjump", "cjump"} => s.id = s.guard.on}

\* What is to occur once in a function: what a statement says of itself.  Both
\* kinds of conditional jumps say which guard they test.
Occurrence(s) ==
  CASE s.op = "label"             -> {<<"label", s.lab>>}
    [] s.op \in {"stmt", "ret"}   -> {<<s.op, s.id>>}
    [] s.op \in {"tjump", "cjump"} -> {<<"guard", s.id>>}
    [] s.op = "jump"              -> {}

OccursOnce(stmts) ==
  \A i, j \in DOMAIN stmts : i # j => Occurrence(stmts[i]) \cap Occurrence(stmts[j]) = {}

LIRStmt(op, id, guard, lab, els) ==
  [op |-> op, id |-> id, guard |-> guard, lab |-> lab, els |-> els]

LIRMove(id)        == LIRStmt("stmt", id, NoGuard, NoLabel, NoLabel)
LIRReturn(id)      == LIRStmt("ret", id, NoGuard, NoLabel, NoLabel)
LIRLabel(l)        == LIRStmt("label", 0, NoGuard, l, NoLabel)
LIRJump(l)         == LIRStmt("jump", 0, NoGuard, l, NoLabel)
LIRTrueJump(g, l)  == LIRStmt("tjump", g.on, g, l, NoLabel)
LIRCJump(g, t, f)  == LIRStmt("cjump", g.on, g, t, f)

Guard(n)  == [on |-> n, neg |-> FALSE]
Negate(g) == [g EXCEPT !.neg = ~@]

\* The statements of class EndBlock.
IsEndBlock(s) == s.op \in {"jump", "tjump", "cjump", "ret"}

-----------------------------------------------------------------------------
(***************************************************************************)
(* Reference: the flow of a function.  A flow has an entry point, a name   *)
(* for each point where something happens that a program can tell          *)
(* (<<point, name>>), and steps <<point, way, point>>: the way out is      *)
(* "go", or "true" or "false" for the value of a guard before negation.    *)
(* Its behaviour are the steps between the names that execution reaches.   *)
(***************************************************************************)
START == -1    \* the entry
OFF   == -2    \* the end of the code is passed, or a label is missing
SPIN  == -3    \* an endless loop in which nothing happens

\* The pairs <<p, name>>: going on from p, name happens first.
FirstNames(flow) ==
  LET named  == {x[1] : x \in flow.names}
      silent == {s \in flow.steps : s[1] \notin named}
      first[n \in 0 .. Cardinality(silent)] ==
        IF n = 0 THEN flow.names
        ELSE LET later == first[n-1] IN
             later \cup {<<y[1][1], y[2][2]>> : y \in {z \in silent \X later : z[1][3] = z[2][1]}}
  IN  first[Cardinality(silent)]

Behaviour(flow) ==
  LET firsts  == FirstNames(flow)
      firstOf(p) == IF \E x \in firsts : x[1] = p
                    THEN {x[2] : x \in {y \in firsts : y[1] = p}} ELSE {SPIN}
      visible == {s \in flow.steps : \E x \in flow.names : x[1] = s[1]}
      moves   == UNION {{x[2] : x \in {y \in flow.names : y[1] = s[1]}} \X {s[2]} \X firstOf(s[3]) :
                          s \in visible}
      begin   == {START} \X {"go"} \X firstOf(flow.entry)
      reach[n \in 0 .. Cardinality(moves)] ==
        IF n = 0 THEN begin
        ELSE LET before == reach[n-1] IN
             before \cup {m \in moves : \E x \in before : x[3] = m[1]}
  IN  reach[Cardinality(moves)]

\* The ways out of the point p, a guard that jumps to yes if it holds and else
\* goes to no: both, unless the guard is known to be constant.
Ways(known, p, guard, yes, no) ==
  LET onTrue  == IF guard.neg THEN no ELSE yes
      onFalse == IF guard.neg THEN yes ELSE no
  IN  CASE known[guard.on] = "true"  -> {<<p, "go", onTrue>>}
        [] known[guard.on] = "false" -> {<<p, "go", onFalse>>}
        [] OTHER                     -> {<<p, "true", onTrue>>, <<p, "false", onFalse>>}

\* The flow of a list of statements; the moves in gone do nothing.
ListFlow(stmts, known, gone) ==
  LET off   == Len(stmts) + 1
      labels == {i \in DOMAIN stmts : stmts[i].op = "label"}
      at(l) == IF \E i \in labels : stmts[i].lab = l
               THEN CHOOSE i \in labels : stmts[i].lab = l ELSE off
      named == {i \in DOMAIN stmts :
                  \/ stmts[i].op = "ret"
                  \/ stmts[i].op = "stmt" /\ stmts[i].id \notin gone
                  \/ stmts[i].op \in {"tjump", "cjump"} /\ known[stmts[i].id] = "?"}
      ways(i) == LET s == stmts[i] IN
                 CASE s.op \in {"stmt", "label"} -> {<<i, "go", i + 1>>}
                   [] s.op = "jump"  -> {<<i, "go", at(s.lab)>>}
                   [] s.op = "tjump" -> Ways(known, i, s.guard, at(s.lab), i + 1)
                   [] s.op = "cjump" -> Ways(known, i, s.guard, at(s.lab), at(s.els))
                   [] s.op = "ret"   -> {}
  IN  [entry |-> 1,
       names |-> {<<off, OFF>>} \cup {<<i, stmts[i].id>> : i \in named},
       steps |-> UNION {ways(i) : i \in DOMAIN stmts}]
=============================================================================
