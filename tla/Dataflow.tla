------------------------------ MODULE Dataflow ------------------------------
(***************************************************************************)
(* The analyses of optimize/dataflow and what they do to a function: one   *)
(* round of conditional constant propagation (CondConstProp), dead code    *)
(* removal (DeadCodeRem) and copy propagation (CopyProp), each a run of    *)
(* CFGFlow over the flow graph followed by its postprocess, which edits    *)
(* the graph and runs the analysis on, with the facts it has.              *)
(*                                                                         *)
(* One step takes one node from the worklist: the oldest in a forward      *)
(* analysis, any one in a backward analysis.  Where the code edits the     *)
(* first edge or node it finds, the model edits any.                       *)
(***************************************************************************)
EXTENDS CFGExpr, MatchMaker, Folds

CONSTANTS
  Functions,   \* each: edges, in order; stmts; vars; args (see MCDataflow)
  Settings,    \* the sets of passes that may be switched on
  Inputs,      \* contents of memory, [Nat -> Int]; arguments and results of calls are there too
  Fuel         \* bound: steps of an execution of a function

VARIABLES
  func,
  opt,        \* the passes that are switched on
  pass,       \* "cp", "dce", "copy", "done"
  phase,      \* in CopyProp: "first", and "again" once something was rewritten
  mm,         \* the edges of the flow graph
  stmt,       \* node |-> the variable it sets and its expressions
  worklist,   \* the nodes to visit, in the order they were added
  values      \* edge |-> the fact the analysis has about it

vars == <<pass, phase, worklist, opt, func, mm, stmt, values>>

(* A node is <<kind, number>> as in MatchMaker; the kinds are start, gets, *)
(* mem (a store), call, if, ret, cricket and noop.                         *)
Start  == <<"start", 0>>
NoVar  == "none"
NoNode == <<"none", 0>>
Setting(n) == IF n \in DOMAIN stmt THEN stmt[n].var ELSE NoVar
ExprsOf(n) == IF n \in DOMAIN stmt THEN stmt[n].es ELSE <<>>

allNodes(g) == {e[1] : e \in g.successors} \cup {e[2] : e \in g.predecessors}
predecessorEdges(g, n) == {e \in g.predecessors : e[2] = n}

\* Mutant of use: every node uses its target, if it has one or not.
useTarget(n) == {Setting(n)} \cup UNION {exprUse(ExprsOf(n)[i]) : i \in DOMAIN ExprsOf(n)}

\* Properties: a call also uses the variable its result is moved to.
use(n) == UNION {exprUse(ExprsOf(n)[i]) : i \in DOMAIN ExprsOf(n)}
            \cup (IF n[1] = "call" THEN {Setting(n)} \ {NoVar} ELSE {})
def(n) == {Setting(n)} \ {NoVar}

allVars == UNION {use(n) \cup def(n) : n \in allNodes(mm)}

-----------------------------------------------------------------------------
(* CondConstProp: a variable is Top, Bottom or Data(c).  varVals is a map:   *)
(* a variable that is no key counts as Top, but two maps with different keys *)
(* are two facts.  reached is Unreachability.Bottom.                         *)

Top     == <<"top">>
Bottom  == <<"bottom">>
Data(c) == <<"data", c>>

NothingKnown == [reached |-> FALSE, varVals |-> <<>>]

\* unreachableInfo: the keys stay.
Unreachable(info) == [reached |-> FALSE, varVals |-> [v \in DOMAIN info.varVals |-> Top]]

ValueOf(v, varVals) == IF v \in DOMAIN varVals THEN varVals[v] ELSE Top

\* Mutant of meetData: one of the two is believed.
meetDataFirst(d1, d2) == d1

meetData(d1, d2) == Bottom

meetDefinition(d1, d2) ==
  CASE d1 = Bottom \/ d2 = Bottom -> Bottom
    [] d1 = Top                   -> d2
    [] d2 = Top /\ d1[1] = "data" -> d1
    [] OTHER                      -> meetData(d1, d2)

meetConstants(i1, i2) ==
  [reached |-> i1.reached \/ i2.reached,
   varVals |-> [v \in DOMAIN i1.varVals \cup DOMAIN i2.varVals |->
                  meetDefinition(ValueOf(v, i1.varVals), ValueOf(v, i2.varVals))]]

RECURSIVE abstractInterpretation(_, _)
abstractInterpretation(e, varVals) ==
  CASE e[1] = "const" -> Data(e[2])
    [] e[1] = "var"   -> ValueOf(e[2], varVals)
    [] e[1] = "mem"   -> Bottom
    [] e[1] = "bop"   ->
         LET left  == abstractInterpretation(e[3], varVals)
             right == abstractInterpretation(e[4], varVals)
         IN  CASE left[1] # "data"  -> left
               [] left[1] = "data" /\ right[1] # "data" -> right
               [] left[1] = "data" /\ right[1] = "data" ->
                    IF e[2] # "DIV" /\ right[2] # 0
                    THEN Data(calculate(left[2], right[2], e[2])) ELSE Bottom

\* What a comparison of a variable tells on the edge that is taken.
learned(cond, guard, varVals) ==
  IF cond[1] = "bop" /\ cond[2] = (IF guard = 0 THEN "NEQ" ELSE "EQ") /\ cond[3][1] = "var"
  THEN (cond[3][2] :> abstractInterpretation(cond[4], varVals)) @@ varVals
  ELSE varVals

\* The fact on edge e out of n.  The results of a call change nothing.
constantsOut(n, info, e) ==
  LET result == abstractInterpretation(ExprsOf(n)[1], info.varVals) IN
  CASE n = Start -> [info EXCEPT !.reached = TRUE]
    [] n # Start /\ ~info.reached -> Unreachable(info)
    [] info.reached /\ n[1] = "if" ->
         IF result[1] # "data" THEN info
         ELSE IF e[3] = (result[2] = 1)
         THEN [info EXCEPT !.varVals = learned(ExprsOf(n)[1], result[2], @)]
         ELSE Unreachable(info)
    [] info.reached /\ n[1] = "gets" -> [info EXCEPT !.varVals = (Setting(n) :> result) @@ @]
    [] OTHER -> info

-----------------------------------------------------------------------------
(* DeadCodeRem and CopyProp.  A copy is <<late, early>>.                     *)

liveIn(n, live) == use(n) \cup (live \ def(n))

allCopies == {c \in allVars \X allVars : c[1] # c[2]}

\* Mutant of kill: only the copies that name the variable as the late one.
killLate(n) ==
  IF n = Start THEN allCopies ELSE def(n) \X allVars

kill(n) ==
  IF n = Start THEN allCopies ELSE (def(n) \X allVars) \cup (allVars \X def(n))

gen(n) == IF n[1] = "gets" /\ ExprsOf(n)[1][1] = "var"
          THEN {<<Setting(n), ExprsOf(n)[1][2]>>} ELSE {}

copiesOut(n, copies) == (copies \ kill(n)) \cup gen(n)

-----------------------------------------------------------------------------
(* CFGFlow *)

top == CASE pass = "cp" -> NothingKnown [] pass = "dce" -> {} [] pass = "copy" -> allCopies

\* Mutant of meet: a variable is live if it is live on every way out.
meetAll(e1, e2) ==
  CASE pass = "cp" -> meetConstants(e1, e2) [] OTHER -> e1 \cap e2

meet(e1, e2) ==
  CASE pass = "cp"   -> meetConstants(e1, e2)
    [] pass = "dce"  -> e1 \cup e2
    [] pass = "copy" -> e1 \cap e2

\* Every edge should have a value: one that has none yet is top.
Value(e) == IF e \in DOMAIN values THEN values[e] ELSE top

bigMeet(edges) ==
  IF edges = {} THEN top
  ELSE LET first == CHOOSE e \in edges : TRUE
       IN  MapThenFoldSet(meet, Value(first), Value, LAMBDA S : CHOOSE e \in S : TRUE,
                          edges \ {first})

\* allNodes and the sets of nodes taken from it: in the order of their first
\* edge in, the nodes without one last.
InOrder(g, nodes) ==
  LET into == [i \in DOMAIN g.age |-> g.age[i][2]]
      keys == {i \in DOMAIN into : into[i] \in nodes /\ \A j \in 1 .. i - 1 : into[j] # into[i]}
  IN  SelectSeq([i \in DOMAIN into |-> IF i \in keys THEN into[i] ELSE NoNode],
                LAMBDA n : n # NoNode)
        \o SetToSeq(nodes \ Range(into))

\* The edges whose facts a visit of n computes, and the nodes that then follow.
Backward == pass = "dce"
EdgesOut(n) == IF Backward THEN predecessorEdges(mm, n) ELSE successorEdges(mm, n)
EdgesIn(n)  == IF Backward THEN successorEdges(mm, n) ELSE predecessorEdges(mm, n)
NodeAt(e)   == IF Backward THEN e[1] ELSE e[2]

transition(n, info, e) ==
  CASE pass = "cp"   -> constantsOut(n, info, e)
    [] pass = "dce"  -> liveIn(n, info)
    [] pass = "copy" -> copiesOut(n, info)

\* Passes in this order, the ones that are switched on; each starts with top on
\* every edge and all nodes on the worklist.
PassAfter(p, on) ==
  LET later == CASE p = "start" -> <<"cp", "dce", "copy">>
                 [] p = "cp"    -> <<"dce", "copy">>
                 [] p = "dce"   -> <<"copy">>
                 [] p = "copy"  -> <<>>
      wanted == SelectSeq(later, LAMBDA q : q \in on)
  IN  IF wanted = <<>> THEN "done" ELSE Head(wanted)

NextPass ==
  /\ pass' = PassAfter(pass, opt)
  /\ phase' = "first"
  /\ values' = <<>>
  /\ worklist' = IF pass' = "done" THEN <<>> ELSE InOrder(mm, allNodes(mm))

\* Nodes that are on the worklist already keep their place.  The order does not
\* matter in a backward analysis.
Added(rest, nodes) ==
  IF Backward THEN InOrder(mm, Range(rest) \cup nodes)
  ELSE rest \o SetToSeq(nodes \ Range(rest))

Facts(n, info) == [e \in EdgesOut(n) |-> transition(n, info, e)]

Visit(n) ==
  /\ pass # "done"
  /\ worklist # <<>>
  /\ n \in (IF Backward THEN Range(worklist) ELSE {Head(worklist)})
  /\ \E info \in {bigMeet(EdgesIn(n))} : \E news \in {Facts(n, info)} :
     \E changed \in {{e \in EdgesOut(n) : Value(e) # news[e]}} :
       /\ worklist' = Added(Remove(worklist, n), {NodeAt(e) : e \in changed})
       /\ values' = [e \in DOMAIN values \cup mm.successors |->
                       IF e \in changed THEN news[e] ELSE Value(e)]
  /\ UNCHANGED <<func, opt, pass, phase, mm, stmt>>

\* The worklist is empty and postprocess goes on.
Settled(p) == pass = p /\ worklist = <<>>

-----------------------------------------------------------------------------
(* MatchMaker.removeAndLink and ensureIfsAreOk *)

RECURSIVE linkAll(_, _, _, _), ensureIfsAreOk(_)
linkAll(g, preds, n, to) ==
  IF preds = <<>> THEN g ELSE linkAll(translate(g, Head(preds), n, to), Tail(preds), n, to)

removeAndLink(g, n) ==
  LET to == fallThrough(g, n) \cup jumpingTo(g, n) IN
  CASE Cardinality(successorEdges(g, n)) = 0 -> removeNode(g, n)
    [] Cardinality(successorEdges(g, n)) = 1 ->
         linkAll(g, predecessorsOf(g, n), n, CHOOSE m \in to : TRUE)
    [] OTHER -> [g EXCEPT !.thrown = TRUE]

ensureIfsAreOk(g) ==
  LET bad == {n \in {e[1] : e \in g.successors} : n[1] = "if" /\ Cardinality(successorEdges(g, n)) < 2}
  IN  IF bad = {} THEN g ELSE ensureIfsAreOk(removeAndLink(g, CHOOSE n \in bad : TRUE))

-----------------------------------------------------------------------------
(* CondConstProp.postprocess *)

RECURSIVE withConstants(_, _, _)
withConstants(e, known, vs) ==
  IF vs = {} THEN e
  ELSE LET v == CHOOSE x \in vs : TRUE
       IN  withConstants(replaceConst(e, v, known[v][2]), known, vs \ {v})

UnreachedEdges == {e \in mm.predecessors : ~Value(e).reached}

\* Mutant of removeUnreachables: an edge stays if its source is reached.
removeUnreachablesKeeps(e) ==
  /\ Settled("cp")
  /\ e \in UnreachedEdges
  /\ mm' = IF predecessorsOf(mm, e[1]) # <<>> THEN ensureIfsAreOk(mm) ELSE removeNode(mm, e[1])
  /\ worklist' = InOrder(mm', allNodes(mm'))
  /\ UNCHANGED <<func, opt, pass, phase, stmt, values>>

removeUnreachables(e) ==
  LET cut == removeConnection(mm, e[1], e[2], e[3]) IN
  /\ Settled("cp")
  /\ e \in UnreachedEdges
  /\ mm' = IF predecessorsOf(cut, e[1]) # <<>> THEN ensureIfsAreOk(cut) ELSE removeNode(cut, e[1])
  /\ worklist' = InOrder(mm', allNodes(mm'))
  /\ UNCHANGED <<func, opt, pass, phase, stmt, values>>

\* Only nodes with predecessors have facts and are rewritten.
HasFacts(n) == predecessorEdges(mm, n) # {}

\* Nothing is unreachable any more.
constantPropogate ==
  LET known(n) == bigMeet(predecessorEdges(mm, n)).varVals
      fold(n, e) == withConstants(e, known(n), {v \in DOMAIN known(n) : known(n)[v][1] = "data"})
  IN
  /\ Settled("cp")
  /\ UnreachedEdges = {}
  /\ stmt' = [n \in DOMAIN stmt |->
                IF HasFacts(n)
                THEN [stmt[n] EXCEPT !.es = [i \in DOMAIN @ |-> fold(n, @[i])]]
                ELSE stmt[n]]
  /\ NextPass
  /\ UNCHANGED <<func, opt, mm>>

(* DeadCodeRem.postprocess *)

DeadAssigns ==
  {n \in {e[2] : e \in mm.predecessors} :
     n[1] = "gets" /\ Setting(n) \notin bigMeet(successorEdges(mm, n))}

deleteDeadAssigns(n) ==
  /\ Settled("dce")
  /\ n \in DeadAssigns
  /\ mm' = removeAndLink(mm, n)
  /\ worklist' = InOrder(mm', {e[1] : e \in predecessorEdges(mm, n)}
                                \cup {e[2] : e \in successorEdges(mm, n)})
  /\ UNCHANGED <<func, opt, pass, phase, stmt, values>>

EndDCE ==
  /\ Settled("dce")
  /\ DeadAssigns = {}
  /\ NextPass
  /\ UNCHANGED <<func, opt, mm, stmt>>

(* CopyProp.postprocess: the first two rewritings use the same facts. *)

Copied ==
  LET copies(n) == LET met == bigMeet(predecessorEdges(mm, n)) IN
                   [v \in {c[1] : c \in met} |-> (CHOOSE c \in met : c[1] = v)[2]]
  IN  [n \in DOMAIN stmt |->
         IF HasFacts(n)
         THEN [stmt[n] EXCEPT !.es = [i \in DOMAIN @ |-> replaceCopy(@[i], copies(n))]]
         ELSE stmt[n]]

propagateEqualVars ==
  LET changed == {n \in DOMAIN stmt : Copied[n] # stmt[n]} IN
  /\ Settled("copy")
  /\ stmt' = Copied
  /\ IF changed = {} THEN NextPass
     ELSE /\ phase' = "again"
          /\ worklist' = IF phase = "first" THEN <<>> ELSE InOrder(mm, changed)
          /\ UNCHANGED <<pass, values>>
  /\ UNCHANGED <<func, opt, mm>>

-----------------------------------------------------------------------------
Init ==
  /\ func \in Functions
  /\ opt \in Settings
  /\ pass = PassAfter("start", opt) /\ phase = "first"
  /\ mm = [EmptyGraph EXCEPT !.successors = Range(func.edges),
                            !.predecessors = Range(func.edges), !.age = func.edges]
  /\ stmt = func.stmts
  /\ worklist = InOrder(mm, allNodes(mm))
  /\ values = <<>>

Finished == pass = "done" /\ UNCHANGED vars

Next ==
  \/ \E n \in Range(worklist) : Visit(n)
  \/ \E e \in mm.predecessors : removeUnreachables(e)
  \/ constantPropogate
  \/ \E n \in DOMAIN stmt : deleteDeadAssigns(n)
  \/ EndDCE
  \/ propagateEqualVars
  \/ Finished

SafetySpec == Init /\ [][Next]_vars

\* The compiler's only thread keeps running.
Spec == SafetySpec /\ WF_vars(Next)

-----------------------------------------------------------------------------
(* Reference: an execution of the function, with its stores, calls and      *)
(* result.  An argument is a variable that has its value from the start.    *)

Undefined == -7

Begin(input) ==
  [at |-> Start, via |-> <<>>, status |-> "running", trace |-> <<>>,
   env |-> [v \in func.vars |-> IF v \in DOMAIN func.args THEN input[func.args[v]] ELSE Undefined]]

Follow(s, edges) ==
  IF edges = {} THEN [s EXCEPT !.status = "off"]
  ELSE LET e == CHOOSE x \in edges : TRUE IN [s EXCEPT !.at = e[2], !.via = e]

\* One step; results holds the values of the node's expressions.
Execute(g, stmts, s, input) ==
  LET n       == s.at
      es      == IF n \in DOMAIN stmts THEN stmts[n].es ELSE <<>>
      results == [i \in DOMAIN es |-> Evaluate(es[i], s.env, input)]
      shown   == Append(s.trace, <<n, [i \in DOMAIN es |-> results[i][1]]>>)
      onward(t) == Follow(t, successorEdges(g, n))
  IN
  CASE s.status # "running" -> s
    [] s.status = "running" /\ \E i \in DOMAIN es : results[i] = <<>> -> [s EXCEPT !.status = "trap"]
    [] OTHER ->
         CASE n[1] = "if"   -> Follow(s, {e \in successorEdges(g, n) : e[3] = (results[1][1] = 1)})
           [] n[1] = "gets" -> onward([s EXCEPT !.env[stmts[n].var] = results[1][1]])
           [] n[1] = "mem"  -> onward([s EXCEPT !.trace = shown])
           [] n[1] = "call" -> onward([s EXCEPT !.trace = shown,
                                                !.env[stmts[n].var] = input[stmts[n].from]])
           [] n[1] = "ret"  -> [s EXCEPT !.trace = shown, !.status = "returned"]
           [] OTHER         -> onward(s)

Execution(g, stmts, input) ==
  LET run[k \in 0 .. Fuel] ==
        IF k = 0 THEN Begin(input)
        ELSE LET s == run[k - 1] IN Execute(g, stmts, s, input)
  IN  run

Outcome(g, stmts, input) ==
  LET s == Execution(g, stmts, input)[Fuel] IN <<s.status, s.trace>>

Source == [EmptyGraph EXCEPT !.successors = Range(func.edges)]

-----------------------------------------------------------------------------
(* Properties *)

\* The facts are facts about edges of the graph and variables of the function,
\* nodes on the worklist have statements or are dummies, and no require fails.
TypeOK ==
  /\ pass \in {"cp", "dce", "copy", "done"} /\ phase \in {"first", "again"}
  /\ \A n \in Range(worklist) :
       n \in {Start} \cup DOMAIN stmt \/ n[1] = "cricket" \/ (n[1] = "noop" /\ n[2] <= mm.noops)
  /\ \A e \in DOMAIN values :
       CASE pass = "cp"   -> DOMAIN values[e].varVals \subseteq func.vars
         [] pass = "dce"  -> values[e] \subseteq func.vars
         [] pass = "copy" -> values[e] \subseteq func.vars \X func.vars
  /\ ~mm.thrown

\* Each time a pass has edited the function, it still stores, calls and returns
\* what it did, for every content of the memory (CondConstProp.kt 143-154,
\* DeadCodeRem.kt 30-50, CopyProp.kt 79-86).
SameResults ==
  worklist = <<>> =>
    \A input \in Inputs : Outcome(mm, stmt, input) = Outcome(Source, func.stmts, input)

\* When constant propagation is about to use its facts they are true: an edge
\* that an execution takes is not called unreachable, and a variable that is
\* said to be a constant where an execution arrives has that value.
ConstantsHold ==
  Settled("cp") =>
    \A input \in Inputs :
      LET run == Execution(mm, stmt, input) IN
      \A k \in 1 .. Fuel :
        run[k].via # <<>> =>
          LET known == bigMeet(predecessorEdges(mm, run[k].via[2])).varVals IN
          /\ Value(run[k].via).reached
          /\ \A v \in DOMAIN known : known[v][1] = "data" => run[k].env[v] = known[v][2]

\* When copy propagation is about to use its facts they are true, the stale ones
\* of the second rewriting too: both variables of a copy have the same value.
CopiesHold ==
  Settled("copy") =>
    \A input \in Inputs :
      LET run == Execution(mm, stmt, input) IN
      \A k \in 1 .. Fuel :
        run[k].via # <<>> =>
          \A c \in bigMeet(predecessorEdges(mm, run[k].via[2])) : run[k].env[c[1]] = run[k].env[c[2]]

\* The round comes to an end: every analysis empties its worklist, and every
\* postprocess runs out of things to edit.
Terminates == <>(pass = "done")

\* The require of CFGFlow.kt 41-42: when an analysis has been running for long
\* (THRESHOLD), a visit of constant propagation changes no fact any more.
FactsSettle == <>[][pass = "cp" => values' = values]_vars
=============================================================================
