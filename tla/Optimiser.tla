------------------------------ MODULE Optimiser ------------------------------
(***************************************************************************)
(* The optimiser of one function (optimize/IROptimizer.kt) as far as it    *)
(* edits the flow graph: block reordering, CFGBuilder, the removal of      *)
(* unreachable edges (CondConstProp), the removal of dead moves            *)
(* (DeadCodeRem), CopyProp, CFGDestroyer, and round again until the rounds *)
(* or the time are used up.                                                *)
(*                                                                         *)
(* Which guards are constant, which moves are dead and which become dead   *)
(* by copy propagation is data of the function, as is the bound on its     *)
(* rounds (20 in the code).  Where the code iterates over a table in the   *)
(* order of insertion, the model takes any order.                          *)
(***************************************************************************)
EXTENDS BlockReordering, MatchMaker

CONSTANT Settings  \* the sets of passes that may be switched on

VARIABLES
  pc,
  round,   \* count
  opt,     \* the passes that are switched on
  mm,      \* the edges of the flow graph
  link,    \* removeAndLink: the node, its only successor and whether it jumps
           \* there, and the predecessors left
  dead,    \* the moves DeadCodeRem finds dead
  gone     \* the moves it has removed

vars == <<func, block, nodes, order, pc, round, opt, mm, link, dead, gone>>

NoLink == [node |-> NoLabel, to |-> NoLabel, jump |-> FALSE, preds |-> <<>>]

\* The graph node of the statement at position i.
Start == <<"start", 0>>
CFGNode(stmts, i) ==
  LET s == stmts[i] IN
  CASE s.op = "tjump" -> <<IF s.guard.neg THEN "unless" ELSE "if", s.id>>
    [] s.op = "jump"  -> <<"cricket", i>>
    [] OTHER          -> <<s.op, s.id>>

IsIf(n)    == n[1] \in {"if", "unless"}
GuardOf(n) == [on |-> n[2], neg |-> n[1] = "unless"]

Init ==
  /\ func \in Functions
  /\ opt \in Settings
  /\ block = func.body
  /\ nodes = buildCFG(maximalBasicBlocks(func.body))
  /\ order = <<>>
  /\ pc = "reorder" /\ round = 0
  /\ mm = EmptyGraph /\ link = NoLink
  /\ dead = func.dead /\ gone = {}

-----------------------------------------------------------------------------
(* blockReordering and CFGBuilder *)

Reorder ==
  /\ pc = "reorder"
  /\ \E n \in DOMAIN nodes : NewTrace(n) \/ ExtendTrace(n)
  /\ UNCHANGED <<pc, round, opt, mm, link, dead, gone>>

EndReorder ==
  /\ pc = "reorder" /\ unmarked = {}
  /\ block' \in Reordered
  /\ pc' = "build"
  /\ nodes' = <<>> /\ order' = <<>>
  /\ UNCHANGED <<func, round, opt, mm, link, dead, gone>>

\* CFGBuilder and CFGNode.resolveEdges: the labels before a statement mean
\* its node; labels that no statement follows make statements.first() throw.
\* A node's fall-through is connected before its jump.
CFGBuild(stmts) ==
  LET nodesAt == {i \in DOMAIN stmts : stmts[i].op # "label"}
      after(j) == {i \in nodesAt : i >= j /\ \A k \in j .. i-1 : stmts[k].op = "label"}
      target(l) == UNION {after(j) : j \in {k \in DOMAIN stmts : stmts[k] = LIRLabel(l)}}
      to(n, at, jump) == SetToSeq({<<n, CFGNode(stmts, i), jump>> : i \in at})
      fall(i) == IF stmts[i].op \in {"stmt", "tjump"}
                 THEN to(CFGNode(stmts, i), after(i + 1), FALSE) ELSE <<>>
      jump(i) == IF stmts[i].op \in {"jump", "tjump"}
                 THEN to(CFGNode(stmts, i), target(stmts[i].lab), TRUE) ELSE <<>>
      resolved == to(Start, after(1), FALSE)
                   \o FlattenSeq([i \in DOMAIN stmts |-> fall(i) \o jump(i)])
  IN  {[EmptyGraph EXCEPT !.successors = Range(made), !.predecessors = Range(made),
                          !.age = made,
                          !.thrown = stmts # <<>> /\ Last(stmts).op = "label"] : made \in {resolved}}

\* Mutant of Build: the rounds are not counted.
BuildUnbounded ==
  /\ pc = "build"
  /\ mm' \in CFGBuild(block)
  /\ pc' = "ccp" \/ (round > 0 /\ pc' = "final")
  /\ UNCHANGED <<func, block, nodes, order, round, opt, link, dead, gone>>

\* Another round, unless count or timeRemaining is used up; the first round
\* always starts.
Build ==
  /\ pc = "build"
  /\ mm' \in CFGBuild(block)
  /\ \/ round < func.rounds /\ pc' = "ccp"
     \/ round > 0 /\ pc' = "final"
  /\ UNCHANGED <<func, block, nodes, order, round, opt, link, dead, gone>>

-----------------------------------------------------------------------------
(* CondConstProp.postprocess: unreachable edges *)

\* The edges conditional constant propagation leaves open.
Taken(e) ==
  IsIf(e[1]) => LET k == func.known[e[1][2]] IN
                k = "?" \/ (e[3] <=> ((k = "true") # GuardOf(e[1]).neg))

Reachable ==
  LET Onward(S) == S \cup {e[2] : e \in {f \in mm.successors : f[1] \in S /\ Taken(f)}}
      reach[n \in 0 .. Cardinality(mm.successors)] ==
        IF n = 0 THEN {Start} ELSE UNION {Onward(S) : S \in {reach[n-1]}}
  IN  reach[Cardinality(mm.successors)]

Unreachable == LET reached == Reachable IN {e \in mm.predecessors : ~(e[1] \in reached /\ Taken(e))}

Running(place) == pc = place /\ link = NoLink /\ ~mm.thrown

\* Mutant of removeUnreachables: an If that loses an edge is left as it is.
removeUnreachablesOnly(e) ==
  /\ Running("ccp") /\ "cp" \in opt
  /\ e \in Unreachable
  /\ mm' = removeConnection(mm, e[1], e[2], e[3])
  /\ UNCHANGED <<func, block, nodes, order, pc, round, opt, link, dead, gone>>

removeUnreachables(e) ==
  LET cut == removeConnection(mm, e[1], e[2], e[3]) IN
  /\ Running("ccp") /\ "cp" \in opt
  /\ e \in Unreachable
  /\ IF predecessorsOf(cut, e[1]) # <<>>
     THEN mm' = cut /\ pc' = "ifs"
     ELSE mm' = removeNode(cut, e[1]) /\ pc' = "ccp"
  /\ UNCHANGED <<func, block, nodes, order, round, opt, link, dead, gone>>

EndCCP ==
  /\ Running("ccp") /\ ("cp" \in opt => Unreachable = {})
  /\ pc' = "dce"
  /\ UNCHANGED <<func, block, nodes, order, round, opt, mm, link, dead, gone>>

-----------------------------------------------------------------------------
(* removeAndLink: the predecessors of a node are linked to its only          *)
(* successor, one translate for each.                                        *)

removeAndLink(n) ==
  LET to == fallThrough(mm, n) \cup jumpingTo(mm, n) IN
  IF to = {} THEN mm' = removeNode(mm, n) /\ UNCHANGED link
  ELSE IF fallThrough(mm, n) # {} /\ jumpingTo(mm, n) # {}
  THEN mm' = [mm EXCEPT !.thrown = TRUE] /\ UNCHANGED link
  ELSE /\ link' \in [node : {n}, to : to, jump : {jumpingTo(mm, n) # {}},
                    preds : {predecessorsOf(mm, n)}]
       /\ UNCHANGED mm

LinkPredecessor ==
  /\ link # NoLink /\ ~mm.thrown
  /\ mm' = translate(mm, Head(link.preds), link.node, link.to)
  /\ link' = IF Len(link.preds) = 1 THEN NoLink ELSE [link EXCEPT !.preds = Tail(@)]
  /\ UNCHANGED <<func, block, nodes, order, pc, round, opt, dead, gone>>

\* ensureIfsAreOk: an If with one way out is no branch.
UselessIfs == {n \in {e[1] : e \in mm.successors} : IsIf(n) /\ Cardinality(successorEdges(mm, n)) < 2}

ensureIfsAreOk(n) ==
  /\ Running("ifs")
  /\ n \in UselessIfs
  /\ removeAndLink(n)
  /\ UNCHANGED <<func, block, nodes, order, pc, round, opt, dead, gone>>

EndIfs ==
  /\ Running("ifs") /\ UselessIfs = {}
  /\ pc' = "ccp"
  /\ UNCHANGED <<func, block, nodes, order, round, opt, mm, link, dead, gone>>

\* DeadCodeRem.deleteDeadAssigns
DeadMoves == {n \in {e[2] : e \in mm.predecessors} : n[1] = "stmt" /\ n[2] \in dead}

deleteDeadAssigns(n) ==
  /\ Running("dce") /\ "dce" \in opt
  /\ n \in DeadMoves
  /\ removeAndLink(n)
  /\ gone' = gone \cup {n[2]}
  /\ UNCHANGED <<func, block, nodes, order, pc, round, opt, dead>>

EndDCE ==
  /\ Running("dce") /\ ("dce" \in opt => DeadMoves = {})
  /\ pc' = "copy"
  /\ UNCHANGED <<func, block, nodes, order, round, opt, mm, link, dead, gone>>

\* CopyProp.postprocess edits expressions: copies that nothing reads any more
\* are dead in the next round.
CopyProp ==
  /\ Running("copy")
  /\ dead' = IF "copy" \in opt THEN dead \cup func.copies ELSE dead
  /\ pc' = "destroy"
  /\ UNCHANGED <<func, block, nodes, order, round, opt, mm, link, gone>>

-----------------------------------------------------------------------------
(* CFGDestroyer *)

jumpLabel(n) == <<"X", n>>

\* The statement of a node, after its label if it is jumped to.  A node whose
\* jump leads nowhere has no statement and loses its label.
Emit(n) ==
  LET target == jumpingTo(mm, n)
      lab    == jumpLabel(CHOOSE m \in target : TRUE)
      stmt   == CASE n[1] = "stmt" -> <<LIRMove(n[2])>>
                  [] n[1] = "ret"  -> <<LIRReturn(n[2])>>
                  [] IsIf(n) /\ target # {} -> <<LIRTrueJump(GuardOf(n), lab)>>
                  [] n[1] \in {"cricket", "noop"} /\ target # {} -> <<LIRJump(lab)>>
                  [] OTHER -> <<>>
  IN  IF stmt # <<>> /\ \E e \in mm.predecessors : e[2] = n /\ e[3]
      THEN <<LIRLabel(jumpLabel(n))>> \o stmt ELSE stmt

\* The nodes reached from n by fall-throughs alone.
Trace(n) ==
  LET bound == Cardinality(mm.successors)
      Onward(t) == LET m == fallThrough(mm, Last(t))
                   IN  IF m = {} THEN t ELSE Append(t, CHOOSE x \in m : TRUE)
      walk[k \in 0 .. bound] ==
        IF k = 0 THEN <<n>> ELSE CHOOSE t \in {Onward(u) : u \in {walk[k-1]}} : TRUE
  IN  walk[bound]

\* Mutant of Destroyed: a trace from every node.
DestroyedAll ==
  LET parents == {e[2] : e \in mm.predecessors}
      traces(n) == {FlattenSeq([k \in DOMAIN t |-> Emit(t[k])]) : t \in {Trace(n)}}
      Add(n, lists) == {stmts[1] \o stmts[2] : stmts \in lists \X traces(n)}
  IN  FoldSet(Add, traces(Start), parents)

\* Traces start at the start and at the nodes that are only jumped to.
Destroyed ==
  LET parents == {n \in {e[2] : e \in mm.predecessors} : ~FallsInto(mm, n)}
      traces(n) == {FlattenSeq([k \in DOMAIN t |-> Emit(t[k])]) : t \in {Trace(n)}}
      Add(n, lists) == {stmts[1] \o stmts[2] : stmts \in lists \X traces(n)}
  IN  FoldSet(Add, traces(Start), parents)

Destroy ==
  /\ Running("destroy")
  /\ \E stmts \in Destroyed : \E blocks \in {maximalBasicBlocks(stmts)} :
       block' = stmts /\ nodes' = buildCFG(blocks)
  /\ round' = round + 1
  /\ pc' = "reorder"
  /\ UNCHANGED <<func, order, opt, mm, link, dead, gone>>

FinalDestroy ==
  /\ Running("final")
  /\ block' \in Destroyed
  /\ pc' = "done"
  /\ UNCHANGED <<func, nodes, order, round, opt, mm, link, dead, gone>>

Next ==
  \/ Reorder \/ EndReorder \/ Build
  \/ \E e \in mm.predecessors : removeUnreachables(e)
  \/ EndCCP
  \/ LinkPredecessor
  \/ \E n \in UselessIfs : ensureIfsAreOk(n)
  \/ EndIfs
  \/ \E n \in DeadMoves : deleteDeadAssigns(n)
  \/ EndDCE \/ CopyProp \/ Destroy \/ FinalDestroy

SafetySpec == Init /\ [][Next]_vars

\* The compiler's only thread keeps running.
Spec == SafetySpec /\ WF_vars(Next)

-----------------------------------------------------------------------------
(* Properties *)

GraphNodes == {Start} \cup {e[1] : e \in mm.successors} \cup {e[2] : e \in mm.successors}

\* The flow of the graph.
GraphFlow ==
  LET off     == <<"off", 0>>
      only(S) == IF S = {} THEN off ELSE CHOOSE x \in S : TRUE
      named   == {n \in GraphNodes : \/ n[1] = "ret"
                                     \/ n[1] = "stmt" /\ n[2] \notin gone
                                     \/ IsIf(n) /\ func.known[n[2]] = "?"}
      ways(n) == CASE IsIf(n) -> Ways(func.known, n, GuardOf(n),
                                      only(jumpingTo(mm, n)), only(fallThrough(mm, n)))
                   [] n[1] \in {"cricket", "noop"} -> {<<n, "go", only(jumpingTo(mm, n))>>}
                   [] n[1] \in {"start", "stmt"}   -> {<<n, "go", only(fallThrough(mm, n))>>}
                   [] n[1] = "ret" -> {}
  IN  [entry |-> Start,
       names |-> {<<off, OFF>>} \cup {<<n, n[2]>> : n \in named},
       steps |-> UNION {ways(n) : n \in GraphNodes}]

Source == Behaviour(ListFlow(func.body, func.known, gone))

\* The rounds are bounded, edges join the start, nodes of statements of the
\* function and NOOPs, and only dead moves have been removed.
TypeOK ==
  LET ids   == {func.body[i].id : i \in DOMAIN func.body}
      kinds == {"stmt", "ret", "if", "unless"}
      node(n) == \/ n = Start
                 \/ n[1] \in kinds /\ n[2] \in ids
                 \/ n[1] = "cricket" /\ n[2] \in Nat
                 \/ n[1] = "noop" /\ n[2] \in 1 .. mm.noops
  IN  /\ pc \in {"reorder", "build", "ccp", "ifs", "dce", "copy", "destroy", "final", "done"}
      /\ round \in 0 .. func.rounds
      /\ \A e \in mm.successors \cup mm.predecessors : node(e[1]) /\ node(e[2]) /\ e[3] \in BOOLEAN
      /\ Range(mm.age) = mm.predecessors
      /\ gone \subseteq dead /\ dead \subseteq func.dead \cup func.copies

\* What CFGBuilder is given after block reordering: no conditional jump with
\* two ways (CFGBuilder.kt 35), and every move, return, guard and label at one
\* place, so that a node has one way in by falling and a label one target.
EachOnceIn(stmts) ==
  /\ stmts \in Seq(LIRStatement)
  /\ \A i \in DOMAIN stmts : stmts[i].op # "cjump"
  /\ OccursOnce(stmts)

\* However the blocks are laid out, and whatever traces the destroyer lays out
\* of an edited graph, no statement is there twice (LIRSeq.kt 180,
\* CFGDestroyer.kt).
EachOnce == pc = "build" => EachOnceIn(block)

\* The invariant MatchMaker.repOk states and no longer checks (MatchMaker.kt
\* 10-26), as to the tables: they agree after every operation, no node has two
\* edges of a kind out or two fall-throughs in.
TablesAgree == Mirrored(mm) /\ OneWayOut(mm) /\ OneFallIn(mm)

\* The last part of repOk (MatchMaker.kt 23): between the operations of the
\* passes an If has both its edges or none.
BranchesWhole ==
  pc # "ifs" /\ link = NoLink /\ ~mm.thrown =>
    \A n \in GraphNodes : IsIf(n) => Cardinality(successorEdges(mm, n)) \in {0, 2}

\* At every point where a pass hands the function on, as statements or as a
\* graph, it does what the lowered function does: the same statements in the
\* same order for every outcome of the guards, less the removed dead moves
\* (IROptimizer.kt 24-49 with LIRSeq.blockReordering).
FlowPreserved ==
  ~mm.thrown /\ link = NoLink =>
    /\ pc = "build" \/ pc = "done" \/ (pc = "reorder" /\ order = <<>>)
         => Behaviour(ListFlow(block, func.known, gone)) = Source
    /\ pc \in {"ccp", "dce", "copy", "destroy", "final"} => Behaviour(GraphFlow) = Source

\* No require and no exception of MatchMaker, CFGBuilder or Successors ends the
\* compilation (MatchMaker.kt 68, 84, 194, 217, 220, 229).
Requires == ~mm.thrown

\* The optimiser comes to an end: removing unreachable edges, useless Ifs and
\* dead moves until there are none is no endless loop (CondConstProp.kt 146,
\* MatchMaker.kt 153, DeadCodeRem.kt 32).
Terminates == <>(pc = "done")

\* The comment of translate (MatchMaker.kt 80), "(FALL, JUMP) => FALL -> DUMMY
\* JUMP": a predecessor that fell into a removed node which jumped on falls
\* into a NOOP afterwards.
TranslateTable ==
  [][link # NoLink /\ link.jump /\ ~mm'.thrown =>
       LET a == Head(link.preds) IN
       link.node \notin jumpingTo(mm, a) => \A n \in fallThrough(mm', a) : n[1] = "noop"]_vars
=============================================================================
