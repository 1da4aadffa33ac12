--------------------------- MODULE BlockReordering ---------------------------
(***************************************************************************)
(* LIRSeq.blockReordering: a function is cut into basic blocks, the blocks *)
(* are laid out in traces chosen at random (greedyTrace, one action for    *)
(* each block), and the jumps are adjusted to the new order.               *)
(***************************************************************************)
EXTENDS LIR, SequencesExt

CONSTANT Functions  \* [body |-> statements, known |-> constant guards, dead |-> dead moves,
                    \*  copies |-> moves that become dead, rounds |-> bound on the rounds]

\* Lowering makes a body of typed statements in which every move, return and
\* guard has a number of its own and every label is its own and stands once.
\* The bound on the rounds is a number.
ASSUME FunctionsAssumption ==
  \A f \in Functions :
    /\ f.body \in Seq(LIRStatement)
    /\ \A i \in DOMAIN f.body : f.body[i].op = "label" => f.body[i].lab[1] = "L"
    /\ OccursOnce(f.body)
    /\ f.rounds \in Nat

VARIABLES
  func,    \* the function as lowering produced it
  block,   \* LIRSeq.block: its statements now
  nodes,   \* the nodes buildCFG made of them
  order    \* greedyTrace: the indices of the nodes laid out so far

reorderVars == <<func, block, nodes, order>>

-----------------------------------------------------------------------------
(* maximalBasicBlocks and buildCFG *)

\* A basic block starts at position i.
BlockStart(stmts, i) == i = 1 \/ stmts[i].op = "label" \/ IsEndBlock(stmts[i-1])

\* The last position of the block that starts at i.
BlockEnd(stmts, i) ==
  CHOOSE j \in i .. Len(stmts) :
    /\ j = Len(stmts) \/ BlockStart(stmts, j + 1)
    /\ \A k \in i+1 .. j : ~BlockStart(stmts, k)

\* A list that starts with a label gets an empty block in front.
maximalBasicBlocks(stmts) ==
  (IF stmts = <<>> \/ stmts[1].op = "label" THEN <<<<>>>> ELSE <<>>)
    \o FlattenSeq([i \in DOMAIN stmts |->
         IF BlockStart(stmts, i) THEN <<SubSeq(stmts, i, BlockEnd(stmts, i))>> ELSE <<>>])

\* A label that freshLabel hands out.
freshLabel(k) == <<"B", k>>

BlockLabel(blocks, k) ==
  IF blocks[k] # <<>> /\ blocks[k][1].op = "label" THEN blocks[k][1].lab ELSE freshLabel(k)

\* A node: its label, its statements, and how it ends: "none", "uncond" to
\* lab, or "cond" to lab if the guard holds and else to els (NoLabel: on).
Node(label, statements, end, guard, lab, els) ==
  [label |-> label, statements |-> statements, end |-> end, guard |-> guard,
   lab |-> lab, els |-> els]

buildCFG(blocks) ==
  LET plain(s)  == IF s.op \in {"stmt", "ret"} THEN <<s>> ELSE <<>>
      onward(k) == IF k < Len(blocks) THEN BlockLabel(blocks, k+1) ELSE NoLabel
      build(k)  ==
        LET label == BlockLabel(blocks, k)
            stmts == FlattenSeq([i \in DOMAIN blocks[k] |-> plain(blocks[k][i])])
            end   == IF blocks[k] # <<>> /\ IsEndBlock(Last(blocks[k])) THEN Last(blocks[k])
                     ELSE LIRJump(onward(k))
        IN  CASE end.op = "cjump" -> Node(label, stmts, "cond", end.guard, end.lab, end.els)
              [] end.op = "tjump" -> Node(label, stmts, "cond", end.guard, end.lab, onward(k))
              [] end.op = "ret" \/ (end.op = "jump" /\ end.lab = NoLabel) ->
                   Node(label, stmts, "none", NoGuard, NoLabel, NoLabel)
              [] OTHER -> Node(label, stmts, "uncond", NoGuard, end.lab, NoLabel)
  IN  [k \in DOMAIN blocks |-> build(k)]

-----------------------------------------------------------------------------
(* greedyTrace *)

edges(n) == {nodes[n].lab, nodes[n].els} \ {NoLabel}

unmarked == DOMAIN nodes \ Range(order)

\* Where the trace can go on from its last node.
Successors(n) == {m \in unmarked : nodes[m].label \in edges(n)}

TraceEnded == order # <<>> => Successors(Last(order)) = {}

\* Mutant of head: every head is taken at random.
headAny == unmarked

\* head(): the first node without predecessors, else any.
head ==
  LET free == {n \in unmarked : \A m \in DOMAIN nodes : nodes[n].label \notin edges(m)}
  IN  IF free # {} THEN {n \in free : \A m \in free : n <= m} ELSE unmarked

NewTrace(n) ==
  /\ TraceEnded
  /\ n \in head
  /\ order' = Append(order, n)
  /\ UNCHANGED <<func, block, nodes>>

ExtendTrace(n) ==
  /\ ~TraceEnded
  /\ n \in Successors(Last(order))
  /\ order' = Append(order, n)
  /\ UNCHANGED <<func, block, nodes>>

-----------------------------------------------------------------------------
(* The new list of statements *)

\* fixJumps: a conditional jump to the next node is inverted, any other is
\* followed by a jump to its false edge.
fixJumps(laid) ==
  LET next(k) == IF k < Len(laid) THEN laid[k+1].label ELSE NoLabel
      fix(k)  ==
        LET n == laid[k] IN
        IF n.end = "cond" /\ n.els # NoLabel THEN
          IF n.lab = next(k)
          THEN <<[n EXCEPT !.guard = Negate(@), !.lab = n.els, !.els = NoLabel]>>
          ELSE <<[n EXCEPT !.els = NoLabel],
                 Node(freshLabel(Len(nodes) + k), <<>>, "uncond", NoGuard, n.els, NoLabel)>>
        ELSE IF n.end = "cond" /\ n.lab = next(k) THEN <<[n EXCEPT !.end = "none"]>>
        ELSE <<n>>
  IN  FlattenSeq([k \in DOMAIN laid |-> fix(k)])

removeUselessJumps(laid) ==
  [k \in DOMAIN laid |->
     IF laid[k].end = "uncond" /\ k < Len(laid) /\ laid[k].lab = laid[k+1].label
     THEN [laid[k] EXCEPT !.end = "none"] ELSE laid[k]]

toSequence(laid) ==
  LET jump(n) == CASE n.end = "cond"   -> <<LIRTrueJump(n.guard, n.lab)>>
                   [] n.end = "uncond" -> <<LIRJump(n.lab)>>
                   [] n.end = "none"   -> <<>>
  IN  FlattenSeq([k \in DOMAIN laid |->
        <<LIRLabel(laid[k].label)>> \o laid[k].statements \o jump(laid[k])])

\* The list the order gives, as the only element of a set.
Reordered ==
  {toSequence(kept) : kept \in
    {removeUselessJumps(fixed) : fixed \in
      {fixJumps(laid) : laid \in {[k \in DOMAIN order |-> nodes[order[k]]]}}}}
=============================================================================
