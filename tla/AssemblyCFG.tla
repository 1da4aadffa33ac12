---------------------------- MODULE AssemblyCFG ----------------------------
(***************************************************************************)
(* The control flow graph of a function body: CFGBuilder and CFGNode of    *)
(* assembly/LVA.                                                           *)
(*                                                                         *)
(* A node is the position of a non-label instruction.  The builder gives   *)
(* every node a label of its own ("$X1", "$X2", ...), links a node to its  *)
(* successors by label, and resolves a label to the first node that        *)
(* carries it.  A label is a pair: <<"X", n>> for the builder's, anything  *)
(* else for a label of the program.                                        *)
(***************************************************************************)
EXTENDS X86

\* Comments never reach the builder; labels are folded into the next node.  A
\* body that ends in a label makes the builder throw: see EndsInNode.
Nodes(body) == {i \in DOMAIN body : body[i].op # "label"}

\* Behind a label there is an instruction: instructions.first() is called
\* without a check.
EndsInNode(body) == body # <<>> => Len(body) \in Nodes(body)

\* The instructions whose node calls pointToNext.
FallsThrough(insn) == insn.op \notin {"label", "jmp", "ret"}

\* The label pointToNext produced last when the nodes before i were built;
\* after a jmp or a ret it is still the one of that jmp or ret.
PointingTo(body, i) ==
  <<"X", 1 + Cardinality({j \in 1 .. i-1 : FallsThrough(body[j])})>>

\* The Label instructions between node i and the node before it.
LabelsBefore(body, i) ==
  {j \in 1 .. i-1 : \A k \in j .. i-1 : body[k].op = "label"}

\* Mutant of Labels: of several labels in a row only the last one is kept.
LabelsNearest(body, i) ==
  {PointingTo(body, i)} \cup {body[j].lab : j \in {i-1} \cap LabelsBefore(body, i)}

Labels(body, i) ==
  {PointingTo(body, i)} \cup {body[j].lab : j \in LabelsBefore(body, i)}

\* targets, as pairs <<label, node>>: a label means the first node built that
\* carries it; later ones are ignored.
targets(body) ==
  UNION {{l \in Labels(body, i) : \A j \in Nodes(body) : l \in Labels(body, j) => i <= j}
           \X {i} : i \in Nodes(body)}

\* CFGNode.to
To(body, i) ==
  (IF FallsThrough(body[i]) THEN {PointingTo(body, i+1)} ELSE {})
    \cup (IF body[i].op \in {"jmp", "jcc"} THEN {body[i].lab} ELSE {})

\* The edges of the graph: node.to.mapNotNull { cfg.targets[it] }.
Edges(body) ==
  {<<x[1], x[2][2]>> :
     x \in {y \in Nodes(body) \X targets(body) : y[2][1] \in To(body, y[1])}}

-----------------------------------------------------------------------------
(* The least solution of the liveness equations over this graph.  A path    *)
(* that makes a register live need not visit a node twice, so as many       *)
(* rounds as there are instructions reach it.                               *)

\* The pairs <<i, r>> with r read by node i.
Reads(body) == UNION {{i} \X body[i].use : i \in Nodes(body)}

\* The pairs that are live because of a pair of later at a successor.
Before(body, later) ==
  {<<x[1][1], x[2][2]>> :
     x \in {y \in Edges(body) \X later :
              y[1][2] = y[2][1] /\ Minus({y[2][2]}, body[y[1][1]].def) # {}}}

\* The pairs <<i, r>> with r live before node i.
LiveIn(body) ==
  LET live[n \in 0 .. Len(body)] ==
        IF n = 0 THEN Reads(body) ELSE Reads(body) \cup Before(body, live[n-1])
  IN  live[Len(body)]

\* The pairs <<i, r>> with r live after node i.
LiveOut(body) ==
  {<<x[1][1], x[2][2]>> :
     x \in {y \in Edges(body) \X LiveIn(body) : y[1][2] = y[2][1]}}

-----------------------------------------------------------------------------
(* Reference: where the machine goes after the instruction at i. *)

FirstNodeFrom(body, j) ==
  {i \in Nodes(body) : i >= j /\ \A k \in j .. i-1 : body[k].op = "label"}

Goes(body, i) ==
  (IF FallsThrough(body[i]) THEN FirstNodeFrom(body, i+1) ELSE {})
    \cup (IF body[i].op \in {"jmp", "jcc"}
          THEN UNION {FirstNodeFrom(body, j) :
                        j \in {k \in DOMAIN body : body[k].op = "label"
                                                   /\ body[k].lab = body[i].lab}}
          ELSE {})
=============================================================================
