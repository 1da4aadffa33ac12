------------------------ MODULE LiveVariableAnalysis ------------------------
(***************************************************************************)
(* The worklist algorithm of assembly/LVA/LiveVariableAnalysis.kt.  The    *)
(* node to visit is taken at random, so Visit may pick any node of the     *)
(* worklist.  The body analysed and its graph never change.                *)
(***************************************************************************)
EXTENDS AssemblyCFG

CONSTANT Functions    \* the function bodies to analyse

ASSUME FunctionsAssumption ==
  /\ Functions \subseteq Seq(Instruction)
  /\ \A f \in Functions : EndsInNode(f)

VARIABLES
  funcDecl,   \* the body under analysis
  cfg,        \* node -> its successors in the graph CFGBuilder built
  inVals,     \* node -> registers live before it
  outVals,    \* node -> registers live after it, for the nodes visited
  worklist    \* nodes still to visit

vars == <<funcDecl, cfg, inVals, outVals, worklist>>

Graph(f) == [i \in Nodes(f) |-> {j \in Nodes(f) : <<i, j>> \in Edges(f)}]

\* Mutant of Init: the worklist starts with every position, labels included.
InitEveryPosition ==
  /\ funcDecl \in Functions
  /\ cfg = Graph(funcDecl)
  /\ inVals = [i \in Nodes(funcDecl) |-> {}]
  /\ outVals = [i \in {} |-> {}]
  /\ worklist = DOMAIN funcDecl

\* Mutant of Init: the analysis starts from full sets.
InitFull ==
  /\ funcDecl \in Functions
  /\ cfg = Graph(funcDecl)
  /\ inVals = [i \in Nodes(funcDecl) |-> Involved(funcDecl)]
  /\ outVals = [i \in {} |-> {}]
  /\ worklist = Nodes(funcDecl)

Init ==
  /\ funcDecl \in Functions
  /\ cfg = Graph(funcDecl)
  /\ inVals = [i \in Nodes(funcDecl) |-> {}]
  /\ outVals = [i \in {} |-> {}]
  /\ worklist = Nodes(funcDecl)

\* Mutant of preds: the edges followed forwards.
predsForward(i) == cfg[i]

\* CFG.preds
preds(i) == {j \in Nodes(funcDecl) : i \in cfg[j]}

\* The union of the liveIn sets of the successors.
Out(i) == UNION {inVals[j] : j \in cfg[i]}

\* Mutant of NewIn: the definitions are not removed.
NewInKeepsDef(i, out) == funcDecl[i].use \cup out

\* Mutant of NewIn: the definitions are removed last.
NewInDefLast(i, out) == Minus(funcDecl[i].use \cup out, funcDecl[i].def)

\* node.insn.use union (out - node.insn.def)
NewIn(i, out) == funcDecl[i].use \cup Minus(out, funcDecl[i].def)

\* Mutant of Visit: the predecessors come back even if nothing changed.
VisitAlwaysRequeues(i) ==
  /\ i \in worklist
  /\ outVals' = [j \in DOMAIN outVals \cup {i} |-> IF j = i THEN Out(i) ELSE outVals[j]]
  /\ inVals' = [inVals EXCEPT ![i] = NewIn(i, Out(i))]
  /\ worklist' = (worklist \ {i}) \cup preds(i)
  /\ UNCHANGED <<funcDecl, cfg>>

Visit(i) ==
  LET out   == Out(i)
      newIn == NewIn(i, out)
  IN  /\ i \in worklist
      /\ outVals' = [j \in DOMAIN outVals \cup {i} |-> IF j = i THEN out ELSE outVals[j]]
      /\ inVals' = [inVals EXCEPT ![i] = newIn]
      /\ worklist' = (worklist \ {i})
           \cup (IF newIn # inVals[i] THEN preds(i) ELSE {})
      /\ UNCHANGED <<funcDecl, cfg>>

Done == worklist = {}

Next == \E i \in Nodes(funcDecl) : Visit(i)

Spec == Init /\ [][Next]_vars /\ WF_vars(Next)

-----------------------------------------------------------------------------
(* Properties *)

Registers == UNION {funcDecl[i].use \cup funcDecl[i].def : i \in Nodes(funcDecl)}

\* The types of the maps and of the worklist.
TypeOK ==
  /\ cfg \in [Nodes(funcDecl) -> SUBSET Nodes(funcDecl)]
  /\ inVals \in [Nodes(funcDecl) -> SUBSET Registers]
  /\ DOMAIN outVals \subseteq Nodes(funcDecl)
  /\ \A i \in DOMAIN outVals : outVals[i] \subseteq Registers
  /\ worklist \subseteq Nodes(funcDecl)

\* A node that is off the worklist has been visited and satisfies both
\* dataflow equations, although its successors may have been revisited since:
\* this is what lets the loop stop when the worklist is empty.
Settled ==
  \A i \in Nodes(funcDecl) \ worklist :
    /\ i \in DOMAIN outVals
    /\ outVals[i] = Out(i)
    /\ inVals[i] = NewIn(i, Out(i))

\* The nodes W are closed backwards for r: a node that uses r is in W, and so
\* is one that leaves r alone and has a successor in W.
ClosedFor(r, W) ==
  \A i \in Nodes(funcDecl) :
    \/ r \in funcDecl[i].use
    \/ /\ Minus({r}, funcDecl[i].def) # {}
       /\ cfg[i] \cap W # {}
    => i \in W

LiveAt(r) == {i \in Nodes(funcDecl) : r \in inVals[i]}

\* At no time is a register reported live at a node that some solution of
\* the dataflow equations leaves out, and when the loop stops the result is
\* itself a solution: the analysis computes the least one, whatever the order
\* in which the random choice visits the nodes.
LeastLiveness ==
  \A r \in Registers :
    /\ \A W \in SUBSET Nodes(funcDecl) :
         LiveAt(r) \subseteq W \/ ~ClosedFor(r, W)
    /\ Done => ClosedFor(r, LiveAt(r))

\* A visit never retracts a register: the sets only grow, which bounds the
\* number of visits that put a predecessor back.
OnlyGrows ==
  [][\A i \in Nodes(funcDecl) : inVals[i] \subseteq inVals'[i]]_vars

\* The loop ends: liveOut is read only after worklist.isNotEmpty() fails.
Terminates == <>Done

\* The graph the builder links by its own labels is the machine's control flow.
FlowMatches ==
  \A i \in Nodes(funcDecl) : cfg[i] = Goes(funcDecl, i)

(***************************************************************************)
(* What liveness means for the machine: UsedWithin(r)[n] are the           *)
(* instructions from which at most n jumps or fall-throughs lead to a read *)
(* of r with no write of the whole of r before.  A SETcc writes only the   *)
(* low 8 bits, so it overwrites nothing.                                   *)
(***************************************************************************)
Overwrites(insn) == IF insn.op = "jumpset" THEN {} ELSE insn.def

\* A SETcc writes the low byte of r.
SetInPart(r) ==
  \E i \in Nodes(funcDecl) : funcDecl[i].op = "jumpset"
                               /\ \E d \in funcDecl[i].def : Same(d, r)

UsedWithin(r) ==
  LET reads == {i \in Nodes(funcDecl) : r \in funcDecl[i].use}
      used[n \in 0 .. Len(funcDecl)] ==
        IF n = 0 THEN reads
        ELSE LET later == used[n-1] IN
             reads \cup {i \in Nodes(funcDecl) : /\ r \notin Overwrites(funcDecl[i])
                                                 /\ Goes(funcDecl, i) \cap later # {}}
  IN  used[Len(funcDecl)]

\* When the loop stops, a register is in liveIn of a node exactly when some
\* execution from that node reads it before overwriting it; registers that a
\* SETcc sets in part are the matter of MissedUnharmed.
LivenessExact ==
  Done => \A r \in Registers : ~SetInPart(r) => LiveAt(r) = UsedWithin(r)

\* The def of a SETcc says that it overwrites the whole register, so the bytes
\* cleared for it are not reported live on the way from the XOR to the SETcc.
\* That does no harm: where an execution still needs a register that is not
\* reported, the instruction before defines nothing else, so no other value can
\* be given the same machine register and overwrite it there.  This is so of the
\* code of tiling; a spill load before the CMP is such a definition.
MissedUnharmed ==
  Done => \A r \in Registers : \A i \in UsedWithin(r) \ LiveAt(r) :
            \A j \in Nodes(funcDecl) :
              i \in Goes(funcDecl, j) => \A d \in funcDecl[j].def : Same(d, r)

\* When the loop stops, the two maps are the ones the register allocator's
\* model takes from LiveIn and LiveOut.
ResultIsLiveOut ==
  LET pairs(map) == UNION {{i} \X map[i] : i \in DOMAIN map} IN
  Done => pairs(inVals) = LiveIn(funcDecl) /\ pairs(outVals) = LiveOut(funcDecl)
=============================================================================
