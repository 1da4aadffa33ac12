-------------------------- MODULE ChaitinAllocator --------------------------
(***************************************************************************)
(* Register allocation of one function by ChaitinRegisterAllocator.kt with *)
(* Worklist.kt and InterferenceGraph.kt: rounds of liveness, interference  *)
(* graph, simplification, colouring and spill rewriting (chitLoop), under  *)
(* a ten second limit that may run out anywhere and is only noticed where  *)
(* the code looks at the clock.                                            *)
(*                                                                         *)
(* The worklists are insertion-ordered sets of which the code takes the    *)
(* first element: the register that the body mentions first.  Coalescing   *)
(* is disabled in chitLoop (line 135), so coalescedNodes, coalescedMoves,  *)
(* constrainedMoves and activeMoves stay empty, alias is the identity and  *)
(* worklistMoves keeps its initial value.                                  *)
(***************************************************************************)
EXTENDS SpillRewriting

CONSTANTS
  Functions,   \* the functions to allocate: [args, onStack, body |-> ...]
  MaxRounds    \* bound: rounds of chitLoop before only the clock may move

\* The tiles leave spill code to the allocator, and only it makes $S names.
ASSUME FunctionsAssumption ==
  \A f \in Functions :
    /\ f.args \in Seq(0 .. K-1)
    /\ f.onStack \in Nat
    /\ f.body \in Seq(Instruction)
    /\ EndsInNode(f.body)
    /\ \A i \in DOMAIN f.body :
         /\ f.body[i].op \notin {"load", "store"}
         /\ \A r \in f.body[i].def \cup f.body[i].use : r.name[1] # "S"

ASSUME MaxRoundsAssumption == MaxRounds \in Nat \ {0}

VARIABLES
  func,               \* the function to allocate
  pc,                 \* where chitLoop is
  late,               \* ten seconds have passed since the allocator was made
  round,              \* calls of chitLoop so far
  body,               \* the body of this round
  offsetMap,          \* fullOffsetMap[func]: spilled name -> slot
  freshSpillTempCount,
  liveOut,            \* dataflow.liveOut, as pairs <<node, register>>
  adjList, degrees,   \* the interference graph
  simplifyWorkList, freezeWorkList, spillWorkList,
  frozenMoves,
  selectStack,        \* the top is the head
  coloredNodes, spilledNodes,
  colors,             \* register -> colour
  replaceMap,         \* name -> colour: the colours in the order they were given
  output              \* the allocated function: [insns |-> ..., frame |-> ...]

graph  == <<liveOut, adjList, degrees>>
lists  == <<simplifyWorkList, freezeWorkList, spillWorkList, frozenMoves>>
result == <<coloredNodes, spilledNodes, colors, replaceMap>>
input  == <<func, body, offsetMap, freshSpillTempCount, round>>
vars   == <<func, pc, late, round, body, offsetMap, freshSpillTempCount,
            liveOut, adjList, degrees, simplifyWorkList, freezeWorkList, spillWorkList,
            frozenMoves, selectStack, coloredNodes, spilledNodes, colors,
            replaceMap, output>>

Empty == [x \in {} |-> 0]

Init ==
  /\ func \in Functions
  /\ pc = "analyse"
  /\ late \in BOOLEAN      \* earlier functions may have used up the time
  /\ round = 0
  /\ body = withCalleeSaved(func)
  /\ offsetMap = Empty
  /\ freshSpillTempCount = 0
  /\ liveOut = {} /\ adjList = Empty /\ degrees = Empty
  /\ simplifyWorkList = {} /\ freezeWorkList = {} /\ spillWorkList = {}
  /\ frozenMoves = {}
  /\ selectStack = <<>>
  /\ coloredNodes = {} /\ spilledNodes = <<>>
  /\ colors = Empty /\ replaceMap = Empty
  /\ output = Empty

-----------------------------------------------------------------------------
(* Procedure Build and the initialisation of the worklists *)

\* Mutant of LiveAcross: the operands of every instruction are let off, not
\* only the source of a move.
LiveAcrossSparesUses(b, out) ==
  {p \in out : Minus({p[2]}, b[p[1]].use) # {}} \cup UNION {{i} \X b[i].def : i \in Nodes(b)}

\* The pairs <<i, l>> where l interferes with what node i defines.
LiveAcross(b, out) ==
  {p \in out : ~(IsMove(b[p[1]]) /\ Minus({p[2]}, b[p[1]].use) = {})}
    \cup UNION {{i} \X b[i].def : i \in Nodes(b)}

\* adjSet; addEdge compares its two ends with equals, that is by name.
adjSet(b, out) ==
  UNION {{<<p[2], d>> : d \in Minus(b[p[1]].def, {p[2]})} : p \in LiveAcross(b, out)}

\* The adjacency lists of the abstract registers.
Interference(b, out) ==
  [r \in Involved(b) |-> {e[2] : e \in {f \in adjSet(b, out) : f[1] = r}}
                           \cup {e[1] : e \in {f \in adjSet(b, out) : f[2] = r}}]

\* addEdge computes degrees[u]!!.plus(1) and drops the result: the degree of
\* every register is the initial 0.
InitialDegrees(b) == [r \in Involved(b) |-> 0]

\* moveList: the moves that mention r.  Build makes one Move object for each
\* MOV between registers; Worklist.init makes another one for each of them
\* that is not between machine registers, which no moveList holds.
moveList(b, r) == {<<i, "build">> : i \in {j \in Nodes(b) : IsMove(b[j])
                                                /\ r \in b[j].def \cup b[j].use}}

worklistMoves(b) ==
  LET moves == {i \in Nodes(b) : IsMove(b[i])} IN
  {<<i, "build">> : i \in moves}
    \cup {<<i, "init">> : i \in {j \in moves : InvolvedIn(b[j]) # {}}}

nodeMoves(b, r) == moveList(b, r) \cap worklistMoves(b)

moveRelated(b, r) == nodeMoves(b, r) # {}

ChaitinError ==
  /\ pc' = "failed"
  /\ UNCHANGED <<late, input, graph, lists, selectStack, result, output>>

\* LiveVariableAnalysis(n): what it computes whatever order its random
\* worklist takes is ResultIsLiveOut of LiveVariableAnalysis.
Analyse ==
  /\ pc = "analyse" /\ ~late /\ round < MaxRounds
  /\ liveOut' = LiveOut(body)
  /\ pc' = "build"
  /\ round' = round + 1
  /\ UNCHANGED <<func, late, body, offsetMap, freshSpillTempCount, adjList, degrees,
                 lists, selectStack, result, output>>

Build ==
  /\ pc = "build" /\ ~late
  /\ adjList' = Interference(body, liveOut)
  /\ degrees' = InitialDegrees(body)
  /\ spillWorkList' = {r \in Involved(body) : degrees'[r] >= K}
  /\ freezeWorkList' = {r \in Involved(body) \ spillWorkList' : moveRelated(body, r)}
  /\ simplifyWorkList' = Involved(body) \ (spillWorkList' \cup freezeWorkList')
  /\ frozenMoves' = {}
  /\ selectStack' = <<>>
  /\ coloredNodes' = {} /\ spilledNodes' = <<>>
  /\ colors' = Empty /\ replaceMap' = Empty
  /\ pc' = "loop"
  /\ UNCHANGED <<late, input, liveOut, output>>

BuildTimeout == pc \in {"analyse", "build"} /\ late /\ ChaitinError

-----------------------------------------------------------------------------
(* The loop: simplify while it can, else freeze.  selectSpill is no action:  *)
(* spillWorkList is empty in every reachable state (SpillListUnused of      *)
(* ChaitinAllocatorProofs).                                                  *)

\* elementAt(0) of a worklist that was filled in the order of the body.  Two
\* registers first mentioned by the same instruction may come in either order.
elementAt0(S) ==
  {n \in S : \E i \in DOMAIN body :
               /\ n \in InvolvedIn(body[i])
               /\ \A j \in 1 .. i-1 : InvolvedIn(body[j]) \cap S = {}}

adjacent(n, stack) == adjList[n] \ Range(stack)

\* decrementDegree of the registers ms: the ones whose degree falls below K
\* and that leave spillWorkList.
decrementDegree(ms) == {m \in ms : degrees[m] = K}

\* The abstract neighbours (the ones that have a degree) lose an edge.
Simplify(n) ==
  LET stack     == <<n>> \o selectStack
      neighbour == adjacent(n, stack) \cap DOMAIN degrees
      lowered   == decrementDegree(neighbour)
  IN  /\ pc = "loop"
      /\ n \in elementAt0(simplifyWorkList)
      /\ late => adjacent(n, stack) = {}
      /\ selectStack' = stack
      /\ degrees' = [m \in DOMAIN degrees |->
                       IF m \in neighbour THEN degrees[m] - 1 ELSE degrees[m]]
      /\ spillWorkList' = spillWorkList \ lowered
      /\ freezeWorkList' = freezeWorkList \cup {m \in lowered : moveRelated(body, m)}
      /\ simplifyWorkList' =
           (simplifyWorkList \ {n}) \cup {m \in lowered : ~moveRelated(body, m)}
      /\ UNCHANGED <<pc, late, input, liveOut, adjList, frozenMoves, result, output>>

SimplifyTimeout(n) ==
  /\ pc = "loop"
  /\ n \in elementAt0(simplifyWorkList)
  /\ late /\ adjacent(n, <<n>> \o selectStack) # {}
  /\ ChaitinError

\* Mutant of Freeze: u stays on freezeWorkList as well.
FreezeKeeps(u) ==
  /\ pc = "loop" /\ simplifyWorkList = {}
  /\ u \in elementAt0(freezeWorkList)
  /\ simplifyWorkList' = {u}
  /\ frozenMoves' = frozenMoves \cup nodeMoves(body, u)
  /\ UNCHANGED <<pc, late, input, graph, freezeWorkList, spillWorkList, selectStack, result, output>>

\* Mutant of Freeze: the moves are frozen and u is left where it is.
FreezeMovesOnly(u) ==
  /\ pc = "loop" /\ simplifyWorkList = {}
  /\ u \in elementAt0(freezeWorkList)
  /\ frozenMoves' = frozenMoves \cup nodeMoves(body, u)
  /\ UNCHANGED <<pc, late, input, graph, simplifyWorkList, freezeWorkList, spillWorkList,
                 selectStack, result, output>>

\* freezeMoves: the registers at the other end of a move of u that are no
\* longer move-related, which go to simplifyWorkList too.
freezeMoves(u) ==
  LET ends(m) == body[m[1]].def \cup body[m[1]].use IN
  {v \in freezeWorkList \ {u} : /\ \E m \in nodeMoves(body, u) : v \in ends(m)
                                /\ nodeMoves(body, v) = {}}

Freeze(u) ==
  /\ pc = "loop" /\ simplifyWorkList = {}
  /\ u \in elementAt0(freezeWorkList)
  /\ freezeWorkList' = freezeWorkList \ ({u} \cup freezeMoves(u))
  /\ simplifyWorkList' = {u} \cup freezeMoves(u)
  /\ frozenMoves' = frozenMoves \cup nodeMoves(body, u)
  /\ UNCHANGED <<pc, late, input, graph, spillWorkList, selectStack, result, output>>

StartColoring ==
  /\ pc = "loop"
  /\ simplifyWorkList = {} /\ freezeWorkList = {} /\ spillWorkList = {}
  /\ pc' = "color"
  /\ UNCHANGED <<late, input, graph, lists, selectStack, result, output>>

-----------------------------------------------------------------------------
(* assignColors: one action for each node popped *)

\* colors, which assignColors starts with the ordinals of the machine registers.
colorOf(r) == IF Isx86(r) THEN r.name[2] ELSE colors[r]

\* Mutant of okColors: the loop over the colours includes K.
okColorsOneMore(n) ==
  (0 .. K) \ {colorOf(w) : w \in {v \in adjList[n] : v \in coloredNodes \/ Isx86(v)}}

\* Mutant of okColors: machine registers do not count as neighbours.
okColorsNoMachine(n) ==
  (0 .. K-1) \ {colors[w] : w \in adjList[n] \cap coloredNodes}

okColors(n) ==
  (0 .. K-1) \ {colorOf(w) : w \in {v \in adjList[n] : v \in coloredNodes \/ Isx86(v)}}

Put(f, x, v) == [y \in DOMAIN f \cup {x} |-> IF y = x THEN v ELSE f[y]]

\* The colours were added in ascending order and the first one left is taken.
Color ==
  LET n == Head(selectStack) IN
  /\ pc = "color" /\ selectStack # <<>>
  /\ \E c \in okColors(n) :
       /\ \A d \in okColors(n) : c <= d
       /\ colors' = Put(colors, n, c)
       /\ replaceMap' = Put(replaceMap, n.name, c)
  /\ coloredNodes' = coloredNodes \cup {n}
  /\ selectStack' = Tail(selectStack)
  /\ UNCHANGED <<pc, late, input, graph, lists, spilledNodes, output>>

Spill ==
  LET n == Head(selectStack) IN
  /\ pc = "color" /\ selectStack # <<>>
  /\ okColors(n) = {}
  /\ spilledNodes' = Append(spilledNodes, n)
  /\ selectStack' = Tail(selectStack)
  /\ UNCHANGED <<pc, late, input, graph, lists, coloredNodes, colors, replaceMap, output>>

-----------------------------------------------------------------------------
(* The end of a round *)

\* rewriteSpills, then the next chitLoop.
Respill ==
  /\ pc = "color" /\ selectStack = <<>> /\ ~late
  /\ spilledNodes # <<>>
  /\ offsetMap' = AddSlots(offsetMap, spilledNodes)
  /\ body' = rewriteSpills(body, spilledNodes, offsetMap', freshSpillTempCount)
  /\ freshSpillTempCount' =
       freshSpillTempCount + SpillTempsBefore(body, spilledNodes, Len(body) + 1)
  /\ pc' = "analyse"
  /\ UNCHANGED <<func, late, round, graph, lists, selectStack, result, output>>

\* replaceInsnRegisters and replaceRegister: the colour is looked up by name.
Replace(r) ==
  IF Isx86(r) THEN r ELSE [name |-> <<"x86", replaceMap[r.name]>>, size |-> r.size]

replaceInsnRegisters(insn) ==
  [insn EXCEPT !.def = {Replace(r) : r \in @}, !.use = {Replace(r) : r \in @}]

\* postprocess: moves of a register to itself go, and the frame is padded to
\* an even number of words.
postprocess(insns) ==
  [insns |-> SelectSeq(insns, LAMBDA insn : ~(IsMove(insn) /\ insn.def = insn.use)),
   frame |-> LET numTemps == Cardinality(DOMAIN offsetMap) IN numTemps + (numTemps % 2)]

Finish ==
  /\ pc = "color" /\ selectStack = <<>> /\ ~late
  /\ spilledNodes = <<>>
  /\ output' = postprocess([i \in DOMAIN body |-> replaceInsnRegisters(body[i])])
  /\ pc' = "done"
  /\ UNCHANGED <<late, input, graph, lists, selectStack, result>>

ColoringTimeout == pc = "color" /\ selectStack = <<>> /\ late /\ ChaitinError

\* Time passes.
ClockExpires ==
  /\ pc \notin {"done", "failed"} /\ ~late
  /\ late' = TRUE
  /\ UNCHANGED <<pc, input, graph, lists, selectStack, result, output>>

Step ==
  \/ Analyse \/ Build \/ BuildTimeout
  \/ \E n \in simplifyWorkList : Simplify(n) \/ SimplifyTimeout(n)
  \/ \E u \in freezeWorkList : Freeze(u)
  \/ StartColoring
  \/ Color \/ Spill
  \/ Respill \/ Finish \/ ColoringTimeout

Next == Step \/ ClockExpires

SafetySpec == Init /\ [][Next]_vars

\* The compiler's only thread keeps running, and time passes.
Spec == SafetySpec /\ WF_vars(Step) /\ WF_vars(ClockExpires)

-----------------------------------------------------------------------------
(* Properties *)

\* From Build to the end of the round.
InRound == pc \in {"loop", "color", "done"}

\* The types of the state of a round.
TypeOK ==
  /\ pc \in {"analyse", "build", "loop", "color", "done", "failed"}
  /\ late \in BOOLEAN
  /\ round \in 0 .. MaxRounds
  /\ InRound =>
       /\ DOMAIN adjList = Involved(body)
       /\ degrees \in [Involved(body) -> Int]
       /\ simplifyWorkList \cup freezeWorkList \cup spillWorkList \subseteq Involved(body)
       /\ selectStack \in Seq(Involved(body))
       /\ coloredNodes \subseteq Involved(body)
       /\ spilledNodes \in Seq(Involved(body))
       /\ colors \in [coloredNodes -> 0 .. K-1]

places == <<simplifyWorkList, freezeWorkList, spillWorkList,
            Range(selectStack), coloredNodes, Range(spilledNodes)>>

\* Every abstract register of the body is in exactly one place: a worklist,
\* the select stack, coloured or spilled.  A register that fell out of all of
\* them would reach replaceRegister without a colour.
Partition ==
  InRound => /\ UNION {places[p] : p \in 1 .. 6} = Involved(body)
             /\ \A p, q \in 1 .. 6 : p # q => places[p] \cap places[q] = {}

\* No two interfering registers, and no register and machine register that
\* interfere, ever have the same colour, although neighbours are coloured
\* many pops apart and spilled ones in between are ignored.
ProperColoring ==
  InRound =>
    \A n \in coloredNodes : \A w \in adjList[n] :
      w \in coloredNodes \/ Isx86(w) => colors[n] # colorOf(w)

\* The machine registers of the final code, looked up by name: defining one
\* register never overwrites another that is live across the definition, the
\* machine registers that carry arguments, results and the frame included.
\* (The two ends of a move hold the same value and may share a register.)
NoClobber ==
  pc = "done" =>
    \A i \in Nodes(body) : \A d \in body[i].def :
      \A r \in Involved(body) \cup x86s(0 .. K-1) :
        /\ <<i, r>> \in liveOut /\ ~Same(d, r)
        /\ ~(IsMove(body[i]) /\ \E u \in body[i].use : Same(r, u))
        => Replace(d) # Replace(r)

\* Over all rounds, every spilled name has a slot of its own, and a slot that
\* the code touches lies in the frame that ENTER will reserve.
SlotsDistinct ==
  /\ \A m, n \in DOMAIN offsetMap : m # n => offsetMap[m] # offsetMap[n]
  /\ \A i \in DOMAIN body : body[i].op \in {"load", "store"} =>
       body[i].slot \in 1 .. Cardinality(DOMAIN offsetMap)

\* A register that was spilled is gone from the body: each of its occurrences
\* has become a temporary of one instruction.
SpilledGone ==
  pc = "analyse" => \A r \in Involved(body) : r.name \notin DOMAIN offsetMap

\* Allocation ends, by a colouring or by ChaitinError.
Terminates == <>(pc \in {"done", "failed"})

-----------------------------------------------------------------------------
(* Claims of comments in the code *)

\* ChaitinRegisterAllocator.kt:249: replaceMap maps every abstract register of
\* the body to its machine register, the one assignColors chose for it.
ReplaceMapFaithful ==
  pc = "done" => \A r \in Involved(body) : replaceMap[r.name] = colors[r]

=============================================================================
