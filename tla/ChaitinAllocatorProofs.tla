----------------------- MODULE ChaitinAllocatorProofs -----------------------
(***************************************************************************)
(* Theorems about the register allocator, for every machine, every set of  *)
(* functions and every number of rounds.  What a body contains is left     *)
(* open: the proofs use only that the interference graph is Interference   *)
(* of the body and of its liveness.                                        *)
(***************************************************************************)
EXTENDS ChaitinAllocator, TLAPS

\* The sets of Partition, one fact each, with the two further facts that make
\* them inductive: a register is pushed once, and nothing is put on
\* spillWorkList.
Parts ==
  InRound =>
    /\ Involved(body) = simplifyWorkList \cup freezeWorkList \cup Range(selectStack)
                          \cup coloredNodes \cup Range(spilledNodes)
    /\ simplifyWorkList \cap freezeWorkList = {}
    /\ (simplifyWorkList \cup freezeWorkList) \cap Range(selectStack) = {}
    /\ (simplifyWorkList \cup freezeWorkList) \cap (coloredNodes \cup Range(spilledNodes)) = {}
    /\ Range(selectStack) \cap (coloredNodes \cup Range(spilledNodes)) = {}
    /\ coloredNodes \cap Range(spilledNodes) = {}
    /\ IsInjective(selectStack)

\* addEdge never counts, so a degree never reaches K.
SpillListUnused ==
  InRound => spillWorkList = {} /\ \A r \in Involved(body) : degrees[r] <= 0

\* Nothing is coloured before the worklists are empty, and a finished round
\* has coloured everything.
Phases ==
  /\ pc = "loop" => coloredNodes = {} /\ spilledNodes = <<>>
  /\ pc \in {"color", "done"} => simplifyWorkList = {} /\ freezeWorkList = {}
  /\ pc = "done" => selectStack = <<>> /\ spilledNodes = <<>>

\* The graph is the one Build made.
GraphBuilt == InRound => adjList = Interference(body, liveOut)

\* No two registers of the body have the same name (so no SETcc register).
UniqueNames == \A r, s \in Involved(body) : Same(r, s) => r = s

\* replaceMap, which is keyed by name, agrees with the colours.
NamesColored ==
  InRound /\ UniqueNames =>
    \A n \in coloredNodes : n.name \in DOMAIN replaceMap /\ replaceMap[n.name] = colors[n]

IInv == TypeOK /\ Parts /\ SpillListUnused /\ Phases /\ GraphBuilt

-----------------------------------------------------------------------------
(* Sequences without repetition *)

\* Pushing a register that is not on the stack.
LEMMA PushSeq ==
  ASSUME NEW S, NEW s \in Seq(S), NEW n \in S, IsInjective(s), n \notin Range(s)
  PROVE  /\ <<n>> \o s \in Seq(S)
         /\ Range(<<n>> \o s) = {n} \cup Range(s)
         /\ IsInjective(<<n>> \o s)
<1> DEFINE t == <<n>> \o s
<1>1. /\ t \in Seq(S) /\ Len(t) = Len(s) + 1 /\ DOMAIN t = 1 .. Len(s) + 1
      /\ t[1] = n /\ \A i \in 1 .. Len(s) : t[i + 1] = s[i]
  OBVIOUS
<1>2. \A j \in DOMAIN t : j = 1 \/ (j - 1 \in DOMAIN s /\ t[j] = s[j - 1])
  BY <1>1
<1>3. 1 \in DOMAIN t /\ \A i \in DOMAIN s : i + 1 \in DOMAIN t /\ t[i + 1] = s[i]
  BY <1>1
<1> HIDE DEF t
<1>4. Range(t) = {n} \cup Range(s)
  <2>1. ASSUME NEW x \in Range(t) PROVE x \in {n} \cup Range(s)
    <3>1. PICK j \in DOMAIN t : x = t[j]
      BY DEF Range
    <3> QED BY <1>1, <1>2, <3>1 DEF Range
  <2>2. ASSUME NEW x \in Range(s) PROVE x \in Range(t)
    <3>1. PICK i \in DOMAIN s : x = s[i]
      BY <2>2 DEF Range
    <3> QED BY <1>3, <3>1 DEF Range
  <2>3. n \in Range(t)
    BY <1>1, <1>3 DEF Range
  <2> QED BY <2>1, <2>2, <2>3
<1>5. IsInjective(t)
  <2> SUFFICES ASSUME NEW i \in DOMAIN t, NEW j \in DOMAIN t, t[i] = t[j] PROVE i = j
    BY DEF IsInjective
  <2>1. \A k \in DOMAIN s : s[k] # n
    BY DEF Range
  <2>2. i \in Int /\ j \in Int
    BY <1>1
  <2> QED BY <1>1, <1>2, <2>1, <2>2 DEF IsInjective
<1> QED BY <1>1, <1>4, <1>5 DEF t

\* Popping the top of the stack.
LEMMA PopSeq ==
  ASSUME NEW S, NEW s \in Seq(S), IsInjective(s), s # <<>>
  PROVE  /\ Head(s) \in S /\ Tail(s) \in Seq(S)
         /\ Range(s) = {Head(s)} \cup Range(Tail(s))
         /\ Head(s) \notin Range(Tail(s))
         /\ IsInjective(Tail(s))
<1> DEFINE t == Tail(s)
<1>1. /\ t \in Seq(S) /\ Len(s) > 0 /\ Len(t) = Len(s) - 1
      /\ DOMAIN s = 1 .. Len(s) /\ DOMAIN t = 1 .. Len(t)
      /\ Head(s) = s[1] /\ s[1] \in S
      /\ \A i \in 1 .. Len(t) : t[i] = s[i + 1]
  OBVIOUS
<1>2. \A j \in DOMAIN s : j = 1 \/ (j - 1 \in DOMAIN t /\ s[j] = t[j - 1])
  BY <1>1
<1>3. 1 \in DOMAIN s /\ \A i \in DOMAIN t : i \in Int /\ i + 1 \in DOMAIN s /\ t[i] = s[i + 1] /\ i + 1 # 1
  BY <1>1
<1> HIDE DEF t
<1>4. Range(s) = {Head(s)} \cup Range(t)
  BY <1>1, <1>2, <1>3 DEF Range
<1>5. Head(s) \notin Range(t)
  BY <1>1, <1>3 DEF Range, IsInjective
<1>6. IsInjective(t)
  <2> SUFFICES ASSUME NEW i \in DOMAIN t, NEW j \in DOMAIN t, t[i] = t[j] PROVE i = j
    BY DEF IsInjective
  <2>1. i + 1 = j + 1
    BY <1>3 DEF IsInjective
  <2> QED BY <1>3, <2>1
<1> QED BY <1>1, <1>4, <1>5, <1>6 DEF t

\* Appending to the spilled nodes.
LEMMA AppendSeq ==
  ASSUME NEW S, NEW s \in Seq(S), NEW n \in S
  PROVE  Append(s, n) \in Seq(S) /\ Range(Append(s, n)) = Range(s) \cup {n}
<1> DEFINE t == Append(s, n)
<1>1. /\ t \in Seq(S) /\ DOMAIN t = 1 .. Len(s) + 1 /\ DOMAIN s = 1 .. Len(s) /\ Len(s) \in Nat
      /\ t[Len(s) + 1] = n /\ \A i \in 1 .. Len(s) : t[i] = s[i]
  OBVIOUS
<1>2. \A j \in DOMAIN t : j = Len(s) + 1 \/ j \in DOMAIN s
  BY <1>1
<1>3. Len(s) + 1 \in DOMAIN t /\ \A j \in DOMAIN s : j \in DOMAIN t
  BY <1>1
<1> HIDE DEF t
<1>4. Range(t) = Range(s) \cup {n}
  BY <1>1, <1>2, <1>3 DEF Range
<1> QED BY <1>1, <1>4 DEF t

\* The empty sequence holds nothing.
LEMMA RangeEmpty == Range(<<>>) = {}
  BY DEF Range

-----------------------------------------------------------------------------
(* The interference graph *)

\* addEdge enters an edge at both its ends and never links a register to itself.
LEMMA InterferenceSymmetric ==
  ASSUME NEW b, NEW out, NEW m \in Involved(b), NEW n \in Interference(b, out)[m]
  PROVE  n # m /\ (n \in Involved(b) => m \in Interference(b, out)[n])
<1> DEFINE E == adjSet(b, out)
<1>1. <<m, n>> \in E \/ <<n, m>> \in E
  <2>1. ASSUME NEW e \in E PROVE e = <<e[1], e[2]>>
    <3>1. \E x, y : e = <<x, y>>
      BY <2>1 DEF adjSet
    <3> QED BY <3>1
  <2>2. \E e \in E : (e[1] = m /\ e[2] = n) \/ (e[2] = m /\ e[1] = n)
    BY DEF Interference
  <2> QED BY <2>1, <2>2
<1>2. \A e \in E : e[1] # e[2]
  BY DEF adjSet, Minus, Same
<1>3. m # n
  BY <1>1, <1>2
<1>4. ASSUME n \in Involved(b) PROVE m \in Interference(b, out)[n]
  BY <1>1, <1>4 DEF Interference
<1> QED BY <1>3, <1>4

\* Machine registers are no nodes of the graph.
LEMMA InvolvedAbstract ==
  ASSUME NEW b, NEW r \in Involved(b)
  PROVE  ~Isx86(r)
  BY DEF Involved, InvolvedIn

-----------------------------------------------------------------------------
(* The inductive invariant, one lemma for each action that touches a list. *)

\* The worklists of a new round hold every register, once.
LEMMA BuildKeepsIInv == IInv /\ Build => IInv'
<1> SUFFICES ASSUME IInv, Build PROVE IInv'
  OBVIOUS
<1> DEFINE S == Involved(body)
<1>1. /\ body' = body /\ round' = round /\ late' = late /\ liveOut' = liveOut /\ S' = S
      /\ pc' = "loop" /\ adjList' = Interference(body, liveOut) /\ degrees' = InitialDegrees(body)
      /\ selectStack' = <<>> /\ coloredNodes' = {} /\ spilledNodes' = <<>> /\ colors' = Empty
  BY DEF Build, input
<1>2. degrees' \in [S -> Int] /\ \A r \in S : degrees'[r] = 0
  BY <1>1 DEF InitialDegrees
<1>3. spillWorkList' = {}
  BY <1>2, X86Assumption DEF Build
<1>4. freezeWorkList' \subseteq S /\ simplifyWorkList' = S \ freezeWorkList'
  BY <1>3 DEF Build
<1>5. DOMAIN adjList' = S
  BY <1>1 DEF Interference
<1>6. colors' \in [coloredNodes' -> 0 .. K-1]
  BY <1>1 DEF Empty
<1>7. Range(selectStack)' = {} /\ Range(spilledNodes)' = {}
  BY <1>1, RangeEmpty
<1>8. IsInjective(selectStack')
  BY <1>1 DEF IsInjective
<1> HIDE DEF S
<1>9. TypeOK'
  BY <1>1, <1>2, <1>3, <1>4, <1>5, <1>6 DEF IInv, TypeOK, InRound, S
<1>10. Parts'
  BY <1>1, <1>4, <1>7, <1>8 DEF Parts, S
<1>11. SpillListUnused'
  BY <1>1, <1>2, <1>3 DEF SpillListUnused, S
<1>12. Phases' /\ GraphBuilt'
  BY <1>1 DEF Phases, GraphBuilt
<1> QED BY <1>9, <1>10, <1>11, <1>12 DEF IInv

\* simplify moves one register from its worklist to the stack.
LEMMA SimplifyKeepsIInv == ASSUME NEW n \in simplifyWorkList PROVE IInv /\ Simplify(n) => IInv'
<1> SUFFICES ASSUME IInv, Simplify(n) PROVE IInv'
  OBVIOUS
<1> DEFINE S == Involved(body)
           stack == <<n>> \o selectStack
           neighbour == adjacent(n, stack) \cap DOMAIN degrees
<1>1. /\ body' = body /\ round' = round /\ late' = late /\ liveOut' = liveOut /\ S' = S
      /\ pc = "loop" /\ pc' = "loop" /\ adjList' = adjList /\ selectStack' = stack
      /\ UNCHANGED <<coloredNodes, spilledNodes, colors>>
  BY DEF Simplify, input, result
<1>2. InRound /\ InRound'
  BY <1>1 DEF InRound
<1>3. /\ selectStack \in Seq(S) /\ IsInjective(selectStack) /\ n \in S
      /\ n \notin Range(selectStack) /\ spillWorkList = {}
      /\ degrees \in [S -> Int] /\ \A r \in S : degrees[r] <= 0
  BY <1>2 DEF IInv, TypeOK, Parts, SpillListUnused
<1>4. stack \in Seq(S) /\ Range(stack) = {n} \cup Range(selectStack) /\ IsInjective(stack)
  <2> HIDE DEF S
  <2> QED BY <1>3, PushSeq
<1>5. degrees' = [m \in DOMAIN degrees |-> IF m \in neighbour THEN degrees[m] - 1 ELSE degrees[m]]
  BY DEF Simplify
<1>6. degrees' \in [S -> Int] /\ \A r \in S : degrees'[r] <= 0
  <2> HIDE DEF neighbour, S
  <2> QED BY <1>3, <1>5
<1>7. \A m \in S : degrees[m] # K
  BY <1>3, X86Assumption
<1>8. decrementDegree(neighbour) = {}
  BY <1>3, <1>7 DEF decrementDegree
<1>9. /\ spillWorkList' = {} /\ freezeWorkList' = freezeWorkList
      /\ simplifyWorkList' = simplifyWorkList \ {n}
  BY <1>3, <1>8 DEF Simplify
<1> HIDE DEF stack, neighbour, S
<1>10. TypeOK'
  BY <1>1, <1>2, <1>4, <1>6, <1>9 DEF IInv, TypeOK, S
<1>11. Parts'
  BY <1>1, <1>2, <1>4, <1>9 DEF IInv, Parts, S
<1>12. SpillListUnused'
  BY <1>1, <1>6, <1>9 DEF SpillListUnused, S
<1>13. Phases' /\ GraphBuilt'
  BY <1>1, <1>2 DEF IInv, Phases, GraphBuilt
<1> QED BY <1>10, <1>11, <1>12, <1>13 DEF IInv

\* freeze moves registers from freezeWorkList to simplifyWorkList.
LEMMA FreezeKeepsIInv == ASSUME NEW u \in freezeWorkList PROVE IInv /\ Freeze(u) => IInv'
<1> SUFFICES ASSUME IInv, Freeze(u) PROVE IInv'
  OBVIOUS
<1>1. /\ body' = body /\ round' = round /\ late' = late /\ pc = "loop" /\ pc' = pc
      /\ UNCHANGED <<liveOut, adjList, degrees, spillWorkList, selectStack,
                     coloredNodes, spilledNodes, colors>>
      /\ simplifyWorkList = {}
  BY DEF Freeze, input, graph, result
<1>2. PICK T \in SUBSET freezeWorkList :
        freezeWorkList' = freezeWorkList \ T /\ simplifyWorkList' = T
  <2>1. /\ freezeWorkList' = freezeWorkList \ ({u} \cup freezeMoves(u))
        /\ simplifyWorkList' = {u} \cup freezeMoves(u)
    BY DEF Freeze
  <2>2. {u} \cup freezeMoves(u) \in SUBSET freezeWorkList
    BY DEF freezeMoves
  <2> QED BY <2>1, <2>2
<1>3. InRound /\ InRound' /\ Involved(body)' = Involved(body)
  BY <1>1 DEF InRound
<1>4. TypeOK'
  BY <1>1, <1>2, <1>3 DEF IInv, TypeOK
<1>5. Parts'
  BY <1>1, <1>2, <1>3 DEF IInv, Parts
<1>6. SpillListUnused' /\ Phases' /\ GraphBuilt'
  BY <1>1, <1>2, <1>3 DEF IInv, SpillListUnused, Phases, GraphBuilt
<1> QED BY <1>4, <1>5, <1>6 DEF IInv

\* A popped register is coloured.
LEMMA ColorKeepsIInv == IInv /\ Color => IInv'
<1> SUFFICES ASSUME IInv, Color PROVE IInv'
  OBVIOUS
<1> DEFINE n == Head(selectStack)
<1>1. /\ body' = body /\ round' = round /\ late' = late /\ pc = "color" /\ pc' = pc
      /\ UNCHANGED <<liveOut, adjList, degrees, simplifyWorkList, freezeWorkList,
                     spillWorkList, spilledNodes>>
      /\ selectStack # <<>> /\ selectStack' = Tail(selectStack)
      /\ coloredNodes' = coloredNodes \cup {n}
  BY DEF Color, input, graph, lists
<1>2. PICK c \in okColors(n) : colors' = Put(colors, n, c)
  BY DEF Color
<1>3. InRound /\ InRound' /\ Involved(body)' = Involved(body)
  BY <1>1 DEF InRound
<1>4. /\ selectStack \in Seq(Involved(body)) /\ IsInjective(selectStack)
      /\ colors \in [coloredNodes -> 0 .. K-1]
  BY <1>3 DEF IInv, TypeOK, Parts
<1>5. /\ n \in Involved(body) /\ selectStack' \in Seq(Involved(body))
      /\ Range(selectStack) = {n} \cup Range(selectStack)' /\ n \notin Range(selectStack)'
      /\ IsInjective(selectStack)'
  BY <1>1, <1>4, PopSeq
<1>6. c \in 0 .. K-1
  BY <1>2 DEF okColors
<1>7. colors' \in [coloredNodes' -> 0 .. K-1]
  <2> HIDE DEF n
  <2> QED BY <1>1, <1>2, <1>4, <1>6 DEF Put
<1> HIDE DEF n
<1>8. TypeOK'
  BY <1>1, <1>3, <1>5, <1>7 DEF IInv, TypeOK
<1>9. Parts'
  BY <1>1, <1>3, <1>5 DEF IInv, Parts
<1>10. SpillListUnused' /\ Phases' /\ GraphBuilt'
  BY <1>1, <1>3 DEF IInv, SpillListUnused, Phases, GraphBuilt
<1> QED BY <1>8, <1>9, <1>10 DEF IInv

\* A popped register is spilled.
LEMMA SpillKeepsIInv == IInv /\ Spill => IInv'
<1> SUFFICES ASSUME IInv, Spill PROVE IInv'
  OBVIOUS
<1> DEFINE n == Head(selectStack)
<1>1. /\ body' = body /\ round' = round /\ late' = late /\ pc = "color" /\ pc' = pc
      /\ UNCHANGED <<liveOut, adjList, degrees, simplifyWorkList, freezeWorkList,
                     spillWorkList, coloredNodes, colors>>
      /\ selectStack # <<>> /\ selectStack' = Tail(selectStack)
      /\ spilledNodes' = Append(spilledNodes, n)
  BY DEF Spill, input, graph, lists
<1>2. InRound /\ InRound' /\ Involved(body)' = Involved(body)
  BY <1>1 DEF InRound
<1>3. /\ selectStack \in Seq(Involved(body)) /\ IsInjective(selectStack)
      /\ spilledNodes \in Seq(Involved(body))
  BY <1>2 DEF IInv, TypeOK, Parts
<1>4. /\ n \in Involved(body) /\ selectStack' \in Seq(Involved(body))
      /\ Range(selectStack) = {n} \cup Range(selectStack)' /\ n \notin Range(selectStack)'
      /\ IsInjective(selectStack)'
  BY <1>1, <1>3, PopSeq
<1>5. spilledNodes' \in Seq(Involved(body)) /\ Range(spilledNodes)' = Range(spilledNodes) \cup {n}
  BY <1>1, <1>3, <1>4, AppendSeq
<1> HIDE DEF n
<1>6. TypeOK'
  BY <1>1, <1>2, <1>4, <1>5 DEF IInv, TypeOK
<1>7. Parts'
  BY <1>1, <1>2, <1>4, <1>5 DEF IInv, Parts
<1>8. SpillListUnused' /\ Phases' /\ GraphBuilt'
  BY <1>1, <1>2 DEF IInv, SpillListUnused, Phases, GraphBuilt
<1> QED BY <1>6, <1>7, <1>8 DEF IInv

\* The steps that leave the round's lists alone, or throw them away.
LEMMA OtherStepsKeepIInv ==
  ASSUME IInv,
         \/ Analyse \/ BuildTimeout \/ (\E n \in simplifyWorkList : SimplifyTimeout(n))
         \/ StartColoring \/ Respill \/ Finish \/ ColoringTimeout \/ ClockExpires
         \/ UNCHANGED vars
  PROVE  IInv'
<1>1. CASE Analyse
  <2>1. pc' = "build" /\ round' = round + 1 /\ round < MaxRounds /\ late' = late
    BY <1>1 DEF Analyse
  <2>2. ~InRound'
    BY <2>1 DEF InRound
  <2>3. round' \in 0 .. MaxRounds
    BY <2>1, MaxRoundsAssumption DEF IInv, TypeOK
  <2> QED BY <2>1, <2>2, <2>3 DEF IInv, TypeOK, Parts, SpillListUnused, Phases, GraphBuilt
<1>2. CASE BuildTimeout \/ (\E n \in simplifyWorkList : SimplifyTimeout(n)) \/ ColoringTimeout
  <2>1. ChaitinError
    BY <1>2 DEF BuildTimeout, SimplifyTimeout, ColoringTimeout
  <2>2. pc' = "failed" /\ late' = late /\ round' = round
    BY <2>1 DEF ChaitinError, input
  <2>3. ~InRound'
    BY <2>2 DEF InRound
  <2> QED BY <2>2, <2>3 DEF IInv, TypeOK, Parts, SpillListUnused, Phases, GraphBuilt
<1>3. CASE Respill
  <2>1. pc' = "analyse" /\ late' = late /\ round' = round
    BY <1>3 DEF Respill
  <2>2. ~InRound'
    BY <2>1 DEF InRound
  <2> QED BY <2>1, <2>2 DEF IInv, TypeOK, Parts, SpillListUnused, Phases, GraphBuilt
<1>4. CASE StartColoring \/ Finish \/ ClockExpires \/ UNCHANGED vars
  <2>1. /\ body' = body /\ round' = round /\ late' \in BOOLEAN
        /\ UNCHANGED <<liveOut, adjList, degrees, simplifyWorkList, freezeWorkList,
                       spillWorkList, selectStack, coloredNodes, spilledNodes, colors>>
    BY <1>4 DEF StartColoring, Finish, ClockExpires, vars, input, graph, lists, result,
                IInv, TypeOK
  <2>2. Involved(body)' = Involved(body) /\ Range(selectStack)' = Range(selectStack)
        /\ Range(spilledNodes)' = Range(spilledNodes)
    BY <2>1
  <2>3. /\ InRound' <=> InRound
        /\ pc' \in {"analyse", "build", "loop", "color", "done", "failed"}
    BY <1>4 DEF StartColoring, Finish, ClockExpires, vars, InRound, IInv, TypeOK
  <2>4. Phases'
    BY <1>4, <2>1 DEF StartColoring, Finish, ClockExpires, vars, IInv, Phases
  <2>5. TypeOK'
    BY <2>1, <2>2, <2>3 DEF IInv, TypeOK
  <2>6. Parts' /\ SpillListUnused' /\ GraphBuilt'
    BY <2>1, <2>2, <2>3 DEF IInv, Parts, SpillListUnused, GraphBuilt
  <2> QED BY <2>4, <2>5, <2>6 DEF IInv
<1> QED BY <1>1, <1>2, <1>3, <1>4

\* Every step of the allocator keeps the inductive invariant.
LEMMA StepKeepsIInv == IInv /\ [Next]_vars => IInv'
  BY BuildKeepsIInv, SimplifyKeepsIInv, FreezeKeepsIInv, ColorKeepsIInv, SpillKeepsIInv,
     OtherStepsKeepIInv DEF Next, Step

\* IInv is an inductive invariant of the allocator.
THEOREM IInvCorrect == SafetySpec => []IInv
<1>1. Init => IInv
  <2> SUFFICES ASSUME Init PROVE IInv
    OBVIOUS
  <2>1. pc = "analyse" /\ late \in BOOLEAN /\ round = 0
    BY DEF Init
  <2>2. ~InRound
    BY <2>1 DEF InRound
  <2>3. TypeOK
    BY <2>1, <2>2, MaxRoundsAssumption DEF TypeOK
  <2> QED BY <2>1, <2>2, <2>3 DEF IInv, Parts, SpillListUnused, Phases, GraphBuilt
<1> QED BY <1>1, StepKeepsIInv, PTL DEF SafetySpec

\* The worklists, the stack and the results keep their types.
THEOREM TypeCorrect == SafetySpec => []TypeOK
<1>1. IInv => TypeOK
  BY DEF IInv
<1> QED BY <1>1, IInvCorrect, PTL

\* No register is ever lost or held twice by the worklists, the select stack,
\* the coloured and the spilled nodes.
THEOREM PartitionCorrect == SafetySpec => []Partition
<1>1. IInv => Partition
  <2> SUFFICES ASSUME IInv, InRound
               PROVE  /\ UNION {places[p] : p \in 1 .. 6} = Involved(body)
                      /\ \A p, q \in 1 .. 6 : p # q => places[p] \cap places[q] = {}
    BY DEF Partition
  <2>1. /\ places[1] = simplifyWorkList /\ places[2] = freezeWorkList
        /\ places[3] = {} /\ places[4] = Range(selectStack)
        /\ places[5] = coloredNodes /\ places[6] = Range(spilledNodes)
    BY DEF places, IInv, SpillListUnused
  <2>2. \A p \in 1 .. 6 : p = 1 \/ p = 2 \/ p = 3 \/ p = 4 \/ p = 5 \/ p = 6
    OBVIOUS
  <2> HIDE DEF places
  <2>3. UNION {places[p] : p \in 1 .. 6} =
          places[1] \cup places[2] \cup places[3] \cup places[4] \cup places[5] \cup places[6]
    BY <2>2
  <2>4. UNION {places[p] : p \in 1 .. 6} = Involved(body)
    BY <2>1, <2>3 DEF IInv, Parts
  <2>5. \A p, q \in 1 .. 6 : p # q => places[p] \cap places[q] = {}
    BY <2>1, <2>2 DEF IInv, Parts
  <2> QED BY <2>4, <2>5
<1> QED BY <1>1, IInvCorrect, PTL

\* selectSpill and its heuristic are never reached: nothing is ever put on
\* spillWorkList, because addEdge drops the degrees it computes.
THEOREM SpillListUnusedCorrect == SafetySpec => []SpillListUnused
<1>1. IInv => SpillListUnused
  BY DEF IInv
<1> QED BY <1>1, IInvCorrect, PTL

-----------------------------------------------------------------------------
(* The colouring.  A pop compares the new colour with the neighbours         *)
(* coloured so far; the symmetry of the graph carries this over to them.     *)

\* Giving a popped register its colour keeps the colouring proper.
LEMMA ColorKeepsProper == IInv /\ ProperColoring /\ Color => ProperColoring'
<1> SUFFICES ASSUME IInv, ProperColoring, Color PROVE ProperColoring'
  OBVIOUS
<1> DEFINE n == Head(selectStack)
<1>1. /\ body' = body /\ adjList' = adjList /\ pc = "color" /\ pc' = pc
      /\ selectStack # <<>> /\ coloredNodes' = coloredNodes \cup {n}
  BY DEF Color, input, graph
<1>2. PICK c \in okColors(n) : colors' = Put(colors, n, c)
  BY DEF Color
<1>3. InRound
  BY <1>1 DEF InRound
<1>4. /\ selectStack \in Seq(Involved(body)) /\ IsInjective(selectStack)
      /\ colors \in [coloredNodes -> 0 .. K-1] /\ coloredNodes \subseteq Involved(body)
      /\ adjList = Interference(body, liveOut) /\ DOMAIN adjList = Involved(body)
      /\ Range(selectStack) \cap coloredNodes = {}
  BY <1>3 DEF IInv, TypeOK, Parts, GraphBuilt
<1>5. n \in Involved(body) /\ n \in Range(selectStack)
  BY <1>1, <1>4, PopSeq
<1>6. n \notin coloredNodes
  BY <1>4, <1>5
<1> HIDE DEF n
<1>7. /\ colors'[n] = c
      /\ \A m \in coloredNodes : colors'[m] = colors[m] /\ m # n
  BY <1>2, <1>4, <1>6 DEF Put
<1>8. \A w \in adjList[n] : w \in coloredNodes \/ Isx86(w) => c # colorOf(w)
  BY <1>2 DEF okColors
<1>9. \A m \in Involved(body) : ~Isx86(m)
  BY InvolvedAbstract
<1> SUFFICES ASSUME NEW m \in coloredNodes', NEW w \in adjList[m], w \in coloredNodes' \/ Isx86(w)
             PROVE  colors'[m] # colorOf(w)'
  BY <1>1 DEF ProperColoring
<1>10. w # m /\ (w \in Involved(body) => m \in adjList[w])
  BY <1>1, <1>4, <1>5, InterferenceSymmetric
<1>11. CASE Isx86(w)
  <2>1. colorOf(w)' = colorOf(w) /\ w # n
    BY <1>5, <1>9, <1>11 DEF colorOf
  <2> QED BY <1>1, <1>3, <1>7, <1>8, <1>11, <2>1 DEF ProperColoring
<1>12. CASE ~Isx86(w) /\ w # n
  <2>1. w \in coloredNodes /\ colorOf(w)' = colorOf(w)
    BY <1>1, <1>7, <1>12 DEF colorOf
  <2> QED BY <1>1, <1>3, <1>7, <1>8, <2>1 DEF ProperColoring
<1>13. CASE w = n
  <2>1. m \in coloredNodes /\ m \in adjList[n]
    BY <1>1, <1>5, <1>10, <1>13
  <2>2. c # colorOf(m) /\ colorOf(m) = colors[m]
    BY <1>4, <1>8, <1>9, <2>1 DEF colorOf
  <2>3. colorOf(w)' = c
    BY <1>5, <1>7, <1>9, <1>13 DEF colorOf
  <2> QED BY <1>7, <2>1, <2>2, <2>3
<1> QED BY <1>11, <1>12, <1>13

\* Interfering registers never have the same colour.
THEOREM ProperColoringCorrect == SafetySpec => []ProperColoring
<1>1. Init => ProperColoring
  BY DEF Init, ProperColoring, InRound
<1>2. IInv /\ ProperColoring /\ [Next]_vars => ProperColoring'
  <2> SUFFICES ASSUME IInv, ProperColoring, [Next]_vars PROVE ProperColoring'
    OBVIOUS
  <2>1. CASE Color
    BY <2>1, ColorKeepsProper
  <2>2. CASE Build \/ Analyse \/ Respill \/ ChaitinError
    <3>1. ~InRound' \/ coloredNodes' = {}
      BY <2>2 DEF Build, Analyse, Respill, ChaitinError, InRound
    <3> QED BY <3>1 DEF ProperColoring
  <2>3. CASE UNCHANGED <<adjList, coloredNodes, colors>> /\ (InRound' => InRound)
    <3>1. \A w : colorOf(w)' = colorOf(w)
      BY <2>3 DEF colorOf
    <3> QED BY <2>3, <3>1 DEF ProperColoring
  <2>4. ASSUME NEW n \in simplifyWorkList, Simplify(n) \/ SimplifyTimeout(n) PROVE ProperColoring'
    BY <2>2, <2>3, <2>4 DEF Simplify, SimplifyTimeout, InRound, result
  <2>5. ASSUME NEW u \in freezeWorkList, Freeze(u) PROVE ProperColoring'
    BY <2>3, <2>5 DEF Freeze, InRound, result, graph
  <2>6. CASE StartColoring \/ Spill \/ Finish \/ ClockExpires \/ UNCHANGED vars
    BY <2>3, <2>6 DEF StartColoring, Spill, Finish, ClockExpires, vars, InRound, result, graph
  <2>7. CASE BuildTimeout \/ ColoringTimeout
    BY <2>2, <2>7 DEF BuildTimeout, ColoringTimeout
  <2> QED BY <2>1, <2>2, <2>4, <2>5, <2>6, <2>7 DEF Next, Step
<1> QED BY <1>1, <1>2, IInvCorrect, PTL DEF SafetySpec

-----------------------------------------------------------------------------
(* From colours to the code: replaceMap is keyed by name, so the colouring   *)
(* carries over when no two registers share one.                             *)

\* Looking a register up by its name gives the colour it was assigned.
LEMMA NamesColoredCorrect == SafetySpec => []NamesColored
<1>1. Init => NamesColored
  BY DEF Init, NamesColored, InRound
<1>2. IInv /\ NamesColored /\ [Next]_vars => NamesColored'
  <2> SUFFICES ASSUME IInv, NamesColored, [Next]_vars PROVE NamesColored'
    OBVIOUS
  <2>1. CASE Color
    <3> DEFINE n == Head(selectStack)
    <3>1. /\ body' = body /\ pc = "color" /\ selectStack # <<>>
          /\ coloredNodes' = coloredNodes \cup {n}
      BY <2>1 DEF Color, input
    <3>2. PICK c \in okColors(n) : /\ colors' = Put(colors, n, c)
                                   /\ replaceMap' = Put(replaceMap, n.name, c)
      BY <2>1 DEF Color
    <3>3. InRound
      BY <3>1 DEF InRound
    <3>4. /\ selectStack \in Seq(Involved(body)) /\ IsInjective(selectStack)
          /\ colors \in [coloredNodes -> 0 .. K-1] /\ coloredNodes \subseteq Involved(body)
          /\ Range(selectStack) \cap coloredNodes = {}
      BY <3>3 DEF IInv, TypeOK, Parts
    <3>5. n \in Involved(body) /\ n \notin coloredNodes
      BY <3>1, <3>4, PopSeq
    <3> HIDE DEF n
    <3> SUFFICES ASSUME UniqueNames, NEW m \in coloredNodes'
                 PROVE  m.name \in DOMAIN replaceMap' /\ replaceMap'[m.name] = colors'[m]
      BY <3>1 DEF NamesColored, UniqueNames
    <3>6. CASE m = n
      BY <3>2, <3>6 DEF Put
    <3>7. CASE m # n
      <4>1. m \in coloredNodes /\ m.name # n.name
        BY <3>1, <3>4, <3>5, <3>7 DEF UniqueNames, Same
      <4>2. m.name \in DOMAIN replaceMap /\ replaceMap[m.name] = colors[m]
        BY <3>3, <4>1 DEF NamesColored
      <4> QED BY <3>2, <3>4, <3>7, <4>1, <4>2 DEF Put
    <3> QED BY <3>6, <3>7
  <2>2. CASE Build \/ Analyse \/ Respill \/ ChaitinError
    <3>1. ~InRound' \/ coloredNodes' = {}
      BY <2>2 DEF Build, Analyse, Respill, ChaitinError, InRound
    <3> QED BY <3>1 DEF NamesColored
  <2>3. CASE UNCHANGED <<body, coloredNodes, colors, replaceMap>> /\ (InRound' => InRound)
    BY <2>3 DEF NamesColored, UniqueNames
  <2>4. ASSUME NEW n \in simplifyWorkList, Simplify(n) \/ SimplifyTimeout(n) PROVE NamesColored'
    BY <2>2, <2>3, <2>4 DEF Simplify, SimplifyTimeout, InRound, result, input
  <2>5. ASSUME NEW u \in freezeWorkList, Freeze(u) PROVE NamesColored'
    BY <2>3, <2>5 DEF Freeze, InRound, result, input
  <2>6. CASE StartColoring \/ Spill \/ Finish \/ ClockExpires \/ UNCHANGED vars
    BY <2>3, <2>6 DEF StartColoring, Spill, Finish, ClockExpires, vars, InRound, result, input
  <2>7. CASE BuildTimeout \/ ColoringTimeout
    BY <2>2, <2>7 DEF BuildTimeout, ColoringTimeout
  <2> QED BY <2>1, <2>2, <2>4, <2>5, <2>6, <2>7 DEF Next, Step
<1> QED BY <1>1, <1>2, IInvCorrect, PTL DEF SafetySpec

\* Build puts an edge between what a node defines and what is live after it.
LEMMA LiveOutInterferes ==
  ASSUME NEW b, NEW out, NEW i \in Nodes(b), NEW d \in b[i].def, NEW r,
         <<i, r>> \in out, ~Same(d, r), ~(IsMove(b[i]) /\ Minus({r}, b[i].use) = {})
  PROVE  /\ d \in Involved(b) => r \in Interference(b, out)[d]
         /\ r \in Involved(b) => d \in Interference(b, out)[r]
<1> DEFINE p == <<i, r>>
<1>1. p \in LiveAcross(b, out)
  BY DEF LiveAcross
<1>2. d \in Minus(b[p[1]].def, {p[2]})
  BY DEF Minus, Same
<1>3. <<r, d>> \in adjSet(b, out)
  <2> DEFINE From(q) == {<<q[2], x>> : x \in Minus(b[q[1]].def, {q[2]})}
  <2>1. p[1] = i /\ p[2] = r
    OBVIOUS
  <2>2. <<r, d>> \in From(p)
    BY <1>2, <2>1
  <2> HIDE DEF p, From
  <2>3. \E q \in LiveAcross(b, out) : <<r, d>> \in From(q)
    BY <1>1, <2>2
  <2> QED BY <2>3 DEF adjSet, From
<1>4. <<r, d>>[1] = r /\ <<r, d>>[2] = d
  OBVIOUS
<1> QED BY <1>3, <1>4 DEF Interference

\* In the finished code no definition overwrites a register that is live
\* across it, provided no two registers of the body share a name (which the
\* 8-bit registers of SETcc break).
THEOREM NoClobberCorrect == SafetySpec => [](UniqueNames => NoClobber)
<1>1. IInv /\ ProperColoring /\ NamesColored => (UniqueNames => NoClobber)
  <2> SUFFICES ASSUME IInv, ProperColoring, NamesColored, UniqueNames, pc = "done",
                      NEW i \in Nodes(body), NEW d \in body[i].def,
                      NEW r \in Involved(body) \cup x86s(0 .. K-1),
                      <<i, r>> \in liveOut, ~Same(d, r),
                      ~(IsMove(body[i]) /\ \E u \in body[i].use : Same(r, u))
               PROVE  Replace(d) # Replace(r)
    BY DEF NoClobber
  <2>1. InRound /\ adjList = Interference(body, liveOut) /\ coloredNodes = Involved(body)
    <3>1. InRound /\ simplifyWorkList = {} /\ freezeWorkList = {}
          /\ Range(selectStack) = {} /\ Range(spilledNodes) = {}
      BY RangeEmpty DEF InRound, IInv, Phases
    <3> QED BY <3>1 DEF IInv, Parts, GraphBuilt
  <2>2. ~Isx86(d) => d \in Involved(body)
    BY DEF Involved, InvolvedIn, Nodes
  <2>3. ~(IsMove(body[i]) /\ Minus({r}, body[i].use) = {})
    BY DEF Minus
  <2>4. /\ d \in Involved(body) => r \in adjList[d]
        /\ r \in Involved(body) => d \in adjList[r]
    BY <2>1, <2>3, LiveOutInterferes
  <2>5. Isx86(r) \/ r \in Involved(body)
    BY DEF x86s, x86, Isx86
  <2>6. \A n \in Involved(body) : /\ ~Isx86(n) /\ colorOf(n) = colors[n]
                                  /\ Replace(n).name = <<"x86", colors[n]>>
    BY <2>1, InvolvedAbstract DEF NamesColored, Replace, colorOf
  <2>7. CASE Isx86(d) /\ Isx86(r)
    BY <2>7 DEF Replace, Same
  <2>8. CASE ~Isx86(d)
    <3>1. colors[d] # colorOf(r)
      BY <2>1, <2>2, <2>4, <2>5, <2>8 DEF ProperColoring
    <3>2. Replace(d).name = <<"x86", colors[d]>>
      BY <2>2, <2>6, <2>8
    <3>3. Replace(r).name[2] = colorOf(r)
      BY <2>5, <2>6 DEF Replace, colorOf
    <3> QED BY <3>1, <3>2, <3>3
  <2>9. CASE Isx86(d) /\ ~Isx86(r)
    <3>1. colors[r] # colorOf(d)
      BY <2>1, <2>4, <2>5, <2>9 DEF ProperColoring
    <3>2. Replace(r).name = <<"x86", colors[r]>>
      BY <2>5, <2>6, <2>9
    <3>3. Replace(d).name[2] = colorOf(d)
      BY <2>9 DEF Replace, colorOf
    <3> QED BY <3>1, <3>2, <3>3
  <2> QED BY <2>7, <2>8, <2>9
<1> QED BY <1>1, IInvCorrect, ProperColoringCorrect, NamesColoredCorrect, PTL
=============================================================================
