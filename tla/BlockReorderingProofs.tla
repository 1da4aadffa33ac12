------------------------ MODULE BlockReorderingProofs ------------------------
(***************************************************************************)
(* Block reordering loses and doubles nothing, for every list of           *)
(* statements and every order of its blocks: if every move, return, guard  *)
(* and label stands at one place of the list that is cut into blocks, it   *)
(* does so in the list that the order gives.                               *)
(***************************************************************************)
EXTENDS BlockReordering, RecursionLemmas

\* Elements of a set are elements of a larger one.
LEMMA SeqWithin ==
  ASSUME NEW A, NEW B, A \subseteq B, NEW s \in Seq(A)
  PROVE  s \in Seq(B)
OBVIOUS

-----------------------------------------------------------------------------
(* Lists in which nothing occurs twice *)

StatementKeys == [s \in LIRStatement |-> Occurrence(s)]

\* The moves, returns and guards of a sequence; K gives the keys.
Said(s, K) == {x \in KeysIn(s, K) : x[1] # "label"}

\* The label that freshLabel makes of a number is not in use yet.
NoFresh(keys) == \A k : <<"label", freshLabel(k)>> \notin keys

\* What maximalBasicBlocks is given.
ListOk(stmts) ==
  /\ stmts \in Seq(LIRStatement)
  /\ Apart(stmts, StatementKeys)
  /\ NoFresh(KeysIn(stmts, StatementKeys))

Blocks == {b \in Seq(LIRStatement) : Apart(b, StatementKeys) /\ NoFresh(KeysIn(b, StatementKeys))}

BlockKeys == [b \in Blocks |-> KeysIn(b, StatementKeys)]

\* The nodes buildCFG makes.
Ordinary == {s \in LIRStatement : s.op \in {"stmt", "ret"}}

BlockNode ==
  [label : Label, statements : {s \in Seq(Ordinary) : Apart(s, StatementKeys)},
   end : {"none", "uncond", "cond"}, guard : [on : Nat, neg : BOOLEAN], lab : Label, els : Label]

NodeKeys ==
  [n \in BlockNode |->
     {<<"label", n.label>>} \cup KeysIn(n.statements, StatementKeys)
       \cup (IF n.end = "cond" THEN {<<"guard", n.guard.on>>} ELSE {})]

\* Nodes with nothing in two of them; a label of the form freshLabel makes
\* has a number up to m.
NodesOk(ns, m) ==
  /\ ns \in Seq(BlockNode) /\ m \in Nat
  /\ Apart(ns, NodeKeys)
  /\ \A k, j : k \in DOMAIN ns /\ ns[k].label = freshLabel(j) => j \in Nat /\ j <= m

\* What a statement says of itself.
LEMMA KeysOf ==
  /\ \A s \in LIRStatement :
       /\ StatementKeys[s] = Occurrence(s)
       /\ s.op \in {"stmt", "ret"} => StatementKeys[s] = {<<s.op, s.id>>}
       /\ s.op = "label" => StatementKeys[s] = {<<"label", s.lab>>}
       /\ s.op \in {"tjump", "cjump"} => StatementKeys[s] = {<<"guard", s.guard.on>>}
       /\ s.op = "jump" => StatementKeys[s] = {}
  /\ \A i \in Nat : /\ LIRMove(i) \in Ordinary /\ StatementKeys[LIRMove(i)] = {<<"stmt", i>>}
                    /\ LIRReturn(i) \in Ordinary /\ StatementKeys[LIRReturn(i)] = {<<"ret", i>>}
  /\ \A l \in Label :
       /\ LIRLabel(l) \in LIRStatement /\ StatementKeys[LIRLabel(l)] = {<<"label", l>>}
       /\ LIRLabel(l).op = "label"
       /\ LIRJump(l) \in LIRStatement /\ StatementKeys[LIRJump(l)] = {} /\ LIRJump(l).op = "jump"
  /\ \A g \in [on : Nat, neg : BOOLEAN], l \in Label :
       /\ LIRTrueJump(g, l) \in LIRStatement /\ StatementKeys[LIRTrueJump(g, l)] = {<<"guard", g.on>>}
       /\ LIRTrueJump(g, l).op = "tjump"
<1>1. NoLabel \in Label /\ NoGuard \in [on : Nat, neg : BOOLEAN]
  BY DEF NoLabel, Label, NoGuard
<1>2. \A s \in LIRStatement :
       /\ StatementKeys[s] = Occurrence(s)
       /\ s.op \in {"stmt", "ret"} => StatementKeys[s] = {<<s.op, s.id>>}
       /\ s.op = "label" => StatementKeys[s] = {<<"label", s.lab>>}
       /\ s.op \in {"tjump", "cjump"} => StatementKeys[s] = {<<"guard", s.guard.on>>}
       /\ s.op = "jump" => StatementKeys[s] = {}
  <2> SUFFICES ASSUME NEW s \in LIRStatement
               PROVE  /\ StatementKeys[s] = Occurrence(s)
                      /\ s.op \in {"stmt", "ret"} => Occurrence(s) = {<<s.op, s.id>>}
                      /\ s.op = "label" => Occurrence(s) = {<<"label", s.lab>>}
                      /\ s.op \in {"tjump", "cjump"} => Occurrence(s) = {<<"guard", s.guard.on>>}
                      /\ s.op = "jump" => Occurrence(s) = {}
    OBVIOUS
  <2>1. StatementKeys[s] = Occurrence(s)
    BY DEF StatementKeys
  <2>2. s.op \in {"tjump", "cjump"} => s.id = s.guard.on
    BY DEF LIRStatement
  <2> QED BY <2>1, <2>2 DEF Occurrence
<1> HIDE DEF StatementKeys
<1>3. ASSUME NEW i \in Nat
      PROVE  /\ LIRMove(i) \in Ordinary /\ LIRMove(i).op = "stmt" /\ LIRMove(i).id = i
             /\ LIRReturn(i) \in Ordinary /\ LIRReturn(i).op = "ret" /\ LIRReturn(i).id = i
  BY <1>1 DEF LIRMove, LIRReturn, LIRStmt, LIRStatement, Ordinary
<1>4. ASSUME NEW l \in Label
      PROVE  /\ LIRLabel(l) \in LIRStatement /\ LIRLabel(l).op = "label" /\ LIRLabel(l).lab = l
             /\ LIRJump(l) \in LIRStatement /\ LIRJump(l).op = "jump"
  BY <1>1 DEF LIRLabel, LIRJump, LIRStmt, LIRStatement
<1>5. ASSUME NEW g \in [on : Nat, neg : BOOLEAN], NEW l \in Label
      PROVE  /\ LIRTrueJump(g, l) \in LIRStatement /\ LIRTrueJump(g, l).op = "tjump"
             /\ LIRTrueJump(g, l).guard.on = g.on
  BY <1>1 DEF LIRTrueJump, LIRStmt, LIRStatement
<1>6. Ordinary \subseteq LIRStatement
  BY DEF Ordinary
<1> QED BY <1>2, <1>3, <1>4, <1>5, <1>6

-----------------------------------------------------------------------------
(* Block reordering *)

\* A block ends before the next one starts.
LEMMA BlockEndIs ==
  ASSUME NEW stmts \in Seq(LIRStatement), NEW i \in DOMAIN stmts
  PROVE  /\ BlockEnd(stmts, i) \in i .. Len(stmts)
         /\ \A k \in i+1 .. BlockEnd(stmts, i) : ~BlockStart(stmts, k)
<1> DEFINE n == Len(stmts)
           S == {j \in i .. n : j = n \/ BlockStart(stmts, j + 1)}
           Ends(j) == /\ j = n \/ BlockStart(stmts, j + 1)
                      /\ \A k \in i+1 .. j : ~BlockStart(stmts, k)
<1>1. n \in Nat /\ i \in Nat /\ i <= n /\ i >= 1
  OBVIOUS
<1> HIDE DEF n
<1>2. S \in SUBSET Nat /\ n \in S
  BY <1>1
<1>3. PICK j \in S : \A y \in S : j <= y
  <2> HIDE DEF S
  <2> QED BY <1>2, LeastNumber
<1>4. j \in i .. n /\ j \in Nat /\ (j = n \/ BlockStart(stmts, j + 1))
  BY <1>1, <1>3
<1>5. ASSUME NEW k \in i+1 .. j PROVE ~BlockStart(stmts, k)
  <2>1. k - 1 \in i .. n /\ k - 1 < j /\ (k - 1) + 1 = k /\ k - 1 \in Nat
    BY <1>1, <1>4
  <2>2. k - 1 \notin S
    <3> HIDE DEF S
    <3> QED BY <1>3, <1>4, <2>1
  <2> QED BY <2>1, <2>2
<1>6. \E x \in i .. n : Ends(x)
  BY <1>4, <1>5
<1>7. BlockEnd(stmts, i) = CHOOSE x \in i .. n : Ends(x)
  BY DEF BlockEnd, n
<1> HIDE DEF Ends
<1>8. BlockEnd(stmts, i) \in i .. n /\ Ends(BlockEnd(stmts, i))
  BY <1>6, <1>7
<1> QED BY <1>8 DEF Ends, n

\* The blocks share out what occurs in the list.
LEMMA BlocksOk ==
  ASSUME NEW stmts, ListOk(stmts)
  PROVE  /\ maximalBasicBlocks(stmts) \in Seq(Blocks)
         /\ Apart(maximalBasicBlocks(stmts), BlockKeys)
         /\ KeysIn(maximalBasicBlocks(stmts), BlockKeys) \subseteq KeysIn(stmts, StatementKeys)
<1> DEFINE K == StatementKeys
           part(i) == SubSeq(stmts, i, BlockEnd(stmts, i))
           pieces == [i \in DOMAIN stmts |-> IF BlockStart(stmts, i) THEN <<part(i)>> ELSE <<>>]
           first == IF stmts = <<>> \/ stmts[1].op = "label" THEN <<<<>>>> ELSE <<>>
<1>1. /\ stmts \in Seq(LIRStatement) /\ Apart(stmts, K) /\ NoFresh(KeysIn(stmts, K))
      /\ DOMAIN stmts = 1 .. Len(stmts) /\ Len(stmts) \in Nat
  BY DEF ListOk
<1> HIDE DEF K
<1>2. ASSUME NEW i \in DOMAIN stmts
      PROVE  /\ part(i) \in Blocks
             /\ \A x \in KeysIn(part(i), K) : \E m \in i .. BlockEnd(stmts, i) : m \in DOMAIN stmts /\ x \in K[stmts[m]]
  <2> DEFINE e == BlockEnd(stmts, i)
             b == SubSeq(stmts, i, e)
  <2>1. e \in i .. Len(stmts) /\ i \in 1 .. Len(stmts)
    BY <1>1, BlockEndIs
  <2>0. b = SubSeq(stmts, i, e)
    OBVIOUS
  <2> HIDE DEF e, b
  <2>2. b \in Seq(LIRStatement) /\ Apart(b, K) /\ PartOf(b, stmts, i, e)
    <3>1. stmts \in Seq(LIRStatement) /\ Apart(stmts, K)
      BY <1>1
    <3> QED BY <2>0, <2>1, <3>1, SubSeqApart
  <2>3. \A x \in KeysIn(b, K) : \E m \in i .. e : m \in DOMAIN stmts /\ x \in K[stmts[m]]
    BY <2>2 DEF KeysIn, PartOf
  <2>4. KeysIn(b, K) \subseteq KeysIn(stmts, K)
    BY <2>3 DEF KeysIn
  <2>5. b \in Blocks
    BY <1>1, <2>2, <2>4 DEF Blocks, NoFresh, K
  <2>6. b = part(i) /\ e = BlockEnd(stmts, i)
    BY DEF b, e
  <2> HIDE DEF part
  <2> QED BY <2>3, <2>5, <2>6
<1>3. <<>> \in Blocks /\ KeysIn(<<>>, K) = {}
  BY DEF Blocks, Apart, KeysIn, NoFresh
<1>4. ASSUME NEW b \in Blocks PROVE BlockKeys[b] = KeysIn(b, K)
  BY DEF BlockKeys, K
<1> HIDE DEF part
<1>5. \A i \in DOMAIN stmts : BlockStart(stmts, i) \in BOOLEAN
  BY DEF BlockStart, IsEndBlock
<1>6. ASSUME NEW i \in DOMAIN stmts
      PROVE  /\ pieces[i] \in Seq(Blocks) /\ Apart(pieces[i], BlockKeys)
             /\ \A x \in KeysIn(pieces[i], BlockKeys) :
                  /\ BlockStart(stmts, i)
                  /\ \E m \in i .. BlockEnd(stmts, i) : m \in DOMAIN stmts /\ x \in K[stmts[m]]
  <2>1. CASE BlockStart(stmts, i)
    <3>1. pieces[i] = <<part(i)>>
      BY <2>1
    <3>2. part(i) \in Blocks
      BY <1>2
    <3> HIDE DEF pieces
    <3>3. /\ <<part(i)>> \in Seq(Blocks) /\ Apart(<<part(i)>>, BlockKeys)
          /\ KeysIn(<<part(i)>>, BlockKeys) = BlockKeys[part(i)]
      BY <3>2, ShortApart
    <3> QED BY <1>2, <1>4, <2>1, <3>1, <3>2, <3>3
  <2>2. CASE ~BlockStart(stmts, i)
    <3>1. pieces[i] = <<>>
      BY <2>2
    <3> HIDE DEF pieces
    <3> QED BY <1>3, <3>1, ShortApart
  <2> QED BY <2>1, <2>2
<1>7. pieces \in Seq(Seq(Blocks)) /\ DOMAIN pieces = DOMAIN stmts
  <2>1. pieces \in [DOMAIN stmts -> Seq(Blocks)]
    BY <1>6
  <2> HIDE DEF pieces
  <2> QED BY <1>1, <2>1, SameLength
<1> HIDE DEF pieces
<1>8. ASSUME NEW i \in DOMAIN stmts, NEW j \in DOMAIN stmts, i < j
      PROVE  KeysIn(pieces[i], BlockKeys) \cap KeysIn(pieces[j], BlockKeys) = {}
  <2> SUFFICES ASSUME NEW x, x \in KeysIn(pieces[i], BlockKeys), x \in KeysIn(pieces[j], BlockKeys)
               PROVE  FALSE
    OBVIOUS
  <2>1. PICK m \in i .. BlockEnd(stmts, i) : m \in DOMAIN stmts /\ x \in K[stmts[m]]
    BY <1>6
  <2>2. BlockStart(stmts, j) /\ \E p \in j .. BlockEnd(stmts, j) : p \in DOMAIN stmts /\ x \in K[stmts[p]]
    BY <1>6
  <2>3. PICK p \in j .. BlockEnd(stmts, j) : p \in DOMAIN stmts /\ x \in K[stmts[p]]
    BY <2>2
  <2>4. m = p
    BY <1>1, <2>1, <2>3 DEF Apart
  <2>5. /\ BlockEnd(stmts, i) \in Nat /\ i \in Nat /\ j \in Nat /\ m \in Nat
        /\ \A k \in i+1 .. BlockEnd(stmts, i) : ~BlockStart(stmts, k)
    <3>1. BlockEnd(stmts, i) \in i .. Len(stmts) /\ \A k \in i+1 .. BlockEnd(stmts, i) : ~BlockStart(stmts, k)
      BY <1>1, BlockEndIs
    <3> QED BY <1>1, <2>1, <3>1
  <2>6. j \in i+1 .. BlockEnd(stmts, i)
    BY <1>8, <2>1, <2>3, <2>4, <2>5
  <2> QED BY <2>2, <2>5, <2>6
<1>9. \A i, j \in DOMAIN pieces : i # j => KeysIn(pieces[i], BlockKeys) \cap KeysIn(pieces[j], BlockKeys) = {}
  <2> SUFFICES ASSUME NEW i \in DOMAIN stmts, NEW j \in DOMAIN stmts, i # j
               PROVE  KeysIn(pieces[i], BlockKeys) \cap KeysIn(pieces[j], BlockKeys) = {}
    BY <1>7
  <2>1. i < j \/ j < i
    BY <1>1
  <2>2. j < i => KeysIn(pieces[j], BlockKeys) \cap KeysIn(pieces[i], BlockKeys) = {}
    BY <1>8
  <2> QED BY <1>8, <2>1, <2>2
<1>10. /\ FlattenSeq(pieces) \in Seq(Blocks) /\ Apart(FlattenSeq(pieces), BlockKeys)
       /\ KeysIn(FlattenSeq(pieces), BlockKeys) = UNION {KeysIn(pieces[i], BlockKeys) : i \in DOMAIN pieces}
  BY <1>6, <1>7, <1>9, FlattenApart
<1>15. UNION {KeysIn(pieces[i], BlockKeys) : i \in DOMAIN pieces} \subseteq KeysIn(stmts, K)
  <2> SUFFICES ASSUME NEW i \in DOMAIN stmts, NEW x \in KeysIn(pieces[i], BlockKeys)
               PROVE  x \in KeysIn(stmts, K)
    BY <1>7
  <2>1. \E m \in DOMAIN stmts : x \in K[stmts[m]]
    BY <1>6
  <2> QED BY <2>1 DEF KeysIn
<1>11. first \in Seq(Blocks) /\ Apart(first, BlockKeys) /\ KeysIn(first, BlockKeys) = {}
  <2>1. /\ <<<<>>>> \in Seq(Blocks) /\ Apart(<<<<>>>>, BlockKeys)
        /\ KeysIn(<<<<>>>>, BlockKeys) = BlockKeys[<<>>]
        /\ <<>> \in Seq(Blocks) /\ Apart(<<>>, BlockKeys) /\ KeysIn(<<>>, BlockKeys) = {}
    BY <1>3, ShortApart
  <2>2. BlockKeys[<<>>] = {}
    BY <1>3, <1>4
  <2> QED BY <2>1, <2>2
<1>12. maximalBasicBlocks(stmts) = first \o FlattenSeq(pieces)
  BY DEF maximalBasicBlocks, pieces, part
<1> HIDE DEF first
<1> DEFINE f == FlattenSeq(pieces)
<1>13. f \in Seq(Blocks) /\ Apart(f, BlockKeys) /\ KeysIn(f, BlockKeys) \subseteq KeysIn(stmts, K)
  BY <1>10, <1>15
<1> HIDE DEF f
<1>14. /\ first \o f \in Seq(Blocks) /\ Apart(first \o f, BlockKeys)
       /\ KeysIn(first \o f, BlockKeys) = KeysIn(first, BlockKeys) \cup KeysIn(f, BlockKeys)
  <2>1. KeysIn(first, BlockKeys) \cap KeysIn(f, BlockKeys) = {}
    BY <1>11
  <2>2. first \in Seq(Blocks) /\ f \in Seq(Blocks) /\ Apart(first, BlockKeys) /\ Apart(f, BlockKeys)
    BY <1>11, <1>13
  <2> QED BY <2>1, <2>2, ConcatApart
<1> QED BY <1>11, <1>12, <1>13, <1>14 DEF f, K

\* The moves, calls and returns of a block.
PlainPart(b) ==
  FlattenSeq([i \in DOMAIN b |-> IF b[i].op \in {"stmt", "ret"} THEN <<b[i]>> ELSE <<>>])

\* They say nothing twice and nothing that the block does not say.
LEMMA PlainPartOk ==
  ASSUME NEW b \in Blocks
  PROVE  /\ PlainPart(b) \in Seq(Ordinary) /\ Apart(PlainPart(b), StatementKeys)
         /\ KeysIn(PlainPart(b), StatementKeys) \subseteq KeysIn(b, StatementKeys)
<1> DEFINE K == StatementKeys
           pieces == [i \in DOMAIN b |-> IF b[i].op \in {"stmt", "ret"} THEN <<b[i]>> ELSE <<>>]
<1>1. b \in Seq(LIRStatement) /\ Apart(b, K) /\ \A i \in DOMAIN b : b[i] \in LIRStatement
  BY SeqElements DEF Blocks
<1> HIDE DEF K
<1>2. ASSUME NEW i \in DOMAIN b
      PROVE  /\ pieces[i] \in Seq(Ordinary) /\ Apart(pieces[i], K)
             /\ KeysIn(pieces[i], K) \subseteq K[b[i]]
  <2>1. CASE b[i].op \in {"stmt", "ret"}
    <3>1. pieces[i] = <<b[i]>> /\ b[i] \in Ordinary
      BY <1>1, <2>1 DEF Ordinary
    <3> HIDE DEF pieces
    <3> QED BY <3>1, ShortApart, ZenonT(60)
  <2>2. CASE b[i].op \notin {"stmt", "ret"}
    <3>1. pieces[i] = <<>>
      BY <2>2
    <3> HIDE DEF pieces
    <3> QED BY <3>1, ShortApart
  <2> QED BY <2>1, <2>2
<1>3. pieces \in Seq(Seq(Ordinary)) /\ DOMAIN pieces = DOMAIN b
  <2>1. pieces \in [DOMAIN b -> Seq(Ordinary)]
    BY <1>2
  <2> HIDE DEF pieces
  <2> QED BY <1>1, <2>1, SameLength
<1>4. PlainPart(b) = FlattenSeq(pieces)
  BY DEF PlainPart
<1> HIDE DEF pieces
<1>5. \A i, j \in DOMAIN pieces : i # j => KeysIn(pieces[i], K) \cap KeysIn(pieces[j], K) = {}
  BY <1>1, <1>2, <1>3 DEF Apart
<1>6. /\ FlattenSeq(pieces) \in Seq(Ordinary) /\ Apart(FlattenSeq(pieces), K)
      /\ KeysIn(FlattenSeq(pieces), K) = UNION {KeysIn(pieces[i], K) : i \in DOMAIN pieces}
  BY <1>2, <1>3, <1>5, FlattenApart
<1>7. UNION {KeysIn(pieces[i], K) : i \in DOMAIN pieces} \subseteq KeysIn(b, K)
  BY <1>2, <1>3 DEF KeysIn
<1> QED BY <1>4, <1>6, <1>7 DEF K

\* A node says what its block says, and its new label.
LEMMA BuildNode ==
  ASSUME NEW blocks \in Seq(Blocks), NEW k \in DOMAIN blocks
  PROVE  /\ buildCFG(blocks)[k] \in BlockNode
         /\ NodeKeys[buildCFG(blocks)[k]]
              \subseteq KeysIn(blocks[k], StatementKeys) \cup {<<"label", freshLabel(k)>>}
         /\ \A j : buildCFG(blocks)[k].label = freshLabel(j) => j = k
<1> DEFINE b == blocks[k]
           label == BlockLabel(blocks, k)
           onward == IF k < Len(blocks) THEN BlockLabel(blocks, k + 1) ELSE NoLabel
           end == IF b # <<>> /\ IsEndBlock(Last(b)) THEN Last(b) ELSE LIRJump(onward)
           stmts == PlainPart(b)
           n == CASE end.op = "cjump" -> Node(label, stmts, "cond", end.guard, end.lab, end.els)
                  [] end.op = "tjump" -> Node(label, stmts, "cond", end.guard, end.lab, onward)
                  [] end.op = "ret" \/ (end.op = "jump" /\ end.lab = NoLabel) ->
                       Node(label, stmts, "none", NoGuard, NoLabel, NoLabel)
                  [] OTHER -> Node(label, stmts, "uncond", NoGuard, end.lab, NoLabel)
<1>1. buildCFG(blocks)[k] = n
  BY DEF buildCFG, PlainPart
<1>2. /\ DOMAIN blocks = 1 .. Len(blocks) /\ Len(blocks) \in Nat /\ k \in Nat
      /\ \A j \in DOMAIN blocks : blocks[j] \in Blocks
  OBVIOUS
<1>3. ASSUME NEW j \in DOMAIN blocks, blocks[j] # <<>>
      PROVE  /\ 1 \in DOMAIN blocks[j] /\ Len(blocks[j]) \in DOMAIN blocks[j]
             /\ \A i \in DOMAIN blocks[j] : /\ blocks[j][i] \in LIRStatement
                                            /\ StatementKeys[blocks[j][i]] \subseteq KeysIn(blocks[j], StatementKeys)
  <2> DEFINE c == blocks[j]
  <2>1. c \in Seq(LIRStatement) /\ c # <<>>
    BY <1>2, <1>3 DEF Blocks
  <2> HIDE DEF c
  <2>2. 1 \in DOMAIN c /\ Len(c) \in DOMAIN c /\ \A i \in DOMAIN c : c[i] \in LIRStatement
    BY <2>1
  <2>3. \A i \in DOMAIN c : StatementKeys[c[i]] \subseteq KeysIn(c, StatementKeys)
    BY DEF KeysIn
  <2> QED BY <2>2, <2>3 DEF c
<1>4. NoLabel \in Label /\ NoGuard \in [on : Nat, neg : BOOLEAN] /\ \A j \in Nat : freshLabel(j) \in Label
  BY DEF NoLabel, Label, NoGuard, freshLabel
<1>5. \A s \in LIRStatement : s.lab \in Label /\ s.els \in Label /\ s.guard \in [on : Nat, neg : BOOLEAN]
  BY DEF LIRStatement
<1>6. ASSUME NEW j \in DOMAIN blocks
      PROVE  /\ BlockLabel(blocks, j) \in Label
             /\ <<"label", BlockLabel(blocks, j)>> \in KeysIn(blocks[j], StatementKeys) \cup {<<"label", freshLabel(j)>>}
  <2>1. CASE blocks[j] # <<>> /\ blocks[j][1].op = "label"
    <3>1. BlockLabel(blocks, j) = blocks[j][1].lab
      BY <2>1 DEF BlockLabel
    <3>2. blocks[j][1] \in LIRStatement /\ StatementKeys[blocks[j][1]] \subseteq KeysIn(blocks[j], StatementKeys)
      BY <1>3, <2>1
    <3>3. StatementKeys[blocks[j][1]] = {<<"label", blocks[j][1].lab>>}
      BY <2>1, <3>2, KeysOf
    <3> QED BY <1>5, <3>1, <3>2, <3>3
  <2>2. CASE ~(blocks[j] # <<>> /\ blocks[j][1].op = "label")
    <3>1. BlockLabel(blocks, j) = freshLabel(j)
      BY <2>2 DEF BlockLabel
    <3> QED BY <1>2, <1>4, <3>1
  <2> QED BY <2>1, <2>2
<1>7. onward \in Label
  <2>1. k < Len(blocks) => k + 1 \in DOMAIN blocks
    BY <1>2
  <2>2. k < Len(blocks) => BlockLabel(blocks, k + 1) \in Label
    BY <1>6, <2>1
  <2> QED BY <1>4, <2>2
<1> HIDE DEF onward
<1>8. /\ end \in LIRStatement
      /\ end.op \in {"cjump", "tjump"} => <<"guard", end.guard.on>> \in KeysIn(b, StatementKeys)
  <2>1. CASE b # <<>> /\ IsEndBlock(Last(b))
    <3>1. end = b[Len(b)]
      BY <2>1 DEF Last
    <3>2. end \in LIRStatement /\ StatementKeys[end] \subseteq KeysIn(b, StatementKeys)
      BY <1>3, <2>1, <3>1
    <3> HIDE DEF end
    <3> QED BY <3>2, KeysOf
  <2>2. CASE ~(b # <<>> /\ IsEndBlock(Last(b)))
    <3>1. end = LIRJump(onward)
      BY <2>2
    <3>2. end \in LIRStatement /\ end.op = "jump"
      BY <1>7, <3>1, KeysOf
    <3> HIDE DEF end
    <3> QED BY <3>2
  <2> QED BY <2>1, <2>2
<1> HIDE DEF end
<1>9. /\ stmts \in {s \in Seq(Ordinary) : Apart(s, StatementKeys)}
      /\ KeysIn(stmts, StatementKeys) \subseteq KeysIn(b, StatementKeys)
  BY <1>2, PlainPartOk
<1>10. label \in Label /\ <<"label", label>> \in KeysIn(b, StatementKeys) \cup {<<"label", freshLabel(k)>>}
  BY <1>6
<1> HIDE DEF label, stmts
<1>11. /\ n \in BlockNode /\ n.label = label /\ n.statements = stmts
       /\ n.end = "cond" => end.op \in {"cjump", "tjump"} /\ n.guard = end.guard
  <2>1. CASE end.op = "cjump"
    <3>1. n = Node(label, stmts, "cond", end.guard, end.lab, end.els)
      BY <2>1
    <3> HIDE DEF n
    <3> QED BY <1>5, <1>8, <1>9, <1>10, <2>1, <3>1 DEF Node, BlockNode
  <2>2. CASE end.op = "tjump"
    <3>1. n = Node(label, stmts, "cond", end.guard, end.lab, onward)
      BY <2>2
    <3> HIDE DEF n
    <3> QED BY <1>5, <1>7, <1>8, <1>9, <1>10, <2>2, <3>1 DEF Node, BlockNode
  <2>3. CASE end.op # "cjump" /\ end.op # "tjump" /\ (end.op = "ret" \/ (end.op = "jump" /\ end.lab = NoLabel))
    <3>1. n = Node(label, stmts, "none", NoGuard, NoLabel, NoLabel)
      BY <2>3
    <3> HIDE DEF n
    <3> QED BY <1>4, <1>9, <1>10, <3>1 DEF Node, BlockNode
  <2>4. CASE end.op # "cjump" /\ end.op # "tjump" /\ ~(end.op = "ret" \/ (end.op = "jump" /\ end.lab = NoLabel))
    <3>1. n = Node(label, stmts, "uncond", NoGuard, end.lab, NoLabel)
      BY <2>4
    <3> HIDE DEF n
    <3> QED BY <1>4, <1>5, <1>8, <1>9, <1>10, <3>1 DEF Node, BlockNode
  <2> QED BY <2>1, <2>2, <2>3, <2>4
<1> HIDE DEF n
<1>12. NodeKeys[n] \subseteq KeysIn(b, StatementKeys) \cup {<<"label", freshLabel(k)>>}
  BY <1>8, <1>9, <1>10, <1>11 DEF NodeKeys
<1>13. ASSUME NEW j, label = freshLabel(j) PROVE j = k
  <2>1. <<"label", label>> \notin KeysIn(b, StatementKeys)
    BY <1>2, <1>13 DEF Blocks, NoFresh
  <2> QED BY <1>10, <1>13, <2>1 DEF freshLabel
<1> QED BY <1>1, <1>11, <1>12, <1>13

\* buildCFG: what the blocks share out, their nodes share out.
LEMMA BuildNodesOk ==
  ASSUME NEW blocks \in Seq(Blocks), Apart(blocks, BlockKeys)
  PROVE  /\ NodesOk(buildCFG(blocks), Len(blocks))
         /\ Len(buildCFG(blocks)) = Len(blocks)
         /\ Said(buildCFG(blocks), NodeKeys) \subseteq Said(blocks, BlockKeys)
<1> DEFINE ns == buildCFG(blocks)
           L(k) == <<"label", freshLabel(k)>>
<1>1. /\ Len(blocks) \in Nat /\ DOMAIN blocks = 1 .. Len(blocks)
      /\ \A k \in DOMAIN blocks : k \in Nat /\ k <= Len(blocks) /\ blocks[k] \in Blocks
  OBVIOUS
<1>2. /\ ns = [k \in DOMAIN blocks |-> ns[k]]
      /\ \A k \in DOMAIN blocks : ns[k] \in BlockNode
  <2>1. ns = [k \in DOMAIN blocks |-> ns[k]]
    BY DEF buildCFG
  <2> HIDE DEF ns
  <2>2. \A k \in DOMAIN blocks : ns[k] \in BlockNode
    BY BuildNode DEF ns
  <2> QED BY <2>1, <2>2
<1>3. \A k \in DOMAIN blocks : /\ NodeKeys[ns[k]] \subseteq KeysIn(blocks[k], StatementKeys) \cup {L(k)}
                             /\ \A j : ns[k].label = freshLabel(j) => j = k
  BY BuildNode
<1> HIDE DEF ns
<1>4. ns \in [DOMAIN blocks -> BlockNode]
  BY <1>2
<1>5. ns \in Seq(BlockNode) /\ DOMAIN ns = DOMAIN blocks
  BY <1>4, SameLength
<1>6. Len(ns) = Len(blocks)
  BY <1>1, <1>5
<1>7. ASSUME NEW i \in DOMAIN blocks, NEW j \in DOMAIN blocks, i # j
      PROVE  NodeKeys[ns[i]] \cap NodeKeys[ns[j]] = {}
  <2>1. KeysIn(blocks[i], StatementKeys) \cap KeysIn(blocks[j], StatementKeys) = {}
    <3>1. /\ BlockKeys[blocks[i]] = KeysIn(blocks[i], StatementKeys)
          /\ BlockKeys[blocks[j]] = KeysIn(blocks[j], StatementKeys)
      BY <1>1 DEF BlockKeys
    <3> QED BY <1>7, <3>1 DEF Apart
  <2>2. L(i) \notin KeysIn(blocks[j], StatementKeys) /\ L(j) \notin KeysIn(blocks[i], StatementKeys)
    BY <1>1 DEF Blocks, NoFresh
  <2>3. L(i) # L(j)
    BY <1>7 DEF freshLabel
  <2> HIDE DEF L
  <2> QED BY <1>3, <2>1, <2>2, <2>3
<1>8. Apart(ns, NodeKeys)
  BY <1>5, <1>7 DEF Apart
<1>9. \A k, j : k \in DOMAIN ns /\ ns[k].label = freshLabel(j) => j \in Nat /\ j <= Len(blocks)
  BY <1>1, <1>3, <1>5
<1>10. ASSUME NEW x \in KeysIn(ns, NodeKeys), x[1] # "label" PROVE x \in KeysIn(blocks, BlockKeys)
  <2>1. PICK k \in DOMAIN blocks : x \in KeysIn(blocks[k], StatementKeys) \cup {L(k)}
    BY <1>3, <1>5 DEF KeysIn
  <2>2. x # L(k)
    BY <1>10
  <2>3. BlockKeys[blocks[k]] = KeysIn(blocks[k], StatementKeys)
    BY <1>1 DEF BlockKeys
  <2> QED BY <2>1, <2>2, <2>3 DEF KeysIn
<1> QED BY <1>1, <1>5, <1>6, <1>8, <1>9, <1>10 DEF NodesOk, Said, ns

\* Another order of the nodes.
LEMMA LaidOk ==
  ASSUME NEW ns, NEW m, NodesOk(ns, m), NEW ord \in Seq(DOMAIN ns),
         \A i, j \in DOMAIN ord : ord[i] = ord[j] => i = j
  PROVE  /\ NodesOk([k \in DOMAIN ord |-> ns[ord[k]]], m)
         /\ KeysIn([k \in DOMAIN ord |-> ns[ord[k]]], NodeKeys) \subseteq KeysIn(ns, NodeKeys)
<1> DEFINE laid == [k \in DOMAIN ord |-> ns[ord[k]]]
<1>1. \A k \in DOMAIN ord : ord[k] \in DOMAIN ns
  BY SeqElements
<1>2. \A k \in DOMAIN ns : ns[k] \in BlockNode
  BY SeqElements DEF NodesOk
<1>3. laid \in [DOMAIN ord -> BlockNode]
  BY <1>1, <1>2
<1>4. DOMAIN laid = DOMAIN ord /\ \A k \in DOMAIN ord : laid[k] = ns[ord[k]]
  OBVIOUS
<1> HIDE DEF laid
<1>5. laid \in Seq(BlockNode)
  BY <1>3, SameLength
<1>6. Apart(laid, NodeKeys)
  BY <1>1, <1>4 DEF NodesOk, Apart
<1>7. KeysIn(laid, NodeKeys) \subseteq KeysIn(ns, NodeKeys)
  BY <1>1, <1>4 DEF KeysIn
<1> QED BY <1>1, <1>4, <1>5, <1>6, <1>7 DEF NodesOk, laid

\* What fixJumps makes of a node says what the node says.
LEMMA FixedNode ==
  ASSUME NEW n \in BlockNode
  PROVE  /\ LET m == [n EXCEPT !.guard = Negate(@), !.lab = n.els, !.els = NoLabel]
            IN  m \in BlockNode /\ NodeKeys[m] = NodeKeys[n]
         /\ LET m == [n EXCEPT !.els = NoLabel] IN m \in BlockNode /\ NodeKeys[m] = NodeKeys[n]
         /\ LET m == [n EXCEPT !.end = "none"] IN m \in BlockNode /\ NodeKeys[m] \subseteq NodeKeys[n]
         /\ n.els \in Label
<1>1. NoLabel \in Label
  BY DEF NoLabel, Label
<1>2. /\ n.els \in Label /\ n.guard \in [on : Nat, neg : BOOLEAN]
  BY DEF BlockNode
<1>3. Negate(n.guard) \in [on : Nat, neg : BOOLEAN] /\ Negate(n.guard).on = n.guard.on
  BY <1>2 DEF Negate
<1> DEFINE a == [n EXCEPT !.guard = Negate(@), !.lab = n.els, !.els = NoLabel]
           b == [n EXCEPT !.els = NoLabel]
           c == [n EXCEPT !.end = "none"]
<1>4. /\ a \in BlockNode /\ a.label = n.label /\ a.statements = n.statements /\ a.end = n.end
      /\ a.guard.on = n.guard.on
  BY <1>1, <1>2, <1>3 DEF BlockNode
<1>5. /\ b \in BlockNode /\ b.label = n.label /\ b.statements = n.statements /\ b.end = n.end
      /\ b.guard = n.guard
  BY <1>1 DEF BlockNode
<1>6. /\ c \in BlockNode /\ c.label = n.label /\ c.statements = n.statements /\ c.end = "none"
  BY DEF BlockNode
<1> HIDE DEF a, b, c
<1>7. NodeKeys[a] = NodeKeys[n]
  BY <1>4 DEF NodeKeys
<1>8. NodeKeys[b] = NodeKeys[n]
  BY <1>5 DEF NodeKeys
<1>9. NodeKeys[c] \subseteq NodeKeys[n]
  BY <1>6 DEF NodeKeys
<1> QED BY <1>2, <1>4, <1>5, <1>6, <1>7, <1>8, <1>9 DEF a, b, c

\* fixJumps: the nodes it adds have labels that are not in use.
LEMMA FixJumpsOk ==
  ASSUME NEW laid, NodesOk(laid, Len(nodes))
  PROVE  /\ fixJumps(laid) \in Seq(BlockNode) /\ Apart(fixJumps(laid), NodeKeys)
         /\ Said(fixJumps(laid), NodeKeys) \subseteq Said(laid, NodeKeys)
<1> DEFINE N == Len(nodes)
           L(k) == <<"label", freshLabel(N + k)>>
           next(k) == IF k < Len(laid) THEN laid[k+1].label ELSE NoLabel
           inverted(n) == [n EXCEPT !.guard = Negate(@), !.lab = n.els, !.els = NoLabel]
           single(n) == [n EXCEPT !.els = NoLabel]
           none(n) == [n EXCEPT !.end = "none"]
           fresh(k) == Node(freshLabel(N + k), <<>>, "uncond", NoGuard, laid[k].els, NoLabel)
           fix(k) ==
             LET n == laid[k] IN
             IF n.end = "cond" /\ n.els # NoLabel THEN
               IF n.lab = next(k) THEN <<inverted(n)>> ELSE <<single(n), fresh(k)>>
             ELSE IF n.end = "cond" /\ n.lab = next(k) THEN <<none(n)>>
             ELSE <<n>>
           pieces == [k \in DOMAIN laid |-> fix(k)]
<1>1. fixJumps(laid) = FlattenSeq(pieces)
  BY DEF fixJumps
<1>2. /\ laid \in Seq(BlockNode) /\ N \in Nat /\ Apart(laid, NodeKeys)
      /\ \A k, j : k \in DOMAIN laid /\ laid[k].label = freshLabel(j) => j \in Nat /\ j <= N
  BY DEF NodesOk
<1>3. \A k \in DOMAIN laid : k \in Nat /\ k >= 1 /\ laid[k] \in BlockNode
  BY <1>2
<1>4. ASSUME NEW k \in DOMAIN laid
      PROVE  fresh(k) \in BlockNode /\ NodeKeys[fresh(k)] = {L(k)}
  <2>1. /\ NoLabel \in Label /\ NoGuard \in [on : Nat, neg : BOOLEAN] /\ freshLabel(N + k) \in Label
        /\ laid[k].els \in Label
    <3>1. N + k \in Nat
      BY <1>2, <1>3
    <3>2. laid[k].els \in Label
      BY <1>3 DEF BlockNode
    <3> HIDE DEF N
    <3> QED BY <3>1, <3>2 DEF NoLabel, Label, NoGuard, freshLabel
  <2>2. <<>> \in Seq(Ordinary) /\ Apart(<<>>, StatementKeys) /\ KeysIn(<<>>, StatementKeys) = {}
    BY ShortApart
  <2>3. /\ fresh(k) \in BlockNode /\ fresh(k).label = freshLabel(N + k) /\ fresh(k).statements = <<>>
        /\ fresh(k).end = "uncond"
    BY <2>1, <2>2 DEF Node, BlockNode
  <2> HIDE DEF fresh
  <2> QED BY <2>2, <2>3 DEF NodeKeys
<1>5. ASSUME NEW k \in DOMAIN laid
      PROVE  L(k) \notin NodeKeys[laid[k]] /\ \A j \in DOMAIN laid : L(k) \notin NodeKeys[laid[j]]
  <2>1. \A j \in DOMAIN laid : laid[j].label # freshLabel(N + k)
    BY <1>2, <1>3
  <2>2. \A j \in DOMAIN laid : \A x \in NodeKeys[laid[j]] : x[1] = "label" => x = <<"label", laid[j].label>>
    <3> SUFFICES ASSUME NEW j \in DOMAIN laid, NEW x \in KeysIn(laid[j].statements, StatementKeys)
                 PROVE  x[1] # "label"
      BY <1>3 DEF NodeKeys
    <3>1. laid[j].statements \in Seq(Ordinary)
      BY <1>3 DEF BlockNode
    <3>2. PICK i \in DOMAIN laid[j].statements : x \in StatementKeys[laid[j].statements[i]]
      BY DEF KeysIn
    <3>3. laid[j].statements[i] \in Ordinary
      BY <3>1, SeqElements
    <3>4. StatementKeys[laid[j].statements[i]] = {<<laid[j].statements[i].op, laid[j].statements[i].id>>}
          /\ laid[j].statements[i].op \in {"stmt", "ret"}
      BY <3>3, KeysOf DEF Ordinary
    <3> QED BY <3>2, <3>4
  <2> QED BY <2>1, <2>2
<1> HIDE DEF L, fresh, inverted, single, none
<1>6. ASSUME NEW k \in DOMAIN laid
      PROVE  /\ fix(k) \in Seq(BlockNode) /\ Apart(fix(k), NodeKeys)
             /\ KeysIn(fix(k), NodeKeys) \subseteq NodeKeys[laid[k]] \cup {L(k)}
  <2> DEFINE n == laid[k]
  <2>1. /\ n \in BlockNode
        /\ inverted(n) \in BlockNode /\ NodeKeys[inverted(n)] = NodeKeys[n]
        /\ single(n) \in BlockNode /\ NodeKeys[single(n)] = NodeKeys[n]
        /\ none(n) \in BlockNode /\ NodeKeys[none(n)] \subseteq NodeKeys[n]
    BY <1>3, FixedNode DEF inverted, single, none
  <2>2. ASSUME NEW x \in BlockNode, NodeKeys[x] \subseteq NodeKeys[n], fix(k) = <<x>>
        PROVE  /\ fix(k) \in Seq(BlockNode) /\ Apart(fix(k), NodeKeys)
               /\ KeysIn(fix(k), NodeKeys) \subseteq NodeKeys[n] \cup {L(k)}
    <3> HIDE DEF fix, n
    <3>1. /\ <<x>> \in Seq(BlockNode) /\ Apart(<<x>>, NodeKeys) /\ KeysIn(<<x>>, NodeKeys) = NodeKeys[x]
      BY <2>2, ShortApart
    <3> QED BY <2>2, <3>1
  <2>3. CASE fix(k) = <<single(n), fresh(k)>>
    <3> DEFINE a == single(n)
               b == fresh(k)
    <3>1. a \in BlockNode /\ b \in BlockNode /\ NodeKeys[a] = NodeKeys[n] /\ NodeKeys[b] = {L(k)}
      BY <1>4, <2>1
    <3>2. NodeKeys[a] \cap NodeKeys[b] = {}
      BY <1>5, <3>1
    <3>3. fix(k) = <<a, b>>
      BY <2>3
    <3> HIDE DEF a, b, fix, n
    <3>4. NodeKeys[a] \cap NodeKeys[b] = {} /\ a \in BlockNode /\ b \in BlockNode
      BY <3>1, <3>2
    <3>5. /\ fix(k) \in Seq(BlockNode) /\ Apart(fix(k), NodeKeys)
          /\ KeysIn(fix(k), NodeKeys) = NodeKeys[a] \cup NodeKeys[b]
      <4>1. /\ <<a, b>> \in Seq(BlockNode) /\ Len(<<a, b>>) = 2
            /\ <<a, b>>[1] = a /\ <<a, b>>[2] = b
        BY <3>4
      <4> DEFINE s == fix(k)
      <4>2. s \in Seq(BlockNode) /\ Len(s) = 2 /\ s[1] = a /\ s[2] = b
        BY <3>3, <4>1
      <4> HIDE DEF s
      <4>3. Apart(s, NodeKeys) /\ KeysIn(s, NodeKeys) = NodeKeys[s[1]] \cup NodeKeys[s[2]]
        BY <3>4, <4>2, PairApart
      <4> QED BY <4>2, <4>3 DEF s
    <3>6. KeysIn(fix(k), NodeKeys) = NodeKeys[n] \cup {L(k)}
      BY <3>1, <3>5
    <3> QED BY <3>5, <3>6 DEF n
  <2>4. fix(k) \in {<<inverted(n)>>, <<single(n), fresh(k)>>, <<none(n)>>, <<n>>}
    OBVIOUS
  <2> HIDE DEF fix
  <2> QED BY <2>1, <2>2, <2>3, <2>4
<1>7. DOMAIN pieces = DOMAIN laid /\ \A k \in DOMAIN laid : pieces[k] = fix(k)
  OBVIOUS
<1> HIDE DEF fix
<1>8. pieces \in Seq(Seq(BlockNode))
  <2>1. pieces \in [DOMAIN laid -> Seq(BlockNode)]
    BY <1>6
  <2> HIDE DEF pieces
  <2> QED BY <1>2, <2>1, SameLength
<1> HIDE DEF pieces
<1>9. \A i, j \in DOMAIN pieces : i # j => KeysIn(pieces[i], NodeKeys) \cap KeysIn(pieces[j], NodeKeys) = {}
  <2> SUFFICES ASSUME NEW i \in DOMAIN laid, NEW j \in DOMAIN laid, i # j
               PROVE  KeysIn(pieces[i], NodeKeys) \cap KeysIn(pieces[j], NodeKeys) = {}
    BY <1>7
  <2>1. NodeKeys[laid[i]] \cap NodeKeys[laid[j]] = {}
    BY <1>2 DEF Apart
  <2>2. L(i) # L(j)
    BY <1>2, <1>3 DEF L, freshLabel
  <2> QED BY <1>5, <1>6, <1>7, <2>1, <2>2
<1>10. \A k \in DOMAIN pieces : Apart(pieces[k], NodeKeys)
  BY <1>6, <1>7
<1>11. /\ FlattenSeq(pieces) \in Seq(BlockNode) /\ Apart(FlattenSeq(pieces), NodeKeys)
       /\ KeysIn(FlattenSeq(pieces), NodeKeys) = UNION {KeysIn(pieces[k], NodeKeys) : k \in DOMAIN pieces}
  BY <1>8, <1>9, <1>10, FlattenApart
<1>12. ASSUME NEW x \in UNION {KeysIn(pieces[k], NodeKeys) : k \in DOMAIN pieces}, x[1] # "label"
       PROVE  x \in KeysIn(laid, NodeKeys)
  <2>1. PICK k \in DOMAIN laid : x \in NodeKeys[laid[k]] \cup {L(k)}
    BY <1>6, <1>7, <1>12
  <2>2. x # L(k)
    BY <1>12 DEF L
  <2> QED BY <2>1, <2>2 DEF KeysIn
<1> QED BY <1>1, <1>11, <1>12 DEF Said

\* Moves, calls and returns are no labels and no guards.
LEMMA OrdinaryKeys ==
  ASSUME NEW s \in Seq(Ordinary)
  PROVE  \A x \in KeysIn(s, StatementKeys) : x[1] \in {"stmt", "ret"}
<1> SUFFICES ASSUME NEW x \in KeysIn(s, StatementKeys) PROVE x[1] \in {"stmt", "ret"}
  OBVIOUS
<1>1. PICK i \in DOMAIN s : x \in StatementKeys[s[i]]
  BY DEF KeysIn
<1>2. s[i] \in Ordinary
  BY SeqElements
<1>3. StatementKeys[s[i]] = {<<s[i].op, s[i].id>>} /\ s[i].op \in {"stmt", "ret"}
  BY <1>2, KeysOf DEF Ordinary
<1> QED BY <1>1, <1>3

\* removeUselessJumps: it takes a jump away and adds nothing.
LEMMA RemoveUselessOk ==
  ASSUME NEW laid \in Seq(BlockNode), Apart(laid, NodeKeys)
  PROVE  /\ removeUselessJumps(laid) \in Seq(BlockNode) /\ Apart(removeUselessJumps(laid), NodeKeys)
         /\ KeysIn(removeUselessJumps(laid), NodeKeys) \subseteq KeysIn(laid, NodeKeys)
<1> DEFINE kept == removeUselessJumps(laid)
           none(n) == [n EXCEPT !.end = "none"]
<1>1. /\ kept = [k \in DOMAIN laid |-> kept[k]] /\ DOMAIN kept = DOMAIN laid
      /\ \A k \in DOMAIN laid : kept[k] = none(laid[k]) \/ kept[k] = laid[k]
  BY DEF removeUselessJumps
<1>2. \A k \in DOMAIN laid : laid[k] \in BlockNode
  BY SeqElements
<1>3. \A n \in BlockNode : none(n) \in BlockNode /\ NodeKeys[none(n)] \subseteq NodeKeys[n]
  BY FixedNode
<1> HIDE DEF kept, none
<1>4. \A k \in DOMAIN laid : kept[k] \in BlockNode /\ NodeKeys[kept[k]] \subseteq NodeKeys[laid[k]]
  BY <1>1, <1>2, <1>3
<1>5. kept \in [DOMAIN laid -> BlockNode]
  BY <1>1, <1>4
<1>6. kept \in Seq(BlockNode)
  BY <1>5, SameLength
<1>7. Apart(kept, NodeKeys)
  BY <1>1, <1>4 DEF Apart
<1>8. KeysIn(kept, NodeKeys) \subseteq KeysIn(laid, NodeKeys)
  BY <1>1, <1>4 DEF KeysIn
<1> QED BY <1>6, <1>7, <1>8 DEF kept

\* The statements with at most one way to jump.
Plain == {s \in LIRStatement : s.op # "cjump"}

\* The statements of a node.
Piece(n) ==
  <<LIRLabel(n.label)>> \o n.statements
    \o (CASE n.end = "cond"   -> <<LIRTrueJump(n.guard, n.lab)>>
          [] n.end = "uncond" -> <<LIRJump(n.lab)>>
          [] n.end = "none"   -> <<>>)

\* The statements of a node say what the node says.
LEMMA PieceOk ==
  ASSUME NEW n \in BlockNode
  PROVE  /\ Piece(n) \in Seq(Plain) /\ Apart(Piece(n), StatementKeys)
         /\ KeysIn(Piece(n), StatementKeys) = NodeKeys[n]
<1> DEFINE K == StatementKeys
           a == <<LIRLabel(n.label)>>
           b == n.statements
           c == CASE n.end = "cond"   -> <<LIRTrueJump(n.guard, n.lab)>>
                  [] n.end = "uncond" -> <<LIRJump(n.lab)>>
                  [] n.end = "none"   -> <<>>
           guard == IF n.end = "cond" THEN {<<"guard", n.guard.on>>} ELSE {}
<1>1. /\ n.label \in Label /\ n.lab \in Label /\ n.guard \in [on : Nat, neg : BOOLEAN]
      /\ b \in Seq(Ordinary) /\ Apart(b, K) /\ n.end \in {"none", "uncond", "cond"}
  BY DEF BlockNode
<1>2. Ordinary \subseteq Plain
  BY DEF Ordinary, Plain
<1>3. Piece(n) = (a \o b) \o c /\ NodeKeys[n] = ({<<"label", n.label>>} \cup KeysIn(b, K)) \cup guard
  BY DEF Piece, NodeKeys
<1>4. a \in Seq(Plain) /\ Apart(a, K) /\ KeysIn(a, K) = {<<"label", n.label>>}
  <2>1. LIRLabel(n.label) \in Plain /\ K[LIRLabel(n.label)] = {<<"label", n.label>>}
    BY <1>1, KeysOf DEF Plain
  <2> HIDE DEF K
  <2>2. a \in Seq(Plain) /\ Apart(a, K) /\ KeysIn(a, K) = K[LIRLabel(n.label)]
    BY <2>1, ShortApart
  <2> QED BY <2>1, <2>2
<1>5. c \in Seq(Plain) /\ Apart(c, K) /\ KeysIn(c, K) = guard
  <2>1. CASE n.end = "cond"
    <3> DEFINE x == LIRTrueJump(n.guard, n.lab)
    <3>1. c = <<x>> /\ guard = {<<"guard", n.guard.on>>}
      BY <2>1
    <3>2. x \in Plain /\ K[x] = {<<"guard", n.guard.on>>}
      BY <1>1, KeysOf DEF Plain
    <3> HIDE DEF c, K, x, guard
    <3>3. <<x>> \in Seq(Plain) /\ Apart(<<x>>, K) /\ KeysIn(<<x>>, K) = K[x]
      BY <3>2, ShortApart
    <3> QED BY <3>1, <3>2, <3>3
  <2>2. CASE n.end = "uncond"
    <3> DEFINE x == LIRJump(n.lab)
    <3>1. c = <<x>> /\ guard = {}
      BY <2>2
    <3>2. x \in Plain /\ K[x] = {}
      BY <1>1, KeysOf DEF Plain
    <3> HIDE DEF c, K, x, guard
    <3>3. <<x>> \in Seq(Plain) /\ Apart(<<x>>, K) /\ KeysIn(<<x>>, K) = K[x]
      BY <3>2, ShortApart
    <3> QED BY <3>1, <3>2, <3>3
  <2>3. CASE n.end = "none"
    <3>1. c = <<>> /\ guard = {}
      BY <2>3
    <3> HIDE DEF c, K, guard
    <3> QED BY <3>1, ShortApart
  <2> QED BY <1>1, <2>1, <2>2, <2>3
<1>6. \A x \in KeysIn(b, K) : x[1] \in {"stmt", "ret"}
  BY <1>1, OrdinaryKeys
<1>7. /\ KeysIn(a, K) \cap KeysIn(b, K) = {}
      /\ (KeysIn(a, K) \cup KeysIn(b, K)) \cap KeysIn(c, K) = {}
  <2>1. /\ \A x \in KeysIn(a, K) : x[1] = "label"
        /\ \A x \in KeysIn(c, K) : x[1] = "guard"
    <3>1. \A x \in guard : x[1] = "guard"
      OBVIOUS
    <3> HIDE DEF a, b, c, K, guard
    <3> QED BY <1>4, <1>5, <3>1
  <2> HIDE DEF a, b, c, K
  <2> QED BY <1>6, <2>1
<1>8. b \in Seq(Plain)
  BY <1>1, <1>2, SeqWithin
<1> HIDE DEF a, b, c, K, guard
<1>9. /\ a \o b \in Seq(Plain) /\ Apart(a \o b, K) /\ KeysIn(a \o b, K) = KeysIn(a, K) \cup KeysIn(b, K)
  BY <1>1, <1>4, <1>7, <1>8, ConcatApart
<1> DEFINE d == a \o b
<1>10. d \in Seq(Plain) /\ Apart(d, K) /\ KeysIn(d, K) = KeysIn(a, K) \cup KeysIn(b, K)
  BY <1>9
<1> HIDE DEF d
<1>11. /\ d \o c \in Seq(Plain) /\ Apart(d \o c, K) /\ KeysIn(d \o c, K) = KeysIn(d, K) \cup KeysIn(c, K)
  BY <1>5, <1>7, <1>10, ConcatApart
<1> QED BY <1>3, <1>4, <1>5, <1>10, <1>11 DEF d, K

\* toSequence: what the nodes share out, the list has at one place each.
LEMMA ToSequenceOk ==
  ASSUME NEW laid \in Seq(BlockNode), Apart(laid, NodeKeys)
  PROVE  /\ toSequence(laid) \in Seq(Plain) /\ Apart(toSequence(laid), StatementKeys)
         /\ KeysIn(toSequence(laid), StatementKeys) \subseteq KeysIn(laid, NodeKeys)
<1> DEFINE pieces == [k \in DOMAIN laid |-> Piece(laid[k])]
<1>1. toSequence(laid) = FlattenSeq(pieces)
  BY DEF toSequence, Piece
<1>2. \A k \in DOMAIN laid : laid[k] \in BlockNode
  BY SeqElements
<1>3. \A k \in DOMAIN laid : /\ Piece(laid[k]) \in Seq(Plain) /\ Apart(Piece(laid[k]), StatementKeys)
                           /\ KeysIn(Piece(laid[k]), StatementKeys) = NodeKeys[laid[k]]
  BY <1>2, PieceOk
<1>4. DOMAIN pieces = DOMAIN laid /\ \A k \in DOMAIN laid : pieces[k] = Piece(laid[k])
  OBVIOUS
<1>5. pieces \in Seq(Seq(Plain))
  <2>1. pieces \in [DOMAIN laid -> Seq(Plain)]
    BY <1>3
  <2> HIDE DEF pieces
  <2> QED BY <2>1, SameLength
<1> HIDE DEF pieces
<1>6. /\ \A k \in DOMAIN pieces : Apart(pieces[k], StatementKeys)
      /\ \A j, k \in DOMAIN pieces :
           j # k => KeysIn(pieces[j], StatementKeys) \cap KeysIn(pieces[k], StatementKeys) = {}
  <2>1. \A j, k \in DOMAIN laid : j # k => NodeKeys[laid[j]] \cap NodeKeys[laid[k]] = {}
    BY DEF Apart
  <2>2. \A k \in DOMAIN pieces : /\ Apart(pieces[k], StatementKeys)
                                /\ KeysIn(pieces[k], StatementKeys) = NodeKeys[laid[k]]
    BY <1>3, <1>4
  <2> QED BY <1>4, <2>1, <2>2
<1> DEFINE s == FlattenSeq(pieces)
<1>7. /\ s \in Seq(Plain) /\ Apart(s, StatementKeys)
      /\ KeysIn(s, StatementKeys) = UNION {KeysIn(pieces[k], StatementKeys) : k \in DOMAIN pieces}
  BY <1>5, <1>6, FlattenApart
<1>8. UNION {KeysIn(pieces[k], StatementKeys) : k \in DOMAIN pieces} \subseteq KeysIn(laid, NodeKeys)
  <2>1. \A k \in DOMAIN pieces : KeysIn(pieces[k], StatementKeys) = NodeKeys[laid[k]]
    BY <1>3, <1>4
  <2>2. KeysIn(laid, NodeKeys) = UNION {NodeKeys[laid[k]] : k \in DOMAIN pieces}
    BY <1>4 DEF KeysIn
  <2> QED BY <2>1, <2>2
<1> QED BY <1>1, <1>7, <1>8

\* Block reordering: whatever order the traces have.
LEMMA ReorderedOk ==
  ASSUME NodesOk(nodes, Len(nodes)), order \in Seq(DOMAIN nodes),
         \A i, j \in DOMAIN order : order[i] = order[j] => i = j
  PROVE  \A stmts \in Reordered : /\ stmts \in Seq(Plain) /\ Apart(stmts, StatementKeys)
                                  /\ Said(stmts, StatementKeys) \subseteq Said(nodes, NodeKeys)
<1> DEFINE laid == [k \in DOMAIN order |-> nodes[order[k]]]
           fixed == fixJumps(laid)
           kept == removeUselessJumps(fixed)
<1>1. \A stmts \in Reordered : stmts = toSequence(kept)
  BY DEF Reordered
<1>2. NodesOk(laid, Len(nodes)) /\ KeysIn(laid, NodeKeys) \subseteq KeysIn(nodes, NodeKeys)
  BY LaidOk
<1> HIDE DEF laid
<1>3. /\ fixed \in Seq(BlockNode) /\ Apart(fixed, NodeKeys)
      /\ Said(fixed, NodeKeys) \subseteq Said(laid, NodeKeys)
  BY <1>2, FixJumpsOk
<1> HIDE DEF fixed
<1>4. /\ kept \in Seq(BlockNode) /\ Apart(kept, NodeKeys)
      /\ KeysIn(kept, NodeKeys) \subseteq KeysIn(fixed, NodeKeys)
  BY <1>3, RemoveUselessOk
<1> HIDE DEF kept
<1> DEFINE list == toSequence(kept)
<1>5. /\ list \in Seq(Plain) /\ Apart(list, StatementKeys)
      /\ KeysIn(list, StatementKeys) \subseteq KeysIn(kept, NodeKeys)
  BY <1>4, ToSequenceOk
<1> HIDE DEF list
<1>6. Said(list, StatementKeys) \subseteq Said(nodes, NodeKeys)
  BY <1>2, <1>3, <1>4, <1>5 DEF Said
<1> QED BY <1>1, <1>5, <1>6 DEF list
=============================================================================
