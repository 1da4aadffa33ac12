---------------------------- MODULE OptimiserProofs ----------------------------
(***************************************************************************)
(* In every round, for every function: the lists of statements that block  *)
(* reordering and CFGDestroyer make have everything at one place, what     *)
(* CFGBuilder makes of such a list is in order, and every edit of the      *)
(* passes keeps the two tables of the flow graph in agreement.             *)
(*                                                                         *)
(* Every operation of MatchMaker keeps the two tables of edges in          *)
(* agreement, for graphs of any size, over any set N of nodes of which     *)
(* those in M may be led to: what repOk states (MatchMaker.kt 10-26) is    *)
(* inductive, given that the numbers of NOOPs not yet made occur on no     *)
(* edge.                                                                   *)
(***************************************************************************)
EXTENDS Optimiser, BlockReorderingProofs

-----------------------------------------------------------------------------
(* MatchMaker *)

\* The edges from nodes in N to nodes in M.
Edge(N, M) == N \X M \X BOOLEAN

\* The graphs of such edges with the order of insertion a.
Graph(N, M, a) ==
  [successors : SUBSET Edge(N, M), predecessors : SUBSET Edge(N, M), age : {a},
   noops : Nat, thrown : BOOLEAN]

\* The NOOPs are among the nodes in M.
HasNoops(M) == \A k \in Nat \ {0} : NOOP(k) \in M

\* n is no NOOP that is still to be made.
Made(g, n) == \A k \in Nat : k > g.noops => n # NOOP(k)

\* The order of insertion lists the edges, and no other.
Aged(g, N, M) == g.age \in Seq(Edge(N, M)) /\ Range(g.age) = g.predecessors

\* repOk with what makes it inductive.
TablesOk(g, N, M) ==
  /\ g \in Graph(N, M, g.age) /\ Aged(g, N, M)
  /\ Mirrored(g) /\ OneWayOut(g) /\ OneFallIn(g)
  /\ \A e \in g.successors : Made(g, e[1]) /\ Made(g, e[2])
  /\ IsFiniteSet(g.successors)

\* Adding an element to a sequence.
LEMMA AppendRange ==
  ASSUME NEW T, NEW s \in Seq(T), NEW x \in T
  PROVE  Append(s, x) \in Seq(T) /\ Range(Append(s, x)) = Range(s) \cup {x}
<1> DEFINE u == Append(s, x)
           n == Len(s)
<1>1. /\ u \in Seq(T) /\ n \in Nat /\ DOMAIN s = 1 .. n /\ DOMAIN u = 1 .. n + 1
      /\ u[n + 1] = x /\ \A i \in 1 .. n : u[i] = s[i]
  OBVIOUS
<1> HIDE DEF u, n
<1>2. DOMAIN u = DOMAIN s \cup {n + 1}
  BY <1>1
<1>3. Range(u) = Range(s) \cup {x}
  BY <1>1, <1>2 DEF Range
<1> QED BY <1>1, <1>3 DEF u

\* Keeping some members of a sequence.
LEMMA KeptOk ==
  ASSUME NEW T, NEW s \in Seq(T), NEW S
  PROVE  Kept(s, S) \in Seq(T) /\ Range(Kept(s, S)) = Range(s) \cap S
<1> DEFINE m == Len(s)
           Q == Seq(T)
           Step(k, u) == IF s[k] \in S THEN Append(u, s[k]) ELSE u
           F == [p \in (1 .. m) \X Q |-> Step(p[1], p[2])]
           kept[n \in 0 .. m] == IF n = 0 THEN <<>> ELSE Step(n, kept[n-1])
           Passed(n) == {s[i] : i \in 1 .. n}
           Done == {n \in 0 .. m : kept[n] \in Q /\ Range(kept[n]) = Passed(n) \cap S}
<1>1. /\ m \in Nat /\ DOMAIN s = 1 .. m /\ \A k \in 1 .. m : s[k] \in T
      /\ <<>> \in Q /\ Range(<<>>) = {}
  <2>1. <<>> \in Q /\ Range(<<>>) = {}
    BY ShortApart
  <2> QED BY <2>1
<1>2. Kept(s, S) = kept[m]
  BY DEF Kept
<1>3. \A k \in 1 .. m : \A u \in Q : Step(k, u) \in Q
  BY <1>1
<1>4. F \in [(1 .. m) \X Q -> Q] /\ \A k \in 1 .. m : \A u \in Q : F[<<k, u>>] = Step(k, u)
  BY <1>3
<1>5. \A k \in 1 .. m : \A u \in Q : \A A :
        Range(u) = A \cap S => Range(Step(k, u)) = (A \cup {s[k]}) \cap S
  BY <1>1, AppendRange
<1> HIDE DEF F, m, Q, Step, kept
<1>6. PICK w : Solves(w, Q, <<>>, m, F)
  BY <1>1, <1>4, RecursionExists
<1>7. kept = [n \in 0 .. m |-> IF n = 0 THEN <<>> ELSE Step(n, kept[n-1])]
  <2>1. \A n \in 0 .. m : n # 0 => n \in 1 .. m /\ n - 1 \in 0 .. m
    BY <1>1
  <2>2. w = [n \in 0 .. m |-> IF n = 0 THEN <<>> ELSE Step(n, w[n-1])]
    BY <1>4, <1>6, <2>1 DEF Solves
  <2> QED BY <2>2 DEF kept
<1>8. 0 \in Done
  <2>1. 0 \in 0 .. m /\ kept[0] = <<>> /\ Passed(0) = {}
    BY <1>1, <1>7
  <2> QED BY <1>1, <2>1
<1>9. ASSUME NEW k \in Done, k < m PROVE k + 1 \in Done
  <2>1. /\ k + 1 \in 1 .. m /\ k + 1 \in 0 .. m /\ (k + 1) - 1 = k /\ k + 1 # 0
        /\ 1 .. k + 1 = (1 .. k) \cup {k + 1}
    BY <1>1, <1>9
  <2>2. kept[k+1] = Step(k + 1, kept[k])
    BY <1>7, <2>1
  <2>3. Passed(k + 1) = Passed(k) \cup {s[k+1]}
    BY <2>1
  <2>4. kept[k] \in Q /\ Range(kept[k]) = Passed(k) \cap S
    OBVIOUS
  <2> HIDE DEF Passed
  <2>5. kept[k+1] \in Q /\ Range(kept[k+1]) = Passed(k + 1) \cap S
    BY <1>3, <1>5, <2>1, <2>2, <2>3, <2>4
  <2> QED BY <2>1, <2>5
<1>10. Done = 0 .. m
  <2>1. Done \in SUBSET (0 .. m)
    OBVIOUS
  <2> HIDE DEF Done
  <2> QED BY <1>1, <1>8, <1>9, <2>1, IntervalSet
<1>11. m \in Done /\ Passed(m) = Range(s)
  BY <1>1, <1>10 DEF Range
<1> QED BY <1>2, <1>11 DEF Q

\* A sequence whose elements are in a set.
LEMMA SeqOver ==
  ASSUME NEW T, NEW s \in Seq(T), NEW U, Range(s) \subseteq U
  PROVE  s \in Seq(U)
<1>1. s = [i \in DOMAIN s |-> s[i]] /\ \A i \in DOMAIN s : s[i] \in U
  BY DEF Range
<1>2. s \in [DOMAIN s -> U]
  BY <1>1
<1> QED BY <1>2, SameLength

\* An exception leaves the tables as they are.
LEMMA ThrownOk ==
  ASSUME NEW N, NEW M, NEW g, TablesOk(g, N, M)
  PROVE  TablesOk([g EXCEPT !.thrown = TRUE], N, M)
BY DEF TablesOk, Aged, Graph, Mirrored, OneWayOut, OneFallIn, Made

\* A new edge, if it is no second fall-through into its target, is recorded in
\* both tables or refused (Successors.set).
LEMMA SetOk ==
  ASSUME NEW N, NEW M, NEW g, TablesOk(g, N, M), NEW from \in N, NEW to \in M, NEW jump \in BOOLEAN,
         Made(g, from), Made(g, to), ~jump => ~FallsInto(g, to)
  PROVE  TablesOk(Set(g, from, to, jump), N, M)
<1> DEFINE x == <<from, to, jump>>
           h == [g EXCEPT !.successors = @ \cup {x}, !.predecessors = @ \cup {x},
                          !.age = Append(@, x)]
<1>1. CASE \E e \in g.successors : e[1] = from /\ e[3] = jump
  <2>1. Set(g, from, to, jump) = [g EXCEPT !.thrown = TRUE]
    BY <1>1 DEF Set
  <2> QED
    BY <2>1, ThrownOk
<1>2. CASE ~\E e \in g.successors : e[1] = from /\ e[3] = jump
  <2>1. Set(g, from, to, jump) = h
    BY <1>2 DEF Set
  <2>2. x \in Edge(N, M) /\ x[1] = from /\ x[2] = to /\ x[3] = jump
    BY DEF Edge
  <2>3. h \in Graph(N, M, h.age)
    <3>1. g \in Graph(N, M, g.age)
      BY DEF TablesOk
    <3> HIDE DEF x
    <3>2. g.successors \cup {x} \in SUBSET Edge(N, M) /\ g.predecessors \cup {x} \in SUBSET Edge(N, M)
      BY <2>2, <3>1 DEF Graph
    <3> QED
      BY <3>1, <3>2 DEF Graph
  <2>4. /\ h.successors = g.successors \cup {x} /\ h.predecessors = g.successors \cup {x}
        /\ h.noops = g.noops
    BY DEF TablesOk, Graph, Mirrored
  <2>5. OneWayOut(h)
    BY <1>2, <2>2, <2>4 DEF TablesOk, OneWayOut
  <2>6. OneFallIn(h)
    BY <2>2, <2>4 DEF TablesOk, OneFallIn, FallsInto, Mirrored
  <2>7. \A e \in h.successors : Made(h, e[1]) /\ Made(h, e[2])
    BY <2>2, <2>4 DEF TablesOk, Made
  <2>8. IsFiniteSet(h.successors)
    <3> HIDE DEF h, x
    <3>1. IsFiniteSet(g.successors)
      BY DEF TablesOk
    <3>2. IsFiniteSet(g.successors \cup {x})
      BY <3>1, FS_AddElement
    <3> QED
      BY <2>4, <3>2
  <2>9. Aged(h, N, M)
    <3>1. g.age \in Seq(Edge(N, M)) /\ Range(g.age) = g.predecessors
      BY DEF TablesOk, Aged
    <3>2. h.age = Append(g.age, x) /\ h.predecessors = g.predecessors \cup {x}
      BY DEF TablesOk, Graph
    <3> HIDE DEF h, x
    <3>3. Append(g.age, x) \in Seq(Edge(N, M)) /\ Range(Append(g.age, x)) = Range(g.age) \cup {x}
      BY <2>2, <3>1, AppendRange
    <3> QED BY <3>1, <3>2, <3>3 DEF Aged
  <2> QED
    BY <2>1, <2>3, <2>4, <2>5, <2>6, <2>7, <2>8, <2>9 DEF TablesOk, Mirrored
<1> QED
  BY <1>1, <1>2

\* An edge is taken out of both tables (removeConnection).
LEMMA RemoveConnectionOk ==
  ASSUME NEW N, NEW M, NEW g, TablesOk(g, N, M), NEW from, NEW to, NEW jump
  PROVE  /\ TablesOk(removeConnection(g, from, to, jump), N, M)
         /\ removeConnection(g, from, to, jump).noops = g.noops
         /\ removeConnection(g, from, to, jump).successors = g.successors \ {<<from, to, jump>>}
<1> DEFINE h == removeConnection(g, from, to, jump)
<1>1. g \in Graph(N, M, g.age)
  BY DEF TablesOk
<1>2. /\ h \in Graph(N, M, h.age) /\ h.noops = g.noops
      /\ h.successors = g.successors \ {<<from, to, jump>>}
      /\ h.predecessors = g.predecessors \ {<<from, to, jump>>}
      /\ h.age = Kept(g.age, h.predecessors)
  <2> DEFINE P == g.predecessors \ {<<from, to, jump>>}
             S == g.successors \ {<<from, to, jump>>}
             A == Kept(g.age, P)
             t == g.thrown \/ (successorEdges(g, from) # {} /\ <<from, to, jump>> \notin g.successors)
  <2>1. h = [g EXCEPT !.predecessors = P, !.age = A, !.successors = S, !.thrown = t]
    BY DEF removeConnection
  <2>2. P \in SUBSET Edge(N, M) /\ S \in SUBSET Edge(N, M) /\ t \in BOOLEAN
    BY <1>1 DEF Graph
  <2> HIDE DEF h, A, t, P, S
  <2>3. /\ h \in Graph(N, M, h.age) /\ h.noops = g.noops /\ h.successors = S
        /\ h.predecessors = P /\ h.age = A
    BY <1>1, <2>1, <2>2 DEF Graph
  <2> QED BY <2>3 DEF A, P, S
<1> HIDE DEF h
<1>3. Mirrored(h) /\ OneWayOut(h) /\ OneFallIn(h)
  BY <1>2 DEF TablesOk, Mirrored, OneWayOut, OneFallIn
<1>4. \A e \in h.successors : Made(h, e[1]) /\ Made(h, e[2])
  BY <1>2 DEF TablesOk, Made
<1>5. IsFiniteSet(h.successors)
  <2>1. h.successors \subseteq g.successors /\ IsFiniteSet(g.successors)
    BY <1>2 DEF TablesOk
  <2> QED
    BY <2>1, FS_Subset
<1>7. Aged(h, N, M)
  <2>1. g.age \in Seq(Edge(N, M)) /\ Range(g.age) = g.predecessors
    BY DEF TablesOk, Aged
  <2>2. /\ Kept(g.age, h.predecessors) \in Seq(Edge(N, M))
        /\ Range(Kept(g.age, h.predecessors)) = Range(g.age) \cap h.predecessors
    BY <2>1, KeptOk
  <2>3. h.predecessors \subseteq g.predecessors
    BY <1>2
  <2> QED
    BY <1>2, <2>1, <2>2, <2>3 DEF Aged
<1>6. TablesOk(h, N, M)
  BY <1>2, <1>3, <1>4, <1>5, <1>7 DEF TablesOk
<1> QED
  BY <1>2, <1>6 DEF h

\* A number for a NOOP is used up.
LEMMA MoreNoopsOk ==
  ASSUME NEW N, NEW M, NEW g, TablesOk(g, N, M)
  PROVE  LET h == [g EXCEPT !.noops = @ + 1]
         IN  /\ TablesOk(h, N, M) /\ h.noops = g.noops + 1
             /\ h.successors = g.successors /\ h.predecessors = g.predecessors
<1> DEFINE h == [g EXCEPT !.noops = @ + 1]
<1>1. /\ h \in Graph(N, M, h.age) /\ h.noops = g.noops + 1 /\ g.noops \in Nat
      /\ h.successors = g.successors /\ h.predecessors = g.predecessors
  BY DEF TablesOk, Graph
<1> HIDE DEF h
<1>2. Mirrored(h) /\ OneWayOut(h) /\ OneFallIn(h)
  BY <1>1 DEF TablesOk, Mirrored, OneWayOut, OneFallIn
<1>3. \A e \in h.successors : Made(h, e[1]) /\ Made(h, e[2])
  BY <1>1 DEF TablesOk, Made
<1>5. Aged(h, N, M)
  BY DEF TablesOk, Aged, Graph, h
<1>4. TablesOk(h, N, M)
  BY <1>1, <1>2, <1>3, <1>5 DEF TablesOk
<1> QED
  BY <1>1, <1>4 DEF h

\* A fall-through to a new NOOP that jumps on to a node of the graph.
LEMMA ViaNoopOk ==
  ASSUME NEW N, NEW M \in SUBSET N, HasNoops(M), NEW g, TablesOk(g, N, M), NEW from \in N, NEW to \in M,
         Made(g, from), Made(g, to)
  PROVE  LET dummy == NOOP(g.noops + 1)
         IN  TablesOk(Set(Set([g EXCEPT !.noops = @ + 1], from, dummy, FALSE), dummy, to, TRUE), N, M)
<1> DEFINE dummy == NOOP(g.noops + 1)
           h == [g EXCEPT !.noops = @ + 1]
           i == Set(h, from, dummy, FALSE)
<1>1. /\ TablesOk(h, N, M) /\ h.noops = g.noops + 1 /\ g.noops \in Nat
      /\ h.successors = g.successors /\ h.predecessors = g.predecessors
  BY MoreNoopsOk DEF TablesOk, Graph
<1>2. dummy \in N /\ dummy \in M
  <2>1. g.noops + 1 \in Nat \ {0}
    BY <1>1
  <2> QED BY <2>1 DEF HasNoops
<1>3. Made(h, from) /\ Made(h, to)
  BY <1>1 DEF Made
<1>4. Made(h, dummy)
  BY <1>1 DEF Made, NOOP
<1>5. ~FallsInto(h, dummy)
  BY <1>1 DEF TablesOk, FallsInto, Made, Mirrored
<1> HIDE DEF dummy, h
<1>6. TablesOk(i, N, M)
  BY <1>1, <1>2, <1>3, <1>4, <1>5, SetOk
<1>7. i.noops = h.noops
  BY <1>1 DEF Set, TablesOk, Graph
<1>8. Made(i, dummy) /\ Made(i, to)
  BY <1>3, <1>4, <1>7 DEF Made
<1>9. TablesOk(Set(i, dummy, to, TRUE), N, M)
  <2> HIDE DEF i
  <2> QED BY <1>2, <1>6, <1>8, SetOk
<1> QED
  BY <1>9 DEF dummy, h

\* A NOOP once made stays made.
LEMMA NoopsGrow ==
  ASSUME NEW N, NEW M, NEW g, g \in Graph(N, M, g.age), NEW from, NEW to, NEW jump
  PROVE  /\ Set(g, from, to, jump).noops = g.noops
         /\ connect(g, from, to, jump).noops \in Nat
         /\ connect(g, from, to, jump).noops >= g.noops
<1> DEFINE dummy == NOOP(g.noops + 1)
           h == [g EXCEPT !.noops = @ + 1]
           i == Set(h, from, dummy, FALSE)
<1>1. g.noops \in Nat /\ Set(g, from, to, jump).noops = g.noops
  BY DEF Graph, Set
<1>2. h \in [successors : SUBSET Edge(N, M), predecessors : SUBSET Edge(N, M), age : {g.age},
              noops : {g.noops + 1}, thrown : BOOLEAN]
  BY DEF Graph
<1> HIDE DEF dummy, h
<1>3. /\ DOMAIN i = {"successors", "predecessors", "age", "noops", "thrown"}
      /\ i.noops = g.noops + 1
  BY <1>2 DEF Set
<1> HIDE DEF i
<1>4. Set(i, dummy, to, TRUE).noops = g.noops + 1
  BY <1>3 DEF Set
<1>5. \/ connect(g, from, to, jump) = Set(g, from, to, jump)
      \/ connect(g, from, to, jump) = Set(i, dummy, to, TRUE)
  BY DEF connect, i, h, dummy
<1>6. g.noops + 1 >= g.noops /\ g.noops >= g.noops /\ g.noops + 1 \in Nat
  BY <1>1
<1> QED
  BY <1>1, <1>4, <1>5, <1>6

\* MatchMaker.connect keeps the tables in agreement: a second fall-through into
\* a node is led through a NOOP (MatchMaker.kt 59-72).
THEOREM ConnectOk ==
  ASSUME NEW N, NEW M \in SUBSET N, HasNoops(M), NEW g, TablesOk(g, N, M), NEW from \in N, NEW to \in M,
         NEW jump \in BOOLEAN, Made(g, from), Made(g, to)
  PROVE  TablesOk(connect(g, from, to, jump), N, M)
<1>1. CASE ~jump /\ FallsInto(g, to)
  BY <1>1, ViaNoopOk DEF connect
<1>2. CASE ~(~jump /\ FallsInto(g, to))
  <2>1. connect(g, from, to, jump) = Set(g, from, to, jump)
    BY <1>2 DEF connect
  <2> QED
    BY <1>2, <2>1, SetOk
<1> QED
  BY <1>1, <1>2

\* MatchMaker.translate keeps the tables in agreement whichever of its cases
\* applies, also when the node b has lost its edge to c to an earlier
\* predecessor, or a its edge to b (MatchMaker.kt 83-106).
THEOREM TranslateOk ==
  ASSUME NEW N, NEW M \in SUBSET N, HasNoops(M), NEW g, TablesOk(g, N, M), NEW a, NEW b, NEW c \in M, Made(g, c)
  PROVE  TablesOk(translate(g, a, b, c), N, M) /\ translate(g, a, b, c).noops >= g.noops
<1> DEFINE jumpAB == b \in jumpingTo(g, a)
           jumpBC == c \in jumpingTo(g, b)
           once   == removeConnection(g, a, b, jumpAB)
           cut    == removeConnection(once, b, c, jumpBC)
           dummy  == NOOP(g.noops + 1)
           h      == [cut EXCEPT !.noops = @ + 1]
           on     == connect(h, a, dummy, FALSE)
           via    == connect(on, dummy, c, TRUE)
<1>1. /\ TablesOk(cut, N, M) /\ cut.noops = g.noops /\ g.noops \in Nat
      /\ cut \in Graph(N, M, cut.age) /\ g \in Graph(N, M, g.age)
  <2>1. TablesOk(once, N, M) /\ once.noops = g.noops
    BY RemoveConnectionOk
  <2> HIDE DEF once, jumpBC
  <2>2. TablesOk(cut, N, M) /\ cut.noops = once.noops
    BY <2>1, RemoveConnectionOk
  <2> QED
    BY <2>1, <2>2 DEF TablesOk, Graph
<1> HIDE DEF cut
<1>2. CASE b \notin fallThrough(g, a) \cup jumpingTo(g, a)
  <2> DEFINE z == [g EXCEPT !.thrown = TRUE]
  <2>1. TablesOk(z, N, M) /\ z.noops = g.noops
    BY ThrownOk DEF TablesOk, Graph
  <2>2. translate(g, a, b, c) = z
    BY <1>2 DEF translate
  <2> QED
    BY <1>1, <2>1, <2>2
<1>3. CASE b \in fallThrough(g, a) \cup jumpingTo(g, a)
  <2>1. a \in N /\ Made(g, a)
    <3>1. PICK e \in g.successors : e[1] = a
      BY <1>3 DEF fallThrough, jumpingTo
    <3>2. e \in Edge(N, M)
      BY <1>1 DEF Graph
    <3> QED
      BY <3>1, <3>2 DEF TablesOk, Edge
  <2>2. Made(cut, a) /\ Made(cut, c)
    BY <1>1, <2>1 DEF Made
  <2>3. TablesOk(connect(cut, a, c, TRUE), N, M) /\ TablesOk(connect(cut, a, c, FALSE), N, M)
    BY <1>1, <2>1, <2>2, ConnectOk
  <2>4. connect(cut, a, c, TRUE).noops >= g.noops /\ connect(cut, a, c, FALSE).noops >= g.noops
    BY <1>1, NoopsGrow
  <2>5. TablesOk(via, N, M) /\ via.noops >= g.noops
    <3>1. /\ TablesOk(h, N, M) /\ h.noops = g.noops + 1
          /\ h.predecessors = cut.successors /\ h \in Graph(N, M, h.age)
      BY <1>1, MoreNoopsOk DEF TablesOk, Graph, Mirrored
    <3>2. ~FallsInto(h, dummy)
      BY <1>1, <3>1 DEF TablesOk, FallsInto, Made
    <3>3. on = Set(h, a, dummy, FALSE) /\ via = Set(on, dummy, c, TRUE)
      BY <3>2 DEF connect
    <3>4. dummy = NOOP(cut.noops + 1)
      BY <1>1
    <3>5. TablesOk(via, N, M)
      BY <1>1, <2>1, <2>2, <3>3, <3>4, ViaNoopOk
    <3>6. on.noops = h.noops /\ TablesOk(on, N, M)
      <4>0. g.noops + 1 \in Nat \ {0}
        BY <1>1
      <4>1. dummy \in N /\ dummy \in M /\ Made(h, dummy) /\ Made(h, a)
        BY <1>1, <2>1, <3>1, <4>0 DEF HasNoops, Made, NOOP
      <4> HIDE DEF h, dummy, via
      <4>2. TablesOk(on, N, M)
        BY <2>1, <3>1, <4>1, ConnectOk
      <4>3. Set(h, a, dummy, FALSE).noops = h.noops
        BY <3>1, NoopsGrow, ZenonT(60)
      <4> HIDE DEF on
      <4> QED
        BY <3>3, <4>2, <4>3
    <3>7. via.noops >= on.noops
      <4>1. on \in Graph(N, M, on.age)
        BY <3>6 DEF TablesOk
      <4> HIDE DEF on
      <4> QED
        BY <4>1, NoopsGrow
    <3>8. g.noops + 1 >= g.noops
      BY <1>1
    <3>9. via.noops \in Nat
      BY <3>5 DEF TablesOk, Graph
    <3> HIDE DEF via, on, h
    <3> QED
      BY <1>1, <3>1, <3>5, <3>6, <3>7, <3>8, <3>9
  <2>6. translate(g, a, b, c) \in {connect(cut, a, c, TRUE), via, connect(cut, a, c, FALSE)}
    BY <1>3 DEF translate, cut
  <2> QED
    BY <2>3, <2>4, <2>5, <2>6
<1> QED
  BY <1>2, <1>3

\* MatchMaker.removeNode takes the edges of a node out of both tables, and no
\* other (MatchMaker.kt 109-123).
THEOREM RemoveNodeOk ==
  ASSUME NEW N, NEW M, NEW g, TablesOk(g, N, M), NEW n \in N
  PROVE  /\ TablesOk(removeNode(g, n), N, M)
         /\ \A e \in g.successors :
              e \in removeNode(g, n).successors <=> e[1] # n /\ e[2] # n
<1> DEFINE h == removeNode(g, n)
<1>1. g \in Graph(N, M, g.age)
  BY DEF TablesOk
<1>2. /\ h \in Graph(N, M, h.age) /\ h.noops = g.noops
      /\ h.successors = {e \in g.successors : e[1] # n /\ e[2] # n}
      /\ h.predecessors = {e \in g.predecessors : e[1] # n /\ e[2] # n}
      /\ h.age = Kept(g.age, h.predecessors)
  <2> DEFINE P == {e \in g.predecessors : e[1] # n /\ e[2] # n}
             S == {e \in g.successors : e[1] # n /\ e[2] # n}
             A == Kept(g.age, P)
  <2>1. h = [g EXCEPT !.predecessors = P, !.age = A, !.successors = S]
    BY DEF removeNode
  <2>2. P \in SUBSET Edge(N, M) /\ S \in SUBSET Edge(N, M)
    BY <1>1 DEF Graph
  <2> HIDE DEF h, A, P, S
  <2>3. /\ h \in Graph(N, M, h.age) /\ h.noops = g.noops /\ h.successors = S
        /\ h.predecessors = P /\ h.age = A
    BY <1>1, <2>1, <2>2 DEF Graph
  <2> QED BY <2>3 DEF A, P, S
<1> HIDE DEF h
<1>3. Mirrored(h) /\ OneWayOut(h) /\ OneFallIn(h)
  BY <1>2 DEF TablesOk, Mirrored, OneWayOut, OneFallIn
<1>4. \A e \in h.successors : Made(h, e[1]) /\ Made(h, e[2])
  BY <1>2 DEF TablesOk, Made
<1>5. IsFiniteSet(h.successors)
  <2>1. h.successors \subseteq g.successors /\ IsFiniteSet(g.successors)
    BY <1>2 DEF TablesOk
  <2> QED
    BY <2>1, FS_Subset
<1>7. Aged(h, N, M)
  <2>1. g.age \in Seq(Edge(N, M)) /\ Range(g.age) = g.predecessors
    BY DEF TablesOk, Aged
  <2>2. /\ Kept(g.age, h.predecessors) \in Seq(Edge(N, M))
        /\ Range(Kept(g.age, h.predecessors)) = Range(g.age) \cap h.predecessors
    BY <2>1, KeptOk
  <2>3. h.predecessors \subseteq g.predecessors
    BY <1>2
  <2> QED
    BY <1>2, <2>1, <2>2, <2>3 DEF Aged
<1>6. TablesOk(h, N, M)
  BY <1>2, <1>3, <1>4, <1>5, <1>7 DEF TablesOk
<1> QED
  BY <1>2, <1>6 DEF h

-----------------------------------------------------------------------------
(* What the destroyer makes of a graph *)

CFGNodes == CFGNodeKind \X Nat

\* What the destroyer makes of a node, for every kind with a name of its own.
KeyOf(n) == <<IF IsIf(n) THEN "guard" ELSE n[1], n[2]>>

\* Nodes a graph may consist of: no statement or guard has two of them.
SoleNodes(N) ==
  /\ N \in SUBSET CFGNodes /\ Start \in N /\ HasNoops(N \ {Start})
  /\ \A m, n \in N : KeyOf(m) = KeyOf(n) => m = n

\* The nodes that say one of the keys, with the start, the jumps and the NOOPs.
NodesOf(keys) ==
  {n \in CFGNodes : n = Start \/ n[1] = "cricket" \/ (n[1] = "noop" /\ n[2] # 0) \/ KeyOf(n) \in keys}

\* The moves, returns and guards of the function that is optimised, and the
\* nodes its graph may have.
FunctionSays == Said(func.body, StatementKeys)

FunctionNodes == NodesOf(FunctionSays)

-----------------------------------------------------------------------------
(* CFGBuilder *)

\* The positions that make a node.
NodesAt(stmts) == {i \in DOMAIN stmts : stmts[i].op # "label"}

\* The node a position means: its own, or that of the next statement.
After(stmts, j) ==
  {i \in NodesAt(stmts) : i >= j /\ \A k \in j .. i-1 : stmts[k].op = "label"}

\* The nodes a label stands before.
Target(stmts, l) ==
  UNION {After(stmts, j) : j \in {k \in DOMAIN stmts : stmts[k] = LIRLabel(l)}}

\* Statements and labels that occur once each differ.
LEMMA OnceMeans ==
  ASSUME NEW stmts, EachOnceIn(stmts), NEW i \in DOMAIN stmts, NEW j \in DOMAIN stmts,
         i # j, stmts[i].op = stmts[j].op
  PROVE  /\ stmts[i].op = "label" => stmts[i].lab # stmts[j].lab
         /\ stmts[i].op \in {"stmt", "ret", "tjump"} => stmts[i].id # stmts[j].id
<1>1. Occurrence(stmts[i]) \cap Occurrence(stmts[j]) = {}
  BY DEF EachOnceIn, OccursOnce
<1>2. stmts[i].op = "label" => /\ Occurrence(stmts[i]) = {<<"label", stmts[i].lab>>}
                              /\ Occurrence(stmts[j]) = {<<"label", stmts[j].lab>>}
  BY DEF Occurrence
<1>3. stmts[i].op \in {"stmt", "ret"} => /\ Occurrence(stmts[i]) = {<<stmts[i].op, stmts[i].id>>}
                                        /\ Occurrence(stmts[j]) = {<<stmts[i].op, stmts[j].id>>}
  BY DEF Occurrence
<1>4. stmts[i].op = "tjump" => /\ Occurrence(stmts[i]) = {<<"guard", stmts[i].id>>}
                              /\ Occurrence(stmts[j]) = {<<"guard", stmts[j].id>>}
  BY DEF Occurrence
<1> QED
  BY <1>1, <1>2, <1>3, <1>4

\* Statements make nodes, each its own.
LEMMA NodesDiffer ==
  ASSUME NEW stmts, EachOnceIn(stmts)
  PROVE  /\ \A i \in NodesAt(stmts) :
              /\ CFGNode(stmts, i) \in CFGNodes
              /\ CFGNode(stmts, i)[1] \notin {"start", "noop"}
         /\ \A i, j \in NodesAt(stmts) : KeyOf(CFGNode(stmts, i)) = KeyOf(CFGNode(stmts, j)) => i = j
<1>1. \A i \in DOMAIN stmts : i \in Nat /\ stmts[i] \in LIRStatement
  BY SeqElements DEF EachOnceIn
<1>2. \A i \in NodesAt(stmts) :
        /\ i \in Nat /\ stmts[i].id \in Nat /\ stmts[i].op \in {"stmt", "ret", "jump", "tjump"}
  BY <1>1 DEF EachOnceIn, NodesAt, LIRStatement
<1>3. ASSUME NEW i \in NodesAt(stmts)
      PROVE  /\ stmts[i].op = "tjump" => CFGNode(stmts, i) \in {<<"if", stmts[i].id>>, <<"unless", stmts[i].id>>}
             /\ stmts[i].op = "jump"  => CFGNode(stmts, i) = <<"cricket", i>>
             /\ stmts[i].op = "stmt"  => CFGNode(stmts, i) = <<"stmt", stmts[i].id>>
             /\ stmts[i].op = "ret"   => CFGNode(stmts, i) = <<"ret", stmts[i].id>>
  BY DEF CFGNode
<1>4. \A i, j \in NodesAt(stmts) :
        i # j /\ stmts[i].op = stmts[j].op /\ stmts[i].op # "jump" => stmts[i].id # stmts[j].id
  BY <1>2, OnceMeans DEF NodesAt
<1>5. ASSUME NEW i \in NodesAt(stmts)
      PROVE  CFGNode(stmts, i) \in CFGNodes /\ CFGNode(stmts, i)[1] \notin {"start", "noop"}
  BY <1>2, <1>3 DEF CFGNodes, CFGNodeKind
<1>6. ASSUME NEW i \in NodesAt(stmts)
      PROVE  /\ stmts[i].op = "tjump" => KeyOf(CFGNode(stmts, i)) = <<"guard", stmts[i].id>>
             /\ stmts[i].op = "jump"  => KeyOf(CFGNode(stmts, i)) = <<"cricket", i>>
             /\ stmts[i].op = "stmt"  => KeyOf(CFGNode(stmts, i)) = <<"stmt", stmts[i].id>>
             /\ stmts[i].op = "ret"   => KeyOf(CFGNode(stmts, i)) = <<"ret", stmts[i].id>>
  BY <1>3 DEF KeyOf, IsIf
<1>7. ASSUME NEW i \in NodesAt(stmts), NEW j \in NodesAt(stmts),
             KeyOf(CFGNode(stmts, i)) = KeyOf(CFGNode(stmts, j))
      PROVE  i = j
  <2>1. stmts[i].op = stmts[j].op
    BY <1>2, <1>6, <1>7
  <2> QED
    BY <1>2, <1>4, <1>6, <1>7, <2>1
<1> QED
  BY <1>5, <1>7

\* A node, if it is no jump, says what its statement says.
LEMMA NodesSaid ==
  ASSUME NEW stmts, EachOnceIn(stmts), NEW i \in NodesAt(stmts)
  PROVE  CFGNode(stmts, i) \in NodesOf(Said(stmts, StatementKeys))
<1>1. i \in DOMAIN stmts /\ stmts[i].op # "label"
  BY DEF NodesAt
<1>2. stmts[i] \in LIRStatement /\ stmts[i].op # "cjump"
  BY <1>1, SeqElements DEF EachOnceIn
<1>3. stmts[i].op \in {"stmt", "ret", "jump", "tjump"} /\ (stmts[i].op = "tjump" => stmts[i].id = stmts[i].guard.on)
  BY <1>1, <1>2 DEF LIRStatement
<1>4. CFGNode(stmts, i) \in CFGNodes
  BY NodesDiffer
<1>5. \/ stmts[i].op = "jump" /\ CFGNode(stmts, i)[1] = "cricket"
      \/ /\ KeyOf(CFGNode(stmts, i)) \in StatementKeys[stmts[i]]
         /\ KeyOf(CFGNode(stmts, i))[1] # "label"
  <2>1. CASE stmts[i].op = "jump"
    BY <2>1 DEF CFGNode
  <2>2. CASE stmts[i].op \in {"stmt", "ret"}
    <3>1. CFGNode(stmts, i) = <<stmts[i].op, stmts[i].id>>
      BY <2>2 DEF CFGNode
    <3>2. KeyOf(CFGNode(stmts, i)) = <<stmts[i].op, stmts[i].id>>
      BY <2>2, <3>1 DEF KeyOf, IsIf
    <3>3. StatementKeys[stmts[i]] = {<<stmts[i].op, stmts[i].id>>}
      BY <1>2, <2>2, KeysOf
    <3> QED BY <2>2, <3>2, <3>3
  <2>3. CASE stmts[i].op = "tjump"
    <3>1. CFGNode(stmts, i) \in {<<"if", stmts[i].id>>, <<"unless", stmts[i].id>>}
      BY <2>3 DEF CFGNode
    <3>2. KeyOf(CFGNode(stmts, i)) = <<"guard", stmts[i].id>>
      BY <3>1 DEF KeyOf, IsIf
    <3>3. StatementKeys[stmts[i]] = {<<"guard", stmts[i].id>>}
      BY <1>2, <1>3, <2>3, KeysOf
    <3> QED BY <3>2, <3>3
  <2> QED BY <1>3, <2>1, <2>2, <2>3
<1> DEFINE n == CFGNode(stmts, i)
<1>6. StatementKeys[stmts[i]] \subseteq KeysIn(stmts, StatementKeys)
  BY <1>1 DEF KeysIn
<1>7. n[1] = "cricket" \/ KeyOf(n) \in Said(stmts, StatementKeys)
  BY <1>5, <1>6 DEF Said
<1> HIDE DEF n
<1> QED BY <1>4, <1>7 DEF NodesOf, n

\* A label stands before one node, and a node is fallen into from one place.
LEMMA OnePlace ==
  ASSUME NEW stmts, EachOnceIn(stmts)
  PROVE  /\ \A j \in Nat : \A i, k \in After(stmts, j) : i = k
         /\ \A l : \A i, k \in Target(stmts, l) : i = k
         /\ \A i, j \in NodesAt(stmts) \cup {0} : After(stmts, i + 1) \cap After(stmts, j + 1) # {} => i = j
<1>1. \A i \in DOMAIN stmts : i \in Nat /\ stmts[i] \in LIRStatement
  BY SeqElements DEF EachOnceIn
<1>2. ASSUME NEW j \in Nat, NEW i \in After(stmts, j), NEW k \in After(stmts, j) PROVE ~(i < k)
  BY <1>1 DEF After, NodesAt
<1>3. \A j \in Nat : \A i, k \in After(stmts, j) : i = k
  <2> SUFFICES ASSUME NEW j \in Nat, NEW i \in After(stmts, j), NEW k \in After(stmts, j)
               PROVE  i = k
    OBVIOUS
  <2>1. ~(i < k) /\ ~(k < i)
    BY <1>2
  <2>2. i \in Nat /\ k \in Nat
    BY <1>1 DEF After, NodesAt
  <2> QED
    BY <2>1, <2>2
<1>4. \A l : \A i, k \in {n \in DOMAIN stmts : stmts[n] = LIRLabel(l)} : i = k
  <2> SUFFICES ASSUME NEW l, NEW i \in DOMAIN stmts, NEW k \in DOMAIN stmts,
                      stmts[i] = LIRLabel(l), stmts[k] = LIRLabel(l), i # k
               PROVE  FALSE
    OBVIOUS
  <2>1. LIRLabel(l).op = "label"
    BY DEF LIRLabel, LIRStmt
  <2> QED
    BY <2>1, OnceMeans
<1>5. \A l : \A i, k \in Target(stmts, l) : i = k
  BY <1>1, <1>3, <1>4 DEF Target
<1>6. ASSUME NEW i \in NodesAt(stmts) \cup {0}, NEW j \in NodesAt(stmts) \cup {0}, i < j,
             NEW k \in After(stmts, i + 1), k \in After(stmts, j + 1)
      PROVE  FALSE
  <2>1. j \in NodesAt(stmts) /\ i \in Nat /\ j \in Nat /\ k \in Nat
    BY <1>1, <1>6 DEF NodesAt, After
  <2>2. j \in (i + 1) .. (k - 1)
    BY <1>6, <2>1 DEF After
  <2> QED
    BY <2>1, <2>2 DEF After, NodesAt
<1>7. ASSUME NEW i \in NodesAt(stmts) \cup {0}, NEW j \in NodesAt(stmts) \cup {0},
             After(stmts, i + 1) \cap After(stmts, j + 1) # {}
      PROVE  i = j
  <2>1. i \in Nat /\ j \in Nat
    BY <1>1 DEF NodesAt
  <2>2. i < j \/ j < i \/ i = j
    BY <2>1
  <2> QED
    BY <1>6, <1>7, <2>2
<1> QED
  BY <1>3, <1>5, <1>7

\* The edges CFGBuilder connects for a statement.
FallEdges(stmts, i) ==
  IF stmts[i].op \in {"stmt", "tjump"}
  THEN {<<CFGNode(stmts, i), CFGNode(stmts, k), FALSE>> : k \in After(stmts, i + 1)} ELSE {}

JumpEdges(stmts, i) ==
  IF stmts[i].op \in {"jump", "tjump"}
  THEN {<<CFGNode(stmts, i), CFGNode(stmts, k), TRUE>> : k \in Target(stmts, stmts[i].lab)} ELSE {}

BuiltEdges(stmts) ==
  {<<Start, CFGNode(stmts, k), FALSE>> : k \in After(stmts, 1)}
    \cup UNION {FallEdges(stmts, i) \cup JumpEdges(stmts, i) : i \in DOMAIN stmts}

\* The tables CFGBuilder makes hold these edges.
LEMMA CFGBuildEdges ==
  ASSUME NEW stmts, EachOnceIn(stmts), NEW g \in CFGBuild(stmts)
  PROVE  /\ g.successors = BuiltEdges(stmts) /\ g.predecessors = BuiltEdges(stmts)
         /\ g.noops = 0 /\ g.thrown \in BOOLEAN
         /\ g.age \in Seq(Edge(CFGNodes, CFGNodes)) /\ Range(g.age) = g.successors
         /\ g = [successors |-> g.successors, predecessors |-> g.predecessors, age |-> g.age,
                 noops |-> g.noops, thrown |-> g.thrown]
<1> DEFINE T == Edge(CFGNodes, CFGNodes)
           to(n, at, jump) == SetToSeq({<<n, CFGNode(stmts, i), jump>> : i \in at})
           fall(i) == IF stmts[i].op \in {"stmt", "tjump"}
                      THEN to(CFGNode(stmts, i), After(stmts, i + 1), FALSE) ELSE <<>>
           jump(i) == IF stmts[i].op \in {"jump", "tjump"}
                      THEN to(CFGNode(stmts, i), Target(stmts, stmts[i].lab), TRUE) ELSE <<>>
           pieces  == [i \in DOMAIN stmts |-> fall(i) \o jump(i)]
           made    == to(Start, After(stmts, 1), FALSE) \o FlattenSeq(pieces)
<1>1. g = [EmptyGraph EXCEPT !.successors = Range(made), !.predecessors = Range(made),
                             !.age = made,
                             !.thrown = stmts # <<>> /\ Last(stmts).op = "label"]
  BY DEF CFGBuild, After, Target, NodesAt
<1>2. ASSUME NEW n \in CFGNodes, NEW at \in SUBSET NodesAt(stmts), NEW b \in BOOLEAN
      PROVE  /\ to(n, at, b) \in Seq(T)
             /\ Range(to(n, at, b)) = {<<n, CFGNode(stmts, i), b>> : i \in at}
  <2> DEFINE S == {<<n, CFGNode(stmts, i), b>> : i \in at}
  <2>1. S \in SUBSET T
    BY NodesDiffer DEF Edge
  <2>2. IsFiniteSet(S)
    <3> DEFINE f == [i \in at |-> <<n, CFGNode(stmts, i), b>>]
    <3>1. IsFiniteSet(at)
      BY PositionsFinite DEF NodesAt, EachOnceIn
    <3>2. S = {f[i] : i \in at}
      OBVIOUS
    <3> HIDE DEF f, S
    <3> QED
      BY <3>1, <3>2, ImageFinite
  <2> HIDE DEF S, T
  <2>3. SetToSeq(S) \in Seq(T) /\ Range(SetToSeq(S)) = S
    BY <2>1, <2>2, SetToSeqOnto
  <2> QED
    BY <2>3 DEF S
<1>3. /\ Start \in CFGNodes
      /\ \A j : After(stmts, j) \in SUBSET NodesAt(stmts)
      /\ \A l : Target(stmts, l) \in SUBSET NodesAt(stmts)
  BY DEF Start, CFGNodes, CFGNodeKind, After, Target
<1>0. ASSUME NEW i \in DOMAIN stmts, stmts[i].op \in {"stmt", "jump", "tjump"}
      PROVE  CFGNode(stmts, i) \in CFGNodes
  <2>1. i \in NodesAt(stmts)
    BY <1>0 DEF NodesAt
  <2> QED
    BY <2>1, NodesDiffer
<1> HIDE DEF to, T
<1>e. <<>> \in Seq(T) /\ Range(<<>>) = {}
  BY DEF Range
<1>4. ASSUME NEW i \in DOMAIN stmts
      PROVE  /\ pieces[i] \in Seq(T)
             /\ Range(pieces[i]) = FallEdges(stmts, i) \cup JumpEdges(stmts, i)
  <2>1. fall(i) \in Seq(T) /\ Range(fall(i)) = FallEdges(stmts, i)
    <3>1. CASE stmts[i].op \in {"stmt", "tjump"}
      <4>1. fall(i) = to(CFGNode(stmts, i), After(stmts, i + 1), FALSE)
        BY <3>1
      <4>2. CFGNode(stmts, i) \in CFGNodes
        BY <1>0, <3>1
      <4>3. After(stmts, i + 1) \in SUBSET NodesAt(stmts)
        BY <1>3
      <4> HIDE DEF fall
      <4> QED
        BY <1>2, <3>1, <4>1, <4>2, <4>3 DEF FallEdges
    <3>2. CASE stmts[i].op \notin {"stmt", "tjump"}
      BY <1>e, <3>2 DEF FallEdges
    <3> QED
      BY <3>1, <3>2
  <2>2. jump(i) \in Seq(T) /\ Range(jump(i)) = JumpEdges(stmts, i)
    <3>1. CASE stmts[i].op \in {"jump", "tjump"}
      <4>1. jump(i) = to(CFGNode(stmts, i), Target(stmts, stmts[i].lab), TRUE)
        BY <3>1
      <4>2. CFGNode(stmts, i) \in CFGNodes
        BY <1>0, <3>1
      <4>3. Target(stmts, stmts[i].lab) \in SUBSET NodesAt(stmts)
        BY <1>3
      <4> HIDE DEF jump
      <4> QED
        BY <1>2, <3>1, <4>1, <4>2, <4>3 DEF JumpEdges
    <3>2. CASE stmts[i].op \notin {"jump", "tjump"}
      BY <1>e, <3>2 DEF JumpEdges
    <3> QED
      BY <3>1, <3>2
  <2>3. pieces[i] = fall(i) \o jump(i)
    OBVIOUS
  <2> HIDE DEF fall, jump, pieces
  <2>4. pieces[i] \in Seq(T) /\ Range(pieces[i]) = Range(fall(i)) \cup Range(jump(i))
    <3> DEFINE f == fall(i)
               j == jump(i)
    <3>1. f \in Seq(T) /\ j \in Seq(T)
      BY <2>1, <2>2
    <3> HIDE DEF f, j
    <3>2. f \o j \in Seq(T) /\ Range(f \o j) = Range(f) \cup Range(j)
      BY <3>1, ConcatRange
    <3> QED
      BY <2>3, <3>2 DEF f, j
  <2> QED
    BY <2>1, <2>2, <2>4
<1>5. DOMAIN pieces = DOMAIN stmts
  OBVIOUS
<1> HIDE DEF fall, jump
<1>6. pieces \in Seq(Seq(T))
  <2>1. pieces \in [DOMAIN stmts -> Seq(T)]
    BY <1>4
  <2> HIDE DEF pieces
  <2> QED
    BY <2>1, SameLength DEF EachOnceIn
<1> HIDE DEF pieces
<1>7. /\ FlattenSeq(pieces) \in Seq(T)
      /\ Range(FlattenSeq(pieces)) = UNION {Range(pieces[i]) : i \in DOMAIN stmts}
  BY <1>5, <1>6, FlattenRange
<1>8. /\ to(Start, After(stmts, 1), FALSE) \in Seq(T)
      /\ Range(to(Start, After(stmts, 1), FALSE)) = {<<Start, CFGNode(stmts, k), FALSE>> : k \in After(stmts, 1)}
  BY <1>2, <1>3
<1>9. Range(made) = BuiltEdges(stmts) /\ made \in Seq(T)
  <2> DEFINE s == to(Start, After(stmts, 1), FALSE)
             f == FlattenSeq(pieces)
  <2>1. s \in Seq(T) /\ f \in Seq(T)
    BY <1>7, <1>8
  <2>2. UNION {Range(pieces[i]) : i \in DOMAIN stmts}
          = UNION {FallEdges(stmts, i) \cup JumpEdges(stmts, i) : i \in DOMAIN stmts}
    BY <1>4
  <2> HIDE DEF s, f
  <2>3. s \o f \in Seq(T) /\ Range(s \o f) = Range(s) \cup Range(f)
    BY <2>1, ConcatRange
  <2> QED
    BY <1>7, <1>8, <2>2, <2>3 DEF BuiltEdges, s, f
<1> HIDE DEF made
<1> QED
  BY <1>1, <1>9 DEF EmptyGraph, T


\* What CFGBuilder makes of a list in which each statement and each label
\* occurs once is in order: no require of Successors.set refuses an edge, and no
\* two statements fall into one (CFGBuilder.kt 17-79, CFGNode.resolveEdges).
LEMMA CFGBuildOk ==
  ASSUME NEW stmts, EachOnceIn(stmts), NEW g \in CFGBuild(stmts)
  PROVE  \E N \in SUBSET NodesOf(Said(stmts, StatementKeys)) :
           SoleNodes(N) /\ TablesOk(g, N, N \ {Start})
<1> DEFINE Made0 == {NOOP(k) : k \in Nat \ {0}}
           S == {CFGNode(stmts, i) : i \in NodesAt(stmts)}
           N == {Start} \cup S \cup Made0
           M == N \ {Start}
           E == BuiltEdges(stmts)
           P == NodesAt(stmts) \cup {0}
           Origin(i) == IF i = 0 THEN Start ELSE CFGNode(stmts, i)
           Falls(e) == \E i \in P : \E k \in After(stmts, i + 1) :
                         e = <<Origin(i), CFGNode(stmts, k), FALSE>>
           Jumps(e) == \E i \in P : \E k \in Target(stmts, stmts[i].lab) :
                         e = <<Origin(i), CFGNode(stmts, k), TRUE>>
<1>1. /\ \A i \in NodesAt(stmts) : i \in Nat /\ i # 0
      /\ 0 + 1 = 1
  <2>1. NodesAt(stmts) \subseteq DOMAIN stmts
    BY DEF NodesAt
  <2>2. \A i \in DOMAIN stmts : i \in Nat /\ i # 0
    BY DEF EachOnceIn
  <2> QED
    BY <2>1, <2>2
<1>2. /\ \A j : After(stmts, j) \subseteq NodesAt(stmts)
      /\ \A l : Target(stmts, l) \subseteq NodesAt(stmts)
  BY DEF After, Target
<1>3. /\ Origin(0) = Start
      /\ \A i \in NodesAt(stmts) : Origin(i) = CFGNode(stmts, i)
      /\ \A i \in P : Origin(i) \in {Start} \cup S /\ Origin(i)[1] # "noop"
      /\ \A i, j \in P : Origin(i) = Origin(j) => i = j
  <2>1. Start[1] = "start"
    BY DEF Start
  <2> QED
    BY <1>1, <2>1, NodesDiffer
<1>4. ASSUME NEW e \in E PROVE Falls(e) \/ Jumps(e)
  <2> HIDE DEF Origin, S, Made0
  <2>1. CASE e \in {<<Start, CFGNode(stmts, k), FALSE>> : k \in After(stmts, 1)}
    BY <1>1, <1>3, <2>1
  <2>2. CASE \E i \in DOMAIN stmts : e \in FallEdges(stmts, i)
    <3>1. PICK i \in DOMAIN stmts : e \in FallEdges(stmts, i)
      BY <2>2
    <3>2. i \in NodesAt(stmts)
      BY <3>1 DEF FallEdges, NodesAt
    <3>3. Origin(i) = CFGNode(stmts, i)
      BY <1>3, <3>2
    <3> QED
      BY <3>1, <3>2, <3>3 DEF FallEdges
  <2>3. CASE \E i \in DOMAIN stmts : e \in JumpEdges(stmts, i)
    <3>1. PICK i \in DOMAIN stmts : e \in JumpEdges(stmts, i)
      BY <2>3
    <3>2. i \in NodesAt(stmts)
      BY <3>1 DEF JumpEdges, NodesAt
    <3>3. Origin(i) = CFGNode(stmts, i)
      BY <1>3, <3>2
    <3> QED
      BY <3>1, <3>2, <3>3 DEF JumpEdges
  <2> QED
    BY <2>1, <2>2, <2>3 DEF BuiltEdges
<1> HIDE DEF E, Origin, S, Made0
<1>a. ASSUME NEW e PROVE (Falls(e) => ~e[3]) /\ (Jumps(e) => e[3])
  <2>1. ASSUME Falls(e) PROVE ~e[3]
    <3>1. PICK i \in P : \E k \in After(stmts, i + 1) : e = <<Origin(i), CFGNode(stmts, k), FALSE>>
      BY <2>1
    <3>2. PICK k : e = <<Origin(i), CFGNode(stmts, k), FALSE>>
      BY <3>1
    <3> QED
      BY <3>2
  <2>2. ASSUME Jumps(e) PROVE e[3]
    <3>1. PICK i \in P : \E k \in Target(stmts, stmts[i].lab) : e = <<Origin(i), CFGNode(stmts, k), TRUE>>
      BY <2>2
    <3>2. PICK k : e = <<Origin(i), CFGNode(stmts, k), TRUE>>
      BY <3>1
    <3> QED
      BY <3>2
  <2> QED
    BY <2>1, <2>2
<1>5. ASSUME NEW e \in E, NEW f \in E, e[1] = f[1], e[3] = f[3] PROVE e = f
  <2>1. CASE Falls(e) /\ Falls(f)
    <3>1. PICK i \in P : \E k \in After(stmts, i + 1) : e = <<Origin(i), CFGNode(stmts, k), FALSE>>
      BY <2>1
    <3>2. PICK j \in P : \E k \in After(stmts, j + 1) : f = <<Origin(j), CFGNode(stmts, k), FALSE>>
      BY <2>1
    <3>3. i = j /\ i + 1 \in Nat
      BY <1>1, <1>3, <1>5, <3>1, <3>2
    <3>4. \A k, m \in After(stmts, i + 1) : k = m
      BY <3>3, OnePlace
    <3> QED
      BY <3>1, <3>2, <3>3, <3>4
  <2>2. CASE Jumps(e) /\ Jumps(f)
    <3>1. PICK i \in P : \E k \in Target(stmts, stmts[i].lab) : e = <<Origin(i), CFGNode(stmts, k), TRUE>>
      BY <2>2
    <3>2. PICK j \in P : \E k \in Target(stmts, stmts[j].lab) : f = <<Origin(j), CFGNode(stmts, k), TRUE>>
      BY <2>2
    <3>3. i = j
      BY <1>3, <1>5, <3>1, <3>2
    <3>4. \A k, m \in Target(stmts, stmts[i].lab) : k = m
      BY OnePlace
    <3> QED
      BY <3>1, <3>2, <3>3, <3>4
  <2>3. (Falls(e) \/ Jumps(e)) /\ (Falls(f) \/ Jumps(f))
    BY <1>4
  <2> HIDE DEF Falls, Jumps
  <2> QED
    BY <1>5, <1>a, <2>1, <2>2, <2>3
<1>6. ASSUME NEW e \in E, NEW f \in E, e[2] = f[2], ~e[3], ~f[3] PROVE e = f
  <2>1. Falls(e) /\ Falls(f)
    <3> HIDE DEF Falls, Jumps
    <3> QED
      BY <1>4, <1>6, <1>a
  <2>2. PICK i \in P : \E k \in After(stmts, i + 1) : e = <<Origin(i), CFGNode(stmts, k), FALSE>>
    BY <2>1
  <2>3. PICK k \in After(stmts, i + 1) : e = <<Origin(i), CFGNode(stmts, k), FALSE>>
    BY <2>2
  <2>4. PICK j \in P : \E m \in After(stmts, j + 1) : f = <<Origin(j), CFGNode(stmts, m), FALSE>>
    BY <2>1
  <2>5. PICK m \in After(stmts, j + 1) : f = <<Origin(j), CFGNode(stmts, m), FALSE>>
    BY <2>4
  <2>6. k = m
    BY <1>2, <1>6, <2>3, <2>5, NodesDiffer
  <2>7. i = j
    BY <2>6, OnePlace
  <2> QED
    BY <2>3, <2>5, <2>6, <2>7
<1>7. ASSUME NEW e \in E
      PROVE  e \in Edge(N, M) /\ e[1][1] # "noop" /\ e[2][1] # "noop"
  <2>1. PICK i \in P : \E k \in NodesAt(stmts) : \E b \in BOOLEAN : e = <<Origin(i), CFGNode(stmts, k), b>>
    BY <1>2, <1>4
  <2>2. PICK k \in NodesAt(stmts) : \E b \in BOOLEAN : e = <<Origin(i), CFGNode(stmts, k), b>>
    BY <2>1
  <2>3. PICK b \in BOOLEAN : e = <<Origin(i), CFGNode(stmts, k), b>>
    BY <2>2
  <2>4. CFGNode(stmts, k) \in S /\ CFGNode(stmts, k)[1] # "noop" /\ CFGNode(stmts, k) # Start
    BY NodesDiffer DEF Start, S
  <2> QED
    BY <1>3, <2>3, <2>4 DEF Edge
<1>8. /\ g.successors = E /\ g.predecessors = E /\ g.noops = 0 /\ g.thrown \in BOOLEAN
      /\ g = [successors |-> g.successors, predecessors |-> g.predecessors, age |-> g.age,
              noops |-> g.noops, thrown |-> g.thrown]
  BY CFGBuildEdges DEF E
<1>9. IsFiniteSet(E)
  <2>1. E = Range(g.age)
    BY CFGBuildEdges DEF E
  <2>2. g.age \in Seq(Edge(CFGNodes, CFGNodes))
    BY CFGBuildEdges
  <2> QED
    BY <2>1, <2>2, RangeFinite
<1>10. SoleNodes(N)
  <2>1. \A n \in S : \E i \in NodesAt(stmts) : n = CFGNode(stmts, i)
    BY DEF S
  <2>2. \A n \in S : n \in CFGNodes /\ KeyOf(n)[1] \notin {"start", "noop"}
    BY <2>1, NodesDiffer DEF KeyOf, IsIf
  <2>3. \A m, n \in S : KeyOf(m) = KeyOf(n) => m = n
    BY <2>1, NodesDiffer
  <2>4. \A m, n \in Made0 : KeyOf(m) = KeyOf(n) => m = n
    BY DEF Made0, KeyOf, NOOP, IsIf
  <2>5. \A n \in Made0 : n \in CFGNodes /\ n # Start /\ KeyOf(n)[1] = "noop"
    BY DEF Made0, KeyOf, NOOP, IsIf, Start, CFGNodes, CFGNodeKind
  <2>6. KeyOf(Start)[1] = "start" /\ Start \in CFGNodes
    BY DEF KeyOf, IsIf, Start, CFGNodes, CFGNodeKind
  <2>7. HasNoops(N \ {Start})
    BY <2>5 DEF HasNoops, Made0
  <2>8. \A m, n \in N : KeyOf(m) = KeyOf(n) => m = n
    BY <2>2, <2>3, <2>4, <2>5, <2>6
  <2> QED
    BY <2>2, <2>5, <2>6, <2>7, <2>8 DEF SoleNodes
<1>14. N \subseteq NodesOf(Said(stmts, StatementKeys))
  <2>1. S \subseteq NodesOf(Said(stmts, StatementKeys))
    BY NodesSaid DEF S
  <2>2. Start \in NodesOf(Said(stmts, StatementKeys))
    BY DEF NodesOf, Start, CFGNodes, CFGNodeKind
  <2>3. Made0 \subseteq NodesOf(Said(stmts, StatementKeys))
    BY DEF Made0, NodesOf, NOOP, CFGNodes, CFGNodeKind
  <2> QED BY <2>1, <2>2, <2>3
<1> HIDE DEF N, M
<1>11. g \in Graph(N, M, g.age)
  <2>1. E \in SUBSET Edge(N, M)
    BY <1>7
  <2> QED
    BY <1>8, <2>1 DEF Graph
<1>12. Mirrored(g) /\ OneWayOut(g) /\ OneFallIn(g)
  BY <1>5, <1>6, <1>8 DEF Mirrored, OneWayOut, OneFallIn
<1>13. \A e \in g.successors : Made(g, e[1]) /\ Made(g, e[2])
  BY <1>7, <1>8 DEF Made, NOOP
<1>15. Aged(g, N, M)
  <2>1. /\ g.age \in Seq(Edge(CFGNodes, CFGNodes)) /\ Range(g.age) = E
    BY <1>8, CFGBuildEdges
  <2>2. E \subseteq Edge(N, M)
    BY <1>7
  <2>3. g.age \in Seq(Edge(N, M))
    BY <2>1, <2>2, SeqOver
  <2> QED BY <1>8, <2>1, <2>3 DEF Aged
<1>16. TablesOk(g, N, M)
  BY <1>8, <1>9, <1>11, <1>12, <1>13, <1>15 DEF TablesOk
<1> QED
  BY <1>10, <1>14, <1>16 DEF M

-----------------------------------------------------------------------------
(* The passes *)

\* TablesAgree with what makes it inductive: the NOOPs still to be made are on
\* no edge, and a node that predecessors are being linked to is no such NOOP.
GraphOver(N) ==
  /\ SoleNodes(N)
  /\ TablesOk(mm, N, N \ {Start})
  /\ link # NoLink =>
       /\ pc \in {"ifs", "dce"}
       /\ link = [node |-> link.node, to |-> link.to, jump |-> link.jump, preds |-> link.preds]
       /\ link.to \in N \ {Start} /\ Made(mm, link.to)

GraphInv == \E N \in SUBSET FunctionNodes : GraphOver(N)

\* What is laid out and what CFGBuilder is given has no move, return or guard
\* that the function does not have.
SaysInv ==
  /\ pc = "reorder" => Said(nodes, NodeKeys) \subseteq FunctionSays
  /\ pc = "build" => Said(block, StatementKeys) \subseteq FunctionSays

\* removeAndLink takes a node that leads nowhere out, throws, or begins to link
\* its predecessors to its successor (MatchMaker.kt 190-224).
LEMMA RemoveAndLinkOk ==
  ASSUME NEW N, GraphOver(N), NEW n \in N, link = NoLink, pc \in {"ifs", "dce"}, pc' = pc, removeAndLink(n)
  PROVE  GraphOver(N)'
<1> DEFINE to == fallThrough(mm, n) \cup jumpingTo(mm, n)
           M == N \ {Start}
<1>1. CASE to = {}
  <2>1. mm' = removeNode(mm, n) /\ link' = link
    BY <1>1 DEF removeAndLink
  <2>2. TablesOk(mm', N, M)
    BY <2>1, RemoveNodeOk DEF GraphOver
  <2> QED
    BY <2>1, <2>2 DEF GraphOver
<1>2. CASE to # {} /\ fallThrough(mm, n) # {} /\ jumpingTo(mm, n) # {}
  <2>1. mm' = [mm EXCEPT !.thrown = TRUE] /\ link' = link
    BY <1>2 DEF removeAndLink
  <2>2. TablesOk(mm', N, M)
    BY <2>1, ThrownOk DEF GraphOver
  <2> QED
    BY <2>1, <2>2 DEF GraphOver
<1>3. CASE to # {} /\ ~(fallThrough(mm, n) # {} /\ jumpingTo(mm, n) # {})
  <2>1. /\ mm' = mm
        /\ link' \in [node : {n}, to : to, jump : {jumpingTo(mm, n) # {}},
                      preds : {predecessorsOf(mm, n)}]
    BY <1>3 DEF removeAndLink
  <2>2. \A c \in to : c \in M /\ Made(mm, c)
    <3>1. \A e \in mm.successors : e[2] \in M /\ Made(mm, e[2])
      BY DEF GraphOver, TablesOk, Graph, Edge
    <3> QED
      BY <3>1 DEF fallThrough, jumpingTo
  <2> HIDE DEF to
  <2>3. /\ link'.to \in to
        /\ link' = [node |-> link'.node, to |-> link'.to, jump |-> link'.jump, preds |-> link'.preds]
    BY <2>1
  <2> QED
    BY <2>1, <2>2, <2>3 DEF GraphOver
<1> QED
  BY <1>1, <1>2, <1>3

\* It is one function from the first step to the last.
LEMMA SameFunction ==
  ASSUME [Next]_vars
  PROVE  func' = func /\ FunctionSays' = FunctionSays /\ FunctionNodes' = FunctionNodes
<1>1. func' = func
  BY DEF Next, vars, Reorder, NewTrace, ExtendTrace, EndReorder, Build, removeUnreachables, EndCCP,
         LinkPredecessor, ensureIfsAreOk, EndIfs, deleteDeadAssigns, EndDCE, CopyProp, Destroy, FinalDestroy
<1>2. FunctionSays' = FunctionSays
  BY <1>1 DEF FunctionSays
<1> QED BY <1>1, <1>2 DEF FunctionNodes

\* Every step of every pass keeps GraphInv.
LEMMA StepKeepsGraphInv ==
  ASSUME GraphInv, EachOnce, SaysInv, [Next]_vars
  PROVE  GraphInv'
<1>0. PICK N \in SUBSET FunctionNodes : GraphOver(N)
  BY DEF GraphInv
<1>11. FunctionSays' = FunctionSays /\ FunctionNodes' = FunctionNodes
  BY SameFunction
<1>12. GraphOver(N)' => GraphInv'
  BY <1>11 DEF GraphInv
<1> DEFINE M == N \ {Start}
<1>1. \A e \in mm.successors \cup mm.predecessors : e[1] \in N /\ e[2] \in N
  BY <1>0 DEF GraphOver, TablesOk, Graph, Edge, Mirrored
<1>2. CASE Build
  <2>1. mm' \in CFGBuild(block) /\ link' = NoLink /\ EachOnceIn(block)
    BY <1>0, <1>2 DEF Build, EachOnce, GraphOver
  <2>2. PICK S \in SUBSET NodesOf(Said(block, StatementKeys)) :
          SoleNodes(S) /\ TablesOk(mm', S, S \ {Start})
    BY <2>1, CFGBuildOk
  <2>3. GraphOver(S)'
    BY <2>1, <2>2 DEF GraphOver
  <2>4. S \subseteq FunctionNodes
    <3>1. Said(block, StatementKeys) \subseteq FunctionSays
      BY <1>2 DEF Build, SaysInv
    <3>2. NodesOf(Said(block, StatementKeys)) \subseteq FunctionNodes
      BY <3>1 DEF NodesOf, FunctionNodes
    <3> QED BY <2>2, <3>2
  <2> QED
    BY <1>11, <2>3, <2>4 DEF GraphInv
<1>3. ASSUME NEW e \in mm.predecessors, removeUnreachables(e)
      PROVE  GraphOver(N)'
  <2> DEFINE cut == removeConnection(mm, e[1], e[2], e[3])
  <2>1. link = NoLink /\ link' = link /\ (mm' = cut \/ mm' = removeNode(cut, e[1]))
    BY <1>3 DEF removeUnreachables, Running
  <2>2. TablesOk(cut, N, M)
    BY <1>0, RemoveConnectionOk DEF GraphOver
  <2> HIDE DEF cut
  <2>3. TablesOk(removeNode(cut, e[1]), N, M)
    BY <1>1, <2>2, RemoveNodeOk
  <2> QED
    BY <1>0, <2>1, <2>2, <2>3 DEF GraphOver
<1>4. CASE LinkPredecessor
  <2> DEFINE a == Head(link.preds)
  <2>1. /\ mm' = translate(mm, a, link.node, link.to)
        /\ link # NoLink /\ pc' = pc
        /\ link' = NoLink \/ link' = [link EXCEPT !.preds = Tail(@)]
    BY <1>4 DEF LinkPredecessor
  <2> HIDE DEF a
  <2>2. /\ pc \in {"ifs", "dce"} /\ link.to \in M /\ Made(mm, link.to)
        /\ TablesOk(mm, N, M)
    BY <1>0, <2>1 DEF GraphOver
  <2>3. TablesOk(mm', N, M) /\ mm'.noops >= mm.noops
    BY <2>1, <2>2, <1>0, TranslateOk DEF GraphOver, SoleNodes
  <2>4. Made(mm', link.to)
    <3>1. mm.noops \in Nat /\ mm'.noops \in Nat
      BY <2>2, <2>3 DEF TablesOk, Graph
    <3> QED
      BY <2>2, <2>3, <3>1 DEF Made
  <2>5. ASSUME link' = NoLink PROVE GraphOver(N)'
    BY <1>0, <2>3, <2>5 DEF GraphOver
  <2>6. ASSUME link' = [link EXCEPT !.preds = Tail(@)] PROVE GraphOver(N)'
    <3>1. /\ link'.to = link.to
          /\ link' = [node |-> link'.node, to |-> link'.to, jump |-> link'.jump, preds |-> link'.preds]
      BY <1>0, <2>1, <2>6 DEF GraphOver
    <3> QED
      BY <1>0, <2>1, <2>2, <2>3, <2>4, <3>1 DEF GraphOver
  <2> QED
    BY <1>12, <2>1, <2>5, <2>6
<1>5. ASSUME NEW n \in UselessIfs, ensureIfsAreOk(n)
      PROVE  GraphOver(N)'
  <2>1. n \in N
    BY <1>1 DEF UselessIfs
  <2> QED
    BY <1>0, <1>5, <2>1, RemoveAndLinkOk DEF ensureIfsAreOk, Running
<1>6. ASSUME NEW n \in DeadMoves, deleteDeadAssigns(n)
      PROVE  GraphOver(N)'
  <2>1. n \in N
    BY <1>1 DEF DeadMoves
  <2> QED
    BY <1>0, <1>6, <2>1, RemoveAndLinkOk DEF deleteDeadAssigns, Running
<1>7. ASSUME UNCHANGED <<mm, link>>, pc' = pc \/ link = NoLink
      PROVE  GraphInv'
  <2>1. GraphOver(N)'
    BY <1>0, <1>7 DEF GraphOver
  <2> QED
    BY <1>12, <2>1
<1>8. CASE Reorder \/ EndReorder
  <2>1. UNCHANGED <<mm, link>> /\ (pc' = pc \/ pc = "reorder")
    BY <1>8 DEF Reorder, EndReorder
  <2>2. pc = "reorder" => link = NoLink
    BY <1>0 DEF GraphOver
  <2> QED
    BY <1>7, <2>1, <2>2
<1>9. CASE EndCCP \/ EndIfs \/ EndDCE \/ CopyProp \/ Destroy \/ FinalDestroy
  <2>1. UNCHANGED <<mm, link>> /\ link = NoLink
    BY <1>9 DEF EndCCP, EndIfs, EndDCE, CopyProp, Destroy, FinalDestroy, Running
  <2> QED
    BY <1>7, <2>1
<1>10. CASE UNCHANGED vars
  BY <1>7, <1>10 DEF vars
<1> QED
  BY <1>2, <1>3, <1>4, <1>5, <1>6, <1>8, <1>9, <1>10, <1>12 DEF Next

-----------------------------------------------------------------------------
(* CFGDestroyer *)

\* A way through the graph from n by fall-throughs alone.
IsPath(t, n) ==
  /\ Len(t) >= 1 /\ t[1] = n
  /\ \A i \in 1 .. Len(t) - 1 : <<t[i], t[i+1], FALSE>> \in mm.successors

Paths(N, n) == {t \in Seq(N) : IsPath(t, n)}

\* Following one more fall-through makes a longer way.
LEMMA OnwardPath ==
  ASSUME NEW N, TablesOk(mm, N, N \ {Start}), NEW n \in N, NEW t \in Paths(N, n)
  PROVE  LET m == fallThrough(mm, Last(t))
         IN  (IF m = {} THEN t ELSE Append(t, CHOOSE x \in m : TRUE)) \in Paths(N, n)
<1> DEFINE m == fallThrough(mm, Last(t))
           x == CHOOSE y \in m : TRUE
<1>1. /\ t \in Seq(N) /\ Len(t) >= 1 /\ Len(t) \in Nat /\ t[1] = n
      /\ \A i \in 1 .. Len(t) - 1 : <<t[i], t[i+1], FALSE>> \in mm.successors
  <2>1. t \in Seq(N) /\ IsPath(t, n)
    BY DEF Paths
  <2>2. Len(t) \in Nat
    BY <2>1
  <2> QED BY <2>1, <2>2, Zenon DEF IsPath
<1>2. ASSUME m # {} PROVE Append(t, x) \in Paths(N, n)
  <2>1. x \in m
    BY <1>2
  <2> HIDE DEF x
  <2>2. PICK e \in mm.successors : e[1] = Last(t) /\ ~e[3] /\ e[2] = x
    BY <2>1 DEF fallThrough
  <2>3. e \in N \X (N \ {Start}) \X BOOLEAN
    BY DEF TablesOk, Graph, Edge
  <2>4. x \in N /\ <<t[Len(t)], x, FALSE>> \in mm.successors
    <3>1. e = <<e[1], e[2], e[3]>> /\ e[2] \in N /\ e[3] \in BOOLEAN
      BY <2>3
    <3>2. e[3] = FALSE
      BY <2>2, <3>1
    <3>3. e = <<t[Len(t)], x, FALSE>>
      BY <2>2, <3>1, <3>2 DEF Last
    <3> QED BY <2>2, <3>1, <3>3
  <2> DEFINE u == Append(t, x)
  <2>5. /\ u \in Seq(N) /\ Len(u) = Len(t) + 1 /\ u[Len(t) + 1] = x
        /\ \A i \in 1 .. Len(t) : u[i] = t[i]
    BY <1>1, <2>4
  <2> HIDE DEF u
  <2>6. ASSUME NEW i \in 1 .. Len(u) - 1 PROVE <<u[i], u[i+1], FALSE>> \in mm.successors
    <3>1. CASE i = Len(t)
      <4>1. u[i] = t[Len(t)] /\ u[i+1] = x
        BY <1>1, <2>5, <3>1
      <4> QED BY <2>4, <4>1
    <3>2. CASE i # Len(t)
      <4>1. i \in 1 .. Len(t) - 1 /\ i \in 1 .. Len(t) /\ i + 1 \in 1 .. Len(t)
        BY <1>1, <2>5, <3>2
      <4> QED BY <1>1, <2>5, <4>1
    <3> QED BY <3>1, <3>2
  <2>7. Len(u) >= 1 /\ u[1] = n
    BY <1>1, <2>5
  <2>8. IsPath(u, n)
    BY <2>6, <2>7 DEF IsPath
  <2> QED BY <2>5, <2>8 DEF Paths, u
<1> QED BY <1>2

\* CFGDestroyer's trace from a node is such a way.
LEMMA TracePath ==
  ASSUME NEW N, TablesOk(mm, N, N \ {Start}), NEW n \in N
  PROVE  Trace(n) \in Paths(N, n)
<1> DEFINE b == Cardinality(mm.successors)
           T == Paths(N, n)
           Onward(t) == LET m == fallThrough(mm, Last(t))
                        IN  IF m = {} THEN t ELSE Append(t, CHOOSE x \in m : TRUE)
           F == [p \in (1 .. b) \X T |-> Onward(p[2])]
           walk[k \in 0 .. b] ==
             IF k = 0 THEN <<n>> ELSE CHOOSE t \in {Onward(u) : u \in {walk[k-1]}} : TRUE
<1>1. b \in Nat
  BY FS_CardinalityType DEF TablesOk
<1>2. \A t \in T : Onward(t) \in T
  BY OnwardPath
<1>3. <<n>> \in T
  <2> DEFINE s == <<n>>
  <2>1. s \in Seq(N) /\ Len(s) = 1 /\ s[1] = n
    OBVIOUS
  <2> HIDE DEF s
  <2>2. IsPath(s, n)
    BY <2>1 DEF IsPath
  <2>3. s \in T
    BY <2>1, <2>2 DEF Paths
  <2> QED BY <2>3 DEF s
<1>4. Trace(n) = walk[b]
  BY DEF Trace
<1>5. F \in [(1 .. b) \X T -> T]
  BY <1>2
<1>6. \A k \in 1 .. b : \A x \in T : F[<<k, x>>] = Onward(x)
  <2> HIDE DEF Onward
  <2> QED OBVIOUS
<1>7. \A x : Onward(x) = CHOOSE t \in {Onward(u) : u \in {x}} : TRUE
  <2> HIDE DEF Onward
  <2> QED OBVIOUS
<1> DEFINE Step(x) == CHOOSE t \in {Onward(u) : u \in {x}} : TRUE
<1>8. walk = CHOOSE f : f = [k \in 0 .. b |-> IF k = 0 THEN <<n>> ELSE Step(f[k-1])]
  OBVIOUS
<1>9. \A x : Step(x) = Onward(x)
  BY <1>7
<1> HIDE DEF b, T, walk, F, Onward, Step
<1>10. PICK w : Solves(w, T, <<n>>, b, F)
  BY <1>1, <1>3, <1>5, RecursionExists
<1>11. /\ w \in [0 .. b -> T] /\ w[0] = <<n>>
       /\ \A k \in 1 .. b : w[k] = Step(w[k-1])
  <2>1. \A k \in 1 .. b : k - 1 \in 0 .. b
    BY <1>1
  <2> QED BY <1>6, <1>9, <1>10, <2>1 DEF Solves
<1>12. walk = [k \in 0 .. b |-> IF k = 0 THEN <<n>> ELSE Step(walk[k-1])]
  <2>1. w = [k \in 0 .. b |-> IF k = 0 THEN <<n>> ELSE Step(w[k-1])]
    <3>1. \A k \in 0 .. b : k # 0 => k \in 1 .. b
      BY <1>1
    <3> QED BY <1>11, <3>1
  <2>2. \E f : f = [k \in 0 .. b |-> IF k = 0 THEN <<n>> ELSE Step(f[k-1])]
    BY <2>1
  <2> QED BY <1>8, <2>2
<1> DEFINE S == {k \in 0 .. b : walk[k] \in T}
<1>13. 0 \in S
  BY <1>1, <1>3, <1>12
<1>14. ASSUME NEW k \in S, k < b PROVE k + 1 \in S
  <2>1. k \in 0 .. b /\ walk[k] \in T
    OBVIOUS
  <2> HIDE DEF S
  <2>2. k + 1 \in 0 .. b /\ (k + 1) - 1 = k /\ k + 1 # 0
    BY <1>1, <1>14, <2>1
  <2>3. walk[k + 1] = Step(walk[k])
    BY <1>12, <2>2
  <2>4. walk[k + 1] \in T
    BY <1>2, <1>9, <2>1, <2>3
  <2> QED BY <2>2, <2>4 DEF S
<1>15. S = 0 .. b /\ b \in 0 .. b
  <2>1. S \in SUBSET (0 .. b)
    BY DEF S
  <2> HIDE DEF S
  <2> QED BY <1>1, <1>13, <1>14, <2>1, IntervalSet
<1> QED BY <1>4, <1>15 DEF S, T

\* Two ways from nodes that nothing falls into meet nowhere.
LEMMA PathsApart ==
  ASSUME NEW N, TablesOk(mm, N, N \ {Start}),
         NEW m, NEW n, ~FallsInto(mm, m), ~FallsInto(mm, n),
         NEW t \in Paths(N, m), NEW u \in Paths(N, n)
  PROVE  \A i \in DOMAIN t, j \in DOMAIN u : t[i] = u[j] => m = n /\ i = j
<1> DEFINE l == Len(t)
           S == {i \in 0 .. l : i # 0 => \A j \in DOMAIN u : t[i] = u[j] => m = n /\ i = j}
<1>1. /\ l \in Nat /\ l >= 1 /\ DOMAIN t = 1 .. l /\ t[1] = m
      /\ \A i \in 1 .. l - 1 : <<t[i], t[i+1], FALSE>> \in mm.successors
      /\ Len(u) \in Nat /\ DOMAIN u = 1 .. Len(u) /\ u[1] = n
      /\ \A i \in 1 .. Len(u) - 1 : <<u[i], u[i+1], FALSE>> \in mm.successors
  <2>1. t \in Seq(N) /\ IsPath(t, m) /\ u \in Seq(N) /\ IsPath(u, n)
    BY DEF Paths
  <2>2. /\ Len(t) \in Nat /\ DOMAIN t = 1 .. Len(t)
        /\ Len(u) \in Nat /\ DOMAIN u = 1 .. Len(u)
    BY <2>1
  <2> QED BY <2>1, <2>2, Zenon DEF IsPath
<1> HIDE DEF l
<1>2. \A x, y : <<x, y, FALSE>> \in mm.successors => FallsInto(mm, y) /\ <<x, y, FALSE>> \in mm.predecessors
  <2> SUFFICES ASSUME NEW x, NEW y, <<x, y, FALSE>> \in mm.successors
               PROVE  FallsInto(mm, y) /\ <<x, y, FALSE>> \in mm.predecessors
    OBVIOUS
  <2> DEFINE e == <<x, y, FALSE>>
  <2>1. e \in mm.predecessors
    BY DEF TablesOk, Mirrored
  <2>2. e[2] = y /\ ~e[3]
    OBVIOUS
  <2> HIDE DEF e
  <2>3. FallsInto(mm, y)
    BY <2>1, <2>2 DEF FallsInto
  <2> QED BY <2>1, <2>3 DEF e
<1>3. \A x, y, z : <<x, z, FALSE>> \in mm.successors /\ <<y, z, FALSE>> \in mm.successors => x = y
  <2> SUFFICES ASSUME NEW x, NEW y, NEW z, <<x, z, FALSE>> \in mm.successors, <<y, z, FALSE>> \in mm.successors
               PROVE  x = y
    OBVIOUS
  <2>1. <<x, z, FALSE>> \in mm.predecessors /\ <<y, z, FALSE>> \in mm.predecessors
    BY <1>2
  <2>2. <<x, z, FALSE>> = <<y, z, FALSE>>
    <3> DEFINE e == <<x, z, FALSE>>
               f == <<y, z, FALSE>>
    <3>1. e \in mm.predecessors /\ f \in mm.predecessors /\ e[2] = f[2] /\ ~e[3] /\ ~f[3]
      BY <2>1
    <3> HIDE DEF e, f
    <3>2. e = f
      BY <3>1 DEF TablesOk, OneFallIn
    <3> QED BY <3>2 DEF e, f
  <2> QED BY <2>2
<1>4. 0 \in S
  BY <1>1
<1>5. ASSUME NEW i \in S, i < l PROVE i + 1 \in S
  <2>1. i \in 0 .. l /\ (i # 0 => \A j \in DOMAIN u : t[i] = u[j] => m = n /\ i = j)
    OBVIOUS
  <2> HIDE DEF S
  <2>2. i \in Nat /\ i + 1 \in 0 .. l
    BY <1>1, <1>5, <2>1
  <2>3. ASSUME NEW j \in DOMAIN u, t[i + 1] = u[j] PROVE m = n /\ i + 1 = j
    <3>1. j \in Nat /\ j >= 1 /\ j <= Len(u)
      BY <1>1
    <3>2. j # 1 => <<u[j - 1], u[j], FALSE>> \in mm.successors /\ j - 1 \in DOMAIN u
      <4>1. j # 1 => j - 1 \in 1 .. Len(u) - 1 /\ (j - 1) + 1 = j /\ j - 1 \in 1 .. Len(u)
        BY <1>1, <3>1
      <4> QED BY <1>1, <4>1
    <3>3. i # 0 => <<t[i], t[i+1], FALSE>> \in mm.successors
      <4>1. i # 0 => i \in 1 .. l - 1
        BY <1>1, <1>5, <2>2
      <4> QED BY <1>1, <4>1
    <3>4. CASE i = 0
      <4>1. t[i + 1] = m
        BY <1>1, <3>4
      <4>2. j = 1
        BY <1>2, <2>3, <3>2, <4>1
      <4> QED BY <1>1, <2>3, <3>4, <4>1, <4>2
    <3>5. CASE i # 0
      <4>1. j # 1
        BY <1>1, <1>2, <2>3, <3>3, <3>5
      <4>2. t[i] = u[j - 1]
        BY <1>3, <2>3, <3>2, <3>3, <3>5, <4>1
      <4>3. m = n /\ i = j - 1
        BY <2>1, <3>2, <3>5, <4>1, <4>2
      <4> QED BY <2>2, <3>1, <4>3
    <3> QED BY <3>4, <3>5
  <2> QED BY <2>2, <2>3 DEF S
<1>6. S = 0 .. l
  <2>1. S \in SUBSET (0 .. l)
    OBVIOUS
  <2> HIDE DEF S
  <2> QED BY <1>1, <1>4, <1>5, <2>1, IntervalSet
<1>7. \A i \in DOMAIN t : i \in 0 .. l /\ i # 0
  BY <1>1
<1> QED BY <1>6, <1>7 DEF S

\* All a node's statements say.
Says(n) == {<<"label", jumpLabel(n)>>, KeyOf(n)}

\* A node's statements say the node and its label, once each at most.
LEMMA EmitOk ==
  ASSUME NEW N, SoleNodes(N), TablesOk(mm, N, N \ {Start}), NEW n \in N
  PROVE  /\ Emit(n) \in Seq(Plain) /\ Apart(Emit(n), StatementKeys)
         /\ KeysIn(Emit(n), StatementKeys) \subseteq Says(n)
<1> DEFINE K == StatementKeys
           target == jumpingTo(mm, n)
           lab == jumpLabel(CHOOSE m \in target : TRUE)
           stmt == CASE n[1] = "stmt" -> <<LIRMove(n[2])>>
                     [] n[1] = "ret"  -> <<LIRReturn(n[2])>>
                     [] IsIf(n) /\ target # {} -> <<LIRTrueJump(GuardOf(n), lab)>>
                     [] n[1] \in {"cricket", "noop"} /\ target # {} -> <<LIRJump(lab)>>
                     [] OTHER -> <<>>
           jumpedTo == \E e \in mm.predecessors : e[2] = n /\ e[3]
           l == LIRLabel(jumpLabel(n))
<1>1. Emit(n) = IF stmt # <<>> /\ jumpedTo THEN <<l>> \o stmt ELSE stmt
  BY DEF Emit
<1>2. /\ \A m \in N : m \in CFGNodes /\ jumpLabel(m) \in Label
      /\ n[1] \in CFGNodeKind /\ n[2] \in Nat
  BY DEF SoleNodes, CFGNodes, jumpLabel, Label
<1>3. \A m \in target : m \in N
  BY DEF jumpingTo, TablesOk, Graph, Edge
<1>4. target # {} => lab \in Label
  BY <1>2, <1>3
<1>5. GuardOf(n) \in [on : Nat, neg : BOOLEAN] /\ GuardOf(n).on = n[2]
  BY <1>2 DEF GuardOf
<1>6. /\ Plain \subseteq LIRStatement
      /\ \A s \in Ordinary : s \in Plain
      /\ \A s \in LIRStatement : s.op # "cjump" => s \in Plain
  BY DEF Plain, Ordinary
<1> HIDE DEF target, lab
<1>7. ASSUME NEW x \in Plain, K[x] \subseteq {KeyOf(n)}
      PROVE  /\ <<x>> \in Seq(Plain) /\ Apart(<<x>>, K) /\ KeysIn(<<x>>, K) \subseteq {KeyOf(n)}
  <2> HIDE DEF K
  <2>1. <<x>> \in Seq(Plain) /\ Apart(<<x>>, K) /\ KeysIn(<<x>>, K) = K[x]
    BY <1>7, ShortApart
  <2> QED BY <1>7, <2>1
<1>8. stmt \in Seq(Plain) /\ Apart(stmt, K) /\ KeysIn(stmt, K) \subseteq {KeyOf(n)}
  <2>1. CASE n[1] = "stmt"
    <3>1. stmt = <<LIRMove(n[2])>> /\ KeyOf(n) = <<"stmt", n[2]>>
      BY <2>1 DEF KeyOf, IsIf
    <3>2. LIRMove(n[2]) \in Plain /\ K[LIRMove(n[2])] = {<<"stmt", n[2]>>}
      BY <1>2, <1>6, KeysOf
    <3> HIDE DEF stmt, K
    <3> QED BY <1>7, <3>1, <3>2
  <2>2. CASE n[1] = "ret"
    <3>1. stmt = <<LIRReturn(n[2])>> /\ KeyOf(n) = <<"ret", n[2]>>
      BY <2>2 DEF KeyOf, IsIf
    <3>2. LIRReturn(n[2]) \in Plain /\ K[LIRReturn(n[2])] = {<<"ret", n[2]>>}
      BY <1>2, <1>6, KeysOf
    <3> HIDE DEF stmt, K
    <3> QED BY <1>7, <3>1, <3>2
  <2>3. CASE IsIf(n) /\ target # {}
    <3> DEFINE x == LIRTrueJump(GuardOf(n), lab)
    <3>1. stmt = <<x>> /\ KeyOf(n) = <<"guard", n[2]>>
      BY <2>3 DEF KeyOf, IsIf
    <3>2. x \in LIRStatement /\ K[x] = {<<"guard", n[2]>>} /\ x.op = "tjump"
      BY <1>4, <1>5, <2>3, KeysOf
    <3> HIDE DEF stmt, K, x
    <3> QED BY <1>6, <1>7, <3>1, <3>2
  <2>4. CASE n[1] \in {"cricket", "noop"} /\ target # {}
    <3> DEFINE x == LIRJump(lab)
    <3>1. stmt = <<x>>
      BY <2>4 DEF IsIf
    <3>2. x \in LIRStatement /\ K[x] = {} /\ x.op = "jump"
      BY <1>4, <2>4, KeysOf
    <3> HIDE DEF stmt, K, x
    <3> QED BY <1>6, <1>7, <3>1, <3>2
  <2>5. CASE /\ n[1] # "stmt" /\ n[1] # "ret" /\ ~(IsIf(n) /\ target # {})
             /\ ~(n[1] \in {"cricket", "noop"} /\ target # {})
    <3>1. stmt = <<>>
      BY <2>5
    <3> HIDE DEF stmt, K
    <3> QED BY <3>1, ShortApart
  <2> QED BY <2>1, <2>2, <2>3, <2>4, <2>5
<1>9. <<l>> \in Seq(Plain) /\ Apart(<<l>>, K) /\ KeysIn(<<l>>, K) = {<<"label", jumpLabel(n)>>}
  <2>1. l \in LIRStatement /\ l.op = "label" /\ K[l] = {<<"label", jumpLabel(n)>>}
    BY <1>2, KeysOf
  <2> HIDE DEF l, K
  <2>2. l \in Plain
    BY <1>6, <2>1
  <2>3. <<l>> \in Seq(Plain) /\ Apart(<<l>>, K) /\ KeysIn(<<l>>, K) = K[l]
    BY <2>2, ShortApart
  <2> QED BY <2>1, <2>3
<1>10. KeyOf(n) # <<"label", jumpLabel(n)>>
  BY <1>2 DEF KeyOf, CFGNodeKind
<1> DEFINE p == <<l>>
<1>11. p \in Seq(Plain) /\ Apart(p, K) /\ KeysIn(p, K) = {<<"label", jumpLabel(n)>>}
  BY <1>9
<1>12. Emit(n) = stmt \/ Emit(n) = p \o stmt
  BY <1>1
<1> HIDE DEF p, stmt, K, l
<1>13. KeysIn(p, K) \cap KeysIn(stmt, K) = {}
  BY <1>8, <1>10, <1>11
<1>14. p \o stmt \in Seq(Plain) /\ Apart(p \o stmt, K) /\ KeysIn(p \o stmt, K) = KeysIn(p, K) \cup KeysIn(stmt, K)
  BY <1>8, <1>11, <1>13, ConcatApart
<1>15. KeysIn(p, K) \cup KeysIn(stmt, K) \subseteq Says(n) /\ KeysIn(stmt, K) \subseteq Says(n)
  BY <1>8, <1>11 DEF Says
<1> QED BY <1>8, <1>12, <1>14, <1>15 DEF K

\* What two nodes say differs, and no label of theirs is one of freshLabel.
LEMMA SaysApart ==
  ASSUME NEW N, SoleNodes(N)
  PROVE  /\ \A m, n \in N : m # n => Says(m) \cap Says(n) = {}
         /\ \A n \in N : NoFresh(Says(n))
<1>1. \A n \in N : /\ KeyOf(n)[1] # "label" /\ n \in CFGNodes
  BY DEF SoleNodes, CFGNodes, KeyOf, CFGNodeKind
<1>2. \A m, n \in N : m # n => KeyOf(m) # KeyOf(n) /\ jumpLabel(m) # jumpLabel(n)
  BY DEF SoleNodes, jumpLabel
<1>3. \A n \in N : \A k : jumpLabel(n) # freshLabel(k)
  BY DEF jumpLabel, freshLabel
<1>4. ASSUME NEW m \in N, NEW n \in N, m # n PROVE Says(m) \cap Says(n) = {}
  <2>1. <<"label", jumpLabel(m)>> # <<"label", jumpLabel(n)>>
    BY <1>2, <1>4
  <2>2. KeyOf(m) # <<"label", jumpLabel(n)>> /\ KeyOf(n) # <<"label", jumpLabel(m)>>
    BY <1>1
  <2> QED BY <1>2, <1>4, <2>1, <2>2 DEF Says
<1>5. ASSUME NEW n \in N PROVE NoFresh(Says(n))
  <2> SUFFICES ASSUME NEW k PROVE <<"label", freshLabel(k)>> \notin Says(n)
    BY DEF NoFresh
  <2>1. <<"label", freshLabel(k)>> # <<"label", jumpLabel(n)>>
    BY <1>3
  <2>2. <<"label", freshLabel(k)>> # KeyOf(n)
    BY <1>1
  <2> QED BY <2>1, <2>2 DEF Says
<1> QED BY <1>4, <1>5

\* The statements of the trace from n, and what they may say.
Layout(n) == FlattenSeq([k \in DOMAIN Trace(n) |-> Emit(Trace(n)[k])])

TraceSays(n) == UNION {Says(m) : m \in Range(Trace(n))}

\* No node is in its own trace twice, so its statements say nothing twice.
LEMMA LayoutOk ==
  ASSUME NEW N, SoleNodes(N), TablesOk(mm, N, N \ {Start}), NEW n \in N, ~FallsInto(mm, n)
  PROVE  /\ Layout(n) \in Seq(Plain) /\ Apart(Layout(n), StatementKeys)
         /\ KeysIn(Layout(n), StatementKeys) \subseteq TraceSays(n)
<1> DEFINE K == StatementKeys
           t == Trace(n)
           pieces == [k \in DOMAIN t |-> Emit(t[k])]
<1>1. t \in Paths(N, n)
  BY TracePath
<1>2. t \in Seq(N) /\ \A i, j \in DOMAIN t : i # j => t[i] # t[j]
  <2>1. \A i \in DOMAIN t, j \in DOMAIN t : t[i] = t[j] => n = n /\ i = j
    <3> HIDE DEF t
    <3> QED BY <1>1, PathsApart
  <2>2. t \in Seq(N)
    BY <1>1 DEF Paths
  <2> QED BY <2>1, <2>2
<1>3. Layout(n) = FlattenSeq(pieces)
  BY DEF Layout
<1>4. \A k \in DOMAIN t : t[k] \in N /\ t[k] \in Range(t)
  <2> HIDE DEF t
  <2>1. \A k \in DOMAIN t : t[k] \in N
    BY <1>2, SeqElements
  <2> QED BY <2>1 DEF Range
<1>5. TraceSays(n) = UNION {Says(m) : m \in Range(t)}
  BY DEF TraceSays
<1> HIDE DEF t, K
<1>6. \A k \in DOMAIN t : /\ Emit(t[k]) \in Seq(Plain) /\ Apart(Emit(t[k]), K)
                        /\ KeysIn(Emit(t[k]), K) \subseteq Says(t[k])
  BY <1>4, EmitOk DEF K
<1>7. DOMAIN pieces = DOMAIN t /\ \A k \in DOMAIN t : pieces[k] = Emit(t[k])
  OBVIOUS
<1>8. pieces \in Seq(Seq(Plain))
  <2>1. pieces \in [DOMAIN t -> Seq(Plain)]
    BY <1>6
  <2> HIDE DEF pieces
  <2> QED BY <1>2, <2>1, SameLength
<1> HIDE DEF pieces
<1>9. \A k \in DOMAIN pieces : Apart(pieces[k], K) /\ KeysIn(pieces[k], K) \subseteq Says(t[k])
  BY <1>6, <1>7
<1>10. ASSUME NEW i \in DOMAIN pieces, NEW j \in DOMAIN pieces, i # j
       PROVE  KeysIn(pieces[i], K) \cap KeysIn(pieces[j], K) = {}
  <2>1. t[i] \in N /\ t[j] \in N /\ t[i] # t[j]
    BY <1>2, <1>4, <1>7, <1>10
  <2>2. Says(t[i]) \cap Says(t[j]) = {}
    BY <2>1, SaysApart
  <2> QED BY <1>9, <2>2
<1>11. /\ FlattenSeq(pieces) \in Seq(Plain) /\ Apart(FlattenSeq(pieces), K)
       /\ KeysIn(FlattenSeq(pieces), K) = UNION {KeysIn(pieces[k], K) : k \in DOMAIN pieces}
  <2>1. \A k \in DOMAIN pieces : Apart(pieces[k], K)
    BY <1>9
  <2> QED BY <1>8, <1>10, <2>1, FlattenApart
<1>12. UNION {KeysIn(pieces[k], K) : k \in DOMAIN pieces} \subseteq TraceSays(n)
  BY <1>4, <1>5, <1>7, <1>9
<1> QED BY <1>3, <1>11, <1>12 DEF K

\* Traces from two nodes that nothing falls into.
LEMMA TracesApart ==
  ASSUME NEW N, SoleNodes(N), TablesOk(mm, N, N \ {Start}),
         NEW m \in N, NEW n \in N, m # n, ~FallsInto(mm, m), ~FallsInto(mm, n)
  PROVE  TraceSays(m) \cap TraceSays(n) = {}
<1> DEFINE t == Trace(m)
           u == Trace(n)
<1>1. t \in Paths(N, m) /\ u \in Paths(N, n)
  BY TracePath
<1>2. TraceSays(m) = UNION {Says(x) : x \in Range(t)} /\ TraceSays(n) = UNION {Says(x) : x \in Range(u)}
  BY DEF TraceSays
<1> HIDE DEF t, u
<1>3. \A i \in DOMAIN t, j \in DOMAIN u : t[i] # u[j]
  BY <1>1, PathsApart
<1>4. Range(t) \subseteq N /\ Range(u) \subseteq N
  <2>1. t \in Seq(N) /\ u \in Seq(N)
    BY <1>1 DEF Paths
  <2> QED BY <2>1, SeqElements DEF Range
<1>5. \A x \in Range(t), y \in Range(u) : x # y
  BY <1>3 DEF Range
<1>6. \A x \in Range(t), y \in Range(u) : Says(x) \cap Says(y) = {}
  BY <1>4, <1>5, SaysApart
<1> QED BY <1>2, <1>6

\* Lists that say nothing twice and nothing but what is in keys.
Lists(keys) ==
  {s \in Seq(Plain) : Apart(s, StatementKeys) /\ KeysIn(s, StatementKeys) \subseteq keys}

\* Lists that say different things, one after the other.
LEMMA ListsConcat ==
  ASSUME NEW A, NEW B, A \cap B = {}, NEW s \in Lists(A), NEW t \in Lists(B)
  PROVE  s \o t \in Lists(A \cup B)
<1>1. /\ s \in Seq(Plain) /\ Apart(s, StatementKeys) /\ KeysIn(s, StatementKeys) \subseteq A
      /\ t \in Seq(Plain) /\ Apart(t, StatementKeys) /\ KeysIn(t, StatementKeys) \subseteq B
  BY DEF Lists
<1>2. KeysIn(s, StatementKeys) \cap KeysIn(t, StatementKeys) = {}
  BY <1>1
<1>3. /\ s \o t \in Seq(Plain) /\ Apart(s \o t, StatementKeys)
      /\ KeysIn(s \o t, StatementKeys) = KeysIn(s, StatementKeys) \cup KeysIn(t, StatementKeys)
  BY <1>1, <1>2, ConcatApart
<1>4. KeysIn(s \o t, StatementKeys) \subseteq A \cup B
  BY <1>1, <1>3
<1> QED BY <1>3, <1>4 DEF Lists

\* The list of all traces: each has its statements, and none is in two of them.
LEMMA DestroyedOk ==
  ASSUME NEW N, SoleNodes(N), TablesOk(mm, N, N \ {Start})
  PROVE  \A stmts \in Destroyed :
           /\ ListOk(stmts)
           /\ KeysIn(stmts, StatementKeys) \subseteq UNION {Says(n) : n \in N}
<1> DEFINE P == {n \in {e[2] : e \in mm.predecessors} : ~FallsInto(mm, n)}
           T == SUBSET Seq(Plain)
           traces(n) == {FlattenSeq([k \in DOMAIN t |-> Emit(t[k])]) : t \in {Trace(n)}}
           Add(n, lists) == {stmts[1] \o stmts[2] : stmts \in lists \X traces(n)}
           F == [p \in P \X T |-> Add(p[1], p[2])]
           base == traces(Start)
           Step(f, S) == IF S = {} THEN base
                         ELSE Add(CHOOSE x \in S : TRUE, f[S \ {CHOOSE x \in S : TRUE}])
           it == CHOOSE f : f = [S \in SUBSET P |-> Step(f, S)]
           SaysIn(S) == TraceSays(Start) \cup UNION {TraceSays(n) : n \in S}
           R == {S \in SUBSET P : it[S] \subseteq Lists(SaysIn(S))}
<1>1. Destroyed = it[P]
  BY DEF Destroyed, FoldSet, MapThenFoldSet
<1>2. \A n : traces(n) = {Layout(n)}
  BY DEF Layout
<1>3. /\ IsFiniteSet(P) /\ Start \in N /\ ~FallsInto(mm, Start)
      /\ \A n \in P : n \in N /\ n # Start /\ ~FallsInto(mm, n)
  <2> DEFINE ends == {e[2] : e \in mm.predecessors}
             second == [e \in mm.predecessors |-> e[2]]
  <2>1. IsFiniteSet(mm.predecessors) /\ mm.predecessors \in SUBSET (N \X (N \ {Start}) \X BOOLEAN)
    BY DEF TablesOk, Mirrored, Graph, Edge
  <2>2. ends = {second[e] : e \in mm.predecessors}
    OBVIOUS
  <2>3. IsFiniteSet(ends)
    <3> HIDE DEF ends, second
    <3> QED BY <2>1, <2>2, ImageFinite
  <2>4. ends \subseteq N \ {Start}
    BY <2>1
  <2>5. P \subseteq ends /\ \A n \in P : ~FallsInto(mm, n)
    OBVIOUS
  <2>6. ~FallsInto(mm, Start)
    BY <2>1 DEF FallsInto
  <2>7. Start \in N
    BY DEF SoleNodes
  <2> HIDE DEF P, ends
  <2> QED BY <2>3, <2>4, <2>5, <2>6, <2>7, FS_Subset
<1> HIDE DEF P, traces
<1>4. \A n \in N : ~FallsInto(mm, n) => Layout(n) \in Lists(TraceSays(n))
  BY LayoutOk DEF Lists
<1>5. base = {Layout(Start)} /\ base \in T
  <2>1. Layout(Start) \in Seq(Plain)
    BY <1>3, <1>4 DEF Lists
  <2> QED BY <1>2, <2>1
<1>6. \A n \in P, lists \in T : Add(n, lists) \in T
  <2> SUFFICES ASSUME NEW n \in P, NEW lists \in T
               PROVE  Add(n, lists) \in T
    OBVIOUS
  <2>1. lists \subseteq Seq(Plain) /\ Layout(n) \in Seq(Plain)
    BY <1>3, <1>4 DEF Lists
  <2>2. \A s \in Seq(Plain) : s \o Layout(n) \in Seq(Plain)
    BY <2>1
  <2> HIDE DEF T, Layout
  <2>3. Add(n, lists) \subseteq Seq(Plain)
    BY <1>2, <2>1, <2>2
  <2> QED BY <2>3 DEF T
<1>7. \A n, lists : \A x \in Add(n, lists) : \E s \in lists : x = s \o Layout(n)
  BY <1>2
<1> HIDE DEF base, Add
<1>8. F \in [P \X T -> T] /\ \A n \in P, lists \in T : F[<<n, lists>>] = Add(n, lists)
  BY <1>6
<1> HIDE DEF F, T
<1>9. PICK g \in [SUBSET P -> T] :
        \A S \in SUBSET P :
          g[S] = IF S = {} THEN base
                 ELSE F[<<CHOOSE x \in S : TRUE, g[S \ {CHOOSE x \in S : TRUE}]>>]
  <2>1. \E f : FoldsOver(f, P, T, base, F)
    BY <1>3, <1>5, <1>8, SubsetRecursion
  <2> QED BY <2>1 DEF FoldsOver
<1>10. \A S \in SUBSET P : S # {} => (CHOOSE x \in S : TRUE) \in P /\ (CHOOSE x \in S : TRUE) \in S
  OBVIOUS
<1>11. g = [S \in SUBSET P |-> Step(g, S)]
  <2>1. \A S \in SUBSET P : g[S] = Step(g, S)
    <3> SUFFICES ASSUME NEW S \in SUBSET P, S # {} PROVE g[S] = Step(g, S)
      BY <1>9
    <3> DEFINE n == CHOOSE x \in S : TRUE
    <3>1. g[S] = F[<<n, g[S \ {n}]>>] /\ Step(g, S) = Add(n, g[S \ {n}])
      BY <1>9
    <3>2. n \in P /\ g[S \ {n}] \in T
      BY <1>9, <1>10
    <3> HIDE DEF n, Step
    <3> QED BY <1>8, <3>1, <3>2
  <2> HIDE DEF Step
  <2> QED BY <1>9, <2>1
<1>12. it = [S \in SUBSET P |-> Step(it, S)]
  <2> HIDE DEF Step
  <2> QED BY <1>11
<1> HIDE DEF it
<1>13. \A S \in SUBSET P :
         it[S] = IF S = {} THEN base
                 ELSE Add(CHOOSE x \in S : TRUE, it[S \ {CHOOSE x \in S : TRUE}])
  BY <1>12
<1>14. {} \in R
  <2>1. it[{}] = base /\ SaysIn({}) = TraceSays(Start)
    BY <1>13
  <2>2. Layout(Start) \in Lists(TraceSays(Start))
    BY <1>3, <1>4
  <2> HIDE DEF SaysIn
  <2> QED BY <1>5, <2>1, <2>2
<1>15. ASSUME NEW S \in SUBSET P, S # {}, S \ {CHOOSE x \in S : TRUE} \in R PROVE S \in R
  <2> DEFINE n == CHOOSE x \in S : TRUE
             rest == S \ {n}
  <2>1. n \in P /\ n \in S /\ it[S] = Add(n, it[rest])
    BY <1>10, <1>13, <1>15
  <2>2. it[rest] \subseteq Lists(SaysIn(rest))
    BY <1>15
  <2>3. S = rest \cup {n} /\ n \notin rest /\ rest \subseteq P
    BY <2>1
  <2> HIDE DEF n, rest, R
  <2>4. SaysIn(rest) \cup TraceSays(n) = SaysIn(S)
    BY <2>3
  <2>5. SaysIn(rest) \cap TraceSays(n) = {}
    <3>1. \A x \in rest \cup {Start} : x \in N /\ x # n /\ ~FallsInto(mm, x)
      BY <1>3, <2>1, <2>3
    <3>2. n \in N /\ ~FallsInto(mm, n)
      BY <1>3, <2>1
    <3>3. \A x \in rest \cup {Start} : TraceSays(x) \cap TraceSays(n) = {}
      BY <3>1, <3>2, TracesApart
    <3> QED BY <3>3
  <2> HIDE DEF SaysIn
  <2>6. Layout(n) \in Lists(TraceSays(n))
    BY <1>3, <1>4, <2>1
  <2>7. \A s \in it[rest] : s \o Layout(n) \in Lists(SaysIn(S))
    BY <2>2, <2>4, <2>5, <2>6, ListsConcat
  <2>8. it[S] \subseteq Lists(SaysIn(S))
    <3> SUFFICES ASSUME NEW x \in Add(n, it[rest]) PROVE x \in Lists(SaysIn(S))
      BY <2>1
    <3>1. PICK s \in it[rest] : x = s \o Layout(n)
      BY <1>7
    <3> QED BY <2>7, <3>1
  <2> QED BY <2>8 DEF R
<1>16. P \in R
  <2> HIDE DEF R
  <2> QED BY <1>3, <1>14, <1>15, SubsetInduction
<1>17. \A s \in Lists(SaysIn(P)) :
         ListOk(s) /\ KeysIn(s, StatementKeys) \subseteq UNION {Says(n) : n \in N}
  <2>1. \A n \in P \cup {Start} :
          NoFresh(TraceSays(n)) /\ TraceSays(n) \subseteq UNION {Says(m) : m \in N}
    <3> SUFFICES ASSUME NEW n \in P \cup {Start}
                 PROVE  NoFresh(TraceSays(n)) /\ TraceSays(n) \subseteq UNION {Says(m) : m \in N}
      OBVIOUS
    <3>1. Range(Trace(n)) \subseteq N
      <4>1. Trace(n) \in Seq(N)
        BY <1>3, TracePath DEF Paths
      <4> DEFINE t == Trace(n)
      <4> HIDE DEF t
      <4>2. t \in Seq(N) => Range(t) \subseteq N
        BY RangeFinite
      <4> QED BY <4>1, <4>2 DEF t
    <3>2. \A m \in Range(Trace(n)) : NoFresh(Says(m))
      BY <3>1, SaysApart
    <3>3. NoFresh(TraceSays(n))
      BY <3>2 DEF NoFresh, TraceSays
    <3>4. TraceSays(n) \subseteq UNION {Says(m) : m \in N}
      BY <3>1 DEF TraceSays
    <3> QED BY <3>3, <3>4
  <2>2. NoFresh(SaysIn(P))
    BY <2>1 DEF NoFresh
  <2>5. SaysIn(P) \subseteq UNION {Says(m) : m \in N}
    BY <2>1
  <2> HIDE DEF SaysIn
  <2> SUFFICES ASSUME NEW s \in Lists(SaysIn(P))
               PROVE  ListOk(s) /\ KeysIn(s, StatementKeys) \subseteq UNION {Says(n) : n \in N}
    OBVIOUS
  <2>3. s \in Seq(Plain) /\ Apart(s, StatementKeys) /\ KeysIn(s, StatementKeys) \subseteq SaysIn(P)
    BY DEF Lists
  <2>4. s \in Seq(LIRStatement)
    BY <2>3, SeqWithin DEF Plain
  <2>6. ListOk(s)
    BY <2>2, <2>3, <2>4 DEF ListOk, NoFresh
  <2> QED BY <2>3, <2>5, <2>6
<1>18. Destroyed \subseteq Lists(SaysIn(P))
  BY <1>1, <1>16
<1> QED BY <1>17, <1>18

-----------------------------------------------------------------------------
(* Both together *)

\* EachOnce with what makes it inductive: the nodes of the blocks share out
\* what occurs in the function, and none is laid out twice.
LayoutInv ==
  /\ EachOnce
  /\ pc # "reorder" => order = <<>>
  /\ pc = "reorder" => /\ NodesOk(nodes, Len(nodes))
                       /\ order \in Seq(DOMAIN nodes)
                       /\ \A i, j \in DOMAIN order : order[i] = order[j] => i = j

\* The nodes made of a list that says nothing twice.
LEMMA ListNodes ==
  ASSUME NEW stmts, ListOk(stmts), NEW ns, ns = buildCFG(maximalBasicBlocks(stmts))
  PROVE  NodesOk(ns, Len(ns)) /\ Said(ns, NodeKeys) \subseteq Said(stmts, StatementKeys)
<1> DEFINE blocks == maximalBasicBlocks(stmts)
<1>1. /\ blocks \in Seq(Blocks) /\ Apart(blocks, BlockKeys)
      /\ KeysIn(blocks, BlockKeys) \subseteq KeysIn(stmts, StatementKeys)
  BY BlocksOk
<1>2. ns = buildCFG(blocks)
  OBVIOUS
<1> HIDE DEF blocks
<1>3. Said(ns, NodeKeys) \subseteq Said(blocks, BlockKeys) /\ NodesOk(ns, Len(ns))
  BY <1>1, <1>2, BuildNodesOk
<1>4. Said(blocks, BlockKeys) \subseteq Said(stmts, StatementKeys)
  BY <1>1 DEF Said
<1> QED BY <1>3, <1>4

\* Nothing is laid out yet.
LEMMA EmptyOrder ==
  ASSUME NEW S
  PROVE  <<>> \in Seq(S) /\ \A i, j \in DOMAIN <<>> : <<>>[i] = <<>>[j] => i = j
OBVIOUS

\* What lowering makes.
LEMMA InitLayout ==
  ASSUME Init
  PROVE  LayoutInv /\ SaysInv
<1>1. /\ pc = "reorder" /\ order = <<>> /\ func \in Functions
      /\ nodes = buildCFG(maximalBasicBlocks(func.body))
  BY DEF Init
<1>2. ListOk(func.body)
  <2> DEFINE b == func.body
  <2>1. /\ b \in Seq(LIRStatement) /\ OccursOnce(b)
        /\ \A i \in DOMAIN b : b[i].op = "label" => b[i].lab[1] = "L"
    BY <1>1, FunctionsAssumption
  <2> HIDE DEF b
  <2>2. \A i \in DOMAIN b : b[i] \in LIRStatement /\ StatementKeys[b[i]] = Occurrence(b[i])
    BY <2>1, SeqElements, KeysOf
  <2>3. Apart(b, StatementKeys)
    BY <2>1, <2>2 DEF Apart, OccursOnce
  <2>4. NoFresh(KeysIn(b, StatementKeys))
    <3> SUFFICES ASSUME NEW k, <<"label", freshLabel(k)>> \in KeysIn(b, StatementKeys) PROVE FALSE
      BY DEF NoFresh
    <3>1. PICK i \in DOMAIN b : <<"label", freshLabel(k)>> \in StatementKeys[b[i]]
      BY DEF KeysIn
    <3>2. <<"label", freshLabel(k)>> \in Occurrence(b[i]) /\ b[i].op \in {"stmt", "ret", "label", "jump", "tjump", "cjump"}
      BY <2>2, <3>1 DEF LIRStatement
    <3>3. b[i].op = "label" /\ b[i].lab = freshLabel(k)
      BY <3>2 DEF Occurrence
    <3> QED BY <2>1, <3>3 DEF freshLabel
  <2> QED BY <2>1, <2>3, <2>4 DEF ListOk, b
<1>3. NodesOk(nodes, Len(nodes)) /\ Said(nodes, NodeKeys) \subseteq FunctionSays
  BY <1>1, <1>2, ListNodes DEF FunctionSays
<1> QED BY <1>1, <1>3, EmptyOrder DEF LayoutInv, EachOnce, SaysInv

\* What says nothing twice has everything in one place.
LEMMA ApartOnce ==
  ASSUME NEW s \in Seq(Plain), Apart(s, StatementKeys)
  PROVE  EachOnceIn(s)
<1>1. \A i \in DOMAIN s : s[i] \in Plain
  BY SeqElements
<1>2. \A i \in DOMAIN s : /\ s[i] \in LIRStatement /\ s[i].op # "cjump"
                        /\ StatementKeys[s[i]] = Occurrence(s[i])
  BY <1>1, KeysOf DEF Plain
<1>3. s \in Seq(LIRStatement)
  BY SeqWithin DEF Plain
<1> QED BY <1>2, <1>3 DEF EachOnceIn, OccursOnce, Apart

\* Every step keeps LayoutInv.
LEMMA StepKeepsLayoutInv ==
  ASSUME GraphInv, LayoutInv, [Next]_vars
  PROVE  LayoutInv'
<1>1. ASSUME Destroy PROVE LayoutInv'
  <2>1. PICK N : SoleNodes(N) /\ TablesOk(mm, N, N \ {Start})
    BY DEF GraphInv, GraphOver
  <2>2. PICK stmts \in Destroyed : nodes' = buildCFG(maximalBasicBlocks(stmts))
    BY <1>1 DEF Destroy
  <2>3. ListOk(stmts)
    BY <2>1, DestroyedOk
  <2> DEFINE ns == buildCFG(maximalBasicBlocks(stmts))
  <2>4. NodesOk(ns, Len(ns))
    BY <2>3, ListNodes
  <2>5. NodesOk(nodes', Len(nodes'))
    BY <2>2, <2>4
  <2>6. pc' = "reorder" /\ order' = <<>>
    BY <1>1 DEF Destroy, Running, LayoutInv
  <2> HIDE DEF ns
  <2> QED BY <2>5, <2>6, EmptyOrder DEF LayoutInv, EachOnce
<1>2. ASSUME EndReorder PROVE LayoutInv'
  <2>1. \A stmts \in Reordered : EachOnceIn(stmts)
    <3>1. \A stmts \in Reordered : stmts \in Seq(Plain) /\ Apart(stmts, StatementKeys)
      BY <1>2, ReorderedOk DEF EndReorder, LayoutInv
    <3> QED BY <3>1, ApartOnce
  <2>2. pc' = "build" /\ block' \in Reordered /\ order' = <<>>
    BY <1>2 DEF EndReorder
  <2> QED BY <2>1, <2>2 DEF LayoutInv, EachOnce
<1>3. ASSUME Reorder PROVE LayoutInv'
  <2>1. PICK n \in DOMAIN nodes : NewTrace(n) \/ ExtendTrace(n)
    BY <1>3 DEF Reorder
  <2>2. /\ order' = Append(order, n) /\ nodes' = nodes /\ block' = block
        /\ n \in DOMAIN nodes /\ n \notin Range(order)
    BY <2>1 DEF NewTrace, ExtendTrace, head, Successors, unmarked
  <2>3. pc = "reorder" /\ pc' = pc
    BY <1>3 DEF Reorder
  <2>4. /\ NodesOk(nodes, Len(nodes)) /\ order \in Seq(DOMAIN nodes)
        /\ \A i, j \in DOMAIN order : order[i] = order[j] => i = j
    BY <2>3 DEF LayoutInv
  <2> DEFINE o == Append(order, n)
  <2>5. /\ o \in Seq(DOMAIN nodes) /\ DOMAIN o = 1 .. Len(order) + 1 /\ Len(order) \in Nat
        /\ DOMAIN order = 1 .. Len(order)
        /\ o[Len(order) + 1] = n /\ \A i \in DOMAIN order : o[i] = order[i]
    BY <2>2, <2>4
  <2> HIDE DEF o
  <2>6. \A i \in DOMAIN order : order[i] # n
    BY <2>2 DEF Range
  <2>7. \A i \in DOMAIN o : i \in DOMAIN order \/ i = Len(order) + 1
    BY <2>5
  <2>8. \A i, j \in DOMAIN o : o[i] = o[j] => i = j
    BY <2>4, <2>5, <2>6, <2>7
  <2> QED BY <2>2, <2>3, <2>4, <2>5, <2>8 DEF LayoutInv, EachOnce, o
<1>4. ASSUME pc' # "reorder", pc' # "build", pc # "reorder", order' = order PROVE LayoutInv'
  BY <1>4 DEF LayoutInv, EachOnce
<1>5. ASSUME Build \/ EndCCP \/ EndIfs \/ EndDCE \/ CopyProp \/ FinalDestroy PROVE LayoutInv'
  BY <1>4, <1>5 DEF Build, EndCCP, EndIfs, EndDCE, CopyProp, FinalDestroy, Running
<1>6. ASSUME NEW e, removeUnreachables(e) PROVE LayoutInv'
  BY <1>4, <1>6 DEF removeUnreachables, Running
<1>7. ASSUME UNCHANGED <<pc, block, nodes, order>> PROVE LayoutInv'
  BY <1>7 DEF LayoutInv, EachOnce
<1>8. ASSUME LinkPredecessor \/ (\E n \in UselessIfs : ensureIfsAreOk(n))
               \/ (\E n \in DeadMoves : deleteDeadAssigns(n)) \/ UNCHANGED vars
      PROVE  LayoutInv'
  <2>1. UNCHANGED <<pc, block, nodes, order>>
    BY <1>8 DEF LinkPredecessor, ensureIfsAreOk, deleteDeadAssigns, vars
  <2> QED BY <1>7, <2>1
<1> QED
  BY <1>1, <1>2, <1>3, <1>5, <1>6, <1>8 DEF Next

\* What the destroyer makes of a graph of the function's nodes has no other moves,
\* returns and guards.
LEMMA DestroyedSays ==
  ASSUME GraphInv, NEW stmts \in Destroyed
  PROVE  ListOk(stmts) /\ Said(stmts, StatementKeys) \subseteq FunctionSays
<1>1. PICK N \in SUBSET FunctionNodes : SoleNodes(N) /\ TablesOk(mm, N, N \ {Start})
  BY DEF GraphInv, GraphOver
<1>2. ListOk(stmts) /\ KeysIn(stmts, StatementKeys) \subseteq UNION {Says(n) : n \in N}
  BY <1>1, DestroyedOk
<1>3. ASSUME NEW x \in KeysIn(stmts, StatementKeys), x[1] # "label"
      PROVE  x \in FunctionSays
  <2>1. PICK n \in N : x \in Says(n)
    BY <1>2
  <2>2. x = KeyOf(n)
    BY <1>3, <2>1 DEF Says
  <2>3. x[1] \in {"stmt", "ret", "guard"}
    <3>1. PICK i \in DOMAIN stmts : x \in StatementKeys[stmts[i]]
      BY DEF KeysIn
    <3>2. stmts[i] \in LIRStatement
      BY <1>2, SeqElements DEF ListOk
    <3>3. stmts[i].op \in {"stmt", "ret", "label", "jump", "tjump", "cjump"}
      BY <3>2 DEF LIRStatement
    <3> QED BY <1>3, <3>1, <3>2, <3>3, KeysOf
  <2>4. n # Start /\ n[1] # "cricket" /\ n[1] # "noop"
    BY <2>2, <2>3 DEF KeyOf, IsIf, Start
  <2> QED BY <1>1, <2>2, <2>4 DEF FunctionNodes, NodesOf
<1> QED BY <1>2, <1>3 DEF Said

\* Every step keeps SaysInv.
LEMMA StepKeepsSaysInv ==
  ASSUME GraphInv, LayoutInv, SaysInv, [Next]_vars
  PROVE  SaysInv'
<1>0. FunctionSays' = FunctionSays
  BY SameFunction
<1>1. ASSUME Destroy PROVE SaysInv'
  <2>1. PICK stmts \in Destroyed : nodes' = buildCFG(maximalBasicBlocks(stmts))
    BY <1>1 DEF Destroy
  <2>2. ListOk(stmts) /\ Said(stmts, StatementKeys) \subseteq FunctionSays
    BY DestroyedSays
  <2> DEFINE ns == buildCFG(maximalBasicBlocks(stmts))
  <2>3. Said(ns, NodeKeys) \subseteq FunctionSays
    BY <2>2, ListNodes
  <2>4. Said(nodes', NodeKeys) \subseteq FunctionSays /\ pc' = "reorder"
    BY <1>1, <2>1, <2>3 DEF Destroy
  <2> QED BY <1>0, <2>4 DEF SaysInv
<1>2. ASSUME EndReorder PROVE SaysInv'
  <2>1. Said(nodes, NodeKeys) \subseteq FunctionSays /\ pc' = "build" /\ block' \in Reordered
    BY <1>2 DEF EndReorder, SaysInv
  <2>2. \A stmts \in Reordered : Said(stmts, StatementKeys) \subseteq Said(nodes, NodeKeys)
    BY <1>2, ReorderedOk DEF EndReorder, LayoutInv
  <2>3. Said(block', StatementKeys) \subseteq FunctionSays
    BY <2>1, <2>2
  <2> QED BY <1>0, <2>1, <2>3 DEF SaysInv
<1>3. ASSUME UNCHANGED <<pc, block, nodes>> PROVE SaysInv'
  BY <1>0, <1>3 DEF SaysInv
<1>4. ASSUME pc' # "reorder", pc' # "build" PROVE SaysInv'
  BY <1>4 DEF SaysInv
<1>5. ASSUME Build \/ EndCCP \/ EndIfs \/ EndDCE \/ CopyProp \/ FinalDestroy PROVE SaysInv'
  BY <1>4, <1>5 DEF Build, EndCCP, EndIfs, EndDCE, CopyProp, FinalDestroy
<1>6. ASSUME NEW e, removeUnreachables(e) PROVE SaysInv'
  BY <1>4, <1>6 DEF removeUnreachables, Running
<1>7. ASSUME Reorder \/ LinkPredecessor \/ (\E n \in UselessIfs : ensureIfsAreOk(n))
               \/ (\E n \in DeadMoves : deleteDeadAssigns(n)) \/ UNCHANGED vars
      PROVE  SaysInv'
  <2>1. UNCHANGED <<pc, block, nodes>>
    BY <1>7 DEF Reorder, NewTrace, ExtendTrace, LinkPredecessor, ensureIfsAreOk, deleteDeadAssigns, vars
  <2> QED BY <1>3, <2>1
<1> QED
  BY <1>1, <1>2, <1>5, <1>6, <1>7 DEF Next

\* The empty graph.
LEMMA InitGraph ==
  ASSUME Init
  PROVE  GraphInv
<1> DEFINE N == {Start} \cup {NOOP(k) : k \in Nat \ {0}}
<1>1. mm = EmptyGraph /\ link = NoLink
  BY DEF Init
<1>2. SoleNodes(N)
  BY DEF SoleNodes, HasNoops, KeyOf, IsIf, NOOP, Start, CFGNodes, CFGNodeKind
<1>4. N \subseteq FunctionNodes
  BY DEF FunctionNodes, NodesOf, NOOP, Start, CFGNodes, CFGNodeKind
<1> HIDE DEF N
<1>3. TablesOk(EmptyGraph, N, N \ {Start})
  <2>1. Aged(EmptyGraph, N, N \ {Start})
    BY ShortApart DEF Aged, EmptyGraph
  <2> QED
    BY <2>1, FS_EmptySet DEF EmptyGraph, TablesOk, Graph, Mirrored, OneWayOut, OneFallIn
<1> QED BY <1>1, <1>2, <1>3, <1>4 DEF GraphInv, GraphOver

\* The rounds and what is dead.
RoundsInv ==
  /\ func \in Functions
  /\ pc \in {"reorder", "build", "ccp", "ifs", "dce", "copy", "destroy", "final", "done"}
  /\ round \in 0 .. func.rounds
  /\ pc \in {"ccp", "ifs", "dce", "copy", "destroy"} => round < func.rounds
  /\ gone \subseteq dead /\ dead \subseteq func.dead \cup func.copies

\* Every step keeps RoundsInv: Build starts no round too many (IROptimizer.kt 30),
\* and only dead moves are removed.
LEMMA StepKeepsRoundsInv ==
  ASSUME RoundsInv, [Next]_vars
  PROVE  RoundsInv'
<1>1. func' = func /\ func \in Functions /\ func.rounds \in Nat
  BY SameFunction, FunctionsAssumption DEF RoundsInv
<1> DEFINE Same == UNCHANGED <<round, dead, gone>>
<1>2. ASSUME Destroy PROVE RoundsInv'
  <2>1. /\ pc = "destroy" /\ pc' = "reorder" /\ round' = round + 1 /\ UNCHANGED <<dead, gone>>
    BY <1>2 DEF Destroy, Running
  <2>2. round' \in 0 .. func.rounds
    BY <1>1, <2>1 DEF RoundsInv
  <2> QED BY <1>1, <2>1, <2>2 DEF RoundsInv
<1>3. ASSUME Build PROVE RoundsInv'
  <2>1. Same /\ (pc' = "final" \/ (pc' = "ccp" /\ round < func.rounds))
    BY <1>3 DEF Build
  <2> QED BY <1>1, <2>1 DEF RoundsInv
<1>4. ASSUME CopyProp PROVE RoundsInv'
  <2>1. /\ pc = "copy" /\ pc' = "destroy" /\ UNCHANGED <<round, gone>>
        /\ dead' = dead \/ dead' = dead \cup func.copies
    BY <1>4 DEF CopyProp, Running
  <2> QED BY <1>1, <2>1 DEF RoundsInv
<1>5. ASSUME NEW n \in DeadMoves, deleteDeadAssigns(n) PROVE RoundsInv'
  <2>1. n[2] \in dead /\ gone' = gone \cup {n[2]} /\ UNCHANGED <<pc, round, dead>>
    BY <1>5 DEF deleteDeadAssigns, DeadMoves
  <2> QED BY <1>1, <2>1 DEF RoundsInv
<1>6. ASSUME Same, pc' \in {"reorder", "build", "final", "done"} PROVE RoundsInv'
  BY <1>1, <1>6 DEF RoundsInv
<1>7. ASSUME Same, pc' \in {"ccp", "ifs", "dce", "copy"}, pc \in {"ccp", "ifs", "dce", "copy"}
      PROVE  RoundsInv'
  BY <1>1, <1>7 DEF RoundsInv
<1>8. ASSUME Same, pc' = pc PROVE RoundsInv'
  BY <1>1, <1>8 DEF RoundsInv
<1>9. ASSUME NEW e, removeUnreachables(e) PROVE RoundsInv'
  <2>1. Same /\ pc = "ccp" /\ pc' \in {"ccp", "ifs"}
    BY <1>9 DEF removeUnreachables, Running
  <2> QED BY <1>7, <2>1
<1>10. ASSUME EndCCP \/ EndIfs \/ EndDCE PROVE RoundsInv'
  <2>1. Same /\ pc \in {"ccp", "ifs", "dce"} /\ pc' \in {"ccp", "dce", "copy"}
    BY <1>10 DEF EndCCP, EndIfs, EndDCE, Running
  <2> QED BY <1>7, <2>1
<1>11. ASSUME EndReorder \/ FinalDestroy PROVE RoundsInv'
  <2>1. Same /\ pc' \in {"build", "done"}
    BY <1>11 DEF EndReorder, FinalDestroy
  <2> QED BY <1>6, <2>1
<1>12. ASSUME Reorder \/ LinkPredecessor \/ (\E n \in UselessIfs : ensureIfsAreOk(n)) \/ UNCHANGED vars
       PROVE  RoundsInv'
  <2>1. Same /\ pc' = pc
    BY <1>12 DEF Reorder, LinkPredecessor, ensureIfsAreOk, vars
  <2> QED BY <1>8, <2>1
<1> QED
  BY <1>2, <1>3, <1>4, <1>5, <1>9, <1>10, <1>11, <1>12 DEF Next

\* What the graph, the list of statements and the rounds owe each other.
OptimiserInv == GraphInv /\ LayoutInv /\ SaysInv /\ RoundsInv

\* It holds at the start, and every step keeps it.
LEMMA OptimiserInvCorrect == SafetySpec => []OptimiserInv
<1>1. Init => OptimiserInv
  <2> SUFFICES ASSUME Init PROVE OptimiserInv
    OBVIOUS
  <2>1. RoundsInv
    <3>1. /\ func \in Functions /\ pc = "reorder" /\ round = 0 /\ dead = func.dead /\ gone = {}
      BY DEF Init
    <3>2. func.rounds \in Nat
      BY <3>1, FunctionsAssumption
    <3> QED BY <3>1, <3>2 DEF RoundsInv
  <2> QED BY <2>1, InitGraph, InitLayout DEF OptimiserInv
<1>2. OptimiserInv /\ [Next]_vars => OptimiserInv'
  <2> SUFFICES ASSUME GraphInv, LayoutInv, SaysInv, RoundsInv, [Next]_vars
               PROVE  GraphInv' /\ LayoutInv' /\ SaysInv' /\ RoundsInv'
    BY DEF OptimiserInv
  <2>1. EachOnce
    BY DEF LayoutInv
  <2> QED
    BY <2>1, StepKeepsGraphInv, StepKeepsLayoutInv, StepKeepsSaysInv, StepKeepsRoundsInv
<1> QED
  BY <1>1, <1>2, PTL DEF SafetySpec

\* In every round, what block reordering and the destroyer hand to CFGBuilder has
\* every move, return, guard and label at one place, and no conditional jump
\* with two ways (LIRSeq.kt 180, CFGDestroyer.kt, CFGBuilder.kt 35).
THEOREM EachOnceCorrect == SafetySpec => []EachOnce
<1>1. OptimiserInv => EachOnce
  BY DEF OptimiserInv, LayoutInv
<1> QED
  BY <1>1, OptimiserInvCorrect, PTL

\* Whatever the passes do with the graph, at every step of every round its two
\* tables agree, and no node has two edges of a kind out or two fall-throughs in
\* (MatchMaker.kt 10-26).
THEOREM TablesAgreeCorrect == SafetySpec => []TablesAgree
<1>1. OptimiserInv => TablesAgree
  BY DEF OptimiserInv, GraphInv, GraphOver, TablesOk, TablesAgree
<1> QED
  BY <1>1, OptimiserInvCorrect, PTL

\* However often the function is laid out, rebuilt and edited, the graph joins
\* nodes of its own moves, returns and guards, no round is started too many
\* (IROptimizer.kt 30), and only dead moves are removed (DeadCodeRem.kt 32).
THEOREM TypeCorrect == SafetySpec => []TypeOK
<1>1. ASSUME OptimiserInv PROVE TypeOK
  <2> DEFINE ids == {func.body[i].id : i \in DOMAIN func.body}
             kinds == {"stmt", "ret", "if", "unless"}
             node(n) == \/ n = Start
                        \/ n[1] \in kinds /\ n[2] \in ids
                        \/ n[1] = "cricket" /\ n[2] \in Nat
                        \/ n[1] = "noop" /\ n[2] \in 1 .. mm.noops
  <2>1. PICK N \in SUBSET FunctionNodes : GraphOver(N)
    BY <1>1 DEF OptimiserInv, GraphInv
  <2>2. /\ mm \in Graph(N, N \ {Start}, mm.age) /\ Range(mm.age) = mm.predecessors
        /\ mm.predecessors = mm.successors /\ mm.noops \in Nat
        /\ \A e \in mm.successors : Made(mm, e[1]) /\ Made(mm, e[2])
    BY <2>1 DEF GraphOver, TablesOk, Aged, Mirrored, Graph
  <2>3. \A x \in FunctionSays : x[1] \in {"stmt", "ret", "guard"} /\ x[2] \in ids
    <3> SUFFICES ASSUME NEW x \in FunctionSays
                 PROVE  x[1] \in {"stmt", "ret", "guard"} /\ x[2] \in ids
      OBVIOUS
    <3>1. func.body \in Seq(LIRStatement)
      BY <1>1, FunctionsAssumption DEF OptimiserInv, RoundsInv
    <3>2. x[1] # "label" /\ \E i \in DOMAIN func.body : x \in StatementKeys[func.body[i]]
      BY DEF FunctionSays, Said, KeysIn
    <3>3. PICK i \in DOMAIN func.body : x \in StatementKeys[func.body[i]]
      BY <3>2
    <3> DEFINE st == func.body[i]
    <3>4. st \in LIRStatement /\ st.id \in ids
      BY <3>1, SeqElements
    <3>5. /\ st.op \in {"stmt", "ret", "label", "jump", "tjump", "cjump"}
          /\ st.op \in {"tjump", "cjump"} => st.id = st.guard.on
      BY <3>4 DEF LIRStatement
    <3> HIDE DEF st, ids
    <3>6. x \in StatementKeys[st]
      BY <3>3 DEF st
    <3>7. x \in {<<"stmt", st.id>>, <<"ret", st.id>>, <<"guard", st.id>>}
      BY <3>2, <3>4, <3>5, <3>6, KeysOf
    <3> QED BY <3>4, <3>7
  <2>4. ASSUME NEW n \in N, Made(mm, n) PROVE node(n)
    <3>1. n \in CFGNodes /\ n = <<n[1], n[2]>> /\ n[2] \in Nat /\ n[1] \in CFGNodeKind
      BY DEF FunctionNodes, NodesOf, CFGNodes
    <3>2. CASE n = Start \/ n[1] = "cricket"
      BY <3>1, <3>2
    <3>3. CASE n[1] = "noop" /\ n[2] # 0
      <4>1. n = NOOP(n[2])
        BY <3>1, <3>3 DEF NOOP
      <4>2. ~(n[2] > mm.noops)
        BY <2>4, <3>1, <4>1 DEF Made
      <4>3. n[2] \in 1 .. mm.noops
        BY <2>2, <3>1, <3>3, <4>2
      <4> QED BY <3>3, <4>3
    <3>4. CASE KeyOf(n) \in FunctionSays
      <4>1. KeyOf(n)[1] \in {"stmt", "ret", "guard"} /\ KeyOf(n)[2] \in ids
        BY <2>3, <3>4
      <4> HIDE DEF ids
      <4>2. n[2] \in ids /\ n[1] \in kinds
        BY <3>1, <4>1 DEF KeyOf, IsIf, CFGNodeKind
      <4> QED BY <4>2
    <3> QED BY <3>2, <3>3, <3>4 DEF FunctionNodes, NodesOf
  <2> HIDE DEF node
  <2>5. \A e \in mm.successors : node(e[1]) /\ node(e[2]) /\ e[3] \in BOOLEAN
    <3>1. \A e \in mm.successors : e[1] \in N /\ e[2] \in N /\ e[3] \in BOOLEAN
      BY <2>2 DEF Graph, Edge
    <3> QED BY <2>2, <2>4, <3>1
  <2>6. /\ pc \in {"reorder", "build", "ccp", "ifs", "dce", "copy", "destroy", "final", "done"}
        /\ round \in 0 .. func.rounds /\ gone \subseteq dead /\ dead \subseteq func.dead \cup func.copies
    BY <1>1 DEF OptimiserInv, RoundsInv
  <2> QED BY <2>2, <2>5, <2>6 DEF TypeOK, node
<1> QED
  BY <1>1, OptimiserInvCorrect, PTL
=============================================================================
