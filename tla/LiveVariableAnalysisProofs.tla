--------------------- MODULE LiveVariableAnalysisProofs ---------------------
(***************************************************************************)
(* Theorems about the liveness analysis, for every set of function bodies  *)
(* and every order in which the worklist is drained; and before them, what *)
(* the control flow graph of a body and the sets of live registers taken   *)
(* from it are, for every body.                                            *)
(***************************************************************************)
EXTENDS LiveVariableAnalysis, RecursionLemmas

-----------------------------------------------------------------------------
(* LiveIn *)

\* Registers are added to a pair of sets in step.
LEMMA BeforeMonotone ==
  ASSUME NEW body, NEW P, NEW Q, P \subseteq Q
  PROVE  Before(body, P) \subseteq Before(body, Q)
  BY DEF Before

\* A pair is live because of a later one when an edge leads there and the node
\* does not define the register.
LEMMA BeforeMember ==
  ASSUME NEW body, NEW later \in SUBSET (Nodes(body) \X Register), NEW i, NEW r
  PROVE  <<i, r>> \in Before(body, later) <=>
           \E j : /\ <<i, j>> \in Edges(body) /\ <<j, r>> \in later
                  /\ Minus({r}, body[i].def) # {}
<1>1. ASSUME <<i, r>> \in Before(body, later)
      PROVE  \E j : /\ <<i, j>> \in Edges(body) /\ <<j, r>> \in later
                    /\ Minus({r}, body[i].def) # {}
  <2>1. PICK y \in Edges(body) \X later :
          /\ y[1][2] = y[2][1] /\ Minus({y[2][2]}, body[y[1][1]].def) # {}
          /\ <<i, r>> = <<y[1][1], y[2][2]>>
    BY <1>1 DEF Before
  <2>2. y[1] = <<y[1][1], y[1][2]>>
    BY <2>1 DEF Edges
  <2>3. y[2] = <<y[2][1], y[2][2]>> /\ y[1][1] = i /\ y[2][2] = r
    BY <2>1
  <2> QED BY <2>1, <2>2, <2>3
<1>2. ASSUME NEW j, <<i, j>> \in Edges(body), <<j, r>> \in later,
             Minus({r}, body[i].def) # {}
      PROVE  <<i, r>> \in Before(body, later)
  <2> DEFINE y == <<<<i, j>>, <<j, r>>>>
  <2>1. y \in Edges(body) \X later /\ y[1][2] = y[2][1] /\ y[1][1] = i /\ y[2][2] = r
    BY <1>2
  <2> HIDE DEF y
  <2>2. y \in {z \in Edges(body) \X later :
                 z[1][2] = z[2][1] /\ Minus({z[2][2]}, body[z[1][1]].def) # {}}
    BY <1>2, <2>1
  <2> QED BY <2>1, <2>2 DEF Before
<1> QED BY <1>1, <1>2

\* What the graph and the sets of pairs are made of.
LEMMA PairTypes ==
  ASSUME NEW body \in Seq(Instruction)
  PROVE  /\ Len(body) \in Nat /\ Nodes(body) \subseteq 1 .. Len(body)
         /\ Edges(body) \subseteq Nodes(body) \X Nodes(body)
         /\ Reads(body) \in SUBSET (Nodes(body) \X Register)
         /\ \A later \in SUBSET (Nodes(body) \X Register) :
              Before(body, later) \in SUBSET (Nodes(body) \X Register)
         /\ \A i \in Nodes(body) : \A r : <<i, r>> \in Reads(body) <=> r \in body[i].use
<1>1. /\ Len(body) \in Nat /\ DOMAIN body = 1 .. Len(body)
      /\ \A i \in DOMAIN body : body[i] \in Instruction
  OBVIOUS
<1>2. Nodes(body) \subseteq 1 .. Len(body)
  BY <1>1 DEF Nodes
<1>3. Edges(body) \subseteq Nodes(body) \X Nodes(body)
  <2>1. \A t \in targets(body) : t[2] \in Nodes(body)
    BY DEF targets
  <2> QED BY <2>1 DEF Edges
<1>4. /\ Reads(body) \in SUBSET (Nodes(body) \X Register)
      /\ \A i \in Nodes(body) : \A r : <<i, r>> \in Reads(body) <=> r \in body[i].use
  <2>1. \A i \in Nodes(body) : body[i].use \subseteq Register
    BY <1>1, <1>2 DEF Instruction
  <2> QED BY <2>1 DEF Reads
<1>5. ASSUME NEW later \in SUBSET (Nodes(body) \X Register)
      PROVE  Before(body, later) \in SUBSET (Nodes(body) \X Register)
  <2>1. \A y \in Edges(body) \X later : y[1][1] \in Nodes(body) /\ y[2][2] \in Register
    BY <1>3
  <2>2. ASSUME NEW p \in Before(body, later) PROVE p \in Nodes(body) \X Register
    <3>1. PICK y \in Edges(body) \X later : p = <<y[1][1], y[2][2]>>
      BY DEF Before
    <3> QED BY <2>1, <3>1
  <2> QED BY <2>2
<1> QED BY <1>1, <1>2, <1>3, <1>4, <1>5

\* The rounds of LiveIn.
LEMMA LiveInSteps ==
  ASSUME NEW body \in Seq(Instruction)
  PROVE  \E w \in [0 .. Len(body) -> SUBSET (Nodes(body) \X Register)] :
           /\ w[0] = Reads(body)
           /\ \A k \in 1 .. Len(body) : w[k] = Reads(body) \cup Before(body, w[k-1])
           /\ LiveIn(body) = w[Len(body)]
<1> DEFINE m == Len(body)
           T == SUBSET (Nodes(body) \X Register)
           F == [p \in (1 .. m) \X T |-> Reads(body) \cup Before(body, p[2])]
           live[n \in 0 .. m] ==
             IF n = 0 THEN Reads(body) ELSE Reads(body) \cup Before(body, live[n-1])
<1>1. m \in Nat /\ Reads(body) \in T /\ \A later \in T : Before(body, later) \in T
  BY PairTypes
<1>2. LiveIn(body) = live[m]
  BY DEF LiveIn
<1> HIDE DEF m, T, live
<1>3. F \in [(1 .. m) \X T -> T]
  <2>1. \A later \in T : Reads(body) \cup Before(body, later) \in T
    BY <1>1 DEF T
  <2> QED BY <2>1
<1>4. \A k \in 1 .. m : \A x \in T : F[<<k, x>>] = Reads(body) \cup Before(body, x)
  OBVIOUS
<1> HIDE DEF F
<1>5. PICK w : Solves(w, T, Reads(body), m, F)
  BY <1>1, <1>3, RecursionExists
<1>6. /\ w \in [0 .. m -> T] /\ w[0] = Reads(body)
      /\ \A k \in 1 .. m : w[k] = Reads(body) \cup Before(body, w[k-1])
  <2>1. \A k \in 1 .. m : k - 1 \in 0 .. m
    BY <1>1
  <2> QED BY <1>4, <1>5, <2>1 DEF Solves
<1>7. live = [n \in 0 .. m |-> IF n = 0 THEN Reads(body) ELSE Reads(body) \cup Before(body, live[n-1])]
  <2>1. w = [n \in 0 .. m |-> IF n = 0 THEN Reads(body) ELSE Reads(body) \cup Before(body, w[n-1])]
    <3>1. \A n \in 0 .. m : n # 0 => n \in 1 .. m
      BY <1>1
    <3> QED BY <1>6, <3>1
  <2> QED BY <2>1 DEF live
<1>8. live \in [0 .. m -> T]
  <2> DEFINE S == {n \in 0 .. m : live[n] \in T}
  <2>1. 0 \in S
    BY <1>1, <1>7
  <2>2. ASSUME NEW k \in S, k < m PROVE k + 1 \in S
    <3>1. k \in 0 .. m /\ k + 1 \in 0 .. m /\ (k + 1) - 1 = k /\ k + 1 # 0 /\ live[k] \in T
      BY <1>1, <2>2
    <3>2. live[k+1] = Reads(body) \cup Before(body, live[k])
      BY <1>7, <3>1
    <3>3. live[k+1] \in T
      BY <1>1, <3>1, <3>2 DEF T
    <3> QED BY <3>1, <3>3
  <2>3. S \in SUBSET (0 .. m)
    OBVIOUS
  <2> HIDE DEF S
  <2>4. S = 0 .. m
    BY <1>1, <2>1, <2>2, <2>3, IntervalSet
  <2> QED BY <1>7, <2>4 DEF S
<1>9. live[0] = Reads(body)
  BY <1>1, <1>7
<1>10. ASSUME NEW k \in 1 .. m PROVE live[k] = Reads(body) \cup Before(body, live[k-1])
  <2>1. k \in 0 .. m /\ k # 0
    BY <1>1
  <2> QED BY <1>7, <2>1
<1> QED BY <1>2, <1>8, <1>9, <1>10 DEF m, T

\* LiveIn is a solution: what it says of a register is closed backwards.
LEMMA LiveInClosed ==
  ASSUME NEW body \in Seq(Instruction), NEW r \in Register, NEW i \in Nodes(body),
         \/ r \in body[i].use
         \/ /\ Minus({r}, body[i].def) # {}
            /\ \E j : <<i, j>> \in Edges(body) /\ <<j, r>> \in LiveIn(body)
  PROVE  <<i, r>> \in LiveIn(body)
<1> DEFINE m == Len(body)
           N == Nodes(body)
           P == SUBSET (N \X Register)
<1>1. /\ m \in Nat /\ N \in SUBSET (1 .. m) /\ Reads(body) \in P
      /\ Edges(body) \subseteq N \X N
      /\ \A later \in P : Before(body, later) \in P
      /\ \A k \in N : \A s : <<k, s>> \in Reads(body) <=> s \in body[k].use
  BY PairTypes
<1>2. PICK w \in [0 .. m -> P] :
        /\ w[0] = Reads(body)
        /\ \A k \in 1 .. m : w[k] = Reads(body) \cup Before(body, w[k-1])
        /\ LiveIn(body) = w[m]
  BY LiveInSteps
<1> HIDE DEF m
<1> DEFINE At(later) == {k \in N : <<k, r>> \in later}
           f == [A \in SUBSET N |-> At(Reads(body)) \cup At(Before(body, A \X {r}))]
           W == [k \in 0 .. m |-> At(w[k])]
<1>3. ASSUME NEW later \in P PROVE At(Before(body, At(later) \X {r})) = At(Before(body, later))
  <2>1. At(later) \X {r} \in P
    OBVIOUS
  <2>2. \A k : <<k, r>> \in later <=> <<k, r>> \in At(later) \X {r}
    OBVIOUS
  <2>3. \A k \in N : <<k, r>> \in Before(body, At(later) \X {r}) <=> <<k, r>> \in Before(body, later)
    <3> DEFINE now == At(later) \X {r}
    <3>1. now \in SUBSET (Nodes(body) \X Register) /\ later \in SUBSET (Nodes(body) \X Register)
      BY <2>1
    <3>2. \A k : <<k, r>> \in later <=> <<k, r>> \in now
      BY <2>2
    <3> HIDE DEF now
    <3> SUFFICES ASSUME NEW k \in N
                 PROVE  <<k, r>> \in Before(body, now) <=> <<k, r>> \in Before(body, later)
      BY DEF now
    <3>3. <<k, r>> \in Before(body, now) <=>
            \E j : /\ <<k, j>> \in Edges(body) /\ <<j, r>> \in now
                   /\ Minus({r}, body[k].def) # {}
      BY <3>1, BeforeMember
    <3>4. <<k, r>> \in Before(body, later) <=>
            \E j : /\ <<k, j>> \in Edges(body) /\ <<j, r>> \in later
                   /\ Minus({r}, body[k].def) # {}
      BY <3>1, BeforeMember
    <3> QED BY <3>2, <3>3, <3>4
  <2> QED BY <2>3
<1>4. \A A \in SUBSET N : f[A] \in SUBSET N
  OBVIOUS
<1>5. \A A, B \in SUBSET N : A \subseteq B => f[A] \subseteq f[B]
  <2> SUFFICES ASSUME NEW A \in SUBSET N, NEW B \in SUBSET N, A \subseteq B
               PROVE  At(Before(body, A \X {r})) \subseteq At(Before(body, B \X {r}))
    OBVIOUS
  <2>1. A \X {r} \subseteq B \X {r}
    OBVIOUS
  <2> QED BY <2>1, BeforeMonotone
<1>6. \A k \in 0 .. m : W[k] \in SUBSET N
  OBVIOUS
<1>7. W[0] \subseteq f[W[0]]
  BY <1>1, <1>2
<1>8. \A k \in 0 .. m : k < m => W[k+1] = f[W[k]]
  <2> SUFFICES ASSUME NEW k \in 0 .. m, k < m PROVE W[k+1] = f[W[k]]
    OBVIOUS
  <2>1. k + 1 \in 1 .. m /\ k + 1 \in 0 .. m /\ (k + 1) - 1 = k /\ w[k] \in P
    BY <1>1, <1>2
  <2>2. w[k+1] = Reads(body) \cup Before(body, w[k])
    BY <1>2, <2>1
  <2>3. At(w[k+1]) = At(Reads(body)) \cup At(Before(body, w[k]))
    BY <2>2
  <2>4. At(Before(body, w[k])) = At(Before(body, At(w[k]) \X {r}))
    BY <1>3, <2>1
  <2> HIDE DEF At
  <2> QED BY <2>1, <2>3, <2>4 DEF At
<1> HIDE DEF f, W
<1>9. f[W[m]] \subseteq W[m]
  BY <1>1, <1>4, <1>5, <1>6, <1>7, <1>8, IterationCloses
<1>10. m \in 0 .. m /\ w[m] \in P
  BY <1>1, <1>2
<1>11. At(Reads(body)) \cup At(Before(body, LiveIn(body))) \subseteq At(LiveIn(body))
  <2>1. W[m] = At(LiveIn(body)) /\ At(LiveIn(body)) \in SUBSET N
    BY <1>2, <1>10 DEF W
  <2>2. f[At(LiveIn(body))] = At(Reads(body)) \cup At(Before(body, LiveIn(body)))
    BY <1>2, <1>3, <1>10, <2>1 DEF f
  <2> QED BY <1>9, <2>1, <2>2
<1>12. i \in At(Reads(body)) \/ i \in At(Before(body, LiveIn(body)))
  <2>1. CASE r \in body[i].use
    BY <1>1, <2>1
  <2>2. CASE Minus({r}, body[i].def) # {} /\ \E j : <<i, j>> \in Edges(body) /\ <<j, r>> \in LiveIn(body)
    <3>1. LiveIn(body) \in SUBSET (Nodes(body) \X Register)
      BY <1>2, <1>10
    <3>2. <<i, r>> \in Before(body, LiveIn(body))
      BY <2>2, <3>1, BeforeMember
    <3> QED BY <3>2
  <2> QED BY <2>1, <2>2
<1> QED BY <1>11, <1>12

\* LiveIn is within every solution.
LEMMA LiveInLeast ==
  ASSUME NEW body \in Seq(Instruction), NEW Q \in SUBSET (Nodes(body) \X Register),
         Reads(body) \subseteq Q, Before(body, Q) \subseteq Q
  PROVE  LiveIn(body) \subseteq Q
<1> DEFINE m == Len(body)
<1>1. m \in Nat
  OBVIOUS
<1>2. PICK w \in [0 .. m -> SUBSET (Nodes(body) \X Register)] :
        /\ w[0] = Reads(body)
        /\ \A k \in 1 .. m : w[k] = Reads(body) \cup Before(body, w[k-1])
        /\ LiveIn(body) = w[m]
  BY LiveInSteps
<1> HIDE DEF m
<1> DEFINE S == {k \in 0 .. m : w[k] \subseteq Q}
<1>3. 0 \in S
  BY <1>1, <1>2
<1>4. ASSUME NEW k \in S, k < m PROVE k + 1 \in S
  <2>1. k + 1 \in 1 .. m /\ k + 1 \in 0 .. m /\ (k + 1) - 1 = k /\ w[k] \subseteq Q
    BY <1>1, <1>4
  <2>2. w[k+1] = Reads(body) \cup Before(body, w[k])
    BY <1>2, <2>1
  <2>3. Before(body, w[k]) \subseteq Before(body, Q)
    BY <2>1, BeforeMonotone
  <2>4. w[k+1] \subseteq Q
    BY <2>2, <2>3
  <2> QED BY <2>1, <2>4
<1>5. S \in SUBSET (0 .. m) /\ m \in 0 .. m
  BY <1>1
<1> HIDE DEF S
<1>6. m \in S
  BY <1>1, <1>3, <1>4, <1>5, IntervalSet
<1> QED BY <1>2, <1>6 DEF S

-----------------------------------------------------------------------------
(* The edges are the machine's control flow, when the labels of the program  *)
(* are not the builder's and no label is declared twice.                     *)

ProgramLabels(body) ==
  /\ \A i \in DOMAIN body : body[i].op \in {"label", "jmp", "jcc"} => body[i].lab[1] # "X"
  /\ \A i, j \in DOMAIN body :
       body[i].op = "label" /\ body[j].op = "label" /\ body[i].lab = body[j].lab => i = j

\* How many labels the builder has made when it comes to position i.
Made(body, i) == Cardinality({j \in 1 .. i-1 : FallsThrough(body[j])})

\* The count goes up at an instruction that falls through, and only there.
LEMMA MadeSteps ==
  ASSUME NEW body, NEW i \in Nat \ {0}, NEW j \in Nat, i <= j
  PROVE  /\ Made(body, i) \in Nat /\ Made(body, j) \in Nat
         /\ Made(body, i) <= Made(body, j)
         /\ (\E k \in i .. j-1 : FallsThrough(body[k])) => Made(body, i) < Made(body, j)
         /\ (\A k \in i .. j-1 : ~FallsThrough(body[k])) => Made(body, i) = Made(body, j)
<1> DEFINE S(n) == {k \in 1 .. n-1 : FallsThrough(body[k])}
<1>1. \A n \in Nat : IsFiniteSet(S(n))
  <2> SUFFICES ASSUME NEW n \in Nat PROVE IsFiniteSet(S(n))
    OBVIOUS
  <2> DEFINE I == 1 .. n-1
  <2>1. IsFiniteSet(I) /\ S(n) \in SUBSET I
    BY FS_Interval
  <2> HIDE DEF I, S
  <2> QED BY <2>1, FS_Subset
<1>2. S(i) \in SUBSET S(j)
  OBVIOUS
<1>3. (\A k \in i .. j-1 : ~FallsThrough(body[k])) => S(i) = S(j)
  OBVIOUS
<1>4. (\E k \in i .. j-1 : FallsThrough(body[k])) => S(i) # S(j)
  <2> SUFFICES ASSUME NEW k \in i .. j-1, FallsThrough(body[k]) PROVE S(i) # S(j)
    OBVIOUS
  <2>1. k \in 1 .. j-1 /\ k \notin 1 .. i-1
    OBVIOUS
  <2>2. k \in S(j) /\ k \notin S(i)
    BY <2>1
  <2> QED BY <2>2
<1>5. Made(body, i) = Cardinality(S(i)) /\ Made(body, j) = Cardinality(S(j))
  BY DEF Made
<1> HIDE DEF S
<1>6. IsFiniteSet(S(i)) /\ IsFiniteSet(S(j))
  BY <1>1
<1>7. /\ Cardinality(S(i)) \in Nat /\ Cardinality(S(j)) \in Nat
      /\ Cardinality(S(i)) <= Cardinality(S(j))
      /\ Cardinality(S(j)) = Cardinality(S(i)) => S(i) = S(j)
  BY <1>2, <1>6, FS_Subset, FS_CardinalityType
<1> QED BY <1>3, <1>4, <1>5, <1>7

\* At most one node follows a position with nothing but labels in between.
LEMMA FirstNodeUnique ==
  ASSUME NEW body \in Seq(Instruction), NEW p \in Nat,
         NEW i \in FirstNodeFrom(body, p), NEW j \in FirstNodeFrom(body, p)
  PROVE  i = j
<1>1. i \in Nat /\ j \in Nat /\ i >= p /\ j >= p /\ body[i].op # "label" /\ body[j].op # "label"
  BY PairTypes DEF FirstNodeFrom, Nodes
<1>2. ~(i < j)
  <2>1. i < j => i \in p .. j-1
    BY <1>1
  <2> QED BY <1>1, <2>1 DEF FirstNodeFrom
<1>3. ~(j < i)
  <2>1. j < i => j \in p .. i-1
    BY <1>1
  <2> QED BY <1>1, <2>1 DEF FirstNodeFrom
<1> QED BY <1>1, <1>2, <1>3

\* From a position, some node at it or after it is the first.
LEMMA FirstNodeExists ==
  ASSUME NEW body \in Seq(Instruction), NEW p \in Nat \ {0}, NEW n \in Nodes(body), p <= n
  PROVE  \E i \in FirstNodeFrom(body, p) : i <= n
<1> DEFINE S == {i \in Nodes(body) : i >= p}
<1>1. Len(body) \in Nat /\ DOMAIN body = 1 .. Len(body) /\ Nodes(body) \subseteq 1 .. Len(body)
  BY PairTypes
<1>2. S \in SUBSET Nat /\ n \in S
  BY <1>1
<1>3. PICK i \in S : \A y \in S : i <= y
  BY <1>2, LeastNumber
<1>4. ASSUME NEW k \in p .. i-1 PROVE body[k].op = "label"
  <2>1. k \in DOMAIN body /\ ~(i <= k)
    BY <1>1, <1>3
  <2>2. k \notin S
    BY <1>3, <2>1
  <2> QED BY <2>1, <2>2 DEF Nodes
<1> QED BY <1>2, <1>3, <1>4 DEF FirstNodeFrom

\* An edge leads to the first node that carries one of the labels of To.
LEMMA EdgeMember ==
  ASSUME NEW body, NEW i \in Nodes(body), NEW j
  PROVE  <<i, j>> \in Edges(body) <=>
           \E l \in To(body, i) :
             /\ j \in Nodes(body) /\ l \in Labels(body, j)
             /\ \A k \in Nodes(body) : l \in Labels(body, k) => j <= k
<1>1. \A l : <<l, j>> \in targets(body) <=>
               /\ j \in Nodes(body) /\ l \in Labels(body, j)
               /\ \A k \in Nodes(body) : l \in Labels(body, k) => j <= k
  BY DEF targets
<1>2. \A t \in targets(body) : t = <<t[1], t[2]>>
  BY DEF targets
<1>3. <<i, j>> \in Edges(body) <=> \E l \in To(body, i) : <<l, j>> \in targets(body)
  <2>1. ASSUME <<i, j>> \in Edges(body) PROVE \E l \in To(body, i) : <<l, j>> \in targets(body)
    <3>1. PICK y \in Nodes(body) \X targets(body) :
            y[2][1] \in To(body, y[1]) /\ <<i, j>> = <<y[1], y[2][2]>>
      BY <2>1 DEF Edges
    <3> QED BY <1>2, <3>1
  <2>2. ASSUME NEW l \in To(body, i), <<l, j>> \in targets(body) PROVE <<i, j>> \in Edges(body)
    <3> DEFINE y == <<i, <<l, j>>>>
    <3>1. y \in Nodes(body) \X targets(body) /\ y[2][1] = l /\ y[1] = i /\ y[2][2] = j
      BY <2>2
    <3> HIDE DEF y
    <3> QED BY <3>1 DEF Edges
  <2> QED BY <2>1, <2>2
<1> QED BY <1>1, <1>3

\* The node that the builder's label after i means is the one that follows i.
LEMMA NextTarget ==
  ASSUME NEW body \in Seq(Instruction), ProgramLabels(body),
         NEW i \in Nodes(body), FallsThrough(body[i]), NEW j
  PROVE  (/\ j \in Nodes(body) /\ PointingTo(body, i+1) \in Labels(body, j)
          /\ \A k \in Nodes(body) : PointingTo(body, i+1) \in Labels(body, k) => j <= k)
         <=> j \in FirstNodeFrom(body, i+1)
<1> DEFINE Carries(k) == PointingTo(body, i+1) \in Labels(body, k)
<1>1. /\ Len(body) \in Nat /\ DOMAIN body = 1 .. Len(body) /\ Nodes(body) \subseteq 1 .. Len(body)
      /\ i \in Nat \ {0} /\ i + 1 \in Nat \ {0} /\ i <= i + 1
  BY PairTypes
<1>2. ASSUME NEW k \in Nodes(body) PROVE Carries(k) <=> Made(body, k) = Made(body, i+1)
  <2>1. ASSUME NEW p \in LabelsBefore(body, k) PROVE body[p].lab # PointingTo(body, i+1)
    <3>1. p \in DOMAIN body /\ body[p].op = "label"
      BY <1>1 DEF LabelsBefore
    <3>2. body[p].lab[1] # "X"
      BY <3>1 DEF ProgramLabels
    <3> QED BY <3>2 DEF PointingTo
  <2>2. Carries(k) <=> PointingTo(body, i+1) = PointingTo(body, k)
    BY <2>1 DEF Labels
  <2>3. Made(body, k) \in Nat /\ Made(body, i+1) \in Nat
    <3>1. k \in Nat \ {0} /\ k <= k
      BY <1>1
    <3> QED BY <1>1, <3>1, MadeSteps
  <2>4. /\ PointingTo(body, i+1) = <<"X", 1 + Made(body, i+1)>>
        /\ PointingTo(body, k) = <<"X", 1 + Made(body, k)>>
    BY DEF PointingTo, Made
  <2> QED BY <2>2, <2>3, <2>4
<1>3. ASSUME NEW k \in Nodes(body), Carries(k) PROVE k >= i + 1
  <2> SUFFICES ASSUME k < i + 1 PROVE FALSE
    BY <1>1
  <2>1. k \in Nat \ {0} /\ k <= i + 1 /\ i \in k .. (i + 1) - 1
    BY <1>1
  <2>2. Made(body, k) \in Nat /\ Made(body, i+1) \in Nat /\ Made(body, k) < Made(body, i+1)
    BY <1>1, <2>1, MadeSteps
  <2> QED BY <1>2, <1>3, <2>2
<1>4. ASSUME NEW f \in FirstNodeFrom(body, i+1)
      PROVE  /\ f \in Nodes(body) /\ Carries(f)
             /\ \A k \in Nodes(body) : Carries(k) => f <= k
  <2>1. /\ f \in Nodes(body) /\ f \in Nat /\ i + 1 <= f
        /\ \A k \in i+1 .. f-1 : body[k].op = "label" /\ ~FallsThrough(body[k])
    BY <1>1 DEF FirstNodeFrom, FallsThrough
  <2>2. Made(body, i+1) = Made(body, f)
    BY <1>1, <2>1, MadeSteps
  <2>3. ASSUME NEW k \in Nodes(body), Carries(k) PROVE f <= k
    <3>1. k >= i + 1 /\ k \in Nat
      BY <1>1, <1>3, <2>3
    <3>2. ~(k < f)
      <4>1. k < f => k \in i+1 .. f-1
        BY <1>1, <2>1, <3>1
      <4> QED BY <2>1, <4>1 DEF Nodes
    <3> QED BY <2>1, <3>1, <3>2
  <2> QED BY <1>2, <2>1, <2>2, <2>3
<1>5. ASSUME j \in Nodes(body), Carries(j), \A k \in Nodes(body) : Carries(k) => j <= k
      PROVE  j \in FirstNodeFrom(body, i+1)
  <2>1. PICK f \in FirstNodeFrom(body, i+1) : f <= j
    BY <1>1, <1>3, <1>5, FirstNodeExists
  <2>2. f \in Nodes(body) /\ j <= f
    BY <1>4, <1>5
  <2>3. f = j
    BY <1>1, <1>5, <2>1, <2>2
  <2> QED BY <2>3
<1> QED BY <1>4, <1>5

\* A label of the program means the first node after its declaration.
LEMMA JumpTarget ==
  ASSUME NEW body \in Seq(Instruction), ProgramLabels(body),
         NEW i \in Nodes(body), body[i].op \in {"jmp", "jcc"}, NEW j
  PROVE  (/\ j \in Nodes(body) /\ body[i].lab \in Labels(body, j)
          /\ \A k \in Nodes(body) : body[i].lab \in Labels(body, k) => j <= k)
         <=> \E p \in DOMAIN body : /\ body[p].op = "label" /\ body[p].lab = body[i].lab
                                    /\ j \in FirstNodeFrom(body, p)
<1> DEFINE l == body[i].lab
           Declares(p) == p \in DOMAIN body /\ body[p].op = "label" /\ body[p].lab = l
<1>1. /\ Len(body) \in Nat /\ DOMAIN body = 1 .. Len(body) /\ Nodes(body) \subseteq 1 .. Len(body)
      /\ l[1] # "X"
  BY PairTypes DEF ProgramLabels, Nodes
<1>2. ASSUME NEW k \in Nodes(body)
      PROVE  l \in Labels(body, k) <=> \E p : Declares(p) /\ k \in FirstNodeFrom(body, p)
  <2>1. l # PointingTo(body, k)
    BY <1>1 DEF PointingTo
  <2>2. ASSUME NEW p \in LabelsBefore(body, k), body[p].lab = l
        PROVE  Declares(p) /\ k \in FirstNodeFrom(body, p)
    BY <1>1, <2>2 DEF LabelsBefore, FirstNodeFrom
  <2>3. ASSUME NEW p, Declares(p), k \in FirstNodeFrom(body, p) PROVE p \in LabelsBefore(body, k)
    <3>1. p # k /\ p \in Nat \ {0} /\ k \in Nat /\ p <= k
      BY <1>1, <2>3 DEF Nodes, FirstNodeFrom
    <3>2. p \in 1 .. k-1
      BY <3>1
    <3> QED BY <2>3, <3>2 DEF LabelsBefore, FirstNodeFrom
  <2> QED BY <2>1, <2>2, <2>3 DEF Labels
<1>3. ASSUME NEW p, NEW q, Declares(p), Declares(q),
             NEW k \in FirstNodeFrom(body, p), NEW n \in FirstNodeFrom(body, q)
      PROVE  k = n
  <2>1. p = q /\ p \in Nat
    BY <1>1, <1>3 DEF ProgramLabels
  <2> QED BY <2>1, FirstNodeUnique
<1>4. ASSUME NEW p, Declares(p), j \in FirstNodeFrom(body, p)
      PROVE  /\ j \in Nodes(body) /\ l \in Labels(body, j)
             /\ \A k \in Nodes(body) : l \in Labels(body, k) => j <= k
  <2>1. j \in Nodes(body) /\ j \in Nat
    BY <1>1, <1>4 DEF FirstNodeFrom
  <2>2. \A k \in Nodes(body) : l \in Labels(body, k) => j = k
    BY <1>2, <1>3, <1>4
  <2> QED BY <1>2, <1>4, <2>1, <2>2
<1> QED BY <1>2, <1>4

\* The successors the builder links a node to are where the machine goes.
LEMMA EdgesAreFlow ==
  ASSUME NEW body \in Seq(Instruction), ProgramLabels(body), NEW i \in Nodes(body)
  PROVE  {j \in Nodes(body) : <<i, j>> \in Edges(body)} = Goes(body, i)
<1> DEFINE First(l, j) == /\ j \in Nodes(body) /\ l \in Labels(body, j)
                          /\ \A k \in Nodes(body) : l \in Labels(body, k) => j <= k
           Jumped == UNION {FirstNodeFrom(body, p) :
                              p \in {k \in DOMAIN body : body[k].op = "label"
                                                         /\ body[k].lab = body[i].lab}}
<1>1. ASSUME NEW j
      PROVE  <<i, j>> \in Edges(body) <=>
               \/ FallsThrough(body[i]) /\ First(PointingTo(body, i+1), j)
               \/ body[i].op \in {"jmp", "jcc"} /\ First(body[i].lab, j)
  <2>1. <<i, j>> \in Edges(body) <=> \E l \in To(body, i) : First(l, j)
    BY EdgeMember
  <2> HIDE DEF First
  <2> QED BY <2>1 DEF To
<1>2. ASSUME FallsThrough(body[i]), NEW j
      PROVE  First(PointingTo(body, i+1), j) <=> j \in FirstNodeFrom(body, i+1)
  BY <1>2, NextTarget
<1>3. ASSUME body[i].op \in {"jmp", "jcc"}, NEW j
      PROVE  First(body[i].lab, j) <=> j \in Jumped
  <2>1. First(body[i].lab, j) <=>
          \E p \in DOMAIN body : /\ body[p].op = "label" /\ body[p].lab = body[i].lab
                                 /\ j \in FirstNodeFrom(body, p)
    BY <1>3, JumpTarget
  <2> QED BY <2>1
<1>4. \A j : FirstNodeFrom(body, i+1) \subseteq Nodes(body) /\ Jumped \subseteq Nodes(body)
  BY DEF FirstNodeFrom
<1>5. Goes(body, i) = (IF FallsThrough(body[i]) THEN FirstNodeFrom(body, i+1) ELSE {})
                        \cup (IF body[i].op \in {"jmp", "jcc"} THEN Jumped ELSE {})
  BY DEF Goes
<1> HIDE DEF First, Jumped
<1> QED BY <1>1, <1>2, <1>3, <1>4, <1>5

-----------------------------------------------------------------------------
(* The analysis *)

\* Every visit only adds to its node: what a node holds is contained in what
\* its equation now gives.
Inflationary == \A i \in Nodes(funcDecl) : inVals[i] \subseteq NewIn(i, Out(i))

\* Removing the defined registers is monotone.
LEMMA MinusMonotone ==
  ASSUME NEW S, NEW T, NEW D, S \subseteq T
  PROVE  Minus(S, D) \subseteq Minus(T, D) /\ Minus(S, D) \subseteq S
  BY DEF Minus

\* The maps and the worklist stay within the nodes and registers of the body.
THEOREM TypeCorrect == Spec => []TypeOK
<1>1. Init => TypeOK
  BY DEF Init, TypeOK, Graph
<1>2. TypeOK /\ [Next]_vars => TypeOK'
  <2> SUFFICES ASSUME TypeOK, [Next]_vars PROVE TypeOK'
    OBVIOUS
  <2>1. CASE UNCHANGED vars
    BY <2>1 DEF vars, TypeOK, Registers
  <2>2. ASSUME NEW i \in Nodes(funcDecl), Visit(i) PROVE TypeOK'
    <3>1. funcDecl' = funcDecl /\ cfg' = cfg /\ Registers' = Registers
      BY <2>2 DEF Visit, Registers
    <3>2. Out(i) \subseteq Registers
      BY <2>2 DEF TypeOK, Out
    <3>3. NewIn(i, Out(i)) \subseteq Registers
      <4>1. funcDecl[i].use \subseteq Registers
        BY DEF Registers
      <4>2. Minus(Out(i), funcDecl[i].def) \subseteq Out(i)
        BY DEF Minus
      <4> QED BY <3>2, <4>1, <4>2 DEF NewIn
    <3>4. inVals' \in [Nodes(funcDecl) -> SUBSET Registers]
      BY <2>2, <3>3 DEF Visit, TypeOK
    <3>5. /\ DOMAIN outVals' \subseteq Nodes(funcDecl)
          /\ \A j \in DOMAIN outVals' : outVals'[j] \subseteq Registers
      BY <2>2, <3>2 DEF Visit, TypeOK
    <3>6. worklist' \subseteq Nodes(funcDecl)
      BY <2>2 DEF Visit, TypeOK, preds
    <3> QED BY <3>1, <3>4, <3>5, <3>6 DEF TypeOK
  <2> QED BY <2>1, <2>2 DEF Next
<1> QED BY <1>1, <1>2, PTL DEF Spec

-----------------------------------------------------------------------------
(* Settled: when node i is visited, a node off the worklist either is not a *)
(* predecessor of i, or i has not changed.                                  *)

\* A node off the worklist satisfies both dataflow equations.
THEOREM SettledCorrect == Spec => []Settled
<1>1. Init => Settled
  BY DEF Init, Settled
<1>2. TypeOK /\ Settled /\ [Next]_vars => Settled'
  <2> SUFFICES ASSUME TypeOK, Settled, [Next]_vars PROVE Settled'
    OBVIOUS
  <2>1. CASE UNCHANGED vars
    <3>1. UNCHANGED <<funcDecl, cfg, inVals, outVals, worklist>>
      BY <2>1 DEF vars
    <3>2. \A j : Out(j)' = Out(j) /\ NewIn(j, Out(j))' = NewIn(j, Out(j))
      BY <3>1 DEF Out, NewIn
    <3> QED BY <3>1, <3>2 DEF Settled
  <2>2. ASSUME NEW i \in Nodes(funcDecl), Visit(i) PROVE Settled'
    <3>1. funcDecl' = funcDecl /\ cfg' = cfg
      BY <2>2 DEF Visit
    <3> SUFFICES ASSUME NEW j \in Nodes(funcDecl), j \notin worklist'
                 PROVE  /\ j \in DOMAIN outVals'
                        /\ outVals'[j] = Out(j)'
                        /\ inVals'[j] = NewIn(j, Out(j))'
      BY <3>1 DEF Settled
    <3>2. \A k \in cfg[j] : inVals'[k] = inVals[k]
      BY <2>2, <3>1 DEF Visit, TypeOK, preds
    <3>3. Out(j)' = Out(j)
      BY <3>1, <3>2 DEF Out
    <3>4. NewIn(j, Out(j))' = NewIn(j, Out(j))
      BY <3>1, <3>3 DEF NewIn
    <3>5. CASE j = i
      <4>1. outVals'[j] = Out(j) /\ j \in DOMAIN outVals'
        BY <2>2, <3>5 DEF Visit
      <4>2. inVals'[j] = NewIn(j, Out(j))
        BY <2>2, <3>5 DEF Visit, TypeOK
      <4> QED BY <3>3, <3>4, <4>1, <4>2
    <3>6. CASE j # i
      <4>1. j \notin worklist
        BY <2>2, <3>6 DEF Visit
      <4>2. j \in DOMAIN outVals /\ outVals[j] = Out(j) /\ inVals[j] = NewIn(j, Out(j))
        BY <4>1 DEF Settled
      <4>3. j \in DOMAIN outVals' /\ outVals'[j] = outVals[j] /\ inVals'[j] = inVals[j]
        BY <2>2, <3>6, <4>2 DEF Visit, TypeOK
      <4> QED BY <3>3, <3>4, <4>2, <4>3
    <3> QED BY <3>5, <3>6
  <2> QED BY <2>1, <2>2 DEF Next
<1> QED BY <1>1, <1>2, TypeCorrect, PTL DEF Spec

-----------------------------------------------------------------------------
(* Growth. *)

\* What node i has been told is what its equation gives, as long as no
\* predecessor sees a smaller set: Inflationary is the inductive invariant.
LEMMA StepGrows ==
  ASSUME TypeOK, Inflationary, NEW i \in Nodes(funcDecl), Visit(i)
  PROVE  /\ \A j \in Nodes(funcDecl) : inVals[j] \subseteq inVals'[j]
         /\ Inflationary'
<1>1. funcDecl' = funcDecl /\ cfg' = cfg
  BY DEF Visit
<1>2. /\ inVals'[i] = NewIn(i, Out(i))
      /\ \A j \in Nodes(funcDecl) : j # i => inVals'[j] = inVals[j]
  BY DEF Visit, TypeOK
<1>3. \A j \in Nodes(funcDecl) : inVals[j] \subseteq inVals'[j]
  BY <1>2 DEF Inflationary
<1>4. ASSUME NEW j \in Nodes(funcDecl) PROVE NewIn(j, Out(j)) \subseteq NewIn(j, Out(j))'
  <2>1. Out(j) \subseteq Out(j)'
    BY <1>1, <1>3 DEF Out, TypeOK
  <2>2. Minus(Out(j), funcDecl[j].def) \subseteq Minus(Out(j)', funcDecl[j].def)
    BY <2>1, MinusMonotone
  <2> QED BY <1>1, <2>2 DEF NewIn
<1>5. Inflationary'
  <2> SUFFICES ASSUME NEW j \in Nodes(funcDecl)
               PROVE  inVals'[j] \subseteq NewIn(j, Out(j))'
    BY <1>1 DEF Inflationary
  <2>1. inVals'[j] \subseteq NewIn(j, Out(j))
    BY <1>2 DEF Inflationary
  <2> QED BY <1>4, <2>1
<1> QED BY <1>3, <1>5

\* The equation of every node covers what the node holds.
LEMMA InflationaryCorrect == Spec => []Inflationary
<1>1. Init => Inflationary
  BY DEF Init, Inflationary
<1>2. TypeOK /\ Inflationary /\ [Next]_vars => Inflationary'
  <2> SUFFICES ASSUME TypeOK, Inflationary, [Next]_vars PROVE Inflationary'
    OBVIOUS
  <2>1. CASE UNCHANGED vars
    BY <2>1, ZenonT(60) DEF vars, Inflationary, Out, NewIn
  <2>2. ASSUME NEW i \in Nodes(funcDecl), Visit(i) PROVE Inflationary'
    BY <2>2, StepGrows
  <2> QED BY <2>1, <2>2 DEF Next
<1> QED BY <1>1, <1>2, TypeCorrect, PTL DEF Spec

\* The liveness sets only grow.
THEOREM OnlyGrowsCorrect == Spec => OnlyGrows
<1>1. TypeOK /\ Inflationary /\ [Next]_vars
        => [\A i \in Nodes(funcDecl) : inVals[i] \subseteq inVals'[i]]_vars
  <2> SUFFICES ASSUME TypeOK, Inflationary, Next
               PROVE  \A i \in Nodes(funcDecl) : inVals[i] \subseteq inVals'[i]
    OBVIOUS
  <2> QED BY StepGrows DEF Next
<1> QED BY <1>1, TypeCorrect, InflationaryCorrect, PTL DEF Spec, OnlyGrows

-----------------------------------------------------------------------------
(* The least solution. *)

\* No solution leaves out a node where a register has been reported live.
BelowSolutions ==
  \A r \in Registers : \A W \in SUBSET Nodes(funcDecl) :
    LiveAt(r) \subseteq W \/ ~ClosedFor(r, W)

\* Nothing is ever reported live without need.
LEMMA BelowSolutionsCorrect == Spec => []BelowSolutions
<1>1. Init => BelowSolutions
  BY DEF Init, BelowSolutions, LiveAt
<1>2. TypeOK /\ BelowSolutions /\ [Next]_vars => BelowSolutions'
  <2> SUFFICES ASSUME TypeOK, BelowSolutions, [Next]_vars PROVE BelowSolutions'
    OBVIOUS
  <2>1. CASE UNCHANGED vars
    <3>1. UNCHANGED <<funcDecl, cfg, inVals>>
      BY <2>1 DEF vars
    <3>2. Registers' = Registers
      BY <3>1 DEF Registers
    <3>3. ASSUME NEW r \in Registers, NEW W \in SUBSET Nodes(funcDecl)
          PROVE  LiveAt(r)' \subseteq W \/ ~ClosedFor(r, W)'
      <4>1. LiveAt(r)' = LiveAt(r) /\ (ClosedFor(r, W)' <=> ClosedFor(r, W))
        BY <3>1 DEF LiveAt, ClosedFor
      <4> QED BY <4>1 DEF BelowSolutions
    <3> QED BY <3>1, <3>2, <3>3 DEF BelowSolutions
  <2>2. ASSUME NEW i \in Nodes(funcDecl), Visit(i) PROVE BelowSolutions'
    <3>1. funcDecl' = funcDecl /\ cfg' = cfg /\ Registers' = Registers
      BY <2>2 DEF Visit, Registers
    <3> SUFFICES ASSUME NEW r \in Registers, NEW W \in SUBSET Nodes(funcDecl),
                        ClosedFor(r, W)
                 PROVE  LiveAt(r)' \subseteq W
      BY <3>1 DEF BelowSolutions, ClosedFor
    <3>2. LiveAt(r) \subseteq W
      BY DEF BelowSolutions
    <3>3. ASSUME r \in NewIn(i, Out(i)) PROVE i \in W
      <4>1. CASE r \in funcDecl[i].use
        BY <4>1 DEF ClosedFor
      <4>2. CASE r \in Minus(Out(i), funcDecl[i].def)
        <5>1. Minus({r}, funcDecl[i].def) # {}
          BY <4>2 DEF Minus
        <5>2. PICK j \in cfg[i] : r \in inVals[j]
          BY <4>2 DEF Minus, Out
        <5>3. j \in LiveAt(r)
          BY <5>2 DEF LiveAt, TypeOK
        <5>4. cfg[i] \cap W # {}
          BY <3>2, <5>3
        <5> QED BY <5>1, <5>4 DEF ClosedFor
      <4> QED BY <3>3, <4>1, <4>2 DEF NewIn
    <3>4. ASSUME NEW j \in LiveAt(r)' PROVE j \in W
      <4>1. CASE j = i
        <5>1. r \in NewIn(i, Out(i))
          BY <2>2, <3>4, <4>1 DEF LiveAt, Visit, TypeOK
        <5> QED BY <3>3, <4>1, <5>1
      <4>2. CASE j # i
        <5>1. j \in LiveAt(r)
          BY <2>2, <3>1, <3>4, <4>2 DEF LiveAt, Visit, TypeOK
        <5> QED BY <3>2, <5>1
      <4> QED BY <4>1, <4>2
    <3> QED BY <3>4
  <2> QED BY <2>1, <2>2 DEF Next
<1> QED BY <1>1, <1>2, TypeCorrect, PTL DEF Spec

\* The analysis computes the least solution of the liveness equations.
THEOREM LeastLivenessCorrect == Spec => []LeastLiveness
<1>1. TypeOK /\ Settled /\ BelowSolutions => LeastLiveness
  <2> SUFFICES ASSUME TypeOK, Settled, BelowSolutions, NEW r \in Registers, Done
               PROVE  ClosedFor(r, LiveAt(r))
    BY DEF LeastLiveness, BelowSolutions
  <2> SUFFICES ASSUME NEW i \in Nodes(funcDecl),
                      \/ r \in funcDecl[i].use
                      \/ /\ Minus({r}, funcDecl[i].def) # {}
                         /\ cfg[i] \cap LiveAt(r) # {}
               PROVE  i \in LiveAt(r)
    BY DEF ClosedFor
  <2>1. inVals[i] = NewIn(i, Out(i))
    BY DEF Settled, Done
  <2>2. CASE r \in funcDecl[i].use
    BY <2>1, <2>2 DEF NewIn, LiveAt
  <2>3. CASE Minus({r}, funcDecl[i].def) # {} /\ cfg[i] \cap LiveAt(r) # {}
    <3>1. r \in Out(i)
      BY <2>3 DEF Out, LiveAt
    <3>2. r \in Minus(Out(i), funcDecl[i].def)
      BY <2>3, <3>1 DEF Minus
    <3> QED BY <2>1, <3>2 DEF NewIn, LiveAt
  <2> QED BY <2>2, <2>3
<1> QED BY <1>1, TypeCorrect, SettledCorrect, BelowSolutionsCorrect, PTL

-----------------------------------------------------------------------------
(* LiveIn, the least solution computed in rounds, is what the maps hold. *)

\* The graph is the body's.
Inputs == funcDecl \in Functions /\ cfg = Graph(funcDecl)

\* Neither the body nor its graph changes.
LEMMA InputsCorrect == Spec => []Inputs
<1>1. Init => Inputs
  BY DEF Init, Inputs
<1>2. Inputs /\ [Next]_vars => Inputs'
  BY DEF Inputs, Next, Visit, vars
<1> QED BY <1>1, <1>2, PTL DEF Spec

\* For every body and every order of visits, the maps the loop ends with are
\* LiveIn and LiveOut: the allocator's model may take them in one step.
THEOREM ResultCorrect == Spec => []ResultIsLiveOut
<1>1. TypeOK /\ Inputs /\ Settled /\ BelowSolutions => ResultIsLiveOut
  <2> SUFFICES ASSUME TypeOK, Inputs, Settled, BelowSolutions, Done
               PROVE  /\ UNION {{i} \X inVals[i] : i \in DOMAIN inVals} = LiveIn(funcDecl)
                      /\ UNION {{i} \X outVals[i] : i \in DOMAIN outVals} = LiveOut(funcDecl)
    BY DEF ResultIsLiveOut
  <2> DEFINE P == UNION {{i} \X inVals[i] : i \in DOMAIN inVals}
             O == UNION {{i} \X outVals[i] : i \in DOMAIN outVals}
             N == Nodes(funcDecl)
  <2>1. /\ funcDecl \in Seq(Instruction)
        /\ \A i, j : i \in N /\ j \in cfg[i] <=> i \in N /\ j \in N /\ <<i, j>> \in Edges(funcDecl)
    BY FunctionsAssumption DEF Inputs, Graph
  <2>2. Edges(funcDecl) \subseteq N \X N
    BY <2>1, PairTypes
  <2>3. Registers \subseteq Register
    <3>1. \A i \in N : funcDecl[i] \in Instruction
      BY <2>1 DEF Nodes
    <3> QED BY <3>1 DEF Registers, Instruction
  <2>4. /\ \A i \in N : inVals[i] = NewIn(i, Out(i)) /\ inVals[i] \subseteq Registers
        /\ DOMAIN inVals = N /\ DOMAIN outVals = N
        /\ \A i \in N : outVals[i] = Out(i)
    BY DEF Settled, Done, TypeOK
  <2>5. P \in SUBSET (N \X Register) /\ \A i, r : <<i, r>> \in P <=> i \in N /\ r \in inVals[i]
    BY <2>3, <2>4
  <2>6. \A i \in N : \A r : r \in Out(i) <=> \E j : <<i, j>> \in Edges(funcDecl) /\ <<j, r>> \in P
    <3> HIDE DEF P
    <3> QED BY <2>1, <2>2, <2>5 DEF Out
  <2>7. LiveIn(funcDecl) \subseteq P
    <3> HIDE DEF P
    <3>1. ASSUME NEW p \in Reads(funcDecl) PROVE p \in P
      <4>1. PICK i \in N, r \in Register : p = <<i, r>> /\ r \in funcDecl[i].use
        BY <2>1, PairTypes
      <4> QED BY <2>4, <2>5, <4>1 DEF NewIn
    <3>2. ASSUME NEW p \in Before(funcDecl, P) PROVE p \in P
      <4>1. PICK i \in N, r \in Register : p = <<i, r>>
        BY <2>1, <2>5, PairTypes
      <4>2. Minus({r}, funcDecl[i].def) # {} /\ r \in Out(i)
        BY <2>5, <2>6, <3>2, <4>1, BeforeMember
      <4>3. r \in NewIn(i, Out(i))
        BY <4>2 DEF Minus, NewIn
      <4> QED BY <2>4, <2>5, <4>1, <4>3
    <3> QED BY <2>1, <2>5, <3>1, <3>2, LiveInLeast
  <2>8. P \subseteq LiveIn(funcDecl)
    <3> SUFFICES ASSUME NEW i \in N, NEW r \in inVals[i] PROVE <<i, r>> \in LiveIn(funcDecl)
      BY <2>5
    <3> DEFINE W == {k \in N : <<k, r>> \in LiveIn(funcDecl)}
    <3>1. r \in Registers /\ r \in Register
      BY <2>3, <2>4
    <3>2. ClosedFor(r, W)
      <4> SUFFICES ASSUME NEW k \in Nodes(funcDecl),
                          \/ r \in funcDecl[k].use
                          \/ /\ Minus({r}, funcDecl[k].def) # {}
                             /\ cfg[k] \cap W # {}
                   PROVE  <<k, r>> \in LiveIn(funcDecl)
        BY DEF ClosedFor
      <4> QED BY <2>1, <3>1, LiveInClosed
    <3>3. LiveAt(r) \subseteq W
      <4> HIDE DEF W
      <4>1. W \in SUBSET Nodes(funcDecl)
        BY DEF W
      <4> QED BY <3>1, <3>2, <4>1 DEF BelowSolutions
    <3> QED BY <3>3 DEF LiveAt
  <2>9. P = LiveIn(funcDecl)
    BY <2>7, <2>8
  <2>10. O = LiveOut(funcDecl)
    <3>1. \A i, r : <<i, r>> \in O <=> i \in N /\ r \in Out(i)
      BY <2>4
    <3> HIDE DEF P
    <3>2. ASSUME NEW o \in O PROVE o \in LiveOut(funcDecl)
      <4>1. PICK i, r : i \in N /\ r \in Out(i) /\ o = <<i, r>>
        BY <2>4, <3>2
      <4>2. PICK j : <<i, j>> \in Edges(funcDecl) /\ <<j, r>> \in P
        BY <2>6, <4>1
      <4> DEFINE y == <<<<i, j>>, <<j, r>>>>
      <4>3. /\ y \in Edges(funcDecl) \X LiveIn(funcDecl)
            /\ y[1][2] = y[2][1] /\ y[1][1] = i /\ y[2][2] = r
        BY <2>9, <4>2
      <4> HIDE DEF y
      <4> QED BY <4>1, <4>3 DEF LiveOut
    <3>3. ASSUME NEW o \in LiveOut(funcDecl) PROVE o \in O
      <4>1. PICK y \in Edges(funcDecl) \X P : y[1][2] = y[2][1] /\ o = <<y[1][1], y[2][2]>>
        BY <2>9, <3>3 DEF LiveOut
      <4>2. /\ y[1][1] \in N /\ y[1] = <<y[1][1], y[1][2]>>
            /\ y[2] = <<y[1][2], y[2][2]>>
        BY <2>2, <2>5, <4>1
      <4>3. y[2][2] \in Out(y[1][1])
        BY <2>6, <4>1, <4>2, ZenonT(60)
      <4> QED BY <3>1, <4>1, <4>2, <4>3
    <3> QED BY <3>2, <3>3
  <2> QED BY <2>9, <2>10
<1> QED BY <1>1, TypeCorrect, InputsCorrect, SettledCorrect, BelowSolutionsCorrect, PTL

-----------------------------------------------------------------------------
(* What the result means for the machine, when the bodies keep to labels of  *)
(* the program declared once.  The hypothesis is needed: the builder numbers *)
(* its own labels from 1, like the ones CFGDestroyer leaves in a body.       *)

\* The builder's graph is the machine's control flow.
THEOREM FlowCorrect ==
  ASSUME \A f \in Functions : ProgramLabels(f)
  PROVE  Spec => []FlowMatches
<1>1. Inputs => FlowMatches
  <2> SUFFICES ASSUME Inputs, NEW i \in Nodes(funcDecl) PROVE cfg[i] = Goes(funcDecl, i)
    BY DEF FlowMatches
  <2>1. funcDecl \in Seq(Instruction) /\ ProgramLabels(funcDecl)
    BY FunctionsAssumption DEF Inputs
  <2>2. cfg[i] = {j \in Nodes(funcDecl) : <<i, j>> \in Edges(funcDecl)}
    BY DEF Inputs, Graph
  <2> QED BY <2>1, <2>2, EdgesAreFlow
<1> QED BY <1>1, InputsCorrect, PTL

\* A body of 64-bit registers, with no SETcc.
WholeRegisters(f) ==
  \A i \in DOMAIN f : /\ f[i].op # "jumpset"
                      /\ \A r \in f[i].def \cup f[i].use : r.size = 64

\* The rounds of UsedWithin.
LEMMA UsedWithinSteps ==
  ASSUME Len(funcDecl) \in Nat, NEW r
  PROVE  LET N     == Nodes(funcDecl)
             m     == Len(funcDecl)
             reads == {i \in N : r \in funcDecl[i].use}
             Round(A) == reads \cup {i \in N : /\ r \notin Overwrites(funcDecl[i])
                                               /\ Goes(funcDecl, i) \cap A # {}}
         IN  \E w \in [0 .. m -> SUBSET N] :
               /\ w[0] = reads
               /\ \A k \in 1 .. m : w[k] = Round(w[k-1])
               /\ UsedWithin(r) = w[m]
<1> DEFINE N     == Nodes(funcDecl)
           m     == Len(funcDecl)
           T     == SUBSET N
           reads == {i \in N : r \in funcDecl[i].use}
           Round(A) == reads \cup {i \in N : /\ r \notin Overwrites(funcDecl[i])
                                             /\ Goes(funcDecl, i) \cap A # {}}
           F == [p \in (1 .. m) \X T |-> Round(p[2])]
           used[n \in 0 .. m] == IF n = 0 THEN reads ELSE Round(used[n-1])
<1>1. m \in Nat /\ reads \in T /\ \A A \in T : Round(A) \in T
  OBVIOUS
<1>2. UsedWithin(r) = used[m]
  BY DEF UsedWithin
<1>3. F \in [(1 .. m) \X T -> T]
  OBVIOUS
<1>4. \A k \in 1 .. m : \A x \in T : F[<<k, x>>] = Round(x)
  OBVIOUS
<1> HIDE DEF m, T, used, F, Round, reads
<1>5. PICK w : Solves(w, T, reads, m, F)
  BY <1>1, <1>3, RecursionExists
<1>6. /\ w \in [0 .. m -> T] /\ w[0] = reads
      /\ \A k \in 1 .. m : w[k] = Round(w[k-1])
  <2>1. \A k \in 1 .. m : k - 1 \in 0 .. m
    BY <1>1
  <2> QED BY <1>4, <1>5, <2>1 DEF Solves
<1>7. used = [n \in 0 .. m |-> IF n = 0 THEN reads ELSE Round(used[n-1])]
  <2>1. w = [n \in 0 .. m |-> IF n = 0 THEN reads ELSE Round(w[n-1])]
    <3>1. \A n \in 0 .. m : n # 0 => n \in 1 .. m
      BY <1>1
    <3> QED BY <1>6, <3>1
  <2> QED BY <2>1 DEF used
<1>8. used \in [0 .. m -> T]
  <2> DEFINE S == {n \in 0 .. m : used[n] \in T}
  <2>1. 0 \in S
    BY <1>1, <1>7
  <2>2. ASSUME NEW k \in S, k < m PROVE k + 1 \in S
    <3>1. k \in 0 .. m /\ k + 1 \in 0 .. m /\ (k + 1) - 1 = k /\ k + 1 # 0 /\ used[k] \in T
      BY <1>1, <2>2
    <3>2. used[k+1] = Round(used[k])
      BY <1>7, <3>1
    <3> QED BY <1>1, <3>1, <3>2
  <2>3. S \in SUBSET (0 .. m)
    OBVIOUS
  <2> HIDE DEF S
  <2>4. S = 0 .. m
    BY <1>1, <2>1, <2>2, <2>3, IntervalSet
  <2> QED BY <1>7, <2>4 DEF S
<1>9. used[0] = reads
  BY <1>1, <1>7
<1>10. ASSUME NEW k \in 1 .. m PROVE used[k] = Round(used[k-1])
  <2>1. k \in 0 .. m /\ k # 0
    BY <1>1
  <2> QED BY <1>7, <2>1
<1> QED BY <1>2, <1>8, <1>9, <1>10 DEF m, T, reads, Round

\* A register is reported live at a node exactly when some execution from the
\* node reads it before it overwrites it.
THEOREM LivenessExactCorrect ==
  ASSUME \A f \in Functions : ProgramLabels(f) /\ WholeRegisters(f)
  PROVE  Spec => []LivenessExact
<1>1. Inputs /\ TypeOK /\ FlowMatches /\ BelowSolutions /\ LeastLiveness => LivenessExact
  <2> SUFFICES ASSUME Inputs, TypeOK, FlowMatches, BelowSolutions, LeastLiveness, Done,
                      NEW r \in Registers
               PROVE  LiveAt(r) = UsedWithin(r)
    BY DEF LivenessExact
  <2> DEFINE N     == Nodes(funcDecl)
             m     == Len(funcDecl)
             reads == {i \in N : r \in funcDecl[i].use}
             Round(A) == reads \cup {i \in N : /\ r \notin Overwrites(funcDecl[i])
                                               /\ Goes(funcDecl, i) \cap A # {}}
             f == [A \in SUBSET N |-> Round(A)]
  <2>1. funcDecl \in Seq(Instruction) /\ WholeRegisters(funcDecl)
    BY FunctionsAssumption DEF Inputs
  <2>2. m \in Nat /\ N \in SUBSET (1 .. m)
    BY <2>1, PairTypes
  <2>3. PICK w \in [0 .. m -> SUBSET N] :
          /\ w[0] = reads
          /\ \A k \in 1 .. m : w[k] = Round(w[k-1])
          /\ UsedWithin(r) = w[m]
    BY <2>2, UsedWithinSteps
  <2>4. \A i \in N : Minus({r}, funcDecl[i].def) # {} <=> r \notin Overwrites(funcDecl[i])
    <3> SUFFICES ASSUME NEW i \in N
                 PROVE  Minus({r}, funcDecl[i].def) # {} <=> r \notin Overwrites(funcDecl[i])
      OBVIOUS
    <3>1. i \in DOMAIN funcDecl /\ funcDecl[i] \in Instruction
      BY <2>1 DEF Nodes
    <3>2. /\ r \in Register /\ r.size = 64
          /\ \A d \in funcDecl[i].def : d \in Register /\ d.size = 64
          /\ Overwrites(funcDecl[i]) = funcDecl[i].def
      <4>1. PICK j \in N : r \in funcDecl[j].use \cup funcDecl[j].def
        BY DEF Registers
      <4>2. j \in DOMAIN funcDecl /\ funcDecl[j] \in Instruction
        BY <2>1, <4>1 DEF Nodes
      <4> QED BY <2>1, <3>1, <4>1, <4>2 DEF WholeRegisters, Instruction, Overwrites
    <3>3. \A d \in funcDecl[i].def : Same(r, d) <=> r = d
      BY <3>2 DEF Same, Register
    <3> QED BY <3>2, <3>3 DEF Minus
  <2>5. \A A \in SUBSET N : ClosedFor(r, A) <=> Round(A) \subseteq A
    BY <2>4 DEF ClosedFor, FlowMatches
  <2>6. \A A \in SUBSET N : f[A] = Round(A) /\ f[A] \in SUBSET N
    OBVIOUS
  <2>7. \A A, B \in SUBSET N : A \subseteq B => f[A] \subseteq f[B]
    <3>1. \A A, B \in SUBSET N : A \subseteq B => Round(A) \subseteq Round(B)
      OBVIOUS
    <3> HIDE DEF Round, f
    <3> QED BY <2>6, <3>1
  <2>8. \A k \in 0 .. m : w[k] \in SUBSET N
    OBVIOUS
  <2>9. w[0] \subseteq f[w[0]]
    BY <2>3
  <2>10. \A k \in 0 .. m : k < m => w[k+1] = f[w[k]]
    <3> SUFFICES ASSUME NEW k \in 0 .. m, k < m PROVE w[k+1] = f[w[k]]
      OBVIOUS
    <3>1. k + 1 \in 1 .. m /\ (k + 1) - 1 = k /\ w[k] \in SUBSET N
      BY <2>2
    <3> HIDE DEF Round, f
    <3> QED BY <2>3, <2>6, <3>1
  <2>11. m \in 0 .. m
    BY <2>2
  <2>12. f[w[m]] \subseteq w[m]
    <3> HIDE DEF f, m, N, reads, Round
    <3> QED BY <2>2, <2>6, <2>7, <2>8, <2>9, <2>10, IterationCloses
  <2>13. LiveAt(r) \subseteq UsedWithin(r)
    <3> HIDE DEF f
    <3>1. w[m] \in SUBSET N /\ ClosedFor(r, w[m])
      BY <2>5, <2>6, <2>11, <2>12
    <3> QED BY <2>3, <3>1 DEF BelowSolutions
  <2>14. UsedWithin(r) \subseteq LiveAt(r)
    <3>1. LiveAt(r) \in SUBSET N /\ ClosedFor(r, LiveAt(r))
      BY DEF LeastLiveness, LiveAt
    <3>2. Round(LiveAt(r)) \subseteq LiveAt(r)
      BY <2>5, <3>1
    <3>3. w[0] \subseteq LiveAt(r) /\ f[LiveAt(r)] \subseteq LiveAt(r)
      <4> HIDE DEF f
      <4> QED BY <2>3, <2>6, <3>1, <3>2
    <3> HIDE DEF f, m, N, reads, Round
    <3>4. w[m] \subseteq LiveAt(r)
      BY <2>2, <2>6, <2>7, <2>8, <2>9, <2>10, <3>1, <3>3, IterationGrows, ZenonT(60)
    <3> QED BY <2>3, <3>4
  <2> QED BY <2>13, <2>14
<1>2. \A f \in Functions : ProgramLabels(f)
  OBVIOUS
<1> QED BY <1>1, <1>2, InputsCorrect, TypeCorrect, FlowCorrect, BelowSolutionsCorrect,
           LeastLivenessCorrect, PTL
=============================================================================
