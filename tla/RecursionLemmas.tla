--------------------------- MODULE RecursionLemmas ---------------------------
(***************************************************************************)
(* What recursive functions on an interval of numbers compute.  The        *)
(* induction theorems of the library take a predicate as a parameter; here *)
(* induction is stated for sets of numbers, and recursion for step         *)
(* functions, so that no fact has an operator among its parameters.  A     *)
(* definition f[n \in 0 .. m] == ... is a choice of some f that satisfies  *)
(* the equation, so what it computes is known once one exists.             *)
(***************************************************************************)
EXTENDS SequencesExt, FiniteSetTheorems, WellFoundedInduction, TLAPS

\* Induction: a set with 0 and the successor of each of its members is Nat.
LEMMA NatSet ==
  ASSUME NEW S \in SUBSET Nat, 0 \in S, \A n \in S : n + 1 \in S
  PROVE  S = Nat
<1> SUFFICES ASSUME Nat \ S # {} PROVE FALSE
  OBVIOUS
<1> DEFINE R == {p \in Nat \X Nat : p[1] < p[2]}
           T == Nat \ S
<1>1. IsWellFoundedOn(R, Nat)
  BY NatLessThanWellFounded DEF OpToRel
<1>2. T \subseteq Nat /\ T # {}
  OBVIOUS
<1> HIDE DEF R, T
<1>3. PICK x \in T : \A y \in T : ~(<<y, x>> \in R)
  BY <1>1, <1>2, WFMin
<1>4. x \in Nat /\ x # 0 /\ x - 1 \in Nat /\ x - 1 < x /\ (x - 1) + 1 = x /\ x \notin S
  BY <1>3 DEF T
<1>5. x - 1 \in T
  BY <1>4 DEF T
<1>6. <<x - 1, x>> \in R
  BY <1>4 DEF R
<1> QED BY <1>3, <1>5, <1>6

\* A set of numbers has a least one.
LEMMA LeastNumber ==
  ASSUME NEW S \in SUBSET Nat, S # {}
  PROVE  \E x \in S : \A y \in S : x <= y
<1> DEFINE R == {p \in Nat \X Nat : p[1] < p[2]}
<1>1. IsWellFoundedOn(R, Nat)
  BY NatLessThanWellFounded DEF OpToRel
<1> HIDE DEF R
<1>2. PICK x \in S : \A y \in S : ~(<<y, x>> \in R)
  BY <1>1, WFMin
<1>3. \A y \in S : ~(y < x)
  BY <1>2 DEF R
<1>4. \A y \in S : y \in Nat /\ x \in Nat
  OBVIOUS
<1> QED BY <1>3, <1>4

\* Induction up to m.
LEMMA IntervalSet ==
  ASSUME NEW m \in Nat, NEW S \in SUBSET (0 .. m), 0 \in S,
         \A n \in S : n < m => n + 1 \in S
  PROVE  S = 0 .. m
<1> DEFINE N == {n \in Nat : n <= m => n \in S}
<1>1. 0 \in N /\ \A n \in N : n + 1 \in N
  <2> SUFFICES ASSUME NEW n \in N, n + 1 <= m PROVE n + 1 \in S
    OBVIOUS
  <2>1. n \in S /\ n < m
    OBVIOUS
  <2> QED BY <2>1
<1> HIDE DEF N
<1>2. N = Nat
  <2>1. N \in SUBSET Nat BY DEF N
  <2> QED BY <1>1, <2>1, NatSet
<1>3. \A n \in 0 .. m : n \in N /\ n <= m
  BY <1>2
<1> QED BY <1>3 DEF N

\* f starts with base and takes the steps of F, up to m.
Solves(f, T, base, m, F) ==
  /\ f \in [0 .. m -> T]
  /\ f[0] = base
  /\ \A k \in 1 .. m : f[k] = F[<<k, f[k-1]>>]

\* A recursion that starts with base and takes the step F has a solution.
LEMMA RecursionExists ==
  ASSUME NEW T, NEW base \in T, NEW m \in Nat, NEW F \in [(1 .. m) \X T -> T]
  PROVE  \E f : Solves(f, T, base, m, F)
<1> DEFINE Solution(n, f) ==
             /\ f \in [0 .. n -> T] /\ f[0] = base
             /\ \A k \in 1 .. n : f[k] = F[<<k, f[k-1]>>]
           S == {n \in 0 .. m : \E f : Solution(n, f)}
<1>1. 0 \in S
  <2>1. Solution(0, [k \in 0 .. 0 |-> base])
    OBVIOUS
  <2>2. \E f : Solution(0, f)
    BY <2>1
  <2> HIDE DEF Solution
  <2> QED BY <2>2
<1>2. ASSUME NEW n \in S, n < m PROVE n + 1 \in S
  <2>1. PICK f : Solution(n, f)
    OBVIOUS
  <2> DEFINE g == [k \in 0 .. n + 1 |-> IF k <= n THEN f[k] ELSE F[<<n + 1, f[n]>>]]
  <2>2. /\ n \in 0 .. m /\ n + 1 \in 1 .. m /\ n + 1 \in 0 .. m
        /\ \A k \in 0 .. n + 1 : k <= n \/ k = n + 1
    BY <1>2
  <2>3. f[n] \in T /\ F[<<n + 1, f[n]>>] \in T
    BY <2>1, <2>2
  <2>4. g \in [0 .. n + 1 -> T] /\ g[0] = base
    BY <2>1, <2>2, <2>3
  <2>5. ASSUME NEW k \in 1 .. n + 1 PROVE g[k] = F[<<k, g[k-1]>>]
    <3>1. k - 1 \in 0 .. n /\ g[k-1] = f[k-1]
      BY <2>2
    <3>2. CASE k \in 1 .. n
      BY <2>1, <2>2, <3>1, <3>2
    <3>3. CASE k = n + 1
      BY <2>2, <3>1, <3>3, SMTT(60)
    <3> QED BY <2>2, <3>2, <3>3
  <2>6. Solution(n + 1, g)
    BY <2>4, <2>5
  <2> QED BY <2>2, <2>6
<1> HIDE DEF S
<1>3. S = 0 .. m
  <2>1. S \in SUBSET (0 .. m) BY DEF S
  <2> QED BY <1>1, <1>2, <2>1, IntervalSet
<1>4. m \in S
  BY <1>3
<1> QED BY <1>4 DEF S, Solves

-----------------------------------------------------------------------------
(* Finite sets as sequences *)

\* A sequence has finitely many elements.
LEMMA RangeFinite ==
  ASSUME NEW T, NEW s \in Seq(T)
  PROVE  IsFiniteSet(Range(s)) /\ Range(s) \subseteq T
<1> DEFINE I == 1 .. Len(s)
           R == Range(s)
<1>1. Len(s) \in Nat /\ DOMAIN s = I /\ s \in [I -> R] /\ R \subseteq T
  BY DEF Range
<1>2. IsFiniteSet(I)
  BY <1>1, FS_Interval
<1>3. \A t \in R : \E i \in I : s[i] = t
  BY <1>1 DEF Range
<1> HIDE DEF I, R
<1>4. s \in Surjection(I, R)
  BY <1>1, <1>3 DEF Surjection
<1>5. IsFiniteSet(R)
  BY <1>2, <1>4, FS_Surjection
<1> QED BY <1>1, <1>5 DEF R

\* A function has finitely many values on a finite set.
LEMMA ImageFinite ==
  ASSUME NEW S, IsFiniteSet(S), NEW f
  PROVE  IsFiniteSet({f[x] : x \in S})
<1> DEFINE R == {f[x] : x \in S}
           g == [x \in S |-> f[x]]
<1>1. g \in Surjection(S, R)
  BY DEF Surjection
<1> HIDE DEF R, g
<1>2. IsFiniteSet(R)
  BY <1>1, FS_Surjection
<1> QED BY <1>2 DEF R

\* The positions of a sequence are finitely many numbers.
LEMMA PositionsFinite ==
  ASSUME NEW T, NEW s \in Seq(T), NEW I \in SUBSET DOMAIN s
  PROVE  IsFiniteSet(I) /\ I \subseteq Nat
<1> DEFINE D == 1 .. Len(s)
<1>1. D = DOMAIN s /\ Len(s) \in Nat /\ D \subseteq Nat
  OBVIOUS
<1>2. IsFiniteSet(D)
  BY <1>1, FS_Interval
<1> HIDE DEF D
<1> QED BY <1>1, <1>2, FS_Subset

\* A sequence made from each element of another one.
LEMMA SameLength ==
  ASSUME NEW T, NEW s \in Seq(T), NEW U, NEW f \in [DOMAIN s -> U]
  PROVE  f \in Seq(U)
OBVIOUS

\* The elements of a sequence.
LEMMA SeqElements ==
  ASSUME NEW T, NEW s \in Seq(T)
  PROVE  \A k \in DOMAIN s : k \in Nat /\ s[k] \in T
OBVIOUS

\* SetToSeq lists every element of a finite set once.
LEMMA SetToSeqOnto ==
  ASSUME NEW T, NEW S \in SUBSET T, IsFiniteSet(S)
  PROVE  /\ SetToSeq(S) \in Seq(T) /\ Len(SetToSeq(S)) = Cardinality(S)
         /\ Cardinality(S) \in Nat
         /\ DOMAIN SetToSeq(S) = 1 .. Cardinality(S)
         /\ Range(SetToSeq(S)) = S
<1> DEFINE n == Cardinality(S)
           I == 1 .. n
           f == SetToSeq(S)
<1>1. n \in Nat /\ ExistsBijection(I, S)
  BY FS_CardinalityType
<1>2. IsFiniteSet(I) /\ Cardinality(I) = n
  BY <1>1, FS_Interval
<1>3. \E g \in [I -> S] : IsInjective(g)
  BY <1>1 DEF ExistsBijection, Bijection, Injection
<1>4. f \in [I -> S] /\ IsInjective(f)
  BY <1>3 DEF SetToSeq
<1> HIDE DEF f, n, I
<1>5. f \in Injection(I, S)
  BY <1>4 DEF Injection
<1>6. f \in Surjection(I, S)
  BY <1>2, <1>5, FS_Injection DEF n
<1>7. Range(f) = S
  BY <1>4, <1>6 DEF Range, Surjection
<1>8. f \in Seq(T) /\ Len(f) = n /\ DOMAIN f = 1 .. n
  BY <1>1, <1>4 DEF I
<1> QED BY <1>1, <1>7, <1>8 DEF f, n

-----------------------------------------------------------------------------
(* FlattenSeq, by which code is put together from pieces *)

\* The concatenation of the pieces one after the other.
LEMMA FlattenSteps ==
  ASSUME NEW T, NEW ss \in Seq(Seq(T))
  PROVE  \E g \in [0 .. Len(ss) -> Seq(T)] :
           /\ g[0] = <<>>
           /\ \A k \in 1 .. Len(ss) : g[k] = g[k-1] \o ss[k]
           /\ FlattenSeq(ss) = g[Len(ss)]
<1> DEFINE n == Len(ss)
           F == [p \in (1 .. n) \X Seq(T) |-> p[2] \o ss[p[1]]]
           flatten[i \in 1 .. n] == IF i = 1 THEN ss[i] ELSE flatten[i-1] \o ss[i]
<1> HIDE DEF flatten
<1>1. n \in Nat /\ DOMAIN ss = 1 .. n /\ <<>> \in Seq(T) /\ \A i \in 1 .. n : ss[i] \in Seq(T)
  OBVIOUS
<1>2. F \in [(1 .. n) \X Seq(T) -> Seq(T)]
  BY <1>1
<1>3. \A k \in 1 .. n : \A x \in Seq(T) : F[<<k, x>>] = x \o ss[k]
  OBVIOUS
<1>4. (ss = <<>> => n = 0) /\ (ss # <<>> => n >= 1 /\ FlattenSeq(ss) = flatten[n])
  BY <1>1 DEF FlattenSeq, flatten
<1> HIDE DEF F, n
<1>5. PICK f \in [0 .. n -> Seq(T)] : f[0] = <<>> /\ \A k \in 1 .. n : f[k] = F[<<k, f[k-1]>>]
  <2>1. \E f : Solves(f, Seq(T), <<>>, n, F)
    BY <1>1, <1>2, RecursionExists
  <2> QED BY <2>1 DEF Solves
<1>6. ASSUME NEW k \in 1 .. n
      PROVE  k \in 0 .. n /\ k - 1 \in 0 .. n /\ (k # 1 => k - 1 \in 1 .. n)
  BY <1>1
<1>7. \A k \in 1 .. n : f[k] = f[k-1] \o ss[k]
  BY <1>3, <1>5, <1>6
<1> DEFINE h == [i \in 1 .. n |-> f[i]]
<1>8. h = flatten
  <2>1. ASSUME NEW i \in 1 .. n
        PROVE  f[i] = IF i = 1 THEN ss[i] ELSE h[i-1] \o ss[i]
    <3>1. CASE i = 1
      <4>1. 1 - 1 = 0 /\ 1 \in 1 .. n
        BY <3>1
      <4>2. f[1] = f[0] \o ss[1]
        BY <1>7, <4>1
      <4>3. f[0] = <<>> /\ ss[1] \in Seq(T)
        BY <1>1, <1>5, <4>1
      <4>4. f[1] = ss[1]
        BY <4>2, <4>3
      <4> QED BY <3>1, <4>4
    <3>2. CASE i # 1
      BY <1>6, <1>7, <3>2
    <3> QED BY <3>1, <3>2
  <2>2. h = [i \in 1 .. n |-> IF i = 1 THEN ss[i] ELSE h[i-1] \o ss[i]]
    BY <2>1
  <2> DEFINE Equation(e) == e = [i \in 1 .. n |-> IF i = 1 THEN ss[i] ELSE e[i-1] \o ss[i]]
  <2>3. Equation(flatten)
    <3> HIDE DEF h
    <3> QED BY <2>2 DEF flatten
  <2>4. \A i \in 1 .. n : h[i] = flatten[i]
    <3> DEFINE S == {i \in 0 .. n : i \in 1 .. n => h[i] = flatten[i]}
    <3> HIDE DEF h
    <3>1. 0 \in S
      BY <1>1
    <3>2. ASSUME NEW i \in S, i < n PROVE i + 1 \in S
      <4>1. /\ i + 1 \in 1 .. n /\ i + 1 \in 0 .. n /\ (i + 1) - 1 = i
            /\ i + 1 # 1 => i \in 1 .. n
        BY <1>1, <3>2
      <4>2. h[i + 1] = IF i + 1 = 1 THEN ss[i + 1] ELSE h[i] \o ss[i + 1]
        BY <2>2, <4>1
      <4>3. flatten[i + 1] = IF i + 1 = 1 THEN ss[i + 1] ELSE flatten[i] \o ss[i + 1]
        BY <2>3, <4>1
      <4>4. i + 1 # 1 => h[i] = flatten[i]
        BY <4>1
      <4> QED BY <4>1, <4>2, <4>3, <4>4
    <3> HIDE DEF S
    <3>3. S = 0 .. n
      <4>1. S \in SUBSET (0 .. n) BY DEF S
      <4> QED BY <1>1, <3>1, <3>2, <4>1, IntervalSet
    <3> QED BY <1>6, <3>3 DEF S
  <2> QED BY <2>3, <2>4
<1>9. FlattenSeq(ss) = f[n]
  <2>1. CASE ss = <<>>
    BY <1>4, <1>5, <2>1 DEF FlattenSeq
  <2>2. CASE ss # <<>>
    <3>1. n \in 1 .. n
      BY <1>1, <1>4, <2>2
    <3> QED BY <1>4, <1>8, <2>2, <3>1
  <2> QED BY <2>1, <2>2
<1> QED BY <1>5, <1>7, <1>9 DEF n

\* The elements of a concatenation.
LEMMA ConcatRange ==
  ASSUME NEW T, NEW s \in Seq(T), NEW t \in Seq(T)
  PROVE  s \o t \in Seq(T) /\ Range(s \o t) = Range(s) \cup Range(t)
<1> DEFINE u == s \o t
<1>1. /\ u \in Seq(T) /\ Len(s) \in Nat /\ Len(t) \in Nat
      /\ DOMAIN s = 1 .. Len(s) /\ DOMAIN t = 1 .. Len(t) /\ DOMAIN u = 1 .. Len(s) + Len(t)
      /\ \A i \in 1 .. Len(s) : u[i] = s[i]
      /\ \A i \in 1 .. Len(t) : u[Len(s) + i] = t[i]
  OBVIOUS
<1>2. \A j \in DOMAIN u : \/ j \in DOMAIN s
                          \/ j - Len(s) \in DOMAIN t /\ u[j] = t[j - Len(s)]
  <2> SUFFICES ASSUME NEW j \in DOMAIN u, j \notin DOMAIN s
               PROVE  j - Len(s) \in DOMAIN t /\ u[j] = t[j - Len(s)]
    OBVIOUS
  <2>1. j - Len(s) \in 1 .. Len(t) /\ j = Len(s) + (j - Len(s))
    BY <1>1
  <2> HIDE DEF u
  <2> QED BY <1>1, <2>1
<1>3. /\ \A i \in DOMAIN s : i \in DOMAIN u
      /\ \A i \in DOMAIN t : Len(s) + i \in DOMAIN u
  BY <1>1
<1> HIDE DEF u
<1>4. Range(u) = Range(s) \cup Range(t)
  <2>1. ASSUME NEW x \in Range(u) PROVE x \in Range(s) \cup Range(t)
    <3>1. PICK j \in DOMAIN u : x = u[j]
      BY DEF Range
    <3> QED BY <1>1, <1>2, <3>1 DEF Range
  <2>2. ASSUME NEW x \in Range(s) PROVE x \in Range(u)
    BY <1>1, <1>3 DEF Range
  <2>3. ASSUME NEW x \in Range(t) PROVE x \in Range(u)
    BY <1>1, <1>3 DEF Range
  <2> QED BY <2>1, <2>2, <2>3
<1> QED BY <1>1, <1>4 DEF u

\* What is in the pieces is in the whole, and nothing else.
LEMMA FlattenRange ==
  ASSUME NEW T, NEW ss \in Seq(Seq(T))
  PROVE  /\ FlattenSeq(ss) \in Seq(T)
         /\ Range(FlattenSeq(ss)) = UNION {Range(ss[i]) : i \in DOMAIN ss}
<1> DEFINE n == Len(ss)
<1>1. PICK g \in [0 .. n -> Seq(T)] :
        /\ g[0] = <<>>
        /\ \A k \in 1 .. n : g[k] = g[k-1] \o ss[k]
        /\ FlattenSeq(ss) = g[n]
  BY FlattenSteps
<1>2. n \in Nat /\ DOMAIN ss = 1 .. n /\ \A i \in 1 .. n : ss[i] \in Seq(T)
  OBVIOUS
<1> HIDE DEF n
<1> DEFINE Upto(k) == UNION {Range(ss[i]) : i \in 1 .. k}
           S == {k \in 0 .. n : Range(g[k]) = Upto(k)}
<1>3. 0 \in S
  BY <1>1, <1>2 DEF Range
<1>4. ASSUME NEW k \in S, k < n PROVE k + 1 \in S
  <2>1. k \in 0 .. n
    OBVIOUS
  <2> HIDE DEF S
  <2>2. /\ k + 1 \in 1 .. n /\ (k + 1) - 1 = k /\ k + 1 \in 0 .. n
        /\ 1 .. k + 1 = (1 .. k) \cup {k + 1}
    BY <1>2, <1>4, <2>1
  <2>3. Range(g[k + 1]) = Range(g[k]) \cup Range(ss[k + 1])
    <3>1. g[k + 1] = g[k] \o ss[k + 1] /\ g[k] \in Seq(T) /\ ss[k + 1] \in Seq(T)
      BY <1>1, <1>2, <2>1, <2>2
    <3> QED BY <3>1, ConcatRange
  <2>4. Upto(k + 1) = Upto(k) \cup Range(ss[k + 1])
    BY <2>2
  <2>5. Range(g[k]) = Upto(k)
    BY DEF S
  <2>6. Range(g[k + 1]) = Upto(k + 1)
    BY <2>3, <2>4, <2>5
  <2> QED BY <2>2, <2>6 DEF S
<1>5. S = 0 .. n
  <2> HIDE DEF Upto
  <2>1. S \in SUBSET (0 .. n)
    OBVIOUS
  <2> HIDE DEF S
  <2> QED BY <1>2, <1>3, <1>4, <2>1, IntervalSet
<1>6. Range(g[n]) = Upto(n) /\ g[n] \in Seq(T)
  <2> HIDE DEF Upto
  <2>1. n \in 0 .. n
    BY <1>2
  <2> QED BY <1>1, <1>5, <2>1
<1> QED BY <1>1, <1>2, <1>6

-----------------------------------------------------------------------------
(* Sequences whose elements have no key in common; K gives the keys. *)

KeysIn(s, K) == UNION {K[s[i]] : i \in DOMAIN s}

Apart(s, K) == \A i, j \in DOMAIN s : i # j => K[s[i]] \cap K[s[j]] = {}

\* Two sequences with no key in common.
LEMMA ConcatApart ==
  ASSUME NEW T, NEW K, NEW s \in Seq(T), NEW t \in Seq(T), Apart(s, K), Apart(t, K),
         KeysIn(s, K) \cap KeysIn(t, K) = {}
  PROVE  /\ s \o t \in Seq(T) /\ Apart(s \o t, K)
         /\ KeysIn(s \o t, K) = KeysIn(s, K) \cup KeysIn(t, K)
<1> DEFINE u == s \o t
           n == Len(s)
<1>1. /\ u \in Seq(T) /\ n \in Nat /\ Len(t) \in Nat
      /\ DOMAIN s = 1 .. n /\ DOMAIN t = 1 .. Len(t) /\ DOMAIN u = 1 .. n + Len(t)
      /\ \A i \in 1 .. n : u[i] = s[i]
      /\ \A i \in 1 .. Len(t) : u[n + i] = t[i]
  OBVIOUS
<1> HIDE DEF u, n
<1>2. \A i \in DOMAIN u : \/ i \in DOMAIN s /\ u[i] = s[i]
                          \/ i - n \in DOMAIN t /\ u[i] = t[i - n] /\ i \notin DOMAIN s
  <2> SUFFICES ASSUME NEW i \in DOMAIN u, i \notin DOMAIN s
               PROVE  i - n \in DOMAIN t /\ u[i] = t[i - n]
    BY <1>1
  <2>1. i - n \in 1 .. Len(t) /\ i = n + (i - n)
    BY <1>1
  <2> QED BY <1>1, <2>1
<1>3. /\ \A i \in DOMAIN s : i \in DOMAIN u /\ u[i] = s[i]
      /\ \A i \in DOMAIN t : n + i \in DOMAIN u /\ u[n + i] = t[i]
  BY <1>1
<1>4. \A i \in DOMAIN s, j \in DOMAIN t : K[s[i]] \cap K[t[j]] = {}
  BY DEF KeysIn
<1>5. ASSUME NEW i \in DOMAIN u, NEW j \in DOMAIN u, i # j
      PROVE  K[u[i]] \cap K[u[j]] = {}
  <2>1. CASE i \in DOMAIN s /\ j \in DOMAIN s
    BY <1>3, <1>5, <2>1 DEF Apart
  <2>2. CASE i \in DOMAIN s /\ j \notin DOMAIN s
    BY <1>2, <1>4, <2>2
  <2>3. CASE i \notin DOMAIN s /\ j \in DOMAIN s
    BY <1>2, <1>4, <2>3
  <2>4. CASE i \notin DOMAIN s /\ j \notin DOMAIN s
    <3>1. /\ i - n \in DOMAIN t /\ u[i] = t[i - n]
          /\ j - n \in DOMAIN t /\ u[j] = t[j - n]
      BY <1>2, <2>4
    <3>2. i - n # j - n
      BY <1>1, <1>5
    <3> QED BY <3>1, <3>2 DEF Apart
  <2> QED BY <2>1, <2>2, <2>3, <2>4
<1>6. KeysIn(u, K) = KeysIn(s, K) \cup KeysIn(t, K)
  <2>1. ASSUME NEW x \in KeysIn(u, K) PROVE x \in KeysIn(s, K) \cup KeysIn(t, K)
    <3>1. PICK i \in DOMAIN u : x \in K[u[i]]
      BY DEF KeysIn
    <3> QED BY <1>2, <3>1 DEF KeysIn
  <2>2. ASSUME NEW x \in KeysIn(s, K) PROVE x \in KeysIn(u, K)
    <3>1. PICK i \in DOMAIN s : x \in K[s[i]]
      BY DEF KeysIn
    <3>2. i \in DOMAIN u /\ x \in K[u[i]]
      BY <1>3, <3>1
    <3> QED BY <3>2 DEF KeysIn
  <2>3. ASSUME NEW x \in KeysIn(t, K) PROVE x \in KeysIn(u, K)
    <3>1. PICK i \in DOMAIN t : x \in K[t[i]]
      BY DEF KeysIn
    <3>2. n + i \in DOMAIN u /\ x \in K[u[n + i]]
      BY <1>3, <3>1
    <3> QED BY <3>2 DEF KeysIn
  <2> QED BY <2>1, <2>2, <2>3
<1> QED BY <1>1, <1>5, <1>6 DEF Apart, u

\* Many sequences, no two with a key in common.
LEMMA FlattenApart ==
  ASSUME NEW T, NEW K, NEW ss \in Seq(Seq(T)),
         \A k \in DOMAIN ss : Apart(ss[k], K),
         \A j, k \in DOMAIN ss : j # k => KeysIn(ss[j], K) \cap KeysIn(ss[k], K) = {}
  PROVE  /\ FlattenSeq(ss) \in Seq(T) /\ Apart(FlattenSeq(ss), K)
         /\ KeysIn(FlattenSeq(ss), K) = UNION {KeysIn(ss[k], K) : k \in DOMAIN ss}
<1> DEFINE n == Len(ss)
           Upto(k) == UNION {KeysIn(ss[i], K) : i \in 1 .. k}
<1>1. PICK g \in [0 .. n -> Seq(T)] :
        /\ g[0] = <<>>
        /\ \A k \in 1 .. n : g[k] = g[k-1] \o ss[k]
        /\ FlattenSeq(ss) = g[n]
  BY FlattenSteps
<1>2. n \in Nat /\ DOMAIN ss = 1 .. n /\ \A i \in 1 .. n : ss[i] \in Seq(T)
  OBVIOUS
<1> HIDE DEF n
<1> DEFINE S == {k \in 0 .. n : Apart(g[k], K) /\ KeysIn(g[k], K) = Upto(k)}
<1>3. 0 \in S
  <2>1. Apart(<<>>, K) /\ KeysIn(<<>>, K) = {} /\ Upto(0) = {}
    BY DEF Apart, KeysIn
  <2> QED BY <1>1, <1>2, <2>1
<1>4. ASSUME NEW k \in S, k < n PROVE k + 1 \in S
  <2>1. k \in 0 .. n /\ Apart(g[k], K) /\ KeysIn(g[k], K) = Upto(k)
    OBVIOUS
  <2> HIDE DEF S
  <2>2. /\ k + 1 \in 1 .. n /\ (k + 1) - 1 = k /\ k + 1 \in 0 .. n
        /\ 1 .. k + 1 = (1 .. k) \cup {k + 1}
        /\ \A i \in 1 .. k : i \in 1 .. n /\ i # k + 1
    BY <1>2, <1>4, <2>1
  <2>3. g[k + 1] = g[k] \o ss[k + 1] /\ g[k] \in Seq(T) /\ ss[k + 1] \in Seq(T)
    BY <1>1, <1>2, <2>1, <2>2
  <2>4. Upto(k) \cap KeysIn(ss[k + 1], K) = {}
    BY <1>2, <2>2
  <2>5. Upto(k + 1) = Upto(k) \cup KeysIn(ss[k + 1], K)
    BY <2>2
  <2>6. Apart(ss[k + 1], K)
    BY <1>2, <2>2
  <2> HIDE DEF Upto
  <2>7. Apart(g[k + 1], K) /\ KeysIn(g[k + 1], K) = Upto(k + 1)
    <3> DEFINE a == g[k]
               b == ss[k + 1]
    <3>1. a \in Seq(T) /\ b \in Seq(T) /\ Apart(a, K) /\ Apart(b, K)
      BY <2>1, <2>3, <2>6
    <3>2. KeysIn(a, K) \cap KeysIn(b, K) = {}
      BY <2>1, <2>4
    <3> HIDE DEF a, b
    <3>3. Apart(a \o b, K) /\ KeysIn(a \o b, K) = KeysIn(a, K) \cup KeysIn(b, K)
      BY <3>1, <3>2, ConcatApart
    <3> QED BY <2>1, <2>3, <2>5, <3>3 DEF a, b
  <2> QED BY <2>2, <2>7 DEF S
<1>5. S = 0 .. n
  <2> HIDE DEF Upto
  <2>1. S \in SUBSET (0 .. n)
    OBVIOUS
  <2> HIDE DEF S
  <2> QED BY <1>2, <1>3, <1>4, <2>1, IntervalSet
<1>6. Apart(g[n], K) /\ KeysIn(g[n], K) = Upto(n) /\ g[n] \in Seq(T)
  <2> HIDE DEF Upto
  <2>1. n \in 0 .. n
    BY <1>2
  <2> QED BY <1>1, <1>5, <2>1
<1> QED BY <1>1, <1>2, <1>6

\* b has elements of s that stand from i to j.
PartOf(b, s, i, j) == \A k \in DOMAIN b : \E m \in i .. j : m \in DOMAIN s /\ b[k] = s[m]

\* A part of a sequence.
LEMMA SubSeqApart ==
  ASSUME NEW T, NEW K, NEW s \in Seq(T), Apart(s, K), NEW i \in 1 .. Len(s), NEW j \in i .. Len(s),
         NEW b, b = SubSeq(s, i, j)
  PROVE  b \in Seq(T) /\ Apart(b, K) /\ PartOf(b, s, i, j)
<1>1. /\ b \in Seq(T) /\ DOMAIN b = 1 .. j - i + 1 /\ DOMAIN s = 1 .. Len(s)
      /\ Len(s) \in Nat /\ i \in Nat /\ i >= 1 /\ j \in Nat /\ j <= Len(s)
      /\ \A k \in 1 .. j - i + 1 : b[k] = s[k + i - 1]
  OBVIOUS
<1>2. \A k \in DOMAIN b : /\ k + i - 1 \in i .. j /\ k + i - 1 \in DOMAIN s
                         /\ b[k] = s[k + i - 1] /\ k \in Nat
  <2> SUFFICES ASSUME NEW k \in DOMAIN b
               PROVE  /\ k + i - 1 \in i .. j /\ k + i - 1 \in DOMAIN s
                      /\ b[k] = s[k + i - 1] /\ k \in Nat
    OBVIOUS
  <2>1. /\ k \in 1 .. j - i + 1 /\ b[k] = s[k + i - 1]
        /\ i \in Nat /\ i >= 1 /\ j \in Nat /\ j <= Len(s) /\ Len(s) \in Nat
        /\ DOMAIN s = 1 .. Len(s)
    BY <1>1
  <2>2. k + i - 1 \in i .. j /\ k + i - 1 \in 1 .. Len(s) /\ k \in Nat
    BY <2>1
  <2> QED BY <2>1, <2>2
<1>3. \A k, m \in DOMAIN b : k # m => k + i - 1 # m + i - 1
  <2> SUFFICES ASSUME NEW k \in DOMAIN b, NEW m \in DOMAIN b, k + i - 1 = m + i - 1
               PROVE  k = m
    OBVIOUS
  <2>1. k \in Nat /\ m \in Nat /\ i \in Nat
    BY <1>1, <1>2
  <2> QED BY <2>1
<1>4. Apart(b, K)
  <2> SUFFICES ASSUME NEW k \in DOMAIN b, NEW m \in DOMAIN b, k # m
               PROVE  K[b[k]] \cap K[b[m]] = {}
    BY DEF Apart
  <2> DEFINE x == k + i - 1
             y == m + i - 1
  <2>1. x \in DOMAIN s /\ y \in DOMAIN s /\ x # y /\ b[k] = s[x] /\ b[m] = s[y]
    BY <1>2, <1>3
  <2> HIDE DEF x, y
  <2>2. K[s[x]] \cap K[s[y]] = {}
    BY <2>1 DEF Apart
  <2> QED BY <2>1, <2>2
<1> QED BY <1>1, <1>2, <1>4 DEF PartOf

\* At most one element.
LEMMA ShortApart ==
  ASSUME NEW T, NEW K
  PROVE  /\ <<>> \in Seq(T) /\ Apart(<<>>, K) /\ KeysIn(<<>>, K) = {} /\ Range(<<>>) = {}
         /\ \A x \in T : /\ <<x>> \in Seq(T) /\ Apart(<<x>>, K) /\ KeysIn(<<x>>, K) = K[x]
                         /\ Range(<<x>>) = {x}
<1>1. <<>> \in Seq(T) /\ DOMAIN <<>> = {}
  OBVIOUS
<1>2. ASSUME NEW x \in T
      PROVE  DOMAIN <<x>> = {1} /\ <<x>>[1] = x /\ <<x>> \in Seq(T)
  OBVIOUS
<1>3. /\ <<>> \in Seq(T) /\ Apart(<<>>, K) /\ KeysIn(<<>>, K) = {} /\ Range(<<>>) = {}
  BY <1>1 DEF Apart, KeysIn, Range
<1>4. ASSUME NEW x \in T
      PROVE  /\ <<x>> \in Seq(T) /\ Apart(<<x>>, K) /\ KeysIn(<<x>>, K) = K[x]
             /\ Range(<<x>>) = {x}
  BY <1>2 DEF Apart, KeysIn, Range
<1> QED BY <1>3, <1>4

\* Two elements.
LEMMA PairApart ==
  ASSUME NEW T, NEW K, NEW s \in Seq(T), Len(s) = 2, K[s[1]] \cap K[s[2]] = {}
  PROVE  Apart(s, K) /\ KeysIn(s, K) = K[s[1]] \cup K[s[2]]
<1>1. DOMAIN s = {1, 2}
  OBVIOUS
<1> QED BY <1>1 DEF Apart, KeysIn

-----------------------------------------------------------------------------
(* Iterating a monotone operation on sets of at most m numbers. *)

\* The rounds of the iteration only grow, and stay within every closed set.
LEMMA IterationGrows ==
  ASSUME NEW m \in Nat, NEW N, NEW f, NEW w,
         \A A \in SUBSET N : f[A] \in SUBSET N,
         \A A, B \in SUBSET N : A \subseteq B => f[A] \subseteq f[B],
         \A k \in 0 .. m : w[k] \in SUBSET N,
         w[0] \subseteq f[w[0]],
         \A k \in 0 .. m : k < m => w[k+1] = f[w[k]]
  PROVE  /\ \A k \in 0 .. m : w[k] \subseteq f[w[k]]
         /\ \A A \in SUBSET N : w[0] \subseteq A /\ f[A] \subseteq A => w[m] \subseteq A
<1>1. \A k \in 0 .. m : w[k] \subseteq f[w[k]]
  <2> DEFINE S == {k \in 0 .. m : w[k] \subseteq f[w[k]]}
  <2>1. 0 \in S
    OBVIOUS
  <2>2. ASSUME NEW k \in S, k < m PROVE k + 1 \in S
    <3>1. k \in 0 .. m /\ k + 1 \in 0 .. m /\ w[k+1] = f[w[k]] /\ w[k] \subseteq w[k+1]
      BY <2>2
    <3>2. f[w[k]] \subseteq f[w[k+1]]
      BY <3>1
    <3> QED BY <3>1, <3>2
  <2>3. S \in SUBSET (0 .. m)
    OBVIOUS
  <2> HIDE DEF S
  <2>4. S = 0 .. m
    BY <2>1, <2>2, <2>3, IntervalSet
  <2> QED BY <2>4 DEF S
<1>2. ASSUME NEW A \in SUBSET N, w[0] \subseteq A, f[A] \subseteq A PROVE w[m] \subseteq A
  <2> DEFINE S == {k \in 0 .. m : w[k] \subseteq A}
  <2>1. 0 \in S
    BY <1>2
  <2>2. ASSUME NEW k \in S, k < m PROVE k + 1 \in S
    <3>1. k \in 0 .. m /\ k + 1 \in 0 .. m /\ w[k+1] = f[w[k]] /\ w[k] \subseteq A
      BY <2>2
    <3>2. f[w[k]] \subseteq f[A]
      BY <3>1
    <3> QED BY <1>2, <3>1, <3>2
  <2>3. S \in SUBSET (0 .. m) /\ m \in 0 .. m
    OBVIOUS
  <2> HIDE DEF S
  <2>4. S = 0 .. m
    BY <2>1, <2>2, <2>3, IntervalSet
  <2> QED BY <2>3, <2>4 DEF S
<1> QED BY <1>1, <1>2

\* As many rounds as there are numbers reach a set the operation keeps: every
\* round before that one adds a number.
LEMMA IterationCloses ==
  ASSUME NEW m \in Nat, NEW N \in SUBSET (1 .. m), NEW f, NEW w,
         \A A \in SUBSET N : f[A] \in SUBSET N,
         \A A, B \in SUBSET N : A \subseteq B => f[A] \subseteq f[B],
         \A k \in 0 .. m : w[k] \in SUBSET N,
         w[0] \subseteq f[w[0]],
         \A k \in 0 .. m : k < m => w[k+1] = f[w[k]]
  PROVE  f[w[m]] \subseteq w[m]
<1>1. \A k \in 0 .. m : w[k] \subseteq f[w[k]]
  BY IterationGrows
<1> DEFINE I == 1 .. m
<1>2. IsFiniteSet(I) /\ Cardinality(I) = m /\ N \subseteq I
  BY FS_Interval
<1> HIDE DEF I
<1>3. \A A \in SUBSET N : IsFiniteSet(A) /\ Cardinality(A) \in Nat /\ Cardinality(A) <= m
  <2> SUFFICES ASSUME NEW A \in SUBSET N
               PROVE  IsFiniteSet(A) /\ Cardinality(A) \in Nat /\ Cardinality(A) <= m
    OBVIOUS
  <2>1. A \in SUBSET I
    BY <1>2
  <2>2. IsFiniteSet(A) /\ Cardinality(A) <= m
    BY <1>2, <2>1, FS_Subset
  <2> QED BY <2>2, FS_CardinalityType
<1> DEFINE S == {k \in 0 .. m : f[w[k]] \subseteq w[k] \/ Cardinality(w[k]) >= k}
<1>4. 0 \in S
  BY <1>3
<1>5. ASSUME NEW k \in S, k < m PROVE k + 1 \in S
  <2>1. k \in 0 .. m /\ k + 1 \in 0 .. m /\ w[k+1] = f[w[k]] /\ w[k] \in SUBSET N /\ w[k+1] \in SUBSET N
    BY <1>5
  <2>2. CASE f[w[k]] \subseteq w[k]
    <3>1. f[w[k+1]] \subseteq f[w[k]]
      BY <2>1, <2>2
    <3> QED BY <2>1, <3>1
  <2>3. CASE ~(f[w[k]] \subseteq w[k])
    <3>1. Cardinality(w[k]) >= k
      BY <2>3
    <3>2. w[k] \subseteq w[k+1] /\ w[k] # w[k+1]
      BY <1>1, <2>1, <2>3
    <3>3. Cardinality(w[k]) < Cardinality(w[k+1])
      BY <1>3, <2>1, <3>2, FS_Subset
    <3>4. Cardinality(w[k+1]) >= k + 1
      BY <1>3, <2>1, <3>1, <3>3
    <3> QED BY <2>1, <3>4
  <2> QED BY <2>2, <2>3
<1>6. S \in SUBSET (0 .. m) /\ m \in 0 .. m
  OBVIOUS
<1> HIDE DEF S
<1>7. m \in S
  BY <1>4, <1>5, <1>6, IntervalSet
<1>8. CASE Cardinality(w[m]) >= m
  <2>1. w[m] \in SUBSET N /\ w[m] \in SUBSET I /\ f[w[m]] \subseteq I
    BY <1>2, <1>6
  <2>2. Cardinality(I) = Cardinality(w[m])
    <3>1. Cardinality(w[m]) \in Nat /\ Cardinality(w[m]) <= m
      BY <1>3, <2>1
    <3>2. \A c \in Nat : c <= m /\ c >= m => c = m
      OBVIOUS
    <3>3. Cardinality(w[m]) = m
      BY <1>8, <3>1, <3>2
    <3> QED BY <1>2, <3>3, Zenon
  <2>3. I = w[m]
    BY <1>2, <2>1, <2>2, FS_Subset
  <2> QED BY <2>1, <2>3
<1> QED BY <1>7, <1>8 DEF S

-----------------------------------------------------------------------------
(* Folds over a finite set *)

\* f takes, for the parts of P, the steps of F from the part without the element
\* that a fold takes first.
FoldsOver(f, P, T, base, F) ==
  /\ f \in [SUBSET P -> T]
  /\ \A S \in SUBSET P :
       f[S] = IF S = {} THEN base
              ELSE F[<<CHOOSE x \in S : TRUE, f[S \ {CHOOSE x \in S : TRUE}]>>]

\* A recursion over the parts of a finite set that takes one element away each
\* time, as a fold does, has a solution.
LEMMA SubsetRecursion ==
  ASSUME NEW P, IsFiniteSet(P), NEW T, NEW base \in T, NEW F \in [P \X T -> T]
  PROVE  \E f : FoldsOver(f, P, T, base, F)
<1> DEFINE pick(S) == CHOOSE x \in S : TRUE
           Step(f, S) == IF S = {} THEN base ELSE F[<<pick(S), f[S \ {pick(S)}]>>]
           n == Cardinality(P)
           Parts(k) == {S \in SUBSET P : Cardinality(S) <= k}
           Solution(k, f) == f \in [Parts(k) -> T] /\ \A S \in Parts(k) : f[S] = Step(f, S)
           K == {k \in 0 .. n : \E f : Solution(k, f)}
<1>1. /\ n \in Nat
      /\ \A S \in SUBSET P : IsFiniteSet(S) /\ Cardinality(S) \in Nat /\ Cardinality(S) <= n
      /\ \A S \in SUBSET P : S # {} => /\ pick(S) \in S /\ pick(S) \in P
                                       /\ S \ {pick(S)} \in SUBSET P
                                       /\ Cardinality(S \ {pick(S)}) = Cardinality(S) - 1
  <2>1. \A S \in SUBSET P : IsFiniteSet(S) /\ Cardinality(S) <= n
    BY FS_Subset
  <2>2. \A S \in SUBSET P : Cardinality(S) \in Nat
    BY <2>1, FS_CardinalityType
  <2>3. n \in Nat
    BY <2>2
  <2>4. \A S \in SUBSET P : S # {} => pick(S) \in S
    OBVIOUS
  <2>5. \A S \in SUBSET P : \A x \in S : Cardinality(S \ {x}) = Cardinality(S) - 1
    BY <2>1, FS_RemoveElement
  <2>6. \A S \in SUBSET P : S # {} => pick(S) \in P /\ S \ {pick(S)} \in SUBSET P
    BY <2>4
  <2> HIDE DEF n, pick
  <2> QED BY <2>1, <2>2, <2>3, <2>4, <2>5, <2>6
<1> HIDE DEF n, pick
<1>a. \A S \in Parts(0) : S = {}
  <2> SUFFICES ASSUME NEW S \in Parts(0) PROVE S = {}
    OBVIOUS
  <2>1. Cardinality(S) = 0 /\ IsFiniteSet(S)
    BY <1>1
  <2> QED BY <2>1, FS_EmptySet
<1>b. Parts(n) = SUBSET P /\ n \in 0 .. n /\ 0 \in 0 .. n
  <2>1. \A S \in SUBSET P : Cardinality(S) <= n
    BY <1>1
  <2>2. n \in 0 .. n /\ 0 \in 0 .. n
    BY <1>1
  <2> QED BY <2>1, <2>2
<1>c. ASSUME NEW k \in Nat
      PROVE  /\ Parts(k) \subseteq Parts(k + 1)
             /\ \A S \in Parts(k + 1) : S # {} => /\ S \ {pick(S)} \in Parts(k) /\ pick(S) \in P
                                                 /\ S \in SUBSET P
  <2>1. ASSUME NEW S \in Parts(k) PROVE S \in Parts(k + 1)
    <3>1. Cardinality(S) \in Nat /\ Cardinality(S) <= k
      BY <1>1
    <3>2. Cardinality(S) <= k + 1
      BY <3>1
    <3> QED BY <3>2
  <2>2. ASSUME NEW S \in Parts(k + 1), S # {}
        PROVE  S \ {pick(S)} \in Parts(k) /\ pick(S) \in P
    <3>1. /\ Cardinality(S) \in Nat /\ Cardinality(S) <= k + 1
          /\ Cardinality(S \ {pick(S)}) = Cardinality(S) - 1
          /\ S \ {pick(S)} \in SUBSET P /\ pick(S) \in P
      BY <1>1, <2>2
    <3>2. Cardinality(S \ {pick(S)}) <= k
      BY <3>1
    <3> QED BY <3>1, <3>2
  <2> QED BY <2>1, <2>2
<1>d. \A S \in Parts(0) : S \in SUBSET P
  OBVIOUS
<1> HIDE DEF Parts
<1>2. 0 \in K
  <2> DEFINE f == [S \in Parts(0) |-> base]
  <2>2. Solution(0, f)
    BY <1>a
  <2>3. \E g : Solution(0, g)
    BY <2>2
  <2> HIDE DEF Solution
  <2> QED BY <1>b, <2>3
<1>3. ASSUME NEW k \in K, k < n PROVE k + 1 \in K
  <2>1. k \in 0 .. n /\ k + 1 \in 0 .. n /\ k \in Nat
    <3>1. k \in 0 .. n
      BY DEF K
    <3> HIDE DEF K
    <3> QED BY <1>1, <1>3, <3>1
  <2>2. PICK f : Solution(k, f)
    OBVIOUS
  <2> DEFINE g == [S \in Parts(k + 1) |-> Step(f, S)]
  <2>3. ASSUME NEW S \in Parts(k + 1), S # {}
        PROVE  S \ {pick(S)} \in Parts(k) /\ S \ {pick(S)} \in Parts(k + 1) /\ pick(S) \in P
    BY <1>c, <2>1, <2>3
  <2>4. \A S \in Parts(k) : S \in Parts(k + 1) /\ g[S] = f[S]
    <3>1. \A S \in Parts(k) : S \in Parts(k + 1)
      BY <1>c, <2>1
    <3> QED BY <2>2, <3>1
  <2>5. g \in [Parts(k + 1) -> T]
    <3> SUFFICES ASSUME NEW S \in Parts(k + 1) PROVE Step(f, S) \in T
      OBVIOUS
    <3>1. CASE S = {}
      BY <3>1
    <3>2. CASE S # {}
      <4>1. f[S \ {pick(S)}] \in T /\ pick(S) \in P
        BY <2>2, <2>3, <3>2
      <4> QED BY <3>2, <4>1
    <3> QED BY <3>1, <3>2
  <2>6. \A S \in Parts(k + 1) : g[S] = Step(g, S)
    <3> SUFFICES ASSUME NEW S \in Parts(k + 1) PROVE Step(f, S) = Step(g, S)
      OBVIOUS
    <3>1. CASE S = {}
      BY <3>1
    <3>2. CASE S # {}
      <4>1. f[S \ {pick(S)}] = g[S \ {pick(S)}]
        BY <2>3, <2>4, <3>2
      <4> HIDE DEF g
      <4> QED BY <4>1
    <3> QED BY <3>1, <3>2
  <2> HIDE DEF g
  <2>7. Solution(k + 1, g)
    BY <2>5, <2>6
  <2> HIDE DEF Solution
  <2> QED BY <2>1, <2>7
<1>4. K = 0 .. n
  <2>1. K \in SUBSET (0 .. n)
    OBVIOUS
  <2> HIDE DEF K
  <2> QED BY <1>1, <1>2, <1>3, <2>1, IntervalSet
<1>5. PICK f : Solution(n, f)
  <2>1. n \in K
    BY <1>b, <1>4
  <2> HIDE DEF Solution
  <2> QED BY <2>1
<1>6. Parts(n) = SUBSET P
  BY <1>b
<1>7. \A S \in SUBSET P : f[S] = Step(f, S)
  BY <1>5, <1>6
<1>8. f \in [SUBSET P -> T]
  BY <1>5, <1>6
<1>9. FoldsOver(f, P, T, base, F)
  BY <1>7, <1>8 DEF FoldsOver, pick
<1> QED BY <1>9

\* What holds of the empty set, and of a set if it holds without the element
\* that a fold takes first, holds of every finite set.
LEMMA SubsetInduction ==
  ASSUME NEW P, IsFiniteSet(P), NEW R, {} \in R,
         \A S \in SUBSET P : S # {} /\ S \ {CHOOSE x \in S : TRUE} \in R => S \in R
  PROVE  P \in R
<1> DEFINE pick(S) == CHOOSE x \in S : TRUE
           n == Cardinality(P)
           G == {k \in 0 .. n : \A S \in SUBSET P : Cardinality(S) = k => S \in R}
<1>1. /\ \A S \in SUBSET P : IsFiniteSet(S) /\ Cardinality(S) \in Nat
      /\ \A S \in SUBSET P : S # {} => /\ pick(S) \in S /\ S \ {pick(S)} \in SUBSET P
                                       /\ Cardinality(S \ {pick(S)}) = Cardinality(S) - 1
  <2>1. \A S \in SUBSET P : IsFiniteSet(S)
    BY FS_Subset
  <2>2. \A S \in SUBSET P : Cardinality(S) \in Nat
    BY <2>1, FS_CardinalityType
  <2>3. \A S \in SUBSET P : S # {} => pick(S) \in S
    OBVIOUS
  <2>4. \A S \in SUBSET P : \A x \in S : Cardinality(S \ {x}) = Cardinality(S) - 1
    BY <2>1, FS_RemoveElement
  <2> HIDE DEF n, pick
  <2> QED BY <2>1, <2>2, <2>3, <2>4
<1>2. n \in Nat
  BY <1>1
<1> HIDE DEF n, pick
<1>3. 0 \in G
  <2>1. \A S \in SUBSET P : Cardinality(S) = 0 => S = {}
    BY <1>1, FS_EmptySet
  <2> QED BY <1>2, <2>1
<1>4. ASSUME NEW k \in G, k < n PROVE k + 1 \in G
  <2>1. k \in 0 .. n /\ \A S \in SUBSET P : Cardinality(S) = k => S \in R
    OBVIOUS
  <2> HIDE DEF G
  <2>2. k \in Nat /\ k + 1 \in 0 .. n
    BY <1>2, <1>4, <2>1
  <2>3. ASSUME NEW S \in SUBSET P, Cardinality(S) = k + 1 PROVE S \in R
    <3>1. S # {}
      <4>1. Cardinality({}) = 0
        BY FS_EmptySet
      <4> QED BY <2>2, <2>3, <4>1
    <3>2. Cardinality(S \ {pick(S)}) = k /\ S \ {pick(S)} \in SUBSET P
      BY <1>1, <2>2, <2>3, <3>1
    <3>3. S \ {pick(S)} \in R
      BY <2>1, <3>2
    <3> QED BY <3>1, <3>3 DEF pick
  <2> QED BY <2>2, <2>3 DEF G
<1>5. G = 0 .. n
  <2>1. G \in SUBSET (0 .. n)
    OBVIOUS
  <2> HIDE DEF G
  <2> QED BY <1>2, <1>3, <1>4, <2>1, IntervalSet
<1> QED BY <1>2, <1>5 DEF n
=============================================================================
