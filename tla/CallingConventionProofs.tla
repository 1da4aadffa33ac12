---------------------- MODULE CallingConventionProofs ----------------------
(***************************************************************************)
(* Theorems about AssemblyGenerator and the code it emits, for every       *)
(* program: what is emitted wherever the time limit interrupts the         *)
(* allocation of a unit, and that every call is made on an aligned stack,  *)
(* every return goes back to the caller with its registers, and no         *)
(* function writes in the frame of another one.                            *)
(***************************************************************************)
EXTENDS CallingConvention, StackTyping, SequenceTheorems

\* A unit, all of it by allocator a.
Emitted(u, a) == [i \in DOMAIN UnitFunctions(u) |-> <<UnitFunctions(u)[i], a>>]

\* What has been emitted are the units before the present one, of which a prefix
\* has been allocated, all of it by the present allocator.
EmitInv ==
  /\ unit \in 1 .. 3 /\ ra \in Allocators
  /\ Generating =>
       /\ Len(allocated) \in 0 .. Len(UnitFunctions(unit))
       /\ allocated = [i \in 1 .. Len(allocated) |-> <<UnitFunctions(unit)[i], ra>>]
  /\ unit = 1 => output = <<>>
  /\ unit = 2 => \E a \in Allocators : output = Emitted(1, a)
  /\ unit = 3 => \E a, b \in Allocators : output = Emitted(1, a) \o Emitted(2, b)

\* The functions of a unit are a sequence.
LEMMA UnitFunctionsTypes == \A u : UnitFunctions(u) \in Seq(Nat)
<1> SUFFICES ASSUME NEW u PROVE UnitFunctions(u) \in Seq(Nat)
  OBVIOUS
<1> DEFINE all == IF u = 1 THEN <<1>> ELSE <<2, 3>>
           Q   == Seq(Nat)
           one(i) == When(Compiled(all[i]), <<all[i]>>)
           ss  == [i \in DOMAIN all |-> one(i)]
<1>1. all \in Seq(Nat)
  OBVIOUS
<1> HIDE DEF all
<1>2. \A i \in DOMAIN all : one(i) \in Q
  BY <1>1 DEF When
<1> HIDE DEF one, Q
<1>3. ss \in Seq(Q)
  BY <1>1, <1>2
<1>4. UnitFunctions(u) = FlattenSeq(ss)
  BY DEF UnitFunctions, all, one
<1> HIDE DEF ss
<1> QED BY <1>3, <1>4, FlattenRange DEF Q

\* Nothing but AssemblyGenerator changes what it has done.
LEMMA StepKeepsEmitInv == EmitInv /\ [Next]_vars => EmitInv'
<1> SUFFICES ASSUME EmitInv, [Next]_vars PROVE EmitInv'
  OBVIOUS
<1> DEFINE fs == UnitFunctions(unit)
<1>1. program' = program
  BY DEF Next, AllocateFunction, Fallback, EmitUnit, Run, Finished, vars
<1>2. \A u : UnitFunctions(u)' = UnitFunctions(u)
  BY <1>1 DEF UnitFunctions, Compiled
<1>3. \A u, a : Emitted(u, a)' = Emitted(u, a)
  BY <1>2 DEF Emitted
<1>4. fs \in Seq(Nat)
  BY UnitFunctionsTypes
<1>5. CASE AllocateFunction
  <2> DEFINE n == Len(allocated)
             x == <<fs[n + 1], ra>>
  <2>1. /\ n \in 0 .. Len(fs) /\ n < Len(fs)
        /\ allocated = [i \in 1 .. n |-> <<fs[i], ra>>]
        /\ allocated' = Append(allocated, x)
        /\ unit' = unit /\ ra' = ra /\ output' = output
    BY <1>5 DEF AllocateFunction, EmitInv
  <2> HIDE DEF n, fs
  <2>2. allocated' = [i \in 1 .. n + 1 |-> <<fs[i], ra>>]
    BY <1>4, <2>1
  <2>3. Len(allocated') = n + 1 /\ n + 1 \in 0 .. Len(fs)
    BY <1>4, <2>1, <2>2
  <2>4. UnitFunctions(unit)' = fs
    BY <1>2, <2>1 DEF fs
  <2> QED BY <1>3, <2>1, <2>2, <2>3, <2>4 DEF EmitInv, Generating
<1>6. CASE Fallback
  <2>1. /\ allocated' = <<>> /\ unit' = unit /\ ra' = "trivial" /\ output' = output
    BY <1>6 DEF Fallback
  <2>2. UnitFunctions(unit)' = fs
    BY <1>2, <2>1
  <2>3. Len(fs) \in Nat
    BY <1>4
  <2> HIDE DEF fs
  <2>4. Len(allocated') \in 0 .. Len(fs) /\ allocated' = [i \in 1 .. Len(allocated') |-> <<fs[i], ra'>>]
    BY <2>1, <2>3
  <2> QED BY <1>3, <2>1, <2>2, <2>4 DEF EmitInv, Allocators, Generating
<1>7. CASE EmitUnit
  <2>1. /\ Generating /\ Len(allocated) = Len(fs)
        /\ output' = output \o allocated /\ allocated' = <<>>
        /\ unit' = unit + 1 /\ ra' = "chaitin"
    BY <1>7 DEF EmitUnit
  <2>2. unit \in 1 .. 2 /\ unit + 1 \in 1 .. 3
    BY <2>1 DEF EmitInv, Generating
  <2>3. allocated = Emitted(unit, ra)
    <3>1. allocated = [i \in 1 .. Len(fs) |-> <<fs[i], ra>>]
      BY <2>1 DEF EmitInv
    <3> QED BY <1>4, <3>1 DEF Emitted
  <2>4. UnitFunctions(unit)' \in Seq(Nat)
    BY <1>2, UnitFunctionsTypes
  <2>5. /\ Len(allocated)' \in 0 .. Len(UnitFunctions(unit))'
        /\ allocated' = [i \in 1 .. Len(allocated) |-> <<UnitFunctions(unit)[i], ra>>]'
    BY <2>1, <2>4
  <2>6. CASE unit = 1
    <3>1. output' = Emitted(1, ra) /\ unit' = 2
      <4>1. Emitted(1, ra) \in Seq(Nat \X Allocators)
        BY <1>4, <2>6 DEF Emitted, EmitInv
      <4> QED BY <2>1, <2>3, <2>6, <4>1 DEF EmitInv
    <3>2. \E a \in Allocators : output' = Emitted(1, a)'
      BY <1>3, <3>1 DEF EmitInv
    <3>3. unit' \in 1 .. 3 /\ ra' \in Allocators /\ unit' # 1 /\ unit' # 3
      BY <2>1, <3>1 DEF Allocators
    <3> QED BY <2>5, <3>2, <3>3 DEF EmitInv
  <2>7. CASE unit = 2
    <3>1. unit' = 3
      BY <2>1, <2>7
    <3>2. \E a, b \in Allocators : output' = Emitted(1, a)' \o Emitted(2, b)'
      BY <1>3, <2>1, <2>3, <2>7 DEF EmitInv
    <3>3. unit' \in 1 .. 3 /\ ra' \in Allocators /\ unit' # 1 /\ unit' # 2 /\ ~Generating'
      BY <2>1, <3>1 DEF Allocators, Generating
    <3> QED BY <3>2, <3>3 DEF EmitInv
  <2> QED BY <2>2, <2>6, <2>7
<1>8. CASE Run \/ UNCHANGED vars
  <2>1. UNCHANGED <<program, generating>>
    BY <1>8 DEF Run, vars
  <2> QED BY <1>2, <1>3, <2>1 DEF EmitInv, generating, Generating
<1> QED BY <1>5, <1>6, <1>7, <1>8 DEF Next, Finished

\* Wherever the time limit stops Chaitin's allocator, AssemblyGenerator has in
\* the end emitted every function of both units once, in order, and each unit
\* by one allocator.
THEOREM UnitCompleteCorrect == Spec => []UnitComplete
<1>1. Init => EmitInv
  <2> SUFFICES ASSUME Init PROVE EmitInv
    OBVIOUS
  <2>1. unit = 1 /\ ra = "chaitin" /\ allocated = <<>> /\ output = <<>>
    BY DEF Init
  <2>2. Len(UnitFunctions(unit)) \in Nat
    BY UnitFunctionsTypes
  <2> QED BY <2>1, <2>2 DEF EmitInv, Allocators
<1>2. EmitInv => UnitComplete
  <2> SUFFICES ASSUME EmitInv, ~Generating
               PROVE  \E a, b \in Allocators : output = Emitted(1, a) \o Emitted(2, b)
    BY DEF UnitComplete, Emitted, Allocators
  <2>1. unit = 3
    BY DEF EmitInv, Generating
  <2> QED BY <2>1 DEF EmitInv
<1> QED BY <1>1, <1>2, StepKeepsEmitInv, PTL DEF Spec
-----------------------------------------------------------------------------
(* One activation *)

Kept        == Range(calleeSaved) \cup {RBP}
Registers   == [x86Registers -> Int]
Temps       == UNION {[D -> Int] : D \in SUBSET AbstractRegister}
Entries     == {e \in Int : e % 16 = 8 /\ e <= StackTop - 8}
Activations == [temps : Temps, entry : Entries, room : Int, kept : [Kept -> Int]]

\* What the activation found in register r.
Found(A, r) == IF r = RDI THEN A.room ELSE A.kept[r]

At(M, a, v) == a \in DOMAIN M /\ M[a] = v

\* The values activation A needs again are where point S says.
Held(S, M, A) ==
  /\ At(M, A.entry - 8, A.kept[RBP])
  /\ \A r \in Tracked : S.home[r] > 0 => At(M, A.entry - S.home[r], Found(A, r))
  /\ \A j \in 1 .. 5 : S.home[calleeSaved[j]] < 0 => At(A.temps, CE(j), A.kept[calleeSaved[j]])

\* Activation A is running and at point S.
Active(S, R, M, A) ==
  /\ S.phase # 3
  /\ R[RSP] = A.entry - S.depth
  /\ R[RBP] = IF S.phase = 1 THEN A.entry - 8 ELSE A.kept[RBP]
  /\ \A r \in Tracked : S.home[r] = 0 => R[r] = Found(A, r)
  /\ S.room # 0 => R[RDI] = A.entry - S.room
  /\ S.phase = 1 => Held(S, M, A)

\* Activation A has called B, which has that many results, and will go on at point S.
Suspended(S, M, A, B, rets) ==
  /\ S.phase = 1 /\ S.room = 0 /\ \A r \in Tracked : S.home[r] # 0
  /\ B.entry = A.entry - S.depth - 8
  /\ B.kept[RBP] = A.entry - 8
  /\ Held(S, M, A)
  /\ rets >= 3 =>
       LET top == B.room + 8 * (rets - 3)      \* the word of the last result
       IN  /\ B.entry < B.room /\ top < A.entry - 8
           /\ \A r \in Tracked : top < A.entry - S.home[r]

RoomWords(A, rets) == {A.room + 8 * i : i \in 0 .. rets - 3}

\* What activation A may not write.
Keeps(M, M2, A, rets) ==
  \A a \in DOMAIN M : a >= A.entry /\ a \notin RoomWords(A, rets) => a \in DOMAIN M2 /\ M2[a] = M[a]

(* The machine, with its state as a parameter *)
RegsAfter(R, r, v, sp) == IF Isx86(r) THEN [R EXCEPT ![RSP] = sp, ![r] = v] ELSE [R EXCEPT ![RSP] = sp]
ActAfter(A, r, v) ==
  IF Isx86(r) THEN A
  ELSE [A EXCEPT !.temps = [x \in DOMAIN A.temps \cup {r} |-> IF x = r THEN v ELSE A.temps[x]]]

ReadIn(R, A, r) == IF Isx86(r) THEN R[r] ELSE IF r \in DOMAIN A.temps THEN A.temps[r] ELSE Junk
FetchIn(R, M, A, o) ==
  CASE o.kind = "const" -> o.n
    [] o.kind = "reg"   -> ReadIn(R, A, o.r)
    [] o.kind = "mem"   -> M[ReadIn(R, A, o.r) + o.n]

LEMMA WordsFacts ==
  ASSUME NEW sp \in Int, sp % 8 = 0
  PROVE  \A a : a \in Words(sp) <=> a \in Int /\ a % 8 = 0 /\ sp <= a /\ a <= StackTop - 8
<1>1. StackTop \in Nat /\ StackTop % 8 = 0
  BY CallingAssumption
<1>2. PICK s \in Int : sp = 8 * s
  BY SMT
<1>3. PICK t \in Int : StackTop = 8 * t
  BY <1>1, SMT
<1>4. sp \div 8 = s /\ StackTop \div 8 = t
  BY <1>2, <1>3
<1>5. ASSUME NEW a \in Int, a % 8 = 0, sp <= a, a <= StackTop - 8 PROVE a \in Words(sp)
  <2>1. PICK w \in Int : a = 8 * w
    BY <1>5, SMT
  <2>2. w \in s .. t - 1
    BY <1>2, <1>3, <1>5, <2>1
  <2> QED BY <1>4, <2>1, <2>2 DEF Words
<1>6. ASSUME NEW a \in Words(sp) PROVE a \in Int /\ a % 8 = 0 /\ sp <= a /\ a <= StackTop - 8
  <2>1. PICK w \in s .. t - 1 : a = 8 * w
    BY <1>4 DEF Words
  <2> QED BY <1>2, <1>3, <2>1
<1> QED BY <1>5, <1>6

LEMMA AboveFacts ==
  ASSUME NEW sp \in Int, NEW M \in [Words(sp) -> Int], NEW q \in Int, sp % 8 = 0, q % 8 = 0
  PROVE  /\ Above(M, q) \in [Words(q) -> Int]
         /\ \A a \in Words(q) : a \in Words(sp) => Above(M, q)[a] = M[a]
         /\ \A a \in Words(sp) : q <= a => a \in Words(q)
<1>1. Junk \in Int
  BY DEF Junk
<1>2. DOMAIN M = Words(sp)
  OBVIOUS
<1>3. Above(M, q) \in [Words(q) -> Int]
  BY <1>1, <1>2 DEF Above
<1>4. \A a \in Words(q) : a \in Words(sp) => Above(M, q)[a] = M[a]
  BY <1>2 DEF Above
<1>5. \A a \in Words(sp) : q <= a => a \in Words(q)
  BY WordsFacts
<1> QED BY <1>3, <1>4, <1>5

LEMMA RegsAfterFacts ==
  ASSUME NEW R \in Registers, NEW r \in Register \ {RSP}, NEW v \in Int, NEW sp \in Int
  PROVE  /\ RegsAfter(R, r, v, sp) \in Registers
         /\ RegsAfter(R, r, v, sp)[RSP] = sp
         /\ r \in x86Registers => RegsAfter(R, r, v, sp)[r] = v
         /\ \A q \in x86Registers \ {r, RSP} : RegsAfter(R, r, v, sp)[q] = R[q]
<1>1. RSP \in x86Registers /\ (Isx86(r) <=> r \in x86Registers)
  BY NameFacts, RegisterFacts DEF Register
<1> QED BY <1>1 DEF RegsAfter, Registers

LEMMA ActAfterFacts ==
  ASSUME NEW A \in Activations, NEW r \in Register, NEW v \in Int
  PROVE  /\ ActAfter(A, r, v) \in Activations
         /\ ActAfter(A, r, v).entry = A.entry /\ ActAfter(A, r, v).room = A.room
         /\ ActAfter(A, r, v).kept = A.kept
         /\ r \in AbstractRegister => At(ActAfter(A, r, v).temps, r, v)
         /\ \A x \in DOMAIN A.temps \ {r} : At(ActAfter(A, r, v).temps, x, A.temps[x])
         /\ \A q \in Tracked : Found(ActAfter(A, r, v), q) = Found(A, q)
<1> DEFINE f == [x \in DOMAIN A.temps \cup {r} |-> IF x = r THEN v ELSE A.temps[x]]
<1>1. PICK D \in SUBSET AbstractRegister : A.temps \in [D -> Int]
  BY DEF Activations, Temps
<1>2. CASE Isx86(r)
  <2>1. ActAfter(A, r, v) = A /\ r \notin AbstractRegister
    BY <1>2, NameFacts DEF ActAfter
  <2> QED BY <2>1, <1>1 DEF At, Activations
<1>3. CASE ~Isx86(r)
  <2>1. r \in AbstractRegister
    BY <1>3, NameFacts DEF Register
  <2>2. f \in [D \cup {r} -> Int] /\ D \cup {r} \in SUBSET AbstractRegister
    BY <1>1, <2>1
  <2>3. f \in Temps
    BY <2>2 DEF Temps
  <2>4. /\ r \in DOMAIN f /\ f[r] = v
        /\ \A x \in DOMAIN A.temps \ {r} : x \in DOMAIN f /\ f[x] = A.temps[x]
    OBVIOUS
  <2>5. ActAfter(A, r, v) = [A EXCEPT !.temps = f]
    BY <1>3 DEF ActAfter
  <2> HIDE DEF f
  <2>6. /\ ActAfter(A, r, v) \in Activations
        /\ ActAfter(A, r, v).entry = A.entry /\ ActAfter(A, r, v).room = A.room
        /\ ActAfter(A, r, v).kept = A.kept /\ ActAfter(A, r, v).temps = f
    BY <2>3, <2>5 DEF Activations
  <2> QED BY <2>4, <2>6 DEF At, Found
<1> QED BY <1>2, <1>3

LEMMA FetchFacts ==
  ASSUME NEW sp \in Int, NEW R \in Registers, NEW M \in [Words(sp) -> Int], NEW A \in Activations
  PROVE  /\ \A r \in Register : ReadIn(R, A, r) \in Int
         /\ \A o \in Operand : (o.kind = "mem" => ReadIn(R, A, o.r) + o.n \in DOMAIN M)
                                 => FetchIn(R, M, A, o) \in Int
<1>1. PICK D \in SUBSET AbstractRegister : A.temps \in [D -> Int]
  BY DEF Activations, Temps
<1>2. ASSUME NEW r \in Register PROVE ReadIn(R, A, r) \in Int
  <2>1. Isx86(r) => r \in x86Registers
    BY NameFacts DEF Register
  <2> QED BY <1>1, <2>1 DEF ReadIn, Registers, Junk
<1>3. ASSUME NEW o \in Operand, o.kind = "mem" => ReadIn(R, A, o.r) + o.n \in DOMAIN M
      PROVE  FetchIn(R, M, A, o) \in Int
  <2>1. o.kind \in {"reg", "mem", "const"} /\ o.r \in Register /\ o.n \in Int
    BY DEF Operand
  <2>2. ReadIn(R, A, o.r) \in Int
    BY <1>2, <2>1
  <2> QED BY <1>3, <2>1, <2>2 DEF FetchIn
<1> QED BY <1>2, <1>3
\* The fields of a point.
LEMMA PointFacts ==
  ASSUME NEW S \in Point
  PROVE  /\ S.phase \in 0 .. 3 /\ S.depth \in Nat /\ S.frame \in Nat /\ S.room \in Nat
         /\ S.home \in [Tracked -> Int] /\ \A r \in Tracked : S.home[r] \in Int
         /\ S.depth % 8 = 0
         /\ S.phase = 1 => S.depth >= 8 + S.frame
         /\ S.phase # 1 => S.depth = 0 /\ \A r \in Tracked : S.home[r] = 0
         /\ \A r \in Tracked : S.home[r] > 0 => 8 + S.frame < S.home[r] /\ S.home[r] <= S.depth
         /\ S.home[RDI] >= 0 /\ (S.room # 0 => S.home[RDI] # 0)
         /\ RDI \in Tracked
<1>1. RDI \in Tracked
  BY DEF Tracked
<1> QED BY <1>1 DEF Point, Shape

LEMMA TrackedFacts ==
  /\ \A r \in Tracked : r \in x86Registers \ {RSP, RBP} /\ (r # RDI => r \in Kept)
  /\ RDI \in Tracked /\ RDI \notin Kept /\ RBP \in Kept
  /\ \A j \in 1 .. 5 : calleeSaved[j] \in Tracked \ {RDI} /\ calleeSaved[j] \in Kept
  /\ DOMAIN calleeSaved = 1 .. 5
  /\ \A i, j \in 1 .. 5 : calleeSaved[i] = calleeSaved[j] => i = j
  /\ {RSP, RBP, RDI} \subseteq x86Registers /\ RSP # RBP /\ RSP # RDI /\ RBP # RDI
  /\ Kept \subseteq x86Registers \ {RSP}
<1>1. DOMAIN calleeSaved = 1 .. 5
  BY CalleeSavedFacts
<1>2. \A j \in 1 .. 5 : calleeSaved[j] \in Range(calleeSaved)
  BY <1>1 DEF Range
<1>3. \A i, j \in 1 .. 5 : calleeSaved[i] = calleeSaved[j] => i = j
  BY CalleeSavedFacts, <1>1
<1> QED BY <1>1, <1>2, <1>3, RegisterFacts DEF Tracked, Kept

LEMMA ActivationFacts ==
  ASSUME NEW A \in Activations
  PROVE  /\ A.entry \in Int /\ A.entry % 16 = 8 /\ A.entry % 8 = 0 /\ A.entry <= StackTop - 8
         /\ A.room \in Int /\ A.kept \in [Kept -> Int] /\ A.temps \in Temps
         /\ \A r \in Tracked : Found(A, r) \in Int
<1>1. /\ A.entry \in Int /\ A.entry % 16 = 8 /\ A.entry <= StackTop - 8
      /\ A.room \in Int /\ A.kept \in [Kept -> Int] /\ A.temps \in Temps
  BY DEF Activations, Entries
<1>2. A.entry % 8 = 0
  BY <1>1, SMT
<1> QED BY <1>1, <1>2, TrackedFacts DEF Found

\* The values stay where they are when the words do.
LEMMA HeldKept ==
  ASSUME NEW S \in Point, NEW M, NEW A \in Activations, NEW M2, NEW A2, Held(S, M, A),
         A2.entry = A.entry, A2.kept = A.kept, A2.room = A.room,
         \A j \in 1 .. 5 : CE(j) \in DOMAIN A.temps => At(A2.temps, CE(j), A.temps[CE(j)]),
         S.phase = 1,
         \A a \in DOMAIN M : A.entry - S.depth <= a /\ a <= A.entry - 8 => a \in DOMAIN M2 /\ M2[a] = M[a]
  PROVE  Held(S, M2, A2)
<1>1. S.depth \in Nat /\ S.frame \in Nat /\ S.depth >= 8 + S.frame /\ A.entry \in Int
  BY PointFacts, ActivationFacts
<1>2. At(M2, A2.entry - 8, A2.kept[RBP])
  <2>1. A.entry - S.depth <= A.entry - 8
    BY <1>1
  <2> QED BY <1>1, <2>1 DEF Held, At
<1>3. ASSUME NEW r \in Tracked, S.home[r] > 0 PROVE At(M2, A2.entry - S.home[r], Found(A2, r))
  <2>1. S.home[r] \in Int /\ 8 + S.frame < S.home[r] /\ S.home[r] <= S.depth
    BY <1>3, PointFacts
  <2>2. A.entry - S.depth <= A.entry - S.home[r] /\ A.entry - S.home[r] <= A.entry - 8
    BY <1>1, <2>1
  <2>3. At(M, A.entry - S.home[r], Found(A, r))
    BY <1>3 DEF Held
  <2>4. Found(A2, r) = Found(A, r)
    BY DEF Found
  <2> QED BY <2>2, <2>3, <2>4 DEF At
<1>4. ASSUME NEW j \in 1 .. 5, S.home[calleeSaved[j]] < 0 PROVE At(A2.temps, CE(j), A2.kept[calleeSaved[j]])
  BY <1>4 DEF Held, At
<1> QED BY <1>2, <1>3, <1>4 DEF Held

\* A machine word or an allocator's copy that nothing depends on is overwritten.
LEMMA ScratchStep ==
  ASSUME NEW S \in Point, NEW R \in Registers, NEW M, NEW A \in Activations, Active(S, R, M, A),
         S.phase = 1, NEW r \in Register, Scratch(S, r), NEW v \in Int
  PROVE  Active(S, RegsAfter(R, r, v, R[RSP]), M, ActAfter(A, r, v)) /\ r # RSP
<1> DEFINE R2 == RegsAfter(R, r, v, R[RSP])
           A2 == ActAfter(A, r, v)
<1>1. r \notin {RSP, RBP, RDI} /\ (r \in Tracked => S.home[r] # 0)
  <2>1. CASE Temporary(r)
    <3>1. r \notin x86Registers
      BY <2>1, NameFacts DEF Temporary
    <3> QED BY <3>1, TrackedFacts
  <2>2. CASE ~Temporary(r)
    BY <2>2 DEF Scratch
  <2> QED BY <2>1, <2>2
<1>2. \A j \in 1 .. 5 : r # CE(j)
  <2> SUFFICES ASSUME NEW j \in 1 .. 5 PROVE r # CE(j)
    OBVIOUS
  <2>1. CE(j) \in AbstractRegister /\ CE(j) \notin x86Registers
    BY NameFacts
  <2> QED BY <2>1, TrackedFacts DEF Scratch, Temporary
<1>3. R[RSP] \in Int
  BY TrackedFacts DEF Registers
<1>4. R2[RSP] = R[RSP] /\ \A q \in x86Registers \ {r, RSP} : R2[q] = R[q]
  <2>1. r \in Register \ {RSP}
    BY <1>1
  <2> QED BY <1>3, <2>1, RegsAfterFacts
<1>5. /\ A2.entry = A.entry /\ A2.room = A.room /\ A2.kept = A.kept
      /\ \A x \in DOMAIN A.temps \ {r} : At(A2.temps, x, A.temps[x])
      /\ \A q \in Tracked : Found(A2, q) = Found(A, q)
  BY ActAfterFacts
<1> HIDE DEF R2, A2
<1>6. Held(S, M, A2)
  <2>1. Held(S, M, A)
    BY DEF Active
  <2> QED BY <1>2, <1>5, <2>1, HeldKept
<1>7. R2[RSP] = A2.entry - S.depth /\ R2[RBP] = A2.entry - 8
  BY <1>1, <1>4, <1>5, TrackedFacts DEF Active
<1>8. \A q \in Tracked : S.home[q] = 0 => R2[q] = Found(A2, q)
  <2> SUFFICES ASSUME NEW q \in Tracked, S.home[q] = 0 PROVE R2[q] = Found(A2, q)
    OBVIOUS
  <2>1. q # r /\ q \in x86Registers \ {RSP}
    BY <1>1, TrackedFacts
  <2> QED BY <1>4, <1>5, <2>1 DEF Active
<1>9. S.room # 0 => R2[RDI] = A2.entry - S.room
  BY <1>1, <1>4, <1>5, TrackedFacts DEF Active
<1>10. Active(S, R2, M, A2)
  BY <1>6, <1>7, <1>8, <1>9 DEF Active
<1> QED BY <1>1, <1>10 DEF R2, A2

\* MOV to a register
LEMMA MovRegister ==
  ASSUME NEW p, NEW k, NEW S \in Point, NEW T \in Point, NEW x \in Instruction, Leads(p, k, S, x, T),
         x.op = "mov", x.dest.kind = "reg",
         NEW R \in Registers, NEW M, NEW A \in Activations, Active(S, R, M, A),
         FetchIn(R, M, A, x.src) \in Int
  PROVE  LET v == FetchIn(R, M, A, x.src)
         IN  /\ x.dest.r \in Register \ {RSP}
             /\ Active(T, RegsAfter(R, x.dest.r, v, R[RSP]), M, ActAfter(A, x.dest.r, v))
<1> DEFINE v == FetchIn(R, M, A, x.src)
           r == x.dest.r
           R2 == RegsAfter(R, r, v, R[RSP])
           A2 == ActAfter(A, r, v)
<1>1. r \in Register /\ x.src \in Operand /\ v \in Int
  BY DEF Instruction, Operand
<1>2. R[RSP] \in Int
  BY TrackedFacts DEF Registers
<1>3. /\ r # RSP => R2[RSP] = R[RSP] /\ (r \in x86Registers => R2[r] = v)
                   /\ \A q \in x86Registers \ {r, RSP} : R2[q] = R[q]
  <2> SUFFICES ASSUME r # RSP
               PROVE  /\ R2[RSP] = R[RSP] /\ (r \in x86Registers => R2[r] = v)
                      /\ \A q \in x86Registers \ {r, RSP} : R2[q] = R[q]
    OBVIOUS
  <2>1. r \in Register \ {RSP}
    BY <1>1
  <2> QED BY <1>1, <1>2, <2>1, RegsAfterFacts
<1>4. /\ A2.entry = A.entry /\ A2.room = A.room /\ A2.kept = A.kept
      /\ \A y \in DOMAIN A.temps \ {r} : At(A2.temps, y, A.temps[y])
      /\ r \in AbstractRegister => At(A2.temps, r, v)
      /\ \A q \in Tracked : Found(A2, q) = Found(A, q)
  BY <1>1, ActAfterFacts
<1>5. CASE SetsScratch(S, x, T)
  <2>1. S.phase = 1 /\ Scratch(S, r) /\ T = S
    BY <1>5 DEF SetsScratch
  <2> QED BY <1>1, <2>1, ScratchStep
<1>6. CASE SetsRDI(S, x, T)
  <2>1. /\ S.phase = 1 /\ r = RDI /\ S.home[RDI] # 0
        /\ T.phase = 1 /\ T.depth = S.depth /\ T.home = S.home
        /\ T.room = IF x.src = Reg(RSP) THEN S.depth ELSE 0
    BY <1>6, OpcodeFacts DEF SetsRDI, Point, Shape
  <2>2. r # RSP /\ r \in x86Registers
    BY <2>1, TrackedFacts
  <2>3. ReadIn(R, A, RSP) = R[RSP]
    BY NameFacts, TrackedFacts DEF ReadIn
  <2>4. x.src = Reg(RSP) => v = R[RSP]
    BY <2>3 DEF FetchIn, Reg
  <2> HIDE DEF v, R2, A2, r
  <2>5. A2 = A
    BY <2>2, NameFacts DEF A2, ActAfter
  <2>6. T.room # 0 => R2[RDI] = A.entry - T.room
    BY <1>3, <2>1, <2>2, <2>4 DEF Active
  <2>7. Held(T, M, A)
    BY <2>1 DEF Active, Held
  <2>8. R2[RSP] = A.entry - T.depth /\ R2[RBP] = A.entry - 8
    BY <1>3, <2>1, <2>2, TrackedFacts DEF Active
  <2>9. \A q \in Tracked : T.home[q] = 0 => R2[q] = Found(A, q)
    <3> SUFFICES ASSUME NEW q \in Tracked, T.home[q] = 0 PROVE R2[q] = Found(A, q)
      OBVIOUS
    <3>1. q \in x86Registers \ {r, RSP} /\ S.home[q] = 0
      BY <2>1, TrackedFacts
    <3> QED BY <1>3, <2>2, <3>1 DEF Active
  <2>10. Active(T, R2, M, A2)
    BY <2>1, <2>5, <2>6, <2>7, <2>8, <2>9 DEF Active
  <2> QED BY <1>1, <2>2, <2>10 DEF R2, A2, v, r
<1>7. CASE SavesInCopy(S, x, T)
  <2>1. PICK j \in 1 .. 5 :
          /\ x = MOV(Reg(CE(j)), Reg(calleeSaved[j])) /\ S.home[calleeSaved[j]] = 0
          /\ T = [S EXCEPT !.home[calleeSaved[j]] = -1]
    BY <1>7, TrackedFacts DEF SavesInCopy
  <2> DEFINE cs == calleeSaved[j]
  <2>2. cs \in Tracked \ {RDI} /\ cs \in x86Registers
    BY TrackedFacts
  <2>3. /\ S.phase = 1 /\ T.phase = 1 /\ T.depth = S.depth /\ T.room = S.room
        /\ T.home[cs] = -1 /\ \A q \in Tracked \ {cs} : T.home[q] = S.home[q]
    <3>1. S \in Shape /\ S.phase = 1
      BY <1>7 DEF Point, SavesInCopy
    <3> QED BY <2>1, <2>2, <3>1 DEF Shape
  <2>4. r = CE(j) /\ x.src = Reg(cs)
    BY <2>1, OpcodeFacts
  <2>5. r \in AbstractRegister /\ r \notin x86Registers /\ r # RSP
    BY <2>4, NameFacts, TrackedFacts
  <2>6. v = A.kept[cs]
    <3>1. v = R[cs]
      BY <2>2, <2>4, NameFacts DEF FetchIn, Reg, ReadIn
    <3> QED BY <2>1, <2>2, <3>1 DEF Active, Found
  <2> HIDE DEF v, R2, A2, r, cs
  <2>7. \A q \in x86Registers : R2[q] = R[q]
    BY <1>3, <2>5
  <2>8. \A q \in Tracked : T.home[q] = 0 => R2[q] = Found(A2, q)
    <3> SUFFICES ASSUME NEW q \in Tracked, T.home[q] = 0 PROVE R2[q] = Found(A2, q)
      OBVIOUS
    <3>1. q # cs /\ S.home[q] = 0 /\ q \in x86Registers
      BY <2>3, TrackedFacts
    <3> QED BY <1>4, <2>7, <3>1 DEF Active
  <2>9. Held(T, M, A2)
    <3>1. Held(S, M, A)
      BY <2>3 DEF Active
    <3>2. At(M, A2.entry - 8, A2.kept[RBP])
      BY <1>4, <3>1 DEF Held
    <3>3. \A q \in Tracked : T.home[q] > 0 => At(M, A2.entry - T.home[q], Found(A2, q))
      <4> SUFFICES ASSUME NEW q \in Tracked, T.home[q] > 0
                   PROVE  At(M, A2.entry - T.home[q], Found(A2, q))
        OBVIOUS
      <4>1. q # cs
        BY <2>3
      <4>2. T.home[q] = S.home[q]
        BY <2>3, <4>1
      <4> QED BY <1>4, <3>1, <4>2 DEF Held
    <3>4. ASSUME NEW i \in 1 .. 5, T.home[calleeSaved[i]] < 0
          PROVE  At(A2.temps, CE(i), A2.kept[calleeSaved[i]])
      <4>1. CASE i = j
        BY <1>4, <2>4, <2>5, <2>6, <4>1 DEF cs
      <4>2. CASE i # j
        <5>1. calleeSaved[i] # cs /\ calleeSaved[i] \in Tracked
          BY <4>2, TrackedFacts DEF cs
        <5>2. At(A.temps, CE(i), A.kept[calleeSaved[i]])
          BY <2>3, <3>1, <3>4, <5>1 DEF Held
        <5>3. CE(i) # r
          BY <2>4, <4>2, NameFacts
        <5> QED BY <1>4, <5>2, <5>3 DEF At
      <4> QED BY <4>1, <4>2
    <3> QED BY <3>2, <3>3, <3>4 DEF Held
  <2>10. Active(T, R2, M, A2)
    <3>1. R2[RSP] = A2.entry - T.depth /\ R2[RBP] = A2.entry - 8
      BY <1>4, <2>3, <2>7, TrackedFacts DEF Active
    <3>2. T.room # 0 => R2[RDI] = A2.entry - T.room
      BY <1>4, <2>3, <2>7, TrackedFacts DEF Active
    <3> QED BY <2>3, <2>8, <2>9, <3>1, <3>2 DEF Active
  <2> QED BY <1>1, <2>5, <2>10 DEF R2, A2, v, r
<1>8. CASE RestoresFromCopy(S, x, T)
  <2>1. PICK j \in 1 .. 5 :
          /\ x = MOV(Reg(calleeSaved[j]), Reg(CE(j))) /\ S.home[calleeSaved[j]] < 0
          /\ T = [S EXCEPT !.home[calleeSaved[j]] = 0]
    BY <1>8, TrackedFacts DEF RestoresFromCopy
  <2> DEFINE cs == calleeSaved[j]
  <2>2. cs \in Tracked \ {RDI} /\ cs \in x86Registers \ {RSP, RBP}
    BY TrackedFacts
  <2>3. /\ S.phase = 1 /\ T.phase = 1 /\ T.depth = S.depth /\ T.room = S.room
        /\ T.home[cs] = 0 /\ \A q \in Tracked \ {cs} : T.home[q] = S.home[q]
    <3>1. S \in Shape /\ S.phase = 1
      BY <1>8 DEF Point, RestoresFromCopy
    <3> QED BY <2>1, <2>2, <3>1 DEF Shape
  <2>4. r = cs /\ x.src = Reg(CE(j))
    BY <2>1, OpcodeFacts
  <2>5. r \in x86Registers /\ r # RSP /\ r # RBP /\ r # RDI
    BY <2>2, <2>4
  <2>6. v = A.kept[cs]
    <3>1. At(A.temps, CE(j), A.kept[cs])
      BY <2>1, <2>3 DEF Active, Held
    <3>2. ~Isx86(CE(j))
      BY NameFacts
    <3> QED BY <2>4, <3>1, <3>2 DEF FetchIn, Reg, ReadIn, At
  <2> HIDE DEF v, R2, r, cs
  <2>7. A2 = A
    BY <2>5, NameFacts DEF ActAfter
  <2> HIDE DEF A2
  <2>8. \A q \in Tracked : T.home[q] = 0 => R2[q] = Found(A, q)
    <3> SUFFICES ASSUME NEW q \in Tracked, T.home[q] = 0 PROVE R2[q] = Found(A, q)
      OBVIOUS
    <3>1. q \in x86Registers \ {RSP}
      BY TrackedFacts
    <3>2. CASE q = cs
      BY <1>3, <2>2, <2>4, <2>5, <2>6, <3>2 DEF Found
    <3>3. CASE q # cs
      BY <1>3, <2>3, <2>4, <2>5, <3>1, <3>3 DEF Active
    <3> QED BY <3>2, <3>3
  <2>9. Held(T, M, A)
    <3>1. Held(S, M, A)
      BY <2>3 DEF Active
    <3>2. \A q \in Tracked : T.home[q] # 0 => T.home[q] = S.home[q]
      BY <2>3
    <3>3. \A i \in 1 .. 5 : calleeSaved[i] \in Tracked
      BY TrackedFacts
    <3>4. \A q \in Tracked : T.home[q] > 0 => At(M, A.entry - T.home[q], Found(A, q))
      <4> SUFFICES ASSUME NEW q \in Tracked, T.home[q] > 0
                   PROVE  At(M, A.entry - T.home[q], Found(A, q))
        OBVIOUS
      <4>1. T.home[q] = S.home[q]
        BY <3>2
      <4> QED BY <3>1, <4>1 DEF Held
    <3>5. ASSUME NEW i \in 1 .. 5, T.home[calleeSaved[i]] < 0
          PROVE  At(A.temps, CE(i), A.kept[calleeSaved[i]])
      <4>1. T.home[calleeSaved[i]] = S.home[calleeSaved[i]]
        BY <3>2, <3>3, <3>5
      <4> QED BY <3>1, <3>5, <4>1 DEF Held
    <3> QED BY <3>1, <3>4, <3>5 DEF Held
  <2>10. Active(T, R2, M, A2)
    <3>1. R2[RSP] = A.entry - T.depth /\ R2[RBP] = A.entry - 8
      BY <1>3, <2>3, <2>5, TrackedFacts DEF Active
    <3>2. T.room # 0 => R2[RDI] = A.entry - T.room
      BY <1>3, <2>3, <2>5, TrackedFacts DEF Active
    <3> QED BY <2>3, <2>7, <2>8, <2>9, <3>1, <3>2 DEF Active
  <2> QED BY <1>1, <2>5, <2>10 DEF R2, A2, v, r
<1>9. \/ SetsScratch(S, x, T) \/ SetsRDI(S, x, T) \/ SavesInCopy(S, x, T) \/ RestoresFromCopy(S, x, T)
  <2>1. ~MovesRSP(S, x, T) /\ ~PushesWord(S, x, T) /\ ~PopsWord(S, x, T)
    BY DEF MovesRSP, PushesWord, PopsWord
  <2>2. ~EntersFrame(S, x, T) /\ ~LeavesFrame(S, x, T) /\ ~CallsNext(p, k, S, x, T) /\ ~Returns(S, x, T)
    BY DEF EntersFrame, LeavesFrame, CallsNext, Returns
  <2>3. ~StoresInFrame(S, x, T) /\ ~StoresResult(p, k, S, x, T)
    <3>1. \A b, o : Mem(b, o).kind = "mem"
      BY DEF Mem
    <3> QED BY <3>1 DEF StoresInFrame, StoresResult
  <2> QED BY <2>1, <2>2, <2>3 DEF Leads
<1> QED BY <1>5, <1>6, <1>7, <1>8, <1>9

Updated(M, w, v) == [M EXCEPT ![w] = v]

\* MOV to memory: to the frame or to the room for the results.
LEMMA MovMemory ==
  ASSUME NEW p, NEW k \in 1 .. 3, p[k].rets \in Nat,
         NEW S \in Point, NEW T \in Point, NEW x \in Instruction, Leads(p, k, S, x, T),
         x.op = "mov", x.dest.kind # "reg",
         NEW R \in Registers, NEW M \in [Words(R[RSP]) -> Int], NEW A \in Activations, Active(S, R, M, A),
         p[k].rets >= 3 => A.entry < A.room,
         ReadIn(R, A, x.dest.r) + x.dest.n \in DOMAIN M, NEW v \in Int
  PROVE  LET M2 == Updated(M, ReadIn(R, A, x.dest.r) + x.dest.n, v)
         IN  M2 \in [Words(R[RSP]) -> Int] /\ Active(T, R, M2, A) /\ Keeps(M, M2, A, p[k].rets)
<1> DEFINE w == ReadIn(R, A, x.dest.r) + x.dest.n
           M2 == [M EXCEPT ![w] = v]
<1>1. /\ S.phase = 1 /\ T = S
      /\ \/ \E i \in Nat \ {0} : x.dest = Mem(RBP, -8 * i) /\ 8 * i <= S.frame
         \/ S.home[RDI] = 0 /\ \E i \in 3 .. p[k].rets : x.dest = Mem(RDI, 8 * (i - 3))
  <2>1. ~MovesRSP(S, x, T) /\ ~PushesWord(S, x, T) /\ ~PopsWord(S, x, T)
    BY DEF MovesRSP, PushesWord, PopsWord
  <2>2. ~EntersFrame(S, x, T) /\ ~LeavesFrame(S, x, T) /\ ~CallsNext(p, k, S, x, T) /\ ~Returns(S, x, T)
    BY DEF EntersFrame, LeavesFrame, CallsNext, Returns
  <2>3. ~SetsScratch(S, x, T) /\ ~SetsRDI(S, x, T) /\ ~SavesInCopy(S, x, T) /\ ~RestoresFromCopy(S, x, T)
    <3>1. \A q : Reg(q).kind = "reg"
      BY OpcodeFacts
    <3>2. \A d, s : MOV(d, s).dest = d
      BY OpcodeFacts
    <3> QED BY <3>1, <3>2 DEF SetsScratch, SetsRDI, SavesInCopy, RestoresFromCopy
  <2>4. StoresInFrame(S, x, T) \/ StoresResult(p, k, S, x, T)
    BY <2>1, <2>2, <2>3 DEF Leads
  <2> QED BY <2>4 DEF StoresInFrame, StoresResult
<1>2. /\ S.depth \in Nat /\ S.frame \in Nat /\ S.depth >= 8 + S.frame
      /\ A.entry \in Int /\ A.room \in Int /\ p[k].rets \in Nat
  BY <1>1, PointFacts, ActivationFacts
<1>3. /\ w \in Int
      /\ \/ w < A.entry - 8 /\ w > A.entry - 8 - S.frame - 1
         \/ w \in RoomWords(A, p[k].rets) /\ A.entry < w
  <2>1. \A b, o : Mem(b, o).r = b /\ Mem(b, o).n = o
    BY DEF Mem
  <2>2. CASE \E i \in Nat \ {0} : x.dest = Mem(RBP, -8 * i) /\ 8 * i <= S.frame
    <3>1. PICK i \in Nat \ {0} : x.dest = Mem(RBP, -8 * i) /\ 8 * i <= S.frame
      BY <2>2
    <3>2. x.dest.r = RBP /\ x.dest.n = -8 * i
      BY <2>1, <3>1
    <3>3. ReadIn(R, A, RBP) = A.entry - 8
      BY <1>1, NameFacts, TrackedFacts DEF ReadIn, Active
    <3>4. w = A.entry - 8 + (-8 * i)
      BY <3>2, <3>3
    <3> HIDE DEF w
    <3> QED BY <1>2, <3>1, <3>4
  <2>3. CASE S.home[RDI] = 0 /\ \E i \in 3 .. p[k].rets : x.dest = Mem(RDI, 8 * (i - 3))
    <3>1. PICK i \in 3 .. p[k].rets : x.dest = Mem(RDI, 8 * (i - 3))
      BY <2>3
    <3>2. x.dest.r = RDI /\ x.dest.n = 8 * (i - 3)
      BY <2>1, <3>1
    <3>3. ReadIn(R, A, RDI) = A.room
      BY <2>3, NameFacts, TrackedFacts DEF ReadIn, Active, Found
    <3>4. w = A.room + 8 * (i - 3)
      BY <3>2, <3>3
    <3>5. i - 3 \in 0 .. p[k].rets - 3 /\ p[k].rets >= 3 /\ i - 3 >= 0
      BY <1>2, <3>1
    <3> HIDE DEF w
    <3>6. w \in RoomWords(A, p[k].rets)
      BY <3>4, <3>5 DEF RoomWords
    <3>7. A.entry < w /\ w \in Int
      BY <1>2, <3>1, <3>4, <3>5
    <3> QED BY <3>6, <3>7
  <2> QED BY <1>1, <2>2, <2>3
<1>4. w \in DOMAIN M /\ DOMAIN M = Words(R[RSP])
  OBVIOUS
<1> HIDE DEF w
<1>5. /\ M2 \in [Words(R[RSP]) -> Int]
      /\ \A a \in DOMAIN M : a \in DOMAIN M2 /\ (a # w => M2[a] = M[a])
  BY <1>4
<1> HIDE DEF M2
<1>6. Keeps(M, M2, A, p[k].rets)
  <2>1. ASSUME NEW a \in DOMAIN M, a >= A.entry, a \notin RoomWords(A, p[k].rets) PROVE a # w
    BY <1>2, <1>3, <2>1
  <2> QED BY <1>5, <2>1 DEF Keeps
<1>7. Held(S, M2, A)
  <2>1. Held(S, M, A)
    BY <1>1 DEF Active
  <2>2. At(M2, A.entry - 8, A.kept[RBP])
    <3>1. A.entry - 8 # w
      BY <1>2, <1>3
    <3> QED BY <1>5, <2>1, <3>1 DEF Held, At
  <2>3. \A r \in Tracked : S.home[r] > 0 => At(M2, A.entry - S.home[r], Found(A, r))
    <3> SUFFICES ASSUME NEW r \in Tracked, S.home[r] > 0
                 PROVE  At(M2, A.entry - S.home[r], Found(A, r))
      OBVIOUS
    <3>1. S.home[r] \in Int /\ 8 + S.frame < S.home[r]
      BY PointFacts
    <3>2. A.entry - S.home[r] # w
      BY <1>2, <1>3, <3>1
    <3> QED BY <1>5, <2>1, <3>2 DEF Held, At
  <2> QED BY <2>1, <2>2, <2>3 DEF Held
<1>8. Active(T, R, M2, A)
  BY <1>1, <1>7 DEF Active
<1> QED BY <1>5, <1>6, <1>8 DEF M2, w, Updated

\* Active in phase 1, from its parts.
LEMMA ActiveInFrame ==
  ASSUME NEW S \in Point, NEW R, NEW M, NEW A, S.phase = 1,
         R[RSP] = A.entry - S.depth, R[RBP] = A.entry - 8,
         \A r \in Tracked : S.home[r] = 0 => R[r] = Found(A, r),
         S.room # 0 => R[RDI] = A.entry - S.room, Held(S, M, A)
  PROVE  Active(S, R, M, A)
BY DEF Active

\* The stack pointer moves to q; words from there on are as they were.
LEMMA AboveKeeps ==
  ASSUME NEW A \in Activations, NEW sp \in Int, NEW M \in [Words(sp) -> Int], sp % 8 = 0,
         NEW q \in Int, q % 8 = 0, q <= A.entry, NEW rets
  PROVE  Keeps(M, Above(M, q), A, rets)
<1>1. A.entry \in Int /\ DOMAIN M = Words(sp)
  BY ActivationFacts
<1>2. \A a \in DOMAIN M : a \in Int
  BY <1>1, WordsFacts
<1>3. DOMAIN Above(M, q) = Words(q)
  BY DEF Above
<1>4. \A a \in DOMAIN M : a >= A.entry => a \in Words(q) /\ a \in Words(sp) /\ q <= a
  <2> SUFFICES ASSUME NEW a \in DOMAIN M, a >= A.entry PROVE a \in Words(q) /\ a \in Words(sp) /\ q <= a
    OBVIOUS
  <2>1. q <= a
    BY <1>1, <1>2
  <2> QED BY <1>1, <2>1, AboveFacts
<1>5. \A a \in DOMAIN M : a >= A.entry => Above(M, q)[a] = M[a]
  BY <1>4, AboveFacts
<1> QED BY <1>3, <1>4, <1>5 DEF Keeps
LEMMA Multiples ==
  ASSUME NEW a \in Int, NEW b \in Int, a % 8 = 0, b % 8 = 0
  PROVE  a + b \in Int /\ (a + b) % 8 = 0 /\ a - b \in Int /\ (a - b) % 8 = 0
<1>1. PICK i \in Int : a = 8 * i
  BY SMT
<1>2. PICK j \in Int : b = 8 * j
  BY SMT
<1>3. a + b = 8 * (i + j) /\ a - b = 8 * (i - j)
  BY <1>1, <1>2
<1>4. \A n \in Int : (8 * n) % 8 = 0
  BY SMT
<1> QED BY <1>3, <1>4

\* The stack pointer in an activation.
LEMMA StackPointer ==
  ASSUME NEW S \in Point, NEW R \in Registers, NEW M, NEW A \in Activations, Active(S, R, M, A)
  PROVE  /\ R[RSP] \in Int /\ R[RSP] % 8 = 0 /\ R[RSP] <= A.entry /\ R[RSP] = A.entry - S.depth
<1>1. A.entry \in Int /\ A.entry % 8 = 0 /\ S.depth \in Nat /\ S.depth % 8 = 0
  BY PointFacts, ActivationFacts
<1>2. R[RSP] = A.entry - S.depth
  BY DEF Active
<1>3. R[RSP] \in Int /\ R[RSP] <= A.entry /\ R[RSP] % 8 = 0
  BY <1>1, <1>2, Multiples
<1> QED BY <1>2, <1>3

\* The words of the activation that are still there when RSP is at T.depth.
LEMMA HeldAbove ==
  ASSUME NEW T \in Point, NEW A \in Activations, NEW sp \in Int, sp % 8 = 0, NEW M \in [Words(sp) -> Int],
         Held(T, M, A), T.phase = 1, NEW q \in Int, q % 8 = 0, q <= A.entry - T.depth
  PROVE  Held(T, Above(M, q), A)
<1>1. A.entry \in Int /\ T.depth \in Nat /\ DOMAIN M = Words(sp) /\ DOMAIN Above(M, q) = Words(q)
  BY PointFacts, ActivationFacts DEF Above
<1>2. \A a \in DOMAIN M : a \in Int
  BY <1>1, WordsFacts
<1>3. \A a \in DOMAIN M : A.entry - T.depth <= a => a \in Words(q) /\ Above(M, q)[a] = M[a]
  <2> SUFFICES ASSUME NEW a \in DOMAIN M, A.entry - T.depth <= a
               PROVE  a \in Words(q) /\ Above(M, q)[a] = M[a]
    OBVIOUS
  <2>1. q <= a /\ a \in Words(sp)
    BY <1>1, <1>2
  <2> QED BY <2>1, AboveFacts
<1>4. \A j \in 1 .. 5 : CE(j) \in DOMAIN A.temps => At(A.temps, CE(j), A.temps[CE(j)])
  BY DEF At
<1> QED BY <1>1, <1>3, <1>4, HeldKept

\* ADD and SUB
LEMMA AddSubStep ==
  ASSUME NEW p, NEW k, NEW S \in Point, NEW T \in Point, NEW x \in Instruction, Leads(p, k, S, x, T),
         x.op \in {"add", "sub"},
         NEW R \in Registers, NEW M \in [Words(R[RSP]) -> Int], NEW A \in Activations, Active(S, R, M, A),
         NEW rets
  PROVE  LET sp == IF x.op = "add" THEN R[RSP] + x.src.n ELSE R[RSP] - x.src.n
             R2 == [R EXCEPT ![RSP] = sp]
             M2 == Above(M, sp)
         IN  /\ sp \in Int /\ R2 \in Registers /\ R2[RSP] = sp /\ M2 \in [Words(sp) -> Int]
             /\ Active(T, R2, M2, A) /\ Keeps(M, M2, A, rets)
<1> DEFINE sp == IF x.op = "add" THEN R[RSP] + x.src.n ELSE R[RSP] - x.src.n
           R2 == [R EXCEPT ![RSP] = sp]
           M2 == Above(M, sp)
<1>1. MovesRSP(S, x, T)
  <2>1. x.op \notin {"mov", "push", "pop", "enter", "leave", "call", "ret"}
    OBVIOUS
  <2>2. \A d, s : MOV(d, s).op = "mov"
    BY OpcodeFacts
  <2> QED BY <2>1, <2>2 DEF Leads, SetsScratch, SetsRDI, SavesInCopy, RestoresFromCopy, StoresInFrame, StoresResult,
             PushesWord, PopsWord, EntersFrame, LeavesFrame, CallsNext, Returns
<1>2. x.src.n \in Int /\ x.src.n % 8 = 0
  BY <1>1 DEF MovesRSP, Instruction, Operand
<1>3. /\ S.phase = 1 /\ T.phase = 1 /\ T.home = S.home /\ T.room = S.room
      /\ T.depth = IF x.op = "add" THEN S.depth - x.src.n ELSE S.depth + x.src.n
  <2>1. S \in Shape
    BY DEF Point
  <2> QED BY <1>1, <2>1 DEF MovesRSP, Shape
<1>4. /\ R[RSP] \in Int /\ R[RSP] % 8 = 0 /\ R[RSP] = A.entry - S.depth
      /\ sp \in Int /\ sp % 8 = 0
  <2>1. R[RSP] \in Int /\ R[RSP] % 8 = 0 /\ R[RSP] = A.entry - S.depth
    BY StackPointer
  <2>2. /\ R[RSP] + x.src.n \in Int /\ (R[RSP] + x.src.n) % 8 = 0
        /\ R[RSP] - x.src.n \in Int /\ (R[RSP] - x.src.n) % 8 = 0
    BY <1>2, <2>1, Multiples
  <2> QED BY <2>1, <2>2
<1>5. S.depth \in Nat /\ T.depth \in Nat /\ A.entry \in Int
  BY PointFacts, ActivationFacts
<1>6. sp = A.entry - T.depth /\ sp <= A.entry
  <2>1. CASE x.op = "add"
    <3>1. sp = R[RSP] + x.src.n /\ T.depth = S.depth - x.src.n
      BY <1>3, <2>1
    <3> HIDE DEF sp
    <3> QED BY <1>2, <1>4, <1>5, <3>1
  <2>2. CASE x.op # "add"
    <3>1. sp = R[RSP] - x.src.n /\ T.depth = S.depth + x.src.n
      BY <1>3, <2>2
    <3> HIDE DEF sp
    <3> QED BY <1>2, <1>4, <1>5, <3>1
  <2> QED BY <2>1, <2>2
<1> HIDE DEF sp
<1>7. R2 \in Registers /\ R2[RSP] = sp /\ \A q \in x86Registers \ {RSP} : R2[q] = R[q]
  BY <1>4, TrackedFacts DEF Registers
<1>8. M2 \in [Words(sp) -> Int]
  BY <1>4, AboveFacts
<1>9. Keeps(M, M2, A, rets)
  BY <1>4, <1>6, AboveKeeps
<1>10. Held(T, M2, A)
  <2>1. Held(T, M, A)
    BY <1>3 DEF Active, Held
  <2> QED BY <1>3, <1>4, <1>6, <2>1, HeldAbove
<1> HIDE DEF R2, M2
<1>11. R2[RBP] = A.entry - 8 /\ (T.room # 0 => R2[RDI] = A.entry - T.room)
  BY <1>3, <1>7, TrackedFacts DEF Active
<1>12. \A q \in Tracked : T.home[q] = 0 => R2[q] = Found(A, q)
  BY <1>3, <1>7, TrackedFacts DEF Active
<1>13. Active(T, R2, M2, A)
  BY <1>3, <1>6, <1>7, <1>10, <1>11, <1>12, ActiveInFrame
<1> QED BY <1>4, <1>7, <1>8, <1>9, <1>13 DEF R2, M2, sp
\* The words from q upwards, a new one of which is set.
Stored(M, q, w, v) == [Above(M, q) EXCEPT ![w] = v]

LEMMA StoredFacts ==
  ASSUME NEW A \in Activations, NEW sp \in Int, sp % 8 = 0, NEW M \in [Words(sp) -> Int],
         NEW q \in Int, q % 8 = 0, q <= A.entry, NEW w \in Words(q), w < sp, w < A.entry, NEW v \in Int, NEW rets
  PROVE  /\ Stored(M, q, w, v) \in [Words(q) -> Int] /\ At(Stored(M, q, w, v), w, v)
         /\ Keeps(M, Stored(M, q, w, v), A, rets)
         /\ \A a \in DOMAIN M : q <= a => a \in DOMAIN Stored(M, q, w, v) /\ Stored(M, q, w, v)[a] = M[a]
<1> DEFINE N == Above(M, q)
           M2 == [N EXCEPT ![w] = v]
<1>1. N \in [Words(q) -> Int] /\ DOMAIN M = Words(sp)
  BY AboveFacts
<1>2. Keeps(M, N, A, rets)
  BY AboveKeeps
<1>3. \A a \in DOMAIN M : a \in Int /\ sp <= a
  BY <1>1, WordsFacts
<1>4. \A a \in DOMAIN M : q <= a => a \in DOMAIN N /\ N[a] = M[a]
  BY <1>1, AboveFacts, SMTT(60)
<1>5. w \in Int /\ w \in DOMAIN N /\ A.entry \in Int
  BY <1>1, WordsFacts, ActivationFacts
<1> HIDE DEF N
<1>6. \A a \in DOMAIN M : a # w
  BY <1>3, <1>5
<1>7. M2 \in [Words(q) -> Int] /\ At(M2, w, v) /\ \A a \in DOMAIN N : a \in DOMAIN M2 /\ (a # w => M2[a] = N[a])
  BY <1>1, <1>5 DEF At
<1> HIDE DEF M2
<1>8. Keeps(M, M2, A, rets)
  BY <1>2, <1>6, <1>7 DEF Keeps
<1>9. \A a \in DOMAIN M : q <= a => a \in DOMAIN M2 /\ M2[a] = M[a]
  BY <1>4, <1>6, <1>7
<1> QED BY <1>7, <1>8, <1>9 DEF M2, N, Stored

\* PUSH
LEMMA PushStep ==
  ASSUME NEW p, NEW k, NEW S \in Point, NEW T \in Point, NEW x \in Instruction, Leads(p, k, S, x, T),
         x.op = "push",
         NEW R \in Registers, NEW M \in [Words(R[RSP]) -> Int], NEW A \in Activations, Active(S, R, M, A),
         FetchIn(R, M, A, x.src) \in Int, NEW rets
  PROVE  LET sp == R[RSP] - 8
             R2 == [R EXCEPT ![RSP] = sp]
             M2 == [Above(M, sp) EXCEPT ![sp] = FetchIn(R, M, A, x.src)]
         IN  /\ sp \in Int /\ R2 \in Registers /\ R2[RSP] = sp /\ M2 \in [Words(sp) -> Int]
             /\ Active(T, R2, M2, A) /\ Keeps(M, M2, A, rets)
<1> DEFINE sp == R[RSP] - 8
           v  == FetchIn(R, M, A, x.src)
           R2 == [R EXCEPT ![RSP] = sp]
           M2 == Stored(M, sp, sp, v)
<1>1. PushesWord(S, x, T)
  <2>1. x.op \notin {"mov", "add", "sub", "pop", "enter", "leave", "call", "ret"}
    OBVIOUS
  <2>2. \A d, s : MOV(d, s).op = "mov"
    BY OpcodeFacts
  <2> QED BY <2>1, <2>2 DEF Leads, SetsScratch, SetsRDI, SavesInCopy, RestoresFromCopy, StoresInFrame, StoresResult,
             MovesRSP, PopsWord, EntersFrame, LeavesFrame, CallsNext, Returns
<1>2. S \in Shape /\ S.phase = 1 /\ S.depth \in Nat /\ A.entry \in Int /\ S.home \in [Tracked -> Int]
  BY <1>1, PointFacts, ActivationFacts DEF PushesWord, Point
<1>3. /\ T.phase = 1 /\ T.depth = S.depth + 8 /\ T.room = S.room
      /\ \A q \in Tracked : \/ T.home[q] = S.home[q]
                            \/ x.src = Reg(q) /\ S.home[q] = 0 /\ T.home[q] = S.depth + 8
  <2>1. CASE T = [S EXCEPT !.depth = @ + 8]
    BY <1>2, <2>1 DEF Shape
  <2>2. CASE \E r \in Tracked : x.src = Reg(r) /\ S.home[r] = 0 /\ T = [S EXCEPT !.depth = @ + 8, !.home[r] = S.depth + 8]
    <3>1. PICK r \in Tracked : x.src = Reg(r) /\ S.home[r] = 0 /\ T = [S EXCEPT !.depth = @ + 8, !.home[r] = S.depth + 8]
      BY <2>2
    <3>2. /\ T.phase = 1 /\ T.depth = S.depth + 8 /\ T.room = S.room
          /\ T.home = [S.home EXCEPT ![r] = S.depth + 8]
      BY <1>2, <3>1 DEF Shape
    <3> QED BY <1>2, <3>1, <3>2
  <2> QED BY <1>1, <2>1, <2>2 DEF PushesWord
<1>4. /\ R[RSP] \in Int /\ R[RSP] % 8 = 0 /\ R[RSP] = A.entry - S.depth /\ R[RSP] <= A.entry
      /\ sp \in Int /\ sp % 8 = 0
  <2>1. R[RSP] \in Int /\ R[RSP] % 8 = 0 /\ R[RSP] = A.entry - S.depth /\ R[RSP] <= A.entry
    BY StackPointer
  <2>2. 8 % 8 = 0 /\ 8 \in Int
    OBVIOUS
  <2> QED BY <2>1, <2>2, Multiples
<1>5. sp = A.entry - T.depth /\ sp <= A.entry /\ sp < R[RSP] /\ sp < A.entry
  BY <1>2, <1>3, <1>4
<1>6. sp \in Words(sp)
  <2>1. sp <= StackTop - 8
    BY <1>4, <1>5, ActivationFacts, CallingAssumption
  <2> QED BY <1>4, <2>1, WordsFacts
<1> HIDE DEF sp
<1>7. R2 \in Registers /\ R2[RSP] = sp /\ \A q \in x86Registers \ {RSP} : R2[q] = R[q]
  BY <1>4, TrackedFacts DEF Registers
<1>8. v \in Int
  OBVIOUS
<1> HIDE DEF v
<1>9. /\ M2 \in [Words(sp) -> Int] /\ At(M2, sp, v) /\ Keeps(M, M2, A, rets)
      /\ \A a \in DOMAIN M : sp <= a => a \in DOMAIN M2 /\ M2[a] = M[a]
  <2> HIDE DEF R2
  <2> QED BY <1>4, <1>5, <1>6, <1>8, StoredFacts
<1> HIDE DEF R2, M2
<1>10. Held(S, M2, A)
  <2>1. Held(S, M, A)
    BY <1>2 DEF Active
  <2>2. \A a \in DOMAIN M : a \in Int
    BY <1>4, WordsFacts
  <2>3. \A a \in DOMAIN M : A.entry - S.depth <= a => sp <= a
    BY <1>2, <1>4, <1>5, <2>2
  <2>4. \A j \in 1 .. 5 : CE(j) \in DOMAIN A.temps => At(A.temps, CE(j), A.temps[CE(j)])
    BY DEF At
  <2> QED BY <1>2, <1>9, <2>1, <2>3, <2>4, HeldKept
<1>11. Held(T, M2, A)
  <2>1. \A r \in Tracked : T.home[r] > 0 => At(M2, A.entry - T.home[r], Found(A, r))
    <3> SUFFICES ASSUME NEW r \in Tracked, T.home[r] > 0
                 PROVE  At(M2, A.entry - T.home[r], Found(A, r))
      OBVIOUS
    <3>1. CASE T.home[r] = S.home[r]
      BY <1>10, <3>1 DEF Held
    <3>2. CASE x.src = Reg(r) /\ S.home[r] = 0 /\ T.home[r] = S.depth + 8
      <4>1. R[r] = Found(A, r)
        BY <3>2 DEF Active
      <4>2. v = R[r]
        BY <3>2, TrackedFacts, NameFacts DEF v, FetchIn, Reg, ReadIn
      <4>3. A.entry - T.home[r] = sp
        BY <1>3, <1>5, <3>2
      <4> QED BY <1>9, <4>1, <4>2, <4>3
    <3> QED BY <1>3, <3>1, <3>2
  <2>2. \A j \in 1 .. 5 : T.home[calleeSaved[j]] < 0 => S.home[calleeSaved[j]] < 0
    <3> SUFFICES ASSUME NEW j \in 1 .. 5, T.home[calleeSaved[j]] < 0 PROVE S.home[calleeSaved[j]] < 0
      OBVIOUS
    <3>1. calleeSaved[j] \in Tracked
      BY TrackedFacts
    <3>2. T.home[calleeSaved[j]] # S.depth + 8
      BY <1>2
    <3> QED BY <1>3, <3>1, <3>2
  <2> QED BY <1>10, <2>1, <2>2 DEF Held
<1>12. \A q \in Tracked : T.home[q] = 0 => R2[q] = Found(A, q)
  <2> SUFFICES ASSUME NEW q \in Tracked, T.home[q] = 0 PROVE R2[q] = Found(A, q)
    OBVIOUS
  <2>1. S.home[q] = 0 /\ q \in x86Registers \ {RSP}
    BY <1>3, TrackedFacts
  <2> QED BY <1>7, <2>1 DEF Active
<1>13. R2[RBP] = A.entry - 8 /\ (T.room # 0 => R2[RDI] = A.entry - T.room)
  BY <1>2, <1>3, <1>7, TrackedFacts DEF Active
<1>14. Active(T, R2, M2, A)
  BY <1>3, <1>5, <1>7, <1>11, <1>12, <1>13, ActiveInFrame
<1> QED BY <1>4, <1>7, <1>9, <1>14 DEF R2, M2, sp, v, Stored
\* POP
LEMMA PopStep ==
  ASSUME NEW p, NEW k, NEW S \in Point, NEW T \in Point, NEW x \in Instruction, Leads(p, k, S, x, T),
         x.op = "pop",
         NEW R \in Registers, NEW M \in [Words(R[RSP]) -> Int], NEW A \in Activations, Active(S, R, M, A),
         R[RSP] \in DOMAIN M, NEW rets
  PROVE  LET sp == R[RSP] + 8
             R2 == RegsAfter(R, x.dest.r, M[R[RSP]], sp)
             A2 == ActAfter(A, x.dest.r, M[R[RSP]])
             M2 == Above(M, sp)
         IN  /\ sp \in Int /\ x.dest.r \in Register \ {RSP} /\ R2[RSP] = sp /\ M2 \in [Words(sp) -> Int]
             /\ Active(T, R2, M2, A2) /\ Keeps(M, M2, A, rets)
<1> DEFINE sp == R[RSP] + 8
           v  == M[R[RSP]]
           r  == x.dest.r
           R2 == RegsAfter(R, r, v, sp)
           A2 == ActAfter(A, r, v)
           M2 == Above(M, sp)
<1>1. PopsWord(S, x, T)
  <2>1. x.op \notin {"mov", "add", "sub", "push", "enter", "leave", "call", "ret"}
    OBVIOUS
  <2>2. \A d, s : MOV(d, s).op = "mov"
    BY OpcodeFacts
  <2> QED BY <2>1, <2>2 DEF Leads, SetsScratch, SetsRDI, SavesInCopy, RestoresFromCopy, StoresInFrame, StoresResult,
             MovesRSP, PushesWord, EntersFrame, LeavesFrame, CallsNext, Returns
<1>2. /\ S \in Shape /\ S.phase = 1 /\ S.depth \in Nat /\ A.entry \in Int /\ S.home \in [Tracked -> Int]
      /\ T.depth \in Nat /\ r \in Register
  BY <1>1, PointFacts, ActivationFacts DEF PopsWord, Point, Instruction, Operand
<1>3. /\ T.phase = 1 /\ T.depth = S.depth - 8 /\ T.room = S.room
      /\ \/ Scratch(S, r) /\ T.home = S.home
         \/ /\ r \in Tracked /\ S.home[r] = S.depth /\ T.home[r] = 0
            /\ \A q \in Tracked \ {r} : T.home[q] = S.home[q]
  <2>1. CASE Scratch(S, r) /\ T = [S EXCEPT !.depth = @ - 8]
    BY <1>2, <2>1 DEF Shape
  <2>2. CASE \E q \in Tracked : x.dest = Reg(q) /\ S.home[q] = S.depth /\ T = [S EXCEPT !.depth = @ - 8, !.home[q] = 0]
    <3>1. PICK q \in Tracked : x.dest = Reg(q) /\ S.home[q] = S.depth /\ T = [S EXCEPT !.depth = @ - 8, !.home[q] = 0]
      BY <2>2
    <3>2. /\ T.phase = 1 /\ T.depth = S.depth - 8 /\ T.room = S.room
          /\ T.home = [S.home EXCEPT ![q] = 0]
      BY <1>2, <3>1 DEF Shape
    <3>3. r = q
      BY <3>1, OpcodeFacts
    <3> QED BY <1>2, <3>1, <3>2, <3>3
  <2> QED BY <1>1, <2>1, <2>2 DEF PopsWord
<1>4. /\ R[RSP] \in Int /\ R[RSP] % 8 = 0 /\ R[RSP] = A.entry - S.depth /\ R[RSP] <= A.entry
      /\ sp \in Int /\ sp % 8 = 0
  <2>1. R[RSP] \in Int /\ R[RSP] % 8 = 0 /\ R[RSP] = A.entry - S.depth /\ R[RSP] <= A.entry
    BY StackPointer
  <2>2. 8 % 8 = 0 /\ 8 \in Int
    OBVIOUS
  <2> QED BY <2>1, <2>2, Multiples
<1>5. sp = A.entry - T.depth /\ sp <= A.entry
  BY <1>2, <1>3, <1>4
<1>6. v \in Int
  OBVIOUS
<1>7. /\ r \in Register \ {RSP} /\ r # RBP
      /\ \A q \in Tracked : T.home[q] = 0 => q = r \/ S.home[q] = 0
      /\ \A j \in 1 .. 5 : r # CE(j)
  <2>1. CASE Scratch(S, r) /\ T.home = S.home
    <3>1. r \in x86Registers \ {RSP, RBP, RDI} \/ (r \in AbstractRegister /\ Temporary(r))
      BY <2>1 DEF Scratch, Temporary
    <3>2. \A j \in 1 .. 5 : CE(j) \in AbstractRegister /\ CE(j) \notin x86Registers
      BY NameFacts
    <3>3. \A j \in 1 .. 5 : r # CE(j)
      BY <3>1, <3>2, TrackedFacts DEF Temporary
    <3>4. r # RSP /\ r # RBP
      BY <3>1, NameFacts, TrackedFacts
    <3> QED BY <1>2, <2>1, <3>3, <3>4
  <2>2. CASE /\ r \in Tracked /\ S.home[r] = S.depth /\ T.home[r] = 0
             /\ \A q \in Tracked \ {r} : T.home[q] = S.home[q]
    <3>1. \A j \in 1 .. 5 : CE(j) \notin x86Registers
      BY NameFacts
    <3> QED BY <1>2, <2>2, <3>1, TrackedFacts
  <2> QED BY <1>3, <2>1, <2>2
<1> HIDE DEF sp
<1>8. /\ R2[RSP] = sp /\ (r \in x86Registers => R2[r] = v)
      /\ \A q \in x86Registers \ {r, RSP} : R2[q] = R[q]
  BY <1>4, <1>6, <1>7, RegsAfterFacts
<1>9. /\ A2.entry = A.entry /\ A2.room = A.room /\ A2.kept = A.kept
      /\ \A y \in DOMAIN A.temps \ {r} : At(A2.temps, y, A.temps[y])
      /\ \A q \in Tracked : Found(A2, q) = Found(A, q)
  BY <1>2, <1>6, ActAfterFacts
<1>10. M2 \in [Words(sp) -> Int] /\ Keeps(M, M2, A, rets)
  BY <1>4, <1>5, AboveFacts, AboveKeeps
<1>11. Held(T, M, A)
  <2>1. Held(S, M, A)
    BY <1>2 DEF Active
  <2>2. \A q \in Tracked : T.home[q] # 0 => T.home[q] = S.home[q]
    BY <1>3
  <2>3. \A i \in 1 .. 5 : calleeSaved[i] \in Tracked
    BY TrackedFacts
  <2>4. \A q \in Tracked : T.home[q] > 0 => At(M, A.entry - T.home[q], Found(A, q))
    <3> SUFFICES ASSUME NEW q \in Tracked, T.home[q] > 0
                 PROVE  At(M, A.entry - T.home[q], Found(A, q))
      OBVIOUS
    <3>1. T.home[q] = S.home[q]
      BY <2>2
    <3> QED BY <2>1, <3>1 DEF Held
  <2>5. ASSUME NEW i \in 1 .. 5, T.home[calleeSaved[i]] < 0
        PROVE  At(A.temps, CE(i), A.kept[calleeSaved[i]])
    <3>1. T.home[calleeSaved[i]] = S.home[calleeSaved[i]]
      BY <2>2, <2>3, <2>5
    <3> QED BY <2>1, <2>5, <3>1 DEF Held
  <2> QED BY <2>1, <2>4, <2>5 DEF Held
<1>12. Held(T, M2, A)
  BY <1>3, <1>4, <1>5, <1>11, HeldAbove
<1> HIDE DEF M2, A2
<1>13. Held(T, M2, A2)
  <2>1. \A j \in 1 .. 5 : CE(j) \in DOMAIN A.temps => At(A2.temps, CE(j), A.temps[CE(j)])
    BY <1>7, <1>9
  <2>2. \A a \in DOMAIN M2 : a \in DOMAIN M2 /\ M2[a] = M2[a]
    OBVIOUS
  <2> QED BY <1>3, <1>9, <1>12, <2>1, <2>2, HeldKept
<1>14. \A q \in Tracked : T.home[q] = 0 => R2[q] = Found(A2, q)
  <2> SUFFICES ASSUME NEW q \in Tracked, T.home[q] = 0 PROVE R2[q] = Found(A, q)
    BY <1>9
  <2>1. q \in x86Registers \ {RSP}
    BY TrackedFacts
  <2>2. CASE q # r
    <3>1. S.home[q] = 0
      BY <1>7, <2>2
    <3> QED BY <1>8, <2>1, <2>2, <3>1 DEF Active
  <2>3. CASE q = r
    <3>1. CASE Scratch(S, r) /\ T.home = S.home
      <4>1. S.home[r] = 0
        BY <2>3, <3>1
      <4> QED BY <2>1, <2>3, <3>1, <4>1, NameFacts DEF Scratch, Temporary
    <3>2. CASE r \in Tracked /\ S.home[r] = S.depth
      <4>1. S.home[r] > 0
        <5>1. S.depth >= 8 + S.frame /\ S.frame \in Nat
          BY <1>2, PointFacts
        <5> QED BY <1>2, <3>2, <5>1
      <4>2. At(M, A.entry - S.depth, Found(A, r))
        BY <1>2, <3>2, <4>1 DEF Active, Held
      <4>3. v = Found(A, r)
        BY <1>4, <4>2 DEF At
      <4> HIDE DEF v
      <4> QED BY <1>8, <2>1, <2>3, <4>3
    <3> QED BY <1>3, <3>1, <3>2
  <2> QED BY <2>2, <2>3
<1>15. R2[RBP] = A2.entry - 8
  BY <1>2, <1>7, <1>8, <1>9, TrackedFacts DEF Active
<1>16. T.room # 0 => R2[RDI] = A2.entry - T.room
  <2> SUFFICES ASSUME T.room # 0 PROVE R2[RDI] = A.entry - T.room
    BY <1>9
  <2>1. r # RDI
    <3>1. T.home[RDI] # 0
      BY PointFacts
    <3> QED BY <1>3, <3>1, TrackedFacts, NameFacts DEF Scratch, Temporary
  <2> QED BY <1>3, <1>8, <2>1, TrackedFacts DEF Active
<1> HIDE DEF R2
<1>17. Active(T, R2, M2, A2)
  BY <1>3, <1>5, <1>8, <1>9, <1>13, <1>14, <1>15, <1>16, ActiveInFrame
<1> QED BY <1>4, <1>7, <1>8, <1>10, <1>17 DEF R2, A2, M2, sp, v, r

\* ENTER
LEMMA EnterStep ==
  ASSUME NEW p, NEW k, NEW S \in Point, NEW T \in Point, NEW x \in Instruction, Leads(p, k, S, x, T),
         x.op = "enter",
         NEW R \in Registers, NEW M \in [Words(R[RSP]) -> Int], NEW A \in Activations, Active(S, R, M, A),
         NEW rets
  PROVE  LET bp == R[RSP] - 8
             sp == bp - x.src.n
             R2 == [R EXCEPT ![RBP] = bp, ![RSP] = sp]
             M2 == [Above(M, sp) EXCEPT ![bp] = R[RBP]]
         IN  /\ sp \in Int /\ R2 \in Registers /\ R2[RSP] = sp /\ M2 \in [Words(sp) -> Int]
             /\ Active(T, R2, M2, A) /\ Keeps(M, M2, A, rets)
<1> DEFINE bp == R[RSP] - 8
           n  == x.src.n
           sp == bp - n
           R2 == [R EXCEPT ![RBP] = bp, ![RSP] = sp]
           M2 == Stored(M, sp, bp, R[RBP])
<1>1. EntersFrame(S, x, T)
  <2>1. x.op \notin {"mov", "add", "sub", "push", "pop", "leave", "call", "ret"}
    OBVIOUS
  <2>2. \A d, s : MOV(d, s).op = "mov"
    BY OpcodeFacts
  <2> QED BY <2>1, <2>2 DEF Leads, SetsScratch, SetsRDI, SavesInCopy, RestoresFromCopy, StoresInFrame, StoresResult,
             MovesRSP, PushesWord, PopsWord, LeavesFrame, CallsNext, Returns
<1>2. /\ S.phase = 0 /\ n \in Nat /\ T.phase = 1 /\ T.depth = 8 + n /\ T.room = 0 /\ T.home = S.home
  BY <1>1 DEF EntersFrame, PointWith
<1>3. /\ S.depth = 0 /\ \A r \in Tracked : S.home[r] = 0
      /\ T.depth % 8 = 0 /\ A.entry \in Int /\ A.entry % 8 = 0 /\ T.depth \in Nat
  <2>1. S.depth = 0 /\ \A r \in Tracked : S.home[r] = 0
    BY <1>2, PointFacts
  <2> QED BY <2>1, PointFacts, ActivationFacts
<1>4. /\ R[RSP] = A.entry /\ bp = A.entry - 8 /\ sp = A.entry - T.depth
  <2>1. R[RSP] = A.entry
    BY <1>3 DEF Active
  <2> QED BY <1>2, <1>3, <2>1
<1>5. sp \in Int /\ sp % 8 = 0 /\ bp \in Int /\ bp % 8 = 0
  <2>1. 8 % 8 = 0 /\ 8 \in Int /\ T.depth \in Int
    BY <1>3
  <2> HIDE DEF sp, bp
  <2> QED BY <1>3, <1>4, <2>1, Multiples
<1>6. sp <= bp /\ bp < A.entry /\ sp <= A.entry /\ bp <= StackTop - 8
  <2>1. A.entry <= StackTop - 8 /\ StackTop \in Int
    BY ActivationFacts, CallingAssumption
  <2> HIDE DEF sp, bp
  <2> QED BY <1>2, <1>3, <1>4, <2>1
<1>7. R[RBP] = A.kept[RBP] /\ R[RBP] \in Int
  BY <1>2, TrackedFacts DEF Active, Registers
<1>8. /\ R2 \in Registers /\ R2[RSP] = sp /\ R2[RBP] = bp
      /\ \A q \in x86Registers \ {RSP, RBP} : R2[q] = R[q]
  <2> HIDE DEF sp, bp
  <2> QED BY <1>5, TrackedFacts DEF Registers
<1> HIDE DEF sp, bp, R2
<1>9. bp \in Words(sp)
  BY <1>5, <1>6, WordsFacts
<1>10. /\ M2 \in [Words(sp) -> Int] /\ At(M2, bp, R[RBP]) /\ Keeps(M, M2, A, rets)
  <2>1. R[RSP] \in Int /\ R[RSP] % 8 = 0 /\ bp < R[RSP]
    BY <1>3, <1>4, <1>6
  <2> QED BY <1>5, <1>6, <1>7, <1>9, <2>1, StoredFacts
<1> HIDE DEF M2
<1>11. Held(T, M2, A)
  <2>1. \A j \in 1 .. 5 : calleeSaved[j] \in Tracked
    BY TrackedFacts
  <2>2. At(M2, A.entry - 8, A.kept[RBP])
    BY <1>4, <1>7, <1>10
  <2> QED BY <1>2, <1>3, <2>1, <2>2 DEF Held
<1>12. \A q \in Tracked : R2[q] = Found(A, q)
  BY <1>3, <1>8, TrackedFacts DEF Active
<1>13. Active(T, R2, M2, A)
  BY <1>2, <1>4, <1>8, <1>11, <1>12, ActiveInFrame
<1> QED BY <1>5, <1>8, <1>10, <1>13 DEF R2, M2, sp, bp, n, Stored

\* LEAVE
LEMMA LeaveStep ==
  ASSUME NEW p, NEW k, NEW S \in Point, NEW T \in Point, NEW x \in Instruction, Leads(p, k, S, x, T),
         x.op = "leave",
         NEW R \in Registers, NEW M \in [Words(R[RSP]) -> Int], NEW A \in Activations, Active(S, R, M, A),
         NEW rets
  PROVE  LET sp == R[RBP] + 8
             R2 == [R EXCEPT ![RBP] = M[R[RBP]], ![RSP] = sp]
             M2 == Above(M, sp)
         IN  /\ sp \in Int /\ R2 \in Registers /\ R2[RSP] = sp /\ M2 \in [Words(sp) -> Int]
             /\ Active(T, R2, M2, A) /\ Keeps(M, M2, A, rets)
<1> DEFINE sp == R[RBP] + 8
           v  == M[R[RBP]]
           R2 == [R EXCEPT ![RBP] = v, ![RSP] = sp]
           M2 == Above(M, sp)
<1>1. LeavesFrame(S, x, T)
  <2>1. x.op \notin {"mov", "add", "sub", "push", "pop", "enter", "call", "ret"}
    OBVIOUS
  <2>2. \A d, s : MOV(d, s).op = "mov"
    BY OpcodeFacts
  <2> QED BY <2>1, <2>2 DEF Leads, SetsScratch, SetsRDI, SavesInCopy, RestoresFromCopy, StoresInFrame, StoresResult,
             MovesRSP, PushesWord, PopsWord, EntersFrame, CallsNext, Returns
<1>2. /\ S.phase = 1 /\ \A r \in Tracked : S.home[r] = 0
      /\ T.phase = 2 /\ T.depth = 0 /\ T.room = 0 /\ T.home = S.home
  BY <1>1 DEF LeavesFrame, PointWith
<1>3. A.entry \in Int /\ A.entry % 8 = 0 /\ A.kept \in [Kept -> Int] /\ RBP \in Kept
  BY ActivationFacts, TrackedFacts
<1>4. R[RBP] = A.entry - 8 /\ v = A.kept[RBP] /\ v \in Int /\ sp = A.entry
  <2>1. R[RBP] = A.entry - 8 /\ At(M, A.entry - 8, A.kept[RBP])
    BY <1>2 DEF Active, Held
  <2>2. v = A.kept[RBP]
    BY <2>1 DEF At
  <2>3. sp = A.entry
    BY <1>3, <2>1
  <2> QED BY <1>3, <2>1, <2>2, <2>3
<1> HIDE DEF v, sp
<1>5. /\ R2 \in Registers /\ R2[RSP] = sp /\ R2[RBP] = v
      /\ \A q \in x86Registers \ {RSP, RBP} : R2[q] = R[q]
  BY <1>3, <1>4, TrackedFacts DEF Registers
<1>6. R[RSP] \in Int /\ R[RSP] % 8 = 0
  BY StackPointer
<1>7. M2 \in [Words(sp) -> Int] /\ Keeps(M, M2, A, rets)
  BY <1>3, <1>4, <1>6, AboveFacts, AboveKeeps
<1> HIDE DEF R2, M2
<1>8. \A q \in Tracked : R2[q] = Found(A, q)
  BY <1>2, <1>5, TrackedFacts DEF Active
<1>9. Active(T, R2, M2, A)
  BY <1>2, <1>3, <1>4, <1>5, <1>8 DEF Active
<1> QED BY <1>3, <1>4, <1>5, <1>7, <1>9 DEF R2, M2, sp, v
\* CALL
LEMMA CallStep ==
  ASSUME NEW p, NEW k \in 1 .. 3, k < 3 => p[k + 1].rets \in Nat,
         NEW S \in Point, NEW T \in Point, NEW x \in Instruction, Leads(p, k, S, x, T),
         x.op = "call",
         NEW R \in Registers, NEW M \in [Words(R[RSP]) -> Int], NEW A \in Activations, Active(S, R, M, A),
         NEW v \in Int
  PROVE  LET sp == R[RSP] - 8
             R2 == [R EXCEPT ![RSP] = sp]
             M2 == [Above(M, sp) EXCEPT ![sp] = v]
             B  == [temps |-> <<>>, entry |-> sp, room |-> R[RDI], kept |-> [r \in Kept |-> R[r]]]
         IN  /\ k < 3 /\ x.label = k + 1 /\ R[RSP] % 16 = 0
             /\ sp \in Int /\ R2 \in Registers /\ R2[RSP] = sp /\ M2 \in [Words(sp) -> Int]
             /\ B \in Activations /\ At(M2, sp, v) /\ Keeps(M, M2, A, p[k].rets)
             /\ Active(EntryPoint, R2, M2, B) /\ Suspended(T, M2, A, B, p[k + 1].rets)
<1> DEFINE sp == R[RSP] - 8
           R2 == [R EXCEPT ![RSP] = sp]
           M2 == Stored(M, sp, sp, v)
           kept == [r \in Kept |-> R[r]]
           B  == [temps |-> <<>>, entry |-> sp, room |-> R[RDI], kept |-> kept]
           rets == p[k + 1].rets
<1>1. CallsNext(p, k, S, x, T)
  <2>1. x.op \notin {"mov", "add", "sub", "push", "pop", "enter", "leave", "ret"}
    OBVIOUS
  <2>2. \A d, s : MOV(d, s).op = "mov"
    BY OpcodeFacts
  <2> QED BY <2>1, <2>2 DEF Leads, SetsScratch, SetsRDI, SavesInCopy, RestoresFromCopy, StoresInFrame, StoresResult,
             MovesRSP, PushesWord, PopsWord, EntersFrame, LeavesFrame, Returns
<1>2. /\ k < 3 /\ x.label = k + 1 /\ S.phase = 1 /\ S.depth % 16 = 8 /\ \A r \in Tracked : S.home[r] # 0
      /\ T.phase = 1 /\ T.depth = S.depth /\ T.room = 0 /\ T.home = S.home
      /\ rets >= 3 => LET above == S.room - 8 * (rets - 2)
                      IN  /\ S.room # 0 /\ S.room <= S.depth
                          /\ 8 <= above /\ \A r \in Tracked : S.home[r] <= above
  BY <1>1 DEF CallsNext, Point, Shape
<1>3. /\ S.depth \in Nat /\ S.room \in Nat /\ A.entry \in Int /\ A.entry % 16 = 8 /\ A.entry <= StackTop - 8
      /\ \A r \in Tracked : S.home[r] \in Int
      /\ StackTop \in Int /\ rets \in Nat
  BY <1>2, PointFacts, ActivationFacts, CallingAssumption
<1>4. /\ R[RSP] = A.entry - S.depth /\ R[RSP] \in Int /\ R[RSP] % 8 = 0 /\ R[RSP] <= A.entry
  BY StackPointer
<1>5. R[RSP] % 16 = 0 /\ sp % 16 = 8 /\ sp \in Int /\ sp % 8 = 0
  <2>1. PICK i \in Int : A.entry = 16 * i + 8
    BY <1>3, SMT
  <2>2. PICK j \in Int : S.depth = 16 * j + 8
    BY <1>2, <1>3, SMT
  <2>3. R[RSP] = 16 * (i - j) /\ sp = 16 * (i - j) - 8
    BY <1>4, <2>1, <2>2
  <2>4. \A n \in Int : (16 * n) % 16 = 0 /\ (16 * n - 8) % 16 = 8 /\ (16 * n - 8) % 8 = 0
    BY SMT
  <2> QED BY <1>4, <2>3, <2>4
<1>6. /\ sp = A.entry - S.depth - 8 /\ sp < R[RSP] /\ sp < A.entry /\ sp <= A.entry /\ sp <= StackTop - 8
  BY <1>3, <1>4
<1>7. R[RBP] = A.entry - 8 /\ (S.room # 0 => R[RDI] = A.entry - S.room)
  BY <1>2 DEF Active
<1> HIDE DEF sp, rets
<1>8. /\ R2 \in Registers /\ R2[RSP] = sp /\ \A q \in x86Registers \ {RSP} : R2[q] = R[q]
  BY <1>5, TrackedFacts DEF Registers
<1>9. sp \in Words(sp)
  BY <1>5, <1>6, WordsFacts
<1>10. /\ M2 \in [Words(sp) -> Int] /\ At(M2, sp, v) /\ Keeps(M, M2, A, p[k].rets)
       /\ \A a \in DOMAIN M : sp <= a => a \in DOMAIN M2 /\ M2[a] = M[a]
  <2> HIDE DEF R2, B
  <2> QED BY <1>4, <1>5, <1>6, <1>9, StoredFacts
<1>11. kept \in [Kept -> Int] /\ \A r \in Kept : kept[r] = R[r]
  BY TrackedFacts DEF Registers
<1> HIDE DEF kept, R2, M2
<1>12. B \in Activations /\ B.entry = sp /\ B.room = R[RDI] /\ B.kept = kept
  <2>1. R[RDI] \in Int
    BY TrackedFacts DEF Registers
  <2>2. <<>> \in Temps
    <3>1. <<>> \in [{} -> Int] /\ {} \in SUBSET AbstractRegister
      OBVIOUS
    <3> QED BY <3>1 DEF Temps
  <2>3. sp \in Entries
    BY <1>5, <1>6 DEF Entries
  <2> QED BY <1>11, <2>1, <2>2, <2>3 DEF Activations
<1> HIDE DEF B
<1>13. Active(EntryPoint, R2, M2, B)
  <2>1. /\ EntryPoint.phase = 0 /\ EntryPoint.depth = 0 /\ EntryPoint.room = 0
        /\ \A r \in Tracked : EntryPoint.home[r] = 0
    BY DEF EntryPoint, PointWith, AllHome
  <2>2. \A r \in Tracked : R2[r] = Found(B, r)
    BY <1>8, <1>11, <1>12, TrackedFacts DEF Found
  <2>3. R2[RSP] = B.entry - 0
    BY <1>5, <1>8, <1>12
  <2>4. R2[RBP] = B.kept[RBP]
    BY <1>8, <1>11, <1>12, TrackedFacts
  <2> QED BY <2>1, <2>2, <2>3, <2>4 DEF Active
<1>14. Held(T, M2, A)
  <2>1. Held(T, M, A)
    BY <1>2 DEF Active, Held
  <2>2. \A a \in DOMAIN M : a \in Int
    BY <1>4, WordsFacts
  <2>3. \A a \in DOMAIN M : A.entry - T.depth <= a => sp <= a
    BY <1>2, <1>3, <1>6, <2>2
  <2>4. \A j \in 1 .. 5 : CE(j) \in DOMAIN A.temps => At(A.temps, CE(j), A.temps[CE(j)])
    BY DEF At
  <2> QED BY <1>2, <1>10, <2>1, <2>3, <2>4, HeldKept
<1>15. Suspended(T, M2, A, B, rets)
  <2>1. B.entry = A.entry - T.depth - 8 /\ B.kept[RBP] = A.entry - 8
    BY <1>2, <1>6, <1>7, <1>11, <1>12, TrackedFacts
  <2>2. ASSUME rets >= 3
        PROVE  /\ B.entry < B.room /\ B.room + 8 * (rets - 3) < A.entry - 8
               /\ \A r \in Tracked : B.room + 8 * (rets - 3) < A.entry - T.home[r]
    <3> DEFINE above == S.room - 8 * (rets - 2)
    <3>1. /\ S.room # 0 /\ S.room <= S.depth /\ 8 <= above /\ \A r \in Tracked : S.home[r] <= above
          /\ above \in Int
      BY <1>2, <1>3, <2>2
    <3>2. B.room = A.entry - S.room /\ B.room \in Int
      BY <1>3, <1>7, <1>12, <3>1
    <3>3. B.entry < B.room
      BY <1>3, <1>6, <1>12, <3>1, <3>2
    <3>4. B.room + 8 * (rets - 3) = A.entry - above - 8
      BY <1>3, <3>2
    <3> HIDE DEF above
    <3>5. A.entry - above - 8 < A.entry - 8 /\ \A r \in Tracked : A.entry - above - 8 < A.entry - S.home[r]
      BY <1>3, <3>1
    <3> QED BY <1>2, <3>3, <3>4, <3>5
  <2> QED BY <1>2, <1>14, <2>1, <2>2 DEF Suspended
<1> QED BY <1>2, <1>5, <1>8, <1>10, <1>12, <1>13, <1>15 DEF R2, M2, B, kept, sp, rets, Stored

\* Back in activation A, which had called B.
LEMMA ReturnStep ==
  ASSUME NEW T \in Point, NEW A \in Activations, NEW B \in Activations, NEW rets,
         NEW sp \in Int, sp % 8 = 0, NEW M \in [Words(sp) -> Int], Suspended(T, M, A, B, rets),
         NEW R2, R2[RSP] = B.entry + 8, R2[RBP] = B.kept[RBP]
  PROVE  Active(T, R2, Above(M, B.entry + 8), A)
<1>1. /\ T.phase = 1 /\ T.room = 0 /\ \A r \in Tracked : T.home[r] # 0
      /\ B.entry = A.entry - T.depth - 8 /\ B.kept[RBP] = A.entry - 8 /\ Held(T, M, A)
  BY DEF Suspended
<1>2. A.entry \in Int /\ B.entry \in Int /\ B.entry % 8 = 0 /\ T.depth \in Nat
  BY PointFacts, ActivationFacts
<1>3. B.entry + 8 = A.entry - T.depth
  BY <1>1, <1>2
<1>4. B.entry + 8 \in Int /\ (B.entry + 8) % 8 = 0
  <2>1. 8 \in Int /\ 8 % 8 = 0
    OBVIOUS
  <2> QED BY <1>2, <2>1, Multiples
<1>5. Held(T, Above(M, B.entry + 8), A)
  <2> DEFINE q == B.entry + 8
  <2>1. q \in Int /\ q % 8 = 0 /\ q <= A.entry - T.depth
    BY <1>2, <1>3, <1>4
  <2> HIDE DEF q
  <2>2. Held(T, Above(M, q), A)
    BY <1>1, <2>1, HeldAbove
  <2> QED BY <2>2 DEF q
<1> QED BY <1>1, <1>3, <1>5, ActiveInFrame
-----------------------------------------------------------------------------
(* The activations below the running one *)

\* Activation m of As is suspended at a point of types[m] and will go on there when
\* activation m + 1 returns; n is the number of activations.
Waiting(p, types, As, M, m) ==
  /\ ~p[m].runtime
  /\ \E i \in DOMAIN types[m] :
       /\ types[m][i] \in Point
       /\ At(M, As[m + 1].entry, Address(<<m, i>>))
       /\ Suspended(types[m][i], M, As[m], As[m + 1], p[m + 1].rets)

Frames(p, types, As, M, n) ==
  /\ At(M, As[1].entry, Address(Exit))
  /\ \A m \in 1 .. n - 1 : Waiting(p, types, As, M, m)

\* An activation is below the one that called it, and its results go between the two.
LEMMA WaitingFacts ==
  ASSUME NEW p, NEW types, NEW As, NEW M, NEW m, Waiting(p, types, As, M, m),
         As[m] \in Activations, As[m + 1] \in Activations, p[m + 1].rets \in Nat
  PROVE  /\ As[m].entry \in Int /\ As[m + 1].entry \in Int /\ As[m + 1].entry < As[m].entry
         /\ p[m + 1].rets >= 3 => As[m + 1].entry < As[m + 1].room
         /\ \A w \in RoomWords(As[m + 1], p[m + 1].rets) :
              w \in Int /\ As[m + 1].entry < w /\ w < As[m].entry
<1> DEFINE A == As[m]
           B == As[m + 1]
           rets == p[m + 1].rets
<1>1. PICK i \in DOMAIN types[m] : types[m][i] \in Point /\ Suspended(types[m][i], M, A, B, rets)
  BY DEF Waiting
<1>2. /\ B.entry = A.entry - types[m][i].depth - 8
      /\ rets >= 3 => B.entry < B.room /\ B.room + 8 * (rets - 3) < A.entry - 8
  BY <1>1 DEF Suspended
<1>3. A.entry \in Int /\ B.entry \in Int /\ B.room \in Int /\ types[m][i].depth \in Nat /\ rets \in Nat
  BY <1>1, PointFacts, ActivationFacts
<1> HIDE DEF A, B, rets
<1>4. B.entry < A.entry
  BY <1>2, <1>3
<1>5. ASSUME NEW w \in RoomWords(B, rets) PROVE w \in Int /\ B.entry < w /\ w < A.entry
  <2>1. PICK j \in 0 .. rets - 3 : w = B.room + 8 * j
    BY DEF RoomWords
  <2>2. rets >= 3 /\ j \in Nat /\ j <= rets - 3
    BY <1>3, <2>1
  <2> QED BY <1>2, <1>3, <2>1, <2>2
<1> QED BY <1>2, <1>3, <1>4, <1>5 DEF A, B, rets

\* A suspended activation stays so while the words it needs do.
LEMMA WaitingKept ==
  ASSUME NEW p, NEW types, NEW As, NEW M, NEW m, NEW As2, NEW M2, Waiting(p, types, As, M, m),
         As[m] \in Activations, As[m + 1] \in Activations,
         As2[m] = As[m], As2[m + 1].entry = As[m + 1].entry, As2[m + 1].kept = As[m + 1].kept,
         As2[m + 1].room = As[m + 1].room,
         \A a \in DOMAIN M : \/ a = As[m + 1].entry
                             \/ /\ a > As[m + 1].entry
                                /\ a \notin RoomWords(As[m + 1], p[m + 1].rets)
                             => a \in DOMAIN M2 /\ M2[a] = M[a],
         p[m + 1].rets \in Nat
  PROVE  Waiting(p, types, As2, M2, m)
<1> DEFINE A == As[m]
           B == As[m + 1]
           rets == p[m + 1].rets
<1>1. PICK i \in DOMAIN types[m] : /\ types[m][i] \in Point /\ Suspended(types[m][i], M, A, B, rets)
                             /\ At(M, B.entry, Address(<<m, i>>)) /\ ~p[m].runtime
  BY DEF Waiting
<1> DEFINE S == types[m][i]
<1>2. /\ S \in Point /\ S.phase = 1 /\ B.entry = A.entry - S.depth - 8 /\ Held(S, M, A)
      /\ rets >= 3 => /\ B.room + 8 * (rets - 3) < A.entry - 8
                      /\ \A r \in Tracked : B.room + 8 * (rets - 3) < A.entry - S.home[r]
  BY <1>1 DEF Suspended
<1>3. /\ A.entry \in Int /\ B.entry \in Int /\ B.room \in Int /\ S.depth \in Nat /\ rets \in Nat
      /\ S.frame \in Nat /\ S.depth >= 8 + S.frame
  BY <1>2, PointFacts, ActivationFacts
<1> HIDE DEF A, B, rets, S
<1>4. ASSUME NEW a \in Int, a > B.entry, rets >= 3 => B.room + 8 * (rets - 3) < a
      PROVE  a \notin RoomWords(B, rets)
  <2> SUFFICES ASSUME NEW j \in 0 .. rets - 3, a = B.room + 8 * j PROVE FALSE
    BY DEF RoomWords
  <2>1. rets >= 3 /\ j \in Nat /\ j <= rets - 3
    BY <1>3
  <2> QED BY <1>3, <1>4, <2>1
<1>5. /\ A.entry - 8 > B.entry /\ A.entry - 8 \notin RoomWords(B, rets)
  <2>1. A.entry - 8 > B.entry
    BY <1>2, <1>3
  <2> QED BY <1>2, <1>3, <1>4, <2>1
<1>6. ASSUME NEW r \in Tracked, S.home[r] > 0
      PROVE  A.entry - S.home[r] > B.entry /\ A.entry - S.home[r] \notin RoomWords(B, rets)
  <2>1. S.home[r] \in Int /\ S.home[r] <= S.depth
    BY <1>2, <1>6, PointFacts
  <2>2. A.entry - S.home[r] > B.entry /\ A.entry - S.home[r] \in Int
    BY <1>2, <1>3, <2>1
  <2> QED BY <1>2, <1>4, <2>2
<1>7. \A a \in DOMAIN M : a = B.entry \/ (a > B.entry /\ a \notin RoomWords(B, rets))
                            => a \in DOMAIN M2 /\ M2[a] = M[a]
  BY DEF B, rets
<1>8. Held(S, M2, A)
  <2>1. At(M2, A.entry - 8, A.kept[RBP])
    BY <1>2, <1>5, <1>7 DEF Held, At
  <2>2. \A r \in Tracked : S.home[r] > 0 => At(M2, A.entry - S.home[r], Found(A, r))
    BY <1>2, <1>6, <1>7 DEF Held, At
  <2> QED BY <1>2, <2>1, <2>2 DEF Held
<1>9. At(M2, B.entry, Address(<<m, i>>))
  BY <1>1, <1>7 DEF At
<1>10. As2[m] = A /\ As2[m + 1].entry = B.entry /\ As2[m + 1].kept = B.kept /\ As2[m + 1].room = B.room
  BY DEF A, B
<1>11. Suspended(S, M2, As2[m], As2[m + 1], rets)
  <2>1. Suspended(S, M, A, B, rets)
    BY <1>1 DEF S
  <2> QED BY <1>8, <1>10, <2>1 DEF Suspended
<1> QED BY <1>1, <1>2, <1>9, <1>10, <1>11 DEF Waiting, S, rets

\* Nor does it matter to them what the running activation does.
LEMMA FramesKept ==
  ASSUME NEW p \in Programs, NEW types, NEW n \in 1 .. 3, NEW As, NEW As2, NEW M, NEW M2,
         Frames(p, types, As, M, n),
         \A m \in 1 .. n : As[m] \in Activations, \A m \in 1 .. n - 1 : As2[m] = As[m],
         As2[n].entry = As[n].entry, As2[n].kept = As[n].kept, As2[n].room = As[n].room,
         \A a \in DOMAIN M : a \in Int,
         Keeps(M, M2, As[n], p[n].rets)
  PROVE  Frames(p, types, As2, M2, n)
<1>1. \A m \in 1 .. 3 : p[m].rets \in Nat /\ (m = 1 => p[m].rets = 0)
  BY ProgramsAssumption
<1>2. \A m \in 1 .. n : As[m].entry \in Int
  BY ActivationFacts
<1>3. \A m \in 1 .. n - 1 :
        /\ m \in 1 .. n /\ m + 1 \in 1 .. n /\ As[m + 1].entry < As[m].entry
        /\ \A w \in RoomWords(As[m + 1], p[m + 1].rets) :
             w \in Int /\ As[m + 1].entry < w /\ w < As[m].entry
  <2> SUFFICES ASSUME NEW m \in 1 .. n - 1
               PROVE  /\ m \in 1 .. n /\ m + 1 \in 1 .. n /\ As[m + 1].entry < As[m].entry
                      /\ \A w \in RoomWords(As[m + 1], p[m + 1].rets) :
                           w \in Int /\ As[m + 1].entry < w /\ w < As[m].entry
    OBVIOUS
  <2>1. m \in 1 .. n /\ m + 1 \in 1 .. n /\ m + 1 \in 1 .. 3
    OBVIOUS
  <2>2. Waiting(p, types, As, M, m)
    BY DEF Frames
  <2>3. As[m] \in Activations /\ As[m + 1] \in Activations /\ p[m + 1].rets \in Nat
    BY <1>1, <2>1
  <2> QED BY <2>1, <2>2, <2>3, WaitingFacts
<1>4. n = 1 \/ n = 2 \/ n = 3
  OBVIOUS
<1>5. \A m \in 1 .. n : As[n].entry <= As[m].entry
  <2>1. CASE n = 1
    BY <1>2, <2>1
  <2>2. CASE n = 2
    <3>1. 1 \in 1 .. n - 1 /\ 1 + 1 = 2
      BY <2>2
    <3>2. As[2].entry < As[1].entry /\ As[1].entry \in Int /\ As[2].entry \in Int
      BY <1>2, <1>3, <2>2, <3>1
    <3>3. \A m \in 1 .. n : m = 1 \/ m = 2
      BY <2>2
    <3> QED BY <2>2, <3>2, <3>3
  <2>3. CASE n = 3
    <3>1. 1 \in 1 .. n - 1 /\ 2 \in 1 .. n - 1 /\ 1 + 1 = 2 /\ 2 + 1 = 3
      BY <2>3
    <3>2. As[2].entry < As[1].entry /\ As[3].entry < As[2].entry
      BY <1>3, <3>1
    <3>3. As[1].entry \in Int /\ As[2].entry \in Int /\ As[3].entry \in Int
      BY <1>2, <2>3
    <3>4. \A m \in 1 .. n : m = 1 \/ m = 2 \/ m = 3
      BY <2>3
    <3> QED BY <2>3, <3>2, <3>3, <3>4
  <2> QED BY <1>4, <2>1, <2>2, <2>3
\* The results of the running activation are below the other entries.
<1>6. \A m \in 1 .. n - 1 : \A w \in RoomWords(As[n], p[n].rets) : w \in Int /\ As[n].entry < w /\ w < As[m].entry
  <2>1. CASE n = 1
    BY <2>1
  <2>2. CASE n = 2
    <3>1. 1 \in 1 .. n - 1 /\ 1 + 1 = n
      BY <2>2
    <3>2. \A m \in 1 .. n - 1 : m = 1
      BY <2>2
    <3> QED BY <1>3, <3>1, <3>2
  <2>3. CASE n = 3
    <3>1. 1 \in 1 .. n - 1 /\ 2 \in 1 .. n - 1 /\ 1 + 1 = 2 /\ 2 + 1 = n
      BY <2>3
    <3>2. \A w \in RoomWords(As[n], p[n].rets) : w \in Int /\ As[n].entry < w /\ w < As[2].entry
      BY <1>3, <3>1
    <3>3. As[2].entry < As[1].entry /\ As[1].entry \in Int /\ As[2].entry \in Int
      BY <1>2, <1>3, <2>3, <3>1
    <3>4. \A w \in RoomWords(As[n], p[n].rets) : w < As[1].entry
      BY <3>2, <3>3
    <3>5. \A m \in 1 .. n - 1 : m = 1 \/ m = 2
      BY <2>3
    <3> QED BY <3>2, <3>4, <3>5
  <2> QED BY <1>4, <2>1, <2>2, <2>3
<1>7. \A a \in DOMAIN M : a >= As[n].entry /\ a \notin RoomWords(As[n], p[n].rets)
                            => a \in DOMAIN M2 /\ M2[a] = M[a]
  BY DEF Keeps
<1>8. \A m \in 1 .. n : As[m].entry \notin RoomWords(As[n], p[n].rets)
  <2>1. CASE n = 1
    <3>1. RoomWords(As[n], p[n].rets) = {}
      BY <1>1, <2>1 DEF RoomWords
    <3> QED BY <3>1
  <2>2. CASE n # 1
    <3> SUFFICES ASSUME NEW m \in 1 .. n, NEW w \in RoomWords(As[n], p[n].rets) PROVE As[m].entry # w
      OBVIOUS
    <3>1. 1 \in 1 .. n - 1
      BY <2>2
    <3>2. w \in Int /\ As[n].entry < w
      BY <1>6, <3>1
    <3>3. m = n \/ m \in 1 .. n - 1
      OBVIOUS
    <3>4. m \in 1 .. n - 1 => w < As[m].entry
      BY <1>6
    <3> QED BY <1>2, <3>2, <3>3, <3>4
  <2> QED BY <2>1, <2>2
<1>9. \A m \in 1 .. n : As2[m].entry = As[m].entry /\ As2[m].kept = As[m].kept /\ As2[m].room = As[m].room
  <2>1. \A m \in 1 .. n : m = n \/ m \in 1 .. n - 1
    OBVIOUS
  <2> QED BY <2>1
<1>10. At(M2, As2[1].entry, Address(Exit))
  <2>1. 1 \in 1 .. n
    OBVIOUS
  <2>2. At(M, As[1].entry, Address(Exit)) /\ As2[1].entry = As[1].entry
    BY <1>9, <2>1 DEF Frames
  <2> QED BY <1>2, <1>5, <1>7, <1>8, <2>1, <2>2 DEF At
<1>11. ASSUME NEW m \in 1 .. n - 1 PROVE Waiting(p, types, As2, M2, m)
  <2>1. m \in 1 .. n /\ m + 1 \in 1 .. n /\ m + 1 \in 1 .. 3
    OBVIOUS
  <2>2. Waiting(p, types, As, M, m)
    BY DEF Frames
  <2>3. As[m] \in Activations /\ As[m + 1] \in Activations /\ p[m + 1].rets \in Nat
    BY <1>1, <2>1
  <2>4. ASSUME NEW a \in DOMAIN M,
               \/ a = As[m + 1].entry
               \/ a > As[m + 1].entry /\ a \notin RoomWords(As[m + 1], p[m + 1].rets)
        PROVE  a \in DOMAIN M2 /\ M2[a] = M[a]
    <3>1. a \in Int /\ As[m + 1].entry \in Int /\ As[n].entry \in Int /\ As[n].entry <= As[m + 1].entry
      BY <1>2, <1>5, <2>1
    <3>2. a >= As[n].entry
      BY <2>4, <3>1
    <3>3. a \notin RoomWords(As[n], p[n].rets)
      <4>1. CASE a = As[m + 1].entry
        BY <1>8, <2>1, <4>1
      <4>2. CASE a > As[m + 1].entry /\ m + 1 = n
        BY <2>4, <3>1, <4>2
      <4>3. CASE a > As[m + 1].entry /\ m + 1 # n
        <5>1. m + 1 \in 1 .. n - 1
          BY <4>3
        <5> SUFFICES ASSUME a \in RoomWords(As[n], p[n].rets) PROVE FALSE
          OBVIOUS
        <5>2. a < As[m + 1].entry
          BY <1>6, <5>1
        <5> QED BY <3>1, <4>3, <5>2
      <4> QED BY <2>4, <4>1, <4>2, <4>3
    <3> QED BY <1>7, <3>2, <3>3
  <2>5. As2[m] = As[m] /\ As2[m + 1].entry = As[m + 1].entry /\ As2[m + 1].kept = As[m + 1].kept
        /\ As2[m + 1].room = As[m + 1].room
    BY <1>9, <2>1
  <2> QED BY <2>2, <2>3, <2>4, <2>5, WaitingKept
<1> QED BY <1>10, <1>11 DEF Frames

-----------------------------------------------------------------------------
(* The invariant of the machine *)

\* points tell what is known along code c of function k, from its entry to RET.
TypesCode(p, k, c, points) ==
  /\ Along(Steps(p, k), c, points) /\ points[1] = EntryPoint
  /\ \E F \in Nat : points[Len(c) + 1] = Done(F)

Typing(p, k, c) == CHOOSE points : TypesCode(p, k, c, points)

TypeOf(k) == Typing(program, k, CodeOf(k).insns)
Types     == [k \in 1 .. 3 |-> TypeOf(k)]

\* The code does not change.
CodeInv ==
  /\ program \in Programs
  /\ code = [k \in DOMAIN program |-> [allocator \in {"chaitin", "trivial"} |->
               IF program[k].runtime THEN <<>> ELSE Code(program, k, allocator)]]

\* The emitted code is typed.
TypesInv ==
  /\ program \in Programs
  /\ ~Generating => \A k \in 1 .. 3 : Compiled(k) => TypesCode(program, k, CodeOf(k).insns, TypeOf(k))

\* What is known where the running function is; a function of the runtime has not
\* changed anything yet.
TopPoint == IF Compiled(pc[1]) THEN Types[pc[1]][pc[2]] ELSE EntryPoint

MachineTypes ==
  /\ regs \in Registers /\ regs[RSP] % 8 = 0
  /\ mem \in [Words(regs[RSP]) -> Int]
  /\ acts \in Seq(Activations) /\ Len(acts) <= 3
  /\ DOMAIN params = 1 .. 3

StackInv ==
  /\ MachineTypes
  /\ Generating =>
       /\ pc = <<1, 1>> /\ Len(acts) = 1
       /\ Active(EntryPoint, regs, mem, acts[1]) /\ At(mem, acts[1].entry, Address(Exit))
  /\ ~Generating /\ pc # Exit =>
       /\ Len(acts) \in 1 .. 3 /\ pc[1] = Len(acts)
       /\ Frames(program, Types, acts, mem, Len(acts))
       /\ Active(TopPoint, regs, mem, acts[Len(acts)])
       /\ Compiled(pc[1]) => pc[2] \in DOMAIN Types[pc[1]]
       /\ ~Compiled(pc[1]) => params[pc[1]] \in [1 .. program[pc[1]].params -> Int]

\* Every compiled function is in one of the units.
LEMMA UnitFunctionsCover ==
  ASSUME NEW k \in 1 .. 3, Compiled(k)
  PROVE  \E u \in 1 .. 2 : k \in Range(UnitFunctions(u))
<1> DEFINE u == IF k = 1 THEN 1 ELSE 2
           all == IF u = 1 THEN <<1>> ELSE <<2, 3>>
           Q   == Seq(Nat)
           one(i) == When(Compiled(all[i]), <<all[i]>>)
           ss  == [i \in DOMAIN all |-> one(i)]
<1>1. /\ all \in Seq(Nat) /\ u \in 1 .. 2
      /\ \E i \in DOMAIN all : all[i] = k
  OBVIOUS
<1>2. UnitFunctions(u) = FlattenSeq(ss)
  BY DEF UnitFunctions
<1> HIDE DEF all, u
<1>3. \A i \in DOMAIN all : one(i) \in Q
  BY <1>1 DEF When
<1>4. PICK i \in DOMAIN all : all[i] = k
  BY <1>1
<1>5. one(i) = <<k>> /\ k \in Range(<<k>>)
  BY <1>4 DEF When, Range
<1> HIDE DEF one, Q
<1>6. ss \in Seq(Q) /\ i \in DOMAIN ss /\ ss[i] = one(i)
  BY <1>1, <1>3
<1> HIDE DEF ss
<1>7. Range(FlattenSeq(ss)) = UNION {Range(ss[j]) : j \in DOMAIN ss}
  BY <1>6, FlattenRange DEF Q
<1>8. k \in Range(FlattenSeq(ss))
  BY <1>5, <1>6, <1>7
<1> QED BY <1>1, <1>2, <1>8

LEMMA AllocatorOfTypes ==
  ASSUME EmitInv, ~Generating, NEW k \in 1 .. 3, Compiled(k)
  PROVE  AllocatorOf(k) \in Allocators
<1>1. PICK a \in Allocators, b \in Allocators : output = Emitted(1, a) \o Emitted(2, b)
  BY DEF EmitInv, Generating
<1> DEFINE Q == Nat \X Allocators
<1>2. ASSUME NEW u, NEW c \in Allocators
      PROVE  /\ Emitted(u, c) \in Seq(Q)
             /\ \A f \in Range(UnitFunctions(u)) : <<f, c>> \in Range(Emitted(u, c))
  <2>1. UnitFunctions(u) \in Seq(Nat)
    BY UnitFunctionsTypes
  <2> DEFINE fs == UnitFunctions(u)
             e == [i \in DOMAIN fs |-> <<fs[i], c>>]
  <2>2. Emitted(u, c) = e
    BY DEF Emitted
  <2>3. fs \in Seq(Nat) /\ DOMAIN fs = 1 .. Len(fs) /\ Len(fs) \in Nat
    BY <2>1
  <2> HIDE DEF fs
  <2>4. \A i \in DOMAIN fs : <<fs[i], c>> \in Q
    BY <2>3
  <2> HIDE DEF Q
  <2>5. e \in Seq(Q)
    BY <2>3, <2>4
  <2>6. ASSUME NEW f \in Range(fs) PROVE <<f, c>> \in Range(e)
    <3>1. PICK i \in DOMAIN fs : fs[i] = f
      BY DEF Range
    <3>2. i \in DOMAIN e /\ e[i] = <<f, c>>
      BY <3>1
    <3> HIDE DEF e
    <3> QED BY <3>2 DEF Range
  <2> QED BY <2>2, <2>5, <2>6 DEF fs
<1>3. /\ Emitted(1, a) \in Seq(Q) /\ Emitted(2, b) \in Seq(Q)
  BY <1>2
<1>4. output \in Seq(Q) /\ Range(output) = Range(Emitted(1, a)) \cup Range(Emitted(2, b))
  BY <1>1, <1>3, ConcatRange
<1>5. \E o \in Range(output) : o[1] = k
  <2>1. PICK u \in 1 .. 2 : k \in Range(UnitFunctions(u))
    BY UnitFunctionsCover
  <2>2. u = 1 \/ u = 2
    OBVIOUS
  <2>3. <<k, a>> \in Range(output) \/ <<k, b>> \in Range(output)
    BY <1>2, <1>4, <2>1, <2>2
  <2>4. <<k, a>>[1] = k /\ <<k, b>>[1] = k
    OBVIOUS
  <2> QED BY <2>3, <2>4
<1>6. \A o \in Range(output) : o[2] \in Allocators
  BY <1>4 DEF Range
<1> QED BY <1>5, <1>6 DEF AllocatorOf

\* The code emitted for a function is typed, whichever allocator made it.
LEMMA EmittedTyped == EmitInv /\ CodeInv => TypesInv
<1> SUFFICES ASSUME EmitInv, CodeInv, ~Generating, NEW k \in 1 .. 3, Compiled(k)
             PROVE  TypesCode(program, k, CodeOf(k).insns, TypeOf(k))
  BY DEF TypesInv, CodeInv
<1>1. AllocatorOf(k) \in Allocators
  BY AllocatorOfTypes
<1>2. CodeOf(k) = Code(program, k, AllocatorOf(k))
  <2>1. k \in DOMAIN program
    BY ProgramsAssumption DEF CodeInv
  <2> QED BY <1>1, <2>1 DEF CodeInv, CodeOf, Compiled, Allocators
<1>3. PICK F \in Nat : Typed(Steps(program, k), CodeOf(k).insns, EntryPoint, Done(F))
  BY <1>1, <1>2, CodeTyped DEF CodeInv
<1>4. \E points : TypesCode(program, k, CodeOf(k).insns, points)
  BY <1>3 DEF Typed, TypesCode
<1> QED BY <1>4 DEF TypeOf, Typing
-----------------------------------------------------------------------------
(* The steps of the machine *)

\* What a step of the machine may not do.
Restores ==
  Len(acts') < Len(acts) =>
    /\ regs'[RSP] = Act.entry + 8
    /\ \A r \in DOMAIN Act.kept : regs'[r] = Act.kept[r]

Writes ==
  \A a \in DOMAIN mem \cap DOMAIN mem' :
    mem'[a] # mem[a] =>
      \/ a < Act.entry
      \/ a \in {Act.room + 8 * i : i \in 0 .. program[pc[1]].rets - 3}

Emitter(out, k) == (CHOOSE o \in Range(out) : o[1] = k)[2]

\* Code and points stay the same while the machine runs.
LEMMA CodeSame ==
  ASSUME UNCHANGED <<program, generating>>
  PROVE  /\ Generating' = Generating /\ program' = program
         /\ \A k : Compiled(k)' = Compiled(k)
         /\ Types' = Types
<1>1. program' = program /\ unit' = unit /\ output' = output /\ code' = code
  BY DEF generating
<1>2. \A k : AllocatorOf(k) = Emitter(output, k) /\ AllocatorOf(k)' = Emitter(output', k)
  BY DEF AllocatorOf, Emitter
<1>3. \A k : AllocatorOf(k)' = AllocatorOf(k)
  BY <1>1, <1>2
<1>4. \A k : CodeOf(k)' = CodeOf(k)
  BY <1>1, <1>3 DEF CodeOf
<1>5. \A k : TypeOf(k)' = TypeOf(k)
  <2> SUFFICES ASSUME NEW k PROVE TypeOf(k)' = TypeOf(k)
    OBVIOUS
  <2>1. TypeOf(k)' = Typing(program', k, CodeOf(k)'.insns)
    BY DEF TypeOf
  <2> QED BY <1>1, <1>4, <2>1 DEF TypeOf
<1>6. Types' = [k \in 1 .. 3 |-> TypeOf(k)']
  BY DEF Types
<1> QED BY <1>1, <1>5, <1>6 DEF Types, Generating, Compiled

LEMMA InitStack == Init => CodeInv /\ StackInv
<1> SUFFICES ASSUME Init PROVE CodeInv /\ StackInv
  OBVIOUS
<1> DEFINE sp == StackTop - 8
           kept == [r \in Kept |-> Junk]
           A == [temps |-> <<>>, entry |-> sp, room |-> 9000, kept |-> kept]
<1>1. CodeInv
  BY DEF Init, CodeInv
<1>2. /\ unit = 1 /\ pc = <<1, 1>> /\ acts = <<A>> /\ mem = [a \in Words(sp) |-> Address(Exit)]
      /\ regs = [r \in x86Registers |-> CASE r = RSP -> sp [] r = RDI -> 9000 [] OTHER -> Junk]
      /\ params = [k \in DOMAIN program |-> <<>>] /\ program \in Programs
  BY DEF Init, Kept
<1>3. sp \in Int /\ sp % 8 = 0 /\ sp % 16 = 8 /\ sp <= StackTop - 8 /\ Junk \in Int /\ Address(Exit) \in Int
  BY CallingAssumption DEF Junk, Address, Exit
<1> HIDE DEF sp
<1>4. /\ regs \in Registers /\ regs[RSP] = sp /\ regs[RDI] = 9000
      /\ \A r \in x86Registers \ {RSP, RDI} : regs[r] = Junk
  BY <1>2, <1>3, TrackedFacts DEF Registers
<1>5. mem \in [Words(sp) -> Int] /\ At(mem, sp, Address(Exit))
  <2>1. sp \in Words(sp)
    BY <1>3, WordsFacts
  <2> QED BY <1>2, <1>3, <2>1 DEF At
<1>6. A \in Activations
  <2>1. <<>> \in Temps
    <3>1. <<>> \in [{} -> Int]
      OBVIOUS
    <3>2. {} \in SUBSET AbstractRegister
      OBVIOUS
    <3> QED BY <3>1, <3>2 DEF Temps
  <2>2. kept \in [Kept -> Int]
    BY <1>3
  <2>3. sp \in Entries
    BY <1>3 DEF Entries
  <2> HIDE DEF kept
  <2> QED BY <2>1, <2>2, <2>3 DEF Activations
<1>7. acts \in Seq(Activations) /\ Len(acts) = 1 /\ acts[1] = A /\ A.entry = sp /\ A.room = 9000 /\ A.kept = kept
  BY <1>2, <1>6
<1>8. Active(EntryPoint, regs, mem, A)
  <2>1. /\ EntryPoint.phase = 0 /\ EntryPoint.depth = 0 /\ EntryPoint.room = 0
    BY DEF EntryPoint, PointWith
  <2>2. regs[RSP] = A.entry - 0
    BY <1>3, <1>4, <1>7
  <2>3. regs[RBP] = A.kept[RBP]
    BY <1>4, TrackedFacts DEF kept
  <2>4. \A r \in Tracked : regs[r] = Found(A, r)
    BY <1>4, <1>7, TrackedFacts DEF Found, kept
  <2> HIDE DEF A
  <2> QED BY <2>1, <2>2, <2>3, <2>4 DEF Active
<1>9. DOMAIN params = 1 .. 3
  BY <1>2, ProgramsAssumption
<1>10. MachineTypes
  BY <1>3, <1>4, <1>5, <1>7, <1>9 DEF MachineTypes
<1> HIDE DEF A
<1> QED BY <1>1, <1>2, <1>5, <1>7, <1>8, <1>10 DEF StackInv, Generating

LEMMA ObserveKeeps == DOMAIN params = 1 .. 3 /\ Observe => DOMAIN params' = 1 .. 3
<1> SUFFICES ASSUME DOMAIN params = 1 .. 3, Observe PROVE DOMAIN params' = 1 .. 3
  OBVIOUS
<1>1. \/ \E v : params' = [params EXCEPT ![pc'[1]] = v]
      \/ UNCHANGED params
  BY DEF Observe, history
<1> QED BY <1>1
Here  == Types[pc[1]][pc[2]]
There == Types[pc[1]][pc[2] + 1]

\* What is known when the machine runs.
LEMMA RunningFacts ==
  ASSUME StackInv, TypesInv, Running
  PROVE  /\ Len(acts) \in 1 .. 3 /\ pc[1] = Len(acts) /\ Act = acts[Len(acts)]
         /\ acts \in Seq(Activations) /\ DOMAIN acts = 1 .. Len(acts)
         /\ \A m \in 1 .. Len(acts) : acts[m] \in Activations
         /\ program \in Programs /\ \A k \in 1 .. 3 : program[k].rets \in Nat
         /\ regs \in Registers /\ regs[RSP] \in Int /\ regs[RSP] % 8 = 0
         /\ mem \in [Words(regs[RSP]) -> Int] /\ \A a \in DOMAIN mem : a \in Int
         /\ Frames(program, Types, acts, mem, Len(acts))
         /\ program[Len(acts)].rets >= 3 => Act.entry < Act.room
         /\ Active(TopPoint, regs, mem, Act) /\ DOMAIN params = 1 .. 3
<1> DEFINE n == Len(acts)
<1>1. /\ n \in 1 .. 3 /\ pc[1] = n /\ acts \in Seq(Activations)
      /\ Frames(program, Types, acts, mem, n)
      /\ Active(TopPoint, regs, mem, acts[n])
      /\ regs \in Registers /\ regs[RSP] % 8 = 0
      /\ mem \in [Words(regs[RSP]) -> Int] /\ DOMAIN params = 1 .. 3
  BY DEF Running, StackInv, MachineTypes
<1>2. regs[RSP] \in Int
  BY <1>1, TrackedFacts DEF Registers
<1>3. \A a \in DOMAIN mem : a \in Int
  <2>1. DOMAIN mem = Words(regs[RSP])
    BY <1>1
  <2> QED BY <1>1, <1>2, <2>1, WordsFacts
<1>4. Act = acts[n]
  BY DEF Act, Last
<1>5. DOMAIN acts = 1 .. n /\ \A m \in 1 .. n : acts[m] \in Activations
  BY <1>1
<1>6. program \in Programs /\ program[1].rets = 0 /\ \A k \in 1 .. 3 : program[k].rets \in Nat
  BY ProgramsAssumption DEF TypesInv
<1> HIDE DEF n
<1>7. program[n].rets >= 3 => acts[n].entry < acts[n].room
  <2>1. CASE n = 1
    BY <1>6, <2>1
  <2>2. CASE n # 1
    <3>1. n - 1 \in 1 .. n - 1 /\ n - 1 \in 1 .. n /\ n - 1 + 1 = n
      BY <1>1, <2>2
    <3>2. Waiting(program, Types, acts, mem, n - 1)
      BY <1>1, <3>1 DEF Frames
    <3>3. acts[n - 1] \in Activations /\ acts[n - 1 + 1] \in Activations /\ program[n - 1 + 1].rets \in Nat
      BY <1>1, <1>5, <1>6, <3>1
    <3> QED BY <3>1, <3>2, <3>3, WaitingFacts
  <2> QED BY <2>1, <2>2
<1> QED BY <1>1, <1>2, <1>3, <1>4, <1>5, <1>6, <1>7 DEF n

LEMMA InCodeFacts ==
  ASSUME StackInv, TypesInv, InCode
  PROVE  /\ Here \in Point /\ There \in Point /\ insn \in Instruction
         /\ Leads(program, Len(acts), Here, insn, There)
         /\ Active(Here, regs, mem, Act)
         /\ pc[2] \in Nat /\ pc[2] + 1 \in DOMAIN Types[Len(acts)]
<1> DEFINE k == pc[1]
           c == CodeOf(k).insns
           points == Types[k]
           i == pc[2]
<1>1. Running /\ Compiled(k) /\ ~Generating
  BY DEF InCode, Running
<1>2. k \in 1 .. 3 /\ k = Len(acts) /\ program \in Programs /\ Active(TopPoint, regs, mem, Act)
  BY <1>1, RunningFacts
<1>3. points = TypeOf(k)
  BY <1>2 DEF Types
<1>4. TypesCode(program, k, c, points)
  BY <1>1, <1>2, <1>3 DEF TypesInv
<1>5. /\ c \in Seq(Instruction) /\ points \in [1 .. Len(c) + 1 -> Point]
      /\ \A j \in 1 .. Len(c) : <<points[j], c[j], points[j + 1]>> \in Steps(program, k)
      /\ \E F \in Nat : points[Len(c) + 1] = Done(F)
  BY <1>4 DEF TypesCode, Along
<1>6. Len(c) \in Nat /\ i \in 1 .. Len(c) + 1
  BY <1>1, <1>5 DEF StackInv, Running
<1>7. Active(points[i], regs, mem, Act)
  BY <1>1, <1>2 DEF TopPoint
<1>8. points[i].phase # 3
  BY <1>7 DEF Active
<1>9. i # Len(c) + 1
  <2>1. \A F : Done(F).phase = 3
    BY DEF Done, PointWith
  <2> QED BY <1>5, <1>8, <2>1
<1>10. i \in 1 .. Len(c) /\ i \in Nat /\ i + 1 \in 1 .. Len(c) + 1 /\ insn = c[i]
  BY <1>6, <1>9 DEF insn
<1> DEFINE s == <<points[i], c[i], points[i + 1]>>
<1>11. s \in Point \X Instruction \X Point /\ Leads(program, k, s[1], s[2], s[3])
  BY <1>5, <1>10 DEF Steps
<1> HIDE DEF points, c
<1>12. points[i] \in Point /\ c[i] \in Instruction /\ points[i + 1] \in Point
       /\ Leads(program, k, points[i], c[i], points[i + 1])
  BY <1>11
<1> QED BY <1>2, <1>5, <1>7, <1>10, <1>12 DEF points, Here, There, c

\* What the activation may not write, it does not write.
LEMMA KeepsWrites ==
  ASSUME pc[1] = Len(acts), Act.entry \in Int, \A a \in DOMAIN mem : a \in Int,
         Keeps(mem, mem', Act, program[Len(acts)].rets)
  PROVE  Writes
<1> SUFFICES ASSUME NEW a \in DOMAIN mem \cap DOMAIN mem', mem'[a] # mem[a], ~(a < Act.entry)
             PROVE  a \in {Act.room + 8 * i : i \in 0 .. program[pc[1]].rets - 3}
  BY DEF Writes
<1>1. a >= Act.entry
  OBVIOUS
<1>2. a \in RoomWords(Act, program[Len(acts)].rets)
  BY <1>1 DEF Keeps
<1> QED BY <1>2 DEF RoomWords

\* The machine goes on to the next instruction of the same activation.
LEMMA StepOn ==
  ASSUME StackInv, TypesInv, InCode, UNCHANGED <<program, generating>>,
         NEW A, A \in Activations, A.entry = Act.entry, A.kept = Act.kept, A.room = Act.room,
         acts' = [acts EXCEPT ![Len(acts)] = A], pc' = NextPc,
         regs' \in Registers, regs'[RSP] % 8 = 0, mem' \in [Words(regs'[RSP]) -> Int],
         Active(There, regs', mem', A), Keeps(mem, mem', Act, program[Len(acts)].rets),
         DOMAIN params' = 1 .. 3
  PROVE  StackInv' /\ Restores /\ Writes
<1> DEFINE n == Len(acts)
<1>1. /\ n \in 1 .. 3 /\ pc[1] = n /\ Act = acts[n] /\ acts \in Seq(Activations)
      /\ \A m \in 1 .. n : acts[m] \in Activations
      /\ program \in Programs /\ Frames(program, Types, acts, mem, n) /\ Act.entry \in Int
      /\ \A a \in DOMAIN mem : a \in Int
  <2>1. Running
    BY DEF InCode
  <2> QED BY <2>1, RunningFacts, ActivationFacts
<1>2. pc[2] \in Nat /\ pc[2] + 1 \in DOMAIN Types[n] /\ Compiled(n) /\ ~Generating
  BY <1>1, InCodeFacts DEF InCode, Running
<1>3. /\ ~Generating' /\ program' = program /\ (\A k : Compiled(k)' = Compiled(k)) /\ Types' = Types
  BY <1>2, CodeSame
<1>4. pc'[1] = n /\ pc'[2] = pc[2] + 1 /\ pc' # Exit
  BY <1>1 DEF NextPc, Exit
<1>5. /\ acts' \in Seq(Activations) /\ Len(acts') = n /\ acts'[n] = A
      /\ \A m \in 1 .. n - 1 : acts'[m] = acts[m]
  BY <1>1
<1> HIDE DEF n
<1>6. Frames(program, Types, acts', mem', n)
  <2>1. acts'[n].entry = acts[n].entry /\ acts'[n].kept = acts[n].kept /\ acts'[n].room = acts[n].room
    BY <1>1, <1>5
  <2>2. Keeps(mem, mem', acts[n], program[n].rets)
    BY <1>1 DEF n
  <2> QED BY <1>1, <1>5, <2>1, <2>2, FramesKept
<1>7. TopPoint' = There
  <2>1. TopPoint' = IF Compiled(pc[1])' THEN Types'[pc'[1]][pc'[2]] ELSE EntryPoint
    BY DEF TopPoint
  <2>2. Compiled(pc[1])'
    BY <1>2, <1>3, <1>4 DEF Compiled
  <2> QED BY <1>1, <1>3, <1>4, <2>1, <2>2 DEF There
<1>8. MachineTypes'
  <2>1. Len(acts') <= 3
    BY <1>1, <1>5
  <2> QED BY <1>5, <2>1 DEF MachineTypes
<1>9. StackInv'
  <2>1. Active(TopPoint', regs', mem', acts'[Len(acts')])
    BY <1>5, <1>7
  <2>2. Len(acts') \in 1 .. 3 /\ pc'[1] = Len(acts') /\ Frames(program', Types', acts', mem', Len(acts'))
    BY <1>1, <1>3, <1>4, <1>5, <1>6
  <2>3. pc'[2] \in DOMAIN Types'[pc'[1]] /\ Compiled(pc[1])'
    BY <1>2, <1>3, <1>4 DEF Compiled
  <2> QED BY <1>3, <1>4, <1>8, <2>1, <2>2, <2>3 DEF StackInv
<1>10. Restores
  <2>1. Len(acts) = n /\ Len(acts') = n
    BY <1>5 DEF n
  <2>2. ~(n < n)
    BY <1>1
  <2> QED BY <2>1, <2>2 DEF Restores
<1>11. Writes
  BY <1>1, KeepsWrites DEF n
<1> QED BY <1>9, <1>10, <1>11\* Instructions that leave the temporaries alone.
LEMMA SameAct ==
  ASSUME StackInv, TypesInv, Running
  PROVE  acts = [acts EXCEPT ![Len(acts)] = Act] /\ Act \in Activations
<1>1. /\ acts \in Seq(Activations) /\ Len(acts) \in 1 .. 3 /\ Act = acts[Len(acts)]
      /\ \A m \in 1 .. Len(acts) : acts[m] \in Activations
  BY RunningFacts
<1> QED BY <1>1

LEMMA FetchSame == \A o : Fetch(o) = FetchIn(regs, mem, Act, o) /\ Location(o) = ReadIn(regs, Act, o.r) + o.n
BY DEF Fetch, FetchIn, Location, Read, ReadIn

\* The destination and the source of the next instruction can be read.
LEMMA SourceFacts ==
  ASSUME StackInv, TypesInv, InCode
  PROVE  /\ insn.src \in Operand /\ insn.dest \in Operand /\ insn.dest.r \in Register
         /\ Readable(insn.src) => Fetch(insn.src) \in Int
<1>1. Running /\ insn \in Instruction
  BY InCodeFacts DEF InCode
<1>2. insn.src \in Operand /\ insn.dest \in Operand /\ insn.dest.r \in Register
  BY <1>1 DEF Instruction, Operand
<1>3. /\ regs[RSP] \in Int /\ regs \in Registers /\ mem \in [Words(regs[RSP]) -> Int] /\ Act \in Activations
  BY <1>1, RunningFacts, SameAct
<1>4. Readable(insn.src) => FetchIn(regs, mem, Act, insn.src) \in Int
  <2>1. Readable(insn.src) => (insn.src.kind = "mem" => ReadIn(regs, Act, insn.src.r) + insn.src.n \in DOMAIN mem)
    BY FetchSame DEF Readable
  <2> QED BY <1>2, <1>3, <2>1, FetchFacts
<1> QED BY <1>2, <1>4, FetchSame

LEMMA AddSubKeeps ==
  ASSUME StackInv, TypesInv, UNCHANGED <<program, generating>>, AddSub
  PROVE  StackInv' /\ Restores /\ Writes
<1> DEFINE k  == Len(acts)
           sp == IF insn.op = "add" THEN regs[RSP] + insn.src.n ELSE regs[RSP] - insn.src.n
           R2 == [regs EXCEPT ![RSP] = sp]
           M2 == Above(mem, sp)
           rets == program[k].rets
<1>1. /\ InCode /\ Running /\ insn.op \in {"add", "sub"} /\ regs' = R2 /\ mem' = M2
      /\ pc' = NextPc /\ acts' = acts /\ Observe
  BY DEF AddSub, InCode
<1>2. /\ Here \in Point /\ There \in Point /\ insn \in Instruction
      /\ Leads(program, k, Here, insn, There) /\ Active(Here, regs, mem, Act)
      /\ regs \in Registers /\ mem \in [Words(regs[RSP]) -> Int] /\ Act \in Activations
      /\ DOMAIN params = 1 .. 3
  BY <1>1, InCodeFacts, RunningFacts, SameAct
<1>3. /\ sp \in Int /\ R2 \in Registers /\ R2[RSP] = sp /\ M2 \in [Words(sp) -> Int]
      /\ Active(There, R2, M2, Act) /\ Keeps(mem, M2, Act, rets)
  BY <1>1, <1>2, AddSubStep
<1>4. sp % 8 = 0
  BY <1>1, <1>2, <1>3, StackPointer
<1>5. DOMAIN params' = 1 .. 3
  BY <1>1, <1>2, ObserveKeeps
<1> HIDE DEF R2, M2, sp
<1>6. acts' = [acts EXCEPT ![Len(acts)] = Act]
  BY <1>1, SameAct
<1> QED BY <1>1, <1>2, <1>3, <1>4, <1>5, <1>6, StepOn
\* What is pushed is a register or a number.
LEMMA PushedSource ==
  ASSUME NEW p, NEW k, NEW S, NEW T, NEW x, Leads(p, k, S, x, T), x.op = "push"
  PROVE  x.src.kind # "mem"
<1>1. \A d, s : MOV(d, s).op = "mov"
  BY OpcodeFacts
<1>2. PushesWord(S, x, T)
  BY <1>1 DEF Leads, SetsScratch, SetsRDI, SavesInCopy, RestoresFromCopy, StoresInFrame, StoresResult,
              MovesRSP, PopsWord, EntersFrame, LeavesFrame, CallsNext, Returns
<1> QED BY <1>2 DEF PushesWord

LEMMA PushKeeps ==
  ASSUME StackInv, TypesInv, UNCHANGED <<program, generating>>, Push
  PROVE  StackInv' /\ Restores /\ Writes
<1> DEFINE k  == Len(acts)
           sp == regs[RSP] - 8
           v  == FetchIn(regs, mem, Act, insn.src)
           R2 == [regs EXCEPT ![RSP] = sp]
           M2 == [Above(mem, sp) EXCEPT ![sp] = v]
           rets == program[k].rets
<1>1. /\ InCode /\ Running /\ insn.op = "push" /\ regs' = R2 /\ mem' = M2
      /\ pc' = NextPc /\ acts' = acts /\ Observe
  BY FetchSame DEF Push, InCode
<1>2. /\ Here \in Point /\ There \in Point /\ insn \in Instruction
      /\ Leads(program, k, Here, insn, There) /\ Active(Here, regs, mem, Act)
      /\ regs \in Registers /\ mem \in [Words(regs[RSP]) -> Int] /\ Act \in Activations
      /\ DOMAIN params = 1 .. 3
  BY <1>1, InCodeFacts, RunningFacts, SameAct
<1>3. v \in Int
  <2>1. insn.src.kind # "mem"
    BY <1>1, <1>2, PushedSource
  <2>2. Readable(insn.src)
    BY <2>1 DEF Readable
  <2> QED BY <1>1, <2>2, SourceFacts, FetchSame
<1>4. /\ sp \in Int /\ R2 \in Registers /\ R2[RSP] = sp /\ M2 \in [Words(sp) -> Int]
      /\ Active(There, R2, M2, Act) /\ Keeps(mem, M2, Act, rets)
  BY <1>1, <1>2, <1>3, PushStep
<1>5. sp % 8 = 0
  BY <1>1, <1>2, <1>4, StackPointer
<1>6. DOMAIN params' = 1 .. 3
  BY <1>1, <1>2, ObserveKeeps
<1> HIDE DEF R2, M2, sp
<1>7. acts' = [acts EXCEPT ![Len(acts)] = Act]
  BY <1>1, SameAct
<1> QED BY <1>1, <1>2, <1>4, <1>5, <1>6, <1>7, StepOn

LEMMA EnterKeeps ==
  ASSUME StackInv, TypesInv, UNCHANGED <<program, generating>>, Enter
  PROVE  StackInv' /\ Restores /\ Writes
<1> DEFINE k  == Len(acts)
           bp == regs[RSP] - 8
           sp == bp - insn.src.n
           R2 == [regs EXCEPT ![RBP] = bp, ![RSP] = sp]
           M2 == [Above(mem, sp) EXCEPT ![bp] = regs[RBP]]
           rets == program[k].rets
<1>1. /\ InCode /\ Running /\ insn.op = "enter" /\ regs' = R2 /\ mem' = M2
      /\ pc' = NextPc /\ acts' = acts /\ Observe
  BY DEF Enter, InCode
<1>2. /\ Here \in Point /\ There \in Point /\ insn \in Instruction
      /\ Leads(program, k, Here, insn, There) /\ Active(Here, regs, mem, Act)
      /\ regs \in Registers /\ mem \in [Words(regs[RSP]) -> Int] /\ Act \in Activations
      /\ DOMAIN params = 1 .. 3
  BY <1>1, InCodeFacts, RunningFacts, SameAct
<1>4. /\ sp \in Int /\ R2 \in Registers /\ R2[RSP] = sp /\ M2 \in [Words(sp) -> Int]
      /\ Active(There, R2, M2, Act) /\ Keeps(mem, M2, Act, rets)
  BY <1>1, <1>2, EnterStep, ZenonT(60)
<1>5. sp % 8 = 0
  BY <1>1, <1>2, <1>4, StackPointer
<1>6. DOMAIN params' = 1 .. 3
  BY <1>1, <1>2, ObserveKeeps
<1> HIDE DEF R2, M2, sp
<1>7. acts' = [acts EXCEPT ![Len(acts)] = Act]
  BY <1>1, SameAct
<1> QED BY <1>1, <1>2, <1>4, <1>5, <1>6, <1>7, StepOn

LEMMA LeaveKeeps ==
  ASSUME StackInv, TypesInv, UNCHANGED <<program, generating>>, Leave
  PROVE  StackInv' /\ Restores /\ Writes
<1> DEFINE k  == Len(acts)
           sp == regs[RBP] + 8
           R2 == [regs EXCEPT ![RBP] = mem[regs[RBP]], ![RSP] = sp]
           M2 == Above(mem, sp)
           rets == program[k].rets
<1>1. /\ InCode /\ Running /\ insn.op = "leave" /\ regs' = R2 /\ mem' = M2
      /\ pc' = NextPc /\ acts' = acts /\ Observe
  BY DEF Leave, InCode
<1>2. /\ Here \in Point /\ There \in Point /\ insn \in Instruction
      /\ Leads(program, k, Here, insn, There) /\ Active(Here, regs, mem, Act)
      /\ regs \in Registers /\ mem \in [Words(regs[RSP]) -> Int] /\ Act \in Activations
      /\ DOMAIN params = 1 .. 3
  BY <1>1, InCodeFacts, RunningFacts, SameAct
<1>4. /\ sp \in Int /\ R2 \in Registers /\ R2[RSP] = sp /\ M2 \in [Words(sp) -> Int]
      /\ Active(There, R2, M2, Act) /\ Keeps(mem, M2, Act, rets)
  BY <1>1, <1>2, LeaveStep
<1>5. sp % 8 = 0
  BY <1>1, <1>2, <1>4, StackPointer
<1>6. DOMAIN params' = 1 .. 3
  BY <1>1, <1>2, ObserveKeeps
<1> HIDE DEF R2, M2, sp
<1>7. acts' = [acts EXCEPT ![Len(acts)] = Act]
  BY <1>1, SameAct
<1> QED BY <1>1, <1>2, <1>4, <1>5, <1>6, <1>7, StepOn

LEMMA SetRegSame ==
  ASSUME StackInv, TypesInv, Running, NEW r, NEW v, NEW sp, SetReg(r, v, sp)
  PROVE  /\ regs' = RegsAfter(regs, r, v, sp)
         /\ acts' = [acts EXCEPT ![Len(acts)] = ActAfter(Act, r, v)]
<1>1. /\ acts \in Seq(Activations) /\ Len(acts) \in 1 .. 3 /\ Act = acts[Len(acts)]
      /\ acts = [acts EXCEPT ![Len(acts)] = Act]
  BY RunningFacts, SameAct
<1>2. CASE Isx86(r)
  BY <1>1, <1>2 DEF SetReg, RegsAfter, ActAfter
<1>3. CASE ~Isx86(r)
  <2> DEFINE f == [x \in DOMAIN Act.temps \cup {r} |-> IF x = r THEN v ELSE Act.temps[x]]
  <2>1. regs' = [regs EXCEPT ![RSP] = sp] /\ acts' = [acts EXCEPT ![Len(acts)].temps = f]
    BY <1>1, <1>3 DEF SetReg
  <2>2. ActAfter(Act, r, v) = [Act EXCEPT !.temps = f]
    BY <1>3 DEF ActAfter
  <2> HIDE DEF f
  <2>3. acts' = [acts EXCEPT ![Len(acts)] = [Act EXCEPT !.temps = f]]
    BY <1>1, <2>1
  <2> QED BY <1>3, <2>1, <2>2, <2>3 DEF RegsAfter
<1> QED BY <1>2, <1>3

LEMMA PopKeeps ==
  ASSUME StackInv, TypesInv, UNCHANGED <<program, generating>>, Pop
  PROVE  StackInv' /\ Restores /\ Writes
<1> DEFINE k  == Len(acts)
           r  == insn.dest.r
           v  == mem[regs[RSP]]
           sp == regs[RSP] + 8
           R2 == RegsAfter(regs, r, v, sp)
           A2 == ActAfter(Act, r, v)
           M2 == Above(mem, sp)
           rets == program[k].rets
<1>1. /\ InCode /\ Running /\ insn.op = "pop" /\ SetReg(r, v, sp) /\ mem' = M2
      /\ regs[RSP] \in DOMAIN mem /\ pc' = NextPc /\ Observe
  BY DEF Pop, InCode
<1>2. /\ Here \in Point /\ There \in Point /\ insn \in Instruction
      /\ Leads(program, k, Here, insn, There) /\ Active(Here, regs, mem, Act)
      /\ regs \in Registers /\ mem \in [Words(regs[RSP]) -> Int] /\ Act \in Activations
      /\ DOMAIN params = 1 .. 3
  BY <1>1, InCodeFacts, RunningFacts, SameAct
<1>3. v \in Int
  BY <1>1, <1>2
<1>4. regs' = R2 /\ acts' = [acts EXCEPT ![Len(acts)] = A2]
  BY <1>1, SetRegSame
<1>5. /\ sp \in Int /\ r \in Register \ {RSP} /\ R2[RSP] = sp /\ M2 \in [Words(sp) -> Int]
      /\ Active(There, R2, M2, A2) /\ Keeps(mem, M2, Act, rets)
  BY <1>1, <1>2, PopStep
<1>6. R2 \in Registers
  BY <1>2, <1>3, <1>5, RegsAfterFacts
<1>7. A2 \in Activations /\ A2.entry = Act.entry /\ A2.room = Act.room /\ A2.kept = Act.kept
  <2>1. r \in Register
    BY <1>5
  <2> QED BY <1>2, <1>3, <2>1, ActAfterFacts
<1> HIDE DEF A2, R2, M2
<1>8. sp % 8 = 0
  BY <1>2, <1>5, <1>6, <1>7, StackPointer
<1>9. DOMAIN params' = 1 .. 3
  BY <1>1, <1>2, ObserveKeeps
<1> HIDE DEF sp
<1> QED BY <1>1, <1>2, <1>4, <1>5, <1>6, <1>7, <1>8, <1>9, StepOn

\* A destination is a register or a word of memory.
LEMMA MovedTo ==
  ASSUME NEW p, NEW k, NEW S, NEW T, NEW x, Leads(p, k, S, x, T), x.op = "mov", x.dest.kind # "reg"
  PROVE  x.dest.kind = "mem"
<1>1. \A d, s : MOV(d, s).dest = d
  BY OpcodeFacts
<1>2. \A q : Reg(q).kind = "reg"
  BY OpcodeFacts
<1>3. \A q, n : Mem(q, n).kind = "mem"
  BY DEF Mem
<1>4. ~SetsScratch(S, x, T) /\ ~SetsRDI(S, x, T) /\ ~SavesInCopy(S, x, T) /\ ~RestoresFromCopy(S, x, T)
  BY <1>1, <1>2 DEF SetsScratch, SetsRDI, SavesInCopy, RestoresFromCopy
<1>5. StoresInFrame(S, x, T) \/ StoresResult(p, k, S, x, T)
  BY <1>4 DEF Leads, MovesRSP, PushesWord, PopsWord, EntersFrame, LeavesFrame, CallsNext, Returns
<1> QED BY <1>3, <1>5 DEF StoresInFrame, StoresResult

LEMMA MovKeeps ==
  ASSUME StackInv, TypesInv, UNCHANGED <<program, generating>>, Mov
  PROVE  StackInv' /\ Restores /\ Writes
<1> DEFINE k  == Len(acts)
           v  == Fetch(insn.src)
           sp == regs[RSP]
           rets == program[k].rets
<1>1. /\ InCode /\ Running /\ insn.op = "mov" /\ Readable(insn.src) /\ Readable(insn.dest)
      /\ pc' = NextPc /\ Observe
  BY DEF Mov, InCode
<1>2. /\ Here \in Point /\ There \in Point /\ insn \in Instruction
      /\ Leads(program, k, Here, insn, There) /\ Active(Here, regs, mem, Act)
      /\ regs \in Registers /\ sp \in Int /\ mem \in [Words(sp) -> Int] /\ Act \in Activations
      /\ DOMAIN params = 1 .. 3 /\ sp % 8 = 0
      /\ program \in Programs /\ k \in 1 .. 3 /\ rets \in Nat /\ (rets >= 3 => Act.entry < Act.room)
  BY <1>1, InCodeFacts, RunningFacts, SameAct
<1>3. v \in Int /\ v = FetchIn(regs, mem, Act, insn.src)
  BY <1>1, SourceFacts, FetchSame
<1>4. DOMAIN params' = 1 .. 3
  BY <1>1, <1>2, ObserveKeeps
<1> HIDE DEF v
<1>5. CASE insn.dest.kind = "reg"
  <2> DEFINE r  == insn.dest.r
             R2 == RegsAfter(regs, r, v, sp)
             A2 == ActAfter(Act, r, v)
  <2>1. SetReg(r, v, sp) /\ mem' = mem
    BY <1>5 DEF Mov, v
  <2>2. regs' = R2 /\ acts' = [acts EXCEPT ![Len(acts)] = A2]
    BY <1>1, <2>1, SetRegSame
  <2>3. r \in Register \ {RSP} /\ Active(There, R2, mem, A2)
    BY <1>1, <1>2, <1>3, <1>5, MovRegister
  <2>4. R2 \in Registers /\ R2[RSP] = sp
    BY <1>2, <1>3, <2>3, RegsAfterFacts
  <2>5. A2 \in Activations /\ A2.entry = Act.entry /\ A2.room = Act.room /\ A2.kept = Act.kept
    <3>1. r \in Register
      BY <2>3
    <3> QED BY <1>2, <1>3, <3>1, ActAfterFacts
  <2>6. Keeps(mem, mem', Act, rets)
    BY <2>1 DEF Keeps
  <2> HIDE DEF A2, R2, sp
  <2> QED BY <1>1, <1>2, <1>4, <2>1, <2>2, <2>3, <2>4, <2>5, <2>6, StepOn
<1>6. CASE insn.dest.kind # "reg"
  <2> DEFINE w  == ReadIn(regs, Act, insn.dest.r) + insn.dest.n
             M2 == Updated(mem, w, v)
  <2>1. mem' = M2 /\ regs' = regs /\ acts' = acts
    BY <1>6, FetchSame DEF Mov, v, Updated
  <2>2. insn.dest.kind = "mem"
    BY <1>1, <1>2, <1>6, MovedTo
  <2>3. w \in DOMAIN mem
    BY <1>1, <2>2, FetchSame DEF Readable
  <2>4. M2 \in [Words(sp) -> Int] /\ Active(There, regs, M2, Act) /\ Keeps(mem, M2, Act, rets)
    <3>1. /\ k \in 1 .. 3 /\ program[k].rets \in Nat /\ (program[k].rets >= 3 => Act.entry < Act.room)
          /\ mem \in [Words(regs[RSP]) -> Int]
          /\ ReadIn(regs, Act, insn.dest.r) + insn.dest.n \in DOMAIN mem
      BY <1>2, <2>3
    <3> QED BY <1>1, <1>2, <1>3, <1>6, <3>1, MovMemory
  <2>5. acts' = [acts EXCEPT ![Len(acts)] = Act]
    BY <1>1, <2>1, SameAct
  <2> HIDE DEF M2
  <2> QED BY <1>1, <1>2, <1>4, <2>1, <2>4, <2>5, StepOn
<1> QED BY <1>5, <1>6
\* An activation of what is known at its entry.
LEMMA EntryTop ==
  ASSUME TypesInv, ~Generating, NEW k \in 1 .. 3
  PROVE  Compiled(k) => Types[k][1] = EntryPoint /\ 1 \in DOMAIN Types[k]
<1> SUFFICES ASSUME Compiled(k) PROVE Types[k][1] = EntryPoint /\ 1 \in DOMAIN Types[k]
  OBVIOUS
<1>1. TypesCode(program, k, CodeOf(k).insns, TypeOf(k)) /\ Types[k] = TypeOf(k)
  BY DEF TypesInv, Types
<1> DEFINE c == CodeOf(k).insns
<1>2. /\ c \in Seq(Instruction) /\ TypeOf(k) \in [1 .. Len(c) + 1 -> Point]
      /\ TypeOf(k)[1] = EntryPoint
  BY <1>1 DEF TypesCode, Along
<1> HIDE DEF c
<1>3. 1 \in 1 .. Len(c) + 1
  BY <1>2
<1> QED BY <1>1, <1>2, <1>3

\* The call as it is executed: where it may be, and what the callee finds.
LEMMA CallFacts ==
  ASSUME StackInv, TypesInv, InCode, insn.op = "call", NEW v \in Int
  PROVE  LET k  == Len(acts)
             sp == regs[RSP] - 8
             R2 == [regs EXCEPT ![RSP] = sp]
             M2 == [Above(mem, sp) EXCEPT ![sp] = v]
             B  == Activation(sp)
         IN  /\ k \in 1 .. 2 /\ insn.label = k + 1 /\ regs[RSP] % 16 = 0
             /\ sp \in Int /\ sp % 8 = 0 /\ R2 \in Registers /\ R2[RSP] = sp /\ M2 \in [Words(sp) -> Int]
             /\ B \in Activations /\ B.entry = sp /\ At(M2, sp, v) /\ Keeps(mem, M2, Act, program[k].rets)
             /\ Active(EntryPoint, R2, M2, B) /\ Suspended(There, M2, Act, B, program[k + 1].rets)
<1> DEFINE k  == Len(acts)
           sp == regs[RSP] - 8
           R2 == [regs EXCEPT ![RSP] = sp]
           M2 == [Above(mem, sp) EXCEPT ![sp] = v]
           B  == [temps |-> <<>>, entry |-> sp, room |-> regs[RDI], kept |-> [r \in Kept |-> regs[r]]]
<1>1. /\ Here \in Point /\ There \in Point /\ insn \in Instruction /\ Running
      /\ Leads(program, k, Here, insn, There) /\ Active(Here, regs, mem, Act)
      /\ regs \in Registers /\ mem \in [Words(regs[RSP]) -> Int] /\ Act \in Activations
      /\ k \in 1 .. 3 /\ (k < 3 => program[k + 1].rets \in Nat)
      /\ regs[RSP] \in Int /\ regs[RSP] % 8 = 0
  <2>1. Running
    BY DEF InCode
  <2> QED BY <2>1, InCodeFacts, RunningFacts, SameAct, SMTT(60)
<1>2. B = Activation(sp)
  BY DEF Activation, Kept
<1>3. /\ k < 3 /\ insn.label = k + 1 /\ regs[RSP] % 16 = 0
      /\ sp \in Int /\ R2 \in Registers /\ R2[RSP] = sp /\ M2 \in [Words(sp) -> Int]
      /\ B \in Activations /\ At(M2, sp, v) /\ Keeps(mem, M2, Act, program[k].rets)
      /\ Active(EntryPoint, R2, M2, B) /\ Suspended(There, M2, Act, B, program[k + 1].rets)
  BY <1>1, CallStep, ZenonT(60)
<1>4. k \in 1 .. 2 /\ sp % 8 = 0 /\ B.entry = sp
  <2>1. sp % 8 = 0
    <3>1. 8 \in Int /\ 8 % 8 = 0
      OBVIOUS
    <3>2. regs[RSP] \in Int /\ regs[RSP] % 8 = 0
      BY <1>1
    <3> QED BY <3>1, <3>2, Multiples
  <2>2. B.entry = sp
    OBVIOUS
  <2>3. k \in 1 .. 2
    <3>1. k \in 1 .. 3 /\ k < 3
      BY <1>1, <1>3
    <3> HIDE DEF k
    <3> QED BY <3>1
  <2> QED BY <2>1, <2>2, <2>3
<1> HIDE DEF B, R2, M2, sp
<1>5. /\ k \in 1 .. 2 /\ insn.label = k + 1 /\ regs[RSP] % 16 = 0
      /\ sp \in Int /\ sp % 8 = 0 /\ R2 \in Registers /\ R2[RSP] = sp /\ M2 \in [Words(sp) -> Int]
      /\ Activation(sp) \in Activations /\ Activation(sp).entry = sp /\ At(M2, sp, v)
      /\ Keeps(mem, M2, Act, program[k].rets)
      /\ Active(EntryPoint, R2, M2, Activation(sp)) /\ Suspended(There, M2, Act, Activation(sp), program[k + 1].rets)
  BY <1>2, <1>3, <1>4
<1> QED BY <1>5 DEF R2, M2, sp

LEMMA FramesNext ==
  ASSUME NEW p, NEW types, NEW As, NEW M, NEW k \in 1 .. 2, Frames(p, types, As, M, k),
         Waiting(p, types, As, M, k)
  PROVE  Frames(p, types, As, M, k + 1)
<1>1. At(M, As[1].entry, Address(Exit)) /\ \A m \in 1 .. k - 1 : Waiting(p, types, As, M, m)
  BY DEF Frames
<1>2. k + 1 - 1 = k /\ \A m \in 1 .. k : m \in 1 .. k - 1 \/ m = k
  OBVIOUS
<1>3. \A m \in 1 .. k : Waiting(p, types, As, M, m)
  BY <1>1, <1>2
<1>4. \A m \in 1 .. k + 1 - 1 : Waiting(p, types, As, M, m)
  BY <1>2, <1>3
<1> QED BY <1>1, <1>4 DEF Frames

LEMMA CallKeeps ==
  ASSUME StackInv, TypesInv, UNCHANGED <<program, generating>>, Call
  PROVE  StackInv' /\ Restores /\ Writes
<1> DEFINE k  == Len(acts)
           sp == regs[RSP] - 8
           B  == Activation(sp)
           v  == Address(NextPc)
           i  == pc[2] + 1
<1>1. /\ InCode /\ Running /\ Compiled(pc[1]) /\ insn.op = "call"
      /\ regs' = [regs EXCEPT ![RSP] = sp] /\ mem' = [Above(mem, sp) EXCEPT ![sp] = v]
      /\ acts' = Append(acts, B) /\ pc' = <<insn.label, 1>>
  BY DEF Call, InCode
<1>2. /\ k \in 1 .. 3 /\ pc[1] = k /\ Act = acts[k] /\ acts \in Seq(Activations)
      /\ (\A m \in 1 .. k : acts[m] \in Activations) /\ Act.entry \in Int
      /\ program \in Programs /\ Frames(program, Types, acts, mem, k)
      /\ (\A a \in DOMAIN mem : a \in Int) /\ DOMAIN params = 1 .. 3
      /\ pc[2] \in Nat /\ i \in DOMAIN Types[k] /\ There = Types[k][i] /\ There \in Point
      /\ regs \in Registers
  <2>1. /\ k \in 1 .. 3 /\ pc[1] = k /\ Act = acts[k] /\ acts \in Seq(Activations)
        /\ (\A m \in 1 .. k : acts[m] \in Activations)
        /\ program \in Programs /\ Frames(program, Types, acts, mem, k)
        /\ (\A a \in DOMAIN mem : a \in Int) /\ DOMAIN params = 1 .. 3
        /\ regs \in Registers
    BY <1>1, RunningFacts
  <2>2. pc[2] \in Nat /\ i \in DOMAIN Types[k] /\ There \in Point
    BY <1>1, InCodeFacts
  <2>3. Act.entry \in Int
    BY <1>1, SameAct, ActivationFacts
  <2> QED BY <2>1, <2>2, <2>3 DEF There
<1>3. v \in Int /\ v = Address(<<k, i>>)
  BY <1>2 DEF Address, NextPc
<1> HIDE DEF v
<1>4. /\ k \in 1 .. 2 /\ insn.label = k + 1 /\ sp \in Int /\ sp % 8 = 0
      /\ regs' \in Registers /\ regs'[RSP] = sp /\ mem' \in [Words(sp) -> Int]
      /\ B \in Activations /\ B.entry = sp /\ At(mem', sp, v) /\ Keeps(mem, mem', Act, program[k].rets)
      /\ Active(EntryPoint, regs', mem', B) /\ Suspended(There, mem', Act, B, program[k + 1].rets)
  BY <1>1, <1>3, CallFacts
<1>5. /\ Generating' = Generating /\ ~Generating /\ program' = program
      /\ (\A m : Compiled(m)' = Compiled(m)) /\ Types' = Types
  BY <1>1, CodeSame DEF Running
<1> HIDE DEF sp, B, i
<1>6. /\ acts' \in Seq(Activations) /\ Len(acts') = k + 1 /\ acts'[k + 1] = B
      /\ \A m \in 1 .. k : acts'[m] = acts[m]
  BY <1>1, <1>2, <1>4
<1> HIDE DEF k
<1>7. pc'[1] = k + 1 /\ pc'[2] = 1 /\ pc' # Exit /\ k + 1 \in 1 .. 3
  BY <1>1, <1>4 DEF Exit
<1>8. Frames(program, Types, acts', mem', k + 1)
  <2>1. Frames(program, Types, acts', mem', k)
    <3>1. acts'[k].entry = acts[k].entry /\ acts'[k].kept = acts[k].kept /\ acts'[k].room = acts[k].room
      BY <1>4, <1>6
    <3>2. \A m \in 1 .. k - 1 : acts'[m] = acts[m]
      BY <1>2, <1>6
    <3> QED BY <1>2, <1>4, <3>1, <3>2, FramesKept
  <2>2. Waiting(program, Types, acts', mem', k)
    <3>1. acts'[k] = Act /\ acts'[k + 1] = B
      BY <1>2, <1>4, <1>6
    <3>2. ~program[k].runtime
      BY <1>1, <1>2 DEF Compiled
    <3> QED BY <1>2, <1>3, <1>4, <3>1, <3>2 DEF Waiting
  <2> QED BY <1>4, <2>1, <2>2, FramesNext
<1>9. /\ DOMAIN params' = 1 .. 3
      /\ ~Compiled(k + 1) => params'[k + 1] \in [1 .. program[k + 1].params -> Int]
  <2>1. CASE Compiled(k + 1)
    <3>1. Observe
      BY <1>1, <1>4, <2>1 DEF Call
    <3> QED BY <1>2, <2>1, <3>1, ObserveKeeps
  <2>2. CASE ~Compiled(k + 1)
    <3> DEFINE f == [j \in 1 .. program[k + 1].params |-> regs[argRegisters[j]]]
    <3>1. params' = [params EXCEPT ![k + 1] = f]
      BY <1>1, <1>4, <2>2 DEF Call
    <3>2. program[k + 1].params \in Nat /\ program[k + 1].params <= 6
      BY <1>2, <1>7, <2>2, ProgramsAssumption DEF Compiled
    <3>3. \A j \in 1 .. program[k + 1].params : argRegisters[j] \in x86Registers
      <4>1. \A j \in 1 .. 6 : argRegisters[j] \in x86Registers
        BY ArgumentRegisters
      <4> QED BY <3>2, <4>1
    <3>4. f \in [1 .. program[k + 1].params -> Int]
      BY <1>2, <3>3 DEF Registers
    <3> HIDE DEF f
    <3> QED BY <1>2, <1>7, <3>1, <3>4
  <2> QED BY <2>1, <2>2
<1>10. TopPoint' = EntryPoint /\ (Compiled(k + 1) => pc'[2] \in DOMAIN Types[k + 1])
  <2>1. TopPoint' = IF Compiled(pc[1])' THEN Types'[pc'[1]][pc'[2]] ELSE EntryPoint
    BY DEF TopPoint
  <2>2. Compiled(pc[1])' = Compiled(k + 1)
    BY <1>5, <1>7 DEF Compiled
  <2> QED BY <1>5, <1>7, <2>1, <2>2, EntryTop
<1>11. MachineTypes'
  <2>1. Len(acts') <= 3
    BY <1>4, <1>6
  <2> QED BY <1>4, <1>6, <1>9, <2>1 DEF MachineTypes
<1>12. StackInv'
  <2>1. Active(TopPoint', regs', mem', acts'[Len(acts')])
    BY <1>4, <1>6, <1>10
  <2>2. Len(acts') \in 1 .. 3 /\ pc'[1] = Len(acts') /\ Frames(program', Types', acts', mem', Len(acts'))
    BY <1>5, <1>6, <1>7, <1>8
  <2>3. /\ Compiled(pc[1])' => pc'[2] \in DOMAIN Types'[pc'[1]]
        /\ ~Compiled(pc[1])' => params'[pc'[1]] \in [1 .. program'[pc'[1]].params -> Int]
    BY <1>5, <1>7, <1>9, <1>10 DEF Compiled
  <2> QED BY <1>5, <1>7, <1>11, <2>1, <2>2, <2>3 DEF StackInv
<1>13. Restores
  <2>1. Len(acts) = k /\ Len(acts') = k + 1
    BY <1>6 DEF k
  <2>2. ~(k + 1 < k)
    BY <1>2
  <2> QED BY <2>1, <2>2 DEF Restores
<1>14. Writes
  BY <1>2, <1>4, KeepsWrites DEF k
<1> QED BY <1>12, <1>13, <1>14
\* A return address is taken apart as it was put together.
LEMMA PlaceFacts ==
  /\ PlaceOf(Address(Exit)) = Exit
  /\ \A m \in 0 .. 3, i \in Nat : PlaceOf(Address(<<m, i>>)) = <<m, i>>
<1>1. ASSUME NEW m \in 0 .. 3, NEW i \in Nat
      PROVE  Address(<<m, i>>) % 4 = m /\ Address(<<m, i>>) \div 4 = i
  <2>1. Address(<<m, i>>) = 4 * i + m
    BY DEF Address
  <2> QED BY <2>1
<1>2. \A m \in 0 .. 3, i \in Nat : PlaceOf(Address(<<m, i>>)) = <<m, i>>
  BY <1>1 DEF PlaceOf
<1> QED BY <1>2 DEF Exit

LEMMA FrontFacts ==
  ASSUME NEW X, NEW s \in Seq(X), Len(s) \in 1 .. 3
  PROVE  /\ Front(s) \in Seq(X) /\ Len(Front(s)) = Len(s) - 1
         /\ \A m \in 1 .. Len(s) - 1 : Front(s)[m] = s[m]
<1> DEFINE n == Len(s) - 1
<1>1. n \in 0 .. 2 /\ 1 \in Int /\ n \in Int /\ \A i \in 1 .. n : s[i] \in X
  OBVIOUS
<1>2. Front(s) = SubSeq(s, 1, n)
  BY DEF Front
<1> HIDE DEF n
<1>3. /\ SubSeq(s, 1, n) \in Seq(X)
      /\ Len(SubSeq(s, 1, n)) = IF 1 <= n THEN n - 1 + 1 ELSE 0
      /\ \A i \in 1 .. n - 1 + 1 : SubSeq(s, 1, n)[i] = s[1 + i - 1]
  BY <1>1, SubSeqProperties
<1>4. Len(Front(s)) = n
  BY <1>1, <1>2, <1>3
<1>5. \A m \in 1 .. n : Front(s)[m] = s[m]
  <2> SUFFICES ASSUME NEW m \in 1 .. n PROVE Front(s)[m] = s[m]
    OBVIOUS
  <2>1. m \in 1 .. n - 1 + 1 /\ 1 + m - 1 = m
    BY <1>1
  <2>2. SubSeq(s, 1, n)[m] = s[1 + m - 1]
    BY <1>3, <2>1
  <2> QED BY <1>2, <2>1, <2>2
<1> QED BY <1>2, <1>3, <1>4, <1>5 DEF n

\* The running activation returns to the one that called it, or to the C runtime.
LEMMA BackTo ==
  ASSUME StackInv, TypesInv, Running, UNCHANGED <<program, generating>>,
         regs[RSP] = Act.entry, regs' \in Registers, regs'[RSP] = Act.entry + 8,
         \A r \in Kept : regs'[r] = Act.kept[r],
         mem' = Above(mem, Act.entry + 8), pc' = PlaceOf(mem[Act.entry]), acts' = Front(acts),
         DOMAIN params' = 1 .. 3
  PROVE  StackInv' /\ Restores /\ Writes
<1> DEFINE n == Len(acts)
           q == Act.entry + 8
<1>1. /\ n \in 1 .. 3 /\ pc[1] = n /\ Act = acts[n] /\ acts \in Seq(Activations)
      /\ \A m \in 1 .. n : acts[m] \in Activations
      /\ program \in Programs /\ \A k \in 1 .. 3 : program[k].rets \in Nat
      /\ regs[RSP] \in Int /\ regs[RSP] % 8 = 0 /\ mem \in [Words(regs[RSP]) -> Int]
      /\ \A a \in DOMAIN mem : a \in Int
      /\ Frames(program, Types, acts, mem, n)
  BY RunningFacts
<1>2. Act \in Activations /\ Act.entry \in Int /\ Act.entry % 8 = 0 /\ Act.kept \in [Kept -> Int]
  BY SameAct, ActivationFacts
<1>3. q \in Int /\ q % 8 = 0
  <2>1. 8 \in Int /\ 8 % 8 = 0
    OBVIOUS
  <2> QED BY <1>2, <2>1, Multiples
<1>4. /\ Generating' = Generating /\ ~Generating /\ program' = program
      /\ (\A m : Compiled(m)' = Compiled(m)) /\ Types' = Types
  BY CodeSame DEF Running
<1> HIDE DEF q
<1>5. mem' \in [Words(q) -> Int] /\ \A a \in DOMAIN mem \cap DOMAIN mem' : mem'[a] = mem[a]
  <2>1. mem' = Above(mem, q) /\ DOMAIN mem = Words(regs[RSP])
    BY <1>1 DEF q
  <2>2. Above(mem, q) \in [Words(q) -> Int]
    BY <1>1, <1>3, AboveFacts
  <2>3. \A a \in Words(q) : a \in Words(regs[RSP]) => Above(mem, q)[a] = mem[a]
    BY <1>1, <1>3, AboveFacts
  <2> QED BY <2>1, <2>2, <2>3
<1>6. acts' \in Seq(Activations) /\ Len(acts') = n - 1 /\ \A m \in 1 .. n - 1 : acts'[m] = acts[m]
  BY <1>1, FrontFacts
<1>7. MachineTypes'
  <2>1. Len(acts') <= 3 /\ regs'[RSP] = q
    <3>1. n - 1 <= 3
      BY <1>1
    <3> QED BY <1>6, <3>1 DEF q
  <2> QED BY <1>3, <1>5, <1>6, <2>1 DEF MachineTypes
<1>8. Restores
  BY <1>1, <1>2 DEF Restores
<1>9. Writes
  BY <1>5 DEF Writes
<1> HIDE DEF n
<1>10. CASE n = 1
  <2>1. At(mem, Act.entry, Address(Exit))
    BY <1>1, <1>10 DEF Frames
  <2>2. pc' = Exit
    BY <2>1, PlaceFacts DEF At
  <2> QED BY <1>4, <1>7, <1>8, <1>9, <2>2 DEF StackInv
<1>11. CASE n # 1
  <2> DEFINE m == n - 1
             A == acts[m]
             rets == program[n].rets
  <2>1. m \in 1 .. 2 /\ m + 1 = n /\ m \in 1 .. n - 1 /\ m \in 1 .. n
    BY <1>1, <1>11
  <2>2. /\ Waiting(program, Types, acts, mem, m) /\ A \in Activations /\ acts[m + 1] = Act
    BY <1>1, <2>1 DEF Frames
  <2> HIDE DEF m
  <2>3. PICK i \in DOMAIN Types[m] :
          /\ Types[m][i] \in Point /\ At(mem, Act.entry, Address(<<m, i>>))
          /\ Suspended(Types[m][i], mem, A, Act, rets) /\ ~program[m].runtime
    BY <2>1, <2>2 DEF Waiting
  <2> DEFINE T == Types[m][i]
  <2>4. Compiled(m) /\ i \in Nat
    <3>1. Compiled(m) /\ m \in 1 .. 3
      BY <2>1, <2>3 DEF Compiled
    <3>2. TypesCode(program, m, CodeOf(m).insns, Types[m])
      BY <1>4, <3>1 DEF TypesInv, Types
    <3> QED BY <2>3, <3>1, <3>2 DEF TypesCode, Along
  <2>5. pc' = <<m, i>> /\ pc' # Exit /\ pc'[1] = m /\ pc'[2] = i
    <3>1. pc' = PlaceOf(Address(<<m, i>>))
      BY <2>3 DEF At
    <3>2. m \in 0 .. 3
      BY <2>1
    <3>3. pc' = <<m, i>>
      BY <2>4, <3>1, <3>2, PlaceFacts
    <3> QED BY <2>1, <3>3 DEF Exit
  <2>6. Active(T, regs', mem', A)
    <3>1. RBP \in Kept
      BY TrackedFacts
    <3>2. T \in Point /\ Suspended(T, mem, A, Act, rets) /\ regs'[RBP] = Act.kept[RBP]
      BY <2>3, <3>1
    <3> HIDE DEF T, A, rets
    <3> QED BY <1>1, <1>2, <2>2, <3>2, ReturnStep
  <2>7. q <= A.entry
    <3>1. Act.entry = A.entry - T.depth - 8 /\ T.depth \in Nat /\ A.entry \in Int
      BY <2>2, <2>3, PointFacts, ActivationFacts DEF Suspended
    <3> QED BY <1>2, <3>1 DEF q
  <2>8. Frames(program, Types, acts', mem', m)
    <3>1. Keeps(mem, Above(mem, q), A, program[m].rets)
      BY <1>1, <1>3, <2>2, <2>7, AboveKeeps
    <3>2. mem' = Above(mem, q)
      BY DEF q
    <3>3. Frames(program, Types, acts, mem, m)
      BY <1>1, <2>1 DEF Frames
    <3>4. /\ \A j \in 1 .. m : acts[j] \in Activations
          /\ \A j \in 1 .. m : acts'[j] = acts[j]
      BY <1>1, <1>6, <2>1
    <3>5. \A j \in 1 .. m - 1 : acts'[j] = acts[j]
      BY <2>1, <3>4
    <3>6. acts'[m] = acts[m] /\ m \in 1 .. 3
      BY <2>1, <3>4
    <3> QED BY <1>1, <3>1, <3>2, <3>3, <3>4, <3>5, <3>6, FramesKept, ZenonT(60)
  <2>9. Len(acts') = m /\ acts'[m] = A
    BY <1>6, <2>1 DEF m
  <2>10. TopPoint' = T
    <3>1. TopPoint' = IF Compiled(pc[1])' THEN Types'[pc'[1]][pc'[2]] ELSE EntryPoint
      BY DEF TopPoint
    <3>2. Compiled(pc[1])'
      BY <1>4, <2>4, <2>5 DEF Compiled
    <3> QED BY <1>4, <2>5, <3>1, <3>2
  <2>11. Active(TopPoint', regs', mem', acts'[Len(acts')])
    BY <2>6, <2>9, <2>10
  <2>12. Len(acts') \in 1 .. 3 /\ pc'[1] = Len(acts') /\ Frames(program', Types', acts', mem', Len(acts'))
    BY <1>4, <2>1, <2>5, <2>8, <2>9
  <2>13. pc'[2] \in DOMAIN Types'[pc'[1]] /\ Compiled(pc[1])'
    BY <1>4, <2>3, <2>4, <2>5 DEF Compiled
  <2>14. StackInv'
    BY <1>4, <1>7, <2>5, <2>11, <2>12, <2>13 DEF StackInv
  <2> QED BY <1>8, <1>9, <2>14
<1> QED BY <1>10, <1>11
LEMMA RetKeeps ==
  ASSUME StackInv, TypesInv, UNCHANGED <<program, generating>>, Ret
  PROVE  StackInv' /\ Restores /\ Writes
<1>1. /\ InCode /\ Running /\ insn.op = "ret" /\ regs' = [regs EXCEPT ![RSP] = @ + 8]
      /\ mem' = Above(mem, regs[RSP] + 8) /\ pc' = PlaceOf(mem[regs[RSP]]) /\ acts' = Front(acts) /\ Observe
  BY DEF Ret, InCode
<1>2. /\ Here \in Point /\ Leads(program, Len(acts), Here, insn, There) /\ Active(Here, regs, mem, Act)
      /\ regs \in Registers /\ Act \in Activations /\ DOMAIN params = 1 .. 3
  BY <1>1, InCodeFacts, RunningFacts, SameAct
<1>3. Returns(Here, insn, There)
  <2>1. \A d, s : MOV(d, s).op = "mov"
    BY OpcodeFacts
  <2> QED BY <1>1, <1>2, <2>1 DEF Leads, SetsScratch, SetsRDI, SavesInCopy, RestoresFromCopy, StoresInFrame,
             StoresResult, MovesRSP, PushesWord, PopsWord, EntersFrame, LeavesFrame, CallsNext
<1>4. Here.phase = 2 /\ Here.depth = 0 /\ \A r \in Tracked : Here.home[r] = 0
  BY <1>2, <1>3, PointFacts DEF Returns
<1>5. Act.entry \in Int /\ regs[RSP] = Act.entry - 0 /\ regs[RBP] = Act.kept[RBP]
      /\ \A r \in Tracked : regs[r] = Found(Act, r)
  BY <1>2, <1>4, ActivationFacts DEF Active
<1>6. \A r \in Kept : regs[r] = Act.kept[r]
  <2>1. \A r \in Kept : r = RBP \/ (r \in Tracked /\ r # RDI)
    BY TrackedFacts DEF Kept, Tracked
  <2> QED BY <1>5, <2>1 DEF Found
<1>7. regs[RSP] = Act.entry
  BY <1>5
<1>8. /\ regs' \in Registers /\ regs'[RSP] = Act.entry + 8 /\ \A r \in Kept : regs'[r] = Act.kept[r]
  BY <1>1, <1>2, <1>5, <1>6, <1>7, TrackedFacts, SMTT(60) DEF Registers
<1>9. DOMAIN params' = 1 .. 3
  BY <1>1, <1>2, ObserveKeeps
<1>10. mem' = Above(mem, Act.entry + 8) /\ pc' = PlaceOf(mem[Act.entry])
  BY <1>1, <1>7
<1> QED BY <1>1, <1>7, <1>8, <1>9, <1>10, BackTo

LEMMA RuntimeReturnKeeps ==
  ASSUME StackInv, TypesInv, UNCHANGED <<program, generating>>, RuntimeReturn
  PROVE  StackInv' /\ Restores /\ Writes
<1> DEFINE k == pc[1]
           N == DOMAIN program[k].vals
           val(i) == IF program[k].vals[i].from = "param"
                     THEN params[k][program[k].vals[i].n] ELSE program[k].vals[i].n
           vals == [i \in N |-> val(i)]
           result(r) == CASE r = x86("RAX") /\ Len(vals) >= 1 -> vals[1]
                          [] r = x86("RDX") /\ Len(vals) >= 2 -> vals[2]
                          [] OTHER -> Junk
<1>1. /\ Running /\ ~Compiled(k)
      /\ regs' = [r \in x86Registers |-> IF r = RSP THEN regs[r] + 8
                                         ELSE IF r \in Range(callerSaved) THEN result(r) ELSE regs[r]]
      /\ mem' = Above(mem, regs[RSP] + 8) /\ pc' = PlaceOf(mem[regs[RSP]]) /\ acts' = Front(acts) /\ Observe
  BY DEF RuntimeReturn
<1>2. /\ k \in 1 .. 3 /\ program \in Programs /\ regs \in Registers /\ regs[RSP] \in Int
      /\ Act \in Activations /\ Active(EntryPoint, regs, mem, Act) /\ DOMAIN params = 1 .. 3
  BY <1>1, RunningFacts, SameAct DEF TopPoint
<1>3. params[k] \in [1 .. program[k].params -> Int]
  BY <1>1 DEF StackInv, Running
<1>4. /\ program[k].vals \in Seq(Expression)
      /\ \A i \in N : program[k].vals[i].from = "param" => program[k].vals[i].n \in 1 .. program[k].params
  BY <1>1, <1>2, ProgramsAssumption DEF Compiled
<1>5. \A i \in N : val(i) \in Int
  <2> SUFFICES ASSUME NEW i \in N PROVE val(i) \in Int
    OBVIOUS
  <2>1. program[k].vals[i] \in Expression
    BY <1>4
  <2>2. program[k].vals[i].n \in Int
    BY <2>1 DEF Expression
  <2>3. program[k].vals[i].from = "param" => params[k][program[k].vals[i].n] \in Int
    BY <1>3, <1>4
  <2> QED BY <2>2, <2>3
<1>6. N = 1 .. Len(program[k].vals) /\ Len(program[k].vals) \in Nat
  BY <1>4
<1> HIDE DEF val
<1>7. vals \in Seq(Int) /\ Len(vals) = Len(program[k].vals)
  <2> HIDE DEF N
  <2>1. \A i \in 1 .. Len(program[k].vals) : val(i) \in Int
    BY <1>5, <1>6
  <2> QED BY <1>6, <2>1
<1> HIDE DEF vals
<1>8. \A r : result(r) \in Int
  BY <1>7 DEF Junk
<1> HIDE DEF result
<1>9. /\ EntryPoint.phase = 0 /\ EntryPoint.depth = 0 /\ \A r \in Tracked : EntryPoint.home[r] = 0
  BY DEF EntryPoint, PointWith, AllHome
<1>10. /\ Act.entry \in Int /\ regs[RSP] = Act.entry - 0 /\ regs[RBP] = Act.kept[RBP]
       /\ \A r \in Tracked : regs[r] = Found(Act, r)
  BY <1>2, <1>9, ActivationFacts DEF Active
<1>11. \A r \in Kept : regs[r] = Act.kept[r] /\ r # RSP /\ r \in x86Registers /\ r \notin Range(callerSaved)
  <2>1. \A r \in Kept : r = RBP \/ (r \in Tracked /\ r # RDI)
    BY TrackedFacts DEF Kept, Tracked
  <2>2. \A r \in Kept : r # RSP /\ r \in x86Registers /\ r \notin Range(callerSaved)
    BY RegisterFacts, TrackedFacts DEF Kept
  <2> QED BY <1>10, <2>1, <2>2 DEF Found
<1>12. regs[RSP] = Act.entry
  BY <1>10
<1>13. /\ regs' \in Registers /\ regs'[RSP] = Act.entry + 8 /\ \A r \in Kept : regs'[r] = Act.kept[r]
  BY <1>1, <1>2, <1>8, <1>11, <1>12, TrackedFacts DEF Registers
<1>14. DOMAIN params' = 1 .. 3
  BY <1>1, <1>2, ObserveKeeps
<1>15. mem' = Above(mem, Act.entry + 8) /\ pc' = PlaceOf(mem[Act.entry])
  BY <1>1, <1>12
<1> QED BY <1>1, <1>12, <1>13, <1>14, <1>15, BackTo

\* Every instruction keeps the invariant, and does what a callee has to do.
LEMMA RunKeeps ==
  ASSUME StackInv, TypesInv, Run
  PROVE  StackInv' /\ Restores /\ Writes
BY MovKeeps, AddSubKeeps, PushKeeps, PopKeeps, EnterKeeps, LeaveKeeps, CallKeeps, RetKeeps,
   RuntimeReturnKeeps DEF Run, Execute

LEMMA EntryTopNext ==
  ASSUME TypesInv', ~Generating', Compiled(1)'
  PROVE  Types'[1][1] = EntryPoint /\ 1 \in DOMAIN Types'[1]
<1> DEFINE P == TypeOf(1)'
           c == CodeOf(1)'.insns
<1>1. TypesCode(program', 1, c, P)
  BY DEF TypesInv
<1>2. Types'[1] = P
  BY DEF Types
<1> HIDE DEF P, c
<1>3. c \in Seq(Instruction) /\ P \in [1 .. Len(c) + 1 -> Point] /\ P[1] = EntryPoint
  BY <1>1 DEF TypesCode, Along
<1>4. 1 \in 1 .. Len(c) + 1
  BY <1>3
<1> QED BY <1>2, <1>3, <1>4

\* Nothing runs before the code of both units has been emitted.
LEMMA GeneratingKeeps ==
  ASSUME StackInv, TypesInv', Generating, UNCHANGED <<program, code, machine, history>>,
         unit' \in 1 .. 3
  PROVE  StackInv' /\ Restores /\ Writes
<1>1. /\ pc = <<1, 1>> /\ Len(acts) = 1 /\ Active(EntryPoint, regs, mem, acts[1])
      /\ At(mem, acts[1].entry, Address(Exit)) /\ MachineTypes
  BY DEF StackInv
<1>2. UNCHANGED <<pc, regs, mem, acts, params, program>>
  BY DEF machine, history
<1>3. MachineTypes'
  BY <1>1, <1>2 DEF MachineTypes
<1>4. /\ pc' = <<1, 1>> /\ Len(acts') = 1 /\ Active(EntryPoint, regs', mem', acts'[1])
      /\ At(mem', acts'[1].entry, Address(Exit))
  BY <1>1, <1>2
<1>5. Restores /\ Writes
  <2>1. ~(1 < 1)
    OBVIOUS
  <2> QED BY <1>1, <1>2, <2>1 DEF Restores, Writes
<1>6. CASE Generating'
  BY <1>3, <1>4, <1>5, <1>6 DEF StackInv
<1>7. CASE ~Generating'
  <2>1. program' \in Programs /\ ~program'[1].runtime
    BY ProgramsAssumption DEF TypesInv
  <2>2. Compiled(1)' /\ pc'[1] = 1 /\ pc'[2] = 1
    BY <1>4, <2>1 DEF Compiled
  <2>3. Types'[1][1] = EntryPoint /\ 1 \in DOMAIN Types'[1]
    BY <1>7, <2>2, EntryTopNext
  <2>4. TopPoint' = EntryPoint
    <3>1. TopPoint' = IF Compiled(pc[1])' THEN Types'[pc'[1]][pc'[2]] ELSE EntryPoint
      BY DEF TopPoint
    <3> QED BY <2>2, <2>3, <3>1
  <2>5. Frames(program', Types', acts', mem', 1)
    BY <1>4 DEF Frames
  <2>6. Compiled(pc[1])'
    BY <2>1, <2>2 DEF Compiled
  <2>7. pc'[2] \in DOMAIN Types'[pc'[1]]
    BY <2>2, <2>3
  <2>8. Active(TopPoint', regs', mem', acts'[Len(acts')])
    BY <1>4, <2>4
  <2>9. Len(acts') \in 1 .. 3 /\ pc'[1] = Len(acts') /\ Frames(program', Types', acts', mem', Len(acts'))
    BY <1>4, <2>2, <2>5
  <2>10. StackInv'
    BY <1>3, <1>7, <2>6, <2>7, <2>8, <2>9 DEF StackInv
  <2> QED BY <1>5, <2>10
<1> QED BY <1>6, <1>7
LEMMA StepKeepsCodeInv == CodeInv /\ [Next]_vars => CodeInv'
<1> SUFFICES ASSUME CodeInv, [Next]_vars PROVE CodeInv'
  OBVIOUS
<1>1. program' = program /\ code' = code
  BY DEF Next, AllocateFunction, Fallback, EmitUnit, Run, Finished, vars, generating
<1> QED BY <1>1 DEF CodeInv

LEMMA StepKeepsStack ==
  ASSUME StackInv, TypesInv, TypesInv', EmitInv, EmitInv', [Next]_vars
  PROVE  StackInv' /\ Restores /\ Writes
<1>1. unit' \in 1 .. 3
  BY DEF EmitInv
<1>2. CASE AllocateFunction
  BY <1>1, <1>2, GeneratingKeeps DEF AllocateFunction
<1>3. CASE Fallback
  BY <1>1, <1>3, GeneratingKeeps DEF Fallback
<1>4. CASE EmitUnit
  BY <1>1, <1>4, GeneratingKeeps DEF EmitUnit
<1>5. CASE Run
  BY <1>5, RunKeeps
<1>6. CASE UNCHANGED vars
  <2>1. UNCHANGED <<program, generating, machine, history>>
    BY <1>6 DEF vars
  <2>2. UNCHANGED <<program, generating, pc, regs, mem, acts, params>>
    BY <2>1 DEF machine, history
  <2>3. /\ Generating' = Generating /\ program' = program
        /\ (\A k : Compiled(k)' = Compiled(k)) /\ Types' = Types
    BY <2>1, CodeSame
  <2>4. TopPoint' = TopPoint /\ Compiled(pc[1])' = Compiled(pc[1])
    <3>1. Compiled(pc[1])' = Compiled(pc[1])
      BY <2>2 DEF Compiled
    <3>2. TopPoint' = IF Compiled(pc[1])' THEN Types'[pc'[1]][pc'[2]] ELSE EntryPoint
      BY DEF TopPoint
    <3> QED BY <2>2, <2>3, <3>1, <3>2 DEF TopPoint
  <2>5. MachineTypes' = MachineTypes
    BY <2>2 DEF MachineTypes
  <2>6. StackInv'
    BY <2>2, <2>3, <2>4, <2>5 DEF StackInv
  <2>7. Restores
    <3>1. Len(acts') = Len(acts)
      BY <2>2
    <3>2. CASE ~(Len(acts) < Len(acts))
      BY <3>1, <3>2 DEF Restores
    <3>3. Len(acts) \in Nat
      BY DEF StackInv, MachineTypes
    <3> QED BY <3>2, <3>3
  <2>8. Writes
    BY <2>2 DEF Writes
  <2> QED BY <2>6, <2>7, <2>8
<1> QED BY <1>2, <1>3, <1>4, <1>5, <1>6 DEF Next, Finished

\* What is known in every state, and what every step does.
LEMMA MachineInvariant ==
  Spec => []EmitInv /\ []TypesInv /\ []StackInv /\ ReturnRestores /\ WritesOwnFrame
<1>1. Init => EmitInv
  <2> SUFFICES ASSUME Init PROVE EmitInv
    OBVIOUS
  <2>1. unit = 1 /\ ra = "chaitin" /\ allocated = <<>> /\ output = <<>>
    BY DEF Init
  <2>2. Len(UnitFunctions(unit)) \in Nat
    BY UnitFunctionsTypes
  <2> QED BY <2>1, <2>2 DEF EmitInv, Allocators
<1>2. Init => CodeInv /\ StackInv
  BY InitStack
<1>3. Spec => []EmitInv
  BY <1>1, StepKeepsEmitInv, PTL DEF Spec
<1>4. Spec => []CodeInv
  BY <1>2, StepKeepsCodeInv, PTL DEF Spec
<1>5. Spec => []TypesInv
  BY <1>3, <1>4, EmittedTyped, PTL
<1>6. StackInv /\ TypesInv /\ TypesInv' /\ EmitInv /\ EmitInv' /\ [Next]_vars => StackInv'
  BY StepKeepsStack
<1>7. Spec => []StackInv
  BY <1>2, <1>3, <1>5, <1>6, PTL DEF Spec
<1>8. StackInv /\ TypesInv /\ TypesInv' /\ EmitInv /\ EmitInv' /\ [Next]_vars
        => [Len(acts') < Len(acts) =>
              /\ regs'[RSP] = Act.entry + 8
              /\ \A r \in DOMAIN Act.kept : regs'[r] = Act.kept[r]]_vars
  BY StepKeepsStack DEF Restores
<1>9. StackInv /\ TypesInv /\ TypesInv' /\ EmitInv /\ EmitInv' /\ [Next]_vars
        => [\A a \in DOMAIN mem \cap DOMAIN mem' :
              mem'[a] # mem[a] =>
                \/ a < Act.entry
                \/ a \in {Act.room + 8 * i : i \in 0 .. program[pc[1]].rets - 3}]_vars
  BY StepKeepsStack DEF Writes
<1>10. Spec => ReturnRestores
  BY <1>3, <1>5, <1>7, <1>8, PTL DEF Spec, ReturnRestores
<1>11. Spec => WritesOwnFrame
  BY <1>3, <1>5, <1>7, <1>9, PTL DEF Spec, WritesOwnFrame
<1> QED BY <1>3, <1>5, <1>7, <1>10, <1>11, PTL

\* A unit is allocated in order and by one allocator at a time, and the stack pointer
\* stays a multiple of eight above the words there are, in every program.
THEOREM TypeCorrect == Spec => []TypeOK
<1>1. EmitInv /\ TypesInv /\ StackInv => TypeOK
  <2> SUFFICES ASSUME EmitInv, TypesInv, StackInv PROVE TypeOK
    OBVIOUS
  <2>1. MachineTypes
    BY DEF StackInv
  <2>2. regs \in [x86Registers -> Int] /\ regs[RSP] % 8 = 0 /\ DOMAIN mem = Words(regs[RSP])
    BY <2>1 DEF MachineTypes, Registers
  <2>3. program \in Programs /\ Len(program) = 3
    BY ProgramsAssumption DEF TypesInv
  <2>4. Generating => \A i \in DOMAIN allocated : allocated[i] = <<UnitFunctions(unit)[i], ra>>
    <3> SUFFICES ASSUME Generating
                 PROVE  \A i \in DOMAIN allocated : allocated[i] = <<UnitFunctions(unit)[i], ra>>
      OBVIOUS
    <3>1. allocated = [i \in 1 .. Len(allocated) |-> <<UnitFunctions(unit)[i], ra>>]
      BY DEF EmitInv
    <3> DEFINE n == Len(allocated)
    <3> HIDE DEF n
    <3>2. DOMAIN allocated = 1 .. n /\ \A i \in 1 .. n : allocated[i] = <<UnitFunctions(unit)[i], ra>>
      BY <3>1 DEF n
    <3> QED BY <3>2
  <2>5. unit \in 1 .. 3 /\ ra \in {"chaitin", "trivial"}
    BY DEF EmitInv, Allocators
  <2>6. Len(acts) <= Len(program)
    BY <2>1, <2>3 DEF MachineTypes
  <2> QED BY <2>2, <2>3, <2>4, <2>5, <2>6 DEF TypeOK
<1> QED BY <1>1, MachineInvariant, PTL

\* Whatever the numbers of arguments, results and spilled registers, and whichever
\* allocator made the code of each function, RSP is a multiple of 16 at every call
\* instruction, as CHECK_STACK_ALIGNMENT of the runtime demands.
THEOREM AlignedCorrect == Spec => []Aligned
<1>1. TypesInv /\ StackInv => Aligned
  <2> SUFFICES ASSUME TypesInv, StackInv, InCode, insn.op = "call" PROVE regs[RSP] % 16 = 0
    BY DEF Aligned
  <2>1. 0 \in Int
    OBVIOUS
  <2> QED BY <2>1, CallFacts
<1> QED BY <1>1, MachineInvariant, PTL

\* Every function returns with RSP at the place it was called from and gives RBP and
\* the callee-saved registers back as it found them.
THEOREM ReturnRestoresCorrect == Spec => ReturnRestores
BY MachineInvariant, PTL

\* A function writes nothing above its return address but its third and further
\* results, in the room its caller has made for them: the frames of all its callers
\* stay as they are.
THEOREM WritesOwnFrameCorrect == Spec => WritesOwnFrame
BY MachineInvariant, PTL
=============================================================================
