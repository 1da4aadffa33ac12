---------------------------- MODULE SpillProofs ----------------------------
(***************************************************************************)
(* Theorems about spilling over the rounds of the allocator: the slots     *)
(* that rewriteSpills gives out, and the bodies it makes.                  *)
(***************************************************************************)
EXTENDS ChaitinAllocatorProofs, RecursionLemmas

-----------------------------------------------------------------------------
(* Slots *)

\* The slots given out: one for each name, numbered from 1 without a gap, for
\* names that no temporary made from now on will have.
SlotsOk(map, fresh) ==
  /\ IsFiniteSet(DOMAIN map)
  /\ map \in [DOMAIN map -> 1 .. Cardinality(DOMAIN map)]
  /\ \A m, n \in DOMAIN map : m # n => map[m] # map[n]
  /\ \A n \in DOMAIN map : n[1] = "S" => n[2] \in 0 .. fresh

\* Names that are new to the map get slots of their own.
LEMMA AddSlotsOk ==
  ASSUME NEW map, NEW fresh \in Nat, SlotsOk(map, fresh),
         NEW T, NEW spilled \in Seq(T),
         \A j, k \in DOMAIN spilled : spilled[j].name = spilled[k].name => j = k,
         \A k \in DOMAIN spilled : /\ spilled[k].name \notin DOMAIN map
                                   /\ spilled[k].name[1] = "S" => spilled[k].name[2] \in 0 .. fresh
  PROVE  LET new == AddSlots(map, spilled) IN
         /\ SlotsOk(new, fresh)
         /\ DOMAIN new = DOMAIN map \cup {spilled[k].name : k \in DOMAIN spilled}
         /\ Cardinality(DOMAIN map) \in Nat
         /\ Cardinality(DOMAIN map) <= Cardinality(DOMAIN new)
<1> DEFINE m       == Len(spilled)
           D       == DOMAIN map
           c       == Cardinality(D)
           Name(k) == spilled[k].name
           Keys(k) == D \cup {Name(j) : j \in 1 .. k}
           At(n)   == {k \in DOMAIN spilled : Name(k) = n}
           last(n) == CHOOSE k \in At(n) : \A j \in At(n) : j <= k
           new     == AddSlots(map, spilled)
<1>1. m \in Nat /\ DOMAIN spilled = 1 .. m
  OBVIOUS
<1>2. IsFiniteSet(D) /\ c \in Nat
  BY FS_CardinalityType DEF SlotsOk
<1>3. new = [n \in Keys(m) |-> IF At(n) = {} THEN map[n] ELSE Cardinality(Keys(last(n) - 1)) + 1]
  BY DEF AddSlots
<1>4. /\ \A j, k \in 1 .. m : Name(j) = Name(k) => j = k
      /\ \A k \in 1 .. m : Name(k) \notin D
  BY <1>1
<1>5. \A k \in 0 .. m : IsFiniteSet(Keys(k)) /\ Cardinality(Keys(k)) = c + k
  <2> DEFINE S == {k \in 0 .. m : IsFiniteSet(Keys(k)) /\ Cardinality(Keys(k)) = c + k}
  <2>1. 0 \in S
    <3>1. Keys(0) = D
      <4>1. 1 .. 0 = {}
        OBVIOUS
      <4> HIDE DEF Name, D
      <4> QED BY <4>1
    <3> QED BY <1>1, <1>2, <3>1
  <2>2. ASSUME NEW k \in S, k < m PROVE k + 1 \in S
    <3>1. k \in 0 .. m /\ k + 1 \in 1 .. m /\ k + 1 \in 0 .. m
      BY <1>1, <2>2
    <3>2. IsFiniteSet(Keys(k)) /\ Cardinality(Keys(k)) = c + k
      BY <2>2
    <3>3. Keys(k + 1) = Keys(k) \cup {Name(k + 1)}
      <4>1. 1 .. k + 1 = (1 .. k) \cup {k + 1}
        BY <3>1
      <4> HIDE DEF Name
      <4> QED BY <4>1
    <3>4. Name(k + 1) \notin Keys(k)
      <4>1. \A j \in 1 .. k : j \in 1 .. m /\ j # k + 1
        BY <1>1, <3>1
      <4> HIDE DEF Name
      <4> QED BY <1>4, <3>1, <4>1
    <3>5. IsFiniteSet(Keys(k + 1)) /\ Cardinality(Keys(k + 1)) = Cardinality(Keys(k)) + 1
      <4> HIDE DEF Keys, Name, c, S
      <4> QED BY <3>2, <3>3, <3>4, FS_AddElement
    <3> HIDE DEF Keys
    <3>6. Cardinality(Keys(k + 1)) = c + (k + 1)
      BY <1>2, <3>1, <3>2, <3>5
    <3> QED BY <3>1, <3>5, <3>6 DEF Keys
  <2>3. S \in SUBSET (0 .. m)
    OBVIOUS
  <2> HIDE DEF S
  <2>4. S = 0 .. m
    BY <1>1, <2>1, <2>2, <2>3, IntervalSet
  <2> QED BY <2>4 DEF S
<1>6. \A k \in 1 .. m : Name(k) \in Keys(m) /\ new[Name(k)] = c + k
  <2> SUFFICES ASSUME NEW k \in 1 .. m PROVE Name(k) \in Keys(m) /\ new[Name(k)] = c + k
    OBVIOUS
  <2>1. At(Name(k)) = {k}
    BY <1>1, <1>4
  <2> HIDE DEF At
  <2>2. last(Name(k)) = k
    BY <2>1
  <2>3. Name(k) \in Keys(m) /\ k - 1 \in 0 .. m
    BY <1>1
  <2> HIDE DEF Keys, Name, last, new
  <2>4. new[Name(k)] = Cardinality(Keys(k - 1)) + 1
    BY <1>3, <2>1, <2>2, <2>3
  <2>5. Cardinality(Keys(k - 1)) = c + (k - 1)
    BY <1>5, <2>3
  <2> QED BY <1>2, <2>3, <2>4, <2>5
<1>7. \A n \in D : n \in Keys(m) /\ new[n] = map[n]
  <2> SUFFICES ASSUME NEW n \in D PROVE n \in Keys(m) /\ new[n] = map[n]
    OBVIOUS
  <2>1. At(n) = {}
    BY <1>1, <1>4
  <2> HIDE DEF At, new, last
  <2> QED BY <1>3, <2>1
<1>8. /\ DOMAIN new = Keys(m) /\ IsFiniteSet(Keys(m)) /\ Cardinality(Keys(m)) = c + m
      /\ \A n \in Keys(m) : n \in D \/ \E k \in 1 .. m : n = Name(k)
  <2>1. m \in 0 .. m
    BY <1>1
  <2>2. DOMAIN new = Keys(m)
    BY <1>3
  <2> HIDE DEF new
  <2> QED BY <1>5, <2>1, <2>2
<1>9. /\ map \in [D -> 1 .. c]
      /\ \A n, o \in D : n # o => map[n] # map[o]
      /\ \A n \in D : n[1] = "S" => n[2] \in 0 .. fresh
      /\ \A k \in 1 .. m : Name(k)[1] = "S" => Name(k)[2] \in 0 .. fresh
  BY <1>1 DEF SlotsOk
<1> HIDE DEF Keys, Name, new, D, c, At, last
<1>10. new \in [Keys(m) -> 1 .. c + m]
  <2>1. \A k \in 1 .. m : c + k \in 1 .. c + m
    BY <1>1, <1>2
  <2>2. \A x \in 1 .. c : x \in 1 .. c + m
    BY <1>1, <1>2
  <2>3. \A n \in Keys(m) : new[n] \in 1 .. c + m
    BY <1>6, <1>7, <1>8, <1>9, <2>1, <2>2
  <2>4. new = [n \in Keys(m) |-> new[n]]
    BY <1>3, <1>8 DEF new, Keys, At, last, Name, D
  <2> QED BY <2>3, <2>4
<1>11. \A n, o \in Keys(m) : n # o => new[n] # new[o]
  <2>1. \A j, k \in 1 .. m : c + j = c + k => j = k
    BY <1>1, <1>2
  <2>2. \A x \in 1 .. c : \A k \in 1 .. m : x # c + k
    BY <1>1, <1>2
  <2>3. \A n \in D : map[n] \in 1 .. c
    BY <1>9
  <2> QED BY <1>6, <1>7, <1>8, <1>9, <2>1, <2>2, <2>3
<1>12. SlotsOk(new, fresh)
  BY <1>8, <1>9, <1>10, <1>11 DEF SlotsOk
<1>13. DOMAIN new = D \cup {spilled[k].name : k \in DOMAIN spilled}
  BY <1>1, <1>8 DEF Keys, Name
<1>14. c <= c + m
  BY <1>1, <1>2
<1> QED BY <1>2, <1>8, <1>12, <1>13, <1>14 DEF new, D, c

-----------------------------------------------------------------------------
(* Rewritten instructions *)

\* The instructions of a body that the allocator has spilled names of: none of
\* them occurs any more, the temporaries are numbered up to fresh, and spill
\* code stays within the slots given out.  Every register is a 64-bit one.
InsnsOk(names, fresh) ==
  {insn \in Instruction :
     /\ \A r \in insn.def \cup insn.use : r.size = 64
     /\ \A r \in InvolvedIn(insn) : /\ r.name \notin names
                                    /\ r.name[1] = "S" => r.name[2] <= fresh
     /\ insn.op \in {"load", "store"} => insn.slot \in 1 .. Cardinality(names)}

\* The registers that the allocator makes.
LEMMA AbstractIsRegister ==
  ASSUME NEW p \in {"CE", "ARG", "S"}, NEW j \in Nat
  PROVE  /\ Abstract(<<p, j>>) \in Register /\ Abstract(<<p, j>>).size = 64
         /\ ~Isx86(Abstract(<<p, j>>))
         /\ Abstract(<<p, j>>).name = <<p, j>>
         /\ <<p, j>>[1] = p /\ <<p, j>>[2] = j
<1> DEFINE t == <<p, j>>
<1>1. t \in RegisterName /\ t[1] = p /\ t[2] = j
  BY DEF RegisterName
<1>2. p # "x86"
  OBVIOUS
<1> HIDE DEF t
<1>3. /\ Abstract(t) \in Register /\ Abstract(t).size = 64
      /\ ~Isx86(Abstract(t)) /\ Abstract(t).name = t
  BY <1>1, <1>2 DEF Abstract, Register, Isx86
<1> QED BY <1>1, <1>3 DEF t

\* The machine registers.
LEMMA MachineIsRegister ==
  ASSUME NEW j \in Nat
  PROVE  x86(j) \in Register /\ x86(j).size = 64 /\ Isx86(x86(j))
<1> DEFINE t == <<"x86", j>>
<1>1. t \in RegisterName /\ t[1] = "x86"
  BY DEF RegisterName
<1>2. x86(j) = [name |-> t, size |-> 64]
  BY DEF x86
<1> HIDE DEF t
<1> QED BY <1>1, <1>2 DEF Register, Isx86

\* The temporaries of one instruction end before those of the next ones.
LEMMA TempsOfInsn ==
  ASSUME NEW T, NEW b \in Seq(T), NEW R, NEW spilled \in Seq(R), NEW i \in DOMAIN b
  PROVE  /\ SpillTempsBefore(b, spilled, i) \in Nat
         /\ SpillTempsBefore(b, spilled, Len(b) + 1) \in Nat
         /\ SpillTempsBefore(b, spilled, i) + Cardinality(InvolvedIn(b[i]) \cap Range(spilled))
              <= SpillTempsBefore(b, spilled, Len(b) + 1)
<1> DEFINE SP   == Range(spilled)
           P(j) == {p \in (1 .. j-1) \X SP : p[2] \in InvolvedIn(b[p[1]])}
           S    == InvolvedIn(b[i]) \cap SP
           Q    == {i} \X S
           m    == Len(b) + 1
<1>1. IsFiniteSet(SP)
  BY RangeFinite
<1>2. i \in Nat /\ m \in Nat /\ i \in 1 .. m-1 /\ i <= m
  OBVIOUS
<1>3. ASSUME NEW j \in Nat PROVE IsFiniteSet(P(j))
  <2> DEFINE I == 1 .. j-1
  <2>1. IsFiniteSet(I)
    BY FS_Interval
  <2>2. P(j) \in SUBSET (I \X SP)
    OBVIOUS
  <2> HIDE DEF I, P, SP
  <2>3. IsFiniteSet(I \X SP)
    BY <1>1, <2>1, FS_Product
  <2> QED BY <2>2, <2>3, FS_Subset
<1>4. IsFiniteSet(S) /\ IsFiniteSet(Q) /\ Cardinality(Q) = Cardinality(S) /\ Cardinality(S) \in Nat
  <2>1. S \in SUBSET SP
    OBVIOUS
  <2> HIDE DEF S, SP
  <2>2. IsFiniteSet(S) /\ Cardinality(S) \in Nat
    BY <1>1, <2>1, FS_Subset, FS_CardinalityType
  <2>3. IsFiniteSet({i}) /\ Cardinality({i}) = 1
    BY FS_Singleton
  <2>4. IsFiniteSet({i} \X S) /\ Cardinality({i} \X S) = Cardinality({i}) * Cardinality(S)
    BY <2>2, <2>3, FS_Product
  <2>5. 1 * Cardinality(S) = Cardinality(S)
    BY <2>2
  <2> QED BY <2>2, <2>3, <2>4, <2>5
<1>5. P(i) \cap Q = {} /\ P(i) \cup Q \subseteq P(m)
  <2>1. \A p \in P(i) : p[1] \in 1 .. i-1 /\ p \in P(m)
    BY <1>2
  <2>2. \A p \in Q : p[1] = i /\ p \in P(m)
    BY <1>2
  <2>3. i \notin 1 .. i-1
    BY <1>2
  <2> HIDE DEF P, Q
  <2> QED BY <2>1, <2>2, <2>3
<1>6. /\ SpillTempsBefore(b, spilled, i) = Cardinality(P(i))
      /\ SpillTempsBefore(b, spilled, Len(b) + 1) = Cardinality(P(m))
  BY DEF SpillTempsBefore
<1>7. IsFiniteSet(P(i)) /\ IsFiniteSet(P(m))
  BY <1>2, <1>3
<1>8. S = InvolvedIn(b[i]) \cap Range(spilled)
  OBVIOUS
<1> HIDE DEF P, Q, S, m, SP
<1>9. Cardinality(P(i)) \in Nat /\ Cardinality(P(m)) \in Nat
  BY <1>7, FS_CardinalityType
<1>10. Cardinality(P(i) \cup Q) = Cardinality(P(i)) + Cardinality(Q)
  <2>1. Cardinality({}) = 0
    BY FS_EmptySet
  <2>2. Cardinality(P(i) \cup Q) = Cardinality(P(i)) + Cardinality(Q) - Cardinality(P(i) \cap Q)
    BY <1>4, <1>7, FS_Union
  <2>3. Cardinality(P(i) \cup Q) = Cardinality(P(i)) + Cardinality(Q) - 0
    BY <1>5, <2>1, <2>2
  <2> QED BY <1>4, <1>9, <2>3
<1>11. Cardinality(P(i) \cup Q) <= Cardinality(P(m))
  <2>1. P(i) \cup Q \in SUBSET P(m)
    BY <1>5
  <2> QED BY <1>7, <2>1, FS_Subset
<1> QED BY <1>4, <1>6, <1>8, <1>9, <1>10, <1>11

\* One instruction, rewritten with the new slots.
LEMMA RewriteInsnOk ==
  ASSUME NEW names, NEW old \in Nat, NEW insn \in InsnsOk(names, old),
         NEW new, new \in [DOMAIN new -> 1 .. Cardinality(DOMAIN new)],
         NEW spilled \in Seq({r \in Register : r.size = 64}),
         DOMAIN new = names \cup {r.name : r \in Range(spilled)},
         Cardinality(names) \in Nat, Cardinality(names) <= Cardinality(DOMAIN new),
         Cardinality(DOMAIN new) \in Nat,
         \A n \in DOMAIN new : n[1] = "S" => n[2] <= old,
         NEW fresh \in Nat, old <= fresh,
         NEW top \in Nat, fresh + Cardinality(InvolvedIn(insn) \cap Range(spilled)) <= top
  PROVE  RewriteInsn(insn, spilled, new, fresh) \in Seq(InsnsOk(DOMAIN new, top))
<1> DEFINE Ok   == InsnsOk(DOMAIN new, top)
           SP   == Range(spilled)
           S    == InvolvedIn(insn) \cap SP
           n    == Cardinality(S)
           regs == SpilledIn(insn, spilled)
           temp(k)  == Abstract(<<"S", fresh + k>>)
           slot(k)  == new[regs[k].name]
           useInsns == [k \in DOMAIN regs |->
                          IF regs[k] \in insn.use THEN <<LoadSlot(temp(k), slot(k))>> ELSE <<>>]
           defInsns == [k \in DOMAIN regs |->
                          IF regs[k] \in insn.def THEN <<StoreSlot(temp(k), slot(k))>> ELSE <<>>]
           renamed  == [insn EXCEPT !.def = {Rename(r, regs, fresh) : r \in @},
                                    !.use = {Rename(r, regs, fresh) : r \in @}]
<1>1. /\ insn \in Instruction /\ insn.def \subseteq Register /\ insn.use \subseteq Register
      /\ \A r \in insn.def \cup insn.use : r.size = 64
      /\ \A r \in InvolvedIn(insn) : /\ r.name \notin names
                                     /\ r.name[1] = "S" => r.name[2] <= old
      /\ insn.op \in {"load", "store"} => insn.slot \in 1 .. Cardinality(names)
  BY DEF InsnsOk, Instruction
<1>2. /\ regs \in Seq(Register) /\ n \in Nat /\ DOMAIN regs = 1 .. n /\ Range(regs) = S
      /\ SP \subseteq {r \in Register : r.size = 64}
  <2>1. IsFiniteSet(SP) /\ SP \subseteq {r \in Register : r.size = 64}
    BY RangeFinite
  <2>2. S \in SUBSET Register /\ S \in SUBSET SP
    BY <2>1
  <2>3. regs = SetToSeq(S)
    BY DEF SpilledIn
  <2> HIDE DEF S, SP, regs
  <2>4. IsFiniteSet(S)
    BY <2>1, <2>2, FS_Subset
  <2> QED BY <2>1, <2>2, <2>3, <2>4, SetToSeqOnto
<1>3. \A k \in 1 .. n : /\ regs[k] \in S
                        /\ slot(k) \in 1 .. Cardinality(DOMAIN new)
  <2> SUFFICES ASSUME NEW k \in 1 .. n
               PROVE  regs[k] \in S /\ slot(k) \in 1 .. Cardinality(DOMAIN new)
    OBVIOUS
  <2> HIDE DEF regs, S, n
  <2>1. regs[k] \in S
    BY <1>2 DEF Range
  <2>2. regs[k].name \in DOMAIN new
    BY <2>1 DEF S
  <2> QED BY <2>1, <2>2
<1>4. \A k \in 1 .. n : /\ temp(k) \in Register /\ temp(k).size = 64 /\ ~Isx86(temp(k))
                        /\ temp(k).name = <<"S", fresh + k>>
                        /\ temp(k).name \notin DOMAIN new
                        /\ fresh + k <= top
  <2> SUFFICES ASSUME NEW k \in 1 .. n
               PROVE  /\ temp(k) \in Register /\ temp(k).size = 64 /\ ~Isx86(temp(k))
                      /\ temp(k).name = <<"S", fresh + k>>
                      /\ temp(k).name \notin DOMAIN new
                      /\ fresh + k <= top
    OBVIOUS
  <2> HIDE DEF n
  <2>1. fresh + k \in Nat /\ fresh + k > old /\ fresh + k <= top
    BY <1>2 DEF n
  <2>2. /\ temp(k).name = <<"S", fresh + k>> /\ temp(k).size = 64
        /\ temp(k) \in Register /\ ~Isx86(temp(k))
        /\ temp(k).name[1] = "S" /\ temp(k).name[2] = fresh + k
    <3> DEFINE p == "S"
               j == fresh + k
    <3>2. p \in {"CE", "ARG", "S"} /\ j \in Nat
      BY <2>1
    <3>3. temp(k) = Abstract(<<p, j>>)
      OBVIOUS
    <3> HIDE DEF p, j, temp
    <3>4. /\ temp(k).name = <<p, j>> /\ temp(k).size = 64
          /\ temp(k) \in Register /\ ~Isx86(temp(k))
          /\ temp(k).name[1] = p /\ temp(k).name[2] = j
      BY <3>2, <3>3, AbstractIsRegister
    <3> QED BY <3>4 DEF p, j
  <2> HIDE DEF temp
  <2>3. temp(k).name \notin DOMAIN new
    <3> SUFFICES ASSUME temp(k).name \in DOMAIN new PROVE FALSE
      OBVIOUS
    <3>1. temp(k).name[2] <= old
      BY <2>2
    <3> QED BY <2>1, <2>2, <3>1
  <2> QED BY <2>1, <2>2, <2>3
<1>5. \A k \in 1 .. n : LoadSlot(temp(k), slot(k)) \in Ok /\ StoreSlot(temp(k), slot(k)) \in Ok
  <2> SUFFICES ASSUME NEW k \in 1 .. n
               PROVE  LoadSlot(temp(k), slot(k)) \in Ok /\ StoreSlot(temp(k), slot(k)) \in Ok
    OBVIOUS
  <2> DEFINE t == temp(k)
             x == slot(k)
             base == x86(RBP)
             none == <<"none", 0>>
  <2>1. /\ t \in Register /\ t.size = 64 /\ ~Isx86(t) /\ t.name \notin DOMAIN new
        /\ t.name[1] = "S" => t.name[2] <= top
        /\ x \in 1 .. Cardinality(DOMAIN new)
    <3>1. /\ t \in Register /\ t.size = 64 /\ ~Isx86(t) /\ t.name \notin DOMAIN new
          /\ t.name = <<"S", fresh + k>> /\ fresh + k <= top
      BY <1>4
    <3> HIDE DEF t
    <3>2. t.name[2] <= top
      BY <3>1
    <3> QED BY <1>3, <3>1, <3>2
  <2>2. base \in Register /\ base.size = 64 /\ Isx86(base)
    BY X86Assumption, MachineIsRegister
  <2>3. none \in LabelName
    BY DEF LabelName
  <2>4. /\ LoadSlot(t, x) = [op |-> "load", def |-> {t}, use |-> {base}, lab |-> none, slot |-> x]
        /\ StoreSlot(t, x) = [op |-> "store", def |-> {}, use |-> {t, base}, lab |-> none, slot |-> x]
    <3>1. x86s({RBP}) = {base} /\ {t} \cup {base} = {t, base}
      BY DEF x86s
    <3> HIDE DEF t, x, base
    <3>2. /\ LoadSlot(t, x) = [Insn("load", {t}, {base}) EXCEPT !.slot = x]
          /\ StoreSlot(t, x) = [Insn("store", {}, {t, base}) EXCEPT !.slot = x]
      BY <3>1 DEF LoadSlot, StoreSlot
    <3> HIDE DEF none
    <3>3. \A op, d, u : Insn(op, d, u) = [op |-> op, def |-> d, use |-> u, lab |-> none, slot |-> 0]
      BY DEF Insn, none
    <3> QED BY <3>2, <3>3
  <2> HIDE DEF t, x, base, none
  <2>5. LoadSlot(t, x) \in Instruction /\ StoreSlot(t, x) \in Instruction
    <3>1. x \in Nat /\ "load" \in Opcode /\ "store" \in Opcode
      BY <1>2, <2>1 DEF Opcode
    <3>2. {t} \in SUBSET Register /\ {base} \in SUBSET Register /\ {t, base} \in SUBSET Register
      BY <2>1, <2>2
    <3> QED BY <2>3, <2>4, <3>1, <3>2 DEF Instruction
  <2>6. InvolvedIn(LoadSlot(t, x)) = {t} /\ InvolvedIn(StoreSlot(t, x)) = {t}
    BY <2>1, <2>2, <2>4 DEF InvolvedIn
  <2>7. /\ \A r \in LoadSlot(t, x).def \cup LoadSlot(t, x).use : r.size = 64
        /\ \A r \in StoreSlot(t, x).def \cup StoreSlot(t, x).use : r.size = 64
        /\ LoadSlot(t, x).slot = x /\ StoreSlot(t, x).slot = x
    BY <2>1, <2>2, <2>4
  <2>8. LoadSlot(t, x) \in InsnsOk(DOMAIN new, top) /\ StoreSlot(t, x) \in InsnsOk(DOMAIN new, top)
    BY <2>1, <2>5, <2>6, <2>7 DEF InsnsOk
  <2> QED BY <2>8 DEF t, x
<1>6. \A r \in insn.def \cup insn.use :
        LET q == Rename(r, regs, fresh) IN
        /\ q \in Register /\ q.size = 64
        /\ ~Isx86(q) => q.name \notin DOMAIN new /\ (q.name[1] = "S" => q.name[2] <= top)
  <2> SUFFICES ASSUME NEW r \in insn.def \cup insn.use
               PROVE  LET q == Rename(r, regs, fresh) IN
                      /\ q \in Register /\ q.size = 64
                      /\ ~Isx86(q) => /\ q.name \notin DOMAIN new
                                      /\ q.name[1] = "S" => q.name[2] <= top
    OBVIOUS
  <2> DEFINE q == Rename(r, regs, fresh)
  <2>1. r \in Register /\ r.size = 64
    BY <1>1
  <2>2. CASE \E k \in DOMAIN regs : Same(regs[k], r)
    <3> DEFINE k == CHOOSE k \in DOMAIN regs : Same(regs[k], r)
    <3>1. k \in 1 .. n
      <4> HIDE DEF regs, n
      <4> QED BY <1>2, <2>2
    <3>2. q = [r EXCEPT !.name = <<"S", fresh + k>>]
      BY <2>2 DEF Rename
    <3> HIDE DEF k, q, temp, n
    <3>3. q = [name |-> <<"S", fresh + k>>, size |-> 64]
      BY <2>1, <3>2 DEF Register
    <3>4. q = temp(k)
      BY <3>3 DEF temp, Abstract
    <3>5. /\ q \in Register /\ q.size = 64 /\ q.name \notin DOMAIN new
          /\ q.name = <<"S", fresh + k>> /\ fresh + k <= top
      BY <1>4, <3>1, <3>4
    <3>6. q.name[2] <= top
      BY <3>5
    <3> QED BY <3>5, <3>6 DEF q
  <2>3. CASE ~ \E k \in DOMAIN regs : Same(regs[k], r)
    <3>1. q = r
      BY <2>3 DEF Rename
    <3>2. ASSUME ~Isx86(r) PROVE r.name \notin DOMAIN new /\ (r.name[1] = "S" => r.name[2] <= top)
      <4>1. r \in InvolvedIn(insn)
        BY <3>2 DEF InvolvedIn
      <4>2. r.name \notin names /\ (r.name[1] = "S" => r.name[2] <= old)
        BY <1>1, <4>1
      <4>3. old <= top
        BY <1>2
      <4>4. ASSUME NEW u \in SP, u.name = r.name PROVE FALSE
        <5>1. u = r
          BY <1>2, <2>1, <4>4 DEF Register
        <5>2. r \in S
          BY <4>1, <4>4, <5>1
        <5> HIDE DEF S, regs, n
        <5>3. PICK k \in DOMAIN regs : regs[k] = r
          BY <1>2, <5>2 DEF Range
        <5> QED BY <2>3, <5>3 DEF Same
      <4>5. r.name \notin DOMAIN new
        BY <4>2, <4>4
      <4>6. ASSUME r.name[1] = "S" PROVE r.name[2] <= top
        <5>1. r.name[2] <= old /\ r.name[2] \in Nat
          BY <2>1, <4>2, <4>6 DEF Register, RegisterName
        <5> QED BY <4>3, <5>1
      <4> QED BY <4>5, <4>6
    <3> HIDE DEF q
    <3>3. q \in Register /\ q.size = 64
      BY <2>1, <3>1
    <3> QED BY <3>1, <3>2, <3>3 DEF q
  <2> QED BY <2>2, <2>3
<1>7. renamed \in Ok
  <2> DEFINE New(r) == Rename(r, regs, fresh)
             def    == {New(r) : r \in insn.def}
             use    == {New(r) : r \in insn.use}
  <2>1. insn = [op |-> insn.op, def |-> insn.def, use |-> insn.use, lab |-> insn.lab, slot |-> insn.slot]
    BY <1>1 DEF Instruction
  <2>2. renamed = [op |-> insn.op, def |-> def, use |-> use, lab |-> insn.lab, slot |-> insn.slot]
    <3>1. renamed = [insn EXCEPT !.def = def, !.use = use]
      OBVIOUS
    <3> HIDE DEF def, use, renamed
    <3> QED BY <2>1, <3>1
  <2>3. \A r \in insn.def \cup insn.use :
           /\ New(r) \in Register /\ New(r).size = 64
           /\ ~Isx86(New(r)) => /\ New(r).name \notin DOMAIN new
                                /\ New(r).name[1] = "S" => New(r).name[2] <= top
    BY <1>6
  <2> HIDE DEF New, renamed
  <2>4. def \in SUBSET Register /\ use \in SUBSET Register
    BY <2>3
  <2>5. \A r \in def \cup use :
           /\ r.size = 64
           /\ ~Isx86(r) => r.name \notin DOMAIN new /\ (r.name[1] = "S" => r.name[2] <= top)
    BY <2>3
  <2> HIDE DEF def, use
  <2>6. /\ insn.op \in Opcode /\ insn.lab \in LabelName /\ insn.slot \in Nat
    BY <1>1 DEF Instruction
  <2>7. renamed \in Instruction
    BY <2>2, <2>4, <2>6 DEF Instruction
  <2>8. ASSUME insn.op \in {"load", "store"} PROVE insn.slot \in 1 .. Cardinality(DOMAIN new)
    BY <1>1, <2>8
  <2> QED BY <2>2, <2>5, <2>7, <2>8 DEF InsnsOk, InvolvedIn
<1>8. useInsns \in Seq(Seq(Ok)) /\ defInsns \in Seq(Seq(Ok)) /\ <<renamed>> \in Seq(Ok)
  <2> DEFINE load(k)  == IF regs[k] \in insn.use THEN <<LoadSlot(temp(k), slot(k))>> ELSE <<>>
             store(k) == IF regs[k] \in insn.def THEN <<StoreSlot(temp(k), slot(k))>> ELSE <<>>
  <2>1. \A k \in 1 .. n : load(k) \in Seq(Ok) /\ store(k) \in Seq(Ok)
    <3> HIDE DEF Ok, temp, slot, regs, n
    <3> QED BY <1>5
  <2>2. /\ useInsns = [k \in 1 .. n |-> load(k)]
        /\ defInsns = [k \in 1 .. n |-> store(k)]
    <3> HIDE DEF temp, slot, n
    <3> QED BY <1>2
  <2> DEFINE Q == Seq(Ok)
  <2> HIDE DEF Ok, load, store, useInsns, defInsns, n, renamed
  <2>3. <<renamed>> \in Seq(Ok)
    BY <1>7
  <2>4. \A k \in 1 .. n : load(k) \in Q /\ store(k) \in Q
    BY <2>1
  <2> HIDE DEF Q
  <2>5. n \in Nat
    BY <1>2
  <2>6. \A f : f \in [1 .. n -> Q] => f \in Seq(Q)
    BY <2>5
  <2>7. useInsns \in [1 .. n -> Q] /\ defInsns \in [1 .. n -> Q]
    BY <2>2, <2>4
  <2>8. useInsns \in Seq(Q) /\ defInsns \in Seq(Q)
    BY <2>6, <2>7
  <2> QED BY <2>3, <2>8 DEF Q
<1>9. RewriteInsn(insn, spilled, new, fresh) = FlattenSeq(useInsns) \o <<renamed>> \o FlattenSeq(defInsns)
  BY DEF RewriteInsn
<1> HIDE DEF Ok, useInsns, defInsns, renamed
<1>10. FlattenSeq(useInsns) \in Seq(Ok) /\ FlattenSeq(defInsns) \in Seq(Ok)
  BY <1>8, FlattenRange
<1>11. RewriteInsn(insn, spilled, new, fresh) \in Seq(Ok)
  BY <1>8, <1>9, <1>10
<1> QED BY <1>11 DEF Ok

\* rewriteSpills, given the slots that AddSlots made.
LEMMA RewriteSpillsOk ==
  ASSUME NEW names, NEW old \in Nat, NEW b \in Seq(InsnsOk(names, old)),
         NEW new, new \in [DOMAIN new -> 1 .. Cardinality(DOMAIN new)],
         NEW spilled \in Seq({r \in Register : r.size = 64}),
         DOMAIN new = names \cup {r.name : r \in Range(spilled)},
         Cardinality(names) \in Nat, Cardinality(names) <= Cardinality(DOMAIN new),
         Cardinality(DOMAIN new) \in Nat,
         \A n \in DOMAIN new : n[1] = "S" => n[2] <= old
  PROVE  LET top == old + SpillTempsBefore(b, spilled, Len(b) + 1) IN
         /\ top \in Nat /\ old <= top
         /\ rewriteSpills(b, spilled, new, old) \in Seq(InsnsOk(DOMAIN new, top))
<1> DEFINE top == old + SpillTempsBefore(b, spilled, Len(b) + 1)
           Ok  == InsnsOk(DOMAIN new, top)
           Q   == Seq(Ok)
           m   == Len(b)
           fresh(i) == old + SpillTempsBefore(b, spilled, i)
           one(i)   == RewriteInsn(b[i], spilled, new, fresh(i))
<1>1. m \in Nat /\ DOMAIN b = 1 .. m
  OBVIOUS
<1>2. SpillTempsBefore(b, spilled, m + 1) \in Nat
  <2> DEFINE SP == Range(spilled)
             P  == {p \in (1 .. m + 1 - 1) \X SP : p[2] \in InvolvedIn(b[p[1]])}
             I  == 1 .. m + 1 - 1
  <2>1. IsFiniteSet(SP) /\ IsFiniteSet(I)
    <3>1. IsFiniteSet(SP)
      BY RangeFinite
    <3>2. 1 \in Int /\ m + 1 - 1 \in Int
      BY <1>1
    <3> QED BY <3>1, <3>2, FS_Interval
  <2>2. P \in SUBSET (I \X SP)
    OBVIOUS
  <2> HIDE DEF P, I, SP
  <2>3. IsFiniteSet(I \X SP)
    BY <2>1, FS_Product
  <2>4. Cardinality(P) \in Nat
    BY <2>2, <2>3, FS_Subset, FS_CardinalityType
  <2> QED BY <2>4 DEF SpillTempsBefore, P, SP
<1>3. top \in Nat /\ old <= top
  BY <1>2
<1>4. \A i \in 1 .. m : one(i) \in Q
  <2> SUFFICES ASSUME NEW i \in 1 .. m PROVE one(i) \in Q
    OBVIOUS
  <2>1. b[i] \in InsnsOk(names, old)
    BY <1>1
  <2> DEFINE insn == b[i]
             before == SpillTempsBefore(b, spilled, i)
             here == Cardinality(InvolvedIn(insn) \cap Range(spilled))
  <2>2. before \in Nat /\ before + here <= SpillTempsBefore(b, spilled, m + 1)
    BY <1>1, TempsOfInsn
  <2>3. here \in Nat
    <3> DEFINE S == InvolvedIn(insn) \cap Range(spilled)
    <3>1. S \in SUBSET Range(spilled) /\ IsFiniteSet(Range(spilled))
      BY RangeFinite
    <3> HIDE DEF S
    <3>2. Cardinality(S) \in Nat
      BY <3>1, FS_Subset, FS_CardinalityType
    <3> QED BY <3>2 DEF S
  <2>4. fresh(i) \in Nat /\ old <= fresh(i) /\ fresh(i) + here <= top
    <3> DEFINE all == SpillTempsBefore(b, spilled, m + 1)
    <3>1. before \in Nat /\ all \in Nat /\ here \in Nat /\ before + here <= all
      BY <1>2, <2>2, <2>3
    <3>2. fresh(i) = old + before /\ top = old + all
      OBVIOUS
    <3> HIDE DEF before, all, here, fresh, top
    <3> QED BY <3>1, <3>2
  <2>5. insn \in InsnsOk(names, old)
    BY <2>1
  <2> DEFINE f == fresh(i)
             R == RewriteInsn(insn, spilled, new, f)
  <2>6. f \in Nat /\ old <= f /\ f + Cardinality(InvolvedIn(insn) \cap Range(spilled)) <= top
    BY <2>4
  <2>7. one(i) = R
    OBVIOUS
  <2> HIDE DEF insn, f, top, fresh, one
  <2>8. R \in Seq(InsnsOk(DOMAIN new, top))
    BY <1>3, <2>5, <2>6, RewriteInsnOk
  <2> QED BY <2>7, <2>8
<1>5. rewriteSpills(b, spilled, new, old) = FlattenSeq([i \in 1 .. m |-> one(i)])
  BY <1>1 DEF rewriteSpills
<1> DEFINE ss == [i \in 1 .. m |-> one(i)]
<1>6. ss \in Seq(Seq(Ok))
  <2> HIDE DEF Q, one, m
  <2>1. \A g : g \in [1 .. m -> Q] => g \in Seq(Q)
    BY <1>1
  <2>2. ss \in [1 .. m -> Q]
    BY <1>4
  <2> QED BY <2>1, <2>2 DEF Q
<1>7. rewriteSpills(b, spilled, new, old) = FlattenSeq(ss)
  BY <1>5
<1> HIDE DEF ss, Ok, top
<1>8. rewriteSpills(b, spilled, new, old) \in Seq(Ok)
  BY <1>6, <1>7, FlattenRange
<1> QED BY <1>3, <1>8 DEF Ok, top

-----------------------------------------------------------------------------
(* The first body *)

\* No function uses a part of a register, as SETcc does.
WholeRegisters ==
  \A f \in Functions : \A i \in DOMAIN f.body :
    \A r \in f.body[i].def \cup f.body[i].use : r.size = 64

\* What instructions may mention before the first round.
Fresh == {r \in Register : r.size = 64 /\ r.name[1] # "S"}

\* Instructions of any other kind than spill code.
LEMMA InsnIsOk ==
  ASSUME NEW op \in Opcode \ {"load", "store"},
         NEW def \in SUBSET Fresh, NEW use \in SUBSET Fresh
  PROVE  Insn(op, def, use) \in InsnsOk({}, 0)
<1> DEFINE none == <<"none", 0>>
<1>1. none \in LabelName
  BY DEF LabelName
<1>2. Insn(op, def, use) = [op |-> op, def |-> def, use |-> use, lab |-> none, slot |-> 0]
  BY DEF Insn
<1> HIDE DEF none
<1>3. Insn(op, def, use) \in Instruction
  BY <1>1, <1>2 DEF Instruction, Fresh
<1>4. InvolvedIn(Insn(op, def, use)) \subseteq Fresh
  BY <1>2 DEF InvolvedIn
<1> QED BY <1>2, <1>3, <1>4 DEF InsnsOk, Fresh

\* The registers around the body.
LEMMA FreshRegisters ==
  /\ \A j \in 0 .. K-1 : x86(j) \in Fresh /\ calleeTemp(j) \in Fresh
  /\ x86(RSP) \in Fresh
  /\ \A j \in Nat : Abstract(<<"ARG", j>>) \in Fresh
<1>1. \A j \in Nat : x86(j) \in Fresh
  <2> SUFFICES ASSUME NEW j \in Nat PROVE x86(j) \in Fresh
    OBVIOUS
  <2>1. x86(j) \in Register /\ x86(j).size = 64 /\ Isx86(x86(j))
    BY MachineIsRegister
  <2> QED BY <2>1 DEF Isx86, Fresh
<1>2. \A p \in {"CE", "ARG"} : \A j \in Nat : Abstract(<<p, j>>) \in Fresh
  <2> SUFFICES ASSUME NEW p \in {"CE", "ARG"}, NEW j \in Nat PROVE Abstract(<<p, j>>) \in Fresh
    OBVIOUS
  <2>1. p \in {"CE", "ARG", "S"} /\ p # "S"
    OBVIOUS
  <2> DEFINE r == Abstract(<<p, j>>)
  <2>2. r \in Register /\ r.size = 64 /\ r.name[1] = p
    BY <2>1, AbstractIsRegister
  <2> HIDE DEF r
  <2>3. r \in Fresh
    BY <2>1, <2>2 DEF Fresh
  <2> QED BY <2>3 DEF r
<1>3. 0 .. K-1 \subseteq Nat /\ RSP \in Nat
  BY X86Assumption
<1> QED BY <1>1, <1>2, <1>3 DEF calleeTemp

\* Ascending lists ordinals.
LEMMA AscendingTypes ==
  ASSUME NEW S
  PROVE  Ascending(S) \in Seq(0 .. K-1) /\ Reverse(Ascending(S)) \in Seq(0 .. K-1)
<1> DEFINE T == 0 .. K-1
           Q == Seq(T)
           one(k) == IF k-1 \in S THEN <<k-1>> ELSE <<>>
           ss == [k \in 1 .. K |-> one(k)]
           s  == Ascending(S)
<1>1. K \in Nat
  BY X86Assumption
<1>2. \A k \in 1 .. K : one(k) \in Q
  <2> SUFFICES ASSUME NEW k \in 1 .. K PROVE one(k) \in Q
    OBVIOUS
  <2>1. k-1 \in T
    BY <1>1
  <2> HIDE DEF T
  <2>2. <<k-1>> \in Seq(T) /\ <<>> \in Seq(T)
    BY <2>1
  <2> QED BY <2>2
<1>3. s = FlattenSeq(ss)
  BY DEF Ascending
<1>4. ss \in Seq(Seq(T))
  <2> HIDE DEF Q, one
  <2>1. \A g : g \in [1 .. K -> Q] => g \in Seq(Q)
    BY <1>1
  <2>2. ss \in [1 .. K -> Q]
    BY <1>2
  <2> QED BY <2>1, <2>2 DEF Q
<1> HIDE DEF ss, T, s
<1>5. s \in Seq(T)
  BY <1>3, <1>4, FlattenRange
<1>6. Reverse(s) \in Seq(T)
  BY <1>5 DEF Reverse
<1> QED BY <1>5, <1>6 DEF T, s

\* The body of the first round.
LEMMA FirstBodyOk ==
  ASSUME WholeRegisters, NEW f \in Functions
  PROVE  withCalleeSaved(f) \in Seq(InsnsOk({}, 0))
<1> DEFINE Ok == InsnsOk({}, 0)
           T  == 0 .. K-1
           up(S)   == Ascending(S)
           down(S) == Reverse(Ascending(S))
<1>1. \A S : up(S) \in Seq(T) /\ down(S) \in Seq(T)
  BY AscendingTypes
<1>2. \A d, s \in Fresh : MOV(d, s) \in Ok
  <2>1. "mov" \in Opcode \ {"load", "store"}
    BY DEF Opcode
  <2> HIDE DEF Ok
  <2> SUFFICES ASSUME NEW d \in Fresh, NEW s \in Fresh PROVE MOV(d, s) \in Ok
    OBVIOUS
  <2>2. {d} \in SUBSET Fresh /\ {s} \in SUBSET Fresh
    OBVIOUS
  <2> QED BY <2>1, <2>2, InsnIsOk DEF MOV, Ok
<1>3. /\ \A j \in T : PUSH(x86(j)) \in Ok /\ POP(x86(j)) \in Ok
      /\ PAD \in Ok /\ Arith(x86(RSP), x86(RSP)) \in Ok
  <2>1. {"push", "pop", "pad", "arith"} \subseteq Opcode \ {"load", "store"}
    BY DEF Opcode
  <2>2. x86s({RSP}) = {x86(RSP)}
    BY DEF x86s
  <2>3. \A j \in T : {x86(j)} \cup {x86(RSP)} \in SUBSET Fresh
    BY FreshRegisters
  <2>4. {x86(RSP)} \in SUBSET Fresh /\ {x86(RSP), x86(RSP)} \in SUBSET Fresh
    BY FreshRegisters
  <2> HIDE DEF Ok, T
  <2>5. \A op \in {"push", "pop", "pad", "arith"} : \A d, u \in SUBSET Fresh : Insn(op, d, u) \in Ok
    BY <2>1, InsnIsOk DEF Ok
  <2> QED BY <2>2, <2>3, <2>4, <2>5 DEF PUSH, POP, PAD, Arith
<1>4. /\ saveCallees \in Seq(Ok) /\ restoreCallees \in Seq(Ok)
      /\ saveCallers \in Seq(Ok) /\ popCallers \in Seq(Ok)
  <2>1. \A j \in T : x86(j) \in Fresh /\ calleeTemp(j) \in Fresh
    BY FreshRegisters
  <2> HIDE DEF Ok, T
  <2>2. \A j \in T : MOV(calleeTemp(j), x86(j)) \in Ok /\ MOV(x86(j), calleeTemp(j)) \in Ok
    BY <1>2, <2>1
  <2> DEFINE a == up(CalleeSaved)
             b == down(CalleeSaved)
             c == up(hackyCallerSavedRegs)
             d == down(hackyCallerSavedRegs)
  <2>3. a \in Seq(T) /\ b \in Seq(T) /\ c \in Seq(T) /\ d \in Seq(T)
    BY <1>1
  <2>4. /\ saveCallees = [k \in DOMAIN a |-> MOV(calleeTemp(a[k]), x86(a[k]))]
        /\ restoreCallees = [k \in DOMAIN b |-> MOV(x86(b[k]), calleeTemp(b[k]))]
        /\ saveCallers = <<PAD>> \o [k \in DOMAIN c |-> PUSH(x86(c[k]))]
        /\ popCallers = [k \in DOMAIN d |-> POP(x86(d[k]))] \o <<Arith(x86(RSP), x86(RSP))>>
    BY DEF saveCallees, restoreCallees, saveCallers, popCallers
  <2> HIDE DEF a, b, c, d
  <2>5. /\ \A k \in DOMAIN a : a[k] \in T
        /\ \A k \in DOMAIN b : b[k] \in T
        /\ \A k \in DOMAIN c : c[k] \in T
        /\ \A k \in DOMAIN d : d[k] \in T
    BY <2>3, SeqElements
  <2> DEFINE a2 == [k \in DOMAIN a |-> MOV(calleeTemp(a[k]), x86(a[k]))]
             b2 == [k \in DOMAIN b |-> MOV(x86(b[k]), calleeTemp(b[k]))]
             c2 == [k \in DOMAIN c |-> PUSH(x86(c[k]))]
             d2 == [k \in DOMAIN d |-> POP(x86(d[k]))]
  <2>6. a2 \in [DOMAIN a -> Ok] /\ b2 \in [DOMAIN b -> Ok]
    BY <2>2, <2>5
  <2>7. c2 \in [DOMAIN c -> Ok] /\ d2 \in [DOMAIN d -> Ok]
    BY <1>3, <2>5
  <2>8. /\ saveCallees = a2 /\ restoreCallees = b2
        /\ saveCallers = <<PAD>> \o c2 /\ popCallers = d2 \o <<Arith(x86(RSP), x86(RSP))>>
    BY <2>4
  <2> HIDE DEF a2, b2, c2, d2
  <2>9. a2 \in Seq(Ok) /\ b2 \in Seq(Ok) /\ c2 \in Seq(Ok) /\ d2 \in Seq(Ok)
    BY <2>3, <2>6, <2>7, SameLength
  <2>10. saveCallers \in Seq(Ok) /\ popCallers \in Seq(Ok)
    BY <1>3, <2>8, <2>9
  <2> QED BY <2>8, <2>9, <2>10
<1>5. populateArguments(f.args, f.onStack) \in Seq(Ok)
  <2> DEFINE args == f.args
             n    == Len(args) + f.onStack
             arg(k) == IF k <= Len(args) THEN MOV(Abstract(<<"ARG", k>>), x86(args[k]))
                                         ELSE MOVAbove(Abstract(<<"ARG", k>>))
  <2>1. args \in Seq(T) /\ n \in Nat
    BY FunctionsAssumption
  <2>2. \A r \in Fresh : MOVAbove(r) \in Ok
    <3>1. "fetch" \in Opcode \ {"load", "store"}
      BY DEF Opcode
    <3>2. x86s({RBP}) \in SUBSET Fresh
      <4>1. x86s({RBP}) = {x86(RBP)} /\ RBP \in 0 .. K-1
        BY X86Assumption DEF x86s
      <4> QED BY <4>1, FreshRegisters
    <3> HIDE DEF Ok
    <3> QED BY <3>1, <3>2, InsnIsOk DEF MOVAbove, Ok
  <2>3. ASSUME NEW k \in 1 .. n PROVE arg(k) \in Ok
    <3>1. k \in Nat /\ Abstract(<<"ARG", k>>) \in Fresh
      BY <2>1, FreshRegisters
    <3> HIDE DEF args, Ok, T
    <3>2. CASE k <= Len(args)
      <4>1. k \in DOMAIN args
        BY <2>1, <3>1, <3>2
      <4>2. x86(args[k]) \in Fresh
        BY <2>1, <4>1, SeqElements, FreshRegisters DEF T
      <4> QED BY <1>2, <3>1, <3>2, <4>2
    <3>3. CASE ~(k <= Len(args))
      BY <2>2, <3>1, <3>3
    <3> QED BY <3>2, <3>3
  <2>4. populateArguments(f.args, f.onStack) = [k \in 1 .. n |-> arg(k)]
    BY DEF populateArguments
  <2> HIDE DEF n, arg, Ok
  <2> QED BY <2>1, <2>3, <2>4
<1>6. f.body \in Seq(Ok)
  <2> DEFINE b == f.body
  <2>1. b \in Seq(Instruction)
    BY FunctionsAssumption
  <2>2. \A i \in DOMAIN b :
          /\ b[i].op \notin {"load", "store"}
          /\ \A r \in b[i].def \cup b[i].use : r.name[1] # "S" /\ r.size = 64
    BY FunctionsAssumption DEF WholeRegisters
  <2> HIDE DEF b
  <2>3. \A i \in DOMAIN b : b[i] \in Ok
    BY <2>1, <2>2 DEF InsnsOk, InvolvedIn
  <2> HIDE DEF Ok
  <2>4. b \in Seq(Ok)
    BY <2>1, <2>3
  <2> QED BY <2>4 DEF b
<1> HIDE DEF Ok
<1>7. \A insn \in Ok : ExpandInsn(insn) \in Seq(Ok)
  <2> SUFFICES ASSUME NEW insn \in Ok PROVE ExpandInsn(insn) \in Seq(Ok)
    OBVIOUS
  <2>1. <<insn>> \in Seq(Ok)
    OBVIOUS
  <2>2. restoreCallees \o <<insn>> \in Seq(Ok)
    BY <1>4, <2>1
  <2>3. CASE insn.op = "leave"
    BY <2>2, <2>3 DEF ExpandInsn
  <2>4. CASE insn.op = "callersavepush"
    BY <1>4, <2>4 DEF ExpandInsn
  <2>5. CASE insn.op = "callersavepop"
    BY <1>4, <2>5 DEF ExpandInsn
  <2>6. CASE insn.op \notin {"leave", "callersavepush", "callersavepop"}
    BY <2>1, <2>6 DEF ExpandInsn
  <2> QED BY <2>3, <2>4, <2>5, <2>6
<1> DEFINE b  == f.body
           Q  == Seq(Ok)
           ss == [i \in DOMAIN b |-> ExpandInsn(b[i])]
<1>8. ss \in Seq(Seq(Ok))
  <2>1. b \in Seq(Ok)
    BY <1>6
  <2>2. \A i \in DOMAIN b : ExpandInsn(b[i]) \in Q
    BY <1>7, <2>1
  <2> HIDE DEF b, Q
  <2>3. ss \in Seq(Q)
    BY <2>1, <2>2
  <2> QED BY <2>3 DEF Q
<1>9. withCalleeSaved(f) = saveCallees \o populateArguments(f.args, f.onStack) \o FlattenSeq(ss)
  BY DEF withCalleeSaved
<1> HIDE DEF ss
<1>10. FlattenSeq(ss) \in Seq(Ok)
  BY <1>8, FlattenRange
<1>11. withCalleeSaved(f) \in Seq(Ok)
  BY <1>4, <1>5, <1>9, <1>10
<1> QED BY <1>11 DEF Ok

-----------------------------------------------------------------------------
(* The rounds *)

\* A register is spilled at most once in a round.
SpilledOnce == InRound => IsInjective(spilledNodes)

\* Between the rounds: the slots given out so far, and the body without the
\* registers that have one.
SpillInv ==
  /\ freshSpillTempCount \in Nat
  /\ SlotsOk(offsetMap, freshSpillTempCount)
  /\ body \in Seq(InsnsOk(DOMAIN offsetMap, freshSpillTempCount))

\* Popping a register leaves the others on the stack, so none comes again.
LEMMA SpilledOnceCorrect == SafetySpec => []SpilledOnce
<1>1. Init => SpilledOnce
  BY DEF Init, SpilledOnce, InRound
<1>2. IInv /\ SpilledOnce /\ [Next]_vars => SpilledOnce'
  <2> SUFFICES ASSUME IInv, SpilledOnce, [Next]_vars PROVE SpilledOnce'
    OBVIOUS
  <2>1. CASE Spill
    <3> DEFINE n == Head(selectStack)
               s == spilledNodes
               t == Append(s, n)
    <3>1. /\ pc = "color" /\ selectStack # <<>> /\ spilledNodes' = t
      BY <2>1 DEF Spill
    <3>2. InRound
      BY <3>1 DEF InRound
    <3>3. /\ selectStack \in Seq(Involved(body)) /\ IsInjective(selectStack)
          /\ s \in Seq(Involved(body)) /\ Range(selectStack) \cap Range(s) = {}
      BY <3>2 DEF IInv, TypeOK, Parts
    <3>4. n \in Range(selectStack)
      BY <3>1, <3>3, PopSeq
    <3>5. IsInjective(s)
      BY <3>2 DEF SpilledOnce
    <3> HIDE DEF n, s
    <3>6. /\ DOMAIN t = 1 .. Len(s) + 1 /\ DOMAIN s = 1 .. Len(s) /\ Len(s) \in Nat
          /\ t[Len(s) + 1] = n /\ \A i \in 1 .. Len(s) : t[i] = s[i]
      BY <3>3
    <3>7. \A i \in DOMAIN s : s[i] # n
      BY <3>3, <3>4 DEF Range
    <3>8. \A i \in DOMAIN t : i \in DOMAIN s \/ i = Len(s) + 1
      BY <3>6
    <3> HIDE DEF t
    <3>9. IsInjective(t)
      BY <3>5, <3>6, <3>7, <3>8 DEF IsInjective
    <3> QED BY <3>1, <3>9 DEF SpilledOnce
  <2>2. CASE Build
    BY <2>2 DEF Build, SpilledOnce, IsInjective
  <2>3. CASE Analyse \/ Respill \/ ChaitinError
    BY <2>3 DEF Analyse, Respill, ChaitinError, SpilledOnce, InRound
  <2>4. CASE UNCHANGED spilledNodes /\ (InRound' => InRound)
    BY <2>4 DEF SpilledOnce
  <2>5. ASSUME NEW n \in simplifyWorkList, Simplify(n) \/ SimplifyTimeout(n) PROVE SpilledOnce'
    BY <2>3, <2>4, <2>5 DEF Simplify, SimplifyTimeout, InRound, result
  <2>6. ASSUME NEW u \in freezeWorkList, Freeze(u) PROVE SpilledOnce'
    BY <2>4, <2>6 DEF Freeze, InRound, result
  <2>7. CASE StartColoring \/ Color \/ Finish \/ ClockExpires \/ UNCHANGED vars
    BY <2>4, <2>7 DEF StartColoring, Color, Finish, ClockExpires, vars, InRound, result
  <2>8. CASE BuildTimeout \/ ColoringTimeout
    BY <2>3, <2>8 DEF BuildTimeout, ColoringTimeout
  <2> QED BY <2>1, <2>2, <2>3, <2>5, <2>6, <2>7, <2>8 DEF Next, Step
<1> QED BY <1>1, <1>2, IInvCorrect, PTL DEF SafetySpec

\* Slots stay good when more temporaries are made.
LEMMA SlotsOkLater ==
  ASSUME NEW map, NEW fresh \in Nat, NEW later \in Nat, fresh <= later, SlotsOk(map, fresh)
  PROVE  SlotsOk(map, later)
<1>1. \A x \in 0 .. fresh : x \in 0 .. later
  OBVIOUS
<1> QED BY <1>1 DEF SlotsOk

\* What the allocator spills has a name of its own, which has no slot yet.
LEMMA SpilledNodesOk ==
  ASSUME SpillInv, spilledNodes \in Seq(Involved(body)), IsInjective(spilledNodes)
  PROVE  /\ spilledNodes \in Seq({r \in Register : r.size = 64})
         /\ \A j, k \in DOMAIN spilledNodes :
              spilledNodes[j].name = spilledNodes[k].name => j = k
         /\ \A k \in DOMAIN spilledNodes :
              /\ spilledNodes[k].name \notin DOMAIN offsetMap
              /\ spilledNodes[k].name[1] = "S" => spilledNodes[k].name[2] \in 0 .. freshSpillTempCount
<1> DEFINE s == spilledNodes
           D == DOMAIN offsetMap
           f == freshSpillTempCount
           R == {r \in Register : r.size = 64}
<1>1. \A i \in DOMAIN body : body[i] \in InsnsOk(D, f)
  BY SeqElements DEF SpillInv
<1>2. f \in Nat
  BY DEF SpillInv
<1> HIDE DEF f
<1>3. \A r \in Involved(body) : /\ r \in R /\ r.name \notin D
                                /\ r.name[1] = "S" => r.name[2] \in 0 .. f
  <2> SUFFICES ASSUME NEW r \in Involved(body)
               PROVE  r \in R /\ r.name \notin D /\ (r.name[1] = "S" => r.name[2] \in 0 .. f)
    OBVIOUS
  <2>1. PICK i \in DOMAIN body : r \in InvolvedIn(body[i])
    BY DEF Involved
  <2>2. /\ body[i] \in Instruction /\ r \in body[i].def \cup body[i].use /\ r.size = 64
        /\ r.name \notin D /\ (r.name[1] = "S" => r.name[2] <= f)
    BY <1>1, <2>1 DEF InsnsOk, InvolvedIn
  <2>3. r \in Register
    BY <2>2 DEF Instruction
  <2>4. r.name[2] \in Nat
    BY <2>3 DEF Register, RegisterName
  <2> QED BY <1>2, <2>2, <2>3, <2>4
<1>4. \A k \in DOMAIN s : s[k] \in Involved(body)
  BY SeqElements
<1>5. s \in Seq(R)
  <2>1. s \in [DOMAIN s -> R]
    <3>1. s = [k \in DOMAIN s |-> s[k]]
      OBVIOUS
    <3> QED BY <1>3, <1>4, <3>1
  <2> HIDE DEF R, s
  <2> QED BY <2>1, SameLength DEF s
<1>6. \A j, k \in DOMAIN s : s[j].name = s[k].name => j = k
  <2> SUFFICES ASSUME NEW j \in DOMAIN s, NEW k \in DOMAIN s, s[j].name = s[k].name PROVE j = k
    OBVIOUS
  <2>1. s[j] \in R /\ s[k] \in R
    BY <1>3, <1>4
  <2> HIDE DEF s
  <2>2. s[j] = s[k]
    BY <2>1 DEF Register
  <2> QED BY <2>2 DEF IsInjective, s
<1> QED BY <1>3, <1>4, <1>5, <1>6 DEF f

\* A round that spills gives out good slots and rewrites the body with them.
LEMMA RespillKeepsSpillInv ==
  ASSUME IInv, SpilledOnce, SpillInv, Respill
  PROVE  SpillInv'
<1> DEFINE s == spilledNodes
           D == DOMAIN offsetMap
           f == freshSpillTempCount
           R == {r \in Register : r.size = 64}
           new == AddSlots(offsetMap, s)
           top == f + SpillTempsBefore(body, s, Len(body) + 1)
           next == rewriteSpills(body, s, new, f)
<1>1. /\ offsetMap' = new /\ freshSpillTempCount' = top /\ body' = next /\ InRound
  BY DEF Respill, InRound
<1>2. s \in Seq(Involved(body)) /\ IsInjective(s)
  BY <1>1 DEF IInv, TypeOK, SpilledOnce
<1>3. /\ s \in Seq(R)
      /\ \A j, k \in DOMAIN s : s[j].name = s[k].name => j = k
      /\ \A k \in DOMAIN s : /\ s[k].name \notin D
                             /\ s[k].name[1] = "S" => s[k].name[2] \in 0 .. f
  BY <1>2, SpilledNodesOk
<1>4. f \in Nat /\ SlotsOk(offsetMap, f) /\ body \in Seq(InsnsOk(D, f))
  BY DEF SpillInv
<1> HIDE DEF s, f, R
<1>5. /\ SlotsOk(new, f)
      /\ DOMAIN new = D \cup {s[k].name : k \in DOMAIN s}
      /\ Cardinality(D) \in Nat /\ Cardinality(D) <= Cardinality(DOMAIN new)
  BY <1>3, <1>4, AddSlotsOk
<1> HIDE DEF new
<1>6. /\ new \in [DOMAIN new -> 1 .. Cardinality(DOMAIN new)]
      /\ \A n \in DOMAIN new : n[1] = "S" => n[2] \in 0 .. f
      /\ IsFiniteSet(DOMAIN new)
  BY <1>5 DEF SlotsOk
<1>7. /\ Cardinality(DOMAIN new) \in Nat
      /\ \A n \in DOMAIN new : n[1] = "S" => n[2] <= f
      /\ DOMAIN new = D \cup {r.name : r \in Range(s)}
  <2>1. \A x \in 0 .. f : x <= f
    BY <1>4
  <2>2. {s[k].name : k \in DOMAIN s} = {r.name : r \in Range(s)}
    BY DEF Range
  <2> QED BY <1>5, <1>6, <2>1, <2>2, FS_CardinalityType
<1> HIDE DEF D
<1>8. top \in Nat /\ f <= top /\ next \in Seq(InsnsOk(DOMAIN new, top))
  BY <1>3, <1>4, <1>5, <1>6, <1>7, RewriteSpillsOk DEF R
<1> HIDE DEF top, next
<1>9. SlotsOk(new, top)
  BY <1>4, <1>5, <1>8, SlotsOkLater
<1> QED BY <1>1, <1>8, <1>9 DEF SpillInv

\* The invariant that the slots and the bodies of all rounds satisfy.
LEMMA SpillInvCorrect == ASSUME WholeRegisters PROVE SafetySpec => []SpillInv
<1>1. Init => SpillInv
  <2> SUFFICES ASSUME Init PROVE SpillInv
    OBVIOUS
  <2>1. func \in Functions /\ body = withCalleeSaved(func) /\ freshSpillTempCount = 0
    BY DEF Init
  <2>2. DOMAIN offsetMap = {}
    BY DEF Init, Empty
  <2>3. SlotsOk(offsetMap, 0)
    <3>1. IsFiniteSet({})
      BY FS_EmptySet
    <3>2. offsetMap = [n \in DOMAIN offsetMap |-> offsetMap[n]]
      BY DEF Init, Empty
    <3> QED BY <2>2, <3>1, <3>2 DEF SlotsOk
  <2>4. body \in Seq(InsnsOk({}, 0))
    BY <2>1, FirstBodyOk
  <2> QED BY <2>1, <2>2, <2>3, <2>4 DEF SpillInv
<1>2. IInv /\ SpilledOnce /\ SpillInv /\ [Next]_vars => SpillInv'
  <2> SUFFICES ASSUME IInv, SpilledOnce, SpillInv, [Next]_vars PROVE SpillInv'
    OBVIOUS
  <2>1. CASE Respill
    BY <2>1, RespillKeepsSpillInv
  <2>2. CASE UNCHANGED <<body, offsetMap, freshSpillTempCount>>
    BY <2>2 DEF SpillInv
  <2>3. ASSUME NEW n \in simplifyWorkList, Simplify(n) \/ SimplifyTimeout(n) PROVE SpillInv'
    BY <2>2, <2>3 DEF Simplify, SimplifyTimeout, ChaitinError, input
  <2>4. ASSUME NEW u \in freezeWorkList, Freeze(u) PROVE SpillInv'
    BY <2>2, <2>4 DEF Freeze, input
  <2>5. CASE Analyse \/ Build \/ StartColoring \/ Color \/ Spill \/ Finish
    BY <2>2, <2>5 DEF Analyse, Build, StartColoring, Color, Spill, Finish, input
  <2>6. CASE BuildTimeout \/ ColoringTimeout \/ ClockExpires \/ UNCHANGED vars
    BY <2>2, <2>6 DEF BuildTimeout, ColoringTimeout, ChaitinError, ClockExpires, vars, input
  <2> QED BY <2>1, <2>3, <2>4, <2>5, <2>6 DEF Next, Step
<1> QED BY <1>1, <1>2, IInvCorrect, SpilledOnceCorrect, PTL DEF SafetySpec

\* Over all rounds no two spilled names share a slot, and spill code stays
\* within the frame, when no function uses a part of a register.
THEOREM SlotsDistinctCorrect == ASSUME WholeRegisters PROVE SafetySpec => []SlotsDistinct
<1>1. SpillInv => SlotsDistinct
  <2> SUFFICES ASSUME SpillInv PROVE SlotsDistinct
    OBVIOUS
  <2>1. \A i \in DOMAIN body : body[i] \in InsnsOk(DOMAIN offsetMap, freshSpillTempCount)
    BY SeqElements DEF SpillInv
  <2> QED BY <2>1 DEF SpillInv, SlotsOk, InsnsOk, SlotsDistinct
<1> QED BY <1>1, SpillInvCorrect, PTL

\* A name that has been given a slot never occurs in a body again: what
\* rewriteSpills puts in its place is a temporary of one instruction.
THEOREM SpilledGoneCorrect == ASSUME WholeRegisters PROVE SafetySpec => []SpilledGone
<1>1. SpillInv => SpilledGone
  <2> SUFFICES ASSUME SpillInv, NEW r \in Involved(body) PROVE r.name \notin DOMAIN offsetMap
    BY DEF SpilledGone
  <2>1. \A i \in DOMAIN body : body[i] \in InsnsOk(DOMAIN offsetMap, freshSpillTempCount)
    BY SeqElements DEF SpillInv
  <2>2. PICK i \in DOMAIN body : r \in InvolvedIn(body[i])
    BY DEF Involved
  <2> QED BY <2>1, <2>2 DEF InsnsOk
<1> QED BY <1>1, SpillInvCorrect, PTL

\* In the code that the allocator delivers, no definition overwrites a
\* register that is live across it, after any number of spills.
THEOREM NoClobberAlways == ASSUME WholeRegisters PROVE SafetySpec => []NoClobber
<1>1. SpillInv => UniqueNames
  <2> SUFFICES ASSUME SpillInv, NEW r \in Involved(body), NEW s \in Involved(body), Same(r, s)
               PROVE  r = s
    BY DEF UniqueNames
  <2>1. \A i \in DOMAIN body : body[i] \in InsnsOk(DOMAIN offsetMap, freshSpillTempCount)
    BY SeqElements DEF SpillInv
  <2>2. \A u \in Involved(body) : u \in Register /\ u.size = 64
    BY <2>1 DEF Involved, InvolvedIn, InsnsOk, Instruction
  <2> QED BY <2>2 DEF Same, Register
<1> QED BY <1>1, SpillInvCorrect, NoClobberCorrect, PTL
=============================================================================
