----------------------------- MODULE StackTyping -----------------------------
(***************************************************************************)
(* What is known of the stack at every point of the code of a function,    *)
(* whatever the numbers of its parameters, results and spilled registers   *)
(* and whichever allocator made the code: how far RSP is below the return  *)
(* address, and where the registers are that the function still needs or   *)
(* has to give back.                                                       *)
(***************************************************************************)
EXTENDS GeneratedCode, RecursionLemmas

Allocators == {"chaitin", "trivial"}

(* Registers and instructions *)
AbstractRegister == {"_ARG", "_RV", "$CE", "$TL", "$A", "param", "result"} \X Int
Opcode == {"mov", "add", "sub", "push", "pop", "enter", "leave", "call", "ret",
           "callersavepush", "callersavepop"}
Register == x86Registers \cup AbstractRegister
Operand == [kind : {"reg", "mem", "const"}, r : Register, n : Int]
Instruction == [op : Opcode, dest : Operand, src : Operand, label : {"none"} \cup (1 .. 3)]

\* The registers whose value at the entry of the function matters: RDI may point to
\* the room for its results.
Tracked == Range(calleeSaved) \cup {RDI}

\* Registers of the program, as opposed to the allocator's copies of callee-saved ones.
Temporary(r) == r \in AbstractRegister /\ \A j \in DOMAIN calleeSaved : r # CE(j)

(***************************************************************************)
(* A point of the code.  phase is 0 at the entry, 1 between ENTER and      *)
(* LEAVE, 2 after LEAVE and 3 after RET; depth and room say how far RSP    *)
(* and, when room is not 0, RDI are below the return address; frame is the *)
(* number of bytes ENTER reserves; home[r] is 0 while the value that the   *)
(* function found in r is in r, the distance of the word it is in below    *)
(* the return address, or negative when it is in the allocator's copy.     *)
(***************************************************************************)
Shape == [phase : 0 .. 3, depth : Nat, frame : Nat, room : Nat, home : [Tracked -> Int]]
PointWith(phase, depth, frame, home) ==
  [phase |-> phase, depth |-> depth, frame |-> frame, room |-> 0, home |-> home]

Point ==
  {S \in Shape :
     /\ S.depth % 8 = 0
     /\ S.phase = 1 => S.depth >= 8 + S.frame
     /\ S.phase # 1 => S.depth = 0 /\ \A r \in Tracked : S.home[r] = 0
     /\ \A r \in Tracked : S.home[r] > 0 => 8 + S.frame < S.home[r] /\ S.home[r] <= S.depth
     /\ S.home[RDI] >= 0
     /\ S.room # 0 => S.home[RDI] # 0}

\* Register r may be overwritten.
Scratch(S, r) ==
  \/ Temporary(r)
  \/ r \in x86Registers \ {RSP, RBP, RDI} /\ (r \in Tracked => S.home[r] # 0)

-----------------------------------------------------------------------------
(* How an instruction leads from point S to point T *)

SetsScratch(S, insn, T) ==
  /\ S.phase = 1 /\ insn.op = "mov" /\ insn.dest.kind = "reg" /\ Scratch(S, insn.dest.r)
  /\ T = S

SetsRDI(S, insn, T) ==
  /\ S.phase = 1 /\ insn.op = "mov" /\ insn.dest = Reg(RDI) /\ S.home[RDI] # 0
  /\ T = [S EXCEPT !.room = IF insn.src = Reg(RSP) THEN S.depth ELSE 0]

SavesInCopy(S, insn, T) ==
  /\ S.phase = 1
  /\ \E j \in DOMAIN calleeSaved :
       /\ insn = MOV(Reg(CE(j)), Reg(calleeSaved[j])) /\ S.home[calleeSaved[j]] = 0
       /\ T = [S EXCEPT !.home[calleeSaved[j]] = -1]

RestoresFromCopy(S, insn, T) ==
  /\ S.phase = 1
  /\ \E j \in DOMAIN calleeSaved :
       /\ insn = MOV(Reg(calleeSaved[j]), Reg(CE(j))) /\ S.home[calleeSaved[j]] < 0
       /\ T = [S EXCEPT !.home[calleeSaved[j]] = 0]

StoresInFrame(S, insn, T) ==
  /\ S.phase = 1 /\ insn.op = "mov"
  /\ \E w \in Nat \ {0} : insn.dest = Mem(RBP, -8 * w) /\ 8 * w <= S.frame
  /\ T = S

StoresResult(p, k, S, insn, T) ==
  /\ S.phase = 1 /\ insn.op = "mov" /\ S.home[RDI] = 0
  /\ \E i \in 3 .. p[k].rets : insn.dest = Mem(RDI, 8 * (i - 3))
  /\ T = S

MovesRSP(S, insn, T) ==
  /\ S.phase = 1 /\ insn.src.n % 8 = 0
  /\ \/ insn.op = "add" /\ T = [S EXCEPT !.depth = @ - insn.src.n]
     \/ insn.op = "sub" /\ T = [S EXCEPT !.depth = @ + insn.src.n]

PushesWord(S, insn, T) ==
  /\ S.phase = 1 /\ insn.op = "push" /\ insn.src.kind # "mem"
  /\ \/ T = [S EXCEPT !.depth = @ + 8]
     \/ \E r \in Tracked : /\ insn.src = Reg(r) /\ S.home[r] = 0
                           /\ T = [S EXCEPT !.depth = @ + 8, !.home[r] = S.depth + 8]

PopsWord(S, insn, T) ==
  /\ S.phase = 1 /\ insn.op = "pop"
  /\ \/ Scratch(S, insn.dest.r) /\ T = [S EXCEPT !.depth = @ - 8]
     \/ \E r \in Tracked : /\ insn.dest = Reg(r) /\ S.home[r] = S.depth
                           /\ T = [S EXCEPT !.depth = @ - 8, !.home[r] = 0]

EntersFrame(S, insn, T) ==
  /\ S.phase = 0 /\ insn.op = "enter" /\ insn.src.n \in Nat
  /\ T = PointWith(1, 8 + insn.src.n, insn.src.n, S.home)

LeavesFrame(S, insn, T) ==
  /\ S.phase = 1 /\ insn.op = "leave" /\ \A r \in Tracked : S.home[r] = 0
  /\ T = PointWith(2, 0, S.frame, S.home)

\* The room for the results of the callee holds nothing that this function needs.
CallsNext(p, k, S, insn, T) ==
  /\ S.phase = 1 /\ insn.op = "call" /\ k < 3 /\ insn.label = k + 1
  /\ S.depth % 16 = 8
  /\ \A r \in Tracked : S.home[r] # 0
  /\ p[k + 1].rets >= 3 =>
       LET above == S.room - 8 * (p[k + 1].rets - 2)
       IN  /\ S.room # 0 /\ S.room <= S.depth
           /\ 8 <= above /\ \A r \in Tracked : S.home[r] <= above
  /\ T = [S EXCEPT !.room = 0]

Returns(S, insn, T) ==
  /\ S.phase = 2 /\ insn.op = "ret"
  /\ T = PointWith(3, 0, S.frame, S.home)

Leads(p, k, S, insn, T) ==
  \/ SetsScratch(S, insn, T) \/ SetsRDI(S, insn, T)
  \/ SavesInCopy(S, insn, T) \/ RestoresFromCopy(S, insn, T)
  \/ StoresInFrame(S, insn, T) \/ StoresResult(p, k, S, insn, T)
  \/ MovesRSP(S, insn, T) \/ PushesWord(S, insn, T) \/ PopsWord(S, insn, T)
  \/ EntersFrame(S, insn, T) \/ LeavesFrame(S, insn, T)
  \/ CallsNext(p, k, S, insn, T) \/ Returns(S, insn, T)

\* The steps of the code of function k of program p.
Steps(p, k) ==
  {s \in Point \X Instruction \X Point : Leads(p, k, s[1], s[2], s[3])}

-----------------------------------------------------------------------------
(* Code *)

\* points are those before and after each instruction of code.
Along(R, code, points) ==
  /\ code \in Seq(Instruction) /\ points \in [1 .. Len(code) + 1 -> Point]
  /\ \A i \in 1 .. Len(code) : <<points[i], code[i], points[i + 1]>> \in R

\* The steps R lead through code from s to t.
Typed(R, code, s, t) ==
  \E points : Along(R, code, points) /\ points[1] = s /\ points[Len(code) + 1] = t

LEMMA TypedEmpty ==
  ASSUME NEW R, NEW s \in Point
  PROVE  Typed(R, <<>>, s, s)
<1> DEFINE P == [i \in 1 .. 1 |-> s]
<1>1. Along(R, <<>>, P) /\ P[1] = s /\ P[Len(<<>>) + 1] = s
  BY DEF Along
<1> QED BY <1>1 DEF Typed

LEMMA TypedOne ==
  ASSUME NEW R, NEW s \in Point, NEW t \in Point, NEW x \in Instruction, <<s, x, t>> \in R
  PROVE  Typed(R, <<x>>, s, t)
<1> DEFINE P == [i \in 1 .. 2 |-> IF i = 1 THEN s ELSE t]
<1>1. <<x>> \in Seq(Instruction) /\ Len(<<x>>) = 1 /\ <<x>>[1] = x
  OBVIOUS
<1>2. P \in [1 .. 2 -> Point] /\ P[1] = s /\ P[2] = t
  OBVIOUS
<1> HIDE DEF P
<1>3. Along(R, <<x>>, P)
  BY <1>1, <1>2 DEF Along
<1> QED BY <1>1, <1>2, <1>3 DEF Typed

\* One piece of code after another.
LEMMA TypedConcat ==
  ASSUME NEW R, NEW c, NEW d, NEW s, NEW t, NEW u, Typed(R, c, s, t), Typed(R, d, t, u)
  PROVE  Typed(R, c \o d, s, u)
<1>1. PICK P : Along(R, c, P) /\ P[1] = s /\ P[Len(c) + 1] = t
  BY DEF Typed
<1>2. PICK Q : Along(R, d, Q) /\ Q[1] = t /\ Q[Len(d) + 1] = u
  BY DEF Typed
<1> DEFINE m == Len(c)
           n == Len(d)
           U == [i \in 1 .. m + n + 1 |-> IF i <= m THEN P[i] ELSE Q[i - m]]
<1>3. /\ m \in Nat /\ n \in Nat
      /\ c \in Seq(Instruction) /\ d \in Seq(Instruction)
      /\ c \o d \in Seq(Instruction) /\ Len(c \o d) = m + n
  BY <1>1, <1>2 DEF Along
<1>4. /\ P \in [1 .. m + 1 -> Point] /\ \A i \in 1 .. m : <<P[i], c[i], P[i + 1]>> \in R
      /\ Q \in [1 .. n + 1 -> Point] /\ \A i \in 1 .. n : <<Q[i], d[i], Q[i + 1]>> \in R
      /\ P[m + 1] = Q[1]
  BY <1>1, <1>2 DEF Along
<1>5. /\ \A i \in 1 .. m : (c \o d)[i] = c[i]
      /\ \A i \in m + 1 .. m + n : i - m \in 1 .. n /\ (c \o d)[i] = d[i - m]
  BY <1>3
<1> HIDE DEF m, n
<1>6. \A i \in 1 .. m + n + 1 : i <= m => i \in 1 .. m + 1
  BY <1>3
<1>7. \A i \in 1 .. m + n + 1 : ~(i <= m) => i - m \in 1 .. n + 1
  BY <1>3
<1>8. U \in [1 .. m + n + 1 -> Point]
  BY <1>4, <1>6, <1>7
<1>9. \A i \in 1 .. m + n + 1 : U[i] = IF i <= m THEN P[i] ELSE Q[i - m]
  OBVIOUS
<1> HIDE DEF U
<1>10. ASSUME NEW i \in 1 .. m + n PROVE <<U[i], (c \o d)[i], U[i + 1]>> \in R
  <2>1. i \in 1 .. m + n + 1 /\ i + 1 \in 1 .. m + n + 1 /\ i \in Nat
    BY <1>3
  <2>2. CASE i < m
    <3>1. i \in 1 .. m /\ i <= m /\ i + 1 <= m
      BY <1>3, <2>1, <2>2
    <3> QED BY <1>4, <1>5, <1>9, <2>1, <3>1
  <2>3. CASE i = m
    <3>1. i \in 1 .. m /\ i <= m /\ ~(i + 1 <= m) /\ (i + 1) - m = 1
      BY <1>3, <2>1, <2>3
    <3>2. U[i] = P[i] /\ U[i + 1] = Q[1] /\ P[i + 1] = Q[1]
      BY <1>4, <1>9, <2>1, <2>3, <3>1
    <3>3. <<P[i], c[i], P[i + 1]>> \in R /\ (c \o d)[i] = c[i]
      BY <1>4, <1>5, <3>1
    <3> QED BY <3>2, <3>3
  <2>4. CASE i > m
    <3>1. /\ i \in m + 1 .. m + n /\ ~(i <= m) /\ ~(i + 1 <= m) /\ i - m \in 1 .. n
          /\ (i + 1) - m = (i - m) + 1
      BY <1>3, <2>1, <2>4
    <3>2. U[i] = Q[i - m]
      BY <1>9, <2>1, <3>1
    <3>3. U[i + 1] = Q[(i - m) + 1]
      BY <1>9, <2>1, <3>1
    <3>4. (c \o d)[i] = d[i - m]
      BY <1>5, <3>1
    <3>5. <<Q[i - m], d[i - m], Q[(i - m) + 1]>> \in R
      BY <1>4, <3>1
    <3> QED BY <3>2, <3>3, <3>4, <3>5
  <2>5. i < m \/ i = m \/ i > m
    BY <1>3, <2>1
  <2> QED BY <2>2, <2>3, <2>4, <2>5
<1>11. Along(R, c \o d, U)
  BY <1>3, <1>8, <1>10 DEF Along
<1>12. U[1] = s
  <2>1. 1 \in 1 .. m + n + 1 /\ (~(1 <= m) => 1 - m = 1 /\ m + 1 = 1)
    BY <1>3
  <2> QED BY <1>1, <1>4, <1>9, <2>1 DEF m
<1>13. U[m + n + 1] = u
  <2>1. m + n + 1 \in 1 .. m + n + 1 /\ ~(m + n + 1 <= m) /\ (m + n + 1) - m = n + 1
    BY <1>3
  <2> QED BY <1>2, <1>9, <2>1 DEF n
<1> QED BY <1>3, <1>11, <1>12, <1>13 DEF Typed

\* Single instructions.
LEMMA TypedSteps ==
  ASSUME NEW R, NEW code \in Seq(Instruction), NEW points \in [1 .. Len(code) + 1 -> Point],
         \A i \in 1 .. Len(code) : Typed(R, <<code[i]>>, points[i], points[i + 1])
  PROVE  Typed(R, code, points[1], points[Len(code) + 1])
<1>1. ASSUME NEW x, NEW s, NEW t, Typed(R, <<x>>, s, t) PROVE <<s, x, t>> \in R
  <2>1. PICK P : Along(R, <<x>>, P) /\ P[1] = s /\ P[Len(<<x>>) + 1] = t
    BY <1>1 DEF Typed
  <2>2. Len(<<x>>) = 1 /\ <<x>>[1] = x /\ 1 \in 1 .. 1 /\ 1 + 1 = 2
    OBVIOUS
  <2>3. <<P[1], <<x>>[1], P[1 + 1]>> \in R
    BY <2>1, <2>2 DEF Along
  <2> QED BY <2>1, <2>2, <2>3
<1>2. Along(R, code, points)
  BY <1>1 DEF Along
<1> QED BY <1>2 DEF Typed

\* Pieces of code, the first of which starts at points[1].
LEMMA TypedFlatten ==
  ASSUME NEW R, NEW ss \in Seq(Seq(Instruction)), NEW points \in [1 .. Len(ss) + 1 -> Point],
         \A i \in 1 .. Len(ss) : Typed(R, ss[i], points[i], points[i + 1])
  PROVE  Typed(R, FlattenSeq(ss), points[1], points[Len(ss) + 1])
<1> DEFINE n == Len(ss)
<1>1. PICK g \in [0 .. n -> Seq(Instruction)] :
        g[0] = <<>> /\ (\A k \in 1 .. n : g[k] = g[k-1] \o ss[k]) /\ FlattenSeq(ss) = g[n]
  BY FlattenSteps
<1>2. n \in Nat
  OBVIOUS
<1> HIDE DEF n
<1> DEFINE S == {k \in 0 .. n : Typed(R, g[k], points[1], points[k + 1])}
<1>3. 0 \in S
  <2>1. points[1] \in Point /\ 0 \in 0 .. n /\ 0 + 1 = 1
    BY <1>2 DEF n
  <2>2. Typed(R, <<>>, points[1], points[1])
    BY <2>1, TypedEmpty
  <2> QED BY <1>1, <2>1, <2>2
<1>4. ASSUME NEW k \in S, k < n PROVE k + 1 \in S
  <2>1. k \in 0 .. n /\ Typed(R, g[k], points[1], points[k + 1])
    OBVIOUS
  <2> HIDE DEF S
  <2>2. k + 1 \in 1 .. n /\ k + 1 \in 0 .. n /\ (k + 1) - 1 = k
    BY <1>2, <1>4, <2>1
  <2>3. g[k + 1] = g[k] \o ss[k + 1]
    BY <1>1, <2>2
  <2>4. Typed(R, ss[k + 1], points[k + 1], points[(k + 1) + 1])
    BY <2>2 DEF n
  <2>5. Typed(R, g[k] \o ss[k + 1], points[1], points[(k + 1) + 1])
    BY <2>1, <2>4, TypedConcat
  <2> QED BY <2>2, <2>3, <2>5 DEF S
<1>5. S = 0 .. n
  <2>1. S \in SUBSET (0 .. n)
    OBVIOUS
  <2> HIDE DEF S
  <2> QED BY <1>2, <1>3, <1>4, <2>1, IntervalSet
<1>6. n \in S
  <2> HIDE DEF S
  <2> QED BY <1>2, <1>5
<1> QED BY <1>1, <1>6 DEF n

\* Pieces of code each of which leads back to where it started.
LEMMA TypedLoop ==
  ASSUME NEW R, NEW ss \in Seq(Seq(Instruction)), NEW s \in Point,
         \A i \in 1 .. Len(ss) : Typed(R, ss[i], s, s)
  PROVE  Typed(R, FlattenSeq(ss), s, s)
<1> DEFINE P == [i \in 1 .. Len(ss) + 1 |-> s]
<1>1. /\ P \in [1 .. Len(ss) + 1 -> Point] /\ P[1] = s /\ P[Len(ss) + 1] = s
      /\ \A i \in 1 .. Len(ss) : P[i] = s /\ P[i + 1] = s
  <2>1. Len(ss) \in Nat
    OBVIOUS
  <2>2. \A i \in 1 .. Len(ss) : i \in 1 .. Len(ss) + 1 /\ i + 1 \in 1 .. Len(ss) + 1
    BY <2>1
  <2>3. 1 \in 1 .. Len(ss) + 1 /\ Len(ss) + 1 \in 1 .. Len(ss) + 1
    BY <2>1
  <2>4. P \in [1 .. Len(ss) + 1 -> Point] /\ \A i \in 1 .. Len(ss) + 1 : P[i] = s
    OBVIOUS
  <2> HIDE DEF P
  <2> QED BY <2>2, <2>3, <2>4
<1> HIDE DEF P
<1>2. \A i \in 1 .. Len(ss) : Typed(R, ss[i], P[i], P[i + 1])
  BY <1>1
<1>3. Typed(R, FlattenSeq(ss), P[1], P[Len(ss) + 1])
  BY <1>1, <1>2, TypedFlatten
<1> QED BY <1>1, <1>3

\* An allocator that puts pieces of code in the place of the instructions.
LEMMA TypedReplace ==
  ASSUME NEW R, NEW Q, NEW c, NEW s, NEW t, Typed(R, c, s, t), NEW piece,
         \A a \in Point : \A x \in Instruction : \A b \in Point :
            <<a, x, b>> \in R => piece[x] \in Seq(Instruction) /\ Typed(Q, piece[x], a, b)
  PROVE  Typed(Q, FlattenSeq([i \in DOMAIN c |-> piece[c[i]]]), s, t)
<1>1. PICK P : Along(R, c, P) /\ P[1] = s /\ P[Len(c) + 1] = t
  BY DEF Typed
<1> DEFINE n == Len(c)
           ss == [i \in DOMAIN c |-> piece[c[i]]]
<1>2. /\ c \in Seq(Instruction) /\ n \in Nat /\ DOMAIN c = 1 .. n
      /\ P \in [1 .. n + 1 -> Point]
      /\ \A i \in 1 .. n : <<P[i], c[i], P[i + 1]>> \in R
  BY <1>1 DEF Along
<1>3. ASSUME NEW i \in 1 .. n
      PROVE  piece[c[i]] \in Seq(Instruction) /\ Typed(Q, piece[c[i]], P[i], P[i + 1])
  <2>1. i \in 1 .. n + 1 /\ i + 1 \in 1 .. n + 1 /\ c[i] \in Instruction
    BY <1>2
  <2>2. P[i] \in Point /\ P[i + 1] \in Point
    BY <1>2, <2>1
  <2> QED BY <1>2, <2>1, <2>2
<1>4. ss \in Seq(Seq(Instruction)) /\ Len(ss) = n /\ \A i \in 1 .. n : ss[i] = piece[c[i]]
  BY <1>2, <1>3
<1> HIDE DEF ss, n
<1>5. Typed(Q, FlattenSeq(ss), P[1], P[n + 1])
  <2>1. \A i \in 1 .. n : Typed(Q, ss[i], P[i], P[i + 1])
    BY <1>3, <1>4
  <2> QED BY <1>2, <1>4, <2>1, TypedFlatten
<1> QED BY <1>1, <1>5 DEF ss, n

-----------------------------------------------------------------------------
(* The registers *)

\* Registers that functions are called with, or give back, in the order the code uses.
LEMMA RegisterFacts ==
  /\ DOMAIN calleeSaved = 1 .. 5 /\ DOMAIN callerSaved = 1 .. 9
  /\ DOMAIN hackyCallerSaved = 1 .. 7 /\ DOMAIN argRegisters = 1 .. 6
  /\ Range(calleeSaved) \subseteq x86Registers \ {RSP, RBP, RDI}
  /\ Range(callerSaved) \subseteq x86Registers \ {RSP, RBP}
  /\ Range(callerSaved) \cap Range(calleeSaved) = {}
  /\ {RSP, RBP, RDI} \subseteq x86Registers /\ RSP # RBP
  /\ RDI \notin {RSP, RBP} /\ callerSaved[4] = RDI /\ hackyCallerSaved[2] = RDI
  /\ Range(hackyCallerSaved) \subseteq Range(callerSaved)
  /\ {x86("RAX"), x86("RDX")} \subseteq Range(callerSaved) \ {RDI}
<1>1. /\ DOMAIN calleeSaved = 1 .. 5 /\ DOMAIN callerSaved = 1 .. 9
      /\ DOMAIN hackyCallerSaved = 1 .. 7 /\ DOMAIN argRegisters = 1 .. 6
  BY DEF calleeSaved, callerSaved, hackyCallerSaved, argRegisters
<1>2. Range(calleeSaved) = {x86("RBX"), x86("R12"), x86("R13"), x86("R14"), x86("R15")}
  BY DEF calleeSaved, Range
<1>3. Range(callerSaved) = {x86("RAX"), x86("RCX"), x86("RDX"), x86("RDI"), x86("RSI"),
                            x86("R8"), x86("R9"), x86("R10"), x86("R11")}
  BY DEF callerSaved, Range
<1>4. Range(hackyCallerSaved) = {x86("RCX"), x86("RDI"), x86("RSI"), x86("R8"), x86("R9"),
                                 x86("R10"), x86("R11")}
  BY DEF hackyCallerSaved, Range
<1>5. \A m, n : x86(m) = x86(n) => m = n
  BY DEF x86
<1>6. callerSaved[4] = RDI /\ hackyCallerSaved[2] = RDI
  BY DEF callerSaved, hackyCallerSaved, RDI
<1> QED BY <1>1, <1>2, <1>3, <1>4, <1>5, <1>6 DEF x86Registers, RSP, RBP, RDI

\* Names of machine registers and of abstract ones.
LEMMA NameFacts ==
  /\ \A r \in x86Registers : Isx86(r) /\ r \notin AbstractRegister
  /\ \A r \in AbstractRegister : ~Isx86(r) /\ r \notin x86Registers
  /\ \A j \in Int : CE(j) \in AbstractRegister
  /\ \A i, j \in Int : CE(i) = CE(j) => i = j
  /\ \A i \in Int : /\ Temporary(ARG(i)) /\ Temporary(RV(i))
                    /\ Temporary(ParamTemp(i)) /\ Temporary(ResultTemp(i))
                    /\ Temporary(<<"$TL", i>>) /\ Temporary(<<"$A", i>>)
<1>1. \A n : x86(n)[1] = "x86"
  BY DEF x86
<1>2. \A r \in x86Registers : r[1] = "x86"
  <2>1. Range(calleeSaved) = {x86("RBX"), x86("R12"), x86("R13"), x86("R14"), x86("R15")}
    BY DEF calleeSaved, Range
  <2>2. Range(callerSaved) = {x86("RAX"), x86("RCX"), x86("RDX"), x86("RDI"), x86("RSI"),
                              x86("R8"), x86("R9"), x86("R10"), x86("R11")}
    BY DEF callerSaved, Range
  <2> QED BY <1>1, <2>1, <2>2 DEF x86Registers, RSP, RBP
<1>3. \A r \in AbstractRegister : r[1] # "x86"
  BY DEF AbstractRegister
<1>4. \A r \in x86Registers : Isx86(r) /\ r \notin AbstractRegister
  BY <1>2, <1>3 DEF Isx86
<1>5. \A r \in AbstractRegister : ~Isx86(r) /\ r \notin x86Registers
  BY <1>2, <1>3 DEF Isx86
<1>6. \A j \in Int : CE(j) \in AbstractRegister /\ CE(j)[1] = "$CE" /\ CE(j)[2] = j
  BY DEF CE, AbstractRegister
<1>7. \A j \in DOMAIN calleeSaved : j \in Int
  BY RegisterFacts
<1>8. \A i \in Int : /\ Temporary(ARG(i)) /\ Temporary(RV(i))
                     /\ Temporary(ParamTemp(i)) /\ Temporary(ResultTemp(i))
                     /\ Temporary(<<"$TL", i>>) /\ Temporary(<<"$A", i>>)
  <2> SUFFICES ASSUME NEW i \in Int, NEW r,
                      r \in {<<"_ARG", i>>, <<"_RV", i>>, <<"param", i>>, <<"result", i>>,
                            <<"$TL", i>>, <<"$A", i>>}
               PROVE  Temporary(r)
    BY DEF ARG, RV, ParamTemp, ResultTemp
  <2>1. r \in AbstractRegister /\ r[1] # "$CE"
    BY DEF AbstractRegister
  <2>2. \A j \in DOMAIN calleeSaved : r # CE(j)
    BY <1>6, <1>7, <2>1
  <2> QED BY <2>1, <2>2 DEF Temporary
<1> QED BY <1>4, <1>5, <1>6, <1>8

\* What the code is written with are instructions.
LEMMA InstructionFacts ==
  /\ \A r \in Register : /\ Reg(r) \in Operand /\ \A o \in Int : Mem(r, o) \in Operand
                         /\ PUSH(r) \in Instruction /\ POP(r) \in Instruction
                         /\ \A c \in Int : ADD(r, c) \in Instruction /\ SUB(r, c) \in Instruction
  /\ \A c \in Int : Const(c) \in Operand /\ ENTER(c) \in Instruction
  /\ \A d, s \in Operand : MOV(d, s) \in Instruction
  /\ \A f \in 1 .. 3 : CALL(f) \in Instruction
  /\ {PAD, LEAVE, RET, CALLERSAVEPUSH, CALLERSAVEPOP} \subseteq Instruction
<1>1. RSP \in Register
  BY RegisterFacts DEF Register
<1>2. \A r \in Register : Reg(r) \in Operand /\ \A o \in Int : Mem(r, o) \in Operand
  BY DEF Reg, Mem, Operand
<1>3. \A c \in Int : Const(c) \in Operand
  BY <1>1 DEF Const, Operand
<1>4. \A op \in Opcode : \A d, s \in Operand : Insn(op, d, s) \in Instruction
  BY DEF Insn, Instruction
<1>5. \A f \in 1 .. 3 : \A x \in Instruction : [x EXCEPT !.label = f] \in Instruction
  BY DEF Instruction
<1>6. 0 \in Int /\ 204 \in Int
  OBVIOUS
<1>7. {"mov", "add", "sub", "push", "pop", "enter", "leave", "call", "ret",
       "callersavepush", "callersavepop"} \subseteq Opcode
  BY DEF Opcode
<1>8. \A op \in Opcode : Bare(op) \in Instruction
  BY <1>3, <1>4, <1>6 DEF Bare
<1>9. \A r \in Register : \A c \in Int : ADD(r, c) \in Instruction /\ SUB(r, c) \in Instruction
  BY <1>2, <1>3, <1>4, <1>7 DEF ADD, SUB
<1>10. \A r \in Register : PUSH(r) \in Instruction /\ POP(r) \in Instruction
  BY <1>2, <1>3, <1>4, <1>6, <1>7 DEF PUSH, POP
<1>11. \A c \in Int : ENTER(c) \in Instruction
  BY <1>3, <1>4, <1>6, <1>7 DEF ENTER
<1>12. \A d, s \in Operand : MOV(d, s) \in Instruction
  BY <1>4, <1>7 DEF MOV
<1>13. \A f \in 1 .. 3 : CALL(f) \in Instruction
  BY <1>5, <1>7, <1>8 DEF CALL
<1>14. PAD \in Instruction
  BY <1>3, <1>4, <1>6, <1>7 DEF PAD
<1>15. {LEAVE, RET, CALLERSAVEPUSH, CALLERSAVEPOP} \subseteq Instruction
  BY <1>7, <1>8 DEF LEAVE, RET, CALLERSAVEPUSH, CALLERSAVEPOP
<1> QED BY <1>2, <1>3, <1>9, <1>10, <1>11, <1>12, <1>13, <1>14, <1>15

\* One instruction.
LEMMA TypedStep ==
  ASSUME NEW p, NEW k, NEW s \in Point, NEW t \in Point, NEW x \in Instruction, Leads(p, k, s, x, t)
  PROVE  Typed(Steps(p, k), <<x>>, s, t)
<1>1. <<s, x, t>> \in Steps(p, k)
  BY DEF Steps
<1> QED BY <1>1, TypedOne

-----------------------------------------------------------------------------
(* Saving registers on the stack *)

OnceEach(L) == \A i, j \in DOMAIN L : L[i] = L[j] => i = j

\* After the first i registers of L have been pushed at point S.
Pushed(S, L, i) ==
  [S EXCEPT !.depth = S.depth + 8 * i,
            !.home  = [r \in Tracked |->
              IF r \in Range(L) /\ Position(L, r) <= i THEN S.depth + 8 * Position(L, r)
              ELSE S.home[r]]]

LEMMA SameShape ==
  ASSUME NEW S \in Shape, NEW T \in Shape, S.phase = T.phase, S.depth = T.depth,
         S.frame = T.frame, S.room = T.room, S.home = T.home
  PROVE  S = T
BY DEF Shape

\* T is S but for the depth and the places of the registers.
Differs(S, T, d, h) ==
  /\ T \in Shape /\ T.phase = S.phase /\ T.depth = d /\ T.frame = S.frame /\ T.room = S.room
  /\ T.home = h

LEMMA ShapeUpdates ==
  ASSUME NEW S \in Shape, NEW d \in Nat, NEW r \in Tracked, NEW v \in Int
  PROVE  /\ Differs(S, [S EXCEPT !.depth = d], d, S.home)
         /\ Differs(S, [S EXCEPT !.home[r] = v], S.depth, [S.home EXCEPT ![r] = v])
         /\ Differs(S, [S EXCEPT !.depth = d, !.home[r] = v], d, [S.home EXCEPT ![r] = v])
<1>1. S.home \in [Tracked -> Int]
  BY DEF Shape
<1>2. [S.home EXCEPT ![r] = v] \in [Tracked -> Int]
  BY <1>1
<1>3. /\ [S EXCEPT !.home[r] = v] = [S EXCEPT !.home = [S.home EXCEPT ![r] = v]]
      /\ [S EXCEPT !.depth = d, !.home[r] = v] =
           [S EXCEPT !.depth = d, !.home = [S.home EXCEPT ![r] = v]]
  BY DEF Shape
<1>4. \A h \in [Tracked -> Int] :
        /\ Differs(S, [S EXCEPT !.home = h], S.depth, h)
        /\ Differs(S, [S EXCEPT !.depth = d, !.home = h], d, h)
  BY DEF Differs, Shape
<1>5. Differs(S, [S EXCEPT !.depth = d], d, S.home)
  BY DEF Differs, Shape
<1> QED BY <1>2, <1>3, <1>4, <1>5

\* Point S may push L.
MayPush(S, L) ==
  /\ S \in Point /\ S.phase = 1 /\ L \in Seq(x86Registers \ {RSP, RBP}) /\ OnceEach(L)
  /\ \A r \in Range(L) : r \in Tracked => S.home[r] = 0

LEMMA PositionIs ==
  ASSUME NEW L, OnceEach(L), NEW j \in DOMAIN L
  PROVE  Position(L, L[j]) = j
BY DEF OnceEach, Position

LEMMA PushedPoint ==
  ASSUME NEW S, NEW L, MayPush(S, L), NEW i \in 0 .. Len(L)
  PROVE  /\ Pushed(S, L, i) \in Point /\ Pushed(S, L, 0) = S
         /\ Pushed(S, L, i).depth = S.depth + 8 * i
<1>1. /\ S \in Shape
      /\ S.depth % 8 = 0 /\ S.phase = 1 /\ S.depth >= 8 + S.frame
      /\ \A r \in Tracked : S.home[r] > 0 => 8 + S.frame < S.home[r] /\ S.home[r] <= S.depth
      /\ S.home[RDI] >= 0 /\ (S.room # 0 => S.home[RDI] # 0)
      /\ S.depth \in Nat /\ S.frame \in Nat /\ S.home \in [Tracked -> Int]
  BY DEF MayPush, Point, Shape
<1>2. /\ Len(L) \in Nat /\ DOMAIN L = 1 .. Len(L) /\ i \in Nat
      /\ \A r \in Range(L) : Position(L, r) \in 1 .. Len(L)
  <2>1. L \in Seq(x86Registers \ {RSP, RBP})
    BY DEF MayPush
  <2>2. \A r \in Range(L) : Position(L, r) \in DOMAIN L
    BY DEF Range, Position
  <2> QED BY <2>1, <2>2
<1> DEFINE h(m) == [r \in Tracked |->
              IF r \in Range(L) /\ Position(L, r) <= m THEN S.depth + 8 * Position(L, r)
              ELSE S.home[r]]
<1>3. h(i) \in [Tracked -> Int]
  BY <1>1, <1>2
<1>4. /\ \A r \in Tracked : h(i)[r] > 0 => 8 + S.frame < h(i)[r] /\ h(i)[r] <= S.depth + 8 * i
      /\ h(i)[RDI] >= 0 /\ (S.room # 0 => h(i)[RDI] # 0)
  <2>1. RDI \in Tracked
    BY DEF Tracked
  <2>2. ASSUME NEW r \in Tracked, r \in Range(L), Position(L, r) <= i
        PROVE  /\ h(i)[r] = S.depth + 8 * Position(L, r)
               /\ 8 + S.frame < h(i)[r] /\ h(i)[r] <= S.depth + 8 * i /\ h(i)[r] > 0
    <3>1. h(i)[r] = S.depth + 8 * Position(L, r)
      BY <2>2
    <3>2. Position(L, r) \in 1 .. Len(L)
      BY <1>2, <2>2
    <3> HIDE DEF h
    <3> QED BY <1>1, <1>2, <2>2, <3>1, <3>2
  <2>3. \A r \in Tracked : ~(r \in Range(L) /\ Position(L, r) <= i) => h(i)[r] = S.home[r]
    OBVIOUS
  <2>4. S.depth <= S.depth + 8 * i
    BY <1>1, <1>2
  <2> HIDE DEF h
  <2>5. ASSUME NEW r \in Tracked, h(i)[r] > 0
        PROVE  8 + S.frame < h(i)[r] /\ h(i)[r] <= S.depth + 8 * i
    <3>1. CASE r \in Range(L) /\ Position(L, r) <= i
      BY <2>2, <3>1
    <3>2. CASE ~(r \in Range(L) /\ Position(L, r) <= i)
      <4>1. h(i)[r] = S.home[r] /\ S.home[r] \in Int
        BY <1>1, <2>3, <3>2
      <4>2. 8 + S.frame < S.home[r] /\ S.home[r] <= S.depth
        BY <1>1, <2>5, <4>1
      <4>3. S.depth + 8 * i \in Int
        BY <1>1, <1>2
      <4> QED BY <1>1, <2>4, <4>1, <4>2, <4>3
    <3> QED BY <3>1, <3>2
  <2>6. h(i)[RDI] >= 0 /\ (S.room # 0 => h(i)[RDI] # 0)
    <3>1. CASE RDI \in Range(L) /\ Position(L, RDI) <= i
      <4>1. h(i)[RDI] > 0 /\ h(i)[RDI] \in Int
        BY <1>3, <2>1, <2>2, <3>1
      <4> QED BY <4>1
    <3>2. CASE ~(RDI \in Range(L) /\ Position(L, RDI) <= i)
      BY <1>1, <2>1, <2>3, <3>2
    <3> QED BY <3>1, <3>2
  <2> QED BY <2>5, <2>6
<1>5. h(0) = S.home
  BY <1>1, <1>2
<1> HIDE DEF h
<1>6. Pushed(S, L, i) = [S EXCEPT !.depth = S.depth + 8 * i, !.home = h(i)]
  BY DEF Pushed, h
<1>7. Pushed(S, L, 0) = [S EXCEPT !.depth = S.depth + 8 * 0, !.home = h(0)]
  BY DEF Pushed, h
<1>8. Pushed(S, L, 0) = S
  <2> DEFINE T == [S EXCEPT !.depth = S.depth, !.home = S.home]
  <2>1. S.depth + 8 * 0 = S.depth
    BY <1>1
  <2>2. Pushed(S, L, 0) = T
    BY <1>5, <1>7, <2>1
  <2>3. /\ T \in Shape /\ T.phase = S.phase /\ T.depth = S.depth /\ T.frame = S.frame
        /\ T.room = S.room /\ T.home = S.home
    BY <1>1 DEF Shape
  <2> HIDE DEF T
  <2>4. T = S
    BY <1>1, <2>3, SameShape
  <2> QED BY <2>2, <2>4
<1>9. Pushed(S, L, i) \in Point
  <2>1. S.depth + 8 * i \in Nat /\ (S.depth + 8 * i) % 8 = 0 /\ S.depth + 8 * i >= 8 + S.frame
    BY <1>1, <1>2
  <2> QED BY <1>1, <1>3, <1>4, <1>6, <2>1 DEF Point, Shape
<1> QED BY <1>1, <1>6, <1>8, <1>9 DEF Shape

\* One more register, and back.
LEMMA PushedNext ==
  ASSUME NEW p, NEW k, NEW S, NEW L, MayPush(S, L), NEW i \in 1 .. Len(L)
  PROVE  /\ Leads(p, k, Pushed(S, L, i - 1), PUSH(L[i]), Pushed(S, L, i))
         /\ Leads(p, k, Pushed(S, L, i), POP(L[i]), Pushed(S, L, i - 1))
<1> DEFINE A == Pushed(S, L, i - 1)
           B == Pushed(S, L, i)
           r == L[i]
<1>1. /\ Len(L) \in Nat /\ DOMAIN L = 1 .. Len(L) /\ OnceEach(L)
      /\ S \in Shape /\ S.phase = 1 /\ S.depth \in Nat /\ S.home \in [Tracked -> Int]
      /\ r \in x86Registers \ {RSP, RBP} /\ r \in Range(L)
  BY DEF MayPush, Point, Shape, Range
<1>2. i - 1 \in 0 .. Len(L) /\ i \in 0 .. Len(L) /\ i \in Nat /\ i \in DOMAIN L
  BY <1>1
<1>3. A \in Point /\ B \in Point
  BY <1>2, PushedPoint
<1>4. A \in Shape /\ B \in Shape
  BY <1>3 DEF Point
<1>5. /\ A.depth = S.depth + 8 * (i - 1) /\ B.depth = S.depth + 8 * i
      /\ A.phase = 1 /\ B.phase = 1 /\ A.frame = B.frame /\ A.room = B.room
      /\ A.home = [q \in Tracked |-> IF q \in Range(L) /\ Position(L, q) <= i - 1
                                     THEN S.depth + 8 * Position(L, q) ELSE S.home[q]]
      /\ B.home = [q \in Tracked |-> IF q \in Range(L) /\ Position(L, q) <= i
                                     THEN S.depth + 8 * Position(L, q) ELSE S.home[q]]
  BY <1>1 DEF Pushed, Shape
<1>6. B.depth = A.depth + 8 /\ A.depth = B.depth - 8 /\ S.depth + 8 * i = A.depth + 8
  BY <1>1, <1>2, <1>5
<1>7. Position(L, r) = i /\ ~(i <= i - 1) /\ i <= i
  BY <1>1, <1>2, PositionIs
<1>8. \A q \in Tracked : q # r => A.home[q] = B.home[q]
  <2> SUFFICES ASSUME NEW q \in Tracked, q # r PROVE A.home[q] = B.home[q]
    OBVIOUS
  <2>1. CASE q \in Range(L)
    <3>1. Position(L, q) \in DOMAIN L /\ L[Position(L, q)] = q
      BY <2>1 DEF Range, Position
    <3>2. Position(L, q) # i /\ Position(L, q) \in Nat
      BY <1>1, <3>1
    <3>3. Position(L, q) <= i <=> Position(L, q) <= i - 1
      BY <1>2, <3>2
    <3> QED BY <1>5, <3>3
  <2>2. CASE q \notin Range(L)
    BY <1>5, <2>2
  <2> QED BY <2>1, <2>2
<1>9. r \in Tracked => A.home[r] = 0 /\ B.home[r] = A.depth + 8 /\ B.home[r] = B.depth
  BY <1>1, <1>5, <1>6, <1>7 DEF MayPush
<1>10. PUSH(r).op = "push" /\ PUSH(r).src = Reg(r) /\ POP(r).op = "pop" /\ POP(r).dest = Reg(r)
  BY DEF PUSH, POP, Insn
<1>11. Reg(r).kind = "reg" /\ Reg(r).r = r
  BY DEF Reg
<1> HIDE DEF A, B, r
<1>12. /\ A.depth \in Nat /\ A.depth + 8 \in Nat /\ B.depth - 8 \in Nat /\ 0 \in Int
       /\ A.depth + 8 \in Int
  BY <1>4, <1>6 DEF Shape
<1>13. RDI \in Tracked
  BY DEF Tracked
<1>14. CASE r \in Tracked
  <2>1. B = [A EXCEPT !.depth = A.depth + 8, !.home[r] = A.depth + 8]
    <3> DEFINE C == [A EXCEPT !.depth = A.depth + 8, !.home[r] = A.depth + 8]
    <3>1. /\ C \in Shape /\ C.phase = A.phase /\ C.depth = A.depth + 8 /\ C.frame = A.frame
          /\ C.room = A.room /\ C.home = [A.home EXCEPT ![r] = A.depth + 8]
      <4>1. Differs(A, C, A.depth + 8, [A.home EXCEPT ![r] = A.depth + 8])
        BY <1>4, <1>14, <1>12, ShapeUpdates
      <4> QED BY <4>1 DEF Differs
    <3>2. C.home = B.home
      BY <1>4, <1>8, <1>9, <1>14, <3>1 DEF Shape
    <3> HIDE DEF C
    <3>3. B = C
      BY <1>4, <1>5, <1>6, <3>1, <3>2, SameShape
    <3> QED BY <3>3 DEF C
  <2>2. A = [B EXCEPT !.depth = B.depth - 8, !.home[r] = 0]
    <3> DEFINE C == [B EXCEPT !.depth = B.depth - 8, !.home[r] = 0]
    <3>1. /\ C \in Shape /\ C.phase = B.phase /\ C.depth = A.depth /\ C.frame = B.frame
          /\ C.room = B.room /\ C.home = [B.home EXCEPT ![r] = 0]
      <4>1. Differs(B, C, B.depth - 8, [B.home EXCEPT ![r] = 0])
        BY <1>4, <1>14, <1>12, ShapeUpdates
      <4> QED BY <1>6, <4>1 DEF Differs
    <3>2. C.home = A.home
      BY <1>4, <1>8, <1>9, <1>14, <3>1 DEF Shape
    <3> HIDE DEF C
    <3>3. A = C
      BY <1>4, <1>5, <3>1, <3>2, SameShape
    <3> QED BY <3>3 DEF C
  <2>3. PushesWord(A, PUSH(r), B)
    BY <1>5, <1>9, <1>10, <1>11, <1>14, <2>1 DEF PushesWord
  <2>4. PopsWord(B, POP(r), A)
    BY <1>5, <1>9, <1>10, <1>14, <2>2 DEF PopsWord
  <2> QED BY <2>3, <2>4 DEF Leads, A, B, r
<1>15. CASE r \notin Tracked
  <2>1. A.home = B.home
    BY <1>4, <1>8, <1>15 DEF Shape
  <2>2. B = [A EXCEPT !.depth = A.depth + 8] /\ A = [B EXCEPT !.depth = B.depth - 8]
    <3> DEFINE C == [A EXCEPT !.depth = A.depth + 8]
               D == [B EXCEPT !.depth = B.depth - 8]
    <3>1. /\ C \in Shape /\ C.phase = A.phase /\ C.depth = A.depth + 8 /\ C.frame = A.frame
          /\ C.room = A.room /\ C.home = A.home
      <4>1. Differs(A, C, A.depth + 8, A.home)
        BY <1>4, <1>12, <1>13, ShapeUpdates
      <4> QED BY <4>1 DEF Differs
    <3>2. /\ D \in Shape /\ D.phase = B.phase /\ D.depth = A.depth /\ D.frame = B.frame
          /\ D.room = B.room /\ D.home = B.home
      <4>1. Differs(B, D, B.depth - 8, B.home)
        BY <1>4, <1>12, <1>13, ShapeUpdates
      <4> QED BY <1>6, <4>1 DEF Differs
    <3> HIDE DEF C, D
    <3>3. B = C
      BY <1>4, <1>5, <1>6, <2>1, <3>1, SameShape
    <3>4. A = D
      BY <1>4, <1>5, <1>6, <2>1, <3>2, SameShape
    <3> QED BY <3>3, <3>4 DEF C, D
  <2>3. r # RDI /\ Scratch(B, r)
    BY <1>1, <1>15 DEF Tracked, Scratch
  <2>4. PushesWord(A, PUSH(r), B)
    BY <1>5, <1>10, <1>11, <2>2 DEF PushesWord
  <2>5. PopsWord(B, POP(r), A)
    BY <1>5, <1>10, <1>11, <2>2, <2>3, ZenonT(60) DEF PopsWord
  <2> QED BY <2>4, <2>5 DEF Leads, A, B, r
<1> QED BY <1>14, <1>15

\* All the registers of L, and back.
LEMMA PushesTyped ==
  ASSUME NEW p, NEW k, NEW S, NEW L, MayPush(S, L)
  PROVE  /\ Pushes(L) \in Seq(Instruction) /\ Pops(L) \in Seq(Instruction)
         /\ Typed(Steps(p, k), Pushes(L), S, Pushed(S, L, Len(L)))
         /\ Typed(Steps(p, k), Pops(L), Pushed(S, L, Len(L)), S)
<1> DEFINE n == Len(L)
           P == [i \in 1 .. n + 1 |-> Pushed(S, L, i - 1)]
           Q == [i \in 1 .. n + 1 |-> Pushed(S, L, n + 1 - i)]
<1>1. /\ n \in Nat /\ DOMAIN L = 1 .. n /\ L \in Seq(x86Registers)
      /\ \A i \in 1 .. n : L[i] \in Register
  BY DEF MayPush, Register
<1>2. /\ Pushes(L) \in Seq(Instruction) /\ Len(Pushes(L)) = n
      /\ \A i \in 1 .. n : Pushes(L)[i] = PUSH(L[i])
  <2>1. \A i \in 1 .. n : PUSH(L[i]) \in Instruction
    BY <1>1, InstructionFacts
  <2> QED BY <1>1, <2>1 DEF Pushes
<1>3. /\ Pops(L) \in Seq(Instruction) /\ Len(Pops(L)) = n
      /\ \A i \in 1 .. n : n + 1 - i \in 1 .. n /\ Pops(L)[i] = POP(L[n + 1 - i])
  <2>1. \A i \in 1 .. n : n + 1 - i \in 1 .. n
    BY <1>1
  <2>2. \A i \in 1 .. n : Reverse(L)[i] = L[n + 1 - i]
    BY <1>1, <2>1 DEF Reverse
  <2>3. \A i \in 1 .. n : POP(Reverse(L)[i]) \in Instruction
    BY <1>1, <2>1, <2>2, InstructionFacts
  <2>4. Pops(L) = [i \in 1 .. n |-> POP(Reverse(L)[i])]
    BY <1>1 DEF Pops
  <2> QED BY <1>1, <2>1, <2>2, <2>3, <2>4
<1>4. \A i \in 0 .. n : Pushed(S, L, i) \in Point
  BY PushedPoint
<1>5. Pushed(S, L, 0) = S
  <2>1. 0 \in 0 .. n
    BY <1>1
  <2> QED BY <2>1, PushedPoint
<1> HIDE DEF n
<1>6. /\ \A i \in 1 .. n + 1 : i - 1 \in 0 .. n /\ n + 1 - i \in 0 .. n
      /\ \A i \in 1 .. n : i \in 1 .. n + 1 /\ i + 1 \in 1 .. n + 1 /\ (i + 1) - 1 = i
                           /\ n + 1 - (i + 1) = (n + 1 - i) - 1 /\ n + 1 - i \in 1 .. n
      /\ 1 \in 1 .. n + 1 /\ n + 1 \in 1 .. n + 1 /\ 1 - 1 = 0 /\ (n + 1) - 1 = n
      /\ n + 1 - 1 = n /\ n + 1 - (n + 1) = 0
  BY <1>1
<1>7. /\ P \in [1 .. n + 1 -> Point] /\ Q \in [1 .. n + 1 -> Point]
      /\ \A i \in 1 .. n + 1 : P[i] = Pushed(S, L, i - 1) /\ Q[i] = Pushed(S, L, n + 1 - i)
  BY <1>4, <1>6
<1> HIDE DEF P, Q
<1>8. /\ P[1] = S /\ P[n + 1] = Pushed(S, L, n) /\ Q[1] = Pushed(S, L, n) /\ Q[n + 1] = S
  BY <1>5, <1>6, <1>7
<1>9. \A i \in 1 .. n : <<P[i], Pushes(L)[i], P[i + 1]>> \in Steps(p, k)
  <2> SUFFICES ASSUME NEW i \in 1 .. n PROVE <<P[i], Pushes(L)[i], P[i + 1]>> \in Steps(p, k)
    OBVIOUS
  <2>1. P[i] = Pushed(S, L, i - 1) /\ P[i + 1] = Pushed(S, L, i) /\ P[i] \in Point /\ P[i + 1] \in Point
    BY <1>6, <1>7
  <2>2. Leads(p, k, P[i], PUSH(L[i]), P[i + 1])
    BY <2>1, PushedNext DEF n
  <2>3. Pushes(L)[i] = PUSH(L[i]) /\ PUSH(L[i]) \in Instruction
    BY <1>1, <1>2, InstructionFacts
  <2> QED BY <2>1, <2>2, <2>3 DEF Steps
<1>10. \A i \in 1 .. n : <<Q[i], Pops(L)[i], Q[i + 1]>> \in Steps(p, k)
  <2> SUFFICES ASSUME NEW i \in 1 .. n PROVE <<Q[i], Pops(L)[i], Q[i + 1]>> \in Steps(p, k)
    OBVIOUS
  <2> DEFINE j == n + 1 - i
  <2>1. j \in 1 .. n
    BY <1>6
  <2>2. Q[i] = Pushed(S, L, j) /\ Q[i + 1] = Pushed(S, L, j - 1) /\ Q[i] \in Point /\ Q[i + 1] \in Point
    BY <1>6, <1>7, ZenonT(60)
  <2>3. Pops(L)[i] = POP(L[j]) /\ POP(L[j]) \in Instruction
    BY <1>1, <1>3, <2>1, InstructionFacts
  <2> HIDE DEF j
  <2>4. Leads(p, k, Q[i], POP(L[j]), Q[i + 1])
    BY <2>1, <2>2, PushedNext DEF n
  <2> QED BY <2>2, <2>3, <2>4 DEF Steps
<1>11. Along(Steps(p, k), Pushes(L), P) /\ Along(Steps(p, k), Pops(L), Q)
  BY <1>2, <1>3, <1>7, <1>9, <1>10 DEF Along
<1> QED BY <1>2, <1>3, <1>8, <1>11 DEF Typed, n

-----------------------------------------------------------------------------
(* The frame *)

AllHome == [r \in Tracked |-> 0]

EntryPoint == PointWith(0, 0, 0, AllHome)
Entered(F) == PointWith(1, 8 + F, F, AllHome)
Left(F)    == PointWith(2, 0, F, AllHome)
Done(F)    == PointWith(3, 0, F, AllHome)

\* After the first i callee-saved registers have been copied.
Copies(i) ==
  [r \in Tracked |-> IF r \in Range(calleeSaved) /\ Position(calleeSaved, r) <= i THEN -1 ELSE 0]
Copied(F, i) == PointWith(1, 8 + F, F, Copies(i))

\* Where the body starts.
Base(a, F) == IF a = "trivial" THEN Pushed(Entered(F), calleeSaved, 5) ELSE Copied(F, 5)

LEMMA FramePoints ==
  ASSUME NEW F \in Nat
  PROVE  /\ EntryPoint \in Point /\ Left(F) \in Point /\ Done(F) \in Point
         /\ F % 8 = 0 => Entered(F) \in Point /\ \A i \in 0 .. 5 : Copied(F, i) \in Point
<1>1. RDI \in Tracked
  BY DEF Tracked
<1>2. AllHome \in [Tracked -> Int] /\ \A r \in Tracked : AllHome[r] = 0
  BY DEF AllHome
<1>3. \A i : /\ Copies(i) \in [Tracked -> Int] /\ \A r \in Tracked : Copies(i)[r] <= 0
             /\ Copies(i)[RDI] = 0
  <2>1. RDI \notin Range(calleeSaved)
    BY RegisterFacts
  <2> QED BY <1>1, <2>1 DEF Copies
<1>4. \A f \in 0 .. 3 : \A d \in Nat : \A h \in [Tracked -> Int] :
        LET S == PointWith(f, d, F, h) IN
        /\ S \in Shape /\ S.phase = f /\ S.depth = d /\ S.frame = F /\ S.room = 0 /\ S.home = h
  BY DEF PointWith, Shape
<1>5. EntryPoint \in Point /\ Left(F) \in Point /\ Done(F) \in Point
  <2>1. EntryPoint \in Point
    BY <1>1, <1>2 DEF Point, Shape, EntryPoint, PointWith
  <2>2. Left(F) \in Point
    BY <1>1, <1>2, <1>4 DEF Point, Left
  <2>3. Done(F) \in Point
    BY <1>1, <1>2, <1>4 DEF Point, Done
  <2> QED BY <2>1, <2>2, <2>3
<1>6. ASSUME F % 8 = 0 PROVE Entered(F) \in Point /\ \A i \in 0 .. 5 : Copied(F, i) \in Point
  <2>1. 8 + F \in Nat /\ (8 + F) % 8 = 0
    BY <1>6
  <2>2. Entered(F) \in Point
    BY <1>1, <1>2, <1>4, <2>1 DEF Point, Entered
  <2>3. ASSUME NEW i \in 0 .. 5 PROVE Copied(F, i) \in Point
    <3>1. \A r \in Tracked : ~(Copies(i)[r] > 0)
      BY <1>3
    <3> QED BY <1>1, <1>3, <1>4, <2>1, <3>1 DEF Point, Copied
  <2> QED BY <2>2, <2>3
<1> QED BY <1>5, <1>6

\* What the code needs to know of the callee-saved registers.
LEMMA CalleeSavedFacts ==
  /\ calleeSaved \in Seq(x86Registers \ {RSP, RBP}) /\ Len(calleeSaved) = 5
  /\ OnceEach(calleeSaved) /\ Range(calleeSaved) \subseteq Tracked
  /\ \A j \in 1 .. 5 : Position(calleeSaved, calleeSaved[j]) = j /\ calleeSaved[j] \in Range(calleeSaved)
  /\ \A r \in Range(calleeSaved) : /\ Position(calleeSaved, r) \in 1 .. 5
                                    /\ calleeSaved[Position(calleeSaved, r)] = r
<1>1. OnceEach(calleeSaved)
  BY DEF OnceEach, calleeSaved, x86
<1>2. /\ calleeSaved \in Seq(Range(calleeSaved)) /\ Len(calleeSaved) = 5 /\ DOMAIN calleeSaved = 1 .. 5
  BY DEF calleeSaved, Range
<1>3. Range(calleeSaved) \subseteq x86Registers \ {RSP, RBP}
  BY RegisterFacts
<1>4. calleeSaved \in Seq(x86Registers \ {RSP, RBP})
  BY <1>2, <1>3
<1>5. \A j \in 1 .. 5 : Position(calleeSaved, calleeSaved[j]) = j /\ calleeSaved[j] \in Range(calleeSaved)
  BY <1>1, <1>2, PositionIs DEF Range
<1>6. \A r \in Range(calleeSaved) : /\ Position(calleeSaved, r) \in 1 .. 5
                                    /\ calleeSaved[Position(calleeSaved, r)] = r
  BY <1>2 DEF Range, Position
<1> QED BY <1>1, <1>2, <1>4, <1>5, <1>6 DEF Tracked

\* One more copy, and back.
LEMMA CopiedNext ==
  ASSUME NEW p, NEW k, NEW F \in Nat, F % 8 = 0, NEW i \in 1 .. 5
  PROVE  /\ Leads(p, k, Copied(F, i - 1), MOV(Reg(CE(i)), Reg(calleeSaved[i])), Copied(F, i))
         /\ Leads(p, k, Copied(F, i), MOV(Reg(calleeSaved[i]), Reg(CE(i))), Copied(F, i - 1))
<1> DEFINE A == Copied(F, i - 1)
           B == Copied(F, i)
           r == calleeSaved[i]
<1>1. i - 1 \in 0 .. 5 /\ i \in 0 .. 5 /\ i \in DOMAIN calleeSaved
  BY RegisterFacts
<1>2. A \in Shape /\ B \in Shape
  BY <1>1, FramePoints DEF Point
<1>3. /\ A.phase = 1 /\ A.depth = 8 + F /\ A.frame = F /\ A.room = 0 /\ A.home = Copies(i - 1)
      /\ B.phase = 1 /\ B.depth = 8 + F /\ B.frame = F /\ B.room = 0 /\ B.home = Copies(i)
  BY DEF Copied, PointWith
<1>4. r \in Tracked /\ r \in Range(calleeSaved) /\ Position(calleeSaved, r) = i
  BY CalleeSavedFacts
<1>5. \A q \in Tracked : q # r => A.home[q] = B.home[q]
  <2> SUFFICES ASSUME NEW q \in Tracked, q # r, q \in Range(calleeSaved)
               PROVE  Position(calleeSaved, q) <= i <=> Position(calleeSaved, q) <= i - 1
    BY <1>3 DEF Copies
  <2>1. Position(calleeSaved, q) \in 1 .. 5 /\ Position(calleeSaved, q) # i
    BY CalleeSavedFacts
  <2> QED BY <2>1
<1>6. A.home[r] = 0 /\ B.home[r] = -1
  BY <1>3, <1>4 DEF Copies
<1>7. 0 \in Int /\ -1 \in Int /\ A.depth \in Nat /\ B.depth \in Nat /\ -1 < 0
  BY <1>3
<1> HIDE DEF A, B, r
<1>8. B = [A EXCEPT !.home[r] = -1]
  <2> DEFINE C == [A EXCEPT !.home[r] = -1]
  <2>1. Differs(A, C, A.depth, [A.home EXCEPT ![r] = -1])
    BY <1>2, <1>4, <1>7, ShapeUpdates
  <2> HIDE DEF C
  <2>2. /\ C \in Shape /\ C.phase = A.phase /\ C.depth = A.depth /\ C.frame = A.frame
        /\ C.room = A.room /\ C.home = [A.home EXCEPT ![r] = -1]
    BY <2>1 DEF Differs
  <2>3. C.home = B.home
    BY <1>2, <1>4, <1>5, <1>6, <2>2 DEF Shape
  <2>4. B = C
    BY <1>2, <1>3, <2>2, <2>3, SameShape
  <2> QED BY <2>4 DEF C
<1>9. A = [B EXCEPT !.home[r] = 0]
  <2> DEFINE C == [B EXCEPT !.home[r] = 0]
  <2>1. Differs(B, C, B.depth, [B.home EXCEPT ![r] = 0])
    BY <1>2, <1>4, <1>7, ShapeUpdates
  <2> HIDE DEF C
  <2>2. /\ C \in Shape /\ C.phase = B.phase /\ C.depth = B.depth /\ C.frame = B.frame
        /\ C.room = B.room /\ C.home = [B.home EXCEPT ![r] = 0]
    BY <2>1 DEF Differs
  <2>3. C.home = A.home
    BY <1>2, <1>4, <1>5, <1>6, <2>2 DEF Shape
  <2>4. A = C
    BY <1>2, <1>3, <2>2, <2>3, SameShape
  <2> QED BY <2>4 DEF C
<1>10. SavesInCopy(A, MOV(Reg(CE(i)), Reg(r)), B)
  BY <1>1, <1>3, <1>6, <1>8 DEF SavesInCopy, r
<1>11. RestoresFromCopy(B, MOV(Reg(r), Reg(CE(i))), A)
  BY <1>1, <1>3, <1>6, <1>7, <1>9 DEF RestoresFromCopy, r
<1> QED BY <1>10, <1>11 DEF Leads, A, B, r

SaveCopies    == [i \in DOMAIN calleeSaved |-> MOV(Reg(CE(i)), Reg(calleeSaved[i]))]
RestoreCopies == Reverse([i \in DOMAIN calleeSaved |-> MOV(Reg(calleeSaved[i]), Reg(CE(i)))])

LEMMA CopiesTyped ==
  ASSUME NEW p, NEW k, NEW F \in Nat, F % 8 = 0
  PROVE  /\ SaveCopies \in Seq(Instruction) /\ RestoreCopies \in Seq(Instruction)
         /\ Typed(Steps(p, k), SaveCopies, Entered(F), Copied(F, 5))
         /\ Typed(Steps(p, k), RestoreCopies, Copied(F, 5), Entered(F))
<1> DEFINE save(i)    == MOV(Reg(CE(i)), Reg(calleeSaved[i]))
           restore(i) == MOV(Reg(calleeSaved[i]), Reg(CE(i)))
           back == [i \in 1 .. 5 |-> restore(i)]
           P == [i \in 1 .. 6 |-> Copied(F, i - 1)]
           Q == [i \in 1 .. 6 |-> Copied(F, 6 - i)]
<1>1. DOMAIN calleeSaved = 1 .. 5 /\ \A i \in 1 .. 5 : calleeSaved[i] \in Register /\ CE(i) \in Register
  <2>1. \A i \in 1 .. 5 : calleeSaved[i] \in x86Registers /\ i \in Int
    BY CalleeSavedFacts, RegisterFacts
  <2> QED BY <2>1, RegisterFacts, NameFacts DEF Register
<1>2. \A i \in 1 .. 5 : save(i) \in Instruction /\ restore(i) \in Instruction
  BY <1>1, InstructionFacts
<1>3. /\ SaveCopies \in Seq(Instruction) /\ Len(SaveCopies) = 5
      /\ \A i \in 1 .. 5 : SaveCopies[i] = save(i)
  <2> HIDE DEF save
  <2>1. SaveCopies = [i \in 1 .. 5 |-> save(i)]
    BY <1>1 DEF SaveCopies, save
  <2> QED BY <1>2, <2>1
<1>4. /\ RestoreCopies \in Seq(Instruction) /\ Len(RestoreCopies) = 5
      /\ \A i \in 1 .. 5 : RestoreCopies[i] = restore(6 - i)
  <2>1. RestoreCopies = Reverse(back)
    BY <1>1 DEF RestoreCopies
  <2> HIDE DEF restore
  <2>2. Len(back) = 5 /\ \A i \in 1 .. 5 : back[i] = restore(i)
    OBVIOUS
  <2> HIDE DEF back
  <2>3. Reverse(back) = [i \in 1 .. 5 |-> back[(5 - i) + 1]]
    BY <2>2 DEF Reverse
  <2>4. \A i \in 1 .. 5 : (5 - i) + 1 = 6 - i /\ 6 - i \in 1 .. 5
    OBVIOUS
  <2>5. Reverse(back) = [i \in 1 .. 5 |-> restore(6 - i)]
    BY <2>2, <2>3, <2>4
  <2> QED BY <1>2, <2>1, <2>4, <2>5
<1>5. \A i \in 0 .. 5 : Copied(F, i) \in Point
  BY FramePoints
<1>6. Copied(F, 0) = Entered(F)
  <2>1. \A r \in Range(calleeSaved) : ~(Position(calleeSaved, r) <= 0)
    BY CalleeSavedFacts
  <2>2. Copies(0) = AllHome
    BY <2>1 DEF Copies, AllHome
  <2> QED BY <2>2 DEF Copied, Entered
<1> HIDE DEF save, restore, back
<1>7. /\ \A i \in 1 .. 6 : i - 1 \in 0 .. 5 /\ 6 - i \in 0 .. 5
      /\ \A i \in 1 .. 5 : /\ i \in 1 .. 6 /\ i + 1 \in 1 .. 6 /\ (i + 1) - 1 = i /\ 6 - i \in 1 .. 5
                           /\ 6 - (i + 1) = (6 - i) - 1
  OBVIOUS
<1>8. /\ P \in [1 .. 6 -> Point] /\ Q \in [1 .. 6 -> Point]
      /\ \A i \in 1 .. 6 : P[i] = Copied(F, i - 1) /\ Q[i] = Copied(F, 6 - i)
  BY <1>5, <1>7
<1> HIDE DEF P, Q
<1>9. P[1] = Entered(F) /\ P[6] = Copied(F, 5) /\ Q[1] = Copied(F, 5) /\ Q[6] = Entered(F)
  <2>1. 1 \in 1 .. 6 /\ 6 \in 1 .. 6 /\ 1 - 1 = 0 /\ 6 - 1 = 5 /\ 6 - 6 = 0
    OBVIOUS
  <2>2. P[1] = Copied(F, 1 - 1) /\ P[6] = Copied(F, 6 - 1) /\ Q[1] = Copied(F, 6 - 1) /\ Q[6] = Copied(F, 6 - 6)
    BY <1>8
  <2> QED BY <1>6, <2>1, <2>2
<1>10. ASSUME NEW i \in 1 .. 5 PROVE <<P[i], save(i), P[i + 1]>> \in Steps(p, k)
  <2>1. P[i] = Copied(F, i - 1) /\ P[i + 1] = Copied(F, i) /\ P[i] \in Point /\ P[i + 1] \in Point
    BY <1>7, <1>8
  <2>2. Leads(p, k, P[i], save(i), P[i + 1])
    BY <2>1, CopiedNext DEF save
  <2> QED BY <1>2, <2>1, <2>2 DEF Steps
<1>11. ASSUME NEW i \in 1 .. 5 PROVE <<Q[i], restore(6 - i), Q[i + 1]>> \in Steps(p, k)
  <2> DEFINE j == 6 - i
  <2>1. j \in 1 .. 5
    OBVIOUS
  <2>2. Q[i] = Copied(F, j) /\ Q[i + 1] = Copied(F, j - 1) /\ Q[i] \in Point /\ Q[i + 1] \in Point
    BY <1>7, <1>8
  <2> HIDE DEF j
  <2>3. Leads(p, k, Q[i], restore(j), Q[i + 1])
    BY <2>1, <2>2, CopiedNext DEF restore
  <2>4. <<Q[i], restore(j), Q[i + 1]>> \in Steps(p, k)
    BY <1>2, <2>1, <2>2, <2>3 DEF Steps
  <2> QED BY <2>4 DEF j
<1>12. Along(Steps(p, k), SaveCopies, P) /\ Along(Steps(p, k), RestoreCopies, Q)
  <2>1. \A i \in 1 .. 5 : <<P[i], SaveCopies[i], P[i + 1]>> \in Steps(p, k)
    BY <1>3, <1>10
  <2>2. \A i \in 1 .. 5 : <<Q[i], RestoreCopies[i], Q[i + 1]>> \in Steps(p, k)
    BY <1>4, <1>11
  <2>3. 5 + 1 = 6
    OBVIOUS
  <2> HIDE DEF SaveCopies, RestoreCopies
  <2> QED BY <1>3, <1>4, <1>8, <2>1, <2>2, <2>3 DEF Along
<1>13. Len(SaveCopies) + 1 = 6 /\ Len(RestoreCopies) + 1 = 6
  BY <1>3, <1>4
<1> QED BY <1>3, <1>4, <1>9, <1>12, <1>13 DEF Typed
-----------------------------------------------------------------------------
(* The points where the body is *)

\* The registers saved around a call, below the padding of Chaitin's allocator.
CallerRegisters(a) == IF a = "trivial" THEN callerSaved ELSE hackyCallerSaved
Padded(a, F) ==
  IF a = "trivial" THEN Base(a, F) ELSE [Base(a, F) EXCEPT !.depth = Base(a, F).depth + 8]
Saved(a, F) == Pushed(Padded(a, F), CallerRegisters(a), Len(CallerRegisters(a)))

LEMMA CallerRegistersFacts ==
  ASSUME NEW a
  PROVE  /\ CallerRegisters(a) \in Seq(x86Registers \ {RSP, RBP}) /\ OnceEach(CallerRegisters(a))
         /\ Range(CallerRegisters(a)) \cap Tracked = {RDI}
         /\ Len(CallerRegisters(a)) = IF a = "trivial" THEN 9 ELSE 7
<1>1. OnceEach(callerSaved) /\ Len(callerSaved) = 9 /\ callerSaved \in Seq(Range(callerSaved))
  BY DEF OnceEach, callerSaved, x86, Range
<1>2. OnceEach(hackyCallerSaved) /\ Len(hackyCallerSaved) = 7 /\ hackyCallerSaved \in Seq(Range(hackyCallerSaved))
  BY DEF OnceEach, hackyCallerSaved, x86, Range
<1>3. callerSaved \in Seq(x86Registers \ {RSP, RBP}) /\ hackyCallerSaved \in Seq(x86Registers \ {RSP, RBP})
  BY <1>1, <1>2, RegisterFacts
<1>4. RDI \in Range(callerSaved) /\ RDI \in Range(hackyCallerSaved)
  BY RegisterFacts DEF Range
<1>5. Range(callerSaved) \cap Tracked = {RDI} /\ Range(hackyCallerSaved) \cap Tracked = {RDI}
  BY <1>4, RegisterFacts DEF Tracked
<1> QED BY <1>1, <1>2, <1>3, <1>5 DEF CallerRegisters

LEMMA BaseFacts ==
  ASSUME NEW a \in Allocators, NEW F \in Nat, F % 16 = 0
  PROVE  /\ Base(a, F) \in Point /\ Base(a, F).phase = 1 /\ Base(a, F).frame = F /\ Base(a, F).room = 0
         /\ Base(a, F).home[RDI] = 0 /\ \A r \in Range(calleeSaved) : Base(a, F).home[r] # 0
         /\ Base(a, F).depth = IF a = "trivial" THEN 48 + F ELSE 8 + F
         /\ a = "trivial" => MayPush(Entered(F), calleeSaved)
<1>1. F % 8 = 0
  OBVIOUS
<1>2. /\ Entered(F).phase = 1 /\ Entered(F).depth = 8 + F /\ Entered(F).frame = F
      /\ Entered(F).room = 0 /\ Entered(F).home = AllHome /\ Entered(F) \in Point
  BY <1>1, FramePoints DEF Entered, PointWith
<1>3. /\ RDI \in Tracked /\ RDI \notin Range(calleeSaved) /\ Range(calleeSaved) \subseteq Tracked
  BY RegisterFacts, CalleeSavedFacts DEF Tracked
<1>4. CASE a = "trivial"
  <2>1. MayPush(Entered(F), calleeSaved)
    BY <1>2, CalleeSavedFacts DEF MayPush, AllHome
  <2>2. 5 \in 0 .. Len(calleeSaved)
    BY CalleeSavedFacts
  <2>3. Base(a, F) = Pushed(Entered(F), calleeSaved, 5) /\ Base(a, F) \in Point
    BY <1>4, <2>1, <2>2, PushedPoint DEF Base
  <2>4. /\ Base(a, F).phase = 1 /\ Base(a, F).frame = F /\ Base(a, F).room = 0
        /\ Base(a, F).depth = 8 + F + 8 * 5
        /\ Base(a, F).home = [r \in Tracked |->
             IF r \in Range(calleeSaved) /\ Position(calleeSaved, r) <= 5
             THEN 8 + F + 8 * Position(calleeSaved, r) ELSE AllHome[r]]
    BY <1>2, <2>3 DEF Pushed, Entered, PointWith
  <2>5. Base(a, F).home[RDI] = 0
    BY <1>3, <2>4 DEF AllHome
  <2>6. \A r \in Range(calleeSaved) : Base(a, F).home[r] # 0
    <3> SUFFICES ASSUME NEW r \in Range(calleeSaved) PROVE Base(a, F).home[r] # 0
      OBVIOUS
    <3>1. Position(calleeSaved, r) \in 1 .. 5
      BY CalleeSavedFacts
    <3> QED BY <1>3, <2>4, <3>1
  <2> QED BY <1>4, <2>1, <2>3, <2>4, <2>5, <2>6
<1>5. CASE a = "chaitin"
  <2>1. Base(a, F) = Copied(F, 5) /\ Base(a, F) \in Point
    BY <1>1, <1>5, FramePoints DEF Base
  <2>2. /\ Base(a, F).phase = 1 /\ Base(a, F).frame = F /\ Base(a, F).room = 0
        /\ Base(a, F).depth = 8 + F /\ Base(a, F).home = Copies(5)
    BY <2>1 DEF Copied, PointWith
  <2>3. Copies(5)[RDI] = 0
    BY <1>3 DEF Copies
  <2>4. \A r \in Range(calleeSaved) : Copies(5)[r] # 0
    <3> SUFFICES ASSUME NEW r \in Range(calleeSaved) PROVE Copies(5)[r] = -1
      OBVIOUS
    <3>1. Position(calleeSaved, r) \in 1 .. 5
      BY CalleeSavedFacts
    <3> QED BY <1>3, <3>1 DEF Copies
  <2> QED BY <1>5, <2>1, <2>2, <2>3, <2>4
<1> QED BY <1>4, <1>5 DEF Allocators

LEMMA SavedFacts ==
  ASSUME NEW a \in Allocators, NEW F \in Nat, F % 16 = 0
  PROVE  /\ MayPush(Padded(a, F), CallerRegisters(a))
         /\ Saved(a, F) \in Point /\ Saved(a, F).phase = 1 /\ Saved(a, F).frame = F
         /\ Saved(a, F).room = 0 /\ \A r \in Tracked : Saved(a, F).home[r] # 0
         /\ Saved(a, F).depth % 16 = 8
<1> DEFINE B == Base(a, F)
           P == Padded(a, F)
           L == CallerRegisters(a)
<1>1. /\ B \in Point /\ B.phase = 1 /\ B.frame = F /\ B.room = 0
      /\ B.home[RDI] = 0 /\ \A r \in Range(calleeSaved) : B.home[r] # 0
      /\ B.depth = IF a = "trivial" THEN 48 + F ELSE 8 + F
  BY BaseFacts
<1>2. /\ B \in Shape /\ B.depth \in Nat /\ B.home \in [Tracked -> Int] /\ B.depth % 8 = 0
      /\ B.depth >= 8 + F
      /\ \A r \in Tracked : B.home[r] > 0 => 8 + B.frame < B.home[r] /\ B.home[r] <= B.depth
  BY <1>1 DEF Point, Shape
<1>3. P = IF a = "trivial" THEN B ELSE [B EXCEPT !.depth = B.depth + 8]
  BY DEF Padded
<1> HIDE DEF B, P
<1>4. /\ P \in Shape /\ P.phase = 1 /\ P.frame = F /\ P.room = 0 /\ P.home = B.home
      /\ P.depth = IF a = "trivial" THEN 48 + F ELSE 16 + F
  <2>1. CASE a = "trivial"
    BY <1>1, <1>2, <1>3, <2>1
  <2>2. CASE a # "trivial"
    <3>1. P = [B EXCEPT !.depth = B.depth + 8] /\ B.depth = 8 + F /\ B.depth + 8 \in Nat
      BY <1>1, <1>2, <1>3, <2>2
    <3>2. RDI \in Tracked
      BY DEF Tracked
    <3>3. Differs(B, [B EXCEPT !.depth = B.depth + 8], B.depth + 8, B.home)
      BY <1>2, <3>1, <3>2, ShapeUpdates
    <3> QED BY <1>1, <2>2, <3>1, <3>3 DEF Differs
  <2> QED BY <2>1, <2>2
<1>5. P \in Point
  <2>1. P.depth % 8 = 0 /\ P.depth >= 8 + P.frame /\ P.depth >= B.depth
    BY <1>1, <1>4
  <2>2. RDI \in Tracked
    BY DEF Tracked
  <2>3. \A r \in Tracked : P.home[r] > 0 => 8 + P.frame < P.home[r] /\ P.home[r] <= P.depth
    BY <1>1, <1>2, <1>4, <2>1
  <2> QED BY <1>1, <1>4, <2>1, <2>2, <2>3 DEF Point
<1>6. /\ L \in Seq(x86Registers \ {RSP, RBP}) /\ OnceEach(L) /\ Range(L) \cap Tracked = {RDI}
      /\ Len(L) = IF a = "trivial" THEN 9 ELSE 7
  BY CallerRegistersFacts
<1> HIDE DEF L
<1>7. MayPush(P, L)
  BY <1>1, <1>4, <1>5, <1>6 DEF MayPush
<1>8. Len(L) \in 0 .. Len(L) /\ Len(L) \in Nat
  BY <1>6
<1> DEFINE T == Pushed(P, L, Len(L))
<1>9. T \in Point /\ T.depth = P.depth + 8 * Len(L)
  BY <1>7, <1>8, PushedPoint
<1>10. /\ T.phase = 1 /\ T.frame = F /\ T.room = 0
       /\ T.home = [r \in Tracked |->
             IF r \in Range(L) /\ Position(L, r) <= Len(L) THEN P.depth + 8 * Position(L, r)
             ELSE P.home[r]]
  BY <1>4 DEF Pushed, Shape
<1> HIDE DEF T
<1>11. T.depth % 16 = 8
  <2>1. T.depth = IF a = "trivial" THEN F + 120 ELSE F + 72
    BY <1>4, <1>6, <1>9
  <2>2. (F + 120) % 16 = 8 /\ (F + 72) % 16 = 8
    OBVIOUS
  <2> QED BY <2>1, <2>2
<1>12. \A r \in Tracked : T.home[r] # 0
  <2> SUFFICES ASSUME NEW r \in Tracked PROVE T.home[r] # 0
    OBVIOUS
  <2>1. CASE r = RDI
    <3>1. r \in Range(L)
      BY <1>6, <2>1
    <3>2. Position(L, r) \in DOMAIN L
      BY <3>1 DEF Range, Position
    <3>3. Position(L, r) \in 1 .. Len(L)
      BY <1>6, <3>2
    <3> QED BY <1>4, <1>8, <1>10, <3>1, <3>3
  <2>2. CASE r # RDI
    BY <1>1, <1>4, <1>6, <1>10, <2>2 DEF Tracked
  <2> QED BY <2>1, <2>2
<1>13. Saved(a, F) = T
  BY DEF Saved, T, P, L
<1> QED BY <1>7, <1>9, <1>10, <1>11, <1>12, <1>13 DEF P, L
-----------------------------------------------------------------------------
(* The body, before and after the allocator *)

\* A point between two instructions of the body.
InBody(a, F, S) ==
  /\ S.phase = 1 /\ S.frame = F
  /\ a = "trivial" => \A r \in Range(calleeSaved) : S.home[r] # 0

Ordinary(p, k, S, insn, T) ==
  \/ SetsScratch(S, insn, T) \/ SetsRDI(S, insn, T) \/ StoresResult(p, k, S, insn, T)
  \/ MovesRSP(S, insn, T) \/ PushesWord(S, insn, T) \/ PopsWord(S, insn, T)
  \/ CallsNext(p, k, S, insn, T)

\* The steps of the code that the allocator is given.
BodySteps(p, k, a, F) ==
  {s \in Point \X Instruction \X Point :
     \/ s[1] = Base(a, F)  /\ s[2] = CALLERSAVEPUSH /\ s[3] = Saved(a, F)
     \/ s[1] = Saved(a, F) /\ s[2] = CALLERSAVEPOP  /\ s[3] = Base(a, F)
     \/ s[1] = Base(a, F)  /\ s[2] = LEAVE          /\ s[3] = Left(F)
     \/ s[1] = Left(F)     /\ s[2] = RET            /\ s[3] = Done(F)
     \/ InBody(a, F, s[1]) /\ InBody(a, F, s[3]) /\ Ordinary(p, k, s[1], s[2], s[3])}

LEMMA OpcodeFacts ==
  /\ CALLERSAVEPUSH.op = "callersavepush" /\ CALLERSAVEPOP.op = "callersavepop"
  /\ LEAVE.op = "leave" /\ RET.op = "ret"
  /\ PAD.op = "push" /\ PAD.src = Const(204) /\ Const(204).kind = "const"
  /\ \A r : Reg(r).kind = "reg" /\ Reg(r).r = r
  /\ \A d, s : MOV(d, s).op = "mov" /\ MOV(d, s).dest = d /\ MOV(d, s).src = s
  /\ \A r, c : /\ ADD(r, c).op = "add" /\ ADD(r, c).src.n = c
               /\ SUB(r, c).op = "sub" /\ SUB(r, c).src.n = c
  /\ \A r : PUSH(r).op = "push" /\ PUSH(r).src = Reg(r) /\ POP(r).op = "pop" /\ POP(r).dest = Reg(r)
  /\ \A f : CALL(f).op = "call" /\ CALL(f).label = f
  /\ \A c : ENTER(c).op = "enter" /\ ENTER(c).src.n = c
BY DEF CALLERSAVEPUSH, CALLERSAVEPOP, LEAVE, RET, PAD, Reg, MOV, ADD, SUB, PUSH, POP, CALL, ENTER,
       Bare, Insn, Const

LEMMA OrdinaryOpcode ==
  ASSUME NEW p, NEW k, NEW S, NEW x, NEW T, Ordinary(p, k, S, x, T)
  PROVE  x.op \in {"mov", "add", "sub", "push", "pop", "call"} /\ Leads(p, k, S, x, T)
<1>1. x.op \in {"mov", "add", "sub", "push", "pop", "call"}
  BY DEF Ordinary, SetsScratch, SetsRDI, StoresResult, MovesRSP, PushesWord, PopsWord, CallsNext
<1> QED BY <1>1 DEF Ordinary, Leads

LEMMA FrameSteps ==
  ASSUME NEW p, NEW k, NEW F \in Nat, F % 16 = 0
  PROVE  /\ Typed(Steps(p, k), <<LEAVE>>, Entered(F), Left(F))
         /\ Typed(Steps(p, k), <<RET>>, Left(F), Done(F))
         /\ Typed(Steps(p, k), <<ENTER(F)>>, EntryPoint, Entered(F))
<1>1. /\ Entered(F) \in Point /\ Left(F) \in Point /\ Done(F) \in Point /\ EntryPoint \in Point
  <2>1. F % 8 = 0
    OBVIOUS
  <2> QED BY <2>1, FramePoints
<1>2. LEAVE \in Instruction /\ RET \in Instruction /\ ENTER(F) \in Instruction
  BY InstructionFacts
<1>3. \A r \in Tracked : AllHome[r] = 0
  BY DEF AllHome
<1>4. /\ Entered(F).phase = 1 /\ Entered(F).frame = F /\ Entered(F).home = AllHome
      /\ Left(F).phase = 2 /\ Left(F).frame = F /\ Left(F).home = AllHome
      /\ EntryPoint.phase = 0 /\ EntryPoint.home = AllHome
  BY DEF Entered, Left, EntryPoint, PointWith
<1>5. LeavesFrame(Entered(F), LEAVE, Left(F))
  BY <1>3, <1>4, OpcodeFacts DEF LeavesFrame, Left
<1>7. Returns(Left(F), RET, Done(F))
  BY <1>4, OpcodeFacts DEF Returns, Done
<1>9. EntersFrame(EntryPoint, ENTER(F), Entered(F))
  <2>1. ENTER(F).op = "enter" /\ ENTER(F).src.n = F
    BY OpcodeFacts
  <2> QED BY <1>4, <2>1 DEF EntersFrame, Entered
<1> QED BY <1>1, <1>2, <1>5, <1>7, <1>9, TypedStep DEF Leads

\* ChaitinRegisterAllocator.postprocess
LEMMA ChaitinStep ==
  ASSUME NEW p, NEW k, NEW F \in Nat, F % 16 = 0, NEW s \in Point, NEW x \in Instruction, NEW t \in Point,
         <<s, x, t>> \in BodySteps(p, k, "chaitin", F)
  PROVE  chaitinInsn(x) \in Seq(Instruction) /\ Typed(Steps(p, k), chaitinInsn(x), s, t)
<1> DEFINE B == Base("chaitin", F)
           P == Padded("chaitin", F)
           V == Saved("chaitin", F)
           n == Len(hackyCallerSaved)
<1>1. "chaitin" \in Allocators /\ "chaitin" # "trivial" /\ F % 8 = 0
  BY DEF Allocators
<1>2. B \in Point /\ B = Copied(F, 5) /\ B.phase = 1 /\ B.depth \in Nat
  <2>1. B \in Point /\ B.phase = 1
    BY <1>1, BaseFacts
  <2>2. B = Copied(F, 5)
    BY <1>1 DEF Base
  <2> HIDE DEF B
  <2> QED BY <2>1, <2>2 DEF Point, Shape
<1>3. MayPush(P, hackyCallerSaved) /\ V = Pushed(P, hackyCallerSaved, n)
  BY <1>1, SavedFacts DEF CallerRegisters, Saved
<1>4. P \in Point /\ P.phase = 1 /\ P = [B EXCEPT !.depth = B.depth + 8]
  BY <1>1, <1>3 DEF MayPush, Padded
<1>5. /\ Pushes(hackyCallerSaved) \in Seq(Instruction) /\ Pops(hackyCallerSaved) \in Seq(Instruction)
      /\ Typed(Steps(p, k), Pushes(hackyCallerSaved), P, V)
      /\ Typed(Steps(p, k), Pops(hackyCallerSaved), V, P)
  BY <1>3, PushesTyped
<1>6. PAD \in Instruction /\ ADD(RSP, 8) \in Instruction
  <2>1. RSP \in Register
    BY RegisterFacts DEF Register
  <2> QED BY <2>1, InstructionFacts
<1>7. Typed(Steps(p, k), <<PAD>>, B, P)
  <2>1. PushesWord(B, PAD, P)
    BY <1>2, <1>4, OpcodeFacts DEF PushesWord
  <2> QED BY <1>2, <1>4, <1>6, <2>1, TypedStep DEF Leads
<1>8. Typed(Steps(p, k), <<ADD(RSP, 8)>>, P, B)
  <2>1. B = [P EXCEPT !.depth = P.depth - 8]
    <3> HIDE DEF B, P
    <3>1. B \in Shape /\ P \in Shape /\ RDI \in Tracked /\ 0 \in Int /\ B.depth + 8 \in Nat
      BY <1>2, <1>4 DEF Point, Tracked
    <3>2. Differs(B, P, B.depth + 8, B.home)
      <4>1. Differs(B, [B EXCEPT !.depth = B.depth + 8], B.depth + 8, B.home)
        BY <3>1, ShapeUpdates
      <4> QED BY <1>4, <4>1
    <3>3. P.depth - 8 = B.depth /\ P.depth - 8 \in Nat
      BY <1>2, <3>2 DEF Differs
    <3> DEFINE C == [P EXCEPT !.depth = P.depth - 8]
    <3>4. Differs(P, C, P.depth - 8, P.home)
      BY <3>1, <3>3, ShapeUpdates
    <3> HIDE DEF C
    <3>5. C = B
      BY <3>1, <3>2, <3>3, <3>4, SameShape DEF Differs
    <3> QED BY <3>5 DEF C
  <2> HIDE DEF B, P
  <2>2. MovesRSP(P, ADD(RSP, 8), B)
    <3>1. ADD(RSP, 8).op = "add" /\ ADD(RSP, 8).src.n = 8 /\ 8 % 8 = 0
      BY OpcodeFacts
    <3> QED BY <1>4, <2>1, <3>1 DEF MovesRSP
  <2> QED BY <1>2, <1>4, <1>6, <2>2, TypedStep DEF Leads
<1>9. /\ RestoreCopies \in Seq(Instruction) /\ Typed(Steps(p, k), RestoreCopies, B, Entered(F))
  BY <1>1, <1>2, CopiesTyped
<1> HIDE DEF B, P, V
<1>10. CASE s = B /\ x = CALLERSAVEPUSH /\ t = V
  <2>1. chaitinInsn(x) = <<PAD>> \o Pushes(hackyCallerSaved)
    BY <1>10, OpcodeFacts DEF chaitinInsn
  <2>2. <<PAD>> \in Seq(Instruction)
    BY <1>6
  <2> QED BY <1>5, <1>7, <1>10, <2>1, <2>2, TypedConcat
<1>11. CASE s = V /\ x = CALLERSAVEPOP /\ t = B
  <2>1. chaitinInsn(x) = Pops(hackyCallerSaved) \o <<ADD(RSP, 8)>>
    BY <1>11, OpcodeFacts DEF chaitinInsn
  <2>2. <<ADD(RSP, 8)>> \in Seq(Instruction)
    BY <1>6
  <2> QED BY <1>5, <1>8, <1>11, <2>1, <2>2, TypedConcat
<1>12. CASE s = B /\ x = LEAVE /\ t = Left(F)
  <2>1. chaitinInsn(x) = RestoreCopies \o <<x>>
    BY <1>12, OpcodeFacts DEF chaitinInsn, RestoreCopies
  <2>2. Typed(Steps(p, k), <<x>>, Entered(F), t)
    BY <1>12, FrameSteps
  <2>3. <<x>> \in Seq(Instruction)
    OBVIOUS
  <2> QED BY <1>9, <1>12, <2>1, <2>2, <2>3, TypedConcat
<1>13. CASE s = Left(F) /\ x = RET /\ t = Done(F)
  <2>1. chaitinInsn(x) = <<x>>
    BY <1>13, OpcodeFacts DEF chaitinInsn
  <2>2. Typed(Steps(p, k), <<x>>, s, t)
    BY <1>13, FrameSteps
  <2> QED BY <2>1, <2>2
<1>14. CASE Ordinary(p, k, s, x, t)
  <2>1. chaitinInsn(x) = <<x>>
    BY <1>14, OrdinaryOpcode DEF chaitinInsn
  <2>2. Typed(Steps(p, k), <<x>>, s, t)
    BY <1>14, OrdinaryOpcode, TypedStep
  <2> QED BY <2>1, <2>2
<1>15. \/ s = Base("chaitin", F) /\ x = CALLERSAVEPUSH /\ t = Saved("chaitin", F)
       \/ s = Saved("chaitin", F) /\ x = CALLERSAVEPOP /\ t = Base("chaitin", F)
       \/ s = Base("chaitin", F) /\ x = LEAVE /\ t = Left(F)
       \/ s = Left(F) /\ x = RET /\ t = Done(F)
       \/ Ordinary(p, k, s, x, t)
  BY DEF BodySteps
<1> QED BY <1>10, <1>11, <1>12, <1>13, <1>14, <1>15 DEF B, V
\* The registers TrivialRegisterAllocator works in.
LEMMA DefaultsFacts ==
  /\ DOMAIN defaults = 1 .. 3
  /\ \A j \in 1 .. 3 : /\ defaults[j] \in Range(calleeSaved)
                       /\ defaults[j] \in x86Registers \ {RSP, RBP, RDI}
<1>1. DOMAIN defaults = 1 .. 3 /\ \A j \in 1 .. 3 : defaults[j] \in {x86("R12"), x86("R13"), x86("R14")}
  BY DEF defaults
<1>2. Range(calleeSaved) = {x86("RBX"), x86("R12"), x86("R13"), x86("R14"), x86("R15")}
  BY DEF calleeSaved, Range
<1> QED BY <1>1, <1>2, RegisterFacts

LEMMA InvolvedFacts ==
  ASSUME NEW x \in Instruction
  PROVE  /\ involved(x) \in Seq(AbstractRegister) /\ DOMAIN involved(x) \subseteq 1 .. 3
         /\ \A o \in {x.dest, x.src} :
              \/ AbstractOf(o) = <<>> /\ (o.kind = "const" \/ o.r \in x86Registers)
              \/ /\ AbstractOf(o) = <<o.r>> /\ o.kind # "const" /\ o.r \in AbstractRegister
                 /\ o.r \in Range(involved(x)) /\ Position(involved(x), o.r) \in 1 .. 3
<1> DEFINE d == AbstractOf(x.dest)
           s == AbstractOf(x.src)
<1>1. x.dest \in Operand /\ x.src \in Operand
  BY DEF Instruction
<1>2. ASSUME NEW o \in Operand
      PROVE  \/ AbstractOf(o) = <<>> /\ (o.kind = "const" \/ o.r \in x86Registers)
             \/ AbstractOf(o) = <<o.r>> /\ o.kind # "const" /\ o.r \in AbstractRegister
  <2>1. o.r \in x86Registers \/ o.r \in AbstractRegister
    BY DEF Operand, Register
  <2> QED BY <2>1, NameFacts DEF AbstractOf
<1>3. involved(x) = IF s = d THEN d ELSE d \o s
  BY DEF involved
<1>4. /\ d = <<>> \/ (d = <<x.dest.r>> /\ x.dest.r \in AbstractRegister)
      /\ s = <<>> \/ (s = <<x.src.r>> /\ x.src.r \in AbstractRegister)
  BY <1>1, <1>2
<1>5. \A r \in AbstractRegister :
        <<r>> \in Seq(AbstractRegister) /\ Len(<<r>>) = 1 /\ r \in Range(<<r>>)
  BY DEF Range
<1>6. <<>> \in Seq(AbstractRegister) /\ Len(<<>>) = 0
  OBVIOUS
<1> HIDE DEF d, s
<1>7. d \in Seq(AbstractRegister) /\ Len(d) \in 0 .. 1 /\ s \in Seq(AbstractRegister) /\ Len(s) \in 0 .. 1
  <2>1. 0 \in 0 .. 1 /\ 1 \in 0 .. 1
    OBVIOUS
  <2>2. d \in Seq(AbstractRegister) /\ Len(d) \in 0 .. 1
    BY <1>4, <1>5, <1>6, <2>1
  <2>3. s \in Seq(AbstractRegister) /\ Len(s) \in 0 .. 1
    BY <1>4, <1>5, <1>6, <2>1
  <2> QED BY <2>2, <2>3
<1>8. /\ d \o s \in Seq(AbstractRegister) /\ Len(d \o s) = Len(d) + Len(s)
      /\ Range(d \o s) = Range(d) \cup Range(s)
  BY <1>7, ConcatRange
<1>9. \A r \in Range(involved(x)) : Position(involved(x), r) \in DOMAIN involved(x)
  BY DEF Range, Position
<1>10. involved(x) \in Seq(AbstractRegister) /\ DOMAIN involved(x) \subseteq 1 .. 3
  <2>1. involved(x) \in Seq(AbstractRegister) /\ Len(involved(x)) <= 2
    BY <1>3, <1>7, <1>8
  <2> QED BY <2>1
<1>11. /\ d = <<x.dest.r>> /\ x.dest.r \in AbstractRegister => x.dest.r \in Range(involved(x))
       /\ s = <<x.src.r>> /\ x.src.r \in AbstractRegister => x.src.r \in Range(involved(x))
  <2>1. Range(involved(x)) = Range(d) \cup Range(s)
    BY <1>3, <1>8
  <2> QED BY <1>5, <2>1
<1> QED BY <1>1, <1>2, <1>9, <1>10, <1>11 DEF d, s

\* The instruction in the registers the allocator works in.
Replaced(x) == [x EXCEPT !.dest = replaceOperand(x.dest, involved(x)),
                         !.src  = replaceOperand(x.src, involved(x))]

LEMMA ReplacedFacts ==
  ASSUME NEW x \in Instruction
  PROVE  /\ Replaced(x) \in Instruction /\ Replaced(x).op = x.op /\ Replaced(x).label = x.label
         /\ \/ Replaced(x).dest = x.dest /\ (x.dest.kind = "const" \/ x.dest.r \in x86Registers)
            \/ /\ Replaced(x).dest.kind = x.dest.kind /\ Replaced(x).dest.n = x.dest.n
               /\ x.dest.r \in AbstractRegister
               /\ \E j \in 1 .. 3 : Replaced(x).dest.r = defaults[j]
         /\ \/ Replaced(x).src = x.src /\ (x.src.kind = "const" \/ x.src.r \in x86Registers)
            \/ /\ Replaced(x).src.kind = x.src.kind /\ Replaced(x).src.n = x.src.n
               /\ x.src.r \in AbstractRegister
               /\ \E j \in 1 .. 3 : Replaced(x).src.r = defaults[j]
<1> DEFINE r(o) == replaceOperand(o, involved(x))
<1>1. ASSUME NEW o \in Operand, o \in {x.dest, x.src}
      PROVE  /\ r(o) \in Operand
             /\ \/ r(o) = o /\ (o.kind = "const" \/ o.r \in x86Registers)
                \/ /\ r(o).kind = o.kind /\ r(o).n = o.n /\ o.r \in AbstractRegister
                   /\ \E j \in 1 .. 3 : r(o).r = defaults[j]
  <2>1. CASE AbstractOf(o) = <<>>
    <3>1. r(o) = o
      BY <2>1 DEF replaceOperand
    <3>2. <<>> # <<o.r>>
      OBVIOUS
    <3> QED BY <1>1, <2>1, <3>1, <3>2, InvolvedFacts
  <2>2. CASE AbstractOf(o) # <<>>
    <3>1. o.r \in AbstractRegister /\ Position(involved(x), o.r) \in 1 .. 3
      BY <1>1, <2>2, InvolvedFacts
    <3> DEFINE q == defaults[Position(involved(x), o.r)]
    <3>2. r(o) = [o EXCEPT !.r = q]
      BY <2>2 DEF replaceOperand
    <3>3. q \in Register /\ \E j \in 1 .. 3 : q = defaults[j]
      BY <3>1, DefaultsFacts DEF Register
    <3> HIDE DEF q, r
    <3>4. r(o) \in Operand /\ r(o).kind = o.kind /\ r(o).n = o.n /\ r(o).r = q
      BY <3>2, <3>3 DEF Operand
    <3> QED BY <3>1, <3>3, <3>4
  <2> QED BY <2>1, <2>2
<1>2. x.dest \in Operand /\ x.src \in Operand
  BY DEF Instruction
<1>3. Replaced(x) = [x EXCEPT !.dest = r(x.dest), !.src = r(x.src)]
  BY DEF Replaced
<1> HIDE DEF r
<1>4. r(x.dest) \in Operand /\ r(x.src) \in Operand
  BY <1>1, <1>2
<1>5. /\ Replaced(x) \in Instruction /\ Replaced(x).op = x.op /\ Replaced(x).label = x.label
      /\ Replaced(x).dest = r(x.dest) /\ Replaced(x).src = r(x.src)
  BY <1>3, <1>4 DEF Instruction
<1> QED BY <1>1, <1>2, <1>5
\* The same effect on the stack, in the registers the allocator works in.
LEMMA ReplacedLeads ==
  ASSUME NEW p, NEW k, NEW F, NEW S \in Point, NEW x \in Instruction, NEW T \in Point,
         InBody("trivial", F, S), Ordinary(p, k, S, x, T)
  PROVE  Leads(p, k, S, Replaced(x), T)
<1> DEFINE y == Replaced(x)
<1>1. /\ y \in Instruction /\ y.op = x.op /\ y.label = x.label
      /\ \/ y.dest = x.dest /\ (x.dest.kind = "const" \/ x.dest.r \in x86Registers)
         \/ /\ y.dest.kind = x.dest.kind /\ y.dest.n = x.dest.n /\ x.dest.r \in AbstractRegister
            /\ \E j \in 1 .. 3 : y.dest.r = defaults[j]
      /\ \/ y.src = x.src /\ (x.src.kind = "const" \/ x.src.r \in x86Registers)
         \/ /\ y.src.kind = x.src.kind /\ y.src.n = x.src.n /\ x.src.r \in AbstractRegister
            /\ \E j \in 1 .. 3 : y.src.r = defaults[j]
  BY ReplacedFacts
<1>2. \A j \in 1 .. 3 : Scratch(S, defaults[j])
  BY DefaultsFacts DEF InBody, Scratch
<1>3. \A r \in x86Registers : r \notin AbstractRegister
  BY NameFacts
<1>4. \A r : Reg(r).r = r
  BY OpcodeFacts
<1>5. RSP \in x86Registers /\ RDI \in x86Registers /\ Tracked \subseteq x86Registers
  BY RegisterFacts DEF Tracked
<1>6. \A j \in 1 .. 3 : defaults[j] # RSP
  BY DefaultsFacts
<1> HIDE DEF y
<1>7. CASE SetsScratch(S, x, T)
  <2>1. y.dest.kind = "reg" /\ Scratch(S, y.dest.r)
    BY <1>1, <1>2, <1>7 DEF SetsScratch
  <2> QED BY <1>1, <1>7, <2>1 DEF SetsScratch, Leads, y
<1>8. CASE SetsRDI(S, x, T)
  <2>1. y.dest = Reg(RDI)
    <3>1. x.dest = Reg(RDI) /\ x.dest.r \notin AbstractRegister
      BY <1>3, <1>4, <1>5, <1>8 DEF SetsRDI
    <3> QED BY <1>1, <3>1
  <2>2. y.src = Reg(RSP) <=> x.src = Reg(RSP)
    <3>1. x.src = Reg(RSP) => x.src.r \notin AbstractRegister
      BY <1>3, <1>4, <1>5
    <3>2. (\E j \in 1 .. 3 : y.src.r = defaults[j]) => y.src # Reg(RSP)
      BY <1>4, <1>6
    <3> QED BY <1>1, <3>1, <3>2
  <2> QED BY <1>1, <1>8, <2>1, <2>2 DEF SetsRDI, Leads, y
<1>9. CASE StoresResult(p, k, S, x, T)
  <2>1. x.dest.r = RDI
    BY <1>9 DEF StoresResult, Mem
  <2>2. y.dest = x.dest
    BY <1>1, <1>3, <1>5, <2>1
  <2> QED BY <1>1, <1>9, <2>2 DEF StoresResult, Leads, y
<1>10. y.src.n = x.src.n /\ y.src.kind = x.src.kind
  BY <1>1
<1>11. CASE MovesRSP(S, x, T)
  BY <1>1, <1>10, <1>11 DEF MovesRSP, Leads, y
<1>12. CASE PushesWord(S, x, T)
  <2>1. \A r \in Tracked : x.src = Reg(r) => y.src = Reg(r)
    BY <1>1, <1>3, <1>4, <1>5
  <2>2. PushesWord(S, y, T)
    BY <1>1, <1>10, <1>12, <2>1 DEF PushesWord
  <2> QED BY <2>2 DEF Leads, y
<1>13. CASE PopsWord(S, x, T)
  <2>1. \A r \in Tracked : x.dest = Reg(r) => y.dest = Reg(r)
    BY <1>1, <1>3, <1>4, <1>5
  <2>2. Scratch(S, x.dest.r) => Scratch(S, y.dest.r)
    BY <1>1, <1>2
  <2>3. PopsWord(S, y, T)
    BY <1>1, <1>13, <2>1, <2>2 DEF PopsWord
  <2> QED BY <2>3 DEF Leads, y
<1>14. CASE CallsNext(p, k, S, x, T)
  BY <1>1, <1>14 DEF CallsNext, Leads, y
<1> QED BY <1>7, <1>8, <1>9, <1>11, <1>12, <1>13, <1>14 DEF Ordinary

\* TrivialRegisterAllocator: loads, the instruction, stores.
LEMMA AroundTyped ==
  ASSUME NEW p, NEW k, NEW F \in Nat, NEW offs \in Seq(AbstractRegister), 8 * Len(offs) <= F,
         NEW S \in Point, NEW x \in Instruction, NEW T \in Point,
         involved(x) = <<>> \/ (InBody("trivial", F, S) /\ InBody("trivial", F, T)),
         Leads(p, k, S, Replaced(x), T)
  PROVE  aroundInsn(x, offs) \in Seq(Instruction) /\ Typed(Steps(p, k), aroundInsn(x, offs), S, T)
<1> DEFINE e == involved(x)
           R == Steps(p, k)
           load(j)  == When(e[j] \in Range(offs), <<MOV(Reg(defaults[j]), slot(e[j], offs))>>)
           store(j) == When(e[j] \in Range(offs), <<MOV(slot(e[j], offs), Reg(defaults[j]))>>)
           loads  == [j \in DOMAIN e |-> load(j)]
           stores == [j \in DOMAIN e |-> store(j)]
<1>1. e \in Seq(AbstractRegister) /\ DOMAIN e \subseteq 1 .. 3
  BY InvolvedFacts
<1>2. aroundInsn(x, offs) = FlattenSeq(loads) \o <<Replaced(x)>> \o FlattenSeq(stores)
  BY DEF aroundInsn, Replaced
<1> HIDE DEF load, store
<1>3. ASSUME NEW j \in DOMAIN e
      PROVE  /\ load(j) \in Seq(Instruction) /\ Typed(R, load(j), S, S)
             /\ store(j) \in Seq(Instruction) /\ Typed(R, store(j), T, T)
  <2> DEFINE w  == Position(offs, e[j])
             d  == Reg(defaults[j])
             m  == slot(e[j], offs)
  <2>a. InBody("trivial", F, S) /\ InBody("trivial", F, T)
    OBVIOUS
  <2>1. j \in 1 .. 3 /\ defaults[j] \in Range(calleeSaved) /\ defaults[j] \in x86Registers \ {RSP, RBP, RDI}
    BY <1>1, DefaultsFacts
  <2>2. CASE e[j] \notin Range(offs)
    <3>1. load(j) = <<>> /\ store(j) = <<>>
      BY <2>2 DEF When, load, store
    <3>2. <<>> \in Seq(Instruction)
      OBVIOUS
    <3> QED BY <3>1, <3>2, TypedEmpty
  <2>3. CASE e[j] \in Range(offs)
    <3>1. w \in DOMAIN offs
      BY <2>3 DEF Range, Position
    <3>2. w \in Nat \ {0} /\ 8 * w <= F /\ -8 * w \in Int
      BY <3>1
    <3>3. m = Mem(RBP, -8 * w)
      BY DEF slot
    <3>4. RBP \in Register /\ defaults[j] \in Register
      BY <2>1, RegisterFacts DEF Register
    <3> HIDE DEF w, m
    <3>5. m \in Operand /\ d \in Operand
      BY <3>2, <3>3, <3>4, InstructionFacts
    <3>6. MOV(d, m) \in Instruction /\ MOV(m, d) \in Instruction
      BY <3>5, InstructionFacts
    <3>7. SetsScratch(S, MOV(d, m), S)
      <4>1. Scratch(S, defaults[j])
        BY <2>1, <2>a DEF InBody, Scratch
      <4> QED BY <4>1, <2>a, OpcodeFacts DEF SetsScratch, InBody
    <3>8. StoresInFrame(T, MOV(m, d), T)
      BY <3>2, <3>3, <2>a, OpcodeFacts DEF StoresInFrame, InBody
    <3>9. load(j) = <<MOV(d, m)>> /\ store(j) = <<MOV(m, d)>>
      BY <2>3 DEF When, m, load, store
    <3>10. Typed(R, <<MOV(d, m)>>, S, S) /\ Typed(R, <<MOV(m, d)>>, T, T)
      BY <3>6, <3>7, <3>8, TypedStep DEF Leads
    <3>11. <<MOV(d, m)>> \in Seq(Instruction) /\ <<MOV(m, d)>> \in Seq(Instruction)
      BY <3>6
    <3> QED BY <3>9, <3>10, <3>11
  <2> QED BY <2>2, <2>3
<1>4. /\ loads \in Seq(Seq(Instruction)) /\ \A j \in 1 .. Len(loads) : Typed(R, loads[j], S, S)
      /\ stores \in Seq(Seq(Instruction)) /\ \A j \in 1 .. Len(stores) : Typed(R, stores[j], T, T)
  <2> DEFINE Q == Seq(Instruction)
  <2>1. /\ Len(e) \in Nat /\ DOMAIN e = 1 .. Len(e)
        /\ \A j \in DOMAIN e : load(j) \in Q /\ store(j) \in Q
    BY <1>1, <1>3
  <2> HIDE DEF Q
  <2>2. /\ loads \in Seq(Q) /\ Len(loads) = Len(e) /\ \A j \in DOMAIN e : loads[j] = load(j)
        /\ stores \in Seq(Q) /\ Len(stores) = Len(e) /\ \A j \in DOMAIN e : stores[j] = store(j)
    BY <2>1
  <2> HIDE DEF loads, stores
  <2> QED BY <1>3, <2>1, <2>2 DEF Q
<1> HIDE DEF loads, stores, R
<1>5. Typed(R, FlattenSeq(loads), S, S) /\ Typed(R, FlattenSeq(stores), T, T)
  BY <1>4, TypedLoop
<1>6. Replaced(x) \in Instruction
  BY ReplacedFacts
<1>7. Typed(R, <<Replaced(x)>>, S, T)
  BY <1>6, TypedStep DEF R
<1>8. /\ FlattenSeq(loads) \in Seq(Instruction) /\ FlattenSeq(stores) \in Seq(Instruction)
      /\ <<Replaced(x)>> \in Seq(Instruction)
  BY <1>5, <1>6 DEF Typed, Along
<1>9. Typed(R, FlattenSeq(loads) \o <<Replaced(x)>>, S, T)
  BY <1>5, <1>7, TypedConcat
<1>10. Typed(R, aroundInsn(x, offs), S, T)
  BY <1>2, <1>5, <1>9, TypedConcat
<1> QED BY <1>10 DEF Typed, Along, R
\* TrivialRegisterAllocator.allocateInsn
LEMMA TrivialStep ==
  ASSUME NEW p, NEW k, NEW F \in Nat, F % 16 = 0, NEW offs \in Seq(AbstractRegister), 8 * Len(offs) <= F,
         NEW s \in Point, NEW x \in Instruction, NEW t \in Point,
         <<s, x, t>> \in BodySteps(p, k, "trivial", F)
  PROVE  allocateInsn(x, offs) \in Seq(Instruction) /\ Typed(Steps(p, k), allocateInsn(x, offs), s, t)
<1> DEFINE B == Base("trivial", F)
           V == Saved("trivial", F)
           n == Len(callerSaved)
<1>1. "trivial" \in Allocators /\ F % 8 = 0
  BY DEF Allocators
<1>2. MayPush(Entered(F), calleeSaved) /\ B = Pushed(Entered(F), calleeSaved, Len(calleeSaved))
  BY <1>1, BaseFacts, CalleeSavedFacts DEF Base
<1>3. MayPush(B, callerSaved) /\ V = Pushed(B, callerSaved, n)
  BY <1>1, SavedFacts DEF CallerRegisters, Saved, Padded
<1>4. /\ Pushes(callerSaved) \in Seq(Instruction) /\ Pops(callerSaved) \in Seq(Instruction)
      /\ Typed(Steps(p, k), Pushes(callerSaved), B, V)
      /\ Typed(Steps(p, k), Pops(callerSaved), V, B)
  BY <1>3, PushesTyped
<1>5. Pops(calleeSaved) \in Seq(Instruction) /\ Typed(Steps(p, k), Pops(calleeSaved), B, Entered(F))
  BY <1>2, PushesTyped
<1> HIDE DEF B, V, n
<1>6. CASE s = B /\ x = CALLERSAVEPUSH /\ t = V
  BY <1>4, <1>6, OpcodeFacts DEF allocateInsn
<1>7. CASE s = V /\ x = CALLERSAVEPOP /\ t = B
  BY <1>4, <1>7, OpcodeFacts DEF allocateInsn
<1>8. CASE s = B /\ x = LEAVE /\ t = Left(F)
  <2>1. allocateInsn(x, offs) = Pops(calleeSaved) \o <<x>>
    BY <1>8, OpcodeFacts DEF allocateInsn
  <2>2. Typed(Steps(p, k), <<x>>, Entered(F), t)
    BY <1>8, FrameSteps
  <2>3. <<x>> \in Seq(Instruction)
    OBVIOUS
  <2> QED BY <1>5, <1>8, <2>1, <2>2, <2>3, TypedConcat
<1>9. CASE s = Left(F) /\ x = RET /\ t = Done(F)
  <2>1. allocateInsn(x, offs) = aroundInsn(x, offs)
    BY <1>9, OpcodeFacts DEF allocateInsn
  <2>2. involved(x) = <<>>
    BY <1>9 DEF involved, AbstractOf, RET, Bare, Insn, Const
  <2>3. Replaced(x).op = "ret"
    BY <1>9, ReplacedFacts, OpcodeFacts
  <2>4. s.phase = 2 /\ t = PointWith(3, 0, s.frame, s.home)
    BY <1>9 DEF Left, Done, PointWith
  <2>5. Returns(s, Replaced(x), t)
    BY <2>3, <2>4 DEF Returns
  <2>6. Leads(p, k, s, Replaced(x), t)
    BY <2>5 DEF Leads
  <2> QED BY <2>1, <2>2, <2>6, AroundTyped
<1>10. CASE InBody("trivial", F, s) /\ InBody("trivial", F, t) /\ Ordinary(p, k, s, x, t)
  <2>1. allocateInsn(x, offs) = aroundInsn(x, offs)
    BY <1>10, OrdinaryOpcode DEF allocateInsn
  <2>2. Leads(p, k, s, Replaced(x), t)
    BY <1>10, ReplacedLeads
  <2> QED BY <1>10, <2>1, <2>2, AroundTyped
<1> QED BY <1>6, <1>7, <1>8, <1>9, <1>10 DEF BodySteps, B, V

\* What an allocator makes of a piece of the body.
Allocate(a, insns, offs) == IF a = "trivial" THEN allocateAll(insns, offs) ELSE chaitinAll(insns)

LEMMA AllocateTyped ==
  ASSUME NEW p, NEW k, NEW a \in Allocators, NEW F \in Nat, F % 16 = 0, NEW offs,
         a = "trivial" => offs \in Seq(AbstractRegister) /\ 8 * Len(offs) <= F,
         NEW c, NEW s, NEW t, Typed(BodySteps(p, k, a, F), c, s, t)
  PROVE  Allocate(a, c, offs) \in Seq(Instruction) /\ Typed(Steps(p, k), Allocate(a, c, offs), s, t)
<1>1. c \in Seq(Instruction)
  BY DEF Typed, Along
<1>2. CASE a = "trivial"
  <2> DEFINE piece == [x \in Instruction |-> allocateInsn(x, offs)]
  <2>1. \A u \in Point : \A x \in Instruction : \A v \in Point :
          <<u, x, v>> \in BodySteps(p, k, a, F) =>
            piece[x] \in Seq(Instruction) /\ Typed(Steps(p, k), piece[x], u, v)
    BY <1>2, TrivialStep
  <2>2. \A i \in DOMAIN c : piece[c[i]] = allocateInsn(c[i], offs)
    BY <1>1
  <2> HIDE DEF piece
  <2>3. Typed(Steps(p, k), FlattenSeq([i \in DOMAIN c |-> piece[c[i]]]), s, t)
    BY <2>1, TypedReplace
  <2>4. [i \in DOMAIN c |-> piece[c[i]]] = [i \in DOMAIN c |-> allocateInsn(c[i], offs)]
    BY <2>2
  <2>5. Typed(Steps(p, k), Allocate(a, c, offs), s, t)
    BY <1>2, <2>3, <2>4 DEF Allocate, allocateAll
  <2> QED BY <2>5 DEF Typed, Along
<1>3. CASE a = "chaitin"
  <2> DEFINE piece == [x \in Instruction |-> chaitinInsn(x)]
  <2>1. \A u \in Point : \A x \in Instruction : \A v \in Point :
          <<u, x, v>> \in BodySteps(p, k, a, F) =>
            piece[x] \in Seq(Instruction) /\ Typed(Steps(p, k), piece[x], u, v)
    BY <1>3, ChaitinStep
  <2>2. \A i \in DOMAIN c : piece[c[i]] = chaitinInsn(c[i])
    BY <1>1
  <2> HIDE DEF piece
  <2>3. Typed(Steps(p, k), FlattenSeq([i \in DOMAIN c |-> piece[c[i]]]), s, t)
    BY <2>1, TypedReplace
  <2>4. [i \in DOMAIN c |-> piece[c[i]]] = [i \in DOMAIN c |-> chaitinInsn(c[i])]
    BY <2>2
  <2>5. Typed(Steps(p, k), Allocate(a, c, offs), s, t)
    BY <1>3, <2>3, <2>4 DEF Allocate, chaitinAll
  <2> QED BY <2>5 DEF Typed, Along
<1> QED BY <1>2, <1>3 DEF Allocators
-----------------------------------------------------------------------------
(* The body: what is moved into temporaries *)

\* The expressions tiles are made for.
LirExpression == [temp : BOOLEAN, reg : {r \in AbstractRegister : Temporary(r)}, value : Int]

LEMMA BodyOne ==
  ASSUME NEW p, NEW k, NEW a, NEW F, NEW s \in Point, NEW x \in Instruction, NEW t \in Point,
         InBody(a, F, s), InBody(a, F, t), Ordinary(p, k, s, x, t)
  PROVE  Typed(BodySteps(p, k, a, F), <<x>>, s, t)
<1>1. <<s, x, t>> \in BodySteps(p, k, a, F)
  BY DEF BodySteps
<1> QED BY <1>1, TypedOne

\* A temporary may be set to anything.
LEMMA TemporarySet ==
  ASSUME NEW p, NEW k, NEW a, NEW F, NEW S \in Point, InBody(a, F, S),
         NEW r, Temporary(r), NEW o \in Operand
  PROVE  /\ MOV(Reg(r), o) \in Instruction
         /\ Typed(BodySteps(p, k, a, F), <<MOV(Reg(r), o)>>, S, S)
<1>1. r \in Register /\ Reg(r) \in Operand
  BY InstructionFacts DEF Temporary, Register
<1>2. MOV(Reg(r), o) \in Instruction
  BY <1>1, InstructionFacts
<1>3. SetsScratch(S, MOV(Reg(r), o), S)
  BY OpcodeFacts DEF SetsScratch, Scratch, InBody
<1> QED BY <1>2, <1>3, BodyOne DEF Ordinary

LEMMA ExprTyped ==
  ASSUME NEW p, NEW k, NEW a, NEW F, NEW S \in Point, InBody(a, F, S), NEW e \in LirExpression
  PROVE  /\ e.reg \in Register /\ Temporary(e.reg) /\ Reg(e.reg) \in Operand
         /\ exprTile(e) \in Seq(Instruction) /\ Typed(BodySteps(p, k, a, F), exprTile(e), S, S)
<1>1. e.reg \in Register /\ Temporary(e.reg) /\ e.value \in Int
  BY DEF LirExpression, Register
<1>2. Reg(e.reg) \in Operand /\ Const(e.value) \in Operand
  BY <1>1, InstructionFacts
<1>3. CASE e.temp
  <2>1. exprTile(e) = <<>>
    BY <1>3 DEF exprTile
  <2>2. <<>> \in Seq(Instruction)
    OBVIOUS
  <2> QED BY <1>1, <1>2, <2>1, <2>2, TypedEmpty
<1>4. CASE ~e.temp
  <2>1. exprTile(e) = <<MOV(Reg(e.reg), Const(e.value))>>
    BY <1>4 DEF exprTile
  <2>2. /\ MOV(Reg(e.reg), Const(e.value)) \in Instruction
        /\ Typed(BodySteps(p, k, a, F), <<MOV(Reg(e.reg), Const(e.value))>>, S, S)
    BY <1>1, <1>2, TemporarySet
  <2> QED BY <1>1, <1>2, <2>1, <2>2
<1> QED BY <1>3, <1>4

\* A piece of code and one instruction.
LEMMA TypedAppend ==
  ASSUME NEW R, NEW c, NEW s, NEW t, NEW u, NEW x \in Instruction, Typed(R, c, s, t), Typed(R, <<x>>, t, u)
  PROVE  Append(c, x) \in Seq(Instruction) /\ Typed(R, Append(c, x), s, u)
<1>1. c \in Seq(Instruction)
  BY DEF Typed, Along
<1>2. Append(c, x) = c \o <<x>> /\ Append(c, x) \in Seq(Instruction)
  BY <1>1
<1> QED BY <1>2, TypedConcat

LEMMA MoveTyped ==
  ASSUME NEW p, NEW k, NEW a, NEW F, NEW S \in Point, InBody(a, F, S),
         NEW r, Temporary(r), NEW e \in LirExpression
  PROVE  /\ moveTile(r, e) \in Seq(Instruction)
         /\ Typed(BodySteps(p, k, a, F), moveTile(r, e), S, S)
<1>1. /\ Reg(e.reg) \in Operand
      /\ exprTile(e) \in Seq(Instruction) /\ Typed(BodySteps(p, k, a, F), exprTile(e), S, S)
  BY ExprTyped
<1>2. /\ MOV(Reg(r), Reg(e.reg)) \in Instruction
      /\ Typed(BodySteps(p, k, a, F), <<MOV(Reg(r), Reg(e.reg))>>, S, S)
  BY <1>1, TemporarySet
<1> QED BY <1>1, <1>2, TypedAppend DEF moveTile

LEMMA ExpressionFacts ==
  /\ \A i \in Int : /\ Temp(ARG(i)) \in LirExpression /\ Temp(RV(i)) \in LirExpression
                    /\ Temp(<<"$TL", i>>) \in LirExpression
  /\ \A e \in Expression : \A i \in Int : LirExpr(e, i) \in LirExpression /\ LoweredArg(e, i) \in LirExpression
<1>1. \A r : Temporary(r) => Temp(r) \in LirExpression
  BY DEF Temp, LirExpression, Temporary
<1>2. \A c, i \in Int : Value(c, i) \in LirExpression
  BY NameFacts DEF Value, LirExpression, Temporary
<1>3. \A i \in Int : /\ Temp(ARG(i)) \in LirExpression /\ Temp(RV(i)) \in LirExpression
                     /\ Temp(<<"$TL", i>>) \in LirExpression
                     /\ Temp(ParamTemp(i)) \in LirExpression /\ Temp(ResultTemp(i)) \in LirExpression
  BY <1>1, NameFacts
<1>4. \A e \in Expression : \A i \in Int : LirExpr(e, i) \in LirExpression
  <2> SUFFICES ASSUME NEW e \in Expression, NEW i \in Int PROVE LirExpr(e, i) \in LirExpression
    OBVIOUS
  <2>1. e.from \in {"param", "result", "number"} /\ e.n \in Int
    BY DEF Expression
  <2>2. LirExpr(e, i) \in {Temp(ParamTemp(e.n)), Temp(ResultTemp(e.n)), Value(e.n, i)}
    BY <2>1 DEF LirExpr
  <2> QED BY <1>2, <1>3, <2>1, <2>2
<1> QED BY <1>3, <1>4 DEF LoweredArg
-----------------------------------------------------------------------------
(* The body: a call *)

\* d bytes below the saved registers, with room for results at depth m.
Below(a, F, d, m) == [Saved(a, F) EXCEPT !.depth = Saved(a, F).depth + d, !.room = m]

LEMMA BelowFacts ==
  ASSUME NEW a \in Allocators, NEW F \in Nat, F % 16 = 0
  PROVE  /\ \A d, m \in Nat : d % 8 = 0 =>
              /\ Below(a, F, d, m) \in Point /\ InBody(a, F, Below(a, F, d, m))
              /\ Below(a, F, d, m).phase = 1
              /\ Below(a, F, d, m).depth = Saved(a, F).depth + d /\ Below(a, F, d, m).room = m
              /\ \A r \in Tracked : /\ Below(a, F, d, m).home[r] # 0
                                    /\ Below(a, F, d, m).home[r] <= Saved(a, F).depth
         /\ \A d, e, m \in Nat :
              [Below(a, F, d, m) EXCEPT !.depth = Saved(a, F).depth + e] = Below(a, F, e, m)
         /\ \A d, m, q \in Nat : [Below(a, F, d, m) EXCEPT !.room = q] = Below(a, F, d, q)
         /\ Below(a, F, 0, 0) = Saved(a, F)
         /\ Saved(a, F).depth \in Nat /\ Saved(a, F).depth % 16 = 8 /\ Saved(a, F).depth >= 8
<1> DEFINE V == Saved(a, F)
           W(d, m) == Below(a, F, d, m)
<1>1. /\ V \in Point /\ V.phase = 1 /\ V.frame = F /\ V.room = 0 /\ \A r \in Tracked : V.home[r] # 0
      /\ V.depth % 16 = 8
  BY SavedFacts
<1> HIDE DEF V
<1>2. /\ V \in Shape /\ V.depth \in Nat /\ V.depth % 8 = 0 /\ V.depth >= 8 + F
      /\ V.home \in [Tracked -> Int] /\ V.home[RDI] >= 0
      /\ \A r \in Tracked : V.home[r] > 0 => 8 + F < V.home[r] /\ V.home[r] <= V.depth
  BY <1>1 DEF Point, Shape
<1>3. RDI \in Tracked /\ Range(calleeSaved) \subseteq Tracked
  BY DEF Tracked
<1>4. ASSUME NEW d \in Nat, NEW m \in Nat
      PROVE  /\ W(d, m) \in Shape /\ W(d, m).phase = 1 /\ W(d, m).depth = V.depth + d
             /\ W(d, m).frame = F /\ W(d, m).room = m /\ W(d, m).home = V.home
  <2>1. W(d, m) = [V EXCEPT !.depth = V.depth + d, !.room = m]
    BY DEF Below, V
  <2>2. V.depth + d \in Nat
    BY <1>2
  <2> HIDE DEF W
  <2> QED BY <1>1, <1>2, <2>1, <2>2 DEF Shape
<1> HIDE DEF W
<1>5. ASSUME NEW d \in Nat, NEW m \in Nat, d % 8 = 0
      PROVE  /\ W(d, m) \in Point /\ InBody(a, F, W(d, m))
             /\ \A r \in Tracked : W(d, m).home[r] # 0 /\ W(d, m).home[r] <= V.depth
  <2>1. (V.depth + d) % 8 = 0 /\ V.depth + d >= 8 + F /\ V.depth <= V.depth + d
    BY <1>2, <1>5
  <2>2. \A r \in Tracked : V.home[r] # 0 /\ V.home[r] <= V.depth
    BY <1>1, <1>2
  <2>3. \A r \in Tracked : V.home[r] > 0 => 8 + F < V.home[r] /\ V.home[r] <= V.depth + d
    BY <1>2, <2>1
  <2>4. W(d, m) \in Point
    BY <1>1, <1>2, <1>3, <1>4, <2>1, <2>3, ZenonT(60) DEF Point
  <2>5. InBody(a, F, W(d, m))
    BY <1>1, <1>3, <1>4 DEF InBody
  <2> QED BY <1>4, <2>2, <2>4, <2>5
<1>6. ASSUME NEW d \in Nat, NEW e \in Nat, NEW m \in Nat, NEW q \in Nat
      PROVE  /\ [W(d, m) EXCEPT !.depth = V.depth + e] = W(e, m)
             /\ [W(d, m) EXCEPT !.room = q] = W(d, q)
  <2> DEFINE A == [W(d, m) EXCEPT !.depth = V.depth + e]
             B == [W(d, m) EXCEPT !.room = q]
  <2>1. V.depth + e \in Nat
    BY <1>2
  <2>2. /\ A \in Shape /\ A.phase = 1 /\ A.depth = V.depth + e
        /\ A.frame = F /\ A.room = m /\ A.home = V.home
    BY <1>4, <2>1 DEF Shape
  <2>3. /\ B \in Shape /\ B.phase = 1 /\ B.depth = V.depth + d
        /\ B.frame = F /\ B.room = q /\ B.home = V.home
    BY <1>4 DEF Shape
  <2> HIDE DEF A, B
  <2>4. A = W(e, m)
    BY <1>4, <2>2, SameShape
  <2>5. B = W(d, q)
    BY <1>4, <2>3, SameShape
  <2> QED BY <2>4, <2>5 DEF A, B
<1>7. W(0, 0) = V
  <2>1. 0 \in Nat /\ V.depth + 0 = V.depth
    BY <1>2
  <2>2. /\ W(0, 0) \in Shape /\ W(0, 0).phase = 1 /\ W(0, 0).depth = V.depth
        /\ W(0, 0).frame = F /\ W(0, 0).room = 0 /\ W(0, 0).home = V.home
    BY <1>4, <2>1
  <2> QED BY <1>1, <1>2, <2>2, SameShape
<1>8. V.depth >= 8
  BY <1>2
<1> QED BY <1>1, <1>2, <1>4, <1>5, <1>6, <1>7, <1>8 DEF V, W

LEMMA ArgumentRegisters ==
  /\ argRegisters[1] = RDI
  /\ \A j \in 1 .. 6 : argRegisters[j] \in x86Registers
  /\ \A j \in 2 .. 6 : argRegisters[j] \in Range(callerSaved) \ {RDI}
<1>1. Range(callerSaved) = {x86("RAX"), x86("RCX"), x86("RDX"), x86("RDI"), x86("RSI"),
                            x86("R8"), x86("R9"), x86("R10"), x86("R11")}
  BY DEF callerSaved, Range
<1>2. \A m, n : x86(m) = x86(n) => m = n
  BY DEF x86
<1>3. /\ argRegisters[1] = RDI /\ RDI = x86("RDI")
      /\ argRegisters[2] = x86("RSI") /\ argRegisters[3] = x86("RDX") /\ argRegisters[4] = x86("RCX")
      /\ argRegisters[5] = x86("R8") /\ argRegisters[6] = x86("R9")
  BY DEF argRegisters, RDI
<1>4. \A j \in 2 .. 6 : j \in {2, 3, 4, 5, 6}
  OBVIOUS
<1>5. \A j \in 2 .. 6 : argRegisters[j] \in Range(callerSaved) \ {RDI}
  BY <1>1, <1>2, <1>3, <1>4
<1>6. \A j \in 1 .. 6 : j = 1 \/ j \in 2 .. 6
  OBVIOUS
<1> QED BY <1>3, <1>5, <1>6, RegisterFacts

\* One argument: a push, or a move into the register for it.
LEMMA PutArgTyped ==
  ASSUME NEW p, NEW k, NEW a \in Allocators, NEW F \in Nat, F % 16 = 0,
         NEW d \in Nat, d % 8 = 0, NEW m \in Nat,
         NEW i \in Nat \ {0}, NEW R \in Nat, R <= 2 => m = 0, NEW e \in LirExpression
  PROVE  LET put   == Append(exprTile(e), putArg(i, R, e.reg))
             depth == IF adjIdx(i, R) <= 6 THEN d ELSE d + 8
         IN  /\ put \in Seq(Instruction)
             /\ Typed(BodySteps(p, k, a, F), put, Below(a, F, d, m), Below(a, F, depth, m))
<1> DEFINE S == Below(a, F, d, m)
           T == Below(a, F, d + 8, m)
           B == BodySteps(p, k, a, F)
           j == adjIdx(i, R)
<1>1. d + 8 \in Nat /\ (d + 8) % 8 = 0
  OBVIOUS
<1>2. /\ S \in Point /\ InBody(a, F, S) /\ T \in Point /\ InBody(a, F, T)
      /\ S.phase = 1 /\ S.depth = Saved(a, F).depth + d /\ S.room = m
      /\ \A r \in Tracked : S.home[r] # 0
  BY <1>1, BelowFacts
<1>3. T = [S EXCEPT !.depth = Saved(a, F).depth + (d + 8)]
  BY <1>1, BelowFacts
<1>4. Saved(a, F).depth \in Nat
  BY BelowFacts
<1>5. Saved(a, F).depth + (d + 8) = S.depth + 8
  BY <1>2, <1>4
<1> HIDE DEF S, T
<1>6. /\ e.reg \in Register /\ Temporary(e.reg) /\ Reg(e.reg) \in Operand
      /\ exprTile(e) \in Seq(Instruction) /\ Typed(B, exprTile(e), S, S)
  BY <1>2, ExprTyped
<1>7. j \in Nat \ {0} /\ (j = 1 => R <= 2)
  BY DEF adjIdx
<1>8. CASE j <= 6
  <2> DEFINE x == MOV(Reg(argRegisters[j]), Reg(e.reg))
  <2>1. j \in 1 .. 6 /\ (j # 1 => j \in 2 .. 6)
    BY <1>7, <1>8
  <2>2. x \in Instruction
    <3>1. argRegisters[j] \in Register
      BY <2>1, ArgumentRegisters DEF Register
    <3> QED BY <1>6, <3>1, InstructionFacts
  <2>3. Ordinary(p, k, S, x, S)
    <3>1. x.op = "mov" /\ x.dest = Reg(argRegisters[j]) /\ x.src = Reg(e.reg)
          /\ Reg(argRegisters[j]).kind = "reg" /\ Reg(argRegisters[j]).r = argRegisters[j]
      BY OpcodeFacts
    <3>2. CASE j = 1
      <4>1. x.dest = Reg(RDI) /\ S.room = 0
        BY <1>2, <1>7, <3>1, <3>2, ArgumentRegisters
      <4>2. x.src # Reg(RSP)
        <5>1. e.reg # RSP
          BY <1>6, RegisterFacts, NameFacts DEF Temporary
        <5> QED BY <3>1, <5>1, OpcodeFacts
      <4>3. S = [S EXCEPT !.room = 0]
        <5>1. 0 \in Nat /\ m = 0
          BY <1>2, <4>1
        <5>2. [Below(a, F, d, m) EXCEPT !.room = 0] = Below(a, F, d, 0)
          BY <5>1, BelowFacts, SMTT(60)
        <5> QED BY <5>1, <5>2 DEF S
      <4>4. RDI \in Tracked
        BY DEF Tracked
      <4>5. SetsRDI(S, x, S)
        BY <1>2, <3>1, <4>1, <4>2, <4>3, <4>4 DEF SetsRDI
      <4> QED BY <4>5 DEF Ordinary
    <3>3. CASE j # 1
      <4>1. argRegisters[j] \in x86Registers \ {RSP, RBP, RDI}
        BY <2>1, <3>3, ArgumentRegisters, RegisterFacts
      <4>2. SetsScratch(S, x, S)
        BY <1>2, <3>1, <4>1 DEF SetsScratch, Scratch
      <4> QED BY <4>2 DEF Ordinary
    <3> QED BY <3>2, <3>3
  <2> HIDE DEF x
  <2>4. Typed(B, <<x>>, S, S)
    BY <1>2, <2>2, <2>3, BodyOne
  <2>5. putArg(i, R, e.reg) = x
    BY <1>8 DEF putArg, x
  <2>6. Append(exprTile(e), x) \in Seq(Instruction) /\ Typed(B, Append(exprTile(e), x), S, S)
    BY <1>6, <2>2, <2>4, TypedAppend
  <2> HIDE DEF B, j
  <2> QED BY <1>8, <2>5, <2>6 DEF S, B, j
<1>9. CASE ~(j <= 6)
  <2> DEFINE x == PUSH(e.reg)
  <2>1. x \in Instruction
    BY <1>6, InstructionFacts
  <2>2. PushesWord(S, x, T)
    <3>1. x.op = "push" /\ x.src = Reg(e.reg) /\ Reg(e.reg).kind # "mem"
      BY OpcodeFacts
    <3>2. T = [S EXCEPT !.depth = S.depth + 8]
      BY <1>3, <1>5
    <3> QED BY <1>2, <3>1, <3>2 DEF PushesWord
  <2> HIDE DEF x
  <2>3. Typed(B, <<x>>, S, T)
    BY <1>2, <2>1, <2>2, BodyOne DEF Ordinary
  <2>4. putArg(i, R, e.reg) = x
    BY <1>9 DEF putArg, x
  <2>5. Append(exprTile(e), x) \in Seq(Instruction) /\ Typed(B, Append(exprTile(e), x), S, T)
    BY <1>6, <2>1, <2>3, TypedAppend
  <2> HIDE DEF B, j
  <2> QED BY <1>9, <2>4, <2>5 DEF S, T, B, j
<1> QED BY <1>8, <1>9
LEMMA PushedArgs ==
  ASSUME NEW n \in Nat, NEW R \in Nat
  PROVE  /\ pushedArgs(n, R) \in 0 .. n /\ pushedReturns(R) \in Nat
         /\ R >= 3 => pushedReturns(R) = R - 2
         /\ R < 3 => pushedReturns(R) = 0
         /\ \A j \in 1 .. n : adjIdx(n + 1 - j, R) <= 6 <=> pushedArgs(n, R) < j
BY DEF pushedArgs, pushedReturns, atLeast0, adjIdx

\* All of the arguments.
LEMMA CallArgsTyped ==
  ASSUME NEW p, NEW k, NEW a \in Allocators, NEW F \in Nat, F % 16 = 0,
         NEW d \in Nat, d % 8 = 0, NEW m \in Nat,
         NEW R \in Nat, R <= 2 => m = 0, NEW args \in Seq(LirExpression)
  PROVE  Typed(BodySteps(p, k, a, F), callArgs(args, R), Below(a, F, d, m),
               Below(a, F, d + 8 * pushedArgs(Len(args), R), m))
<1> DEFINE n  == Len(args)
           PA == pushedArgs(n, R)
           B  == BodySteps(p, k, a, F)
           put(i) == Append(exprTile(args[i]), putArg(i, R, args[i].reg))
           ss == [j \in DOMAIN args |-> put(n + 1 - j)]
           pushed(j) == IF j <= PA THEN j ELSE PA
           depth(j) == d + 8 * pushed(j - 1)
           points == [j \in 1 .. n + 1 |-> Below(a, F, depth(j), m)]
<1>1. n \in Nat /\ DOMAIN args = 1 .. n /\ \A i \in 1 .. n : args[i] \in LirExpression
  OBVIOUS
<1>2. PA \in 0 .. n /\ \A j \in 1 .. n : adjIdx(n + 1 - j, R) <= 6 <=> PA < j
  BY <1>1, PushedArgs
<1> HIDE DEF PA, n
<1>3. \A j \in 1 .. n + 1 : depth(j) \in Nat /\ depth(j) % 8 = 0
  BY <1>1, <1>2
<1>4. \A j \in 1 .. n : /\ n + 1 - j \in 1 .. n /\ n + 1 - j \in Nat \ {0} /\ j \in 1 .. n + 1 /\ j + 1 \in 1 .. n + 1
                        /\ PA < j => depth(j + 1) = depth(j)
                        /\ ~(PA < j) => depth(j + 1) = depth(j) + 8
  BY <1>1, <1>2
<1>5. depth(1) = d /\ depth(n + 1) = d + 8 * PA /\ 1 \in 1 .. n + 1 /\ n + 1 \in 1 .. n + 1
  BY <1>1, <1>2
<1> HIDE DEF depth
<1>6. \A j \in 1 .. n + 1 : Below(a, F, depth(j), m) \in Point
  BY <1>3, BelowFacts
<1>7. points \in [1 .. n + 1 -> Point] /\ \A j \in 1 .. n + 1 : points[j] = Below(a, F, depth(j), m)
  BY <1>6
<1> HIDE DEF points, put
<1>8. ASSUME NEW j \in 1 .. n
      PROVE  put(n + 1 - j) \in Seq(Instruction) /\ Typed(B, put(n + 1 - j), points[j], points[j + 1])
  <2> DEFINE i == n + 1 - j
  <2>1. i \in 1 .. n /\ i \in Nat \ {0} /\ args[i] \in LirExpression
    BY <1>1, <1>4
  <2>2. depth(j + 1) = IF adjIdx(i, R) <= 6 THEN depth(j) ELSE depth(j) + 8
    BY <1>2, <1>4
  <2>3. depth(j) \in Nat /\ depth(j) % 8 = 0
    BY <1>3, <1>4
  <2>4. points[j] = Below(a, F, depth(j), m) /\ points[j + 1] = Below(a, F, depth(j + 1), m)
    BY <1>4, <1>7
  <2> HIDE DEF i
  <2>5. put(i) \in Seq(Instruction) /\ Typed(B, put(i), Below(a, F, depth(j), m), Below(a, F, depth(j + 1), m))
    BY <2>1, <2>2, <2>3, PutArgTyped DEF put
  <2> QED BY <2>4, <2>5 DEF i
<1>9. ss \in Seq(Seq(Instruction)) /\ Len(ss) = n /\ \A j \in 1 .. n : ss[j] = put(n + 1 - j)
  <2> DEFINE Q == Seq(Instruction)
  <2>1. \A j \in 1 .. n : put(n + 1 - j) \in Q
    BY <1>8
  <2> HIDE DEF Q
  <2>2. ss \in Seq(Q) /\ Len(ss) = n /\ \A j \in 1 .. n : ss[j] = put(n + 1 - j)
    BY <1>1, <2>1
  <2> QED BY <2>2 DEF Q
<1>10. callArgs(args, R) = FlattenSeq(ss)
  BY DEF callArgs, put, n
<1> HIDE DEF ss, B
<1>11. Typed(B, FlattenSeq(ss), points[1], points[n + 1])
  <2>1. \A j \in 1 .. n : Typed(B, ss[j], points[j], points[j + 1])
    BY <1>8, <1>9
  <2> QED BY <1>7, <1>9, <2>1, TypedFlatten
<1>12. points[1] = Below(a, F, d, m) /\ points[n + 1] = Below(a, F, d + 8 * PA, m)
  BY <1>5, <1>7
<1> QED BY <1>10, <1>11, <1>12 DEF B, PA, n

\* RSP moved by a constant.
LEMMA BelowMoves ==
  ASSUME NEW p, NEW k, NEW a \in Allocators, NEW F \in Nat, F % 16 = 0,
         NEW d \in Nat, d % 8 = 0, NEW e \in Nat, e % 8 = 0, NEW m \in Nat
  PROVE  /\ Typed(BodySteps(p, k, a, F), <<SUB(RSP, e)>>, Below(a, F, d, m), Below(a, F, d + e, m))
         /\ Typed(BodySteps(p, k, a, F), <<ADD(RSP, e)>>, Below(a, F, d + e, m), Below(a, F, d, m))
<1> DEFINE S == Below(a, F, d, m)
           T == Below(a, F, d + e, m)
           D == Saved(a, F).depth
<1>1. d + e \in Nat /\ (d + e) % 8 = 0 /\ D \in Nat
  <2>1. D \in Nat
    BY BelowFacts
  <2>2. d + e \in Nat /\ (d + e) % 8 = 0
    OBVIOUS
  <2> QED BY <2>1, <2>2
<1>2. /\ S \in Point /\ InBody(a, F, S) /\ S.phase = 1 /\ S.depth = D + d
      /\ T \in Point /\ InBody(a, F, T) /\ T.phase = 1 /\ T.depth = D + (d + e)
  BY <1>1, BelowFacts
<1>3. T = [S EXCEPT !.depth = D + (d + e)] /\ S = [T EXCEPT !.depth = D + d]
  BY <1>1, BelowFacts
<1>4. SUB(RSP, e) \in Instruction /\ ADD(RSP, e) \in Instruction
  <2>1. RSP \in Register
    BY RegisterFacts DEF Register
  <2> QED BY <2>1, InstructionFacts
<1> HIDE DEF S, T, D
<1>5. T = [S EXCEPT !.depth = S.depth + e] /\ S = [T EXCEPT !.depth = T.depth - e]
  <2>1. S.depth + e = D + (d + e) /\ T.depth - e = D + d
    BY <1>1, <1>2
  <2> QED BY <1>3, <2>1
<1>6. /\ SUB(RSP, e).op = "sub" /\ SUB(RSP, e).src.n = e
      /\ ADD(RSP, e).op = "add" /\ ADD(RSP, e).src.n = e
  BY OpcodeFacts
<1>7. MovesRSP(S, SUB(RSP, e), T) /\ MovesRSP(T, ADD(RSP, e), S)
  BY <1>2, <1>5, <1>6 DEF MovesRSP
<1> QED BY <1>2, <1>4, <1>7, BodyOne DEF Ordinary, S, T
\* The results: from RAX and RDX, then from the stack.
LEMMA GetReturnsTyped ==
  ASSUME NEW p, NEW k, NEW a \in Allocators, NEW F \in Nat, F % 16 = 0,
         NEW d \in Nat, d % 8 = 0, NEW R \in Nat
  PROVE  Typed(BodySteps(p, k, a, F), [i \in 1 .. R |-> getReturn(i)],
               Below(a, F, d + 8 * pushedReturns(R), 0), Below(a, F, d, 0))
<1> DEFINE B == BodySteps(p, k, a, F)
           depth(j) == d + 8 * pushedReturns(R) - 8 * pushedReturns(j - 1)
           points == [j \in 1 .. R + 1 |-> Below(a, F, depth(j), 0)]
           code == [i \in 1 .. R |-> getReturn(i)]
<1>1. /\ \A j \in 1 .. R + 1 : depth(j) \in Nat /\ depth(j) % 8 = 0
      /\ depth(1) = d + 8 * pushedReturns(R) /\ depth(R + 1) = d
      /\ \A j \in 1 .. R : /\ j + 1 \in 1 .. R + 1 /\ j \in 1 .. R + 1
                           /\ j <= 2 => depth(j + 1) = depth(j)
                           /\ j > 2 => depth(j + 1) = depth(j) - 8
      /\ 1 \in 1 .. R + 1 /\ R + 1 \in 1 .. R + 1
  BY DEF pushedReturns, atLeast0
<1> HIDE DEF depth
<1>2. \A j \in 1 .. R + 1 : /\ Below(a, F, depth(j), 0) \in Point
                            /\ InBody(a, F, Below(a, F, depth(j), 0))
                            /\ Below(a, F, depth(j), 0).phase = 1
                            /\ Below(a, F, depth(j), 0).depth = Saved(a, F).depth + depth(j)
  <2> SUFFICES ASSUME NEW j \in 1 .. R + 1
               PROVE  /\ Below(a, F, depth(j), 0) \in Point
                      /\ InBody(a, F, Below(a, F, depth(j), 0))
                      /\ Below(a, F, depth(j), 0).phase = 1
                      /\ Below(a, F, depth(j), 0).depth = Saved(a, F).depth + depth(j)
    OBVIOUS
  <2>1. depth(j) \in Nat /\ depth(j) % 8 = 0 /\ 0 \in Nat
    BY <1>1
  <2> QED BY <2>1, BelowFacts
<1>3. points \in [1 .. R + 1 -> Point] /\ \A j \in 1 .. R + 1 : points[j] = Below(a, F, depth(j), 0)
  BY <1>2
<1> HIDE DEF points
<1>4. ASSUME NEW j \in 1 .. R
      PROVE  getReturn(j) \in Instruction /\ Typed(B, <<getReturn(j)>>, points[j], points[j + 1])
  <2> DEFINE S == Below(a, F, depth(j), 0)
             T == Below(a, F, depth(j + 1), 0)
  <2>1. /\ S \in Point /\ InBody(a, F, S) /\ S.phase = 1 /\ S.depth = Saved(a, F).depth + depth(j)
        /\ T \in Point /\ InBody(a, F, T)
    BY <1>1, <1>2
  <2>2. points[j] = S /\ points[j + 1] = T /\ (j <= 2 => T = S)
    BY <1>1, <1>3
  <2>3. depth(j) \in Nat /\ depth(j + 1) \in Nat /\ Saved(a, F).depth \in Nat
    BY <1>1, BelowFacts
  <2>4. T = [S EXCEPT !.depth = Saved(a, F).depth + depth(j + 1)]
    BY <2>3, BelowFacts, SMTT(60)
  <2> HIDE DEF S, T
  <2>5. Temporary(RV(j)) /\ Temporary(RV(1)) /\ Temporary(RV(2)) /\ RV(j) \in Register
    <3>1. j \in Int /\ 1 \in Int /\ 2 \in Int
      OBVIOUS
    <3>2. Temporary(RV(j)) /\ Temporary(RV(1)) /\ Temporary(RV(2))
      BY <3>1, NameFacts
    <3> QED BY <3>2 DEF Temporary, Register
  <2>6. CASE j = 1
    <3>1. getReturn(j) = MOV(Reg(RV(1)), Reg(x86("RAX")))
      BY <2>6 DEF getReturn
    <3>2. Reg(x86("RAX")) \in Operand
      BY RegisterFacts, InstructionFacts DEF Register
    <3> QED BY <2>1, <2>2, <2>5, <2>6, <3>1, <3>2, TemporarySet
  <2>7. CASE j = 2
    <3>1. getReturn(j) = MOV(Reg(RV(2)), Reg(x86("RDX")))
      BY <2>7 DEF getReturn
    <3>2. Reg(x86("RDX")) \in Operand
      BY RegisterFacts, InstructionFacts DEF Register
    <3> QED BY <2>1, <2>2, <2>5, <2>7, <3>1, <3>2, TemporarySet
  <2>8. CASE j > 2
    <3>1. getReturn(j) = POP(RV(j)) /\ POP(RV(j)) \in Instruction
      BY <2>5, <2>8, InstructionFacts DEF getReturn
    <3>2. T = [S EXCEPT !.depth = S.depth - 8]
      <4>1. Saved(a, F).depth + depth(j + 1) = S.depth - 8
        BY <1>1, <2>1, <2>3, <2>8
      <4> QED BY <2>4, <4>1
    <3>3. POP(RV(j)).op = "pop" /\ POP(RV(j)).dest = Reg(RV(j)) /\ Reg(RV(j)).r = RV(j)
      BY OpcodeFacts
    <3>4. PopsWord(S, POP(RV(j)), T)
      BY <2>1, <2>5, <3>2, <3>3 DEF PopsWord, Scratch
    <3>5. Typed(B, <<POP(RV(j))>>, S, T)
      BY <2>1, <3>1, <3>4, BodyOne DEF Ordinary
    <3> QED BY <2>2, <3>1, <3>5
  <2>9. j = 1 \/ j = 2 \/ j > 2
    OBVIOUS
  <2> QED BY <2>6, <2>7, <2>8, <2>9
<1>5. /\ code \in Seq(Instruction) /\ Len(code) = R /\ \A i \in 1 .. R : code[i] = getReturn(i)
  <2>1. \A j \in 1 .. R : getReturn(j) \in Instruction
    BY <1>4
  <2> QED BY <2>1
<1> HIDE DEF code, B
<1>6. Typed(B, code, points[1], points[R + 1])
  <2>1. \A i \in 1 .. R : Typed(B, <<code[i]>>, points[i], points[i + 1])
    BY <1>4, <1>5
  <2> QED BY <1>3, <1>5, <2>1, TypedSteps
<1>7. points[1] = Below(a, F, d + 8 * pushedReturns(R), 0) /\ points[R + 1] = Below(a, F, d, 0)
  BY <1>1, <1>3
<1> QED BY <1>6, <1>7 DEF code, B
LEMMA BelowWhen ==
  ASSUME NEW p, NEW k, NEW a \in Allocators, NEW F \in Nat, F % 16 = 0,
         NEW d \in Nat, d % 8 = 0, NEW e \in Nat, e % 8 = 0, NEW c \in BOOLEAN, ~c => e = 0
  PROVE  Typed(BodySteps(p, k, a, F), When(c, <<ADD(RSP, e)>>), Below(a, F, d + e, 0), Below(a, F, d, 0))
<1>1. CASE c
  BY <1>1, BelowMoves DEF When
<1>2. CASE ~c
  <2>1. d + e = d /\ 0 \in Nat
    BY <1>2
  <2>2. Below(a, F, d, 0) \in Point
    BY <2>1, BelowFacts
  <2>3. When(c, <<ADD(RSP, e)>>) = <<>>
    BY <1>2 DEF When
  <2> QED BY <2>1, <2>2, <2>3, TypedEmpty
<1> QED BY <1>1, <1>2

\* LIRCallStmt: at the call RSP is a multiple of 16, the room for the results is
\* above the arguments and below all that has been saved, and afterwards
\* everything is where it was.
LEMMA CallTyped ==
  ASSUME NEW p, NEW k \in 1 .. 2, NEW a \in Allocators, NEW F \in Nat, F % 16 = 0,
         p[k + 1].rets \in Nat, NEW args \in Seq(LirExpression)
  PROVE  Typed(BodySteps(p, k, a, F), callTile(k + 1, args, p[k + 1].rets), Base(a, F), Base(a, F))
<1> DEFINE R   == p[k + 1].rets
           n   == Len(args)
           pad == didWePad(n, R)
           PA  == pushedArgs(n, R)
           PR  == pushedReturns(R)
           D   == Saved(a, F).depth
           B   == BodySteps(p, k, a, F)
           d1  == IF pad THEN 8 ELSE 0
           d2  == d1 + 8 * PR
           m   == IF R >= 3 THEN D + d2 ELSE 0
           d3  == d2 + 8 * PA
           c2  == When(pad, <<PAD>>)
           c3  == When(R >= 3, <<SUB(RSP, 8 * (R - 2)), MOV(Reg(RDI), Reg(RSP))>>)
           c4  == callArgs(args, R)
           c6  == When(PA > 0, <<ADD(RSP, 8 * PA)>>)
           c7  == [i \in 1 .. R |-> getReturn(i)]
           c8  == When(pad, <<ADD(RSP, 8)>>)
           W(d, q) == Below(a, F, d, q)
<1>1. /\ R \in Nat /\ n \in Nat /\ PA \in Nat /\ PR \in Nat /\ pad \in BOOLEAN
      /\ R >= 3 => PR = R - 2
      /\ R < 3 => PR = 0
      /\ pad <=> (PR + PA) % 2 > 0
  <2>1. R \in Nat /\ n \in Nat
    OBVIOUS
  <2>2. pad \in BOOLEAN /\ (pad <=> (PR + PA) % 2 > 0)
    BY DEF didWePad
  <2> HIDE DEF R, n, pad
  <2>3. PA \in 0 .. n /\ PR \in Nat /\ (R >= 3 => PR = R - 2) /\ (R < 3 => PR = 0)
    BY <2>1 DEF PA, PR, pushedArgs, pushedReturns, atLeast0
  <2> QED BY <2>1, <2>2, <2>3
<1>a. ASSUME NEW d \in Nat, NEW q \in Nat, d % 8 = 0
      PROVE  /\ W(d, q) \in Point /\ InBody(a, F, W(d, q)) /\ W(d, q).phase = 1
             /\ W(d, q).depth = D + d /\ W(d, q).room = q
             /\ \A r \in Tracked : W(d, q).home[r] # 0 /\ W(d, q).home[r] <= D
  BY <1>a, BelowFacts, SMTT(60)
<1>b. ASSUME NEW d \in Nat, NEW e \in Nat, NEW q \in Nat
      PROVE  /\ W(e, q) = [W(d, q) EXCEPT !.depth = D + e]
             /\ W(d, e) = [W(d, q) EXCEPT !.room = e]
  BY BelowFacts
<1>2. /\ D \in Nat /\ D % 16 = 8 /\ D >= 8 /\ W(0, 0) = Saved(a, F)
  BY BelowFacts
<1> HIDE DEF pad, PA, PR, D, n, R, W
<1>3. /\ d1 \in Nat /\ d1 % 8 = 0 /\ d2 \in Nat /\ d2 % 8 = 0 /\ d3 \in Nat /\ d3 % 8 = 0
      /\ m \in Nat /\ (R <= 2 => m = 0) /\ (D + d3) % 16 = 8 /\ 8 * PA \in Nat /\ (8 * PA) % 8 = 0
      /\ 8 * PR \in Nat /\ (8 * PR) % 8 = 0 /\ d2 <= d3 /\ d2 >= 8 * PR
  <2>1. d1 \in Nat /\ d1 % 8 = 0 /\ (8 * PR) % 8 = 0 /\ (8 * PA) % 8 = 0
    BY <1>1
  <2>2. d2 \in Nat /\ d2 % 8 = 0 /\ d3 \in Nat /\ d3 % 8 = 0 /\ d2 <= d3 /\ d2 >= 8 * PR
    BY <1>1, <2>1
  <2>3. (D + d3) % 16 = 8
    <3>1. d3 = d1 + 8 * (PR + PA)
      BY <1>1
    <3>2. PICK q \in Nat : PR + PA = 2 * q \/ PR + PA = 2 * q + 1
      <4>1. PR + PA = 2 * ((PR + PA) \div 2) \/ PR + PA = 2 * ((PR + PA) \div 2) + 1
        BY <1>1
      <4>2. (PR + PA) \div 2 \in Nat
        BY <1>1
      <4> QED BY <4>1, <4>2
    <3>3. pad <=> PR + PA = 2 * q + 1
      BY <1>1, <3>2
    <3>4. d3 = 16 * q \/ d3 = 16 * q + 16
      BY <1>1, <3>1, <3>2, <3>3
    <3> HIDE DEF d3
    <3> QED BY <1>2, <3>2, <3>4
  <2> QED BY <1>1, <1>2, <2>1, <2>2, <2>3
<1>4. Typed(B, <<CALLERSAVEPUSH>>, Base(a, F), W(0, 0)) /\ Typed(B, <<CALLERSAVEPOP>>, W(0, 0), Base(a, F))
  <2>1. Base(a, F) \in Point /\ Saved(a, F) \in Point
    BY BaseFacts, SavedFacts
  <2>2. CALLERSAVEPUSH \in Instruction /\ CALLERSAVEPOP \in Instruction
    BY InstructionFacts
  <2>3. /\ <<Base(a, F), CALLERSAVEPUSH, Saved(a, F)>> \in B
        /\ <<Saved(a, F), CALLERSAVEPOP, Base(a, F)>> \in B
    BY <2>1, <2>2 DEF BodySteps
  <2> QED BY <1>2, <2>1, <2>2, <2>3, TypedOne
<1>5. Typed(B, c2, W(0, 0), W(d1, 0))
  <2>1. CASE pad
    <3>1. d1 = 8 /\ 0 \in Nat /\ 8 \in Nat /\ 0 % 8 = 0 /\ 8 % 8 = 0 /\ 0 + 8 = 8
      BY <2>1
    <3>2. /\ W(0, 0) \in Point /\ InBody(a, F, W(0, 0)) /\ W(0, 0).phase = 1 /\ W(0, 0).depth = D + 0
          /\ W(8, 0) \in Point /\ InBody(a, F, W(8, 0))
      BY <1>a, <3>1
    <3>3. W(8, 0) = [W(0, 0) EXCEPT !.depth = D + 8]
      BY <1>b, <3>1, SMTT(60)
    <3>4. W(8, 0) = [W(0, 0) EXCEPT !.depth = W(0, 0).depth + 8]
      BY <1>2, <3>2, <3>3
    <3>5. PushesWord(W(0, 0), PAD, W(8, 0))
      BY <3>2, <3>4, OpcodeFacts DEF PushesWord
    <3>6. PAD \in Instruction
      BY InstructionFacts
    <3>7. Typed(B, <<PAD>>, W(0, 0), W(8, 0))
      BY <3>2, <3>5, <3>6, BodyOne DEF Ordinary
    <3> QED BY <2>1, <3>1, <3>7 DEF When
  <2>2. CASE ~pad
    <3>1. W(0, 0) \in Point
      BY <1>2, SavedFacts
    <3> QED BY <2>2, <3>1, TypedEmpty DEF When
  <2> QED BY <2>1, <2>2
<1>6. Typed(B, c3, W(d1, 0), W(d2, m))
  <2>1. CASE R >= 3
    <3>1. 8 * (R - 2) = 8 * PR /\ m = D + d2 /\ 0 \in Nat
      BY <1>1, <2>1
    <3> HIDE DEF d2, d1, m
    <3>2. Typed(B, <<SUB(RSP, 8 * PR)>>, W(d1, 0), W(d2, 0))
      BY <1>3, <3>1, BelowMoves DEF W, d2
    <3>3. /\ W(d2, 0) \in Point /\ InBody(a, F, W(d2, 0)) /\ W(d2, 0).phase = 1
          /\ W(d2, 0).depth = D + d2 /\ \A r \in Tracked : W(d2, 0).home[r] # 0
          /\ W(d2, m) \in Point /\ InBody(a, F, W(d2, m))
      BY <1>3, <1>a, <3>1, ZenonT(60)
    <3>4. W(d2, m) = [W(d2, 0) EXCEPT !.room = m]
      <4>1. d2 \in Nat /\ m \in Nat /\ 0 \in Nat
        BY <1>3
      <4> QED BY <1>b, <4>1
    <3>5. MOV(Reg(RDI), Reg(RSP)) \in Instruction
      <4>1. RDI \in Register /\ RSP \in Register
        BY RegisterFacts DEF Register
      <4> QED BY <4>1, InstructionFacts
    <3>6. SetsRDI(W(d2, 0), MOV(Reg(RDI), Reg(RSP)), W(d2, m))
      <4>1. W(d2, m) = [W(d2, 0) EXCEPT !.room = W(d2, 0).depth]
        BY <3>1, <3>3, <3>4
      <4>2. RDI \in Tracked
        BY DEF Tracked
      <4> QED BY <3>3, <4>1, <4>2, OpcodeFacts DEF SetsRDI
    <3>7. Typed(B, <<MOV(Reg(RDI), Reg(RSP))>>, W(d2, 0), W(d2, m))
      BY <3>3, <3>5, <3>6, BodyOne DEF Ordinary
    <3>8. c3 = <<SUB(RSP, 8 * PR)>> \o <<MOV(Reg(RDI), Reg(RSP))>>
      BY <2>1, <3>1 DEF When
    <3> HIDE DEF c3
    <3> QED BY <3>2, <3>7, <3>8, TypedConcat
  <2>2. CASE ~(R >= 3)
    <3>1. d2 = d1 /\ m = 0 /\ c3 = <<>> /\ 0 \in Nat
      BY <1>1, <1>3, <2>2 DEF When
    <3>2. W(d2, m) \in Point
      BY <1>3, BelowFacts DEF W
    <3> HIDE DEF c3, d1, d2, m
    <3> QED BY <3>1, <3>2, TypedEmpty
  <2> QED BY <2>1, <2>2
<1>7. Typed(B, c4, W(d2, m), W(d3, m))
  <2> HIDE DEF d2, m
  <2> QED BY <1>1, <1>3, CallArgsTyped DEF W, PA, n
<1>8. Typed(B, <<CALL(k + 1)>>, W(d3, m), W(d3, 0))
  <2> DEFINE x == CALL(k + 1)
  <2>1. /\ W(d3, m) \in Point /\ InBody(a, F, W(d3, m)) /\ W(d3, m).phase = 1
        /\ W(d3, m).depth = D + d3 /\ W(d3, m).room = m
        /\ \A r \in Tracked : W(d3, m).home[r] # 0 /\ W(d3, m).home[r] <= D
        /\ W(d3, 0) \in Point /\ InBody(a, F, W(d3, 0))
        /\ W(d3, 0) = [W(d3, m) EXCEPT !.room = 0]
    <3> HIDE DEF d3, m
    <3>1. d3 \in Nat /\ d3 % 8 = 0 /\ m \in Nat /\ 0 \in Nat
      BY <1>3
    <3>2. W(d3, 0) = [W(d3, m) EXCEPT !.room = 0]
      BY <1>b, <3>1
    <3> QED BY <1>a, <3>1, <3>2
  <2>2. x \in Instruction /\ x.op = "call" /\ x.label = k + 1
    BY InstructionFacts, OpcodeFacts
  <2>3. R >= 3 => /\ m # 0 /\ m <= D + d3 /\ 8 <= m - 8 * (R - 2) /\ D <= m - 8 * (R - 2)
    <3> SUFFICES ASSUME R >= 3 PROVE m # 0 /\ m <= D + d3 /\ 8 <= m - 8 * (R - 2) /\ D <= m - 8 * (R - 2)
      OBVIOUS
    <3>1. m = D + d2 /\ 8 * (R - 2) = 8 * PR
      BY <1>1
    <3> HIDE DEF m, d2, d3
    <3> QED BY <1>1, <1>2, <1>3, <3>1
  <2>4. R >= 3 => \A r \in Tracked : W(d3, m).home[r] <= m - 8 * (R - 2)
    <3> HIDE DEF d3, m
    <3>1. R >= 3 => m - 8 * (R - 2) \in Int
      BY <1>1, <1>3
    <3>2. \A r \in Tracked : W(d3, m).home[r] \in Int
      BY <2>1 DEF Point, Shape
    <3> QED BY <1>2, <2>1, <2>3, <3>1, <3>2
  <2>5. CallsNext(p, k, W(d3, m), x, W(d3, 0))
    <3> HIDE DEF d3, m, x
    <3>1. k < 3
      OBVIOUS
    <3> QED BY <1>3, <2>1, <2>2, <2>3, <2>4, <3>1 DEF CallsNext, R
  <2> HIDE DEF x
  <2> QED BY <2>1, <2>2, <2>5, BodyOne DEF Ordinary, x
<1>9. Typed(B, c6, W(d3, 0), W(d2, 0))
  <2>1. (PA > 0) \in BOOLEAN /\ (~(PA > 0) => 8 * PA = 0)
    BY <1>1
  <2> HIDE DEF d2
  <2> QED BY <1>3, <2>1, BelowWhen DEF W
<1>10. Typed(B, c7, W(d2, 0), W(d1, 0))
  <2> HIDE DEF d1
  <2> QED BY <1>1, <1>3, GetReturnsTyped DEF W, PR
<1>11. Typed(B, c8, W(d1, 0), W(0, 0))
  <2>1. CASE pad
    <3>1. d1 = 8 /\ 0 \in Nat /\ 8 \in Nat /\ 0 % 8 = 0 /\ 8 % 8 = 0 /\ 0 + 8 = 8 /\ (~pad => 8 = 0)
      BY <2>1
    <3> QED BY <1>1, <3>1, BelowWhen DEF W
  <2>2. CASE ~pad
    <3>1. W(0, 0) \in Point
      BY <1>2, SavedFacts
    <3> QED BY <2>2, <3>1, TypedEmpty DEF When
  <2> QED BY <2>1, <2>2
<1>12. callTile(k + 1, args, R) =
         <<CALLERSAVEPUSH>> \o c2 \o c3 \o c4 \o <<CALL(k + 1)>> \o c6 \o c7 \o c8 \o <<CALLERSAVEPOP>>
  BY DEF callTile, pad, PA, n
<1> HIDE DEF c2, c3, c4, c6, c7, c8, d1, d2, d3, m, B
<1>13. Typed(B, <<CALLERSAVEPUSH>> \o c2 \o c3 \o c4, Base(a, F), W(d3, m))
  <2>1. Typed(B, <<CALLERSAVEPUSH>> \o c2, Base(a, F), W(d1, 0))
    BY <1>4, <1>5, TypedConcat
  <2>2. Typed(B, <<CALLERSAVEPUSH>> \o c2 \o c3, Base(a, F), W(d2, m))
    BY <1>6, <2>1, TypedConcat
  <2> QED BY <1>7, <2>2, TypedConcat
<1>14. Typed(B, <<CALLERSAVEPUSH>> \o c2 \o c3 \o c4 \o <<CALL(k + 1)>> \o c6, Base(a, F), W(d2, 0))
  <2>1. Typed(B, <<CALLERSAVEPUSH>> \o c2 \o c3 \o c4 \o <<CALL(k + 1)>>, Base(a, F), W(d3, 0))
    BY <1>8, <1>13, TypedConcat
  <2> QED BY <1>9, <2>1, TypedConcat
<1>15. Typed(B, <<CALLERSAVEPUSH>> \o c2 \o c3 \o c4 \o <<CALL(k + 1)>> \o c6 \o c7 \o c8, Base(a, F), W(0, 0))
  <2>1. Typed(B, <<CALLERSAVEPUSH>> \o c2 \o c3 \o c4 \o <<CALL(k + 1)>> \o c6 \o c7, Base(a, F), W(d1, 0))
    BY <1>10, <1>14, TypedConcat
  <2> QED BY <1>11, <2>1, TypedConcat
<1>16. Typed(B, callTile(k + 1, args, R), Base(a, F), Base(a, F))
  BY <1>4, <1>12, <1>15, TypedConcat
<1> QED BY <1>16 DEF B, R
-----------------------------------------------------------------------------
(* The whole body *)

\* Single instructions each of which leads back to where it started.
LEMMA StepsLoop ==
  ASSUME NEW R, NEW code \in Seq(Instruction), NEW s \in Point,
         \A i \in 1 .. Len(code) : Typed(R, <<code[i]>>, s, s)
  PROVE  Typed(R, code, s, s)
<1> DEFINE P == [i \in 1 .. Len(code) + 1 |-> s]
<1>1. Len(code) \in Nat
  OBVIOUS
<1>2. P \in [1 .. Len(code) + 1 -> Point] /\ \A i \in 1 .. Len(code) + 1 : P[i] = s
  OBVIOUS
<1>3. /\ \A i \in 1 .. Len(code) : i \in 1 .. Len(code) + 1 /\ i + 1 \in 1 .. Len(code) + 1
      /\ 1 \in 1 .. Len(code) + 1 /\ Len(code) + 1 \in 1 .. Len(code) + 1
  BY <1>1
<1> HIDE DEF P
<1>4. \A i \in 1 .. Len(code) : Typed(R, <<code[i]>>, P[i], P[i + 1])
  BY <1>2, <1>3
<1>5. Typed(R, code, P[1], P[Len(code) + 1])
  BY <1>2, <1>4, TypedSteps
<1> QED BY <1>2, <1>3, <1>5

\* Pieces given by an operator, here as a function.
LEMMA PiecesLoop ==
  ASSUME NEW R, NEW n \in Nat, NEW f, NEW s \in Point,
         \A i \in 1 .. n : f[i] \in Seq(Instruction) /\ Typed(R, f[i], s, s)
  PROVE  Typed(R, FlattenSeq([i \in 1 .. n |-> f[i]]), s, s)
<1> DEFINE Q  == Seq(Instruction)
           ss == [i \in 1 .. n |-> f[i]]
<1>1. \A i \in 1 .. n : f[i] \in Q
  OBVIOUS
<1> HIDE DEF Q
<1>2. ss \in Seq(Q) /\ Len(ss) = n /\ \A i \in 1 .. n : ss[i] = f[i]
  BY <1>1
<1> HIDE DEF ss
<1>3. \A i \in 1 .. Len(ss) : Typed(R, ss[i], s, s)
  BY <1>2
<1>4. Typed(R, FlattenSeq(ss), s, s)
  BY <1>2, <1>3, TypedLoop DEF Q
<1> QED BY <1>4 DEF ss

\* LIRReturn
LEMMA ReturnTyped ==
  ASSUME NEW p, NEW k, NEW a \in Allocators, NEW F \in Nat, F % 16 = 0,
         NEW vals \in Seq(LirExpression), p[k].rets = Len(vals)
  PROVE  Typed(BodySteps(p, k, a, F), returnTile(vals), Base(a, F), Done(F))
<1> DEFINE n  == Len(vals)
           S  == Base(a, F)
           B  == BodySteps(p, k, a, F)
           c1 == FlattenSeq([i \in DOMAIN vals |-> exprTile(vals[i])])
           c2 == When(n >= 1, <<MOV(Reg(x86("RAX")), Reg(vals[1].reg))>>)
           c3 == When(n >= 2, <<MOV(Reg(x86("RDX")), Reg(vals[2].reg))>>)
           store(i) == MOV(Mem(RDI, 8 * (i - 3)), Reg(vals[i].reg))
           c4 == [j \in 1 .. atLeast0(n - 2) |-> store(n + 1 - j)]
<1>1. n \in Nat /\ DOMAIN vals = 1 .. n /\ \A i \in 1 .. n : vals[i] \in LirExpression
  OBVIOUS
<1>2. S \in Point /\ S.phase = 1 /\ S.frame = F /\ S.home[RDI] = 0 /\ InBody(a, F, S)
  BY BaseFacts DEF InBody
<1>3. p[k].rets = n
  OBVIOUS
<1> HIDE DEF n, S, B
<1>4. \A i \in 1 .. n : /\ Reg(vals[i].reg) \in Operand
                        /\ exprTile(vals[i]) \in Seq(Instruction) /\ Typed(B, exprTile(vals[i]), S, S)
  BY <1>1, <1>2, ExprTyped DEF B
<1>5. Typed(B, c1, S, S)
  <2> DEFINE f == [i \in 1 .. n |-> exprTile(vals[i])]
  <2>1. \A i \in 1 .. n : f[i] = exprTile(vals[i])
    OBVIOUS
  <2> HIDE DEF f
  <2>2. \A i \in 1 .. n : f[i] \in Seq(Instruction) /\ Typed(B, f[i], S, S)
    BY <1>4, <2>1
  <2>3. Typed(B, FlattenSeq([i \in 1 .. n |-> f[i]]), S, S)
    BY <1>1, <1>2, <2>2, PiecesLoop
  <2>4. [i \in DOMAIN vals |-> exprTile(vals[i])] = [i \in 1 .. n |-> f[i]]
    BY <1>1, <2>1
  <2> QED BY <2>3, <2>4
<1>6. ASSUME NEW r \in {x86("RAX"), x86("RDX")}, NEW i \in 1 .. n
      PROVE  Typed(B, <<MOV(Reg(r), Reg(vals[i].reg))>>, S, S)
  <2>1. r \in x86Registers \ {RSP, RBP, RDI} /\ r \notin Tracked /\ r \in Register
    BY RegisterFacts DEF Tracked, Register
  <2>2. MOV(Reg(r), Reg(vals[i].reg)) \in Instruction
    BY <1>4, <2>1, InstructionFacts
  <2>3. SetsScratch(S, MOV(Reg(r), Reg(vals[i].reg)), S)
    BY <1>2, <2>1, OpcodeFacts DEF SetsScratch, Scratch
  <2> QED BY <1>2, <2>2, <2>3, BodyOne DEF Ordinary, B
<1>7. Typed(B, <<>>, S, S)
  BY <1>2, TypedEmpty
<1>8. Typed(B, c2, S, S) /\ Typed(B, c3, S, S)
  <2>1. (n >= 1 => 1 \in 1 .. n) /\ (n >= 2 => 2 \in 1 .. n)
    BY <1>1
  <2>2. n >= 1 => Typed(B, <<MOV(Reg(x86("RAX")), Reg(vals[1].reg))>>, S, S)
    BY <1>6, <2>1
  <2>3. n >= 2 => Typed(B, <<MOV(Reg(x86("RDX")), Reg(vals[2].reg))>>, S, S)
    BY <1>6, <2>1
  <2> QED BY <1>7, <2>2, <2>3 DEF When
<1>9. ASSUME NEW i \in 3 .. n
      PROVE  store(i) \in Instruction /\ Typed(B, <<store(i)>>, S, S)
  <2>1. i \in 1 .. n /\ 8 * (i - 3) \in Int /\ RDI \in Register
    BY RegisterFacts DEF Register
  <2>2. store(i) \in Instruction
    BY <1>4, <2>1, InstructionFacts
  <2>3. StoresResult(p, k, S, store(i), S)
    BY <1>2, <1>3, OpcodeFacts DEF StoresResult
  <2> HIDE DEF store
  <2> QED BY <1>2, <2>2, <2>3, BodyOne DEF Ordinary, B
<1> HIDE DEF store
<1>10. Typed(B, c4, S, S)
  <2> DEFINE m == atLeast0(n - 2)
  <2>1. m \in Nat /\ \A j \in 1 .. m : n + 1 - j \in 3 .. n
    BY <1>1 DEF atLeast0
  <2> HIDE DEF m
  <2>2. \A j \in 1 .. m : store(n + 1 - j) \in Instruction
    BY <1>9, <2>1
  <2>3. c4 \in Seq(Instruction) /\ Len(c4) = m /\ \A j \in 1 .. m : c4[j] = store(n + 1 - j)
    BY <2>1, <2>2 DEF m
  <2> HIDE DEF c4
  <2>4. \A j \in 1 .. Len(c4) : Typed(B, <<c4[j]>>, S, S)
    BY <1>9, <2>1, <2>3
  <2> QED BY <1>2, <2>3, <2>4, StepsLoop
<1>11. Typed(B, <<LEAVE>>, S, Left(F)) /\ Typed(B, <<RET>>, Left(F), Done(F))
  <2>1. Left(F) \in Point /\ Done(F) \in Point /\ LEAVE \in Instruction /\ RET \in Instruction
    BY FramePoints, InstructionFacts
  <2>2. <<S, LEAVE, Left(F)>> \in B /\ <<Left(F), RET, Done(F)>> \in B
    BY <1>2, <2>1 DEF BodySteps, S, B
  <2> QED BY <1>2, <2>1, <2>2, TypedOne
<1>12. Typed(B, <<LEAVE, RET>>, S, Done(F))
  <2> DEFINE c == <<LEAVE, RET>>
             P == [i \in 1 .. 3 |-> IF i = 1 THEN S ELSE IF i = 2 THEN Left(F) ELSE Done(F)]
  <2>1. LEAVE \in Instruction /\ RET \in Instruction /\ Left(F) \in Point /\ Done(F) \in Point
    BY FramePoints, InstructionFacts
  <2>2. /\ c \in Seq(Instruction) /\ Len(c) = 2 /\ c[1] = LEAVE /\ c[2] = RET
        /\ P \in [1 .. 2 + 1 -> Point] /\ P[1] = S /\ P[2] = Left(F) /\ P[3] = Done(F)
    BY <1>2, <2>1
  <2> HIDE DEF c, P
  <2>3. \A i \in 1 .. 2 : Typed(B, <<c[i]>>, P[i], P[i + 1])
    <3>1. \A i \in 1 .. 2 : (i = 1 /\ i + 1 = 2) \/ (i = 2 /\ i + 1 = 3)
      OBVIOUS
    <3> QED BY <1>11, <2>2, <3>1
  <2>4. Typed(B, c, P[1], P[2 + 1])
    BY <2>2, <2>3, TypedSteps
  <2> QED BY <2>2, <2>4 DEF c
<1>13. returnTile(vals) = c1 \o c2 \o c3 \o c4 \o <<LEAVE, RET>>
  BY DEF returnTile, n, store
<1> HIDE DEF c1, c2, c3, c4
<1>14. Typed(B, c1 \o c2 \o c3, S, S)
  <2>1. Typed(B, c1 \o c2, S, S)
    BY <1>5, <1>8, TypedConcat
  <2> QED BY <1>8, <2>1, TypedConcat
<1>15. Typed(B, c1 \o c2 \o c3 \o c4, S, S)
  BY <1>10, <1>14, TypedConcat
<1>16. Typed(B, returnTile(vals), S, Done(F))
  BY <1>12, <1>13, <1>15, TypedConcat
<1> QED BY <1>16 DEF S, B
\* The whole body, between the prologue and the end.
LEMMA BodyTyped ==
  ASSUME NEW p \in Programs, NEW k \in 1 .. 3, NEW a \in Allocators, NEW F \in Nat, F % 16 = 0
  PROVE  Typed(BodySteps(p, k, a, F), BodyToCall(p, k) \o BodyAfterCall(p, k), Base(a, F), Done(F))
<1> DEFINE S == Base(a, F)
           B == BodySteps(p, k, a, F)
           args == p[k].args
           vals == p[k].vals
           params == p[k].params
           m1(i) == moveTile(ParamTemp(i), Temp(ARG(i)))
           m2(i) == IF i % 2 = 0 THEN moveTile(<<"$TL", i>>, LirExpr(args[i], i)) ELSE <<>>
           m3(i) == moveTile(ResultTemp(i), Temp(RV(i)))
           lowered  == [i \in DOMAIN args |-> LoweredArg(args[i], i)]
           returned == [i \in DOMAIN vals |-> LirExpr(vals[i], 100 + i)]
           rets == IF k < Len(p) THEN p[k + 1].rets ELSE 0
           c1 == FlattenSeq([i \in 1 .. params |-> m1(i)])
           c2 == FlattenSeq([i \in DOMAIN args |-> m2(i)])
           c3 == callTile(k + 1, lowered, rets)
           c4 == When(k < Len(p), c2 \o c3)
           c5 == When(k < Len(p), FlattenSeq([i \in 1 .. rets |-> m3(i)]))
           c6 == returnTile(returned)
<1>1. /\ Len(p) = 3 /\ params \in Nat /\ args \in Seq(Expression) /\ vals \in Seq(Expression)
      /\ p[k].rets = Len(vals) /\ (k < 3 => k \in 1 .. 2 /\ p[k + 1].rets \in Nat)
  <2>1. k < 3 => k + 1 \in 1 .. 3 /\ k \in 1 .. 2
    OBVIOUS
  <2> QED BY <2>1, ProgramsAssumption
<1>2. S \in Point /\ InBody(a, F, S)
  BY BaseFacts DEF InBody
<1>3. rets \in Nat /\ (k < 3 => rets = p[k + 1].rets)
  BY <1>1
<1> HIDE DEF S, args, vals, params, rets
<1>4. ASSUME NEW r, Temporary(r), NEW e \in LirExpression
      PROVE  moveTile(r, e) \in Seq(Instruction) /\ Typed(B, moveTile(r, e), S, S)
  BY <1>2, <1>4, MoveTyped
<1>5. /\ Len(args) \in Nat /\ DOMAIN args = 1 .. Len(args) /\ \A i \in 1 .. Len(args) : args[i] \in Expression
      /\ Len(vals) \in Nat /\ DOMAIN vals = 1 .. Len(vals) /\ \A i \in 1 .. Len(vals) : vals[i] \in Expression
  BY <1>1
<1>6. \A i \in Int : m1(i) \in Seq(Instruction) /\ Typed(B, m1(i), S, S)
  <2> HIDE DEF B
  <2> QED BY <1>4, NameFacts, ExpressionFacts
<1>7. \A i \in Int : m3(i) \in Seq(Instruction) /\ Typed(B, m3(i), S, S)
  <2> HIDE DEF B
  <2> SUFFICES ASSUME NEW i \in Int
               PROVE  m3(i) \in Seq(Instruction) /\ Typed(B, m3(i), S, S)
    OBVIOUS
  <2>1. Temporary(ResultTemp(i))
    BY NameFacts
  <2>2. Temp(RV(i)) \in LirExpression
    BY ExpressionFacts
  <2> QED BY <1>4, <2>1, <2>2
<1>8. ASSUME NEW i \in 1 .. Len(args) PROVE m2(i) \in Seq(Instruction) /\ Typed(B, m2(i), S, S)
  <2>1. i \in Int /\ LirExpr(args[i], i) \in LirExpression
    BY <1>5, ExpressionFacts
  <2>4. Temporary(<<"$TL", i>>)
    BY <2>1, NameFacts
  <2>2. CASE i % 2 = 0
    <3>1. m2(i) = moveTile(<<"$TL", i>>, LirExpr(args[i], i))
      BY <2>2
    <3> HIDE DEF B, m2
    <3> QED BY <1>4, <2>1, <2>4, <3>1
  <2>3. CASE i % 2 # 0
    <3>1. m2(i) = <<>> /\ <<>> \in Seq(Instruction)
      BY <2>3
    <3> HIDE DEF B, m2
    <3> QED BY <1>2, <3>1, TypedEmpty
  <2> QED BY <2>2, <2>3
<1> HIDE DEF m1, m2, m3, B
<1>9. Typed(B, c1, S, S)
  <2> DEFINE f == [i \in 1 .. params |-> m1(i)]
  <2>1. \A i \in 1 .. params : f[i] = m1(i) /\ i \in Int
    OBVIOUS
  <2> HIDE DEF f
  <2>2. \A i \in 1 .. params : f[i] \in Seq(Instruction) /\ Typed(B, f[i], S, S)
    BY <1>6, <2>1
  <2>3. Typed(B, FlattenSeq([i \in 1 .. params |-> f[i]]), S, S)
    BY <1>1, <1>2, <2>2, PiecesLoop
  <2>4. [i \in 1 .. params |-> f[i]] = [i \in 1 .. params |-> m1(i)]
    BY <2>1
  <2> QED BY <2>3, <2>4
<1>10. Typed(B, c2, S, S)
  <2> DEFINE f == [i \in 1 .. Len(args) |-> m2(i)]
  <2>1. \A i \in 1 .. Len(args) : f[i] = m2(i)
    OBVIOUS
  <2> HIDE DEF f
  <2>2. \A i \in 1 .. Len(args) : f[i] \in Seq(Instruction) /\ Typed(B, f[i], S, S)
    BY <1>8, <2>1
  <2>3. Typed(B, FlattenSeq([i \in 1 .. Len(args) |-> f[i]]), S, S)
    BY <1>5, <1>2, <2>2, PiecesLoop
  <2>4. [i \in 1 .. Len(args) |-> f[i]] = [i \in DOMAIN args |-> m2(i)]
    BY <1>5, <2>1
  <2> QED BY <2>3, <2>4
<1>11. Typed(B, FlattenSeq([i \in 1 .. rets |-> m3(i)]), S, S)
  <2> DEFINE f == [i \in 1 .. rets |-> m3(i)]
  <2>1. \A i \in 1 .. rets : f[i] = m3(i) /\ i \in Int
    BY <1>3
  <2> HIDE DEF f
  <2>2. \A i \in 1 .. rets : f[i] \in Seq(Instruction) /\ Typed(B, f[i], S, S)
    BY <1>7, <2>1
  <2>3. Typed(B, FlattenSeq([i \in 1 .. rets |-> f[i]]), S, S)
    BY <1>3, <1>2, <2>2, PiecesLoop
  <2>4. [i \in 1 .. rets |-> f[i]] = [i \in 1 .. rets |-> m3(i)]
    BY <2>1
  <2> QED BY <2>3, <2>4
<1>12. k < 3 => Typed(B, c3, S, S)
  <2> SUFFICES ASSUME k < 3 PROVE Typed(B, c3, S, S)
    OBVIOUS
  <2>1. \A i \in 1 .. Len(args) : LoweredArg(args[i], i) \in LirExpression
    BY <1>5, ExpressionFacts
  <2>2. lowered \in Seq(LirExpression)
    BY <1>5, <2>1
  <2>3. k \in 1 .. 2 /\ rets = p[k + 1].rets /\ rets \in Nat
    BY <1>1, <1>3
  <2> HIDE DEF lowered
  <2> QED BY <2>2, <2>3, CallTyped DEF B, S
<1>13. Typed(B, c6, S, Done(F))
  <2>1. \A i \in 1 .. Len(vals) : LirExpr(vals[i], 100 + i) \in LirExpression
    BY <1>5, ExpressionFacts
  <2>2. returned \in Seq(LirExpression) /\ Len(returned) = Len(vals)
    BY <1>5, <2>1
  <2>3. p[k].rets = Len(returned)
    BY <1>1, <2>2
  <2> HIDE DEF returned
  <2> QED BY <2>2, <2>3, ReturnTyped DEF B, S
<1>14. BodyToCall(p, k) = c1 \o c4
  BY DEF BodyToCall, m1, m2, rets, args, params
<1>15. BodyAfterCall(p, k) = c5 \o c6
  BY DEF BodyAfterCall, m3, rets, vals
<1> HIDE DEF c1, c2, c3, c6
<1>16. Typed(B, c4, S, S) /\ Typed(B, c5, S, S)
  <2>1. CASE k < 3
    <3>1. c4 = c2 \o c3 /\ c5 = FlattenSeq([i \in 1 .. rets |-> m3(i)])
      BY <1>1, <2>1 DEF When
    <3>2. Typed(B, c2 \o c3, S, S)
      BY <1>10, <1>12, <2>1, TypedConcat
    <3> HIDE DEF c4, c5
    <3> QED BY <1>11, <3>1, <3>2
  <2>2. CASE ~(k < 3)
    <3>1. c4 = <<>> /\ c5 = <<>>
      BY <1>1, <2>2 DEF When
    <3> HIDE DEF c4, c5
    <3> QED BY <1>2, <3>1, TypedEmpty
  <2> QED BY <2>1, <2>2
<1> HIDE DEF c4, c5
<1>17. Typed(B, c1 \o c4, S, S) /\ Typed(B, c5 \o c6, S, Done(F))
  BY <1>9, <1>13, <1>16, TypedConcat
<1>18. Typed(B, (c1 \o c4) \o (c5 \o c6), S, Done(F))
  BY <1>17, TypedConcat
<1> QED BY <1>14, <1>15, <1>18 DEF B, S-----------------------------------------------------------------------------
(* The code of a function *)

\* The parameters are moved from where the caller put them.
LEMMA PopulateTyped ==
  ASSUME NEW p, NEW k, NEW a \in Allocators, NEW F \in Nat, F % 16 = 0, NEW A \in Nat, NEW R \in Nat
  PROVE  /\ Typed(BodySteps(p, k, a, F), populateArguments(A, R), Base(a, F), Base(a, F))
         /\ Typed(Steps(p, k), populateArguments(A, R), Base(a, F), Base(a, F))
<1> DEFINE S == Base(a, F)
           B == BodySteps(p, k, a, F)
           c == populateArguments(A, R)
<1>1. S \in Point /\ S.phase = 1 /\ InBody(a, F, S)
  BY BaseFacts DEF InBody
<1>2. ASSUME NEW i \in 1 .. A PROVE getArg(i, R) \in Operand
  <2>1. adjIdx(i, R) \in Nat \ {0}
    BY DEF adjIdx
  <2>2. CASE adjIdx(i, R) <= 6
    <3>1. adjIdx(i, R) \in 1 .. 6
      BY <2>1, <2>2
    <3>2. argRegisters[adjIdx(i, R)] \in Register
      BY <3>1, ArgumentRegisters DEF Register
    <3> QED BY <2>2, <3>2, InstructionFacts DEF getArg
  <2>3. CASE ~(adjIdx(i, R) <= 6)
    <3>1. 16 + (adjIdx(i, R) - 7) * 8 \in Int /\ RBP \in Register
      BY <2>1, RegisterFacts DEF Register
    <3> QED BY <2>3, <3>1, InstructionFacts DEF getArg
  <2> QED BY <2>2, <2>3
<1>3. ASSUME NEW i \in 1 .. A
      PROVE  /\ MOV(Reg(ARG(i)), getArg(i, R)) \in Instruction
             /\ Typed(B, <<MOV(Reg(ARG(i)), getArg(i, R))>>, S, S)
             /\ Typed(Steps(p, k), <<MOV(Reg(ARG(i)), getArg(i, R))>>, S, S)
  <2>0. i \in Int
    OBVIOUS
  <2>1. Temporary(ARG(i)) /\ getArg(i, R) \in Operand
    BY <1>2, <2>0, NameFacts
  <2>2. MOV(Reg(ARG(i)), getArg(i, R)) \in Instruction /\ Typed(B, <<MOV(Reg(ARG(i)), getArg(i, R))>>, S, S)
    BY <1>1, <2>1, TemporarySet
  <2>3. SetsScratch(S, MOV(Reg(ARG(i)), getArg(i, R)), S)
    BY <1>1, <2>1, OpcodeFacts DEF SetsScratch, Scratch
  <2>4. Leads(p, k, S, MOV(Reg(ARG(i)), getArg(i, R)), S)
    BY <2>3 DEF Leads
  <2> QED BY <1>1, <2>2, <2>4, TypedStep
<1>4. c \in Seq(Instruction) /\ Len(c) = A /\ \A i \in 1 .. A : c[i] = MOV(Reg(ARG(i)), getArg(i, R))
  <2> DEFINE Q == Instruction
             x(i) == MOV(Reg(ARG(i)), getArg(i, R))
  <2>1. \A i \in 1 .. A : x(i) \in Q
    BY <1>3
  <2>2. c = [i \in 1 .. A |-> x(i)]
    BY DEF populateArguments
  <2> HIDE DEF Q, x, c
  <2>3. c \in Seq(Q) /\ Len(c) = A /\ \A i \in 1 .. A : c[i] = x(i)
    BY <2>1, <2>2
  <2> QED BY <2>3 DEF Q, x
<1> HIDE DEF c, B, S
<1>5. /\ \A i \in 1 .. Len(c) : Typed(B, <<c[i]>>, S, S)
      /\ \A i \in 1 .. Len(c) : Typed(Steps(p, k), <<c[i]>>, S, S)
  BY <1>3, <1>4
<1>6. Typed(B, c, S, S) /\ Typed(Steps(p, k), c, S, S)
  BY <1>1, <1>4, <1>5, StepsLoop
<1> QED BY <1>6 DEF B, S, c

\* Every abstract register of the code is given a position.
LEMMA OffsetsFacts ==
  ASSUME NEW c \in Seq(Instruction)
  PROVE  populateMap(c) \in Seq(AbstractRegister) /\ Len(populateMap(c)) \in Nat
<1> DEFINE T  == AbstractRegister
           Q  == Seq(T)
           s1 == [i \in DOMAIN c |-> involved(c[i])]
           f  == FlattenSeq(s1)
           first(i) == When(\A j \in 1 .. i - 1 : f[j] # f[i], <<f[i]>>)
           s2 == [i \in DOMAIN f |-> first(i)]
<1>1. DOMAIN c = 1 .. Len(c) /\ Len(c) \in Nat /\ \A i \in 1 .. Len(c) : c[i] \in Instruction
  OBVIOUS
<1>2. \A i \in 1 .. Len(c) : involved(c[i]) \in Q
  BY <1>1, InvolvedFacts
<1> HIDE DEF Q
<1>3. s1 \in Seq(Q)
  BY <1>1, <1>2
<1> HIDE DEF s1
<1>4. f \in Q
  BY <1>3, FlattenRange DEF Q
<1> HIDE DEF f
<1>5. DOMAIN f = 1 .. Len(f) /\ Len(f) \in Nat /\ \A i \in 1 .. Len(f) : f[i] \in T
  BY <1>4 DEF Q
<1>6. <<>> \in Q /\ \A r \in T : <<r>> \in Q
  BY DEF Q
<1>7. \A i \in 1 .. Len(f) : first(i) \in Q
  <2> SUFFICES ASSUME NEW i \in 1 .. Len(f) PROVE first(i) \in Q
    OBVIOUS
  <2>1. <<f[i]>> \in Q
    BY <1>5, <1>6
  <2>2. first(i) = <<>> \/ first(i) = <<f[i]>>
    BY DEF When
  <2> HIDE DEF first
  <2> QED BY <1>6, <2>1, <2>2
<1> HIDE DEF first
<1>8. s2 \in Seq(Q)
  BY <1>5, <1>7
<1> HIDE DEF s2
<1>9. FlattenSeq(s2) \in Q
  BY <1>8, FlattenRange DEF Q
<1>10. populateMap(c) = FlattenSeq(s2)
  BY DEF populateMap, AsMutableSet, s1, s2, f, first
<1>11. populateMap(c) \in Q
  BY <1>9, <1>10
<1> QED BY <1>11 DEF Q
\* The code of every function, by either allocator: from the entry to RET.
THEOREM CodeTyped ==
  ASSUME NEW p \in Programs, NEW k \in 1 .. 3, NEW a \in Allocators
  PROVE  \E F \in Nat : Typed(Steps(p, k), Code(p, k, a).insns, EntryPoint, Done(F))
<1> DEFINE body == BodyToCall(p, k) \o BodyAfterCall(p, k)
           offs == populateMap(body)
           temps == IF a = "trivial" THEN Len(offs) ELSE Spilled[k]
           F == 8 * Even(temps)
           R == Steps(p, k)
           A == p[k].params
           N == p[k].rets
           args == populateArguments(A, N)
           B == BodySteps(p, k, a, F)
<1>1. A \in Nat /\ N \in Nat
  BY ProgramsAssumption
<1>2. body \in Seq(Instruction)
  <2>1. 0 \in Nat /\ 0 % 16 = 0
    OBVIOUS
  <2>2. Typed(BodySteps(p, k, a, 0), body, Base(a, 0), Done(0))
    BY <2>1, BodyTyped
  <2> QED BY <2>2 DEF Typed, Along
<1>3. offs \in Seq(AbstractRegister) /\ Len(offs) \in Nat
  BY <1>2, OffsetsFacts
<1>4. temps \in Nat
  BY <1>3, SpilledAssumption
<1> HIDE DEF offs, body, A, N, args
<1>5. F \in Nat /\ F % 16 = 0 /\ 8 * temps <= F
  <2> HIDE DEF temps
  <2> QED BY <1>4 DEF Even
<1>6. a = "trivial" => offs \in Seq(AbstractRegister) /\ 8 * Len(offs) <= F
  BY <1>3, <1>5
<1> HIDE DEF temps
<1>7. F % 8 = 0
  BY <1>5
<1> HIDE DEF F, B, R
<1>8. Typed(B, body, Base(a, F), Done(F))
  BY <1>5, BodyTyped DEF B, body
<1>9. Typed(R, Allocate(a, body, offs), Base(a, F), Done(F))
  BY <1>5, <1>6, <1>8, AllocateTyped DEF B, R
<1>10. Typed(B, args, Base(a, F), Base(a, F)) /\ Typed(R, args, Base(a, F), Base(a, F))
  BY <1>1, <1>5, PopulateTyped DEF B, R, args
<1>11. Typed(R, <<ENTER(F)>>, EntryPoint, Entered(F))
  BY <1>5, FrameSteps DEF R
<1>12. CASE a = "trivial"
  <2>1. MayPush(Entered(F), calleeSaved) /\ Base(a, F) = Pushed(Entered(F), calleeSaved, Len(calleeSaved))
    BY <1>5, <1>12, BaseFacts, CalleeSavedFacts DEF Base
  <2>2. Typed(R, Pushes(calleeSaved), Entered(F), Base(a, F))
    BY <2>1, PushesTyped DEF R
  <2>3. Typed(R, Allocate(a, args, offs), Base(a, F), Base(a, F))
    BY <1>5, <1>6, <1>10, AllocateTyped DEF B, R
  <2>4. Typed(R, <<ENTER(F)>> \o Pushes(calleeSaved), EntryPoint, Base(a, F))
    BY <1>11, <2>2, TypedConcat
  <2>5. Typed(R, <<ENTER(F)>> \o Pushes(calleeSaved) \o Allocate(a, args, offs), EntryPoint, Base(a, F))
    BY <2>3, <2>4, TypedConcat
  <2>6. Typed(R, <<ENTER(F)>> \o Pushes(calleeSaved) \o Allocate(a, args, offs) \o Allocate(a, body, offs),
              EntryPoint, Done(F))
    BY <1>9, <2>5, TypedConcat
  <2>7. Code(p, k, a).insns
          = <<ENTER(F)>> \o Pushes(calleeSaved) \o Allocate(a, args, offs) \o Allocate(a, body, offs)
    BY <1>12 DEF Code, trivialPrologue, Allocate, F, temps, args, offs, body, A, N
  <2> QED BY <1>5, <2>6, <2>7 DEF R
<1>13. CASE a = "chaitin"
  <2>1. Base(a, F) = Copied(F, 5)
    BY <1>13 DEF Base
  <2>2. Typed(R, SaveCopies, Entered(F), Base(a, F))
    BY <1>5, <1>7, <2>1, CopiesTyped DEF R
  <2>3. Typed(R, <<ENTER(F)>> \o SaveCopies, EntryPoint, Base(a, F))
    BY <1>11, <2>2, TypedConcat
  <2>4. Typed(R, <<ENTER(F)>> \o SaveCopies \o args, EntryPoint, Base(a, F))
    BY <1>10, <2>3, TypedConcat
  <2>5. Typed(R, <<ENTER(F)>> \o SaveCopies \o args \o Allocate(a, body, offs), EntryPoint, Done(F))
    BY <1>9, <2>4, TypedConcat
  <2>6. Code(p, k, a).insns = <<ENTER(F)>> \o SaveCopies \o args \o Allocate(a, body, offs)
    BY <1>13 DEF Code, chaitinPrologue, SaveCopies, Allocate, F, temps, args, offs, body, A, N
  <2> QED BY <1>5, <2>5, <2>6 DEF R
<1> QED BY <1>12, <1>13 DEF Allocators
=============================================================================
