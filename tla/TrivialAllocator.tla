-------------------------- MODULE TrivialAllocator --------------------------
(***************************************************************************)
(* TrivialRegisterAllocator.kt: every abstract register of a function has  *)
(* a word of the frame.  Each instruction is surrounded by loads of all    *)
(* the registers it mentions into R12, R13 and R14 and stores of all of    *)
(* them back.                                                              *)
(***************************************************************************)
EXTENDS Tiling

defaults == <<x86("R12"), x86("R13"), x86("R14")>>

AbstractOf(operand) ==
  IF operand.kind # "const" /\ ~Isx86(operand.r) THEN <<operand.r>> ELSE <<>>

\* A mutable set keeps its elements in the order of insertion.
AsMutableSet(seq) ==
  FlattenSeq([i \in DOMAIN seq |-> When(\A j \in 1 .. i - 1 : seq[j] # seq[i], <<seq[i]>>)])

\* Instruction.involved: at most one abstract register in each operand.
involved(insn) ==
  LET d == AbstractOf(insn.dest)
      s == AbstractOf(insn.src)
  IN  IF s = d THEN d ELSE d \o s

\* populateMap: the register at position k has the word at [RBP - 8 * k].
populateMap(insns) ==
  AsMutableSet(FlattenSeq([i \in DOMAIN insns |-> involved(insns[i])]))

Position(seq, r) == CHOOSE k \in DOMAIN seq : seq[k] = r

slot(r, offsetMap) == Mem(RBP, -8 * Position(offsetMap, r))

populateArguments(argCount, retCount) ==
  [i \in 1 .. argCount |-> MOV(Reg(ARG(i)), getArg(i, retCount))]

replaceOperand(operand, encountered) ==
  IF AbstractOf(operand) = <<>> THEN operand
  ELSE [operand EXCEPT !.r = defaults[Position(encountered, operand.r)]]

\* Load, execute, store.  A parameter the body never mentions has no word.
aroundInsn(insn, offsetMap) ==
  LET encountered == involved(insn)
      default(k)  == Reg(defaults[k])
      word(k)     == slot(encountered[k], offsetMap)
      hasWord(k)  == encountered[k] \in Range(offsetMap)
  IN  FlattenSeq([k \in DOMAIN encountered |-> When(hasWord(k), <<MOV(default(k), word(k))>>)])
        \o <<[insn EXCEPT !.dest = replaceOperand(@, encountered),
                          !.src  = replaceOperand(@, encountered)]>>
        \o FlattenSeq([k \in DOMAIN encountered |-> When(hasWord(k), <<MOV(word(k), default(k))>>)])

Pushes(regs) == [k \in DOMAIN regs |-> PUSH(regs[k])]
Pops(regs)   == LET reversed == Reverse(regs) IN [k \in DOMAIN regs |-> POP(reversed[k])]

\* Mutant of allocateInsn: the registers of the caller are not restored.
allocateInsnLeaves(insn, offsetMap) ==
  CASE insn.op = "callersavepush" -> Pushes(callerSaved)
    [] insn.op = "callersavepop"  -> Pops(callerSaved)
    [] OTHER                      -> aroundInsn(insn, offsetMap)

allocateInsn(insn, offsetMap) ==
  CASE insn.op = "callersavepush" -> Pushes(callerSaved)
    [] insn.op = "callersavepop"  -> Pops(callerSaved)
    [] insn.op = "leave"          -> Pops(calleeSaved) \o <<insn>>
    [] OTHER                      -> aroundInsn(insn, offsetMap)

Even(n) == n + (n % 2)

allocateAll(insns, offsetMap) ==
  FlattenSeq([i \in DOMAIN insns |-> allocateInsn(insns[i], offsetMap)])

\* The frame, the saved registers, the parameters: what precedes the body.
trivialPrologue(insns, argCount, retCount) ==
  LET offsetMap == populateMap(insns)
  IN  <<ENTER(8 * Even(Len(offsetMap)))>> \o Pushes(calleeSaved)
        \o allocateAll(populateArguments(argCount, retCount), offsetMap)

allocateRegisters(insns, argCount, retCount) ==
  trivialPrologue(insns, argCount, retCount) \o allocateAll(insns, populateMap(insns))
=============================================================================
