------------------------- MODULE CallingConvention -------------------------
(***************************************************************************)
(* A program of three functions, main, f and g, in two compilation units:  *)
(* AssemblyGenerator.kt allocates the registers of each unit, and the      *)
(* machine then runs the emitted code, one instruction per step.  main     *)
(* calls f and f calls g; g may be a function of the C runtime.            *)
(*                                                                         *)
(* Code that ChaitinRegisterAllocator emitted is run with its abstract     *)
(* registers, which each activation has for itself: that no colour is      *)
(* shared by registers live at once is the business of ChaitinAllocator.   *)
(***************************************************************************)
EXTENDS GeneratedCode, FiniteSets

CONSTANT StackTop       (* the first address above the stack               *)

ASSUME CallingAssumption == StackTop \in Nat /\ StackTop % 16 = 0

VARIABLES
  program,       (* a member of Programs                                   *)
  unit,          (* the unit AssemblyGenerator is at                       *)
  ra,            (* its register allocator                                 *)
  allocated,     (* the functions of the unit allocated so far             *)
  output,        (* the emitted functions, each with its allocator         *)
  code,          (* what each allocator makes of each function             *)
  pc,            (* function and index of the next instruction             *)
  regs, mem,     (* machine registers; the words from RSP upwards          *)
  acts,          (* the activations                                        *)
  stage, params, results   (* history: see ProcedureCalls                  *)

generating == <<unit, ra, allocated, output, code>>
machine    == <<pc, regs, mem, acts>>
history    == <<stage, params, results>>
vars       == <<program, generating, machine, history>>

-----------------------------------------------------------------------------
(* AssemblyGenerator *)

Compiled(k) == ~program[k].runtime

\* main alone in the first unit, the other functions in the second.
UnitFunctions(u) ==
  LET all == IF u = 1 THEN <<1>> ELSE <<2, 3>> IN
  FlattenSeq([i \in DOMAIN all |-> When(Compiled(all[i]), <<all[i]>>)])

Generating == unit <= 2

AllocateFunction ==
  /\ Generating
  /\ Len(allocated) < Len(UnitFunctions(unit))
  /\ allocated' = Append(allocated, <<UnitFunctions(unit)[Len(allocated) + 1], ra>>)
  /\ UNCHANGED <<program, unit, ra, output, code, machine, history>>

\* Mutant of Fallback: the functions already allocated are kept and the trivial
\* allocator takes the unit from the beginning.
FallbackKeeps ==
  /\ Generating
  /\ ra = "chaitin"
  /\ Len(allocated) < Len(UnitFunctions(unit))
  /\ ra' = "trivial"
  /\ output' = output \o allocated
  /\ allocated' = <<>>
  /\ UNCHANGED <<program, unit, code, machine, history>>

\* Allocating the next function throws ChaitinError: the whole unit again.  The
\* abstract code is the same as before: allocators never assign to a field of
\* an instruction, they make new ones.
Fallback ==
  /\ Generating
  /\ ra = "chaitin"
  /\ Len(allocated) < Len(UnitFunctions(unit))
  /\ ra' = "trivial"
  /\ allocated' = <<>>
  /\ UNCHANGED <<program, unit, output, code, machine, history>>

\* Mutant of EmitUnit: the list of the unit is not a new one.
EmitUnitSameList ==
  /\ Generating
  /\ Len(allocated) = Len(UnitFunctions(unit))
  /\ output' = output \o allocated
  /\ unit' = unit + 1
  /\ ra' = "chaitin"
  /\ UNCHANGED <<program, allocated, code, machine, history>>

EmitUnit ==
  /\ Generating
  /\ Len(allocated) = Len(UnitFunctions(unit))
  /\ output' = output \o allocated
  /\ allocated' = <<>>
  /\ unit' = unit + 1
  /\ ra' = "chaitin"
  /\ UNCHANGED <<program, code, machine, history>>

-----------------------------------------------------------------------------
(* The machine *)

Junk      == -1
Exit      == <<0, 0>>                    \* back in main() of the runtime

\* A return address: the function, one of 1 .. 3 or 0, and the instruction.
Address(place) == 4 * place[2] + place[1]
PlaceOf(word)  == <<word % 4, word \div 4>>

Words(sp) == {8 * w : w \in (sp \div 8) .. (StackTop \div 8 - 1)}

\* The words from sp upwards; below it everything may be overwritten.
Above(m, sp) == [a \in Words(sp) |-> IF a \in DOMAIN m THEN m[a] ELSE Junk]


AllocatorOf(k) == (CHOOSE o \in Range(output) : o[1] = k)[2]
CodeOf(k)      == code[k][AllocatorOf(k)]

Running == ~Generating /\ pc # Exit
InCode  == Running /\ Compiled(pc[1])
insn    == CodeOf(pc[1]).insns[pc[2]]
NextPc  == <<pc[1], pc[2] + 1>>
Act     == Last(acts)

Read(r) == IF Isx86(r) THEN regs[r]
           ELSE IF r \in DOMAIN Act.temps THEN Act.temps[r] ELSE Junk

Location(o) == Read(o.r) + o.n

Readable(o) == o.kind = "mem" => Location(o) \in DOMAIN mem

Fetch(o) == CASE o.kind = "const" -> o.n
              [] o.kind = "reg"   -> Read(o.r)
              [] o.kind = "mem"   -> mem[Location(o)]

\* Writes v to register r, machine or abstract, with the new stack pointer sp.
SetReg(r, v, sp) ==
  IF Isx86(r)
  THEN /\ regs' = [regs EXCEPT ![RSP] = sp, ![r] = v]
       /\ UNCHANGED acts
  ELSE /\ regs' = [regs EXCEPT ![RSP] = sp]
       /\ acts' = [acts EXCEPT ![Len(acts)].temps =
                     [x \in DOMAIN @ \cup {r} |-> IF x = r THEN v ELSE @[x]]]

\* The value an abstract register of the function has in the next state.
ValueAfter(k, r) ==
  IF AllocatorOf(k) = "trivial"
  THEN mem'[regs'[RBP] - 8 * Position(CodeOf(k).offsets, r)]
  ELSE Last(acts').temps[r]

\* The history: parameters are observed where the body starts, results where
\* the call has been completed.
Observe ==
  LET k == pc'[1] IN
  CASE pc' # Exit /\ Compiled(k) /\ pc'[2] = CodeOf(k).start /\ stage[k] = "idle" ->
         /\ stage'  = [stage EXCEPT ![k] = "running"]
         /\ params' = [params EXCEPT ![k] = [i \in 1 .. program[k].params |-> ValueAfter(k, ARG(i))]]
         /\ UNCHANGED results
    [] pc' # Exit /\ Compiled(k) /\ k < Len(program) /\ pc'[2] = CodeOf(k).after
         /\ stage[k + 1] = "running" ->
         /\ stage'   = [stage EXCEPT ![k + 1] = "done"]
         /\ results' = [results EXCEPT ![k + 1] = [i \in 1 .. program[k + 1].rets |-> ValueAfter(k, RV(i))]]
         /\ UNCHANGED params
    [] pc' = Exit ->
         /\ stage' = [stage EXCEPT ![1] = "done"]
         /\ UNCHANGED <<params, results>>
    [] OTHER -> UNCHANGED history

Mov ==
  /\ InCode /\ insn.op = "mov" /\ Readable(insn.src) /\ Readable(insn.dest)
  /\ IF insn.dest.kind = "reg"
     THEN /\ SetReg(insn.dest.r, Fetch(insn.src), regs[RSP])
          /\ UNCHANGED mem
     ELSE /\ mem' = [mem EXCEPT ![Location(insn.dest)] = Fetch(insn.src)]
          /\ UNCHANGED <<regs, acts>>
  /\ pc' = NextPc
  /\ Observe

AddSub ==
  /\ InCode /\ insn.op \in {"add", "sub"}
  /\ LET sp == IF insn.op = "add" THEN regs[RSP] + insn.src.n ELSE regs[RSP] - insn.src.n
     IN  regs' = [regs EXCEPT ![RSP] = sp] /\ mem' = Above(mem, sp)
  /\ pc' = NextPc
  /\ UNCHANGED acts
  /\ Observe

Push ==
  /\ InCode /\ insn.op = "push"
  /\ LET sp == regs[RSP] - 8
     IN  regs' = [regs EXCEPT ![RSP] = sp]
         /\ mem' = [Above(mem, sp) EXCEPT ![sp] = Fetch(insn.src)]
  /\ pc' = NextPc
  /\ UNCHANGED acts
  /\ Observe

Pop ==
  /\ InCode /\ insn.op = "pop" /\ regs[RSP] \in DOMAIN mem
  /\ SetReg(insn.dest.r, mem[regs[RSP]], regs[RSP] + 8)
  /\ mem' = Above(mem, regs[RSP] + 8)
  /\ pc' = NextPc
  /\ Observe

Enter ==
  /\ InCode /\ insn.op = "enter"
  /\ LET bp == regs[RSP] - 8
         sp == bp - insn.src.n
     IN  regs' = [regs EXCEPT ![RBP] = bp, ![RSP] = sp]
         /\ mem' = [Above(mem, sp) EXCEPT ![bp] = regs[RBP]]
  /\ pc' = NextPc
  /\ UNCHANGED acts
  /\ Observe

Leave ==
  /\ InCode /\ insn.op = "leave" /\ regs[RBP] \in DOMAIN mem
  /\ regs' = [regs EXCEPT ![RBP] = mem[regs[RBP]], ![RSP] = regs[RBP] + 8]
  /\ mem' = Above(mem, regs[RBP] + 8)
  /\ pc' = NextPc
  /\ UNCHANGED acts
  /\ Observe

\* What the activation found when it was called; room is where its third result goes.
Activation(sp) ==
  [temps |-> <<>>, entry |-> sp, room |-> regs[RDI],
   kept |-> [r \in Range(calleeSaved) \cup {RBP} |-> regs[r]]]

Call ==
  /\ InCode /\ insn.op = "call"
  /\ LET sp == regs[RSP] - 8
     IN  /\ regs' = [regs EXCEPT ![RSP] = sp]
         /\ mem' = [Above(mem, sp) EXCEPT ![sp] = Address(NextPc)]
         /\ acts' = Append(acts, Activation(sp))
  /\ pc' = <<insn.label, 1>>
  /\ IF Compiled(insn.label) THEN Observe
     ELSE /\ stage'  = [stage EXCEPT ![insn.label] = "running"]
          /\ params' = [params EXCEPT ![insn.label] =
                          [i \in 1 .. program[insn.label].params |-> regs[argRegisters[i]]]]
          /\ UNCHANGED results

Ret ==
  /\ InCode /\ insn.op = "ret" /\ regs[RSP] \in DOMAIN mem
  /\ regs' = [regs EXCEPT ![RSP] = @ + 8]
  /\ mem' = Above(mem, regs[RSP] + 8)
  /\ pc' = PlaceOf(mem[regs[RSP]])
  /\ acts' = Front(acts)
  /\ Observe

\* A function of the C runtime: it stops the program when the stack pointer is
\* not aligned, keeps what a callee has to keep, and returns up to two results.
RuntimeReturn ==
  /\ Running /\ ~Compiled(pc[1])
  /\ (regs[RSP] - 8) % 16 = 0
  /\ LET vals == [i \in DOMAIN program[pc[1]].vals |->
                    IF program[pc[1]].vals[i].from = "param"
                    THEN params[pc[1]][program[pc[1]].vals[i].n] ELSE program[pc[1]].vals[i].n]
         result(r) == CASE r = x86("RAX") /\ Len(vals) >= 1 -> vals[1]
                        [] r = x86("RDX") /\ Len(vals) >= 2 -> vals[2]
                        [] OTHER -> Junk
     IN  regs' = [r \in x86Registers |->
                    IF r = RSP THEN regs[r] + 8
                    ELSE IF r \in Range(callerSaved) THEN result(r) ELSE regs[r]]
  /\ mem' = Above(mem, regs[RSP] + 8)
  /\ pc' = PlaceOf(mem[regs[RSP]])
  /\ acts' = Front(acts)
  /\ Observe

Execute == Mov \/ AddSub \/ Push \/ Pop \/ Enter \/ Leave \/ Call \/ Ret \/ RuntimeReturn

Run == Execute /\ UNCHANGED <<program, generating>>

Finished == ~Generating /\ pc = Exit /\ UNCHANGED vars

Init ==
  /\ program \in Programs
  /\ unit = 1 /\ ra = "chaitin" /\ allocated = <<>> /\ output = <<>>
  /\ code = [k \in DOMAIN program |-> [allocator \in {"chaitin", "trivial"} |->
               IF program[k].runtime THEN <<>> ELSE Code(program, k, allocator)]]
  /\ pc = <<1, 1>>
  /\ LET sp == StackTop - 8 IN
       /\ regs = [r \in x86Registers |-> CASE r = RSP -> sp [] r = RDI -> 9000 [] OTHER -> Junk]
       /\ mem  = [a \in Words(sp) |-> Address(Exit)]
       /\ acts = <<[temps |-> <<>>, entry |-> sp, room |-> 9000,
                    kept |-> [r \in Range(calleeSaved) \cup {RBP} |-> Junk]]>>
  /\ stage   = [k \in DOMAIN program |-> "idle"]
  /\ params  = [k \in DOMAIN program |-> <<>>]
  /\ results = [k \in DOMAIN program |-> <<>>]

Next == AllocateFunction \/ Fallback \/ EmitUnit \/ Run \/ Finished

Spec == Init /\ [][Next]_vars /\ WF_vars(Next)

-----------------------------------------------------------------------------
(* Properties *)

\* Types and ranges: the unit being allocated holds a prefix of its functions, all
\* by the current allocator, and the stack is made of words.
TypeOK ==
  /\ program \in Programs
  /\ unit \in 1 .. 3 /\ ra \in {"chaitin", "trivial"}
  /\ Generating => \A i \in DOMAIN allocated : allocated[i] = <<UnitFunctions(unit)[i], ra>>
  /\ regs \in [x86Registers -> Int]
  /\ regs[RSP] % 8 = 0
  /\ DOMAIN mem = Words(regs[RSP])
  /\ Len(acts) <= Len(program)

\* At every call instruction RSP is a multiple of 16, for every number of
\* arguments and results and under both allocators: the runtime functions check
\* this (CHECK_STACK_ALIGNMENT) and stop the program otherwise.
Aligned == InCode /\ insn.op = "call" => regs[RSP] % 16 = 0

\* A return finds RSP at the return address of its own activation, goes back to
\* where it was called from, and restores RBP and the callee-saved registers.
ReturnRestores ==
  [][Len(acts') < Len(acts) =>
       /\ regs'[RSP] = Act.entry + 8
       /\ \A r \in DOMAIN Act.kept : regs'[r] = Act.kept[r]]_vars

\* The words above the frame of an activation belong to its callers: it changes
\* none of them but the ones reserved for its third and further results.
WritesOwnFrame ==
  [][\A a \in DOMAIN mem \cap DOMAIN mem' :
       mem'[a] # mem[a] =>
         \/ a < Act.entry
         \/ a \in {Act.room + 8 * i : i \in 0 .. program[pc[1]].rets - 3}]_vars

\* Whatever function the time limit stopped the allocation at, each function of
\* a unit is emitted exactly once and in its place, and by one allocator for the
\* whole unit.
UnitComplete ==
  LET emitted(u, a) == [i \in DOMAIN UnitFunctions(u) |-> <<UnitFunctions(u)[i], a>>] IN
  ~Generating =>
    \E a, b \in {"chaitin", "trivial"} : output = emitted(1, a) \o emitted(2, b)

\* The machine implements ProcedureCalls: parameters and results arrive as the
\* abstract call hands them over, and the program gets to its end.
Abstract == INSTANCE ProcedureCalls
CallsImplemented == Abstract!Spec
=============================================================================
