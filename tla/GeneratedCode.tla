--------------------------- MODULE GeneratedCode ---------------------------
(***************************************************************************)
(* The code of the functions main, f and g of a program: how their bodies  *)
(* are lowered and tiled, and what each of the two register allocators     *)
(* makes of them, prologue included.                                       *)
(***************************************************************************)
EXTENDS TrivialAllocator

CONSTANTS
  Programs,      (* see ProcedureCalls; f and g are in the second unit     *)
  Spilled        (* how many registers Chaitin's allocator spills in each  *)

ASSUME SpilledAssumption == Spilled \in [1 .. 3 -> Nat]

Expression == [from : {"param", "result", "number"}, n : Int]

\* The functions of a program, each of which passes the next one as many arguments
\* as that has parameters and returns as many values as it says.  Eta's main
\* returns none.  The functions of the C runtime take their arguments in registers
\* and return at most two values, parameters of theirs or numbers.
ASSUME ProgramsAssumption ==
  \A p \in Programs :
    /\ Len(p) = 3 /\ DOMAIN p = 1 .. 3
    /\ ~p[1].runtime /\ p[1].rets = 0
    /\ \A k \in 1 .. 3 :
         /\ p[k].params \in Nat /\ p[k].rets \in Nat
         /\ p[k].args \in Seq(Expression) /\ p[k].vals \in Seq(Expression)
         /\ Len(p[k].vals) = p[k].rets
         /\ k < 3 => Len(p[k].args) = p[k + 1].params
         /\ p[k].runtime =>
              /\ p[k].params <= 6 /\ p[k].rets <= 2
              /\ \A i \in DOMAIN p[k].vals :
                   p[k].vals[i].from = "param" => p[k].vals[i].n \in 1 .. p[k].params

ParamTemp(i)  == <<"param", i>>     \* the variable that names parameter i
ResultTemp(i) == <<"result", i>>    \* the variable result i is assigned to

LirExpr(e, k) ==
  CASE e.from = "param"  -> Temp(ParamTemp(e.n))
    [] e.from = "result" -> Temp(ResultTemp(e.n))
    [] e.from = "number" -> Value(e.n, k)

\* Lowering moves every argument into a temporary first; the optimiser may have
\* propagated the copy, here for every other argument.
LoweredArg(e, k) == IF k % 2 = 0 THEN Temp(<<"$TL", k>>) ELSE LirExpr(e, k)

\* Up to the end of the call: moves of the parameters and of the arguments, then
\* the call of the next function.
BodyToCall(p, k) ==
  LET args == p[k].args
      saved(i) == IF i % 2 = 0 THEN moveTile(<<"$TL", i>>, LirExpr(args[i], i)) ELSE <<>>
  IN  FlattenSeq([i \in 1 .. p[k].params |-> moveTile(ParamTemp(i), Temp(ARG(i)))])
        \o When(k < Len(p),
             FlattenSeq([i \in DOMAIN args |-> saved(i)])
               \o callTile(k + 1, [i \in DOMAIN args |-> LoweredArg(args[i], i)],
                           IF k < Len(p) THEN p[k + 1].rets ELSE 0))

BodyAfterCall(p, k) ==
  When(k < Len(p), FlattenSeq([i \in 1 .. (IF k < Len(p) THEN p[k + 1].rets ELSE 0) |->
                                 moveTile(ResultTemp(i), Temp(RV(i)))]))
    \o returnTile([i \in DOMAIN p[k].vals |-> LirExpr(p[k].vals[i], 100 + i)])

(* ChaitinRegisterAllocator.allocateFunction and postprocess *)
CE(i) == <<"$CE", i>>

\* callerSaved without RAX and RDX, which carry results.
hackyCallerSaved == <<x86("RCX"), x86("RDI"), x86("RSI"), x86("R8"), x86("R9"), x86("R10"), x86("R11")>>

chaitinInsn(insn) ==
  CASE insn.op = "callersavepush" -> <<PAD>> \o Pushes(hackyCallerSaved)
    [] insn.op = "callersavepop"  -> Pops(hackyCallerSaved) \o <<ADD(RSP, 8)>>
    [] insn.op = "leave" ->
         Reverse([i \in DOMAIN calleeSaved |-> MOV(Reg(calleeSaved[i]), Reg(CE(i)))]) \o <<insn>>
    [] OTHER -> <<insn>>

chaitinAll(insns) == FlattenSeq([i \in DOMAIN insns |-> chaitinInsn(insns[i])])

chaitinPrologue(numTemps, argCount, retCount) ==
  <<ENTER(8 * Even(numTemps))>>
    \o [i \in DOMAIN calleeSaved |-> MOV(Reg(CE(i)), Reg(calleeSaved[i]))]
    \o populateArguments(argCount, retCount)

\* The instructions, and the indices where the body starts and where the call
\* has been completed.
Code(p, k, allocator) ==
  LET toCall   == BodyToCall(p, k)
      body     == toCall \o BodyAfterCall(p, k)
      offsets  == populateMap(body)
      prologue == IF allocator = "trivial"
                  THEN trivialPrologue(body, p[k].params, p[k].rets)
                  ELSE chaitinPrologue(Spilled[k], p[k].params, p[k].rets)
      all(is)  == IF allocator = "trivial" THEN allocateAll(is, offsets) ELSE chaitinAll(is)
  IN  [insns   |-> prologue \o all(body),
       start   |-> Len(prologue) + 1,
       after   |-> Len(prologue) + Len(all(toCall)) + 1,
       offsets |-> offsets]
=============================================================================
