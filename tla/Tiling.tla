------------------------------- MODULE Tiling -------------------------------
(***************************************************************************)
(* The instructions a call and a return are tiled with: where              *)
(* ConventionalCaller.kt puts arguments and results, and the tiles of      *)
(* LIRCallStmt.kt, LIRReturn.kt, LIRMove.kt and LIRExpr.kt.  Here an       *)
(* instruction keeps its operands, so that it can be executed: a           *)
(* destination and a source, each a register, a word of memory or a        *)
(* constant.                                                               *)
(***************************************************************************)
EXTENDS Integers, Sequences, SequencesExt

(* Registers: a machine register is <<"x86", its name>>, any other pair is *)
(* an abstract one.                                                        *)
x86(n)    == <<"x86", n>>
Isx86(r)  == r[1] = "x86"

calleeSaved == <<x86("RBX"), x86("R12"), x86("R13"), x86("R14"), x86("R15")>>
callerSaved == <<x86("RAX"), x86("RCX"), x86("RDX"), x86("RDI"), x86("RSI"),
                 x86("R8"), x86("R9"), x86("R10"), x86("R11")>>

RSP == x86("RSP")
RBP == x86("RBP")
RDI == x86("RDI")

x86Registers == Range(calleeSaved) \cup Range(callerSaved) \cup {RSP, RBP}

(* Operands *)
Reg(r)    == [kind |-> "reg",   r |-> r,   n |-> 0]
Mem(b, o) == [kind |-> "mem",   r |-> b,   n |-> o]
Const(c)  == [kind |-> "const", r |-> RSP, n |-> c]

(* Instructions; label names the function a CALL goes to. *)
Insn(op, d, s) == [op |-> op, dest |-> d, src |-> s, label |-> "none"]
Bare(op)       == Insn(op, Const(0), Const(0))

MOV(d, s)      == Insn("mov", d, s)
ADD(r, c)      == Insn("add", Reg(r), Const(c))
SUB(r, c)      == Insn("sub", Reg(r), Const(c))
PUSH(r)        == Insn("push", Const(0), Reg(r))
PAD            == Insn("push", Const(0), Const(204))
POP(r)         == Insn("pop", Reg(r), Const(0))
ENTER(bytes)   == Insn("enter", Const(0), Const(bytes))
CALL(f)        == [Bare("call") EXCEPT !.label = f]
LEAVE          == Bare("leave")
RET            == Bare("ret")
CALLERSAVEPUSH == Bare("callersavepush")
CALLERSAVEPOP  == Bare("callersavepop")

-----------------------------------------------------------------------------
(* ConventionalCaller *)

argRegisters == <<x86("RDI"), x86("RSI"), x86("RDX"), x86("RCX"), x86("R8"), x86("R9")>>

\* With more than two results RDI points to the room for them.
adjIdx(index, numReturns) == IF numReturns > 2 THEN index + 1 ELSE index

putArg(index, numReturns, value) ==
  LET adj == adjIdx(index, numReturns)
  IN  IF adj <= 6 THEN MOV(Reg(argRegisters[adj]), Reg(value)) ELSE PUSH(value)

getArg(index, numReturns) ==
  LET adj == adjIdx(index, numReturns)
  IN  IF adj <= 6 THEN Reg(argRegisters[adj]) ELSE Mem(RBP, 16 + (adj - 7) * 8)

RV(i)  == <<"_RV", i>>
ARG(i) == <<"_ARG", i>>

getReturn(index) ==
  CASE index = 1 -> MOV(Reg(RV(1)), Reg(x86("RAX")))
    [] index = 2 -> MOV(Reg(RV(2)), Reg(x86("RDX")))
    [] index > 2 -> POP(RV(index))

-----------------------------------------------------------------------------
(* Tiles.  An expression is a temporary or a constant: lowering puts every *)
(* argument into a temporary, and the optimiser may put a constant there.  *)

Temp(name)  == [temp |-> TRUE,  reg |-> name, value |-> 0]
Value(c, k) == [temp |-> FALSE, reg |-> <<"$A", k>>, value |-> c]   \* $Ak is fresh

exprTile(e) == IF e.temp THEN <<>> ELSE <<MOV(Reg(e.reg), Const(e.value))>>

moveTile(dest, e) == Append(exprTile(e), MOV(Reg(dest), Reg(e.reg)))

atLeast0(n) == IF n > 0 THEN n ELSE 0

pushedReturns(n_returns) == atLeast0(n_returns - 2)

pushedArgs(n_args, n_returns) ==
  atLeast0(n_args - (IF n_returns > 2 THEN 5 ELSE 6))

\* Mutant of didWePad: the room for the results is forgotten.
didWePadArgs(n_args, n_returns) == pushedArgs(n_args, n_returns) % 2 > 0

didWePad(n_args, n_returns) ==
  (pushedReturns(n_returns) + pushedArgs(n_args, n_returns)) % 2 > 0

When(condition, insns) == IF condition THEN insns ELSE <<>>

\* Mutant of callArgs: the first argument first.
callArgsForward(args, n_returns) ==
  FlattenSeq([i \in DOMAIN args |->
    Append(exprTile(args[i]), putArg(i, n_returns, args[i].reg))])

\* From the last to the first, so that the first of the pushed ones is on top.
callArgs(args, n_returns) ==
  LET put(i) == Append(exprTile(args[i]), putArg(i, n_returns, args[i].reg))
  IN  FlattenSeq([k \in DOMAIN args |-> put(Len(args) + 1 - k)])

\* LIRCallStmt
callTile(target, args, n_returns) ==
  LET n   == Len(args)
      pad == didWePad(n, n_returns)
  IN  <<CALLERSAVEPUSH>>
      \o When(pad, <<PAD>>)
      \o When(n_returns >= 3, <<SUB(RSP, 8 * (n_returns - 2)), MOV(Reg(RDI), Reg(RSP))>>)
      \o callArgs(args, n_returns)
      \o <<CALL(target)>>
      \o When(pushedArgs(n, n_returns) > 0, <<ADD(RSP, 8 * pushedArgs(n, n_returns))>>)
      \o [i \in 1 .. n_returns |-> getReturn(i)]
      \o When(pad, <<ADD(RSP, 8)>>)
      \o <<CALLERSAVEPOP>>

\* Mutant of returnTile: the further results are counted from the first one.
returnTileShifted(vals) ==
  FlattenSeq([i \in DOMAIN vals |-> exprTile(vals[i])])
    \o When(Len(vals) >= 1, <<MOV(Reg(x86("RAX")), Reg(vals[1].reg))>>)
    \o When(Len(vals) >= 2, <<MOV(Reg(x86("RDX")), Reg(vals[2].reg))>>)
    \o [k \in 1 .. atLeast0(Len(vals) - 2) |-> MOV(Mem(RDI, 8 * k), Reg(vals[k + 2].reg))]
    \o <<LEAVE, RET>>

\* LIRReturn: all values first, then RAX, RDX and, from the last one down, the
\* room RDI points to.
returnTile(vals) ==
  LET n == Len(vals)
      store(i) == MOV(Mem(RDI, 8 * (i - 3)), Reg(vals[i].reg))
  IN  FlattenSeq([i \in DOMAIN vals |-> exprTile(vals[i])])
        \o When(n >= 1, <<MOV(Reg(x86("RAX")), Reg(vals[1].reg))>>)
        \o When(n >= 2, <<MOV(Reg(x86("RDX")), Reg(vals[2].reg))>>)
        \o [k \in 1 .. atLeast0(n - 2) |-> store(n + 1 - k)]
        \o <<LEAVE, RET>>
=============================================================================
