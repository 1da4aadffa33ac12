------------------------- MODULE MCChaitinAllocator -------------------------
(***************************************************************************)
(* Small functions for the register allocator, over a machine whose        *)
(* registers are the first six of enum x86Name: RAX, RBX, RCX, RDX to give *)
(* out, RSP and RBP.  Four values and the saved RBX compete for them, so   *)
(* some functions are coloured at once and others only after spilling.     *)
(***************************************************************************)
EXTENDS ChaitinAllocator

RCX == 2

t1  == Abstract(<<"t", 1>>)
t2  == Abstract(<<"t", 2>>)
t3  == Abstract(<<"t", 3>>)
t4  == Abstract(<<"t", 4>>)
RV1 == Abstract(<<"RV", 1>>)
ARG1 == Abstract(<<"ARG", 1>>)
ARG2 == Abstract(<<"ARG", 2>>)

L == <<"L", 1>>

Return(r) == <<MOV(x86(RAX), r), LEAVE, RET>>

Ops == {MOV(t2, t1), MOVConst(t1), Arith(t2, t3), MOV(t3, ARG1), Arith(t1, ARG1)}

Straight(o, p) ==
  <<MOV(t1, ARG1), MOVConst(t2), MOVConst(t3), o, Arith(t1, t2), p, Arith(t2, t3)>> \o Return(t2)

Loop(o, p) ==
  <<MOVConst(t2), MOV(t3, ARG1), Label(L), MOV(t1, t2), o, CMP(t1, t3), Jcc(L), p>> \o Return(t3)

\* The sequence LIRCallStmt emits for a call with one argument.
Call(o, p) ==
  <<MOVConst(t1), MOV(t2, ARG1), o, CALLERSAVEPUSH, MOV(x86(RCX), t1), CALL,
    MOV(RV1, x86(RAX)), CALLERSAVEPOP, p, Arith(RV1, t2)>> \o Return(RV1)

Divide(o, p) ==
  <<MOV(t1, ARG1), MOVConst(t2), MOVConst(t3), o, MOV(x86(RAX), t1), CQO, DIV(t2),
    MOV(t1, x86(RDX)), p, Arith(t1, t3)>> \o Return(t1)

\* A comparison of two temporaries.
Compare(o, p) ==
  LET Temp(r) == [code |-> <<>>, outputRegister |-> r] IN
  <<MOV(t1, ARG1), MOVConst(t2), MOVConst(t3), o>>
    \o Comparison(Temp(t1), Temp(t3), t4) \o <<p, Arith(t1, t3)>> \o Return(t4)

OneArg(bodies) == {[args |-> <<RCX>>, onStack |-> 0, body |-> s] : s \in bodies}

\* A second argument, which arrives on the stack, is added to the result.
Further(o, p) ==
  [args |-> <<RCX>>, onStack |-> 1,
   body |-> <<MOV(t2, ARG1), MOVConst(t3), o, Arith(t2, t3), p, Arith(t2, ARG2)>> \o Return(t2)]

MCFunctions ==
  OneArg(UNION {{Straight(o, p), Loop(o, p), Call(o, p), Divide(o, p)} : o, p \in Ops})
    \cup {Further(o, p) : o, p \in Ops}

MCCompares == OneArg({Compare(o, p) : o, p \in Ops})
=============================================================================
