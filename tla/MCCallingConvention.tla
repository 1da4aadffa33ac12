------------------------- MODULE MCCallingConvention -------------------------
(***************************************************************************)
(* Programs for CallingConvention, with argument and result counts on both *)
(* sides of the six argument registers and the two result registers.       *)
(***************************************************************************)
EXTENDS CallingConvention

\* Only for the constructors of its expressions.
P == INSTANCE ProcedureCalls WITH Programs <- {}

\* The k-th value: a result of the call if there is one, else a parameter, else a number.
Mixed(k, nParams, nResults, base) ==
  IF k <= nResults /\ k % 2 = 1 THEN P!Result(k)
  ELSE IF k <= nParams THEN P!Param(k) ELSE P!Number(base + k)

Function(nParams, nRets, nArgs, nResults, base, isRuntime) ==
  [params  |-> nParams, rets |-> nRets, runtime |-> isRuntime,
   args    |-> [k \in 1 .. nArgs |-> Mixed(k, nParams, 0, base)],
   vals    |-> [k \in 1 .. nRets |-> Mixed(k, nParams, nResults, base + 50)]]

Main(nf) == Function(1, 0, nf, 0, 5000, FALSE)

ProgramOf(f, g) ==
  << Main(f[1]),
     Function(f[1], f[2], g[1], g[2], 6000, FALSE),
     Function(g[1], g[2], 0, 0, 7000, g[3]) >>

CONSTANTS FCounts, GCounts   \* <<parameters, results>> of f; of g, and whether it is in the runtime

MCPrograms == {ProgramOf(f, g) : f \in FCounts, g \in GCounts}

MCFCounts == {<<0, 0>>, <<1, 1>>, <<5, 3>>, <<6, 2>>, <<6, 3>>, <<7, 2>>, <<7, 5>>, <<8, 4>>}
MCGCounts == {<<0, 0, FALSE>>, <<6, 3, FALSE>>, <<8, 1, FALSE>>, <<3, 2, TRUE>>}
MCSpilled == <<1, 2, 3>>
=============================================================================
