--------------------------- MODULE ProcedureCalls ---------------------------
(***************************************************************************)
(* What the calling convention promises: a call hands the values of its    *)
(* argument expressions to the parameters of the callee, and a return      *)
(* hands the values of its result expressions to the caller.  There are    *)
(* no registers and no stack here.  The functions of a program are called  *)
(* once each, every one by the function before it.                         *)
(***************************************************************************)
EXTENDS Integers, Sequences

CONSTANT Programs      (* each a sequence of functions, records with:      *)
                       (*   params, rets: how many of each it has          *)
                       (*   args:         the expressions it passes on     *)
                       (*   vals:         the expressions it returns       *)
                       (* The runtime calls the first one with Argv.       *)

VARIABLES
  program,   (* the program that runs                                      *)
  stage,     (* "idle", "running" or "done", for each function             *)
  params,    (* the parameters of each function that has been entered      *)
  results    (* what the caller of each function that is done was given    *)

vars == <<program, stage, params, results>>

Nothing == <<>>
Argv    == <<9000>>

\* An expression is a parameter, a result of the call or a constant.
Param(i)  == [from |-> "param",  n |-> i]
Result(i) == [from |-> "result", n |-> i]
Number(c) == [from |-> "number", n |-> c]

Eval(e, own, obtained) ==
  CASE e.from = "param"  -> own[e.n]
    [] e.from = "result" -> obtained[e.n]
    [] e.from = "number" -> e.n

EvalAll(es, own, obtained) == [i \in DOMAIN es |-> Eval(es[i], own, obtained)]

Passed(k) ==
  IF k = 1 THEN Argv ELSE EvalAll(program[k - 1].args, params[k - 1], Nothing)

Returned(k) ==
  EvalAll(program[k].vals, params[k], IF k = Len(program) THEN Nothing ELSE results[k + 1])

Init ==
  /\ program \in Programs
  /\ stage   = [k \in DOMAIN program |-> "idle"]
  /\ params  = [k \in DOMAIN program |-> Nothing]
  /\ results = [k \in DOMAIN program |-> Nothing]

Enter(k) ==
  /\ stage[k] = "idle"
  /\ k > 1 => stage[k - 1] = "running"
  /\ stage'  = [stage EXCEPT ![k] = "running"]
  /\ params' = [params EXCEPT ![k] = Passed(k)]
  /\ UNCHANGED <<program, results>>

Return(k) ==
  /\ stage[k] = "running"
  /\ k < Len(program) => stage[k + 1] = "done"
  /\ stage'   = [stage EXCEPT ![k] = "done"]
  /\ results' = [results EXCEPT ![k] = Returned(k)]
  /\ UNCHANGED <<program, params>>

Next == \E k \in DOMAIN program : Enter(k) \/ Return(k)

Spec == Init /\ [][Next]_vars /\ WF_vars(Next)
=============================================================================
