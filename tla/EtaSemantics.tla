---------------------------- MODULE EtaSemantics ----------------------------
(***************************************************************************)
(* Reference: what a function of the source program does, evaluated from   *)
(* left to right on the source tree.  The state of an evaluation is        *)
(*   env     name |-> value                                                *)
(*   heap    the arrays and records, a reference is an index into it       *)
(*   trace   the calls made, each with its arguments                       *)
(*   sig     "go", "break", "return" or "out_of_bounds"                    *)
(*   result  the values returned                                           *)
(* A called function is not part of the program examined: it increments    *)
(* the global g and the first element of the global array ga, and its      *)
(* results depend on g and on its arguments.                               *)
(***************************************************************************)
EXTENDS Words, SequencesExt

SumOf(ns) == FoldSeq(LAMBDA x, acc : x + acc, 0, ns)

\* The i-th result of a call that finds n in g.
ResultOf(args, n, i) == Wrap(10 * i + n + SumOf(args))

Invoked(st, f, args) ==
  [st EXCEPT !.trace = Append(@, <<f, args, st.env["g"]>>),
             !.env["g"] = @ + 1,
             !.heap[st.env["ga"]][1] = @ + 1]

New(st, words) == [v |-> Len(st.heap) + 1, st |-> [st EXCEPT !.heap = Append(@, words)]]
Fails(st) == [st EXCEPT !.sig = "out_of_bounds"]

RECURSIVE Eval(_, _), EvalAll(_, _)

\* [v |-> value, st |-> state]
Eval(e, st) ==
  LET one   == Eval(e[2], st)
      both(a, b) == EvalAll(<<a, b>>, st)
      is(n) == [v |-> n, st |-> st]
  IN
  IF st.sig # "go" THEN is(0) ELSE
  CASE e[1] = "int"  -> is(e[2])
    [] e[1] = "bool" -> is(TruthValue(e[2]))
    [] e[1] = "id"   -> is(st.env[e[2]])
    [] e[1] = "bin" /\ e[2] \in {"AND", "OR"} ->
         LET left == Eval(e[3], st) IN
         IF left.v = TruthValue(e[2] = "AND") THEN Eval(e[4], left.st) ELSE left
    [] e[1] = "bin" /\ e[2] \notin {"AND", "OR"} ->
         LET b == both(e[3], e[4]) IN [v |-> Apply(e[2], b.v[1], b.v[2]), st |-> b.st]
    [] e[1] = "concat" ->
         LET b == both(e[2], e[3])
         IN  IF b.st.sig # "go" THEN [b EXCEPT !.v = 0]
             ELSE New(b.st, b.st.heap[b.v[1]] \o b.st.heap[b.v[2]])
    [] e[1] = "not" -> [one EXCEPT !.v = 1 - @]
    [] e[1] = "neg" -> [one EXCEPT !.v = Wrap(-@)]
    [] e[1] = "index" ->
         LET b == both(e[2], e[3])
         IN  IF b.st.sig # "go" THEN [b EXCEPT !.v = 0]
             ELSE IF b.v[2] + 1 \in DOMAIN b.st.heap[b.v[1]]
             THEN [v |-> b.st.heap[b.v[1]][b.v[2] + 1], st |-> b.st]
             ELSE [v |-> 0, st |-> Fails(b.st)]
    [] e[1] = "field" ->
         IF one.st.sig # "go" THEN one ELSE [one EXCEPT !.v = one.st.heap[@][e[3] + 1]]
    [] e[1] = "length" ->
         IF one.st.sig # "go" THEN one ELSE [one EXCEPT !.v = Len(one.st.heap[@])]
    [] e[1] \in {"array", "record"} ->
         LET all == EvalAll(e[2], st)
         IN  IF all.st.sig # "go" THEN [all EXCEPT !.v = 0] ELSE New(all.st, all.v)
    [] e[1] = "call" ->
         LET all == EvalAll(e[3], st)
         IN  IF all.st.sig # "go" THEN [all EXCEPT !.v = 0]
             ELSE [v |-> ResultOf(all.v, all.st.env["g"], 1), st |-> Invoked(all.st, e[2], all.v)]

EvalAll(es, st) ==
  IF es = <<>> THEN [v |-> <<>>, st |-> st]
  ELSE LET first == Eval(Head(es), st)
           rest  == EvalAll(Tail(es), first.st)
       IN  [v |-> <<first.v>> \o rest.v, st |-> rest.st]

-----------------------------------------------------------------------------
(* The place a target names, found before the values are evaluated.        *)

RECURSIVE Places(_, _), Store(_, _, _)
Places(ns, st) ==
  IF ns = <<>> THEN [v |-> <<>>, st |-> st]
  ELSE LET n     == Head(ns)
           check == Eval(n, st)
           parts == EvalAll(<<n[2], n[3]>>, st)
           first == CASE n[1] = "id"    -> [v |-> <<"var", n[2]>>, st |-> st]
                      [] n[1] = "_"     -> [v |-> <<"nowhere">>, st |-> st]
                      [] n[1] = "index" -> [v |-> <<"cell", parts.v[1], parts.v[2] + 1>>, st |-> check.st]
                      [] n[1] = "field" -> [v |-> <<"cell", Eval(n[2], st).v, n[3] + 1>>, st |-> check.st]
           rest  == Places(Tail(ns), first.st)
       IN  [v |-> <<first.v>> \o rest.v, st |-> rest.st]

Store(places, values, st) ==
  IF places = <<>> \/ st.sig # "go" THEN st
  ELSE LET to == Head(places)
       IN  Store(Tail(places), Tail(values),
             CASE to[1] = "var"     -> [st EXCEPT !.env = (to[2] :> Head(values)) @@ @]
               [] to[1] = "cell"    -> [st EXCEPT !.heap[to[2]][to[3]] = Head(values)]
               [] to[1] = "nowhere" -> st)

Assign(ns, vals, st) ==
  LET places == Places(ns, st)
      multi  == Len(vals) = 1 /\ vals[1][1] = "call"
      args   == EvalAll(vals[1][3], places.st)
      values == EvalAll(vals, places.st)
  IN  CASE multi /\ args.st.sig = "go" ->
             Store(places.v, [i \in DOMAIN ns |-> ResultOf(args.v, args.st.env["g"], i)],
                   Invoked(args.st, vals[1][2], args.v))
        [] multi /\ args.st.sig # "go" -> args.st
        [] ~multi -> Store(places.v, values.v, values.st)

RECURSIVE Make(_, _), MakeAll(_, _, _)
\* A new array with the dimensions dims, and n of them.
Make(dims, st) ==
  IF Len(dims) = 1 THEN New(st, [i \in 1..dims[1] |-> 0])
  ELSE LET rows == MakeAll(dims[1], Tail(dims), st) IN New(rows.st, rows.v)
MakeAll(n, dims, st) ==
  IF n = 0 THEN [v |-> <<>>, st |-> st]
  ELSE LET first == Make(dims, st)
           rest  == MakeAll(n - 1, dims, first.st)
       IN  [v |-> <<first.v>> \o rest.v, st |-> rest.st]

RECURSIVE Exec(_, _), ExecAll(_, _)
Exec(s, st) ==
  LET guard == Eval(s[2], st)
      args  == EvalAll(s[3], st)
      body  == Exec(s[3], guard.st)
  IN
  IF st.sig # "go" THEN st ELSE
  CASE s[1] = "block" -> ExecAll(s[2], st)
    [] s[1] = "if"    -> IF guard.v = 1 THEN body ELSE Exec(s[4], guard.st)
    [] s[1] = "while" ->
         IF guard.st.sig # "go" \/ guard.v = 0 THEN guard.st
         ELSE IF body.sig = "break" THEN [body EXCEPT !.sig = "go"] ELSE Exec(s, body)
    [] s[1] = "break"  -> [st EXCEPT !.sig = "break"]
    [] s[1] = "assign" -> Assign(s[2], s[3], st)
    [] s[1] = "proc"   -> IF args.st.sig = "go" THEN Invoked(args.st, s[2], args.v) ELSE args.st
    [] s[1] = "return" ->
         LET values == EvalAll(s[2], st)
         IN  IF values.st.sig # "go" THEN values.st
             ELSE [values.st EXCEPT !.sig = "return", !.result = values.v]
    [] s[1] = "initarr" ->
         IF args.st.sig # "go" THEN args.st
         ELSE LET new == Make(args.v, args.st) IN [new.st EXCEPT !.env = (s[2] :> new.v) @@ @]
    [] s[1] = "decl" -> [st EXCEPT !.env = [x \in ToSet(s[2]) |-> 0] @@ @]

ExecAll(ss, st) == IF ss = <<>> THEN st ELSE ExecAll(Tail(ss), Exec(Head(ss), st))

\* The globals are g = 1 and ga = {1, 2} when the function is called.
RunFunction(func, input) ==
  LET names == [x \in ToSet(func.args) |-> input[CHOOSE i \in DOMAIN func.args : func.args[i] = x]]
  IN  Exec(func.body, [env |-> names @@ ("g" :> 1) @@ ("ga" :> 1), heap |-> <<<<1, 2>>>>,
                       trace |-> <<>>, sig |-> "go", result |-> <<>>])
=============================================================================
