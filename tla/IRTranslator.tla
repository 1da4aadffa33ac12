---------------------------- MODULE IRTranslator ----------------------------
(***************************************************************************)
(* IRTranslator.kt: the intermediate tree of a function of the source      *)
(* program.                                                                *)
(*                                                                         *)
(* A source expression is <<"int", c>> (integers, characters, null),       *)
(* <<"bool", b>>, <<"id", name>>, <<"bin", op, l, r>>, <<"concat", l, r>>, *)
(* <<"not", e>>, <<"neg", e>>, <<"index", array, i>>, <<"field", e, k>>,   *)
(* <<"length", e>>, <<"array", elements>> (strings too),                   *)
(* <<"record", fields>> or <<"call", f, args>>.  The numbering of fresh    *)
(* temporaries and labels is replaced by the place p in the program at     *)
(* which they are made, a sequence of numbers.                             *)
(***************************************************************************)
EXTENDS Integers, SequencesExt

CONSTANT Globals   \* the names of the global variables

-----------------------------------------------------------------------------
(* The nodes of the tree (ir/mid), most of which LIR has as well.          *)

Const(c)       == <<"const", c>>
Temp(t)        == <<"temp", t>>
Name(l)        == <<"name", l>>
Mem(a)         == <<"mem", a>>
Op(op, l, r)   == <<"op", op, l, r>>
ESeq(s, e)     == <<"eseq", s, e>>
Call(f, args)  == <<"call", f, args>>

Move(d, e)         == <<"move", d, e>>
Sequence(ss)       == <<"seq", ss>>
Jump(l)            == <<"jump", l>>
CJump(g, t, f)     == <<"cjump", g, t, f>>
Label(l)           == <<"label", l>>
CallStmt(f, n, as) == <<"callstmt", f, n, as>>
Return(es)         == <<"return", es>>

Variable(v)     == Temp(<<v, <<>>, 0>>)
Argument(i)     == Temp(<<"_ARG", <<>>, i>>)
Result(i)       == Temp(<<"_RV", <<>>, i>>)
freshTemp(p, k) == Temp(<<"T", p, k>>)
freshLabel(p, k) == <<"L", p, k>>

At(p, i)       == Append(p, i)
Word(base, i)  == Op("ADD", base, Op("MUL", i, Const(8)))
LengthOf(base) == Mem(Op("SUB", base, Const(8)))

-----------------------------------------------------------------------------
(* Arrays: the length is the word before the first element.                *)

Allocation(length) == Call("_eta_alloc", <<Op("ADD", Op("MUL", length, Const(8)), Const(8))>>)

\* Mutant of arrayInitMoves: no room for the length.
arrayInitMovesShort(length, ptr) ==
  <<Move(ptr, Call("_eta_alloc", <<Op("MUL", length, Const(8))>>)), Move(Mem(ptr), length)>>

arrayInitMoves(length, ptr) == <<Move(ptr, Allocation(length)), Move(Mem(ptr), length)>>

\* The code that makes an array with the dimensions dims, its address in
\* freshTemp(p, 1).
RECURSIVE arrayInitHelp(_, _)
arrayInitHelp(dims, p) ==
  LET ptr     == freshTemp(p, 1)
      size    == freshTemp(p, 2)
      counter == freshTemp(p, 3)
      loop    == freshLabel(p, 1)
      done    == freshLabel(p, 2)
      new     == <<Move(size, dims[1]), Move(ptr, Allocation(size)), Move(Mem(ptr), size),
                   Move(ptr, Op("ADD", ptr, Const(8)))>>
  IN  IF Len(dims) <= 1 THEN Sequence(new)
      ELSE Sequence(new \o
             <<Move(counter, Const(0)), Label(loop), arrayInitHelp(Tail(dims), At(p, 1)),
               Move(Mem(Word(ptr, counter)), freshTemp(At(p, 1), 1)),
               Move(counter, Op("ADD", counter, Const(1))),
               CJump(Op("GEQ", counter, size), done, loop), Label(done)>>)

\* Mutant of NextElement: the counter stays.
NextElementSame(counter, loop) == <<Jump(loop)>>

NextElement(counter, loop) == <<Move(counter, Op("ADD", counter, Const(1))), Jump(loop)>>

\* The concatenation of the arrays left and right.
Concatenation(left, right, p) ==
  LET leftLength  == freshTemp(p, 3)
      rightLength == freshTemp(p, 4)
      newLength   == freshTemp(p, 5)
      ptr         == freshTemp(p, 6)
      counter     == freshTemp(p, 7)
      l(k)        == freshLabel(p, k)
  IN  <<Move(leftLength, LengthOf(left)), Move(rightLength, LengthOf(right)),
        Move(newLength, Op("ADD", leftLength, rightLength))>>
      \o arrayInitMoves(newLength, ptr)
      \o <<Move(ptr, Op("ADD", ptr, Const(8))),
           Move(counter, Const(0)), Label(l(1)),
           CJump(Op("GEQ", counter, newLength), l(3), l(2)), Label(l(2)),
           CJump(Op("GEQ", counter, leftLength), l(5), l(4)), Label(l(4)),
           Move(Mem(Word(ptr, counter)), Mem(Word(left, counter))), Jump(l(6)), Label(l(5)),
           Move(Mem(Word(ptr, counter)), Mem(Word(right, Op("SUB", counter, leftLength)))),
           Label(l(6))>> \o NextElement(counter, l(1)) \o <<Label(l(3))>>

-----------------------------------------------------------------------------
(* Expressions.                                                            *)

\* The statements that evaluate the operand t early, and where its value is:
\* an IRESeq is taken apart, anything else is moved to temp.
raised(t, temp) ==
  IF t[1] = "eseq" THEN [s |-> <<t[2]>>, e |-> t[3]] ELSE [s |-> <<Move(temp, t)>>, e |-> temp]

\* A lazy operator: its value is skip unless both operands are evaluated.
ShortCircuit(left, right, op, p) ==
  LET x    == freshTemp(p, 1)
      next == freshLabel(p, 1)
      last == freshLabel(p, 2)
      out  == freshLabel(p, 3)
      on(g, l) == IF op = "AND" THEN CJump(g, l, out) ELSE CJump(g, out, l)
      skip == IF op = "AND" THEN 0 ELSE 1
  IN  ESeq(Sequence(<<Move(x, Const(skip)), on(left, next), Label(next), on(right, last), Label(last),
                      Move(x, Const(1 - skip)), Label(out)>>), x)

\* The words of a new record: one per field.
recordMoves(fields, ptr) ==
  <<Move(ptr, Call("_eta_alloc", <<Op("MUL", Const(Len(fields)), Const(8))>>))>>
    \o [i \in 1..Len(fields) |-> Move(Mem(Op("ADD", ptr, Const(8 * (i - 1)))), fields[i])]

RECURSIVE translateExpr(_, _)
translateExpr(e, p) ==
  LET sub(i, x)  == translateExpr(x, At(p, i))
      all(xs)    == [i \in 1..Len(xs) |-> sub(i, xs[i])]
      t(k)       == freshTemp(p, k)
      l(k)       == freshLabel(p, k)
  IN
  CASE e[1] = "int"    -> Const(e[2])
    [] e[1] = "bool"   -> Const(IF e[2] THEN 1 ELSE 0)
    [] e[1] = "id"     -> IF e[2] \in Globals THEN Mem(Name(e[2])) ELSE Variable(e[2])
    [] e[1] = "bin"    -> IF e[2] \in {"AND", "OR"}
                          THEN ShortCircuit(sub(1, e[3]), sub(2, e[4]), e[2], p)
                          ELSE Op(e[2], sub(1, e[3]), sub(2, e[4]))
    [] e[1] = "concat" -> LET left  == raised(sub(1, e[2]), t(1))
                              right == raised(sub(2, e[3]), t(2))
                          IN  ESeq(Sequence(left.s \o right.s \o Concatenation(left.e, right.e, p)), t(6))
    [] e[1] = "not"    -> Op("XOR", Const(1), sub(1, e[2]))
    [] e[1] = "neg"    -> Op("SUB", Const(0), sub(1, e[2]))
    [] e[1] = "index"  ->
         ESeq(Sequence(<<Move(t(1), sub(1, e[2])), Move(t(2), sub(2, e[3])),
                         CJump(Op("ULT", t(2), LengthOf(t(1))), l(1), l(2)), Label(l(2)),
                         CallStmt("_eta_out_of_bounds", 0, <<>>), Label(l(1))>>),
              Mem(Word(t(1), t(2))))
    [] e[1] = "field"  -> Mem(Op("ADD", sub(1, e[2]), Const(8 * e[3])))
    [] e[1] = "length" -> ESeq(Sequence(<<Move(t(1), sub(1, e[2])), Move(t(2), LengthOf(t(1)))>>), t(2))
    [] e[1] = "array"  ->
         ESeq(Sequence(arrayInitMoves(Const(Len(e[2])), t(1))
                \o [i \in 1..Len(e[2]) |-> Move(Mem(Op("ADD", t(1), Const(8 * i))), sub(i, e[2][i])) ]),
              Op("ADD", t(1), Const(8)))
    [] e[1] = "record" -> ESeq(Sequence(recordMoves(all(e[2]), t(1))), t(1))
    [] e[1] = "call"   -> Call(e[2], all(e[3]))

\* A condition, as jumps to the labels t and f.
RECURSIVE translateControl(_, _, _, _)
translateControl(e, t, f, p) ==
  LET l == freshLabel(p, 1) IN
  CASE e[1] = "bool" -> IF e[2] THEN Jump(t) ELSE Jump(f)
    [] e[1] = "not"  -> translateControl(e[2], f, t, At(p, 1))
    [] e[1] = "bin" /\ e[2] = "AND" ->
         Sequence(<<translateControl(e[3], l, f, At(p, 1)), Label(l), translateControl(e[4], t, f, At(p, 2))>>)
    [] e[1] = "bin" /\ e[2] = "OR" ->
         Sequence(<<translateControl(e[3], t, l, At(p, 1)), Label(l), translateControl(e[4], t, f, At(p, 2))>>)
    [] OTHER -> CJump(translateExpr(e, p), t, f)

-----------------------------------------------------------------------------
(* Statements: <<"block", ss>>, <<"if", guard, then, else>>,               *)
(* <<"while", guard, body>>, <<"break">>, <<"assign", targets, values>>,   *)
(* <<"proc", f, args>>, <<"return", es>>, <<"initarr", name, dims>> and    *)
(* <<"decl", names>>.  A target is a source expression or <<"_">>.         *)

translateAssignTarget(n, p) ==
  CASE n[1] = "id" -> Variable(n[2])
    [] n[1] = "_"  -> freshTemp(p, 1)
    [] n[1] \in {"index", "field"} -> translateExpr(n, p)

multiAssignMove(target, source, n) ==
  IF n[1] = "id" /\ n[2] \in Globals THEN Move(Mem(Name(n[2])), source) ELSE Move(target, source)

translateTargets(ns, p) == [i \in 1..Len(ns) |-> translateAssignTarget(ns[i], At(p, i))]

\* What is evaluated of the targets before the values.
targetStatements(targets) ==
  LET hoisted == SelectSeq(targets, LAMBDA t : t[1] = "eseq")
  IN  [i \in 1..Len(hoisted) |-> hoisted[i][2]]

translateAssign(ns, vals, p) ==
  LET targets == translateTargets(ns, At(p, 1))
      places  == [i \in 1..Len(ns) |-> IF targets[i][1] = "eseq" THEN targets[i][3] ELSE targets[i]]
      values  == [i \in 1..Len(vals) |-> translateExpr(vals[i], At(p, i + 1))]
      moves(source(_)) == [i \in 1..Len(ns) |-> multiAssignMove(places[i], source(i), ns[i])]
      temp(i) == freshTemp(p, i)
      compute ==
        CASE vals[1][1] = "record" /\ Len(vals) = 1 -> values[1][2][2] \o moves(LAMBDA i : values[1][3])
          [] vals[1][1] = "call" /\ Len(vals) = 1   ->
               <<CallStmt(values[1][2], Len(ns), values[1][3])>> \o moves(Result)
          [] OTHER -> [i \in 1..Len(vals) |-> Move(temp(i), values[i])] \o moves(temp)
  IN  Sequence(targetStatements(targets) \o compute)

\* The dimensions of a new array: the statements of each, from left to right,
\* come before the array is made; the value of an IRESeq is read where it is used.
translateInitArr(id, dims, p) ==
  LET early == [i \in 1..Len(dims) |-> raised(translateExpr(dims[i], At(p, i)), freshTemp(p, i))]
      here  == At(p, 0)
  IN  Sequence(FlattenSeq([i \in 1..Len(dims) |-> early[i].s])
        \o <<arrayInitHelp([i \in 1..Len(dims) |-> early[i].e], here),
             Move(Variable(id), freshTemp(here, 1))>>)

\* enclosing is enclosingWhileLabel.
RECURSIVE translateStatement(_, _, _)
translateStatement(s, p, enclosing) ==
  LET t  == freshLabel(p, 1)
      f  == freshLabel(p, 2)
      to == freshLabel(p, 3)
  IN
  CASE s[1] = "block" ->
         Sequence([i \in 1..Len(s[2]) |-> translateStatement(s[2][i], At(p, i), enclosing)])
    [] s[1] = "if" ->
         Sequence(<<translateControl(s[2], t, f, At(p, 1)), Label(t),
                    translateStatement(s[3], At(p, 2), enclosing), Jump(to), Label(f),
                    translateStatement(s[4], At(p, 3), enclosing), Label(to)>>)
    [] s[1] = "while" ->
         Sequence(<<Label(to), translateControl(s[2], t, f, At(p, 1)), Label(t),
                    translateStatement(s[3], At(p, 2), f), Jump(to), Label(f)>>)
    [] s[1] = "break"   -> Jump(enclosing)
    [] s[1] = "assign"  -> translateAssign(s[2], s[3], p)
    [] s[1] = "proc"    -> CallStmt(s[2], 0, [i \in 1..Len(s[3]) |-> translateExpr(s[3][i], At(p, i))])
    [] s[1] = "return"  -> Return([i \in 1..Len(s[2]) |-> translateExpr(s[2][i], At(p, i))])
    [] s[1] = "initarr" -> translateInitArr(s[2], s[3], p)
    [] s[1] = "decl"    -> Sequence([i \in 1..Len(s[2]) |-> Move(Variable(s[2][i]), Const(0))])

\* Mutant of finalReturn: a procedure runs on past its end.
finalReturnNone(func) == <<>>

\* A procedure returns at its end.
finalReturn(func) == IF func.returns = 0 THEN <<Return(<<>>)>> ELSE <<>>

translateFuncDecl(func) ==
  Sequence([i \in 1..Len(func.args) |-> Move(Variable(func.args[i]), Argument(i))]
    \o <<translateStatement(func.body, <<>>, <<>>)>> \o finalReturn(func))
=============================================================================
