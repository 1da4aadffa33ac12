--------------------------- MODULE SpillRewriting ---------------------------
(***************************************************************************)
(* The two rewritings of a body in ChaitinRegisterAllocator.kt:            *)
(* allocateFunction, which saves and restores registers around the body    *)
(* and its calls, and rewriteSpills, which gives every spilled register a  *)
(* frame slot.                                                             *)
(***************************************************************************)
EXTENDS AssemblyCFG, SequencesExt

hackyCallerSavedRegs == CallerSaved \ {RAX, RDX}

\* Ordinals in the order of enum x86Name.
Ascending(S) == FlattenSeq([k \in 1 .. K |-> IF k-1 \in S THEN <<k-1>> ELSE <<>>])

saveCallers ==
  LET regs == Ascending(hackyCallerSavedRegs) IN
  <<PAD>> \o [k \in DOMAIN regs |-> PUSH(x86(regs[k]))]

popCallers ==
  LET regs == Reverse(Ascending(hackyCallerSavedRegs)) IN
  [k \in DOMAIN regs |-> POP(x86(regs[k]))] \o <<Arith(x86(RSP), x86(RSP))>>

\* The temporary that holds callee-saved register i from entry to LEAVE.
calleeTemp(i) == Abstract(<<"CE", i>>)

saveCallees ==
  LET regs == Ascending(CalleeSaved) IN
  [k \in DOMAIN regs |-> MOV(calleeTemp(regs[k]), x86(regs[k]))]

restoreCallees ==
  LET regs == Reverse(Ascending(CalleeSaved)) IN
  [k \in DOMAIN regs |-> MOV(x86(regs[k]), calleeTemp(regs[k]))]

\* Argument k of the function arrives in the register args[k]; as many more as
\* onStack says arrive on the stack, above the saved RBP.
populateArguments(args, onStack) ==
  [k \in 1 .. Len(args) + onStack |->
     IF k <= Len(args) THEN MOV(Abstract(<<"ARG", k>>), x86(args[k]))
                       ELSE MOVAbove(Abstract(<<"ARG", k>>))]

ExpandInsn(insn) ==
  CASE insn.op = "leave"          -> restoreCallees \o <<insn>>
    [] insn.op = "callersavepush" -> saveCallers
    [] insn.op = "callersavepop"  -> popCallers
    [] OTHER                      -> <<insn>>

\* The body allocateFunction hands to chitLoop.
withCalleeSaved(f) ==
  saveCallees \o populateArguments(f.args, f.onStack)
    \o FlattenSeq([i \in DOMAIN f.body |-> ExpandInsn(f.body[i])])

-----------------------------------------------------------------------------
(* rewriteSpills *)

\* Mutant of AddSlots: every round numbers its slots from 1.
AddSlotsFromOne(offsetMap, spilled) ==
  LET index(n) == CHOOSE k \in DOMAIN spilled : spilled[k].name = n
      names    == {spilled[k].name : k \in DOMAIN spilled}
  IN  [n \in DOMAIN offsetMap \cup names |-> IF n \in names THEN index(n) ELSE offsetMap[n]]

\* offsetMap[temp.name] = offsetMap.keys.size + 1, for the spilled nodes in
\* turn; of two nodes with the same name the last one counts.
AddSlots(offsetMap, spilled) ==
  LET Keys(k) == DOMAIN offsetMap \cup {spilled[j].name : j \in 1 .. k}
      At(n)   == {k \in DOMAIN spilled : spilled[k].name = n}
      last(n) == CHOOSE k \in At(n) : \A j \in At(n) : j <= k
  IN  [n \in Keys(Len(spilled)) |->
         IF At(n) = {} THEN offsetMap[n] ELSE Cardinality(Keys(last(n) - 1)) + 1]

\* Mutant of SpilledIn: a register that is only written is forgotten.
SpilledInUses(insn, spilled) == SetToSeq(insn.use \cap Range(spilled))

\* insn.involved intersect spilledNodes, in some order.
SpilledIn(insn, spilled) == SetToSeq(InvolvedIn(insn) \cap Range(spilled))

\* renameRegister: found by name, the size kept.
Rename(r, regs, fresh) ==
  IF \E k \in DOMAIN regs : Same(regs[k], r)
  THEN [r EXCEPT !.name = <<"S", fresh + CHOOSE k \in DOMAIN regs : Same(regs[k], r)>>]
  ELSE r

\* One instruction: the k-th of its spilled registers becomes $S(fresh + k),
\* loaded before the instruction if used, stored after it if defined.
RewriteInsn(insn, spilled, offsetMap, fresh) ==
  LET regs     == SpilledIn(insn, spilled)
      temp(k)  == Abstract(<<"S", fresh + k>>)
      slot(k)  == offsetMap[regs[k].name]
      useInsns == [k \in DOMAIN regs |->
                     IF regs[k] \in insn.use THEN <<LoadSlot(temp(k), slot(k))>> ELSE <<>>]
      defInsns == [k \in DOMAIN regs |->
                     IF regs[k] \in insn.def THEN <<StoreSlot(temp(k), slot(k))>> ELSE <<>>]
      renamed  == [insn EXCEPT !.def = {Rename(r, regs, fresh) : r \in @},
                               !.use = {Rename(r, regs, fresh) : r \in @}]
  IN  FlattenSeq(useInsns) \o <<renamed>> \o FlattenSeq(defInsns)

\* The temporaries spill() has handed out before instruction i is rewritten.
SpillTempsBefore(body, spilled, i) ==
  Cardinality({p \in (1 .. i-1) \X Range(spilled) : p[2] \in InvolvedIn(body[p[1]])})

rewriteSpills(body, spilled, offsetMap, freshSpillTempCount) ==
  FlattenSeq([i \in DOMAIN body |->
    RewriteInsn(body[i], spilled, offsetMap,
                freshSpillTempCount + SpillTempsBefore(body, spilled, i))])
=============================================================================
