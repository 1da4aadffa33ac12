----------------------------- MODULE Translation -----------------------------
(***************************************************************************)
(* IRTranslator, IRLowerer and ConstantFolder together: a function is      *)
(* translated, lowered, folded if the setting asks for it, and executed    *)
(* statement by statement, on temporaries and a memory in which every      *)
(* allocated block is followed by a word that belongs to no block.  What   *)
(* it does is compared with the source (EtaSemantics).                     *)
(***************************************************************************)
EXTENDS ConstantFolder, EtaSemantics

CONSTANTS
  Functions,   \* the functions translated: args, returns (how many values), body
  Inputs       \* the arguments they are called with, sequences of integers

VARIABLES
  func, input,
  cf,          \* whether constants are folded
  lir,         \* the lowered function
  expected,    \* what the source does
  pc,          \* the statement to execute
  temps,       \* temporary |-> value
  mem,         \* address |-> word
  next,        \* where _eta_alloc finds its next block
  trace,       \* the calls made
  outcome      \* "running", or how the function ended, and its results

vars == <<pc, outcome, trace, next, func, input, cf, temps, mem, lir, expected>>

program == <<func, input, cf, lir, expected>>

AddressOf(l) == IF l = "g" THEN 8 ELSE 16

\* The global ga points to the block at 32: its length, then its elements.
InitialMemory == (8 :> 1) @@ (16 :> 40) @@ (32 :> 2) @@ (40 :> 1) @@ (48 :> 2)

Init ==
  /\ func \in Functions
  /\ input \in {i \in Inputs : Len(i) = Len(func.args)}
  /\ cf \in BOOLEAN
  /\ \E lowered \in {lowerStatement(translateFuncDecl(func), <<>>)} :
       lir = IF cf THEN ApplyFolder(lowered) ELSE lowered
  /\ expected = RunFunction(func, input)
  /\ pc = 1
  /\ temps = [t \in {Argument(i)[2] : i \in DOMAIN input} |-> input[t[3]]]
  /\ mem = InitialMemory
  /\ next = 64
  /\ trace = <<>>
  /\ outcome = <<"running">>

-----------------------------------------------------------------------------
(* Execution.                                                              *)

At0(f, x) == IF x \in DOMAIN f THEN f[x] ELSE 0

RECURSIVE Value(_), Addresses(_)
Value(e) ==
  CASE e[1] = "const" -> e[2]
    [] e[1] = "temp"  -> At0(temps, e[2])
    [] e[1] = "name"  -> AddressOf(e[2])
    [] e[1] = "mem"   -> At0(mem, Value(e[2]))
    [] e[1] = "op"    -> Apply(e[2], Value(e[3]), Value(e[4]))

\* The words an expression reads.
Addresses(e) ==
  CASE e[1] \in {"const", "temp", "name"} -> {}
    [] e[1] = "mem" -> Addresses(e[2]) \cup {Value(e[2])}
    [] e[1] = "op"  -> Addresses(e[3]) \cup Addresses(e[4])

Running == outcome = <<"running">>
Stmt == lir[pc]
Values(es) == [i \in DOMAIN es |-> Value(es[i])]
Position(l) == CHOOSE i \in DOMAIN lir : lir[i] = Label(l)
Calls(f) == Running /\ Stmt[1] = "callstmt" /\ Stmt[2] = f

Runtime == {"_eta_alloc", "_eta_out_of_bounds"}

\* LIRMove to a temporary.
MoveToTemp ==
  /\ Running /\ Stmt[1] = "move" /\ Stmt[2][1] = "temp"
  /\ temps' = (Stmt[2][2] :> Value(Stmt[3])) @@ temps
  /\ pc' = pc + 1
  /\ UNCHANGED <<mem, next, trace, outcome>>

\* LIRMove to memory.
MoveToMem ==
  /\ Running /\ Stmt[1] = "move" /\ Stmt[2][1] = "mem"
  /\ mem' = (Value(Stmt[2][2]) :> Value(Stmt[3])) @@ mem
  /\ pc' = pc + 1
  /\ UNCHANGED <<temps, next, trace, outcome>>

\* LIRJump, LIRCJump and LIRLabel.
Branch ==
  /\ Running /\ Stmt[1] \in {"jump", "cjump", "label"}
  /\ pc' = CASE Stmt[1] = "label" -> pc + 1
             [] Stmt[1] = "jump"  -> Position(Stmt[2])
             [] Stmt[1] = "cjump" -> Position(IF Value(Stmt[2]) # 0 THEN Stmt[3] ELSE Stmt[4])
  /\ UNCHANGED <<temps, mem, next, trace, outcome>>

\* LIRCallStmt of a function of the program.
CallFunction ==
  /\ Running /\ Stmt[1] = "callstmt" /\ Stmt[2] \notin Runtime
  /\ LET args == Values(Stmt[4])
         n    == mem[AddressOf("g")]
         cell == mem[AddressOf("ga")]
     IN  /\ trace' = Append(trace, <<Stmt[2], args, n>>)
         /\ temps' = [t \in {Result(i)[2] : i \in 1..Stmt[3]} |-> ResultOf(args, n, t[3])] @@ temps
         /\ mem' = [mem EXCEPT ![AddressOf("g")] = n + 1, ![cell] = @ + 1]
  /\ pc' = pc + 1
  /\ UNCHANGED <<next, outcome>>

\* _eta_alloc: a block of as many bytes as it is asked for.
Alloc ==
  /\ Calls("_eta_alloc")
  /\ LET bytes == Value(Stmt[4][1])
         block == {next + 8 * k : k \in 0..((bytes \div 8) - 1)}
     IN  /\ mem' = [w \in block |-> 0] @@ mem
         /\ next' = next + bytes + 8
  /\ temps' = (Result(1)[2] :> next) @@ temps
  /\ pc' = pc + 1
  /\ UNCHANGED <<trace, outcome>>

\* _eta_out_of_bounds ends the program.
OutOfBounds ==
  /\ Calls("_eta_out_of_bounds")
  /\ outcome' = <<"out_of_bounds", <<>>>>
  /\ UNCHANGED <<pc, temps, mem, next, trace>>

\* LIRReturn.
ReturnFrom ==
  /\ Running /\ Stmt[1] = "return"
  /\ outcome' = <<"return", Values(Stmt[2])>>
  /\ UNCHANGED <<pc, temps, mem, next, trace>>

Next ==
  /\ MoveToTemp \/ MoveToMem \/ Branch \/ CallFunction \/ Alloc \/ OutOfBounds \/ ReturnFrom
  /\ UNCHANGED program

Spec == Init /\ [][Next]_vars /\ WF_vars(Next)

-----------------------------------------------------------------------------
(* Properties.                                                             *)

\* Execution stays inside the list of statements (a function that returns
\* nothing must be given a return), with words at multiples of eight.
TypeOK ==
  /\ pc \in DOMAIN lir
  /\ \A w \in DOMAIN mem : w % 8 = 0 /\ mem[w] \in Int
  /\ next \in Nat
  /\ outcome[1] \in {"running", "return", "out_of_bounds"}

\* However operands, arguments, targets and conditions are moved out of
\* expressions (commutes, lowerExpr, MultiAssign), the calls made so far are
\* those of the source in the order of the source, with the same arguments.
CallsInOrder == IsPrefix(trace, expected.trace)

\* When the lowered function ends, it has made the calls of the source, ends as
\* the source does, returns its values and leaves its globals: an operand left in
\* place by commutes still has the value it had when the source evaluated it, and
\* break leaves the innermost loop.
SameOutcome ==
  ~Running =>
    /\ trace = expected.trace
    /\ outcome = (IF expected.sig = "out_of_bounds" THEN <<"out_of_bounds", <<>>>>
                  ELSE <<"return", expected.result>>)
    /\ mem[AddressOf("g")] = expected.env["g"]
    /\ mem[mem[AddressOf("ga")]] = expected.heap[expected.env["ga"]][1]

\* Every word read or written lies in a global or in a block that was allocated:
\* the bounds check comes before the access, and arrays, records, concatenations
\* and nested arrays are given the room that they are filled with.
StaysInBlocks ==
  Running =>
    CASE Stmt[1] = "move"   -> Addresses(Stmt[3]) \cup Addresses(Stmt[2]) \subseteq DOMAIN mem
      [] Stmt[1] = "cjump"  -> Addresses(Stmt[2]) \subseteq DOMAIN mem
      [] Stmt[1] = "return" -> \A i \in DOMAIN Stmt[2] : Addresses(Stmt[2][i]) \subseteq DOMAIN mem
      [] OTHER -> TRUE

\* A function whose source ends does end: its loops, the loops of array
\* initialisation and concatenation and its breaks find their way out.
Terminates == <>(outcome # <<"running">>)
=============================================================================
