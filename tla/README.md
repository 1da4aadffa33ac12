# A TLA+ verification project for the jaek compiler

jaek compiles Eta and Rho programs to x86-64 assembly. Its own code is the
Kotlin under `src/src/main/kotlin` (about 9300 lines). This directory holds TLA+
modules that model parts of it, TLC configurations that check them on small
instances, and TLAPS proofs of the most important results for every instance.
Paths below are relative to `src/src/main/kotlin`.

## 1. The system

The compiler is one thread that takes a program through a pipeline of stages
(`Main.kt`, `Etac.run`). Nothing is persisted and nothing is sent; what makes the
code hard is the sequence of states inside each stage, the nondeterminism of the
ones that choose at random or race a clock, and the invariants stages rely on
without stating them.

| Component | State it keeps | Operations | Correct when |
|---|---|---|---|
| Interface loading (`Kompiler.kt`) | visited `use` declarations, collected errors, the top-level context | load an interface, merge a signature | every reachable interface is read once, conflicts are reported |
| Type checker (`typechecker/`) | stack of scopes, current return type | bind, look up, enter and leave a scope, check a node | a name means its innermost binding; scopes balance |
| IR translation (`ir/IRTranslator.kt`) | fresh label and temp counters, globals touched per function | translate a node, close the call relation | each function's globals include those of its callees |
| IR lowering (`ir/IRLowerer.kt`) | fresh temps | hoist side effects, `commutes` | operands are evaluated in source order as far as a program can tell |
| Block reordering (`ir/lowered/LIRSeq.kt`) | marked blocks, the trace under construction | pick a trace, fix jumps | control flow unchanged |
| Optimiser graph (`optimize/cfg/`) | two edge tables, predecessor and successor | `connect`, `translate`, `removeNode`, `removeAndLink`, `ensureIfsAreOk`; build from and destroy to a statement list | the tables mirror one another, one fall-through into a node, program flow unchanged |
| Dataflow optimisations (`optimize/dataflow/`) | per-edge facts, a worklist | meet, transfer, rewrite | facts hold on every execution |
| Optimiser driver (`optimize/IROptimizer.kt`) | rounds, time left | run the passes | ends; every prefix of the passes is sound |
| Constant folding (`ir/optimize/ConstantFolder.kt`) | none | fold an expression | the folded value is the machine's |
| Calling convention and tiling (`assembly/`, `ir/lowered/`) | none at compile time; the stack and registers of the emitted code | put and get arguments and results, pad, save | caller and callee agree on every place, the stack is balanced and aligned |
| Liveness analysis (`assembly/LVA/`) | `inVals`, `outVals`, `worklist`, the flow graph | visit a random node of the worklist | least solution of the dataflow equations, over the machine's real control flow |
| Chaitin allocator (`assembly/ralloc/ChaitinRegisterAllocator.kt`, `Worklist.kt`, `InterferenceGraph.kt`) | interference graph, degrees, three worklists, select stack, colours, spill slots, the start time | build, simplify, freeze, colour, spill, rewrite, replace; fail when time is up | registers live at once get different machine registers; spills use private slots; the allocation ends |
| Trivial allocator (`assembly/ralloc/TrivialRegisterAllocator.kt`) | name to slot map | load, execute, store for each instruction | each instruction computes what it did |
| Assembly generation (`assembly/AssemblyGenerator.kt`) | none | Chaitin, or the trivial allocator when it throws `ChaitinError` | the output is one allocator's, complete |

The back end interacts as follows: tiling produces a list of abstract
instructions per function; the allocator adds register saves, asks the liveness
analysis for `liveOut` once per round, and the analysis builds its flow graph with
`CFGBuilder`. The allocator either returns machine code or throws `ChaitinError`,
and then `AssemblyGenerator` allocates the same unit again with the trivial
allocator. The front part of the pipeline is the same for every function: the typed tree is
translated to an intermediate tree, lowered to a list of statements without side effects inside
expressions, folded, laid out in blocks, optimised for some rounds on a flow graph, and tiled.

## 2. Plan

The register allocator decides whether the emitted code computes what the
program says, no unit test exercises its intermediate states, and it depends on
a random choice and on the clock. So it comes first.

1. *Done:* abstract assembly, liveness analysis, Chaitin allocator, with proofs.
2. *Done:* block reordering and the optimiser's flow graph (`BlockReordering`,
   `MatchMaker`, `Optimiser`): the two edge tables under every sequence of edits,
   with what `repOk` (disabled in the code) asks of them split in `TablesAgree`, which is proved,
   and `BranchesWhole`.
3. *Done:* trivial allocator, fall back and calling convention (`Tiling`, `TrivialAllocator`,
   `CallingConvention`), with the abstract calls `ProcedureCalls` they implement.
4. *Done:* the facts of the dataflow analyses and what the passes do with them (`Dataflow`).
5. *Done:* from the source to lowered statements (`IRTranslator`, `IRLowerer`,
   `ConstantFolder`), composed and compared with the source in `Translation`.
6. *Open:* the remaining tiles (arithmetic, comparisons, addressing modes).

The theorems planned about slots and spilled names, the edge tables over whole behaviours,
`UnitComplete`, and the stack of the emitted code for every number of arguments and results are
proved (section 5). `Requires` of the optimiser was planned and is false for some functions: see
the observations in section 7. Open: that `CallingConvention` implements
`ProcedureCalls` for every program, which the points of `StackTyping` do not say, since they follow
the values a function has to give back and not the ones it computes with.

## 3. Modules

### X86
Registers and instructions (`assembly/x86`). A register is a record of its name and
its size, because the code distinguishes two registers of one name in some places
and not in others: `Register.equals` compares names only, the generated `hashCode`
includes the size. Hash sets and maps therefore use plain equality in the model;
`==` and one-element sets use `Same`. An instruction is its opcode, its `def` and
`use` sets, a label, and a frame slot for spill loads and stores. Opcodes with the
same operand roles share a constructor (`Arith` for ADD, SUB, AND, ...).

The constants are the number of machine registers `K` (16 in the code), the
ordinals of the four registers the code names, and the saved and argument
registers; `X86Assumption` states what `Register.kt` and `Instruction.kt` make true
of them.

### AssemblyCFG
`CFGBuilder` of `assembly/LVA`: nodes, the labels `$X1, $X2, ...` the builder makes for
itself, the label-to-node map in which the first node wins, and the edges. `LiveIn`
and `LiveOut` are the least solution of the liveness equations over that graph, and
`Goes` the reference: where the processor really goes next. A body that ends in a label makes the
builder throw (`instructions.first()`, `CFGBuilder.kt` 25), so `FunctionsAssumption` asks for
bodies that do not (`EndsInNode`); tiled functions end in a jump or RET.

### LiveVariableAnalysis
The worklist loop of `LiveVariableAnalysis.kt`, one action `Visit(i)` per
iteration for a node chosen arbitrarily from the worklist (`worklist.random()`).
Variables are the code's (`inVals`, `outVals`, `worklist`) and the graph.

### SpillRewriting
Two pure rewritings in `ChaitinRegisterAllocator.kt`: `allocateFunction` (callee
and caller saves, arguments in registers and on the stack) and `rewriteSpills` with its renaming.

### ChaitinAllocator
Allocation of one function, `chitLoop` and the methods it calls. `pc` is the place in
a round; `late` says that the ten seconds have passed, and each action that reads the
clock has a counterpart that throws `ChaitinError`. One action per iteration of each
loop: `Analyse`, `Build`, `Simplify`, `Freeze`, `StartColoring`, `Color`, `Spill`,
`Respill`, `Finish`, and the timeouts. `late` may be true from the start, since the time
counts from the construction of the allocator and earlier functions may have used it up.

Worklists are sets of which the code takes the first element in insertion order;
`elementAt0` gives the candidates (two when one instruction mentions both first).
Coalescing is commented out in `chitLoop`, so the sets it would fill are left out.
`selectSpill` has no action because `spillWorkList` is always empty, which is
proved (`SpillListUnusedCorrect`), not assumed.

### LIR
Lowered statements as far as control flow goes: a move, and a call with the moves of its
results, is a statement known by a number; a guard is a number and whether it is negated.
`Behaviour` is the reference for everything the optimiser does: the steps a program can
tell between statements, returns and undecided guards, of a list of statements
(`ListFlow`) or of the graph (`GraphFlow` in `Optimiser`).

### BlockReordering
`LIRSeq.blockReordering`: basic blocks, one action per block laid out (`NewTrace`,
`ExtendTrace`, because `head` and the next block are random), then `fixJumps`,
`removeUselessJumps` and `toSequence`. `FunctionsAssumption` says what lowering hands over: each
label is lowering's own (`"L"`, not one that `fixJumps` or `CFGDestroyer` makes), and each move,
return, guard and label stands at one place (`OccursOnce`). It also says that the bound on the
rounds is a number.

### MatchMaker
The two edge tables of `optimize/cfg/MatchMaker.kt` and the operations on them, as
operators on a graph. A Kotlin `mutableSetOf` is iterated in the order of insertion, and
`removeAndLink` depends on it, so `age` keeps the edges in that order (`Kept` takes the removed ones
out; it is a recursive function, since one can reason about it and not about `SelectSeq`). `thrown` records a
failed `require` or an exception.

### Optimiser
One function through `IROptimizer`. `pc` is the pass; `block` is the list of statements,
`mm` the graph. `Reorder`, `EndReorder` and `Build` lay the blocks out and build the graph;
`removeUnreachables` and `ensureIfsAreOk` are the edits of conditional constant
propagation, `deleteDeadAssigns` those of dead code removal; `LinkPredecessor` is one
iteration of `removeAndLink`; `CopyProp` makes further moves dead; `Destroy` goes back to
statements for the next round and `FinalDestroy` to the result. Which guards are constant
(`known`), which moves are dead, which become dead by copy propagation, and for how many
`rounds` it is optimised belong to the function: `Dataflow` has the analyses that find them.
Which unreachable edge, useless If or dead move is removed next is left open (the code takes the
first of a map), and the traces of `Destroyed` are put together in one fixed order where the code
has the order of insertion. Each trace ends in a return or a jump, so their order changes no
behaviour, and the next round lays the blocks out at random anyway.

### CFGExpr, Dataflow
`CFGExpr` has the expressions of flow graph nodes and the ways passes rewrite them.
`Dataflow` is one round of the three passes over a graph with expressions: `Visit(n)` is one
iteration of `CFGFlow.runWithWorklist`, and the actions named after the code
(`removeUnreachables`, `constantPropogate`, `deleteDeadAssigns`, `propagateEqualVars`) are what
`postprocess` does between two runs, with the facts kept as the code keeps them. The set a
forward analysis takes its first element from is a sequence; a backward analysis takes a random
node, so any. Edges without a value have `top`, as each run gives it to them. The facts of constant
propagation are maps with the keys the code gives them: a missing key counts as `Top`, and two
facts are the same if the maps are. `CFGFlow` stops at 10000 visits (`THRESHOLD`), which the model
leaves out: in the run `dataflow` the analyses end by themselves after fewer than a hundred visits,
and `FactsSettle` is about those that would reach it. `Execution` is the
reference: what the function does on a given memory, with arguments and the results of calls.

### Tiling, TrivialAllocator
`Tiling` has `ConventionalCaller` and the tiles of calls, returns, moves, temporaries and
constants, with operands, so that the code can be executed. `TrivialAllocator` is
`allocateRegisters`: frame, saved registers, parameters, and each instruction between loads and
stores of the slots it mentions. An instruction has at most one register in an operand, so it
involves at most two.

### GeneratedCode
The functions `main`, `f` and `g` of a program (`Programs`): their bodies, lowered and tiled, and the
code each of the two allocators makes of them, prologue included (`Code`). `ProgramsAssumption`
says that a call has as many arguments as the callee has parameters and a function returns as many
values as it declares, which the type checker sees to, that `main` returns none, and that functions of
the C runtime take at most six arguments and return at most two results. `Spilled` is how many
registers Chaitin's allocator spills in each function, which decides the size of its frame.

### ProcedureCalls, CallingConvention
`ProcedureCalls` is the abstract specification: a call hands values to parameters and a return
hands values back. `CallingConvention` generates code for three functions in two units
(`AllocateFunction`, `Fallback`, `EmitUnit` are the loop and the `catch` of
`AssemblyGenerator`) and then runs it, one instruction per step: registers, the words of the
stack from RSP upwards, one record per activation. A word of the stack is a number, a return
address too (`Address`, `PlaceOf`). It implements `ProcedureCalls`
(`CallsImplemented`): parameters are observed when a body starts, results when the instructions
of a call have ended. Code from the Chaitin allocator is run with the abstract registers it still
has before colouring, private to the activation; that colouring keeps their values apart is
`NoClobber` of `ChaitinAllocator`. `AssemblyGenerator` hands the same instruction objects to the second
allocator. Their fields never change (`def`, `use` and `involved` are `val`s, nothing assigns to the
`var`s of `Logic`, and renaming makes new objects), so `Code` is a function of the program. Words below RSP are forgotten, since anything may overwrite them.
The stack starts at `StackTop`, a multiple of 16; nothing bounds it below.

### IRTranslator, IRLowerer, ConstantFolder, Words
Operators from source trees to intermediate trees, from those to statement lists, and on these.
Each has one operator per function of the code. The counters behind fresh names are replaced by
the place in the program a name is made for, which is as unique. `enclosingWhileLabel` is an
argument of `translateStatement`. `Words` is the arithmetic of the machine on `Width` bits.

### EtaSemantics, Translation
`EtaSemantics` is the reference: what the source function does, evaluated directly, left to
right, with the calls it makes. `Translation` takes a function through the three stages and runs
the statements: `MoveToTemp`, `MoveToMem`, `Branch`, `CallFunction`, `Alloc`, `OutOfBounds`,
`ReturnFrom`. A called function changes the globals and returns values that depend on its
arguments and on the globals, so that any change of order shows. Each allocated block is followed
by a word that is in no block.

### MCLiveVariableAnalysis, MCChaitinAllocator, MCOptimiser, MCCallingConvention, MCDataflow, MCTranslation
The instances: function bodies, register names, programs. `MCOptimiser` builds its bodies with `If` and
`While` in the shape `IRTranslator` gives these statements (`ir/IRTranslator.kt` 225-241,
382-401).

### The proof modules
* `RecursionLemmas`: recursive functions over numbers and finite sets, `FlattenSeq`, `SubSeq`,
  folds, and sequences whose elements have no key in common (`Apart`). It is about no component;
  the other seven use it or each other.
* `LiveVariableAnalysisProofs`: the worklist loop, the least solution, and both against the flow
  graph and the machine's flow.
* `ChaitinAllocatorProofs`: one round of the allocator, up to the colouring.
* `SpillProofs`: the code and the frame from round to round.
* `BlockReorderingProofs`: what cutting, laying out and putting together does to statements.
* `OptimiserProofs`: each operation on the edge tables, then the graph and the lists over whole
  behaviours of the optimiser.
* `StackTyping`: what is known of stack and registers at every instruction of the generated code. It
  is about code only and has the calculus of points as well as its theorem `CodeTyped`.
* `CallingConventionProofs`: which functions a unit is emitted with, and the machine that runs them.

## 4. Runs

| Run | Shows |
|---|---|
| `lva` | For 322 bodies in six control-flow shapes and every order of visits, the loop stops and its result is the least solution, equal to what executions read; the graph is the machine's flow; no visit removes a register. For the result of a comparison, which is not reported live between its XOR and its SETcc, nothing else is defined in between (`MissedUnharmed`). |
| `chaitin` | For 125 functions in five shapes, one with an argument on the stack, through spilling and with the clock running out anywhere: each register is in one place, neighbours have different colours, the final code overwrites nothing that is live, slots are private and inside the frame, spilled names are gone. Allocation ends, coloured or with `ChaitinError`. |
| `optimiser` | Branches that join, branches that return, loops, a loop behind a returning branch and a branch in a loop, in all layouts of their blocks, under three choices of passes; guards constant or not; moves dead at once or after copy propagation: every list handed to `CFGBuilder` says nothing twice (`EachOnce`), the edge tables agree after every edit (`TablesAgree`), a guard has both its ways out (`BranchesWhole`), no `require` fails, and every list and graph handed on has the behaviour of the lowered function; the removal loops of the passes end, so the optimiser does. |
| `calls` | Three functions with parameter and result counts on both sides of six and two, under either allocator and with the fall back at any function: each unit is emitted once by one allocator; the code implements `ProcedureCalls`, is aligned at every call, changes no word of its callers but the room for its results, and returns with the callee-saved registers it found. |
| `dataflow` | Five functions under three choices of passes, every order of the backward analysis: the facts each pass uses are true of every execution, each edit keeps stores, calls and results, and the round ends. |
| `translation` | 934 functions, folded or not, on three inputs: same calls in the same order, same outcome, results and globals as the source, every access inside a global or a block, and the function ends. |

The remaining runs show disagreements between the code and its comments; each one
is expected to be violated and is described in section 7.

### Bounds
* `lva`: bodies of at most 9 instructions and two temporaries, three with the comparison. Every
  choice of three instructions out of four kinds is made in each shape but the comparison's, with a loop, a nested loop
  without exit, a join and adjacent labels. Liveness treats registers
  independently, so two are enough to have one kill while the other survives; the
  proofs remove the bound.
* `chaitin`: a machine of six registers (four to give out, RSP, RBP) instead of
  sixteen, so that three temporaries, an argument and a saved register are enough
  pressure to spill, spill again, and run out. `MaxRounds = 4` bounds the
  rounds: some functions spill forever, and the bound is where only the clock
  can move on. Every function with a first colouring within four rounds reaches it.
* `optimiser`: one or two rounds (`rounds` of the function) instead of 20. A second round is what it takes to see the
  output of `CFGDestroyer` as input, a move that copy propagation made dead, and a guard
  inverted twice. The larger functions with loops have one round because eleven blocks have many
  layouts. The branch of `connect` that makes a NOOP for a second fall-through is not
  reached from these functions; the proof covers it.
* `calls`: `f` and `g` have 0, 1, 5, 6, 7 or 8 parameters and 0 to 5 results, so arguments and
  results are in registers only, on the stack only by one, or several, with and without padding on
  each level. `StackTop = 1600` bytes are more than the deepest of these programs needs. Chaitin's
  allocator spills one, two or three registers (`Spilled`), so frames have both parities.
* `dataflow`: graphs of at most nine nodes and four variables, with a join, a loop, copies that
  are killed at either end, a guard that is constant, a guard that becomes constant, and dead moves
  that make others dead; `Inputs` gives each memory word each of three values; `Fuel = 24` steps are
  longer than any execution (the loops run at most twice).
* `translation`: `Width = 16` instead of 64, since the values are small and the word arithmetic is
  the same with halves of 8 bits; `ConstantFunctions` takes eight operators over nine numbers at
  the ends of words and halves. Expressions nest two or three deep over operands that read a
  global, an element, a variable, or call.
* Frame slots, spill temporaries and the stack are unbounded in the model; they are
  bounded by the rounds.

### Fairness
The compiler has one thread, which nothing blocks. So a step of the liveness loop
that can be taken is taken (`WF_vars(Next)`) and likewise for the allocator
(`WF_vars(Step)`), the optimiser, the dataflow passes and the emitted code (`WF_vars(Next)`); time passes, so a limit that has not been reached is reached
(`WF_vars(ClockExpires)`). Without the last one the allocator need not end: the code
can spill the temporaries of earlier spills again, round after round. Deadlock is
not checked because the programs end.

## 5. Proofs

All theorems are stated for every function, every machine satisfying `X86Assumption`, every bound
on rounds of the allocator, and every layout and order of edits of the optimiser; those about the
emitted code for every program satisfying `ProgramsAssumption`, every number of spilled registers and
every stack. Apart from the assumptions on constants, which TLC evaluates, three hypotheses occur, and each excludes a thing the code really does wrong (section 7) or says what an earlier
stage guarantees:

* `FunctionsAssumption` (`BlockReordering`): what lowering hands to the optimiser.
* `ProgramLabels` (`LiveVariableAnalysisProofs`): labels of the body are not the builder's `$X`
  and stand once. Without it the run `lva_labels` refutes the conclusion.
* `WholeRegisters` (`SpillProofs`): the function as tiling made it names 64-bit registers only.
  Functions with a comparison as a value do not satisfy it; for these the run
  `chaitin_replace_map` and the last observation of section 7 show what happens. The theorem
  `LivenessExactCorrect` has the same hypothesis about its bodies, and that they have no SETcc,
  which is said to overwrite the whole register.

**Induction.** The provers cannot use the library's induction theorems, which take a predicate as
a parameter. `RecursionLemmas` states induction about a *set* of numbers (`IntervalSet`,
`LeastNumber`) or of subsets (`SubsetInduction`): to prove something of all numbers, form the set
of those it holds of. A recursive function `f[n \in S] == ...` is by definition a chosen solution
of its equation, so it equals its right-hand side only once a solution is known to exist;
`RecursionExists` and `SubsetRecursion` supply one. From these follow what `FlattenSeq` and folds
over sets return (`FlattenRange`, `FlattenApart`), that an iteration of a growing step over a
finite set closes within as many rounds as there are elements (`IterationCloses`), and how the
parts of a sequence share out its keys (`SubSeqApart`, `ConcatApart`).

**Liveness.** `Settled` (a node off the worklist satisfies its equations) is
inductive together with `TypeOK` and the fact that the graph does not change: a visit
disturbs the equation of the predecessors only, and puts exactly those back. From it,
`OnlyGrows`: a visited node's new set contains the old one because the old one was
computed from smaller successor sets; this needs the strengthening that each
`inVals[i]` is below what a visit would give now. `LeastLiveness` needs that every
closed set of nodes contains the nodes at which the register is reported, which a
visit preserves. `ResultCorrect` goes from there to the sets `LiveIn` and `LiveOut` computed by
iteration: they are closed, by `IterationCloses`, and below every closed set.
`FlowCorrect` compares the edges with `Goes`: between two nodes stand only labels, each belongs to
the first node after it, and the builder's own number for a position is taken by no other
position, since its counter rises by one at each instruction that falls through.
`LivenessExactCorrect` combines the three: a register is in `LiveIn` at a node exactly if
some path of `Goes` reads it before writing it.

**Allocator, one round.** The inductive invariant `IInv` is `TypeOK`, `Parts` (every register is
in exactly one place, and stack and spill list have no duplicates), `SpillListUnused`,
`Phases` (which lists are empty at which `pc`) and `GraphBuilt` (the adjacency lists
are those of the body and its liveness). `Phases` is needed because colouring only
covers all registers if the worklists are empty when it starts, and `GraphBuilt`
because the colouring argument uses the symmetry of the graph: a register is compared
with the neighbours coloured *before* it, so an edge stored at one end only would let
the later one collide. `ProperColoringCorrect` follows step by step;
`NoClobberCorrect` combines it with the edges that every live range contributes, provided no two
registers of the body share a name (`UniqueNames`).

**Allocator, all rounds.** `SpillInv` says what is true of the code and the frame in every round:
the slots of `offsetMap` are 1 up to the number of spilled names, each once; no name in it is that
of a temporary still to be made; and the body consists of instructions that name 64-bit registers
which are not in `offsetMap`. `AddSlotsOk` and `RewriteSpillsOk` show that a `Respill` keeps it; the first needs
`SpilledOnce` (no register is on the spill list twice), since the second of two equal entries
would give its name a slot that the next name gets as well. `SlotsDistinctCorrect`
and `SpilledGoneCorrect` are parts of `SpillInv`; and as registers of one size are equal when
their names are, it also gives the `UniqueNames` that `NoClobberCorrect` assumes, which is
`NoClobberAlways`.

**Edge tables.** `TablesOk` is what `repOk` requires of the tables (`Mirrored`,
`OneWayOut`, `OneFallIn`) and that a NOOP not yet made occurs on no edge, without which a
new NOOP might already have a fall-through in. `ConnectOk`, `TranslateOk` and
`RemoveNodeOk` show that each operation keeps it, for every graph over every set of
nodes; `TranslateOk` holds in particular when the edge from `b` to `c` is gone already. So
the findings about `translate` are about where edges lead, never about the two tables
disagreeing.

**The optimiser, whole behaviours.** That the operations keep `TablesOk` is not enough: each round
takes the graph apart and builds another, and `CFGBuilder` gives a node two edges of a kind when a
statement stands in the list twice. So `TablesAgree` needs `EachOnce`, and `EachOnce` of the next
round needs the tables of this one. The invariants, proved together as `OptimiserInv`, are:

* `GraphInv`: there is a set of nodes, none of which would be written as the same statement or
  guard as another (`SoleNodes`), over which `TablesOk` holds; and the node to which `removeAndLink`
  is linking predecessors is no NOOP still to be made.
* `LayoutInv`: `EachOnce`; and while blocks are laid out, no two of them share a statement or a
  label, none is laid out twice, and labels that `fixJumps` may make are in use nowhere.
* `SaysInv`: no list that is laid out or built from has a move, return or guard that the function
  does not have; the nodes of the graph are among the function's too (`FunctionNodes`).
* `RoundsInv`: how many rounds have been started wherever another may be, and what is dead.

The argument goes round once: cutting a list into blocks shares its statements out (`BlocksOk`);
any injective order of the blocks with what `fixJumps`, `removeUselessJumps` and `toSequence` add
(labels not in use, never a statement) still has each statement once (`ReorderedOk`);
`CFGBuilder` makes a graph in order from such a list (`CFGBuildOk`); the edits keep it
(`StepKeepsGraphInv`); and `CFGDestroyer` follows fall-throughs from nodes that nothing falls
into, so by `OneFallIn` no two of its traces meet (`PathsApart`) and each statement is written once
(`DestroyedOk`). Each of these steps also adds no statement: what the new list says (`Said`), the old
one or the graph did. `TypeCorrect` follows, with the order of insertion listing the edges (`Aged`,
a part of `TablesOk`) through every operation.

**Units.** `UnitCompleteCorrect` holds for every choice of the functions compiled and of those at which
Chaitin's allocator gives up: what is emitted are the units before the present one, each by one
allocator, and the present one is allocated as far as `allocated` goes by the present allocator.

**The stack of the emitted code.** The properties `Aligned`, `ReturnRestores` and `WritesOwnFrame` are
about code whose length depends on the numbers of parameters, results, temporaries and spilled
registers, so the proof has two parts.

*Typing* (`StackTyping`). A `Point` is what is known before an instruction: whether the frame is set
up, how far RSP is below the return address, where RDI points if it points into this frame, and
where the value that the function found in each callee-saved register and in RDI is now: still in the
register, in a word of the frame at a known distance, or in the copy Chaitin's allocator keeps it in.
`Leads` says for each kind of instruction from which point to which it leads; it allows a call at an
aligned depth only and when nothing needed again is left in a register, a store only into the frame
or into the room for results, and LEAVE only when every register has its value back. `CodeTyped` shows that
the code of a function is a path of points from the entry to RET, for either allocator. It is put
together along the code: tiles and the three instructions around a move keep the point
(`TypedConcat`, `TypedFlatten`), the pushes of a call mirror its pops, and the padding makes the depth
at the call right in each of the four cases of its parity.

*Machine* (`CallingConventionProofs`). The inductive invariant is `EmitInv`, `CodeInv` (the code does
not change), `TypesInv` (what has been emitted is typed) and `StackInv`: the activation that runs is as its
point says (`Active`), and each activation below it is suspended behind its call (`Frames`,
`Suspended`): its own words hold what its point says, its callee will find the stack, RBP and the
return address of the instruction behind the call, and the room for the callee's results is
above the callee's frame and below everything its caller needs again. The last is what makes stores of
results harmless, and why the invariant has to speak of all frames at once: a result after the
second is the only word a function writes in another's frame. From the invariant, `Mov` to `Ret` and `RuntimeReturn`
each keep it and restore and write what the two action properties say (`StepKeepsStack`). So
`AlignedCorrect` is the depth at a call together with the alignment of every entry;
`ReturnRestoresCorrect` is the point before RET; `WritesOwnFrameCorrect` the two kinds of stores.
`StackInv` chooses one typing of the code (`Typing`), which TLC cannot enumerate, so no run has it as
an invariant; what follows from it is checked by the run `calls`.

Only model-checked:

* Termination and everything else under fairness, which is outside the prover.
* `MissedUnharmed`: it is about the code of a tile, and false for bodies with spill code (section 7).
* `BranchesWhole`: a guard has its second edge only if the label it jumps to stands before a
  statement and that statement is emitted, which depends on where edges lead and not on the two
  tables; the run `optimiser_endless_loop` shows a function for which
  code is lost. It holds for the functions of the run `optimiser`.
* `Requires`: false for some functions (section 7), so it is a property of the functions the run has.
* `FlowPreserved` (a recursive reference), and `TranslateTable`, which is violated.
* `CallsImplemented` of `CallingConvention`: it is about the values the code computes, and its
  specification includes progress.
* Everything about `Dataflow` and `Translation`, which are built from recursive operators over
  trees, of which the prover cannot say what they compute.

## 6. Not modelled

Lexer and parser (generated), the abstract syntax (immutable trees), diagnostics and
the command line (formatting and file output), and the Java IR library. `Kompiler.kt` reads
interface files one after the other and collects declarations; the type checker is one recursive
function over the tree: both are sequential, without state that outlives them, and tested by the
suites of the repository. Programs enter the models as they leave the type checker. The runtime
under `src/runtime` is mostly third-party (Boehm collector, ncurses, generated Qt bindings); of its
own C code (`libeta`) the models have what compiled code sees: `_eta_alloc`, the out-of-bounds
stop, the start of `main` and the alignment check.

In the modelled parts: addresses other than frame slots in the allocator models, flags, comments,
the contents of the emitted text, name mangling, the data of globals, and the tiles of arithmetic
and comparisons. `PROJECT.json` has the status of every component.

## 7. Findings

Each of these has a run that is expected to be violated.

* `lva_labels`: the flow graph names its nodes `$X1, $X2, ...` and `CFGDestroyer` names its
  labels from the same series, so in optimised code a jump to `$X1` is linked to the first
  instruction.
* `chaitin_replace_map`: the 64-bit and the 8-bit register of a comparison are coloured as two
  registers, then looked up by name, so one of them gets the other's colour.
* `optimiser_endless_loop`: when a guard with several predecessors is removed, the second
  one is linked by a fall-through where the comment of `translate` has a NOOP that jumps. If
  it is the end of the loop, the loop falls into itself and `CFGDestroyer`, which starts
  traces only where nothing falls in, does not emit it.
* `dataflow_calls`: a call does not change the facts of constant propagation, so a variable
  that is 3 on one path and the result of a call on the other is replaced by 3.
* `dataflow_oscillates`: an argument counts as not yet known, a guard that depends on it
  becomes constant after one round of its loop, and the facts change for ever; near the threshold the
  `require` of `CFGFlow.kt` fails.
* `translation_zero_dimension`: `a: int[0][1]` makes one row and stores it behind the block.

Observed while modelling, without a run of their own; the functions of the passing runs avoid them:

* `return g, f()` returns the value of `g` after the call (`ir/IRLowerer.kt` 128-137, where a
  comment doubts it).
* `a: int[ga[0]][f()]` reads `ga[0]` after the call (`ir/IRTranslator.kt` 343-346).
* `r, r.f = q, 7` stores into the field of the new `r` (`ir/IRTranslator.kt` 262: only the place
  of an indexed target is computed first).
* A constant remainder by zero makes `ConstantFolder.calculate` throw
  (`ir/optimize/ConstantFolder.kt` 54 excludes DIV only).
* `InterferenceGraph.addEdge` drops the degrees it computes, so the worklists documented as
  low-degree hold registers of any degree.
* A SETcc is said to define the whole register (`assembly/x86/Instruction.kt` 251), so its zeroed
  upper bytes count as dead before it. The tile of a comparison defines nothing between them
  (`MissedUnharmed`), but if an operand of the CMP is spilled, the load that `rewriteSpills` puts
  before it may get the register that holds the cleared bytes: `MissedUnharmed` is violated by
  the bodies of the run `lva` with a comparison after `rewriteSpills` for its left operand.
* Of two useless guards in a loop of nothing else, the one that is removed last is its own
  predecessor. `removeAndLink` calls `translate` once for each predecessor; the first call
  removes the edge of the node to itself and the next one, for that edge, fails the `require` of
  `optimize/cfg/MatchMaker.kt` 84, so the compiler throws. TLC finds this (`Requires`) for
  `if (p) {} else { return } while (q) { while (u) { .. } }` with `q` constantly true and `u`
  constantly false, a function that is not among those of `MCOptimiser`. Lines commented out in
  `ensureIfsAreOk` (135-150) tried to handle guards that lead to themselves.
* An If both of whose edges lead to a removed move keeps its fall-through to it, because
  `removeAndLink` visits each predecessor once.
* `rewriteSpills` renames by register and `offsetMap` is keyed by register, both including the
  size. When the 64-bit and the 8-bit register of one name are both spilled, a slot is reserved
  outside the frame, and an instruction that mentions only the 8-bit register of a spilled name is
  not rewritten (`assembly/ralloc/ChaitinRegisterAllocator.kt` 313). So `WholeRegisters` is needed
  in the theorems of `SpillProofs`.
