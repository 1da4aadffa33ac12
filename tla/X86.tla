-------------------------------- MODULE X86 --------------------------------
(***************************************************************************)
(* The abstract assembly the back end works on: its registers and its      *)
(* instructions (assembly/x86/Register.kt and Instruction.kt).             *)
(*                                                                         *)
(* A register is a record of its name and its size.  A machine register    *)
(* (class x86) is named <<"x86", ordinal>>, an abstract one (class         *)
(* Abstract) by any other pair: <<"t", 1>> for a temporary of the program, *)
(* <<"CE", 1>> and <<"S", 1>> for the allocator's own.                     *)
(*                                                                         *)
(* An instruction keeps what register allocation looks at: its opcode, the *)
(* registers it defines and uses, the label it is or jumps to, and the     *)
(* frame slot a spill load or store touches.                               *)
(***************************************************************************)
EXTENDS Integers, Sequences, FiniteSets

CONSTANTS
  K,                   (* number of colours; enum x86Name has ordinals     *)
                       (* 0 .. K-1 (K = 16 in the code)                    *)
  RAX, RDX, RSP, RBP,  (* the ordinals of the registers the code names     *)
  CalleeSaved,         (* ordinals of x86.calleeSaved()                    *)
  CallerSaved,         (* ordinals of x86.callerSaved()                    *)
  ArgumentRegs         (* ordinals of the registers that carry arguments   *)

ASSUME X86Assumption ==
  /\ K \in Nat \ {0}
  /\ {RAX, RDX, RSP, RBP} \subseteq 0 .. K-1
  /\ Cardinality({RAX, RDX, RSP, RBP}) = 4
  /\ CalleeSaved \subseteq (0 .. K-1) \ {RSP, RBP}
  /\ CallerSaved \subseteq (0 .. K-1) \ {RSP, RBP}
  /\ CalleeSaved \cap CallerSaved = {}
  /\ {RAX, RDX} \subseteq CallerSaved
  /\ ArgumentRegs \subseteq CallerSaved

-----------------------------------------------------------------------------
(* Registers *)

x86(i)      == [name |-> <<"x86", i>>, size |-> 64]
Abstract(n) == [name |-> n, size |-> 64]

\* The register a SETcc names: the same name, size 8 (LIROp.zeroAndCmp).
LowByte(r)  == [r EXCEPT !.size = 8]

Isx86(r)    == r.name[1] = "x86"

x86s(ordinals) == {x86(i) : i \in ordinals}

(***************************************************************************)
(* Register.equals compares names, but the hashCode a data class generates *)
(* also covers the size.  So a hash set or a hash map tells the 64-bit and *)
(* the 8-bit register of one name apart (plain TLA+ equality), while ==    *)
(* and a one-element set (java.util.Collections.singleton) do not (Same).  *)
(***************************************************************************)
Same(r, s)  == r.name = s.name

\* S - T for a T that is the def or the use of an instruction: either one
\* register, compared by name, or machine registers, all of size 64.
Minus(S, T) == {r \in S : \A t \in T : ~Same(r, t)}

\* Names: of machine registers, of temporaries of the program, its arguments
\* and the results of its calls, and of the allocator's own registers.
RegisterName == {"x86", "t", "ARG", "RV", "CE", "S"} \X Nat

Register == [name : RegisterName, size : {8, 64}]

-----------------------------------------------------------------------------
(* Instructions *)

Opcode == {"mov", "const", "arith", "cmp", "jumpset", "cqo", "div", "push", "pop",
           "pad", "leave", "ret", "call", "callersavepush", "callersavepop",
           "fetch", "load", "store", "label", "jmp", "jcc"}

\* No label, a label of the program, one of CFGDestroyer.
LabelName == {"none", "L", "X"} \X Nat

Instruction == [op   : Opcode,
                def  : SUBSET Register,
                use  : SUBSET Register,
                lab  : LabelName,
                slot : Nat]

Insn(op, def, use) ==
  [op |-> op, def |-> def, use |-> use, lab |-> <<"none", 0>>, slot |-> 0]

MOV(d, s)    == Insn("mov", {d}, {s})
MOVConst(d)  == Insn("const", {d}, {})
MOVAbove(d)  == Insn("fetch", {d}, x86s({RBP}))    \* MOV from [RBP + n]
Arith(d, s)  == Insn("arith", {d}, {d, s})
CMP(d, s)    == Insn("cmp", {}, {d, s})
JumpSet(r)   == Insn("jumpset", {r}, {})
CQO          == Insn("cqo", x86s({RAX, RDX}), x86s({RAX}))
DIV(r)       == Insn("div", x86s({RAX, RDX}), {r} \cup x86s({RAX}))
PUSH(r)      == Insn("push", x86s({RSP}), {r} \cup x86s({RSP}))
POP(r)       == Insn("pop", {r} \cup x86s({RSP}), x86s({RSP}))
PAD          == Insn("pad", x86s({RSP}), x86s({RSP}))
LEAVE        == Insn("leave", x86s({RSP, RBP}), x86s({RSP, RBP}))
RET          == Insn("ret", x86s({RSP}), x86s(CalleeSaved \cup {RSP, RAX, RDX}))
CALL         == Insn("call", x86s({RSP} \cup CallerSaved),
                     x86s({RSP} \cup ArgumentRegs))
CALLERSAVEPUSH == Insn("callersavepush", {}, {})
CALLERSAVEPOP  == Insn("callersavepop", {}, {})

\* MOV between a register and the frame slot at [RBP - 8 * k].
LoadSlot(d, k)  == [Insn("load", {d}, x86s({RBP})) EXCEPT !.slot = k]
StoreSlot(s, k) == [Insn("store", {}, {s} \cup x86s({RBP})) EXCEPT !.slot = k]

Label(l)     == [Insn("label", {}, {}) EXCEPT !.lab = l]
JMP(l)       == [Insn("jmp", {}, {}) EXCEPT !.lab = l]
Jcc(l)       == [Insn("jcc", {}, {}) EXCEPT !.lab = l]

\* Mutant of Comparison: the result is cleared before the operands are computed.
ComparisonClearsFirst(left, right, out) ==
  <<Arith(out, out)>> \o left.code \o right.code
    \o <<CMP(left.outputRegister, right.outputRegister), JumpSet(LowByte(out))>>

\* The tile of a comparison, from the tiles of its operands: the result is
\* cleared (XOR with itself) before CMP and its low byte set after.
Comparison(left, right, out) ==
  left.code \o right.code
    \o <<Arith(out, out), CMP(left.outputRegister, right.outputRegister),
         JumpSet(LowByte(out))>>

\* Instruction.involved: the abstract registers among the operands.
InvolvedIn(insn) == {r \in insn.def \cup insn.use : ~Isx86(r)}

Involved(body) == UNION {InvolvedIn(body[i]) : i \in DOMAIN body}

\* A MOV whose destination and source are both registers.
IsMove(insn) == insn.op = "mov"
=============================================================================
