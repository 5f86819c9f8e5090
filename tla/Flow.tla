-------------------------------- MODULE Flow --------------------------------
(***************************************************************************)
(* Control flow of whole programs: conditional jumps after comparisons,    *)
(* nested and recursive subroutines, and the end of the run.  Every        *)
(* program here ends, and uses the stack for calls only.                   *)
(***************************************************************************)
EXTENDS Tx8Cpu, Programs

CONSTANTS
    Values,     \* words that are compared
    Depths      \* depths of recursion

-----------------------------------------------------------------------------
(* The two registers x and y are compared, and D tells which way the jump  *)
(* went. *)
BranchProgram(v, w, compare, x, y, jcc) ==
    << Op2("lw", Reg(A), Long(v)),
       Op2("lw", Reg(B), Long(w)),
       Op2(compare, Reg(x), Reg(y)),
       Op1(jcc, To(7)),
       Op1("ldd", Byte(1)),
       Op0("hlt"),
       Op1("ldd", Byte(2)),
       Op0("hlt") >>

Branches == {BranchProgram(v, w, compare, x, y, jcc) :
                v \in Values, w \in Values, compare \in {"cmp", "ucmp"},
                x \in {A, LowByte(A)}, y \in {B, LowHalf(B)},
                jcc \in Conditions}

(* A subroutine that calls itself n times more and counts its returns in   *)
(* C.  Its address is in O, and A is the number of calls to come. *)
RecursionProgram(n, mode) ==
    LET f == 5
        target == CASE mode = Constant32 -> To(f)
                    [] mode = Register -> Reg(O)
                    [] mode = AbsoluteAddress -> Absolute(ROM_START + 3)
    IN  << Op2("lw", Reg(O), To(f)),
           Op1("lda", Byte(n)),
           Op1("call", target),
           Op0("stop"),
           Op2("cmp", Reg(A), Byte(0)),
           Op1("jeq", To(9)),
           Op1("dec", Reg(A)),
           Op1("call", target),
           Op1("inc", Reg(C)),
           Op0("ret") >>

Recursions == {RecursionProgram(n, mode) : n \in Depths,
                    mode \in {Constant32, Register, AbsoluteAddress}}

FlowRoms == {Assemble(prog, ROM_START) : prog \in Branches \cup Recursions}

-----------------------------------------------------------------------------
CompareAt == ROM_START + 14
IsBranch == op_function(mem[ROM_START + 7]) = "lw"
IsRecursion == op_function(mem[ROM_START + 7]) = "lda"

(* The order of the compared values by the register names alone: cmp takes *)
(* the value a register of that size holds as a signed number, ucmp as an  *)
(* unsigned one. *)
Compared(which, whole, signed) ==
    IF signed THEN Signed(whole, register_size(which))
    ELSE whole % Capacity(register_size(which))

Taken ==
    LET compare == parse_instruction(mem, CompareAt)
        jcc == op_function(mem[CompareAt + compare.len])
        x == Compared(compare.p1.value, regs[A], compare.op = "cmp")
        y == Compared(compare.p2.value, regs[B], compare.op = "cmp")
    IN  CASE jcc = "jeq" -> x = y  [] jcc = "jne" -> x # y
          [] jcc = "jgt" -> x > y  [] jcc = "jge" -> x >= y
          [] jcc = "jlt" -> x < y  [] jcc = "jle" -> x <= y

(* A conditional jump behind a comparison goes the way the order of the    *)
(* two operands says, for signed and unsigned comparison and for operands  *)
(* of different sizes: the two handlers communicate through R only. *)
BranchFollowsOrder ==
    phase = "returned" /\ IsBranch => regs[D] = (IF Taken THEN 2 ELSE 1)

(* Every call of a recursion comes back exactly once and leaves nothing on *)
(* the stack, however the target of the call is given. *)
CallsReturn ==
    phase = "returned" /\ IsRecursion =>
        /\ regs[S] = STACK_BEGIN
        /\ regs[C] = parse_instruction(mem, ROM_START + 7).p1.value + 1

(* run() returns, by hlt as well as by stop, once it was called. *)
RunReturns == phase = "running" ~> phase = "returned"
=============================================================================
