------------------------------ MODULE Programs ------------------------------
(***************************************************************************)
(* Small programs for the model checker, written as sequences of           *)
(* instructions.  A parameter of mode Label names an instruction by its    *)
(* position in the sequence, and is resolved to a 32-bit constant the way  *)
(* the assembler does.                                                     *)
(***************************************************************************)
EXTENDS Tx8Encode

Param(mode, v) == [mode |-> mode, value |-> v]
None == Param(Unused, 0)
Byte(v) == Param(Constant8, v)
Short(v) == Param(Constant16, v)
Long(v) == Param(Constant32, v)
Absolute(v) == Param(AbsoluteAddress, v)
Relative(v) == Param(RelativeAddress, v)
Reg(which) == Param(Register, which)
Deref(which) == Param(RegisterAddress, which)
To(index) == Param(Label, index)

(* The low byte and the low half of a register. *)
LowByte(which) == 16 + which
LowHalf(which) == 32 + which

Op0(op) == [op |-> op, p1 |-> None, p2 |-> None]
Op1(op, p) == [op |-> op, p1 |-> p, p2 |-> None]
Op2(op, p, q) == [op |-> op, p1 |-> p, p2 |-> q]

(* Offset of an instruction in the binary. *)
Offset(prog, index) ==
    LET at[k \in 1 .. index] ==
            IF k = 1 THEN 0
            ELSE at[k - 1] + calculate_instruction_length(prog[k - 1])
    IN  at[index]

Resolve(prog, start, p) ==
    IF p.mode = Label THEN Long(start + Offset(prog, p.value)) ELSE p

Assemble(prog, start) ==
    FlattenSeq([i \in DOMAIN prog |->
        write_instruction([prog[i] EXCEPT !.p1 = Resolve(prog, start, @),
                                          !.p2 = Resolve(prog, start, @)])])

(* A memory with these bytes at an address, and noise around them. *)
Placed(bytes, address, noise) ==
    [c \in Cells |-> IF c >= address /\ c - address < Len(bytes)
                     THEN bytes[c - address + 1] ELSE noise]
=============================================================================
