----------------------------- MODULE Tx8Encode -----------------------------
(***************************************************************************)
(* How the assembler encodes an instruction (asm/assembler.cpp), the       *)
(* counterpart of parse_instruction.                                       *)
(***************************************************************************)
EXTENDS Tx8Isa, SequencesExt

opcode_from_name(name) ==
    CHOOSE opcode \in 0 .. Len(OpTable) - 1 : OpTable[opcode + 1] = name

(* The low bytes of the value, as many as the mode falls through. *)
write_parameter(p) ==
    LET size == CASE p.mode = Constant32 -> 4
                  [] p.mode \in {AbsoluteAddress, RelativeAddress} -> 3
                  [] p.mode = Constant16 -> 2
                  [] p.mode \in {Constant8, Register, RegisterAddress} -> 1
                  [] OTHER -> 0
    IN  [i \in 1 .. size |-> Digit(p.value, i - 1)]

write_instruction(i) ==
    << opcode_from_name(i.op) >>
    \o (IF i.p1.mode = Unused THEN << >>
        ELSE << 16 * i.p1.mode + i.p2.mode >>)
    \o write_parameter(i.p1) \o write_parameter(i.p2)

(* Fault: the second parameter is left out. *)
calculate_instruction_length_one(i) ==
    LET count == param_count(opcode_from_name(i.op))
    IN  1 + (IF count > 0 THEN 1 ELSE 0) + param_size(i.p1.mode)

calculate_instruction_length(i) ==
    LET count == param_count(opcode_from_name(i.op))
    IN  1 + (IF count > 0 THEN 1 ELSE 0)
          + param_size(i.p1.mode) + param_size(i.p2.mode)
=============================================================================
