------------------------------- MODULE Codec -------------------------------
(***************************************************************************)
(* The assembler's encoding of an instruction against the cpu's decoding   *)
(* of it, for every opcode with a name, every combination of modes the     *)
(* opcode takes, and every place in memory the cpu fetches from.           *)
(***************************************************************************)
EXTENDS Programs

CONSTANTS
    Values,     \* parameter values, truncated to the width of the mode
    Places,     \* addresses of the instruction
    Noise       \* what the memory around the instruction is filled with

(* The modes of two parameters share a byte, so that it has seven bits at  *)
(* least.  The assembler's values are uint32, and the cpu fetches from the *)
(* addresses up to PC_LIMIT. *)
ASSUME CodecAssumption ==
    /\ BYTE >= 128
    /\ INSTRUCTION_MAX_LENGTH = 10
    /\ Values \subseteq WordRange
    /\ Places \subseteq 0 .. PC_LIMIT
    /\ Noise \subseteq ByteRange

VARIABLES instr, pc, mem
vars == <<instr, pc, mem>>

Modes == Constant8 .. RegisterAddress
Params(modes) == {Param(m, v % Capacity(param_size(m))) :
                     m \in modes, v \in Values}

(* The instructions the parser accepts: as many parameters as the opcode   *)
(* takes.  op_inv has no name. *)
Instructions ==
    UNION {LET count == param_count(opcode_from_name(op))
               p == IF count > 0 THEN Params(Modes) ELSE {None}
               q == IF count > 1 THEN Params(Modes) ELSE {None}
           IN  {Op2(op, x, y) : x \in p, y \in q} :
           op \in ToSet(OpTable) \ {"inv"}}

Init == /\ instr \in Instructions
        /\ pc \in Places
        /\ \E noise \in Noise :
               mem = Placed(write_instruction(instr), pc, noise)

Next == UNCHANGED vars
Spec == Init /\ [][Next]_vars

(* The cpu decodes the instruction the assembler encoded: the operation,   *)
(* both parameters with their values, and the length. *)
DecodeInvertsEncode ==
    parse_instruction(mem, pc) =
        [op |-> instr.op, p1 |-> instr.p1, p2 |-> instr.p2,
         len |-> Len(write_instruction(instr))]

(* The length the assembler places labels by is the number of bytes it     *)
(* writes, at most the length the cpu leaves room for at the end of the    *)
(* memory. *)
LengthIsExact ==
    LET n == Len(write_instruction(instr)) IN
    /\ calculate_instruction_length(instr) = n
    /\ n <= INSTRUCTION_MAX_LENGTH
    /\ pc <= PC_LIMIT => pc + n <= MEM_SIZE
=============================================================================
