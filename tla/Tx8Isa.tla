------------------------------- MODULE Tx8Isa -------------------------------
(***************************************************************************)
(* The instruction set of the tx8 cpu: its tables, how an instruction is   *)
(* decoded from memory, the register file, and what a parameter stands for *)
(* (core/instruction.hpp and the parameter helpers of core/cpu.cpp).       *)
(*                                                                         *)
(* A register file rg maps a register id to a word.  The code lets id      *)
(* REGISTER_COUNT through its check (`id > REGISTER_COUNT`), so the file   *)
(* has one word more than the cpu has registers: the four bytes behind the *)
(* array.                                                                  *)
(***************************************************************************)
EXTENDS Tx8Memory, Sequences

CONSTANT INSTRUCTION_MAX_LENGTH     \* 10 in the code

REGISTER_COUNT == 8
A == 0
B == 1
C == 2
D == 3
R == 4
O == 5
P == 6
S == 7
RegisterFile == [0 .. REGISTER_COUNT -> WordRange]

-----------------------------------------------------------------------------
(* Tables indexed by opcode; the opcodes of the rows 0x8 to 0xf are        *)
(* invalid and take no parameter.                                          *)

OpTable ==
    << "hlt", "nop", "jmp", "jeq", "jne", "jgt", "jge", "jlt",
       "jle", "cmp", "fcmp", "ucmp", "call", "ret", "sys", "inv",
       "ld", "lds", "lw", "lws", "lda", "sta", "ldb", "stb",
       "ldc", "stc", "ldd", "std", "zero", "push", "pop", "inv",
       "inc", "dec", "add", "sub", "mul", "div", "mod", "max",
       "min", "abs", "sign", "inv", "inv", "inv", "inv", "inv",
       "and", "or", "not", "nand", "xor", "slr", "sar", "sll",
       "ror", "rol", "set", "clr", "tgl", "test", "inv", "inv",
       "finc", "fdec", "fadd", "fsub", "fmul", "fdiv", "fmod", "fmax",
       "fmin", "fabs", "fsign", "sin", "cos", "tan", "asin", "acos",
       "atan", "atan2", "sqrt", "pow", "exp", "log", "log2", "log10",
       "inv", "inv", "inv", "inv", "inv", "inv", "inv", "inv",
       "uadd", "usub", "umul", "udiv", "umod", "umax", "umin", "inv",
       "inv", "inv", "inv", "inv", "inv", "inv", "inv", "inv",
       "rand", "rseed", "itf", "fti", "utf", "ftu", "ei", "di",
       "stop", "inv", "inv", "inv", "inv", "inv", "inv", "inv" >>

op_function(opcode) == IF opcode < 128 THEN OpTable[opcode + 1] ELSE "inv"

CountTable ==
    << 0, 0, 1, 1, 1, 1, 1, 1, 1, 2, 2, 2, 1, 0, 1, 0,
       2, 2, 2, 2, 1, 1, 1, 1, 1, 1, 1, 1, 1, 1, 1, 0,
       1, 1, 2, 2, 2, 2, 2, 2, 2, 1, 1, 0, 0, 0, 0, 0,
       2, 2, 1, 2, 2, 2, 2, 2, 2, 2, 2, 2, 2, 2, 0, 0,
       1, 1, 2, 2, 2, 2, 2, 2, 2, 1, 1, 1, 1, 1, 1, 1,
       1, 2, 1, 2, 1, 1, 1, 1, 0, 0, 0, 0, 0, 0, 0, 0,
       2, 2, 2, 2, 2, 2, 2, 0, 0, 0, 0, 0, 0, 0, 0, 0,
       1, 1, 1, 1, 1, 1, 0, 0, 0, 0, 0, 0, 0, 0, 0, 0 >>

param_count(opcode) == IF opcode < 128 THEN CountTable[opcode + 1] ELSE 0

(* Parameter modes. *)
Unused == 0
Constant8 == 1
Constant16 == 2
Constant32 == 3
AbsoluteAddress == 4
RelativeAddress == 5
Register == 6
RegisterAddress == 7
Label == 15

param_size(mode) == CASE mode \in {Constant8, Register, RegisterAddress} -> 1
                      [] mode = Constant16 -> 2
                      [] mode \in {AbsoluteAddress, RelativeAddress} -> 3
                      [] mode \in {Constant32, Label} -> 4
                      [] OTHER -> 0

param_is_address(mode) ==
    mode \in {AbsoluteAddress, RelativeAddress, RegisterAddress}
param_is_writable(mode) == mode = Register \/ param_is_address(mode)

-----------------------------------------------------------------------------
(* Registers.  A register number is 16 * size class + id: class 0 is the   *)
(* whole register, 1 its low byte, 2 its low half.                         *)

RegId(which) == which % 16
RegClass(which) == which \div 16

register_size(which) == CASE RegClass(which) = 1 -> 1
                          [] RegClass(which) = 2 -> 2
                          [] OTHER -> 4

(* The register number is one reg_read and reg_write report an error for. *)
RegError(which) == RegId(which) > REGISTER_COUNT \/ RegClass(which) > 2

reg_read(rg, which) ==
    IF RegError(which) THEN 0
    ELSE rg[RegId(which)] % Capacity(register_size(which))

reg_read_sign_extended(rg, which) ==
    CASE RegClass(which) \in {1, 2} ->
            SignExtend(reg_read(rg, which), register_size(which))
      [] OTHER -> reg_read(rg, which)

(* Faults: the value is not truncated; the upper bytes are cleared. *)
reg_write_untruncated(rg, which, value) ==
    IF RegError(which) THEN rg
    ELSE LET c == Capacity(register_size(which))
         IN  [rg EXCEPT ![RegId(which)] = (@ - (@ % c)) + value]
reg_write_clearing(rg, which, value) ==
    IF RegError(which) THEN rg
    ELSE [rg EXCEPT ![RegId(which)] = value % Capacity(register_size(which))]

reg_write(rg, which, value) ==
    IF RegError(which) THEN rg
    ELSE LET c == Capacity(register_size(which))
         IN  [rg EXCEPT ![RegId(which)] = (@ - (@ % c)) + (value % c)]

-----------------------------------------------------------------------------
(* Decoding.  A mode the code has no mask for (8 and above) reads beyond   *)
(* its mask table; no handler uses the value of such a parameter, so that  *)
(* it is 0 here.                                                           *)

(* Fault: only the first byte of an instruction has to be in the memory. *)
PC_LIMIT_first_byte == MEM_SIZE

PC_LIMIT == MEM_SIZE - INSTRUCTION_MAX_LENGTH - 1

(* Fault: the bytes behind a short parameter are not masked. *)
ParamValue_unmasked(mem, at, mode) ==
    IF mode \in Constant8 .. RegisterAddress
    THEN mem_read(mem, at, 4) ELSE 0

ParamValue(mem, at, mode) ==
    IF mode \in Constant8 .. RegisterAddress
    THEN mem_read(mem, at, 4) % Capacity(param_size(mode)) ELSE 0

parse_instruction(mem, pc) ==
    LET count == param_count(mem[pc])
        modes == mem[pc + 1]
        mode1 == IF count > 0 THEN modes \div 16 ELSE Unused
        mode2 == IF count > 1 THEN modes % 16 ELSE Unused
        start == pc + 1 + (IF count > 0 THEN 1 ELSE 0)
        next == start + param_size(mode1)
    IN  [ op  |-> op_function(mem[pc]),
          p1  |-> [mode |-> mode1, value |-> ParamValue(mem, start, mode1)],
          p2  |-> [mode |-> mode2, value |-> ParamValue(mem, next, mode2)],
          len |-> next + param_size(mode2) - pc ]

-----------------------------------------------------------------------------
(* Parameters. *)

(* Fault: constants have the size of a word. *)
param_value_size_word(p) ==
    IF p.mode = Register THEN register_size(p.value) ELSE 4

param_value_size(p) == CASE p.mode = Constant8 -> 1
                         [] p.mode = Constant16 -> 2
                         [] p.mode = Register -> register_size(p.value)
                         [] OTHER -> 4

get_param_value(mem, rg, p) ==
    CASE p.mode \in {Constant8, Constant16, Constant32} -> p.value
      [] p.mode = AbsoluteAddress -> mem_read(mem, p.value, 4)
      [] p.mode = RelativeAddress -> mem_read(mem, Word(rg[O] + p.value), 4)
      [] p.mode = Register -> reg_read(rg, p.value)
      [] p.mode = RegisterAddress -> mem_read(mem, reg_read(rg, p.value), 4)
      [] OTHER -> 0

get_param_value_sign_extended(mem, rg, p) ==
    CASE p.mode \in {Constant8, Constant16} ->
            SignExtend(p.value, param_size(p.mode))
      [] p.mode = Register -> reg_read_sign_extended(rg, p.value)
      [] OTHER -> get_param_value(mem, rg, p)

(* Faults: O is left out; the number of a register is an address. *)
get_param_address_no_offset(rg, p) ==
    CASE p.mode \in {AbsoluteAddress, RelativeAddress} -> p.value
      [] p.mode = RegisterAddress -> reg_read(rg, p.value)
      [] OTHER -> MEM_SIZE
get_param_address_number(rg, p) ==
    CASE p.mode = RelativeAddress -> Word(rg[O] + p.value)
      [] p.mode = RegisterAddress -> reg_read(rg, p.value)
      [] OTHER -> p.value

get_param_address(rg, p) ==
    CASE p.mode = AbsoluteAddress -> p.value
      [] p.mode = RelativeAddress -> Word(rg[O] + p.value)
      [] p.mode = RegisterAddress -> reg_read(rg, p.value)
      [] OTHER -> MEM_SIZE

(* Fault: a register address is not checked. *)
ValueError_register_only(p) == p.mode = Register /\ RegError(p.value)

(* Evaluating the parameter's value, or its address, reports an error. *)
ValueError(p) == p.mode \in {Register, RegisterAddress} /\ RegError(p.value)
AddressError(p) == ~param_is_address(p.mode) \/ ValueError(p)
=============================================================================
