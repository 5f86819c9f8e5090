-------------------------------- MODULE Host --------------------------------
(***************************************************************************)
(* The host program and the system functions: registrations in any order,  *)
(* before and between runs, colliding names, roms that do not fit, and     *)
(* programs that call functions which may be missing.                      *)
(***************************************************************************)
EXTENDS Tx8Cpu, Programs

CONSTANTS
    LastWord,   \* the last four bytes of the memory begin here
    Text        \* a word without a zero byte

GetProgram == << Op1("sys", Long(Hash["get"])),
                 Op1("pop", Reg(LowByte(A))),
                 Op0("hlt") >>

(* Prints the string at an address; the last bytes of memory are not zero. *)
PrintProgram(at) == << Op2("lw", Absolute(LastWord), Long(Text)),
                       Op1("push", Long(at)),
                       Op1("sys", Long(Hash["print"])),
                       Op1("pop", Reg(A)),
                       Op0("hlt") >>

(* Stores to the word behind the registers before it calls a function. *)
ClobberProgram == << Op2("ld", Reg(REGISTER_COUNT), Byte(1)) >> \o GetProgram

HostRoms == {Assemble(prog, ROM_START) :
                prog \in {GetProgram, ClobberProgram,
                          PrintProgram(0), PrintProgram(LastWord)}}
            \cup {[i \in 1 .. ROM_SIZE + 1 |-> 0]}

-----------------------------------------------------------------------------
IsGet == mem # NoMemory /\ mem[ROM_START] = opcode_from_name("sys")

(* The program counters of a cpu before run() is called. *)
SetupPcs == {ENTRY_POINT} \cup Leftovers

(* When the rom was too large, or a registration failed, no instruction is *)
(* ever executed, however often run() is called and whatever the rejected  *)
(* cpu holds: the program counter, which every instruction moves, stays    *)
(* where it was, and the process goes on. *)
FailedSetupNeverRuns ==
    \A pc \in SetupPcs :
        [](phase = "host" /\ halted /\ regs[P] = pc
               => [](regs[P] = pc /\ phase # "crashed"))

(* A lookup by id is unambiguous, and a registered function stays. *)
TableGrows == [][/\ sys_func_table \subseteq sys_func_table'
                 /\ \A name, other \in sys_func_table' :
                      Hash[name] = Hash[other] => name = other]_vars

(* get leaves one byte on the stack for the program to pop; without it the *)
(* program stops at the call with its stack as it was. *)
GetBalancesStack ==
    LET behind == ENTRY_POINT + Offset(GetProgram, 2) IN
    phase = "returned" /\ IsGet =>
        /\ regs[S] = STACK_BEGIN
        /\ IF regs[P] <= behind THEN regs[A] = 0 ELSE regs[A] \in Input

(* A run ends: it returns, or the process dies. *)
RunEnds == phase = "running" ~> phase \in {"returned", "crashed"}
=============================================================================
