------------------------------- MODULE Tx8Cpu -------------------------------
(***************************************************************************)
(* The tx8 cpu (core/cpu.cpp): construction from a rom, registration of    *)
(* system functions by the host, and the loop CPU::run with one action for *)
(* each opcode handler (or for each macro that generates handlers).        *)
(*                                                                         *)
(* A step of the loop is: the two checks at its head, the fetch, the whole *)
(* handler, and the increment of the program counter.  error() sets halted *)
(* but neither it nor the parameter helpers that call it leave the handler *)
(* (only CHECK_WRITABLE and the division checks return), so that the rest  *)
(* of the handler takes effect and the loop ends at its next check.        *)
(***************************************************************************)
EXTENDS Tx8Isa, Tx8Alu

CONSTANTS
    ROM_START,          \* 0x400000 in the code, also the ENTRY_POINT
    ROM_SIZE,           \* 0x800000
    STACK_BEGIN,        \* 0xc02000
    RAND_INITIAL_SEED,  \* 0x12345678
    Roms,               \* the roms a cpu is constructed from
    SysNames,           \* names the host registers system functions under
    Hash,               \* tx::str_hash on those names
    Input,              \* what getc returns, as bytes
    Behind,             \* what lies behind the register array at first
    Leftovers           \* words that memory may hold before it is initialized

ENTRY_POINT == ROM_START

ASSUME CpuAssumption ==
    /\ INSTRUCTION_MAX_LENGTH = 10
    /\ BYTE >= 128 /\ BYTE <= 256
    /\ ROM_START \in Nat /\ ROM_SIZE \in Nat
    /\ ROM_START + ROM_SIZE <= MEM_SIZE
    /\ STACK_BEGIN \in Nat /\ STACK_BEGIN < MEM_SIZE
    /\ RAND_INITIAL_SEED \in WordRange
    /\ \A rom \in Roms : rom \in Seq(ByteRange)
    /\ Hash \in [SysNames -> WordRange]
    /\ Input \subseteq ByteRange
    /\ Behind \subseteq WordRange
    /\ Leftovers \subseteq WordRange

VARIABLES
    mem, regs,      \* memory and registers
    rseed,          \* state of the random number generator
    halted,         \* the loop is to end
    stopped,        \* the cpu waits for an interrupt
    sys_func_table, \* names with a registered system function
    table_intact,   \* no store went to the bytes behind the registers
    phase           \* where the thread of the host program is

machine == <<mem, regs, rseed, halted, stopped>>
vars == <<machine, sys_func_table, table_intact, phase>>

Phases == {"host",      \* the cpu is constructed, run() was not yet called
           "running",   \* inside run()
           "returned",  \* run() has returned
           "crashed"}   \* the process died on undefined behaviour

(* The vector of a cpu whose constructor gave up: only a cpu that is halted *)
(* has it. *)
NoMemory == << >>

TypeOK ==
    /\ mem \in Memory \/ (mem = NoMemory /\ halted)
    /\ regs \in RegisterFile
    /\ rseed \in WordRange
    /\ halted \in BOOLEAN
    /\ stopped \in BOOLEAN
    /\ sys_func_table \subseteq SysNames
    /\ table_intact \in BOOLEAN
    /\ phase \in Phases

-----------------------------------------------------------------------------
(* The constructor. *)

ValidPc == regs[P] <= PC_LIMIT

Image(rom) == [c \in Cells |->
    IF c >= ROM_START /\ c - ROM_START < Len(rom) THEN rom[c - ROM_START + 1]
    ELSE 0]

InitialRegisters == {[id \in 0 .. REGISTER_COUNT |->
    CASE id = S -> STACK_BEGIN
      [] id = P -> ENTRY_POINT
      [] id = REGISTER_COUNT -> junk
      [] OTHER -> 0] : junk \in Behind}

Loaded(rom) ==
    /\ Len(rom) <= ROM_SIZE
    /\ mem = Image(rom)
    /\ regs \in InitialRegisters
    /\ rseed = RAND_INITIAL_SEED
    /\ stopped = FALSE
    /\ halted = FALSE
    /\ phase = "host"

(* A rom that is too large: the constructor reports it and returns, so     *)
(* that the memory stays an empty vector, and the registers, the seed and  *)
(* stopped hold whatever the memory of the object held before.  The report *)
(* itself decodes the instruction at p: above PC_LIMIT that yields a nop,  *)
(* and the cpu is left halted; below, it dereferences a null pointer.      *)
Rejected(rom) ==
    /\ Len(rom) > ROM_SIZE
    /\ mem = NoMemory
    /\ regs \in [0 .. REGISTER_COUNT -> Leftovers \cup Behind]
    /\ regs[REGISTER_COUNT] \in Behind
    /\ rseed \in Leftovers
    /\ stopped \in BOOLEAN
    /\ halted = TRUE
    /\ phase = IF ValidPc THEN "crashed" ELSE "host"

Init == /\ \E rom \in Roms : Loaded(rom) \/ Rejected(rom)
        /\ sys_func_table = {}
        /\ table_intact = TRUE

-----------------------------------------------------------------------------
(* The host program. *)

(* The host calls the cpu's methods one after another, and may call run()  *)
(* again when it has returned. *)
HostTurn == phase \in {"host", "returned"}

(* Fault: a colliding name takes the place of the other one. *)
register_sysfunc_replacing(name) ==
    /\ HostTurn
    /\ sys_func_table' = {other \in sys_func_table : Hash[other] # Hash[name]}
                         \cup {name}
    /\ UNCHANGED <<machine, table_intact, phase>>

(* Two names with the same hash, or one name twice: the second             *)
(* registration fails and halts the cpu, before run() has done anything.   *)
(* (Its report decodes the instruction at p as well: from a memory that    *)
(* exists, or above PC_LIMIT, or the constructor would not have returned.) *)
register_sysfunc(name) ==
    /\ HostTurn
    /\ IF \E other \in sys_func_table : Hash[other] = Hash[name]
       THEN halted' = TRUE /\ UNCHANGED sys_func_table
       ELSE /\ sys_func_table' = sys_func_table \cup {name}
            /\ UNCHANGED halted
    /\ UNCHANGED <<mem, regs, rseed, stopped, table_intact, phase>>

StartRun == /\ HostTurn
            /\ phase' = "running"
            /\ UNCHANGED <<machine, sys_func_table, table_intact>>

-----------------------------------------------------------------------------
(* The head of the loop. *)

(* Fault: halted is not looked at. *)
Running_on == phase = "running"

Running == phase = "running" /\ ~halted

LoopExit == /\ phase = "running" /\ halted
            /\ phase' = "returned"
            /\ UNCHANGED <<machine, sys_func_table, table_intact>>

Break == /\ halted' = TRUE
         /\ phase' = "returned"
         /\ UNCHANGED <<mem, regs, rseed, stopped, sys_func_table,
                        table_intact>>

InvalidPc == Running /\ ~ValidPc /\ Break

(* Fault: a stopped cpu waits for an interrupt. *)
Stopped_waiting == Running /\ ValidPc /\ stopped /\ UNCHANGED vars

Stopped == Running /\ ValidPc /\ stopped /\ Break

inst == parse_instruction(mem, regs[P])

Fetching == Running /\ ValidPc /\ ~stopped
Executes(ops) == Fetching /\ op_function(mem[regs[P]]) \in ops

(* Fault: the program counter is left to the handlers. *)
Incremented_never(rg) == rg

(* The end of an instruction that leaves the registers rg and the memory m *)
(* behind, and reported an error or not.  run() takes a program counter    *)
(* that did not change for one that has yet to be incremented.             *)
Incremented(rg) ==
    IF rg[P] = regs[P] THEN [rg EXCEPT ![P] = Word(regs[P] + inst.len)]
    ELSE rg

Finish(rg, m, err) ==
    /\ regs' = Incremented(rg)
    /\ mem' = m
    /\ halted' = err
    /\ table_intact' \in IF rg[REGISTER_COUNT] = regs[REGISTER_COUNT]
                         THEN {table_intact} ELSE {table_intact, FALSE}
    /\ UNCHANGED <<sys_func_table, phase>>

Crash == /\ phase' = "crashed"
         /\ UNCHANGED <<machine, sys_func_table, table_intact>>

-----------------------------------------------------------------------------
(* What the handlers share. *)

value(p) == get_param_value(mem, regs, p)
signed_value(p) == get_param_value_sign_extended(mem, regs, p)

write_r(rg, v) == reg_write(rg, R, v)
jump(rg, location) == [rg EXCEPT ![P] = location]

(* Fault: every push moves S by a word. *)
Pushed_word(rg, size) == [rg EXCEPT ![S] = Word(@ - 4)]
Pushed_past(rg, size) == [rg EXCEPT ![S] = Word(@ - size + 1)]

Pushed(rg, size) == [rg EXCEPT ![S] = Word(@ - size)]
Popped(rg, size) == [rg EXCEPT ![S] = Word(@ + size)]

(* Fault: a pop reads behind the value. *)
top_after(size) == mem_read(mem, Word(regs[S] + size), size)

top(size) == mem_read(mem, regs[S], size)

(* A handler that does nothing, or returns before it did anything, with an *)
(* error. *)
Fault == Finish(regs, mem, TRUE) /\ UNCHANGED <<rseed, stopped>>

(* The destination p gets the value v: a register, or size bytes of memory.*)
RegistersAfter(p, v) ==
    IF p.mode = Register THEN reg_write(regs, p.value, v) ELSE regs
MemoryAfter(p, v, size) ==
    IF p.mode = Register THEN mem
    ELSE mem_write(mem, get_param_address(regs, p), v, size)

-----------------------------------------------------------------------------
(* Control flow. *)

Hlt == /\ Executes({"hlt"})
       /\ Finish(regs, mem, TRUE)
       /\ UNCHANGED <<rseed, stopped>>

(* nop, the interrupt switches, and an invalid opcode, which is reported   *)
(* and skipped. *)
Nop == /\ Executes({"nop", "ei", "di", "inv"})
       /\ Finish(regs, mem, FALSE)
       /\ UNCHANGED <<rseed, stopped>>

Stop == /\ Executes({"stop"})
        /\ Finish(regs, mem, FALSE)
        /\ stopped' = TRUE
        /\ UNCHANGED rseed

Conditions == {"jeq", "jne", "jgt", "jge", "jlt", "jle"}
Holds(op, x) == CASE op = "jeq" -> x = 0  [] op = "jne" -> x # 0
                  [] op = "jgt" -> x > 0  [] op = "jge" -> x >= 0
                  [] op = "jlt" -> x < 0  [] op = "jle" -> x <= 0
                  [] op = "jmp" -> TRUE

Jump == LET p1 == inst.p1 IN
    /\ Executes({"jmp"} \cup Conditions)
    /\ IF Holds(inst.op, Signed(regs[R], 4))
       THEN Finish(jump(regs, value(p1)), mem, ValueError(p1))
       ELSE Finish(regs, mem, FALSE)
    /\ UNCHANGED <<rseed, stopped>>

Compare == LET p1 == inst.p1  p2 == inst.p2 IN
    /\ Executes({"cmp", "ucmp", "fcmp"})
    /\ \E order \in
        CASE inst.op = "cmp" -> {CMP(Signed(signed_value(p1), 4),
                                     Signed(signed_value(p2), 4))}
          [] inst.op = "ucmp" -> {CMP(value(p1), value(p2))}
          [] inst.op = "fcmp" -> {-1, 0, 1} :
            Finish(write_r(regs, Word(order)), mem,
                   ValueError(p1) \/ ValueError(p2))
    /\ UNCHANGED <<rseed, stopped>>

(* The target is evaluated after the return address was pushed. *)
Call == LET rg == Pushed(regs, 4)
            m == mem_write(mem, rg[S], Word(regs[P] + inst.len), 4)
        IN
    /\ Executes({"call"})
    /\ Finish(jump(rg, get_param_value(m, rg, inst.p1)), m,
              ValueError(inst.p1))
    /\ UNCHANGED <<rseed, stopped>>

Ret == /\ Executes({"ret"})
       /\ Finish(jump(Popped(regs, 4), top(4)), mem, FALSE)
       /\ UNCHANGED <<rseed, stopped>>

-----------------------------------------------------------------------------
(* System functions: the standard library of core/stdlib.cpp, and others   *)
(* of the host that leave the cpu alone. *)

Printing == {"print", "println"}

(* There is no zero byte for strlen to stop at inside the memory. *)
Unterminated(location) == \A c \in InMemory : c >= location => mem[c] # 0

NoSysfunc == Executes({"sys"})
    /\ \/ \A name \in sys_func_table : Hash[name] # value(inst.p1)
       \/ ~table_intact
    /\ Fault

SysQuiet == Executes({"sys"})
    /\ \E name \in sys_func_table \ {"get"} : Hash[name] = value(inst.p1)
    /\ Finish(regs, mem, ValueError(inst.p1))
    /\ UNCHANGED <<rseed, stopped>>

(* get() pushes one byte. *)
SysGet == Executes({"sys"})
    /\ "get" \in sys_func_table /\ Hash["get"] = value(inst.p1)
    /\ \E c \in Input :
        LET rg == Pushed(regs, 1) IN
        Finish(rg, mem_write(mem, rg[S], c, 1), ValueError(inst.p1))
    /\ UNCHANGED <<rseed, stopped>>

(* Printing a string reads on until a zero byte, and a lookup in a table   *)
(* that was written over does anything. *)
SysCrash == Executes({"sys"})
    /\ \/ \E name \in sys_func_table \cap Printing :
            /\ Hash[name] = value(inst.p1)
            /\ Unterminated(top(4))
       \/ ~table_intact
    /\ Crash

-----------------------------------------------------------------------------
(* Loading and storing. *)

Ld == LET p1 == inst.p1
          p2 == inst.p2
          v == IF inst.op = "lds" THEN signed_value(p2) ELSE value(p2)
          size == IF param_is_address(p2.mode) THEN 1
                  ELSE param_value_size(p2)
      IN
    /\ Executes({"ld", "lds"})
    /\ IF param_is_writable(p1.mode)
       THEN /\ Finish(RegistersAfter(p1, v), MemoryAfter(p1, v, size),
                      ValueError(p1) \/ ValueError(p2))
            /\ UNCHANGED <<rseed, stopped>>
       ELSE Fault

(* lw refuses a register smaller than a word; a register of no size is a   *)
(* word to it, and fails in reg_write. *)
Lw == LET p1 == inst.p1
          p2 == inst.p2
          v == IF inst.op = "lws" THEN signed_value(p2) ELSE value(p2)
          small == p1.mode = Register /\ register_size(p1.value) # 4
      IN
    /\ Executes({"lw", "lws"})
    /\ IF param_is_writable(p1.mode) /\ ~small
       THEN /\ Finish(RegistersAfter(p1, v), MemoryAfter(p1, v, 4),
                      ValueError(p1) \/ ValueError(p2))
            /\ UNCHANGED <<rseed, stopped>>
       ELSE Fault

Ldx == LET which == CASE inst.op = "lda" -> A [] inst.op = "ldb" -> B
                      [] inst.op = "ldc" -> C [] inst.op = "ldd" -> D
       IN
    /\ Executes({"lda", "ldb", "ldc", "ldd"})
    /\ Finish(reg_write(regs, which, value(inst.p1)), mem,
              ValueError(inst.p1))
    /\ UNCHANGED <<rseed, stopped>>

(* A register passes CHECK_WRITABLE but has no address: nothing is stored. *)
Stx == LET which == CASE inst.op = "sta" -> A [] inst.op = "stb" -> B
                      [] inst.op = "stc" -> C [] inst.op = "std" -> D
           p1 == inst.p1
       IN
    /\ Executes({"sta", "stb", "stc", "std"})
    /\ IF param_is_writable(p1.mode)
       THEN /\ Finish(regs, mem_write(mem, get_param_address(regs, p1),
                                      reg_read(regs, which), 4),
                      AddressError(p1))
            /\ UNCHANGED <<rseed, stopped>>
       ELSE Fault

Zero == LET p1 == inst.p1 IN
    /\ Executes({"zero"})
    /\ IF param_is_writable(p1.mode)
       THEN /\ Finish(RegistersAfter(p1, 0), MemoryAfter(p1, 0, 4),
                      ValueError(p1))
            /\ UNCHANGED <<rseed, stopped>>
       ELSE Fault

Push == LET p1 == inst.p1
            size == param_value_size(p1)
            rg == Pushed(regs, size)
        IN
    /\ Executes({"push"})
    /\ Finish(rg, mem_write(mem, rg[S], value(p1), size), ValueError(p1))
    /\ UNCHANGED <<rseed, stopped>>

(* A destination in memory is the parameter's value, whatever its mode:    *)
(* neither the register O nor a register address is taken into account. *)
Pop == LET p1 == inst.p1
           size == register_size(p1.value)
       IN
    /\ Executes({"pop"})
    /\ CASE p1.mode = Register ->
                /\ Finish(reg_write(Popped(regs, size), p1.value, top(size)),
                          mem, RegError(p1.value))
                /\ UNCHANGED <<rseed, stopped>>
         [] param_is_address(p1.mode) ->
                /\ Finish(Popped(regs, 4),
                          mem_write(mem, p1.value, top(4), 4), FALSE)
                /\ UNCHANGED <<rseed, stopped>>
         [] OTHER -> Fault

-----------------------------------------------------------------------------
(* Arithmetic. *)

operand(op, p) == IF op \in SignedRead THEN signed_value(p) ELSE value(p)
width(p) == IF p.mode = Register THEN register_size(p.value) ELSE 4

(* inc and dec look at the size class of the register themselves, and set  *)
(* R for the three valid classes only. *)
SkipsR(op, p) == op \in {"inc", "dec"} /\ p.mode = Register
                 /\ RegClass(p.value) > 2

Arithmetic == LET p1 == inst.p1
                  p2 == inst.p2
                  a == operand(inst.op, p1)
                  b == operand(inst.op, p2)
              IN
    /\ Executes(AluOps)
    /\ IF \/ ~param_is_writable(p1.mode)
          \/ inst.op \in DivisionOps /\ b = 0
       THEN Fault
       ELSE /\ \E out \in alu(inst.op, a, b, width(p1)) \cap AluOutcomes :
                LET rg == RegistersAfter(p1, out.res) IN
                Finish(IF out.r = NoR \/ SkipsR(inst.op, p1) THEN rg
                       ELSE write_r(rg, out.r),
                       MemoryAfter(p1, out.res, 4),
                       ValueError(p1) \/ ValueError(p2))
            /\ UNCHANGED <<rseed, stopped>>

(* The division instruction of some hosts traps where C++ leaves INT_MIN / *)
(* -1 undefined. *)
DivisionTrap == /\ Executes({"div", "mod"})
                /\ param_is_writable(inst.p1.mode)
                /\ DivOverflows(inst.op, signed_value(inst.p1),
                                signed_value(inst.p2))
                /\ Crash

Test == LET p1 == inst.p1
            p2 == inst.p2
            n == bit_trunc(value(p2), width(p1))
        IN
    /\ Executes({"test"})
    /\ Finish(write_r(regs, Bit(value(p1), n)), mem,
              ValueError(p1) \/ ValueError(p2))
    /\ UNCHANGED <<rseed, stopped>>

Rand == LET p1 == inst.p1
            seed == next_seed(rseed)
        IN
    /\ Executes({"rand"})
    /\ IF param_is_writable(p1.mode)
       THEN /\ \E v \in FloatBits \cap WordRange :
                Finish(write_r(RegistersAfter(p1, v), drawn(seed)),
                       MemoryAfter(p1, v, 4), ValueError(p1))
            /\ rseed' = seed
            /\ UNCHANGED stopped
       ELSE Fault

Rseed == /\ Executes({"rseed"})
         /\ Finish(regs, mem, ValueError(inst.p1))
         /\ rseed' = value(inst.p1)
         /\ UNCHANGED stopped

-----------------------------------------------------------------------------
Instruction ==
    \/ Hlt \/ Nop \/ Stop
    \/ Jump \/ Compare \/ Call \/ Ret
    \/ NoSysfunc \/ SysQuiet \/ SysGet \/ SysCrash
    \/ Ld \/ Lw \/ Ldx \/ Stx \/ Zero \/ Push \/ Pop
    \/ Arithmetic \/ DivisionTrap \/ Test \/ Rand \/ Rseed

(* What the thread inside run() does next. *)
Loop == LoopExit \/ InvalidPc \/ Stopped \/ Instruction

(* The process is over, or the host does nothing with the cpu any more. *)
Done == phase \in {"returned", "crashed"} /\ UNCHANGED vars

Next == \/ \E name \in SysNames : register_sysfunc(name)
        \/ StartRun
        \/ Loop
        \/ Done

(* run() is an ordinary loop in a thread of the host: it goes on as long   *)
(* as there is a next step.  Whether run() is called is up to the host. *)
Spec == Init /\ [][Next]_vars /\ WF_vars(Loop)

-----------------------------------------------------------------------------
(* An instruction that is fetched lies in the memory as a whole, whatever  *)
(* its bytes are: CPU::run checks the address of the first one only. *)
FetchInBounds == Fetching => /\ inst.len <= INSTRUCTION_MAX_LENGTH
                             /\ regs[P] + inst.len <= MEM_SIZE

(* A machine that has halted does not change any more: neither an error    *)
(* nor hlt lets another instruction take effect, and run() can be called   *)
(* again without any. *)
HaltIsFinal == [][halted => UNCHANGED machine]_vars

(* The stack, read as return addresses, and the program counter go through *)
(* the steps of the abstract specification of call and ret. *)
Frames == [i \in 1 .. (STACK_BEGIN - regs[S]) \div 4 |->
              mem_read(mem, regs[S] + 4 * (i - 1), 4)]

Discipline == INSTANCE CallDiscipline
              WITH at <- regs[P], frames <- Frames,
                   CallLengths <- 1 .. INSTRUCTION_MAX_LENGTH

CallsNest == Discipline!Spec
=============================================================================
