---------------------------- MODULE Host_proofs ----------------------------
(***************************************************************************)
(* Theorems about the host program and its cpu, for every set of names,    *)
(* every hash of them and every rom.                                       *)
(*                                                                         *)
(* The instructions of a program cannot reach the table of system          *)
(* functions, so that what holds of it follows from register_sysfunc       *)
(* alone; and a cpu that is halted before the first run() has its program  *)
(* counter wherever the set-up left it, and never moves it.                *)
(***************************************************************************)
EXTENDS Host, Tx8Cpu_proofs

-----------------------------------------------------------------------------
(* Inside run() neither the table of system functions nor the phase        *)
(* changes, unless the process dies. *)
LEMMA InstructionKeeps ==
    ASSUME Instruction
    PROVE  /\ phase = "running"
           /\ UNCHANGED sys_func_table
           /\ phase' \in {"running", "crashed"}
<1>1. phase = "running"
    BY DEF Instruction, Executes, Fetching, Running, Hlt, Nop, Stop, Jump,
       Compare, Call, Ret, NoSysfunc, SysQuiet, SysGet, SysCrash, Ld, Lw, Ldx,
       Stx, Zero, Push, Pop, Arithmetic, DivisionTrap, Test, Rand, Rseed
<1>2. Crash \/ \E rg, m, err : Finish(rg, m, err)
  <2>1. CASE Hlt \/ Nop \/ Stop \/ Jump \/ Call \/ Ret
      BY <2>1 DEF Hlt, Nop, Stop, Jump, Call, Ret
  <2>2. CASE Compare
    <3>1. PICK orders : \E order \in orders :
              Finish(write_r(regs, Word(order)), mem,
                     ValueError(inst.p1) \/ ValueError(inst.p2))
        BY <2>2 DEF Compare
    <3>2. QED
        BY <3>1
  <2>3. CASE NoSysfunc \/ SysQuiet \/ SysGet \/ SysCrash
      BY <2>3 DEF NoSysfunc, SysQuiet, SysGet, SysCrash, Fault
  <2>4. CASE Ld \/ Lw \/ Ldx \/ Stx \/ Zero
      BY <2>4 DEF Ld, Lw, Ldx, Stx, Zero, Fault
  <2>5. CASE Push
      BY <2>5 DEF Push
  <2>6. CASE Pop
    <3>1. Register # AbsoluteAddress /\ Register # RegisterAddress
        BY DEF Register, AbsoluteAddress, RegisterAddress
    <3>2. QED
        BY <2>6, <3>1 DEF Pop, Fault, param_is_address
  <2>7. CASE Arithmetic
      BY <2>7 DEF Arithmetic, Fault
  <2>8. CASE DivisionTrap \/ Test \/ Rand \/ Rseed
      BY <2>8 DEF DivisionTrap, Test, Rand, Rseed, Fault
  <2>9. QED
      BY <2>1, <2>2, <2>3, <2>4, <2>5, <2>6, <2>7, <2>8 DEF Instruction
<1>3. QED
    BY <1>1, <1>2 DEF Finish, Crash

-----------------------------------------------------------------------------
(* The ids of the functions in a table are distinct: the inductive part of *)
(* TableGrows. *)
Unambiguous(table) ==
    \A name, other \in table : Hash[name] = Hash[other] => name = other

LEMMA TableStep ==
    ASSUME Unambiguous(sys_func_table), [Next]_vars
    PROVE  /\ sys_func_table \subseteq sys_func_table'
           /\ Unambiguous(sys_func_table')
<1>1. ASSUME NEW name \in SysNames, register_sysfunc(name)
      PROVE  /\ sys_func_table \subseteq sys_func_table'
             /\ Unambiguous(sys_func_table')
    BY <1>1 DEF register_sysfunc, Unambiguous
<1>2. CASE Instruction
    BY <1>2, InstructionKeeps DEF Unambiguous
<1>3. CASE StartRun \/ LoopExit \/ InvalidPc \/ Stopped \/ UNCHANGED vars
    BY <1>3 DEF StartRun, LoopExit, InvalidPc, Stopped, Break, vars,
       Unambiguous
<1>4. QED
    BY <1>1, <1>2, <1>3 DEF Next, Loop, Done

(* A program that calls a system function by its id reaches the one the    *)
(* host registered first under that id, at any later time: whatever the    *)
(* names and their hashes are, no registration displaces another, and      *)
(* nothing the cpu executes removes one. *)
THEOREM TableOnlyGrows == Spec => TableGrows
<1>1. Init => Unambiguous(sys_func_table)
    BY DEF Init, Unambiguous
<1>2. Unambiguous(sys_func_table) /\ [Next]_vars
        => Unambiguous(sys_func_table)'
    BY TableStep
<1>3. Unambiguous(sys_func_table) /\ [Next]_vars =>
        /\ sys_func_table \subseteq sys_func_table'
        /\ \A name, other \in sys_func_table' :
             Hash[name] = Hash[other] => name = other
    BY TableStep DEF Unambiguous
<1>4. QED
    BY <1>1, <1>2, <1>3, PTL DEF Spec, TableGrows

-----------------------------------------------------------------------------
(* A halted machine, at a program counter. *)
Jammed(pc) == halted /\ regs[P] = pc /\ phase # "crashed"

LEMMA JammedStep ==
    ASSUME NEW pc, Jammed(pc), [Next]_vars
    PROVE  Jammed(pc)'
<1>1. UNCHANGED machine
    BY HaltedStep DEF Jammed
<1>2. phase' # "crashed"
  <2>1. ~(InvalidPc \/ Stopped \/ Instruction)
      BY HaltedIdle DEF Jammed
  <2>2. QED
      BY <2>1 DEF Next, Loop, Done, register_sysfunc, StartRun, LoopExit,
         vars, Jammed
<1>3. QED
    BY <1>1, <1>2 DEF Jammed, machine

(* A set-up that failed, by a rom that does not fit or by a registration   *)
(* of a hash that is taken, is final, whatever the members hold that a     *)
(* rejected rom leaves without a value: however often run() is called, no  *)
(* instruction of the program is executed, and the process does not die.   *)
THEOREM FailedSetupIsFinal == Spec => FailedSetupNeverRuns
<1>1. ASSUME NEW pc \in SetupPcs
      PROVE  Spec => [](phase = "host" /\ halted /\ regs[P] = pc
                           => [](regs[P] = pc /\ phase # "crashed"))
  <2>1. phase = "host" /\ halted /\ regs[P] = pc => Jammed(pc)
      BY DEF Jammed
  <2>2. Jammed(pc) /\ [Next]_vars => Jammed(pc)'
      BY JammedStep
  <2>3. Jammed(pc) => regs[P] = pc /\ phase # "crashed"
      BY DEF Jammed
  <2>4. QED
      BY <2>1, <2>2, <2>3, PTL DEF Spec
<1>2. QED
    BY <1>1 DEF FailedSetupNeverRuns

-----------------------------------------------------------------------------
(* The program that calls get. *)

(* No other function is reached by the id of get, and what get pushes does *)
(* not lie in the program. *)
GetCallable ==
    /\ "get" \in SysNames
    /\ \A name \in SysNames : Hash[name] = Hash["get"] => name = "get"
    /\ Size(GetProgram) <= ROM_SIZE /\ PcLimit
    /\ STACK_BEGIN > 0
    /\ STACK_BEGIN <= ROM_START \/ STACK_BEGIN > ROM_START + ROM_SIZE

(* Where it is, with what get returned on the stack and then in A. *)
BeforeGet == /\ regs[P] = At(GetProgram, 1)
             /\ regs[S] = STACK_BEGIN /\ regs[A] = 0
GetMissing == /\ halted /\ regs[P] = At(GetProgram, 2)
              /\ regs[S] = STACK_BEGIN /\ regs[A] = 0
BehindGet == /\ ~halted /\ regs[P] = At(GetProgram, 2)
             /\ regs[S] = STACK_BEGIN - 1 /\ regs[A] = 0
             /\ top(1) \in Input
BehindPop == /\ ~halted /\ regs[P] = At(GetProgram, 3)
             /\ regs[S] = STACK_BEGIN /\ regs[A] \in Input
GetDone == /\ halted /\ regs[P] = At(GetProgram, 4)
           /\ regs[S] = STACK_BEGIN /\ regs[A] \in Input

GetInv == /\ Built /\ Lies(mem, GetProgram)
          /\ table_intact = TRUE /\ stopped = FALSE
          /\ phase = "returned" => halted
          /\ phase = "host" => BeforeGet
          /\ BeforeGet \/ GetMissing \/ BehindGet \/ BehindPop \/ GetDone

LEMMA GetWritten ==
    ASSUME GetCallable
    PROVE  /\ Encodable(GetProgram) /\ Len(GetProgram) = 3
           /\ GetProgram[1] = Op1("sys", Long(Hash["get"]))
           /\ GetProgram[2] = Op1("pop", Reg(16))
           /\ GetProgram[3] = Op0("hlt")
           /\ Plain(Long(Hash["get"])) /\ Plain(Reg(16))
<1>1. /\ Len(GetProgram) = 3 /\ DOMAIN GetProgram = 1 .. 3
      /\ GetProgram[1] = Op1("sys", Long(Hash["get"]))
      /\ GetProgram[2] = Op1("pop", Reg(16))
      /\ GetProgram[3] = Op0("hlt")
    BY DEF GetProgram, LowByte, A
<1>2. Plain(Long(Hash["get"]))
  <2> DEFINE h == Hash["get"]
  <2>1. h \in WordRange
      BY CpuAssumption DEF GetCallable
  <2> HIDE DEF h
  <2>2. Plain(Long(h))
      BY <2>1, PlainLong
  <2>3. QED
      BY <2>2 DEF h
<1>3. Plain(Reg(16))
    BY PlainReg, CpuAssumption
<1>4. Written(GetProgram)
  <2> DEFINE prog == GetProgram
             p == Long(Hash["get"])
             q == Reg(16)
  <2> HIDE DEF prog, p, q
  <2>1. /\ "sys" \in OneParameter /\ "pop" \in OneParameter
        /\ "hlt" \in NoParameter
      BY DEF OneParameter, NoParameter
  <2>2. Given(prog, p) /\ Given(prog, q)
      BY <1>2, <1>3 DEF Given, p, q
  <2>3. /\ Len(prog) = 3 /\ DOMAIN prog = 1 .. 3
        /\ prog[1] = Op1("sys", p) /\ prog[2] = Op1("pop", q)
        /\ prog[3] = Op0("hlt")
      BY <1>1 DEF prog, p, q
  <2>4. Regular(prog, prog[1]) /\ Regular(prog, prog[2])
        /\ Regular(prog, prog[3])
      BY <2>1, <2>2, <2>3 DEF Regular
  <2>5. Written(prog)
      BY <2>3, <2>4 DEF Written
  <2>6. QED
      BY <2>5 DEF prog
<1>5. Encodable(GetProgram)
    BY <1>4, WrittenEncodable DEF GetCallable
<1>6. QED
    BY <1>1, <1>2, <1>3, <1>5

LEMMA GetInit ==
    ASSUME GetCallable, Init, Loaded(Assemble(GetProgram, ROM_START))
    PROVE  GetInv
<1>1. Built
    BY InitType, BuiltType DEF Loaded
<1>2. Lies(mem, GetProgram)
    BY GetWritten, ProgramLoaded
<1>3. Offset(GetProgram, 1) = 0 /\ ROM_START \in Nat
  <2>1. \A k \in 1 .. 0 : calculate_instruction_length(GetProgram[k]) \in Nat
      OBVIOUS
  <2>2. QED
      BY <2>1, OffsetsAre, CpuAssumption
<1>4. regs[P] = At(GetProgram, 1) /\ regs[S] = STACK_BEGIN /\ regs[A] = 0
  <2>1. regs[P] = ROM_START /\ regs[S] = STACK_BEGIN /\ regs[A] = 0
      BY DEF Loaded, InitialRegisters, P, S, A, REGISTER_COUNT, ENTRY_POINT
  <2>2. QED
      BY <1>3, <2>1 DEF At
<1>5. table_intact = TRUE /\ stopped = FALSE /\ phase = "host"
    BY DEF Init, Loaded
<1>6. QED
    BY <1>1, <1>2, <1>4, <1>5 DEF GetInv, BeforeGet

(* The instruction that calls get. *)
LEMMA GetCalled ==
    ASSUME GetCallable, GetInv, BeforeGet, Instruction
    PROVE  /\ Lies(mem', GetProgram)
           /\ table_intact' /\ UNCHANGED stopped /\ phase' = "running"
           /\ GetMissing' \/ BehindGet'
<1> DEFINE h == Hash["get"]
           prog == GetProgram
<1>1. /\ Built /\ regs \in RegisterFile /\ mem \in Memory
      /\ regs[P] = At(prog, 1) /\ regs[S] = STACK_BEGIN /\ regs[A] = 0
      /\ table_intact = TRUE
    BY DEF GetInv, BeforeGet, Built
<1>2. /\ op_function(mem[regs[P]]) = "sys"
      /\ inst.p1 = Long(h)
      /\ Word(regs[P] + inst.len) = At(prog, 2)
      /\ Size(prog) \in Nat
  <2>0. Len(prog) = 3 /\ 1 \in 1 .. 3
      BY GetWritten
  <2>1. /\ 1 \in 1 .. Len(prog) /\ Encodable(prog)
        /\ prog[1] = Op1("sys", Long(h))
        /\ Plain(Long(h))
      BY <2>0, GetWritten
  <2>2. Resolve(prog, ROM_START, Long(h)) = Long(h) /\ Read(Long(h)) = Long(h)
      BY <2>1, PlainRead
  <2>3. /\ Size(prog) <= ROM_SIZE /\ PcLimit /\ Lies(mem, prog)
        /\ Size(prog) \in Nat
      BY <2>1, Assembled DEF GetCallable, GetInv
  <2> HIDE DEF prog
  <2>4. /\ op_function(mem[regs[P]]) = prog[1].op
        /\ inst.p1 = Read(Resolve(prog, ROM_START, prog[1].p1))
        /\ Word(regs[P] + inst.len) = At(prog, 1 + 1)
      BY <1>1, <2>1, <2>3, Fetched
  <2>5. prog[1].op = "sys" /\ prog[1].p1 = Long(h)
      BY <2>1 DEF Op1
  <2>6. QED
      BY <2>2, <2>3, <2>4, <2>5
<1>3. /\ value(inst.p1) = h /\ ValueError(inst.p1) = FALSE
  <2>1. inst.p1.mode = Constant32 /\ inst.p1.value = h
      BY <1>2 DEF Long, Param
  <2> HIDE DEF h
  <2>2. QED
      BY <2>1 DEF value, get_param_value, ValueError, Constant32,
         Constant8, Constant16, Register, RegisterAddress, AbsoluteAddress,
         RelativeAddress
<1>4. phase = "running"
    BY HandlerOf DEF Fetching, Running
<1>5. \A name \in sys_func_table : Hash[name] = h => name = "get"
    BY <1>1 DEF Built, GetCallable
<1>6. NoSysfunc \/ SysQuiet \/ SysGet \/ SysCrash
    BY <1>2, HandlerOf
<1>7. ASSUME NEW rg, Goes(rg, mem, TRUE), rg = regs, UNCHANGED stopped
      PROVE  /\ mem' = mem /\ table_intact' /\ GetMissing'
             /\ UNCHANGED stopped /\ phase' = "running"
    BY <1>1, <1>2, <1>4, <1>7 DEF Goes, GetMissing, P, S, A, REGISTER_COUNT
<1>8. CASE NoSysfunc
  <2>1. Finish(regs, mem, TRUE) /\ UNCHANGED stopped
      BY <1>8 DEF NoSysfunc, Fault
  <2>2. Goes(regs, mem, TRUE)
      BY <1>1, <2>1, FinishGoes
  <2>3. QED
      BY <1>7, <2>1, <2>2 DEF GetInv
<1>9. ~SysQuiet
    BY <1>3, <1>5 DEF SysQuiet
<1>10. ~SysCrash
    BY <1>1, <1>3, <1>5 DEF SysCrash, Printing
<1>11. CASE SysGet
  <2> DEFINE rg == Pushed(regs, 1)
             a == STACK_BEGIN - 1
  <2>1. PICK c \in Input : Finish(rg, mem_write(mem, rg[S], c, 1), FALSE)
      BY <1>3, <1>11 DEF SysGet
  <2>2. UNCHANGED stopped
      BY <1>11 DEF SysGet
  <2>3. /\ STACK_BEGIN \in Nat /\ STACK_BEGIN > 0 /\ STACK_BEGIN < MEM_SIZE
        /\ MEM_SIZE \in Nat
        /\ ROM_START \in Nat /\ ROM_SIZE \in Nat
        /\ a + 1 <= ROM_START \/ ROM_START + ROM_SIZE <= a
        /\ a \in Nat /\ a + 1 <= MEM_SIZE
      BY CpuAssumption, MemAssumption DEF GetCallable
  <2>4. rg[S] = a /\ rg \in RegisterFile
      BY <1>1, <2>3, StackMove
  <2>5. /\ rg[A] = regs[A] /\ rg[P] = regs[P]
        /\ rg[REGISTER_COUNT] = regs[REGISTER_COUNT]
      BY <1>1 DEF Pushed, RegisterFile, A, P, S, REGISTER_COUNT
  <2> DEFINE m == mem_write(mem, a, c, 1)
  <2>6. Goes(rg, m, FALSE)
      BY <2>1, <2>4, FinishGoes
  <2>7. c \in ByteRange /\ c \in WordRange /\ BYTE \in Nat \ {0}
      BY CpuAssumption, Widths DEF ByteRange, WordRange
  <2>8. Lies(m, prog)
    <3>1. Size(prog) <= ROM_SIZE /\ Lies(mem, prog)
        BY DEF GetCallable, GetInv
    <3>2. a + 1 <= ROM_START \/ ROM_START + Size(prog) <= a
        BY <1>2, <2>3, <3>1
    <3> HIDE DEF prog, a
    <3>3. QED
        BY <1>1, <1>2, <2>3, <3>1, <3>2, LiesKept DEF m
  <2>9. mem_read(m, a, 1) = c
    <3> HIDE DEF a
    <3>1. mem_read(m, a, 1) = c % Capacity(1)
        BY <1>1, <2>3, <2>7, ReadAfterWrite DEF m
    <3>2. c % Capacity(1) = c
        BY <2>7, SmallMod DEF Capacity, ByteRange
    <3>3. QED
        BY <3>1, <3>2
  <2> HIDE DEF rg, m, a, prog
  <2>10. /\ mem' = m /\ halted' = FALSE /\ phase' = "running"
         /\ regs'[S] = a /\ regs'[A] = 0 /\ regs'[P] = At(prog, 2)
         /\ table_intact' = TRUE
      BY <1>1, <1>2, <1>4, <2>4, <2>5, <2>6 DEF Goes, A, P, S, REGISTER_COUNT
  <2>11. top(1)' = c
      BY <2>9, <2>10 DEF top
  <2>12. QED
      BY <2>2, <2>8, <2>10, <2>11 DEF BehindGet, a, prog
<1>12. QED
    BY <1>6, <1>8, <1>9, <1>10, <1>11

(* The instruction that takes it from the stack. *)
LEMMA GetPopped ==
    ASSUME GetCallable, GetInv, BehindGet, Instruction
    PROVE  /\ mem' = mem
           /\ table_intact' /\ UNCHANGED stopped /\ phase' = "running"
           /\ BehindPop'
<1> DEFINE prog == GetProgram
           v == top(1)
           popped == Popped(regs, 1)
           rg == reg_write(popped, 16, v)
<1>1. /\ Built /\ regs \in RegisterFile /\ mem \in Memory
      /\ regs[P] = At(prog, 2) /\ regs[S] = STACK_BEGIN - 1 /\ regs[A] = 0
      /\ table_intact = TRUE /\ v \in Input
    BY DEF GetInv, BehindGet, Built
<1>2. /\ op_function(mem[regs[P]]) = "pop"
      /\ inst.p1 = Reg(16)
      /\ Word(regs[P] + inst.len) = At(prog, 3)
  <2>0. Len(prog) = 3 /\ 2 \in 1 .. 3
      BY GetWritten
  <2>1. /\ 2 \in 1 .. Len(prog) /\ Encodable(prog)
        /\ prog[2] = Op1("pop", Reg(16))
        /\ Plain(Reg(16))
      BY <2>0, GetWritten
  <2>2. Resolve(prog, ROM_START, Reg(16)) = Reg(16) /\ Read(Reg(16)) = Reg(16)
      BY <2>1, PlainRead
  <2>3. Size(prog) <= ROM_SIZE /\ PcLimit /\ Lies(mem, prog)
      BY DEF GetCallable, GetInv
  <2> HIDE DEF prog
  <2>4. /\ op_function(mem[regs[P]]) = prog[2].op
        /\ inst.p1 = Read(Resolve(prog, ROM_START, prog[2].p1))
        /\ Word(regs[P] + inst.len) = At(prog, 2 + 1)
      BY <1>1, <2>1, <2>3, Fetched
  <2>5. prog[2].op = "pop" /\ prog[2].p1 = Reg(16)
      BY <2>1 DEF Op1
  <2>6. QED
      BY <2>2, <2>3, <2>4, <2>5
<1>3. /\ inst.p1.mode = Register /\ inst.p1.value = 16
      /\ register_size(16) = 1 /\ RegError(16) = FALSE /\ RegId(16) = 0
  <2>1. 16 \div 16 = 1 /\ 16 % 16 = 0
      OBVIOUS
  <2>2. QED
      BY <1>2, <2>1 DEF Reg, Param, register_size, RegClass, RegError, RegId,
         REGISTER_COUNT
<1>4. phase = "running"
    BY HandlerOf DEF Fetching, Running
<1>5. Pop
    BY <1>2, HandlerOf
<1>6. Finish(rg, mem, FALSE) /\ UNCHANGED stopped
  <2>1. ~param_is_address(inst.p1.mode)
      BY <1>3 DEF param_is_address, Register, AbsoluteAddress,
         RelativeAddress, RegisterAddress
  <2>2. QED
      BY <1>3, <1>5, <2>1 DEF Pop
<1>7. /\ STACK_BEGIN \in Nat /\ STACK_BEGIN < MEM_SIZE /\ MEM_SIZE \in Nat
      /\ v \in ByteRange /\ v \in WordRange /\ BYTE \in Nat \ {0}
      /\ Capacity(1) = BYTE
  <2>1. v \in ByteRange /\ STACK_BEGIN \in Nat /\ STACK_BEGIN < MEM_SIZE
      BY <1>1, CpuAssumption
  <2>2. /\ MEM_SIZE \in Nat /\ BYTE \in Nat \ {0} /\ WORD \in Nat
        /\ BYTE <= WORD
      BY MemAssumption, Widths
  <2> HIDE DEF v
  <2>3. v \in WordRange
      BY <2>1, <2>2 DEF ByteRange, WordRange
  <2>4. QED
      BY <2>1, <2>2, <2>3 DEF Capacity
<1>8. popped[S] = STACK_BEGIN /\ popped \in RegisterFile
    BY <1>1, <1>7, StackMove
<1>9. /\ popped[A] = 0 /\ popped[P] = regs[P]
      /\ popped[REGISTER_COUNT] = regs[REGISTER_COUNT]
    BY <1>1 DEF Popped, RegisterFile, A, P, S, REGISTER_COUNT
<1> HIDE DEF popped, v
<1>10. v % BYTE = v /\ 0 % BYTE = 0
    BY <1>7, SmallMod DEF ByteRange
<1>11. rg = [popped EXCEPT ![0] = (@ - (@ % BYTE)) + (v % BYTE)]
    BY <1>3, <1>7 DEF reg_write
<1>12. /\ rg \in RegisterFile
       /\ rg[A] = v /\ rg[S] = STACK_BEGIN /\ rg[P] = regs[P]
       /\ rg[REGISTER_COUNT] = regs[REGISTER_COUNT]
  <2>1. rg[A] = (0 - 0) + v
    <3>1. popped[0] = 0 /\ 0 \in DOMAIN popped
        BY <1>8, <1>9 DEF RegisterFile, A, REGISTER_COUNT
    <3>2. rg[0] = (popped[0] - (popped[0] % BYTE)) + (v % BYTE)
        BY <1>11, <3>1
    <3> HIDE DEF rg
    <3>3. QED
        BY <1>10, <3>1, <3>2 DEF A
  <2>2. (0 - 0) + v = v
      BY <1>7 DEF ByteRange
  <2>3. rg \in RegisterFile
      BY <1>7, <1>8, RegWriteType DEF WordRange
  <2> HIDE DEF rg
  <2>4. QED
      BY <1>8, <1>9, <1>11, <2>1, <2>2, <2>3
         DEF RegisterFile, A, P, S, REGISTER_COUNT
<1> HIDE DEF rg, prog
<1>13. Goes(rg, mem, FALSE)
    BY <1>6, <1>12, FinishGoes
<1>14. QED
    BY <1>1, <1>2, <1>4, <1>6, <1>12, <1>13
       DEF Goes, BehindPop, A, P, S, REGISTER_COUNT, prog

(* The end of the program. *)
LEMMA GetHalts ==
    ASSUME GetCallable, GetInv, BehindPop, Instruction
    PROVE  /\ mem' = mem
           /\ table_intact' /\ UNCHANGED stopped /\ phase' = "running"
           /\ GetDone'
<1> DEFINE prog == GetProgram
<1>1. /\ Built /\ regs \in RegisterFile
      /\ regs[P] = At(prog, 3) /\ regs[S] = STACK_BEGIN /\ regs[A] \in Input
      /\ table_intact = TRUE
    BY DEF GetInv, BehindPop, Built
<1>2. /\ op_function(mem[regs[P]]) = "hlt"
      /\ Word(regs[P] + inst.len) = At(prog, 4)
  <2>0. Len(prog) = 3 /\ 3 \in 1 .. 3
      BY GetWritten
  <2>1. 3 \in 1 .. Len(prog) /\ Encodable(prog) /\ prog[3] = Op0("hlt")
      BY <2>0, GetWritten
  <2>2. Size(prog) <= ROM_SIZE /\ PcLimit /\ Lies(mem, prog)
      BY DEF GetCallable, GetInv
  <2> HIDE DEF prog
  <2>3. /\ op_function(mem[regs[P]]) = prog[3].op
        /\ Word(regs[P] + inst.len) = At(prog, 3 + 1)
      BY <1>1, <2>1, <2>2, Fetched
  <2>4. prog[3].op = "hlt"
      BY <2>1 DEF Op0
  <2>5. QED
      BY <2>3, <2>4
<1>3. phase = "running"
    BY HandlerOf DEF Fetching, Running
<1>4. Finish(regs, mem, TRUE) /\ UNCHANGED stopped
    BY <1>2, HandlerOf DEF Hlt
<1>5. Goes(regs, mem, TRUE)
    BY <1>1, <1>4, FinishGoes
<1> HIDE DEF prog
<1>6. QED
    BY <1>1, <1>2, <1>3, <1>4, <1>5
       DEF Goes, GetDone, A, P, S, REGISTER_COUNT, prog

LEMMA GetStep ==
    ASSUME GetCallable, GetInv, [Next]_vars
    PROVE  GetInv'
<1>1. Built /\ Built'
    BY NextType DEF GetInv
<1>2. CASE Aside
  <2>1. ASSUME ~halted
        PROVE  ValidPc
    <3>1. Len(GetProgram) = 3 /\ Encodable(GetProgram)
        BY GetWritten
    <3>2. Size(GetProgram) <= ROM_SIZE /\ PcLimit /\ Lies(mem, GetProgram)
        BY DEF GetCallable, GetInv
    <3>3. \A k \in 1 .. 3 : regs[P] = At(GetProgram, k) => ValidPc
        BY <1>1, <3>1, <3>2, Fetched
    <3>4. \E k \in 1 .. 3 : regs[P] = At(GetProgram, k)
      <4>1. 1 \in 1 .. 3 /\ 2 \in 1 .. 3 /\ 3 \in 1 .. 3
          OBVIOUS
      <4>2. QED
          BY <2>1, <4>1 DEF GetInv, BeforeGet, GetMissing, BehindGet,
             BehindPop, GetDone
    <3>5. QED
        BY <3>3, <3>4
  <2>2. /\ UNCHANGED <<mem, regs, stopped, table_intact>>
        /\ top(1)' = top(1)
        /\ Lies(mem, GetProgram)'
      BY <1>2 DEF Aside, GetInv, top
  <2>3. /\ halted => halted'
        /\ phase' = "host" => BeforeGet
        /\ phase' = "returned" => halted'
        /\ BeforeGet \/ halted' = halted
      BY <1>2, <2>1 DEF Aside, GetInv, HostTurn
  <2>4. /\ table_intact' = TRUE /\ stopped' = FALSE
        /\ BeforeGet => BeforeGet'
        /\ GetMissing => GetMissing'
        /\ GetDone => GetDone'
        /\ halted' = halted /\ BehindGet => BehindGet'
        /\ halted' = halted /\ BehindPop => BehindPop'
      BY <2>2, <2>3 DEF GetInv, BeforeGet, GetMissing, BehindGet, BehindPop,
         GetDone
  <2>5. QED
      BY <1>1, <2>2, <2>3, <2>4 DEF GetInv
<1>3. CASE Instruction
  <2>1. ~halted
      BY <1>3, HandlerOf DEF Fetching, Running
  <2>2. BeforeGet \/ BehindGet \/ BehindPop
      BY <2>1 DEF GetInv, GetMissing, GetDone
  <2>3. /\ Lies(mem', GetProgram)
        /\ table_intact' = TRUE /\ stopped' = FALSE /\ phase' = "running"
        /\ GetMissing' \/ BehindGet' \/ BehindPop' \/ GetDone'
    <3>1. Lies(mem, GetProgram) /\ stopped = FALSE
        BY DEF GetInv
    <3>2. table_intact' \in BOOLEAN
        BY <1>1 DEF Built
    <3>3. CASE BeforeGet
        BY <1>3, <3>1, <3>2, <3>3, GetCalled
    <3>4. CASE BehindGet
        BY <1>3, <3>1, <3>2, <3>4, GetPopped
    <3>5. CASE BehindPop
        BY <1>3, <3>1, <3>2, <3>5, GetHalts
    <3>6. QED
        BY <2>2, <3>3, <3>4, <3>5
  <2>4. Lies(mem, GetProgram)'
      BY <2>3 DEF Lies
  <2>5. QED
      BY <1>1, <2>3, <2>4 DEF GetInv
<1>4. QED
    BY <1>1, <1>2, <1>3, AsideOrInstruction

(* The call of get behaves as an instruction: in every run of a program    *)
(* that calls it and pops one byte, what getc returned is in A at the end  *)
(* and the stack is as it was; if get was not registered, or the setup     *)
(* failed, the program ends at the call with nothing changed. *)
THEOREM GetIsBalanced ==
    ASSUME GetCallable
    PROVE  Spec /\ Loaded(Assemble(GetProgram, ROM_START))
                => []GetBalancesStack
<1>1. Init /\ Loaded(Assemble(GetProgram, ROM_START)) => GetInv
    BY GetInit
<1>2. GetInv /\ [Next]_vars => GetInv'
    BY GetStep
<1>3. GetInv => GetBalancesStack
  <2> SUFFICES ASSUME GetInv, phase = "returned"
               PROVE  /\ regs[S] = STACK_BEGIN
                      /\ IF regs[P] <= ENTRY_POINT + Offset(GetProgram, 2)
                         THEN regs[A] = 0 ELSE regs[A] \in Input
      BY DEF GetBalancesStack
  <2>1. BeforeGet \/ GetMissing \/ GetDone
      BY DEF GetInv, BehindGet, BehindPop
  <2>2. /\ ENTRY_POINT + Offset(GetProgram, 2) = At(GetProgram, 2)
        /\ At(GetProgram, 1) \in Nat /\ At(GetProgram, 2) \in Nat
        /\ At(GetProgram, 3) \in Nat /\ At(GetProgram, 4) \in Nat
        /\ At(GetProgram, 1) < At(GetProgram, 2)
        /\ At(GetProgram, 2) < At(GetProgram, 3)
        /\ At(GetProgram, 3) < At(GetProgram, 4)
    <3>1. /\ Len(GetProgram) = 3 /\ Encodable(GetProgram)
          /\ Size(GetProgram) <= ROM_SIZE
          /\ mem \in Memory /\ Lies(mem, GetProgram)
        BY GetWritten DEF GetCallable, GetInv, Built
    <3>2. \A k \in 1 .. 3 : /\ At(GetProgram, k) \in Nat
                            /\ At(GetProgram, k + 1) \in Nat
                            /\ At(GetProgram, k) < At(GetProgram, k + 1)
      <4> SUFFICES ASSUME NEW k \in 1 .. 3
                   PROVE  /\ At(GetProgram, k) \in Nat
                          /\ At(GetProgram, k + 1) \in Nat
                          /\ At(GetProgram, k) < At(GetProgram, k + 1)
          OBVIOUS
      <4>1. QED
          BY <3>1, ProgramGrows
    <3>3. /\ 1 \in 1 .. 3 /\ 2 \in 1 .. 3 /\ 3 \in 1 .. 3
          /\ 1 + 1 = 2 /\ 2 + 1 = 3 /\ 3 + 1 = 4
        OBVIOUS
    <3>4. QED
        BY <3>2, <3>3 DEF At, ENTRY_POINT
  <2>3. QED
      BY <2>1, <2>2 DEF BeforeGet, GetMissing, GetDone
<1>4. QED
    BY <1>1, <1>2, <1>3, PTL DEF Spec
=============================================================================
