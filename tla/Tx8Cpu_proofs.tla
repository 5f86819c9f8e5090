--------------------------- MODULE Tx8Cpu_proofs ---------------------------
(***************************************************************************)
(* Theorems about the cpu, for every width of a byte, size of the memory,  *)
(* rom, table of system functions and input.                               *)
(*                                                                         *)
(* TypeOK is inductive: each handler leaves a memory and a register file   *)
(* behind because each helper does (Tx8Isa_proofs), whatever the           *)
(* instruction, the modes and the addresses are.  What the machine does    *)
(* at the head of the loop follows from it, and that calls nest.           *)
(***************************************************************************)
EXTENDS Tx8Cpu, Tx8Isa_proofs

-----------------------------------------------------------------------------
(* The types of a cpu whose constructor ran to its end. *)
Built ==
    /\ mem \in Memory
    /\ regs \in RegisterFile
    /\ rseed \in WordRange
    /\ halted \in BOOLEAN
    /\ stopped \in BOOLEAN
    /\ sys_func_table \subseteq SysNames
    /\ table_intact \in BOOLEAN
    /\ phase \in Phases

(* A cpu that executes an instruction is one. *)
LEMMA BuiltType ==
    /\ Built => TypeOK
    /\ TypeOK /\ ~halted => Built
BY DEF Built, TypeOK

-----------------------------------------------------------------------------
(* The instruction that is fetched. *)

LEMMA InstType ==
    ASSUME Built, ValidPc
    PROVE  /\ inst.op = op_function(mem[regs[P]])
           /\ inst.p1 \in DecodedParams
           /\ inst.p2 \in DecodedParams
           /\ inst.len \in 1 .. 10
           /\ regs[P] + 10 < MEM_SIZE
<1>1. regs[P] \in Nat
    BY DEF Built, RegisterFile, REGISTER_COUNT, P, WordRange
<1>2. regs[P] + 10 < MEM_SIZE
    BY <1>1, CpuAssumption, MemAssumption DEF ValidPc, PC_LIMIT
<1>3. regs[P] + 10 \in Cells
    BY <1>1, <1>2, MemAssumption DEF Cells
<1>4. QED
    BY <1>1, <1>2, <1>3, ParseType DEF inst, Built

-----------------------------------------------------------------------------
(* Types of what the handlers compute. *)

LEMMA RegisterUpdate ==
    ASSUME NEW rg \in RegisterFile, NEW id \in 0 .. REGISTER_COUNT,
           NEW v \in WordRange
    PROVE  [rg EXCEPT ![id] = v] \in RegisterFile
BY DEF RegisterFile

LEMMA ValueType ==
    ASSUME Built, NEW p \in DecodedParams
    PROVE  /\ value(p) \in WordRange
           /\ signed_value(p) \in WordRange
           /\ value(p) \in Int /\ signed_value(p) \in Int
BY ParamTypes DEF Built, value, signed_value, WordRange

LEMMA JumpType ==
    ASSUME NEW rg \in RegisterFile, NEW location \in WordRange
    PROVE  jump(rg, location) \in RegisterFile
BY RegisterUpdate DEF jump, P, REGISTER_COUNT

LEMMA WriteRType ==
    ASSUME NEW rg \in RegisterFile, NEW v \in Int
    PROVE  write_r(rg, v) \in RegisterFile
BY RegWriteType DEF write_r, R

LEMMA StackType ==
    ASSUME NEW rg \in RegisterFile, NEW size \in Nat
    PROVE  /\ Pushed(rg, size) \in RegisterFile
           /\ Pushed(rg, size)[S] \in Nat
           /\ Popped(rg, size) \in RegisterFile
<1>1. S \in 0 .. REGISTER_COUNT /\ rg[S] \in Int
    BY DEF S, REGISTER_COUNT, RegisterFile, WordRange
<1>2. Word(rg[S] - size) \in WordRange /\ Word(rg[S] + size) \in WordRange
    BY <1>1, WordType
<1>3. Pushed(rg, size) \in RegisterFile /\ Popped(rg, size) \in RegisterFile
    BY <1>1, <1>2, RegisterUpdate DEF Pushed, Popped
<1>4. QED
    BY <1>1, <1>3 DEF RegisterFile, WordRange

LEMMA TopType ==
    ASSUME Built, NEW size \in 0 .. 4
    PROVE  top(size) \in WordRange
<1>1. regs[S] \in Nat
    BY DEF Built, RegisterFile, REGISTER_COUNT, S, WordRange
<1>2. QED
    BY <1>1, MemReadType DEF Built, top

LEMMA DestinationType ==
    ASSUME Built, NEW p \in DecodedParams, NEW v \in WordRange,
           NEW size \in 0 .. 4
    PROVE  /\ RegistersAfter(p, v) \in RegisterFile
           /\ MemoryAfter(p, v, size) \in Memory
<1>1. p.value \in Nat /\ v \in Int
    BY DEF DecodedParams, WordRange
<1>2. RegistersAfter(p, v) \in RegisterFile
    BY <1>1, RegWriteType DEF RegistersAfter, Built
<1>3. get_param_address(regs, p) \in Nat
    BY ParamTypes DEF Built
<1>4. QED
    BY <1>2, <1>3, MemWriteType DEF MemoryAfter, Built

(* The random number generator: the next seed is a word, and what is drawn *)
(* from it a number. *)
LEMMA DrawnType ==
    ASSUME NEW s \in WordRange
    PROVE  next_seed(s) \in WordRange /\ drawn(next_seed(s)) \in Int
<1> DEFINE seed == next_seed(s)
<1>1. s * RAND_MUL + RAND_ADD \in Int
    BY RandAssumption DEF WordRange
<1>2. seed \in WordRange
    BY <1>1, WordType DEF next_seed
<1> HIDE DEF seed
<1> DEFINE q == seed \div SHORT
<1>3. q \in Nat /\ RANDOM_MAX + 1 \in Nat \ {0}
    BY <1>2, RandAssumption, Widths, DivMod DEF WordRange
<1> HIDE DEF q
<1>4. q % (RANDOM_MAX + 1) \in 0 .. (RANDOM_MAX + 1) - 1
    BY <1>3, ModRange
<1>5. QED
    BY <1>2, <1>4 DEF drawn, q, seed

LEMMA ErrorType ==
    ASSUME NEW p
    PROVE  /\ ValueError(p) \in BOOLEAN
           /\ AddressError(p) \in BOOLEAN
           /\ RegError(p.value) \in BOOLEAN
BY DEF ValueError, AddressError, RegError

-----------------------------------------------------------------------------
(* The end of a handler. *)

LEMMA FinishType ==
    ASSUME Built, ValidPc,
           NEW rg \in RegisterFile, NEW m \in Memory, NEW err \in BOOLEAN,
           Finish(rg, m, err), rseed' \in WordRange, stopped' \in BOOLEAN
    PROVE  Built'
<1>1. regs' \in RegisterFile
  <2>1. P \in 0 .. REGISTER_COUNT /\ regs[P] \in Int
      BY DEF P, REGISTER_COUNT, Built, RegisterFile, WordRange
  <2>2. inst.len \in Int
      BY InstType
  <2>3. Word(regs[P] + inst.len) \in WordRange
      BY <2>1, <2>2, WordType
  <2>4. [rg EXCEPT ![P] = Word(regs[P] + inst.len)] \in RegisterFile
      BY <2>1, <2>3, RegisterUpdate
  <2>5. QED
      BY <2>4 DEF Finish, Incremented
<1>2. /\ mem' \in Memory /\ halted' \in BOOLEAN
      /\ table_intact' \in BOOLEAN
      /\ sys_func_table' \subseteq SysNames /\ phase' \in Phases
    BY DEF Finish, Built
<1>3. QED
    BY <1>1, <1>2 DEF Built

(* The same for a handler that leaves the other two parts of the machine   *)
(* alone, and for one that only reports an error. *)
LEMMA QuietFinishType ==
    ASSUME Built, ValidPc,
           NEW rg \in RegisterFile, NEW m \in Memory, NEW err \in BOOLEAN,
           Finish(rg, m, err), UNCHANGED <<rseed, stopped>>
    PROVE  Built'
<1>1. rseed' \in WordRange /\ stopped' \in BOOLEAN
    BY DEF Built
<1>2. QED
    BY <1>1, FinishType

LEMMA FaultType ==
    ASSUME Built, ValidPc, Fault
    PROVE  Built'
<1>1. regs \in RegisterFile /\ mem \in Memory /\ TRUE \in BOOLEAN
    BY DEF Built
<1>2. Finish(regs, mem, TRUE) /\ UNCHANGED <<rseed, stopped>>
    BY DEF Fault
<1>3. QED
    BY <1>1, <1>2, QuietFinishType

LEMMA CrashType ==
    ASSUME Built, Crash
    PROVE  Built'
BY DEF Built, Crash, machine, Phases

-----------------------------------------------------------------------------
(* The handlers keep the types. *)

LEMMA InstructionType ==
    ASSUME Built, Instruction
    PROVE  Built'
<1> DEFINE p1 == inst.p1
           p2 == inst.p2
<1>0. ValidPc
    BY DEF Instruction, Executes, Fetching, Hlt, Nop, Stop, Jump, Compare,
           Call, Ret, NoSysfunc, SysQuiet, SysGet, SysCrash, Ld, Lw, Ldx, Stx,
           Zero, Push, Pop, Arithmetic, DivisionTrap, Test, Rand, Rseed
<1>1. p1 \in DecodedParams /\ p2 \in DecodedParams /\ inst.len \in Nat
    BY <1>0, InstType
<1>2. regs \in RegisterFile /\ mem \in Memory /\ regs[P] \in Nat
    BY DEF Built, RegisterFile, REGISTER_COUNT, P, WordRange
<1>3. /\ ValueError(p1) \in BOOLEAN /\ ValueError(p2) \in BOOLEAN
      /\ (ValueError(p1) \/ ValueError(p2)) \in BOOLEAN
      /\ AddressError(p1) \in BOOLEAN /\ RegError(p1.value) \in BOOLEAN
    BY ErrorType
<1>4. /\ value(p1) \in WordRange /\ signed_value(p1) \in WordRange
      /\ value(p2) \in WordRange /\ signed_value(p2) \in WordRange
      /\ value(p1) \in Int
    BY <1>1, ValueType
<1> HIDE DEF p1, p2
<1>5. CASE Hlt
    BY <1>0, <1>2, <1>5, QuietFinishType DEF Hlt
<1>6. CASE Nop
    BY <1>0, <1>2, <1>6, QuietFinishType DEF Nop
<1>7. CASE Stop
  <2>1. /\ Finish(regs, mem, FALSE)
        /\ rseed' \in WordRange /\ stopped' \in BOOLEAN
      BY <1>7 DEF Stop, Built
  <2>2. QED
      BY <1>0, <1>2, <2>1, FinishType
<1>8. CASE Jump
  <2>1. jump(regs, value(p1)) \in RegisterFile
      BY <1>2, <1>4, JumpType
  <2>2. /\ \/ Finish(jump(regs, value(p1)), mem, ValueError(p1))
           \/ Finish(regs, mem, FALSE)
        /\ UNCHANGED <<rseed, stopped>>
      BY <1>8 DEF Jump, p1
  <2>3. QED
      BY <1>0, <1>2, <1>3, <2>1, <2>2, QuietFinishType
<1>9. CASE Compare
  <2>1. PICK order \in Int :
            /\ Finish(write_r(regs, Word(order)), mem,
                      ValueError(p1) \/ ValueError(p2))
            /\ UNCHANGED <<rseed, stopped>>
    <3>1. \A x, y \in Int : CMP(x, y) \in Int
        BY DEF CMP, SGN
    <3>2. /\ Signed(signed_value(p1), 4) \in Int
          /\ Signed(signed_value(p2), 4) \in Int
          /\ value(p1) \in Int /\ value(p2) \in Int
        BY <1>4, SignedType DEF WordRange
    <3>3. inst.op \in {"cmp", "ucmp", "fcmp"}
        BY <1>0, <1>9, InstType DEF Compare, Executes
    <3>4. QED
        BY <1>9, <3>1, <3>2, <3>3 DEF Compare, p1, p2
  <2>2. write_r(regs, Word(order)) \in RegisterFile
      BY <1>2, WordType, WriteRType DEF WordRange
  <2>3. QED
      BY <1>0, <1>2, <1>3, <2>1, <2>2, QuietFinishType
<1>10. CASE Call
  <2> DEFINE rg == Pushed(regs, 4)
             m == mem_write(mem, rg[S], Word(regs[P] + inst.len), 4)
  <2>1. rg \in RegisterFile /\ rg[S] \in Nat
      BY <1>2, StackType
  <2>2. m \in Memory
    <3>1. Word(regs[P] + inst.len) \in WordRange
        BY <1>1, <1>2, WordType
    <3>2. QED
        BY SMTT(30), <1>2, <2>1, <3>1, MemWriteType
  <2>3. /\ Finish(jump(rg, get_param_value(m, rg, p1)), m, ValueError(p1))
        /\ UNCHANGED <<rseed, stopped>>
      BY <1>10 DEF Call, p1
  <2> HIDE DEF rg, m
  <2>4. jump(rg, get_param_value(m, rg, p1)) \in RegisterFile
      BY <1>1, <2>1, <2>2, ParamTypes, JumpType
  <2>5. QED
      BY <1>0, <1>3, <2>2, <2>3, <2>4, QuietFinishType
<1>11. CASE Ret
  <2>1. jump(Popped(regs, 4), top(4)) \in RegisterFile
      BY <1>2, StackType, TopType, JumpType
  <2>2. QED
      BY <1>0, <1>2, <1>11, <2>1, QuietFinishType DEF Ret
<1>12. CASE NoSysfunc
    BY <1>0, <1>12, FaultType DEF NoSysfunc
<1>13. CASE SysQuiet
    BY <1>0, <1>2, <1>3, <1>13, QuietFinishType DEF SysQuiet, p1
<1>14. CASE SysGet
  <2> DEFINE rg == Pushed(regs, 1)
  <2>1. rg \in RegisterFile /\ rg[S] \in Nat
      BY <1>2, StackType
  <2>2. PICK c \in Input :
            /\ Finish(rg, mem_write(mem, rg[S], c, 1), ValueError(p1))
            /\ UNCHANGED <<rseed, stopped>>
      BY <1>14 DEF SysGet, p1
  <2>3. c \in WordRange
      BY CpuAssumption, Widths DEF ByteRange, WordRange
  <2>4. mem_write(mem, rg[S], c, 1) \in Memory
    <3>1. 1 \in 0 .. 4
        OBVIOUS
    <3> HIDE DEF rg
    <3>2. QED
        BY <1>2, <2>1, <2>3, <3>1, MemWriteType
  <2> HIDE DEF rg
  <2>5. QED
      BY <1>0, <1>3, <2>1, <2>2, <2>4, QuietFinishType
<1>15. CASE SysCrash
    BY <1>15, CrashType DEF SysCrash
<1>16. CASE Ld
  <2> DEFINE v == IF inst.op = "lds" THEN signed_value(p2) ELSE value(p2)
             size == IF param_is_address(p2.mode) THEN 1
                     ELSE param_value_size(p2)
  <2>1. v \in WordRange /\ size \in 0 .. 4
      BY <1>4, ParamValueSize
  <2>2. \/ /\ Finish(RegistersAfter(p1, v), MemoryAfter(p1, v, size),
                     ValueError(p1) \/ ValueError(p2))
           /\ UNCHANGED <<rseed, stopped>>
        \/ Fault
      BY <1>16 DEF Ld, p1, p2
  <2> HIDE DEF v, size
  <2>3. /\ RegistersAfter(p1, v) \in RegisterFile
        /\ MemoryAfter(p1, v, size) \in Memory
      BY <1>1, <2>1, DestinationType
  <2>4. QED
      BY <1>0, <1>3, <2>2, <2>3, FaultType, QuietFinishType
<1>17. CASE Lw
  <2> DEFINE v == IF inst.op = "lws" THEN signed_value(p2) ELSE value(p2)
  <2>1. v \in WordRange
      BY <1>4
  <2>2. \/ /\ Finish(RegistersAfter(p1, v), MemoryAfter(p1, v, 4),
                     ValueError(p1) \/ ValueError(p2))
           /\ UNCHANGED <<rseed, stopped>>
        \/ Fault
      BY <1>17 DEF Lw, p1, p2
  <2> HIDE DEF v
  <2>3. /\ RegistersAfter(p1, v) \in RegisterFile
        /\ MemoryAfter(p1, v, 4) \in Memory
      BY <1>1, <2>1, DestinationType
  <2>4. QED
      BY <1>0, <1>3, <2>2, <2>3, FaultType, QuietFinishType
<1>18. CASE Ldx
  <2>1. PICK which \in {A, B, C, D} :
            /\ Finish(reg_write(regs, which, value(p1)), mem, ValueError(p1))
            /\ UNCHANGED <<rseed, stopped>>
    <3>1. inst.op \in {"lda", "ldb", "ldc", "ldd"}
        BY <1>0, <1>18, InstType DEF Ldx, Executes
    <3>2. QED
        BY <1>18, <3>1 DEF Ldx, p1
  <2>2. reg_write(regs, which, value(p1)) \in RegisterFile
      BY <1>2, <1>4, RegWriteType DEF A, B, C, D
  <2>3. QED
      BY <1>0, <1>2, <1>3, <2>1, <2>2, QuietFinishType
<1>19. CASE Stx
  <2>1. PICK which \in {A, B, C, D} :
            \/ /\ Finish(regs, mem_write(mem, get_param_address(regs, p1),
                                         reg_read(regs, which), 4),
                         AddressError(p1))
               /\ UNCHANGED <<rseed, stopped>>
            \/ Fault
    <3>1. inst.op \in {"sta", "stb", "stc", "std"}
        BY <1>0, <1>19, InstType DEF Stx, Executes
    <3>2. QED
        BY <1>19, <3>1 DEF Stx, p1
  <2>2. reg_read(regs, which) \in WordRange
      BY <1>2, RegReadType DEF A, B, C, D
  <2>3. mem_write(mem, get_param_address(regs, p1), reg_read(regs, which), 4)
            \in Memory
      BY <1>1, <1>2, <2>2, ParamTypes, MemWriteType
  <2>4. QED
      BY <1>0, <1>2, <1>3, <2>1, <2>3, FaultType, QuietFinishType
<1>20. CASE Zero
  <2>1. /\ RegistersAfter(p1, 0) \in RegisterFile
        /\ MemoryAfter(p1, 0, 4) \in Memory
      BY <1>1, DestinationType, Widths DEF WordRange
  <2>2. QED
      BY <1>0, <1>3, <1>20, <2>1, FaultType, QuietFinishType DEF Zero, p1
<1>21. CASE Push
  <2> DEFINE size == param_value_size(p1)
             rg == Pushed(regs, size)
             m == mem_write(mem, rg[S], value(p1), size)
  <2>1. size \in 0 .. 4 /\ size \in Nat
      BY ParamValueSize
  <2>2. Finish(rg, m, ValueError(p1)) /\ UNCHANGED <<rseed, stopped>>
      BY <1>21 DEF Push, p1
  <2> HIDE DEF size
  <2>3. rg \in RegisterFile /\ rg[S] \in Nat
      BY <1>2, <2>1, StackType
  <2>4. m \in Memory
      BY <1>2, <1>4, <2>1, <2>3, MemWriteType
  <2> HIDE DEF rg, m
  <2>5. QED
      BY <1>0, <1>3, <2>2, <2>3, <2>4, QuietFinishType
<1>22. CASE Pop
  <2> DEFINE size == register_size(p1.value)
  <2>1. size \in 0 .. 4 /\ size \in Nat /\ p1.value \in Nat
      BY <1>1, RegisterSize DEF DecodedParams, WordRange
  <2>2. \/ /\ Finish(reg_write(Popped(regs, size), p1.value, top(size)), mem,
                     RegError(p1.value))
           /\ UNCHANGED <<rseed, stopped>>
        \/ /\ Finish(Popped(regs, 4), mem_write(mem, p1.value, top(4), 4),
                     FALSE)
           /\ UNCHANGED <<rseed, stopped>>
        \/ Fault
      BY <1>22 DEF Pop, p1
  <2> HIDE DEF size
  <2>3. /\ Popped(regs, size) \in RegisterFile
        /\ Popped(regs, 4) \in RegisterFile
        /\ top(size) \in Int /\ top(4) \in WordRange
    <3>1. /\ Popped(regs, size) \in RegisterFile
          /\ Popped(regs, 4) \in RegisterFile
        BY <1>2, <2>1, StackType
    <3>2. top(size) \in WordRange /\ top(4) \in WordRange
        BY <2>1, TopType
    <3>3. QED
        BY <3>1, <3>2 DEF WordRange
  <2>4. reg_write(Popped(regs, size), p1.value, top(size)) \in RegisterFile
      BY <2>1, <2>3, RegWriteType
  <2>5. mem_write(mem, p1.value, top(4), 4) \in Memory
    <3> DEFINE at == p1.value
               v == top(4)
    <3>1. at \in Nat /\ v \in WordRange
        BY <2>1, <2>3
    <3> HIDE DEF at, v
    <3>2. mem_write(mem, at, v, 4) \in Memory
        BY <1>2, <3>1, MemWriteType
    <3>3. QED
        BY <3>2 DEF at, v
  <2>6. QED
      BY <1>0, <1>2, <1>3, <2>2, <2>3, <2>4, <2>5, FaultType, QuietFinishType
<1>23. CASE Arithmetic
  <2>1. CASE Fault
      BY <1>0, <2>1, FaultType
  <2>2. CASE \E out \in AluOutcomes :
                LET rg == RegistersAfter(p1, out.res) IN
                /\ Finish(IF out.r = NoR \/ SkipsR(inst.op, p1) THEN rg
                          ELSE write_r(rg, out.r),
                          MemoryAfter(p1, out.res, 4),
                          ValueError(p1) \/ ValueError(p2))
                /\ UNCHANGED <<rseed, stopped>>
    <3>1. PICK out \in AluOutcomes :
              /\ \/ Finish(RegistersAfter(p1, out.res),
                           MemoryAfter(p1, out.res, 4),
                           ValueError(p1) \/ ValueError(p2))
                 \/ Finish(write_r(RegistersAfter(p1, out.res), out.r),
                           MemoryAfter(p1, out.res, 4),
                           ValueError(p1) \/ ValueError(p2))
              /\ UNCHANGED <<rseed, stopped>>
        BY <2>2
    <3>2. out.res \in WordRange /\ out.r \in Int
        BY Widths DEF AluOutcomes, NoR
    <3>3. /\ RegistersAfter(p1, out.res) \in RegisterFile
          /\ MemoryAfter(p1, out.res, 4) \in Memory
        BY <1>1, <3>2, DestinationType
    <3>4. write_r(RegistersAfter(p1, out.res), out.r) \in RegisterFile
        BY <3>2, <3>3, WriteRType
    <3>5. QED
        BY <1>0, <1>3, <3>1, <3>3, <3>4, QuietFinishType
  <2>3. QED
      BY <1>23, <2>1, <2>2 DEF Arithmetic, p1, p2
<1>24. CASE DivisionTrap
    BY <1>24, CrashType DEF DivisionTrap
<1>25. CASE Test
  <2> DEFINE n == bit_trunc(value(p2), width(p1))
  <2>1. Bit(value(p1), n) \in Int
      BY DEF Bit
  <2>2. write_r(regs, Bit(value(p1), n)) \in RegisterFile
      BY <1>2, <2>1, WriteRType
  <2>3. QED
      BY <1>0, <1>2, <1>3, <1>25, <2>2, QuietFinishType DEF Test, p1, p2
<1>26. CASE Rand
  <2> DEFINE seed == next_seed(rseed)
  <2>1. seed \in WordRange /\ drawn(seed) \in Int
      BY DrawnType DEF Built
  <2>2. CASE Fault
      BY <1>0, <2>2, FaultType
  <2>3. CASE /\ \E v \in WordRange :
                   Finish(write_r(RegistersAfter(p1, v), drawn(seed)),
                          MemoryAfter(p1, v, 4), ValueError(p1))
             /\ rseed' = seed
             /\ UNCHANGED stopped
    <3>1. PICK v \in WordRange :
              Finish(write_r(RegistersAfter(p1, v), drawn(seed)),
                     MemoryAfter(p1, v, 4), ValueError(p1))
        BY <2>3
    <3>2. rseed' \in WordRange /\ stopped' \in BOOLEAN
        BY <2>1, <2>3 DEF Built
    <3> HIDE DEF seed
    <3>3. /\ RegistersAfter(p1, v) \in RegisterFile
          /\ MemoryAfter(p1, v, 4) \in Memory
        BY <1>1, DestinationType
    <3>4. write_r(RegistersAfter(p1, v), drawn(seed)) \in RegisterFile
        BY <2>1, <3>3, WriteRType
    <3>5. QED
        BY <1>0, <1>3, <3>1, <3>2, <3>3, <3>4, FinishType
  <2>4. QED
      BY <1>26, <2>2, <2>3 DEF Rand, p1
<1>27. CASE Rseed
  <2>1. /\ Finish(regs, mem, ValueError(p1))
        /\ rseed' \in WordRange /\ stopped' \in BOOLEAN
      BY <1>4, <1>27 DEF Rseed, p1, Built
  <2>2. QED
      BY <1>0, <1>2, <1>3, <2>1, FinishType
<1>28. QED
    BY <1>5, <1>6, <1>7, <1>8, <1>9, <1>10, <1>11, <1>12, <1>13, <1>14,
       <1>15, <1>16, <1>17, <1>18, <1>19, <1>20, <1>21, <1>22, <1>23, <1>24,
       <1>25, <1>26, <1>27 DEF Instruction

-----------------------------------------------------------------------------
(* The initial states and the steps of the host. *)

LEMMA ImageType ==
    ASSUME NEW rom \in Seq(ByteRange)
    PROVE  Image(rom) \in Memory
<1>1. 0 \in ByteRange
    BY Widths DEF ByteRange
<1>2. ASSUME NEW c \in Cells, c >= ROM_START, c - ROM_START < Len(rom)
      PROVE  rom[c - ROM_START + 1] \in ByteRange
  <2>1. c - ROM_START + 1 \in 1 .. Len(rom)
      BY <1>2, CpuAssumption, MemAssumption DEF Cells
  <2>2. QED
      BY <2>1
<1>3. QED
    BY <1>1, <1>2 DEF Image, Memory

LEMMA FirstRegisters == InitialRegisters \subseteq RegisterFile
<1> SUFFICES ASSUME NEW rg \in InitialRegisters
             PROVE  rg \in RegisterFile
    OBVIOUS
<1> DEFINE First(id, junk) == CASE id = S -> STACK_BEGIN
                                [] id = P -> ENTRY_POINT
                                [] id = REGISTER_COUNT -> junk
                                [] OTHER -> 0
<1>1. PICK junk \in Behind :
          rg = [id \in 0 .. REGISTER_COUNT |-> First(id, junk)]
    BY DEF InitialRegisters
<1>2. /\ STACK_BEGIN \in WordRange /\ ENTRY_POINT \in WordRange
      /\ junk \in WordRange /\ 0 \in WordRange
    BY CpuAssumption, MemAssumption, Widths DEF ENTRY_POINT, WordRange
<1>3. \A id : First(id, junk) \in WordRange
    BY <1>2
<1> HIDE DEF First
<1>4. QED
    BY <1>1, <1>3 DEF RegisterFile

LEMMA LoadedType ==
    ASSUME Init, NEW rom \in Seq(ByteRange), Loaded(rom)
    PROVE  Built
<1>1. mem \in Memory
    BY ImageType DEF Loaded
<1>2. regs \in RegisterFile
    BY FirstRegisters DEF Loaded
<1>3. rseed \in WordRange
    BY CpuAssumption DEF Loaded
<1>4. QED
    BY <1>1, <1>2, <1>3 DEF Built, Init, Loaded, Phases

LEMMA InitType == Init => TypeOK
<1> SUFFICES ASSUME Init PROVE TypeOK
    OBVIOUS
<1>1. PICK rom \in Roms : Loaded(rom) \/ Rejected(rom)
    BY DEF Init
<1>2. CASE Loaded(rom)
    BY <1>1, <1>2, LoadedType, BuiltType, CpuAssumption
<1>3. CASE Rejected(rom)
  <2>1. regs \in RegisterFile /\ rseed \in WordRange
      BY <1>3, CpuAssumption DEF Rejected, RegisterFile
  <2>2. QED
      BY <1>3, <2>1 DEF TypeOK, Init, Rejected, Phases
<1>4. QED
    BY <1>1, <1>2, <1>3

LEMMA NextType == Built /\ [Next]_vars => Built'
<1> SUFFICES ASSUME Built, [Next]_vars PROVE Built'
    OBVIOUS
<1>1. ASSUME NEW name \in SysNames, register_sysfunc(name)
      PROVE  Built'
    BY <1>1 DEF Built, register_sysfunc
<1>2. CASE StartRun
    BY <1>2 DEF Built, StartRun, machine, Phases
<1>3. CASE LoopExit
    BY <1>3 DEF Built, LoopExit, machine, Phases
<1>4. CASE InvalidPc
    BY <1>4 DEF Built, InvalidPc, Break, Phases
<1>5. CASE Stopped
    BY <1>5 DEF Built, Stopped, Break, Phases
<1>6. CASE Instruction
    BY <1>6, InstructionType
<1>7. CASE UNCHANGED vars
    BY <1>7 DEF Built, vars, machine
<1>8. QED
    BY <1>1, <1>2, <1>3, <1>4, <1>5, <1>6, <1>7 DEF Next, Loop, Done

(* A halted machine executes nothing. *)
LEMMA HaltedIdle ==
    ASSUME halted
    PROVE  ~(InvalidPc \/ Stopped \/ Instruction)
<1>1. ~Running
    BY DEF Running
<1>2. QED
    BY <1>1 DEF InvalidPc, Stopped, Instruction, Executes, Fetching, Hlt, Nop,
       Stop, Jump, Compare, Call, Ret, NoSysfunc, SysQuiet, SysGet, SysCrash,
       Ld, Lw, Ldx, Stx, Zero, Push, Pop, Arithmetic, DivisionTrap, Test,
       Rand, Rseed

(* A step from a halted state leaves the machine alone: only the loop and  *)
(* the host's registrations go on. *)
LEMMA HaltedStep ==
    ASSUME [Next]_vars, halted
    PROVE  UNCHANGED machine
<1>1. ASSUME NEW name \in SysNames, register_sysfunc(name)
      PROVE  UNCHANGED machine
    BY <1>1 DEF register_sysfunc, machine
<1>2. CASE StartRun \/ LoopExit \/ UNCHANGED vars
    BY <1>2 DEF StartRun, LoopExit, vars
<1>3. ~(InvalidPc \/ Stopped \/ Instruction)
    BY HaltedIdle
<1>4. QED
    BY <1>1, <1>2, <1>3 DEF Next, Loop, Done

(* A rejected cpu stays one. *)
LEMMA TypeStep ==
    ASSUME TypeOK, [Next]_vars
    PROVE  TypeOK'
<1>1. CASE Built
    BY <1>1, NextType DEF Built, TypeOK
<1>2. CASE ~Built
  <2>1. halted /\ UNCHANGED machine
      BY <1>2, BuiltType, HaltedStep DEF TypeOK
  <2>2. ASSUME NEW name \in SysNames, register_sysfunc(name)
        PROVE  TypeOK'
    <3>1. UNCHANGED <<mem, regs, rseed, stopped, table_intact, phase>>
          /\ halted' = TRUE
        BY <2>1, <2>2 DEF register_sysfunc, machine
    <3>2. sys_func_table' \subseteq SysNames
        BY <2>2 DEF TypeOK, register_sysfunc
    <3>3. QED
        BY <3>1, <3>2, <2>1 DEF TypeOK
  <2>3. CASE StartRun \/ LoopExit \/ UNCHANGED vars
      BY <2>1, <2>3 DEF TypeOK, StartRun, LoopExit, machine, vars, Phases
  <2>4. ~(InvalidPc \/ Stopped \/ Instruction)
      BY <2>1, HaltedIdle
  <2>5. QED
      BY <2>2, <2>3, <2>4 DEF Next, Loop, Done
<1>3. QED
    BY <1>1, <1>2

-----------------------------------------------------------------------------
(* In every reachable state the memory holds bytes and the registers words:*)
(* no handler writes outside either, whatever program it runs and whatever *)
(* addresses it computes. *)
THEOREM TypeCorrect == Spec => []TypeOK
<1>1. Init => TypeOK
    BY InitType
<1>2. TypeOK /\ [Next]_vars => TypeOK'
    BY TypeStep
<1>3. QED
    BY <1>1, <1>2, PTL DEF Spec

(* Every instruction CPU::run fetches lies within the memory, for any      *)
(* bytes at the program counter: the decoder takes ten bytes at most, and  *)
(* the check of the program counter leaves room for that many. *)
THEOREM FetchesInBounds == Spec => []FetchInBounds
<1>1. TypeOK => FetchInBounds
  <2>1. SUFFICES ASSUME Built, Fetching
                 PROVE  /\ inst.len <= INSTRUCTION_MAX_LENGTH
                        /\ regs[P] + inst.len <= MEM_SIZE
      BY BuiltType DEF FetchInBounds, Fetching, Running
  <2>2. ValidPc
      BY <2>1 DEF Fetching
  <2>3. regs[P] \in Nat
      BY <2>1 DEF Built, RegisterFile, REGISTER_COUNT, P, WordRange
  <2>4. inst.len \in 1 .. 10 /\ regs[P] + 10 < MEM_SIZE
      BY <2>1, <2>2, InstType
  <2>5. INSTRUCTION_MAX_LENGTH = 10 /\ MEM_SIZE \in Nat
      BY CpuAssumption, MemAssumption
  <2>6. QED
      BY <2>3, <2>4, <2>5
<1>2. QED
    BY <1>1, TypeCorrect, PTL

(* A halted machine never changes again: after an error or hlt no further  *)
(* instruction takes effect, even when the host calls run() once more.     *)
THEOREM HaltedStays == Spec => HaltIsFinal
<1>1. [Next]_vars => (halted => UNCHANGED machine)
    BY HaltedStep
<1>2. QED
    BY <1>1, PTL DEF Spec, HaltIsFinal

-----------------------------------------------------------------------------
(* The stack as return addresses. *)

(* Frames (Tx8Cpu) of a memory m and a stack pointer s. *)
FramesIn(m, s) == [i \in 1 .. (STACK_BEGIN - s) \div 4 |->
                      mem_read(m, s + 4 * (i - 1), 4)]

(* A stack of n return addresses begins at s. *)
Depth(s, n) == s \in Nat /\ n \in Nat /\ s + 4 * n = STACK_BEGIN

(* As many return addresses are read as the stack holds. *)
LEMMA FramesLength ==
    ASSUME NEW m, NEW s, NEW n, Depth(s, n)
    PROVE  FramesIn(m, s) = [i \in 1 .. n |-> mem_read(m, s + 4 * (i - 1), 4)]
<1>1. (STACK_BEGIN - s) \div 4 = n
    BY DEF Depth
<1>2. QED
    BY <1>1 DEF FramesIn

(* Each of them is a word, read from its own four cells. *)
LEMMA FramesType ==
    ASSUME NEW m \in Memory, NEW s, NEW n, Depth(s, n)
    PROVE  /\ FramesIn(m, s) \in Seq(WordRange)
           /\ Len(FramesIn(m, s)) = n
           /\ \A i \in 1 .. n :
                  FramesIn(m, s)[i] = mem_read(m, s + 4 * (i - 1), 4)
<1>1. FramesIn(m, s) = [i \in 1 .. n |-> mem_read(m, s + 4 * (i - 1), 4)]
    BY FramesLength
<1>2. \A i \in 1 .. n : mem_read(m, s + 4 * (i - 1), 4) \in WordRange
  <2>1. \A i \in 1 .. n : s + 4 * (i - 1) \in Nat
      BY DEF Depth
  <2>2. 4 \in 0 .. 4
      OBVIOUS
  <2>3. QED
      BY <2>1, <2>2, MemReadType
<1>3. n \in Nat
    BY DEF Depth
<1>4. QED
    BY <1>1, <1>2, <1>3

(* Writing a word below the stack pushes it: op::call. *)
LEMMA FramePushed ==
    ASSUME NEW m \in Memory, NEW s, NEW n, Depth(s, n), s >= 4,
           NEW v \in WordRange
    PROVE  FramesIn(mem_write(m, s - 4, v, 4), s - 4)
              = << v >> \o FramesIn(m, s)
<1> DEFINE at == s - 4
           m2 == mem_write(m, at, v, 4)
           old == FramesIn(m, s)
           new == FramesIn(m2, at)
<1>1. /\ at \in Nat /\ at + 4 = s /\ n \in Nat /\ n + 1 \in Nat
      /\ Depth(at, n + 1)
      /\ at + 4 <= MEM_SIZE
    BY CpuAssumption, MemAssumption DEF Depth
<1>2. m2 \in Memory
  <2>1. 4 \in 0 .. 4
      OBVIOUS
  <2>2. QED
      BY <1>1, <2>1, MemWriteType
<1>3. mem_read(m2, at, 4) = v
  <2>1. 4 \in 1 .. 4
      OBVIOUS
  <2>2. mem_read(m2, at, 4) = v % Capacity(4)
      BY <1>1, <2>1, ReadAfterWrite
  <2>3. QED
      BY <2>2, SmallMod, Widths DEF Capacity, WordRange
<1>4. ASSUME NEW i \in 1 .. n
      PROVE  mem_read(m2, at + 4 * i, 4) = mem_read(m, s + 4 * (i - 1), 4)
  <2> DEFINE other == at + 4 * i
  <2>1. /\ other \in Nat /\ other = s + 4 * (i - 1)
        /\ other + 4 <= MEM_SIZE /\ at + 4 <= other
      BY <1>1, CpuAssumption, MemAssumption DEF Depth
  <2>2. 4 \in 0 .. 4
      OBVIOUS
  <2> HIDE DEF other
  <2>3. mem_read(m2, other, 4) = mem_read(m, other, 4)
      BY <1>1, <2>1, <2>2, ReadElsewhere
  <2>4. QED
      BY <2>1, <2>3 DEF other
<1> HIDE DEF m2, at
<1>5. /\ old \in Seq(WordRange) /\ Len(old) = n
      /\ \A i \in 1 .. n : old[i] = mem_read(m, s + 4 * (i - 1), 4)
    BY FramesType
<1>6. /\ new \in Seq(WordRange) /\ Len(new) = n + 1
      /\ \A i \in 1 .. n + 1 : new[i] = mem_read(m2, at + 4 * (i - 1), 4)
    BY <1>1, <1>2, FramesType
<1>7. new[1] = v
  <2>1. 1 \in 1 .. n + 1 /\ at + 4 * (1 - 1) = at
      BY <1>1
  <2>2. QED
      BY <1>3, <1>6, <2>1
<1>8. \A i \in 1 .. n : new[i + 1] = old[i]
  <2>1. SUFFICES ASSUME NEW i \in 1 .. n PROVE new[i + 1] = old[i]
      OBVIOUS
  <2>2. i + 1 \in 1 .. n + 1 /\ at + 4 * ((i + 1) - 1) = at + 4 * i
      BY <1>1
  <2>3. QED
      BY <1>4, <1>5, <1>6, <2>1, <2>2
<1> HIDE DEF old, new
<1>9. new = << v >> \o old
  <2> DEFINE both == << v >> \o old
  <2>1. /\ both \in Seq(WordRange) /\ Len(both) = n + 1 /\ both[1] = v
        /\ \A i \in 1 .. n : both[i + 1] = old[i]
      BY <1>5
  <2>2. \A j \in 1 .. n + 1 : j = 1 \/ (j - 1 \in 1 .. n /\ j = (j - 1) + 1)
      BY <1>1 DEF Depth
  <2>3. \A j \in 1 .. n + 1 : new[j] = both[j]
      BY <1>7, <1>8, <2>1, <2>2
  <2>4. QED
      BY <1>6, <2>1, <2>3
<1>10. QED
    BY <1>9 DEF new, old, m2, at

(* Moving S up by a word pops the return address that is on top: op::ret. *)
LEMMA FramePopped ==
    ASSUME NEW m \in Memory, NEW s, NEW n, Depth(s, n), n > 0
    PROVE  /\ FramesIn(m, s) # << >>
           /\ Head(FramesIn(m, s)) = mem_read(m, s, 4)
           /\ Tail(FramesIn(m, s)) = FramesIn(m, s + 4)
           /\ Depth(s + 4, n - 1)
<1> DEFINE old == FramesIn(m, s)
           new == FramesIn(m, s + 4)
<1>1. Depth(s + 4, n - 1)
    BY DEF Depth
<1>2. /\ old \in Seq(WordRange) /\ Len(old) = n
      /\ \A i \in 1 .. n : old[i] = mem_read(m, s + 4 * (i - 1), 4)
    BY FramesType
<1>3. /\ new \in Seq(WordRange) /\ Len(new) = n - 1
      /\ \A i \in 1 .. n - 1 : new[i] = mem_read(m, s + 4 + 4 * (i - 1), 4)
    BY <1>1, FramesType
<1>4. old[1] = mem_read(m, s, 4)
  <2>1. 1 \in 1 .. n /\ s + 4 * (1 - 1) = s
      BY DEF Depth
  <2>2. QED
      BY <1>2, <2>1
<1>5. \A i \in 1 .. n - 1 : old[i + 1] = new[i]
  <2>1. SUFFICES ASSUME NEW i \in 1 .. n - 1 PROVE old[i + 1] = new[i]
      OBVIOUS
  <2>2. i + 1 \in 1 .. n /\ s + 4 * ((i + 1) - 1) = s + 4 + 4 * (i - 1)
      BY DEF Depth
  <2>3. QED
      BY <1>2, <1>3, <2>1, <2>2
<1>6. n \in Nat
    BY DEF Depth
<1> HIDE DEF old, new
<1>7. old # << >> /\ Head(old) = old[1]
    BY <1>2, <1>6
<1>8. Tail(old) = new
  <2>1. /\ Tail(old) \in Seq(WordRange) /\ Len(Tail(old)) = n - 1
        /\ \A i \in 1 .. n - 1 : Tail(old)[i] = old[i + 1]
      BY <1>2, <1>6, <1>7
  <2>2. QED
      BY <1>3, <1>5, <2>1
<1>9. QED
    BY <1>1, <1>4, <1>7, <1>8 DEF old, new

(* A memory that has the same cells between s and STACK_BEGIN holds the    *)
(* same return addresses. *)
LEMMA FramesKept ==
    ASSUME NEW m \in Memory, NEW m2 \in Memory, NEW s, NEW n, Depth(s, n),
           \A c \in Cells : s <= c /\ c < STACK_BEGIN => m2[c] = m[c]
    PROVE  FramesIn(m2, s) = FramesIn(m, s)
<1>1. ASSUME NEW i \in 1 .. n
      PROVE  mem_read(m2, s + 4 * (i - 1), 4) = mem_read(m, s + 4 * (i - 1), 4)
  <2> DEFINE at == s + 4 * (i - 1)
             At(mm, j) == IF j < 4 THEN mm[at + j] ELSE 0
  <2>1. /\ at \in Nat /\ s <= at /\ at + 4 <= STACK_BEGIN
        /\ at + 4 <= MEM_SIZE
      BY CpuAssumption, MemAssumption DEF Depth
  <2>2. 4 \in 1 .. 4
      OBVIOUS
  <2>3. Masked(at) = at /\ Clipped(at, 4) = 4
      BY <2>1, <2>2, InsideAccess
  <2>4. \A mm : mem_read(mm, at, 4)
                  = Compose(At(mm, 0), At(mm, 1), At(mm, 2), At(mm, 3))
      BY <2>3 DEF mem_read
  <2>5. \A j \in 0 .. 3 : m2[at + j] = m[at + j]
    <3>1. \A j \in 0 .. 3 : /\ at + j \in Cells /\ s <= at + j
                            /\ at + j < STACK_BEGIN
        BY <2>1, MemAssumption, CpuAssumption DEF Cells, Depth
    <3>2. QED
        BY <3>1
  <2>6. /\ At(m2, 0) = At(m, 0) /\ At(m2, 1) = At(m, 1)
        /\ At(m2, 2) = At(m, 2) /\ At(m2, 3) = At(m, 3)
      BY <2>5
  <2> HIDE DEF at, At
  <2>7. mem_read(m2, at, 4) = mem_read(m, at, 4)
      BY <2>4, <2>6
  <2>8. QED
      BY <2>7 DEF at
<1>2. /\ FramesIn(m2, s) = [i \in 1 .. n |-> mem_read(m2, s + 4 * (i - 1), 4)]
      /\ FramesIn(m, s) = [i \in 1 .. n |-> mem_read(m, s + 4 * (i - 1), 4)]
    BY FramesLength
<1>3. QED
    BY <1>1, <1>2

-----------------------------------------------------------------------------
(* A program that uses the stack for its return addresses only: every      *)
(* instruction but call and ret leaves S and the cells of the stack alone. *)
(* push and pop, sys of a function that returns, and a store or ldx to the *)
(* stack or to the register s are what the code lets a program do instead. *)
OthersKeepTheStack ==
    Fetching /\ inst.op \notin {"call", "ret"} =>
        /\ regs'[S] = regs[S]
        /\ \A c \in Cells : regs[S] <= c /\ c < STACK_BEGIN => mem'[c] = mem[c]

(* Neither call nor ret finds the stack at its limit, and no ret returns   *)
(* to its own address: run() takes a p that the handler left unchanged for *)
(* an instruction that does not jump and goes on behind it (CPU::run).     *)
StackHolds ==
    Fetching => /\ inst.op = "call" => regs[S] >= 4
                /\ inst.op = "ret" => /\ regs[S] < STACK_BEGIN
                                      /\ top(4) # regs[P]

(* What makes the refinement inductive: S is a whole number of return      *)
(* addresses below STACK_BEGIN. *)
Stacked == \E n \in Nat : Depth(regs[S], n)

(* P and S are two registers, and hold a word each. *)
LEMMA Pointers ==
    ASSUME Built
    PROVE  /\ regs[S] \in WordRange /\ regs[P] \in WordRange
           /\ S \in 0 .. REGISTER_COUNT /\ P \in 0 .. REGISTER_COUNT
           /\ P # S
BY DEF Built, RegisterFile, REGISTER_COUNT, P, S

(* What the end of the loop's body leaves of the stack, and of a jump. *)
LEMMA FinishStack ==
    ASSUME Built, NEW rg \in RegisterFile, NEW m \in Memory, NEW err,
           Finish(rg, m, err)
    PROVE  /\ regs'[S] = rg[S] /\ mem' = m
           /\ Frames' = FramesIn(m, rg[S])
           /\ rg[P] # regs[P] => regs'[P] = rg[P]
<1>1. regs' = Incremented(rg) /\ mem' = m
    BY DEF Finish
<1>2. regs'[S] = rg[S] /\ (rg[P] # regs[P] => regs'[P] = rg[P])
    BY <1>1, Pointers DEF Incremented, RegisterFile
<1>3. QED
    BY <1>1, <1>2 DEF Frames, FramesIn

(* op::call is a step Enter of the abstract specification. *)
LEMMA CallEnters ==
    ASSUME Built, Built', StackHolds, Stacked, Call
    PROVE  Discipline!Enter /\ Stacked'
<1> DEFINE s == regs[S]
           v == Word(regs[P] + inst.len)
           rg == Pushed(regs, 4)
           m == mem_write(mem, rg[S], v, 4)
           rg2 == jump(rg, get_param_value(m, rg, inst.p1))
<1>1. Fetching /\ ValidPc /\ inst.op = "call"
    BY InstType DEF Call, Executes, Fetching
<1>2. PICK n \in Nat : Depth(s, n)
    BY DEF Stacked
<1>3. s >= 4 /\ s \in WordRange
    BY <1>1, Pointers DEF StackHolds
<1>4. v = regs[P] + inst.len /\ v \in WordRange /\ inst.len \in 1 .. 10
  <2> DEFINE x == regs[P] + inst.len
  <2>1. x \in 0 .. WORD - 1 /\ WORD \in Nat \ {0} /\ inst.len \in 1 .. 10
      BY <1>1, InstType, Pointers, MemAssumption, Widths DEF WordRange
  <2> HIDE DEF x
  <2>2. x % WORD = x
      BY <2>1, SmallMod
  <2>3. QED
      BY <2>1, <2>2 DEF Word, x, WordRange
<1>5. rg[S] = s - 4
  <2> DEFINE x == s - 4
  <2>1. x \in 0 .. WORD - 1 /\ WORD \in Nat \ {0}
      BY <1>3, Widths DEF WordRange
  <2> HIDE DEF x
  <2>2. x % WORD = x
      BY <2>1, SmallMod
  <2>3. QED
      BY <2>2, Pointers DEF Word, x, Pushed, Built, RegisterFile
<1>6. rg \in RegisterFile /\ m \in Memory /\ rg[S] \in Nat
  <2>1. 4 \in Nat /\ 4 \in 0 .. 4
      OBVIOUS
  <2>2. rg \in RegisterFile /\ rg[S] \in Nat
      BY <2>1, StackType DEF Built
  <2>3. QED
      BY <1>4, <2>1, <2>2, MemWriteType DEF Built, WordRange
<1>7. rg2 \in RegisterFile /\ rg2[S] = s - 4
  <2>1. get_param_value(m, rg, inst.p1) \in WordRange
      BY <1>1, <1>6, InstType, ParamTypes
  <2> HIDE DEF rg, m
  <2>2. QED
      BY <1>5, <1>6, <2>1, JumpType, Pointers DEF jump, RegisterFile
<1>8. Finish(rg2, m, ValueError(inst.p1))
    BY DEF Call
<1>9. Frames' = FramesIn(m, s - 4) /\ regs'[S] = s - 4
    BY <1>6, <1>7, <1>8, FinishStack
<1>10. Frames' = << v >> \o FramesIn(mem, s)
  <2>1. mem \in Memory
      BY DEF Built
  <2> HIDE DEF v, rg2
  <2>2. m = mem_write(mem, s - 4, v, 4)
      BY <1>5
  <2> HIDE DEF rg, m
  <2>3. QED
      BY <1>2, <1>3, <1>4, <1>9, <2>1, <2>2, FramePushed
<1>11. FramesIn(mem, s) = Frames
    BY DEF Frames, FramesIn
<1>12. regs'[P] \in Nat
    BY DEF Built, RegisterFile, REGISTER_COUNT, P, WordRange
<1>13. Discipline!Enter
    BY <1>4, <1>10, <1>11, <1>12, CpuAssumption DEF Discipline!Enter
<1>14. Stacked'
  <2>1. Depth(s - 4, n + 1) /\ n + 1 \in Nat
      BY <1>2, <1>3 DEF Depth
  <2>2. QED
      BY <1>9, <2>1 DEF Stacked
<1>15. QED
    BY <1>13, <1>14

(* op::ret is a step Leave of it. *)
LEMMA RetLeaves ==
    ASSUME Built, StackHolds, Stacked, Ret
    PROVE  Discipline!Leave /\ Stacked'
<1> DEFINE s == regs[S]
           rg == Popped(regs, 4)
           rg2 == jump(rg, top(4))
<1>1. Fetching /\ ValidPc /\ inst.op = "ret"
    BY InstType DEF Ret, Executes, Fetching
<1>2. PICK n \in Nat : Depth(s, n)
    BY DEF Stacked
<1>3. s < STACK_BEGIN /\ s \in WordRange /\ top(4) # regs[P]
    BY <1>1, Pointers DEF StackHolds
<1>4. n > 0
    BY <1>2, <1>3 DEF Depth
<1>5. rg[S] = s + 4
  <2> DEFINE x == s + 4
  <2>1. x \in 0 .. WORD - 1 /\ WORD \in Nat \ {0}
      BY <1>2, <1>4, CpuAssumption, MemAssumption, Widths DEF Depth
  <2> HIDE DEF x
  <2>2. x % WORD = x
      BY <2>1, SmallMod
  <2>3. QED
      BY <2>2, Pointers DEF Word, x, Popped, Built, RegisterFile
<1>6. rg \in RegisterFile /\ top(4) \in WordRange /\ mem \in Memory
  <2>1. 4 \in Nat /\ 4 \in 0 .. 4
      OBVIOUS
  <2>2. QED
      BY <2>1, StackType, TopType DEF Built
<1>7. rg2 \in RegisterFile /\ rg2[S] = s + 4 /\ rg2[P] = top(4)
  <2> HIDE DEF rg
  <2>1. QED
      BY <1>5, <1>6, JumpType, Pointers DEF jump, RegisterFile
<1>8. Finish(rg2, mem, FALSE)
    BY DEF Ret
<1>9. Frames' = FramesIn(mem, s + 4) /\ regs'[S] = s + 4
      /\ regs'[P] = top(4)
  <2> HIDE DEF rg2
  <2>1. QED
      BY <1>3, <1>6, <1>7, <1>8, FinishStack
<1>10. /\ FramesIn(mem, s) # << >>
       /\ Head(FramesIn(mem, s)) = top(4)
       /\ Tail(FramesIn(mem, s)) = FramesIn(mem, s + 4)
       /\ Depth(s + 4, n - 1)
    BY <1>2, <1>4, <1>6, FramePopped DEF top
<1>11. FramesIn(mem, s) = Frames
    BY DEF Frames, FramesIn
<1>12. Discipline!Leave
    BY <1>9, <1>10, <1>11 DEF Discipline!Leave
<1>13. Stacked'
    BY <1>4, <1>9, <1>10 DEF Stacked
<1>14. QED
    BY <1>12, <1>13

(* A step that leaves S and the return addresses alone is a step Local. *)
LEMMA OthersStay ==
    ASSUME Built, Built', Stacked, regs'[S] = regs[S],
           \A c \in Cells : regs[S] <= c /\ c < STACK_BEGIN => mem'[c] = mem[c]
    PROVE  Discipline!Local /\ Stacked'
<1>1. PICK n \in Nat : Depth(regs[S], n)
    BY DEF Stacked
<1>2. mem \in Memory /\ mem' \in Memory
    BY DEF Built
<1>3. FramesIn(mem', regs[S]) = FramesIn(mem, regs[S])
    BY <1>1, <1>2, FramesKept
<1>4. Frames' = FramesIn(mem', regs[S]) /\ Frames = FramesIn(mem, regs[S])
    BY DEF Frames, FramesIn
<1>5. regs'[P] \in Nat
    BY DEF Built, RegisterFile, REGISTER_COUNT, P, WordRange
<1>6. QED
    BY <1>1, <1>3, <1>4, <1>5 DEF Discipline!Local, Stacked

(* Every step of the cpu is a step of the abstract specification. *)
LEMMA StackStep ==
    ASSUME Built, Built', StackHolds, Stacked,
           [OthersKeepTheStack]_vars, [Next]_vars
    PROVE  /\ [Discipline!Enter \/ Discipline!Leave \/ Discipline!Local]_(
                  Discipline!vars)
           /\ Stacked'
<1>1. CASE Call
    BY <1>1, CallEnters
<1>2. CASE Ret
    BY <1>2, RetLeaves
<1>3. CASE Instruction /\ ~Call /\ ~Ret
  <2>1. Fetching /\ ValidPc
      BY <1>3 DEF Instruction, Executes, Fetching, Hlt, Nop, Stop, Jump,
         Compare, Call, Ret, NoSysfunc, SysQuiet, SysGet, SysCrash, Ld, Lw,
         Ldx, Stx, Zero, Push, Pop, Arithmetic, DivisionTrap, Test, Rand,
         Rseed
  <2>2. inst.op = op_function(mem[regs[P]])
      BY <2>1, InstType
  <2>3. inst.op \notin {"call", "ret"}
    <3> DEFINE op == op_function(mem[regs[P]])
    <3>1. AluOps \cap {"call", "ret"} = {}
        BY DEF AluOps, SignedRead, UnsignedOps, SignedOps, FloatOps1,
           FloatOps2
    <3>2. CASE Hlt \/ Nop \/ Stop \/ Jump \/ Compare
        BY <2>2, <3>2 DEF Executes, Hlt, Nop, Stop, Jump, Conditions, Compare
    <3>3. CASE NoSysfunc \/ SysQuiet \/ SysGet \/ SysCrash
        BY <2>2, <3>3 DEF Executes, NoSysfunc, SysQuiet, SysGet, SysCrash
    <3>4. CASE Ld \/ Lw \/ Ldx \/ Stx \/ Zero \/ Push \/ Pop
        BY <2>2, <3>4 DEF Executes, Ld, Lw, Ldx, Stx, Zero, Push, Pop
    <3>5. CASE Arithmetic \/ DivisionTrap
        BY <2>2, <3>1, <3>5 DEF Executes, Arithmetic, DivisionTrap
    <3>6. CASE Test \/ Rand \/ Rseed
        BY <2>2, <3>6 DEF Executes, Test, Rand, Rseed
    <3>7. QED
        BY <1>3, <3>2, <3>3, <3>4, <3>5, <3>6 DEF Instruction
  <2>4. CASE OthersKeepTheStack
      BY <2>1, <2>3, <2>4, OthersStay DEF OthersKeepTheStack
  <2>5. CASE UNCHANGED vars
    <3>1. UNCHANGED <<mem, regs>>
        BY <2>5 DEF vars, machine
    <3>2. QED
        BY <3>1, OthersStay
  <2>6. QED
      BY <2>4, <2>5
<1>4. CASE UNCHANGED <<mem, regs>>
    BY <1>4, OthersStay
<1>5. QED
  <2>1. (\E name \in SysNames : register_sysfunc(name)) \/ StartRun
           \/ LoopExit \/ InvalidPc \/ Stopped \/ UNCHANGED vars
        => UNCHANGED <<mem, regs>>
      BY DEF register_sysfunc, StartRun, LoopExit, InvalidPc, Stopped, Break,
         vars, machine
  <2>2. QED
      BY <1>1, <1>2, <1>3, <1>4, <2>1 DEF Next, Loop, Done

(* The cpu has been constructed from a rom that fits. *)
Accepted == \E rom \in Roms : Loaded(rom)

(* The constructor of the cpu leaves an empty stack. *)
LEMMA StackInit ==
    ASSUME Init, Accepted
    PROVE  Built /\ Stacked /\ Discipline!Init
<1>0. Built
    BY LoadedType, CpuAssumption DEF Accepted
<1>1. regs[S] = STACK_BEGIN /\ regs[P] = ENTRY_POINT
    BY DEF Accepted, Loaded, InitialRegisters, P, S, REGISTER_COUNT
<1>2. Depth(regs[S], 0)
    BY <1>1, CpuAssumption DEF Depth
<1>3. Stacked
    BY <1>2 DEF Stacked
<1>4. Frames = << >>
  <2>1. mem \in Memory
      BY <1>0 DEF Built
  <2>2. /\ FramesIn(mem, regs[S]) \in Seq(WordRange)
        /\ Len(FramesIn(mem, regs[S])) = 0
      BY <1>2, <2>1, FramesType
  <2>3. FramesIn(mem, regs[S]) = << >>
      BY <2>2
  <2>4. QED
      BY <2>3 DEF Frames, FramesIn
<1>5. Discipline!Init
    BY <1>1, <1>4, CpuAssumption DEF Discipline!Init, ENTRY_POINT
<1>6. QED
    BY <1>0, <1>3, <1>5

(* The cpu implements CallDiscipline: in every run of a program that uses  *)
(* the stack for calls only, whose stack holds, each ret resumes behind    *)
(* the call that entered its subroutine, however deep the calls nest and   *)
(* whatever is called, and the return addresses below it stay as they are. *)
THEOREM CallsNestAlways ==
    Spec /\ Accepted /\ []StackHolds /\ [][OthersKeepTheStack]_vars
        => CallsNest
<1>1. Init /\ Accepted => Built /\ Stacked /\ Discipline!Init
    BY StackInit
<1>2. Built /\ Stacked /\ StackHolds /\ [Next]_vars
      /\ [OthersKeepTheStack]_vars
      => /\ Built' /\ Stacked'
         /\ [Discipline!Enter \/ Discipline!Leave \/ Discipline!Local]_(
                Discipline!vars)
    BY NextType, StackStep
<1>3. QED
    BY <1>1, <1>2, PTL DEF Spec, CallsNest, Discipline!Spec

-----------------------------------------------------------------------------
(* Branches, push and pop. *)

(* The result of a comparison is read back from R as it was written. *)
LEMMA OrderRead ==
    ASSUME NEW order \in {-1, 0, 1}
    PROVE  Signed(Word(order), 4) = order
<1>1. WORD \in Nat /\ WORD > 2
    BY MemAssumption, Widths
<1>2. Word(order) = IF order = -1 THEN WORD - 1 ELSE order
  <2> HIDE DEF WORD
  <2>1. (-1) % WORD = WORD - 1 /\ 0 % WORD = 0 /\ 1 % WORD = 1
      BY <1>1
  <2>2. QED
      BY <2>1 DEF Word
<1>3. Word(order) % WORD = Word(order) /\ Capacity(4) = WORD
  <2>1. Word(order) \in 0 .. WORD - 1 /\ WORD \in Nat \ {0}
      BY <1>1, <1>2
  <2>2. QED
      BY <2>1, SmallMod DEF Capacity
<1>4. QED
    BY <1>1, <1>2, <1>3 DEF Signed

(* A conditional jump after cmp or ucmp goes by the order of the operands: *)
(* CMP in [-1, 1], written to R as an unsigned word and read back as a     *)
(* signed one by the jump, decides as the difference would that is never   *)
(* formed, for operands of every size and sign (op::cmp, op::ucmp,         *)
(* op::jeq ff.). *)
THEOREM BranchesAsCompared ==
    ASSUME TypeOK, Compare, NEW op \in Conditions
    PROVE  /\ inst.op = "cmp" =>
                (Holds(op, Signed(regs'[R], 4))
                    <=> Holds(op, Signed(signed_value(inst.p1), 4)
                                  - Signed(signed_value(inst.p2), 4)))
           /\ inst.op = "ucmp" =>
                (Holds(op, Signed(regs'[R], 4))
                    <=> Holds(op, value(inst.p1) - value(inst.p2)))
<1> DEFINE p1 == inst.p1
           p2 == inst.p2
           x == Signed(signed_value(p1), 4)
           y == Signed(signed_value(p2), 4)
           v == value(p1)
           w == value(p2)
<1>0. Built
    BY BuiltType DEF Compare, Executes, Fetching, Running
<1>1. /\ ValidPc
      /\ p1 \in DecodedParams /\ p2 \in DecodedParams
  <2>1. ValidPc
      BY DEF Compare, Executes, Fetching
  <2>2. QED
      BY <1>0, <2>1, InstType
<1>2. x \in Int /\ y \in Int /\ v \in Int /\ w \in Int
    BY <1>0, <1>1, ValueType, SignedType DEF WordRange
<1>3. PICK order \in {-1, 0, 1} :
          /\ inst.op = "cmp" => order = CMP(x, y)
          /\ inst.op = "ucmp" => order = CMP(v, w)
          /\ Finish(write_r(regs, Word(order)), mem,
                    ValueError(p1) \/ ValueError(p2))
  <2>1. inst.op \in {"cmp", "ucmp", "fcmp"}
      BY <1>0, <1>1, InstType DEF Compare, Executes
  <2>2. CMP(x, y) \in {-1, 0, 1} /\ CMP(v, w) \in {-1, 0, 1}
      BY <1>2 DEF CMP, SGN
  <2>3. CASE inst.op = "cmp"
      BY <2>2, <2>3 DEF Compare
  <2>4. CASE inst.op = "ucmp"
      BY <2>2, <2>4 DEF Compare
  <2>5. CASE inst.op = "fcmp"
      BY <2>5 DEF Compare
  <2>6. QED
      BY <2>1, <2>3, <2>4, <2>5
<1>4. Signed(regs'[R], 4) = order
  <2> DEFINE rg == write_r(regs, Word(order))
  <2>1. regs \in RegisterFile /\ R \in Nat /\ ~RegError(R)
        /\ RegId(R) = R /\ register_size(R) = 4
      BY <1>0 DEF Built, R, RegError, RegId, RegClass, REGISTER_COUNT,
         register_size
  <2>2. Word(order) \in WordRange
      BY WordType
  <2>3. rg \in RegisterFile
      BY <2>1, <2>2, WriteRType DEF WordRange
  <2>4. rg[R] % WORD = Word(order) % WORD
      BY <2>1, <2>2, RegWriteEffect DEF write_r, WordRange, Capacity
  <2> HIDE DEF rg
  <2>5. regs'[R] = rg[R]
      BY <1>3, <2>3 DEF Finish, Incremented, RegisterFile, R, P,
         REGISTER_COUNT, rg
  <2>6. Signed(regs'[R], 4) = Signed(Word(order), 4)
      BY <2>4, <2>5 DEF Signed, Capacity
  <2>7. QED
      BY <2>6, OrderRead
<1>5. \A a, b \in Int : Holds(op, CMP(a, b)) <=> Holds(op, a - b)
  <2>1. op \in {"jeq", "jne", "jgt", "jge", "jlt", "jle"}
      BY DEF Conditions
  <2>2. SUFFICES ASSUME NEW a \in Int, NEW b \in Int
                 PROVE  Holds(op, CMP(a, b)) <=> Holds(op, a - b)
      OBVIOUS
  <2>3. /\ a - b > 0 => CMP(a, b) = 1
        /\ a - b = 0 => CMP(a, b) = 0
        /\ a - b < 0 => CMP(a, b) = -1
      BY DEF CMP, SGN
  <2> DEFINE d == a - b
             c == CMP(a, b)
  <2>4. d \in Int /\ c \in Int /\ (c > 0 <=> d > 0) /\ (c = 0 <=> d = 0)
        /\ (c < 0 <=> d < 0)
      BY <2>3
  <2> HIDE DEF d, c
  <2>5. Holds(op, c) <=> Holds(op, d)
      BY <2>1, <2>4 DEF Holds
  <2>6. QED
      BY <2>5 DEF d, c
<1> HIDE DEF x, y, v, w
<1>6. QED
    BY <1>2, <1>3, <1>4, <1>5 DEF x, y, v, w, p1, p2

(* The stack pointer moves by the size, as long as it does not wrap. *)
LEMMA StackMove ==
    ASSUME Built, NEW size \in 1 .. 4
    PROVE  /\ regs[S] >= size => Pushed(regs, size)[S] = regs[S] - size
           /\ regs[S] + size <= MEM_SIZE
                => Popped(regs, size)[S] = regs[S] + size
           /\ Pushed(regs, size) \in RegisterFile
           /\ Popped(regs, size) \in RegisterFile
<1>1. /\ regs \in RegisterFile /\ S \in 0 .. REGISTER_COUNT
      /\ regs[S] \in 0 .. WORD - 1 /\ WORD \in Nat \ {0} /\ size \in Nat
    BY Widths DEF Built, RegisterFile, WordRange, S, REGISTER_COUNT
<1>2. /\ Pushed(regs, size)[S] = Word(regs[S] - size)
      /\ Popped(regs, size)[S] = Word(regs[S] + size)
    BY <1>1 DEF Pushed, Popped, RegisterFile
<1>3. ASSUME NEW x \in 0 .. WORD - 1 PROVE Word(x) = x
    BY <1>1, SmallMod DEF Word
<1>4. regs[S] >= size => regs[S] - size \in 0 .. WORD - 1
    BY <1>1
<1>5. regs[S] + size <= MEM_SIZE => regs[S] + size \in 0 .. WORD - 1
    BY <1>1, MemAssumption
<1>6. QED
    BY <1>1, <1>2, <1>3, <1>4, <1>5, StackType

(* op::push of a parameter of any mode and size, S and P included, leaves  *)
(* its value on top of the stack, cut to its own size, and S below it by   *)
(* as many bytes, as long as the stack has the room. *)
THEOREM PushStores ==
    ASSUME TypeOK, Push,
           regs[S] >= param_value_size(inst.p1), regs[S] <= MEM_SIZE
    PROVE  LET size == param_value_size(inst.p1)
           IN  /\ regs'[S] = regs[S] - size
               /\ mem_read(mem', regs'[S], size)
                     = value(inst.p1) % Capacity(size)
<1> DEFINE size == param_value_size(inst.p1)
           rg == Pushed(regs, size)
           v == value(inst.p1)
           m == mem_write(mem, rg[S], v, size)
<1>0. Built
    BY BuiltType DEF Push, Executes, Fetching, Running
<1>1. ValidPc
    BY DEF Push, Executes, Fetching
<1>2. size \in 1 .. 4 /\ v \in WordRange
    BY <1>0, <1>1, InstType, ValueType DEF param_value_size, register_size
<1>3. Finish(rg, m, ValueError(inst.p1))
    BY DEF Push
<1>4. rg[S] = regs[S] - size /\ rg \in RegisterFile
    BY <1>0, <1>2, StackMove
<1>5. regs'[S] = rg[S] /\ mem' = m
  <2> HIDE DEF rg, m
  <2>1. QED
      BY <1>3, <1>4 DEF Finish, Incremented, RegisterFile, S, P,
         REGISTER_COUNT
<1>6. regs[S] \in Nat /\ mem \in Memory
    BY <1>0 DEF Built, RegisterFile, WordRange, S, REGISTER_COUNT
<1> DEFINE at == regs[S] - size
<1>7. at \in Nat /\ at + size <= MEM_SIZE
    BY <1>2, <1>6
<1>8. m = mem_write(mem, at, v, size)
    BY <1>4
<1> HIDE DEF m, at, v, size
<1>9. mem_read(m, at, size) = v % Capacity(size)
    BY <1>2, <1>6, <1>7, <1>8, ReadAfterWrite
<1>10. QED
    BY <1>4, <1>5, <1>9 DEF at, v, size

(* op::pop into a register of any size, the stack pointer and the program  *)
(* counter apart, leaves what was on top in it, moves S by the size of the *)
(* register and writes no memory: with PushStores, that pop undoes push. *)
THEOREM PopLoads ==
    ASSUME TypeOK, Pop, inst.p1.mode = Register,
           ~RegError(inst.p1.value), RegId(inst.p1.value) \notin {S, P},
           regs[S] + register_size(inst.p1.value) <= MEM_SIZE
    PROVE  LET size == register_size(inst.p1.value)
           IN  /\ regs'[S] = regs[S] + size
               /\ reg_read(regs', inst.p1.value)
                     = mem_read(mem, regs[S], size)
               /\ mem' = mem
<1> DEFINE which == inst.p1.value
           size == register_size(which)
           id == RegId(which)
           popped == Popped(regs, size)
           v == top(size)
           rg == reg_write(popped, which, v)
<1>0. Built
    BY BuiltType DEF Pop, Executes, Fetching, Running
<1>1. ValidPc
    BY DEF Pop, Executes, Fetching
<1>2. size \in {1, 2, 4} /\ which \in Nat /\ size \in 1 .. 4
    BY <1>0, <1>1, InstType DEF register_size, DecodedParams, WordRange
<1>3. Finish(rg, mem, RegError(which))
  <2>1. ~param_is_address(inst.p1.mode)
      BY DEF param_is_address, Register, AbsoluteAddress, RelativeAddress,
         RegisterAddress
  <2>2. QED
      BY <2>1 DEF Pop
<1>4. popped[S] = regs[S] + size /\ popped \in RegisterFile
    BY <1>0, <1>2, StackMove
<1>5. v \in 0 .. Capacity(size) - 1 /\ v \in Int
  <2>1. regs[S] \in Nat /\ mem \in Memory
      BY <1>0 DEF Built, RegisterFile, WordRange, S, REGISTER_COUNT
  <2>2. v \in 0 .. Capacity(size) - 1
      BY <1>2, <2>1, ReadRange DEF top
  <2>3. QED
      BY <2>2
<1> HIDE DEF popped, v
<1>6. rg \in RegisterFile
    BY <1>2, <1>4, <1>5, RegWriteType
<1>7. rg[S] = popped[S]
  <2>1. S \in 0 .. REGISTER_COUNT /\ S # id
      BY DEF S, REGISTER_COUNT
  <2>2. QED
      BY <1>2, <1>4, <1>5, <2>1, RegWriteEffect
<1>8. reg_read(rg, which) = v
  <2>1. reg_read(rg, which) = v % Capacity(size)
      BY <1>2, <1>4, <1>5, RegReadAfterWrite
  <2>2. v % Capacity(size) = v
      BY <1>2, <1>5, CapacityRange, SmallMod
  <2>3. QED
      BY <2>1, <2>2
<1> HIDE DEF rg
<1>9. regs'[S] = rg[S] /\ mem' = mem /\ regs'[id] = rg[id]
  <2>1. id \in 0 .. REGISTER_COUNT /\ id # P
      BY <1>2, RegisterOfFile
  <2>2. QED
      BY <1>3, <1>6, <2>1 DEF Finish, Incremented, RegisterFile, S, P,
         REGISTER_COUNT
<1>10. reg_read(regs', which) = reg_read(rg, which)
    BY <1>9 DEF reg_read
<1>11. QED
    BY <1>4, <1>7, <1>8, <1>9, <1>10 DEF v, top

-----------------------------------------------------------------------------
(* Programs that have been assembled into a rom. *)

(* The operations the programs are made of, by their parameters. *)
TwoParameters == {"lw", "lws", "ld", "lds", "cmp", "ucmp"}
OneParameter == {"jmp", "call", "sys", "lda", "sta", "ldb", "ldc", "ldd",
                 "push", "pop", "inc", "dec"} \cup Conditions
NoParameter == {"hlt", "ret", "stop"}

LEMMA Counts ==
    ASSUME NEW op
    PROVE  /\ op \in TwoParameters \cup OneParameter \cup NoParameter
                => op \in ToSet(OpTable)
           /\ op \in TwoParameters => param_count(opcode_from_name(op)) = 2
           /\ op \in OneParameter => param_count(opcode_from_name(op)) = 1
           /\ op \in NoParameter => param_count(opcode_from_name(op)) = 0
<1>1. \A k \in 0 .. 127 :
          /\ OpTable[k + 1] \in TwoParameters => CountTable[k + 1] = 2
          /\ OpTable[k + 1] \in OneParameter => CountTable[k + 1] = 1
          /\ OpTable[k + 1] \in NoParameter => CountTable[k + 1] = 0
    BY DEF OpTable, CountTable, TwoParameters, OneParameter, NoParameter,
           Conditions
<1>2. \A o \in TwoParameters \cup OneParameter \cup NoParameter :
          \E k \in 1 .. 128 : OpTable[k] = o
    BY DEF OpTable, TwoParameters, OneParameter, NoParameter, Conditions
<1>3. DOMAIN OpTable = 1 .. 128
    BY DEF OpTable
<1>4. op \in TwoParameters \cup OneParameter \cup NoParameter
        => op \in ToSet(OpTable)
    BY <1>2, <1>3 DEF ToSet
<1>5. ASSUME op \in TwoParameters \cup OneParameter \cup NoParameter
      PROVE  LET k == opcode_from_name(op) IN
             /\ k \in 0 .. 127 /\ OpTable[k + 1] = op
             /\ param_count(k) = CountTable[k + 1]
  <2>1. /\ opcode_from_name(op) \in 0 .. 127
        /\ op_function(opcode_from_name(op)) = op
      BY <1>4, <1>5, OpcodeOfName
  <2>2. QED
      BY <2>1 DEF op_function, param_count
<1>6. QED
    BY <1>1, <1>4, <1>5

(* Where the instructions begin. *)
LEMMA OffsetsAre ==
    ASSUME NEW prog, NEW n \in Nat,
           \A k \in 1 .. n : calculate_instruction_length(prog[k]) \in Nat
    PROVE  /\ Offset(prog, 1) = 0
           /\ \A k \in 1 .. n + 1 : Offset(prog, k) \in Nat
           /\ \A k \in 1 .. n :
                 Offset(prog, k + 1)
                    = Offset(prog, k) + calculate_instruction_length(prog[k])
<1> DEFINE len(k) == calculate_instruction_length(prog[k])
           zeros(k) == [i \in 1 .. len(k) |-> 0]
           ss == [k \in 1 .. n |-> zeros(k)]
<1>1. /\ ss \in Seq(Seq(Nat)) /\ Len(ss) = n
      /\ \A k \in 1 .. n : Len(ss[k]) = len(k)
  <2> HIDE DEF len
  <2>1. \A k \in 1 .. n : len(k) \in Nat
      BY DEF len
  <2>2. \A k \in 1 .. n : zeros(k) \in Seq(Nat) /\ Len(zeros(k)) = len(k)
      BY <2>1
  <2> HIDE DEF zeros
  <2>3. QED
      BY <2>2
<1> HIDE DEF ss, zeros, len
<1>2. PICK off : Begins(off, ss)
    BY <1>1, BeginsExist
<1>3. /\ off \in [1 .. n + 1 -> Nat] /\ off[1] = 0
      /\ \A k \in 1 .. n : off[k + 1] = off[k] + len(k)
    BY <1>1, <1>2 DEF Begins
<1>4. ASSUME NEW index \in 1 .. n + 1
      PROVE  Offset(prog, index) = off[index]
  <2> DEFINE After(f) == [k \in 1 .. index |->
                 IF k = 1 THEN 0 ELSE f[k - 1] + len(k - 1)]
             at == CHOOSE f : f = After(f)
  <2>1. Offset(prog, index) = at[index]
      BY DEF Offset, len
  <2> DEFINE g == [k \in 1 .. index |-> off[k]]
  <2>2. g = After(g)
    <3>1. \A k \in 1 .. index : k # 1 =>
              /\ k - 1 \in 1 .. index /\ k - 1 \in 1 .. n /\ (k - 1) + 1 = k
        OBVIOUS
    <3>2. \A k \in 1 .. index :
              off[k] = IF k = 1 THEN 0 ELSE off[k - 1] + len(k - 1)
      <4>1. ASSUME NEW k \in 1 .. index, k # 1
            PROVE  off[k] = off[k - 1] + len(k - 1)
        <5> DEFINE j == k - 1
        <5>1. j \in 1 .. n /\ j + 1 = k
            BY <3>1, <4>1
        <5> HIDE DEF j
        <5>2. off[j + 1] = off[j] + len(j)
            BY <1>3, <5>1
        <5>3. QED
            BY <5>1, <5>2 DEF j
      <4>2. QED
          BY <1>3, <4>1
    <3>3. \A k \in 1 .. index :
              g[k] = IF k = 1 THEN 0 ELSE g[k - 1] + len(k - 1)
        BY <3>1, <3>2
    <3>4. g = [k \in 1 .. index |-> g[k]]
        OBVIOUS
    <3> HIDE DEF g
    <3>5. QED
        BY <3>3, <3>4
  <2>3. at = After(at)
    <3> HIDE DEF After, g
    <3>1. QED
        BY <2>2
  <2> HIDE DEF at, g
  <2>4. \A k \in 1 .. index :
            at[k] = IF k = 1 THEN 0 ELSE at[k - 1] + len(k - 1)
      BY <2>3
  <2> HIDE DEF After
  <2> DEFINE G == {k \in 0 .. index - 1 : at[k + 1] = off[k + 1]}
  <2>5. 0 \in G
      BY <1>3, <2>4
  <2>6. ASSUME NEW k \in 0 .. (index - 1) - 1, k \in G
        PROVE  k + 1 \in G
    <3> DEFINE l == k + 1
    <3>1. /\ l \in 0 .. index - 1 /\ l \in 1 .. n /\ l + 1 \in 1 .. index
          /\ l + 1 # 1 /\ (l + 1) - 1 = l
        OBVIOUS
    <3>2. at[l] = off[l]
        BY <2>6
    <3> HIDE DEF l, G
    <3>3. at[l + 1] = at[(l + 1) - 1] + len((l + 1) - 1)
        BY <2>4, <3>1
    <3>4. at[l + 1] = off[l + 1]
        BY <1>3, <3>1, <3>2, <3>3
    <3>5. QED
        BY <3>1, <3>4 DEF G, l
  <2> HIDE DEF G
  <2>7. 0 .. index - 1 \subseteq G
      BY <2>5, <2>6, InductionUpTo
  <2>8. index - 1 \in G /\ (index - 1) + 1 = index
      BY <2>7
  <2>9. at[index] = off[index]
      BY <2>8 DEF G
  <2>10. QED
      BY <2>1, <2>9
<1>5. Offset(prog, 1) = 0 /\ \A k \in 1 .. n + 1 : Offset(prog, k) \in Nat
    BY <1>3, <1>4
<1>6. ASSUME NEW k \in 1 .. n
      PROVE  Offset(prog, k + 1) = Offset(prog, k) + len(k)
  <2>1. k \in 1 .. n + 1 /\ k + 1 \in 1 .. n + 1
      OBVIOUS
  <2>2. QED
      BY <1>3, <1>4, <2>1
<1>7. QED
    BY <1>5, <1>6 DEF len

-----------------------------------------------------------------------------
(* Programs in the memory. *)

(* An instruction of a program with addresses for labels. *)
Resolved(prog, k) == [op |-> prog[k].op,
                      p1 |-> Resolve(prog, ROM_START, prog[k].p1),
                      p2 |-> Resolve(prog, ROM_START, prog[k].p2)]

(* Where it lies, and where the program ends. *)
At(prog, k) == ROM_START + Offset(prog, k)
Size(prog) == Offset(prog, Len(prog) + 1)

(* Programs of instructions with the parameters their opcodes take. *)
Encodable(prog) == /\ Len(prog) \in Nat \ {0}
                   /\ DOMAIN prog = 1 .. Len(prog)
                   /\ \A k \in 1 .. Len(prog) : Resolved(prog, k) \in Encodings
                   /\ \A k \in 1 .. Len(prog) :
                         prog[k] = [op |-> prog[k].op, p1 |-> prog[k].p1,
                                    p2 |-> prog[k].p2]

Lies(m, prog) == \A j \in 0 .. Size(prog) - 1 :
                    m[ROM_START + j] = Assemble(prog, ROM_START)[j + 1]

(* A label takes as many bytes as the address that replaces it. *)
LEMMA ResolvedLength ==
    ASSUME NEW prog, NEW k
    PROVE  calculate_instruction_length(Resolved(prog, k))
               = calculate_instruction_length(prog[k])
<1>1. \A p : param_size(Resolve(prog, ROM_START, p).mode) = param_size(p.mode)
    BY DEF Resolve, Long, Param, param_size, Constant8, Constant16, Constant32,
       AbsoluteAddress, RelativeAddress, Register, RegisterAddress, Label
<1>2. QED
    BY <1>1 DEF calculate_instruction_length, Resolved

(* The bytes of a program are those of its instructions, one after another. *)
LEMMA Assembled ==
    ASSUME NEW prog, Encodable(prog)
    PROVE  /\ Assemble(prog, ROM_START) \in Seq(ByteRange)
           /\ Len(Assemble(prog, ROM_START)) = Size(prog)
           /\ Size(prog) \in Nat
           /\ \A k \in 1 .. Len(prog) :
                 LET w == write_instruction(Resolved(prog, k))
                 IN  /\ Offset(prog, k) \in Nat
                     /\ Len(w) \in 1 .. 10
                     /\ Len(w) = calculate_instruction_length(prog[k])
                     /\ Offset(prog, k + 1) = Offset(prog, k) + Len(w)
                     /\ Offset(prog, k + 1) <= Size(prog)
                     /\ \A j \in 0 .. Len(w) - 1 :
                           Assemble(prog, ROM_START)[Offset(prog, k) + j + 1]
                              = w[j + 1]
<1> DEFINE n == Len(prog)
           w(k) == write_instruction(Resolved(prog, k))
           ss == [k \in 1 .. n |-> w(k)]
           off == [k \in 1 .. n + 1 |-> Offset(prog, k)]
<1>1. n \in Nat /\ DOMAIN prog = 1 .. n
      /\ \A k \in 1 .. n : Resolved(prog, k) \in Encodings
    BY DEF Encodable
<1>2. \A k \in 1 .. n :
          /\ w(k) \in Seq(ByteRange)
          /\ Len(w(k)) \in 1 .. 10
          /\ Len(w(k)) = calculate_instruction_length(prog[k])
  <2> SUFFICES ASSUME NEW k \in 1 .. n
               PROVE  /\ w(k) \in Seq(ByteRange)
                      /\ Len(w(k)) \in 1 .. 10
                      /\ Len(w(k)) = calculate_instruction_length(prog[k])
      OBVIOUS
  <2> DEFINE x == Resolved(prog, k)
  <2>1. x \in Encodings /\ BYTE >= 128
      BY <1>1, CpuAssumption
  <2>2. calculate_instruction_length(x) = calculate_instruction_length(prog[k])
      BY ResolvedLength
  <2> HIDE DEF x
  <2>3. /\ write_instruction(x) \in Seq(ByteRange)
        /\ Len(write_instruction(x)) \in 1 .. 10
        /\ Len(write_instruction(x)) = calculate_instruction_length(x)
      BY <2>1, InstructionBytes, InstructionLength
  <2>4. QED
      BY <2>2, <2>3 DEF x
<1>3. Assemble(prog, ROM_START) = FlattenSeq(ss)
  <2>1. \A k \in 1 .. n :
            [prog[k] EXCEPT !.p1 = Resolve(prog, ROM_START, @),
                            !.p2 = Resolve(prog, ROM_START, @)]
              = Resolved(prog, k)
    <3> SUFFICES ASSUME NEW k \in 1 .. n
                 PROVE  [prog[k] EXCEPT !.p1 = Resolve(prog, ROM_START, @),
                                        !.p2 = Resolve(prog, ROM_START, @)]
                          = Resolved(prog, k)
        OBVIOUS
    <3> DEFINE z == prog[k]
               r == Resolve(prog, ROM_START, z.p1)
               s == Resolve(prog, ROM_START, z.p2)
               y == [z EXCEPT !.p1 = Resolve(prog, ROM_START, @),
                              !.p2 = Resolve(prog, ROM_START, @)]
    <3>1. z = [op |-> z.op, p1 |-> z.p1, p2 |-> z.p2]
        BY DEF Encodable
    <3>2. Resolved(prog, k) = [op |-> z.op, p1 |-> r, p2 |-> s]
        BY DEF Resolved
    <3> HIDE DEF z
    <3>3. y = [[z EXCEPT !.p1 = r] EXCEPT !.p2 = s]
        BY <3>1
    <3> HIDE DEF y, r, s
    <3>4. y = [op |-> z.op, p1 |-> r, p2 |-> s]
        BY <3>1, <3>3
    <3>5. QED
        BY <3>2, <3>4 DEF y, z
  <2>2. QED
      BY <1>1, <2>1 DEF Assemble
<1>4. ss \in Seq(Seq(ByteRange)) /\ Len(ss) = n
      /\ \A k \in 1 .. n : ss[k] = w(k)
    BY <1>1, <1>2
<1> HIDE DEF ss, w
<1>5. /\ Offset(prog, 1) = 0
      /\ \A k \in 1 .. n + 1 : Offset(prog, k) \in Nat
      /\ \A k \in 1 .. n : Offset(prog, k + 1)
                              = Offset(prog, k) + Len(w(k))
  <2>1. \A k \in 1 .. n : calculate_instruction_length(prog[k]) \in Nat
      BY <1>2
  <2>2. QED
      BY <1>1, <1>2, <2>1, OffsetsAre
<1>6. Begins(off, ss)
    BY <1>1, <1>4, <1>5 DEF Begins
<1> HIDE DEF off
<1>7. /\ FlattenSeq(ss) \in Seq(ByteRange)
      /\ Len(FlattenSeq(ss)) = Offset(prog, n + 1)
      /\ \A k \in 1 .. n : \A j \in 1 .. Len(w(k)) :
            FlattenSeq(ss)[Offset(prog, k) + j] = w(k)[j]
  <2>1. /\ FlattenSeq(ss) \in Seq(ByteRange)
        /\ Len(FlattenSeq(ss)) = off[Len(ss) + 1]
        /\ \A k \in 1 .. Len(ss) : \A j \in 1 .. Len(ss[k]) :
              FlattenSeq(ss)[off[k] + j] = ss[k][j]
      BY <1>4, <1>6, Flattened
  <2>2. \A k \in 1 .. n + 1 : off[k] = Offset(prog, k)
      BY DEF off
  <2>3. n + 1 \in 1 .. n + 1 /\ \A k \in 1 .. n : k \in 1 .. n + 1
      BY <1>1
  <2>4. off[n + 1] = Offset(prog, n + 1)
        /\ \A k \in 1 .. n : off[k] = Offset(prog, k) /\ ss[k] = w(k)
      BY <1>4, <2>2, <2>3
  <2> DEFINE flat == FlattenSeq(ss)
  <2> HIDE DEF flat, n
  <2>5. \A k \in 1 .. n : \A j \in 1 .. Len(w(k)) :
            flat[Offset(prog, k) + j] = w(k)[j]
    <3> SUFFICES ASSUME NEW k \in 1 .. n, NEW j \in 1 .. Len(w(k))
                 PROVE  flat[Offset(prog, k) + j] = w(k)[j]
        OBVIOUS
    <3>1. ss[k] = w(k) /\ off[k] = Offset(prog, k)
        BY <2>4
    <3>2. k \in 1 .. Len(ss) /\ j \in 1 .. Len(ss[k])
        BY <1>4, <3>1
    <3>3. flat[off[k] + j] = ss[k][j]
        BY <2>1, <3>2 DEF flat
    <3>4. QED
        BY <3>1, <3>3
  <2>6. QED
      BY <1>4, <2>1, <2>4, <2>5 DEF flat
<1>8. \A k \in 1 .. n : Offset(prog, k + 1) <= Offset(prog, n + 1)
  <2> SUFFICES ASSUME NEW k \in 1 .. n
               PROVE  Offset(prog, k + 1) <= Offset(prog, n + 1)
      OBVIOUS
  <2>1. n + 1 \in 1 .. Len(ss) + 1 /\ k + 1 \in 1 .. n + 1
      BY <1>1, <1>4
  <2>2. off[k + 1] <= off[n + 1]
      BY <1>4, <1>6, <2>1, BeginsGrow
  <2>3. QED
      BY <2>1, <2>2 DEF off
<1>9. \A k \in 1 .. n : \A j \in 0 .. Len(w(k)) - 1 :
          FlattenSeq(ss)[Offset(prog, k) + j + 1] = w(k)[j + 1]
  <2> SUFFICES ASSUME NEW k \in 1 .. n, NEW j \in 0 .. Len(w(k)) - 1
               PROVE  FlattenSeq(ss)[Offset(prog, k) + j + 1] = w(k)[j + 1]
      OBVIOUS
  <2>1. j + 1 \in 1 .. Len(w(k)) /\ Offset(prog, k) \in Nat
        /\ Offset(prog, k) + (j + 1) = Offset(prog, k) + j + 1
      BY <1>2, <1>5
  <2>2. QED
      BY <1>7, <2>1
<1>10. QED
  <2>1. Size(prog) = Offset(prog, n + 1) /\ Size(prog) \in Nat
      BY <1>1, <1>5 DEF Size
  <2>2. \A k \in 1 .. n : k \in 1 .. n + 1
      OBVIOUS
  <2> DEFINE flat == FlattenSeq(ss)
  <2>3. /\ Assemble(prog, ROM_START) = flat
        /\ flat \in Seq(ByteRange) /\ Len(flat) = Size(prog)
        /\ \A k \in 1 .. n : \A j \in 0 .. Len(w(k)) - 1 :
              flat[Offset(prog, k) + j + 1] = w(k)[j + 1]
      BY <1>3, <1>7, <1>9, <2>1
  <2> HIDE DEF flat
  <2>4. \A k \in 1 .. n :
            /\ Offset(prog, k) \in Nat
            /\ Len(w(k)) \in 1 .. 10
            /\ Len(w(k)) = calculate_instruction_length(prog[k])
            /\ Offset(prog, k + 1) = Offset(prog, k) + Len(w(k))
            /\ Offset(prog, k + 1) <= Size(prog)
    <3> SUFFICES ASSUME NEW k \in 1 .. n
                 PROVE  /\ Offset(prog, k) \in Nat
                        /\ Len(w(k)) \in 1 .. 10
                        /\ Len(w(k)) = calculate_instruction_length(prog[k])
                        /\ Offset(prog, k + 1) = Offset(prog, k) + Len(w(k))
                        /\ Offset(prog, k + 1) <= Size(prog)
        OBVIOUS
    <3>1. QED
        BY <1>2, <1>5, <1>8, <2>1, <2>2
  <2>5. Assemble(prog, ROM_START) = flat /\ n = Len(prog)
        /\ \A k : w(k) = write_instruction(Resolved(prog, k))
      BY <2>3 DEF w
  <2> HIDE DEF n
  <2>6. QED
      BY <2>1, <2>3, <2>4, <2>5

LEMMA ProgramGrows ==
    ASSUME NEW prog, Encodable(prog), NEW k \in 1 .. Len(prog)
    PROVE  /\ At(prog, k) \in Nat
           /\ At(prog, k + 1) \in Nat
           /\ At(prog, k) < At(prog, k + 1)
<1> DEFINE l == Len(write_instruction(Resolved(prog, k)))
           o == Offset(prog, k)
           e == Offset(prog, k + 1)
<1>1. o \in Nat /\ l \in 1 .. 10 /\ e = o + l
    BY Assembled
<1>2. ROM_START \in Nat
    BY CpuAssumption
<1> HIDE DEF o, l, e
<1>3. ROM_START + o \in Nat /\ ROM_START + e \in Nat
      /\ ROM_START + o < ROM_START + e
    BY <1>1, <1>2
<1>4. QED
    BY <1>3 DEF At, o, e

(* What the cpu decodes where an instruction of a program lies. *)
LEMMA Listing ==
    ASSUME NEW prog, Encodable(prog), Size(prog) <= ROM_SIZE,
           NEW m \in Memory, Lies(m, prog), NEW k \in 1 .. Len(prog)
    PROVE  LET x == Resolved(prog, k)
               i == parse_instruction(m, At(prog, k))
           IN  /\ i = [op |-> x.op, p1 |-> Read(x.p1), p2 |-> Read(x.p2),
                       len |-> calculate_instruction_length(prog[k])]
               /\ i.len \in 1 .. 10
               /\ At(prog, k) \in Nat
               /\ At(prog, k + 1) = At(prog, k) + i.len
               /\ At(prog, k + 1) <= ROM_START + Size(prog)
<1> DEFINE x == Resolved(prog, k)
           w == write_instruction(x)
           o == Offset(prog, k)
           image == Assemble(prog, ROM_START)
           len == calculate_instruction_length(prog[k])
<1>1. /\ Size(prog) \in Nat /\ o \in Nat
      /\ Len(w) \in 1 .. 10 /\ Len(w) = len
      /\ Offset(prog, k + 1) = o + Len(w)
      /\ o + Len(w) <= Size(prog)
      /\ \A j \in 0 .. Len(w) - 1 : image[o + j + 1] = w[j + 1]
  <2>1. /\ Offset(prog, k + 1) <= Size(prog)
        /\ Offset(prog, k + 1) = o + Len(w)
      BY Assembled
  <2>2. /\ Size(prog) \in Nat /\ o \in Nat
        /\ Len(w) \in 1 .. 10 /\ Len(w) = len
      BY Assembled
  <2>3. \A j \in 0 .. Len(w) - 1 : image[o + j + 1] = w[j + 1]
      BY Assembled
  <2>4. QED
      BY <2>1, <2>2, <2>3
<1>2. x \in Encodings /\ BYTE >= 128
    BY CpuAssumption DEF Encodable
<1>3. /\ ROM_START \in Nat /\ ROM_SIZE \in Nat /\ MEM_SIZE \in Nat
      /\ ROM_START + ROM_SIZE <= MEM_SIZE
    BY CpuAssumption, MemAssumption
<1> HIDE DEF w, x, o, image, len
<1>4. ASSUME NEW j \in 0 .. Len(w) - 1
      PROVE  m[(ROM_START + o) + j] = w[j + 1]
  <2>1. o + j \in 0 .. Size(prog) - 1
        /\ ROM_START + (o + j) = (ROM_START + o) + j
      BY <1>1, <1>3
  <2>2. m[ROM_START + (o + j)] = image[o + j + 1]
      BY <2>1 DEF Lies, image
  <2>3. QED
      BY <1>1, <2>1, <2>2
<1>5. (ROM_START + o) \in Nat /\ (ROM_START + o) + Len(w) <= MEM_SIZE
  <2> DEFINE l == Len(w)
             z == Size(prog)
  <2>1. z \in Nat /\ o \in Nat /\ l \in 1 .. 10 /\ o + l <= z
        /\ z <= ROM_SIZE
      BY <1>1
  <2> HIDE DEF l, z
  <2>2. QED
      BY <1>3, <2>1 DEF l
<1>6. parse_instruction(m, ROM_START + o) =
             [op |-> x.op, p1 |-> Read(x.p1), p2 |-> Read(x.p2),
              len |-> Len(w)]
    BY <1>2, <1>4, <1>5, Decoded DEF w
<1> DEFINE p == Read(x.p1)
           q == Read(x.p2)
           i == parse_instruction(m, ROM_START + o)
<1> HIDE DEF p, q, i
<1>7. i = [op |-> x.op, p1 |-> p, p2 |-> q, len |-> len] /\ i.len = Len(w)
    BY <1>1, <1>6 DEF i, p, q
<1>8. /\ At(prog, k) = ROM_START + o
      /\ At(prog, k + 1) = ROM_START + Offset(prog, k + 1)
    BY DEF At, o
<1>9. /\ At(prog, k + 1) = At(prog, k) + i.len
      /\ At(prog, k + 1) <= ROM_START + Size(prog)
      /\ At(prog, k) \in Nat /\ i.len \in 1 .. 10
  <2> DEFINE l == i.len
             z == Size(prog)
             next == Offset(prog, k + 1)
  <2>1. /\ l \in 1 .. 10 /\ z \in Nat /\ o \in Nat
        /\ next = o + l /\ next <= z
    <3>1. l = Len(w)
        BY <1>7
    <3>2. Len(w) \in 1 .. 10 /\ z \in Nat /\ o \in Nat
          /\ next = o + Len(w) /\ o + Len(w) <= z
        BY <1>1
    <3>3. QED
        BY <3>1, <3>2
  <2> HIDE DEF l, z, next
  <2>2. /\ ROM_START + next = (ROM_START + o) + l
        /\ ROM_START + next <= ROM_START + z
        /\ ROM_START + o \in Nat
      BY <1>3, <2>1
  <2>3. QED
      BY <1>8, <2>1, <2>2 DEF l, z, next
<1>10. i = parse_instruction(m, At(prog, k))
    BY <1>8 DEF i
<1>11. QED
    BY <1>7, <1>9, <1>10 DEF x, len, p, q

(* Parameters of the programs: of a value that fits its mode, or a label. *)
Plain(p) == /\ p = [mode |-> p.mode, value |-> p.value]
            /\ p.mode \in 1 .. 7
            /\ p.value \in WordRange
            /\ p.value < Capacity(param_size(p.mode))
Refers(prog, p) == \E k \in 1 .. Len(prog) + 1 : p = To(k)
Given(prog, p) == Plain(p) \/ Refers(prog, p)

(* What is written of an instruction of a program. *)
Regular(prog, x) ==
    \/ \E op \in NoParameter : x = Op0(op)
    \/ \E op \in OneParameter : \E p : Given(prog, p) /\ x = Op1(op, p)
    \/ \E op \in TwoParameters : \E p, q :
          Given(prog, p) /\ Given(prog, q) /\ x = Op2(op, p, q)

(* A program with positions of its instructions that are words. *)
Written(prog) == /\ Len(prog) \in Nat \ {0}
                 /\ DOMAIN prog = 1 .. Len(prog)
                 /\ \A k \in 1 .. Len(prog) : Regular(prog, prog[k])

LEMMA PlainRead ==
    ASSUME NEW prog, NEW p, Plain(p)
    PROVE  /\ Resolve(prog, ROM_START, p) = p
           /\ Read(p) = p
           /\ p \in WordParam
           /\ p.mode # Unused
<1>1. p.value % Capacity(param_size(p.mode)) = p.value
  <2> DEFINE c == Capacity(param_size(p.mode))
  <2>1. c \in Nat \ {0} /\ p.value \in 0 .. c - 1
      BY CapacityRange DEF Plain, WordRange
  <2> HIDE DEF c
  <2>2. p.value % c = p.value
      BY <2>1, SmallMod
  <2>3. QED
      BY <2>2 DEF c
<1>2. Read(p) = p
    BY <1>1 DEF Plain, Read
<1>3. p.mode # Label /\ p.mode # Unused
    BY DEF Plain, Label, Unused
<1>4. p \in WordParam
    BY DEF Plain, WordParam
<1>5. QED
    BY <1>2, <1>3, <1>4 DEF Resolve

LEMMA PlainLong ==
    ASSUME NEW v \in WordRange
    PROVE  Plain(Long(v))
<1>1. Capacity(4) = WORD /\ WORD \in Nat
    BY Widths DEF Capacity
<1>2. QED
    BY <1>1 DEF Plain, Long, Param, Constant32, param_size, Constant8,
       Constant16, AbsoluteAddress, RelativeAddress, Register,
       RegisterAddress, Label, WordRange

LEMMA PlainByte ==
    ASSUME NEW v \in ByteRange
    PROVE  Plain(Byte(v)) /\ Plain(Reg(v))
<1>1. Capacity(1) = BYTE /\ BYTE \in Nat /\ WORD \in Nat /\ BYTE <= WORD
    BY Widths DEF Capacity
<1>2. QED
    BY <1>1 DEF Plain, Byte, Reg, Param, Constant32, param_size, Constant8,
       Constant16, AbsoluteAddress, RelativeAddress, Register,
       RegisterAddress, Label, WordRange, ByteRange

LEMMA PlainReg ==
    ASSUME NEW v \in 0 .. 127
    PROVE  Plain(Reg(v))
<1>1. v \in ByteRange
    BY CpuAssumption, Widths DEF ByteRange
<1>2. QED
    BY <1>1, PlainByte

LEMMA LabelRead ==
    ASSUME NEW prog, NEW k, At(prog, k) \in WordRange
    PROVE  /\ Resolve(prog, ROM_START, To(k)) = Long(At(prog, k))
           /\ Plain(Long(At(prog, k)))
           /\ Read(Long(At(prog, k))) = Long(At(prog, k))
<1>1. Resolve(prog, ROM_START, To(k)) = Long(At(prog, k))
    BY DEF Resolve, To, Param, Label, At
<1>2. Plain(Long(At(prog, k)))
  <2> DEFINE v == At(prog, k)
  <2> HIDE DEF v
  <2>1. v \in WordRange => Plain(Long(v))
      BY PlainLong
  <2>2. QED
      BY <2>1 DEF v
<1>3. QED
    BY <1>1, <1>2, PlainRead

(* Such a program can be encoded, if it fits into the rom. *)
LEMMA WrittenEncodable ==
    ASSUME NEW prog, Written(prog), Size(prog) <= ROM_SIZE
    PROVE  /\ Encodable(prog)
           /\ Size(prog) \in Nat
           /\ \A k \in 1 .. Len(prog) + 1 : At(prog, k) \in WordRange
<1> DEFINE n == Len(prog)
<1>1. n \in Nat \ {0} /\ DOMAIN prog = 1 .. n
      /\ \A k \in 1 .. n : Regular(prog, prog[k])
    BY DEF Written
<1>2. ASSUME NEW k \in 1 .. n
      PROVE  \E op, p, q : prog[k] = [op |-> op, p1 |-> p, p2 |-> q]
    BY <1>1 DEF Regular, Op0, Op1, Op2
<1>3. \A k \in 1 .. n : calculate_instruction_length(prog[k]) \in Nat
  <2> SUFFICES ASSUME NEW k \in 1 .. n
               PROVE  calculate_instruction_length(prog[k]) \in Nat
      OBVIOUS
  <2> DEFINE x == prog[k]
             a == param_size(x.p1.mode)
             b == param_size(x.p2.mode)
             c == IF param_count(opcode_from_name(x.op)) > 0 THEN 1 ELSE 0
  <2>1. a \in 0 .. 4 /\ b \in 0 .. 4 /\ c \in 0 .. 1
      BY ParamSize
  <2>2. calculate_instruction_length(x) = 1 + c + a + b
      BY DEF calculate_instruction_length
  <2> HIDE DEF x, a, b, c
  <2>3. QED
      BY <2>1, <2>2 DEF x
<1>4. /\ Offset(prog, 1) = 0
      /\ \A k \in 1 .. n + 1 : Offset(prog, k) \in Nat
      /\ \A k \in 1 .. n : Offset(prog, k + 1)
             = Offset(prog, k) + calculate_instruction_length(prog[k])
    BY <1>1, <1>3, OffsetsAre
<1>5. Size(prog) \in Nat /\ Size(prog) = Offset(prog, n + 1)
    BY <1>1, <1>4 DEF Size
<1>6. \A k \in 1 .. n + 1 : Offset(prog, k) <= Size(prog)
  <2> DEFINE G == {j \in 0 .. n : Offset(prog, (n + 1) - j) <= Size(prog)}
  <2>1. 0 \in G
      BY <1>1, <1>5
  <2>2. ASSUME NEW j \in 0 .. n - 1, j \in G
        PROVE  j + 1 \in G
    <3> DEFINE k == n - j
    <3>1. k \in 1 .. n /\ (n + 1) - j = k + 1 /\ (n + 1) - (j + 1) = k
          /\ j + 1 \in 0 .. n /\ k + 1 \in 1 .. n + 1 /\ k \in 1 .. n + 1
        BY <1>1
    <3>2. Offset(prog, k + 1) <= Size(prog)
        BY <2>2, <3>1
    <3> HIDE DEF k
    <3>3. Offset(prog, k) <= Size(prog)
        BY <1>3, <1>4, <1>5, <3>1, <3>2
    <3>4. QED
        BY <3>1, <3>3
  <2> HIDE DEF G
  <2>3. 0 .. n \subseteq G
      BY <1>1, <2>1, <2>2, InductionUpTo
  <2>4. ASSUME NEW k \in 1 .. n + 1
        PROVE  Offset(prog, k) <= Size(prog)
    <3>1. (n + 1) - k \in 0 .. n /\ (n + 1) - ((n + 1) - k) = k
        BY <1>1
    <3>2. (n + 1) - k \in G
        BY <2>3, <3>1
    <3>3. QED
        BY <3>1, <3>2 DEF G
  <2>5. QED
      BY <2>4
<1>7. ASSUME NEW k \in 1 .. n + 1
      PROVE  At(prog, k) \in WordRange
  <2>1. Offset(prog, k) \in Nat /\ Offset(prog, k) <= Size(prog)
      BY <1>4, <1>6
  <2>2. /\ ROM_START \in Nat /\ ROM_SIZE \in Nat /\ MEM_SIZE \in Nat
        /\ ROM_START + ROM_SIZE <= MEM_SIZE /\ MEM_SIZE < WORD
        /\ WORD \in Nat
      BY CpuAssumption, MemAssumption, Widths
  <2>3. QED
      BY <1>5, <2>1, <2>2 DEF At, WordRange
<1>8. ASSUME NEW p, Given(prog, p)
      PROVE  LET q == Resolve(prog, ROM_START, p)
             IN  q \in WordParam /\ q.mode # Unused
  <2>1. CASE Plain(p)
      BY <2>1, PlainRead
  <2>2. CASE Refers(prog, p)
    <3>1. PICK k \in 1 .. n + 1 : p = To(k)
        BY <2>2 DEF Refers
    <3>2. At(prog, k) \in WordRange
        BY <1>7
    <3>3. Resolve(prog, ROM_START, p) = Long(At(prog, k))
          /\ Plain(Long(At(prog, k)))
        BY <3>1, <3>2, LabelRead
    <3>4. QED
        BY <3>3, PlainRead
  <2>3. QED
      BY <1>8, <2>1, <2>2 DEF Given
<1>9. LET q == Resolve(prog, ROM_START, None)
      IN  q \in WordParam /\ q.mode = Unused
  <2>1. Resolve(prog, ROM_START, None) = None /\ None.mode = 0
        /\ None = [mode |-> 0, value |-> 0]
      BY DEF Resolve, None, Param, Label, Unused
  <2>2. 0 \in WordRange
      BY Widths DEF WordRange
  <2>3. QED
      BY <2>1, <2>2 DEF WordParam, Unused
<1>10. ASSUME NEW k \in 1 .. n
       PROVE  Resolved(prog, k) \in Encodings
  <2> DEFINE x == prog[k]
             y == Resolved(prog, k)
             q1 == Resolve(prog, ROM_START, x.p1)
             q2 == Resolve(prog, ROM_START, x.p2)
             count == param_count(opcode_from_name(x.op))
  <2>1. /\ y = [op |-> x.op, p1 |-> q1, p2 |-> q2]
        /\ Regular(prog, x)
      BY <1>1 DEF Resolved
  <2> HIDE DEF x
  <2>2. /\ x.op \in ToSet(OpTable)
        /\ q1 \in WordParam /\ q2 \in WordParam
        /\ count > 0 <=> q1.mode # Unused
        /\ count > 1 <=> q2.mode # Unused
    <3>1. CASE \E op \in NoParameter : x = Op0(op)
      <4>1. PICK op \in NoParameter : x = Op0(op)
          BY <3>1
      <4>2. x.op = op /\ x.p1 = None /\ x.p2 = None
          BY <4>1 DEF Op0
      <4>3. op \in ToSet(OpTable) /\ count = 0
          BY <4>2, Counts
      <4> HIDE DEF count
      <4>4. QED
          BY <1>9, <4>2, <4>3
    <3>2. CASE \E op \in OneParameter : \E p : Given(prog, p) /\ x = Op1(op, p)
      <4>1. PICK op \in OneParameter : \E p : Given(prog, p) /\ x = Op1(op, p)
          BY <3>2
      <4> PICK p : Given(prog, p) /\ x = Op1(op, p)
          BY <4>1
      <4>2. x.op = op /\ x.p1 = p /\ x.p2 = None
          BY <4>1 DEF Op1
      <4>3. op \in ToSet(OpTable) /\ count = 1
          BY <4>2, Counts
      <4> HIDE DEF count
      <4>4. QED
          BY <1>8, <1>9, <4>1, <4>2, <4>3
    <3>3. CASE \E op \in TwoParameters : \E p, q :
                  Given(prog, p) /\ Given(prog, q) /\ x = Op2(op, p, q)
      <4>1. PICK op \in TwoParameters : \E p, q :
                Given(prog, p) /\ Given(prog, q) /\ x = Op2(op, p, q)
          BY <3>3
      <4> PICK p, q : Given(prog, p) /\ Given(prog, q) /\ x = Op2(op, p, q)
          BY <4>1
      <4>2. x.op = op /\ x.p1 = p /\ x.p2 = q
          BY <4>1 DEF Op2
      <4>3. op \in ToSet(OpTable) /\ count = 2
          BY <4>2, Counts
      <4> HIDE DEF count
      <4>4. QED
          BY <1>8, <4>1, <4>2, <4>3
    <3>4. QED
        BY <2>1, <3>1, <3>2, <3>3 DEF Regular
  <2> HIDE DEF q1, q2, y
  <2>3. ParamsMatch(y)
      BY <2>1, <2>2 DEF ParamsMatch
  <2>4. y \in [op : ToSet(OpTable), p1 : WordParam, p2 : WordParam]
      BY <2>1, <2>2
  <2>5. y \in Encodings
      BY <2>3, <2>4 DEF Encodings
  <2>6. QED
      BY <2>5 DEF y
<1>11. \A k \in 1 .. n : prog[k] = [op |-> prog[k].op, p1 |-> prog[k].p1,
                                     p2 |-> prog[k].p2]
  <2> SUFFICES ASSUME NEW k \in 1 .. n
               PROVE  prog[k] = [op |-> prog[k].op, p1 |-> prog[k].p1,
                                 p2 |-> prog[k].p2]
      OBVIOUS
  <2>1. PICK op, p, q : prog[k] = [op |-> op, p1 |-> p, p2 |-> q]
      BY <1>2
  <2>2. QED
      BY <2>1
<1>12. QED
    BY <1>1, <1>5, <1>7, <1>10, <1>11 DEF Encodable

(* The constructor puts a program that fits where the cpu begins. *)
LEMMA ProgramLoaded ==
    ASSUME NEW prog, Encodable(prog), Loaded(Assemble(prog, ROM_START))
    PROVE  Lies(mem, prog) /\ Size(prog) <= ROM_SIZE
<1> DEFINE rom == Assemble(prog, ROM_START)
<1>1. rom \in Seq(ByteRange) /\ Len(rom) = Size(prog) /\ Size(prog) \in Nat
    BY Assembled
<1>2. Len(rom) <= ROM_SIZE /\ mem = Image(rom)
    BY DEF Loaded
<1> HIDE DEF rom
<1>3. ROM_START \in Nat /\ ROM_SIZE \in Nat /\ MEM_SIZE \in Nat
      /\ ROM_START + ROM_SIZE <= MEM_SIZE
    BY CpuAssumption, MemAssumption
<1>4. ASSUME NEW j \in 0 .. Size(prog) - 1
      PROVE  mem[ROM_START + j] = rom[j + 1]
  <2>1. ROM_START + j \in Cells /\ ROM_START + j >= ROM_START
        /\ (ROM_START + j) - ROM_START = j /\ j < Len(rom)
      BY <1>1, <1>2, <1>3 DEF Cells
  <2>2. QED
      BY <1>2, <2>1 DEF Image
<1>5. QED
    BY <1>1, <1>2, <1>4 DEF Lies, rom

(* A store apart from the program leaves it as it is. *)
LEMMA LiesKept ==
    ASSUME NEW prog, Size(prog) \in Nat, Size(prog) <= ROM_SIZE,
           NEW m \in Memory, Lies(m, prog), NEW a \in Nat,
           NEW size \in 0 .. 4, a + size <= MEM_SIZE,
           a + size <= ROM_START \/ ROM_START + Size(prog) <= a, NEW v
    PROVE  Lies(mem_write(m, a, v, size), prog)
<1>1. ROM_START \in Nat /\ ROM_SIZE \in Nat /\ MEM_SIZE \in Nat
      /\ ROM_START + ROM_SIZE <= MEM_SIZE
    BY CpuAssumption, MemAssumption
<1>2. Masked(a) = a
    BY InsideAccess
<1>3. ASSUME NEW j \in 0 .. Size(prog) - 1
      PROVE  mem_write(m, a, v, size)[ROM_START + j] = m[ROM_START + j]
  <2>1. ROM_START + j \in Cells /\ ROM_START + j \notin a .. a + size - 1
      BY <1>1 DEF Cells
  <2>2. QED
      BY <1>2, <2>1, WriteFootprint
<1>4. QED
    BY <1>3 DEF Lies

(* The instruction that is fetched, at the k-th of a program. *)
PcLimit == ROM_START + ROM_SIZE <= PC_LIMIT

LEMMA Fetched ==
    ASSUME NEW prog, Encodable(prog), Size(prog) <= ROM_SIZE, PcLimit,
           Built, Lies(mem, prog), NEW k \in 1 .. Len(prog),
           regs[P] = At(prog, k)
    PROVE  /\ ValidPc
           /\ op_function(mem[regs[P]]) = prog[k].op
           /\ inst.op = prog[k].op
           /\ inst.p1 = Read(Resolve(prog, ROM_START, prog[k].p1))
           /\ inst.p2 = Read(Resolve(prog, ROM_START, prog[k].p2))
           /\ inst.len = calculate_instruction_length(prog[k])
           /\ inst.len \in 1 .. 10
           /\ Word(regs[P] + inst.len) = At(prog, k + 1)
           /\ At(prog, k) \in Nat /\ At(prog, k + 1) \in Nat
           /\ At(prog, k) < At(prog, k + 1)
           /\ At(prog, k + 1) <= ROM_START + ROM_SIZE
<1> DEFINE x == Resolved(prog, k)
           len == calculate_instruction_length(prog[k])
           p == Read(x.p1)
           q == Read(x.p2)
<1>1. /\ inst = [op |-> x.op, p1 |-> p, p2 |-> q, len |-> len]
      /\ inst.len \in 1 .. 10
      /\ At(prog, k) \in Nat
      /\ At(prog, k + 1) = At(prog, k) + inst.len
      /\ At(prog, k + 1) <= ROM_START + Size(prog)
    BY Listing DEF Built, inst
<1>2. /\ x.op = prog[k].op
      /\ x.p1 = Resolve(prog, ROM_START, prog[k].p1)
      /\ x.p2 = Resolve(prog, ROM_START, prog[k].p2)
    BY DEF Resolved
<1> HIDE DEF x, len
<1>3. /\ inst.op = prog[k].op /\ inst.len = len
      /\ inst.p1 = Read(Resolve(prog, ROM_START, prog[k].p1))
      /\ inst.p2 = Read(Resolve(prog, ROM_START, prog[k].p2))
    BY <1>1, <1>2
<1>4. Size(prog) \in Nat
    BY Assembled
<1>5. /\ ROM_START \in Nat /\ ROM_SIZE \in Nat /\ MEM_SIZE \in Nat
      /\ ROM_START + ROM_SIZE <= MEM_SIZE /\ MEM_SIZE < WORD /\ WORD \in Nat
    BY CpuAssumption, MemAssumption, Widths
<1>6. /\ At(prog, k + 1) \in Nat /\ At(prog, k) < At(prog, k + 1)
      /\ At(prog, k + 1) <= ROM_START + ROM_SIZE
  <2> DEFINE a == At(prog, k)
             b == At(prog, k + 1)
             l == inst.len
             z == Size(prog)
  <2>1. /\ a \in Nat /\ l \in 1 .. 10 /\ b = a + l /\ b <= ROM_START + z
        /\ z \in Nat /\ z <= ROM_SIZE
      BY <1>1, <1>4
  <2> HIDE DEF a, b, l, z
  <2>2. b \in Nat /\ a < b /\ b <= ROM_START + ROM_SIZE
      BY <2>1, <1>5
  <2>3. QED
      BY <2>2 DEF a, b
<1>7. ValidPc
    BY <1>1, <1>5, <1>6, CpuAssumption DEF ValidPc, PcLimit, PC_LIMIT
<1>8. Word(regs[P] + inst.len) = At(prog, k + 1)
  <2> DEFINE y == At(prog, k + 1)
  <2>1. y \in 0 .. WORD - 1 /\ WORD \in Nat \ {0}
      BY <1>5, <1>6
  <2> HIDE DEF y
  <2>2. y % WORD = y
      BY <2>1, SmallMod
  <2>3. QED
      BY <1>1, <2>2 DEF Word, y
<1>9. op_function(mem[regs[P]]) = inst.op
    BY DEF inst, parse_instruction
<1>10. QED
    BY <1>1, <1>3, <1>6, <1>7, <1>8, <1>9 DEF len

(* What an instruction leaves behind. *)
Goes(rg, m, err) ==
    /\ mem' = m /\ halted' = err
    /\ phase' = phase
    /\ \A id \in 0 .. REGISTER_COUNT : id # P => regs'[id] = rg[id]
    /\ regs'[P] = IF rg[P] = regs[P] THEN Word(regs[P] + inst.len) ELSE rg[P]
    /\ rg[REGISTER_COUNT] = regs[REGISTER_COUNT] =>
            table_intact' = table_intact

LEMMA FinishGoes ==
    ASSUME NEW rg \in RegisterFile, NEW m, NEW err, Finish(rg, m, err)
    PROVE  Goes(rg, m, err)
<1>1. /\ mem' = m /\ halted' = err /\ phase' = phase
      /\ rg[REGISTER_COUNT] = regs[REGISTER_COUNT] =>
            table_intact' = table_intact
      /\ regs' = Incremented(rg)
    BY DEF Finish
<1>2. \A id \in 0 .. REGISTER_COUNT : id # P => regs'[id] = rg[id]
    BY <1>1 DEF Incremented, RegisterFile
<1>3. regs'[P] = IF rg[P] = regs[P] THEN Word(regs[P] + inst.len) ELSE rg[P]
    BY <1>1 DEF Incremented, RegisterFile, P, REGISTER_COUNT
<1>4. QED
    BY <1>1, <1>2, <1>3 DEF Goes

(* A step that is no instruction. *)
Aside == /\ UNCHANGED <<mem, regs, stopped, table_intact>>
         /\ halted => halted'
         /\ phase' = "returned" =>
                \/ phase = "returned"
                \/ halted
                \/ phase = "running" /\ halted' /\ (stopped \/ ~ValidPc)
         /\ phase' = "crashed" => phase = "crashed"
         /\ phase' = "host" => phase = "host"
         /\ phase' \in Phases
         /\ halted' # halted => \/ HostTurn /\ phase' = phase
                                \/ phase' = "returned"

LEMMA AsideOrInstruction ==
    ASSUME Built, [Next]_vars
    PROVE  Aside \/ Instruction
<1>1. ASSUME NEW name \in SysNames, register_sysfunc(name)
      PROVE  Aside
    BY <1>1 DEF register_sysfunc, Aside, HostTurn, Built, Phases
<1>2. CASE UNCHANGED vars
    BY <1>2 DEF vars, machine, Aside, Built
<1>3. CASE StartRun \/ LoopExit \/ InvalidPc \/ Stopped
    BY <1>3 DEF StartRun, LoopExit, InvalidPc, Stopped, Break, Running,
       machine, Aside, HostTurn, Built, Phases
<1>4. QED
    BY <1>1, <1>2, <1>3 DEF Next, Loop, Done

(* Which handler an operation has. *)
LEMMA HandlerOf ==
    ASSUME Instruction
    PROVE  LET op == op_function(mem[regs[P]]) IN
           /\ Fetching
           /\ op = "hlt" => Hlt
           /\ op = "stop" => Stop
           /\ op \in {"jmp"} \cup Conditions => Jump
           /\ op \in {"cmp", "ucmp"} => Compare
           /\ op = "call" => Call
           /\ op = "ret" => Ret
           /\ op = "sys" => NoSysfunc \/ SysQuiet \/ SysGet \/ SysCrash
           /\ op \in {"ld", "lds"} => Ld
           /\ op \in {"lw", "lws"} => Lw
           /\ op \in {"lda", "ldb", "ldc", "ldd"} => Ldx
           /\ op = "sta" => Stx
           /\ op = "push" => Push
           /\ op = "pop" => Pop
           /\ op \in {"inc", "dec"} => Arithmetic
<1> DEFINE op == op_function(mem[regs[P]])
<1>1. \A ops : Executes(ops) => Fetching /\ op \in ops
    BY DEF Executes
<1> HIDE DEF op
<1>2. /\ Hlt => op = "hlt"
      /\ Nop => op \in {"nop", "ei", "di", "inv"}
      /\ Stop => op = "stop"
      /\ Jump => op \in {"jmp"} \cup Conditions
      /\ Compare => op \in {"cmp", "ucmp", "fcmp"}
      /\ Call => op = "call"
      /\ Ret => op = "ret"
      /\ NoSysfunc \/ SysQuiet \/ SysGet \/ SysCrash => op = "sys"
      /\ Ld => op \in {"ld", "lds"}
      /\ Lw => op \in {"lw", "lws"}
      /\ Ldx => op \in {"lda", "ldb", "ldc", "ldd"}
      /\ Stx => op \in {"sta", "stb", "stc", "std"}
      /\ Zero => op = "zero"
      /\ Push => op = "push"
      /\ Pop => op = "pop"
  <2>1. Hlt => op = "hlt"
      BY <1>1 DEF Hlt
  <2>2. Nop => op \in {"nop", "ei", "di", "inv"}
      BY <1>1 DEF Nop
  <2>3. Stop => op = "stop"
      BY <1>1 DEF Stop
  <2>4. Jump => op \in {"jmp"} \cup Conditions
      BY <1>1 DEF Jump
  <2>5. Compare => op \in {"cmp", "ucmp", "fcmp"}
      BY <1>1 DEF Compare
  <2>6. Call => op = "call"
      BY <1>1 DEF Call
  <2>7. Ret => op = "ret"
      BY <1>1 DEF Ret
  <2>8. NoSysfunc \/ SysQuiet \/ SysGet \/ SysCrash => op = "sys"
      BY <1>1 DEF NoSysfunc, SysQuiet, SysGet, SysCrash
  <2>9. Ld => op \in {"ld", "lds"}
      BY <1>1 DEF Ld
  <2>10. Lw => op \in {"lw", "lws"}
      BY <1>1 DEF Lw
  <2>11. Ldx => op \in {"lda", "ldb", "ldc", "ldd"}
      BY <1>1 DEF Ldx
  <2>12. Stx => op \in {"sta", "stb", "stc", "std"}
      BY <1>1 DEF Stx
  <2>13. Zero => op = "zero"
      BY <1>1 DEF Zero
  <2>14. Push => op = "push"
      BY <1>1 DEF Push
  <2>15. Pop => op = "pop"
      BY <1>1 DEF Pop
  <2>16. QED
      BY <2>1, <2>2, <2>3, <2>4, <2>5, <2>6, <2>7, <2>8, <2>9, <2>10, <2>11,
         <2>12, <2>13, <2>14, <2>15
<1>3. /\ Arithmetic => op \in AluOps
      /\ DivisionTrap => op \in {"div", "mod"}
      /\ Test => op = "test"
      /\ Rand => op = "rand"
      /\ Rseed => op = "rseed"
    BY <1>1 DEF Arithmetic, DivisionTrap, Test, Rand, Rseed
<1>4. Fetching
    BY <1>1 DEF Instruction, Hlt, Nop, Stop, Jump, Compare, Call, Ret,
       NoSysfunc, SysQuiet, SysGet, SysCrash, Ld, Lw, Ldx, Stx, Zero, Push,
       Pop, Arithmetic, DivisionTrap, Test, Rand, Rseed
<1>5. \A x \in AluOps : x \notin {"hlt", "stop", "jmp", "cmp", "ucmp", "call",
          "ret", "sys", "ld", "lds", "lw", "lws", "lda", "ldb", "ldc", "ldd",
          "sta", "push", "pop"} \cup Conditions
    BY DEF AluOps, SignedRead, UnsignedOps, SignedOps, FloatOps1, FloatOps2,
       Conditions
<1>6. op = "hlt" => Hlt
    BY <1>2, <1>3, <1>5 DEF Instruction, Conditions
<1>7. op = "stop" => Stop
    BY <1>2, <1>3, <1>5 DEF Instruction, Conditions
<1>8. op \in {"jmp"} \cup Conditions => Jump
    BY <1>2, <1>3, <1>5 DEF Instruction, Conditions
<1>9. op \in {"cmp", "ucmp"} => Compare
    BY <1>2, <1>3, <1>5 DEF Instruction, Conditions
<1>10. op = "call" => Call
    BY <1>2, <1>3, <1>5 DEF Instruction, Conditions
<1>11. op = "ret" => Ret
    BY <1>2, <1>3, <1>5 DEF Instruction, Conditions
<1>12. op = "sys" => NoSysfunc \/ SysQuiet \/ SysGet \/ SysCrash
    BY <1>2, <1>3, <1>5 DEF Instruction, Conditions
<1>13. op \in {"ld", "lds"} => Ld
    BY <1>2, <1>3, <1>5 DEF Instruction, Conditions
<1>14. op \in {"lw", "lws"} => Lw
    BY <1>2, <1>3, <1>5 DEF Instruction, Conditions
<1>15. op \in {"lda", "ldb", "ldc", "ldd"} => Ldx
    BY <1>2, <1>3, <1>5 DEF Instruction, Conditions
<1>16. op = "sta" => Stx
    BY <1>2, <1>3, <1>5 DEF Instruction, Conditions
<1>17. op = "push" => Push
    BY <1>2, <1>3, <1>5 DEF Instruction, Conditions
<1>18. op = "pop" => Pop
    BY <1>2, <1>3, <1>5 DEF Instruction, Conditions
<1>19. op \in {"inc", "dec"} => Arithmetic
    BY <1>2, <1>3, <1>5 DEF Instruction, Conditions
<1>20. QED
    BY <1>4, <1>6, <1>7, <1>8, <1>9, <1>10, <1>11, <1>12, <1>13, <1>14, <1>15,
       <1>16, <1>17, <1>18, <1>19 DEF op

-----------------------------------------------------------------------------
(* Steps of programs. *)

(* The next instruction is the k-th of a program. *)
Reached(prog, k) == /\ Built
                    /\ Encodable(prog) /\ Size(prog) <= ROM_SIZE /\ PcLimit
                    /\ Lies(mem, prog)
                    /\ k \in 1 .. Len(prog)
                    /\ regs[P] = At(prog, k)

(* An instruction that leaves the memory alone, and of the registers all   *)
(* but one and P. *)
Sets(id, v, next, err) ==
    /\ mem' = mem /\ halted' = err
    /\ phase = "running" /\ phase' = "running"
    /\ regs'[P] = next
    /\ regs'[id] = v
    /\ \A other \in 0 .. REGISTER_COUNT :
           other \notin {id, P} => regs'[other] = regs[other]

LEMMA ReachedFacts ==
    ASSUME NEW prog, NEW k, Reached(prog, k), Instruction
    PROVE  /\ regs \in RegisterFile /\ mem \in Memory
           /\ phase = "running" /\ ~halted /\ ~stopped
           /\ op_function(mem[regs[P]]) = prog[k].op
           /\ inst.op = prog[k].op
           /\ inst.p1 = Read(Resolve(prog, ROM_START, prog[k].p1))
           /\ inst.p2 = Read(Resolve(prog, ROM_START, prog[k].p2))
           /\ Word(regs[P] + inst.len) = At(prog, k + 1)
           /\ At(prog, k) \in Nat /\ At(prog, k + 1) \in Nat
           /\ At(prog, k) < At(prog, k + 1)
           /\ At(prog, k + 1) <= ROM_START + ROM_SIZE
<1>1. /\ Built /\ Encodable(prog) /\ Size(prog) <= ROM_SIZE /\ PcLimit
      /\ Lies(mem, prog) /\ k \in 1 .. Len(prog) /\ regs[P] = At(prog, k)
    BY DEF Reached
<1>2. Fetching
    BY HandlerOf
<1>3. phase = "running" /\ ~halted /\ ~stopped
    BY <1>2 DEF Fetching, Running
<1>4. regs \in RegisterFile /\ mem \in Memory
    BY <1>1 DEF Built
<1>5. QED
    BY <1>1, <1>3, <1>4, Fetched

(* The same in the notation of the lemmas below. *)
LEMMA GoesSets ==
    ASSUME NEW rg \in RegisterFile, NEW err, Finish(rg, mem, err),
           Built, phase = "running",
           NEW id \in 0 .. REGISTER_COUNT - 1, id # P, NEW v, rg[id] = v,
           NEW next, next = IF rg[P] = regs[P] THEN Word(regs[P] + inst.len)
                            ELSE rg[P],
           \A other \in 0 .. REGISTER_COUNT :
               other \notin {id, P} => rg[other] = regs[other]
    PROVE  Sets(id, v, next, err)
<1>1. Goes(rg, mem, err)
    BY FinishGoes
<1>2. id \in 0 .. REGISTER_COUNT
    BY DEF REGISTER_COUNT
<1>3. QED
    BY <1>1, <1>2 DEF Goes, Sets

(* Parameters that stand for a constant. *)
Constant(p) == p.mode \in {Constant8, Constant16, Constant32}

LEMMA ConstantValue ==
    ASSUME NEW p, Constant(p)
    PROVE  /\ value(p) = p.value /\ ValueError(p) = FALSE
           /\ \A m, rg : get_param_value(m, rg, p) = p.value
BY DEF Constant, value, get_param_value, ValueError, Constant32,
   Constant8, Constant16, Register, RegisterAddress, AbsoluteAddress,
   RelativeAddress

(* A whole register. *)
LEMMA WholeRegister ==
    ASSUME NEW id \in 0 .. REGISTER_COUNT
    PROVE  /\ RegId(id) = id /\ RegClass(id) = 0
           /\ register_size(id) = 4 /\ RegError(id) = FALSE
           /\ id \in Nat /\ Plain(Reg(id))
<1>1. id \in 0 .. 8 /\ id \in 0 .. 127 /\ id \in Nat
    BY DEF REGISTER_COUNT
<1>2. id % 16 = id /\ id \div 16 = 0
    BY <1>1
<1>3. QED
    BY <1>1, <1>2, PlainReg DEF RegId, RegClass, register_size, RegError,
       REGISTER_COUNT

LEMMA WholeRead ==
    ASSUME NEW rg \in RegisterFile, NEW id \in 0 .. REGISTER_COUNT
    PROVE  /\ reg_read(rg, id) = rg[id]
           /\ reg_read_sign_extended(rg, id) = rg[id]
           /\ rg[id] \in WordRange
<1>1. rg[id] \in WordRange
    BY DEF RegisterFile
<1>2. rg[id] % WORD = rg[id]
    BY <1>1, SmallMod, Widths DEF WordRange
<1>3. Capacity(4) = WORD
    BY DEF Capacity
<1>4. /\ RegId(id) = id /\ RegClass(id) = 0
      /\ register_size(id) = 4 /\ RegError(id) = FALSE
    BY WholeRegister
<1>5. reg_read(rg, id) = rg[id]
    BY <1>2, <1>3, <1>4 DEF reg_read
<1>6. reg_read_sign_extended(rg, id) = reg_read(rg, id)
    BY <1>4 DEF reg_read_sign_extended
<1>7. QED
    BY <1>1, <1>5, <1>6

LEMMA WholeWritten ==
    ASSUME NEW rg \in RegisterFile, NEW id \in 0 .. REGISTER_COUNT,
           NEW v \in WordRange
    PROVE  /\ reg_write(rg, id, v) \in RegisterFile
           /\ reg_write(rg, id, v)[id] = v
           /\ \A other \in 0 .. REGISTER_COUNT :
                  other # id => reg_write(rg, id, v)[other] = rg[other]
<1>1. /\ RegId(id) = id /\ register_size(id) = 4 /\ RegError(id) = FALSE
      /\ id \in Nat /\ Capacity(4) = WORD /\ v \in Int
  <2>1. /\ RegId(id) = id /\ register_size(id) = 4 /\ RegError(id) = FALSE
        /\ id \in Nat
      BY WholeRegister
  <2>2. QED
      BY <2>1, Widths DEF Capacity, WordRange
<1> DEFINE after == reg_write(rg, id, v)
<1>2. after \in RegisterFile
    BY <1>1, RegWriteType
<1>3. \A other \in 0 .. REGISTER_COUNT : other # id => after[other] = rg[other]
    BY <1>1, RegWriteEffect
<1>4. reg_read(after, id) = v % WORD
    BY <1>1, RegReadAfterWrite
<1>5. v % WORD = v
    BY SmallMod, Widths DEF WordRange
<1> HIDE DEF after
<1>6. after[id] = v
    BY <1>2, <1>4, <1>5, WholeRead
<1>7. QED
    BY <1>2, <1>3, <1>6 DEF after

(* lw of a constant to a register. *)
LEMMA LwStep ==
    ASSUME NEW prog, NEW k, Reached(prog, k), Instruction,
           NEW id \in 0 .. REGISTER_COUNT - 1, id # P, NEW p, NEW v,
           prog[k] = Op2("lw", Reg(id), p),
           Resolve(prog, ROM_START, p) = Long(v), v \in WordRange
    PROVE  Sets(id, v, At(prog, k + 1), FALSE) /\ UNCHANGED stopped
<1>1. prog[k].op = "lw" /\ prog[k].p1 = Reg(id) /\ prog[k].p2 = p
    BY DEF Op2
<1>2. id \in 0 .. REGISTER_COUNT
    BY DEF REGISTER_COUNT
<1>3. Plain(Reg(id)) /\ Plain(Long(v))
    BY <1>2, WholeRegister, PlainLong
<1>4. /\ Resolve(prog, ROM_START, Reg(id)) = Reg(id)
      /\ Read(Reg(id)) = Reg(id) /\ Read(Long(v)) = Long(v)
    BY <1>3, PlainRead
<1>5. /\ regs \in RegisterFile /\ Built /\ phase = "running"
      /\ op_function(mem[regs[P]]) = "lw" /\ inst.op = "lw"
      /\ inst.p1 = Reg(id) /\ inst.p2 = Long(v)
      /\ Word(regs[P] + inst.len) = At(prog, k + 1)
    BY <1>1, <1>4, ReachedFacts DEF Reached
<1>6. /\ inst.p1.mode = Register /\ inst.p1.value = id
      /\ inst.p2.mode = Constant32 /\ inst.p2.value = v
    BY <1>5 DEF Reg, Long, Param
<1>7. value(inst.p2) = v /\ ValueError(inst.p2) = FALSE
  <2>1. Constant(Long(v)) /\ Long(v).value = v
      BY DEF Constant, Long, Param
  <2>2. value(Long(v)) = Long(v).value /\ ValueError(Long(v)) = FALSE
      BY <2>1, ConstantValue
  <2>3. QED
      BY <1>5, <2>1, <2>2
<1>8. register_size(id) = 4 /\ RegError(id) = FALSE
    BY <1>2, WholeRegister
<1>9. ValueError(inst.p1) = FALSE
    BY <1>6, <1>8 DEF ValueError
<1>10. Lw
    BY <1>5, HandlerOf
<1>11. Finish(reg_write(regs, id, v), mem, FALSE) /\ UNCHANGED stopped
    BY <1>5, <1>6, <1>7, <1>8, <1>9, <1>10
       DEF Lw, RegistersAfter, MemoryAfter, param_is_writable
<1> DEFINE rg == reg_write(regs, id, v)
<1>12. /\ rg \in RegisterFile /\ rg[id] = v
       /\ \A other \in 0 .. REGISTER_COUNT :
              other # id => rg[other] = regs[other]
    BY <1>2, <1>5, WholeWritten
<1> HIDE DEF rg
<1>13. rg[P] = regs[P]
    BY <1>12 DEF P, REGISTER_COUNT
<1>14. Sets(id, v, At(prog, k + 1), FALSE)
    BY <1>5, <1>11, <1>12, <1>13, GoesSets DEF rg
<1>15. QED
    BY <1>11, <1>14

(* lda, ldb, ldc and ldd of a constant. *)
LEMMA LdxStep ==
    ASSUME NEW prog, NEW k, Reached(prog, k), Instruction,
           NEW op, NEW id,
           \/ op = "lda" /\ id = A
           \/ op = "ldb" /\ id = B
           \/ op = "ldc" /\ id = C
           \/ op = "ldd" /\ id = D,
           NEW p, prog[k] = Op1(op, p), Plain(p), Constant(p)
    PROVE  Sets(id, p.value, At(prog, k + 1), FALSE) /\ UNCHANGED stopped
<1>1. prog[k].op = op /\ prog[k].p1 = p
    BY DEF Op1
<1>2. Resolve(prog, ROM_START, p) = p /\ Read(p) = p
    BY PlainRead
<1>3. /\ regs \in RegisterFile /\ Built /\ phase = "running"
      /\ op_function(mem[regs[P]]) = op /\ inst.op = op
      /\ inst.p1 = p
      /\ Word(regs[P] + inst.len) = At(prog, k + 1)
    BY <1>1, <1>2, ReachedFacts DEF Reached
<1>4. value(inst.p1) = p.value /\ ValueError(inst.p1) = FALSE
    BY <1>3, ConstantValue
<1>5. op \in {"lda", "ldb", "ldc", "ldd"}
    OBVIOUS
<1>6. /\ id \in 0 .. REGISTER_COUNT /\ id \in 0 .. REGISTER_COUNT - 1
      /\ id # P /\ p.value \in WordRange
    BY DEF A, B, C, D, P, REGISTER_COUNT, Plain
<1>7. Ldx
    BY <1>3, <1>5, HandlerOf
<1> DEFINE rg == reg_write(regs, id, p.value)
<1>8. Finish(rg, mem, FALSE) /\ UNCHANGED stopped
  <2> DEFINE which == CASE op = "lda" -> A [] op = "ldb" -> B
                        [] op = "ldc" -> C [] op = "ldd" -> D
  <2>1. which = id
      OBVIOUS
  <2>2. /\ Finish(reg_write(regs, which, value(inst.p1)), mem,
                  ValueError(inst.p1))
        /\ UNCHANGED stopped
      BY <1>3, <1>7 DEF Ldx
  <2> HIDE DEF which
  <2>3. QED
      BY <1>4, <2>1, <2>2
<1>9. /\ rg \in RegisterFile /\ rg[id] = p.value
      /\ \A other \in 0 .. REGISTER_COUNT :
             other # id => rg[other] = regs[other]
    BY <1>3, <1>6, WholeWritten
<1> HIDE DEF rg
<1>10. rg[P] = regs[P]
    BY <1>6, <1>9 DEF P, REGISTER_COUNT
<1>11. Sets(id, p.value, At(prog, k + 1), FALSE)
    BY <1>3, <1>6, <1>8, <1>9, <1>10, GoesSets
<1>12. QED
    BY <1>8, <1>11

(* A step that sets no register but P. *)
Passes(next, err) == \A id \in 0 .. REGISTER_COUNT - 1 :
                        id # P => Sets(id, regs[id], next, err)

LEMMA HltStep ==
    ASSUME NEW prog, NEW k, Reached(prog, k), Instruction, prog[k] = Op0("hlt")
    PROVE  Passes(At(prog, k + 1), TRUE) /\ UNCHANGED stopped
<1>1. prog[k].op = "hlt"
    BY DEF Op0
<1>2. /\ regs \in RegisterFile /\ Built /\ phase = "running"
      /\ op_function(mem[regs[P]]) = "hlt"
      /\ Word(regs[P] + inst.len) = At(prog, k + 1)
    BY <1>1, ReachedFacts DEF Reached
<1>3. Finish(regs, mem, TRUE) /\ UNCHANGED stopped
    BY <1>2, HandlerOf DEF Hlt
<1>4. QED
    BY <1>2, <1>3, GoesSets DEF Passes

LEMMA StopStep ==
    ASSUME NEW prog, NEW k, Reached(prog, k), Instruction,
           prog[k] = Op0("stop")
    PROVE  Passes(At(prog, k + 1), FALSE) /\ stopped'
<1>1. prog[k].op = "stop"
    BY DEF Op0
<1>2. /\ regs \in RegisterFile /\ Built /\ phase = "running"
      /\ op_function(mem[regs[P]]) = "stop"
      /\ Word(regs[P] + inst.len) = At(prog, k + 1)
    BY <1>1, ReachedFacts DEF Reached
<1>3. Finish(regs, mem, FALSE) /\ stopped'
    BY <1>2, HandlerOf DEF Stop
<1>4. QED
    BY <1>2, <1>3, GoesSets DEF Passes

(* A jump to another instruction of the program. *)
LEMMA JumpStep ==
    ASSUME NEW prog, NEW k, Reached(prog, k), Instruction,
           NEW op \in Conditions, NEW to, prog[k] = Op1(op, To(to)),
           At(prog, to) \in WordRange, At(prog, to) # At(prog, k)
    PROVE  /\ Passes(IF Holds(op, Signed(regs[R], 4)) THEN At(prog, to)
                     ELSE At(prog, k + 1), FALSE)
           /\ UNCHANGED stopped
<1> DEFINE a == At(prog, to)
<1>1. prog[k].op = op /\ prog[k].p1 = To(to)
    BY DEF Op1
<1>2. Resolve(prog, ROM_START, To(to)) = Long(a) /\ Read(Long(a)) = Long(a)
    BY LabelRead
<1>3. a \in WordRange /\ a # regs[P]
    BY DEF Reached
<1> HIDE DEF a
<1>4. /\ regs \in RegisterFile /\ Built /\ phase = "running"
      /\ op_function(mem[regs[P]]) = op /\ inst.op = op
      /\ inst.p1 = Long(a)
      /\ Word(regs[P] + inst.len) = At(prog, k + 1)
    BY <1>1, <1>2, ReachedFacts DEF Reached
<1>5. value(inst.p1) = a /\ ValueError(inst.p1) = FALSE
  <2>1. Constant(Long(a)) /\ Long(a).value = a
      BY DEF Constant, Long, Param
  <2>2. value(Long(a)) = Long(a).value /\ ValueError(Long(a)) = FALSE
      BY <2>1, ConstantValue
  <2>3. QED
      BY <1>4, <2>1, <2>2
<1>6. Jump
    BY <1>4, HandlerOf
<1>7. UNCHANGED stopped
    BY <1>6 DEF Jump
<1>8. CASE Holds(op, Signed(regs[R], 4))
  <2> DEFINE rg == jump(regs, a)
  <2>1. Finish(rg, mem, FALSE)
      BY <1>4, <1>5, <1>6, <1>8 DEF Jump
  <2>2. rg \in RegisterFile
      BY <1>3, <1>4, JumpType
  <2>3. rg[P] = a /\ \A other \in 0 .. REGISTER_COUNT :
                        other # P => rg[other] = regs[other]
      BY <1>4 DEF jump, RegisterFile, P, REGISTER_COUNT
  <2> HIDE DEF rg
  <2>4. Passes(a, FALSE)
    <3> SUFFICES ASSUME NEW id \in 0 .. REGISTER_COUNT - 1, id # P
                 PROVE  Sets(id, regs[id], a, FALSE)
        BY DEF Passes
    <3>1. id \in 0 .. REGISTER_COUNT
        BY DEF REGISTER_COUNT
    <3>2. QED
        BY <1>3, <1>4, <2>1, <2>2, <2>3, <3>1, GoesSets
  <2>5. QED
      BY <1>7, <1>8, <2>4 DEF a
<1>9. CASE ~Holds(op, Signed(regs[R], 4))
  <2>1. Finish(regs, mem, FALSE)
      BY <1>4, <1>6, <1>9 DEF Jump
  <2>2. Passes(At(prog, k + 1), FALSE)
      BY <1>4, <2>1, GoesSets DEF Passes
  <2>3. QED
      BY <1>7, <1>9, <2>2
<1>10. QED
    BY <1>8, <1>9

(* A comparison of two parameters that report no error. *)
LEMMA CmpStep ==
    ASSUME NEW prog, NEW k, Reached(prog, k), Instruction,
           NEW op \in {"cmp", "ucmp"}, NEW p, NEW q, prog[k] = Op2(op, p, q),
           Plain(p), Plain(q), ValueError(p) = FALSE, ValueError(q) = FALSE
    PROVE  /\ Sets(R, regs'[R], At(prog, k + 1), FALSE)
           /\ UNCHANGED stopped
           /\ \A jcc \in Conditions :
                 /\ op = "cmp" =>
                       (Holds(jcc, Signed(regs'[R], 4))
                          <=> Holds(jcc, Signed(signed_value(p), 4)
                                          - Signed(signed_value(q), 4)))
                 /\ op = "ucmp" =>
                       (Holds(jcc, Signed(regs'[R], 4))
                          <=> Holds(jcc, value(p) - value(q)))
<1>1. prog[k].op = op /\ prog[k].p1 = p /\ prog[k].p2 = q
    BY DEF Op2
<1>2. /\ Resolve(prog, ROM_START, p) = p /\ Read(p) = p
      /\ Resolve(prog, ROM_START, q) = q /\ Read(q) = q
    BY PlainRead
<1>3. /\ regs \in RegisterFile /\ Built /\ phase = "running"
      /\ op_function(mem[regs[P]]) = op /\ inst.op = op
      /\ inst.p1 = p /\ inst.p2 = q
      /\ Word(regs[P] + inst.len) = At(prog, k + 1)
    BY <1>1, <1>2, ReachedFacts DEF Reached
<1>4. Compare
    BY <1>3, HandlerOf
<1>5. UNCHANGED stopped
    BY <1>4 DEF Compare
<1>6. \E order \in Int : Finish(write_r(regs, Word(order)), mem, FALSE)
  <2> DEFINE orders == CASE inst.op = "cmp" -> {CMP(Signed(signed_value(p), 4),
                                                  Signed(signed_value(q), 4))}
                         [] inst.op = "ucmp" -> {CMP(value(p), value(q))}
                         [] inst.op = "fcmp" -> {-1, 0, 1}
  <2>1. PICK order \in orders :
           Finish(write_r(regs, Word(order)), mem,
                  ValueError(p) \/ ValueError(q))
      BY <1>3, <1>4 DEF Compare
  <2>2. order \in Int
    <3>1. \A a, b : CMP(a, b) \in Int
        BY DEF CMP, SGN
    <3> HIDE DEF CMP
    <3>2. QED
        BY <1>3, <2>1, <3>1
  <2> HIDE DEF orders
  <2>3. Finish(write_r(regs, Word(order)), mem, FALSE)
      BY <2>1
  <2>4. QED
      BY <2>2, <2>3
<1>7. PICK order \in Int : Finish(write_r(regs, Word(order)), mem, FALSE)
    BY <1>6
<1> DEFINE v == Word(order)
           rg == reg_write(regs, R, v)
<1>8. v \in WordRange
    BY WordType
<1>9. R \in 0 .. REGISTER_COUNT /\ R \in 0 .. REGISTER_COUNT - 1 /\ R # P
    BY DEF R, P, REGISTER_COUNT
<1>10. Finish(rg, mem, FALSE)
    BY <1>7 DEF write_r
<1> HIDE DEF v
<1>11. /\ rg \in RegisterFile /\ rg[R] = v
       /\ \A other \in 0 .. REGISTER_COUNT :
              other # R => rg[other] = regs[other]
    BY <1>3, <1>8, <1>9, WholeWritten
<1> HIDE DEF rg
<1>12. rg[P] = regs[P]
    BY <1>9, <1>11 DEF P, REGISTER_COUNT
<1>13. Sets(R, v, At(prog, k + 1), FALSE)
    BY <1>3, <1>9, <1>10, <1>11, <1>12, GoesSets
<1>14. regs'[R] = v
    BY <1>13 DEF Sets
<1>15. ASSUME NEW jcc \in Conditions
       PROVE  /\ op = "cmp" =>
                (Holds(jcc, Signed(regs'[R], 4))
                    <=> Holds(jcc, Signed(signed_value(p), 4)
                                  - Signed(signed_value(q), 4)))
              /\ op = "ucmp" =>
                (Holds(jcc, Signed(regs'[R], 4))
                    <=> Holds(jcc, value(p) - value(q)))
  <2>1. /\ inst.op = "cmp" =>
                (Holds(jcc, Signed(regs'[R], 4))
                    <=> Holds(jcc, Signed(signed_value(inst.p1), 4)
                                  - Signed(signed_value(inst.p2), 4)))
        /\ inst.op = "ucmp" =>
                (Holds(jcc, Signed(regs'[R], 4))
                    <=> Holds(jcc, value(inst.p1) - value(inst.p2)))
      BY <1>3, <1>4, BuiltType, BranchesAsCompared
  <2>2. QED
      BY <1>3, <2>1
<1>16. QED
  <2>1. Sets(R, regs'[R], At(prog, k + 1), FALSE)
      BY <1>13, <1>14
  <2>2. QED
      BY <1>5, <1>15, <2>1

(* inc and dec of a register that does not wrap. *)
CountsTo(op, x, v) == x = IF op = "inc" THEN v - 1 ELSE v + 1

(* An instruction that sets a register and, to report, R. *)
Tells(id, v, next) ==
    /\ mem' = mem /\ halted' = FALSE /\ phase' = "running"
    /\ regs'[P] = next
    /\ regs'[id] = v
    /\ \A other \in 0 .. REGISTER_COUNT :
           other \notin {id, P, R} => regs'[other] = regs[other]

LEMMA CountStep ==
    ASSUME NEW prog, NEW k, Reached(prog, k), Instruction,
           NEW id \in {A, B, C, D}, NEW op \in {"inc", "dec"},
           prog[k] = Op1(op, Reg(id)),
           NEW v \in WordRange,
           CountsTo(op, regs[id], v)
    PROVE  Tells(id, v, At(prog, k + 1)) /\ UNCHANGED stopped
<1>1. prog[k].op = op /\ prog[k].p1 = Reg(id)
    BY DEF Op1
<1>2. id \in 0 .. REGISTER_COUNT /\ id # P /\ id # R
    BY DEF REGISTER_COUNT, A, B, C, D, P, R
<1>3. /\ Resolve(prog, ROM_START, Reg(id)) = Reg(id)
      /\ Read(Reg(id)) = Reg(id)
    BY <1>2, WholeRegister, PlainRead
<1>4. /\ regs \in RegisterFile /\ Built /\ phase = "running"
      /\ op_function(mem[regs[P]]) = op /\ inst.op = op
      /\ inst.p1 = Reg(id)
      /\ Word(regs[P] + inst.len) = At(prog, k + 1)
    BY <1>1, <1>3, ReachedFacts DEF Reached
<1>5. inst.p1.mode = Register /\ inst.p1.value = id
    BY <1>4 DEF Reg, Param
<1>6. /\ RegClass(id) = 0 /\ register_size(id) = 4 /\ RegError(id) = FALSE
    BY <1>2, WholeRegister
<1>7. value(inst.p1) = regs[id]
  <2>1. value(inst.p1) = reg_read(regs, id)
      BY <1>5 DEF value, get_param_value, Constant32, Constant8, Constant16,
         Register, AbsoluteAddress, RelativeAddress, RegisterAddress
  <2>2. QED
      BY <1>2, <1>4, <2>1, WholeRead
<1>8. Arithmetic
    BY <1>4, HandlerOf
<1>9. operand(op, inst.p1) = regs[id] /\ op \notin DivisionOps
      /\ width(inst.p1) = 4
  <2>1. op \notin SignedRead
      BY DEF SignedRead, SignedOps, FloatOps1, FloatOps2
  <2>2. QED
      BY <1>5, <1>6, <1>7, <2>1 DEF operand, width, DivisionOps
<1>10. UNCHANGED stopped
    BY <1>8 DEF Arithmetic, Fault
<1>11. /\ ValueError(inst.p1) = FALSE
       /\ param_is_writable(inst.p1.mode)
       /\ \A w : RegistersAfter(inst.p1, w) = reg_write(regs, id, w)
       /\ \A w : MemoryAfter(inst.p1, w, 4) = mem
       /\ SkipsR(op, inst.p1) = FALSE
    BY <1>5, <1>6 DEF ValueError, param_is_writable, RegistersAfter,
       MemoryAfter, SkipsR
<1>12. ValueError(inst.p2) = FALSE
  <2>1. prog[k].p2 = None
      BY DEF Op1
  <2>2. Resolve(prog, ROM_START, None).mode = 0
      BY DEF Resolve, None, Param, Label, Unused
  <2>3. inst.p2 = Read(Resolve(prog, ROM_START, prog[k].p2))
      BY ReachedFacts
  <2>4. inst.p2.mode = 0
      BY <2>1, <2>2, <2>3 DEF Read
  <2>5. QED
      BY <2>4 DEF ValueError, Register, RegisterAddress
<1>13. PICK out \in alu(op, regs[id], operand(op, inst.p2), 4)
                        \cap AluOutcomes :
          LET rg == RegistersAfter(inst.p1, out.res) IN
          Finish(IF out.r = NoR \/ SkipsR(op, inst.p1) THEN rg
                 ELSE write_r(rg, out.r),
                 MemoryAfter(inst.p1, out.res, 4),
                 ValueError(inst.p1) \/ ValueError(inst.p2))
  <2> DEFINE p1 == inst.p1
             p2 == inst.p2
             a == operand(inst.op, p1)
             b == operand(inst.op, p2)
  <2>1. IF \/ ~param_is_writable(p1.mode)
           \/ (inst.op \in DivisionOps /\ b = 0)
        THEN Fault
        ELSE /\ \E out \in alu(inst.op, a, b, width(p1)) \cap AluOutcomes :
                LET rg == RegistersAfter(p1, out.res) IN
                Finish(IF out.r = NoR \/ SkipsR(inst.op, p1) THEN rg
                       ELSE write_r(rg, out.r),
                       MemoryAfter(p1, out.res, 4),
                       ValueError(p1) \/ ValueError(p2))
             /\ UNCHANGED <<rseed, stopped>>
      BY <1>8 DEF Arithmetic
  <2>2. ~(~param_is_writable(p1.mode) \/ (inst.op \in DivisionOps /\ b = 0))
      BY <1>4, <1>9, <1>11
  <2>3. \E out \in alu(inst.op, a, b, width(p1)) \cap AluOutcomes :
                LET rg == RegistersAfter(p1, out.res) IN
                Finish(IF out.r = NoR \/ SkipsR(inst.op, p1) THEN rg
                       ELSE write_r(rg, out.r),
                       MemoryAfter(p1, out.res, 4),
                       ValueError(p1) \/ ValueError(p2))
      BY <2>1, <2>2
  <2>4. a = regs[id] /\ width(p1) = 4 /\ inst.op = op
      BY <1>4, <1>9
  <2>5. QED
      BY <2>3, <2>4
<1>14. out.res = v /\ out.r \in NoR .. WORD - 1
  <2>1. out \in IF op = "inc" THEN {inc(regs[id], 4)} ELSE {dec(regs[id], 4)}
    <3> DEFINE b == operand(op, inst.p2)
    <3>1. out \in alu(op, regs[id], b, 4)
        BY <1>13
    <3> HIDE DEF b
    <3>2. op \notin {"add", "uadd", "sub", "usub"} \cup SizedOps
                  \cup FloatOps1 \cup FloatOps2
        BY DEF SizedOps, FloatOps1, FloatOps2
    <3>3. QED
        BY <3>1, <3>2 DEF alu
  <2>2. out.res = v % WORD
    <3>1. CASE op = "inc"
      <4>1. out.res = (regs[id] + 1) % WORD
          BY <2>1, <3>1 DEF inc, Capacity
      <4>2. regs[id] + 1 = v
          BY <3>1 DEF WordRange, CountsTo
      <4>3. QED
          BY <4>1, <4>2
    <3>2. CASE op = "dec"
      <4>1. out.res = (regs[id] - 1) % WORD
          BY <2>1, <3>2 DEF dec, Capacity
      <4>2. regs[id] - 1 = v
          BY <3>2 DEF WordRange, CountsTo
      <4>3. QED
          BY <4>1, <4>2
    <3>3. QED
        BY <3>1, <3>2
  <2>3. v % WORD = v
      BY SmallMod, Widths DEF WordRange, CountsTo
  <2>4. QED
      BY <1>13, <2>2, <2>3 DEF AluOutcomes
<1> DEFINE rg == reg_write(regs, id, v)
           after == IF out.r = NoR THEN rg ELSE reg_write(rg, R, out.r)
<1>15. Finish(after, mem, FALSE)
  <2>1. /\ RegistersAfter(inst.p1, out.res) = rg
        /\ MemoryAfter(inst.p1, out.res, 4) = mem
      BY <1>11, <1>14
  <2>2. (IF out.r = NoR \/ SkipsR(op, inst.p1) THEN rg ELSE write_r(rg, out.r))
            = after
      BY <1>11 DEF write_r
  <2> HIDE DEF rg, after
  <2>3. QED
      BY <1>11, <1>12, <1>13, <2>1, <2>2
<1>16. /\ rg \in RegisterFile /\ rg[id] = v
       /\ \A other \in 0 .. REGISTER_COUNT :
              other # id => rg[other] = regs[other]
    BY <1>2, <1>4, WholeWritten
<1> HIDE DEF rg
<1>17. /\ after \in RegisterFile
       /\ \A other \in 0 .. REGISTER_COUNT :
             other # R => after[other] = rg[other]
  <2>1. CASE out.r = NoR
      BY <1>16, <2>1
  <2>2. CASE out.r # NoR
    <3> DEFINE w == out.r
    <3>1. w \in WordRange /\ R \in 0 .. REGISTER_COUNT
        BY <1>14, <2>2, Widths DEF NoR, WordRange, R, REGISTER_COUNT
    <3>2. after = reg_write(rg, R, w)
        BY <2>2
    <3> HIDE DEF w, after
    <3>3. QED
        BY <1>16, <3>1, <3>2, WholeWritten
  <2>3. QED
      BY <2>1, <2>2
<1> HIDE DEF after
<1>18. Goes(after, mem, FALSE)
    BY <1>15, <1>17, FinishGoes
<1>19. after[P] = regs[P] /\ P \in 0 .. REGISTER_COUNT /\ P # R
    BY <1>2, <1>16, <1>17 DEF P, R, REGISTER_COUNT
<1>20. after[id] = v
    BY <1>2, <1>16, <1>17
<1>21. /\ mem' = mem /\ halted' = FALSE /\ phase' = "running"
       /\ regs'[P] = At(prog, k + 1) /\ regs'[id] = v
       /\ \A other \in 0 .. REGISTER_COUNT :
              other \notin {id, P, R} => regs'[other] = regs[other]
    BY <1>2, <1>4, <1>16, <1>17, <1>18, <1>19, <1>20 DEF Goes
<1>22. QED
    BY <1>10, <1>21 DEF Tells

(* The parameter stands for an address, whatever else a memory with the    *)
(* program holds. *)
Leads(prog, p, o, to) ==
    \A m \in Memory : \A rg \in RegisterFile :
        Lies(m, prog) /\ rg[O] = o => get_param_value(m, rg, p) = to

(* A call of another instruction of the program, where the stack has room. *)
LEMMA CallStep ==
    ASSUME NEW prog, NEW k, Reached(prog, k), Instruction,
           NEW p, prog[k] = Op1("call", p), Plain(Resolve(prog, ROM_START, p)),
           ValueError(Resolve(prog, ROM_START, p)) = FALSE,
           regs[S] >= 4, regs[S] <= MEM_SIZE,
           regs[S] <= ROM_START \/ ROM_START + ROM_SIZE <= regs[S] - 4,
           NEW to \in WordRange, to # At(prog, k),
           Leads(prog, Resolve(prog, ROM_START, p), regs[O], to)
    PROVE  /\ mem' = mem_write(mem, regs[S] - 4, At(prog, k + 1), 4)
           /\ Lies(mem', prog)
           /\ halted' = FALSE /\ phase' = "running" /\ UNCHANGED stopped
           /\ regs'[P] = to /\ regs'[S] = regs[S] - 4
           /\ \A other \in 0 .. REGISTER_COUNT :
                  other \notin {S, P} => regs'[other] = regs[other]
<1> DEFINE q == Resolve(prog, ROM_START, p)
           behind == At(prog, k + 1)
           s == regs[S]
           rg == Pushed(regs, 4)
           m == mem_write(mem, s - 4, behind, 4)
           after == jump(rg, to)
<1>1. prog[k].op = "call" /\ prog[k].p1 = p
    BY DEF Op1
<1>2. Read(q) = q
    BY PlainRead
<1>3. /\ regs \in RegisterFile /\ mem \in Memory
      /\ Built /\ phase = "running"
      /\ op_function(mem[regs[P]]) = "call"
      /\ inst.p1 = q
      /\ Word(regs[P] + inst.len) = behind
      /\ behind \in Nat /\ behind <= ROM_START + ROM_SIZE
      /\ regs[P] = At(prog, k)
    BY <1>1, <1>2, ReachedFacts DEF Reached
<1>4. /\ s \in Nat /\ s >= 4 /\ s <= MEM_SIZE /\ MEM_SIZE \in Nat
      /\ s <= ROM_START \/ ROM_START + ROM_SIZE <= s - 4
      /\ ROM_START \in Nat /\ ROM_SIZE \in Nat
      /\ ROM_START + ROM_SIZE <= MEM_SIZE /\ MEM_SIZE < WORD /\ WORD \in Nat
    BY <1>3, Pointers, CpuAssumption, MemAssumption, Widths DEF WordRange
<1>5. behind \in WordRange
    BY <1>3, <1>4 DEF WordRange
<1>6. Lies(mem, prog) /\ Size(prog) \in Nat /\ Size(prog) <= ROM_SIZE
    BY Assembled DEF Reached
<1>7. rg[S] = s - 4 /\ rg \in RegisterFile
    BY <1>3, <1>4, StackMove
<1>8. \A other \in 0 .. REGISTER_COUNT : other # S => rg[other] = regs[other]
    BY <1>3 DEF Pushed, RegisterFile
<1>9. Call
    BY <1>3, HandlerOf
<1> HIDE DEF q, behind, s, rg, m
<1>10. s - 4 \in Nat /\ (s - 4) + 4 <= MEM_SIZE
    BY <1>4
<1>11. m \in Memory
    BY <1>3, <1>5, <1>10, MemWriteType DEF m
<1>12. Lies(m, prog)
  <2> DEFINE a == s - 4
  <2>1. /\ a \in Nat /\ a + 4 <= MEM_SIZE
        /\ a + 4 <= ROM_START \/ ROM_START + Size(prog) <= a
      BY <1>4, <1>6
  <2> HIDE DEF a
  <2>2. Lies(mem_write(mem, a, behind, 4), prog)
      BY <1>3, <1>6, <2>1, LiesKept
  <2>3. QED
      BY <2>2 DEF m, a
<1>13. rg[O] = regs[O] /\ rg[P] = regs[P]
    BY <1>8 DEF O, S, P, REGISTER_COUNT
<1>14. get_param_value(m, rg, q) = to
    BY <1>7, <1>11, <1>12, <1>13 DEF q, Leads
<1>15. Finish(after, m, FALSE) /\ UNCHANGED stopped
  <2>1. Finish(jump(rg, get_param_value(m, rg, q)), m, ValueError(q))
        /\ UNCHANGED stopped
    <3>1. mem_write(mem, rg[S], Word(regs[P] + inst.len), 4) = m
        BY <1>3, <1>7 DEF m
    <3>2. Call
        BY <1>9
    <3>3. rg = Pushed(regs, 4) /\ inst.p1 = q
        BY <1>3 DEF rg
    <3>4. QED
        BY <3>1, <3>2, <3>3 DEF Call
  <2>2. ValueError(q) = FALSE
      BY DEF q
  <2>3. QED
      BY <1>14, <2>1, <2>2
<1>16. after \in RegisterFile
    BY <1>7, JumpType
<1>17. /\ after[P] = to
       /\ \A other \in 0 .. REGISTER_COUNT :
             other # P => after[other] = rg[other]
    BY <1>7 DEF jump, RegisterFile, P, REGISTER_COUNT
<1> HIDE DEF after
<1>18. Goes(after, m, FALSE)
    BY <1>15, <1>16, FinishGoes
<1>19. S \in 0 .. REGISTER_COUNT /\ S # P /\ to # regs[P]
    BY <1>3 DEF S, P, REGISTER_COUNT
<1>20. /\ mem' = m /\ halted' = FALSE /\ phase' = "running"
       /\ regs'[P] = to /\ regs'[S] = s - 4
       /\ \A other \in 0 .. REGISTER_COUNT :
             other \notin {S, P} => regs'[other] = regs[other]
    BY <1>3, <1>7, <1>8, <1>17, <1>18, <1>19 DEF Goes
<1>21. Lies(mem', prog)
    BY <1>12, <1>20
<1>22. QED
    BY <1>15, <1>20, <1>21 DEF m, s, behind

(* A return to another instruction. *)
LEMMA RetStep ==
    ASSUME NEW prog, NEW k, Reached(prog, k), Instruction,
           prog[k] = Op0("ret"),
           regs[S] + 4 <= MEM_SIZE, top(4) # At(prog, k)
    PROVE  /\ mem' = mem
           /\ halted' = FALSE /\ phase' = "running" /\ UNCHANGED stopped
           /\ regs'[P] = top(4) /\ regs'[S] = regs[S] + 4
           /\ \A other \in 0 .. REGISTER_COUNT :
                  other \notin {S, P} => regs'[other] = regs[other]
<1> DEFINE to == top(4)
           rg == Popped(regs, 4)
           after == jump(rg, to)
<1>1. prog[k].op = "ret"
    BY DEF Op0
<1>2. /\ regs \in RegisterFile /\ Built /\ phase = "running"
      /\ op_function(mem[regs[P]]) = "ret"
      /\ regs[P] = At(prog, k)
    BY <1>1, ReachedFacts DEF Reached
<1>3. rg[S] = regs[S] + 4 /\ rg \in RegisterFile
    BY <1>2, StackMove
<1>4. \A other \in 0 .. REGISTER_COUNT : other # S => rg[other] = regs[other]
    BY <1>2 DEF Popped, RegisterFile
<1>5. Finish(after, mem, FALSE) /\ UNCHANGED stopped
    BY <1>2, HandlerOf DEF Ret
<1>6. to \in WordRange
    BY <1>2, TopType
<1> HIDE DEF rg, to
<1>7. after \in RegisterFile
    BY <1>3, <1>6, JumpType
<1>8. /\ after[P] = to
      /\ \A other \in 0 .. REGISTER_COUNT :
             other # P => after[other] = rg[other]
    BY <1>3 DEF jump, RegisterFile, P, REGISTER_COUNT
<1> HIDE DEF after
<1>9. Goes(after, mem, FALSE)
    BY <1>5, <1>7, FinishGoes
<1>10. S \in 0 .. REGISTER_COUNT /\ S # P /\ to # regs[P]
    BY <1>2 DEF S, P, REGISTER_COUNT, to
<1>11. QED
    BY <1>2, <1>3, <1>4, <1>5, <1>8, <1>9, <1>10 DEF Goes, to

(* Instructions lie in their order. *)
LEMMA AtOrder ==
    ASSUME NEW prog, Encodable(prog), NEW i \in 1 .. Len(prog) + 1,
           NEW j \in 1 .. Len(prog) + 1, i < j
    PROVE  /\ At(prog, i) \in Nat /\ At(prog, j) \in Nat
           /\ At(prog, i) < At(prog, j)
<1> DEFINE n == Len(prog)
           G == {d \in 0 .. n - i : /\ At(prog, i + d + 1) \in Nat
                                    /\ At(prog, i) < At(prog, i + d + 1)}
<1>1. n \in Nat /\ i \in 1 .. n
    BY DEF Encodable
<1>2. At(prog, i) \in Nat /\ At(prog, i + 1) \in Nat
      /\ At(prog, i) < At(prog, i + 1)
    BY <1>1, ProgramGrows
<1>3. 0 \in G
    BY <1>1, <1>2
<1>4. ASSUME NEW d \in 0 .. (n - i) - 1, d \in G
      PROVE  d + 1 \in G
  <2> DEFINE k == i + d + 1
  <2>1. k \in 1 .. n /\ i + (d + 1) + 1 = k + 1 /\ d + 1 \in 0 .. n - i
      BY <1>1
  <2> HIDE DEF k
  <2>2. At(prog, k) \in Nat /\ At(prog, k + 1) \in Nat
        /\ At(prog, k) < At(prog, k + 1)
      BY <2>1, ProgramGrows
  <2>3. At(prog, i) < At(prog, k)
      BY <1>4 DEF k
  <2>4. At(prog, i) < At(prog, k + 1)
    <3> DEFINE x == At(prog, i)
               y == At(prog, k)
               z == At(prog, k + 1)
    <3>1. x \in Nat /\ y \in Nat /\ z \in Nat /\ x < y /\ y < z
        BY <1>2, <2>2, <2>3
    <3> HIDE DEF x, y, z
    <3>2. x < z
        BY <3>1
    <3>3. QED
        BY <3>2 DEF x, z
  <2>5. QED
      BY <2>1, <2>2, <2>4
<1>5. 0 .. n - i \subseteq G
  <2> DEFINE m == n - i
  <2>1. m \in Nat
      BY <1>1
  <2>2. \A d \in 0 .. m - 1 : d \in G => d + 1 \in G
      BY <1>4
  <2>3. 0 \in G
      BY <1>3
  <2> HIDE DEF m, G
  <2>4. \A d \in 0 .. m : d \in G
      BY <2>1, <2>2, <2>3, InductionUpTo
  <2>5. QED
      BY <2>4 DEF m
<1>6. (j - i) - 1 \in 0 .. n - i /\ i + ((j - i) - 1) + 1 = j
    BY <1>1
<1>7. (j - i) - 1 \in G
    BY <1>5, <1>6
<1>8. QED
    BY <1>2, <1>6, <1>7 DEF G

(* A program that goes on, and one that is over, while the cpu does        *)
(* something else. *)
SetupHolds == phase = "host" => ~halted

LEMMA StaysOn ==
    ASSUME Aside, ~halted, ~stopped, ValidPc, phase # "returned", SetupHolds'
    PROVE  /\ ~halted' /\ ~stopped' /\ phase' # "returned"
           /\ mem' = mem /\ regs' = regs
BY DEF Aside, HostTurn, SetupHolds

LEMMA StaysOver ==
    ASSUME Aside
    PROVE  /\ mem' = mem /\ regs' = regs /\ stopped' = stopped
           /\ halted => halted'
           /\ phase # "host" => phase' # "host"
BY DEF Aside

(* A constant as an operand of a comparison, and a register. *)
LEMMA ExtendedRead ==
    ASSUME NEW x \in Int, NEW n
    PROVE  Signed(SignExtend(x, n), 4) = Signed(x, n)
<1> DEFINE s == Signed(x, n)
           c == Capacity(n)
           q == s \div WORD
<1>1. s \in Int /\ -c <= 2 * s /\ 2 * s < c
    BY SignedRange
<1>2. c \in Nat \ {0} /\ c <= WORD /\ WORD \in Nat \ {0} /\ Capacity(4) = WORD
    BY CapacityRange, Widths DEF Capacity
<1>3. SignExtend(x, n) = s % WORD
    BY DEF SignExtend, Word
<1> HIDE DEF s, c
<1>4. s = (s % WORD) + WORD * q /\ q \in Int /\ s % WORD \in Int
  <2>1. /\ s \div WORD \in Int /\ s % WORD \in 0 .. WORD - 1
        /\ s = (s % WORD) + WORD * (s \div WORD)
      BY <1>1, <1>2, IntDivision
  <2>2. \A b \in 0 .. WORD - 1 : b \in Int
      OBVIOUS
  <2>3. QED
      BY <2>1, <2>2
<1> HIDE DEF q
<1> DEFINE r == s % WORD
           k == -q
<1>5. r = s + WORD * k /\ k \in Int /\ r \in Int
    BY <1>1, <1>2, <1>4
<1>6. -WORD <= 2 * s /\ 2 * s < WORD
    BY <1>1, <1>2
<1> HIDE DEF r, k
<1>7. Signed(r, 4) = s
    BY <1>1, <1>2, <1>5, <1>6, SignedIs
<1>8. QED
    BY <1>3, <1>7 DEF r, s
=============================================================================
