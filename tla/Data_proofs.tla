----------------------------- MODULE Data_proofs -----------------------------
(***************************************************************************)
(* What an instruction may change, for every program, memory and register  *)
(* file; and what the programs of Data that move a value do with it.       *)
(*                                                                         *)
(* A handler ends by Finish(rg, m, err).  Sound(rg, m, err) says of these  *)
(* three what the action properties of Data say of the step; each handler  *)
(* is shown to end in sound ones, mostly by what reg_write and mem_write   *)
(* leave alone (RegWriteEffect and WriteFootprint), and the properties     *)
(* follow because the loop adds nothing but the increment of P.            *)
(*                                                                         *)
(* Of the programs the invariant says at which instruction the run is and  *)
(* what the registers, the cell and the stack hold there; there is a lemma *)
(* for each instruction, from the lemmas about steps of programs in        *)
(* Tx8Cpu_proofs.                                                          *)
(***************************************************************************)
EXTENDS Data, Tx8Cpu_proofs

-----------------------------------------------------------------------------
(* The registers that differ are registers the instruction may change.     *)
Framed(rg) ==
    /\ rg \in RegisterFile
    /\ \A id \in 0 .. REGISTER_COUNT :
           rg[id] # regs[id] => id \in MayChange(inst)

(* The bytes of the first parameter's register that it does not name are   *)
(* the old ones. *)
Shielded(rg) ==
    inst.op \in WritesFirst /\ inst.p1.mode = Register
    /\ ~RegError(inst.p1.value) =>
        LET id == RegId(inst.p1.value)
            c == Capacity(register_size(inst.p1.value))
        IN  (id = R /\ inst.op \in WritesR) \/ id \in {P, S}
            \/ rg[id] \div c = regs[id] \div c

(* The memory is the old one, or one store was made by an instruction that *)
(* stores. *)
Storing == \/ inst.op \in WritesFirst /\ inst.p1.mode # Register
           \/ inst.op \in {"push", "call", "sys"}
Stored(m) ==
    \/ m = mem
    \/ /\ Storing
       /\ \E at \in Nat, v \in WordRange, size \in 0 .. 4 :
              m = mem_write(mem, at, v, size)

(* The errors of the parameters are reported. *)
Reported(rg, m, err) ==
    inst.op \in WritesFirst \cup {"push", "lda", "rseed"} =>
        /\ Names(inst.p1) /\ (inst.op = "pop" => inst.p1.mode = Register)
             => err
        /\ inst.op \in DivisionOps /\ operand(inst.op, inst.p2) = 0 => err
        /\ inst.op \in WritesFirst
           /\ ~(inst.p1.mode \in AbsoluteAddress .. RegisterAddress) =>
             err /\ m = mem /\ rg = regs

Sound(rg, m, err) ==
    Framed(rg) /\ Shielded(rg) /\ Stored(m) /\ Reported(rg, m, err)

-----------------------------------------------------------------------------
(* What the helpers leave alone. *)

LEMMA FileType ==
    ASSUME Built
    PROVE  /\ regs \in RegisterFile /\ mem \in Memory
           /\ \A id \in 0 .. REGISTER_COUNT : regs[id] \in Nat
BY DEF Built, RegisterFile, WordRange

(* The stack pointer moves alone, and so does the program counter. *)
LEMMA StackMoves ==
    ASSUME NEW rg \in RegisterFile, NEW size \in Nat
    PROVE  \A id \in 0 .. REGISTER_COUNT : id # S =>
               Pushed(rg, size)[id] = rg[id] /\ Popped(rg, size)[id] = rg[id]
BY DEF Pushed, Popped, RegisterFile

(* The stack pointer is the only register that a push or a pop moves. *)
LEMMA StackFrame ==
    ASSUME Built, NEW size \in {1, 4}
    PROVE  /\ Pushed(regs, size) \in RegisterFile
           /\ Pushed(regs, size)[S] \in Nat
           /\ \A id \in 0 .. REGISTER_COUNT :
                  id # S => Pushed(regs, size)[id] = regs[id]
           /\ Popped(regs, size) \in RegisterFile
           /\ \A id \in 0 .. REGISTER_COUNT :
                  id # S => Popped(regs, size)[id] = regs[id]
<1>1. regs \in RegisterFile /\ size \in Nat
    BY DEF Built
<1>2. QED
    BY <1>1, StackType, StackMoves

LEMMA JumpMoves ==
    ASSUME NEW rg \in RegisterFile, NEW location
    PROVE  \A id \in 0 .. REGISTER_COUNT :
               id # P => jump(rg, location)[id] = rg[id]
BY DEF jump, RegisterFile

LEMMA WriteRMoves ==
    ASSUME NEW rg \in RegisterFile, NEW v \in Int
    PROVE  \A id \in 0 .. REGISTER_COUNT :
               id # R => write_r(rg, v)[id] = rg[id]
<1>1. R \in Nat /\ RegId(R) = R
    BY DEF R, RegId
<1>2. QED
    BY <1>1, RegWriteEffect DEF write_r

(* A store to the address a register stands for, MEM_SIZE, is clipped to   *)
(* no bytes. *)
LEMMA EmptyWrite ==
    ASSUME NEW m \in Memory, NEW v, NEW size \in 0 .. 4
    PROVE  mem_write(m, MEM_SIZE, v, size) = m
<1>1. Clipped(MEM_SIZE, size) = 0
  <2>1. MEM_SIZE - MEM_SIZE = 0 /\ 0 \in 0 .. WORD - 1 /\ WORD \in Nat \ {0}
      BY MemAssumption, Widths
  <2>2. Word(MEM_SIZE - MEM_SIZE) = 0
      BY <2>1, SmallMod DEF Word
  <2>3. QED
      BY <2>2 DEF Clipped
<1>2. Masked(MEM_SIZE) \in Nat
    BY AccessRange, MemAssumption
<1>3. \A c \in Cells : ~(c >= Masked(MEM_SIZE) /\ c - Masked(MEM_SIZE) < 0)
    BY <1>2, MemAssumption DEF Cells
<1>4. mem_write(m, MEM_SIZE, v, size) = [c \in Cells |-> m[c]]
    BY <1>1, <1>3 DEF mem_write
<1>5. QED
    BY <1>4 DEF Memory

(* A handler that reported an error before it did anything. *)
LEMMA FaultSound ==
    ASSUME Built
    PROVE  Sound(regs, mem, TRUE)
BY FileType DEF Sound, Framed, Shielded, Stored, Reported

(* A destination, and R behind it for the operations that report through   *)
(* it. *)
LEMMA DestinationSound ==
    ASSUME Built, ValidPc, inst.op \in WritesFirst,
           param_is_writable(inst.p1.mode),
           NEW v \in WordRange, NEW size \in 0 .. 4, NEW r \in Int,
           NEW rg, \/ rg = RegistersAfter(inst.p1, v)
                   \/ /\ inst.op \in WritesR
                      /\ rg = write_r(RegistersAfter(inst.p1, v), r),
           NEW err \in BOOLEAN, ValueError(inst.p1) => err,
           inst.op \in DivisionOps => operand(inst.op, inst.p2) # 0
    PROVE  Sound(rg, MemoryAfter(inst.p1, v, size), err)
<1> DEFINE p1 == inst.p1
           id == RegId(p1.value)
           c == Capacity(register_size(p1.value))
           after == RegistersAfter(p1, v)
<1>1. p1 \in DecodedParams /\ p1.value \in Nat /\ v \in Int
    BY InstType DEF DecodedParams, WordRange
<1>2. after \in RegisterFile /\ MemoryAfter(p1, v, size) \in Memory
    BY <1>1, DestinationType
<1>3. rg \in RegisterFile
    BY <1>2, WriteRType
<1>4. /\ \A other \in 0 .. REGISTER_COUNT :
            other # R => rg[other] = after[other]
      /\ rg = after \/ inst.op \in WritesR
    BY <1>2, WriteRMoves
<1>5. CASE p1.mode = Register
  <2>1. after = reg_write(regs, p1.value, v)
      BY <1>5 DEF RegistersAfter
  <2>2. /\ \A other \in 0 .. REGISTER_COUNT :
              other # id => after[other] = regs[other]
        /\ id \in 0 .. REGISTER_COUNT => after[id] \div c = regs[id] \div c
      BY <1>1, <2>1, FileType, RegWriteEffect
  <2> HIDE DEF after
  <2>3. Framed(rg)
      BY <1>3, <1>4, <1>5, <2>2 DEF Framed, MayChange
  <2>4. Shielded(rg)
    <3>1. ~RegError(p1.value) => id \in 0 .. REGISTER_COUNT
        BY <1>1, RegisterOfFile
    <3>2. QED
        BY <1>4, <2>2, <3>1 DEF Shielded
  <2>5. MemoryAfter(p1, v, size) = mem
      BY <1>5 DEF MemoryAfter
  <2>6. Reported(rg, mem, err)
      BY <1>5 DEF Reported, Names, ValueError, Register, AbsoluteAddress,
         RegisterAddress
  <2>7. QED
      BY <2>3, <2>4, <2>5, <2>6 DEF Sound, Stored
<1>6. CASE p1.mode # Register
  <2>1. after = regs
      BY <1>6 DEF RegistersAfter
  <2>2. Framed(rg)
      BY <1>3, <1>4, <2>1 DEF Framed, MayChange
  <2>3. Shielded(rg)
      BY <1>6 DEF Shielded
  <2>4. Stored(MemoryAfter(p1, v, size))
    <3>1. get_param_address(regs, p1) \in Nat
        BY <1>1, FileType, ParamTypes
    <3>2. QED
        BY <1>6, <3>1 DEF Stored, Storing, MemoryAfter
  <2>5. Reported(rg, MemoryAfter(p1, v, size), err)
    <3>1. p1.mode \in AbsoluteAddress .. RegisterAddress
        BY DEF param_is_writable, param_is_address, Register, AbsoluteAddress,
               RegisterAddress, RelativeAddress
    <3>2. QED
        BY <3>1 DEF Reported, Names, ValueError
  <2>6. QED
      BY <2>2, <2>3, <2>4, <2>5 DEF Sound
<1>7. QED
    BY <1>5, <1>6

-----------------------------------------------------------------------------
(* What the operations leave in R. *)

(* An operation that does not report through R has no outcome for it. *)
LEMMA QuietAlu ==
    ASSUME NEW op \in AluOps \ WritesR, NEW a, NEW b, NEW size,
           NEW out \in alu(op, a, b, size)
    PROVE  out.r = NoR
<1>1. CASE op \in {"ror", "rol"}
  <2>1. alu(op, a, b, size) = sized(op, a, bit_trunc(b, size), size)
      BY <1>1 DEF alu, SizedOps, FloatOps1, FloatOps2
  <2>2. \E x : sized(op, a, bit_trunc(b, size), size) = Only(x)
      BY <1>1 DEF sized
  <2>3. QED
      BY <2>1, <2>2 DEF Only
<1>2. CASE op \in FloatOps1 \cup FloatOps2
  <2>1. op \notin {"fmax", "fmin", "fabs"}
      BY DEF WritesR
  <2>2. alu(op, a, b, size) = float(op, a, b)
      BY <1>2 DEF alu, FloatOps1, FloatOps2, SizedOps
  <2>3. QED
      BY <2>1, <2>2 DEF float
<1>3. CASE op \in {"mod", "sign", "and", "or", "not", "nand", "xor", "umod"}
  <2>1. alu(op, a, b, size) = integer(op, a, b)
      BY <1>3 DEF alu, FloatOps1, FloatOps2, SizedOps
  <2>2. QED
      BY <1>3, <2>1 DEF integer, Only
<1>4. QED
    BY <1>1, <1>2, <1>3
       DEF AluOps, SignedRead, SignedOps, UnsignedOps, FloatOps1, FloatOps2,
           WritesR

(* The operations with neither a destination nor a parameter whose error   *)
(* FaultsHalt is about. *)
LEMMA OtherOperations ==
    \A op \in {"hlt", "nop", "ei", "di", "inv", "stop", "jmp", "cmp", "ucmp",
               "fcmp", "call", "ret", "sys", "ldb", "ldc", "ldd", "test"}
              \cup Conditions :
        op \notin WritesFirst \cup {"push", "lda", "rseed"}
BY DEF WritesFirst, AluOps, SignedRead, SignedOps, UnsignedOps, FloatOps1,
       FloatOps2, Conditions

-----------------------------------------------------------------------------
(* Every handler ends in a sound way, or the process dies. *)

Ends == \E rg, m : \E err \in BOOLEAN : Finish(rg, m, err) /\ Sound(rg, m, err)

Dies == /\ Crash
        /\ inst.op \in WritesFirst \cup {"push", "lda", "rseed"} =>
             /\ param_is_writable(inst.p1.mode)
             /\ operand(inst.op, inst.p2) # 0

LEMMA FaultEnds ==
    ASSUME Built, Fault
    PROVE  Ends
BY FaultSound DEF Ends, Fault

(* An operation without a destination. *)
LEMMA OtherSound ==
    ASSUME inst.op \notin WritesFirst \cup {"push", "lda", "rseed"},
           NEW rg, Framed(rg), NEW m, Stored(m), NEW err
    PROVE  Sound(rg, m, err)
BY DEF Sound, Shielded, Reported

LEMMA HandlerEnds ==
    ASSUME Built, Instruction
    PROVE  Ends \/ Dies
<1> DEFINE p1 == inst.p1
           p2 == inst.p2
           file == 0 .. REGISTER_COUNT
<1>1. /\ ValidPc
      /\ inst.op = op_function(mem[regs[P]])
      /\ p1 \in DecodedParams /\ p2 \in DecodedParams
      /\ p1.value \in Nat /\ inst.len \in Nat
  <2>1. ValidPc
      BY DEF Instruction, Executes, Fetching, Hlt, Nop, Stop, Jump, Compare,
         Call, Ret, NoSysfunc, SysQuiet, SysGet, SysCrash, Ld, Lw, Ldx, Stx,
         Zero, Push, Pop, Arithmetic, DivisionTrap, Test, Rand, Rseed
  <2>2. QED
      BY <2>1, InstType DEF DecodedParams, WordRange
<1>2. /\ regs \in RegisterFile /\ mem \in Memory
      /\ \A id \in file : regs[id] \in Nat
      /\ S \in file /\ P \in file /\ R \in file
    BY FileType DEF S, P, R, REGISTER_COUNT
<1>3. /\ value(p1) \in WordRange /\ signed_value(p1) \in WordRange
      /\ value(p2) \in WordRange /\ signed_value(p2) \in WordRange
      /\ value(p1) \in Int
    BY <1>1, ValueType
<1>4. /\ ValueError(p1) \in BOOLEAN
      /\ (ValueError(p1) \/ ValueError(p2)) \in BOOLEAN
      /\ AddressError(p1) \in BOOLEAN /\ RegError(p1.value) \in BOOLEAN
    BY ErrorType
<1>5. /\ Framed(regs) /\ Stored(mem)
      /\ P \in MayChange(inst)
    BY <1>2 DEF Framed, Stored, MayChange
<1> HIDE DEF p1, p2
<1>6. CASE Hlt \/ Nop \/ Stop \/ NoSysfunc \/ SysQuiet
  <2>1. CASE Fault
      BY <2>1, FaultEnds
  <2>2. CASE \E err \in BOOLEAN : Finish(regs, mem, err)
    <3>1. inst.op \in {"hlt", "nop", "ei", "di", "inv", "stop", "sys"}
        BY <1>1, <1>6 DEF Hlt, Nop, Stop, NoSysfunc, SysQuiet, Executes
    <3>2. QED
        BY <1>5, <2>2, <3>1, OtherOperations, OtherSound DEF Ends
  <2>3. QED
      BY <1>4, <1>6, <2>1, <2>2 DEF Hlt, Nop, Stop, NoSysfunc, SysQuiet, p1
<1>7. CASE Jump
  <2>1. \E rg \in {regs, jump(regs, value(p1))}, err \in BOOLEAN :
            Finish(rg, mem, err)
      BY <1>4, <1>7 DEF Jump, p1
  <2>2. Framed(jump(regs, value(p1)))
      BY <1>2, <1>3, <1>5, JumpType, JumpMoves DEF Framed
  <2>3. inst.op \in {"jmp"} \cup Conditions
      BY <1>1, <1>7 DEF Jump, Executes
  <2>4. QED
      BY <1>5, <2>1, <2>2, <2>3, OtherOperations, OtherSound DEF Ends
<1>8. CASE Compare
  <2>1. inst.op \in {"cmp", "ucmp", "fcmp"}
      BY <1>1, <1>8 DEF Compare, Executes
  <2> DEFINE err == ValueError(p1) \/ ValueError(p2)
  <2> HIDE DEF err
  <2>2. PICK order \in Int : Finish(write_r(regs, Word(order)), mem, err)
    <3>1. \A x, y \in Int : CMP(x, y) \in Int
        BY DEF CMP, SGN
    <3>2. /\ Signed(signed_value(p1), 4) \in Int
          /\ Signed(signed_value(p2), 4) \in Int
          /\ value(p1) \in Int /\ value(p2) \in Int
        BY <1>3, SignedType DEF WordRange
    <3>3. QED
        BY <1>8, <2>1, <3>1, <3>2 DEF Compare, p1, p2, err
  <2>3. Framed(write_r(regs, Word(order)))
    <3>1. Word(order) \in Int
        BY WordType DEF WordRange
    <3>2. R \in MayChange(inst)
        BY <2>1 DEF MayChange, WritesR
    <3>3. QED
        BY <1>2, <3>1, <3>2, WriteRType, WriteRMoves DEF Framed
  <2>4. QED
      BY <1>4, <1>5, <2>1, <2>2, <2>3, OtherOperations, OtherSound
         DEF Ends, err
<1>9. CASE Call
  <2> DEFINE rg == Pushed(regs, 4)
             m == mem_write(mem, rg[S], Word(regs[P] + inst.len), 4)
             target == get_param_value(m, rg, p1)
  <2>1. /\ rg \in RegisterFile /\ rg[S] \in Nat
        /\ \A id \in file : id # S => rg[id] = regs[id]
      BY StackFrame
  <2>2. Word(regs[P] + inst.len) \in WordRange
      BY <1>1, <1>2, WordType
  <2>3. inst.op = "call"
      BY <1>1, <1>9 DEF Call, Executes
  <2>4. Finish(jump(rg, target), m, ValueError(p1))
      BY <1>9 DEF Call, p1
  <2> HIDE DEF rg
  <2>5. Stored(m) /\ m \in Memory
    <3> DEFINE at == rg[S]
               back == Word(regs[P] + inst.len)
    <3>1. at \in Nat /\ back \in WordRange
        BY <2>1, <2>2
    <3> HIDE DEF at, back
    <3>2. mem_write(mem, at, back, 4) \in Memory
        BY <1>2, <3>1, MemWriteType
    <3>3. Stored(mem_write(mem, at, back, 4))
        BY <2>3, <3>1 DEF Stored, Storing
    <3>4. QED
        BY <3>2, <3>3 DEF at, back
  <2>6. target \in WordRange
      BY <1>1, <2>1, <2>5, ParamTypes
  <2> HIDE DEF m, target
  <2>7. Framed(jump(rg, target))
    <3>1. S \in MayChange(inst)
        BY <2>3 DEF MayChange, UsesStack
    <3>2. QED
        BY <1>5, <2>1, <2>6, <3>1, JumpType, JumpMoves DEF Framed
  <2>8. QED
      BY <1>4, <2>3, <2>4, <2>5, <2>7, OtherOperations, OtherSound DEF Ends
<1>10. CASE Ret
  <2> DEFINE rg == jump(Popped(regs, 4), top(4))
  <2>1. inst.op = "ret" /\ Finish(rg, mem, FALSE)
      BY <1>1, <1>10 DEF Ret, Executes
  <2>2. Framed(rg)
    <3>1. S \in MayChange(inst)
        BY <2>1 DEF MayChange, UsesStack
    <3>2. /\ Popped(regs, 4) \in RegisterFile
          /\ \A id \in file : id # S => Popped(regs, 4)[id] = regs[id]
        BY StackFrame
    <3>3. top(4) \in WordRange
        BY TopType
    <3> DEFINE popped == Popped(regs, 4)
               back == top(4)
    <3> HIDE DEF popped, back
    <3>4. jump(popped, back) \in RegisterFile
        BY <3>2, <3>3, JumpType DEF popped, back
    <3>5. \A id \in file : id # P => jump(popped, back)[id] = popped[id]
        BY <3>2, JumpMoves DEF popped
    <3>6. QED
        BY <1>5, <3>1, <3>2, <3>4, <3>5 DEF Framed, popped, back
  <2>3. QED
      BY <1>5, <2>1, <2>2, OtherOperations, OtherSound DEF Ends
<1>11. CASE SysGet
  <2> DEFINE rg == Pushed(regs, 1)
  <2>1. /\ rg \in RegisterFile /\ rg[S] \in Nat
        /\ \A id \in file : id # S => rg[id] = regs[id]
      BY StackFrame
  <2>2. PICK c \in Input :
            Finish(rg, mem_write(mem, rg[S], c, 1), ValueError(p1))
      BY <1>11 DEF SysGet, p1
  <2>3. c \in WordRange
      BY CpuAssumption, Widths DEF ByteRange, WordRange
  <2>4. inst.op = "sys"
      BY <1>1, <1>11 DEF SysGet, Executes
  <2> HIDE DEF rg
  <2>5. Stored(mem_write(mem, rg[S], c, 1))
      BY <2>1, <2>3, <2>4 DEF Stored, Storing
  <2>6. Framed(rg)
      BY <2>1, <2>4 DEF Framed, MayChange, UsesStack
  <2>7. QED
      BY <1>4, <2>2, <2>4, <2>5, <2>6, OtherOperations, OtherSound DEF Ends
<1>12. CASE SysCrash
  <2>1. inst.op = "sys"
      BY <1>1, <1>12 DEF SysCrash, Executes
  <2>2. QED
      BY <1>12, <2>1, OtherOperations DEF SysCrash, Dies
<1>13. CASE Ld
  <2> DEFINE v == IF inst.op = "lds" THEN signed_value(p2) ELSE value(p2)
             size == IF param_is_address(p2.mode) THEN 1
                     ELSE param_value_size(p2)
             err == ValueError(p1) \/ ValueError(p2)
  <2>1. v \in WordRange /\ size \in 0 .. 4 /\ err \in BOOLEAN
      BY <1>3, <1>4, ParamValueSize
  <2>2. \/ /\ param_is_writable(p1.mode)
           /\ Finish(RegistersAfter(p1, v), MemoryAfter(p1, v, size), err)
        \/ Fault
      BY <1>13 DEF Ld, p1, p2
  <2>3. /\ inst.op \in WritesFirst /\ inst.op \notin DivisionOps
        /\ ValueError(p1) => err
      BY <1>1, <1>13 DEF Ld, Executes, WritesFirst, DivisionOps
  <2> HIDE DEF v, size, err
  <2>4. QED
      BY <1>1, <2>1, <2>2, <2>3, FaultEnds, DestinationSound DEF Ends, p1
<1>14. CASE Lw
  <2> DEFINE v == IF inst.op = "lws" THEN signed_value(p2) ELSE value(p2)
             err == ValueError(p1) \/ ValueError(p2)
  <2>1. v \in WordRange /\ err \in BOOLEAN
      BY <1>3, <1>4
  <2>2. \/ /\ param_is_writable(p1.mode)
           /\ Finish(RegistersAfter(p1, v), MemoryAfter(p1, v, 4), err)
        \/ Fault
      BY <1>14 DEF Lw, p1, p2
  <2>3. /\ inst.op \in WritesFirst /\ inst.op \notin DivisionOps
        /\ ValueError(p1) => err
      BY <1>1, <1>14 DEF Lw, Executes, WritesFirst, DivisionOps
  <2> HIDE DEF v, err
  <2>4. QED
      BY <1>1, <2>1, <2>2, <2>3, FaultEnds, DestinationSound DEF Ends, p1
<1>15. CASE Ldx
  <2>1. inst.op \in {"lda", "ldb", "ldc", "ldd"}
      BY <1>1, <1>15 DEF Ldx, Executes
  <2> DEFINE which == CASE inst.op = "lda" -> A [] inst.op = "ldb" -> B
                        [] inst.op = "ldc" -> C [] inst.op = "ldd" -> D
             rg == reg_write(regs, which, value(p1))
  <2>2. which = Loads[inst.op] /\ which \in Nat /\ RegId(which) = which
      BY <2>1 DEF Loads, RegId, A, B, C, D
  <2>3. Finish(rg, mem, ValueError(p1))
      BY <1>15 DEF Ldx, p1
  <2> HIDE DEF which
  <2>4. /\ rg \in RegisterFile
        /\ \A id \in file : id # which => rg[id] = regs[id]
    <3>1. rg \in RegisterFile
        BY <1>2, <1>3, <2>2, RegWriteType
    <3>2. \A id \in file : id # RegId(which) => rg[id] = regs[id]
        BY <1>2, <1>3, <2>2, RegWriteEffect
    <3>3. QED
        BY <2>2, <3>1, <3>2
  <2>5. which \in MayChange(inst)
      BY <2>1, <2>2 DEF MayChange, Loads
  <2> HIDE DEF rg
  <2>6. Framed(rg)
      BY <2>4, <2>5 DEF Framed
  <2>7. /\ inst.op \notin WritesFirst /\ inst.op \notin DivisionOps
        /\ Names(p1) => ValueError(p1)
      BY <2>1 DEF WritesFirst, AluOps, SignedRead, SignedOps, UnsignedOps,
              FloatOps1, FloatOps2, DivisionOps, Names, ValueError
  <2>8. Sound(rg, mem, ValueError(p1))
      BY <1>5, <2>6, <2>7 DEF Sound, Shielded, Reported, p1
  <2>9. QED
      BY <1>4, <2>3, <2>8 DEF Ends
<1>16. CASE Stx
  <2> DEFINE which == CASE inst.op = "sta" -> A [] inst.op = "stb" -> B
                        [] inst.op = "stc" -> C [] inst.op = "std" -> D
             m == mem_write(mem, get_param_address(regs, p1),
                            reg_read(regs, which), 4)
  <2>1. /\ inst.op \in {"sta", "stb", "stc", "std"}
        /\ inst.op \in WritesFirst /\ inst.op \notin DivisionOps
      BY <1>1, <1>16 DEF Stx, Executes, WritesFirst, DivisionOps
  <2>2. \/ /\ param_is_writable(p1.mode)
           /\ Finish(regs, m, AddressError(p1))
        \/ Fault
      BY <1>16 DEF Stx, p1
  <2>3. which \in Nat
      BY <2>1 DEF A, B, C, D
  <2> HIDE DEF which
  <2>4. /\ get_param_address(regs, p1) \in Nat
        /\ reg_read(regs, which) \in WordRange
      BY <1>1, <1>2, <2>3, ParamTypes, RegReadType
  <2>5. ASSUME param_is_writable(p1.mode), Finish(regs, m, AddressError(p1))
        PROVE  Ends
    <3>1. CASE p1.mode = Register
      <4>1. get_param_address(regs, p1) = MEM_SIZE
          BY <3>1 DEF get_param_address, Register, AbsoluteAddress,
                 RelativeAddress, RegisterAddress
      <4>2. m = mem
          BY <1>2, <4>1, EmptyWrite
      <4>3. Reported(regs, mem, AddressError(p1))
          BY <2>1, <3>1 DEF Reported, Names, ValueError, AddressError, p1,
             Register, AbsoluteAddress, RegisterAddress
      <4>4. Shielded(regs)
          BY DEF Shielded
      <4>5. QED
          BY <1>4, <1>5, <2>5, <4>2, <4>3, <4>4 DEF Ends, Sound
    <3>2. CASE p1.mode # Register
      <4>1. Stored(m)
          BY <2>1, <2>4, <3>2 DEF Stored, Storing, p1
      <4>2. Reported(regs, m, AddressError(p1))
        <5>1. p1.mode \in AbsoluteAddress .. RegisterAddress
            BY <2>5 DEF param_is_writable, param_is_address, Register,
               AbsoluteAddress, RegisterAddress, RelativeAddress
        <5>2. QED
            BY <2>1, <5>1 DEF Reported, Names, ValueError, AddressError, p1
      <4>3. Shielded(regs)
          BY DEF Shielded
      <4>4. QED
          BY <1>4, <1>5, <2>5, <4>1, <4>2, <4>3 DEF Ends, Sound
    <3>3. QED
        BY <3>1, <3>2
  <2>6. QED
      BY <2>2, <2>5, FaultEnds
<1>17. CASE Zero
  <2>1. \/ /\ param_is_writable(p1.mode)
           /\ Finish(RegistersAfter(p1, 0), MemoryAfter(p1, 0, 4),
                     ValueError(p1))
        \/ Fault
      BY <1>17 DEF Zero, p1
  <2>2. /\ inst.op \in WritesFirst /\ inst.op \notin DivisionOps
        /\ 0 \in WordRange
      BY <1>1, <1>17, Widths DEF Zero, Executes, WritesFirst, DivisionOps,
         WordRange
  <2>3. QED
      BY <1>1, <1>4, <2>1, <2>2, FaultEnds, DestinationSound DEF Ends, p1
<1>18. CASE Push
  <2> DEFINE size == param_value_size(p1)
             rg == Pushed(regs, size)
             m == mem_write(mem, rg[S], value(p1), size)
  <2>1. size \in 0 .. 4 /\ size \in Nat
      BY ParamValueSize
  <2>2. Finish(rg, m, ValueError(p1))
      BY <1>18 DEF Push, p1
  <2>3. inst.op = "push"
      BY <1>1, <1>18 DEF Push, Executes
  <2> HIDE DEF size
  <2>4. /\ rg \in RegisterFile /\ rg[S] \in Nat
        /\ \A id \in file : id # S => rg[id] = regs[id]
      BY <1>2, <2>1, StackType, StackMoves
  <2> HIDE DEF rg
  <2>5. Stored(m)
      BY <1>3, <2>1, <2>3, <2>4 DEF Stored, Storing
  <2>6. Framed(rg)
      BY <2>3, <2>4 DEF Framed, MayChange, UsesStack
  <2>7. inst.op \notin WritesFirst /\ inst.op \notin DivisionOps
      BY <2>3 DEF WritesFirst, AluOps, SignedRead, SignedOps, UnsignedOps,
              FloatOps1, FloatOps2, DivisionOps
  <2>8. Sound(rg, m, ValueError(p1))
      BY <2>5, <2>6, <2>7 DEF Sound, Shielded, Reported, Names, ValueError, p1
  <2>9. QED
      BY <1>4, <2>2, <2>8 DEF Ends
<1>19. CASE Pop
  <2> DEFINE size == register_size(p1.value)
             rg == Popped(regs, size)
             id == RegId(p1.value)
             c == Capacity(size)
  <2>1. /\ inst.op = "pop" /\ inst.op \in WritesFirst
        /\ inst.op \notin DivisionOps
      BY <1>1, <1>19 DEF Pop, Executes, WritesFirst, DivisionOps
  <2>2. size \in 0 .. 4 /\ size \in Nat
      BY RegisterSize
  <2>3. top(size) \in Int /\ top(4) \in WordRange
    <3>1. top(size) \in WordRange /\ top(4) \in WordRange
        BY <2>2, TopType
    <3>2. QED
        BY <3>1 DEF WordRange
  <2>4. S \in MayChange(inst)
      BY <2>1 DEF MayChange, UsesStack
  <2>5. CASE p1.mode = Register
    <3> DEFINE after == reg_write(rg, p1.value, top(size))
    <3>1. Finish(after, mem, RegError(p1.value))
      <4>1. ~param_is_address(p1.mode)
          BY <2>5 DEF param_is_address, Register, AbsoluteAddress,
             RelativeAddress, RegisterAddress
      <4>2. QED
          BY <1>19, <2>5, <4>1 DEF Pop, p1
    <3>2. /\ rg \in RegisterFile
          /\ \A other \in file : other # S => rg[other] = regs[other]
        BY <1>2, <2>2, StackType, StackMoves
    <3> HIDE DEF rg
    <3>3. /\ after \in RegisterFile
          /\ \A other \in file : other # id => after[other] = rg[other]
          /\ id \in file => after[id] \div c = rg[id] \div c
        BY <1>1, <2>3, <3>2, RegWriteType, RegWriteEffect
    <3> HIDE DEF after
    <3>4. Framed(after)
      <4>1. id \in MayChange(inst)
          BY <2>1, <2>5 DEF MayChange, p1
      <4>2. QED
          BY <2>4, <3>2, <3>3, <4>1 DEF Framed
    <3>5. Shielded(after)
      <4>1. ~RegError(p1.value) => id \in file
          BY <1>1, RegisterOfFile
      <4>2. QED
          BY <3>2, <3>3, <4>1 DEF Shielded, p1
    <3>6. Reported(after, mem, RegError(p1.value))
        BY <2>1, <2>5 DEF Reported, Names, p1, Register, AbsoluteAddress,
           RegisterAddress
    <3>7. QED
        BY <1>4, <1>5, <3>1, <3>4, <3>5, <3>6 DEF Ends, Sound
  <2>6. CASE param_is_address(p1.mode)
    <3> DEFINE m == mem_write(mem, p1.value, top(4), 4)
    <3>1. p1.mode # Register
        BY <2>6 DEF param_is_address, Register, AbsoluteAddress,
           RelativeAddress, RegisterAddress
    <3>2. Finish(Popped(regs, 4), m, FALSE)
        BY <1>19, <2>6, <3>1 DEF Pop, p1
    <3>3. /\ Popped(regs, 4) \in RegisterFile
          /\ \A other \in file :
                other # S => Popped(regs, 4)[other] = regs[other]
        BY StackFrame
    <3>4. Framed(Popped(regs, 4))
        BY <2>4, <3>3 DEF Framed
    <3>5. Stored(m)
        BY <1>1, <2>1, <2>3, <3>1 DEF Stored, Storing, p1
    <3>6. Shielded(Popped(regs, 4))
        BY <3>1 DEF Shielded, p1
    <3>7. Reported(Popped(regs, 4), m, FALSE)
      <4>1. p1.mode \in AbsoluteAddress .. RegisterAddress
          BY <2>6 DEF param_is_address, AbsoluteAddress, RelativeAddress,
             RegisterAddress
      <4>2. QED
          BY <2>1, <3>1, <4>1 DEF Reported, p1
    <3>8. QED
        BY <3>2, <3>4, <3>5, <3>6, <3>7 DEF Ends, Sound
  <2>7. CASE Fault
      BY <2>7, FaultEnds
  <2>8. QED
      BY <1>19, <2>5, <2>6, <2>7 DEF Pop, p1
<1>20. CASE Arithmetic
  <2> DEFINE a == operand(inst.op, p1)
             b == operand(inst.op, p2)
             err == ValueError(p1) \/ ValueError(p2)
  <2>1. inst.op \in AluOps /\ inst.op \in WritesFirst
      BY <1>1, <1>20 DEF Arithmetic, Executes, WritesFirst
  <2>2. CASE Fault
      BY <2>2, FaultEnds
  <2>3. CASE ~Fault
    <3>1. /\ param_is_writable(p1.mode)
          /\ inst.op \in DivisionOps => b # 0
        BY <1>20, <2>3 DEF Arithmetic, p1, p2
    <3>2. PICK out \in alu(inst.op, a, b, width(p1)) \cap AluOutcomes :
              Finish(IF out.r = NoR \/ SkipsR(inst.op, p1)
                     THEN RegistersAfter(p1, out.res)
                     ELSE write_r(RegistersAfter(p1, out.res), out.r),
                     MemoryAfter(p1, out.res, 4), err)
        BY <1>20, <2>3 DEF Arithmetic, p1, p2
    <3>3. out.res \in WordRange /\ out.r \in Int
        BY Widths DEF AluOutcomes, NoR
    <3>4. inst.op \in WritesR \/ out.r = NoR
        BY <2>1, QuietAlu
    <3>5. err \in BOOLEAN /\ (ValueError(p1) => err)
        BY <1>4
    <3> DEFINE rg == IF out.r = NoR \/ SkipsR(inst.op, p1)
                     THEN RegistersAfter(p1, out.res)
                     ELSE write_r(RegistersAfter(p1, out.res), out.r)
    <3>6. \/ rg = RegistersAfter(p1, out.res)
          \/ /\ inst.op \in WritesR
             /\ rg = write_r(RegistersAfter(p1, out.res), out.r)
        BY <3>4
    <3>7. Finish(rg, MemoryAfter(p1, out.res, 4), err)
        BY <3>2
    <3> HIDE DEF rg, err
    <3>8. Sound(rg, MemoryAfter(p1, out.res, 4), err)
        BY <1>1, <2>1, <3>1, <3>3, <3>5, <3>6, DestinationSound DEF p1, p2
    <3>9. QED
        BY <3>5, <3>7, <3>8 DEF Ends
  <2>4. QED
      BY <2>2, <2>3
<1>21. CASE DivisionTrap
  <2>1. /\ inst.op \in {"div", "mod"} /\ Crash
        /\ param_is_writable(p1.mode) /\ signed_value(p2) = WORD - 1
      BY <1>1, <1>21 DEF DivisionTrap, Executes, DivOverflows, p1, p2
  <2>2. operand(inst.op, p2) = WORD - 1
      BY <2>1 DEF operand, SignedRead, SignedOps
  <2>3. WORD - 1 # 0
      BY ByteAssumption, Widths
  <2>4. QED
      BY <2>1, <2>2, <2>3 DEF Dies, p1, p2
<1>22. CASE Test
  <2> DEFINE n == bit_trunc(value(p2), width(p1))
             rg == write_r(regs, Bit(value(p1), n))
             err == ValueError(p1) \/ ValueError(p2)
  <2>1. inst.op = "test" /\ Finish(rg, mem, err)
      BY <1>1, <1>22 DEF Test, Executes, p1, p2
  <2>2. Framed(rg)
    <3>1. Bit(value(p1), n) \in Int
        BY DEF Bit
    <3>2. R \in MayChange(inst)
        BY <2>1 DEF MayChange, WritesR
    <3> HIDE DEF n
    <3>3. QED
        BY <1>2, <3>1, <3>2, WriteRType, WriteRMoves DEF Framed
  <2> HIDE DEF rg, err
  <2>3. err \in BOOLEAN
      BY <1>4 DEF err
  <2>4. QED
      BY <1>5, <2>1, <2>2, <2>3, OtherOperations, OtherSound DEF Ends
<1>23. CASE Rand
  <2>1. /\ inst.op = "rand" /\ inst.op \in WritesFirst /\ inst.op \in WritesR
        /\ inst.op \notin DivisionOps
      BY <1>1, <1>23 DEF Rand, Executes, WritesFirst, WritesR, DivisionOps
  <2>2. CASE Fault
      BY <2>2, FaultEnds
  <2>3. CASE ~Fault
    <3> DEFINE r == drawn(next_seed(rseed))
    <3>1. PICK v \in WordRange :
              /\ param_is_writable(p1.mode)
              /\ Finish(write_r(RegistersAfter(p1, v), r),
                        MemoryAfter(p1, v, 4), ValueError(p1))
        BY <1>23, <2>3 DEF Rand, p1
    <3>2. r \in Int
        BY DrawnType DEF Built
    <3> HIDE DEF r
    <3>3. QED
        BY <1>1, <1>4, <2>1, <3>1, <3>2, DestinationSound DEF Ends, p1
  <2>4. QED
      BY <2>2, <2>3
<1>24. CASE Rseed
  <2>1. inst.op = "rseed" /\ Finish(regs, mem, ValueError(p1))
      BY <1>1, <1>24 DEF Rseed, Executes, p1
  <2>2. inst.op \notin WritesFirst /\ inst.op \notin DivisionOps
      BY <2>1 DEF WritesFirst, AluOps, SignedRead, SignedOps, UnsignedOps,
              FloatOps1, FloatOps2, DivisionOps
  <2>3. Sound(regs, mem, ValueError(p1))
      BY <1>5, <2>1, <2>2 DEF Sound, Shielded, Reported, Names, ValueError, p1
  <2>4. QED
      BY <1>4, <2>1, <2>3 DEF Ends
<1>25. QED
    BY <1>6, <1>7, <1>8, <1>9, <1>10, <1>11, <1>12, <1>13, <1>14, <1>15,
       <1>16, <1>17, <1>18, <1>19, <1>20, <1>21, <1>22, <1>23, <1>24
       DEF Instruction

-----------------------------------------------------------------------------
(* The steps of the loop. *)

(* While the loop fetches, the host does nothing: a step is that of a      *)
(* handler. *)
LEMMA FetchingSteps ==
    ASSUME Fetching, [Next]_vars
    PROVE  Instruction \/ UNCHANGED vars
<1>1. /\ phase = "running" /\ ~halted /\ ValidPc /\ ~stopped /\ ~HostTurn
    BY DEF Fetching, Running, HostTurn
<1>2. QED
    BY <1>1 DEF Next, register_sysfunc, StartRun, Loop, LoopExit, InvalidPc,
       Stopped, Done

(* The loop adds the increment of P to what a handler leaves behind. *)
LEMMA FinishEffect ==
    ASSUME Built, NEW rg \in RegisterFile, NEW m, NEW err, Finish(rg, m, err)
    PROVE  /\ \A id \in 0 .. REGISTER_COUNT : id # P => regs'[id] = rg[id]
           /\ mem' = m /\ halted' = err
BY DEF Finish, Incremented, RegisterFile

LEMMA StepSound ==
    ASSUME Built, Fetching, [Next]_vars
    PROVE  \/ UNCHANGED machine /\ (UNCHANGED vars \/ Dies)
           \/ \E rg \in RegisterFile : \E m : \E err \in BOOLEAN :
                /\ Sound(rg, m, err)
                /\ \A id \in 0 .. REGISTER_COUNT : id # P => regs'[id] = rg[id]
                /\ mem' = m /\ halted' = err
<1>1. CASE UNCHANGED vars
    BY <1>1 DEF vars
<1>2. CASE Dies
    BY <1>2 DEF Dies, Crash
<1>3. CASE Ends
  <2>1. PICK rg, m, err :
            err \in BOOLEAN /\ Finish(rg, m, err) /\ Sound(rg, m, err)
      BY <1>3 DEF Ends
  <2>2. rg \in RegisterFile
      BY <2>1 DEF Sound, Framed
  <2>3. QED
      BY <2>1, <2>2, FinishEffect
<1>4. QED
    BY <1>1, <1>2, <1>3, FetchingSteps, HandlerEnds

-----------------------------------------------------------------------------
(* No program can make an instruction change a register it is not          *)
(* specified to change: the handlers of cpu.cpp write to their first       *)
(* parameter, to R if they report through it, and to S if they use the     *)
(* stack, and the loop increments P. *)
THEOREM RegistersFramed == Spec => RegisterFrame
<1>1. TypeOK /\ [Next]_vars =>
        (Fetching => \A id \in 0 .. REGISTER_COUNT - 1 :
            regs'[id] # regs[id] => id \in MayChange(inst))
  <2>1. SUFFICES ASSUME Built, [Next]_vars, Fetching,
                        NEW id \in 0 .. REGISTER_COUNT - 1,
                        regs'[id] # regs[id]
                 PROVE  id \in MayChange(inst)
      BY BuiltType DEF Fetching, Running
  <2>2. id \in 0 .. REGISTER_COUNT
      BY DEF REGISTER_COUNT
  <2>3. PICK rg : Framed(rg) /\ (id # P => regs'[id] = rg[id])
      BY <2>1, <2>2, StepSound DEF machine, Sound
  <2>4. CASE id = P
      BY <2>4 DEF MayChange
  <2>5. CASE id # P
      BY <2>1, <2>2, <2>3, <2>5 DEF Framed
  <2>6. QED
      BY <2>4, <2>5
<1>2. QED
    BY <1>1, TypeCorrect, PTL DEF Spec, RegisterFrame

(* reg_write keeps the upper bytes of a register of which a program names  *)
(* the low byte or the low half, through every handler with a destination. *)
THEOREM UpperBytesStay == Spec => UpperBytesKept
<1> DEFINE id == RegId(inst.p1.value)
           c == Capacity(register_size(inst.p1.value))
<1>1. TypeOK /\ [Next]_vars =>
        (Fetching /\ inst.op \in WritesFirst /\ inst.p1.mode = Register
         /\ ~RegError(inst.p1.value) =>
           (id = R /\ inst.op \in WritesR) \/ id \in {P, S}
           \/ regs'[id] \div c = regs[id] \div c)
  <2>1. SUFFICES ASSUME Built, [Next]_vars, Fetching,
                        inst.op \in WritesFirst, inst.p1.mode = Register,
                        ~RegError(inst.p1.value),
                        ~(id = R /\ inst.op \in WritesR), id \notin {P, S}
                 PROVE  regs'[id] \div c = regs[id] \div c
      BY BuiltType DEF Fetching, Running
  <2>2. id \in 0 .. REGISTER_COUNT
    <3>1. inst.p1.value \in Nat
        BY <2>1, InstType DEF Fetching, DecodedParams, WordRange
    <3>2. QED
        BY <2>1, <3>1, RegisterOfFile
  <2>3. CASE UNCHANGED machine
      BY <2>3 DEF machine
  <2>4. CASE \E rg : Shielded(rg) /\ regs'[id] = rg[id]
      BY <2>1, <2>4 DEF Shielded
  <2>5. QED
      BY <2>1, <2>2, <2>3, <2>4, StepSound DEF Sound
<1>2. QED
    BY <1>1, TypeCorrect, PTL DEF Spec, UpperBytesKept

(* An instruction stores at most one word, and only if it is one that      *)
(* stores: the footprint of a step in memory, for every address a program  *)
(* can compute. *)
THEOREM StoresBounded == Spec => StoreFootprint
<1> DEFINE changed == {c \in Cells : mem'[c] # mem[c]}
<1>1. TypeOK /\ [Next]_vars =>
        (Fetching =>
           /\ \A c, d \in changed : c - d < 4
           /\ changed # {} =>
                \/ inst.op \in WritesFirst /\ inst.p1.mode # Register
                \/ inst.op \in {"push", "call", "sys"})
  <2>1. SUFFICES ASSUME Built, [Next]_vars, Fetching
                 PROVE  /\ \A c, d \in changed : c - d < 4
                        /\ changed # {} => Storing
      BY BuiltType DEF Storing, Fetching, Running
  <2>2. CASE mem' = mem
      BY <2>2
  <2>3. CASE Stored(mem') /\ mem' # mem
    <3>1. PICK at \in Nat, v \in WordRange, size \in 0 .. 4 :
              mem' = mem_write(mem, at, v, size)
        BY <2>3 DEF Stored
    <3>2. \A c \in changed : c \in Masked(at) .. Masked(at) + size - 1
        BY <2>1, <3>1, FileType, WriteFootprint
    <3>3. Masked(at) \in Nat
        BY AccessRange
    <3>4. \A c, d \in changed : c - d < 4
        BY <3>2, <3>3
    <3>5. QED
        BY <2>3, <3>4 DEF Stored
  <2>4. QED
      BY <2>1, <2>2, <2>3, StepSound DEF Sound, machine
<1>2. QED
    BY <1>1, TypeCorrect, PTL DEF Spec, StoreFootprint

(* An instruction whose destination is not writable, whose divisor is zero *)
(* or whose parameter names no register ends the run, and the first of     *)
(* these is found before anything has changed.                             *)
THEOREM FaultsEndTheRun == Spec => FaultsHalt
<1>1. TypeOK /\ [Next]_vars =>
        (Fetching /\ inst.op \in WritesFirst \cup {"push", "lda", "rseed"} =>
         /\ Names(inst.p1) /\ (inst.op = "pop" => inst.p1.mode = Register)
              => halted' \/ phase' = "crashed"
         /\ inst.op \in DivisionOps
            /\ operand(inst.op, inst.p2) = 0 => halted'
         /\ inst.op \in WritesFirst
            /\ ~(inst.p1.mode \in AbsoluteAddress .. RegisterAddress) =>
              /\ halted'
              /\ mem' = mem
              /\ \A id \in DOMAIN regs : id # P => regs'[id] = regs[id])
      \/ UNCHANGED vars
  <2>1. SUFFICES ASSUME Built, [Next]_vars, Fetching, ~(UNCHANGED vars),
                        inst.op \in WritesFirst \cup {"push", "lda", "rseed"}
                 PROVE
         /\ Names(inst.p1) /\ (inst.op = "pop" => inst.p1.mode = Register)
              => halted' \/ phase' = "crashed"
         /\ inst.op \in DivisionOps
            /\ operand(inst.op, inst.p2) = 0 => halted'
         /\ inst.op \in WritesFirst
            /\ ~(inst.p1.mode \in AbsoluteAddress .. RegisterAddress) =>
              /\ halted'
              /\ mem' = mem
              /\ \A id \in DOMAIN regs : id # P => regs'[id] = regs[id]
      BY BuiltType DEF Fetching, Running
  <2>2. CASE Dies
    <3>1. phase' = "crashed" /\ param_is_writable(inst.p1.mode)
          /\ operand(inst.op, inst.p2) # 0
        BY <2>1, <2>2 DEF Dies, Crash
    <3>2. inst.p1.mode \in AbsoluteAddress .. RegisterAddress
        BY <3>1 DEF param_is_writable, param_is_address, Register,
           AbsoluteAddress, RelativeAddress, RegisterAddress
    <3>3. QED
        BY <3>1, <3>2
  <2>3. ASSUME NEW rg \in RegisterFile, NEW m, NEW err \in BOOLEAN,
               Reported(rg, m, err), mem' = m, halted' = err,
               \A id \in 0 .. REGISTER_COUNT : id # P => regs'[id] = rg[id]
        PROVE  /\ Names(inst.p1)
                  /\ (inst.op = "pop" => inst.p1.mode = Register) => halted'
               /\ inst.op \in DivisionOps
                  /\ operand(inst.op, inst.p2) = 0 => halted'
               /\ inst.op \in WritesFirst
                  /\ ~(inst.p1.mode \in AbsoluteAddress .. RegisterAddress) =>
                    /\ halted'
                    /\ mem' = mem
                    /\ \A id \in DOMAIN regs : id # P => regs'[id] = regs[id]
    <3>1. DOMAIN regs = 0 .. REGISTER_COUNT
        BY <2>1 DEF Built, RegisterFile
    <3>2. QED
        BY <2>1, <2>3, <3>1 DEF Reported
  <2>4. QED
      BY <2>1, <2>2, <2>3, StepSound DEF Sound
<1>2. QED
    BY <1>1, TypeCorrect, PTL DEF Spec, FaultsHalt

-----------------------------------------------------------------------------
(* Programs that move data. *)

(* The hypotheses about the constants: the programs fit where they are     *)
(* loaded; the cell they store to and the word they push lie apart from    *)
(* them; an instruction can name the cell; and an address in 24 bits is    *)
(* masked to the memory, so that an address relative to a register above   *)
(* the cell leads to it. *)
DataHolds ==
    /\ Values \subseteq WordRange /\ Offsets \subseteq WordRange
    /\ \A prog \in Stacks \cup Transfers : Size(prog) <= ROM_SIZE
    /\ Cell \in Nat /\ Cell < ADDRESS /\ Cell + 4 <= MEM_SIZE
    /\ Cell + 4 <= ROM_START \/ ROM_START + ROM_SIZE <= Cell
    /\ 4 <= STACK_BEGIN
    /\ STACK_BEGIN <= ROM_START \/ ROM_START + ROM_SIZE <= STACK_BEGIN - 4
    /\ ROM_START + 2 < ADDRESS
    /\ \E k \in Nat : ADDRESS = (MEM_SIZE + 1) * k
    /\ PcLimit

-----------------------------------------------------------------------------
(* Parts of words. *)

(* A word with the low bytes of another. *)
Overlaid(w, v, size) == (w - (w % Capacity(size))) + (v % Capacity(size))

(* The whole word is replaced by a whole word. *)
LEMMA WholeOverlaid ==
    ASSUME NEW w \in WordRange, NEW v \in WordRange
    PROVE  Overlaid(w, v, 4) = v /\ w % Capacity(4) = w
<1>1. /\ WORD \in Nat \ {0} /\ Capacity(4) = WORD
      /\ w \in 0 .. WORD - 1 /\ v \in 0 .. WORD - 1
    BY Widths DEF WordRange, Capacity
<1>2. w % WORD = w /\ v % WORD = v
    BY <1>1, SmallMod
<1>3. QED
    BY <1>1, <1>2 DEF Overlaid

(* The low bytes of the low bytes. *)
LEMMA LowTwice ==
    ASSUME NEW v \in Int, NEW size
    PROVE  /\ (v % Capacity(size)) % Capacity(size) = v % Capacity(size)
           /\ v % Capacity(size) \in WordRange
<1> DEFINE c == Capacity(size)
           r == v % c
<1>1. c \in Nat \ {0} /\ r \in 0 .. c - 1 /\ r \in WordRange
    BY CapacityRange, LowBytesType
<1> HIDE DEF c, r
<1>2. r % c = r
    BY <1>1, SmallMod
<1>3. QED
    BY <1>1, <1>2 DEF c, r

(* A store of the low bytes of a word leaves the upper ones. *)
LEMMA StoreOverlays ==
    ASSUME NEW m \in Memory, NEW at \in Nat, at + 4 <= MEM_SIZE,
           NEW v \in WordRange, NEW size \in {1, 2, 4}
    PROVE  mem_read(mem_write(m, at, v, size), at, 4)
               = Overlaid(mem_read(m, at, 4), v, size)
<1> DEFINE after == mem_write(m, at, v, size)
           Old(j) == m[at + j]
           New(j) == after[at + j]
           w == mem_read(m, at, 4)
           x == mem_read(after, at, 4)
<1>1. /\ Masked(at) = at /\ Clipped(at, 4) = 4 /\ Clipped(at, size) = size
  <2>1. at + size <= MEM_SIZE /\ 4 \in 0 .. 4 /\ size \in 0 .. 4
        /\ MEM_SIZE \in Nat
      BY MemAssumption
  <2>2. QED
      BY <2>1, InsideAccess
<1>2. after \in Memory
  <2>1. size \in 0 .. 4
      OBVIOUS
  <2>2. QED
      BY <2>1, MemWriteType
<1>3. \A j \in 0 .. 3 : at + j \in Cells /\ Old(j) \in ByteRange
  <2>1. \A j \in 0 .. 3 : at + j \in Cells
      BY MemAssumption DEF Cells
  <2>2. QED
      BY <2>1 DEF Memory
<1>4. w = Compose(Old(0), Old(1), Old(2), Old(3))
    BY <1>1 DEF mem_read
<1>5. x = Compose(New(0), New(1), New(2), New(3))
    BY <1>1 DEF mem_read
<1>6. \A j \in 0 .. 3 : New(j) = IF j < size THEN Digit(v, j) ELSE Old(j)
  <2>1. ASSUME NEW j \in 0 .. 3
        PROVE  New(j) = IF j < size THEN Digit(v, j) ELSE Old(j)
    <3> DEFINE c == at + j
    <3>1. c \in Cells /\ c >= at /\ c - at = j
        BY <1>3
    <3> HIDE DEF c
    <3>2. after[c] = IF j < size THEN Digit(v, j) ELSE m[c]
        BY <1>1, <3>1 DEF mem_write
    <3>3. QED
        BY <3>2 DEF c
  <2>2. QED
      BY <2>1
<1>7. w \in WordRange /\ x \in WordRange
    BY <1>2, MemReadType
<1> HIDE DEF after, Old, New, w, x
<1> DEFINE o0 == Old(0)
           o1 == Old(1)
           o2 == Old(2)
           o3 == Old(3)
           d0 == Digit(v, 0)
           d1 == Digit(v, 1)
<1>8. /\ o0 \in ByteRange /\ o1 \in ByteRange
      /\ o2 \in ByteRange /\ o3 \in ByteRange
    BY <1>3
<1>9. v \in Nat /\ d0 \in ByteRange /\ d1 \in ByteRange
  <2>1. v \in Nat
      BY Widths DEF WordRange
  <2>2. QED
      BY <2>1, Digits
<1>10. CASE size = 1
  <2> DEFINE q == o1 + BYTE * (o2 + BYTE * o3)
  <2>1. w = o0 + BYTE * q
      BY <1>4 DEF Compose
  <2>2. x = d0 + BYTE * q
      BY <1>5, <1>6, <1>10 DEF Compose
  <2>3. BYTE \in Nat \ {0} /\ q \in Int
        /\ o0 \in 0 .. BYTE - 1 /\ d0 \in 0 .. BYTE - 1
      BY <1>8, <1>9, Widths DEF ByteRange
  <2>4. v \div BYTE \in Int /\ v = d0 + BYTE * (v \div BYTE)
      BY <1>9, Digits
  <2> HIDE DEF q, o0, d0
  <2>5. w % BYTE = o0
      BY <2>1, <2>3, LowPart
  <2>6. v % BYTE = d0
    <3> DEFINE y == v \div BYTE
    <3> HIDE DEF y
    <3>1. y \in Int /\ v = d0 + BYTE * y
        BY <2>4 DEF y
    <3>2. QED
        BY <2>3, <3>1, LowPart
  <2>7. Capacity(size) = BYTE
      BY <1>10 DEF Capacity
  <2>8. x = (w - o0) + d0
    <3> DEFINE r == BYTE * q
    <3>1. r \in Int /\ w = o0 + r /\ x = d0 + r
        BY <2>1, <2>2, <2>3
    <3> HIDE DEF r
    <3>2. QED
        BY <2>3, <3>1
  <2>9. QED
      BY <2>5, <2>6, <2>7, <2>8 DEF Overlaid, w, x, after
<1>11. CASE size = 2
  <2> DEFINE q == o2 + BYTE * o3
             r == o0 + BYTE * o1
             d == d0 + BYTE * d1
  <2>1. BYTE \in Nat \ {0} /\ SHORT \in Nat \ {0} /\ SHORT = BYTE * BYTE
      BY Widths DEF SHORT
  <2> DEFINE c == SHORT
  <2>0. c \in Nat \ {0}
      BY <2>1
  <2>2. r \in 0 .. SHORT - 1 /\ d \in 0 .. SHORT - 1 /\ q \in Int
      BY <1>8, <1>9, <2>1, AppendDigit DEF ByteRange
  <2>3. w = r + SHORT * q
    <3>1. w = o0 + BYTE * (o1 + BYTE * q)
        BY <1>4 DEF Compose
    <3>2. o0 \in Int /\ o1 \in Int
        BY <1>8 DEF ByteRange
    <3> HIDE DEF q, o0, o1
    <3>3. QED
        BY <2>1, <2>2, <3>1, <3>2
  <2>4. x = d + SHORT * q
    <3>1. x = d0 + BYTE * (d1 + BYTE * q)
        BY <1>5, <1>6, <1>11 DEF Compose
    <3>2. d0 \in Int /\ d1 \in Int
        BY <1>9 DEF ByteRange
    <3> HIDE DEF q, d0, d1
    <3>3. QED
        BY <2>1, <2>2, <3>1, <3>2
  <2>5. v \div SHORT \in Int /\ v = d + SHORT * (v \div SHORT)
    <3> DEFINE y == v \div SHORT
               z == v \div BYTE
    <3>1. y \in Nat /\ z = d1 + BYTE * y /\ v = d0 + BYTE * z
        BY <1>9, Digits
    <3>2. d0 \in Int /\ d1 \in Int
        BY <1>9 DEF ByteRange
    <3> HIDE DEF y, z, d0, d1
    <3>3. y \in Int /\ v = d + SHORT * y
        BY <2>1, <3>1, <3>2
    <3>4. QED
        BY <3>3 DEF y
  <2> HIDE DEF q, r, d
  <2>6. w % SHORT = r
    <3>1. r \in 0 .. c - 1 /\ w = r + c * q
        BY <2>2, <2>3
    <3> HIDE DEF c
    <3>2. w % c = r
        BY <2>0, <2>2, <3>1, LowPart
    <3>3. QED
        BY <3>2 DEF c
  <2>7. v % SHORT = d
    <3> DEFINE y == v \div SHORT
    <3> HIDE DEF y
    <3>1. y \in Int /\ v = d + c * y /\ d \in 0 .. c - 1
        BY <2>2, <2>5 DEF y
    <3> HIDE DEF c
    <3>2. v % c = d
        BY <2>0, <3>1, LowPart
    <3>3. QED
        BY <3>2 DEF c
  <2>8. Capacity(size) = SHORT
      BY <1>11 DEF Capacity
  <2>9. x = (w - r) + d
    <3> DEFINE t == SHORT * q
    <3>1. t \in Int /\ w = r + t /\ x = d + t
        BY <2>1, <2>2, <2>3, <2>4
    <3> HIDE DEF t
    <3>2. QED
        BY <2>2, <3>1
  <2>10. QED
      BY <2>6, <2>7, <2>8, <2>9 DEF Overlaid, w, x, after
<1>12. CASE size = 4
  <2>1. x = v % Capacity(4)
    <3>1. 4 \in 1 .. 4
        OBVIOUS
    <3>2. QED
        BY <1>12, <3>1, ReadAfterWrite DEF x, after
  <2>2. Overlaid(w, v, 4) = v /\ v % Capacity(4) = v
      BY <1>7, WholeOverlaid
  <2>3. QED
      BY <1>12, <2>1, <2>2 DEF x, w, after
<1>13. QED
    BY <1>10, <1>11, <1>12

(* A write to a register overlays it. *)
LEMMA WriteOverlays ==
    ASSUME NEW rg \in RegisterFile, NEW which \in {1, 17, 33}, NEW v \in Int
    PROVE  LET after == reg_write(rg, which, v) IN
           /\ after \in RegisterFile
           /\ after[B] = Overlaid(rg[B], v, register_size(which))
           /\ \A other \in 0 .. REGISTER_COUNT :
                  other # B => after[other] = rg[other]
           /\ RegError(which) = FALSE
<1>1. RegId(which) = B /\ RegClass(which) \in {0, 1, 2}
    BY DEF RegId, RegClass, B
<1>2. RegError(which) = FALSE /\ B \in 0 .. REGISTER_COUNT
    BY <1>1 DEF RegError, B, REGISTER_COUNT
<1>3. reg_write(rg, which, v) \in RegisterFile
    BY RegWriteType
<1> DEFINE x == Overlaid(rg[B], v, register_size(which))
<1>4. reg_write(rg, which, v) = [rg EXCEPT ![B] = x]
    BY <1>1, <1>2 DEF reg_write, Overlaid
<1> HIDE DEF x
<1>5. DOMAIN rg = 0 .. REGISTER_COUNT
    BY DEF RegisterFile
<1>6. QED
    BY <1>2, <1>3, <1>4, <1>5 DEF x

-----------------------------------------------------------------------------
(* The cell, by its address or by one that is masked to it. *)
CellPlace(a) == /\ a \in WordRange
                /\ \E j \in Int : a = Cell + (MEM_SIZE + 1) * j

(* A load and a store through such an address are those of the cell. *)
LEMMA CellAccess ==
    ASSUME DataHolds, NEW a, CellPlace(a), NEW m, NEW v, NEW n \in 0 .. 4
    PROVE  /\ mem_read(m, a, n) = mem_read(m, Cell, n)
           /\ mem_write(m, a, v, n) = mem_write(m, Cell, v, n)
<1> DEFINE c == MEM_SIZE + 1
<1>1. PICK j \in Int : a = Cell + c * j
    BY DEF CellPlace
<1>2. /\ c \in Nat \ {0} /\ Cell \in 0 .. c - 1 /\ Cell \in Nat
      /\ Cell + 4 <= MEM_SIZE /\ a \in 0 .. WORD - 1
      /\ MEM_SIZE \in Nat /\ MEM_SIZE > 16 /\ MEM_SIZE < WORD
      /\ WORD \in Nat \ {0}
    BY MemAssumption, Widths DEF DataHolds, CellPlace, WordRange
<1>3. Masked(a) = Cell
  <2> HIDE DEF c
  <2>1. a % c = Cell
      BY <1>1, <1>2, LowPart
  <2>2. QED
      BY <2>1 DEF Masked, c
<1>4. Masked(Cell) = Cell /\ Clipped(Cell, n) = n
  <2>1. Cell + n <= MEM_SIZE
      BY <1>2
  <2>2. QED
      BY <1>2, <2>1, InsideAccess
<1>5. Clipped(a, n) = n
  <2>1. CASE a <= MEM_SIZE
    <3>1. a \in 0 .. c - 1
        BY <1>2, <2>1
    <3> HIDE DEF c
    <3>2. a % c = a
        BY <1>2, <3>1, SmallMod
    <3>3. a = Cell
        BY <1>3, <3>2 DEF Masked, c
    <3>4. QED
        BY <1>4, <3>3
  <2>2. CASE a > MEM_SIZE
    <3> DEFINE left == WORD + MEM_SIZE - a
    <3>1. /\ left \in 0 .. WORD - 1 /\ MEM_SIZE - a = left + WORD * (-1)
          /\ left > 4
        BY <1>2, <2>2
    <3> HIDE DEF left
    <3>2. Word(MEM_SIZE - a) = left
        BY <1>2, <3>1, LowPart DEF Word
    <3>3. QED
        BY <3>1, <3>2 DEF Clipped
  <2>3. QED
      BY <1>2, <2>1, <2>2
<1>6. QED
    BY <1>3, <1>4, <1>5 DEF mem_read, mem_write

(* An address relative to the register O, of which the parameter holds 24  *)
(* bits. *)
LEMMA RelativePlace ==
    ASSUME DataHolds, NEW offset \in WordRange
    PROVE  /\ CellPlace(Word(offset + ((Cell - offset) % ADDRESS)))
           /\ (Cell - offset) % ADDRESS \in 0 .. ADDRESS - 1
<1> DEFINE x == Cell - offset
           y == x % ADDRESS
           z == offset + y
           a == Word(z)
           c == MEM_SIZE + 1
<1>1. /\ offset \in Int /\ Cell \in Int /\ x \in Int /\ c \in Int
      /\ ADDRESS \in Nat \ {0} /\ WORD \in Nat \ {0} /\ BYTE \in Nat
    BY MemAssumption, Widths DEF DataHolds, WordRange
<1>2. PICK k \in Nat : ADDRESS = c * k
    BY DEF DataHolds
<1> DEFINE p == x \div ADDRESS
           q == z \div WORD
<1>3. y \in 0 .. ADDRESS - 1 /\ p \in Int /\ x = y + ADDRESS * p
    BY <1>1, IntDivision
<1>4. z \in Int
    BY <1>1, <1>3
<1>5. a \in WordRange /\ q \in Int /\ z = a + WORD * q /\ a \in Int
  <2> HIDE DEF z
  <2>1. /\ z \div WORD \in Int /\ z % WORD \in 0 .. WORD - 1
        /\ z = (z % WORD) + WORD * (z \div WORD)
      BY <1>1, <1>4, IntDivision
  <2>2. QED
      BY <2>1 DEF Word, WordRange
<1>6. WORD = c * (BYTE * k)
  <2>1. WORD = BYTE * (c * k)
      BY <1>2 DEF WORD
  <2> HIDE DEF c
  <2>2. QED
      BY <1>1, <2>1
<1>7. x = Cell - offset /\ z = offset + y
    OBVIOUS
<1> HIDE DEF a, c, p, q, x, y, z
<1>8. a = Cell - ADDRESS * p - WORD * q
  <2> DEFINE s == ADDRESS * p
             t == WORD * q
  <2>1. s \in Int /\ t \in Int /\ x = y + s /\ z = a + t /\ y \in Int
      BY <1>1, <1>3, <1>5
  <2> HIDE DEF s, t
  <2>2. a = Cell - s - t
      BY <1>1, <1>4, <1>5, <1>7, <2>1
  <2>3. QED
      BY <2>2 DEF s, t
<1> DEFINE j == -(k * p) - (BYTE * k) * q
<1>9. j \in Int
    BY <1>1, <1>2, <1>3, <1>5
<1>10. a = Cell + c * j
  <2> DEFINE b == BYTE * k
  <2>1. b \in Int
      BY <1>1
  <2>2. ADDRESS * p = c * (k * p)
      BY <1>1, <1>2, <1>3
  <2> HIDE DEF b
  <2>3. WORD * q = c * (b * q)
    <3>1. WORD = c * b
        BY <1>6 DEF b
    <3>2. QED
        BY <1>1, <1>5, <2>1, <3>1
  <2> DEFINE s == k * p
             t == b * q
  <2>4. s \in Int /\ t \in Int
      BY <1>2, <1>3, <1>5, <2>1
  <2>5. a = Cell - c * s - c * t /\ j = -s - t
      BY <1>8, <2>2, <2>3 DEF b
  <2> HIDE DEF s, t, j
  <2>6. c * j = -(c * s) - (c * t)
      BY <1>1, <2>4, <2>5
  <2>7. c * s \in Int /\ c * t \in Int
      BY <1>1, <2>4
  <2>8. QED
      BY <1>1, <2>5, <2>6, <2>7
<1>11. CellPlace(a)
  <2> HIDE DEF j
  <2>1. QED
      BY <1>5, <1>9, <1>10 DEF CellPlace, c
<1>12. QED
    BY <1>3, <1>11 DEF a, z, y, x

(* What the parameters that name the cell stand for. *)
CellModes(offset) == {Absolute(Cell), From(offset), Deref(B)}

(* An address that fits in three bytes is encoded as it is. *)
LEMMA PlainAddress ==
    ASSUME NEW a \in Nat, a < ADDRESS, NEW mode \in {4, 5}
    PROVE  Plain([mode |-> mode, value |-> a])
<1>1. param_size(mode) = 3
    BY DEF param_size, AbsoluteAddress, RelativeAddress, Constant32,
       Constant8, Constant16, Register, RegisterAddress, Label
<1>2. Capacity(param_size(mode)) = ADDRESS
    BY <1>1 DEF Capacity
<1>3. a \in WordRange
    BY Widths DEF WordRange
<1> DEFINE p == [mode |-> mode, value |-> a]
<1>4. p.mode = mode /\ p.value = a /\ p = [mode |-> mode, value |-> a]
    OBVIOUS
<1> HIDE DEF p
<1>5. Plain(p)
    BY <1>2, <1>3, <1>4 DEF Plain
<1>6. QED
    BY <1>5 DEF p

(* Each of the three modes leads to the cell, without an error. *)
LEMMA CellNamed ==
    ASSUME DataHolds, NEW offset \in WordRange, NEW p \in CellModes(offset),
           NEW rg \in RegisterFile, rg[O] = offset, rg[B] = Cell
    PROVE  LET a == get_param_address(rg, p) IN
           /\ CellPlace(a)
           /\ \A m : get_param_value(m, rg, p) = mem_read(m, a, 4)
           /\ Plain(p) /\ ValueError(p) = FALSE /\ AddressError(p) = FALSE
           /\ param_is_address(p.mode) /\ p.mode # Register
           /\ param_is_writable(p.mode)
<1>1. /\ Cell \in Nat /\ Cell < ADDRESS
      /\ ADDRESS \in Nat /\ WORD \in Nat /\ ADDRESS <= WORD
    BY Widths DEF DataHolds
<1>2. CellPlace(Cell)
  <2>1. Cell \in WordRange /\ Cell = Cell + (MEM_SIZE + 1) * 0
      BY <1>1, MemAssumption DEF WordRange
  <2>2. QED
      BY <2>1 DEF CellPlace
<1>3. CASE p = Absolute(Cell)
  <2>1. p = [mode |-> 4, value |-> Cell] /\ p.mode = 4 /\ p.value = Cell
      BY <1>3 DEF Absolute, Param, AbsoluteAddress
  <2>2. Plain(p)
      BY <1>1, <2>1, PlainAddress
  <2>3. get_param_address(rg, p) = Cell
      BY <2>1 DEF get_param_address, AbsoluteAddress, RelativeAddress,
         RegisterAddress
  <2>4. \A m : get_param_value(m, rg, p) = mem_read(m, Cell, 4)
      BY <2>1 DEF get_param_value, Register, RegisterAddress, Constant8,
         Constant16, Constant32, AbsoluteAddress, RelativeAddress
  <2>5. QED
      BY <1>2, <2>1, <2>2, <2>3, <2>4 DEF ValueError, AddressError,
         param_is_address, param_is_writable, AbsoluteAddress,
         RelativeAddress, Register, RegisterAddress
<1>4. CASE p = From(offset)
  <2> DEFINE y == (Cell - offset) % ADDRESS
             a == Word(offset + y)
  <2>1. CellPlace(a) /\ y \in 0 .. ADDRESS - 1
      BY RelativePlace
  <2>2. p = [mode |-> 5, value |-> y] /\ p.mode = 5 /\ p.value = y
      BY <1>4 DEF From, Relative, Param, RelativeAddress
  <2> HIDE DEF y
  <2>3. Plain(p)
    <3>1. y \in Nat /\ y < ADDRESS
        BY <1>1, <2>1
    <3>2. Plain([mode |-> 5, value |-> y])
        BY <3>1, PlainAddress
    <3>3. QED
        BY <2>2, <3>2
  <2>4. get_param_address(rg, p) = a
      BY <2>2 DEF get_param_address, AbsoluteAddress, RelativeAddress,
         RegisterAddress
  <2>5. \A m : get_param_value(m, rg, p) = mem_read(m, a, 4)
      BY <2>2 DEF get_param_value, Register, RegisterAddress, Constant8,
         Constant16, Constant32, AbsoluteAddress, RelativeAddress
  <2> HIDE DEF a
  <2>6. QED
      BY <2>1, <2>2, <2>3, <2>4, <2>5 DEF ValueError, AddressError,
         param_is_address, param_is_writable, AbsoluteAddress,
         RelativeAddress, Register, RegisterAddress
<1>5. CASE p = Deref(B)
  <2>1. p = [mode |-> 7, value |-> 1] /\ p.mode = 7 /\ p.value = 1
      BY <1>5 DEF Deref, Param, RegisterAddress, B
  <2>2. Plain(p)
    <3>1. Capacity(param_size(7)) = BYTE /\ 1 < BYTE /\ 1 \in WordRange
      <4>1. param_size(7) = 1
          BY DEF param_size, AbsoluteAddress, RelativeAddress, Constant32,
             Constant8, Constant16, Register, RegisterAddress, Label
      <4>2. QED
          BY <4>1, ByteAssumption, Widths DEF Capacity, WordRange
    <3>2. QED
        BY <2>1, <3>1 DEF Plain
  <2>3. RegError(1) = FALSE /\ reg_read(rg, 1) = rg[1]
    <3>1. 1 \in 0 .. REGISTER_COUNT
        BY DEF REGISTER_COUNT
    <3>2. QED
        BY <3>1, WholeRegister, WholeRead
  <2>4. rg[1] = Cell
      BY DEF B
  <2>5. get_param_address(rg, p) = Cell
      BY <2>1, <2>3, <2>4 DEF get_param_address, AbsoluteAddress,
         RelativeAddress, RegisterAddress
  <2>6. \A m : get_param_value(m, rg, p) = mem_read(m, Cell, 4)
      BY <2>1, <2>3, <2>4 DEF get_param_value, Register, RegisterAddress,
         Constant8, Constant16, Constant32, AbsoluteAddress, RelativeAddress
  <2>7. QED
      BY <1>2, <2>1, <2>2, <2>3, <2>5, <2>6 DEF ValueError, AddressError,
         param_is_address, param_is_writable, AbsoluteAddress,
         RelativeAddress, Register, RegisterAddress
<1>6. QED
    BY <1>3, <1>4, <1>5 DEF CellModes

-----------------------------------------------------------------------------
(* What is moved. *)

(* The extension of a word depends on its low bytes only, and has them. *)
LEMMA LowSigned ==
    ASSUME NEW x \in Int, NEW n
    PROVE  /\ SignExtend(x % Capacity(n), n) = SignExtend(x, n)
           /\ SignExtend(x, n) % Capacity(n) = x % Capacity(n)
           /\ SignExtend(x, n) \in WordRange
<1>1. SignExtend(x % Capacity(n), n) = SignExtend(x, n)
  <2> DEFINE r == x % Capacity(n)
  <2>1. r % Capacity(n) = r
      BY LowTwice
  <2> HIDE DEF r
  <2>2. Signed(r, n) = Signed(x, n)
      BY <2>1 DEF Signed, r
  <2>3. QED
      BY <2>2 DEF SignExtend, r
<1>2. SignExtend(x, n) % Capacity(n) = x % Capacity(n)
  <2> DEFINE s == SignExtend(x, n)
             c == Capacity(n)
  <2>1. PICK k \in Int : s = x + c * k
      BY SignExtended
  <2>2. c \in Nat \ {0}
      BY CapacityRange
  <2> HIDE DEF s, c
  <2>3. s % c = x % c
      BY <2>1, <2>2, Congruent
  <2>4. QED
      BY <2>3 DEF s, c
<1>3. QED
    BY <1>1, <1>2, SignExtendType

(* A whole word is its own extension. *)
LEMMA WholeSigned ==
    ASSUME NEW v \in WordRange
    PROVE  SignExtend(v, 4) = v
<1>1. v % WORD = v /\ WORD \in Nat \ {0} /\ v \in 0 .. WORD - 1
      /\ Capacity(4) = WORD
    BY WholeOverlaid, Widths DEF Capacity, WordRange
<1>2. Signed(v, 4) \in {v, v - WORD}
    BY <1>1 DEF Signed
<1>3. CASE Signed(v, 4) = v
    BY <1>1, <1>3 DEF SignExtend, Word
<1>4. CASE Signed(v, 4) = v - WORD
  <2> DEFINE y == v - WORD
  <2>1. y = v + WORD * (-1)
      BY <1>1
  <2> HIDE DEF y
  <2>2. y % WORD = v
      BY <1>1, <2>1, LowPart
  <2>3. QED
      BY <1>4, <2>2 DEF SignExtend, Word, y
<1>5. QED
    BY <1>2, <1>3, <1>4

(* A source of size bytes, of the word x. *)
Yields(p, size, x) ==
    /\ Plain(p) /\ ValueError(p) = FALSE
    /\ size \in {1, 2, 4} /\ param_value_size(p) = size
    /\ param_is_address(p.mode) = FALSE
    /\ x \in WordRange
    /\ value(p) = x % Capacity(size)
    /\ signed_value(p) = SignExtend(x, size)

(* A constant of one, two or four bytes is the source of its value. *)
LEMMA ConstantYields ==
    ASSUME NEW mode \in {1, 2, 3},
           NEW size, size = IF mode = 3 THEN 4 ELSE mode,
           NEW v \in WordRange,
           NEW p, p = [mode |-> mode, value |-> v % Capacity(size)]
    PROVE  Yields(p, size, p.value) /\ Moved(p) = size
<1> DEFINE x == v % Capacity(size)
<1>1. p.mode = mode /\ p.value = x /\ p = [mode |-> p.mode, value |-> p.value]
    OBVIOUS
<1>2. /\ param_size(mode) = size /\ size \in {1, 2, 4}
      /\ param_value_size(p) = size /\ Moved(p) = size
  <2>1. param_size(mode) = size /\ size \in {1, 2, 4}
      BY DEF param_size, AbsoluteAddress, RelativeAddress, Constant32,
         Constant8, Constant16, Register, RegisterAddress, Label
  <2>2. param_value_size(p) = size
      BY <1>1 DEF param_value_size, Constant8, Constant16, Register
  <2>3. Moved(p) = size
      BY <1>1 DEF Moved, AbsoluteAddress, Constant32,
         Constant8, Constant16, Register
  <2>4. QED
      BY <2>1, <2>2, <2>3
<1>3. x % Capacity(size) = x /\ x \in WordRange /\ v \in Int
  <2>1. v \in Int
      BY Widths DEF WordRange
  <2>2. QED
      BY <2>1, LowTwice
<1>4. x < Capacity(size)
    BY <1>3, LowBytesType, CapacityRange
<1> HIDE DEF x
<1>5. Plain(p)
    BY <1>1, <1>2, <1>3, <1>4 DEF Plain
<1>6. ValueError(p) = FALSE /\ param_is_address(p.mode) = FALSE
      /\ value(p) = x
    BY <1>1 DEF ValueError, param_is_address, value, get_param_value,
       AbsoluteAddress, RelativeAddress, Constant32,
       Constant8, Constant16, Register, RegisterAddress
<1>7. signed_value(p) = SignExtend(x, size)
  <2>1. CASE mode \in {1, 2}
    <3>1. signed_value(p) = SignExtend(p.value, param_size(mode))
        BY <1>1, <2>1 DEF signed_value, get_param_value_sign_extended,
           Constant8, Constant16, Register
    <3>2. QED
        BY <1>1, <1>2, <3>1
  <2>2. CASE mode = 3
    <3>1. signed_value(p) = x
        BY <1>1, <2>2 DEF signed_value, get_param_value_sign_extended,
           get_param_value, Constant8, Constant16, Constant32, Register,
           AbsoluteAddress, RelativeAddress, RegisterAddress
    <3>2. size = 4
        BY <2>2
    <3>3. QED
        BY <1>3, <3>1, <3>2, WholeSigned
  <2>3. QED
      BY <2>1, <2>2
<1>8. QED
    BY <1>1, <1>2, <1>3, <1>5, <1>6, <1>7 DEF Yields

(* A, its low byte and its low half are the source of what A holds. *)
LEMMA RegisterYields ==
    ASSUME Built, NEW which \in {0, 16, 32}, NEW p, p = Reg(which)
    PROVE  Yields(p, register_size(which), regs[A])
           /\ Moved(p) = register_size(which)
<1> DEFINE size == register_size(which)
           v == regs[A]
<1>1. p.mode = 6 /\ p.value = which
    BY DEF Reg, Param, Register
<1>2. /\ RegId(which) = A /\ RegClass(which) \in {0, 1, 2}
      /\ RegClass(which) = 0 => size = 4
    BY DEF RegId, RegClass, A, register_size
<1>3. RegError(which) = FALSE
    BY <1>2 DEF RegError, A, REGISTER_COUNT
<1>4. v \in WordRange /\ v \in Int
  <2>1. v \in WordRange
      BY DEF Built, RegisterFile, A, REGISTER_COUNT
  <2>2. QED
      BY <2>1, Widths DEF WordRange
<1>5. Plain(p)
  <2>1. which \in 0 .. 127
      OBVIOUS
  <2>2. QED
      BY <2>1, PlainReg
<1>6. size \in {1, 2, 4}
    BY RegisterSize
<1>7. param_value_size(p) = size /\ Moved(p) = size
    BY <1>1 DEF param_value_size, Moved, AbsoluteAddress, Constant32,
       Constant8, Constant16, Register
<1>8. reg_read(regs, which) = v % Capacity(size)
    BY <1>2, <1>3 DEF reg_read
<1> HIDE DEF size, v
<1>9. ValueError(p) = FALSE /\ param_is_address(p.mode) = FALSE
      /\ value(p) = reg_read(regs, which)
    BY <1>1, <1>3 DEF ValueError, param_is_address, value, get_param_value,
       AbsoluteAddress, RelativeAddress, Constant32,
       Constant8, Constant16, Register, RegisterAddress
<1>10. signed_value(p) = reg_read_sign_extended(regs, which)
    BY <1>1 DEF signed_value, get_param_value_sign_extended,
       Constant8, Constant16, Register
<1>11. signed_value(p) = SignExtend(v, size)
  <2>1. CASE RegClass(which) \in {1, 2}
    <3>1. signed_value(p) = SignExtend(reg_read(regs, which), size)
        BY <1>10, <2>1 DEF reg_read_sign_extended, size
    <3>2. QED
        BY <1>4, <1>8, <3>1, LowSigned
  <2>2. CASE RegClass(which) = 0
    <3>1. signed_value(p) = reg_read(regs, which)
        BY <1>10, <2>2 DEF reg_read_sign_extended
    <3>2. size = 4
        BY <1>2, <2>2
    <3>3. QED
        BY <1>4, <1>8, <3>1, <3>2, WholeSigned, WholeOverlaid
  <2>3. QED
      BY <1>2, <2>1, <2>2
<1>12. QED
    BY <1>4, <1>5, <1>6, <1>7, <1>8, <1>9, <1>11 DEF Yields, size, v

(* The sources of a value. *)
LEMMA SourceYields ==
    ASSUME Built, NEW v \in WordRange, regs[A] = v, NEW p \in Sources(v)
    PROVE  LET size == Moved(p)
               x == IF p.mode = Register THEN regs[A] ELSE p.value
           IN  /\ Yields(p, size, x)
               /\ x % Capacity(size) = v % Capacity(size)
<1>1. /\ Capacity(1) = BYTE /\ Capacity(2) = SHORT /\ Capacity(4) = WORD
      /\ v \in Int /\ v % WORD = v
  <2>1. v \in Int
      BY Widths DEF WordRange
  <2>2. QED
      BY <2>1, WholeOverlaid DEF Capacity
<1>2. ASSUME NEW mode \in {1, 2, 3}, NEW size,
             size = IF mode = 3 THEN 4 ELSE mode,
             p = [mode |-> mode, value |-> v % Capacity(size)]
      PROVE  LET n == Moved(p)
                 x == IF p.mode = Register THEN regs[A] ELSE p.value
             IN  /\ Yields(p, n, x)
                 /\ x % Capacity(n) = v % Capacity(n)
  <2>1. Yields(p, size, p.value) /\ Moved(p) = size
      BY <1>2, ConstantYields
  <2>2. p.mode # Register /\ p.value = v % Capacity(size)
      BY <1>2 DEF Register
  <2>3. (v % Capacity(size)) % Capacity(size) = v % Capacity(size)
      BY <1>1, LowTwice
  <2>4. QED
      BY <2>1, <2>2, <2>3
<1>3. ASSUME NEW which \in {0, 16, 32}, p = Reg(which)
      PROVE  LET n == Moved(p)
                 x == IF p.mode = Register THEN regs[A] ELSE p.value
             IN  /\ Yields(p, n, x)
                 /\ x % Capacity(n) = v % Capacity(n)
  <2>1. Yields(p, register_size(which), regs[A])
        /\ Moved(p) = register_size(which)
      BY <1>3, RegisterYields
  <2>2. p.mode = Register
      BY <1>3 DEF Reg, Param
  <2>3. QED
      BY <2>1, <2>2
<1>4. /\ Byte(v % BYTE) = [mode |-> 1, value |-> v % Capacity(1)]
      /\ Short(v % SHORT) = [mode |-> 2, value |-> v % Capacity(2)]
      /\ Long(v) = [mode |-> 3, value |-> v % Capacity(4)]
    BY <1>1 DEF Byte, Short, Long, Param, Constant8, Constant16, Constant32
<1>5. A = 0 /\ LowByte(A) = 16 /\ LowHalf(A) = 32
    BY DEF A, LowByte, LowHalf
<1>6. CASE p \in {Byte(v % BYTE), Short(v % SHORT), Long(v)}
  <2>1. CASE p = Byte(v % BYTE)
    <3>1. 1 \in {1, 2, 3} /\ 1 = IF 1 = 3 THEN 4 ELSE 1
        OBVIOUS
    <3>2. QED
        BY <1>2, <1>4, <2>1, <3>1
  <2>2. CASE p = Short(v % SHORT)
    <3>1. 2 \in {1, 2, 3} /\ 2 = IF 2 = 3 THEN 4 ELSE 2
        OBVIOUS
    <3>2. QED
        BY <1>2, <1>4, <2>2, <3>1
  <2>3. CASE p = Long(v)
    <3>1. 3 \in {1, 2, 3} /\ 4 = IF 3 = 3 THEN 4 ELSE 3
        OBVIOUS
    <3>2. QED
        BY <1>2, <1>4, <2>3, <3>1
  <2>4. QED
      BY <1>6, <2>1, <2>2, <2>3
<1>7. CASE p \in {Reg(0), Reg(16), Reg(32)}
    BY <1>3, <1>7
<1>8. QED
    BY <1>5, <1>6, <1>7 DEF Sources

-----------------------------------------------------------------------------
(* Steps of these programs. *)

(* An instruction that leaves the memory m and, P apart, the registers rg. *)
Moves(rg, m, next) ==
    /\ mem' = m /\ halted' = FALSE /\ phase' = "running" /\ UNCHANGED stopped
    /\ regs'[P] = next
    /\ \A id \in 0 .. REGISTER_COUNT : id # P => regs'[id] = rg[id]

(* A handler that ends in registers with the old P makes such a step. *)
LEMMA FinishMoves ==
    ASSUME NEW prog, NEW k, Reached(prog, k), Instruction,
           NEW rg \in RegisterFile, NEW m, NEW err, Finish(rg, m, err),
           err = FALSE, rg[P] = regs[P], UNCHANGED stopped
    PROVE  Moves(rg, m, At(prog, k + 1))
<1>1. phase = "running" /\ Word(regs[P] + inst.len) = At(prog, k + 1)
    BY ReachedFacts
<1>2. Goes(rg, m, err)
    BY FinishGoes
<1>3. QED
    BY <1>1, <1>2 DEF Goes, Moves

(* The instruction as it is fetched. *)
Fetches(op, p, q) == /\ Built /\ regs \in RegisterFile /\ mem \in Memory
                     /\ op_function(mem[regs[P]]) = op /\ inst.op = op
                     /\ inst.p1 = p /\ inst.p2 = q

(* An instruction with one parameter is fetched as it is written. *)
LEMMA FetchesOne ==
    ASSUME NEW prog, NEW k, Reached(prog, k), Instruction,
           NEW op, NEW p, prog[k] = Op1(op, p), Plain(p)
    PROVE  Fetches(op, p, inst.p2)
<1>1. prog[k].op = op /\ prog[k].p1 = p
    BY DEF Op1
<1>2. Read(Resolve(prog, ROM_START, p)) = p
    BY PlainRead
<1>3. QED
    BY <1>1, <1>2, ReachedFacts DEF Fetches, Reached

(* An instruction with two parameters is fetched as it is written. *)
LEMMA FetchesTwo ==
    ASSUME NEW prog, NEW k, Reached(prog, k), Instruction,
           NEW op, NEW p, NEW q, prog[k] = Op2(op, p, q), Plain(p), Plain(q)
    PROVE  Fetches(op, p, q)
<1>1. prog[k].op = op /\ prog[k].p1 = p /\ prog[k].p2 = q
    BY DEF Op2
<1>2. /\ Read(Resolve(prog, ROM_START, p)) = p
      /\ Read(Resolve(prog, ROM_START, q)) = q
    BY PlainRead
<1>3. QED
    BY <1>1, <1>2, ReachedFacts DEF Fetches, Reached

(* Below its top the stack has room for a word, apart from the program. *)
RoomBelow == /\ regs[S] \in Nat /\ regs[S] >= 4 /\ regs[S] <= MEM_SIZE
             /\ \/ regs[S] <= ROM_START
                \/ ROM_START + ROM_SIZE <= regs[S] - 4

(* The size low bytes of x are on the stack; the program is intact. *)
Pushes(prog, next, x, size) ==
    /\ Moves(Pushed(regs, size), mem', next)
    /\ Pushed(regs, size)[S] = regs[S] - size
    /\ \A id \in 0 .. REGISTER_COUNT :
           id # S => Pushed(regs, size)[id] = regs[id]
    /\ mem' \in Memory /\ Lies(mem', prog)
    /\ mem_read(mem', regs[S] - size, size) = x % Capacity(size)

(* The handler of push puts its parameter below the stack. *)
LEMMA PushStep ==
    ASSUME NEW prog, NEW k, Reached(prog, k), Instruction,
           NEW p, prog[k] = Op1("push", p), Plain(p), ValueError(p) = FALSE,
           NEW size \in {1, 2, 4}, param_value_size(p) = size,
           value(p) \in WordRange, RoomBelow
    PROVE  Pushes(prog, At(prog, k + 1), value(p), size)
<1> DEFINE s == regs[S]
           at == s - size
           v == value(p)
           rg == Pushed(regs, size)
           m == mem_write(mem, at, v, size)
<1>1. Fetches("push", p, inst.p2)
    BY FetchesOne
<1>2. /\ Built /\ regs \in RegisterFile /\ mem \in Memory
      /\ op_function(mem[regs[P]]) = "push" /\ inst.p1 = p
    BY <1>1 DEF Fetches
<1>3. Push
    BY <1>2, HandlerOf
<1>4. /\ size \in 1 .. 4 /\ size \in 0 .. 4 /\ s >= size
      /\ at \in Nat /\ at + size <= MEM_SIZE
      /\ at + size <= ROM_START \/ ROM_START + ROM_SIZE <= at
  <2>1. /\ s \in Nat /\ s >= 4 /\ s <= MEM_SIZE
        /\ s <= ROM_START \/ ROM_START + ROM_SIZE <= s - 4
      BY DEF RoomBelow
  <2>2. ROM_START \in Nat /\ ROM_SIZE \in Nat /\ MEM_SIZE \in Nat
      BY CpuAssumption, MemAssumption
  <2> HIDE DEF s
  <2>3. QED
      BY <2>1, <2>2
<1>5. rg[S] = at /\ rg \in RegisterFile
    BY <1>2, <1>4, StackMove
<1>6. \A id \in 0 .. REGISTER_COUNT : id # S => rg[id] = regs[id]
    BY <1>2 DEF Pushed, RegisterFile
<1>7. v \in WordRange
    OBVIOUS
<1>8. Finish(rg, m, FALSE) /\ UNCHANGED stopped
  <2>1. Finish(rg, mem_write(mem, rg[S], v, size), ValueError(p))
        /\ UNCHANGED stopped
      BY <1>2, <1>3 DEF Push
  <2> HIDE DEF rg, v, at
  <2>2. QED
      BY <1>5, <2>1
<1> HIDE DEF v, at
<1>9. m \in Memory
    BY <1>2, <1>4, <1>7, MemWriteType
<1>10. mem_read(m, at, size) = v % Capacity(size)
    BY <1>2, <1>4, <1>7, ReadAfterWrite
<1>11. Lies(m, prog)
  <2>1. Lies(mem, prog) /\ Size(prog) \in Nat /\ Size(prog) <= ROM_SIZE
      BY Assembled DEF Reached
  <2>2. at + size <= ROM_START \/ ROM_START + Size(prog) <= at
      BY <1>4, <2>1, CpuAssumption
  <2>3. QED
      BY <1>2, <1>4, <2>1, <2>2, LiesKept
<1> HIDE DEF rg, m
<1>12. Moves(rg, m, At(prog, k + 1))
  <2>1. rg[P] = regs[P]
      BY <1>6 DEF P, S, REGISTER_COUNT
  <2>2. QED
      BY <1>5, <1>8, <2>1, FinishMoves
<1>13. QED
    BY <1>5, <1>6, <1>9, <1>10, <1>11, <1>12
       DEF Pushes, Moves, rg, m, at, v, s

(* The stack holds size bytes. *)
RoomAbove(size) == regs[S] + size <= MEM_SIZE

(* The size bytes on top of the stack are in the low bytes of B. *)
Pops(next, size) ==
    /\ mem' = mem /\ halted' = FALSE /\ phase' = "running"
    /\ UNCHANGED stopped
    /\ regs'[P] = next
    /\ regs'[S] = regs[S] + size
    /\ regs'[B] = Overlaid(regs[B], mem_read(mem, regs[S], size), size)
    /\ regs'[A] = regs[A]

(* The handler of pop takes as many bytes as its register has. *)
LEMMA PopStep ==
    ASSUME NEW prog, NEW k, Reached(prog, k), Instruction,
           NEW which \in {1, 17, 33}, prog[k] = Op1("pop", Reg(which)),
           NEW size, size = register_size(which), RoomAbove(size)
    PROVE  Pops(At(prog, k + 1), size)
<1> DEFINE p == Reg(which)
           popped == Popped(regs, size)
           v == mem_read(mem, regs[S], size)
           rg == reg_write(popped, which, v)
<1>1. Plain(p) /\ p.mode = Register /\ p.value = which
  <2>1. which \in 0 .. 127
      OBVIOUS
  <2>2. QED
      BY <2>1, PlainReg DEF Reg, Param
<1>2. Fetches("pop", p, inst.p2)
    BY <1>1, FetchesOne
<1>3. /\ Built /\ regs \in RegisterFile /\ mem \in Memory
      /\ op_function(mem[regs[P]]) = "pop" /\ inst.p1 = p
    BY <1>2 DEF Fetches
<1>4. size \in {1, 2, 4} /\ regs[S] \in Nat
    BY <1>3, RegisterSize, Widths DEF RegisterFile, WordRange, S,
       REGISTER_COUNT
<1>5. popped[S] = regs[S] + size /\ popped \in RegisterFile
  <2>1. size \in 1 .. 4 /\ regs[S] + size <= MEM_SIZE
      BY <1>4, MemAssumption DEF RoomAbove
  <2>2. QED
      BY <1>3, <2>1, StackMove
<1>6. \A id \in 0 .. REGISTER_COUNT : id # S => popped[id] = regs[id]
    BY <1>3 DEF Popped, RegisterFile
<1>7. v \in Int
  <2>1. v \in WordRange
      BY <1>3, <1>4, MemReadType
  <2>2. QED
      BY <2>1, Widths DEF WordRange
<1> HIDE DEF popped, v
<1>8. /\ rg \in RegisterFile
      /\ rg[B] = Overlaid(popped[B], v, size)
      /\ \A other \in 0 .. REGISTER_COUNT :
             other # B => rg[other] = popped[other]
      /\ RegError(which) = FALSE
  <2> DEFINE after == reg_write(popped, which, v)
  <2>1. /\ after \in RegisterFile
        /\ after[B] = Overlaid(popped[B], v, register_size(which))
        /\ \A other \in 0 .. REGISTER_COUNT :
               other # B => after[other] = popped[other]
        /\ RegError(which) = FALSE
      BY <1>5, <1>7, WriteOverlays
  <2> HIDE DEF after
  <2>2. QED
      BY <2>1 DEF after
<1>9. Finish(rg, mem, RegError(which)) /\ UNCHANGED stopped
  <2>1. Pop
      BY <1>3, HandlerOf
  <2>2. top(size) = v
      BY DEF top, v
  <2>3. /\ p.mode = Register /\ param_is_address(p.mode) = FALSE
        /\ p.value = which
      BY <1>1 DEF Register, param_is_address, AbsoluteAddress,
         RelativeAddress, RegisterAddress
  <2> HIDE DEF p
  <2>4. Finish(reg_write(Popped(regs, size), which, top(size)), mem,
               RegError(which)) /\ UNCHANGED stopped
      BY <1>3, <2>1, <2>3 DEF Pop
  <2>5. QED
      BY <2>2, <2>4 DEF popped
<1> HIDE DEF rg
<1>10. /\ A \in 0 .. REGISTER_COUNT /\ A \notin {B, S, P}
       /\ S \in 0 .. REGISTER_COUNT /\ S \notin {B, P}
       /\ B \in 0 .. REGISTER_COUNT /\ B \notin {S, P}
       /\ P \in 0 .. REGISTER_COUNT /\ P \notin {S, B}
    BY DEF A, B, S, P, REGISTER_COUNT
<1>11. rg[P] = regs[P] /\ rg[S] = regs[S] + size /\ rg[A] = regs[A]
       /\ popped[B] = regs[B]
    BY <1>5, <1>6, <1>8, <1>10
<1>12. Moves(rg, mem, At(prog, k + 1))
    BY <1>8, <1>9, <1>11, FinishMoves
<1>13. QED
    BY <1>8, <1>10, <1>11, <1>12 DEF Moves, Pops, v

(* pop into the cell. *)
LEMMA PopCellStep ==
    ASSUME NEW prog, NEW k, Reached(prog, k), Instruction, DataHolds,
           prog[k] = Op1("pop", Absolute(Cell)), regs[S] + 4 <= MEM_SIZE
    PROVE  /\ mem' = mem_write(mem, Cell, mem_read(mem, regs[S], 4), 4)
           /\ mem' \in Memory /\ Lies(mem', prog)
           /\ halted' = FALSE /\ phase' = "running" /\ UNCHANGED stopped
           /\ regs'[P] = At(prog, k + 1)
           /\ regs'[S] = regs[S] + 4
           /\ regs'[A] = regs[A]
<1> DEFINE p == Absolute(Cell)
           popped == Popped(regs, 4)
           v == mem_read(mem, regs[S], 4)
           m == mem_write(mem, Cell, v, 4)
<1>1. p = [mode |-> 4, value |-> Cell] /\ p.mode = 4 /\ p.value = Cell
    BY DEF Absolute, Param, AbsoluteAddress
<1>2. /\ Cell \in Nat /\ Cell < ADDRESS /\ Cell + 4 <= MEM_SIZE
      /\ Cell + 4 <= ROM_START \/ ROM_START + ROM_SIZE <= Cell
    BY DEF DataHolds
<1>3. Plain(p)
    BY <1>1, <1>2, PlainAddress
<1>4. Fetches("pop", p, inst.p2)
    BY <1>3, FetchesOne
<1>5. /\ Built /\ regs \in RegisterFile /\ mem \in Memory
      /\ op_function(mem[regs[P]]) = "pop" /\ inst.p1 = p
    BY <1>4 DEF Fetches
<1>6. popped[S] = regs[S] + 4 /\ popped \in RegisterFile
  <2>1. 4 \in 1 .. 4
      OBVIOUS
  <2>2. QED
      BY <1>5, <2>1, StackMove
<1>7. \A id \in 0 .. REGISTER_COUNT : id # S => popped[id] = regs[id]
    BY <1>5 DEF Popped, RegisterFile
<1>8. regs[S] \in Nat /\ v \in WordRange
  <2>1. regs[S] \in Nat
      BY <1>5, Widths DEF RegisterFile, WordRange, S, REGISTER_COUNT
  <2>2. QED
      BY <1>5, <2>1, MemReadType
<1>9. Finish(popped, m, FALSE) /\ UNCHANGED stopped
  <2>1. Pop
      BY <1>5, HandlerOf
  <2>2. top(4) = v
      BY DEF top
  <2>3. /\ p.mode # Register /\ param_is_address(p.mode)
        /\ p.value = Cell
      BY <1>1 DEF Register, param_is_address, AbsoluteAddress
  <2> HIDE DEF v, p
  <2>4. QED
      BY <1>5, <2>1, <2>2, <2>3 DEF Pop
<1> HIDE DEF popped, v
<1>10. m \in Memory
    BY <1>2, <1>5, <1>8, MemWriteType
<1>11. Lies(m, prog)
  <2>1. Lies(mem, prog) /\ Size(prog) \in Nat /\ Size(prog) <= ROM_SIZE
      BY Assembled DEF Reached
  <2>2. Cell + 4 <= ROM_START \/ ROM_START + Size(prog) <= Cell
      BY <1>2, <2>1, CpuAssumption
  <2>3. 4 \in 0 .. 4
      OBVIOUS
  <2>4. QED
      BY <1>2, <1>5, <2>1, <2>2, <2>3, LiesKept
<1>12. /\ A \in 0 .. REGISTER_COUNT /\ A \notin {S, P}
       /\ S \in 0 .. REGISTER_COUNT /\ S # P
       /\ P \in 0 .. REGISTER_COUNT
    BY DEF A, S, P, REGISTER_COUNT
<1> HIDE DEF m
<1>13. Moves(popped, m, At(prog, k + 1))
  <2>1. popped[P] = regs[P]
      BY <1>7, <1>12
  <2>2. QED
      BY <1>6, <1>9, <2>1, FinishMoves
<1>14. mem' = m /\ mem' \in Memory /\ Lies(mem', prog)
    BY <1>10, <1>11, <1>13 DEF Moves
<1>15. QED
    BY <1>6, <1>7, <1>12, <1>13, <1>14 DEF Moves, m, v

-----------------------------------------------------------------------------
(* A store of the size low bytes of y to the cell, and nothing else. *)
Alters(prog, next, y, size) ==
    /\ mem_read(mem', Cell, 4) = Overlaid(mem_read(mem, Cell, 4), y, size)
    /\ Lies(mem', prog)
    /\ halted' = FALSE /\ phase' = "running" /\ UNCHANGED stopped
    /\ regs'[P] = next
    /\ \A id \in 0 .. REGISTER_COUNT : id # P => regs'[id] = regs[id]

(* A handler that ends in a store to the cell makes such a step. *)
LEMMA FinishAlters ==
    ASSUME NEW prog, NEW k, Reached(prog, k), Instruction, DataHolds,
           NEW a, CellPlace(a), NEW y \in WordRange, NEW size \in {1, 2, 4},
           NEW err, err = FALSE,
           Finish(regs, mem_write(mem, a, y, size), err), UNCHANGED stopped
    PROVE  Alters(prog, At(prog, k + 1), y, size)
<1> DEFINE m == mem_write(mem, Cell, y, size)
<1>1. regs \in RegisterFile /\ mem \in Memory
    BY ReachedFacts
<1>2. /\ Cell \in Nat /\ Cell + size <= MEM_SIZE /\ Cell + 4 <= MEM_SIZE
      /\ size \in 0 .. 4
      /\ Cell + size <= ROM_START \/ ROM_START + ROM_SIZE <= Cell
    BY MemAssumption, CpuAssumption DEF DataHolds
<1>3. mem_write(mem, a, y, size) = m
    BY <1>2, CellAccess
<1>4. mem_read(m, Cell, 4) = Overlaid(mem_read(mem, Cell, 4), y, size)
    BY <1>1, <1>2, StoreOverlays
<1>5. Lies(m, prog)
  <2>1. Lies(mem, prog) /\ Size(prog) \in Nat /\ Size(prog) <= ROM_SIZE
      BY Assembled DEF Reached
  <2>2. Cell + size <= ROM_START \/ ROM_START + Size(prog) <= Cell
      BY <1>2, <2>1, CpuAssumption
  <2>3. QED
      BY <1>1, <1>2, <2>1, <2>2, LiesKept
<1>6. Finish(regs, m, err)
    BY <1>3
<1> HIDE DEF m
<1>7. Moves(regs, m, At(prog, k + 1))
    BY <1>1, <1>6, FinishMoves
<1>8. QED
    BY <1>4, <1>5, <1>7 DEF Moves, Alters

(* What a load puts in its destination. *)
LoadedWord(op, size, x) == IF op \in {"lds", "lws"} THEN SignExtend(x, size)
                      ELSE x % Capacity(size)

(* The number of bytes of it. *)
LoadedBytes(op, size) == IF op \in {"ld", "lds"} THEN size ELSE 4

(* ld, lds, lw and lws of a source to the cell. *)
LEMMA LoadStep ==
    ASSUME NEW prog, NEW k, Reached(prog, k), Instruction, DataHolds,
           NEW op \in {"ld", "lds", "lw", "lws"}, NEW p, NEW q,
           prog[k] = Op2(op, p, q),
           NEW offset \in WordRange, p \in CellModes(offset),
           regs[O] = offset, regs[B] = Cell,
           NEW size, NEW x, Yields(q, size, x)
    PROVE  Alters(prog, At(prog, k + 1),
                  LoadedWord(op, size, x), LoadedBytes(op, size))
<1> DEFINE a == get_param_address(regs, p)
           y == LoadedWord(op, size, x)
           n == LoadedBytes(op, size)
<1>1. regs \in RegisterFile
    BY ReachedFacts
<1>2. /\ CellPlace(a) /\ Plain(p) /\ ValueError(p) = FALSE
      /\ p.mode # Register /\ param_is_writable(p.mode)
    BY <1>1, CellNamed
<1>3. /\ Plain(q) /\ ValueError(q) = FALSE /\ size \in {1, 2, 4}
      /\ param_value_size(q) = size /\ param_is_address(q.mode) = FALSE
      /\ x \in WordRange /\ value(q) = x % Capacity(size)
      /\ signed_value(q) = SignExtend(x, size)
    BY DEF Yields
<1>4. Fetches(op, p, q)
    BY <1>2, <1>3, FetchesTwo
<1>5. /\ op_function(mem[regs[P]]) = op /\ inst.op = op
      /\ inst.p1 = p /\ inst.p2 = q
    BY <1>4 DEF Fetches
<1>6. y \in WordRange /\ n \in {1, 2, 4}
  <2>1. x \in Int
      BY <1>3, Widths DEF WordRange
  <2>2. x % Capacity(size) \in WordRange /\ SignExtend(x, size) \in WordRange
      BY <2>1, LowTwice, LowSigned
  <2>3. QED
      BY <1>3, <2>2 DEF LoadedWord, LoadedBytes
<1>7. ASSUME NEW v
      PROVE  RegistersAfter(p, v) = regs /\ \A s : MemoryAfter(p, v, s)
                                                  = mem_write(mem, a, v, s)
    BY <1>2 DEF RegistersAfter, MemoryAfter
<1> HIDE DEF a
<1>8. Finish(regs, mem_write(mem, a, y, n), FALSE) /\ UNCHANGED stopped
  <2>1. CASE op \in {"ld", "lds"}
    <3> DEFINE v == IF op = "lds" THEN signed_value(q) ELSE value(q)
    <3>1. v = y /\ n = size
        BY <1>3, <2>1 DEF LoadedWord, LoadedBytes
    <3>2. Ld
        BY <1>5, <2>1, HandlerOf
    <3>3. /\ Finish(RegistersAfter(p, v), MemoryAfter(p, v, size),
                    ValueError(p) \/ ValueError(q))
          /\ UNCHANGED stopped
        BY <1>2, <1>3, <1>5, <3>2 DEF Ld
    <3>4. (ValueError(p) \/ ValueError(q)) = FALSE
        BY <1>2, <1>3
    <3> HIDE DEF v, y, n
    <3>5. QED
        BY <1>7, <3>1, <3>3, <3>4
  <2>2. CASE op \in {"lw", "lws"}
    <3> DEFINE v == IF op = "lws" THEN signed_value(q) ELSE value(q)
    <3>1. v = y /\ n = 4
        BY <1>3, <2>2 DEF LoadedWord, LoadedBytes
    <3>2. Lw
        BY <1>5, <2>2, HandlerOf
    <3>3. /\ Finish(RegistersAfter(p, v), MemoryAfter(p, v, 4),
                    ValueError(p) \/ ValueError(q))
          /\ UNCHANGED stopped
        BY <1>2, <1>5, <3>2 DEF Lw
    <3>4. (ValueError(p) \/ ValueError(q)) = FALSE
        BY <1>2, <1>3
    <3> HIDE DEF v, y, n
    <3>5. QED
        BY <1>7, <3>1, <3>3, <3>4
  <2>3. QED
      BY <2>1, <2>2
<1> HIDE DEF y, n
<1>9. Alters(prog, At(prog, k + 1), y, n)
    BY <1>2, <1>6, <1>8, FinishAlters
<1>10. QED
    BY <1>9 DEF y, n

(* sta to the cell. *)
LEMMA StaStep ==
    ASSUME NEW prog, NEW k, Reached(prog, k), Instruction, DataHolds,
           NEW p, prog[k] = Op1("sta", p),
           NEW offset \in WordRange, p \in CellModes(offset),
           regs[O] = offset, regs[B] = Cell
    PROVE  Alters(prog, At(prog, k + 1), regs[A], 4)
<1> DEFINE a == get_param_address(regs, p)
<1>1. regs \in RegisterFile
    BY ReachedFacts
<1>2. /\ CellPlace(a) /\ Plain(p) /\ AddressError(p) = FALSE
      /\ param_is_writable(p.mode)
    BY <1>1, CellNamed
<1>3. Fetches("sta", p, inst.p2)
    BY <1>2, FetchesOne
<1>4. /\ op_function(mem[regs[P]]) = "sta" /\ inst.op = "sta"
      /\ inst.p1 = p
    BY <1>3 DEF Fetches
<1>5. Stx
    BY <1>4, HandlerOf
<1>6. reg_read(regs, A) = regs[A] /\ regs[A] \in WordRange
  <2>1. A \in 0 .. REGISTER_COUNT
      BY DEF A, REGISTER_COUNT
  <2>2. QED
      BY <1>1, <2>1, WholeRead
<1>7. /\ Finish(regs, mem_write(mem, a, reg_read(regs, A), 4),
                AddressError(p))
      /\ UNCHANGED stopped
    BY <1>2, <1>4, <1>5 DEF Stx
<1> HIDE DEF a
<1>8. Finish(regs, mem_write(mem, a, regs[A], 4), FALSE)
    BY <1>2, <1>6, <1>7
<1>9. QED
    BY <1>2, <1>6, <1>7, <1>8, FinishAlters

(* ldc from the cell. *)
LEMMA LdcStep ==
    ASSUME NEW prog, NEW k, Reached(prog, k), Instruction, DataHolds,
           NEW p, prog[k] = Op1("ldc", p),
           NEW offset \in WordRange, p \in CellModes(offset),
           regs[O] = offset, regs[B] = Cell
    PROVE  /\ Sets(C, mem_read(mem, Cell, 4), At(prog, k + 1), FALSE)
           /\ UNCHANGED stopped
<1> DEFINE v == mem_read(mem, Cell, 4)
           rg == reg_write(regs, C, v)
<1>1. regs \in RegisterFile /\ mem \in Memory
    BY ReachedFacts
<1>2. /\ CellPlace(get_param_address(regs, p)) /\ Plain(p)
      /\ ValueError(p) = FALSE
      /\ value(p) = mem_read(mem, get_param_address(regs, p), 4)
    BY <1>1, CellNamed DEF value
<1>3. value(p) = v /\ v \in WordRange
  <2>1. 4 \in 0 .. 4 /\ Cell \in Nat
      BY DEF DataHolds
  <2>2. QED
      BY <1>1, <1>2, <2>1, CellAccess, MemReadType
<1>4. Fetches("ldc", p, inst.p2)
    BY <1>2, FetchesOne
<1>5. /\ op_function(mem[regs[P]]) = "ldc" /\ inst.op = "ldc"
      /\ inst.p1 = p
    BY <1>4 DEF Fetches
<1>6. Ldx
    BY <1>5, HandlerOf
<1>7. Finish(rg, mem, FALSE) /\ UNCHANGED stopped
  <2> HIDE DEF v
  <2>1. Finish(reg_write(regs, C, value(p)), mem, ValueError(p))
        /\ UNCHANGED stopped
      BY <1>5, <1>6 DEF Ldx
  <2>2. QED
      BY <1>2, <1>3, <2>1
<1>8. /\ C \in 0 .. REGISTER_COUNT /\ C # P
      /\ P \in 0 .. REGISTER_COUNT
    BY DEF C, P, REGISTER_COUNT
<1> HIDE DEF v
<1>9. /\ rg \in RegisterFile /\ rg[C] = v
      /\ \A other \in 0 .. REGISTER_COUNT :
             other # C => rg[other] = regs[other]
    BY <1>1, <1>3, <1>8, WholeWritten
<1> HIDE DEF rg
<1>10. Moves(rg, mem, At(prog, k + 1))
  <2>1. rg[P] = regs[P]
      BY <1>8, <1>9
  <2>2. QED
      BY <1>7, <1>9, <2>1, FinishMoves
<1>11. phase = "running"
    BY ReachedFacts
<1>12. Sets(C, v, At(prog, k + 1), FALSE)
    BY <1>8, <1>9, <1>10, <1>11 DEF Moves, Sets
<1>13. QED
    BY <1>7, <1>12 DEF v

(* What StoresAlias expects to be read. *)
Landed(op, q, v) ==
    LET size == IF op = "sta" THEN 4 ELSE Moved(q)
        from == IF op = "sta" \/ q.mode = Register THEN v ELSE q.value
        word == IF op = "lws" THEN SignExtend(from, size)
                ELSE from % Capacity(size)
        kept == IF op \in {"ld", "lds"}
                THEN Fill - (Fill % Capacity(size)) ELSE 0
    IN  kept + word

(* What the handlers of the loads leave over the filled cell is that. *)
LEMMA LoadLands ==
    ASSUME NEW op \in {"ld", "lds", "lw", "lws"}, NEW q, NEW v,
           NEW size, size = Moved(q), size \in {1, 2, 4},
           NEW x \in WordRange, x = IF q.mode = Register THEN v ELSE q.value
    PROVE  Overlaid(Fill, LoadedWord(op, size, x), LoadedBytes(op, size))
               = Landed(op, q, v)
<1>1. x \in Int /\ Fill \in WordRange /\ Fill \in Int
  <2>1. WORD \in Nat /\ WORD >= 4
    <3>1. BYTE \in Nat /\ BYTE >= 128
        BY CpuAssumption, ByteAssumption
    <3>2. WORD \in Nat /\ BYTE <= WORD
        BY Widths
    <3>3. QED
        BY <3>1, <3>2
  <2>2. QED
      BY <2>1 DEF Fill, WordRange
<1>2. /\ (x % Capacity(size)) % Capacity(size) = x % Capacity(size)
      /\ x % Capacity(size) \in WordRange
      /\ SignExtend(x, size) % Capacity(size) = x % Capacity(size)
      /\ SignExtend(x, size) \in WordRange
    BY <1>1, LowTwice, LowSigned
<1>3. op # "sta"
    OBVIOUS
<1> DEFINE low == x % Capacity(size)
           long == SignExtend(x, size)
<1>4. low \in Int /\ long \in Int
    BY <1>2, Widths DEF WordRange
<1>5. CASE op \in {"ld", "lds"}
  <2>1. Landed(op, q, v) = (Fill - (Fill % Capacity(size))) + low
      BY <1>3, <1>5 DEF Landed
  <2>2. LoadedWord(op, size, x) % Capacity(size) = low
      BY <1>2, <1>5 DEF LoadedWord
  <2>3. LoadedBytes(op, size) = size
      BY <1>5 DEF LoadedBytes
  <2> HIDE DEF low
  <2>4. QED
      BY <2>1, <2>2, <2>3 DEF Overlaid
<1>6. CASE op = "lw"
  <2>1. Landed(op, q, v) = 0 + low
      BY <1>3, <1>6 DEF Landed
  <2>2. LoadedWord(op, size, x) = low /\ LoadedBytes(op, size) = 4
      BY <1>6 DEF LoadedWord, LoadedBytes
  <2>3. Overlaid(Fill, low, 4) = low
      BY <1>1, <1>2, WholeOverlaid
  <2> HIDE DEF low
  <2>4. QED
      BY <1>4, <2>1, <2>2, <2>3
<1>7. CASE op = "lws"
  <2>1. Landed(op, q, v) = 0 + long
      BY <1>3, <1>7 DEF Landed
  <2>2. LoadedWord(op, size, x) = long /\ LoadedBytes(op, size) = 4
      BY <1>7 DEF LoadedWord, LoadedBytes
  <2>3. Overlaid(Fill, long, 4) = long
      BY <1>1, <1>2, WholeOverlaid
  <2> HIDE DEF long
  <2>4. QED
      BY <1>4, <2>1, <2>2, <2>3
<1>8. QED
    BY <1>5, <1>6, <1>7

-----------------------------------------------------------------------------
(* A value through memory. *)

(* The sources of a value are encoded as they are. *)
LEMMA SourcePlain ==
    ASSUME NEW v \in WordRange, NEW p \in Sources(v)
    PROVE  Plain(p)
<1>1. Capacity(1) = BYTE /\ Capacity(2) = SHORT
    BY DEF Capacity
<1>2. v \in Int
    BY Widths DEF WordRange
<1>3. CASE p = Byte(v % BYTE)
  <2>1. v % BYTE \in 0 .. BYTE - 1
      BY <1>2, Widths, ModRange
  <2>2. QED
      BY <1>3, <2>1, PlainByte DEF ByteRange
<1>4. CASE p = Short(v % SHORT)
  <2>1. p = [mode |-> 2, value |-> v % Capacity(2)]
      BY <1>1, <1>4 DEF Short, Param, Constant16
  <2>2. 2 \in {1, 2, 3} /\ 2 = IF 2 = 3 THEN 4 ELSE 2
      OBVIOUS
  <2>3. Yields(p, 2, p.value)
      BY <2>1, <2>2, ConstantYields
  <2>4. QED
      BY <2>3 DEF Yields
<1>5. CASE p = Long(v)
    BY <1>5, PlainLong
<1>6. CASE p \in {Reg(0), Reg(16), Reg(32)}
  <2>1. 0 \in 0 .. 127 /\ 16 \in 0 .. 127 /\ 32 \in 0 .. 127
      OBVIOUS
  <2>2. QED
      BY <1>6, <2>1, PlainReg
<1>7. A = 0 /\ LowByte(A) = 16 /\ LowHalf(A) = 32
    BY DEF A, LowByte, LowHalf
<1>8. QED
    BY <1>3, <1>4, <1>5, <1>6, <1>7 DEF Sources

(* So are the parameters that name the cell. *)
LEMMA CellPlain ==
    ASSUME DataHolds, NEW offset \in WordRange, NEW p \in CellModes(offset)
    PROVE  Plain(p)
<1> DEFINE rg == [id \in 0 .. REGISTER_COUNT |->
                    IF id = O THEN offset ELSE Cell]
<1>1. Cell \in WordRange
    BY Widths DEF DataHolds, WordRange
<1>2. rg \in RegisterFile
    BY <1>1 DEF RegisterFile
<1>3. rg[O] = offset /\ rg[B] = Cell
    BY DEF O, B, REGISTER_COUNT
<1> HIDE DEF rg
<1>4. QED
    BY <1>2, <1>3, CellNamed

(* Instructions with plain parameters are regular. *)
LEMMA PlainRegular ==
    ASSUME NEW prog
    PROVE  /\ \A op \in TwoParameters : \A p, q :
                 Plain(p) /\ Plain(q) => Regular(prog, Op2(op, p, q))
           /\ \A op \in OneParameter : \A p :
                 Plain(p) => Regular(prog, Op1(op, p))
           /\ \A op \in NoParameter : Regular(prog, Op0(op))
<1>1. \A p : Plain(p) => Given(prog, p)
    BY DEF Given
<1>2. \A op \in TwoParameters : \A p, q :
          Given(prog, p) /\ Given(prog, q) => Regular(prog, Op2(op, p, q))
    BY DEF Regular
<1>3. \A op \in OneParameter : \A p :
          Given(prog, p) => Regular(prog, Op1(op, p))
    BY DEF Regular
<1>4. \A op \in NoParameter : Regular(prog, Op0(op))
    BY DEF Regular
<1>5. QED
    BY <1>1, <1>2, <1>3, <1>4

(* What the instructions of the programs are. *)
Stores(x, v, offset) ==
    \E to \in CellModes(offset) :
        \/ x = Op1("sta", to)
        \/ \E op \in {"ld", "lds", "lw", "lws"}, from \in Sources(v) :
               x = Op2(op, to, from)

(* A transfer of v, where O holds offset. *)
TransferForm(prog, v, offset) ==
    /\ Encodable(prog) /\ Size(prog) <= ROM_SIZE /\ Len(prog) = 7
    /\ v \in WordRange /\ offset \in WordRange
    /\ prog[1] = Op2("lw", Reg(A), Long(v))
    /\ prog[2] = Op2("lw", Reg(O), Long(offset))
    /\ prog[3] = Op2("lw", Reg(B), Long(Cell))
    /\ prog[4] = Op2("lw", Absolute(Cell), Long(Fill))
    /\ Stores(prog[5], v, offset)
    /\ \E from \in CellModes(offset) : prog[6] = Op1("ldc", from)
    /\ prog[7] = Op0("hlt")

(* What the cell is filled with is a word. *)
LEMMA FillType == Fill \in WordRange
<1>1. BYTE \in Nat /\ BYTE >= 128
    BY CpuAssumption, ByteAssumption
<1>2. WORD \in Nat /\ BYTE <= WORD
    BY Widths
<1>3. QED
    BY <1>1, <1>2 DEF Fill, WordRange

(* The transfers of Data have this form. *)
LEMMA TransferShape ==
    ASSUME DataHolds, NEW prog \in Transfers
    PROVE  \E v \in WordRange, offset \in WordRange :
               TransferForm(prog, v, offset)
<1>1. PICK v \in Values, offset \in Offsets :
          \E from \in CellModes(offset) :
              \E store : /\ Stores(store, v, offset)
                         /\ prog = TransferProgram(v, offset, store, from)
    BY DEF Transfers, CellModes, Stores
<1>2. PICK from \in CellModes(offset) :
           \E store : /\ Stores(store, v, offset)
                      /\ prog = TransferProgram(v, offset, store, from)
    BY <1>1
<1>3. PICK store : /\ Stores(store, v, offset)
                   /\ prog = TransferProgram(v, offset, store, from)
    BY <1>2
<1>4. /\ v \in WordRange /\ offset \in WordRange
      /\ Size(prog) <= ROM_SIZE
      /\ Cell \in Nat /\ Cell < ADDRESS
    BY DEF DataHolds
<1>5. Cell \in WordRange /\ Fill \in WordRange
    BY <1>4, FillType, Widths DEF WordRange
<1>6. /\ Len(prog) = 7 /\ DOMAIN prog = 1 .. 7
      /\ prog[1] = Op2("lw", Reg(A), Long(v))
      /\ prog[2] = Op2("lw", Reg(O), Long(offset))
      /\ prog[3] = Op2("lw", Reg(B), Long(Cell))
      /\ prog[4] = Op2("lw", Absolute(Cell), Long(Fill))
      /\ prog[5] = store
      /\ prog[6] = Op1("ldc", from)
      /\ prog[7] = Op0("hlt")
    BY <1>3 DEF TransferProgram
<1>7. /\ Plain(Reg(A)) /\ Plain(Reg(O)) /\ Plain(Reg(B))
      /\ Plain(Long(v)) /\ Plain(Long(offset)) /\ Plain(Long(Cell))
      /\ Plain(Long(Fill)) /\ Plain(Absolute(Cell)) /\ Plain(from)
  <2>1. A \in 0 .. 127 /\ O \in 0 .. 127 /\ B \in 0 .. 127
      BY DEF A, O, B
  <2>2. Absolute(Cell) \in CellModes(offset)
      BY DEF CellModes
  <2>3. QED
      BY <1>4, <1>5, <2>1, <2>2, PlainReg, PlainLong, CellPlain
<1>8. /\ {"lw", "ld", "lds", "lws"} \subseteq TwoParameters
      /\ {"ldc", "sta"} \subseteq OneParameter
      /\ "hlt" \in NoParameter
    BY DEF TwoParameters, OneParameter, NoParameter
<1>9. Regular(prog, prog[5])
  <2>1. PICK to \in CellModes(offset) :
            \/ store = Op1("sta", to)
            \/ \E op \in {"ld", "lds", "lw", "lws"}, p \in Sources(v) :
                   store = Op2(op, to, p)
      BY <1>3 DEF Stores
  <2>2. Plain(to)
      BY <1>4, CellPlain
  <2>3. CASE store = Op1("sta", to)
      BY <1>6, <1>8, <2>2, <2>3, PlainRegular
  <2>4. CASE \E op \in {"ld", "lds", "lw", "lws"}, p \in Sources(v) :
                 store = Op2(op, to, p)
    <3>1. PICK op \in {"ld", "lds", "lw", "lws"}, p \in Sources(v) :
              store = Op2(op, to, p)
        BY <2>4
    <3>2. Plain(p) /\ op \in TwoParameters
        BY <1>4, <1>8, SourcePlain
    <3>3. QED
        BY <1>6, <2>2, <3>1, <3>2, PlainRegular
  <2>5. QED
      BY <2>1, <2>3, <2>4
<1>10. /\ Regular(prog, prog[1]) /\ Regular(prog, prog[2])
      /\ Regular(prog, prog[3]) /\ Regular(prog, prog[4])
      /\ Regular(prog, prog[6]) /\ Regular(prog, prog[7])
    BY <1>6, <1>7, <1>8, PlainRegular
<1>11. Written(prog)
    BY <1>6, <1>9, <1>10 DEF Written
<1>12. Encodable(prog)
    BY <1>4, <1>11, WrittenEncodable
<1>13. Stores(prog[5], v, offset)
    BY <1>3, <1>6
<1>14. TransferForm(prog, v, offset)
    BY <1>4, <1>6, <1>12, <1>13 DEF TransferForm
<1>15. QED
    BY <1>4, <1>14

(* What the registers and the cell hold at the k-th instruction. *)
LandedBy(prog, v) == Landed(prog[5].op, prog[5].p2, v)

TransferAt(prog, v, offset, k) ==
    /\ k >= 2 => regs[A] = v
    /\ k \in 3 .. 6 => regs[O] = offset
    /\ k \in 4 .. 6 => regs[B] = Cell
    /\ k = 5 => mem_read(mem, Cell, 4) = Fill
    /\ k = 6 => mem_read(mem, Cell, 4) = LandedBy(prog, v)
    /\ k >= 7 => regs[C] = LandedBy(prog, v)

(* The run has come to one of the instructions. *)
TransferOn(prog, v, offset) ==
    /\ ~halted /\ ~stopped /\ phase # "returned"
    /\ \E k \in 1 .. 7 :
           regs[P] = At(prog, k) /\ TransferAt(prog, v, offset, k)

(* The run has come to its end. *)
TransferOver(prog, v, offset) ==
    halted /\ phase # "host" /\ TransferAt(prog, v, offset, 8)

(* The inductive invariant: the program lies in memory as it was loaded,   *)
(* and the run is at one of its instructions or over. *)
TransferInv(prog, v, offset) ==
    /\ Built /\ TransferForm(prog, v, offset) /\ Lies(mem, prog)
    /\ TransferOn(prog, v, offset) \/ TransferOver(prog, v, offset)

(* An instruction that goes on to the next one. *)
TransferGoes(prog, v, offset, k) ==
    /\ Lies(mem', prog)
    /\ ~halted' /\ phase' = "running" /\ UNCHANGED stopped
    /\ regs'[P] = At(prog, k) /\ TransferAt(prog, v, offset, k)'

(* The lemmas about steps of programs apply. *)
LEMMA TransferReached ==
    ASSUME DataHolds, NEW prog, NEW v, NEW offset, Built,
           TransferForm(prog, v, offset), Lies(mem, prog),
           NEW k \in 1 .. 7, regs[P] = At(prog, k)
    PROVE  Reached(prog, k)
BY DEF Reached, TransferForm, DataHolds

(* The registers that the programs use are different ones. *)
LEMMA RegisterNames ==
    /\ A \in 0 .. REGISTER_COUNT /\ B \in 0 .. REGISTER_COUNT
    /\ C \in 0 .. REGISTER_COUNT /\ O \in 0 .. REGISTER_COUNT
    /\ S \in 0 .. REGISTER_COUNT /\ P \in 0 .. REGISTER_COUNT
    /\ A # P /\ B # P /\ C # P /\ O # P /\ S # P
    /\ A # B /\ A # C /\ A # O /\ B # C /\ B # O /\ C # O
    /\ A # S /\ B # S /\ C # S
    /\ A \in 0 .. REGISTER_COUNT - 1 /\ B \in 0 .. REGISTER_COUNT - 1
    /\ C \in 0 .. REGISTER_COUNT - 1 /\ O \in 0 .. REGISTER_COUNT - 1
BY DEF A, B, C, O, S, P, REGISTER_COUNT

(* The three registers are loaded. *)
LEMMA TransferLoads ==
    ASSUME DataHolds, NEW prog, NEW v, NEW offset, Built,
           TransferForm(prog, v, offset), Lies(mem, prog),
           NEW k \in {1, 2, 3}, regs[P] = At(prog, k),
           TransferAt(prog, v, offset, k), Instruction
    PROVE  TransferGoes(prog, v, offset, k + 1)
<1>1. Reached(prog, k)
    BY TransferReached
<1> DEFINE id == CASE k = 1 -> A [] k = 2 -> O [] k = 3 -> B
           x == CASE k = 1 -> v [] k = 2 -> offset [] k = 3 -> Cell
<1>2. prog[k] = Op2("lw", Reg(id), Long(x))
    BY DEF TransferForm
<1>3. x \in WordRange
  <2>1. Cell \in WordRange
      BY Widths DEF DataHolds, WordRange
  <2>2. QED
      BY <2>1 DEF TransferForm
<1>4. id \in {A, B, O} /\ id \in 0 .. REGISTER_COUNT - 1 /\ id # P
    BY RegisterNames
<1>5. Resolve(prog, ROM_START, Long(x)) = Long(x)
    BY <1>3, PlainLong, PlainRead
<1>6. Sets(id, x, At(prog, k + 1), FALSE) /\ UNCHANGED stopped
  <2> DEFINE p == Long(x)
  <2> HIDE DEF p, id
  <2>1. prog[k] = Op2("lw", Reg(id), p)
        /\ Resolve(prog, ROM_START, p) = Long(x)
      BY <1>2, <1>5 DEF p
  <2> HIDE DEF x
  <2>2. QED
      BY <1>1, <1>3, <1>4, <2>1, LwStep
<1>7. /\ regs'[id] = x
      /\ \A other \in {A, B, O} : other # id => regs'[other] = regs[other]
    BY <1>4, <1>6, RegisterNames DEF Sets
<1>8. TransferAt(prog, v, offset, k + 1)'
  <2>1. CASE k = 1
      BY <1>7, <2>1 DEF TransferAt
  <2>2. CASE k = 2
    <3>1. regs'[O] = offset /\ regs'[A] = regs[A]
        BY <1>7, <2>2, RegisterNames
    <3>2. QED
        BY <2>2, <3>1 DEF TransferAt
  <2>3. CASE k = 3
    <3>1. regs'[B] = Cell /\ regs'[A] = regs[A] /\ regs'[O] = regs[O]
        BY <1>7, <2>3, RegisterNames
    <3>2. QED
        BY <2>3, <3>1 DEF TransferAt
  <2>4. QED
      BY <2>1, <2>2, <2>3
<1>9. QED
    BY <1>6, <1>8 DEF Sets, TransferGoes

(* The cell is filled. *)
LEMMA TransferFills ==
    ASSUME DataHolds, NEW prog, NEW v, NEW offset, Built,
           TransferForm(prog, v, offset), Lies(mem, prog),
           regs[P] = At(prog, 4), TransferAt(prog, v, offset, 4), Instruction
    PROVE  TransferGoes(prog, v, offset, 5)
<1>1. Reached(prog, 4)
    BY TransferReached
<1>2. /\ regs[A] = v /\ regs[O] = offset /\ regs[B] = Cell
      /\ offset \in WordRange /\ v \in WordRange
      /\ prog[4] = Op2("lw", Absolute(Cell), Long(Fill))
    BY DEF TransferAt, TransferForm
<1>3. Absolute(Cell) \in CellModes(offset)
    BY DEF CellModes
<1> DEFINE q == Long(Fill)
<1>4. Yields(q, 4, q.value) /\ q.value = Fill
  <2>1. Fill % Capacity(4) = Fill
      BY FillType, WholeOverlaid
  <2>2. q = [mode |-> 3, value |-> Fill % Capacity(4)]
      BY <2>1 DEF Long, Param, Constant32
  <2>3. 3 \in {1, 2, 3} /\ 4 = IF 3 = 3 THEN 4 ELSE 3
      OBVIOUS
  <2>4. Yields(q, 4, q.value)
      BY <2>2, <2>3, FillType, ConstantYields
  <2>5. QED
      BY <2>4 DEF Long, Param
<1> HIDE DEF q
<1>5. Alters(prog, At(prog, 4 + 1),
             LoadedWord("lw", 4, Fill), LoadedBytes("lw", 4))
  <2>1. prog[4] = Op2("lw", Absolute(Cell), q) /\ Yields(q, 4, Fill)
      BY <1>2, <1>4 DEF q
  <2>2. "lw" \in {"ld", "lds", "lw", "lws"}
      OBVIOUS
  <2>3. QED
      BY <1>1, <1>2, <1>3, <2>1, <2>2, LoadStep
<1>6. mem_read(mem', Cell, 4) = Fill
  <2>1. LoadedWord("lw", 4, Fill) = Fill /\ LoadedBytes("lw", 4) = 4
      BY FillType, WholeOverlaid DEF LoadedWord, LoadedBytes
  <2>2. mem_read(mem, Cell, 4) \in WordRange
    <3>1. mem \in Memory /\ Cell \in Nat /\ 4 \in 0 .. 4
        BY DEF Built, DataHolds
    <3>2. QED
        BY <3>1, MemReadType
  <2>3. Overlaid(mem_read(mem, Cell, 4), Fill, 4) = Fill
      BY <2>2, FillType, WholeOverlaid
  <2>4. QED
      BY <1>5, <2>1, <2>3 DEF Alters
<1>7. regs'[A] = v /\ regs'[O] = offset /\ regs'[B] = Cell
    BY <1>2, <1>5, RegisterNames DEF Alters
<1>8. TransferAt(prog, v, offset, 5)'
    BY <1>6, <1>7 DEF TransferAt
<1>9. QED
    BY <1>5, <1>8 DEF Alters, TransferGoes

(* The store. *)
LEMMA TransferStores ==
    ASSUME DataHolds, NEW prog, NEW v, NEW offset, Built,
           TransferForm(prog, v, offset), Lies(mem, prog),
           regs[P] = At(prog, 5), TransferAt(prog, v, offset, 5), Instruction
    PROVE  TransferGoes(prog, v, offset, 6)
<1>1. Reached(prog, 5)
    BY TransferReached
<1>2. /\ regs[A] = v /\ regs[O] = offset /\ regs[B] = Cell
      /\ offset \in WordRange /\ v \in WordRange
      /\ mem_read(mem, Cell, 4) = Fill
      /\ Stores(prog[5], v, offset)
    BY DEF TransferAt, TransferForm
<1>3. PICK to \in CellModes(offset) :
          \/ prog[5] = Op1("sta", to)
          \/ \E op \in {"ld", "lds", "lw", "lws"}, from \in Sources(v) :
                 prog[5] = Op2(op, to, from)
    BY <1>2 DEF Stores
<1>4. ASSUME NEW y, NEW size, Alters(prog, At(prog, 5 + 1), y, size),
             Overlaid(Fill, y, size) = LandedBy(prog, v)
      PROVE  TransferGoes(prog, v, offset, 6)
  <2>1. mem_read(mem', Cell, 4) = LandedBy(prog, v)
      BY <1>2, <1>4 DEF Alters
  <2>2. regs'[A] = v /\ regs'[O] = offset /\ regs'[B] = Cell
      BY <1>2, <1>4, RegisterNames DEF Alters
  <2>3. TransferAt(prog, v, offset, 6)'
      BY <2>1, <2>2 DEF TransferAt, LandedBy
  <2>4. QED
      BY <1>4, <2>3 DEF Alters, TransferGoes
<1>5. CASE prog[5] = Op1("sta", to)
  <2>1. Alters(prog, At(prog, 5 + 1), v, 4)
      BY <1>1, <1>2, <1>5, StaStep
  <2>2. prog[5].op = "sta"
      BY <1>5 DEF Op1
  <2>3. LandedBy(prog, v) = 0 + (v % Capacity(4))
      BY <2>2 DEF LandedBy, Landed
  <2>4. Overlaid(Fill, v, 4) = v /\ v % Capacity(4) = v
      BY <1>2, FillType, WholeOverlaid
  <2>5. v \in Int
      BY <1>2, Widths DEF WordRange
  <2>6. QED
      BY <1>4, <2>1, <2>3, <2>4, <2>5
<1>6. CASE \E op \in {"ld", "lds", "lw", "lws"}, from \in Sources(v) :
               prog[5] = Op2(op, to, from)
  <2>1. PICK op \in {"ld", "lds", "lw", "lws"}, from \in Sources(v) :
            prog[5] = Op2(op, to, from)
      BY <1>6
  <2> DEFINE size == Moved(from)
             x == IF from.mode = Register THEN v ELSE from.value
  <2>2. Yields(from, size, x)
      BY <1>2, SourceYields
  <2>3. x \in WordRange /\ size \in {1, 2, 4}
      BY <2>2 DEF Yields
  <2>4. Overlaid(Fill, LoadedWord(op, size, x), LoadedBytes(op, size))
            = Landed(op, from, v)
      BY <2>3, LoadLands
  <2>5. prog[5].op = op /\ prog[5].p2 = from
      BY <2>1 DEF Op2
  <2> HIDE DEF size, x
  <2>6. Alters(prog, At(prog, 5 + 1),
               LoadedWord(op, size, x), LoadedBytes(op, size))
      BY <1>1, <1>2, <2>1, <2>2, LoadStep
  <2>7. QED
      BY <1>4, <2>4, <2>5, <2>6 DEF LandedBy
<1>7. QED
    BY <1>3, <1>5, <1>6

(* The load, and the end. *)
LEMMA TransferReads ==
    ASSUME DataHolds, NEW prog, NEW v, NEW offset, Built,
           TransferForm(prog, v, offset), Lies(mem, prog),
           regs[P] = At(prog, 6), TransferAt(prog, v, offset, 6), Instruction
    PROVE  TransferGoes(prog, v, offset, 7)
<1>1. Reached(prog, 6)
    BY TransferReached
<1>2. /\ regs[A] = v /\ regs[O] = offset /\ regs[B] = Cell
      /\ offset \in WordRange
      /\ mem_read(mem, Cell, 4) = LandedBy(prog, v)
    BY DEF TransferAt, TransferForm
<1>3. PICK from \in CellModes(offset) : prog[6] = Op1("ldc", from)
    BY DEF TransferForm
<1>4. /\ Sets(C, LandedBy(prog, v), At(prog, 6 + 1), FALSE)
      /\ UNCHANGED stopped
    BY <1>1, <1>2, <1>3, LdcStep
<1>5. regs'[C] = LandedBy(prog, v) /\ regs'[A] = v
    BY <1>2, <1>4, RegisterNames DEF Sets
<1>6. TransferAt(prog, v, offset, 7)'
    BY <1>5 DEF TransferAt, LandedBy
<1>7. QED
    BY <1>4, <1>6 DEF Sets, TransferGoes

(* The last instruction ends the run. *)
LEMMA TransferHalts ==
    ASSUME DataHolds, NEW prog, NEW v, NEW offset, Built,
           TransferForm(prog, v, offset), Lies(mem, prog),
           regs[P] = At(prog, 7), TransferAt(prog, v, offset, 7), Instruction
    PROVE  mem' = mem /\ TransferOver(prog, v, offset)'
<1>1. Reached(prog, 7) /\ prog[7] = Op0("hlt")
    BY TransferReached DEF TransferForm
<1>2. Passes(At(prog, 7 + 1), TRUE)
    BY <1>1, HltStep
<1>3. Sets(A, regs[A], At(prog, 7 + 1), TRUE)
    BY <1>2, RegisterNames DEF Passes
<1>4. /\ mem' = mem /\ halted' = TRUE /\ phase' = "running"
      /\ regs'[A] = regs[A] /\ regs'[C] = regs[C]
    BY <1>3, RegisterNames DEF Sets
<1>5. TransferAt(prog, v, offset, 8)'
    BY <1>4 DEF TransferAt, LandedBy
<1>6. QED
    BY <1>4, <1>5 DEF TransferOver

(* Every step keeps the invariant. *)
LEMMA TransferStep ==
    ASSUME DataHolds, NEW prog, NEW v, NEW offset,
           TransferInv(prog, v, offset), [Next]_vars, SetupHolds, SetupHolds'
    PROVE  TransferInv(prog, v, offset)'
<1>1. Built /\ Built' /\ TransferForm(prog, v, offset) /\ Lies(mem, prog)
    BY NextType DEF TransferInv
<1>2. ASSUME mem' = mem, regs' = regs, NEW k, TransferAt(prog, v, offset, k)
      PROVE  TransferAt(prog, v, offset, k)'
    BY <1>2 DEF TransferAt, LandedBy
<1>3. CASE Aside
  <2>1. mem' = mem /\ regs' = regs
      BY <1>3, StaysOver
  <2>2. CASE TransferOn(prog, v, offset)
    <3>1. PICK k \in 1 .. 7 :
              regs[P] = At(prog, k) /\ TransferAt(prog, v, offset, k)
        BY <2>2 DEF TransferOn
    <3>2. ValidPc
      <4>1. Reached(prog, k)
          BY <1>1, <3>1, TransferReached
      <4>2. QED
          BY <4>1, Fetched DEF Reached
    <3>3. ~halted' /\ ~stopped' /\ phase' # "returned"
        BY <1>3, <2>2, <3>2, StaysOn DEF TransferOn
    <3>4. TransferOn(prog, v, offset)'
        BY <1>2, <2>1, <3>1, <3>3 DEF TransferOn
    <3>5. QED
        BY <1>1, <2>1, <3>4 DEF TransferInv, Lies
  <2>3. CASE TransferOver(prog, v, offset)
    <3>1. TransferOver(prog, v, offset)'
        BY <1>2, <1>3, <2>1, <2>3, StaysOver DEF TransferOver
    <3>2. QED
        BY <1>1, <2>1, <3>1 DEF TransferInv, Lies
  <2>4. QED
      BY <2>2, <2>3 DEF TransferInv
<1>4. CASE Instruction
  <2>1. phase = "running" /\ ~halted
      BY <1>4, HandlerOf DEF Fetching, Running
  <2>2. TransferOn(prog, v, offset)
      BY <2>1 DEF TransferInv, TransferOver
  <2>3. PICK k \in 1 .. 7 :
            regs[P] = At(prog, k) /\ TransferAt(prog, v, offset, k)
      BY <2>2 DEF TransferOn
  <2>4. ASSUME NEW next \in 1 .. 7, TransferGoes(prog, v, offset, next)
        PROVE  TransferInv(prog, v, offset)'
    <3>1. TransferOn(prog, v, offset)'
        BY <2>2, <2>4 DEF TransferGoes, TransferOn
    <3>2. QED
        BY <1>1, <2>4, <3>1 DEF TransferInv, TransferGoes, Lies
  <2>5. CASE k \in {1, 2, 3}
    <3>1. k + 1 \in 1 .. 7
        BY <2>5
    <3>2. QED
        BY <1>1, <1>4, <2>3, <2>4, <2>5, <3>1, TransferLoads
  <2>6. CASE k = 4
    <3>1. 5 \in 1 .. 7
        OBVIOUS
    <3>2. QED
        BY <1>1, <1>4, <2>3, <2>4, <2>6, <3>1, TransferFills
  <2>7. CASE k = 5
    <3>1. 6 \in 1 .. 7
        OBVIOUS
    <3>2. QED
        BY <1>1, <1>4, <2>3, <2>4, <2>7, <3>1, TransferStores
  <2>8. CASE k = 6
    <3>1. 7 \in 1 .. 7
        OBVIOUS
    <3>2. QED
        BY <1>1, <1>4, <2>3, <2>4, <2>8, <3>1, TransferReads
  <2>9. CASE k = 7
    <3>1. mem' = mem /\ TransferOver(prog, v, offset)'
        BY <1>1, <1>4, <2>3, <2>9, TransferHalts
    <3>2. QED
        BY <1>1, <3>1 DEF TransferInv, Lies
  <2>10. QED
      BY <2>5, <2>6, <2>7, <2>8, <2>9
<1>5. QED
    BY <1>1, <1>3, <1>4, AsideOrInstruction

(* Instructions are as long as their parameters say. *)
LEMMA Lengths ==
    ASSUME NEW op, NEW p, NEW q
    PROVE  /\ op \in TwoParameters =>
                 calculate_instruction_length(Op2(op, p, q))
                     = 2 + param_size(p.mode) + param_size(q.mode)
           /\ op \in OneParameter =>
                 calculate_instruction_length(Op1(op, p))
                     = 2 + param_size(p.mode)
<1>1. /\ Op2(op, p, q).op = op /\ Op2(op, p, q).p1 = p /\ Op2(op, p, q).p2 = q
      /\ Op1(op, p).op = op /\ Op1(op, p).p1 = p
      /\ Op1(op, p).p2.mode = Unused
    BY DEF Op1, Op2, None, Param
<1>2. /\ param_size(Unused) = 0
      /\ param_size(p.mode) \in Nat /\ param_size(q.mode) \in Nat
    BY DEF param_size, Unused, AbsoluteAddress, RelativeAddress, Constant32,
       Constant8, Constant16, Register, RegisterAddress, Label
<1> DEFINE n == param_size(p.mode)
           m == param_size(q.mode)
           x == Op1(op, p)
           y == Op2(op, p, q)
<1> HIDE DEF n, m, x, y
<1>3. ASSUME op \in TwoParameters
      PROVE  calculate_instruction_length(y) = 2 + n + m
  <2>1. param_count(opcode_from_name(y.op)) = 2
      BY <1>1, <1>3, Counts DEF y
  <2>2. param_size(y.p1.mode) = n /\ param_size(y.p2.mode) = m
      BY <1>1 DEF y, n, m
  <2>3. QED
      BY <1>2, <2>1, <2>2 DEF calculate_instruction_length, n, m
<1>4. ASSUME op \in OneParameter
      PROVE  calculate_instruction_length(x) = 2 + n
  <2>1. param_count(opcode_from_name(x.op)) = 1
      BY <1>1, <1>4, Counts DEF x
  <2>2. param_size(x.p1.mode) = n /\ param_size(x.p2.mode) = 0
      BY <1>1, <1>2 DEF x, n
  <2>3. QED
      BY <1>2, <2>1, <2>2 DEF calculate_instruction_length, n
<1>5. QED
    BY <1>3, <1>4 DEF n, m, x, y

(* A program begins where roms are loaded, and an instruction without      *)
(* labels is read as it is written. *)
LEMMA Found ==
    ASSUME NEW prog, Encodable(prog), Size(prog) <= ROM_SIZE,
           NEW m \in Memory, Lies(m, prog), NEW k \in 1 .. Len(prog)
    PROVE  LET i == parse_instruction(m, At(prog, k))
           IN  /\ At(prog, 1) = ROM_START
               /\ i.op = prog[k].op
               /\ Plain(prog[k].p1) => i.p1 = prog[k].p1
               /\ Plain(prog[k].p2) => i.p2 = prog[k].p2
               /\ i.len = calculate_instruction_length(prog[k])
               /\ i.len \in 1 .. 10
               /\ At(prog, k + 1) = At(prog, k) + i.len
<1> DEFINE i == parse_instruction(m, At(prog, k))
           r == Resolved(prog, k)
<1>1. /\ i = [op |-> r.op, p1 |-> Read(r.p1), p2 |-> Read(r.p2),
              len |-> calculate_instruction_length(prog[k])]
      /\ i.len \in 1 .. 10
      /\ At(prog, k + 1) = At(prog, k) + i.len
    BY Listing
<1>2. /\ r.op = prog[k].op
      /\ r.p1 = Resolve(prog, ROM_START, prog[k].p1)
      /\ r.p2 = Resolve(prog, ROM_START, prog[k].p2)
    BY DEF Resolved
<1> HIDE DEF i, r
<1>3. /\ Plain(prog[k].p1) => Read(r.p1) = prog[k].p1
      /\ Plain(prog[k].p2) => Read(r.p2) = prog[k].p2
    BY <1>2, PlainRead
<1>4. At(prog, 1) = ROM_START
  <2>1. \A j \in 1 .. 0 : calculate_instruction_length(prog[j]) \in Nat
      OBVIOUS
  <2>2. Offset(prog, 1) = 0 /\ ROM_START \in Nat
      BY <2>1, OffsetsAre, CpuAssumption
  <2>3. QED
      BY <2>2 DEF At
<1>5. /\ i.op = r.op /\ i.p1 = Read(r.p1) /\ i.p2 = Read(r.p2)
      /\ i.len = calculate_instruction_length(prog[k])
    BY <1>1
<1>6. QED
    BY <1>1, <1>2, <1>3, <1>4, <1>5 DEF i

(* Where the store of a transfer lies. *)
LEMMA StorePlace ==
    ASSUME NEW prog, NEW v, NEW offset, TransferForm(prog, v, offset),
           NEW m \in Memory, Lies(m, prog)
    PROVE  At(prog, 5) = ROM_START + 30
<1>1. /\ Encodable(prog) /\ Size(prog) <= ROM_SIZE /\ Len(prog) = 7
      /\ prog[1] = Op2("lw", Reg(A), Long(v))
      /\ prog[2] = Op2("lw", Reg(O), Long(offset))
      /\ prog[3] = Op2("lw", Reg(B), Long(Cell))
      /\ prog[4] = Op2("lw", Absolute(Cell), Long(Fill))
    BY DEF TransferForm
<1>2. /\ \A x : param_size(Reg(x).mode) = 1 /\ param_size(Long(x).mode) = 4
      /\ param_size(Absolute(Cell).mode) = 3
    BY DEF Reg, Long, Absolute, Param, param_size,
       AbsoluteAddress, RelativeAddress, Constant32,
       Constant8, Constant16, Register, RegisterAddress, Label
<1>3. "lw" \in TwoParameters
    BY DEF TwoParameters
<1>4. /\ calculate_instruction_length(prog[1]) = 7
      /\ calculate_instruction_length(prog[2]) = 7
      /\ calculate_instruction_length(prog[3]) = 7
      /\ calculate_instruction_length(prog[4]) = 9
    BY <1>1, <1>2, <1>3, Lengths
<1>5. /\ 1 \in 1 .. Len(prog) /\ 2 \in 1 .. Len(prog)
      /\ 3 \in 1 .. Len(prog) /\ 4 \in 1 .. Len(prog)
    BY <1>1
<1>6. /\ At(prog, 1) = ROM_START
      /\ \A k \in 1 .. Len(prog) :
            At(prog, k + 1) = At(prog, k)
                                 + calculate_instruction_length(prog[k])
  <2>1. ASSUME NEW k \in 1 .. Len(prog)
        PROVE  /\ At(prog, 1) = ROM_START
               /\ At(prog, k + 1)
                     = At(prog, k) + calculate_instruction_length(prog[k])
    <3> DEFINE i == parse_instruction(m, At(prog, k))
    <3>1. /\ At(prog, 1) = ROM_START
          /\ i.len = calculate_instruction_length(prog[k])
          /\ At(prog, k + 1) = At(prog, k) + i.len
        BY <1>1, Found
    <3> HIDE DEF i
    <3>2. QED
        BY <3>1
  <2>2. QED
      BY <1>5, <2>1
<1>7. At(prog, 1 + 1) = At(prog, 1) + 7
    BY <1>4, <1>5, <1>6
<1>8. At(prog, 2 + 1) = At(prog, 2) + 7
    BY <1>4, <1>5, <1>6
<1>9. /\ At(prog, 3 + 1) = At(prog, 3) + 7
      /\ At(prog, 4 + 1) = At(prog, 4) + 9
    BY <1>4, <1>5, <1>6
<1>10. ROM_START \in Nat
    BY CpuAssumption
<1>11. QED
    BY <1>6, <1>7, <1>8, <1>9, <1>10

(* A rom with the program is loaded. *)
LEMMA BegunWith ==
    ASSUME NEW prog, Encodable(prog), Init, Loaded(Assemble(prog, ROM_START))
    PROVE  /\ Built /\ ~halted /\ ~stopped /\ phase = "host"
           /\ Lies(mem, prog)
           /\ regs[P] = At(prog, 1) /\ regs[S] = STACK_BEGIN
<1>1. Lies(mem, prog)
    BY ProgramLoaded
<1>2. regs[P] = ROM_START /\ regs[S] = STACK_BEGIN
    BY DEF Loaded, InitialRegisters, P, S, REGISTER_COUNT, ENTRY_POINT
<1>3. At(prog, 1) = ROM_START
  <2>1. \A j \in 1 .. 0 : calculate_instruction_length(prog[j]) \in Nat
      OBVIOUS
  <2>2. Offset(prog, 1) = 0 /\ ROM_START \in Nat
      BY <2>1, OffsetsAre, CpuAssumption
  <2>3. QED
      BY <2>2 DEF At
<1>4. Built /\ ~halted /\ ~stopped /\ phase = "host"
    BY InitType, BuiltType DEF Loaded
<1>5. QED
    BY <1>1, <1>2, <1>3, <1>4

(* At the end the register C is what the store is to leave in the cell. *)
LEMMA TransferEnds ==
    ASSUME NEW prog, NEW v, NEW offset, DataHolds,
           TransferInv(prog, v, offset)
    PROVE  StoresAlias
<1> SUFFICES ASSUME phase = "returned"
             PROVE  StoresAlias
    BY DEF StoresAlias
<1> DEFINE store == parse_instruction(mem, ROM_START + 30)
<1>1. /\ TransferForm(prog, v, offset) /\ Lies(mem, prog) /\ mem \in Memory
      /\ TransferAt(prog, v, offset, 8)
    BY DEF TransferInv, TransferOn, TransferOver, Built
<1>2. regs[A] = v /\ regs[C] = Landed(prog[5].op, prog[5].p2, v)
    BY <1>1 DEF TransferAt, LandedBy
<1>3. /\ Encodable(prog) /\ Size(prog) <= ROM_SIZE /\ 5 \in 1 .. Len(prog)
      /\ Stores(prog[5], v, offset) /\ v \in WordRange
    BY <1>1 DEF TransferForm
<1>4. /\ store.op = prog[5].op
      /\ Plain(prog[5].p2) => store.p2 = prog[5].p2
  <2>1. At(prog, 5) = ROM_START + 30
      BY <1>1, StorePlace
  <2>2. QED
      BY <1>1, <1>3, <2>1, Found
<1>5. prog[5].op = "sta" \/ Plain(prog[5].p2)
  <2>1. PICK to \in CellModes(offset) :
            \/ prog[5] = Op1("sta", to)
            \/ \E op \in {"ld", "lds", "lw", "lws"}, from \in Sources(v) :
                   prog[5] = Op2(op, to, from)
      BY <1>3 DEF Stores
  <2>2. CASE prog[5] = Op1("sta", to)
      BY <2>2 DEF Op1
  <2>3. ASSUME NEW op, NEW from \in Sources(v), prog[5] = Op2(op, to, from)
        PROVE  Plain(prog[5].p2)
    <3>1. prog[5].p2 = from
        BY <2>3 DEF Op2
    <3>2. QED
        BY <1>3, <3>1, SourcePlain
  <2>4. QED
      BY <2>1, <2>2, <2>3
<1> HIDE DEF store
<1>6. regs[C] = Landed(store.op, store.p2, v)
  <2>1. CASE prog[5].op = "sta"
      BY <1>2, <1>4, <2>1 DEF Landed
  <2>2. CASE Plain(prog[5].p2)
      BY <1>2, <1>4, <2>2
  <2>3. QED
      BY <1>5, <2>1, <2>2
<1>7. QED
    BY <1>2, <1>6 DEF StoresAlias, Landed, store

(* One of the transfers is loaded. *)
TransferLoaded == \E prog \in Transfers : Loaded(Assemble(prog, ROM_START))

(* The invariant, of some transfer. *)
TransferGiven == \E prog, v, offset : TransferInv(prog, v, offset)

(* It holds when a transfer has been loaded. *)
LEMMA TransferInit ==
    ASSUME DataHolds, Init, TransferLoaded
    PROVE  TransferGiven
<1>1. PICK prog \in Transfers : Loaded(Assemble(prog, ROM_START))
    BY DEF TransferLoaded
<1>2. PICK v \in WordRange, offset \in WordRange :
          TransferForm(prog, v, offset)
    BY TransferShape
<1>3. /\ Built /\ ~halted /\ ~stopped /\ phase = "host"
      /\ Lies(mem, prog) /\ regs[P] = At(prog, 1)
    BY <1>1, <1>2, BegunWith DEF TransferForm
<1>4. TransferAt(prog, v, offset, 1) /\ 1 \in 1 .. 7
    BY DEF TransferAt
<1>5. TransferInv(prog, v, offset)
    BY <1>2, <1>3, <1>4 DEF TransferInv, TransferOn
<1>6. QED
    BY <1>5 DEF TransferGiven

(* A store of a value of one, two or four bytes through any addressing     *)
(* mode is what a load through any other one reads: an absolute address,   *)
(* one relative to the register O and one in a register name the same      *)
(* cell.  ld leaves the bytes of the cell that its source does not have;   *)
(* the other operations write the whole word. *)
THEOREM ValuesPassMemory ==
    ASSUME DataHolds
    PROVE  Spec /\ []SetupHolds /\ TransferLoaded => []StoresAlias
<1>1. Init /\ TransferLoaded => TransferGiven
    BY TransferInit
<1>2. TransferGiven /\ [Next]_vars /\ SetupHolds /\ SetupHolds'
          => TransferGiven'
  <2> SUFFICES ASSUME TransferGiven, [Next]_vars, SetupHolds, SetupHolds'
               PROVE  TransferGiven'
      OBVIOUS
  <2>1. PICK prog, v, offset : TransferInv(prog, v, offset)
      BY DEF TransferGiven
  <2>2. TransferInv(prog, v, offset)'
      BY <2>1, TransferStep
  <2>3. QED
      BY <2>2 DEF TransferGiven
<1>3. TransferGiven => StoresAlias
    BY TransferEnds DEF TransferGiven
<1>4. QED
    BY <1>1, <1>2, <1>3, PTL DEF Spec

-----------------------------------------------------------------------------
(* A value over the stack. *)

(* What is pushed of v, size bytes of it, and where it is popped to. *)
Matches(from, to, v, size) ==
    \/ /\ size = 4
       /\ from \in {Long(v), Reg(0), Absolute(ROM_START + 2)}
       /\ to \in {Reg(1), Absolute(Cell)}
    \/ /\ size = 2
       /\ from \in {Short(v % SHORT), Reg(32)} /\ to = Reg(33)
    \/ /\ size = 1
       /\ from \in {Byte(v % BYTE), Reg(16)} /\ to = Reg(17)

(* A program that pushes v, or a part of it, and pops it. *)
StackForm(prog, v, from, to, size) ==
    /\ Encodable(prog) /\ Size(prog) <= ROM_SIZE /\ Len(prog) = 5
    /\ v \in WordRange /\ Matches(from, to, v, size)
    /\ Plain(from) /\ Plain(to)
    /\ prog[1] = Op1("lda", Long(v))
    /\ prog[2] = Op1("ldb", Long(Fill))
    /\ prog[3] = Op1("push", from)
    /\ prog[4] = Op1("pop", to)
    /\ prog[5] = Op0("hlt")

(* What is pushed and popped to is encoded as it is. *)
LEMMA MatchesPlain ==
    ASSUME DataHolds, NEW v \in WordRange, NEW from, NEW to, NEW size,
           Matches(from, to, v, size)
    PROVE  Plain(from) /\ Plain(to)
<1>1. /\ ROM_START + 2 \in Nat /\ ROM_START + 2 < ADDRESS
      /\ Cell \in Nat /\ Cell < ADDRESS
    BY CpuAssumption DEF DataHolds
<1>2. /\ Plain(Absolute(ROM_START + 2)) /\ Plain(Absolute(Cell))
  <2>1. 4 \in {4, 5}
      OBVIOUS
  <2>2. ASSUME NEW a \in Nat, a < ADDRESS
        PROVE  Plain(Absolute(a))
    <3>1. Absolute(a) = [mode |-> 4, value |-> a]
        BY DEF Absolute, Param, AbsoluteAddress
    <3>2. QED
        BY <2>1, <2>2, <3>1, PlainAddress
  <2>3. QED
      BY <1>1, <2>2
<1>3. \A which \in {0, 1, 16, 17, 32, 33} : Plain(Reg(which))
    BY PlainReg
<1>4. /\ Plain(Long(v)) /\ Plain(Short(v % SHORT)) /\ Plain(Byte(v % BYTE))
    BY SourcePlain DEF Sources
<1>5. QED
    BY <1>2, <1>3, <1>4 DEF Matches

(* The stack programs of Data have this form. *)
LEMMA StackShape ==
    ASSUME DataHolds, NEW prog \in Stacks
    PROVE  \E v \in WordRange : \E from, to : \E size :
               StackForm(prog, v, from, to, size)
<1>1. PICK v \in Values : \E pair \in Matching(v) :
          prog = StackProgram(v, Fill, pair[1], pair[2])
    BY DEF Stacks
<1>2. PICK pair \in Matching(v) :
          prog = StackProgram(v, Fill, pair[1], pair[2])
    BY <1>1
<1> DEFINE from == pair[1]
           to == pair[2]
<1>3. \E size : Matches(from, to, v, size)
  <2>1. /\ A = 0 /\ B = 1 /\ LowHalf(A) = 32 /\ LowHalf(B) = 33
        /\ LowByte(A) = 16 /\ LowByte(B) = 17
      BY DEF A, B, LowHalf, LowByte
  <2>2. CASE pair \in {Long(v), Reg(A), Absolute(ROM_START + 2)}
                          \X {Reg(B), Absolute(Cell)}
    <3>1. Matches(from, to, v, 4)
        BY <2>1, <2>2 DEF Matches
    <3>2. QED
        BY <3>1
  <2>3. CASE pair \in {Short(v % SHORT), Reg(LowHalf(A))}
                          \X {Reg(LowHalf(B))}
    <3>1. Matches(from, to, v, 2)
        BY <2>1, <2>3 DEF Matches
    <3>2. QED
        BY <3>1
  <2>4. CASE pair \in {Byte(v % BYTE), Reg(LowByte(A))}
                          \X {Reg(LowByte(B))}
    <3>1. Matches(from, to, v, 1)
        BY <2>1, <2>4 DEF Matches
    <3>2. QED
        BY <3>1
  <2>5. QED
      BY <2>2, <2>3, <2>4 DEF Matching
<1>4. PICK size : Matches(from, to, v, size)
    BY <1>3
<1> HIDE DEF from, to
<1>5. v \in WordRange /\ Size(prog) <= ROM_SIZE
    BY DEF DataHolds
<1>6. Plain(from) /\ Plain(to) /\ Plain(Long(v)) /\ Plain(Long(Fill))
    BY <1>4, <1>5, FillType, MatchesPlain, PlainLong
<1>7. /\ Len(prog) = 5 /\ DOMAIN prog = 1 .. 5
      /\ prog[1] = Op1("lda", Long(v))
      /\ prog[2] = Op1("ldb", Long(Fill))
      /\ prog[3] = Op1("push", from)
      /\ prog[4] = Op1("pop", to)
      /\ prog[5] = Op0("hlt")
    BY <1>2 DEF StackProgram, from, to
<1>8. /\ {"lda", "ldb", "push", "pop"} \subseteq OneParameter
      /\ "hlt" \in NoParameter
    BY DEF OneParameter, NoParameter
<1>9. /\ Regular(prog, prog[1]) /\ Regular(prog, prog[2])
      /\ Regular(prog, prog[3]) /\ Regular(prog, prog[4])
      /\ Regular(prog, prog[5])
    BY <1>6, <1>7, <1>8, PlainRegular
<1>10. Written(prog)
    BY <1>7, <1>9 DEF Written
<1>11. Encodable(prog)
    BY <1>5, <1>10, WrittenEncodable
<1>12. StackForm(prog, v, from, to, size)
    BY <1>4, <1>5, <1>6, <1>7, <1>11 DEF StackForm
<1>13. QED
    BY <1>5, <1>12

(* Where the push lies. *)
LEMMA PushPlace ==
    ASSUME NEW prog, NEW v, NEW from, NEW to, NEW size,
           StackForm(prog, v, from, to, size), NEW m \in Memory, Lies(m, prog)
    PROVE  At(prog, 1) = ROM_START /\ At(prog, 3) = ROM_START + 12
<1>1. /\ Encodable(prog) /\ Size(prog) <= ROM_SIZE /\ Len(prog) = 5
      /\ prog[1] = Op1("lda", Long(v))
      /\ prog[2] = Op1("ldb", Long(Fill))
    BY DEF StackForm
<1>2. \A x : param_size(Long(x).mode) = 4
    BY DEF Long, Param, param_size,
       AbsoluteAddress, RelativeAddress, Constant32,
       Constant8, Constant16, Register, RegisterAddress, Label
<1>3. {"lda", "ldb"} \subseteq OneParameter
    BY DEF OneParameter
<1>4. /\ calculate_instruction_length(prog[1]) = 6
      /\ calculate_instruction_length(prog[2]) = 6
    BY <1>1, <1>2, <1>3, Lengths
<1>5. 1 \in 1 .. Len(prog) /\ 2 \in 1 .. Len(prog)
    BY <1>1
<1>6. ASSUME NEW k \in 1 .. Len(prog)
      PROVE  /\ At(prog, 1) = ROM_START
             /\ At(prog, k + 1)
                   = At(prog, k) + calculate_instruction_length(prog[k])
  <2> DEFINE i == parse_instruction(m, At(prog, k))
  <2>1. /\ At(prog, 1) = ROM_START
        /\ i.len = calculate_instruction_length(prog[k])
        /\ At(prog, k + 1) = At(prog, k) + i.len
      BY <1>1, Found
  <2> HIDE DEF i
  <2>2. QED
      BY <2>1
<1>7. At(prog, 1 + 1) = At(prog, 1) + 6
    BY <1>4, <1>5, <1>6
<1>8. At(prog, 2 + 1) = At(prog, 2) + 6
    BY <1>4, <1>5, <1>6
<1>9. ROM_START \in Nat
    BY CpuAssumption
<1>10. QED
    BY <1>5, <1>6, <1>7, <1>8, <1>9

(* The third byte of the program is the first one of the constant that is  *)
(* loaded to A. *)
LEMMA LoadedConstant ==
    ASSUME NEW prog, NEW v, NEW from, NEW to, NEW size,
           StackForm(prog, v, from, to, size), NEW m \in Memory, Lies(m, prog)
    PROVE  mem_read(m, ROM_START + 2, 4) = v
<1> DEFINE i == parse_instruction(m, ROM_START)
           a == ROM_START + 2
<1>1. /\ Encodable(prog) /\ Size(prog) <= ROM_SIZE /\ 1 \in 1 .. Len(prog)
      /\ v \in WordRange /\ prog[1].p1 = Long(v)
    BY DEF StackForm, Op1
<1>2. i.p1 = Long(v)
  <2>1. At(prog, 1) = ROM_START /\ Plain(prog[1].p1)
      BY <1>1, PushPlace, PlainLong
  <2>2. QED
      BY <1>1, <2>1, Found
<1>3. i.p1.mode = 3 /\ i.p1.value = v
    BY <1>2 DEF Long, Param, Constant32
<1>4. ParamValue(m, ROM_START + 1 + 1, 3) = v
  <2>1. param_count(m[ROM_START]) > 0
      BY <1>3 DEF parse_instruction, Unused
  <2>2. QED
      BY <1>3, <2>1 DEF parse_instruction
<1>5. a \in Nat /\ ROM_START + 1 + 1 = a
    BY CpuAssumption
<1>6. mem_read(m, a, 4) % Capacity(4) = v
  <2>1. param_size(3) = 4 /\ 3 \in Constant8 .. RegisterAddress
      BY DEF param_size, AbsoluteAddress, RelativeAddress, Constant32,
         Constant8, Constant16, Register, RegisterAddress, Label
  <2> HIDE DEF a
  <2>2. ParamValue(m, a, 3) = v
      BY <1>4, <1>5
  <2>3. QED
      BY <2>1, <2>2 DEF ParamValue
<1>7. mem_read(m, a, 4) \in WordRange
    BY <1>5, MemReadType
<1> HIDE DEF a
<1>8. QED
    BY <1>6, <1>7, WholeOverlaid DEF a

(* A parameter is pushed as size bytes that are those of v. *)
PushedAs(p, v, size) ==
    /\ ValueError(p) = FALSE
    /\ size \in {1, 2, 4}
    /\ param_value_size(p) = size /\ Moved(p) = size
    /\ value(p) \in WordRange
    /\ value(p) % Capacity(size) = v % Capacity(size)

(* What is pushed, of the mode its parameter has. *)
LEMMA PushedSource ==
    ASSUME DataHolds, NEW prog, NEW v, NEW from, NEW to, NEW size,
           StackForm(prog, v, from, to, size),
           Built, Lies(mem, prog), regs[A] = v
    PROVE  PushedAs(from, v, size)
<1>1. v \in WordRange /\ Matches(from, to, v, size) /\ mem \in Memory
    BY DEF StackForm, Built
<1>2. CASE from = Absolute(ROM_START + 2)
  <2>1. mem_read(mem, ROM_START + 2, 4) = v
      BY <1>1, LoadedConstant
  <2> DEFINE a == ROM_START + 2
  <2>2. from.mode = 4 /\ from.value = a
      BY <1>2 DEF Absolute, Param, AbsoluteAddress
  <2>3. size = 4
      BY <1>1, <2>2 DEF Matches, Reg, Short, Byte, Param, Register,
         Constant16, Constant8
  <2> HIDE DEF a
  <2>4. value(from) = mem_read(mem, a, 4)
      BY <2>2 DEF value, get_param_value, Register, RegisterAddress,
         Constant8, Constant16, Constant32, AbsoluteAddress, RelativeAddress
  <2>5. ValueError(from) = FALSE
      BY <2>2 DEF ValueError, Register, RegisterAddress
  <2>6. param_value_size(from) = 4 /\ Moved(from) = 4
      BY <2>2 DEF param_value_size, Moved, Register, Constant8, Constant16,
         Constant32, AbsoluteAddress
  <2>7. value(from) = v
      BY <2>1, <2>4 DEF a
  <2>8. QED
      BY <1>1, <2>3, <2>5, <2>6, <2>7 DEF PushedAs
<1>3. CASE from # Absolute(ROM_START + 2)
  <2>1. from \in Sources(v)
      BY <1>1, <1>3 DEF Matches, Sources, A, LowByte, LowHalf
  <2> DEFINE n == Moved(from)
             x == IF from.mode = Register THEN regs[A] ELSE from.value
  <2>2. Yields(from, n, x) /\ x % Capacity(n) = v % Capacity(n)
      BY <1>1, <2>1, SourceYields
  <2> HIDE DEF x
  <2>3. n = size
    <3>1. /\ Moved(Long(v)) = 4 /\ Moved(Short(v % SHORT)) = 2
          /\ Moved(Byte(v % BYTE)) = 1
        BY DEF Moved, Long, Short, Byte, Param, Register, Constant8,
           Constant16, Constant32, AbsoluteAddress
    <3>2. Moved(Reg(0)) = 4 /\ Moved(Reg(32)) = 2 /\ Moved(Reg(16)) = 1
      <4>1. /\ register_size(0) = 4 /\ register_size(32) = 2
            /\ register_size(16) = 1
          BY DEF register_size, RegClass
      <4>2. \A which : Moved(Reg(which)) = register_size(which)
          BY DEF Moved, Reg, Param, Register, Constant8,
             Constant16, Constant32, AbsoluteAddress
      <4>3. QED
          BY <4>1, <4>2
    <3>3. QED
        BY <1>1, <1>3, <3>1, <3>2 DEF Matches
  <2> HIDE DEF n
  <2>4. /\ ValueError(from) = FALSE /\ n \in {1, 2, 4}
        /\ param_value_size(from) = n
        /\ x \in WordRange /\ value(from) = x % Capacity(n)
      BY <2>2 DEF Yields
  <2>5. x \in Int
      BY <2>4, Widths DEF WordRange
  <2>6. /\ value(from) % Capacity(n) = x % Capacity(n)
        /\ value(from) \in WordRange
      BY <2>4, <2>5, LowTwice
  <2>7. QED
      BY <2>2, <2>3, <2>4, <2>6 DEF PushedAs, n
<1>4. QED
    BY <1>2, <1>3

(* What is popped to. *)
Dest(to, rg, m) == IF to.mode = Register THEN rg[B] ELSE mem_read(m, Cell, 4)

(* What the registers and the stack hold at the k-th instruction. *)
StackAt(v, to, size, k) ==
    /\ k >= 2 => regs[A] = v
    /\ k \in {3, 4} => regs[B] = Fill
    /\ k # 4 => regs[S] = STACK_BEGIN
    /\ k = 4 => /\ regs[S] = STACK_BEGIN - size
                /\ mem_read(mem, regs[S], size) = v % Capacity(size)
    /\ k >= 5 => Dest(to, regs, mem) = Overlaid(Fill, v, size)

(* The run has come to one of the instructions. *)
StackOn(prog, v, to, size) ==
    /\ ~halted /\ ~stopped /\ phase # "returned"
    /\ \E k \in 1 .. 5 : regs[P] = At(prog, k) /\ StackAt(v, to, size, k)

(* The run has come to its end. *)
StackOver(v, to, size) ==
    halted /\ phase # "host" /\ StackAt(v, to, size, 6)

(* The inductive invariant, as that of the transfers. *)
StackInv(prog, v, from, to, size) ==
    /\ Built /\ StackForm(prog, v, from, to, size) /\ Lies(mem, prog)
    /\ StackOn(prog, v, to, size) \/ StackOver(v, to, size)

(* An instruction that goes on to the next one. *)
StackGoes(prog, v, to, size, k) ==
    /\ Lies(mem', prog)
    /\ ~halted' /\ phase' = "running" /\ UNCHANGED stopped
    /\ regs'[P] = At(prog, k) /\ StackAt(v, to, size, k)'

(* The lemmas about steps of programs apply. *)
LEMMA StackReached ==
    ASSUME DataHolds, NEW prog, NEW v, NEW from, NEW to, NEW size, Built,
           StackForm(prog, v, from, to, size), Lies(mem, prog),
           NEW k \in 1 .. 5, regs[P] = At(prog, k)
    PROVE  Reached(prog, k)
BY DEF Reached, StackForm, DataHolds

(* The two registers are loaded. *)
LEMMA StackLoads ==
    ASSUME DataHolds, NEW prog, NEW v, NEW from, NEW to, NEW size, Built,
           StackForm(prog, v, from, to, size), Lies(mem, prog),
           NEW k \in {1, 2}, regs[P] = At(prog, k),
           StackAt(v, to, size, k), Instruction
    PROVE  StackGoes(prog, v, to, size, k + 1)
<1>1. Reached(prog, k)
    BY StackReached
<1>2. v \in WordRange /\ regs[S] = STACK_BEGIN
    BY DEF StackForm, StackAt
<1>3. \A x \in WordRange :
          Plain(Long(x)) /\ Constant(Long(x)) /\ Long(x).value = x
    BY PlainLong DEF Constant, Long, Param, Constant8, Constant16, Constant32
<1>4. CASE k = 1
  <2>1. prog[1] = Op1("lda", Long(v))
      BY DEF StackForm
  <2> DEFINE p == Long(v)
  <2>2. prog[k] = Op1("lda", p) /\ Plain(p) /\ Constant(p) /\ p.value = v
      BY <1>2, <1>3, <1>4, <2>1
  <2> HIDE DEF p
  <2>6. Sets(A, p.value, At(prog, k + 1), FALSE) /\ UNCHANGED stopped
      BY <1>1, <2>2, LdxStep
  <2>3. regs'[A] = v /\ regs'[S] = STACK_BEGIN
      BY <1>2, <2>2, <2>6, RegisterNames DEF Sets
  <2>4. StackAt(v, to, size, k + 1)'
      BY <1>4, <2>3 DEF StackAt
  <2>5. QED
      BY <2>6, <2>4 DEF Sets, StackGoes
<1>5. CASE k = 2
  <2>1. prog[2] = Op1("ldb", Long(Fill)) /\ regs[A] = v
      BY <1>5 DEF StackForm, StackAt
  <2> DEFINE p == Long(Fill)
  <2>2. prog[k] = Op1("ldb", p) /\ Plain(p) /\ Constant(p)
        /\ p.value = Fill
      BY <1>3, <1>5, <2>1, FillType
  <2> HIDE DEF p
  <2>6. Sets(B, p.value, At(prog, k + 1), FALSE) /\ UNCHANGED stopped
      BY <1>1, <2>2, LdxStep
  <2>3. regs'[B] = Fill /\ regs'[S] = STACK_BEGIN /\ regs'[A] = v
      BY <1>2, <2>1, <2>2, <2>6, RegisterNames DEF Sets
  <2>4. StackAt(v, to, size, k + 1)'
      BY <1>5, <2>3 DEF StackAt
  <2>5. QED
      BY <2>6, <2>4 DEF Sets, StackGoes
<1>6. QED
    BY <1>4, <1>5

(* The push. *)
LEMMA StackPushes ==
    ASSUME DataHolds, NEW prog, NEW v, NEW from, NEW to, NEW size, Built,
           StackForm(prog, v, from, to, size), Lies(mem, prog),
           regs[P] = At(prog, 3), StackAt(v, to, size, 3), Instruction
    PROVE  StackGoes(prog, v, to, size, 4)
<1>1. Reached(prog, 3)
    BY StackReached
<1>2. /\ regs[A] = v /\ regs[B] = Fill /\ regs[S] = STACK_BEGIN
      /\ v \in WordRange /\ Plain(from)
      /\ prog[3] = Op1("push", from)
    BY DEF StackForm, StackAt
<1>3. /\ ValueError(from) = FALSE
      /\ size \in {1, 2, 4}
      /\ param_value_size(from) = size
      /\ value(from) \in WordRange
      /\ value(from) % Capacity(size) = v % Capacity(size)
  <2>1. PushedAs(from, v, size)
      BY <1>2, PushedSource
  <2>2. QED
      BY <2>1 DEF PushedAs
<1>4. RoomBelow
    BY <1>2, CpuAssumption, MemAssumption DEF DataHolds, RoomBelow
<1>5. Pushes(prog, At(prog, 3 + 1), value(from), size)
    BY <1>1, <1>2, <1>3, <1>4, PushStep
<1>6. /\ regs'[A] = v /\ regs'[B] = Fill /\ regs'[S] = STACK_BEGIN - size
    BY <1>2, <1>5, RegisterNames DEF Moves, Pushes
<1>7. mem_read(mem', regs'[S], size) = v % Capacity(size)
    BY <1>2, <1>3, <1>5, <1>6 DEF Pushes
<1>8. StackAt(v, to, size, 4)'
    BY <1>6, <1>7 DEF StackAt
<1>9. QED
    BY <1>5, <1>6, <1>8 DEF Moves, Pushes, StackGoes

(* The pop. *)
LEMMA StackPops ==
    ASSUME DataHolds, NEW prog, NEW v, NEW from, NEW to, NEW size, Built,
           StackForm(prog, v, from, to, size), Lies(mem, prog),
           regs[P] = At(prog, 4), StackAt(v, to, size, 4), Instruction
    PROVE  StackGoes(prog, v, to, size, 5)
<1>1. Reached(prog, 4)
    BY StackReached
<1> DEFINE w == mem_read(mem, regs[S], size)
<1>2. /\ regs[A] = v /\ regs[B] = Fill /\ regs[S] = STACK_BEGIN - size
      /\ v \in WordRange /\ w = v % Capacity(size)
      /\ prog[4] = Op1("pop", to) /\ Matches(from, to, v, size)
    BY DEF StackForm, StackAt
<1>3. size \in {1, 2, 4} /\ regs[S] + size = STACK_BEGIN
      /\ RoomAbove(size)
  <2>1. size \in {1, 2, 4}
      BY <1>2 DEF Matches
  <2>2. QED
      BY <1>2, <2>1, CpuAssumption, MemAssumption DEF RoomAbove
<1>4. v \in Int
    BY <1>2, Widths DEF WordRange
<1>5. \A x : Overlaid(x, w, size) = Overlaid(x, v, size)
    BY <1>2, <1>4, LowTwice DEF Overlaid
<1>6. ASSUME NEW which \in {1, 17, 33}, to = Reg(which),
             size = register_size(which)
      PROVE  StackGoes(prog, v, to, size, 5)
  <2>1. /\ mem' = mem /\ halted' = FALSE /\ phase' = "running"
        /\ UNCHANGED stopped
        /\ regs'[P] = At(prog, 4 + 1)
        /\ regs'[S] = regs[S] + size
        /\ regs'[B] = Overlaid(regs[B], w, size)
        /\ regs'[A] = regs[A]
    <3>1. prog[4] = Op1("pop", Reg(which))
        BY <1>2, <1>6
    <3>2. Pops(At(prog, 4 + 1), size)
        BY <1>1, <1>3, <1>6, <3>1, PopStep
    <3>3. QED
        BY <3>2 DEF Pops
  <2>2. to.mode = Register
      BY <1>6 DEF Reg, Param
  <2>3. Dest(to, regs', mem') = Overlaid(Fill, v, size)
      BY <1>2, <1>5, <2>1, <2>2 DEF Dest
  <2> HIDE DEF w
  <2>4. StackAt(v, to, size, 5)'
      BY <1>2, <1>3, <2>1, <2>3 DEF StackAt, Dest
  <2>5. QED
      BY <2>1, <2>4 DEF StackGoes, Lies
<1>7. ASSUME to = Absolute(Cell), size = 4
      PROVE  StackGoes(prog, v, to, size, 5)
  <2>1. /\ mem' = mem_write(mem, Cell, mem_read(mem, regs[S], 4), 4)
        /\ mem' \in Memory /\ Lies(mem', prog)
        /\ halted' = FALSE /\ phase' = "running" /\ UNCHANGED stopped
        /\ regs'[P] = At(prog, 4 + 1)
        /\ regs'[S] = regs[S] + 4
        /\ regs'[A] = regs[A]
    <3>1. regs[S] + 4 <= MEM_SIZE
        BY <1>3, <1>7 DEF RoomAbove
    <3>2. QED
        BY <1>1, <1>2, <1>7, <3>1, PopCellStep
  <2>2. w = v % Capacity(4) /\ v % Capacity(4) = v
      BY <1>2, <1>7, WholeOverlaid
  <2> HIDE DEF w
  <2>3. mem_read(mem', Cell, 4) = v
    <3>1. mem' = mem_write(mem, Cell, v, 4)
        BY <1>7, <2>1, <2>2 DEF w
    <3>2. /\ mem \in Memory /\ Cell \in Nat /\ Cell + 4 <= MEM_SIZE
          /\ 4 \in {1, 2, 4}
        BY DEF Built, DataHolds
    <3>3. mem_read(mem', Cell, 4) = Overlaid(mem_read(mem, Cell, 4), v, 4)
        BY <1>2, <3>1, <3>2, StoreOverlays
    <3>4. mem_read(mem, Cell, 4) \in WordRange
        BY <3>2, MemReadType
    <3>5. QED
        BY <1>2, <3>3, <3>4, WholeOverlaid
  <2>4. to.mode # Register
      BY <1>7 DEF Absolute, Param, AbsoluteAddress, Register
  <2>5. Overlaid(Fill, v, size) = v
      BY <1>2, <1>7, FillType, WholeOverlaid
  <2>6. StackAt(v, to, size, 5)'
      BY <1>2, <1>3, <1>7, <2>1, <2>3, <2>4, <2>5 DEF StackAt, Dest
  <2>7. QED
      BY <2>1, <2>6 DEF StackGoes
<1>8. register_size(1) = 4 /\ register_size(33) = 2 /\ register_size(17) = 1
    BY DEF register_size, RegClass
<1>9. QED
    BY <1>2, <1>6, <1>7, <1>8 DEF Matches

(* The end. *)
LEMMA StackHalts ==
    ASSUME DataHolds, NEW prog, NEW v, NEW from, NEW to, NEW size, Built,
           StackForm(prog, v, from, to, size), Lies(mem, prog),
           regs[P] = At(prog, 5), StackAt(v, to, size, 5), Instruction
    PROVE  mem' = mem /\ StackOver(v, to, size)'
<1>1. Reached(prog, 5) /\ prog[5] = Op0("hlt")
    BY StackReached DEF StackForm
<1>2. Passes(At(prog, 5 + 1), TRUE)
    BY <1>1, HltStep
<1>3. Sets(A, regs[A], At(prog, 5 + 1), TRUE)
    BY <1>2, RegisterNames DEF Passes
<1>4. /\ mem' = mem /\ halted' = TRUE /\ phase' = "running"
      /\ regs'[A] = regs[A] /\ regs'[B] = regs[B] /\ regs'[S] = regs[S]
    BY <1>3, RegisterNames DEF Sets
<1>5. StackAt(v, to, size, 6)'
    BY <1>4 DEF StackAt, Dest
<1>6. QED
    BY <1>4, <1>5 DEF StackOver

(* Every step keeps the invariant. *)
LEMMA StackNext ==
    ASSUME DataHolds, NEW prog, NEW v, NEW from, NEW to, NEW size,
           StackInv(prog, v, from, to, size), [Next]_vars,
           SetupHolds, SetupHolds'
    PROVE  StackInv(prog, v, from, to, size)'
<1>1. /\ Built /\ Built' /\ StackForm(prog, v, from, to, size)
      /\ Lies(mem, prog)
    BY NextType DEF StackInv
<1>2. ASSUME mem' = mem, regs' = regs, NEW k, StackAt(v, to, size, k)
      PROVE  StackAt(v, to, size, k)'
    BY <1>2 DEF StackAt, Dest
<1>3. CASE Aside
  <2>1. mem' = mem /\ regs' = regs
      BY <1>3, StaysOver
  <2>2. CASE StackOn(prog, v, to, size)
    <3>1. PICK k \in 1 .. 5 :
              regs[P] = At(prog, k) /\ StackAt(v, to, size, k)
        BY <2>2 DEF StackOn
    <3>2. ValidPc
      <4>1. Reached(prog, k)
          BY <1>1, <3>1, StackReached
      <4>2. QED
          BY <4>1, Fetched DEF Reached
    <3>3. ~halted' /\ ~stopped' /\ phase' # "returned"
        BY <1>3, <2>2, <3>2, StaysOn DEF StackOn
    <3>4. StackOn(prog, v, to, size)'
        BY <1>2, <2>1, <3>1, <3>3 DEF StackOn
    <3>5. QED
        BY <1>1, <2>1, <3>4 DEF StackInv, Lies
  <2>3. CASE StackOver(v, to, size)
    <3>1. StackOver(v, to, size)'
        BY <1>2, <1>3, <2>1, <2>3, StaysOver DEF StackOver
    <3>2. QED
        BY <1>1, <2>1, <3>1 DEF StackInv, Lies
  <2>4. QED
      BY <2>2, <2>3 DEF StackInv
<1>4. CASE Instruction
  <2>1. phase = "running" /\ ~halted
      BY <1>4, HandlerOf DEF Fetching, Running
  <2>2. StackOn(prog, v, to, size)
      BY <2>1 DEF StackInv, StackOver
  <2>3. PICK k \in 1 .. 5 :
            regs[P] = At(prog, k) /\ StackAt(v, to, size, k)
      BY <2>2 DEF StackOn
  <2>4. ASSUME NEW next \in 1 .. 5, StackGoes(prog, v, to, size, next)
        PROVE  StackInv(prog, v, from, to, size)'
    <3>1. StackOn(prog, v, to, size)'
        BY <2>2, <2>4 DEF StackGoes, StackOn
    <3>2. QED
        BY <1>1, <2>4, <3>1 DEF StackInv, StackGoes, Lies
  <2>5. CASE k \in {1, 2}
    <3>1. k + 1 \in 1 .. 5
        BY <2>5
    <3>2. QED
        BY <1>1, <1>4, <2>3, <2>4, <2>5, <3>1, StackLoads
  <2>6. CASE k = 3
    <3>1. 4 \in 1 .. 5
        OBVIOUS
    <3>2. QED
        BY <1>1, <1>4, <2>3, <2>4, <2>6, <3>1, StackPushes
  <2>7. CASE k = 4
    <3>1. 5 \in 1 .. 5
        OBVIOUS
    <3>2. QED
        BY <1>1, <1>4, <2>3, <2>4, <2>7, <3>1, StackPops
  <2>8. CASE k = 5
    <3>1. mem' = mem /\ StackOver(v, to, size)'
        BY <1>1, <1>4, <2>3, <2>8, StackHalts
    <3>2. QED
        BY <1>1, <3>1 DEF StackInv, Lies
  <2>9. QED
      BY <2>5, <2>6, <2>7, <2>8
<1>5. QED
    BY <1>1, <1>3, <1>4, AsideOrInstruction

(* At the end the value is where it was popped to. *)
LEMMA StackEnds ==
    ASSUME DataHolds, NEW prog, NEW v, NEW from, NEW to, NEW size,
           StackInv(prog, v, from, to, size)
    PROVE  PopUndoesPush
<1> SUFFICES ASSUME phase = "returned"
             PROVE  PopUndoesPush
    BY DEF PopUndoesPush
<1> DEFINE push == parse_instruction(mem, ROM_START + 12)
           pop == parse_instruction(mem, ROM_START + 12 + push.len)
<1>1. /\ Built /\ StackForm(prog, v, from, to, size) /\ Lies(mem, prog)
      /\ mem \in Memory /\ StackAt(v, to, size, 6)
    BY DEF StackInv, StackOn, StackOver, Built
<1>2. /\ regs[A] = v /\ regs[S] = STACK_BEGIN
      /\ Dest(to, regs, mem) = Overlaid(Fill, v, size)
    BY <1>1 DEF StackAt
<1>3. Moved(from) = size
  <2>1. PushedAs(from, v, size)
      BY <1>1, <1>2, PushedSource
  <2>2. QED
      BY <2>1 DEF PushedAs
<1>4. /\ Encodable(prog) /\ Size(prog) <= ROM_SIZE
      /\ 3 \in 1 .. Len(prog) /\ 4 \in 1 .. Len(prog)
      /\ prog[3].p1 = from /\ prog[4].p1 = to /\ Plain(from) /\ Plain(to)
    BY <1>1 DEF StackForm, Op1
<1>5. At(prog, 3) = ROM_START + 12
    BY <1>1, PushPlace
<1>6. push.p1 = from /\ At(prog, 3 + 1) = At(prog, 3) + push.len
    BY <1>1, <1>4, <1>5, Found
<1>7. pop.p1 = to
  <2>1. At(prog, 4) = ROM_START + 12 + push.len
      BY <1>5, <1>6
  <2>2. QED
      BY <1>1, <1>4, <2>1, Found
<1> HIDE DEF push, pop
<1>8. Dest(pop.p1, regs, mem)
          = Fill - (Fill % Capacity(Moved(push.p1)))
                + (regs[A] % Capacity(Moved(push.p1)))
    BY <1>2, <1>3, <1>6, <1>7 DEF Overlaid
<1>9. QED
    BY <1>2, <1>8 DEF PopUndoesPush, Dest, push, pop

(* One of the stack programs is loaded. *)
StackLoaded == \E prog \in Stacks : Loaded(Assemble(prog, ROM_START))

(* The invariant, of some stack program. *)
StackGiven == \E prog, v, from, to, size : StackInv(prog, v, from, to, size)

(* It holds when a stack program has been loaded. *)
LEMMA StackBegins ==
    ASSUME DataHolds, Init, StackLoaded
    PROVE  StackGiven
<1>1. PICK prog \in Stacks : Loaded(Assemble(prog, ROM_START))
    BY DEF StackLoaded
<1>2. PICK v \in WordRange : \E from, to : \E size :
          StackForm(prog, v, from, to, size)
    BY StackShape
<1>3. PICK from, to : \E size : StackForm(prog, v, from, to, size)
    BY <1>2
<1>4. PICK size : StackForm(prog, v, from, to, size)
    BY <1>3
<1>5. /\ Built /\ ~halted /\ ~stopped /\ phase = "host"
      /\ Lies(mem, prog) /\ regs[P] = At(prog, 1) /\ regs[S] = STACK_BEGIN
    BY <1>1, <1>4, BegunWith DEF StackForm
<1>6. StackAt(v, to, size, 1) /\ 1 \in 1 .. 5
    BY <1>5 DEF StackAt
<1>7. StackInv(prog, v, from, to, size)
    BY <1>4, <1>5, <1>6 DEF StackInv, StackOn
<1>8. QED
    BY <1>7 DEF StackGiven

(* A pop puts what a push of as many bytes has taken, of a constant, a     *)
(* register, a part of one or a word in memory, to the low bytes of its    *)
(* destination and leaves the others; the register S is then where it was. *)
THEOREM PopsUndoPushes ==
    ASSUME DataHolds
    PROVE  Spec /\ []SetupHolds /\ StackLoaded => []PopUndoesPush
<1>1. Init /\ StackLoaded => StackGiven
    BY StackBegins
<1>2. StackGiven /\ [Next]_vars /\ SetupHolds /\ SetupHolds' => StackGiven'
  <2> SUFFICES ASSUME StackGiven, [Next]_vars, SetupHolds, SetupHolds'
               PROVE  StackGiven'
      OBVIOUS
  <2>1. PICK prog, v, from, to, size : StackInv(prog, v, from, to, size)
      BY DEF StackGiven
  <2>2. StackInv(prog, v, from, to, size)'
      BY <2>1, StackNext
  <2>3. QED
      BY <2>2 DEF StackGiven
<1>3. StackGiven => PopUndoesPush
    BY StackEnds DEF StackGiven
<1>4. QED
    BY <1>1, <1>2, <1>3, PTL DEF Spec
=============================================================================
