-------------------------------- MODULE Data --------------------------------
(***************************************************************************)
(* Data movement.  Three families of programs:                             *)
(*   transfers   a store of some size through one addressing mode, read    *)
(*               back through another one;                                 *)
(*   stacks      a push and a pop of the same size;                        *)
(*   singles     one instruction, of every kind of handler, with every     *)
(*               kind of parameter: valid, not writable, naming no         *)
(*               register, of a mode that does not exist.                  *)
(* Their first instruction tells them apart.                               *)
(***************************************************************************)
EXTENDS Tx8Cpu, Programs

CONSTANTS
    Cell,       \* address of a word of memory the programs use
    Offsets,    \* values of O below and above Cell
    Values      \* words that are moved

(* Cell relative to an O register; a negative offset is encoded in 24 bits.*)
From(offset) == Relative((Cell - offset) % ADDRESS)

-----------------------------------------------------------------------------
Fill == WORD - 2

Sources(v) ==
    {Byte(v % BYTE), Short(v % SHORT), Long(v),
     Reg(A), Reg(LowByte(A)), Reg(LowHalf(A))}

TransferProgram(v, offset, store, read) ==
    << Op2("lw", Reg(A), Long(v)),
       Op2("lw", Reg(O), Long(offset)),
       Op2("lw", Reg(B), Long(Cell)),
       Op2("lw", Absolute(Cell), Long(Fill)),
       store,
       Op1("ldc", read),
       Op0("hlt") >>

Transfers == UNION {
    LET modes == {Absolute(Cell), From(offset), Deref(B)}
        stores == {Op2(op, to, from) : op \in {"ld", "lds", "lw", "lws"},
                      to \in modes, from \in Sources(v)}
                  \cup {Op1("sta", to) : to \in modes}
    IN  {TransferProgram(v, offset, store, read) :
            store \in stores, read \in modes} :
    v \in Values, offset \in Offsets}

-----------------------------------------------------------------------------
StackProgram(v, w, from, to) ==
    << Op1("lda", Long(v)),
       Op1("ldb", Long(w)),
       Op1("push", from),
       Op1("pop", to),
       Op0("hlt") >>

Matching(v) ==
    {Long(v), Reg(A), Absolute(ROM_START + 2)} \X {Reg(B), Absolute(Cell)}
    \cup {Short(v % SHORT), Reg(LowHalf(A))} \X {Reg(LowHalf(B))}
    \cup {Byte(v % BYTE), Reg(LowByte(A))} \X {Reg(LowByte(B))}

Stacks == UNION {{StackProgram(v, Fill, pair[1], pair[2]) :
                    pair \in Matching(v)} : v \in Values}

-----------------------------------------------------------------------------
SingleProgram(v, single) ==
    << Op1("ldb", Byte(Cell)),
       Op2("lw", Reg(A), Long(v)),
       Op2("lw", Reg(R), Byte(3)),
       single,
       Op0("hlt") >>

Places == {Byte(MEM_SIZE), Long(WORD - 1), Absolute(Cell), From(0), Deref(B),
           Reg(A), Reg(LowByte(A)), Reg(LowHalf(B)), Reg(R), Reg(S), Reg(P),
           Reg(8), Reg(9), Reg(48), Deref(9)}
Operands == {Byte(3), Byte(0), Long(WORD - 1), Absolute(ROM_START),
             Reg(LowByte(B)), Deref(B), Reg(9), Param(8, 0)}

Ops2 == {"ld", "lds", "lw", "lws", "cmp", "ucmp", "fcmp", "add", "usub",
         "div", "mod", "udiv", "max", "sll", "test", "fadd", "fmax"}
Ops1 == {"jmp", "jne", "call", "sys", "lda", "sta", "zero", "push", "pop",
         "inc", "not", "abs", "fabs", "rand", "rseed", "itf"}
Ops0 == {"hlt", "nop", "ret", "stop", "ei", "di", "inv"}

Singles == {SingleProgram(5000, Op1(op, p)) : op \in Ops1, p \in Places}
           \cup {SingleProgram(5000, Op0(op)) : op \in Ops0}
           \cup {SingleProgram(IF op \in DivisionOps THEN WORD \div 2
                               ELSE 5000, Op2(op, p, q)) :
                    op \in Ops2, p \in Places, q \in Operands}

DataRoms == {Assemble(prog, ROM_START) :
                prog \in Transfers \cup Stacks \cup Singles}

-----------------------------------------------------------------------------
First == op_function(mem[ROM_START])
IsTransfer == First = "lw"
IsStack == First = "lda"

(* The bytes an instruction moves from a source, by its mode alone. *)
Moved(p) == CASE p.mode = Constant8 -> 1 [] p.mode = Constant16 -> 2
              [] p.mode = Constant32 -> 4 [] p.mode = AbsoluteAddress -> 4
              [] p.mode = Register -> register_size(p.value)

(* A store through an absolute address, an address relative to O or a      *)
(* register address is seen by a load through any of them.  ld moves as    *)
(* many bytes as its source has and leaves the rest of the cell alone; lw  *)
(* moves a whole word, extended as the operation says; sta all of A. *)
StoresAlias ==
    LET store == parse_instruction(mem, ROM_START + 30)
        size == IF store.op = "sta" THEN 4 ELSE Moved(store.p2)
        from == IF store.op = "sta" \/ store.p2.mode = Register THEN regs[A]
                ELSE store.p2.value
        word == IF store.op = "lws" THEN SignExtend(from, size)
                ELSE from % Capacity(size)
        kept == IF store.op \in {"ld", "lds"}
                THEN Fill - (Fill % Capacity(size)) ELSE 0
    IN  phase = "returned" /\ IsTransfer => regs[C] = kept + word

(* A pop returns what a push of that size put on the stack, to the low     *)
(* bytes of its destination only, and S is where it was before. *)
PopUndoesPush ==
    LET push == parse_instruction(mem, ROM_START + 12)
        pop == parse_instruction(mem, ROM_START + 12 + push.len)
        size == Moved(push.p1)
        pushed == regs[A] % Capacity(size)
        dest == IF pop.p1.mode = Register THEN regs[B]
                ELSE mem_read(mem, Cell, 4)
    IN  phase = "returned" /\ IsStack =>
            /\ regs[S] = STACK_BEGIN
            /\ dest = Fill - (Fill % Capacity(size)) + pushed

-----------------------------------------------------------------------------
(* What an instruction may change, by the specification of the instruction *)
(* set: its first parameter if that is a destination, R if it is one of    *)
(* the operations that report through R, S if it uses the stack. *)
WritesFirst == {"ld", "lds", "lw", "lws", "sta", "stb", "stc", "std", "zero",
                "pop", "rand"} \cup AluOps
WritesR == {"cmp", "fcmp", "ucmp", "inc", "dec", "add", "sub", "uadd", "usub",
            "mul", "umul", "div", "udiv", "max", "min", "umax", "umin",
            "fmax", "fmin", "abs", "fabs", "slr", "sar", "sll", "set", "clr",
            "tgl", "test", "rand"}
UsesStack == {"push", "pop", "call", "ret", "sys"}
Loads == [lda |-> A, ldb |-> B, ldc |-> C, ldd |-> D]

MayChange(i) ==
    {P} \cup (IF i.op \in WritesR THEN {R} ELSE {})
        \cup (IF i.op \in UsesStack THEN {S} ELSE {})
        \cup (IF i.op \in WritesFirst /\ i.p1.mode = Register
              THEN {RegId(i.p1.value)} ELSE {})
        \cup (IF i.op \in DOMAIN Loads THEN {Loads[i.op]} ELSE {})

(* An instruction changes no register it is not specified to change; R in  *)
(* particular keeps its value unless the operation reports through it. *)
RegisterFrame ==
    [][Fetching => \A id \in 0 .. REGISTER_COUNT - 1 :
           regs'[id] # regs[id] => id \in MayChange(inst)]_vars

(* Writing the byte or the half of a register keeps its upper bytes. *)
UpperBytesKept ==
    [][Fetching /\ inst.op \in WritesFirst /\ inst.p1.mode = Register
       /\ ~RegError(inst.p1.value) =>
         LET id == RegId(inst.p1.value)
             c == Capacity(register_size(inst.p1.value))
         IN  (id = R /\ inst.op \in WritesR) \/ id \in {P, S}
             \/ regs'[id] \div c = regs[id] \div c]_vars

(* An instruction stores at most once, at most a word, and only if it has  *)
(* a destination in memory or pushes; nothing else moves in memory. *)
StoreFootprint ==
    [][Fetching =>
         LET changed == {c \in Cells : mem'[c] # mem[c]}
         IN  /\ \A c, d \in changed : c - d < 4
             /\ changed # {} =>
                  \/ inst.op \in WritesFirst /\ inst.p1.mode # Register
                  \/ inst.op \in {"push", "call", "sys"}]_vars

(* An operation whose destination is not writable, a division by zero and  *)
(* a parameter that names no register end the run, and a destination that  *)
(* is not writable is found before anything has changed.  (pop through a   *)
(* register address does not look at the register.  A division whose       *)
(* dividend is read through such a parameter may be one that traps: the    *)
(* process is then gone before the loop ends.) *)
Names(p) == p.mode \in {Register, RegisterAddress} /\ RegError(p.value)
FaultsHalt ==
    [][Fetching /\ inst.op \in WritesFirst \cup {"push", "lda", "rseed"} =>
         /\ Names(inst.p1) /\ (inst.op = "pop" => inst.p1.mode = Register)
              => halted' \/ phase' = "crashed"
         /\ inst.op \in DivisionOps
            /\ operand(inst.op, inst.p2) = 0 => halted'
         /\ inst.op \in WritesFirst
            /\ ~(inst.p1.mode \in AbsoluteAddress .. RegisterAddress) =>
              /\ halted'
              /\ mem' = mem
              /\ \A id \in DOMAIN regs : id # P => regs'[id] = regs[id]]_vars
=============================================================================
