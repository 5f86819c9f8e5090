---------------------------- MODULE Divergences ----------------------------
(***************************************************************************)
(* What the specification of tx8 (spec/spec.md) says and the code does not *)
(* do.  Each property below is violated by the program it is about.        *)
(***************************************************************************)
EXTENDS Tx8Cpu, Programs

NoHash == [name \in {} |-> 0]

(* :l jmp :l *)
SelfJump == << Op1("jmp", To(1)), Op0("hlt") >>

(* A pushed byte is popped to a cell that is given relative to O. *)
PopCell == 100
RelativePop == << Op2("lw", Reg(O), Byte(60)),
                  Op1("push", Long(77)),
                  Op1("pop", Relative(PopCell - 60)),
                  Op0("hlt") >>

(* A word is stored at the last address, given with a bit above the 24     *)
(* that count. *)
EdgeStore == << Op2("lw", Reg(B), Long((MEM_SIZE + 1) + MEM_SIZE - 1)),
                Op2("lw", Deref(B), Long(WORD - 1)),
                Op0("hlt") >>

DivergentRoms == {Assemble(prog, ROM_START) :
                     prog \in {SelfJump, RelativePop, EdgeStore}}

-----------------------------------------------------------------------------
(* spec.md, Flow Control: after a jump the program counter shall not be    *)
(* incremented.  A jump to its own address is. *)
JumpsLand ==
    [][Fetching /\ inst.op \in {"jmp", "call"} /\ ~ValueError(inst.p1) =>
        regs'[P] = value(inst.p1)]_vars

(* spec.md, Parameter Modes: a relative address is offset by the register  *)
(* O.  pop stores to the address as it is written. *)
PopHonoursO ==
    phase = "returned" /\ op_function(mem[ROM_START + 4]) = "push" =>
        mem_read(mem, PopCell, 4) = 77

(* spec.md, Memory: when writing at the edge of memory, all out of bounds  *)
(* bytes, those beyond 0xffffff, are ignored.  An address that has to be   *)
(* truncated first lets the store run over the edge. *)
EdgeBytesIgnored == \A c \in Cells : c > MEM_SIZE => mem[c] = 0
=============================================================================
