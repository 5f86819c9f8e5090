----------------------------- MODULE Flow_proofs -----------------------------
(***************************************************************************)
(* Whole programs on the cpu: a comparison and the jump behind it, and a   *)
(* subroutine that calls itself, for all values that are compared and all  *)
(* depths, for every memory and stack that has room for them.              *)
(*                                                                         *)
(* The invariant says at which instruction the program is and what the     *)
(* registers it uses hold there; of the recursion it also says what lies   *)
(* on the stack, one return address for each call that is not finished.    *)
(* There is a lemma for each instruction, from the lemmas about steps of   *)
(* programs in Tx8Cpu_proofs.                                              *)
(***************************************************************************)
EXTENDS Flow, Tx8Cpu_proofs

-----------------------------------------------------------------------------
(* A word for each call of a recursion fits below the start of the stack,  *)
(* apart from the program. *)
RoomFor(n) ==
    /\ 4 * (n + 1) <= STACK_BEGIN
    /\ \/ STACK_BEGIN <= ROM_START
       \/ ROM_START + ROM_SIZE <= STACK_BEGIN - 4 * (n + 1)

(* The hypotheses of the theorems: the programs are those of Flow, with     *)
(* operands that are words and depths that are bytes; they fit where they   *)
(* are loaded, and their calls on the stack; and the address that one of    *)
(* the calls takes its target from can be written in an instruction. *)
FlowHolds ==
    /\ Roms \subseteq FlowRoms
    /\ Values \subseteq WordRange
    /\ Depths \subseteq ByteRange
    /\ \A prog \in Branches \cup Recursions : Size(prog) <= ROM_SIZE
    /\ \A n \in Depths : RoomFor(n)
    /\ PcLimit
    /\ ROM_START + 3 < ADDRESS

-----------------------------------------------------------------------------
(* What the instructions of the programs are. *)

BranchForm(prog) ==
    /\ Encodable(prog) /\ Size(prog) <= ROM_SIZE /\ Len(prog) = 8
    /\ \E v \in WordRange : prog[1] = Op2("lw", Reg(A), Long(v))
    /\ \E w \in WordRange : prog[2] = Op2("lw", Reg(B), Long(w))
    /\ \E compare \in {"cmp", "ucmp"}, x \in {0, 16}, y \in {1, 33} :
           prog[3] = Op2(compare, Reg(x), Reg(y))
    /\ \E jcc \in Conditions : prog[4] = Op1(jcc, To(7))
    /\ prog[5] = Op1("ldd", Byte(1)) /\ prog[6] = Op0("hlt")
    /\ prog[7] = Op1("ldd", Byte(2)) /\ prog[8] = Op0("hlt")
    /\ \A k \in 1 .. 9 : At(prog, k) \in WordRange

RecursionForm(prog, n) ==
    /\ Encodable(prog) /\ Size(prog) <= ROM_SIZE /\ Len(prog) = 10
    /\ n \in ByteRange /\ RoomFor(n)
    /\ prog[1] = Op2("lw", Reg(O), To(5))
    /\ prog[2] = Op1("lda", Byte(n))
    /\ \E target \in {To(5), Reg(O), Absolute(ROM_START + 3)} :
           prog[3] = Op1("call", target) /\ prog[8] = Op1("call", target)
    /\ prog[4] = Op0("stop")
    /\ prog[5] = Op2("cmp", Reg(A), Byte(0))
    /\ prog[6] = Op1("jeq", To(9))
    /\ prog[7] = Op1("dec", Reg(A))
    /\ prog[9] = Op1("inc", Reg(C))
    /\ prog[10] = Op0("ret")
    /\ \A k \in 1 .. 11 : At(prog, k) \in WordRange

(* Numbers that occur in the programs. *)
LEMMA SmallValues ==
    /\ 0 \in ByteRange /\ 1 \in ByteRange /\ 2 \in ByteRange
    /\ \A v \in ByteRange : v \in Nat /\ v < 256 /\ v < BYTE
    /\ BYTE \in Nat /\ BYTE >= 128 /\ ROM_START \in Nat
    /\ \A v \in {0, 1, 2, 5, 16, 33} : Plain(Reg(v))
    /\ \A v \in ByteRange : Plain(Byte(v))
<1>1. BYTE \in Nat /\ BYTE >= 128 /\ BYTE <= 256 /\ ROM_START \in Nat
    BY Widths, CpuAssumption
<1>2. /\ 0 \in ByteRange /\ 1 \in ByteRange /\ 2 \in ByteRange
      /\ \A v \in ByteRange : v \in Nat /\ v < 256 /\ v < BYTE
    BY <1>1 DEF ByteRange
<1>3. \A v \in {0, 1, 2, 5, 16, 33} : v \in 0 .. 127
    OBVIOUS
<1>4. QED
    BY <1>1, <1>2, <1>3, PlainReg, PlainByte

(* The programs of Flow have these forms. *)
LEMMA BranchShape ==
    ASSUME FlowHolds, NEW prog \in Branches
    PROVE  BranchForm(prog)
<1>1. PICK v \in Values, w \in Values, compare \in {"cmp", "ucmp"},
           x \in {A, LowByte(A)}, y \in {B, LowHalf(B)},
           jcc \in Conditions : prog = BranchProgram(v, w, compare, x, y, jcc)
    BY DEF Branches
<1>2. x \in {0, 16} /\ y \in {1, 33}
    BY DEF A, B, LowByte, LowHalf
<1>3. v \in WordRange /\ w \in WordRange /\ Size(prog) <= ROM_SIZE
    BY DEF FlowHolds
<1>4. /\ Len(prog) = 8 /\ DOMAIN prog = 1 .. 8
      /\ prog[1] = Op2("lw", Reg(A), Long(v))
      /\ prog[2] = Op2("lw", Reg(B), Long(w))
      /\ prog[3] = Op2(compare, Reg(x), Reg(y))
      /\ prog[4] = Op1(jcc, To(7))
      /\ prog[5] = Op1("ldd", Byte(1)) /\ prog[6] = Op0("hlt")
      /\ prog[7] = Op1("ldd", Byte(2)) /\ prog[8] = Op0("hlt")
    BY <1>1 DEF BranchProgram
<1>5. /\ Given(prog, Reg(A)) /\ Given(prog, Reg(B)) /\ Given(prog, Reg(x))
      /\ Given(prog, Reg(y)) /\ Given(prog, Byte(1)) /\ Given(prog, Byte(2))
      /\ Given(prog, Long(v)) /\ Given(prog, Long(w)) /\ Given(prog, To(7))
  <2>1. Refers(prog, To(7))
      BY <1>4 DEF Refers
  <2>2. Plain(Long(v)) /\ Plain(Long(w))
      BY <1>3, PlainLong
  <2>3. Plain(Reg(A)) /\ Plain(Reg(B)) /\ Plain(Reg(x)) /\ Plain(Reg(y))
        /\ Plain(Byte(1)) /\ Plain(Byte(2))
      BY <1>2, SmallValues DEF A, B
  <2>4. QED
      BY <2>1, <2>2, <2>3 DEF Given
<1>6. /\ "lw" \in TwoParameters /\ compare \in TwoParameters
      /\ jcc \in OneParameter /\ "ldd" \in OneParameter
      /\ "hlt" \in NoParameter
    BY DEF TwoParameters, OneParameter, NoParameter, Conditions
<1>7. \A k \in 1 .. 8 : Regular(prog, prog[k])
  <2>1. /\ Regular(prog, prog[1]) /\ Regular(prog, prog[2])
        /\ Regular(prog, prog[3])
    <3>1. \A op \in TwoParameters : \A p, q :
              Given(prog, p) /\ Given(prog, q) => Regular(prog, Op2(op, p, q))
        BY DEF Regular
    <3>2. QED
        BY <1>4, <1>5, <1>6, <3>1
  <2>2. /\ Regular(prog, prog[4]) /\ Regular(prog, prog[5])
        /\ Regular(prog, prog[7])
    <3>1. \A op \in OneParameter : \A p :
              Given(prog, p) => Regular(prog, Op1(op, p))
        BY DEF Regular
    <3>2. QED
        BY <1>4, <1>5, <1>6, <3>1
  <2>3. Regular(prog, prog[6]) /\ Regular(prog, prog[8])
      BY <1>4, <1>6 DEF Regular
  <2>4. QED
      BY <2>1, <2>2, <2>3
<1>8. Written(prog)
    BY <1>4, <1>7 DEF Written
<1>9. Encodable(prog) /\ \A k \in 1 .. 9 : At(prog, k) \in WordRange
  <2>1. Len(prog) + 1 = 9
      BY <1>4
  <2>2. QED
      BY <1>3, <1>8, <2>1, WrittenEncodable
<1>10. QED
    BY <1>2, <1>3, <1>4, <1>9 DEF BranchForm

LEMMA RecursionShape ==
    ASSUME FlowHolds, NEW prog \in Recursions
    PROVE  \E n \in Depths : RecursionForm(prog, n)
<1>1. PICK n \in Depths, mode \in {Constant32, Register, AbsoluteAddress} :
          prog = RecursionProgram(n, mode)
    BY DEF Recursions
<1> DEFINE target == CASE mode = Constant32 -> To(5)
                       [] mode = Register -> Reg(O)
                       [] mode = AbsoluteAddress -> Absolute(ROM_START + 3)
<1>2. n \in ByteRange /\ RoomFor(n) /\ Size(prog) <= ROM_SIZE
    BY DEF FlowHolds
<1>3. target \in {To(5), Reg(O), Absolute(ROM_START + 3)}
    BY DEF Constant32, Register, AbsoluteAddress
<1>4. /\ Len(prog) = 10 /\ DOMAIN prog = 1 .. 10
      /\ prog[1] = Op2("lw", Reg(O), To(5))
      /\ prog[2] = Op1("lda", Byte(n))
      /\ prog[3] = Op1("call", target) /\ prog[4] = Op0("stop")
      /\ prog[5] = Op2("cmp", Reg(A), Byte(0))
      /\ prog[6] = Op1("jeq", To(9)) /\ prog[7] = Op1("dec", Reg(A))
      /\ prog[8] = Op1("call", target) /\ prog[9] = Op1("inc", Reg(C))
      /\ prog[10] = Op0("ret")
    BY <1>1 DEF RecursionProgram
<1> HIDE DEF target
<1>5. /\ Given(prog, Reg(A)) /\ Given(prog, Reg(C)) /\ Given(prog, Reg(O))
      /\ Given(prog, Byte(n)) /\ Given(prog, Byte(0)) /\ Given(prog, To(5))
      /\ Given(prog, To(9)) /\ Given(prog, target)
  <2>1. Refers(prog, To(5)) /\ Refers(prog, To(9))
    <3>1. 5 \in 1 .. Len(prog) + 1 /\ 9 \in 1 .. Len(prog) + 1
        BY <1>4
    <3>2. QED
        BY <3>1 DEF Refers
  <2>2. Plain(Reg(A)) /\ Plain(Reg(C)) /\ Plain(Reg(O))
        /\ Plain(Byte(n)) /\ Plain(Byte(0))
      BY <1>2, SmallValues DEF A, C, O
  <2>3. Plain(Absolute(ROM_START + 3))
    <3>1. ROM_START + 3 \in Nat /\ ROM_START + 3 < ADDRESS
          /\ ADDRESS \in Nat /\ WORD \in Nat /\ ADDRESS <= WORD
        BY SmallValues, Widths DEF FlowHolds
    <3> DEFINE a == ROM_START + 3
    <3>2. a \in WordRange
        BY <3>1 DEF WordRange
    <3> HIDE DEF a
    <3>3. /\ Absolute(a).mode = 4 /\ Absolute(a).value = a
          /\ Absolute(a) = [mode |-> 4, value |-> a]
        BY DEF Absolute, Param, AbsoluteAddress
    <3>4. Capacity(param_size(4)) = ADDRESS
      <4>1. param_size(4) = 3
          BY DEF param_size, AbsoluteAddress, RelativeAddress, Constant32,
             Constant8, Constant16, Register, RegisterAddress, Label
      <4>2. QED
          BY <4>1 DEF Capacity
    <3>5. a < ADDRESS
        BY <3>1 DEF a
    <3>6. Plain(Absolute(a))
        BY <3>2, <3>3, <3>4, <3>5 DEF Plain
    <3>7. QED
        BY <3>6 DEF a
  <2>4. QED
      BY <1>3, <2>1, <2>2, <2>3 DEF Given
<1>6. /\ "lw" \in TwoParameters /\ "cmp" \in TwoParameters
      /\ "lda" \in OneParameter /\ "call" \in OneParameter
      /\ "jeq" \in OneParameter /\ "dec" \in OneParameter
      /\ "inc" \in OneParameter
      /\ "stop" \in NoParameter /\ "ret" \in NoParameter
    BY DEF TwoParameters, OneParameter, NoParameter, Conditions
<1>7. \A k \in 1 .. 10 : Regular(prog, prog[k])
  <2>1. Regular(prog, prog[1]) /\ Regular(prog, prog[5])
    <3>1. \A op \in TwoParameters : \A p, q :
              Given(prog, p) /\ Given(prog, q) => Regular(prog, Op2(op, p, q))
        BY DEF Regular
    <3>2. QED
        BY <1>4, <1>5, <1>6, <3>1
  <2>2. /\ Regular(prog, prog[2]) /\ Regular(prog, prog[3])
        /\ Regular(prog, prog[6]) /\ Regular(prog, prog[7])
        /\ Regular(prog, prog[8]) /\ Regular(prog, prog[9])
    <3>1. \A op \in OneParameter : \A p :
              Given(prog, p) => Regular(prog, Op1(op, p))
        BY DEF Regular
    <3>2. QED
        BY <1>4, <1>5, <1>6, <3>1
  <2>3. Regular(prog, prog[4]) /\ Regular(prog, prog[10])
      BY <1>4, <1>6 DEF Regular
  <2>4. QED
      BY <2>1, <2>2, <2>3
<1>8. Written(prog)
    BY <1>4, <1>7 DEF Written
<1>9. Encodable(prog) /\ \A k \in 1 .. 11 : At(prog, k) \in WordRange
  <2>1. Len(prog) + 1 = 11
      BY <1>4
  <2>2. QED
      BY <1>2, <1>8, <2>1, WrittenEncodable
<1>10. RecursionForm(prog, n)
    BY <1>2, <1>3, <1>4, <1>9 DEF RecursionForm
<1>11. QED
    BY <1>10

-----------------------------------------------------------------------------
(* A comparison and a jump. *)

(* The jump is to be taken, where A holds a and B holds b. *)
Wins(prog, a, b) ==
    Holds(prog[4].op,
          Compared(prog[3].p1.value, a, prog[3].op = "cmp")
             - Compared(prog[3].p2.value, b, prog[3].op = "cmp"))

(* At the k-th instruction, up to the jump and on either side of it. *)
BranchAt(prog, k) ==
    LET wins == Wins(prog, regs[A], regs[B]) IN
    /\ k = 4 => (Holds(prog[4].op, Signed(regs[R], 4)) <=> wins)
    /\ k \in {5, 6} => ~wins
    /\ k \in {7, 8} => wins
    /\ k = 6 => regs[D] = 1
    /\ k = 8 => regs[D] = 2

BranchOn(prog) ==
    /\ ~halted /\ ~stopped /\ phase # "returned"
    /\ \E k \in 1 .. 8 : regs[P] = At(prog, k) /\ BranchAt(prog, k)

BranchOver(prog) ==
    /\ halted /\ phase # "host"
    /\ regs[D] = (IF Wins(prog, regs[A], regs[B]) THEN 2 ELSE 1)

BranchInv(prog) ==
    /\ Built /\ BranchForm(prog) /\ Lies(mem, prog)
    /\ BranchOn(prog) \/ BranchOver(prog)

(* What the handlers of the comparisons take for the two registers is what *)
(* their names say. *)
LEMMA ComparedRead ==
    ASSUME Built, NEW x \in {0, 16, 1, 33}, NEW id, id = RegId(x)
    PROVE  /\ Plain(Reg(x)) /\ ValueError(Reg(x)) = FALSE
           /\ Reg(x).value = x
           /\ value(Reg(x)) = Compared(x, regs[id], FALSE)
           /\ Signed(signed_value(Reg(x)), 4) = Compared(x, regs[id], TRUE)
<1>2. /\ RegClass(x) \in {0, 1, 2} /\ RegError(x) = FALSE
      /\ id \in {0, 1}
  <2>1. /\ 0 % 16 = 0 /\ 16 % 16 = 0 /\ 1 % 16 = 1 /\ 33 % 16 = 1
        /\ 0 \div 16 = 0 /\ 16 \div 16 = 1 /\ 1 \div 16 = 0 /\ 33 \div 16 = 2
      OBVIOUS
  <2>2. id \in {0, 1} /\ RegClass(x) \in {0, 1, 2}
      BY <2>1 DEF RegId, RegClass
  <2>3. QED
      BY <2>2 DEF RegError, REGISTER_COUNT
<1>3. Reg(x).value = x /\ Reg(x).mode = Register
    BY DEF Reg, Param
<1>4. Plain(Reg(x)) /\ ValueError(Reg(x)) = FALSE
    BY <1>2, <1>3, SmallValues DEF ValueError
<1>5. regs[id] \in Int /\ regs[id] \in WordRange
    BY <1>2 DEF Built, RegisterFile, REGISTER_COUNT, WordRange
<1> DEFINE v == regs[id]
           n == register_size(x)
           low == v % Capacity(n)
<1>6. reg_read(regs, x) = low
    BY <1>2 DEF reg_read
<1>7. value(Reg(x)) = low
    BY <1>3, <1>6 DEF value, get_param_value, Register, RegisterAddress,
       Constant8, Constant16, Constant32, AbsoluteAddress, RelativeAddress
<1>8. signed_value(Reg(x)) = reg_read_sign_extended(regs, x)
    BY <1>3 DEF signed_value, get_param_value_sign_extended, Register,
       Constant8, Constant16
<1>9. n \in {1, 2, 4} /\ (RegClass(x) = 0 => n = 4)
    BY RegisterSize DEF register_size
<1> HIDE DEF v, n
<1>10. low \in Int /\ Signed(low, n) = Signed(v, n)
  <2> DEFINE c == Capacity(n)
  <2>1. c \in Nat \ {0}
      BY CapacityRange
  <2>2. v \in Int
      BY <1>5 DEF v
  <2> HIDE DEF c
  <2>3. (v % c) \in Int /\ (v % c) % c = v % c
    <3>1. v % c \in 0 .. c - 1
        BY <2>1, <2>2, ModRange
    <3> DEFINE r == v % c
    <3> HIDE DEF r
    <3>2. r % c = r
        BY <2>1, <3>1, SmallMod DEF r
    <3>3. QED
        BY <3>1, <3>2 DEF r
  <2>4. QED
      BY <2>3 DEF Signed, c
<1> HIDE DEF low
<1>11. Signed(signed_value(Reg(x)), 4) = Signed(v, n)
  <2>1. CASE RegClass(x) \in {1, 2}
    <3>1. reg_read_sign_extended(regs, x) = SignExtend(low, n)
        BY <1>6, <2>1 DEF reg_read_sign_extended, n
    <3>2. QED
        BY <1>8, <1>10, <3>1, ExtendedRead
  <2>2. CASE RegClass(x) = 0
    <3>1. reg_read_sign_extended(regs, x) = low
        BY <1>6, <2>2 DEF reg_read_sign_extended
    <3>2. n = 4
        BY <1>9, <2>2
    <3>3. QED
        BY <1>8, <1>10, <3>1, <3>2
  <2>3. QED
      BY <1>2, <2>1, <2>2
<1>12. QED
    BY <1>3, <1>4, <1>7, <1>11 DEF Compared, v, n, low

(* Each instruction of such a program. *)
LEMMA BranchReached ==
    ASSUME FlowHolds, NEW prog, Built, BranchForm(prog), Lies(mem, prog),
           NEW k \in 1 .. 8, regs[P] = At(prog, k)
    PROVE  Reached(prog, k)
BY DEF Reached, BranchForm, FlowHolds

LEMMA BranchLoads ==
    ASSUME FlowHolds, NEW prog, Built, BranchForm(prog), Lies(mem, prog),
           NEW k \in {1, 2}, regs[P] = At(prog, k), Instruction
    PROVE  /\ mem' = mem /\ ~halted' /\ UNCHANGED stopped
           /\ phase' = "running" /\ regs'[P] = At(prog, k + 1)
<1>1. Reached(prog, k)
    BY BranchReached
<1>2. PICK id \in {A, B}, v \in WordRange :
          prog[k] = Op2("lw", Reg(id), Long(v))
    BY DEF BranchForm
<1>3. id \in 0 .. REGISTER_COUNT - 1 /\ id # P
    BY DEF A, B, P, REGISTER_COUNT
<1>4. Resolve(prog, ROM_START, Long(v)) = Long(v)
    BY PlainLong, PlainRead
<1> DEFINE p == Long(v)
<1> HIDE DEF p
<1>5. Sets(id, v, At(prog, k + 1), FALSE) /\ UNCHANGED stopped
    BY <1>1, <1>2, <1>3, <1>4, LwStep DEF p
<1>6. QED
    BY <1>5 DEF Sets

(* The comparison leaves in R what the jump decides by. *)
LEMMA BranchCompares ==
    ASSUME FlowHolds, NEW prog, Built, BranchForm(prog), Lies(mem, prog),
           regs[P] = At(prog, 3), Instruction
    PROVE  /\ mem' = mem /\ ~halted' /\ UNCHANGED stopped
           /\ phase' = "running"
           /\ regs'[P] = At(prog, 4) /\ BranchAt(prog, 4)'
<1>1. Reached(prog, 3)
    BY BranchReached
<1>2. PICK compare \in {"cmp", "ucmp"}, x \in {0, 16}, y \in {1, 33} :
          prog[3] = Op2(compare, Reg(x), Reg(y))
    BY DEF BranchForm
<1>3. PICK jcc \in Conditions : prog[4] = Op1(jcc, To(7))
    BY DEF BranchForm
<1>4. /\ prog[4].op = jcc /\ prog[3].op = compare
      /\ prog[3].p1 = Reg(x) /\ prog[3].p2 = Reg(y)
    BY <1>2, <1>3 DEF Op1, Op2
<1>5. /\ Plain(Reg(x)) /\ ValueError(Reg(x)) = FALSE /\ Reg(x).value = x
      /\ value(Reg(x)) = Compared(x, regs[A], FALSE)
      /\ Signed(signed_value(Reg(x)), 4) = Compared(x, regs[A], TRUE)
  <2>1. A = RegId(x) /\ x \in {0, 16, 1, 33}
      BY DEF RegId, A
  <2>2. QED
      BY <2>1, ComparedRead
<1>6. /\ Plain(Reg(y)) /\ ValueError(Reg(y)) = FALSE /\ Reg(y).value = y
      /\ value(Reg(y)) = Compared(y, regs[B], FALSE)
      /\ Signed(signed_value(Reg(y)), 4) = Compared(y, regs[B], TRUE)
  <2>1. B = RegId(y) /\ y \in {0, 16, 1, 33}
      BY DEF RegId, B
  <2>2. QED
      BY <2>1, ComparedRead
<1> DEFINE p == Reg(x)
           q == Reg(y)
           a == IF compare = "cmp" THEN Signed(signed_value(p), 4)
                ELSE value(p)
           b == IF compare = "cmp" THEN Signed(signed_value(q), 4)
                ELSE value(q)
<1>7. /\ a = Compared(prog[3].p1.value, regs[A], prog[3].op = "cmp")
      /\ b = Compared(prog[3].p2.value, regs[B], prog[3].op = "cmp")
  <2>1. CASE compare = "cmp"
      BY <1>4, <1>5, <1>6, <2>1
  <2>2. CASE compare = "ucmp"
    <3>1. (compare = "cmp") = FALSE
        BY <2>2
    <3>2. QED
        BY <1>4, <1>5, <1>6, <3>1
  <2>3. QED
      BY <2>1, <2>2
<1> HIDE DEF p, q
<1>8. /\ Sets(R, regs'[R], At(prog, 3 + 1), FALSE)
      /\ UNCHANGED stopped
      /\ \A j \in Conditions :
            Holds(j, Signed(regs'[R], 4)) <=> Holds(j, a - b)
  <2>1. /\ prog[3] = Op2(compare, p, q) /\ Plain(p) /\ Plain(q)
        /\ ValueError(p) = FALSE /\ ValueError(q) = FALSE
      BY <1>2, <1>5, <1>6 DEF p, q
  <2>2. /\ Sets(R, regs'[R], At(prog, 3 + 1), FALSE)
        /\ UNCHANGED stopped
        /\ \A j \in Conditions :
              /\ compare = "cmp" =>
                    (Holds(j, Signed(regs'[R], 4))
                       <=> Holds(j, Signed(signed_value(p), 4)
                                     - Signed(signed_value(q), 4)))
              /\ compare = "ucmp" =>
                    (Holds(j, Signed(regs'[R], 4))
                       <=> Holds(j, value(p) - value(q)))
      BY <1>1, <2>1, CmpStep
  <2>3. CASE compare = "cmp"
      BY <2>2, <2>3
  <2>4. CASE compare = "ucmp"
    <3>1. (compare = "cmp") = FALSE
        BY <2>4
    <3>2. QED
        BY <2>2, <2>4, <3>1
  <2>5. QED
      BY <2>3, <2>4
<1> HIDE DEF a, b
<1>9. regs'[A] = regs[A] /\ regs'[B] = regs[B]
    BY <1>8 DEF Sets, A, B, R, P, REGISTER_COUNT
<1>10. Wins(prog, regs[A], regs[B]) <=> Holds(jcc, a - b)
    BY <1>4, <1>7 DEF Wins
<1>11. Holds(jcc, Signed(regs'[R], 4)) <=> Wins(prog, regs'[A], regs'[B])
    BY <1>8, <1>9, <1>10
<1>12. BranchAt(prog, 4)'
    BY <1>4, <1>11 DEF BranchAt
<1>13. QED
    BY <1>8, <1>12 DEF Sets

(* The jump. *)
LEMMA BranchJumps ==
    ASSUME FlowHolds, NEW prog, Built, BranchForm(prog), Lies(mem, prog),
           regs[P] = At(prog, 4), BranchAt(prog, 4), Instruction
    PROVE  /\ mem' = mem /\ ~halted' /\ UNCHANGED stopped
           /\ phase' = "running"
           /\ \E k \in {5, 7} : regs'[P] = At(prog, k) /\ BranchAt(prog, k)'
<1>1. Reached(prog, 4)
    BY BranchReached
<1>2. PICK jcc \in Conditions : prog[4] = Op1(jcc, To(7))
    BY DEF BranchForm
<1>3. prog[4].op = jcc
    BY <1>2 DEF Op1
<1>4. At(prog, 7) \in WordRange /\ At(prog, 7) # At(prog, 4)
  <2>1. Encodable(prog) /\ Len(prog) = 8 /\ At(prog, 7) \in WordRange
      BY DEF BranchForm
  <2>2. 4 \in 1 .. Len(prog) + 1 /\ 7 \in 1 .. Len(prog) + 1 /\ 4 < 7
      BY <2>1
  <2>3. /\ At(prog, 4) \in Nat /\ At(prog, 7) \in Nat
        /\ At(prog, 4) < At(prog, 7)
      BY <2>1, <2>2, AtOrder
  <2>4. QED
      BY <2>1, <2>3
<1> DEFINE taken == Holds(jcc, Signed(regs[R], 4))
           next == IF taken THEN At(prog, 7) ELSE At(prog, 4 + 1)
<1>5. Passes(next, FALSE) /\ UNCHANGED stopped
    BY <1>1, <1>2, <1>4, JumpStep
<1> HIDE DEF taken
<1>6. /\ mem' = mem /\ halted' = FALSE /\ phase' = "running"
      /\ regs'[P] = next /\ regs'[A] = regs[A] /\ regs'[B] = regs[B]
  <2>1. A \in 0 .. REGISTER_COUNT - 1 /\ A # P
        /\ B \in 0 .. REGISTER_COUNT /\ B \notin {A, P}
      BY DEF A, B, P, REGISTER_COUNT
  <2>2. Sets(A, regs[A], next, FALSE)
      BY <1>5, <2>1 DEF Passes
  <2>3. QED
      BY <2>1, <2>2 DEF Sets
<1>7. taken <=> Wins(prog, regs'[A], regs'[B])
    BY <1>3, <1>6 DEF BranchAt, taken
<1>8. CASE taken
  <2>1. regs'[P] = At(prog, 7) /\ BranchAt(prog, 7)'
      BY <1>6, <1>7, <1>8 DEF BranchAt
  <2>2. QED
      BY <1>5, <1>6, <2>1
<1>9. CASE ~taken
  <2>1. regs'[P] = At(prog, 5) /\ BranchAt(prog, 5)'
      BY <1>6, <1>7, <1>9 DEF BranchAt
  <2>2. QED
      BY <1>5, <1>6, <2>1
<1>10. QED
    BY <1>8, <1>9

(* Either side notes in D which one it is, and ends. *)
LEMMA BranchSets ==
    ASSUME FlowHolds, NEW prog, Built, BranchForm(prog), Lies(mem, prog),
           NEW k \in {5, 7}, regs[P] = At(prog, k), BranchAt(prog, k),
           Instruction
    PROVE  /\ mem' = mem /\ ~halted' /\ UNCHANGED stopped
           /\ phase' = "running"
           /\ regs'[P] = At(prog, k + 1) /\ BranchAt(prog, k + 1)'
<1>1. Reached(prog, k)
    BY BranchReached
<1> DEFINE v == IF k = 5 THEN 1 ELSE 2
<1>2. prog[k] = Op1("ldd", Byte(v))
    BY DEF BranchForm
<1>3. v \in ByteRange
    BY SmallValues
<1> HIDE DEF v
<1>4. /\ Plain(Byte(v)) /\ Constant(Byte(v)) /\ Byte(v).value = v
    BY <1>3, SmallValues DEF Constant, Byte, Param
<1>5. Sets(D, v, At(prog, k + 1), FALSE) /\ UNCHANGED stopped
  <2> DEFINE p == Byte(v)
  <2> HIDE DEF p
  <2>1. Plain(p) /\ Constant(p) /\ p.value = v /\ prog[k] = Op1("ldd", p)
      BY <1>2, <1>4 DEF p
  <2>2. Sets(D, p.value, At(prog, k + 1), FALSE) /\ UNCHANGED stopped
      BY <1>1, <2>1, LdxStep
  <2>3. QED
      BY <2>1, <2>2
<1>6. regs'[A] = regs[A] /\ regs'[B] = regs[B] /\ regs'[D] = v
    BY <1>5 DEF Sets, A, B, D, P, REGISTER_COUNT
<1>7. BranchAt(prog, k + 1)'
  <2>1. CASE k = 5
      BY <1>6, <2>1 DEF BranchAt, v
  <2>2. CASE k = 7
      BY <1>6, <2>2 DEF BranchAt, v
  <2>3. QED
      BY <2>1, <2>2
<1>8. QED
    BY <1>5, <1>7 DEF Sets

LEMMA BranchHalts ==
    ASSUME FlowHolds, NEW prog, Built, BranchForm(prog), Lies(mem, prog),
           NEW k \in {6, 8}, regs[P] = At(prog, k), BranchAt(prog, k),
           Instruction
    PROVE  mem' = mem /\ BranchOver(prog)'
<1>1. Reached(prog, k)
    BY BranchReached
<1>2. prog[k] = Op0("hlt")
    BY DEF BranchForm
<1>3. Passes(At(prog, k + 1), TRUE)
    BY <1>1, <1>2, HltStep
<1>4. /\ A \in 0 .. REGISTER_COUNT - 1 /\ A # P
      /\ B \in 0 .. REGISTER_COUNT /\ B \notin {A, P}
      /\ D \in 0 .. REGISTER_COUNT /\ D \notin {A, P}
    BY DEF A, B, D, P, REGISTER_COUNT
<1>5. Sets(A, regs[A], At(prog, k + 1), TRUE)
    BY <1>3, <1>4 DEF Passes
<1>6. /\ mem' = mem /\ halted' = TRUE /\ phase' = "running"
      /\ regs'[A] = regs[A] /\ regs'[B] = regs[B] /\ regs'[D] = regs[D]
    BY <1>4, <1>5 DEF Sets
<1>7. regs[D] = IF Wins(prog, regs[A], regs[B]) THEN 2 ELSE 1
    BY DEF BranchAt
<1>8. QED
    BY <1>6, <1>7 DEF BranchOver

(* Every step keeps the invariant. *)
LEMMA BranchStep ==
    ASSUME FlowHolds, NEW prog, BranchInv(prog), [Next]_vars,
           SetupHolds, SetupHolds'
    PROVE  BranchInv(prog)'
<1>1. Built /\ Built' /\ BranchForm(prog) /\ Lies(mem, prog)
    BY NextType DEF BranchInv
<1>2. CASE Aside
  <2>1. mem' = mem /\ regs' = regs
      BY <1>2, StaysOver
  <2>2. CASE BranchOn(prog)
    <3>1. PICK k \in 1 .. 8 : regs[P] = At(prog, k) /\ BranchAt(prog, k)
        BY <2>2 DEF BranchOn
    <3>2. ValidPc
      <4>1. Reached(prog, k)
          BY <1>1, <3>1, BranchReached
      <4>2. QED
          BY <4>1, Fetched DEF Reached
    <3>3. BranchOn(prog)'
      <4>1. ~halted' /\ ~stopped' /\ phase' # "returned"
          BY <1>2, <2>2, <3>2, StaysOn DEF BranchOn
      <4>2. BranchAt(prog, k)'
          BY <2>1, <3>1 DEF BranchAt
      <4>3. QED
          BY <2>1, <3>1, <4>1, <4>2 DEF BranchOn
    <3>4. QED
        BY <1>1, <2>1, <3>3 DEF BranchInv, Lies
  <2>3. CASE BranchOver(prog)
    <3>1. BranchOver(prog)'
        BY <1>2, <2>1, <2>3, StaysOver DEF BranchOver
    <3>2. QED
        BY <1>1, <2>1, <3>1 DEF BranchInv, Lies
  <2>4. QED
      BY <2>2, <2>3 DEF BranchInv
<1>3. CASE Instruction
  <2>1. phase = "running" /\ ~halted
      BY <1>3, HandlerOf DEF Fetching, Running
  <2>2. BranchOn(prog)
      BY <2>1 DEF BranchInv, BranchOver
  <2>3. PICK k \in 1 .. 8 : regs[P] = At(prog, k) /\ BranchAt(prog, k)
      BY <2>2 DEF BranchOn
  <2>4. SUFFICES mem' = mem /\ (BranchOn(prog)' \/ BranchOver(prog)')
      BY <1>1 DEF BranchInv, Lies
  <2>5. ASSUME NEW next \in 1 .. 8, ~halted', UNCHANGED stopped,
               phase' = "running",
               regs'[P] = At(prog, next), BranchAt(prog, next)'
        PROVE  BranchOn(prog)'
      BY <2>2, <2>5 DEF BranchOn
  <2>6. CASE k \in {1, 2}
    <3>1. /\ mem' = mem /\ ~halted' /\ UNCHANGED stopped
          /\ phase' = "running" /\ regs'[P] = At(prog, k + 1)
        BY <1>1, <1>3, <2>3, <2>6, BranchLoads
    <3>2. k + 1 \in 1 .. 8 /\ BranchAt(prog, k + 1)'
        BY <2>6 DEF BranchAt
    <3>3. QED
        BY <2>5, <3>1, <3>2
  <2>7. CASE k = 3
    <3>1. 4 \in 1 .. 8
        OBVIOUS
    <3>2. QED
        BY <1>1, <1>3, <2>3, <2>5, <2>7, <3>1, BranchCompares
  <2>8. CASE k = 4
    <3>1. 5 \in 1 .. 8 /\ 7 \in 1 .. 8
        OBVIOUS
    <3>2. QED
        BY <1>1, <1>3, <2>3, <2>5, <2>8, <3>1, BranchJumps
  <2>9. CASE k \in {5, 7}
    <3>1. k + 1 \in 1 .. 8
        BY <2>9
    <3>2. QED
        BY <1>1, <1>3, <2>3, <2>5, <2>9, <3>1, BranchSets
  <2>10. CASE k \in {6, 8}
      BY <1>1, <1>3, <2>3, <2>10, BranchHalts
  <2>11. QED
      BY <2>6, <2>7, <2>8, <2>9, <2>10
<1>4. QED
    BY <1>1, <1>2, <1>3, AsideOrInstruction

-----------------------------------------------------------------------------
(* The beginning and the end. *)
LEMMA FlowInit ==
    ASSUME FlowHolds, Init
    PROVE  /\ Built /\ ~halted /\ ~stopped /\ phase = "host"
           /\ regs[S] = STACK_BEGIN /\ regs[C] = 0
           /\ \E prog \in Branches \cup Recursions :
                 Lies(mem, prog) /\ regs[P] = At(prog, 1)
<1>1. PICK rom \in Roms : Loaded(rom) \/ Rejected(rom)
    BY DEF Init
<1>2. PICK prog \in Branches \cup Recursions : rom = Assemble(prog, ROM_START)
    BY DEF FlowHolds, FlowRoms
<1>3. Encodable(prog) /\ Size(prog) <= ROM_SIZE
    BY BranchShape, RecursionShape DEF BranchForm, RecursionForm
<1>4. Len(rom) = Size(prog) /\ Size(prog) \in Nat /\ ROM_SIZE \in Nat
    BY <1>2, <1>3, Assembled, CpuAssumption
<1>5. Loaded(rom)
    BY <1>1, <1>3, <1>4 DEF Rejected
<1>6. Lies(mem, prog)
    BY <1>2, <1>3, <1>5, ProgramLoaded
<1>7. /\ regs[P] = ROM_START /\ regs[S] = STACK_BEGIN /\ regs[C] = 0
    BY <1>5 DEF Loaded, InitialRegisters, P, S, C, REGISTER_COUNT, ENTRY_POINT
<1>8. At(prog, 1) = ROM_START
  <2>1. \A k \in 1 .. 0 : calculate_instruction_length(prog[k]) \in Nat
      OBVIOUS
  <2>2. Offset(prog, 1) = 0 /\ ROM_START \in Nat
      BY <2>1, OffsetsAre, CpuAssumption
  <2>3. QED
      BY <2>2 DEF At
<1>9. Built /\ ~halted /\ ~stopped /\ phase = "host"
    BY <1>5, InitType, BuiltType DEF Loaded
<1>10. QED
    BY <1>6, <1>7, <1>8, <1>9

LEMMA BranchInit ==
    ASSUME FlowHolds, Built, ~halted, ~stopped, phase = "host",
           NEW prog \in Branches, Lies(mem, prog), regs[P] = At(prog, 1)
    PROVE  BranchInv(prog)
<1>1. BranchAt(prog, 1)
    BY DEF BranchAt
<1>2. BranchForm(prog) /\ 1 \in 1 .. 8
    BY BranchShape
<1>3. QED
    BY <1>1, <1>2 DEF BranchInv, BranchOn

(* The two first instructions of every program have seven bytes each or,   *)
(* for the second of a recursion, a name of its own. *)
LEMMA LoadLength ==
    ASSUME NEW id, NEW p, p.mode \in {Constant32, Label}
    PROVE  calculate_instruction_length(Op2("lw", Reg(id), p)) = 7
<1>1. param_count(opcode_from_name("lw")) = 2
    BY Counts DEF TwoParameters
<1>2. param_size(Reg(id).mode) = 1 /\ param_size(p.mode) = 4
    BY DEF param_size, Reg, Param, Register, Constant8, Constant16, Constant32,
       RegisterAddress, AbsoluteAddress, RelativeAddress, Label
<1>3. QED
    BY <1>1, <1>2 DEF calculate_instruction_length, Op2

(* Where the second instruction lies. *)
LEMMA SecondAt ==
    ASSUME NEW prog, Encodable(prog), Size(prog) <= ROM_SIZE,
           NEW m \in Memory, Lies(m, prog), Len(prog) >= 2,
           calculate_instruction_length(prog[1]) = 7
    PROVE  /\ At(prog, 1) = ROM_START /\ At(prog, 2) = ROM_START + 7
           /\ op_function(m[ROM_START + 7]) = prog[2].op
<1>1. At(prog, 1) = ROM_START
  <2>1. \A k \in 1 .. 0 : calculate_instruction_length(prog[k]) \in Nat
      OBVIOUS
  <2>2. Offset(prog, 1) = 0 /\ ROM_START \in Nat
      BY <2>1, OffsetsAre, CpuAssumption
  <2>3. QED
      BY <2>2 DEF At
<1>2. Len(prog) \in Nat /\ 1 \in 1 .. Len(prog) /\ 2 \in 1 .. Len(prog)
    BY DEF Encodable
<1>3. At(prog, 1 + 1) = At(prog, 1) + 7
    BY <1>2, Listing
<1>4. parse_instruction(m, At(prog, 2)).op = prog[2].op
    BY <1>2, Listing DEF Resolved
<1>5. op_function(m[At(prog, 2)]) = prog[2].op
    BY <1>4 DEF parse_instruction
<1>6. QED
    BY <1>1, <1>3, <1>5

(* At the end the register D is as the order of the operands says. *)
LEMMA BranchEnds ==
    ASSUME FlowHolds, NEW prog, BranchInv(prog)
    PROVE  BranchFollowsOrder /\ CallsReturn
<1>1. /\ mem \in Memory /\ Lies(mem, prog) /\ Encodable(prog)
      /\ Size(prog) <= ROM_SIZE /\ Len(prog) = 8
    BY DEF BranchInv, BranchForm, Built
<1>2. PICK v \in WordRange : prog[1] = Op2("lw", Reg(A), Long(v))
    BY DEF BranchInv, BranchForm
<1>3. PICK w \in WordRange : prog[2] = Op2("lw", Reg(B), Long(w))
    BY DEF BranchInv, BranchForm
<1>4. PICK compare \in {"cmp", "ucmp"}, x \in {0, 16}, y \in {1, 33} :
          prog[3] = Op2(compare, Reg(x), Reg(y))
    BY DEF BranchInv, BranchForm
<1>5. PICK jcc \in Conditions : prog[4] = Op1(jcc, To(7))
    BY DEF BranchInv, BranchForm
<1>6. /\ calculate_instruction_length(prog[1]) = 7
      /\ calculate_instruction_length(prog[2]) = 7
    BY <1>2, <1>3, LoadLength DEF Long, Param
<1>7. /\ At(prog, 2) = ROM_START + 7
      /\ op_function(mem[ROM_START + 7]) = "lw"
  <2>1. prog[2].op = "lw"
      BY <1>3 DEF Op2
  <2>2. Len(prog) >= 2
      BY <1>1
  <2>3. QED
      BY <1>1, <1>6, <2>1, <2>2, SecondAt
<1>8. CallsReturn
    BY <1>7 DEF CallsReturn, IsRecursion
<1>9. BranchFollowsOrder
  <2> SUFFICES ASSUME phase = "returned"
               PROVE  regs[D] = (IF Taken THEN 2 ELSE 1)
      BY DEF BranchFollowsOrder
  <2>1. regs[D] = (IF Wins(prog, regs[A], regs[B]) THEN 2 ELSE 1)
      BY DEF BranchInv, BranchOn, BranchOver
  <2> DEFINE i == parse_instruction(mem, CompareAt)
  <2>2. CompareAt = At(prog, 3)
    <3>1. 2 \in 1 .. Len(prog) /\ ROM_START \in Nat
        BY <1>1, CpuAssumption
    <3>2. At(prog, 2 + 1) = At(prog, 2) + 7
        BY <1>1, <1>6, <3>1, Listing
    <3>3. QED
        BY <1>7, <3>1, <3>2 DEF CompareAt
  <2>3. /\ i.op = compare /\ i.p1 = Reg(x) /\ i.p2 = Reg(y)
        /\ CompareAt + i.len = At(prog, 4)
    <3>1. 3 \in 1 .. Len(prog)
        BY <1>1
    <3>2. /\ i = [op |-> Resolved(prog, 3).op,
                  p1 |-> Read(Resolved(prog, 3).p1),
                  p2 |-> Read(Resolved(prog, 3).p2),
                  len |-> calculate_instruction_length(prog[3])]
          /\ At(prog, 3 + 1) = At(prog, 3) + i.len
        BY <1>1, <2>2, <3>1, Listing
    <3>3. prog[3].op = compare /\ prog[3].p1 = Reg(x) /\ prog[3].p2 = Reg(y)
        BY <1>4 DEF Op2
    <3>4. Plain(Reg(x)) /\ Plain(Reg(y))
        BY SmallValues
    <3>5. /\ Read(Resolve(prog, ROM_START, Reg(x))) = Reg(x)
          /\ Read(Resolve(prog, ROM_START, Reg(y))) = Reg(y)
        BY <3>4, PlainRead
    <3>6. /\ Resolved(prog, 3).op = compare
          /\ Read(Resolved(prog, 3).p1) = Reg(x)
          /\ Read(Resolved(prog, 3).p2) = Reg(y)
        BY <3>3, <3>5 DEF Resolved
    <3> HIDE DEF i
    <3>7. QED
        BY <2>2, <3>2, <3>6
  <2>4. op_function(mem[CompareAt + i.len]) = jcc
    <3>1. 4 \in 1 .. Len(prog)
        BY <1>1
    <3>2. parse_instruction(mem, At(prog, 4)).op = prog[4].op
        BY <1>1, <3>1, Listing DEF Resolved
    <3>3. op_function(mem[At(prog, 4)]) = prog[4].op
        BY <3>2 DEF parse_instruction
    <3>4. prog[4].op = jcc
        BY <1>5 DEF Op1
    <3> HIDE DEF i
    <3>5. QED
        BY <2>3, <3>3, <3>4
  <2> DEFINE a == Compared(x, regs[A], compare = "cmp")
             b == Compared(y, regs[B], compare = "cmp")
  <2>5. Reg(x).value = x /\ Reg(y).value = y
      BY DEF Reg, Param
  <2>6. Wins(prog, regs[A], regs[B]) <=> Holds(jcc, a - b)
    <3>1. /\ prog[4].op = jcc /\ prog[3].op = compare
          /\ prog[3].p1.value = x /\ prog[3].p2.value = y
        BY <1>4, <1>5, <2>5 DEF Op1, Op2
    <3>2. QED
        BY <3>1 DEF Wins
  <2>7. a \in Int /\ b \in Int
    <3>1. regs[A] \in Int /\ regs[B] \in Int
        BY DEF BranchInv, Built, RegisterFile, A, B, REGISTER_COUNT, WordRange
    <3>2. ASSUME NEW which, NEW whole \in Int, NEW signed
          PROVE  Compared(which, whole, signed) \in Int
      <4> DEFINE n == register_size(which)
                 c == Capacity(n)
      <4> HIDE DEF n
      <4>1. c \in Nat \ {0}
          BY CapacityRange
      <4> HIDE DEF c
      <4>2. Signed(whole, n) \in Int
          BY SignedType
      <4>3. whole % c \in Int
          BY <4>1, ModRange
      <4>4. QED
          BY <4>2, <4>3 DEF Compared, n, c
    <3>3. QED
        BY <3>1, <3>2
  <2>8. Taken <=> CASE jcc = "jeq" -> a = b  [] jcc = "jne" -> a # b
                    [] jcc = "jgt" -> a > b  [] jcc = "jge" -> a >= b
                    [] jcc = "jlt" -> a < b  [] jcc = "jle" -> a <= b
    <3> HIDE DEF a, b
    <3>1. /\ Compared(i.p1.value, regs[A], i.op = "cmp") = a
          /\ Compared(i.p2.value, regs[B], i.op = "cmp") = b
        BY <2>3, <2>5 DEF a, b
    <3>2. QED
        BY <2>4, <3>1 DEF Taken
  <2> HIDE DEF a, b
  <2>9. Taken <=> Holds(jcc, a - b)
    <3>1. CASE jcc = "jeq"
        BY <2>7, <2>8, <3>1 DEF Holds
    <3>2. CASE jcc = "jne"
        BY <2>7, <2>8, <3>2 DEF Holds
    <3>3. CASE jcc = "jgt"
        BY <2>7, <2>8, <3>3 DEF Holds
    <3>4. CASE jcc = "jge"
        BY <2>7, <2>8, <3>4 DEF Holds
    <3>5. CASE jcc = "jlt"
        BY <2>7, <2>8, <3>5 DEF Holds
    <3>6. CASE jcc = "jle"
        BY <2>7, <2>8, <3>6 DEF Holds
    <3>7. QED
        BY <3>1, <3>2, <3>3, <3>4, <3>5, <3>6 DEF Conditions
  <2>10. QED
      BY <2>1, <2>6, <2>9
<1>10. QED
    BY <1>8, <1>9

-----------------------------------------------------------------------------
(* A recursion. *)

(* Where the i-th call, counted from the outermost one, comes back to. *)
ReturnsTo(prog, i) == IF i = 1 THEN At(prog, 4) ELSE At(prog, 9)

(* The addresses that d calls have left on the stack. *)
Awaits(prog, m, d) ==
    \A i \in 1 .. d : mem_read(m, STACK_BEGIN - 4 * i, 4) = ReturnsTo(prog, i)

(* The registers at the k-th instruction, within d calls. *)
Counters(n, k, d) ==
    /\ k < 5 => d = 0
    /\ k >= 5 => d >= 1
    /\ k \in {5, 6, 7} => regs[A] = (n + 1) - d
    /\ k = 3 => regs[A] = n
    /\ k = 6 => (Holds("jeq", Signed(regs[R], 4)) <=> regs[A] = 0)
    /\ k \in {7, 8} => d <= n
    /\ k = 8 => regs[A] = n - d
    /\ k \in {1, 2, 3, 5, 6, 7, 8} => regs[C] = 0
    /\ k = 4 => regs[C] = n + 1
    /\ k = 9 => regs[C] = (n + 1) - d
    /\ k = 10 => regs[C] = (n + 2) - d

RecursionAt(prog, n, k, d) ==
    /\ regs[P] = At(prog, k)
    /\ regs[S] = STACK_BEGIN - 4 * d
    /\ k >= 2 => regs[O] = At(prog, 5)
    /\ Awaits(prog, mem, d)
    /\ Counters(n, k, d)

RecursionOn(prog, n) ==
    /\ ~halted /\ ~stopped /\ phase # "returned"
    /\ \E k \in 1 .. 10, d \in 0 .. n + 1 : RecursionAt(prog, n, k, d)

RecursionOver(n) ==
    /\ stopped /\ phase # "host"
    /\ regs[S] = STACK_BEGIN
    /\ regs[C] = n + 1

RecursionInv(prog, n) ==
    /\ Built /\ RecursionForm(prog, n) /\ Lies(mem, prog)
    /\ RecursionOn(prog, n) \/ RecursionOver(n)

LEMMA RecursionReached ==
    ASSUME FlowHolds, NEW prog, NEW n, Built, RecursionForm(prog, n),
           Lies(mem, prog), NEW k \in 1 .. 10, regs[P] = At(prog, k)
    PROVE  Reached(prog, k)
BY DEF Reached, RecursionForm, FlowHolds

(* The stack stays in the memory and apart from the program. *)
LEMMA Room ==
    ASSUME NEW n \in ByteRange, RoomFor(n), NEW d \in 0 .. n + 1
    PROVE  /\ n \in Nat /\ n < 256 /\ STACK_BEGIN \in Nat
           /\ STACK_BEGIN - 4 * d \in Nat
           /\ STACK_BEGIN - 4 * d <= MEM_SIZE
           /\ d # n + 1 =>
                /\ STACK_BEGIN - 4 * d >= 4
                /\ \/ STACK_BEGIN - 4 * d <= ROM_START
                   \/ ROM_START + ROM_SIZE <= (STACK_BEGIN - 4 * d) - 4
           /\ d # 0 => (STACK_BEGIN - 4 * d) + 4 <= MEM_SIZE
<1>1. /\ n \in Nat /\ n < 256 /\ STACK_BEGIN \in Nat /\ MEM_SIZE \in Nat
      /\ STACK_BEGIN < MEM_SIZE /\ ROM_START \in Nat /\ ROM_SIZE \in Nat
    BY SmallValues, CpuAssumption, MemAssumption
<1>2. /\ 4 * (n + 1) <= STACK_BEGIN
      /\ \/ STACK_BEGIN <= ROM_START
         \/ ROM_START + ROM_SIZE <= STACK_BEGIN - 4 * (n + 1)
    BY DEF RoomFor
<1>3. QED
    BY <1>1, <1>2

(* One more call. *)
LEMMA AwaitsMore ==
    ASSUME NEW prog, NEW m \in Memory, NEW d \in Nat,
           4 * (d + 1) <= STACK_BEGIN, Awaits(prog, m, d),
           NEW v \in WordRange, v = ReturnsTo(prog, d + 1),
           NEW at, at = (STACK_BEGIN - 4 * d) - 4
    PROVE  Awaits(prog, mem_write(m, at, v, 4), d + 1)
<1>1. /\ STACK_BEGIN \in Nat /\ MEM_SIZE \in Nat /\ STACK_BEGIN < MEM_SIZE
      /\ at \in Nat /\ at + 4 <= MEM_SIZE /\ at = STACK_BEGIN - 4 * (d + 1)
    BY CpuAssumption, MemAssumption
<1> DEFINE m2 == mem_write(m, at, v, 4)
<1>2. mem_read(m2, at, 4) = v
  <2>1. mem_read(m2, at, 4) = v % Capacity(4)
      BY <1>1, ReadAfterWrite
  <2>2. QED
      BY <2>1, SmallMod, Widths DEF Capacity, WordRange
<1>3. ASSUME NEW i \in 1 .. d + 1
      PROVE  mem_read(m2, STACK_BEGIN - 4 * i, 4) = ReturnsTo(prog, i)
  <2>1. CASE i = d + 1
      BY <1>1, <1>2, <2>1
  <2>2. CASE i # d + 1
    <3> DEFINE other == STACK_BEGIN - 4 * i
    <3>1. i \in 1 .. d /\ other \in Nat /\ other + 4 <= MEM_SIZE
          /\ at + 4 <= other
        BY <1>1, <2>2
    <3>2. mem_read(m, other, 4) = ReturnsTo(prog, i)
        BY <3>1 DEF Awaits
    <3> HIDE DEF other
    <3>3. mem_read(m2, other, 4) = mem_read(m, other, 4)
        BY <1>1, <3>1, ReadElsewhere
    <3>4. QED
        BY <3>2, <3>3 DEF other
  <2>3. QED
      BY <2>1, <2>2
<1>4. QED
    BY <1>3 DEF Awaits

(* All three ways to give the target of the calls lead to the fifth        *)
(* instruction. *)
LEMMA CallTarget ==
    ASSUME NEW prog, NEW n, RecursionForm(prog, n), ROM_START + 3 < ADDRESS,
           NEW p \in {To(5), Reg(O), Absolute(ROM_START + 3)}
    PROVE  LET q == Resolve(prog, ROM_START, p)
           IN  /\ Plain(q) /\ ValueError(q) = FALSE
               /\ Leads(prog, q, At(prog, 5), At(prog, 5))
<1>1. At(prog, 5) \in WordRange
    BY DEF RecursionForm
<1>2. CASE p = To(5)
  <2> DEFINE to == At(prog, 5)
  <2>1. Resolve(prog, ROM_START, p) = Long(to) /\ Plain(Long(to))
      BY <1>1, <1>2, LabelRead
  <2> HIDE DEF to
  <2>2. Long(to).mode = Constant32 /\ Long(to).value = to
      BY DEF Long, Param
  <2>3. Constant(Long(to))
      BY <2>2 DEF Constant
  <2>4. /\ ValueError(Long(to)) = FALSE
        /\ \A m, rg : get_param_value(m, rg, Long(to)) = to
      BY <2>2, <2>3, ConstantValue
  <2>5. QED
      BY <2>1, <2>4 DEF to, Leads
<1>3. CASE p = Reg(O)
  <2>1. Plain(Reg(5))
      BY SmallValues
  <2>2. /\ Reg(5).mode = Register /\ Reg(5).value = 5
        /\ 5 \in 0 .. REGISTER_COUNT /\ O = 5
      BY DEF Reg, Param, O, REGISTER_COUNT
  <2>3. Resolve(prog, ROM_START, Reg(5)) = Reg(5)
      BY <2>1, PlainRead
  <2>4. ValueError(Reg(5)) = FALSE
      BY <2>2, WholeRegister DEF ValueError
  <2>5. ASSUME NEW m \in Memory, NEW rg \in RegisterFile, rg[O] = At(prog, 5)
        PROVE  get_param_value(m, rg, Reg(5)) = At(prog, 5)
    <3>1. get_param_value(m, rg, Reg(5)) = reg_read(rg, 5)
        BY <2>2 DEF get_param_value, Register, RegisterAddress, Constant8,
           Constant16, Constant32, AbsoluteAddress, RelativeAddress
    <3>2. QED
        BY <2>2, <2>5, <3>1, WholeRead
  <2>6. QED
      BY <1>3, <2>1, <2>2, <2>3, <2>4, <2>5 DEF Leads
<1>4. CASE p = Absolute(ROM_START + 3)
  <2> DEFINE a == ROM_START + 3
             q == Absolute(a)
  <2>1. /\ a \in Nat /\ a < ADDRESS /\ a \in WordRange
        /\ ROM_START \in Nat
    <3>1. ROM_START \in Nat /\ ADDRESS \in Nat /\ WORD \in Nat
          /\ ADDRESS <= WORD
        BY CpuAssumption, Widths
    <3>2. QED
        BY <3>1 DEF WordRange
  <2>2. /\ q = [mode |-> 4, value |-> a] /\ q.mode = 4 /\ q.value = a
      BY DEF Absolute, Param, AbsoluteAddress
  <2>3. Plain(q)
    <3>1. param_size(4) = 3
        BY DEF param_size, AbsoluteAddress, RelativeAddress, Constant32,
           Constant8, Constant16, Register, RegisterAddress, Label
    <3>2. Capacity(param_size(4)) = ADDRESS
        BY <3>1 DEF Capacity
    <3> HIDE DEF a, q
    <3>3. QED
        BY <2>1, <2>2, <3>2 DEF Plain
  <2> HIDE DEF a, q
  <2>4. Resolve(prog, ROM_START, q) = q
      BY <2>3, PlainRead
  <2>5. ValueError(q) = FALSE
      BY <2>2 DEF ValueError, Register, RegisterAddress
  <2>6. ASSUME NEW m \in Memory, NEW rg \in RegisterFile, Lies(m, prog)
        PROVE  get_param_value(m, rg, q) = At(prog, 5)
    <3>1. get_param_value(m, rg, q) = mem_read(m, a, 4)
        BY <2>2 DEF get_param_value, Register, RegisterAddress, Constant8,
           Constant16, Constant32, AbsoluteAddress, RelativeAddress
    <3>2. /\ Encodable(prog) /\ Size(prog) <= ROM_SIZE /\ Len(prog) = 10
          /\ prog[1] = Op2("lw", Reg(O), To(5))
        BY DEF RecursionForm
    <3>3. calculate_instruction_length(prog[1]) = 7
        BY <3>2, LoadLength DEF To, Param
    <3>4. At(prog, 1) = ROM_START
      <4>1. Len(prog) >= 2
          BY <3>2
      <4>2. QED
          BY <2>6, <3>2, <3>3, <4>1, SecondAt
    <3> DEFINE i == parse_instruction(m, ROM_START)
    <3>5. i.op = "lw" /\ i.p1.mode = Register /\ i.p2 = Long(At(prog, 5))
      <4>1. 1 \in 1 .. Len(prog)
          BY <3>2
      <4>2. i = [op |-> Resolved(prog, 1).op,
                 p1 |-> Read(Resolved(prog, 1).p1),
                 p2 |-> Read(Resolved(prog, 1).p2),
                 len |-> calculate_instruction_length(prog[1])]
          BY <2>6, <3>2, <3>4, <4>1, Listing
      <4>3. prog[1].op = "lw" /\ prog[1].p1 = Reg(O) /\ prog[1].p2 = To(5)
          BY <3>2 DEF Op2
      <4>4. /\ Resolve(prog, ROM_START, To(5)) = Long(At(prog, 5))
            /\ Read(Long(At(prog, 5))) = Long(At(prog, 5))
          BY <1>1, LabelRead
      <4>5. Read(Resolve(prog, ROM_START, Reg(O))).mode = Register
          BY DEF Read, Resolve, Reg, Param, Register, Label
      <4> HIDE DEF i
      <4>6. QED
          BY <4>2, <4>3, <4>4, <4>5 DEF Resolved
    <3>6. mem_read(m, a, 4) % Capacity(4) = At(prog, 5)
      <4> DEFINE mode1 == i.p1.mode
                 mode2 == i.p2.mode
      <4>1. mode1 = 6 /\ mode2 = 3 /\ i.p2.value = At(prog, 5)
          BY <3>5 DEF Long, Param, Register, Constant32
      <4>2. mode1 # Unused => param_count(m[ROM_START]) > 0
          BY DEF parse_instruction
      <4>3. param_size(6) = 1 /\ param_size(3) = 4
          BY DEF param_size, AbsoluteAddress, RelativeAddress, Constant32,
             Constant8, Constant16, Register, RegisterAddress, Label
      <4>4. i.p2.value = ParamValue(m, ROM_START + 1 + 1 + param_size(mode1),
                                    mode2)
          BY <4>1, <4>2 DEF parse_instruction, Unused
      <4>5. ROM_START + 1 + 1 + 1 = a
          BY <2>1 DEF a
      <4> HIDE DEF i, mode1, mode2
      <4>6. ParamValue(m, a, 3) = At(prog, 5)
          BY <4>1, <4>3, <4>4, <4>5
      <4>7. 3 \in Constant8 .. RegisterAddress
          BY DEF Constant8, RegisterAddress
      <4>8. QED
          BY <4>3, <4>6, <4>7 DEF ParamValue
    <3>7. mem_read(m, a, 4) \in WordRange
        BY <2>1, MemReadType
    <3> DEFINE v == mem_read(m, a, 4)
    <3> HIDE DEF v
    <3>8. v % Capacity(4) = v
      <4>1. v \in 0 .. WORD - 1 /\ WORD \in Nat \ {0} /\ Capacity(4) = WORD
          BY <3>7, Widths DEF WordRange, Capacity, v
      <4>2. QED
          BY <4>1, SmallMod
    <3>9. QED
        BY <3>1, <3>6, <3>8 DEF v
  <2>7. p = q
      BY <1>4 DEF q, a
  <2>8. QED
      BY <2>3, <2>4, <2>5, <2>6, <2>7 DEF Leads
<1>5. QED
    BY <1>2, <1>3, <1>4

(* The next state, of an instruction that goes on. *)
Onward(prog, n) == Lies(mem, prog)' /\ RecursionOn(prog, n)'

LEMMA OnwardIf ==
    ASSUME NEW prog, NEW n, Lies(mem', prog), halted' = FALSE, ~stopped,
           UNCHANGED stopped, phase' = "running",
           NEW k \in 1 .. 10, NEW d \in 0 .. n + 1, RecursionAt(prog, n, k, d)'
    PROVE  Onward(prog, n)
BY DEF Onward, RecursionOn, Lies

(* O gets the address of the subroutine. *)
LEMMA FirstStep ==
    ASSUME FlowHolds, NEW prog, NEW n, Built, RecursionForm(prog, n),
           Lies(mem, prog), Instruction, ~stopped,
           RecursionAt(prog, n, 1, 0)
    PROVE  Onward(prog, n)
<1>1. Reached(prog, 1) /\ n \in Nat
    BY RecursionReached, SmallValues DEF RecursionAt, RecursionForm
<1> DEFINE v == At(prog, 5)
           p == To(5)
<1>2. /\ prog[1] = Op2("lw", Reg(O), p) /\ v \in WordRange
      /\ Resolve(prog, ROM_START, p) = Long(v)
    BY LabelRead DEF RecursionForm
<1>3. O \in 0 .. REGISTER_COUNT - 1 /\ O # P
    BY DEF O, P, REGISTER_COUNT
<1> HIDE DEF v, p
<1>4. Sets(O, v, At(prog, 1 + 1), FALSE) /\ UNCHANGED stopped
    BY <1>1, <1>2, <1>3, LwStep
<1>5. /\ mem' = mem /\ halted' = FALSE /\ phase' = "running"
      /\ regs'[P] = At(prog, 2) /\ regs'[O] = v
      /\ regs'[S] = regs[S] /\ regs'[C] = regs[C]
    BY <1>4 DEF Sets, O, P, S, C, REGISTER_COUNT
<1>6. RecursionAt(prog, n, 2, 0)'
    BY <1>5 DEF RecursionAt, Counters, Awaits, v
<1>7. 2 \in 1 .. 10 /\ 0 \in 0 .. n + 1 /\ Lies(mem', prog)
    BY <1>1, <1>5
<1>8. QED
    BY <1>4, <1>5, <1>6, <1>7, OnwardIf

(* A gets the number of calls to come. *)
LEMMA SecondStep ==
    ASSUME FlowHolds, NEW prog, NEW n, Built, RecursionForm(prog, n),
           Lies(mem, prog), Instruction, ~stopped,
           RecursionAt(prog, n, 2, 0)
    PROVE  Onward(prog, n)
<1>1. Reached(prog, 2) /\ n \in Nat
    BY RecursionReached, SmallValues DEF RecursionAt, RecursionForm
<1> DEFINE p == Byte(n)
<1>2. /\ prog[2] = Op1("lda", p) /\ Plain(p) /\ Constant(p) /\ p.value = n
    BY SmallValues DEF RecursionForm, Constant, Byte, Param
<1> HIDE DEF p
<1>3. Sets(A, p.value, At(prog, 2 + 1), FALSE) /\ UNCHANGED stopped
    BY <1>1, <1>2, LdxStep
<1>4. /\ mem' = mem /\ halted' = FALSE /\ phase' = "running"
      /\ regs'[P] = At(prog, 3) /\ regs'[A] = n /\ regs'[O] = regs[O]
      /\ regs'[S] = regs[S] /\ regs'[C] = regs[C]
    BY <1>2, <1>3 DEF Sets, A, O, P, S, C, REGISTER_COUNT
<1>5. Counters(n, 3, 0)'
  <2>1. regs'[C] = 0
      BY <1>4 DEF RecursionAt, Counters
  <2>2. QED
      BY <1>4, <2>1 DEF Counters
<1>6. RecursionAt(prog, n, 3, 0)'
    BY <1>4, <1>5 DEF RecursionAt, Awaits
<1>7. 3 \in 1 .. 10 /\ 0 \in 0 .. n + 1 /\ Lies(mem', prog)
    BY <1>1, <1>4
<1>8. QED
    BY <1>3, <1>4, <1>6, <1>7, OnwardIf

(* A call, from outside or within the subroutine. *)
LEMMA CallsOnce ==
    ASSUME FlowHolds, NEW prog, NEW n, Built, RecursionForm(prog, n),
           Lies(mem, prog), Instruction, ~stopped,
           NEW k \in {3, 8}, NEW d \in 0 .. n, RecursionAt(prog, n, k, d)
    PROVE  Onward(prog, n)
<1>1. Reached(prog, k) /\ n \in ByteRange /\ RoomFor(n)
      /\ Encodable(prog) /\ Len(prog) = 10
    BY RecursionReached DEF RecursionAt, RecursionForm
<1>2. d \in 0 .. n + 1 /\ d # n + 1 /\ n \in Nat
    BY <1>1, SmallValues
<1>3. PICK p \in {To(5), Reg(O), Absolute(ROM_START + 3)} :
          prog[k] = Op1("call", p)
    BY DEF RecursionForm
<1> DEFINE q == Resolve(prog, ROM_START, p)
           to == At(prog, 5)
           s == STACK_BEGIN - 4 * d
           v == At(prog, k + 1)
<1>4. /\ Plain(q) /\ ValueError(q) = FALSE /\ to \in WordRange
      /\ regs[O] = to
      /\ Leads(prog, q, to, to)
  <2>1. ROM_START + 3 < ADDRESS
      BY DEF FlowHolds
  <2>2. to \in WordRange
      BY DEF RecursionForm
  <2>3. regs[O] = to
      BY DEF RecursionAt
  <2>4. QED
      BY <1>3, <2>1, <2>2, <2>3, CallTarget
<1>5. v \in WordRange /\ v = ReturnsTo(prog, d + 1)
  <2>1. /\ k = 3 => d = 0
        /\ k = 8 => d >= 1
      BY DEF RecursionAt, Counters
  <2>2. /\ k = 3 => k + 1 = 4 /\ d + 1 = 1
        /\ k = 8 => k + 1 = 9 /\ d + 1 # 1
      BY <1>2, <2>1
  <2>3. k + 1 \in 1 .. 11
      OBVIOUS
  <2>4. QED
      BY <2>2, <2>3 DEF ReturnsTo, RecursionForm
<1>6. to # At(prog, k)
  <2>1. /\ 3 \in 1 .. Len(prog) + 1 /\ 5 \in 1 .. Len(prog) + 1
        /\ 8 \in 1 .. Len(prog) + 1 /\ 3 < 5 /\ 5 < 8
      BY <1>1
  <2>2. /\ At(prog, 3) \in Nat /\ At(prog, 5) \in Nat /\ At(prog, 8) \in Nat
        /\ At(prog, 3) < At(prog, 5) /\ At(prog, 5) < At(prog, 8)
      BY <1>1, <2>1, AtOrder
  <2>3. QED
      BY <2>2
<1>7. /\ regs[S] = s /\ s \in Nat /\ s >= 4 /\ s <= MEM_SIZE
      /\ s <= ROM_START \/ ROM_START + ROM_SIZE <= s - 4
      /\ 4 * (d + 1) <= STACK_BEGIN
  <2>1. regs[S] = s
      BY DEF RecursionAt
  <2>2. 4 * (d + 1) <= STACK_BEGIN
    <3>1. STACK_BEGIN \in Nat /\ 4 * (n + 1) <= STACK_BEGIN
        BY <1>1, CpuAssumption DEF RoomFor
    <3>2. QED
        BY <1>2, <3>1
  <2>3. QED
      BY <1>1, <1>2, <2>1, <2>2, Room
<1> HIDE DEF q, to, s, v
<1>8. Leads(prog, q, regs[O], to)
    BY <1>4
<1>9. /\ mem' = mem_write(mem, regs[S] - 4, v, 4)
      /\ Lies(mem', prog)
      /\ halted' = FALSE /\ phase' = "running" /\ UNCHANGED stopped
      /\ regs'[P] = to /\ regs'[S] = regs[S] - 4
      /\ \A other \in 0 .. REGISTER_COUNT :
             other \notin {S, P} => regs'[other] = regs[other]
  <2>1. /\ Reached(prog, k) /\ prog[k] = Op1("call", p)
        /\ Plain(Resolve(prog, ROM_START, p))
        /\ ValueError(Resolve(prog, ROM_START, p)) = FALSE
        /\ to \in WordRange /\ to # At(prog, k)
      BY <1>1, <1>3, <1>4, <1>6 DEF q
  <2>2. /\ regs[S] >= 4 /\ regs[S] <= MEM_SIZE
        /\ regs[S] <= ROM_START \/ ROM_START + ROM_SIZE <= regs[S] - 4
      BY <1>7
  <2>3. Leads(prog, Resolve(prog, ROM_START, p), regs[O], to)
      BY <1>8 DEF q
  <2>4. /\ mem' = mem_write(mem, regs[S] - 4, At(prog, k + 1), 4)
        /\ Lies(mem', prog)
        /\ halted' = FALSE /\ phase' = "running" /\ UNCHANGED stopped
        /\ regs'[P] = to /\ regs'[S] = regs[S] - 4
        /\ \A other \in 0 .. REGISTER_COUNT :
               other \notin {S, P} => regs'[other] = regs[other]
      BY <2>1, <2>2, <2>3, CallStep
  <2>5. QED
      BY <2>4 DEF v
<1>10. /\ regs'[A] = regs[A] /\ regs'[C] = regs[C] /\ regs'[O] = regs[O]
    BY <1>9 DEF A, C, O, S, P, REGISTER_COUNT
<1>11. Awaits(prog, mem', d + 1)
  <2>1. mem \in Memory /\ Awaits(prog, mem, d) /\ d \in Nat
      BY <1>2 DEF Built, RecursionAt
  <2> DEFINE at == s - 4
  <2>2. at = (STACK_BEGIN - 4 * d) - 4
      BY DEF s
  <2> HIDE DEF at
  <2>3. Awaits(prog, mem_write(mem, at, v, 4), d + 1)
      BY <1>5, <1>7, <2>1, <2>2, AwaitsMore
  <2>4. QED
      BY <1>7, <1>9, <2>3 DEF at
<1>12. regs'[S] = STACK_BEGIN - 4 * (d + 1)
    BY <1>2, <1>7, <1>9, CpuAssumption DEF s
<1>13. regs'[A] = (n + 1) - (d + 1) /\ regs'[C] = 0 /\ d + 1 >= 1
  <2>1. regs[A] = n - d /\ regs[C] = 0
    <3>1. CASE k = 3
        BY <1>2, <3>1 DEF RecursionAt, Counters
    <3>2. CASE k = 8
        BY <3>2 DEF RecursionAt, Counters
    <3>3. QED
        BY <3>1, <3>2
  <2>2. QED
      BY <1>2, <1>10, <2>1
<1>14. RecursionAt(prog, n, 5, d + 1)'
  <2>1. regs'[P] = At(prog, 5) /\ regs'[O] = At(prog, 5)
      BY <1>4, <1>9, <1>10 DEF to
  <2>2. Counters(n, 5, d + 1)'
      BY <1>13 DEF Counters
  <2>3. QED
      BY <1>11, <1>12, <2>1, <2>2 DEF RecursionAt, Awaits
<1>15. 5 \in 1 .. 10 /\ d + 1 \in 0 .. n + 1
    BY <1>2
<1>16. QED
    BY <1>9, <1>14, <1>15, OnwardIf

(* The outermost call came back. *)
LEMMA StopsOver ==
    ASSUME FlowHolds, NEW prog, NEW n, Built, RecursionForm(prog, n),
           Lies(mem, prog), Instruction, RecursionAt(prog, n, 4, 0)
    PROVE  mem' = mem /\ RecursionOver(n)'
<1>1. Reached(prog, 4)
    BY RecursionReached DEF RecursionAt
<1>2. prog[4] = Op0("stop")
    BY DEF RecursionForm
<1>3. Passes(At(prog, 4 + 1), FALSE) /\ stopped'
    BY <1>1, <1>2, StopStep
<1>4. /\ A \in 0 .. REGISTER_COUNT - 1 /\ A # P
      /\ S \in 0 .. REGISTER_COUNT /\ S \notin {A, P}
      /\ C \in 0 .. REGISTER_COUNT /\ C \notin {A, P}
    BY DEF A, S, C, P, REGISTER_COUNT
<1>5. Sets(A, regs[A], At(prog, 4 + 1), FALSE)
    BY <1>3, <1>4 DEF Passes
<1>6. /\ mem' = mem /\ phase' = "running"
      /\ regs'[S] = regs[S] /\ regs'[C] = regs[C]
    BY <1>4, <1>5 DEF Sets
<1>7. regs[S] = STACK_BEGIN - 4 * 0 /\ regs[C] = n + 1
    BY DEF RecursionAt, Counters
<1>8. regs[S] = STACK_BEGIN
    BY <1>7, CpuAssumption
<1>9. QED
    BY <1>3, <1>6, <1>7, <1>8 DEF RecursionOver

(* The number of calls to come is compared with zero. *)
LEMMA ComparesStep ==
    ASSUME FlowHolds, NEW prog, NEW n, Built, RecursionForm(prog, n),
           Lies(mem, prog), Instruction, ~stopped,
           NEW d \in 0 .. n + 1, RecursionAt(prog, n, 5, d)
    PROVE  Onward(prog, n)
<1>1. Reached(prog, 5) /\ n \in Nat /\ n < 256
    BY RecursionReached, SmallValues DEF RecursionAt, RecursionForm
<1> DEFINE p == Reg(A)
           q == Byte(0)
<1>2. prog[5] = Op2("cmp", p, q)
    BY DEF RecursionForm
<1>3. /\ Plain(p) /\ ValueError(p) = FALSE
      /\ Signed(signed_value(p), 4) = Signed(regs[A], 4)
  <2>1. p.mode = Register /\ p.value = A /\ A = 0 /\ A \in 0 .. REGISTER_COUNT
      BY DEF Reg, Param, A, REGISTER_COUNT
  <2>2. Plain(p)
      BY SmallValues DEF A
  <2>3. ValueError(p) = FALSE
      BY <2>1, WholeRegister DEF ValueError
  <2>4. signed_value(p) = reg_read_sign_extended(regs, A)
      BY <2>1 DEF signed_value, get_param_value_sign_extended, Register,
         Constant8, Constant16
  <2>5. reg_read_sign_extended(regs, A) = regs[A]
      BY <2>1, WholeRead DEF Built
  <2>6. QED
      BY <2>2, <2>3, <2>4, <2>5
<1>4. /\ Plain(q) /\ ValueError(q) = FALSE
      /\ Signed(signed_value(q), 4) = 0
  <2>1. q.mode = Constant8 /\ q.value = 0
      BY DEF Byte, Param
  <2>2. Plain(q)
      BY SmallValues
  <2>3. ValueError(q) = FALSE
      BY <2>1 DEF ValueError, Constant8, Register, RegisterAddress
  <2>4. signed_value(q) = SignExtend(0, param_size(Constant8))
      BY <2>1 DEF signed_value, get_param_value_sign_extended, Constant8,
         Constant16, Register
  <2>5. Signed(SignExtend(0, param_size(Constant8)), 4)
            = Signed(0, param_size(Constant8))
      BY ExtendedRead
  <2>6. ASSUME NEW size
        PROVE  Signed(0, size) = 0
    <3> DEFINE c == Capacity(size)
    <3>1. c \in Nat \ {0}
        BY CapacityRange
    <3>2. 0 = 0 + c * 0 /\ -c <= 2 * 0 /\ 2 * 0 < c
        BY <3>1
    <3>3. QED
        BY <3>2, SignedIs
  <2>7. QED
      BY <2>2, <2>3, <2>4, <2>5, <2>6
<1>5. Signed(regs[A], 4) = regs[A]
  <2> DEFINE a == regs[A]
             c == Capacity(4)
  <2>1. a \in Nat /\ a < 256
      BY <1>1 DEF RecursionAt, Counters
  <2>2. c \in Nat /\ 512 <= c
    <3>1. BYTE \in Nat /\ SHORT \in Nat /\ ADDRESS \in Nat /\ WORD \in Nat
          /\ SHORT <= ADDRESS /\ ADDRESS <= WORD /\ BYTE >= 128
        BY Widths, CpuAssumption
    <3>2. SHORT = BYTE * BYTE
        BY DEF SHORT
    <3>3. BYTE * BYTE >= 128 * 128
        BY <3>1
    <3>4. c = WORD
        BY DEF Capacity
    <3>5. QED
        BY <3>1, <3>2, <3>3, <3>4
  <2> HIDE DEF a, c
  <2>3. a = a + c * 0 /\ -c <= 2 * a /\ 2 * a < c
      BY <2>1, <2>2
  <2>4. Signed(a, 4) = a
    <3>1. a = a + Capacity(4) * 0 /\ -Capacity(4) <= 2 * a
          /\ 2 * a < Capacity(4) /\ a \in Int
        BY <2>1, <2>3 DEF c
    <3>2. QED
        BY <3>1, SignedIs
  <2>5. QED
      BY <2>4 DEF a
<1> HIDE DEF p, q
<1>6. /\ Sets(R, regs'[R], At(prog, 5 + 1), FALSE)
      /\ UNCHANGED stopped
      /\ Holds("jeq", Signed(regs'[R], 4))
            <=> Holds("jeq", Signed(signed_value(p), 4)
                                - Signed(signed_value(q), 4))
  <2>1. "jeq" \in Conditions
      BY DEF Conditions
  <2>2. QED
      BY <1>1, <1>2, <1>3, <1>4, <2>1, CmpStep
<1>7. /\ mem' = mem /\ halted' = FALSE /\ phase' = "running"
      /\ regs'[P] = At(prog, 6) /\ regs'[A] = regs[A] /\ regs'[O] = regs[O]
      /\ regs'[S] = regs[S] /\ regs'[C] = regs[C]
    BY <1>6 DEF Sets, A, O, P, R, S, C, REGISTER_COUNT
<1>8. regs[A] = (n + 1) - d /\ regs[C] = 0 /\ d >= 1
    BY DEF RecursionAt, Counters
<1>9. Holds("jeq", Signed(regs'[R], 4)) <=> regs'[A] = 0
  <2>1. Holds("jeq", regs[A] - 0) <=> regs[A] = 0
      BY <1>1, <1>8 DEF Holds
  <2>2. QED
      BY <1>3, <1>4, <1>5, <1>6, <1>7, <2>1
<1>10. RecursionAt(prog, n, 6, d)'
  <2>1. Counters(n, 6, d)'
      BY <1>7, <1>8, <1>9 DEF Counters
  <2>2. QED
      BY <1>7, <2>1 DEF RecursionAt, Awaits
<1>11. 6 \in 1 .. 10 /\ Lies(mem', prog)
    BY <1>7
<1>12. QED
    BY <1>6, <1>7, <1>10, <1>11, OnwardIf

(* The recursion ends, or goes on. *)
LEMMA DecidesStep ==
    ASSUME FlowHolds, NEW prog, NEW n, Built, RecursionForm(prog, n),
           Lies(mem, prog), Instruction, ~stopped,
           NEW d \in 0 .. n + 1, RecursionAt(prog, n, 6, d)
    PROVE  Onward(prog, n)
<1>1. Reached(prog, 6) /\ n \in Nat
    BY RecursionReached, SmallValues DEF RecursionAt, RecursionForm
<1>2. prog[6] = Op1("jeq", To(9)) /\ Encodable(prog) /\ Len(prog) = 10
      /\ At(prog, 9) \in WordRange
    BY DEF RecursionForm
<1>3. At(prog, 9) # At(prog, 6)
  <2>1. 6 \in 1 .. Len(prog) + 1 /\ 9 \in 1 .. Len(prog) + 1 /\ 6 < 9
      BY <1>2
  <2>2. /\ At(prog, 6) \in Nat /\ At(prog, 9) \in Nat
        /\ At(prog, 6) < At(prog, 9)
      BY <1>2, <2>1, AtOrder
  <2>3. QED
      BY <2>2
<1>4. "jeq" \in Conditions
    BY DEF Conditions
<1> DEFINE taken == Holds("jeq", Signed(regs[R], 4))
           next == IF taken THEN At(prog, 9) ELSE At(prog, 6 + 1)
<1>5. Passes(next, FALSE) /\ UNCHANGED stopped
    BY <1>1, <1>2, <1>3, <1>4, JumpStep
<1> HIDE DEF taken
<1>6. /\ mem' = mem /\ halted' = FALSE /\ phase' = "running"
      /\ regs'[P] = next /\ regs'[A] = regs[A] /\ regs'[O] = regs[O]
      /\ regs'[S] = regs[S] /\ regs'[C] = regs[C]
  <2>1. A \in 0 .. REGISTER_COUNT - 1 /\ A # P
      BY DEF A, P, REGISTER_COUNT
  <2>2. Sets(A, regs[A], next, FALSE)
      BY <1>5, <2>1 DEF Passes
  <2>3. QED
      BY <2>2 DEF Sets, A, O, P, S, C, REGISTER_COUNT
<1>7. /\ taken <=> regs[A] = 0
      /\ regs[A] = (n + 1) - d /\ regs[C] = 0 /\ d >= 1
    BY DEF RecursionAt, Counters, taken
<1>8. Lies(mem', prog)
    BY <1>6
<1>9. CASE taken
  <2>1. (n + 1) - d = 0
      BY <1>7, <1>9
  <2>2. Counters(n, 9, d)'
      BY <1>6, <1>7, <2>1 DEF Counters
  <2>3. RecursionAt(prog, n, 9, d)'
      BY <1>6, <1>9, <2>2 DEF RecursionAt, Awaits
  <2>4. 9 \in 1 .. 10
      OBVIOUS
  <2>5. QED
      BY <1>5, <1>6, <1>8, <2>3, <2>4, OnwardIf
<1>10. CASE ~taken
  <2>1. d <= n
      BY <1>1, <1>7, <1>10
  <2>2. Counters(n, 7, d)'
      BY <1>6, <1>7, <2>1 DEF Counters
  <2>3. RecursionAt(prog, n, 7, d)'
      BY <1>6, <1>10, <2>2 DEF RecursionAt, Awaits
  <2>4. 7 \in 1 .. 10
      OBVIOUS
  <2>5. QED
      BY <1>5, <1>6, <1>8, <2>3, <2>4, OnwardIf
<1>11. QED
    BY <1>9, <1>10

(* One call less is to come, or one more return is counted. *)
LEMMA CountsStep ==
    ASSUME FlowHolds, NEW prog, NEW n, Built, RecursionForm(prog, n),
           Lies(mem, prog), Instruction, ~stopped,
           NEW k \in {7, 9}, NEW d \in 0 .. n + 1, RecursionAt(prog, n, k, d)
    PROVE  Onward(prog, n)
<1>1. Reached(prog, k) /\ n \in Nat /\ n < 256
    BY RecursionReached, SmallValues DEF RecursionAt, RecursionForm
<1> DEFINE op == IF k = 7 THEN "dec" ELSE "inc"
           id == IF k = 7 THEN A ELSE C
           v == IF k = 7 THEN n - d ELSE (n + 2) - d
<1>2. /\ k = 7 => prog[k] = Op1("dec", Reg(A))
      /\ k = 9 => prog[k] = Op1("inc", Reg(C))
    BY DEF RecursionForm
<1>3. /\ prog[k] = Op1(op, Reg(id)) /\ op \in {"inc", "dec"}
      /\ id \in {A, B, C, D}
    BY <1>2
<1>4. /\ k = 7 => d <= n /\ regs[A] = (n + 1) - d /\ regs[C] = 0
      /\ k = 9 => regs[C] = (n + 1) - d
      /\ d >= 1
    BY DEF RecursionAt, Counters
<1>5. v \in WordRange
  <2>1. v \in Nat /\ v < 300
      BY <1>1, <1>4
  <2>2. WORD \in Nat /\ 300 <= WORD
    <3>1. BYTE \in Nat /\ SHORT \in Nat /\ ADDRESS \in Nat /\ WORD \in Nat
          /\ SHORT <= ADDRESS /\ ADDRESS <= WORD /\ BYTE >= 128
        BY Widths, CpuAssumption
    <3>2. SHORT = BYTE * BYTE
        BY DEF SHORT
    <3>3. BYTE * BYTE >= 128 * 128
        BY <3>1
    <3>4. QED
        BY <3>1, <3>2, <3>3
  <2> HIDE DEF v
  <2>3. QED
      BY <2>1, <2>2 DEF WordRange
<1>6. CountsTo(op, regs[id], v)
  <2>1. CASE k = 7
      BY <1>1, <1>4, <2>1 DEF CountsTo
  <2>2. CASE k = 9
      BY <1>1, <1>4, <2>2 DEF CountsTo
  <2>3. QED
      BY <2>1, <2>2
<1> HIDE DEF op, id, v
<1>7. /\ mem' = mem /\ halted' = FALSE /\ phase' = "running"
      /\ UNCHANGED stopped
      /\ regs'[P] = At(prog, k + 1) /\ regs'[id] = v
      /\ \A other \in 0 .. REGISTER_COUNT :
             other \notin {id, P, R} => regs'[other] = regs[other]
  <2>1. Reached(prog, k) /\ prog[k] = Op1(op, Reg(id)) /\ v \in WordRange
      BY <1>1, <1>3, <1>5
  <2>2. id \in {A, B, C, D} /\ op \in {"inc", "dec"}
      BY <1>3
  <2>3. Tells(id, v, At(prog, k + 1)) /\ UNCHANGED stopped
      BY <1>6, <2>1, <2>2, CountStep
  <2>4. QED
      BY <2>3 DEF Tells
<1>8. regs'[O] = regs[O] /\ regs'[S] = regs[S]
  <2>1. /\ O \in 0 .. REGISTER_COUNT /\ S \in 0 .. REGISTER_COUNT
        /\ O \notin {id, P, R} /\ S \notin {id, P, R}
      BY DEF A, C, O, P, R, S, REGISTER_COUNT, id
  <2>2. QED
      BY <1>7, <2>1
<1>9. Lies(mem', prog)
    BY <1>7
<1>10. CASE k = 7
  <2>1. /\ C \in 0 .. REGISTER_COUNT /\ C \notin {id, P, R} /\ id = A
      BY <1>10 DEF A, C, P, R, REGISTER_COUNT, id
  <2>2. regs'[C] = 0 /\ regs'[A] = n - d /\ d <= n /\ d >= 1
      BY <1>4, <1>7, <1>10, <2>1 DEF v
  <2>3. Counters(n, 8, d)'
      BY <2>2 DEF Counters
  <2>4. RecursionAt(prog, n, 8, d)'
      BY <1>7, <1>8, <1>10, <2>3 DEF RecursionAt, Awaits
  <2>5. 8 \in 1 .. 10
      OBVIOUS
  <2>6. QED
      BY <1>7, <1>9, <2>4, <2>5, OnwardIf
<1>11. CASE k = 9
  <2>1. regs'[C] = (n + 2) - d /\ d >= 1
      BY <1>4, <1>7, <1>11 DEF v, id
  <2>2. Counters(n, 10, d)'
      BY <2>1 DEF Counters
  <2>3. RecursionAt(prog, n, 10, d)'
      BY <1>7, <1>8, <1>11, <2>2 DEF RecursionAt, Awaits
  <2>4. 10 \in 1 .. 10
      OBVIOUS
  <2>5. QED
      BY <1>7, <1>9, <2>3, <2>4, OnwardIf
<1>12. QED
    BY <1>10, <1>11

(* A return, to the call the address on top of the stack is from. *)
LEMMA ReturnsOnce ==
    ASSUME FlowHolds, NEW prog, NEW n, Built, RecursionForm(prog, n),
           Lies(mem, prog), Instruction, ~stopped,
           NEW d \in 0 .. n + 1, RecursionAt(prog, n, 10, d)
    PROVE  Onward(prog, n)
<1>1. Reached(prog, 10) /\ n \in ByteRange /\ RoomFor(n)
      /\ Encodable(prog) /\ Len(prog) = 10 /\ prog[10] = Op0("ret")
    BY RecursionReached DEF RecursionAt, RecursionForm
<1>2. /\ d >= 1 /\ regs[C] = (n + 2) - d /\ n \in Nat
      /\ regs[S] = STACK_BEGIN - 4 * d /\ regs[O] = At(prog, 5)
      /\ Awaits(prog, mem, d)
    BY <1>1, SmallValues DEF RecursionAt, Counters
<1> DEFINE next == IF d = 1 THEN 4 ELSE 9
           to == At(prog, next)
<1>3. top(4) = to
  <2>1. d \in 1 .. d
      BY <1>2
  <2>2. mem_read(mem, STACK_BEGIN - 4 * d, 4) = ReturnsTo(prog, d)
      BY <1>2, <2>1 DEF Awaits
  <2>3. QED
      BY <1>2, <2>2 DEF ReturnsTo, top
<1>4. to # At(prog, 10)
  <2>1. /\ next \in 1 .. Len(prog) + 1 /\ 10 \in 1 .. Len(prog) + 1
        /\ next < 10
      BY <1>1
  <2> HIDE DEF next
  <2>2. /\ to \in Nat /\ At(prog, 10) \in Nat
        /\ to < At(prog, 10)
      BY <1>1, <2>1, AtOrder
  <2>3. QED
      BY <2>2
<1>5. regs[S] + 4 <= MEM_SIZE
    BY <1>1, <1>2, Room
<1>6. /\ mem' = mem
      /\ halted' = FALSE /\ phase' = "running" /\ UNCHANGED stopped
      /\ regs'[P] = to /\ regs'[S] = regs[S] + 4
      /\ \A other \in 0 .. REGISTER_COUNT :
             other \notin {S, P} => regs'[other] = regs[other]
  <2>1. top(4) # At(prog, 10)
      BY <1>3, <1>4
  <2> HIDE DEF to
  <2>2. /\ mem' = mem
        /\ halted' = FALSE /\ phase' = "running" /\ UNCHANGED stopped
        /\ regs'[P] = top(4) /\ regs'[S] = regs[S] + 4
        /\ \A other \in 0 .. REGISTER_COUNT :
               other \notin {S, P} => regs'[other] = regs[other]
      BY <1>1, <1>5, <2>1, RetStep
  <2>3. QED
      BY <1>3, <2>2
<1> HIDE DEF to
<1>7. /\ regs'[C] = regs[C] /\ regs'[O] = regs[O]
    BY <1>6 DEF C, O, S, P, REGISTER_COUNT
<1>8. regs'[S] = STACK_BEGIN - 4 * (d - 1)
    BY <1>2, <1>6, CpuAssumption
<1>9. Awaits(prog, mem', d - 1)
    BY <1>2, <1>6 DEF Awaits
<1>10. Counters(n, next, d - 1)'
  <2>1. CASE d = 1
    <3>1. regs'[C] = n + 1 /\ d - 1 = 0
        BY <1>2, <1>7, <2>1
    <3>2. QED
        BY <2>1, <3>1 DEF Counters
  <2>2. CASE d # 1
    <3>1. regs'[C] = (n + 1) - (d - 1) /\ d - 1 >= 1
        BY <1>2, <1>7, <2>2
    <3>2. QED
        BY <2>2, <3>1 DEF Counters
  <2>3. QED
      BY <2>1, <2>2
<1>11. RecursionAt(prog, n, next, d - 1)'
    BY <1>2, <1>6, <1>7, <1>8, <1>9, <1>10 DEF RecursionAt, Awaits, to
<1>12. /\ next \in 1 .. 10 /\ d - 1 \in 0 .. n + 1 /\ Lies(mem', prog)
    BY <1>2, <1>6
<1> HIDE DEF next
<1>13. QED
    BY <1>6, <1>11, <1>12, OnwardIf

(* Every step keeps the invariant. *)
LEMMA RecursionStep ==
    ASSUME FlowHolds, NEW prog, NEW n, RecursionInv(prog, n), [Next]_vars,
           SetupHolds, SetupHolds'
    PROVE  RecursionInv(prog, n)'
<1>1. /\ Built /\ Built' /\ RecursionForm(prog, n) /\ Lies(mem, prog)
    BY NextType DEF RecursionInv
<1>2. CASE Aside
  <2>1. mem' = mem /\ regs' = regs /\ stopped' = stopped
      BY <1>2, StaysOver
  <2>2. CASE RecursionOn(prog, n)
    <3>1. PICK k \in 1 .. 10, d \in 0 .. n + 1 : RecursionAt(prog, n, k, d)
        BY <2>2 DEF RecursionOn
    <3>2. ValidPc
      <4>1. Reached(prog, k)
          BY <1>1, <3>1, RecursionReached DEF RecursionAt
      <4>2. QED
          BY <4>1, Fetched DEF Reached
    <3>3. RecursionOn(prog, n)'
      <4>1. ~halted' /\ ~stopped' /\ phase' # "returned"
          BY <1>2, <2>2, <3>2, StaysOn DEF RecursionOn
      <4>2. RecursionAt(prog, n, k, d)'
          BY <2>1, <3>1 DEF RecursionAt, Counters, Awaits
      <4>3. QED
          BY <4>1, <4>2 DEF RecursionOn
    <3>4. QED
        BY <1>1, <2>1, <3>3 DEF RecursionInv, Lies
  <2>3. CASE RecursionOver(n)
    <3>1. RecursionOver(n)'
        BY <1>2, <2>1, <2>3, StaysOver DEF RecursionOver
    <3>2. QED
        BY <1>1, <2>1, <3>1 DEF RecursionInv, Lies
  <2>4. QED
      BY <2>2, <2>3 DEF RecursionInv
<1>3. CASE Instruction
  <2>1. ~stopped
      BY <1>3, HandlerOf DEF Fetching, Running
  <2>2. RecursionOn(prog, n)
      BY <2>1 DEF RecursionInv, RecursionOver
  <2>3. PICK k \in 1 .. 10, d \in 0 .. n + 1 : RecursionAt(prog, n, k, d)
      BY <2>2 DEF RecursionOn
  <2>4. n \in Nat
      BY <1>1, SmallValues DEF RecursionForm
  <2>5. /\ k < 5 => d = 0
        /\ k = 8 => d <= n
      BY <2>3 DEF RecursionAt, Counters
  <2>6. ASSUME Onward(prog, n)
        PROVE  RecursionInv(prog, n)'
      BY <1>1, <2>6 DEF Onward, RecursionInv
  <2>7. CASE k = 1
      BY <1>1, <1>3, <2>1, <2>3, <2>5, <2>6, <2>7, FirstStep
  <2>8. CASE k = 2
      BY <1>1, <1>3, <2>1, <2>3, <2>5, <2>6, <2>8, SecondStep
  <2>9. CASE k \in {3, 8}
    <3>1. d \in 0 .. n
        BY <2>4, <2>5, <2>9
    <3>2. QED
        BY <1>1, <1>3, <2>1, <2>3, <2>6, <2>9, <3>1, CallsOnce
  <2>10. CASE k = 4
    <3>1. mem' = mem /\ RecursionOver(n)'
        BY <1>1, <1>3, <2>3, <2>5, <2>10, StopsOver
    <3>2. QED
        BY <1>1, <3>1 DEF RecursionInv, Lies
  <2>11. CASE k = 5
      BY <1>1, <1>3, <2>1, <2>3, <2>6, <2>11, ComparesStep
  <2>12. CASE k = 6
      BY <1>1, <1>3, <2>1, <2>3, <2>6, <2>12, DecidesStep
  <2>13. CASE k \in {7, 9}
      BY <1>1, <1>3, <2>1, <2>3, <2>6, <2>13, CountsStep
  <2>14. CASE k = 10
      BY <1>1, <1>3, <2>1, <2>3, <2>6, <2>14, ReturnsOnce
  <2>15. QED
      BY <2>7, <2>8, <2>9, <2>10, <2>11, <2>12, <2>13, <2>14
<1>4. QED
    BY <1>1, <1>2, <1>3, AsideOrInstruction

LEMMA RecursionInit ==
    ASSUME FlowHolds, Built, ~halted, ~stopped, phase = "host",
           regs[S] = STACK_BEGIN, regs[C] = 0,
           NEW prog \in Recursions, Lies(mem, prog), regs[P] = At(prog, 1)
    PROVE  \E n \in Depths : RecursionInv(prog, n)
<1>1. PICK n \in Depths : RecursionForm(prog, n)
    BY RecursionShape
<1>2. n \in Nat
    BY <1>1, SmallValues DEF RecursionForm
<1>3. RecursionAt(prog, n, 1, 0)
  <2>1. STACK_BEGIN = STACK_BEGIN - 4 * 0
      BY CpuAssumption
  <2>2. Awaits(prog, mem, 0)
      BY DEF Awaits
  <2>3. Counters(n, 1, 0)
      BY DEF Counters
  <2>4. QED
      BY <2>1, <2>2, <2>3 DEF RecursionAt
<1>4. 1 \in 1 .. 10 /\ 0 \in 0 .. n + 1
    BY <1>2
<1>5. RecursionInv(prog, n)
    BY <1>1, <1>3, <1>4 DEF RecursionInv, RecursionOn
<1>6. QED
    BY <1>5

(* At the end the counter and the stack are as CallsReturn says. *)
LEMMA RecursionEnds ==
    ASSUME FlowHolds, NEW prog, NEW n, RecursionInv(prog, n)
    PROVE  BranchFollowsOrder /\ CallsReturn
<1>1. /\ mem \in Memory /\ Lies(mem, prog) /\ Encodable(prog)
      /\ Size(prog) <= ROM_SIZE /\ Len(prog) = 10 /\ n \in ByteRange
      /\ prog[1] = Op2("lw", Reg(O), To(5)) /\ prog[2] = Op1("lda", Byte(n))
    BY DEF RecursionInv, RecursionForm, Built
<1>2. calculate_instruction_length(prog[1]) = 7
    BY <1>1, LoadLength DEF To, Param
<1>3. prog[2].op = "lda" /\ prog[2].p1 = Byte(n) /\ Len(prog) >= 2
    BY <1>1 DEF Op1
<1>4. /\ At(prog, 2) = ROM_START + 7
      /\ op_function(mem[ROM_START + 7]) = "lda"
    BY <1>1, <1>2, <1>3, SecondAt
<1>5. BranchFollowsOrder
    BY <1>4 DEF BranchFollowsOrder, IsBranch
<1>6. parse_instruction(mem, ROM_START + 7).p1.value = n
  <2> DEFINE i == parse_instruction(mem, ROM_START + 7)
  <2>1. 2 \in 1 .. Len(prog)
      BY <1>1
  <2>2. i.p1 = Read(Resolved(prog, 2).p1)
      BY <1>1, <1>4, <2>1, Listing
  <2>3. Plain(Byte(n)) /\ Byte(n).value = n
      BY <1>1, SmallValues DEF Byte, Param
  <2>4. Read(Resolve(prog, ROM_START, Byte(n))) = Byte(n)
      BY <2>3, PlainRead
  <2> HIDE DEF i
  <2>5. i.p1 = Byte(n)
      BY <1>3, <2>2, <2>4 DEF Resolved
  <2>6. QED
      BY <2>3, <2>5 DEF i
<1>7. CallsReturn
  <2>1. phase = "returned" => RecursionOver(n)
      BY DEF RecursionInv, RecursionOn
  <2>2. QED
      BY <1>6, <2>1 DEF CallsReturn, RecursionOver
<1>8. QED
    BY <1>5, <1>7

-----------------------------------------------------------------------------
FlowInv == \/ \E prog \in Branches : BranchInv(prog)
           \/ \E prog \in Recursions : \E n \in Depths : RecursionInv(prog, n)

LEMMA FlowInvariant ==
    ASSUME FlowHolds
    PROVE  Spec /\ []SetupHolds => []FlowInv
<1>1. Init => FlowInv
  <2> SUFFICES ASSUME Init PROVE FlowInv
      OBVIOUS
  <2>1. PICK prog \in Branches \cup Recursions :
            Lies(mem, prog) /\ regs[P] = At(prog, 1)
      BY FlowInit
  <2>2. /\ Built /\ ~halted /\ ~stopped /\ phase = "host"
        /\ regs[S] = STACK_BEGIN /\ regs[C] = 0
      BY FlowInit
  <2>3. CASE prog \in Branches
      BY <2>1, <2>2, <2>3, BranchInit DEF FlowInv
  <2>4. CASE prog \in Recursions
      BY <2>1, <2>2, <2>4, RecursionInit DEF FlowInv
  <2>5. QED
      BY <2>3, <2>4
<1>2. FlowInv /\ [Next]_vars /\ SetupHolds /\ SetupHolds' => FlowInv'
  <2> SUFFICES ASSUME FlowInv, [Next]_vars, SetupHolds, SetupHolds'
               PROVE  FlowInv'
      OBVIOUS
  <2>1. ASSUME NEW prog \in Branches, BranchInv(prog)
        PROVE  FlowInv'
    <3>1. BranchInv(prog)'
        BY <2>1, BranchStep
    <3>2. QED
        BY <3>1 DEF FlowInv
  <2>2. ASSUME NEW prog \in Recursions, NEW n \in Depths,
               RecursionInv(prog, n)
        PROVE  FlowInv'
    <3>1. RecursionInv(prog, n)'
        BY <2>2, RecursionStep
    <3>2. QED
        BY <3>1 DEF FlowInv
  <2>3. QED
      BY <2>1, <2>2 DEF FlowInv
<1>3. QED
    BY <1>1, <1>2, PTL DEF Spec

(* After every comparison, signed or unsigned, of any two words in whole or *)
(* part registers the conditional jump behind it goes the way their order   *)
(* says: cmp and the jump agree through R although the difference of the    *)
(* words may overflow. *)
THEOREM BranchesFollowOrder ==
    ASSUME FlowHolds
    PROVE  Spec /\ []SetupHolds => []BranchFollowsOrder
<1>1. FlowInv => BranchFollowsOrder
    BY BranchEnds, RecursionEnds DEF FlowInv
<1>2. QED
    BY <1>1, FlowInvariant, PTL

(* Every call of a recursion of any depth comes back exactly once, with     *)
(* the stack as it was, whether the target is a label, a register or an     *)
(* address in the memory: call and ret are inverse as long as the stack     *)
(* keeps clear of the program. *)
THEOREM CallsAllReturn ==
    ASSUME FlowHolds
    PROVE  Spec /\ []SetupHolds => []CallsReturn
<1>1. FlowInv => CallsReturn
    BY BranchEnds, RecursionEnds DEF FlowInv
<1>2. QED
    BY <1>1, FlowInvariant, PTL
==============================================================================
