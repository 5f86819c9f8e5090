------------------------------ MODULE AluLaws ------------------------------
(***************************************************************************)
(* Laws of the arithmetic operations, over all operands of a small word:   *)
(* what a program that combines the result of an operation with the rest   *)
(* it leaves in R relies on.                                               *)
(***************************************************************************)
EXTENDS Tx8Alu

CONSTANT Firsts         \* first operands

(* A byte has at least two bits, so that 1 is a positive number of every   *)
(* width. *)
ASSUME LawsAssumption == /\ BYTE % 4 = 0
                         /\ Firsts \subseteq WordRange

VARIABLES a, b, size    \* two words, and the width of the destination
vars == <<a, b, size>>

(* The operands of a destination of that width, as the handlers read them: *)
(* zero extended, or sign extended for the operations on signed numbers.   *)
Init == /\ size \in {1, 2, 4}
        /\ a \in Firsts /\ a < Capacity(size)
        /\ b = 0

(* The second operand goes through all words. *)
Next == b' = Word(b + 1) /\ UNCHANGED <<a, size>>
Spec == Init /\ [][Next]_vars

-----------------------------------------------------------------------------
sa == SignExtend(a, size)
out(op, x, y) == CHOOSE o \in alu(op, x, y, size) : TRUE
res(op, x, y) == out(op, x, y).res % Capacity(size)
rest(op, x, y) == out(op, x, y).r

(* A subtraction undoes an addition and reports the same two overflows:    *)
(* the carry of the one is the borrow of the other. *)
SubtractionUndoesAddition ==
    LET sum == res("uadd", a, b) IN
    /\ res("usub", sum, b) = a
    /\ rest("usub", sum, b) = rest("uadd", a, b)
    /\ res("sub", res("add", sa, b), b) = a

(* inc and dec compute their flags on their own, and agree with adding and *)
(* subtracting 1 at every width. *)
IncIsAddOne == /\ res("inc", a, 0) = res("uadd", a, 1)
               /\ rest("inc", a, 0) = rest("uadd", a, 1)
               /\ res("dec", a, 0) = res("usub", a, 1)
               /\ rest("dec", a, 0) = rest("usub", a, 1)

(* R holds the high word of a product, signed or not. *)
ProductIsWide ==
    size = 4 =>
      /\ Signed(rest("mul", a, b), 4) * WORD + res("mul", a, b)
            = Signed(a, 4) * Signed(b, 4)
      /\ rest("umul", a, b) * WORD + res("umul", a, b) = a * b

(* Quotient and the remainder left in R give the dividend back; the        *)
(* remainder is smaller than the divisor and has the dividend's sign. *)
DivisionHasRemainder ==
    size = 4 /\ b # 0 =>
      /\ ~DivOverflows("div", a, b) =>
           LET x == Signed(a, 4)
               y == Signed(b, 4)
               q == Signed(res("div", a, b), 4)
               m == Signed(rest("div", a, b), 4)
           IN  /\ q * y + m = x
               /\ m * x >= 0
               /\ Greater(m, -m) < Greater(y, -y)
               /\ res("mod", a, b) = rest("div", a, b)
      /\ res("udiv", a, b) * b + rest("udiv", a, b) = a
      /\ rest("udiv", a, b) < b
      /\ res("umod", a, b) = rest("udiv", a, b)

(* A shift loses nothing: the bits it drops are in R, at every width. *)
ShiftsKeepBits ==
    LET n == bit_trunc(b, size) IN
    /\ res("slr", a, b) * Pow2[n] + rest("slr", a, b) = a
    /\ rest("sll", a, b) * Capacity(size) + res("sll", a, b) = a * Pow2[n]
    /\ Signed(out("sar", sa, b).res, 4) * Pow2[n] + rest("sar", sa, b)
         = Signed(a, size)

(* Rotations of a register of any width undo each other, and rotating      *)
(* right is rotating left by what is left of the width. *)
RotationsUndo ==
    LET n == bit_trunc(b, size) IN
    /\ res("rol", res("ror", a, b), b) = a
    /\ res("ror", a, n) = res("rol", a, (Bits(size) - n) % Bits(size))

(* set, clr and tgl leave the old bit in R, by which it can be restored,   *)
(* and agree with the logical operations on the one-bit mask. *)
BitsRestore ==
    LET mask == Pow2[bit_trunc(b, size)]
        Restored(x, old) == IF old = 1 THEN res("set", x, b)
                            ELSE res("clr", x, b)
    IN  /\ \A op \in {"set", "clr", "tgl"} :
             Restored(res(op, a, b), rest(op, a, b)) = a
        /\ res("set", a, b) = res("or", a, mask)
        /\ res("tgl", a, b) = res("xor", a, mask)
        /\ res("clr", a, b) = res("and", a, res("not", mask, 0))

(* De Morgan, and exclusive or from the others. *)
LogicAgrees ==
    /\ res("nand", a, b) = res("or", res("not", a, 0), res("not", b, 0))
    /\ res("xor", a, b) = res("and", res("or", a, b), res("nand", a, b))

(* The greater of two numbers goes to the destination and the other one to *)
(* R, so that nothing is lost; abs leaves the sign it drops in R. *)
ExtremaKeepBoth ==
    LET pair(op, x, y) == <<out(op, x, y).res, rest(op, x, y)>>
        Swapped(p) == <<p[2], p[1]>>
        Descending(p) == p[1] >= p[2]
        Signs(p) == <<Signed(p[1], 4), Signed(p[2], 4)>>
    IN  /\ pair("max", sa, b) \in {<<sa, b>>, <<b, sa>>}
        /\ Descending(Signs(pair("max", sa, b)))
        /\ pair("min", sa, b) = Swapped(pair("max", sa, b))
        /\ pair("umax", a, b) \in {<<a, b>>, <<b, a>>}
        /\ Descending(pair("umax", a, b))
        /\ pair("umin", a, b) = Swapped(pair("umax", a, b))
        /\ LET s == Signs(pair("abs", sa, 0)) IN Word(s[1] * s[2]) = sa
=============================================================================
