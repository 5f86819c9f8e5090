------------------------------- MODULE Tx8Alu -------------------------------
(***************************************************************************)
(* What the arithmetic handlers of core/cpu.cpp compute, as pure           *)
(* operators: alu(op, a, b, size) is the set of outcomes [res, r] of       *)
(* operation op on the words a and b read from its parameters, where size  *)
(* is the width in bytes of its destination.  res is what is written to    *)
(* the destination and r to the register R afterwards.                     *)
(*                                                                         *)
(* Most operations have one outcome.  The bit patterns that floating point *)
(* arithmetic yields are not modelled: they are any of FloatBits.          *)
(***************************************************************************)
EXTENDS Tx8Word

CONSTANTS
    FloatBits,  \* bit patterns of the results of float operations
    RANDOM_MAX, \* 0x7fff in the code
    RAND_MUL,   \* 214013 in the code
    RAND_ADD    \* 2541011 in the code

ASSUME RandAssumption == /\ RANDOM_MAX \in Nat
                         /\ RAND_MUL \in Nat
                         /\ RAND_ADD \in Nat

NoR == -1   \* the operation leaves R alone

AluOutcomes == [res : WordRange, r : NoR .. WORD - 1]

-----------------------------------------------------------------------------
(* Comparison macros of core/util.hpp. *)

SGN(x) == IF x > 0 THEN 1 ELSE IF x < 0 THEN -1 ELSE 0

(* Fault: the order is the sign of a wrapped difference. *)
CMP_by_difference(x, y) == SGN(Signed(x - y, 4))

CMP(x, y) == SGN(x - y)
Greater(x, y) == IF x > y THEN x ELSE y

(* Fault: the branches are swapped. *)
Smaller_swapped(x, y) == IF x < y THEN y ELSE x

Smaller(x, y) == IF x < y THEN x ELSE y

-----------------------------------------------------------------------------
(* Bits. *)

Bit(x, i) == IF (x \div Pow2[i]) % 2 = 1 THEN 1 ELSE 0
Positions == 0 .. Bits(4) - 1

(* The word whose bits at these positions are 1, from the lowest on. *)
FromBits(positions) ==
    LET low[n \in 0 .. Bits(4)] ==
            IF n = 0 THEN 0
            ELSE low[n - 1]
                 + (IF n - 1 \in positions THEN Pow2[n - 1] ELSE 0)
    IN  low[Bits(4)]

BitAnd(x, y) == FromBits({i \in Positions : Bit(x, i) = 1 /\ Bit(y, i) = 1})
BitOr(x, y) == FromBits({i \in Positions : Bit(x, i) = 1 \/ Bit(y, i) = 1})

(* Fault: or instead of exclusive or. *)
BitXor_inclusive(x, y) == BitOr(x, y)

BitXor(x, y) == FromBits({i \in Positions : Bit(x, i) # Bit(y, i)})

BitNot(x) == WORD - 1 - x

(* x << n and x >> n on uint32, and x >> n on int32, for n < Bits(4) *)
ShiftLeft(x, n) == (x % Pow2[Bits(4) - n]) * Pow2[n]
ShiftRight(x, n) == x \div Pow2[n]
ShiftRightSigned(x, n) == Word(Signed(x, 4) \div Pow2[n])

-----------------------------------------------------------------------------
(* Integer arithmetic. *)

(* C++ division truncates towards zero; \div rounds down. *)
Quotient(x, y) == LET q == Greater(x, -x) \div Greater(y, -y)
                  IN  IF (x < 0) = (y < 0) THEN q ELSE -q

(* Fault: the quotient is rounded down. *)
Remainder_floored(x, y) == x - y * (x \div y)

Remainder(x, y) == x - y * Quotient(x, y)

DivisionOps == {"div", "mod", "udiv", "umod"}

(* INT_MIN / -1 has no value in int32: undefined in C++. *)
DivOverflows(op, a, b) ==
    /\ op \in {"div", "mod"}
    /\ 2 * a = WORD
    /\ b = WORD - 1

(* Fault: only the upper bound of signed results counts. *)
OverflowFlags_no_underflow(unsigned, signed, size) ==
    LET c == Capacity(size)
    IN  (IF unsigned \notin 0 .. c - 1 THEN 1 ELSE 0)
        + (IF 2 * signed >= c THEN 2 ELSE 0)

(* The result does not fit: unsigned in bit 0, signed in bit 1. *)
OverflowFlags(unsigned, signed, size) ==
    LET c == Capacity(size)
    IN  (IF unsigned \notin 0 .. c - 1 THEN 1 ELSE 0)
        + (IF 2 * signed < -c \/ 2 * signed >= c THEN 2 ELSE 0)

add(a, b, size) ==
    [ res |-> (a + b) % Capacity(size),
      r |-> OverflowFlags((a % Capacity(size)) + (b % Capacity(size)),
                          Signed(a, size) + Signed(b, size), size) ]
sub(a, b, size) ==
    [ res |-> (a - b) % Capacity(size),
      r |-> OverflowFlags((a % Capacity(size)) - (b % Capacity(size)),
                          Signed(a, size) - Signed(b, size), size) ]

(* Fault: the signed flag is that of the value before. *)
inc_flags_before(a, size) ==
    LET v == (a + 1) % Capacity(size)
    IN  [res |-> v, r |-> (IF 2 * (v + 1) = Capacity(size) THEN 2 ELSE 0)
                          + (IF v = 0 THEN 1 ELSE 0)]

(* inc and dec flag the value they arrive at. *)
inc(a, size) ==
    LET v == (a + 1) % Capacity(size)
    IN  [res |-> v, r |-> (IF 2 * v = Capacity(size) THEN 2 ELSE 0)
                          + (IF v = 0 THEN 1 ELSE 0)]
dec(a, size) ==
    LET v == (a - 1) % Capacity(size)
    IN  [res |-> v, r |-> (IF 2 * (v + 1) = Capacity(size) THEN 2 ELSE 0)
                          + (IF v = Capacity(size) - 1 THEN 1 ELSE 0)]

(* Fault: the high word is a quotient, not a shift. *)
product_truncated(p) == [res |-> Word(p), r |-> Word(Quotient(p, WORD))]

(* The 64 bit product: its low word is the result, its high word goes to R.*)
product(p) == [res |-> Word(p), r |-> Word(p \div WORD)]

-----------------------------------------------------------------------------
(* Shifts, rotations and single bits.  BIT_TRUNC masks the count with the  *)
(* width of a register destination. *)

bit_trunc(b, size) == b % Bits(size)

slr(a, b) == [res |-> ShiftRight(a, b), r |-> a % Pow2[b]]
sar(a, b) == [res |-> ShiftRightSigned(a, b), r |-> a % Pow2[b]]

(* Fault: the bits shifted out of a small register are lost. *)
sll_as_word(a, b, size) ==
    [ res |-> ShiftLeft(a, b),
      r |-> IF b = 0 THEN 0 ELSE ShiftRight(a, Bits(4) - b) ]

sll(a, b, size) ==
    [ res |-> ShiftLeft(a, b),
      r |-> IF b = 0 THEN 0 ELSE ShiftRight(a, Bits(size) - b) ]

(* Fault: small registers rotate as words. *)
opposite_as_word(b, size) == (Bits(4) - b) % Bits(4)

(* -b & mask, the opposite count of a rotation *)
opposite(b, size) == (Bits(size) - b) % Bits(size)
ror(a, b, size) == BitOr(ShiftRight(a, b), ShiftLeft(a, opposite(b, size)))
rol(a, b, size) == BitOr(ShiftLeft(a, b), ShiftRight(a, opposite(b, size)))

set(a, b) == IF Bit(a, b) = 1 THEN a ELSE a + Pow2[b]

(* Fault: the bit is taken for set. *)
clr_blindly(a, b) == a - Pow2[b]

clr(a, b) == IF Bit(a, b) = 1 THEN a - Pow2[b] ELSE a
tgl(a, b) == IF Bit(a, b) = 1 THEN a - Pow2[b] ELSE a + Pow2[b]

-----------------------------------------------------------------------------
(* Operations by the way the handlers read their parameters: sign extended *)
(* (AR_OP_*_BEGIN) or zero extended (AR_UOP_*_BEGIN).                      *)

SignedOps == {"add", "sub", "mul", "div", "mod", "max", "min", "abs", "sign",
              "sar"}
FloatOps1 == {"finc", "fdec", "fabs", "fsign", "sin", "cos", "tan", "asin",
              "acos", "atan", "sqrt", "exp", "log", "log2", "log10",
              "itf", "fti", "utf", "ftu"}
FloatOps2 == {"fadd", "fsub", "fmul", "fdiv", "fmod", "fmax", "fmin",
              "atan2", "pow"}
UnsignedOps == {"inc", "dec", "and", "or", "not", "nand", "xor", "slr", "sll",
                "ror", "rol", "set", "clr", "tgl",
                "uadd", "usub", "umul", "udiv", "umod", "umax", "umin"}
SignedRead == SignedOps \cup FloatOps1 \cup FloatOps2
AluOps == SignedRead \cup UnsignedOps

(* Fault: R is reset. *)
Only_clearing_r(res) == {[res |-> res, r |-> 0]}

(* Operations on one parameter and operations on whole words without R. *)
Only(res) == {[res |-> res, r |-> NoR]}
Both(res, r) == {[res |-> res, r |-> r]}

integer(op, a, b) ==
    LET x == Signed(a, 4)
        y == Signed(b, 4)
    IN  CASE op = "mul"  -> {product(x * y)}
          [] op = "div"  -> Both(Word(Quotient(x, y)), Word(Remainder(x, y)))
          [] op = "mod"  -> Only(Word(Remainder(x, y)))
          [] op = "max"  -> Both(Word(Greater(x, y)), Word(Smaller(x, y)))
          [] op = "min"  -> Both(Word(Smaller(x, y)), Word(Greater(x, y)))
          [] op = "abs"  -> Both(Word(Greater(x, -x)), Word(SGN(x)))
          [] op = "sign" -> Only(Word(SGN(x)))
          [] op = "umul" -> {product(a * b)}
          [] op = "udiv" -> Both(a \div b, a % b)
          [] op = "umod" -> Only(a % b)
          [] op = "umax" -> Both(Greater(a, b), Smaller(a, b))
          [] op = "umin" -> Both(Smaller(a, b), Greater(a, b))
          [] op = "and"  -> Only(BitAnd(a, b))
          [] op = "or"   -> Only(BitOr(a, b))
          [] op = "not"  -> Only(BitNot(a))
          [] op = "nand" -> Only(BitNot(BitAnd(a, b)))
          [] op = "xor"  -> Only(BitXor(a, b))

sized(op, a, n, size) ==
    CASE op = "slr" -> {slr(a, n)}
      [] op = "sar" -> {sar(a, n)}
      [] op = "sll" -> {sll(a, n, size)}
      [] op = "ror" -> Only(ror(a, n, size))
      [] op = "rol" -> Only(rol(a, n, size))
      [] op = "set" -> Both(set(a, n), Bit(a, n))
      [] op = "clr" -> Both(clr(a, n), Bit(a, n))
      [] op = "tgl" -> Both(tgl(a, n), Bit(a, n))

(* MAX and MIN of floats choose an operand each, not both the first: with  *)
(* a NaN the comparison is false and both choose the second. *)
float(op, a, b) ==
    IF op \in {"fmax", "fmin"}
    THEN {out \in [res : {a, b}, r : {a, b}] : out.res = b \/ out.r = b}
    ELSE [res : FloatBits, r : IF op = "fabs" THEN FloatBits ELSE {NoR}]

SizedOps == {"slr", "sar", "sll", "ror", "rol", "set", "clr", "tgl"}

alu(op, a, b, size) ==
    CASE op \in {"add", "uadd"} -> {add(a, b, size)}
      [] op \in {"sub", "usub"} -> {sub(a, b, size)}
      [] op = "inc" -> {inc(a, size)}
      [] op = "dec" -> {dec(a, size)}
      [] op \in SizedOps -> sized(op, a, bit_trunc(b, size), size)
      [] op \in FloatOps1 \cup FloatOps2 -> float(op, a, b)
      [] OTHER -> integer(op, a, b)

(* CPU::rand: the next seed, and the number drawn from it. *)
next_seed(seed) == Word(seed * RAND_MUL + RAND_ADD)
drawn(seed) == (seed \div SHORT) % (RANDOM_MAX + 1)
=============================================================================
