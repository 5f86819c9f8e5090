--------------------------- MODULE AluLaws_proofs ---------------------------
(***************************************************************************)
(* The laws of the arithmetic operations, for every width of a byte and    *)
(* all operands.                                                           *)
(*                                                                         *)
(* The laws of sums, products and quotients rest on what reading a number  *)
(* as signed does (Residues and signed numbers in Tx8Isa_proofs).  Those   *)
(* of the operations on bits rest on a second reading: a word is the set   *)
(* of the positions of its bits, every set of positions is that of exactly *)
(* one word, and the operations are operations on such sets.               *)
(***************************************************************************)
EXTENDS AluLaws, Tx8Isa_proofs

-----------------------------------------------------------------------------
(* What the laws speak about: the operands of a state, and the one outcome *)
(* of an operation. *)

Operands == /\ size \in {1, 2, 4}
            /\ a \in 0 .. Capacity(size) - 1
            /\ b \in WordRange

(* The operands of a destination of some width, and a whole word. *)
LEMMA OperandsStay == Spec => []Operands
<1>1. Init => Operands
  <2>1. SUFFICES ASSUME Init PROVE Operands
      OBVIOUS
  <2>2. Capacity(size) \in Nat \ {0} /\ a \in WordRange
      BY <2>1, CapacityRange, LawsAssumption DEF Init
  <2>3. QED
      BY <2>1, <2>2, Widths DEF Init, Operands, WordRange
<1>2. Operands /\ [Next]_vars => Operands'
  <2>1. SUFFICES ASSUME Operands, [Next]_vars PROVE Operands'
      OBVIOUS
  <2>2. CASE UNCHANGED vars
      BY <2>1, <2>2 DEF Operands, vars
  <2>3. CASE Next
    <3>1. b + 1 \in Int
        BY <2>1 DEF Operands, WordRange
    <3>2. QED
        BY <2>1, <2>3, <3>1, WordType DEF Operands, Next
  <2>4. QED
      BY <2>1, <2>2, <2>3
<1>3. QED
    BY <1>1, <1>2, PTL DEF Spec

(* An operation with one outcome has its result and its R. *)
LEMMA OneOutcome ==
    ASSUME NEW op, NEW x, NEW y, NEW o, alu(op, x, y, size) = {o}
    PROVE  /\ out(op, x, y) = o
           /\ res(op, x, y) = o.res % Capacity(size)
           /\ rest(op, x, y) = o.r
BY DEF out, res, rest

(* The four sums and differences, signed and unsigned, are computed alike. *)
LEMMA SumOutcomes ==
    ASSUME NEW x, NEW y
    PROVE  /\ \A op \in {"add", "uadd"} :
                 /\ res(op, x, y) = add(x, y, size).res % Capacity(size)
                 /\ rest(op, x, y) = add(x, y, size).r
           /\ \A op \in {"sub", "usub"} :
                 /\ res(op, x, y) = sub(x, y, size).res % Capacity(size)
                 /\ rest(op, x, y) = sub(x, y, size).r
           /\ res("inc", x, y) = inc(x, size).res % Capacity(size)
           /\ rest("inc", x, y) = inc(x, size).r
           /\ res("dec", x, y) = dec(x, size).res % Capacity(size)
           /\ rest("dec", x, y) = dec(x, size).r
<1>0. \A op \in {"add", "uadd", "sub", "usub", "inc", "dec"} :
          op \notin SizedOps /\ op \notin FloatOps1 \cup FloatOps2
    BY DEF SizedOps, FloatOps1, FloatOps2
<1>1. \A op \in {"add", "uadd"} : alu(op, x, y, size) = {add(x, y, size)}
    BY <1>0 DEF alu
<1>2. \A op \in {"sub", "usub"} : alu(op, x, y, size) = {sub(x, y, size)}
    BY <1>0 DEF alu
<1>3. /\ alu("inc", x, y, size) = {inc(x, size)}
      /\ alu("dec", x, y, size) = {dec(x, size)}
    BY <1>0 DEF alu
<1>4. QED
    BY <1>1, <1>2, <1>3, OneOutcome

(* A capacity is even and greater than 2. *)
LEMMA EvenCapacity ==
    ASSUME NEW n \in {1, 2, 4}
    PROVE  \E h \in Nat : Capacity(n) = 2 * h /\ h > 1
<1>1. BYTE \in Nat /\ BYTE > 1 /\ BYTE % 4 = 0
    BY ByteAssumption, LawsAssumption
<1>2. PICK q \in Nat : BYTE = 4 * q /\ q > 0
    BY <1>1
<1>3. \A k \in Nat \ {0} : \E h \in Nat : BYTE * k = 2 * h /\ h > 1
  <2>1. SUFFICES ASSUME NEW k \in Nat \ {0}
                 PROVE  \E h \in Nat : BYTE * k = 2 * h /\ h > 1
      OBVIOUS
  <2>2. q * k \in Nat /\ q * k > 0 /\ BYTE * k = 4 * (q * k)
      BY <1>2
  <2> DEFINE h == 2 * (q * k)
  <2>3. h \in Nat /\ BYTE * k = 2 * h /\ h > 1
      BY <2>2
  <2>4. QED
      BY <2>3
<1>4. BYTE * 1 = BYTE /\ SHORT = BYTE * BYTE /\ WORD = BYTE * ADDRESS
    BY <1>1 DEF SHORT, WORD
<1>5. BYTE \in Nat \ {0} /\ ADDRESS \in Nat \ {0}
    BY Widths
<1>6. QED
    BY <1>3, <1>4, <1>5 DEF Capacity

-----------------------------------------------------------------------------
(* Addition and subtraction. *)

(* The flags of a sum and of a difference. *)
Fits(x, c) == x >= 0 /\ x < c
FitsSigned(x, c) == -c <= 2 * x /\ 2 * x < c

(* The two flags are about the two readings of the exact result. *)
LEMMA FlagsOf ==
    ASSUME NEW u \in Int, NEW s \in Int, NEW n
    PROVE  OverflowFlags(u, s, n)
               = (IF Fits(u, Capacity(n)) THEN 0 ELSE 1)
                 + (IF FitsSigned(s, Capacity(n)) THEN 0 ELSE 2)
<1>1. Capacity(n) \in Nat \ {0}
    BY CapacityRange
<1>2. QED
    BY <1>1 DEF OverflowFlags, Fits, FitsSigned

(* A number of that width is its own low part; the upper half is negative. *)
LEMMA SignedOfLow ==
    ASSUME NEW n, NEW x \in 0 .. Capacity(n) - 1
    PROVE  /\ x % Capacity(n) = x
           /\ Signed(x, n) = IF 2 * x >= Capacity(n) THEN x - Capacity(n)
                             ELSE x
<1>1. Capacity(n) \in Nat \ {0}
    BY CapacityRange
<1>2. x % Capacity(n) = x
    BY <1>1, SmallMod
<1>3. QED
    BY <1>2 DEF Signed

(* The next residue, and the one before. *)
LEMMA NextResidue ==
    ASSUME NEW c \in Nat \ {0}, NEW x \in 0 .. c - 1
    PROVE  /\ (x + 1) % c = IF x = c - 1 THEN 0 ELSE x + 1
           /\ (x - 1) % c = IF x = 0 THEN c - 1 ELSE x - 1
<1>1. CASE x = c - 1
  <2>1. x + 1 = 0 + c * 1
      BY <1>1
  <2>2. (x + 1) % c = 0
      BY <2>1, LowPart
  <2>3. x = 0 \/ x - 1 \in 0 .. c - 1
      OBVIOUS
  <2>4. QED
      BY <1>1, <2>2, <2>3, SmallMod
<1>2. CASE x # c - 1
  <2>1. (x + 1) % c = x + 1
    <3>1. x + 1 \in 0 .. c - 1
        BY <1>2
    <3>2. QED
        BY <3>1, SmallMod
  <2>2. CASE x = 0
    <3>1. x - 1 = (c - 1) + c * (-1) /\ c - 1 \in 0 .. c - 1
        BY <2>2
    <3>2. (x - 1) % c = c - 1
        BY <3>1, LowPart
    <3>3. QED
        BY <1>2, <2>1, <2>2, <3>2
  <2>3. CASE x # 0
    <3>1. x - 1 \in 0 .. c - 1
        BY <2>3
    <3>2. (x - 1) % c = x - 1
        BY <3>1, SmallMod
    <3>3. QED
        BY <1>2, <2>1, <2>3, <3>2
  <2>4. QED
      BY <2>2, <2>3
<1>3. QED
    BY <1>1, <1>2

(* inc and dec are the addition and subtraction of 1, flags included: the  *)
(* value they arrive at tells which limit was passed. *)
LEMMA IncAgrees ==
    ASSUME NEW n \in {1, 2, 4}, NEW x \in 0 .. Capacity(n) - 1
    PROVE  inc(x, n) = add(x, 1, n) /\ dec(x, n) = sub(x, 1, n)
<1> DEFINE c == Capacity(n)
<1>1. PICK h \in Nat : c = 2 * h /\ h > 1
    BY EvenCapacity
<1>2. x % c = x /\ Signed(x, n) = IF 2 * x >= c THEN x - c ELSE x
    BY SignedOfLow
<1>3. 1 % c = 1 /\ Signed(1, n) = 1
  <2>1. 1 \in 0 .. c - 1 /\ ~(2 * 1 >= c)
      BY <1>1
  <2>2. QED
      BY <2>1, SignedOfLow
<1>4. c \in Nat \ {0} /\ x \in 0 .. c - 1
    BY CapacityRange
<1>5. /\ (x + 1) % c = IF x = c - 1 THEN 0 ELSE x + 1
      /\ (x - 1) % c = IF x = 0 THEN c - 1 ELSE x - 1
    BY <1>4, NextResidue
<1> DEFINE s == Signed(x, n)
           up == (x + 1) % c
           down == (x - 1) % c
<1>6. s \in Int /\ s + 1 \in Int /\ s - 1 \in Int
      /\ x + 1 \in Int /\ x - 1 \in Int
    BY <1>2, <1>4
<1>7. /\ OverflowFlags(x + 1, s + 1, n)
           = (IF Fits(x + 1, c) THEN 0 ELSE 1)
             + (IF FitsSigned(s + 1, c) THEN 0 ELSE 2)
      /\ OverflowFlags(x - 1, s - 1, n)
           = (IF Fits(x - 1, c) THEN 0 ELSE 1)
             + (IF FitsSigned(s - 1, c) THEN 0 ELSE 2)
    BY <1>6, FlagsOf
<1>8. /\ add(x, 1, n) = [res |-> up, r |-> OverflowFlags(x + 1, s + 1, n)]
      /\ sub(x, 1, n) = [res |-> down, r |-> OverflowFlags(x - 1, s - 1, n)]
    BY <1>2, <1>3 DEF add, sub
<1>9. /\ inc(x, n) = [res |-> up, r |-> (IF 2 * up = c THEN 2 ELSE 0)
                                        + (IF up = 0 THEN 1 ELSE 0)]
      /\ dec(x, n) = [res |-> down, r |-> (IF 2 * (down + 1) = c THEN 2 ELSE 0)
                                          + (IF down = c - 1 THEN 1 ELSE 0)]
    BY DEF inc, dec
<1> HIDE DEF c, s, up, down
<1>10. /\ Fits(x + 1, c) <=> up # 0
       /\ Fits(x - 1, c) <=> down # c - 1
    BY <1>4, <1>5 DEF Fits, up, down
<1>11. FitsSigned(s + 1, c) <=> 2 * up # c
    BY <1>1, <1>2, <1>4, <1>5 DEF FitsSigned, up, s
<1>12. FitsSigned(s - 1, c) <=> 2 * (down + 1) # c
    BY <1>1, <1>2, <1>4, <1>5 DEF FitsSigned, down, s
<1>13. up \in Int /\ down \in Int
    BY <1>4, <1>5 DEF up, down
<1>14. /\ (IF 2 * up = c THEN 2 ELSE 0) + (IF up = 0 THEN 1 ELSE 0)
            = (IF Fits(x + 1, c) THEN 0 ELSE 1)
              + (IF FitsSigned(s + 1, c) THEN 0 ELSE 2)
       /\ (IF 2 * (down + 1) = c THEN 2 ELSE 0)
          + (IF down = c - 1 THEN 1 ELSE 0)
            = (IF Fits(x - 1, c) THEN 0 ELSE 1)
              + (IF FitsSigned(s - 1, c) THEN 0 ELSE 2)
    BY <1>10, <1>11, <1>12, <1>13
<1>15. QED
    BY <1>7, <1>8, <1>9, <1>14

(* inc and dec, which compute their flags on their own, agree with adding  *)
(* and subtracting 1 on all numbers of every width. *)
THEOREM IncIsAddition == Spec => []IncIsAddOne
<1>1. Operands => IncIsAddOne
  <2>1. SUFFICES ASSUME Operands PROVE IncIsAddOne
      OBVIOUS
  <2>2. inc(a, size) = add(a, 1, size) /\ dec(a, size) = sub(a, 1, size)
      BY <2>1, IncAgrees DEF Operands
  <2>3. QED
      BY <2>2, SumOutcomes DEF IncIsAddOne
<1>2. QED
    BY <1>1, OperandsStay, PTL

(* A subtraction undoes an addition, with the same two overflows. *)
LEMMA SubUndoesAdd ==
    ASSUME NEW n, NEW x \in 0 .. Capacity(n) - 1, NEW y \in Int
    PROVE  LET sum == add(x, y, n)
               back == sub(sum.res, y, n)
           IN  back.res = x /\ back.r = sum.r
<1> DEFINE c == Capacity(n)
           s == (x + y) % c
           w == y % c
           X == Signed(x, n)
           Y == Signed(y, n)
           T == Signed(s, n)
<1>1. c \in Nat \ {0} /\ x \in 0 .. c - 1 /\ x % c = x
    BY CapacityRange, SignedOfLow
<1>2. s \in 0 .. c - 1 /\ w \in 0 .. c - 1
  <2>1. x + y \in Int
      BY <1>1
  <2> HIDE DEF c
  <2>2. QED
      BY <1>1, <2>1, ModRange
<1>3. PICK k \in Int : s = x + y + c * k
  <2> DEFINE q == (x + y) \div c
  <2>1. x + y \in Int
      BY <1>1
  <2> HIDE DEF c
  <2>2. q \in Int /\ x + y = s + c * q
      BY <1>1, <2>1, IntDivision
  <2> HIDE DEF q, s
  <2>3. s = x + y + c * (-q) /\ -q \in Int
      BY <1>1, <1>2, <2>2
  <2>4. QED
      BY <2>3
<1>4. PICK j \in Int : w = y + c * j
  <2> DEFINE q == y \div c
  <2> HIDE DEF c
  <2>1. q \in Int /\ y = w + c * q
      BY <1>1, IntDivision
  <2> HIDE DEF q, w
  <2>2. w = y + c * (-q) /\ -q \in Int
      BY <1>1, <1>2, <2>1
  <2>3. QED
      BY <2>2
<1>5. s % c = s
  <2> HIDE DEF c, s
  <2>1. QED
      BY <1>1, <1>2, SmallMod
<1>6. /\ X \in Int /\ -c <= 2 * X /\ 2 * X < c
      /\ Y \in Int /\ -c <= 2 * Y /\ 2 * Y < c
      /\ T \in Int /\ -c <= 2 * T /\ 2 * T < c
    BY <1>1, <1>2, SignedRange
<1>7. PICK kx \in Int : X = x + c * kx
    BY <1>1, SignedRange
<1>8. PICK ky \in Int : Y = y + c * ky
    BY SignedRange
<1>9. PICK kt \in Int : T = s + c * kt
    BY <1>2, SignedRange
<1>10. /\ add(x, y, n) = [res |-> s, r |-> OverflowFlags(x + w, X + Y, n)]
       /\ sub(s, y, n) = [res |-> (s - y) % c,
                          r |-> OverflowFlags(s - w, T - Y, n)]
    BY <1>1, <1>5 DEF add, sub
<1> HIDE DEF c, s, w, X, Y, T
<1>11. (s - y) % c = x
  <2>1. s - y = x + c * k
      BY <1>1, <1>2, <1>3
  <2>2. QED
      BY SMTT(30), <1>1, <2>1, LowPart
<1>12. Fits(s - w, c) <=> Fits(x + w, c)
  <2>1. s = x + w + c * (k - j)
      BY <1>1, <1>2, <1>3, <1>4
  <2> DEFINE i == k - j
  <2>2. i \in Int /\ s = x + w + c * i
      BY <2>1
  <2> HIDE DEF i
  <2>3. i > 0 => c * i >= c
      BY <1>1, <2>2
  <2>4. i < -1 => c * i <= -c - c
      BY <1>1, <2>2
  <2>5. i = 0 \/ i = -1
      BY <1>1, <1>2, <2>2, <2>3, <2>4
  <2>6. c * 0 = 0 /\ c * (-1) = -c
      BY <1>1
  <2>7. s = x + w \/ s = x + w - c
      BY <1>1, <1>2, <2>2, <2>5, <2>6
  <2>8. QED
      BY <1>1, <1>2, <2>7 DEF Fits
<1>13. FitsSigned(T - Y, c) <=> FitsSigned(X + Y, c)
  <2> DEFINE i == kt + k - kx - ky
  <2>1. T = X + Y + c * i
      BY <1>1, <1>2, <1>3, <1>6, <1>7, <1>8, <1>9
  <2>2. i \in Int
      OBVIOUS
  <2> HIDE DEF i
  <2>3. i >= 1 => c * i >= c
      BY <1>1, <2>2
  <2>4. i <= -1 => c * i <= -c
      BY <1>1, <2>2
  <2>5. CASE i = 0
    <3>1. T = X + Y
        BY <1>1, <1>6, <2>1, <2>5
    <3>2. QED
        BY <1>1, <1>6, <3>1 DEF FitsSigned
  <2>6. CASE i # 0
    <3> DEFINE d == c * i
    <3>1. d \in Int /\ (d >= c \/ d <= -c) /\ T = X + Y + d
        BY <1>1, <2>1, <2>2, <2>3, <2>4, <2>6
    <3> HIDE DEF d
    <3>2. QED
        BY <1>1, <1>6, <3>1 DEF FitsSigned
  <2>7. QED
      BY <2>5, <2>6
<1>14. OverflowFlags(s - w, T - Y, n) = OverflowFlags(x + w, X + Y, n)
  <2>1. /\ s - w \in Int /\ T - Y \in Int
        /\ x + w \in Int /\ X + Y \in Int
      BY <1>1, <1>2, <1>6
  <2>2. QED
      BY <2>1, <1>12, <1>13, FlagsOf DEF c
<1>15. QED
    BY <1>10, <1>11, <1>14

(* Subtraction undoes addition, modulo the capacity. *)
LEMMA DifferenceOfSum ==
    ASSUME NEW c \in Nat \ {0}, NEW x \in Int, NEW y \in Int
    PROVE  (((x + y) % c) - y) % c = x % c
<1> DEFINE s == (x + y) % c
           q == (x + y) \div c
<1>1. x + y \in Int
    OBVIOUS
<1>2. s \in 0 .. c - 1 /\ q \in Int /\ x + y = s + c * q
    BY <1>1, IntDivision
<1> HIDE DEF s, q
<1>3. s - y = x + c * (-q) /\ -q \in Int
    BY <1>2
<1>4. (s - y) % c = x % c
    BY <1>3, Congruent
<1>5. QED
    BY <1>4 DEF s

(* A program gets its number back, and the same carry and overflow in R,   *)
(* when it subtracts what it added, at every width. *)
THEOREM SubtractionUndoes == Spec => []SubtractionUndoesAddition
<1>1. Operands => SubtractionUndoesAddition
  <2>1. SUFFICES ASSUME Operands PROVE SubtractionUndoesAddition
      OBVIOUS
  <2> DEFINE c == Capacity(size)
             usum == add(a, b, size)
             back == sub(usum.res, b, size)
             ssum == add(sa, b, size)
             sback == sub(ssum.res, b, size)
  <2>2. /\ c \in Nat \ {0} /\ a \in 0 .. c - 1 /\ b \in Int
        /\ a % c = a
      BY <2>1, CapacityRange, SignedOfLow DEF Operands, WordRange
  <2>3. back.res = a /\ back.r = usum.r
      BY <2>1, <2>2, SubUndoesAdd DEF Operands
  <2>4. sa % c = a
    <3>1. a \in Int
        BY <2>2
    <3>2. PICK k \in Int : SignExtend(a, size) = a + c * k
        BY <3>1, SignExtended
    <3> HIDE DEF c
    <3>3. QED
        BY <2>2, <3>2, LowPart DEF sa
  <2>5. sback.res = a
    <3>1. sback.res = (((sa + b) % c) - b) % c
        BY DEF add, sub
    <3>2. sa \in Int
        BY <2>2, SignExtendType DEF sa, WordRange
    <3> HIDE DEF c, sback
    <3>3. QED
        BY <2>2, <2>4, <3>1, <3>2, DifferenceOfSum
  <2>6. usum.res % c = usum.res /\ ssum.res % c = ssum.res
    <3>1. usum.res = (a + b) % c /\ ssum.res = (sa + b) % c
        BY DEF add
    <3>2. a + b \in Int /\ sa + b \in Int
        BY <2>2, SignExtendType DEF sa, WordRange
    <3> HIDE DEF c, usum, ssum
    <3>3. usum.res \in 0 .. c - 1 /\ ssum.res \in 0 .. c - 1
        BY <2>2, <3>1, <3>2, ModRange
    <3>4. QED
        BY <2>2, <3>3, SmallMod
  <2>7. res("uadd", a, b) = usum.res /\ rest("uadd", a, b) = usum.r
        /\ res("add", sa, b) = ssum.res
    <3> HIDE DEF usum, ssum
    <3>1. QED
        BY <2>6, SumOutcomes DEF usum, ssum
  <2>8. /\ res("usub", usum.res, b) = back.res % c
        /\ rest("usub", usum.res, b) = back.r
        /\ res("sub", ssum.res, b) = sback.res % c
      BY SumOutcomes
  <2>9. QED
    <3> HIDE DEF c, usum, back, ssum, sback
    <3>1. QED
        BY <2>2, <2>3, <2>5, <2>7, <2>8 DEF SubtractionUndoesAddition
<1>2. QED
    BY <1>1, OperandsStay, PTL

-----------------------------------------------------------------------------
(* Operations on whole words. *)

(* The outcomes of multiplication and division of words. *)
LEMMA WordOutcomes ==
    ASSUME NEW x, NEW y
    PROVE  LET sx == Signed(x, 4)
               sy == Signed(y, 4)
           IN  /\ alu("mul", x, y, size) = {product(sx * sy)}
               /\ alu("umul", x, y, size) = {product(x * y)}
               /\ alu("div", x, y, size)
                    = Both(Word(Quotient(sx, sy)), Word(Remainder(sx, sy)))
               /\ alu("mod", x, y, size) = Only(Word(Remainder(sx, sy)))
               /\ alu("udiv", x, y, size) = Both(x \div y, x % y)
               /\ alu("umod", x, y, size) = Only(x % y)
               /\ alu("max", x, y, size)
                    = Both(Word(Greater(sx, sy)), Word(Smaller(sx, sy)))
               /\ alu("min", x, y, size)
                    = Both(Word(Smaller(sx, sy)), Word(Greater(sx, sy)))
               /\ alu("umax", x, y, size) = Both(Greater(x, y), Smaller(x, y))
               /\ alu("umin", x, y, size) = Both(Smaller(x, y), Greater(x, y))
               /\ alu("abs", x, y, size)
                    = Both(Word(Greater(sx, -sx)), Word(SGN(sx)))
<1> DEFINE Ops == {"mul", "umul", "div", "mod", "udiv", "umod",
                   "max", "min", "umax", "umin", "abs"}
<1>1. \A op \in Ops :
          /\ op \notin SizedOps /\ op \notin FloatOps1 \cup FloatOps2
          /\ op \notin {"add", "uadd"} /\ op \notin {"sub", "usub"}
          /\ op # "inc" /\ op # "dec"
    BY DEF SizedOps, FloatOps1, FloatOps2
<1>2. \A op \in Ops : alu(op, x, y, size) = integer(op, x, y)
    BY <1>1 DEF alu
<1>3. QED
    BY <1>2 DEF integer

(* The absolute value of a product of two numbers of at most h. *)
LEMMA ProductBound ==
    ASSUME NEW h \in Nat, NEW x \in -h .. h, NEW y \in -h .. h
    PROVE  x * y \in -(h * h) .. h * h
<1>1. \A u, v \in 0 .. h : u * v \in 0 .. h * h
  <2>1. SUFFICES ASSUME NEW u \in 0 .. h, NEW v \in 0 .. h
                 PROVE  u * v \in 0 .. h * h
      OBVIOUS
  <2>2. u * v \in Nat /\ u * v <= h * v /\ h * v <= h * h
      OBVIOUS
  <2>3. QED
      BY <2>2
<1>2. /\ (-x) * y = -(x * y) /\ x * (-y) = -(x * y)
      /\ (-x) * (-y) = x * y
    OBVIOUS
<1>3. x * y \in Int /\ h * h \in Int
    OBVIOUS
<1>4. CASE x >= 0 /\ y >= 0
    BY <1>1, <1>3, <1>4
<1>5. CASE x < 0 /\ y >= 0
  <2>1. -x \in 0 .. h /\ y \in 0 .. h
      BY <1>5
  <2>2. (-x) * y \in 0 .. h * h
      BY <1>1, <2>1
  <2>3. QED
      BY <1>2, <1>3, <2>2
<1>6. CASE x >= 0 /\ y < 0
  <2>1. x \in 0 .. h /\ -y \in 0 .. h
      BY <1>6
  <2>2. x * (-y) \in 0 .. h * h
      BY <1>1, <2>1
  <2>3. QED
      BY <1>2, <1>3, <2>2
<1>7. CASE x < 0 /\ y < 0
  <2>1. -x \in 0 .. h /\ -y \in 0 .. h
      BY <1>7
  <2>2. (-x) * (-y) \in 0 .. h * h
      BY <1>1, <2>1
  <2>3. QED
      BY <1>2, <1>3, <2>2
<1>8. QED
    BY <1>4, <1>5, <1>6, <1>7

(* A word that holds a signed number is read as that number. *)
LEMMA SignedOfWord ==
    ASSUME NEW s \in Int, -WORD <= 2 * s, 2 * s < WORD
    PROVE  Signed(Word(s), 4) = s
<1> DEFINE w == s % WORD
           q == s \div WORD
<1>1. w \in 0 .. WORD - 1 /\ q \in Int /\ s = w + WORD * q
    BY IntDivision, Widths
<1> HIDE DEF w, q
<1>2. w = s + WORD * (-q) /\ -q \in Int
    BY <1>1, Widths
<1>3. Capacity(4) = WORD
    BY DEF Capacity
<1>4. w \in Int
    BY <1>1, Widths
<1>5. Signed(w, 4) = s
    BY <1>2, <1>3, <1>4, SignedIs
<1>6. QED
    BY <1>5 DEF w, Word

(* The high word of the 64 bit product is the whole rest, signed and       *)
(* unsigned. *)
LEMMA HighWord ==
    ASSUME NEW x \in WordRange, NEW y \in WordRange
    PROVE  LET p == Signed(x, 4) * Signed(y, 4)
           IN  /\ Signed(product(p).r, 4) * WORD + product(p).res = p
               /\ product(x * y).r * WORD + product(x * y).res = x * y
               /\ product(p).res \in WordRange
               /\ product(x * y).res \in WordRange
<1> DEFINE sx == Signed(x, 4)
           sy == Signed(y, 4)
           p == sx * sy
           u == x * y
<1>1. PICK h \in Nat : WORD = 2 * h /\ h > 1
    BY EvenCapacity DEF Capacity
<1>2. x \in Int /\ y \in Int /\ x \in 0 .. WORD - 1 /\ y \in 0 .. WORD - 1
    BY DEF WordRange
<1>3. sx \in -h .. h /\ sy \in -h .. h
  <2>1. Capacity(4) = WORD
      BY DEF Capacity
  <2>2. /\ sx \in Int /\ -WORD <= 2 * sx /\ 2 * sx < WORD
        /\ sy \in Int /\ -WORD <= 2 * sy /\ 2 * sy < WORD
      BY <1>2, <2>1, SignedRange
  <2> HIDE DEF sx, sy
  <2>3. QED
      BY <1>1, <2>2
<1>4. p \in -(h * h) .. h * h
  <2> HIDE DEF sx, sy
  <2>1. QED
      BY <1>3, ProductBound
<1>5. u \in 0 .. (WORD - 1) * (WORD - 1)
  <2>1. /\ u \in Nat /\ u <= (WORD - 1) * y
        /\ (WORD - 1) * y <= (WORD - 1) * (WORD - 1)
      BY <1>2, Widths
  <2>2. (WORD - 1) * y \in Int /\ (WORD - 1) * (WORD - 1) \in Int
      BY <1>2, Widths
  <2> HIDE DEF u
  <2>3. QED
      BY <2>1, <2>2
<1> HIDE DEF p, u
<1> DEFINE q == p \div WORD
           k == u \div WORD
<1>6. /\ h * h \in Nat /\ p \in Int
      /\ (WORD - 1) * (WORD - 1) \in Nat /\ u \in Int
    BY <1>1, <1>4, <1>5
<1>7. /\ q \in Int /\ p % WORD \in 0 .. WORD - 1 /\ p = (p % WORD) + WORD * q
      /\ k \in Int /\ u % WORD \in 0 .. WORD - 1 /\ u = (u % WORD) + WORD * k
    BY <1>6, IntDivision, Widths
<1> HIDE DEF q, k
<1>8. -WORD <= 2 * q /\ 2 * q < WORD
  <2>1. q >= h => WORD * q >= 2 * (h * h)
    <3>1. SUFFICES ASSUME q >= h PROVE WORD * q >= 2 * (h * h)
        OBVIOUS
    <3>2. h * q >= h * h /\ WORD * q = 2 * (h * q)
        BY <1>1, <1>7, <3>1
    <3>3. QED
        BY <1>1, <1>7, <3>2
  <2>2. q <= -h - 1 => WORD * q <= -(2 * (h * h)) - WORD
    <3>1. SUFFICES ASSUME q <= -h - 1
                   PROVE  WORD * q <= -(2 * (h * h)) - WORD
        OBVIOUS
    <3>2. h * q <= h * (-h - 1) /\ WORD * q = 2 * (h * q)
          /\ h * (-h - 1) = -(h * h) - h
        BY <1>1, <1>7, <3>1
    <3>3. QED
        BY <1>1, <1>7, <3>2
  <2>3. h * h > 0
      BY <1>1
  <2>4. q < h
      BY <1>1, <1>4, <1>6, <1>7, <2>1, <2>3, Widths
  <2>5. q > -h - 1
      BY <1>1, <1>4, <1>6, <1>7, <2>2, <2>3, Widths
  <2>6. QED
      BY <1>1, <1>7, <2>4, <2>5
<1>9. k \in 0 .. WORD - 1
  <2>1. k >= WORD => WORD * k >= WORD * WORD
      BY <1>7, Widths
  <2>2. (WORD - 1) * (WORD - 1) < WORD * WORD
      BY Widths
  <2>3. k < WORD
      BY <1>5, <1>6, <1>7, <2>1, <2>2, Widths
  <2>4. k <= -1 => WORD * k <= -WORD
      BY <1>7, Widths
  <2>5. k >= 0
      BY <1>5, <1>6, <1>7, <2>4, Widths
  <2>6. QED
      BY <1>7, <2>3, <2>5, Widths
<1>10. /\ product(p) = [res |-> p % WORD, r |-> Word(q)]
       /\ product(u) = [res |-> u % WORD, r |-> Word(k)]
    BY DEF product, Word, q, k
<1>11. Signed(Word(q), 4) = q
    BY <1>7, <1>8, SignedOfWord
<1>12. Word(k) = k
    BY <1>9, Widths, SmallMod DEF Word
<1>13. /\ Signed(product(p).r, 4) * WORD + product(p).res = p
       /\ product(u).r * WORD + product(u).res = u
       /\ product(p).res \in WordRange /\ product(u).res \in WordRange
    BY <1>7, <1>10, <1>11, <1>12, Widths DEF WordRange
<1>14. QED
    BY <1>13 DEF p, u

(* A destination of four bytes holds every word. *)
LEMMA WordCapacity ==
    ASSUME Operands, size = 4
    PROVE  /\ Capacity(size) = WORD
           /\ a \in WordRange /\ b \in WordRange
           /\ \A x \in WordRange : x % Capacity(size) = x
<1>1. Capacity(size) = WORD
    BY DEF Capacity
<1>2. \A x \in WordRange : x % WORD = x
    BY Widths, SmallMod DEF WordRange
<1>3. QED
    BY <1>1, <1>2 DEF Operands, WordRange

(* A program finds the whole product of two words in its destination and   *)
(* in R, of signed numbers and of unsigned ones. *)
THEOREM ProductsAreWide == Spec => []ProductIsWide
<1>1. Operands => ProductIsWide
  <2>1. SUFFICES ASSUME Operands, size = 4
                 PROVE  /\ Signed(rest("mul", a, b), 4) * WORD
                            + res("mul", a, b) = Signed(a, 4) * Signed(b, 4)
                        /\ rest("umul", a, b) * WORD + res("umul", a, b)
                            = a * b
      BY DEF ProductIsWide
  <2> DEFINE s == product(Signed(a, 4) * Signed(b, 4))
             u == product(a * b)
  <2>2. /\ Capacity(size) = WORD
        /\ a \in WordRange /\ b \in WordRange
        /\ \A x \in WordRange : x % Capacity(size) = x
      BY <2>1, WordCapacity
  <2>3. /\ Signed(s.r, 4) * WORD + s.res = Signed(a, 4) * Signed(b, 4)
        /\ u.r * WORD + u.res = a * b
        /\ s.res \in WordRange /\ u.res \in WordRange
      BY <2>2, HighWord
  <2>4. alu("mul", a, b, size) = {s} /\ alu("umul", a, b, size) = {u}
      BY WordOutcomes
  <2> HIDE DEF s, u
  <2>5. /\ res("mul", a, b) = s.res /\ rest("mul", a, b) = s.r
        /\ res("umul", a, b) = u.res /\ rest("umul", a, b) = u.r
    <3>1. /\ res("mul", a, b) = s.res % Capacity(size)
          /\ rest("mul", a, b) = s.r
        BY <2>4, OneOutcome
    <3>2. /\ res("umul", a, b) = u.res % Capacity(size)
          /\ rest("umul", a, b) = u.r
        BY <2>4, OneOutcome
    <3>3. QED
        BY <2>2, <2>3, <3>1, <3>2
  <2>6. QED
      BY <2>3, <2>5
<1>2. QED
    BY <1>1, OperandsStay, PTL

(* The quotient of C++, rounded towards zero, and its remainder. *)
LEMMA Truncated ==
    ASSUME NEW h \in Nat, h > 1, NEW x \in -h .. h - 1,
           NEW y \in -h .. h - 1, y # 0
    PROVE  LET q == Quotient(x, y)
               m == Remainder(x, y)
           IN  /\ q \in Int /\ m \in Int /\ q * y + m = x
               /\ m * x >= 0
               /\ Greater(m, -m) < Greater(y, -y)
               /\ m \in -h .. h - 1
               /\ ~(x = -h /\ y = -1) => q \in -h .. h - 1
<1> DEFINE q == Quotient(x, y)
           m == Remainder(x, y)
           ax == Greater(x, -x)
           ay == Greater(y, -y)
           n == ax \div ay
           r == ax % ay
<1>1. /\ ax \in 0 .. h /\ (x >= 0 => ax = x) /\ (x < 0 => ax = -x)
      /\ ay \in 1 .. h /\ (y > 0 => ay = y) /\ (y < 0 => ay = -y)
    BY DEF Greater
<1>2. /\ q = IF (x < 0) = (y < 0) THEN n ELSE -n
      /\ m = x - y * q
    BY DEF Quotient, Remainder
<1> HIDE DEF ax, ay
<1>3. n \in Nat /\ r \in 0 .. ay - 1 /\ ax = r + ay * n
  <2>1. ax \in Nat /\ ay \in Nat \ {0} /\ ax \in Int
      BY <1>1
  <2>2. QED
      BY <2>1, IntDivision, DivMod
<1> HIDE DEF n, r, q, m
<1>4. ay * n \in Nat /\ n <= ay * n /\ (ay > 1 /\ n > 0 => n < ay * n)
    BY <1>1, <1>3
<1>5. n <= ax /\ (ay > 1 /\ ax > 0 => n < ax)
    BY <1>1, <1>3, <1>4
<1>6. q \in Int /\ m \in Int /\ q * y + m = x
  <2>1. q \in Int
      BY <1>2, <1>3
  <2>2. y * q \in Int /\ y * q = q * y
      BY <2>1
  <2>3. QED
      BY <1>2, <2>1, <2>2
<1>7. m = IF x >= 0 THEN r ELSE -r
  <2>1. CASE x >= 0 /\ y > 0
    <3>1. q = n
        BY <1>2, <2>1
    <3>2. y * q = ay * n
        BY <1>1, <1>3, <2>1, <3>1
    <3>3. QED
        BY <1>1, <1>2, <1>3, <1>4, <2>1, <3>2
  <2>2. CASE x >= 0 /\ y < 0
    <3>1. q = -n
        BY <1>2, <2>2
    <3>2. y * q = ay * n
        BY <1>1, <1>3, <2>2, <3>1
    <3>3. QED
        BY <1>1, <1>2, <1>3, <1>4, <2>2, <3>2
  <2>3. CASE x < 0 /\ y > 0
    <3>1. q = -n
        BY <1>2, <2>3
    <3>2. y * q = -(ay * n)
        BY <1>1, <1>3, <2>3, <3>1
    <3>3. QED
        BY <1>1, <1>2, <1>3, <1>4, <2>3, <3>2
  <2>4. CASE x < 0 /\ y < 0
    <3>1. q = n
        BY <1>2, <2>4
    <3>2. y * q = -(ay * n)
        BY <1>1, <1>3, <2>4, <3>1
    <3>3. QED
        BY <1>1, <1>2, <1>3, <1>4, <2>4, <3>2
  <2>5. QED
      BY <2>1, <2>2, <2>3, <2>4
<1>8. m * x >= 0
  <2>1. \A u, v \in Nat : u * v >= 0
      OBVIOUS
  <2>2. m * x = r * ax
    <3>1. (-r) * (-ax) = r * ax
        BY <1>1, <1>3
    <3>2. CASE x >= 0
        BY <1>1, <1>7, <3>2
    <3>3. CASE x < 0
      <4>1. x = -ax /\ m = -r
          BY <1>1, <1>7, <3>3
      <4>2. QED
          BY <3>1, <4>1
    <3>4. QED
        BY <3>2, <3>3
  <2>3. r \in Nat /\ ax \in Nat
      BY <1>1, <1>3
  <2>4. QED
      BY <2>1, <2>2, <2>3
<1>9. Greater(m, -m) < ay
    BY <1>1, <1>3, <1>7 DEF Greater
<1>10. m \in -h .. h - 1
    BY <1>1, <1>3, <1>7
<1>11. ~(x = -h /\ y = -1) => q \in -h .. h - 1
  <2>1. SUFFICES ASSUME ~(x = -h /\ y = -1) PROVE q \in -h .. h - 1
      OBVIOUS
  <2>2. q = n \/ q = -n
      BY <1>2
  <2>3. n \in 0 .. h
      BY <1>1, <1>3, <1>5
  <2>4. CASE n < h
      BY <1>3, <2>2, <2>3, <2>4
  <2>5. CASE n = h
    <3>1. ax = h /\ ay = 1
        BY <1>1, <1>5, <2>5
    <3>2. x = -h /\ y = 1
        BY <1>1, <2>1, <3>1
    <3>3. q = -n
        BY <1>2, <3>2
    <3>4. QED
        BY <2>5, <3>3
  <2>6. QED
      BY <2>3, <2>4, <2>5
<1>12. QED
    BY <1>6, <1>8, <1>9, <1>10, <1>11 DEF q, m, ay

(* The sets of one outcome. *)
LEMMA TwoResults ==
    ASSUME Operands, size = 4, NEW op, NEW x, NEW y,
           NEW v \in WordRange, NEW w,
           alu(op, x, y, size) \in {Both(v, w), Only(v)}
    PROVE  /\ res(op, x, y) = v
           /\ alu(op, x, y, size) = Both(v, w) => rest(op, x, y) = w
<1>1. v % Capacity(size) = v
    BY WordCapacity
<1>2. CASE alu(op, x, y, size) = Both(v, w)
  <2> DEFINE o == [res |-> v, r |-> w]
  <2>1. alu(op, x, y, size) = {o}
      BY <1>2 DEF Both
  <2> HIDE DEF o
  <2>2. res(op, x, y) = o.res % Capacity(size) /\ rest(op, x, y) = o.r
      BY <2>1, OneOutcome
  <2>3. QED
      BY <1>1, <2>2 DEF o
<1>3. CASE alu(op, x, y, size) = Only(v) /\ Only(v) # Both(v, w)
  <2> DEFINE o == [res |-> v, r |-> NoR]
  <2>1. alu(op, x, y, size) = {o}
      BY <1>3 DEF Only
  <2> HIDE DEF o
  <2>2. res(op, x, y) = o.res % Capacity(size)
      BY <2>1, OneOutcome
  <2>3. QED
      BY <1>1, <1>3, <2>2 DEF o
<1>4. QED
    BY <1>2, <1>3

(* Half of the words are negative when read as signed. *)
LEMMA HalfWord ==
    \E h \in Nat : /\ h > 1 /\ WORD = 2 * h
                   /\ \A x \in WordRange :
                        /\ Signed(x, 4) \in -h .. h - 1
                        /\ x = Word(Signed(x, 4))
                        /\ (x < h => Signed(x, 4) = x)
                        /\ (x >= h => Signed(x, 4) = x - WORD)
                   /\ \A s \in -h .. h - 1 : /\ Word(s) \in WordRange
                                             /\ Signed(Word(s), 4) = s
<1>1. PICK h \in Nat : WORD = 2 * h /\ h > 1
    BY EvenCapacity DEF Capacity
<1>2. Capacity(4) = WORD
    BY DEF Capacity
<1>3. ASSUME NEW x \in WordRange
      PROVE  /\ Signed(x, 4) \in -h .. h - 1
             /\ x = Word(Signed(x, 4))
             /\ (x < h => Signed(x, 4) = x)
             /\ (x >= h => Signed(x, 4) = x - WORD)
  <2>1. x \in 0 .. WORD - 1 /\ x \in 0 .. Capacity(4) - 1
      BY <1>2 DEF WordRange
  <2>2. Signed(x, 4) = IF 2 * x >= WORD THEN x - WORD ELSE x
      BY <1>2, <2>1, SignedOfLow
  <2>3. x % WORD = x
      BY <2>1, Widths, SmallMod
  <2>4. (x - WORD) % WORD = x
    <3>1. x - WORD = x + WORD * (-1)
        BY <2>1, Widths
    <3>2. QED
        BY <2>1, <3>1, Widths, LowPart
  <2>5. CASE 2 * x >= WORD
      BY <1>1, <2>1, <2>2, <2>4, <2>5 DEF Word
  <2>6. CASE 2 * x < WORD
      BY <1>1, <2>1, <2>2, <2>3, <2>6 DEF Word
  <2>7. QED
      BY <1>1, <2>1, <2>5, <2>6
<1>4. ASSUME NEW s \in -h .. h - 1
      PROVE  Word(s) \in WordRange /\ Signed(Word(s), 4) = s
  <2>1. s \in Int /\ -WORD <= 2 * s /\ 2 * s < WORD
      BY <1>1
  <2>2. QED
      BY <2>1, WordType, SignedOfWord
<1>5. QED
    BY <1>1, <1>3, <1>4

(* Quotient and remainder of a division give the dividend back, with the   *)
(* remainder smaller than the divisor and of the dividend's sign, for all  *)
(* operands but the pair that overflows; mod leaves the same remainder. *)
THEOREM DivisionsHaveRemainders == Spec => []DivisionHasRemainder
<1>1. Operands => DivisionHasRemainder
  <2>1. SUFFICES ASSUME Operands, size = 4, b # 0
                 PROVE  DivisionHasRemainder
      BY DEF DivisionHasRemainder
  <2> DEFINE x == Signed(a, 4)
             y == Signed(b, 4)
             q == Quotient(x, y)
             m == Remainder(x, y)
             k == a \div b
             i == a % b
  <2>2. a \in WordRange /\ b \in WordRange
      BY <2>1, WordCapacity
  <2>3. PICK h \in Nat :
            /\ h > 1 /\ WORD = 2 * h
            /\ \A w \in WordRange :
                 /\ Signed(w, 4) \in -h .. h - 1
                 /\ w = Word(Signed(w, 4))
                 /\ (w < h => Signed(w, 4) = w)
                 /\ (w >= h => Signed(w, 4) = w - WORD)
            /\ \A s \in -h .. h - 1 : /\ Word(s) \in WordRange
                                      /\ Signed(Word(s), 4) = s
      BY HalfWord
  <2>4. /\ a \in 0 .. WORD - 1 /\ b \in 1 .. WORD - 1
        /\ x \in -h .. h - 1 /\ y \in -h .. h - 1
        /\ (a < h => x = a) /\ (a >= h => x = a - WORD)
        /\ (b < h => y = b) /\ (b >= h => y = b - WORD)
      BY <2>1, <2>2, <2>3 DEF WordRange
  <2>5. /\ alu("div", a, b, size) = Both(Word(q), Word(m))
        /\ alu("mod", a, b, size) = Only(Word(m))
        /\ alu("udiv", a, b, size) = Both(k, i)
        /\ alu("umod", a, b, size) = Only(i)
      BY WordOutcomes
  <2>6. ASSUME ~DivOverflows("div", a, b)
        PROVE  LET qs == Signed(res("div", a, b), 4)
                   ms == Signed(rest("div", a, b), 4)
               IN  /\ qs * y + ms = x
                   /\ ms * x >= 0
                   /\ Greater(ms, -ms) < Greater(y, -y)
                   /\ res("mod", a, b) = rest("div", a, b)
    <3> HIDE DEF x, y
    <3>1. y # 0
        BY <2>3, <2>4
    <3>2. /\ q \in Int /\ m \in Int /\ q * y + m = x
          /\ m * x >= 0
          /\ Greater(m, -m) < Greater(y, -y)
          /\ m \in -h .. h - 1
          /\ (~(x = -h /\ y = -1) => q \in -h .. h - 1)
        BY <2>3, <2>4, <3>1, Truncated
    <3>3. ~(x = -h /\ y = -1)
      <4>1. ~(2 * a = WORD /\ b = WORD - 1)
          BY <2>6 DEF DivOverflows
      <4>2. QED
          BY <2>3, <2>4, <4>1
    <3> HIDE DEF q, m
    <3>4. /\ Word(q) \in WordRange /\ Word(m) \in WordRange
          /\ Signed(Word(q), 4) = q /\ Signed(Word(m), 4) = m
        BY <2>3, <3>2, <3>3
    <3>5. res("div", a, b) = Word(q) /\ rest("div", a, b) = Word(m)
        BY <2>1, <2>5, <3>4, TwoResults
    <3>6. res("mod", a, b) = Word(m)
        BY <2>1, <2>5, <3>4, TwoResults
    <3>7. QED
        BY <3>2, <3>4, <3>5, <3>6
  <2>7. /\ res("udiv", a, b) * b + rest("udiv", a, b) = a
        /\ rest("udiv", a, b) < b
        /\ res("umod", a, b) = rest("udiv", a, b)
    <3>1. b \in Nat \ {0} /\ a \in Int /\ a \in Nat
        BY <2>4
    <3>2. k \in Nat /\ i \in 0 .. b - 1 /\ a = i + b * k
        BY <3>1, IntDivision, DivMod
    <3> HIDE DEF k, i
    <3>3. k \in WordRange /\ i \in WordRange
      <4>1. k <= b * k
          BY <3>1, <3>2
      <4>2. b * k \in Nat
          BY <3>1, <3>2
      <4>3. QED
          BY <2>4, <3>1, <3>2, <4>1, <4>2, Widths DEF WordRange
    <3>4. res("udiv", a, b) = k /\ rest("udiv", a, b) = i
      <4>1. alu("udiv", a, b, size) \in {Both(k, i), Only(k)}
          BY <2>5
      <4>2. QED
          BY <2>1, <2>5, <3>3, <4>1, TwoResults
    <3>5. res("umod", a, b) = i
        BY <2>1, <2>5, <3>3, TwoResults
    <3>6. QED
        BY <3>1, <3>2, <3>4, <3>5
  <2>8. QED
      BY <2>6, <2>7 DEF DivisionHasRemainder
<1>2. QED
    BY <1>1, OperandsStay, PTL

(* Minimum and maximum leave the other operand in R, and abs the sign it   *)
(* drops, so that nothing is lost: for all signed numbers of a width and   *)
(* all words. *)
THEOREM ExtremaKeep == Spec => []ExtremaKeepBoth
<1>1. Operands => ExtremaKeepBoth
  <2>1. SUFFICES ASSUME Operands PROVE ExtremaKeepBoth
      OBVIOUS
  <2> DEFINE x == Signed(sa, 4)
             y == Signed(b, 4)
             Pair(op, u, v) == <<out(op, u, v).res, rest(op, u, v)>>
  <2>2. sa \in WordRange /\ b \in WordRange /\ a \in Int /\ b \in Int
    <3>1. a \in Int /\ b \in WordRange /\ b \in Int
        BY <2>1, CapacityRange DEF Operands, WordRange
    <3>2. QED
        BY <3>1, SignExtendType DEF sa
  <2>3. PICK h \in Nat :
            /\ h > 1 /\ WORD = 2 * h
            /\ \A w \in WordRange :
                 /\ Signed(w, 4) \in -h .. h - 1
                 /\ w = Word(Signed(w, 4))
                 /\ (w < h => Signed(w, 4) = w)
                 /\ (w >= h => Signed(w, 4) = w - WORD)
            /\ \A s \in -h .. h - 1 : /\ Word(s) \in WordRange
                                      /\ Signed(Word(s), 4) = s
      BY HalfWord
  <2>4. /\ x \in -h .. h - 1 /\ sa = Word(x)
        /\ y \in -h .. h - 1 /\ b = Word(y)
      BY <2>2, <2>3
  <2>5. ASSUME NEW op, NEW u, NEW v, NEW w, NEW z,
               alu(op, u, v, size) = Both(w, z)
        PROVE  Pair(op, u, v) = <<w, z>>
    <3> DEFINE o == [res |-> w, r |-> z]
    <3>1. alu(op, u, v, size) = {o}
        BY <2>5 DEF Both
    <3> HIDE DEF o
    <3>2. out(op, u, v) = o /\ rest(op, u, v) = o.r
        BY <3>1, OneOutcome
    <3>3. QED
        BY <3>2 DEF o
  <2>6. /\ Pair("max", sa, b) = <<Word(Greater(x, y)), Word(Smaller(x, y))>>
        /\ Pair("min", sa, b) = <<Word(Smaller(x, y)), Word(Greater(x, y))>>
        /\ Pair("umax", a, b) = <<Greater(a, b), Smaller(a, b)>>
        /\ Pair("umin", a, b) = <<Smaller(a, b), Greater(a, b)>>
        /\ Pair("abs", sa, 0) = <<Word(Greater(x, -x)), Word(SGN(x))>>
    <3> HIDE DEF Pair
    <3>1. QED
        BY <2>5, WordOutcomes
  <2> HIDE DEF x, y, Pair
  <2>7. \/ Greater(x, y) = x /\ Smaller(x, y) = y /\ x >= y
        \/ Greater(x, y) = y /\ Smaller(x, y) = x /\ y >= x
      BY <2>4 DEF Greater, Smaller
  <2>8. Signed(sa, 4) = x /\ Signed(b, 4) = y
      BY DEF x, y
  <2>9. /\ Pair("max", sa, b) \in {<<sa, b>>, <<b, sa>>}
        /\ Signed(Pair("max", sa, b)[1], 4) >= Signed(Pair("max", sa, b)[2], 4)
        /\ Pair("min", sa, b)
             = <<Pair("max", sa, b)[2], Pair("max", sa, b)[1]>>
      BY <2>4, <2>6, <2>7, <2>8
  <2>10. /\ Pair("umax", a, b) \in {<<a, b>>, <<b, a>>}
         /\ Pair("umax", a, b)[1] >= Pair("umax", a, b)[2]
         /\ Pair("umin", a, b)
              = <<Pair("umax", a, b)[2], Pair("umax", a, b)[1]>>
      BY <2>2, <2>6 DEF Greater, Smaller
  <2>11. Word(Signed(Word(Greater(x, -x)), 4) * Signed(Word(SGN(x)), 4)) = sa
    <3>1. SGN(x) \in {-1, 0, 1} /\ SGN(x) \in -h .. h - 1
        BY <2>3, <2>4 DEF SGN
    <3>2. Signed(Word(SGN(x)), 4) = SGN(x)
        BY <2>3, <3>1
    <3>3. CASE x = -h
      <4>1. Greater(x, -x) = h /\ SGN(x) = -1
          BY <2>3, <3>3 DEF Greater, SGN
      <4>2. h % WORD = h /\ h \in WordRange
          BY <2>3, Widths, SmallMod DEF WordRange
      <4>3. Signed(Word(h), 4) = h - WORD
          BY <2>3, <4>2 DEF Word
      <4>4. (h - WORD) * (-1) = h
          BY <2>3
      <4>5. sa = h
        <5>1. sa = (-h) % WORD
            BY <2>4, <3>3 DEF Word
        <5>2. -h = h + WORD * (-1) /\ h \in 0 .. WORD - 1
            BY <2>3
        <5>3. QED
            BY <5>1, <5>2, Widths, LowPart
      <4>6. QED
          BY <3>2, <4>1, <4>2, <4>3, <4>4, <4>5 DEF Word
    <3>4. CASE x # -h
      <4>1. Greater(x, -x) \in -h .. h - 1 /\ Greater(x, -x) * SGN(x) = x
          BY <2>3, <2>4, <3>4 DEF Greater, SGN
      <4>2. QED
          BY <2>3, <2>4, <3>2, <4>1
    <3>5. QED
        BY <3>3, <3>4
  <2>12. QED
      BY <2>6, <2>9, <2>10, <2>11 DEF ExtremaKeepBoth, Pair
<1>2. QED
    BY <1>1, OperandsStay, PTL

-----------------------------------------------------------------------------
(* Powers of two. *)

(* The bits of a word. *)
Width == Bits(4)

(* A function that is computed from one value to the next exists. *)
Accumulates(f, n, z, c, d) ==
    /\ f \in [0 .. n -> Nat]
    /\ f[0] = z
    /\ \A k \in 1 .. n : f[k] = c * f[k - 1] + d[k]

(* There is such a function for any first value, factor and addends. *)
LEMMA Accumulated ==
    ASSUME NEW n \in Nat, NEW z \in Nat, NEW c \in Nat,
           NEW d \in [1 .. n -> Nat]
    PROVE  \E f : Accumulates(f, n, z, c, d)
<1> DEFINE Upto(f, m) == /\ f \in [0 .. m -> Nat] /\ f[0] = z
                         /\ \A k \in 1 .. m : f[k] = c * f[k - 1] + d[k]
           G == {m \in 0 .. n : \E f : Upto(f, m)}
<1>1. 0 \in G
  <2>1. Upto([k \in 0 .. 0 |-> z], 0) /\ 0 \in 0 .. n
      OBVIOUS
  <2> HIDE DEF Upto
  <2>2. QED
      BY <2>1
<1>2. ASSUME NEW m \in 0 .. n - 1, m \in G PROVE m + 1 \in G
  <2>1. PICK f : Upto(f, m)
      BY <1>2
  <2> DEFINE l == m + 1
             g == [k \in 0 .. l |-> IF k = l THEN c * f[m] + d[l] ELSE f[k]]
  <2>2. /\ m \in Nat /\ l \in 1 .. n /\ l \in 0 .. n /\ l - 1 = m
        /\ f[m] \in Nat /\ d[l] \in Nat
      BY <2>1
  <2>3. c * f[m] + d[l] \in Nat
    <3>1. \A x, y, u \in Nat : x * y + u \in Nat
        OBVIOUS
    <3>2. QED
        BY <2>2, <3>1
  <2>4. /\ \A k \in 0 .. m : g[k] = f[k]
        /\ g[l] = c * f[m] + d[l] /\ g \in [0 .. l -> Nat]
      BY <2>1, <2>2, <2>3
  <2> HIDE DEF g
  <2>5. \A k \in 1 .. m : g[k] = c * g[k - 1] + d[k]
    <3>1. \A k \in 1 .. m : k \in 0 .. m /\ k - 1 \in 0 .. m
        BY <2>2
    <3>2. QED
        BY <2>1, <2>4, <3>1
  <2>6. g[l] = c * g[l - 1] + d[l] /\ g[0] = z
      BY <2>1, <2>2, <2>4
  <2>7. \A k \in 1 .. l : k \in 1 .. m \/ k = l
      BY <2>2
  <2> HIDE DEF l
  <2>8. Upto(g, l)
      BY <2>4, <2>5, <2>6, <2>7
  <2> HIDE DEF Upto
  <2>9. l \in G
      BY <2>2, <2>8
  <2>10. QED
      BY <2>9 DEF l
<1> HIDE DEF G
<1>3. n \in G
  <2>1. 0 .. n \subseteq G
      BY <1>1, <1>2, InductionUpTo
  <2>2. QED
      BY <2>1
<1>4. QED
    BY <1>3 DEF G, Accumulates

(* The width of a word is four bytes. *)
LEMMA WidthType == Width \in Nat /\ Width = 4 * BYTE_BITS /\ BYTE_BITS \in Nat
BY ByteAssumption DEF Width, Bits

(* The powers of two begin with 1 and are doubled. *)
LEMMA Powers ==
    /\ Pow2[0] = 1
    /\ \A k \in 0 .. Width : Pow2[k] \in Nat \ {0}
    /\ \A k \in 0 .. Width - 1 : Pow2[k + 1] = 2 * Pow2[k]
<1> DEFINE n == Width
           After(f) == [k \in 0 .. n |-> IF k = 0 THEN 1 ELSE 2 * f[k - 1]]
           p == CHOOSE f : f = After(f)
<1>1. n \in Nat
    BY WidthType
<1>2. Pow2 = p
    BY WidthType DEF Pow2
<1> HIDE DEF n
<1>3. \E f : f = After(f)
  <2> DEFINE d == [k \in 1 .. n |-> 0]
  <2>1. d \in [1 .. n -> Nat]
      OBVIOUS
  <2>2. \A k \in 1 .. n : d[k] = 0
      OBVIOUS
  <2> HIDE DEF d
  <2>3. PICK f : /\ f \in [0 .. n -> Nat] /\ f[0] = 1
                 /\ \A k \in 1 .. n : f[k] = 2 * f[k - 1] + d[k]
    <3>1. 1 \in Nat /\ 2 \in Nat
        OBVIOUS
    <3>2. \E f : Accumulates(f, n, 1, 2, d)
        BY <1>1, <2>1, <3>1, Accumulated, Zenon
    <3>3. QED
        BY <3>2 DEF Accumulates
  <2>4. \A k \in 1 .. n : f[k] = 2 * f[k - 1]
    <3>1. \A k \in 1 .. n : f[k - 1] \in Nat
        BY <1>1, <2>3
    <3>2. QED
        BY <2>2, <2>3, <3>1
  <2>5. \A k \in 0 .. n : k = 0 \/ k \in 1 .. n
      BY <1>1
  <2>6. \A k \in 0 .. n : f[k] = IF k = 0 THEN 1 ELSE 2 * f[k - 1]
      BY <2>3, <2>4, <2>5
  <2>7. f = After(f)
      BY <2>3, <2>6
  <2>8. QED
      BY <2>7
<1>4. p = After(p)
  <2> HIDE DEF After
  <2>1. QED
      BY <1>3
<1> HIDE DEF p
<1>5. \A k \in 0 .. n : p[k] = IF k = 0 THEN 1 ELSE 2 * p[k - 1]
    BY <1>4
<1> HIDE DEF After
<1>6. p[0] = 1
    BY <1>1, <1>5
<1>7. \A k \in 0 .. n - 1 : p[k + 1] = 2 * p[k]
  <2> SUFFICES ASSUME NEW k \in 0 .. n - 1
               PROVE  p[k + 1] = 2 * p[k]
      OBVIOUS
  <2> DEFINE l == k + 1
  <2>1. l \in 0 .. n /\ l # 0 /\ l - 1 = k
      BY <1>1
  <2> HIDE DEF l
  <2>2. p[l] = 2 * p[l - 1]
      BY <1>5, <2>1
  <2>3. QED
      BY <2>1, <2>2 DEF l
<1> DEFINE G == {k \in 0 .. n : p[k] \in Nat \ {0}}
<1>8. 0 .. n \subseteq G
  <2>1. 0 \in G
      BY <1>1, <1>6
  <2>2. \A k \in 0 .. n - 1 : k \in G => k + 1 \in G
    <3>1. \A k \in 0 .. n - 1 : k + 1 \in 0 .. n
        BY <1>1
    <3>2. QED
        BY <1>7, <3>1
  <2> HIDE DEF G
  <2>3. QED
      BY <1>1, <2>1, <2>2, InductionUpTo
<1>9. QED
    BY <1>2, <1>6, <1>7, <1>8 DEF n

(* The sum of two exponents. *)
LEMMA PowerSum ==
    ASSUME NEW m \in Nat, NEW n \in Nat, m + n <= Width
    PROVE  Pow2[m + n] = Pow2[m] * Pow2[n]
<1> DEFINE G == {k \in 0 .. n : Pow2[m + k] = Pow2[m] * Pow2[k]}
<1>1. Width \in Nat /\ m \in 0 .. Width
    BY WidthType
<1>2. 0 \in G
    BY <1>1, Powers
<1>3. \A k \in 0 .. n - 1 : k \in G => k + 1 \in G
  <2> SUFFICES ASSUME NEW k \in 0 .. n - 1, k \in G
               PROVE  k + 1 \in G
      OBVIOUS
  <2>1. /\ m + k \in 0 .. Width - 1 /\ k \in 0 .. Width - 1
        /\ k + 1 \in 0 .. n /\ (m + k) + 1 = m + (k + 1)
      BY <1>1
  <2>2. Pow2[(m + k) + 1] = 2 * Pow2[m + k] /\ Pow2[k + 1] = 2 * Pow2[k]
      BY <2>1, Powers
  <2>3. Pow2[m + k] = Pow2[m] * Pow2[k]
      OBVIOUS
  <2>4. Pow2[m] \in Nat /\ Pow2[k] \in Nat
      BY <1>1, <2>1, Powers
  <2>5. \A x, y \in Nat : 2 * (x * y) = x * (2 * y)
      OBVIOUS
  <2>6. Pow2[m + (k + 1)] = Pow2[m] * Pow2[k + 1]
      BY <2>1, <2>2, <2>3, <2>4, <2>5
  <2>7. QED
      BY <2>1, <2>6
<1> HIDE DEF G
<1>4. n \in G
  <2>1. 0 .. n \subseteq G
      BY <1>2, <1>3, InductionUpTo
  <2>2. QED
      BY <2>1
<1>5. QED
    BY <1>4 DEF G

(* A greater power is an even multiple of a smaller one. *)
LEMMA GreaterPower ==
    ASSUME NEW m \in Nat, NEW n \in Nat, m < n, n <= Width
    PROVE  \E q \in Nat \ {0} : Pow2[n] = Pow2[m] * (2 * q)
<1> DEFINE l == n - (m + 1)
<1>1. /\ Width \in Nat /\ l \in 0 .. Width /\ m \in 0 .. Width - 1
      /\ m + 1 \in Nat /\ l \in Nat /\ (m + 1) + l = n /\ m \in 0 .. Width
    BY WidthType
<1>2. Pow2[n] = Pow2[m + 1] * Pow2[l]
    BY <1>1, PowerSum
<1>3. Pow2[m + 1] = 2 * Pow2[m]
    BY <1>1, Powers
<1>4. Pow2[l] \in Nat \ {0} /\ Pow2[m] \in Nat \ {0}
    BY <1>1, Powers
<1>5. \A x, y \in Nat : (2 * x) * y = x * (2 * y)
    OBVIOUS
<1> HIDE DEF l
<1>6. Pow2[n] = Pow2[m] * (2 * Pow2[l])
    BY <1>2, <1>3, <1>4, <1>5
<1>7. QED
    BY <1>4, <1>6

(* How many values fit in a number of bytes, and in as many bits. *)
LEMMA CapacityIsPower ==
    ASSUME NEW n \in {1, 2, 4}
    PROVE  /\ Bits(n) \in 1 .. Width
           /\ Capacity(n) = Pow2[Bits(n)]
<1> DEFINE w == BYTE_BITS
<1>1. /\ w \in Nat \ {0} /\ BYTE = Pow2[w] /\ Width = 4 * w /\ Width \in Nat
      /\ Bits(1) = w /\ Bits(2) = w + w /\ Bits(4) = 2 * w + 2 * w
    BY ByteAssumption, WidthType DEF Bits
<1>2. BYTE \in Nat
    BY ByteAssumption
<1>3. SHORT = Pow2[w + w]
    BY <1>1, PowerSum DEF SHORT
<1>4. Pow2[2 * w + 2 * w] = Pow2[2 * w] * Pow2[2 * w]
  <2>1. 2 * w \in Nat /\ 2 * w + 2 * w <= Width
      BY <1>1
  <2>2. QED
      BY <2>1, PowerSum
<1>5. WORD = SHORT * SHORT
    BY <1>2 DEF WORD, ADDRESS, SHORT
<1>6. w + w = 2 * w
    BY <1>1
<1>7. WORD = Pow2[2 * w + 2 * w]
    BY <1>3, <1>4, <1>5, <1>6
<1>8. Bits(n) \in 1 .. Width
    BY <1>1
<1>9. QED
    BY <1>1, <1>3, <1>7, <1>8 DEF Capacity

(* The words are as many as their bits allow. *)
LEMMA WordIsPower ==
    WORD = Pow2[Width] /\ Width \in Nat /\ Width \in 0 .. Width
<1>1. Capacity(4) = Pow2[Bits(4)]
    BY CapacityIsPower
<1>2. QED
    BY <1>1, WidthType DEF Capacity, Width

-----------------------------------------------------------------------------
(* Single bits. *)

(* The positions of the bits of a word that are set. *)
BitsOf(x) == {i \in Positions : Bit(x, i) = 1}

(* The positions are numbered from 0 on, each with a power of two. *)
LEMMA PositionsAre ==
    /\ Width \in Nat /\ Positions = 0 .. Width - 1
    /\ \A i \in Positions : i \in Nat /\ i < Width /\ Pow2[i] \in Nat \ {0}
<1>1. Width \in Nat /\ Positions = 0 .. Width - 1
    BY WidthType DEF Positions, Width
<1>2. \A i \in Positions : i \in Nat /\ i < Width /\ i \in 0 .. Width
    BY <1>1
<1>3. QED
    BY <1>1, <1>2, Powers

(* A bit is 0 or 1. *)
LEMMA BitIs ==
    ASSUME NEW x \in Int, NEW i \in Positions
    PROVE  Bit(x, i) \in {0, 1} /\ Bit(x, i) = (x \div Pow2[i]) % 2
<1> DEFINE q == x \div Pow2[i]
<1>1. Pow2[i] \in Nat \ {0}
    BY PositionsAre
<1>2. q \in Int
    BY <1>1, IntDivision
<1> HIDE DEF q
<1>3. q % 2 \in {0, 1}
    BY <1>2
<1>4. Bit(x, i) = IF q % 2 = 1 THEN 1 ELSE 0
    BY DEF Bit, q
<1>5. QED
    BY <1>3, <1>4 DEF q

(* What is added above a bit does not change it. *)
LEMMA BitBelow ==
    ASSUME NEW x \in Int, NEW i \in Positions, NEW k \in Int, NEW y,
           y = x + Pow2[i] * (2 * k)
    PROVE  Bit(y, i) = Bit(x, i)
<1> DEFINE q == x \div Pow2[i]
<1>1. Pow2[i] \in Nat \ {0} /\ 2 * k \in Int
    BY PositionsAre
<1>2. q \in Int /\ y \div Pow2[i] = q + 2 * k
  <2> DEFINE r == x % Pow2[i]
  <2>1. r \in 0 .. Pow2[i] - 1 /\ q \in Int /\ x = r + Pow2[i] * q
      BY <1>1, IntDivision
  <2> HIDE DEF r, q
  <2>2. \A c, u, v \in Int : c * u + c * v = c * (u + v)
      OBVIOUS
  <2>3. y = r + Pow2[i] * (q + 2 * k) /\ q + 2 * k \in Int
      BY <1>1, <2>1, <2>2
  <2>4. y \div Pow2[i] = q + 2 * k
      BY <1>1, <2>1, <2>3, DivUnique
  <2>5. QED
      BY <2>1, <2>4
<1> HIDE DEF q
<1>3. (q + 2 * k) % 2 = q % 2
    BY <1>2
<1>4. QED
    BY <1>2, <1>3 DEF Bit, q

(* A number that is smaller than the power has no bit there. *)
LEMMA BitOfSmaller ==
    ASSUME NEW i \in Positions, NEW x \in 0 .. Pow2[i] - 1
    PROVE  Bit(x, i) = 0
<1>1. Pow2[i] \in Nat \ {0}
    BY PositionsAre
<1>2. x \div Pow2[i] = 0
  <2>1. x = x + Pow2[i] * 0
      BY <1>1
  <2>2. 0 \in Int
      OBVIOUS
  <2>3. QED
      BY <1>1, <2>1, <2>2, DivUnique
<1>3. QED
    BY <1>2 DEF Bit

(* The bit is the highest one of a number with twice as many values. *)
LEMMA BitOnTop ==
    ASSUME NEW i \in Positions, NEW x \in 0 .. Pow2[i] - 1, NEW d \in {0, 1}
    PROVE  Bit(x + Pow2[i] * d, i) = d
<1>1. Pow2[i] \in Nat \ {0} /\ d \in Int
    BY PositionsAre
<1>2. (x + Pow2[i] * d) \div Pow2[i] = d
    BY <1>1, DivUnique
<1>3. d % 2 = d
    OBVIOUS
<1>4. QED
    BY <1>2, <1>3 DEF Bit

(* The number below the next power is the bit with the number below. *)
LEMMA NextLow ==
    ASSUME NEW x \in Int, NEW i \in Positions
    PROVE  x % Pow2[i + 1] = (x % Pow2[i]) + Pow2[i] * Bit(x, i)
<1> DEFINE p == Pow2[i]
           q == x \div p
           r == x % p
           d == Bit(x, i)
           k == q \div 2
<1>1. p \in Nat \ {0} /\ Pow2[i + 1] = 2 * p
    BY PositionsAre, Powers
<1>2. r \in 0 .. p - 1 /\ q \in Int /\ x = r + p * q
    BY <1>1, IntDivision
<1>3. d \in {0, 1} /\ d = q % 2
    BY BitIs
<1> HIDE DEF p, q, r, d
<1>4. k \in Int /\ q = d + 2 * k
    BY <1>2, <1>3
<1> HIDE DEF k
<1>5. x = (r + p * d) + (2 * p) * k
  <2>1. \A u, v \in Int : u * (v + 2 * k) = u * v + (2 * u) * k
      BY <1>4
  <2>2. p * q = p * d + (2 * p) * k
      BY <1>1, <1>3, <1>4, <2>1
  <2>3. p * d \in Int /\ (2 * p) * k \in Int
      BY <1>1, <1>3, <1>4
  <2>4. QED
      BY <1>1, <1>2, <2>2, <2>3
<1>6. r + p * d \in 0 .. 2 * p - 1 /\ 2 * p \in Nat \ {0}
    BY <1>1, <1>2, <1>3
<1>7. x % (2 * p) = r + p * d
    BY <1>4, <1>5, <1>6, LowPart
<1>8. QED
    BY <1>1, <1>7 DEF p, r, d

-----------------------------------------------------------------------------
(* The word that has these bits. *)

(* The sums of the powers at the positions, from the lowest on. *)
Sums(f, positions) ==
    /\ f \in [0 .. Width -> Nat]
    /\ f[0] = 0
    /\ \A k \in 0 .. Width - 1 :
          f[k + 1] = f[k] + Pow2[k] * (IF k \in positions THEN 1 ELSE 0)

(* The word with given positions is the last of their sums. *)
LEMMA FromBitsSums ==
    ASSUME NEW positions
    PROVE  \E f : Sums(f, positions) /\ FromBits(positions) = f[Width]
<1> DEFINE n == Width
           term(k) == IF k - 1 \in positions THEN Pow2[k - 1] ELSE 0
           After(f) == [k \in 0 .. n |-> IF k = 0 THEN 0
                                         ELSE f[k - 1] + term(k)]
           low == CHOOSE f : f = After(f)
<1>1. n \in Nat
    BY WidthType
<1>2. FromBits(positions) = low[n]
    BY WidthType DEF FromBits, Width
<1>3. \A k \in 1 .. n : term(k) \in Nat
  <2>1. \A k \in 1 .. n : k - 1 \in 0 .. Width
      BY <1>1
  <2>2. QED
      BY <2>1, Powers
<1> HIDE DEF n, term
<1>4. \E f : f \in [0 .. n -> Nat] /\ f = After(f)
  <2> DEFINE d == [k \in 1 .. n |-> term(k)]
  <2>1. d \in [1 .. n -> Nat] /\ \A k \in 1 .. n : d[k] = term(k)
      BY <1>3
  <2> HIDE DEF d
  <2>2. PICK f : /\ f \in [0 .. n -> Nat] /\ f[0] = 0
                 /\ \A k \in 1 .. n : f[k] = 1 * f[k - 1] + d[k]
    <3>1. 0 \in Nat /\ 1 \in Nat
        OBVIOUS
    <3>2. \E f : Accumulates(f, n, 0, 1, d)
        BY <1>1, <2>1, <3>1, Accumulated, Zenon
    <3>3. QED
        BY <3>2 DEF Accumulates
  <2>3. \A k \in 1 .. n : f[k] = f[k - 1] + term(k)
    <3>1. \A k \in 1 .. n : f[k - 1] \in Nat
        BY <1>1, <2>2
    <3>2. QED
        BY <2>1, <2>2, <3>1
  <2>4. \A k \in 0 .. n : k = 0 \/ k \in 1 .. n
      BY <1>1
  <2>5. \A k \in 0 .. n : f[k] = IF k = 0 THEN 0 ELSE f[k - 1] + term(k)
      BY <2>2, <2>3, <2>4
  <2>6. f = After(f)
      BY <2>2, <2>5
  <2>7. QED
      BY <2>2, <2>6
<1>5. low = After(low)
  <2> HIDE DEF After
  <2>1. QED
      BY <1>4
<1> HIDE DEF low
<1>6. \A k \in 0 .. n : low[k] = IF k = 0 THEN 0 ELSE low[k - 1] + term(k)
    BY <1>5
<1>7. low = [k \in 0 .. n |-> low[k]]
    BY <1>5
<1> HIDE DEF After
<1>8. low[0] = 0
    BY <1>1, <1>6
<1>9. \A k \in 0 .. n - 1 : low[k + 1] = low[k] + term(k + 1)
  <2> SUFFICES ASSUME NEW k \in 0 .. n - 1
               PROVE  low[k + 1] = low[k] + term(k + 1)
      OBVIOUS
  <2> DEFINE l == k + 1
  <2>1. l \in 0 .. n /\ l # 0 /\ l - 1 = k
      BY <1>1
  <2> HIDE DEF l
  <2>2. low[l] = low[l - 1] + term(l)
      BY <1>6, <2>1
  <2>3. QED
      BY <2>1, <2>2 DEF l
<1> DEFINE G == {k \in 0 .. n : low[k] \in Nat}
<1>10. 0 .. n \subseteq G
  <2>1. 0 \in G
      BY <1>1, <1>8
  <2>2. \A k \in 0 .. n - 1 : k \in G => k + 1 \in G
    <3>1. \A k \in 0 .. n - 1 : k + 1 \in 1 .. n /\ k + 1 \in 0 .. n
        BY <1>1
    <3>2. QED
        BY <1>3, <1>9, <3>1
  <2> HIDE DEF G
  <2>3. QED
      BY <1>1, <2>1, <2>2, InductionUpTo
<1>11. low \in [0 .. n -> Nat]
    BY <1>7, <1>10
<1>12. \A k \in 0 .. n - 1 :
           term(k + 1) = Pow2[k] * (IF k \in positions THEN 1 ELSE 0)
  <2> SUFFICES ASSUME NEW k \in 0 .. n - 1
               PROVE  term(k + 1)
                        = Pow2[k] * (IF k \in positions THEN 1 ELSE 0)
      OBVIOUS
  <2>1. k + 1 - 1 = k /\ k \in 0 .. Width
      BY <1>1 DEF n
  <2>2. Pow2[k] \in Nat
      BY <2>1, Powers
  <2>3. Pow2[k] * 1 = Pow2[k] /\ Pow2[k] * 0 = 0
      BY <2>2
  <2>4. QED
      BY <2>1, <2>3 DEF term
<1>13. Sums(low, positions)
    BY <1>8, <1>9, <1>11, <1>12 DEF Sums, n
<1>14. QED
    BY <1>2, <1>13 DEF n

(* A sum stays below the next power. *)
LEMMA SumBelow ==
    ASSUME NEW f, NEW positions, Sums(f, positions), NEW k \in 0 .. Width
    PROVE  f[k] \in 0 .. Pow2[k] - 1
<1> DEFINE G == {j \in 0 .. Width : f[j] \in 0 .. Pow2[j] - 1}
<1>1. Width \in Nat
    BY WidthType
<1>2. 0 \in G
    BY <1>1, Powers DEF Sums
<1>3. \A j \in 0 .. Width - 1 : j \in G => j + 1 \in G
  <2> SUFFICES ASSUME NEW j \in 0 .. Width - 1, j \in G
               PROVE  j + 1 \in G
      OBVIOUS
  <2>1. j \in 0 .. Width /\ j + 1 \in 0 .. Width
      BY <1>1
  <2>2. Pow2[j] \in Nat \ {0} /\ Pow2[j + 1] = 2 * Pow2[j]
      BY <2>1, Powers
  <2>3. PICK d \in {0, 1} : f[j + 1] = f[j] + Pow2[j] * d
      BY DEF Sums
  <2>4. f[j] \in 0 .. Pow2[j] - 1
      OBVIOUS
  <2> HIDE DEF G
  <2>5. \A p \in Nat : \A u \in 0 .. p - 1 : u + p * d \in 0 .. 2 * p - 1
      BY <2>3
  <2>6. f[j + 1] \in 0 .. Pow2[j + 1] - 1
      BY <2>2, <2>3, <2>4, <2>5
  <2>7. QED
      BY <2>1, <2>6 DEF G
<1> HIDE DEF G
<1>4. 0 .. Width \subseteq G
    BY <1>1, <1>2, <1>3, InductionUpTo
<1>5. QED
    BY <1>4 DEF G

(* The bit at i is that of the positions, as far as k. *)
BitOfSum(x, i, k, positions) ==
    Bit(x, i) = IF i < k /\ i \in positions THEN 1 ELSE 0

(* A sum up to k has just the positions below k that have been added. *)
LEMMA SumBits ==
    ASSUME NEW f, NEW positions, Sums(f, positions), NEW k \in 0 .. Width,
           NEW i \in Positions
    PROVE  BitOfSum(f[k], i, k, positions)
<1> DEFINE G == {j \in 0 .. Width : BitOfSum(f[j], i, j, positions)}
<1>1. Width \in Nat /\ i \in Nat /\ i < Width /\ Pow2[i] \in Nat \ {0}
    BY PositionsAre
<1>2. 0 \in G
  <2>1. f[0] = 0 /\ 0 \in 0 .. Pow2[i] - 1
      BY <1>1 DEF Sums
  <2>2. Bit(f[0], i) = 0
      BY <2>1, BitOfSmaller
  <2>3. ~(i < 0) /\ 0 \in 0 .. Width
      BY <1>1
  <2>4. QED
      BY <2>2, <2>3 DEF BitOfSum
<1>3. \A j \in 0 .. Width - 1 : j \in G => j + 1 \in G
  <2> SUFFICES ASSUME NEW j \in 0 .. Width - 1, j \in G
               PROVE  BitOfSum(f[j + 1], i, j + 1, positions)
    <3>1. \A j \in 0 .. Width - 1 : j + 1 \in 0 .. Width
        BY <1>1
    <3>2. QED
        BY <3>1
  <2> DEFINE d == IF j \in positions THEN 1 ELSE 0
             x == f[j]
             y == f[j + 1]
  <2>1. /\ j \in 0 .. Width /\ j + 1 \in 0 .. Width
        /\ j \in Positions /\ j \in Nat
      BY <1>1, PositionsAre
  <2>2. d \in {0, 1} /\ y = x + Pow2[j] * d /\ (d = 1 <=> j \in positions)
      BY DEF Sums
  <2>3. x \in 0 .. Pow2[j] - 1 /\ y \in 0 .. Pow2[j + 1] - 1
      BY <2>1, SumBelow
  <2>4. Pow2[j] \in Nat \ {0}
      BY <2>1, Powers
  <2>5. BitOfSum(x, i, j, positions)
      OBVIOUS
  <2> HIDE DEF d, x, y, G
  <2>6. CASE i < j
    <3>1. PICK q \in Nat : Pow2[j] = Pow2[i] * (2 * q)
        BY <1>1, <2>1, <2>6, GreaterPower
    <3>2. q * d \in Int /\ y = x + Pow2[i] * (2 * (q * d))
      <4>1. \A u, v, w \in Int : (u * (2 * v)) * w = u * (2 * (v * w))
          OBVIOUS
      <4>2. q * d \in Int /\ d \in Int /\ q \in Int /\ Pow2[i] \in Int
          BY <1>1, <2>2
      <4>3. QED
          BY <2>2, <3>1, <4>1, <4>2
    <3>3. Bit(y, i) = Bit(x, i)
      <4>1. x \in Int
          BY <2>3, <2>4
      <4>2. QED
          BY <3>2, <4>1, BitBelow
    <3>4. i < j + 1
        BY <1>1, <2>1, <2>6
    <3>5. QED
        BY <2>5, <2>6, <3>3, <3>4 DEF BitOfSum, y
  <2>7. CASE i = j
    <3>1. Bit(y, i) = d
        BY <2>1, <2>2, <2>3, <2>7, BitOnTop
    <3>2. i < j + 1
        BY <1>1, <2>7
    <3>3. QED
        BY <2>2, <2>7, <3>1, <3>2 DEF BitOfSum, y
  <2>8. CASE i > j
    <3>1. Pow2[j + 1] <= Pow2[i]
      <4>1. CASE j + 1 = i
          BY <1>1, <4>1
      <4>2. CASE j + 1 < i
        <5>1. PICK q \in Nat \ {0} : Pow2[i] = Pow2[j + 1] * (2 * q)
          <6> DEFINE l == j + 1
          <6>1. l \in Nat /\ l < i /\ i <= Width
              BY <1>1, <2>1, <4>2
          <6> HIDE DEF l
          <6>2. \E q \in Nat \ {0} : Pow2[i] = Pow2[l] * (2 * q)
              BY <1>1, <6>1, GreaterPower
          <6>3. QED
              BY <6>2 DEF l
        <5>2. Pow2[j + 1] \in Nat \ {0}
            BY <2>1, Powers
        <5>3. \A u \in Nat, v \in Nat \ {0} : u <= u * (2 * v)
            OBVIOUS
        <5>4. QED
            BY <5>1, <5>2, <5>3
      <4>3. QED
          BY <1>1, <2>1, <2>8, <4>1, <4>2
    <3>2. Pow2[j + 1] \in Nat
        BY <2>1, Powers
    <3>3. y \in 0 .. Pow2[i] - 1
        BY <1>1, <2>3, <3>1, <3>2
    <3>4. Bit(y, i) = 0
        BY <3>3, BitOfSmaller
    <3>5. ~(i < j + 1)
        BY <1>1, <2>1, <2>8
    <3>6. QED
        BY <3>4, <3>5 DEF BitOfSum, y
  <2>9. i < j \/ i = j \/ i > j
      BY <1>1, <2>1
  <2>10. QED
      BY <2>6, <2>7, <2>8, <2>9
<1> HIDE DEF G
<1>4. 0 .. Width \subseteq G
    BY <1>1, <1>2, <1>3, InductionUpTo
<1>5. QED
    BY <1>4 DEF G

(* Any positions are the bits of a word. *)
LEMMA BitsFrom ==
    ASSUME NEW positions \in SUBSET Positions
    PROVE  /\ FromBits(positions) \in WordRange
           /\ BitsOf(FromBits(positions)) = positions
<1>1. PICK f : Sums(f, positions) /\ FromBits(positions) = f[Width]
    BY FromBitsSums
<1>2. f[Width] \in WordRange
    BY <1>1, WordIsPower, SumBelow DEF WordRange
<1>3. ASSUME NEW i \in Positions
      PROVE  Bit(f[Width], i) = 1 <=> i \in positions
  <2>1. BitOfSum(f[Width], i, Width, positions)
      BY <1>1, WordIsPower, SumBits
  <2>2. i < Width
      BY PositionsAre
  <2>3. QED
      BY <2>1, <2>2 DEF BitOfSum
<1>4. QED
    BY <1>1, <1>2, <1>3 DEF BitsOf

(* Sums of the bits of a number are the number, as far as they go.         *)
LEMMA SumOfBits ==
    ASSUME NEW x \in Int, NEW f, Sums(f, BitsOf(x)), NEW k \in 0 .. Width
    PROVE  f[k] = x % Pow2[k]
<1> DEFINE G == {j \in 0 .. Width : f[j] = x % Pow2[j]}
<1>1. Width \in Nat
    BY WidthType
<1>2. 0 \in G
    BY <1>1, Powers DEF Sums
<1>3. \A j \in 0 .. Width - 1 : j \in G => j + 1 \in G
  <2> SUFFICES ASSUME NEW j \in 0 .. Width - 1, j \in G
               PROVE  j + 1 \in G
      OBVIOUS
  <2>1. j \in Positions /\ j + 1 \in 0 .. Width
      BY <1>1, PositionsAre
  <2>2. f[j + 1] = f[j] + Pow2[j] * (IF j \in BitsOf(x) THEN 1 ELSE 0)
      BY DEF Sums
  <2>3. (IF j \in BitsOf(x) THEN 1 ELSE 0) = Bit(x, j)
      BY <2>1, BitIs DEF BitsOf
  <2>4. f[j] = x % Pow2[j]
      OBVIOUS
  <2>5. x % Pow2[j + 1] = (x % Pow2[j]) + Pow2[j] * Bit(x, j)
      BY <2>1, NextLow
  <2>6. f[j + 1] = x % Pow2[j + 1]
      BY <2>2, <2>3, <2>4, <2>5
  <2>7. QED
      BY <2>1, <2>6
<1> HIDE DEF G
<1>4. 0 .. Width \subseteq G
    BY <1>1, <1>2, <1>3, InductionUpTo
<1>5. QED
    BY <1>4 DEF G

(* The low bits of a number are those of the number below a power.         *)
LEMMA BitsOfLow ==
    ASSUME NEW x \in Int, NEW k \in 0 .. Width
    PROVE  /\ x % Pow2[k] \in WordRange
           /\ BitsOf(x % Pow2[k]) = {i \in BitsOf(x) : i < k}
<1>1. PICK f : Sums(f, BitsOf(x))
    BY FromBitsSums
<1>2. f[k] = x % Pow2[k]
    BY <1>1, SumOfBits
<1>3. f[k] \in WordRange
  <2>1. f[k] \in 0 .. Pow2[k] - 1 /\ Pow2[k] \in Nat
      BY <1>1, SumBelow, Powers
  <2>2. k = Width \/ k < Width
      BY WidthType
  <2>3. Pow2[k] <= Pow2[Width]
    <3>1. CASE k < Width
      <4>1. PICK q \in Nat \ {0} : Pow2[Width] = Pow2[k] * (2 * q)
          BY <3>1, WidthType, GreaterPower
      <4>2. \A u \in Nat, v \in Nat \ {0} : u <= u * (2 * v)
          OBVIOUS
      <4>3. QED
          BY <2>1, <4>1, <4>2
    <3>2. QED
        BY <2>1, <2>2, <3>1
  <2>4. WORD \in Nat /\ WORD = Pow2[Width]
      BY WordIsPower, Widths
  <2>5. QED
      BY <2>1, <2>3, <2>4 DEF WordRange
<1>4. ASSUME NEW i \in Positions
      PROVE  Bit(f[k], i) = 1 <=> Bit(x, i) = 1 /\ i < k
  <2>1. BitOfSum(f[k], i, k, BitsOf(x))
      BY <1>1, SumBits
  <2>2. i \in BitsOf(x) <=> Bit(x, i) = 1
      BY DEF BitsOf
  <2>3. QED
      BY <2>1, <2>2 DEF BitOfSum
<1>5. QED
    BY <1>2, <1>3, <1>4 DEF BitsOf

(* A word is determined by its bits. *)
LEMMA SameBits ==
    ASSUME NEW x \in WordRange, NEW y \in WordRange, BitsOf(x) = BitsOf(y)
    PROVE  x = y
<1>1. PICK f : Sums(f, BitsOf(x))
    BY FromBitsSums
<1>2. x \in Int /\ y \in Int /\ Width \in 0 .. Width /\ WORD = Pow2[Width]
    BY WordIsPower, Widths DEF WordRange
<1>3. f[Width] = x % WORD /\ f[Width] = y % WORD
    BY <1>1, <1>2, SumOfBits
<1>4. x % WORD = x /\ y % WORD = y
    BY Widths, SmallMod DEF WordRange
<1>5. QED
    BY <1>3, <1>4

-----------------------------------------------------------------------------
(* The logical operations, as operations on sets of positions. *)

(* And, or, exclusive or are intersection, union, symmetric difference. *)
LEMMA LogicBits ==
    ASSUME NEW x \in Int, NEW y \in Int
    PROVE  /\ BitAnd(x, y) \in WordRange
           /\ BitsOf(BitAnd(x, y)) = BitsOf(x) \cap BitsOf(y)
           /\ BitOr(x, y) \in WordRange
           /\ BitsOf(BitOr(x, y)) = BitsOf(x) \cup BitsOf(y)
           /\ BitXor(x, y) \in WordRange
           /\ BitsOf(BitXor(x, y))
                = (BitsOf(x) \cup BitsOf(y)) \ (BitsOf(x) \cap BitsOf(y))
<1> DEFINE both == {i \in Positions : Bit(x, i) = 1 /\ Bit(y, i) = 1}
           any == {i \in Positions : Bit(x, i) = 1 \/ Bit(y, i) = 1}
           one == {i \in Positions : Bit(x, i) # Bit(y, i)}
<1>1. both = BitsOf(x) \cap BitsOf(y) /\ any = BitsOf(x) \cup BitsOf(y)
    BY DEF BitsOf
<1>2. one = (BitsOf(x) \cup BitsOf(y)) \ (BitsOf(x) \cap BitsOf(y))
  <2>1. \A i \in Positions : Bit(x, i) \in {0, 1} /\ Bit(y, i) \in {0, 1}
      BY BitIs
  <2>2. \A i \in Positions : Bit(x, i) # Bit(y, i)
            <=> /\ Bit(x, i) = 1 \/ Bit(y, i) = 1
                /\ ~(Bit(x, i) = 1 /\ Bit(y, i) = 1)
      BY <2>1
  <2>3. QED
      BY <2>2 DEF BitsOf
<1>3. /\ both \in SUBSET Positions /\ any \in SUBSET Positions
      /\ one \in SUBSET Positions
    OBVIOUS
<1>4. BitAnd(x, y) = FromBits(both) /\ BitOr(x, y) = FromBits(any)
      /\ BitXor(x, y) = FromBits(one)
    BY DEF BitAnd, BitOr, BitXor
<1> HIDE DEF both, any, one
<1>5. QED
    BY <1>1, <1>2, <1>3, <1>4, BitsFrom

(* The complement of a word has the other bits. *)
LEMMA NotBits ==
    ASSUME NEW x \in WordRange
    PROVE  BitNot(x) \in WordRange /\ BitsOf(BitNot(x)) = Positions \ BitsOf(x)
<1> DEFINE others == Positions \ BitsOf(x)
<1>1. PICK f : Sums(f, BitsOf(x))
    BY FromBitsSums
<1>2. PICK g : Sums(g, others) /\ FromBits(others) = g[Width]
    BY FromBitsSums
<1> DEFINE G == {k \in 0 .. Width : f[k] + g[k] = Pow2[k] - 1}
<1>3. Width \in Nat /\ Width \in 0 .. Width
    BY WordIsPower
<1>4. 0 \in G
  <2>1. f[0] = 0 /\ g[0] = 0 /\ Pow2[0] = 1 /\ 0 \in 0 .. Width
      BY <1>1, <1>2, <1>3, Powers DEF Sums
  <2>2. QED
      BY <2>1
<1>5. \A k \in 0 .. Width - 1 : k \in G => k + 1 \in G
  <2> SUFFICES ASSUME NEW k \in 0 .. Width - 1, k \in G
               PROVE  k + 1 \in G
      OBVIOUS
  <2>1. k \in Positions /\ k + 1 \in 0 .. Width /\ k \in 0 .. Width
      BY <1>3, PositionsAre
  <2>2. Pow2[k] \in Nat /\ Pow2[k + 1] = 2 * Pow2[k]
      BY <2>1, Powers
  <2>3. f[k] \in Nat /\ g[k] \in Nat /\ f[k] + g[k] = Pow2[k] - 1
      BY <1>1, <1>2, <2>1 DEF Sums
  <2> DEFINE d == IF k \in BitsOf(x) THEN 1 ELSE 0
             e == IF k \in others THEN 1 ELSE 0
  <2>4. f[k + 1] = f[k] + Pow2[k] * d /\ g[k + 1] = g[k] + Pow2[k] * e
      BY <1>1, <1>2 DEF Sums
  <2>5. (d = 1 /\ e = 0) \/ (d = 0 /\ e = 1)
      BY <2>1
  <2> HIDE DEF d, e, G
  <2>6. Pow2[k] * 1 = Pow2[k] /\ Pow2[k] * 0 = 0
      BY <2>2
  <2>7. f[k + 1] + g[k + 1] = Pow2[k + 1] - 1
      BY <2>2, <2>3, <2>4, <2>5, <2>6
  <2>8. QED
      BY <2>1, <2>7 DEF G
<1> HIDE DEF G
<1>6. Width \in G
  <2>1. 0 .. Width \subseteq G
      BY <1>3, <1>4, <1>5, InductionUpTo
  <2>2. QED
      BY <1>3, <2>1
<1>7. f[Width] = x
  <2>1. x \in Int /\ WORD = Pow2[Width] /\ x % WORD = x
      BY WordIsPower, Widths, SmallMod DEF WordRange
  <2>2. QED
      BY <1>1, <1>3, <2>1, SumOfBits
<1>8. g[Width] = BitNot(x)
  <2>1. g[Width] \in Nat /\ f[Width] + g[Width] = Pow2[Width] - 1
      BY <1>2, <1>3, <1>6 DEF G, Sums
  <2>2. x \in Nat /\ WORD \in Nat /\ WORD = Pow2[Width]
      BY WordIsPower, Widths DEF WordRange
  <2>3. QED
      BY <1>7, <2>1, <2>2 DEF BitNot
<1>9. others \in SUBSET Positions
    OBVIOUS
<1> HIDE DEF others
<1>10. FromBits(others) \in WordRange /\ BitsOf(FromBits(others)) = others
    BY <1>9, BitsFrom
<1>11. QED
    BY <1>2, <1>8, <1>10 DEF others

(* What an operation leaves of a word in a destination. *)
LEMMA BitsOfResult ==
    ASSUME NEW n \in {1, 2, 4}, NEW x \in Int
    PROVE  /\ x % Capacity(n) \in WordRange
           /\ BitsOf(x % Capacity(n)) = {i \in BitsOf(x) : i < Bits(n)}
<1>1. Bits(n) \in 0 .. Width /\ Capacity(n) = Pow2[Bits(n)]
    BY CapacityIsPower
<1>2. QED
    BY <1>1, BitsOfLow

(* The results of the logical instructions, for any operands. *)
LEMMA LogicOutcomes ==
    ASSUME NEW x, NEW y
    PROVE  /\ res("and", x, y) = BitAnd(x, y) % Capacity(size)
           /\ res("or", x, y) = BitOr(x, y) % Capacity(size)
           /\ res("not", x, y) = BitNot(x) % Capacity(size)
           /\ res("nand", x, y) = BitNot(BitAnd(x, y)) % Capacity(size)
           /\ res("xor", x, y) = BitXor(x, y) % Capacity(size)
<1>1. /\ alu("and", x, y, size) = Only(BitAnd(x, y))
      /\ alu("or", x, y, size) = Only(BitOr(x, y))
      /\ alu("not", x, y, size) = Only(BitNot(x))
      /\ alu("nand", x, y, size) = Only(BitNot(BitAnd(x, y)))
      /\ alu("xor", x, y, size) = Only(BitXor(x, y))
    BY DEF alu, integer, SizedOps, FloatOps1, FloatOps2
<1>2. \A op, u : alu(op, x, y, size) = Only(u) =>
          res(op, x, y) = u % Capacity(size)
  <2> SUFFICES ASSUME NEW op, NEW u, alu(op, x, y, size) = Only(u)
               PROVE  res(op, x, y) = u % Capacity(size)
      OBVIOUS
  <2> DEFINE o == [res |-> u, r |-> NoR]
  <2>1. alu(op, x, y, size) = {o} /\ o.res = u
      BY DEF Only
  <2> HIDE DEF o
  <2>2. QED
      BY <2>1, OneOutcome
<1>3. QED
    BY <1>1, <1>2

(* De Morgan's law, and exclusive or from the other operations, at every   *)
(* width of a destination although the second operand is a whole word. *)
THEOREM LogicLaws == Spec => []LogicAgrees
<1>1. Operands => LogicAgrees
  <2> SUFFICES ASSUME Operands
               PROVE  LogicAgrees
      OBVIOUS
  <2> DEFINE low(x) == x % Capacity(size)
             Below == {i \in Positions : i < Bits(size)}
  <2>1. size \in {1, 2, 4} /\ a \in WordRange /\ b \in WordRange
        /\ a \in Int /\ b \in Int
    <3>1. Capacity(size) \in Nat /\ WORD \in Nat /\ Capacity(size) <= WORD
        BY CapacityRange, Widths
    <3>2. QED
        BY <3>1 DEF Operands, WordRange
  <2>2. \A x \in WordRange : x \in Int
      BY Widths DEF WordRange
  <2>3. \A x \in WordRange :
            low(x) \in WordRange /\ BitsOf(low(x)) = BitsOf(x) \cap Below
    <3>1. \A x \in WordRange : low(x) \in WordRange
              /\ BitsOf(low(x)) = {i \in BitsOf(x) : i < Bits(size)}
        BY <2>1, <2>2, BitsOfResult
    <3> HIDE DEF low
    <3>2. QED
        BY <3>1 DEF BitsOf
  <2> HIDE DEF low, Below
  <2> DEFINE both == BitAnd(a, b)
             any == BitOr(a, b)
             neither == BitNot(both)
  <2>4. /\ both \in WordRange /\ BitsOf(both) = BitsOf(a) \cap BitsOf(b)
        /\ any \in WordRange /\ BitsOf(any) = BitsOf(a) \cup BitsOf(b)
      BY <2>1, LogicBits
  <2>5. /\ neither \in WordRange
        /\ BitsOf(neither) = Positions \ BitsOf(both)
    <3> HIDE DEF both
    <3>1. QED
        BY <2>4, NotBits
  <2> HIDE DEF both, any, neither
  <2>6. res("nand", a, b) = res("or", res("not", a, 0), res("not", b, 0))
    <3> DEFINE x == low(neither)
               u == low(BitNot(a))
               v == low(BitNot(b))
               y == low(BitOr(u, v))
    <3>1. /\ res("nand", a, b) = x
          /\ res("or", res("not", a, 0), res("not", b, 0)) = y
        BY LogicOutcomes DEF low, neither, both
    <3>2. /\ x \in WordRange
          /\ BitsOf(x) = (Positions \ (BitsOf(a) \cap BitsOf(b))) \cap Below
        BY <2>3, <2>4, <2>5
    <3>3. /\ u \in WordRange /\ v \in WordRange
          /\ BitsOf(u) = (Positions \ BitsOf(a)) \cap Below
          /\ BitsOf(v) = (Positions \ BitsOf(b)) \cap Below
        BY <2>1, <2>3, NotBits
    <3> HIDE DEF u, v
    <3>4. /\ y \in WordRange
          /\ BitsOf(y) = (BitsOf(u) \cup BitsOf(v)) \cap Below
      <4> DEFINE e == BitOr(u, v)
      <4>1. e \in WordRange /\ BitsOf(e) = BitsOf(u) \cup BitsOf(v)
          BY <2>2, <3>3, LogicBits
      <4> HIDE DEF e
      <4>2. /\ low(e) \in WordRange
            /\ BitsOf(low(e)) = (BitsOf(u) \cup BitsOf(v)) \cap Below
          BY <2>3, <4>1
      <4>3. QED
          BY <4>2 DEF e
    <3> HIDE DEF x, y
    <3>5. BitsOf(x) = BitsOf(y)
        BY <3>2, <3>3, <3>4
    <3>6. x = y
        BY <3>2, <3>4, <3>5, SameBits
    <3>7. QED
        BY <3>1, <3>6
  <2>7. res("xor", a, b) = res("and", res("or", a, b), res("nand", a, b))
    <3> DEFINE z == BitXor(a, b)
               x == low(z)
               u == low(any)
               v == low(neither)
               y == low(BitAnd(u, v))
    <3>1. /\ res("xor", a, b) = x
          /\ res("and", res("or", a, b), res("nand", a, b)) = y
        BY LogicOutcomes DEF low, neither, both, any
    <3>2. /\ x \in WordRange
          /\ BitsOf(x) = ((BitsOf(a) \cup BitsOf(b))
                            \ (BitsOf(a) \cap BitsOf(b))) \cap Below
      <4>1. /\ z \in WordRange
            /\ BitsOf(z) = (BitsOf(a) \cup BitsOf(b))
                              \ (BitsOf(a) \cap BitsOf(b))
          BY <2>1, LogicBits
      <4> HIDE DEF z
      <4>2. QED
          BY <2>3, <4>1
    <3>3. /\ u \in WordRange /\ v \in WordRange
          /\ BitsOf(u) = (BitsOf(a) \cup BitsOf(b)) \cap Below
          /\ BitsOf(v) = (Positions \ (BitsOf(a) \cap BitsOf(b))) \cap Below
        BY <2>3, <2>4, <2>5
    <3> HIDE DEF u, v
    <3>4. /\ y \in WordRange
          /\ BitsOf(y) = (BitsOf(u) \cap BitsOf(v)) \cap Below
      <4> DEFINE e == BitAnd(u, v)
      <4>1. e \in WordRange /\ BitsOf(e) = BitsOf(u) \cap BitsOf(v)
          BY <2>2, <3>3, LogicBits
      <4> HIDE DEF e
      <4>2. /\ low(e) \in WordRange
            /\ BitsOf(low(e)) = (BitsOf(u) \cap BitsOf(v)) \cap Below
          BY <2>3, <4>1
      <4>3. QED
          BY <4>2 DEF e
    <3> HIDE DEF x, y
    <3>5. BitsOf(a) \subseteq Positions /\ BitsOf(b) \subseteq Positions
        BY DEF BitsOf
    <3>6. BitsOf(x) = BitsOf(y)
        BY <3>2, <3>3, <3>4, <3>5
    <3>7. x = y
        BY <3>2, <3>4, <3>6, SameBits
    <3>8. QED
        BY <3>1, <3>7
  <2>8. QED
      BY <2>6, <2>7 DEF LogicAgrees
<1>2. QED
    BY <1>1, OperandsStay, PTL

-----------------------------------------------------------------------------
(* Shifts. *)

(* The operations that are given a count or a position. *)
LEMMA SizedAlu ==
    ASSUME NEW op \in SizedOps, NEW x, NEW y
    PROVE  alu(op, x, y, size) = sized(op, x, bit_trunc(y, size), size)
<1>1. /\ op \notin {"add", "uadd"} /\ op \notin {"sub", "usub"}
      /\ op # "inc" /\ op # "dec" /\ op \notin FloatOps1 \cup FloatOps2
    BY DEF SizedOps, FloatOps1, FloatOps2
<1>2. QED
    BY <1>1 DEF alu

(* The results of the shifts, for any operands. *)
LEMMA ShiftOutcomes ==
    ASSUME NEW x, NEW y
    PROVE  LET n == bit_trunc(y, size) IN
           /\ out("slr", x, y) = slr(x, n)
           /\ out("sar", x, y) = sar(x, n)
           /\ out("sll", x, y) = sll(x, n, size)
           /\ \A op \in {"slr", "sar", "sll"} :
                 /\ res(op, x, y) = out(op, x, y).res % Capacity(size)
                 /\ rest(op, x, y) = out(op, x, y).r
<1> DEFINE n == bit_trunc(y, size)
<1>1. /\ alu("slr", x, y, size) = {slr(x, n)}
      /\ alu("sar", x, y, size) = {sar(x, n)}
      /\ alu("sll", x, y, size) = {sll(x, n, size)}
    BY SizedAlu DEF sized, SizedOps
<1> HIDE DEF n
<1>2. /\ out("slr", x, y) = slr(x, n)
      /\ out("sar", x, y) = sar(x, n)
      /\ out("sll", x, y) = sll(x, n, size)
    BY <1>1, OneOutcome
<1>3. QED
    BY <1>2 DEF n, res, rest

(* The count of a shift, with the powers it and the rest of the width are. *)
LEMMA CountOf ==
    ASSUME NEW y \in Int, NEW s \in {1, 2, 4}
    PROVE  LET n == bit_trunc(y, s)
               w == Bits(s)
           IN  /\ n \in 0 .. w - 1 /\ w \in Nat \ {0} /\ w <= Width
               /\ Width \in Nat
               /\ Pow2[n] \in Nat \ {0} /\ Pow2[w - n] \in Nat \ {0}
               /\ Capacity(s) = Pow2[w - n] * Pow2[n]
               /\ \E g \in Nat : Pow2[Width - n] = Pow2[w - n] * g
<1> DEFINE n == bit_trunc(y, s)
           w == Bits(s)
           m == w - n
           l == Width - w
<1>1. w \in 1 .. Width /\ Width \in Nat /\ Capacity(s) = Pow2[w]
    BY CapacityIsPower, WidthType
<1>2. n = y % w
    BY DEF bit_trunc
<1> HIDE DEF n, w
<1>3. n \in 0 .. w - 1
    BY <1>1, <1>2, ModRange
<1>4. /\ n \in 0 .. Width /\ m \in 0 .. Width /\ l \in 0 .. Width
      /\ n \in Nat /\ m \in Nat /\ l \in Nat
      /\ m + n = w /\ m + l = Width - n /\ m + n <= Width /\ m + l <= Width
    BY <1>1, <1>3
<1> HIDE DEF m, l
<1>5. Pow2[m + n] = Pow2[m] * Pow2[n] /\ Pow2[m + l] = Pow2[m] * Pow2[l]
    BY <1>4, PowerSum
<1>6. /\ Pow2[n] \in Nat \ {0} /\ Pow2[m] \in Nat \ {0}
      /\ Pow2[l] \in Nat
    BY <1>4, Powers
<1>7. /\ Capacity(s) = Pow2[m] * Pow2[n]
      /\ \E g \in Nat : Pow2[Width - n] = Pow2[m] * g
    BY <1>1, <1>4, <1>5, <1>6
<1>8. n \in 0 .. w - 1 /\ w \in Nat \ {0} /\ w <= Width
    BY <1>1, <1>3
<1>9. QED
    BY <1>1, <1>6, <1>7, <1>8 DEF m, n, w

(* A shift to the left by a factor p drops what is above the capacity h p. *)
LEMMA ShiftedOut ==
    ASSUME NEW x \in Nat, NEW p \in Nat \ {0}, NEW h \in Nat \ {0},
           NEW g \in Nat \ {0}
    PROVE  (x \div h) * (h * p) + (((x % (h * g)) * p) % (h * p)) = x * p
<1> DEFINE c == h * p
           q == x \div h
           t == x % h
           k == x \div (h * g)
           s == x % (h * g)
<1>1. c \in Nat \ {0} /\ h * g \in Nat \ {0}
  <2>1. \A u, v \in Nat \ {0} : u * v \in Nat \ {0}
      OBVIOUS
  <2>2. QED
      BY <2>1
<1>2. q \in Int /\ t \in 0 .. h - 1 /\ x = t + h * q
    BY IntDivision
<1>3. k \in Int /\ s \in 0 .. (h * g) - 1 /\ x = s + (h * g) * k
  <2> DEFINE m == h * g
  <2>1. m \in Nat \ {0} /\ x \in Int
      BY <1>1
  <2> HIDE DEF m
  <2>2. /\ x \div m \in Int /\ x % m \in 0 .. m - 1
        /\ x = (x % m) + m * (x \div m)
      BY <2>1, IntDivision
  <2>3. QED
      BY <2>2 DEF m
<1>4. t * p \in 0 .. c - 1
  <2>1. \A u, v \in Nat : u \in 0 .. h - 1 => u * v <= (h - 1) * v
      OBVIOUS
  <2>2. t * p <= (h - 1) * p
      BY <1>2, <2>1
  <2>3. (h - 1) * p = c - p
      OBVIOUS
  <2>4. t * p \in Nat
    <3>1. \A u, v \in Nat : u * v \in Nat
        OBVIOUS
    <3>2. t \in Nat
        BY <1>2
    <3> HIDE DEF t
    <3>3. QED
        BY <3>1, <3>2
  <2> HIDE DEF c, t
  <2>5. QED
      BY <1>1, <2>2, <2>3, <2>4
<1> HIDE DEF c, q, t, k, s
<1>5. x * p = t * p + c * q
  <2>1. \A u, v, r, z \in Int : (u + v * r) * z = u * z + (v * z) * r
      OBVIOUS
  <2>2. t \in Int
      BY <1>2
  <2>3. (t + h * q) * p = t * p + (h * p) * q
      BY <1>2, <2>1, <2>2
  <2>4. QED
      BY <1>2, <2>3 DEF c
<1>6. s * p = t * p + c * (q - g * k)
  <2>1. \A u, v, r, z \in Int :
            (u + (h * v) * r) * z = u * z + (h * z) * (v * r)
      OBVIOUS
  <2>2. s \in Int
      BY <1>1, <1>3
  <2>3. (s + (h * g) * k) * p = s * p + (h * p) * (g * k)
      BY <1>3, <2>1, <2>2
  <2>4. x * p = s * p + c * (g * k)
      BY <1>3, <2>3 DEF c
  <2>5. \A u, v \in Int : c * (u - v) = c * u - c * v
      BY <1>1
  <2>6. g * k \in Int
      BY <1>3
  <2>7. c * (q - g * k) = c * q - c * (g * k)
      BY <1>2, <2>5, <2>6
  <2>8. /\ s * p \in Int /\ t * p \in Int /\ c * q \in Int
        /\ c * (g * k) \in Int
      BY <1>1, <1>2, <2>2, <2>6
  <2>9. \A u, v, r, z \in Int : v + r = u + z => u = v + (r - z)
      OBVIOUS
  <2>10. t * p + c * q = s * p + c * (g * k)
      BY <1>5, <2>4
  <2>11. s * p = t * p + (c * q - c * (g * k))
      BY <2>8, <2>9, <2>10
  <2>12. QED
      BY <2>7, <2>11
<1>7. (s * p) % c = t * p
  <2>1. q - g * k \in Int
      BY <1>2, <1>3
  <2>2. QED
      BY <1>1, <1>4, <1>6, <2>1, DivUnique
<1>8. q * c + t * p = x * p
  <2>1. q * c = c * q /\ t * p \in Int /\ c * q \in Int
      BY <1>1, <1>2
  <2>2. QED
      BY <1>5, <2>1
<1>9. QED
    BY <1>7, <1>8 DEF c, q, s

(* What an arithmetic shift leaves of a signed number is one of its range. *)
LEMMA ShiftedSigned ==
    ASSUME NEW s \in Int, NEW p \in Nat \ {0}
    PROVE  LET q == s \div p IN
           /\ q \in Int
           /\ s >= 0 => 0 <= q /\ q <= s
           /\ s < 0 => s <= q /\ q < 0
           /\ q * p + (s % p) = s
<1> DEFINE q == s \div p
           r == s % p
<1>1. q \in Int /\ r \in 0 .. p - 1 /\ s = r + p * q
    BY IntDivision
<1> HIDE DEF q, r
<1>2. q * p = p * q /\ p * q \in Int
    BY <1>1
<1>3. q >= 0 => p * q >= q
    BY <1>1
<1>4. q <= -1 => p * q <= q /\ p * q <= -p
  <2>1. \A u, v \in Nat \ {0} : u * v >= u /\ u * v >= v
      OBVIOUS
  <2>2. ASSUME q <= -1
        PROVE  p * q <= q /\ p * q <= -p
    <3>1. -q \in Nat \ {0} /\ p * q = -(p * (-q))
        BY <1>1, <2>2
    <3>2. p * (-q) >= p /\ p * (-q) >= -q
        BY <2>1, <3>1
    <3>3. p * (-q) \in Int
        BY <3>1
    <3>4. QED
        BY <1>1, <3>1, <3>2, <3>3
  <2>3. QED
      BY <2>2
<1>5. q >= 0 \/ q <= -1
    BY <1>1
<1>6. q \in Int /\ (s >= 0 => 0 <= q /\ q <= s) /\ (s < 0 => s <= q /\ q < 0)
    BY <1>1, <1>2, <1>3, <1>4, <1>5
<1>7. q * p + r = s
    BY <1>1, <1>2
<1>8. QED
    BY <1>6, <1>7 DEF q, r

(* Result and R together hold every bit of the operand, at every width and *)
(* for every count: for the logical shifts as a multiple of the power, for *)
(* the arithmetic shift with the sign. *)
THEOREM ShiftsLoseNothing == Spec => []ShiftsKeepBits
<1>1. Operands => ShiftsKeepBits
  <2> SUFFICES ASSUME Operands
               PROVE  ShiftsKeepBits
      OBVIOUS
  <2> DEFINE n == bit_trunc(b, size)
             w == Bits(size)
             c == Capacity(size)
             p == Pow2[n]
             h == Pow2[w - n]
  <2>1. /\ size \in {1, 2, 4} /\ a \in 0 .. c - 1
        /\ b \in Int /\ WORD \in Nat /\ c \in Nat /\ c <= WORD
      BY CapacityRange, Widths DEF Operands, WordRange
  <2>2. /\ n \in 0 .. w - 1 /\ w \in Nat \ {0} /\ w <= Width
        /\ Width \in Nat /\ p \in Nat \ {0} /\ h \in Nat \ {0}
        /\ c = h * p
      BY <2>1, CountOf
  <2>3. PICK g \in Nat : Pow2[Width - n] = h * g
      BY <2>1, CountOf
  <2>4. a \in Nat /\ a < c
      BY <2>1
  <2>5. g # 0
    <3>1. Width - n \in 0 .. Width
        BY <2>2
    <3>2. Pow2[Width - n] # 0
        BY <3>1, Powers
    <3>3. QED
        BY <2>2, <2>3, <3>2
  <2>6. res("slr", a, b) * p + rest("slr", a, b) = a
    <3>1. /\ res("slr", a, b) = (a \div p) % c
          /\ rest("slr", a, b) = a % p
        BY ShiftOutcomes DEF slr, ShiftRight
    <3> HIDE DEF p, c
    <3>2. /\ a \div p \in 0 .. a /\ (a \div p) * p + (a % p) = a
        BY <2>2, <2>4, ShiftedSigned
    <3>3. (a \div p) % c = a \div p
      <4>1. a \div p \in 0 .. c - 1 /\ c \in Nat \ {0}
          BY <2>1, <2>4, <3>2
      <4>2. QED
          BY <4>1, SmallMod
    <3>4. QED
        BY <3>1, <3>2, <3>3
  <2>7. rest("sll", a, b) * c + res("sll", a, b) = a * p
    <3>1. /\ res("sll", a, b) = ((a % (h * g)) * p) % c
          /\ rest("sll", a, b) = IF n = 0 THEN 0 ELSE a \div h
        BY <2>3, ShiftOutcomes DEF sll, ShiftLeft, ShiftRight, Width
    <3>2. (a \div h) * c + (((a % (h * g)) * p) % c) = a * p
      <4> HIDE DEF p, c, h, n
      <4>1. (a \div h) * (h * p) + (((a % (h * g)) * p) % (h * p)) = a * p
          BY <2>2, <2>4, <2>5, ShiftedOut
      <4>2. QED
          BY <2>2, <4>1
    <3>3. n = 0 => a \div h = 0
      <4>1. n = 0 => h = c
        <5>1. n = 0 => p = 1
            BY Powers
        <5>2. QED
            BY <2>2, <5>1
      <4>2. c \in Nat \ {0} /\ a = a + c * 0 /\ 0 \in Int
          BY <2>1, <2>4
      <4>3. a \div c = 0
          BY <2>1, <4>2, DivUnique
      <4>4. QED
          BY <4>1, <4>3
    <3> HIDE DEF p, c, h, n
    <3>4. QED
        BY <3>1, <3>2, <3>3
  <2>8. Signed(out("sar", sa, b).res, 4) * p + rest("sar", sa, b)
          = Signed(a, size)
    <3> DEFINE s == Signed(a, size)
               q == s \div p
    <3>1. /\ out("sar", sa, b).res = Word(Signed(sa, 4) \div p)
          /\ rest("sar", sa, b) = sa % p
        BY ShiftOutcomes DEF sar, ShiftRightSigned
    <3>2. s \in Int /\ -WORD <= 2 * s /\ 2 * s < WORD
      <4>1. a \in Int
          BY <2>4
      <4>2. s \in Int /\ -c <= 2 * s /\ 2 * s < c
          BY <4>1, SignedRange
      <4>3. QED
          BY <2>1, <4>2
    <3>3. sa = Word(s) /\ Signed(sa, 4) = s
        BY <3>2, SignedOfWord DEF sa, SignExtend
    <3> HIDE DEF s, p
    <3>4. /\ q \in Int /\ (s >= 0 => 0 <= q /\ q <= s)
          /\ (s < 0 => s <= q /\ q < 0) /\ q * p + (s % p) = s
        BY <2>2, <3>2, ShiftedSigned
    <3> HIDE DEF q
    <3>5. Signed(Word(q), 4) = q
      <4>1. -WORD <= 2 * q /\ 2 * q < WORD
          BY <2>1, <3>2, <3>4
      <4>2. QED
          BY <3>4, <4>1, SignedOfWord
    <3>6. sa % p = s % p
      <4>1. PICK k \in Nat : WORD = p * k
        <5> DEFINE l == Width - n
        <5>1. l \in Nat /\ n \in Nat /\ n + l <= Width /\ n + l = Width
              /\ l \in 0 .. Width
            BY <2>2
        <5>2. WORD = Pow2[Width]
            BY WordIsPower
        <5>3. Pow2[l] \in Nat
            BY <5>1, Powers
        <5> HIDE DEF l, n
        <5>4. Pow2[n + l] = Pow2[n] * Pow2[l]
            BY <5>1, PowerSum
        <5>5. QED
            BY <5>1, <5>2, <5>3, <5>4 DEF p
      <4>2. /\ s % WORD \in Int /\ s \div WORD \in Int
            /\ s = (s % WORD) + WORD * (s \div WORD)
        <5>1. WORD \in Nat \ {0}
            BY Widths
        <5>2. QED
            BY <3>2, <5>1, IntDivision
      <4> DEFINE j == s \div WORD
      <4>3. s % WORD = sa
          BY <3>3 DEF Word
      <4> HIDE DEF j
      <4>4. j \in Int /\ sa \in Int /\ s = sa + WORD * j
          BY <4>2, <4>3 DEF j
      <4>5. k * j \in Int /\ s = sa + p * (k * j)
        <5>1. \A u, v, r \in Int : (u * v) * r = u * (v * r)
            OBVIOUS
        <5>2. QED
            BY <2>2, <4>1, <4>4, <5>1
      <4> DEFINE l == k * j
      <4>6. l \in Int /\ s = sa + p * l /\ p \in Nat \ {0} /\ sa \in Int
          BY <2>2, <4>4, <4>5
      <4> HIDE DEF l
      <4>7. s % p = sa % p
          BY <4>6, Congruent, Zenon
      <4>8. QED
          BY <4>7
    <3>7. QED
        BY <3>1, <3>3, <3>4, <3>5, <3>6 DEF s, q
  <2>9. QED
      BY <2>6, <2>7, <2>8 DEF ShiftsKeepBits
<1>2. QED
    BY <1>1, OperandsStay, PTL

-----------------------------------------------------------------------------
(* A single bit that is set, cleared or toggled. *)

(* Adding a power adds the position to those of a word without it. *)
LEMMA AddBit ==
    ASSUME NEW x \in WordRange, NEW i \in Positions, i \notin BitsOf(x)
    PROVE  /\ x + Pow2[i] \in WordRange
           /\ BitsOf(x + Pow2[i]) = BitsOf(x) \cup {i}
<1> DEFINE more == BitsOf(x) \cup {i}
           d(k) == IF i < k THEN Pow2[i] ELSE 0
<1>1. PICK f : Sums(f, BitsOf(x))
    BY FromBitsSums
<1>2. PICK g : Sums(g, more) /\ FromBits(more) = g[Width]
    BY FromBitsSums
<1> DEFINE G == {k \in 0 .. Width : g[k] = f[k] + d(k)}
<1>3. /\ Width \in Nat /\ Width \in 0 .. Width
      /\ i \in Nat /\ i < Width /\ Pow2[i] \in Nat
    BY WordIsPower, PositionsAre
<1>4. 0 \in G
  <2>1. f[0] = 0 /\ g[0] = 0 /\ ~(i < 0) /\ 0 \in 0 .. Width
      BY <1>1, <1>2, <1>3 DEF Sums
  <2>2. QED
      BY <2>1
<1>5. \A k \in 0 .. Width - 1 : k \in G => k + 1 \in G
  <2> SUFFICES ASSUME NEW k \in 0 .. Width - 1, k \in G
               PROVE  k + 1 \in G
      OBVIOUS
  <2> DEFINE u == IF k \in BitsOf(x) THEN 1 ELSE 0
             v == IF k \in more THEN 1 ELSE 0
  <2>1. k \in 0 .. Width /\ k + 1 \in 0 .. Width
      BY <1>3
  <2>2. f[k + 1] = f[k] + Pow2[k] * u /\ g[k + 1] = g[k] + Pow2[k] * v
      BY <1>1, <1>2 DEF Sums
  <2>3. f[k] \in Nat /\ g[k] = f[k] + d(k) /\ Pow2[k] \in Nat
      BY <1>1, <2>1, Powers DEF Sums
  <2>4. CASE k = i
    <3>1. u = 0 /\ v = 1 /\ d(k) = 0 /\ d(k + 1) = Pow2[k]
        BY <1>3, <2>4
    <3>2. Pow2[k] * 1 = Pow2[k] /\ Pow2[k] * 0 = 0
        BY <2>3
    <3> HIDE DEF u, v, d
    <3>3. g[k + 1] = f[k + 1] + d(k + 1)
        BY <2>2, <2>3, <3>1, <3>2
    <3>4. QED
        BY <2>1, <3>3
  <2>5. CASE k # i
    <3>1. u = v /\ d(k + 1) = d(k)
        BY <1>3, <2>1, <2>5
    <3>2. d(k) \in Nat /\ Pow2[k] * u \in Nat
        BY <1>3, <2>3
    <3> HIDE DEF u, v, d
    <3>3. g[k + 1] = f[k + 1] + d(k + 1)
        BY <2>2, <2>3, <3>1, <3>2
    <3>4. QED
        BY <2>1, <3>3
  <2>6. QED
      BY <2>4, <2>5
<1> HIDE DEF G
<1>6. Width \in G
  <2>1. 0 .. Width \subseteq G
      BY <1>3, <1>4, <1>5, InductionUpTo
  <2>2. QED
      BY <1>3, <2>1
<1>7. f[Width] = x
  <2>1. x \in Int /\ WORD = Pow2[Width] /\ x % WORD = x
      BY WordIsPower, Widths, SmallMod DEF WordRange
  <2>2. QED
      BY <1>1, <1>3, <2>1, SumOfBits
<1>8. FromBits(more) = x + Pow2[i]
    BY <1>2, <1>3, <1>6, <1>7 DEF G
<1>9. more \in SUBSET Positions
    BY DEF BitsOf
<1> HIDE DEF more
<1>10. FromBits(more) \in WordRange /\ BitsOf(FromBits(more)) = more
    BY <1>9, BitsFrom
<1>11. QED
    BY <1>8, <1>10 DEF more

(* Subtracting a power takes the position from those of a word with it.    *)
LEMMA RemoveBit ==
    ASSUME NEW x \in WordRange, NEW i \in Positions, i \in BitsOf(x)
    PROVE  /\ x - Pow2[i] \in WordRange
           /\ BitsOf(x - Pow2[i]) = BitsOf(x) \ {i}
<1> DEFINE less == BitsOf(x) \ {i}
           y == FromBits(less)
<1>1. less \in SUBSET Positions
    BY DEF BitsOf
<1>2. y \in WordRange /\ BitsOf(y) = less
  <2> HIDE DEF less
  <2>1. QED
      BY <1>1, BitsFrom
<1>3. i \notin BitsOf(y) /\ less \cup {i} = BitsOf(x)
    BY <1>2
<1> HIDE DEF less, y
<1>4. y + Pow2[i] \in WordRange /\ BitsOf(y + Pow2[i]) = BitsOf(x)
    BY <1>2, <1>3, AddBit
<1>5. y + Pow2[i] = x
    BY <1>4, SameBits
<1>6. Pow2[i] \in Nat /\ WORD \in Nat
    BY PositionsAre, Widths
<1>7. y = x - Pow2[i]
    BY <1>2, <1>5, <1>6 DEF WordRange
<1>8. QED
    BY <1>2, <1>7 DEF less

(* What set, clr and tgl make of the bits of a word. *)
LEMMA BitOutcomes ==
    ASSUME NEW x \in WordRange, NEW i \in Positions
    PROVE  /\ Bit(x, i) = (IF i \in BitsOf(x) THEN 1 ELSE 0)
           /\ set(x, i) \in WordRange /\ BitsOf(set(x, i)) = BitsOf(x) \cup {i}
           /\ clr(x, i) \in WordRange /\ BitsOf(clr(x, i)) = BitsOf(x) \ {i}
           /\ tgl(x, i) \in WordRange
           /\ BitsOf(tgl(x, i)) = IF i \in BitsOf(x) THEN BitsOf(x) \ {i}
                                  ELSE BitsOf(x) \cup {i}
<1>1. x \in Int
    BY Widths DEF WordRange
<1>2. Bit(x, i) = IF i \in BitsOf(x) THEN 1 ELSE 0
    BY <1>1, BitIs DEF BitsOf
<1>3. CASE i \in BitsOf(x)
  <2>1. Bit(x, i) = 1
      BY <1>2, <1>3
  <2>2. set(x, i) = x /\ clr(x, i) = x - Pow2[i] /\ tgl(x, i) = x - Pow2[i]
      BY <2>1 DEF set, clr, tgl
  <2>3. BitsOf(x) \cup {i} = BitsOf(x)
      BY <1>3
  <2>4. QED
      BY <1>2, <1>3, <2>2, <2>3, RemoveBit
<1>4. CASE i \notin BitsOf(x)
  <2>1. Bit(x, i) = 0
      BY <1>2, <1>4
  <2>2. set(x, i) = x + Pow2[i] /\ clr(x, i) = x /\ tgl(x, i) = x + Pow2[i]
      BY <2>1 DEF set, clr, tgl
  <2>3. BitsOf(x) \ {i} = BitsOf(x)
      BY <1>4
  <2>4. QED
      BY <1>2, <1>4, <2>2, <2>3, AddBit
<1>5. QED
    BY <1>3, <1>4

(* A word of that width, as the bits of it. *)
Holds(x, positions) == x \in WordRange /\ BitsOf(x) = positions
Below == {i \in Positions : i < Bits(size)}

(* What set, clr and tgl leave of a word of the width of the destination.  *)
LEMMA BitResults ==
    ASSUME Operands, NEW x, NEW positions \in SUBSET Below, Holds(x, positions)
    PROVE  LET n == bit_trunc(b, size) IN
           /\ n \in Below
           /\ Holds(res("set", x, b), positions \cup {n})
           /\ Holds(res("clr", x, b), positions \ {n})
           /\ Holds(res("tgl", x, b), IF n \in positions THEN positions \ {n}
                                      ELSE positions \cup {n})
           /\ \A op \in {"set", "clr", "tgl"} :
                 rest(op, x, b) = IF n \in positions THEN 1 ELSE 0
<1> DEFINE n == bit_trunc(b, size)
           low(y) == y % Capacity(size)
<1>1. /\ size \in {1, 2, 4} /\ b \in Int
      /\ x \in WordRange /\ BitsOf(x) = positions
    BY Widths DEF Operands, WordRange, Holds
<1>2. n \in Below /\ n \in Positions
  <2> DEFINE w == Bits(size)
  <2>1. n \in 0 .. w - 1 /\ w \in Nat \ {0} /\ w <= Width /\ Width \in Nat
      BY <1>1, CountOf
  <2> HIDE DEF n, w
  <2>2. n \in Positions /\ n < w
      BY <2>1, PositionsAre
  <2>3. QED
      BY <2>2 DEF Below, w
<1>3. /\ alu("set", x, b, size) = Both(set(x, n), Bit(x, n))
      /\ alu("clr", x, b, size) = Both(clr(x, n), Bit(x, n))
      /\ alu("tgl", x, b, size) = Both(tgl(x, n), Bit(x, n))
    BY SizedAlu DEF sized, SizedOps
<1> HIDE DEF n
<1>4. \A op, y : alu(op, x, b, size) = Both(y, Bit(x, n)) =>
          res(op, x, b) = low(y) /\ rest(op, x, b) = Bit(x, n)
  <2> SUFFICES ASSUME NEW op, NEW y, alu(op, x, b, size) = Both(y, Bit(x, n))
               PROVE  res(op, x, b) = low(y) /\ rest(op, x, b) = Bit(x, n)
      OBVIOUS
  <2> DEFINE o == [res |-> y, r |-> Bit(x, n)]
  <2>1. alu(op, x, b, size) = {o} /\ o.res = y /\ o.r = Bit(x, n)
      BY DEF Both
  <2> HIDE DEF o
  <2>2. QED
      BY <2>1, OneOutcome
<1>5. \A y \in WordRange : \A within \in SUBSET Below :
          BitsOf(y) = within => Holds(low(y), within)
  <2> SUFFICES ASSUME NEW y \in WordRange, BitsOf(y) \in SUBSET Below
               PROVE  Holds(low(y), BitsOf(y))
      OBVIOUS
  <2>1. y \in Int
      BY Widths DEF WordRange
  <2>2. /\ low(y) \in WordRange
        /\ BitsOf(low(y)) = {i \in BitsOf(y) : i < Bits(size)}
      BY <1>1, <2>1, BitsOfResult
  <2> HIDE DEF low
  <2>3. QED
      BY <2>2 DEF Holds, Below
<1> HIDE DEF low
<1>6. /\ Bit(x, n) = (IF n \in positions THEN 1 ELSE 0)
      /\ set(x, n) \in WordRange /\ BitsOf(set(x, n)) = positions \cup {n}
      /\ clr(x, n) \in WordRange /\ BitsOf(clr(x, n)) = positions \ {n}
      /\ tgl(x, n) \in WordRange
      /\ BitsOf(tgl(x, n)) = IF n \in positions THEN positions \ {n}
                             ELSE positions \cup {n}
    BY <1>1, <1>2, BitOutcomes
<1>7. /\ positions \cup {n} \in SUBSET Below
      /\ positions \ {n} \in SUBSET Below
    BY <1>2
<1>8. /\ res("set", x, b) = low(set(x, n)) /\ res("clr", x, b) = low(clr(x, n))
      /\ res("tgl", x, b) = low(tgl(x, n))
      /\ \A op \in {"set", "clr", "tgl"} : rest(op, x, b) = Bit(x, n)
    BY <1>3, <1>4
<1>9. /\ Holds(low(set(x, n)), positions \cup {n})
      /\ Holds(low(clr(x, n)), positions \ {n})
      /\ Holds(low(tgl(x, n)), IF n \in positions THEN positions \ {n}
                               ELSE positions \cup {n})
    BY <1>5, <1>6, <1>7
<1>10. QED
    BY <1>2, <1>6, <1>8, <1>9 DEF n

(* The first operand has bits of the width only. *)
LEMMA OperandHolds ==
    ASSUME Operands
    PROVE  Holds(a, BitsOf(a)) /\ BitsOf(a) \in SUBSET Below
<1>1. size \in {1, 2, 4} /\ a \in Nat /\ a % Capacity(size) = a
  <2>1. Capacity(size) \in Nat \ {0}
      BY CapacityRange
  <2>2. QED
      BY <2>1, SmallMod DEF Operands
<1>2. /\ a \in WordRange
      /\ BitsOf(a) = {i \in BitsOf(a) : i < Bits(size)}
  <2>1. a \in Int
      BY <1>1
  <2>2. QED
      BY <1>1, <2>1, BitsOfResult
<1>3. QED
    BY <1>2 DEF Holds, Below, BitsOf

(* A power of two has a single bit. *)
LEMMA MaskHolds ==
    ASSUME NEW i \in Positions
    PROVE  Holds(Pow2[i], {i})
<1>1. 0 \in WordRange
    BY Widths DEF WordRange
<1>2. BitsOf(0) = {}
  <2>1. \A j \in Positions : 0 \in 0 .. Pow2[j] - 1
      BY PositionsAre
  <2>2. \A j \in Positions : Bit(0, j) = 0
      BY <2>1, BitOfSmaller
  <2>3. QED
      BY <2>2 DEF BitsOf
<1>3. 0 + Pow2[i] \in WordRange /\ BitsOf(0 + Pow2[i]) = BitsOf(0) \cup {i}
    BY <1>1, <1>2, AddBit
<1>4. 0 + Pow2[i] = Pow2[i]
    BY PositionsAre
<1>5. QED
    BY <1>2, <1>3, <1>4 DEF Holds

(* The logical operations on words of that width. *)
LEMMA LogicResults ==
    ASSUME Operands, NEW x, NEW y, NEW s, NEW t, Holds(x, s), Holds(y, t)
    PROVE  /\ Holds(res("or", x, y), (s \cup t) \cap Below)
           /\ Holds(res("and", x, y), s \cap t \cap Below)
           /\ Holds(res("xor", x, y), ((s \cup t) \ (s \cap t)) \cap Below)
           /\ Holds(res("not", x, y), (Positions \ s) \cap Below)
<1> DEFINE low(z) == z % Capacity(size)
<1>1. /\ x \in WordRange /\ BitsOf(x) = s /\ x \in Int
      /\ y \in WordRange /\ BitsOf(y) = t /\ y \in Int
    BY Widths DEF Holds, WordRange
<1>2. \A z \in WordRange : Holds(low(z), BitsOf(z) \cap Below)
  <2> SUFFICES ASSUME NEW z \in WordRange
               PROVE  Holds(low(z), BitsOf(z) \cap Below)
      OBVIOUS
  <2>1. z \in Int /\ size \in {1, 2, 4}
      BY Widths DEF WordRange, Operands
  <2>2. /\ low(z) \in WordRange
        /\ BitsOf(low(z)) = {i \in BitsOf(z) : i < Bits(size)}
      BY <2>1, BitsOfResult
  <2>3. {i \in BitsOf(z) : i < Bits(size)} = BitsOf(z) \cap Below
      BY DEF BitsOf, Below
  <2> HIDE DEF low
  <2>4. QED
      BY <2>2, <2>3 DEF Holds
<1>3. /\ res("or", x, y) = low(BitOr(x, y))
      /\ res("and", x, y) = low(BitAnd(x, y))
      /\ res("xor", x, y) = low(BitXor(x, y))
      /\ res("not", x, y) = low(BitNot(x))
    BY LogicOutcomes
<1> HIDE DEF low
<1>4. /\ BitAnd(x, y) \in WordRange /\ BitsOf(BitAnd(x, y)) = s \cap t
      /\ BitOr(x, y) \in WordRange /\ BitsOf(BitOr(x, y)) = s \cup t
      /\ BitXor(x, y) \in WordRange
      /\ BitsOf(BitXor(x, y)) = (s \cup t) \ (s \cap t)
    BY <1>1, LogicBits
<1>5. BitNot(x) \in WordRange /\ BitsOf(BitNot(x)) = Positions \ s
    BY <1>1, NotBits
<1>6. /\ Holds(low(BitOr(x, y)), (s \cup t) \cap Below)
      /\ Holds(low(BitAnd(x, y)), (s \cap t) \cap Below)
      /\ Holds(low(BitXor(x, y)), ((s \cup t) \ (s \cap t)) \cap Below)
      /\ Holds(low(BitNot(x)), (Positions \ s) \cap Below)
    BY <1>2, <1>4, <1>5
<1>7. QED
    BY <1>3, <1>6

(* Words that hold the same bits are equal. *)
LEMMA HoldSame ==
    ASSUME NEW x, NEW y, NEW s, NEW t, Holds(x, s), Holds(y, t), s = t
    PROVE  x = y
BY SameBits DEF Holds

(* The bit that set, clr and tgl leave in R restores the operand, and they *)
(* agree with or, and, xor on the mask of the bit, at every width. *)
THEOREM BitsAreRestored == Spec => []BitsRestore
<1>1. Operands => BitsRestore
  <2> SUFFICES ASSUME Operands
               PROVE  BitsRestore
      OBVIOUS
  <2> DEFINE n == bit_trunc(b, size)
             s == BitsOf(a)
             mask == Pow2[n]
             Restored(x, old) == IF old = 1 THEN res("set", x, b)
                                 ELSE res("clr", x, b)
  <2>1. Holds(a, s) /\ s \in SUBSET Below
      BY OperandHolds
  <2> HIDE DEF s
  <2>2. /\ n \in Below
        /\ Holds(res("set", a, b), s \cup {n})
        /\ Holds(res("clr", a, b), s \ {n})
        /\ Holds(res("tgl", a, b), IF n \in s THEN s \ {n} ELSE s \cup {n})
        /\ \A op \in {"set", "clr", "tgl"} :
              rest(op, a, b) = IF n \in s THEN 1 ELSE 0
      BY <2>1, BitResults
  <2>3. n \in Positions /\ Below \subseteq Positions
      BY <2>2 DEF Below
  <2>4. Holds(mask, {n})
      BY <2>3, MaskHolds
  <2> HIDE DEF n, mask
  <2>5. ASSUME NEW op \in {"set", "clr", "tgl"}
        PROVE  Restored(res(op, a, b), rest(op, a, b)) = a
    <3> DEFINE x == res(op, a, b)
    <3>1. PICK t \in SUBSET Below :
              Holds(x, t) /\ (t = s \cup {n} \/ t = s \ {n})
      <4>1. s \cup {n} \in SUBSET Below /\ s \ {n} \in SUBSET Below
          BY <2>1, <2>2
      <4>2. CASE op = "set"
          BY <2>2, <4>1, <4>2
      <4>3. CASE op = "clr"
          BY <2>2, <4>1, <4>3
      <4>4. CASE op = "tgl"
        <5>1. CASE n \in s
          <6>1. Holds(x, s \ {n})
              BY <2>2, <4>4, <5>1
          <6>2. QED
              BY <4>1, <6>1
        <5>2. CASE n \notin s
          <6>1. Holds(x, s \cup {n})
              BY <2>2, <4>4, <5>2
          <6>2. QED
              BY <4>1, <6>1
        <5>3. QED
            BY <5>1, <5>2
      <4>5. QED
          BY <4>2, <4>3, <4>4
    <3>2. rest(op, a, b) = IF n \in s THEN 1 ELSE 0
        BY <2>2
    <3> HIDE DEF x
    <3>3. /\ Holds(res("set", x, b), t \cup {n})
          /\ Holds(res("clr", x, b), t \ {n})
        BY <3>1, BitResults DEF n
    <3>4. CASE n \in s
      <4>1. t \cup {n} = s /\ rest(op, a, b) = 1
          BY <3>1, <3>2, <3>4
      <4>2. res("set", x, b) = a
          BY <2>1, <3>3, <4>1, HoldSame
      <4>3. QED
          BY <4>1, <4>2 DEF x
    <3>5. CASE n \notin s
      <4>1. t \ {n} = s /\ rest(op, a, b) # 1
          BY <3>1, <3>2, <3>5
      <4>2. res("clr", x, b) = a
          BY <2>1, <3>3, <4>1, HoldSame
      <4>3. QED
          BY <4>1, <4>2 DEF x
    <3>6. QED
        BY <3>4, <3>5
  <2>6. res("set", a, b) = res("or", a, mask)
    <3>1. Holds(res("or", a, mask), (s \cup {n}) \cap Below)
        BY <2>1, <2>4, LogicResults
    <3>2. (s \cup {n}) \cap Below = s \cup {n}
        BY <2>1, <2>2
    <3>3. QED
        BY <2>2, <3>1, <3>2, HoldSame
  <2>7. res("tgl", a, b) = res("xor", a, mask)
    <3>1. Holds(res("xor", a, mask), ((s \cup {n}) \ (s \cap {n})) \cap Below)
        BY <2>1, <2>4, LogicResults
    <3>2. ((s \cup {n}) \ (s \cap {n})) \cap Below
             = IF n \in s THEN s \ {n} ELSE s \cup {n}
        BY <2>1, <2>2
    <3>3. QED
        BY <2>2, <3>1, <3>2, HoldSame
  <2>8. res("clr", a, b) = res("and", a, res("not", mask, 0))
    <3> DEFINE other == res("not", mask, 0)
    <3>1. Holds(other, (Positions \ {n}) \cap Below)
      <4>1. Holds(0, BitsOf(0))
          BY Widths DEF Holds, WordRange
      <4>2. QED
          BY <2>4, <4>1, LogicResults
    <3> HIDE DEF other
    <3>2. Holds(res("and", a, other),
                s \cap ((Positions \ {n}) \cap Below) \cap Below)
        BY <2>1, <3>1, LogicResults
    <3>3. s \cap ((Positions \ {n}) \cap Below) \cap Below = s \ {n}
        BY <2>1, <2>3
    <3>4. res("clr", a, b) = res("and", a, other)
        BY <2>2, <3>2, <3>3, HoldSame
    <3>5. QED
        BY <3>4 DEF other
  <2>9. QED
      BY <2>5, <2>6, <2>7, <2>8 DEF BitsRestore, n, mask
<1>2. QED
    BY <1>1, OperandsStay, PTL

-----------------------------------------------------------------------------
(* Rotations. *)

(* A shift to the right moves every bit down by the count. *)
LEMMA RightBits ==
    ASSUME NEW x \in WordRange, NEW n \in Positions
    PROVE  /\ ShiftRight(x, n) \in Int
           /\ BitsOf(ShiftRight(x, n))
                = {i \in Positions : i + n \in BitsOf(x)}
<1> DEFINE y == ShiftRight(x, n)
<1>1. /\ n \in Nat /\ n < Width /\ Pow2[n] \in Nat \ {0} /\ Width \in Nat
      /\ Positions = 0 .. Width - 1
    BY PositionsAre
<1>2. x \in Nat /\ WORD \in Nat /\ x < WORD
    BY Widths DEF WordRange
<1>3. y \in Nat /\ y = x \div Pow2[n]
    BY <1>1, <1>2, DivMod DEF ShiftRight
<1>4. ASSUME NEW i \in Positions
      PROVE  Bit(y, i) = 1 <=> i + n \in BitsOf(x)
  <2> DEFINE j == i + n
  <2>1. i \in Nat /\ Pow2[i] \in Nat \ {0}
      BY PositionsAre
  <2>2. CASE j < Width
    <3>1. j \in Positions /\ n + i <= Width /\ n + i = j
        BY <1>1, <2>1, <2>2
    <3>2. Pow2[n + i] = Pow2[n] * Pow2[i]
        BY <1>1, <2>1, <3>1, PowerSum
    <3>3. x \div (Pow2[n] * Pow2[i]) = (x \div Pow2[n]) \div Pow2[i]
        BY <1>1, <1>2, <2>1, DivDiv
    <3> HIDE DEF j, y
    <3>4. x \div Pow2[j] = y \div Pow2[i]
        BY <1>3, <3>1, <3>2, <3>3
    <3>5. Bit(y, i) = Bit(x, j)
        BY <3>4 DEF Bit
    <3>6. QED
        BY <3>1, <3>5 DEF BitsOf, j
  <2>3. CASE ~(j < Width)
    <3>1. j \notin BitsOf(x)
        BY <1>1, <2>1, <2>3 DEF BitsOf
    <3>2. y \in 0 .. Pow2[i] - 1
      <4> DEFINE k == Width - n
      <4>1. /\ k \in Nat /\ n + k <= Width /\ n + k = Width /\ k <= i
            /\ k \in 0 .. Width /\ i <= Width
          BY <1>1, <2>1, <2>3
      <4> HIDE DEF k, j, y
      <4>2. WORD = Pow2[n] * Pow2[k]
          BY <1>1, <4>1, PowerSum, WordIsPower
      <4>3. Pow2[k] \in Nat \ {0} /\ Pow2[k] <= Pow2[i]
        <5>1. Pow2[k] \in Nat \ {0}
            BY <4>1, Powers
        <5>2. CASE k = i
            BY <2>1, <5>1, <5>2
        <5>3. CASE k < i
          <6>1. PICK q \in Nat \ {0} : Pow2[i] = Pow2[k] * (2 * q)
              BY <2>1, <4>1, <5>3, GreaterPower
          <6>2. \A u \in Nat, v \in Nat \ {0} : u <= u * (2 * v)
              OBVIOUS
          <6>3. QED
              BY <5>1, <6>1, <6>2
        <5>4. QED
            BY <2>1, <4>1, <5>2, <5>3
      <4>4. y < Pow2[k]
        <5> DEFINE p == Pow2[n]
                   h == Pow2[k]
        <5>1. /\ p \in Nat \ {0} /\ h \in Nat \ {0} /\ x < p * h
              /\ y \in Nat /\ x = p * y + (x % p) /\ x % p \in 0 .. p - 1
          <6>1. x = p * (x \div p) + (x % p)
              BY <1>1, <1>2, DivMod
          <6>2. x % p \in 0 .. p - 1
            <7>1. p \in Nat \ {0} /\ x \in Int
                BY <1>1, <1>2
            <7> HIDE DEF p
            <7>2. QED
                BY <7>1, ModRange
          <6>3. QED
              BY <1>1, <1>2, <1>3, <4>2, <4>3, <6>1, <6>2
        <5> HIDE DEF p, h
        <5>2. y >= h => p * y >= p * h
            BY <5>1
        <5>3. p * y \in Int /\ p * h \in Int /\ p * y <= x
            BY <5>1
        <5>4. ~(y >= h)
            BY <1>2, <5>1, <5>2, <5>3
        <5>5. QED
            BY <5>1, <5>4 DEF h
      <4>5. QED
          BY <1>3, <2>1, <4>3, <4>4
    <3> HIDE DEF j, y
    <3>3. Bit(y, i) = 0
        BY <3>2, BitOfSmaller
    <3>4. QED
        BY <3>1, <3>3 DEF j
  <2>4. QED
      BY <2>2, <2>3
<1>5. QED
    BY <1>3, <1>4 DEF BitsOf

(* A shift to the left moves every bit up, and drops those past the word. *)
LEMMA LeftBits ==
    ASSUME NEW x \in WordRange, NEW n \in Positions
    PROVE  /\ ShiftLeft(x, n) \in Int
           /\ BitsOf(ShiftLeft(x, n))
                = {i \in Positions : i >= n /\ i - n \in BitsOf(x)}
<1> DEFINE m == Width - n
           z == x % Pow2[m]
           y == ShiftLeft(x, n)
           p == Pow2[n]
<1>1. /\ n \in Nat /\ n < Width /\ p \in Nat \ {0} /\ Width \in Nat
      /\ Positions = 0 .. Width - 1
    BY PositionsAre
<1>2. m \in 0 .. Width /\ x \in Int
    BY <1>1, Widths DEF WordRange
<1>3. z \in Nat /\ BitsOf(z) = {i \in BitsOf(x) : i < m}
  <2> HIDE DEF m
  <2>1. z \in WordRange /\ BitsOf(z) = {i \in BitsOf(x) : i < m}
      BY <1>2, BitsOfLow
  <2>2. QED
      BY <2>1, Widths DEF WordRange
<1>4. y = z * p
    BY DEF ShiftLeft, Width
<1> HIDE DEF z, y, p
<1>5. y \in Nat /\ y = p * z
  <2>1. \A u, v \in Nat : u * v \in Nat /\ u * v = v * u
      OBVIOUS
  <2>2. QED
      BY <1>1, <1>3, <1>4, <2>1
<1>6. ASSUME NEW i \in Positions
      PROVE  Bit(y, i) = 1 <=> i >= n /\ i - n \in BitsOf(x)
  <2>1. i \in Nat /\ i < Width /\ i <= Width /\ Pow2[i] \in Nat \ {0}
      BY PositionsAre
  <2>2. CASE i >= n
    <3> DEFINE j == i - n
    <3>1. j \in Positions /\ j \in Nat /\ n + j <= Width /\ n + j = i /\ j < m
        BY <1>1, <2>1, <2>2
    <3> HIDE DEF j, m
    <3>2. Pow2[i] = p * Pow2[j] /\ Pow2[j] \in Nat \ {0}
        BY <1>1, <3>1, PowerSum, PositionsAre DEF p
    <3>3. y \div Pow2[i] = (y \div p) \div Pow2[j]
      <4> DEFINE h == Pow2[j]
      <4>1. h \in Nat \ {0} /\ Pow2[i] = p * h
          BY <3>2
      <4> HIDE DEF h
      <4>2. y \div (p * h) = (y \div p) \div h
          BY <1>1, <1>5, <4>1, DivDiv
      <4>3. QED
          BY <4>1, <4>2 DEF h
    <3>4. y \div p = z
      <4>1. 0 \in 0 .. p - 1 /\ z \in Int /\ y = 0 + p * z
          BY <1>1, <1>3, <1>5
      <4>2. QED
          BY <1>1, <4>1, DivUnique
    <3>5. Bit(y, i) = Bit(z, j)
        BY <3>3, <3>4 DEF Bit
    <3>6. j \in BitsOf(z) <=> j \in BitsOf(x)
        BY <1>3, <3>1
    <3>7. QED
        BY <2>2, <3>1, <3>5, <3>6 DEF BitsOf, j
  <2>3. CASE ~(i >= n)
    <3>1. i < n /\ n <= Width
        BY <1>1, <2>1, <2>3
    <3>2. PICK q \in Nat : p = Pow2[i] * (2 * q)
        BY <1>1, <2>1, <3>1, GreaterPower DEF p
    <3>3. q * z \in Int /\ y = 0 + Pow2[i] * (2 * (q * z))
      <4>1. \A u, v, r \in Int : (u * (2 * v)) * r = u * (2 * (v * r))
          OBVIOUS
      <4>2. q * z \in Int /\ Pow2[i] * (2 * (q * z)) \in Int
          BY <1>3, <2>1
      <4>3. QED
          BY <1>3, <1>5, <2>1, <3>2, <4>1, <4>2
    <3>4. Bit(y, i) = Bit(0, i)
      <4>1. 0 \in Int
          OBVIOUS
      <4>2. QED
          BY <3>3, <4>1, BitBelow
    <3>5. Bit(0, i) = 0
        BY <2>1, BitOfSmaller
    <3>6. QED
        BY <2>3, <3>4, <3>5
  <2>4. QED
      BY <2>2, <2>3
<1>7. QED
    BY <1>5, <1>6 DEF BitsOf, y

(* The position that comes to i when the low w bits are rotated to the     *)
(* right by n; the opposite count rotates to the left. *)
Rotated(i, n, w) == IF i + n < w THEN i + n ELSE i + n - w
Opposite(n, w) == IF n = 0 THEN 0 ELSE w - n

(* The opposite of a count is what is left of the width, both ways. *)
LEMMA OppositeCount ==
    ASSUME NEW s \in {1, 2, 4}, NEW n \in 0 .. Bits(s) - 1
    PROVE  /\ bit_trunc(n, s) = n
           /\ opposite(n, s) = Opposite(n, Bits(s))
           /\ opposite(n, s) \in 0 .. Bits(s) - 1
           /\ Opposite(opposite(n, s), Bits(s)) = n
<1> DEFINE w == Bits(s)
<1>1. w \in Nat \ {0} /\ n \in 0 .. w - 1
    BY CapacityIsPower, WidthType
<1>2. bit_trunc(n, s) = n % w /\ opposite(n, s) = (w - n) % w
    BY DEF bit_trunc, opposite
<1> HIDE DEF w
<1>3. n % w = n
    BY <1>1, SmallMod
<1>4. (w - n) % w = Opposite(n, w)
  <2>1. CASE n = 0
    <3>1. 0 \in 0 .. w - 1 /\ 1 \in Int /\ w = 0 + w * 1
        BY <1>1
    <3>2. w % w = 0
        BY <1>1, <3>1, LowPart
    <3>3. w - n = w
        BY <1>1, <2>1
    <3>4. QED
        BY <2>1, <3>2, <3>3 DEF Opposite
  <2>2. CASE n # 0
    <3> DEFINE m == w - n
    <3>1. m \in 0 .. w - 1
        BY <1>1, <2>2
    <3> HIDE DEF m
    <3>2. m % w = m
        BY <1>1, <3>1, SmallMod
    <3>3. QED
        BY <2>2, <3>2 DEF Opposite, m
  <2>3. QED
      BY <2>1, <2>2
<1>5. Opposite(n, w) \in 0 .. w - 1 /\ Opposite(Opposite(n, w), w) = n
    BY <1>1 DEF Opposite
<1>6. QED
    BY <1>2, <1>3, <1>4, <1>5 DEF w

(* Shifting in both directions and joining the results rotates, as long as *)
(* the word has no bits above the width. *)
LEMMA JoinedShifts ==
    ASSUME Operands, NEW x, NEW s, Holds(x, s), s \subseteq Below,
           NEW right \in Below, NEW left \in Below,
           right = Opposite(left, Bits(size))
    PROVE  Holds(BitOr(ShiftRight(x, right), ShiftLeft(x, left))
                   % Capacity(size),
                 {i \in Below : Rotated(i, right, Bits(size)) \in s})
<1> DEFINE w == Bits(size)
           u == ShiftRight(x, right)
           v == ShiftLeft(x, left)
           y == BitOr(u, v)
<1>1. /\ size \in {1, 2, 4} /\ w \in 1 .. Width /\ Width \in Nat
      /\ Positions = 0 .. Width - 1 /\ Below \subseteq Positions
    BY CapacityIsPower, PositionsAre DEF Operands, Below
<1>2. Below = {i \in Positions : i < w}
    BY DEF Below
<1>3. /\ x \in WordRange /\ BitsOf(x) = s
      /\ right \in Positions /\ left \in Positions
    BY <1>1 DEF Holds
<1>4. /\ u \in Int /\ BitsOf(u) = {i \in Positions : i + right \in s}
      /\ v \in Int
      /\ BitsOf(v) = {i \in Positions : i >= left /\ i - left \in s}
    BY <1>3, RightBits, LeftBits
<1> HIDE DEF u, v
<1>5. y \in WordRange /\ BitsOf(y) = BitsOf(u) \cup BitsOf(v)
    BY <1>4, LogicBits
<1> HIDE DEF y, w
<1>6. /\ y % Capacity(size) \in WordRange
      /\ BitsOf(y % Capacity(size)) = {i \in BitsOf(y) : i < w}
  <2>1. y \in Int
      BY <1>5, Widths DEF WordRange
  <2>2. QED
      BY <1>1, <2>1, BitsOfResult DEF w
<1>7. ASSUME NEW i \in Below
      PROVE  (i + right \in s \/ (i >= left /\ i - left \in s))
                <=> Rotated(i, right, w) \in s
  <2>1. /\ i \in Nat /\ i < w /\ left \in Nat /\ left < w /\ w \in Nat
        /\ right = IF left = 0 THEN 0 ELSE w - left
        /\ \A j \in s : j \in Nat /\ j < w
      BY <1>1, <1>2 DEF Opposite, w
  <2>2. CASE left = 0
    <3>1. /\ i + right = i /\ i - left = i /\ i >= left
          /\ Rotated(i, right, w) = i
        BY <2>1, <2>2 DEF Rotated
    <3>2. QED
        BY <3>1
  <2>3. CASE left # 0 /\ i >= left
    <3>1. /\ i + right = (i - left) + w /\ ~(i + right < w)
          /\ Rotated(i, right, w) = i - left
        BY <2>1, <2>3 DEF Rotated
    <3>2. i + right \notin s
        BY <2>1, <3>1
    <3>3. QED
        BY <2>3, <3>1, <3>2
  <2>4. CASE left # 0 /\ ~(i >= left)
    <3>1. Rotated(i, right, w) = i + right
        BY <2>1, <2>4 DEF Rotated
    <3>2. QED
        BY <2>4, <3>1
  <2>5. QED
      BY <2>2, <2>3, <2>4
<1>8. {i \in BitsOf(y) : i < w} = {i \in Below : Rotated(i, right, w) \in s}
  <2>1. BitsOf(y) = {i \in Positions : i + right \in s
                                       \/ (i >= left /\ i - left \in s)}
      BY <1>4, <1>5
  <2>2. {i \in BitsOf(y) : i < w}
           = {i \in Below : i + right \in s \/ (i >= left /\ i - left \in s)}
      BY <1>2, <2>1
  <2>3. QED
      BY <1>7, <2>2
<1>9. QED
    BY <1>6, <1>8 DEF Holds, y, u, v, w

(* The results of the rotations. *)
LEMMA RotationResults ==
    ASSUME Operands, NEW x, NEW s, Holds(x, s), s \subseteq Below,
           NEW y \in Int
    PROVE  LET n == bit_trunc(y, size)
               w == Bits(size)
           IN  /\ n \in 0 .. w - 1
               /\ Holds(res("ror", x, y),
                        {i \in Below : Rotated(i, n, w) \in s})
               /\ Holds(res("rol", x, y),
                        {i \in Below : Rotated(i, Opposite(n, w), w) \in s})
<1> DEFINE n == bit_trunc(y, size)
           w == Bits(size)
           m == opposite(n, size)
<1>1. size \in {1, 2, 4}
    BY DEF Operands
<1>2. n \in 0 .. w - 1 /\ w <= Width /\ Width \in Nat /\ w \in Nat
    BY <1>1, CountOf
<1> HIDE DEF n
<1>3. m = Opposite(n, w) /\ m \in 0 .. w - 1 /\ Opposite(m, w) = n
    BY <1>1, <1>2, OppositeCount
<1>4. n \in Below /\ m \in Below
  <2> HIDE DEF m
  <2>1. n \in Positions /\ m \in Positions /\ n < w /\ m < w
    <3> HIDE DEF w
    <3>1. QED
        BY <1>2, <1>3, PositionsAre
  <2>2. QED
      BY <2>1 DEF Below
<1>5. /\ alu("ror", x, y, size) = Only(ror(x, n, size))
      /\ alu("rol", x, y, size) = Only(rol(x, n, size))
    BY SizedAlu DEF sized, SizedOps, n
<1>6. \A op, z : alu(op, x, y, size) = Only(z) =>
          res(op, x, y) = z % Capacity(size)
  <2> SUFFICES ASSUME NEW op, NEW z, alu(op, x, y, size) = Only(z)
               PROVE  res(op, x, y) = z % Capacity(size)
      OBVIOUS
  <2> DEFINE o == [res |-> z, r |-> NoR]
  <2>1. alu(op, x, y, size) = {o} /\ o.res = z
      BY DEF Only
  <2> HIDE DEF o
  <2>2. QED
      BY <2>1, OneOutcome
<1> HIDE DEF m, w
<1>7. /\ res("ror", x, y)
           = BitOr(ShiftRight(x, n), ShiftLeft(x, m)) % Capacity(size)
      /\ res("rol", x, y)
           = BitOr(ShiftLeft(x, n), ShiftRight(x, m)) % Capacity(size)
    BY <1>5, <1>6 DEF ror, rol, m
<1>8. BitOr(ShiftLeft(x, n), ShiftRight(x, m))
        = BitOr(ShiftRight(x, m), ShiftLeft(x, n))
    BY DEF BitOr
<1>9. Holds(BitOr(ShiftRight(x, n), ShiftLeft(x, m)) % Capacity(size),
            {i \in Below : Rotated(i, n, w) \in s})
    BY <1>3, <1>4, JoinedShifts DEF w
<1>10. Holds(BitOr(ShiftRight(x, m), ShiftLeft(x, n)) % Capacity(size),
             {i \in Below : Rotated(i, m, w) \in s})
    BY <1>3, <1>4, JoinedShifts DEF w
<1>11. QED
    BY <1>2, <1>3, <1>7, <1>8, <1>9, <1>10 DEF n, w

(* Rotating a register of any width to the left undoes rotating it to the  *)
(* right, and is rotating by what is left of the width. *)
THEOREM RotationsAreUndone == Spec => []RotationsUndo
<1>1. Operands => RotationsUndo
  <2> SUFFICES ASSUME Operands
               PROVE  RotationsUndo
      OBVIOUS
  <2> DEFINE n == bit_trunc(b, size)
             w == Bits(size)
             s == BitsOf(a)
             x == res("ror", a, b)
             t == {i \in Below : Rotated(i, n, w) \in s}
             m == opposite(n, size)
  <2>1. Holds(a, s) /\ s \subseteq Below
      BY OperandHolds
  <2>2. b \in Int /\ size \in {1, 2, 4}
      BY Widths DEF Operands, WordRange
  <2> HIDE DEF s
  <2>3. n \in 0 .. w - 1 /\ Holds(x, t)
      BY <2>1, <2>2, RotationResults
  <2>4. /\ w \in Nat /\ Below = {i \in Positions : i < w}
        /\ Width \in Nat /\ w <= Width /\ Positions = 0 .. Width - 1
      BY <2>2, CapacityIsPower, PositionsAre DEF Below
  <2>5. res("rol", x, b) = a
    <3>1. t \subseteq Below
        OBVIOUS
    <3> DEFINE v == {i \in Below : Rotated(i, Opposite(n, w), w) \in t}
    <3> HIDE DEF x, t
    <3>2. Holds(res("rol", x, b), v)
        BY <2>2, <2>3, <3>1, RotationResults
    <3>3. ASSUME NEW i \in Below
          PROVE  Rotated(i, Opposite(n, w), w) \in t <=> i \in s
      <4> DEFINE j == Rotated(i, Opposite(n, w), w)
      <4> HIDE DEF n, w
      <4>1. i \in Nat /\ i < w
          BY <2>4
      <4>2. j \in Nat /\ j < w /\ Rotated(j, n, w) = i
          BY <2>3, <2>4, <4>1 DEF Rotated, Opposite
      <4>3. j \in Below
          BY <2>4, <4>2
      <4> HIDE DEF j
      <4>4. QED
          BY <4>2, <4>3 DEF j, t
    <3>4. v = s
        BY <2>1, <3>3
    <3>5. QED
        BY <2>1, <3>2, <3>4, HoldSame
  <2>6. res("ror", a, n) = res("rol", a, m)
    <3>1. /\ bit_trunc(n, size) = n /\ m \in 0 .. w - 1
          /\ Opposite(m, w) = n
        BY <2>2, <2>3, OppositeCount
    <3> HIDE DEF n, m
    <3>2. bit_trunc(m, size) = m /\ n \in Int /\ m \in Int
        BY <2>2, <2>3, <2>4, <3>1, OppositeCount
    <3>3. Holds(res("ror", a, n), {i \in Below : Rotated(i, n, w) \in s})
      <4>1. LET k == bit_trunc(n, size) IN
            Holds(res("ror", a, n), {i \in Below : Rotated(i, k, w) \in s})
          BY <2>1, <3>2, RotationResults
      <4> HIDE DEF w
      <4>2. QED
          BY <3>1, <4>1
    <3>4. Holds(res("rol", a, m),
                {i \in Below : Rotated(i, Opposite(m, w), w) \in s})
        BY <2>1, <3>2, RotationResults
    <3>5. QED
        BY <3>1, <3>3, <3>4, HoldSame
  <2>7. QED
      BY <2>5, <2>6 DEF RotationsUndo, opposite
<1>2. QED
    BY <1>1, OperandsStay, PTL
=============================================================================
