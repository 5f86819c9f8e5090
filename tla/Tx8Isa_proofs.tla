--------------------------- MODULE Tx8Isa_proofs ---------------------------
(***************************************************************************)
(* Lemmas about the words, the memory, the register file and the decoder:  *)
(* each of their operators stays within the range of its type, for every   *)
(* width of a byte and every size of the memory.                           *)
(***************************************************************************)
EXTENDS Programs, TLAPS, WellFoundedInduction

-----------------------------------------------------------------------------
(* Arithmetic. *)

(* A number of which the last digit in base m is d and the rest is x. *)
LEMMA AppendDigit ==
    ASSUME NEW m \in Nat \ {0}, NEW n \in Nat,
           NEW d \in 0 .. m - 1, NEW x \in 0 .. n - 1
    PROVE  d + m * x \in 0 .. m * n - 1
<1>1. m * x \in Nat /\ m * (n - 1) = m * n - m
    OBVIOUS
<1>2. m * x <= m * (n - 1)
    OBVIOUS
<1>3. QED
    BY <1>1, <1>2

(* The remainder of a division by a positive number. *)
LEMMA ModRange ==
    ASSUME NEW x \in Int, NEW c \in Nat \ {0}
    PROVE  x % c \in 0 .. c - 1
OBVIOUS

LEMMA DivMod ==
    ASSUME NEW x \in Nat, NEW c \in Nat \ {0}
    PROVE  /\ x \div c \in Nat
           /\ x = c * (x \div c) + (x % c)
OBVIOUS

(* Replacing the part of w below a divisor c of its range. *)
LEMMA ReplaceLow ==
    ASSUME NEW c \in Nat \ {0}, NEW k \in Nat,
           NEW w \in 0 .. c * k - 1, NEW v \in 0 .. c - 1
    PROVE  (w - (w % c)) + v \in 0 .. c * k - 1
<1> DEFINE q == w \div c
<1>1. q \in Nat /\ w = c * q + (w % c)
    BY DivMod
<1>2. w % c \in 0 .. c - 1
    BY ModRange
<1>3. q < k
  <2>1. SUFFICES ASSUME q >= k PROVE FALSE
      BY <1>1
  <2>2. c * q >= c * k
      BY <1>1, <2>1
  <2>3. QED
      BY <1>1, <1>2, <2>2
<1>4. (w - (w % c)) + v = v + c * q
    BY <1>1, <1>2
<1>5. QED
    BY <1>1, <1>3, <1>4, AppendDigit

(* Quotient and remainder are unique. *)
LEMMA DivUnique ==
    ASSUME NEW c \in Nat \ {0}, NEW q \in Int, NEW r \in 0 .. c - 1
    PROVE  (r + c * q) % c = r /\ (r + c * q) \div c = q
<1> DEFINE x == r + c * q
<1>1. x \in Int /\ c * q \in Int
    OBVIOUS
<1>2. x \div c \in Int /\ x % c \in 0 .. c - 1 /\ x = c * (x \div c) + (x % c)
    BY <1>1
<1>3. c * (q - (x \div c)) = (x % c) - r
    BY <1>1, <1>2
<1>4. q - (x \div c) = 0
  <2> DEFINE k == q - (x \div c)
  <2>1. k \in Int
      BY <1>2
  <2> HIDE DEF k, x
  <2>2. k >= 1 => c * k >= c
      BY <2>1
  <2>3. k <= -1 => c * k <= -c
      BY <2>1
  <2>4. c * k < c /\ c * k > -c
      BY <1>2, <1>3 DEF k
  <2>5. k = 0
      BY <2>1, <2>2, <2>3, <2>4
  <2>6. QED
      BY <2>5 DEF k
<1>5. QED
    BY <1>2, <1>3, <1>4

(* Dividing by a product is dividing twice. *)
LEMMA DivDiv ==
    ASSUME NEW x \in Nat, NEW a \in Nat \ {0}, NEW b \in Nat \ {0}
    PROVE  x \div (a * b) = (x \div a) \div b
<1> DEFINE y == x \div a
           z == y \div b
           r == (x % a) + a * (y % b)
<1>1. /\ y \in Nat /\ x = a * y + (x % a)
      /\ z \in Nat /\ y = b * z + (y % b)
    BY DivMod
<1>2. x % a \in 0 .. a - 1 /\ y % b \in 0 .. b - 1
    BY <1>1, ModRange
<1>3. r \in 0 .. a * b - 1 /\ a * b \in Nat \ {0}
    BY <1>2, AppendDigit
<1> HIDE DEF y, z
<1>4. x = r + (a * b) * z
  <2>1. \A s \in Nat : a * (b * z + s) = (a * b) * z + a * s
      BY <1>1
  <2>2. a * y = (a * b) * z + a * (y % b)
      BY <1>1, <1>2, <2>1
  <2>3. QED
      BY <1>1, <1>2, <2>2
<1> HIDE DEF r
<1>5. x \div (a * b) = z
  <2> DEFINE c == a * b
  <2>1. c \in Nat \ {0} /\ z \in Int /\ r \in 0 .. c - 1 /\ x = r + c * z
      BY <1>1, <1>3, <1>4
  <2> HIDE DEF c
  <2>2. x \div c = z
      BY <2>1, DivUnique
  <2>3. QED
      BY <2>2 DEF c
<1>6. QED
    BY <1>5 DEF y, z

(* A number below the divisor is its own remainder. *)
LEMMA SmallMod ==
    ASSUME NEW c \in Nat \ {0}, NEW x \in 0 .. c - 1
    PROVE  x % c = x
<1>1. x + c * 0 = x
    OBVIOUS
<1>2. QED
    BY <1>1, DivUnique

(* The part of a number below a divisor of the rest. *)
LEMMA LowPart ==
    ASSUME NEW c \in Nat \ {0}, NEW q \in Int, NEW r \in 0 .. c - 1,
           NEW x, x = r + c * q
    PROVE  x % c = r
BY DivUnique

(* Replacing the part of w below c replaces the remainder and keeps the    *)
(* quotient. *)
LEMMA LowReplaced ==
    ASSUME NEW c \in Nat \ {0}, NEW w \in Nat, NEW x \in 0 .. c - 1
    PROVE  /\ ((w - (w % c)) + x) % c = x
           /\ ((w - (w % c)) + x) \div c = w \div c
<1> DEFINE q == w \div c
<1>1. q \in Int /\ w = c * q + (w % c) /\ w % c \in Int
    BY DivMod, ModRange
<1> HIDE DEF q
<1>2. (w - (w % c)) + x = x + c * q
  <2>1. c * q \in Int
      BY <1>1
  <2>2. QED
      BY <1>1, <2>1
<1>3. (x + c * q) % c = x /\ (x + c * q) \div c = q
    BY <1>1, DivUnique
<1>4. QED
    BY <1>2, <1>3 DEF q

-----------------------------------------------------------------------------
(* Words. *)

LEMMA Widths ==
    /\ BYTE \in Nat \ {0} /\ SHORT \in Nat \ {0}
    /\ ADDRESS \in Nat \ {0} /\ WORD \in Nat \ {0}
    /\ BYTE <= SHORT /\ SHORT <= ADDRESS /\ ADDRESS <= WORD
<1>1. BYTE \in Nat /\ BYTE > 1
    BY ByteAssumption
<1>2. \A x \in Nat \ {0} : BYTE * x \in Nat \ {0} /\ x <= BYTE * x
    BY <1>1
<1> QED
    BY <1>1, <1>2 DEF SHORT, ADDRESS, WORD

LEMMA CapacityRange ==
    ASSUME NEW size
    PROVE  Capacity(size) \in Nat \ {0} /\ Capacity(size) <= WORD
BY Widths DEF Capacity

(* Every width divides the word. *)
LEMMA CapacityDivides ==
    ASSUME NEW size
    PROVE  \E k \in Nat : WORD = Capacity(size) * k
<1>1. /\ WORD = BYTE * ADDRESS
      /\ WORD = SHORT * SHORT
      /\ WORD = ADDRESS * BYTE
      /\ WORD = WORD * 1
      /\ WORD = 1 * WORD
    BY Widths DEF WORD, ADDRESS, SHORT
<1>2. QED
    BY <1>1, Widths DEF Capacity

LEMMA WordType ==
    ASSUME NEW x \in Int
    PROVE  Word(x) \in WordRange
BY ModRange, Widths DEF Word, WordRange

(* The low bytes of a number are a word. *)
LEMMA LowBytesType ==
    ASSUME NEW x \in Int, NEW size
    PROVE  /\ x % Capacity(size) \in WordRange
           /\ x % Capacity(size) \in 0 .. Capacity(size) - 1
<1> DEFINE c == Capacity(size)
<1>1. c \in Nat \ {0} /\ c <= WORD
    BY CapacityRange
<1> HIDE DEF c
<1>2. x % c \in 0 .. c - 1
    BY <1>1, ModRange
<1>3. x % c \in WordRange
    BY <1>1, <1>2, Widths DEF WordRange
<1>4. QED
    BY <1>2, <1>3 DEF c

LEMMA DigitType ==
    ASSUME NEW x \in WordRange, NEW i
    PROVE  Digit(x, i) \in ByteRange
<1> DEFINE q == x \div Capacity(i)
<1>1. q \in Int
    BY CapacityRange, DivMod DEF WordRange
<1> HIDE DEF q
<1>2. q % BYTE \in 0 .. BYTE - 1
    BY <1>1, ModRange, Widths
<1>3. QED
    BY <1>2 DEF Digit, ByteRange, q

LEMMA ComposeType ==
    ASSUME NEW d0 \in ByteRange, NEW d1 \in ByteRange,
           NEW d2 \in ByteRange, NEW d3 \in ByteRange
    PROVE  Compose(d0, d1, d2, d3) \in WordRange
<1> DEFINE x2 == d2 + BYTE * d3
           x1 == d1 + BYTE * x2
<1>1. x2 \in 0 .. SHORT - 1
    BY AppendDigit, Widths DEF ByteRange, SHORT
<1>2. x1 \in 0 .. ADDRESS - 1
    BY <1>1, AppendDigit, Widths DEF ByteRange, ADDRESS
<1>3. d0 + BYTE * x1 \in 0 .. WORD - 1
    BY <1>2, AppendDigit, Widths DEF ByteRange, WORD
<1>4. QED
    BY <1>3 DEF Compose, WordRange

LEMMA SignedType ==
    ASSUME NEW x \in Int, NEW size
    PROVE  Signed(x, size) \in Int
<1> DEFINE v == x % Capacity(size)
<1>1. v \in Int /\ Capacity(size) \in Int
    BY LowBytesType, CapacityRange, Widths DEF WordRange
<1> HIDE DEF v
<1>2. (IF 2 * v >= Capacity(size) THEN v - Capacity(size) ELSE v) \in Int
    BY <1>1
<1>3. QED
    BY <1>2 DEF Signed, v

LEMMA SignExtendType ==
    ASSUME NEW x \in Int, NEW size
    PROVE  SignExtend(x, size) \in WordRange
BY SignedType, WordType DEF SignExtend

(* A number is made of its four low bytes and the rest above them.         *)
LEMMA Digits ==
    ASSUME NEW v \in Nat
    PROVE  /\ \A i \in 0 .. 3 : Digit(v, i) \in ByteRange
           /\ v \div BYTE \in Nat /\ v \div SHORT \in Nat
           /\ v \div ADDRESS \in Nat /\ v \div WORD \in Nat
           /\ v = Digit(v, 0) + BYTE * (v \div BYTE)
           /\ v \div BYTE = Digit(v, 1) + BYTE * (v \div SHORT)
           /\ v \div SHORT = Digit(v, 2) + BYTE * (v \div ADDRESS)
           /\ v \div ADDRESS = Digit(v, 3) + BYTE * (v \div WORD)
<1>1. /\ BYTE \in Nat \ {0} /\ SHORT \in Nat \ {0} /\ ADDRESS \in Nat \ {0}
      /\ WORD \in Nat \ {0}
    BY Widths
<1>2. /\ v \div BYTE \in Nat /\ v \div SHORT \in Nat
      /\ v \div ADDRESS \in Nat /\ v \div WORD \in Nat
    BY <1>1, DivMod
<1>3. v \div SHORT = (v \div BYTE) \div BYTE
    BY <1>1, DivDiv DEF SHORT
<1>4. v \div ADDRESS = (v \div SHORT) \div BYTE
  <2>1. ADDRESS = SHORT * BYTE
      BY <1>1 DEF ADDRESS
  <2>2. v \div (SHORT * BYTE) = (v \div SHORT) \div BYTE
      BY <1>1, DivDiv
  <2>3. QED
      BY <2>1, <2>2
<1>5. v \div WORD = (v \div ADDRESS) \div BYTE
  <2>1. WORD = ADDRESS * BYTE
      BY <1>1 DEF WORD
  <2>2. v \div (ADDRESS * BYTE) = (v \div ADDRESS) \div BYTE
      BY <1>1, DivDiv
  <2>3. QED
      BY <2>1, <2>2
<1>6. /\ Digit(v, 0) = v % BYTE
      /\ Digit(v, 1) = (v \div BYTE) % BYTE
      /\ Digit(v, 2) = (v \div SHORT) % BYTE
      /\ Digit(v, 3) = (v \div ADDRESS) % BYTE
  <2>1. v \div 1 = v
      OBVIOUS
  <2>2. /\ Capacity(0) = 1 /\ Capacity(1) = BYTE
        /\ Capacity(2) = SHORT /\ Capacity(3) = ADDRESS
      BY DEF Capacity
  <2>3. QED
      BY <2>1, <2>2 DEF Digit
<1>7. \A x \in Nat : /\ x % BYTE \in ByteRange
                     /\ x = (x % BYTE) + BYTE * (x \div BYTE)
    BY <1>1, DivMod, ModRange DEF ByteRange
<1> HIDE DEF SHORT
<1>8. \A i \in 0 .. 3 : Digit(v, i) \in ByteRange
    BY <1>2, <1>6, <1>7
<1>9. QED
    BY <1>2, <1>3, <1>4, <1>5, <1>6, <1>7, <1>8

(* A word composed of bytes agrees with v in its size low bytes when the   *)
(* first size of them are those of v, whatever the other bytes are. *)
LEMMA ComposeLow ==
    ASSUME NEW v \in Nat, NEW size \in 1 .. 4,
           NEW d0 \in ByteRange, NEW d1 \in ByteRange,
           NEW d2 \in ByteRange, NEW d3 \in ByteRange,
           d0 = Digit(v, 0),
           size > 1 => d1 = Digit(v, 1),
           size > 2 => d2 = Digit(v, 2),
           size > 3 => d3 = Digit(v, 3)
    PROVE  Compose(d0, d1, d2, d3) % Capacity(size) = v % Capacity(size)
<1> DEFINE q1 == v \div BYTE
           q2 == v \div SHORT
           q3 == v \div ADDRESS
           q4 == v \div WORD
           x == Compose(d0, d1, d2, d3)
           r2 == d0 + BYTE * d1
           r3 == d0 + BYTE * (d1 + BYTE * d2)
<1>1. /\ BYTE \in Nat \ {0} /\ SHORT \in Nat \ {0}
      /\ ADDRESS \in Nat \ {0} /\ WORD \in Nat \ {0}
    BY Widths
<1>2. /\ q1 \in Int /\ q2 \in Int /\ q3 \in Int /\ q4 \in Int
      /\ v = Digit(v, 0) + BYTE * q1
      /\ q1 = Digit(v, 1) + BYTE * q2
      /\ q2 = Digit(v, 2) + BYTE * q3
      /\ q3 = Digit(v, 3) + BYTE * q4
    BY Digits
<1> HIDE DEF q1, q2, q3, q4
<1>3. /\ d0 \in 0 .. BYTE - 1 /\ d1 \in Nat /\ d2 \in Nat /\ d3 \in Nat
    BY DEF ByteRange
<1>4. r2 \in 0 .. SHORT - 1
    BY AppendDigit, Widths DEF ByteRange, SHORT
<1>5. r3 \in 0 .. ADDRESS - 1
  <2>1. d1 + BYTE * d2 \in 0 .. SHORT - 1
      BY AppendDigit, Widths DEF ByteRange, SHORT
  <2>2. QED
      BY <2>1, AppendDigit, Widths DEF ByteRange, ADDRESS
<1>6. x \in 0 .. WORD - 1
    BY ComposeType DEF WordRange
<1>7. \A y \in Int : /\ BYTE * (BYTE * y) = SHORT * y
                     /\ BYTE * (BYTE * (BYTE * y)) = ADDRESS * y
                     /\ BYTE * (BYTE * (BYTE * (BYTE * y))) = WORD * y
    BY <1>1 DEF SHORT, ADDRESS, WORD
<1>8. CASE size = 1
  <2>1. Capacity(size) = BYTE
      BY <1>8 DEF Capacity
  <2>2. x = d0 + BYTE * (d1 + BYTE * (d2 + BYTE * d3))
      BY DEF Compose
  <2>3. v = d0 + BYTE * q1
      BY <1>2
  <2> DEFINE y == d1 + BYTE * (d2 + BYTE * d3)
  <2>4. y \in Int
      BY <1>1, <1>3
  <2> HIDE DEF x, y
  <2>5. v % BYTE = d0
    <3>1. BYTE \in Nat \ {0} /\ q1 \in Int /\ d0 \in 0 .. BYTE - 1
        BY <1>1, <1>2, <1>3
    <3>2. (d0 + BYTE * q1) % BYTE = d0
        BY <3>1, DivUnique
    <3>3. QED
        BY <2>3, <3>2
  <2>6. x % BYTE = d0
    <3>1. (d0 + BYTE * y) % BYTE = d0
        BY <1>1, <1>3, <2>4, DivUnique
    <3>2. QED
        BY <2>2, <3>1 DEF y
  <2>7. QED
      BY <2>1, <2>5, <2>6 DEF x
<1>9. CASE size = 2
  <2>1. Capacity(size) = SHORT /\ d1 = Digit(v, 1)
      BY <1>9 DEF Capacity
  <2> DEFINE y == d2 + BYTE * d3
  <2>2. y \in Int
      BY <1>1, <1>3
  <2>3. x = r2 + SHORT * y
    <3>1. BYTE * (d1 + BYTE * y) = BYTE * d1 + BYTE * (BYTE * y)
        BY <1>1, <1>3, <2>2
    <3>2. x = d0 + BYTE * (d1 + BYTE * y)
        BY DEF Compose
    <3>3. BYTE * (BYTE * y) = SHORT * y /\ SHORT * y \in Int
        BY SMTT(30), <1>1, <1>7, <2>2
    <3>4. BYTE * d1 \in Int /\ d0 \in Int
        BY <1>1, <1>3
    <3> HIDE DEF x, y
    <3>5. QED
        BY <3>1, <3>2, <3>3, <3>4
  <2>4. v = r2 + SHORT * q2
    <3>1. BYTE * (d1 + BYTE * q2) = BYTE * d1 + BYTE * (BYTE * q2)
        BY <1>1, <1>2, <1>3
    <3>2. v = d0 + BYTE * (d1 + BYTE * q2)
        BY <1>2, <2>1
    <3>3. BYTE * (BYTE * q2) = SHORT * q2 /\ SHORT * q2 \in Int
      <4>1. q2 \in Int /\ SHORT \in Int
          BY <1>1, <1>2
      <4>2. QED
          BY <1>7, <4>1
    <3>4. BYTE * d1 \in Int /\ d0 \in Int
        BY <1>1, <1>3
    <3>5. QED
        BY <3>1, <3>2, <3>3, <3>4
  <2> HIDE DEF x, y, r2
  <2>5. v % SHORT = r2
    <3>1. SHORT \in Nat \ {0} /\ q2 \in Int
        BY <1>1, <1>2
    <3>2. QED
        BY <1>4, <2>4, <3>1, LowPart
  <2>6. x % SHORT = r2
      BY <1>1, <1>4, <2>2, <2>3, LowPart
  <2>7. QED
      BY <2>1, <2>5, <2>6 DEF x
<1>10. CASE size = 3
  <2>1. Capacity(size) = ADDRESS /\ d1 = Digit(v, 1) /\ d2 = Digit(v, 2)
      BY <1>10 DEF Capacity
  <2>2. \A y \in Int : d0 + BYTE * (d1 + BYTE * (d2 + BYTE * y))
                            = r3 + ADDRESS * y
    <3>1. \A y \in Int : BYTE * (d2 + BYTE * y) = BYTE * d2 + BYTE * (BYTE * y)
        BY <1>1, <1>3
    <3>2. \A y \in Int : BYTE * (d1 + (BYTE * d2 + BYTE * (BYTE * y)))
                           = BYTE * (d1 + BYTE * d2)
                               + BYTE * (BYTE * (BYTE * y))
        BY <1>1, <1>3
    <3>3. \A y \in Int : ADDRESS * y \in Int
        BY <1>1
    <3>4. BYTE * (d1 + BYTE * d2) \in Int
        BY <1>1, <1>3
    <3>5. QED
        BY <1>3, <1>7, <3>1, <3>2, <3>3, <3>4
  <2>3. x = r3 + ADDRESS * d3
      BY <1>3, <2>2 DEF Compose
  <2>4. v = r3 + ADDRESS * q3
    <3>1. v = d0 + BYTE * (d1 + BYTE * (d2 + BYTE * q3))
        BY <1>2, <2>1
    <3>2. QED
        BY <1>2, <2>2, <3>1
  <2> HIDE DEF x, r3
  <2>5. v % ADDRESS = r3
    <3>1. ADDRESS \in Nat \ {0} /\ q3 \in Int
        BY <1>1, <1>2
    <3>2. QED
        BY <1>5, <2>4, <3>1, LowPart
  <2>6. x % ADDRESS = r3
    <3>1. ADDRESS \in Nat \ {0} /\ d3 \in Int
        BY <1>1, <1>3
    <3>2. QED
        BY <1>5, <2>3, <3>1, LowPart
  <2>7. QED
      BY <2>1, <2>5, <2>6 DEF x
<1>11. CASE size = 4
  <2>1. /\ Capacity(size) = WORD
        /\ d1 = Digit(v, 1) /\ d2 = Digit(v, 2) /\ d3 = Digit(v, 3)
      BY <1>11 DEF Capacity
  <2>2. v = x + WORD * q4
    <3>1. v = d0 + BYTE * (d1 + BYTE * (d2 + BYTE * (d3 + BYTE * q4)))
        BY <1>2, <2>1
    <3>2. BYTE * (d3 + BYTE * q4) = BYTE * d3 + BYTE * (BYTE * q4)
        BY <1>1, <1>2, <1>3
    <3>3. BYTE * (d2 + (BYTE * d3 + BYTE * (BYTE * q4)))
             = BYTE * (d2 + BYTE * d3) + BYTE * (BYTE * (BYTE * q4))
        BY <1>1, <1>2, <1>3
    <3>4. BYTE * (d1 + (BYTE * (d2 + BYTE * d3) + BYTE * (BYTE * (BYTE * q4))))
             = BYTE * (d1 + BYTE * (d2 + BYTE * d3))
                 + BYTE * (BYTE * (BYTE * (BYTE * q4)))
        BY <1>1, <1>2, <1>3
    <3>5. WORD * q4 \in Int /\ BYTE * (d1 + BYTE * (d2 + BYTE * d3)) \in Int
        BY <1>1, <1>2, <1>3
    <3>6. QED
        BY <1>2, <1>3, <1>7, <3>1, <3>2, <3>3, <3>4, <3>5 DEF Compose
  <2>3. x = x + WORD * 0
      BY <1>1, <1>6
  <2> HIDE DEF x
  <2>4. v % WORD = x
    <3>1. WORD \in Nat \ {0} /\ q4 \in Int
        BY <1>1, <1>2
    <3>2. QED
        BY <1>6, <2>2, <3>1, LowPart
  <2>5. x % WORD = x
      BY <1>1, <1>6, <2>3, LowPart
  <2>6. QED
      BY <2>1, <2>4, <2>5 DEF x
<1>12. QED
    BY <1>8, <1>9, <1>10, <1>11

-----------------------------------------------------------------------------
(* Residues and signed numbers. *)

(* Division with remainder, of any integer. *)
LEMMA IntDivision ==
    ASSUME NEW x \in Int, NEW c \in Nat \ {0}
    PROVE  /\ x \div c \in Int /\ x % c \in 0 .. c - 1
           /\ x = (x % c) + c * (x \div c)
OBVIOUS

(* Numbers that differ by a multiple of c have the same remainder. *)
LEMMA Congruent ==
    ASSUME NEW c \in Nat \ {0}, NEW x \in Int, NEW k \in Int,
           NEW y, y = x + c * k
    PROVE  y % c = x % c
<1> DEFINE r == x % c
           q == x \div c
<1>1. r \in 0 .. c - 1 /\ q \in Int /\ x = r + c * q
    BY IntDivision
<1> HIDE DEF r, q
<1>2. y = r + c * (q + k)
    BY <1>1
<1>3. q + k \in Int
    BY <1>1
<1>4. y % c = r
    BY <1>1, <1>2, <1>3, LowPart
<1>5. QED
    BY <1>4 DEF r

(* Two numbers in a range of length c with the same remainder are equal. *)
LEMMA SameResidue ==
    ASSUME NEW c \in Nat \ {0}, NEW x \in Int, NEW y \in Int, NEW k \in Int,
           y = x + c * k, y - x < c, x - y < c
    PROVE  x = y
<1>1. k >= 1 => c * k >= c
    OBVIOUS
<1>2. k <= -1 => c * k <= -c
    OBVIOUS
<1>3. k = 0
    BY <1>1, <1>2
<1>4. QED
    BY <1>3

(* Reading as signed. *)
LEMMA SignedRange ==
    ASSUME NEW x \in Int, NEW n
    PROVE  LET c == Capacity(n)
               s == Signed(x, n)
           IN  /\ s \in Int
               /\ -c <= 2 * s /\ 2 * s < c
               /\ \E k \in Int : s = x + c * k
<1> DEFINE c == Capacity(n)
           v == x % c
           q == x \div c
<1>1. c \in Nat \ {0}
    BY CapacityRange
<1> HIDE DEF c
<1>2. v \in 0 .. c - 1 /\ q \in Int /\ x = v + c * q
    BY <1>1, IntDivision
<1>3. Signed(x, n) = IF 2 * v >= c THEN v - c ELSE v
    BY DEF Signed, c
<1> HIDE DEF v, q
<1>4. v = x + c * (-q) /\ v - c = x + c * (-q - 1)
    BY <1>1, <1>2
<1>5. -q \in Int /\ -q - 1 \in Int
    BY <1>2
<1>6. CASE 2 * v >= c
    BY <1>1, <1>2, <1>3, <1>4, <1>5, <1>6 DEF c
<1>7. CASE 2 * v < c
    BY <1>1, <1>2, <1>3, <1>4, <1>5, <1>7 DEF c
<1>8. QED
    BY <1>1, <1>2, <1>6, <1>7

(* A number in the signed range is what any number that agrees with it is  *)
(* read as. *)
LEMMA SignedIs ==
    ASSUME NEW n, NEW x \in Int, NEW s \in Int, NEW k \in Int,
           x = s + Capacity(n) * k,
           -Capacity(n) <= 2 * s, 2 * s < Capacity(n)
    PROVE  Signed(x, n) = s
<1> DEFINE c == Capacity(n)
           t == Signed(x, n)
<1>1. c \in Nat \ {0}
    BY CapacityRange
<1>2. t \in Int /\ -c <= 2 * t /\ 2 * t < c
    BY SignedRange
<1>3. PICK j \in Int : t = x + c * j
    BY SignedRange
<1>4. x = s + c * k /\ -c <= 2 * s /\ 2 * s < c
    OBVIOUS
<1> HIDE DEF c, t
<1>5. t = s + c * (k + j) /\ k + j \in Int
    BY <1>1, <1>3, <1>4
<1>6. t - s < c /\ s - t < c
    BY <1>1, <1>2, <1>4
<1>7. s = t
    BY <1>1, <1>2, <1>5, <1>6, SameResidue
<1>8. QED
    BY <1>7 DEF t

(* A word that was sign extended from n bytes agrees with the number in    *)
(* its low bytes. *)
LEMMA SignExtended ==
    ASSUME NEW x \in Int, NEW n
    PROVE  \E k \in Int : SignExtend(x, n) = x + Capacity(n) * k
<1> DEFINE c == Capacity(n)
           s == Signed(x, n)
<1>1. c \in Nat \ {0} /\ s \in Int
    BY CapacityRange, SignedRange
<1>2. PICK j \in Int : s = x + c * j
    BY SignedRange
<1>3. PICK m \in Nat : WORD = c * m
    BY CapacityDivides
<1> HIDE DEF c, s
<1> DEFINE q == s \div WORD
<1>4. q \in Int /\ s = (s % WORD) + WORD * q /\ s % WORD \in Int
    BY <1>1, IntDivision, Widths
<1> HIDE DEF q
<1>5. WORD * q = c * (m * q) /\ m * q \in Int
    BY <1>1, <1>3, <1>4
<1>6. s % WORD = x + c * (j - m * q)
  <2> DEFINE mq == m * q
  <2>1. mq \in Int /\ WORD * q = c * mq
      BY <1>5
  <2> HIDE DEF mq
  <2>2. s % WORD = x + c * j - c * mq
      BY <1>2, <1>4, <2>1, <1>1
  <2>3. s % WORD = x + c * (j - mq)
      BY <1>1, <2>1, <2>2
  <2>4. QED
      BY <2>3 DEF mq
<1>7. j - m * q \in Int
    BY <1>5
<1>8. SignExtend(x, n) = s % WORD
    BY DEF SignExtend, Word, s
<1>9. QED
    BY <1>6, <1>7, <1>8 DEF c

-----------------------------------------------------------------------------
(* The memory. *)

(* An access stays within the cells: it begins at MEM_SIZE at the latest   *)
(* and has at most four bytes. *)
LEMMA AccessRange ==
    ASSUME NEW location \in Nat, NEW size \in 0 .. 4
    PROVE  /\ Masked(location) \in 0 .. MEM_SIZE
           /\ Clipped(location, size) \in 0 .. 4
<1>1. Masked(location) \in 0 .. MEM_SIZE
  <2>1. MEM_SIZE + 1 \in Nat \ {0} /\ (MEM_SIZE + 1) - 1 = MEM_SIZE
      BY MemAssumption
  <2>2. location % (MEM_SIZE + 1) \in 0 .. (MEM_SIZE + 1) - 1
      BY <2>1, ModRange
  <2>3. QED
      BY <2>1, <2>2 DEF Masked
<1>2. Word(MEM_SIZE - location) \in Nat
    BY WordType, MemAssumption DEF WordRange
<1>3. QED
    BY <1>1, <1>2 DEF Clipped

(* A read of the memory yields a word. *)
LEMMA MemReadType ==
    ASSUME NEW mem \in Memory, NEW location \in Nat, NEW size \in 0 .. 4
    PROVE  mem_read(mem, location, size) \in WordRange
<1> DEFINE base == Masked(location)
           n == Clipped(location, size)
           At(i) == IF i < n THEN mem[base + i] ELSE 0
<1>1. base \in 0 .. MEM_SIZE /\ n \in 0 .. 4
    BY AccessRange
<1>2. \A i \in 0 .. 3 : At(i) \in ByteRange
  <2>1. 0 \in ByteRange
      BY Widths DEF ByteRange
  <2>2. \A i \in 0 .. 3 : base + i \in Cells
      BY <1>1, MemAssumption DEF Cells
  <2>3. QED
      BY <2>1, <2>2 DEF Memory
<1>3. Compose(At(0), At(1), At(2), At(3)) \in WordRange
  <2>1. /\ At(0) \in ByteRange /\ At(1) \in ByteRange
        /\ At(2) \in ByteRange /\ At(3) \in ByteRange
      BY <1>2
  <2> HIDE DEF At
  <2>2. QED
      BY <2>1, ComposeType
<1>4. QED
    BY <1>3 DEF mem_read

(* A write to the memory leaves a memory. *)
LEMMA MemWriteType ==
    ASSUME NEW mem \in Memory, NEW location \in Nat, NEW size \in 0 .. 4,
           NEW v \in WordRange
    PROVE  mem_write(mem, location, v, size) \in Memory
<1>1. \A i : Digit(v, i) \in ByteRange
    BY DigitType
<1>2. QED
    BY <1>1 DEF mem_write, Memory

(* An access that ends in the memory is neither masked nor clipped.        *)
LEMMA InsideAccess ==
    ASSUME NEW location \in Nat, NEW size \in 0 .. 4,
           location + size <= MEM_SIZE
    PROVE  /\ Masked(location) = location
           /\ Clipped(location, size) = size
           /\ \A n \in size .. 4 : /\ Clipped(location, n) \in size .. 4
                                   /\ Clipped(location, n) <= n
<1>1. MEM_SIZE \in Nat /\ MEM_SIZE < WORD /\ WORD \in Nat \ {0}
    BY MemAssumption, Widths
<1>2. Masked(location) = location
  <2> DEFINE c == MEM_SIZE + 1
  <2>1. c \in Nat \ {0} /\ location \in 0 .. c - 1
      BY <1>1
  <2> HIDE DEF c
  <2>2. location % c = location
      BY <2>1, SmallMod
  <2>3. QED
      BY <2>2 DEF Masked, c
<1>3. Word(MEM_SIZE - location) = MEM_SIZE - location
  <2> DEFINE left == MEM_SIZE - location
  <2>1. left \in 0 .. WORD - 1
      BY <1>1
  <2> HIDE DEF left
  <2>2. left % WORD = left
      BY <1>1, <2>1, SmallMod
  <2>3. QED
      BY <2>2 DEF Word, left
<1>4. QED
    BY <1>1, <1>2, <1>3 DEF Clipped

(* A read of n bytes at a place where the size low bytes of v lie agrees   *)
(* with v in these, whatever follows them and even where the read is cut   *)
(* at the end of the memory: a parameter is decoded by a read of four      *)
(* bytes. *)
LEMMA ReadBytes ==
    ASSUME NEW m \in Memory, NEW at \in Nat, NEW v \in Nat,
           NEW size \in 1 .. 4, NEW n \in size .. 4,
           at + size <= MEM_SIZE,
           \A j \in 0 .. size - 1 : m[at + j] = Digit(v, j)
    PROVE  mem_read(m, at, n) % Capacity(size) = v % Capacity(size)
<1> DEFINE k == Clipped(at, n)
           At(i) == IF i < k THEN m[at + i] ELSE 0
<1>1. Masked(at) = at /\ k \in size .. 4
    BY InsideAccess
<1>2. mem_read(m, at, n) = Compose(At(0), At(1), At(2), At(3))
    BY <1>1 DEF mem_read
<1>3. \A i \in 0 .. 3 : At(i) \in ByteRange
  <2>1. \A i \in 0 .. 3 : at + i \in Cells
      BY MemAssumption DEF Cells
  <2>2. 0 \in ByteRange
      BY Widths DEF ByteRange
  <2>3. QED
      BY <2>1, <2>2 DEF Memory
<1>4. \A j \in 0 .. size - 1 : At(j) = Digit(v, j)
    BY <1>1
<1> HIDE DEF At
<1>5. Compose(At(0), At(1), At(2), At(3)) % Capacity(size) = v % Capacity(size)
  <2>1. /\ At(0) \in ByteRange /\ At(1) \in ByteRange
        /\ At(2) \in ByteRange /\ At(3) \in ByteRange
        /\ At(0) = Digit(v, 0)
        /\ size > 1 => At(1) = Digit(v, 1)
        /\ size > 2 => At(2) = Digit(v, 2)
        /\ size > 3 => At(3) = Digit(v, 3)
      BY <1>3, <1>4
  <2>2. QED
      BY <2>1, ComposeLow
<1>6. QED
    BY <1>2, <1>5

(* A read of size bytes yields a number of that size. *)
LEMMA ReadRange ==
    ASSUME NEW m \in Memory, NEW at \in Nat, NEW size \in 1 .. 4,
           at + size <= MEM_SIZE
    PROVE  mem_read(m, at, size) \in 0 .. Capacity(size) - 1
<1>1. /\ Masked(at) = at /\ Clipped(at, size) = size
    BY InsideAccess
<1> DEFINE At(i) == IF i < size THEN m[at + i] ELSE 0
<1>2. mem_read(m, at, size) = Compose(At(0), At(1), At(2), At(3))
    BY <1>1 DEF mem_read
<1>3. \A i \in 0 .. 3 : At(i) \in ByteRange
  <2>1. \A i \in 0 .. 3 : at + i \in Cells
      BY MemAssumption DEF Cells
  <2>2. 0 \in ByteRange
      BY Widths DEF ByteRange
  <2>3. QED
      BY <2>1, <2>2 DEF Memory
<1>4. \A i \in size .. 3 : At(i) = 0
    OBVIOUS
<1> HIDE DEF At
<1> DEFINE x2 == At(2) + BYTE * At(3)
           x1 == At(1) + BYTE * x2
           x0 == At(0) + BYTE * x1
<1>5. x0 = Compose(At(0), At(1), At(2), At(3))
    BY DEF Compose
<1>6. BYTE * 0 = 0 /\ BYTE \in Nat \ {0}
    BY Widths
<1>7. CASE size = 1
  <2>1. At(1) = 0 /\ At(2) = 0 /\ At(3) = 0
      BY <1>4, <1>7
  <2>2. x0 = At(0)
      BY <1>3, <1>6, <2>1 DEF ByteRange
  <2>3. QED
      BY <1>2, <1>3, <1>5, <1>7, <2>2 DEF Capacity, ByteRange
<1>8. CASE size = 2
  <2>1. At(2) = 0 /\ At(3) = 0
      BY <1>4, <1>8
  <2>2. x1 = At(1)
      BY <1>3, <1>6, <2>1 DEF ByteRange
  <2>3. At(0) + BYTE * At(1) \in 0 .. SHORT - 1
    <3>1. At(0) \in 0 .. BYTE - 1 /\ At(1) \in 0 .. BYTE - 1
        BY <1>3 DEF ByteRange
    <3>2. QED
        BY <1>6, <3>1, AppendDigit DEF SHORT
  <2>4. QED
      BY <1>2, <1>5, <1>8, <2>2, <2>3 DEF Capacity
<1>9. CASE size = 3
  <2>1. At(3) = 0
      BY <1>4, <1>9
  <2>2. x2 = At(2)
      BY <1>3, <1>6, <2>1 DEF ByteRange
  <2>3. At(1) + BYTE * At(2) \in 0 .. SHORT - 1
    <3>1. At(1) \in 0 .. BYTE - 1 /\ At(2) \in 0 .. BYTE - 1
        BY <1>3 DEF ByteRange
    <3>2. QED
        BY <1>6, <3>1, AppendDigit DEF SHORT
  <2>4. At(0) + BYTE * (At(1) + BYTE * At(2)) \in 0 .. ADDRESS - 1
    <3>1. At(0) \in 0 .. BYTE - 1 /\ SHORT \in Nat
        BY <1>3, Widths DEF ByteRange
    <3>2. QED
        BY <1>6, <2>3, <3>1, AppendDigit DEF ADDRESS
  <2>5. QED
      BY <1>2, <1>5, <1>9, <2>2, <2>4 DEF Capacity
<1>10. CASE size = 4
  <2>1. Compose(At(0), At(1), At(2), At(3)) \in WordRange
    <3>1. /\ At(0) \in ByteRange /\ At(1) \in ByteRange
          /\ At(2) \in ByteRange /\ At(3) \in ByteRange
        BY <1>3
    <3>2. QED
        BY <3>1, ComposeType
  <2>2. QED
      BY <1>2, <1>10, <2>1 DEF Capacity, WordRange
<1>11. QED
    BY <1>7, <1>8, <1>9, <1>10

(* CPU::mem_read returns the low bytes of what CPU::mem_write stored at    *)
(* the same place with the same size: a pop returns what was pushed, a     *)
(* load what was stored, at every address where both fit in the memory. *)
THEOREM ReadAfterWrite ==
    ASSUME NEW m \in Memory, NEW at \in Nat, NEW v \in WordRange,
           NEW size \in 1 .. 4, at + size <= MEM_SIZE
    PROVE  mem_read(mem_write(m, at, v, size), at, size) = v % Capacity(size)
<1> DEFINE m2 == mem_write(m, at, v, size)
<1>1. m2 \in Memory /\ v \in Nat
  <2>1. size \in 0 .. 4
      OBVIOUS
  <2>2. m2 \in Memory
      BY <2>1, MemWriteType
  <2>3. QED
      BY <2>2 DEF WordRange
<1>2. /\ Masked(at) = at /\ Clipped(at, size) = size
    BY InsideAccess
<1>3. \A j \in 0 .. size - 1 : m2[at + j] = Digit(v, j)
  <2>1. \A j \in 0 .. size - 1 : at + j \in Cells /\ (at + j) - at = j
      BY MemAssumption DEF Cells
  <2>2. QED
      BY <1>2, <2>1 DEF mem_write
<1> HIDE DEF m2
<1>4. mem_read(m2, at, size) % Capacity(size) = v % Capacity(size)
    BY <1>1, <1>3, ReadBytes
<1>5. mem_read(m2, at, size) % Capacity(size) = mem_read(m2, at, size)
  <2> DEFINE x == mem_read(m2, at, size)
             c == Capacity(size)
  <2>1. x \in 0 .. c - 1 /\ c \in Nat \ {0}
      BY <1>1, ReadRange, CapacityRange
  <2> HIDE DEF x, c
  <2>2. x % c = x
      BY <2>1, SmallMod
  <2>3. QED
      BY <2>2 DEF x, c
<1>6. QED
    BY <1>4, <1>5 DEF m2

(* A write changes at most size bytes from the masked address on.          *)
LEMMA WriteFootprint ==
    ASSUME NEW m \in Memory, NEW at \in Nat, NEW v, NEW size \in 0 .. 4,
           NEW c \in Cells, mem_write(m, at, v, size)[c] # m[c]
    PROVE  c \in Masked(at) .. Masked(at) + size - 1
<1>1. /\ Masked(at) \in Nat
      /\ Clipped(at, size) \in Nat /\ Clipped(at, size) <= size
  <2>1. Clipped(at, size) <= size
    <3>1. Word(MEM_SIZE - at) \in Int
        BY WordType, MemAssumption DEF WordRange
    <3>2. QED
        BY <3>1 DEF Clipped
  <2>2. QED
      BY <2>1, AccessRange
<1>2. c >= Masked(at) /\ c - Masked(at) < Clipped(at, size)
    BY DEF mem_write
<1>3. QED
    BY <1>1, <1>2, MemAssumption DEF Cells

(* CPU::mem_write does not disturb what CPU::mem_read returns from any     *)
(* other place: accesses that do not overlap are independent, so that the  *)
(* stack, the program and the data keep apart as long as their addresses   *)
(* do. *)
THEOREM ReadElsewhere ==
    ASSUME NEW m \in Memory, NEW v \in WordRange,
           NEW at \in Nat, NEW size \in 0 .. 4, at + size <= MEM_SIZE,
           NEW other \in Nat, NEW n \in 0 .. 4, other + n <= MEM_SIZE,
           at + size <= other \/ other + n <= at
    PROVE  mem_read(mem_write(m, at, v, size), other, n)
               = mem_read(m, other, n)
<1> DEFINE m2 == mem_write(m, at, v, size)
<1>1. /\ Masked(at) = at
      /\ Masked(other) = other /\ Clipped(other, n) = n
    BY InsideAccess
<1>2. \A i \in 0 .. n - 1 : m2[other + i] = m[other + i]
  <2>1. \A i \in 0 .. n - 1 : /\ other + i \in Cells
                              /\ other + i \notin at .. at + size - 1
      BY MemAssumption DEF Cells
  <2>2. QED
      BY <1>1, <2>1, WriteFootprint
<1> DEFINE At(mm, i) == IF i < n THEN mm[other + i] ELSE 0
<1>3. \A mm : mem_read(mm, other, n)
                 = Compose(At(mm, 0), At(mm, 1), At(mm, 2), At(mm, 3))
    BY <1>1 DEF mem_read
<1>4. \A i \in 0 .. 3 : At(m2, i) = At(m, i)
    BY <1>2
<1> HIDE DEF At, m2
<1>5. mem_read(m2, other, n) = mem_read(m, other, n)
  <2>1. /\ At(m2, 0) = At(m, 0) /\ At(m2, 1) = At(m, 1)
        /\ At(m2, 2) = At(m, 2) /\ At(m2, 3) = At(m, 3)
      BY <1>4
  <2>2. QED
      BY <1>3, <2>1
<1>6. QED
    BY <1>5 DEF m2

-----------------------------------------------------------------------------
(* Registers. *)

LEMMA RegisterSize ==
    ASSUME NEW which
    PROVE  register_size(which) \in {1, 2, 4}
BY DEF register_size

(* A register number that is no error names a word of the register file. *)
LEMMA RegisterOfFile ==
    ASSUME NEW which \in Nat, ~RegError(which)
    PROVE  RegId(which) \in 0 .. REGISTER_COUNT
BY ModRange DEF RegError, RegId, REGISTER_COUNT

LEMMA RegReadType ==
    ASSUME NEW rg \in RegisterFile, NEW which \in Nat
    PROVE  reg_read(rg, which) \in WordRange
<1>1. CASE RegError(which)
    BY <1>1, Widths DEF reg_read, WordRange
<1>2. CASE ~RegError(which)
  <2>1. rg[RegId(which)] \in WordRange
      BY <1>2, RegisterOfFile DEF RegisterFile
  <2>2. rg[RegId(which)] % Capacity(register_size(which)) \in WordRange
      BY <2>1, LowBytesType DEF WordRange
  <2>3. QED
      BY <1>2, <2>2 DEF reg_read
<1>3. QED
    BY <1>1, <1>2

LEMMA RegReadSignExtendedType ==
    ASSUME NEW rg \in RegisterFile, NEW which \in Nat
    PROVE  reg_read_sign_extended(rg, which) \in WordRange
<1>1. reg_read(rg, which) \in WordRange /\ reg_read(rg, which) \in Int
    BY RegReadType DEF WordRange
<1>2. SignExtend(reg_read(rg, which), register_size(which)) \in WordRange
    BY <1>1, SignExtendType
<1>3. QED
    BY <1>1, <1>2 DEF reg_read_sign_extended

(* A write to a register leaves a register file, whatever the value. *)
LEMMA RegWriteType ==
    ASSUME NEW rg \in RegisterFile, NEW which \in Nat, NEW v \in Int
    PROVE  reg_write(rg, which, v) \in RegisterFile
<1> DEFINE id == RegId(which)
           c == Capacity(register_size(which))
           w == (rg[id] - (rg[id] % c)) + (v % c)
<1>1. CASE RegError(which)
    BY <1>1 DEF reg_write
<1>2. CASE ~RegError(which)
  <2>1. id \in 0 .. REGISTER_COUNT /\ rg[id] \in WordRange
      BY <1>2, RegisterOfFile DEF RegisterFile
  <2>2. PICK k \in Nat : WORD = c * k
      BY CapacityDivides
  <2>3. c \in Nat \ {0} /\ v % c \in 0 .. c - 1
      BY LowBytesType, CapacityRange
  <2>4. w \in WordRange
    <3> HIDE DEF c
    <3>1. rg[id] \in 0 .. c * k - 1
        BY <2>1, <2>2 DEF WordRange
    <3>2. w \in 0 .. c * k - 1
        BY <2>2, <2>3, <3>1, ReplaceLow
    <3>3. QED
        BY <2>2, <3>2 DEF WordRange
  <2>5. [rg EXCEPT ![id] = w] \in RegisterFile
    <3> HIDE DEF w, id
    <3>1. QED
        BY <2>1, <2>4 DEF RegisterFile
  <2>6. QED
      BY <1>2, <2>5 DEF reg_write
<1>3. QED
    BY <1>1, <1>2

(* A write to a register replaces the low bytes its number stands for,     *)
(* keeps the upper ones and every other register, and changes nothing at   *)
(* all when the number is in error. *)
LEMMA RegWriteEffect ==
    ASSUME NEW rg \in RegisterFile, NEW which \in Nat, NEW v \in Int
    PROVE  LET after == reg_write(rg, which, v)
               id == RegId(which)
               c == Capacity(register_size(which))
           IN  /\ \A other \in 0 .. REGISTER_COUNT :
                      other # id => after[other] = rg[other]
               /\ id \in 0 .. REGISTER_COUNT =>
                      after[id] \div c = rg[id] \div c
               /\ ~RegError(which) => after[id] % c = v % c
               /\ RegError(which) => after = rg
<1> DEFINE id == RegId(which)
           c == Capacity(register_size(which))
           w == (rg[id] - (rg[id] % c)) + (v % c)
           after == reg_write(rg, which, v)
<1>1. CASE RegError(which)
    BY <1>1 DEF reg_write
<1>2. CASE ~RegError(which)
  <2>1. id \in 0 .. REGISTER_COUNT /\ rg[id] \in Nat
      BY <1>2, RegisterOfFile DEF RegisterFile, WordRange
  <2>2. c \in Nat \ {0} /\ v % c \in 0 .. c - 1
      BY LowBytesType, CapacityRange
  <2>3. after = [rg EXCEPT ![id] = w]
      BY <1>2 DEF reg_write
  <2> HIDE DEF after, id, c
  <2>4. w % c = v % c /\ w \div c = rg[id] \div c
      BY <2>1, <2>2, LowReplaced
  <2> HIDE DEF w
  <2>5. /\ after[id] = w
        /\ \A other \in 0 .. REGISTER_COUNT :
               other # id => after[other] = rg[other]
      BY <2>1, <2>3 DEF RegisterFile
  <2>6. QED
      BY <1>2, <2>4, <2>5 DEF after, id, c
<1>3. QED
    BY <1>1, <1>2

(* CPU::reg_read returns what CPU::reg_write wrote, cut to the width of    *)
(* the register, for whole registers, low halves and low bytes. *)
THEOREM RegReadAfterWrite ==
    ASSUME NEW rg \in RegisterFile, NEW which \in Nat, ~RegError(which),
           NEW v \in Int
    PROVE  reg_read(reg_write(rg, which, v), which)
                = v % Capacity(register_size(which))
BY RegWriteEffect DEF reg_read

-----------------------------------------------------------------------------
(* Decoding and parameters. *)

DecodedParams == [mode : Nat, value : WordRange]

LEMMA ParamSize ==
    ASSUME NEW mode
    PROVE  param_size(mode) \in 0 .. 4
BY DEF param_size

LEMMA ParamValueType ==
    ASSUME NEW mem \in Memory, NEW at \in Nat, NEW mode
    PROVE  ParamValue(mem, at, mode) \in WordRange
<1>1. mem_read(mem, at, 4) \in WordRange /\ mem_read(mem, at, 4) \in Int
    BY MemReadType DEF WordRange
<1>2. mem_read(mem, at, 4) % Capacity(param_size(mode)) \in WordRange
    BY <1>1, LowBytesType
<1>3. 0 \in WordRange
    BY Widths DEF WordRange
<1>4. QED
    BY <1>2, <1>3 DEF ParamValue

(* The opcode that is found for a name in the table stands for that name.  *)
LEMMA OpcodeOfName ==
    ASSUME NEW op \in ToSet(OpTable)
    PROVE  /\ opcode_from_name(op) \in 0 .. 127
           /\ op_function(opcode_from_name(op)) = op
<1>1. Len(OpTable) = 128 /\ DOMAIN OpTable = 1 .. 128
    BY DEF OpTable
<1>2. PICK n \in 1 .. 128 : OpTable[n] = op
    BY <1>1 DEF ToSet
<1>3. \E opcode \in 0 .. Len(OpTable) - 1 : OpTable[opcode + 1] = op
  <2>1. n - 1 \in 0 .. Len(OpTable) - 1 /\ (n - 1) + 1 = n
      BY <1>1
  <2>2. QED
      BY <1>2, <2>1
<1>4. /\ opcode_from_name(op) \in 0 .. Len(OpTable) - 1
      /\ OpTable[opcode_from_name(op) + 1] = op
    BY <1>3 DEF opcode_from_name
<1>5. QED
    BY <1>1, <1>4 DEF op_function

LEMMA ParamCount ==
    ASSUME NEW opcode \in Nat
    PROVE  param_count(opcode) \in {0, 1, 2}
<1>1. \A n \in 1 .. 128 : CountTable[n] \in {0, 1, 2}
    BY DEF CountTable
<1>2. QED
    BY <1>1 DEF param_count

(* What the decoder yields for any bytes: an instruction of one to ten     *)
(* bytes and two parameters. *)
LEMMA ParseType ==
    ASSUME NEW mem \in Memory, NEW pc \in Nat, pc + 10 \in Cells
    PROVE  LET i == parse_instruction(mem, pc)
           IN  /\ i.op = op_function(mem[pc])
               /\ i.p1 \in DecodedParams
               /\ i.p2 \in DecodedParams
               /\ i.len \in 1 .. 10
<1> DEFINE count == param_count(mem[pc])
           modes == mem[pc + 1]
           mode1 == IF count > 0 THEN modes \div 16 ELSE Unused
           mode2 == IF count > 1 THEN modes % 16 ELSE Unused
           start == pc + 1 + (IF count > 0 THEN 1 ELSE 0)
           next == start + param_size(mode1)
<1>1. mem[pc] \in Nat /\ mem[pc + 1] \in Nat
  <2>1. pc \in Cells /\ pc + 1 \in Cells
      BY MemAssumption DEF Cells
  <2>2. QED
      BY <2>1 DEF Memory, ByteRange
<1>2. count \in {0, 1, 2}
    BY <1>1, ParamCount
<1>3. mode1 \in Nat /\ mode2 \in Nat
    BY <1>1, <1>2 DEF Unused
<1>4. /\ start \in pc + 1 .. pc + 2
      /\ param_size(mode1) \in 0 .. 4 /\ param_size(mode2) \in 0 .. 4
    BY <1>2, ParamSize
<1>5. start \in Nat /\ next \in Nat
    BY <1>4
<1>6. next + param_size(mode2) - pc \in 1 .. 10
    BY <1>4
<1>7. /\ ParamValue(mem, start, mode1) \in WordRange
      /\ ParamValue(mem, next, mode2) \in WordRange
    BY <1>5, ParamValueType
<1>8. parse_instruction(mem, pc) =
        [ op  |-> op_function(mem[pc]),
          p1  |-> [mode |-> mode1, value |-> ParamValue(mem, start, mode1)],
          p2  |-> [mode |-> mode2, value |-> ParamValue(mem, next, mode2)],
          len |-> next + param_size(mode2) - pc ]
    BY DEF parse_instruction
<1> HIDE DEF count, modes, mode1, mode2, start, next
<1>9. QED
    BY <1>3, <1>6, <1>7, <1>8 DEF DecodedParams

(* What a parameter stands for is a word. *)
LEMMA ParamTypes ==
    ASSUME NEW mem \in Memory, NEW rg \in RegisterFile, NEW p \in DecodedParams
    PROVE  /\ get_param_value(mem, rg, p) \in WordRange
           /\ get_param_value_sign_extended(mem, rg, p) \in WordRange
           /\ get_param_address(rg, p) \in Nat
<1>1. p.value \in WordRange /\ p.value \in Nat
    BY DEF DecodedParams, WordRange
<1>2. /\ reg_read(rg, p.value) \in WordRange
      /\ reg_read_sign_extended(rg, p.value) \in WordRange
    BY <1>1, RegReadType, RegReadSignExtendedType
<1>3. Word(rg[O] + p.value) \in WordRange
  <2>1. rg[O] \in Int
      BY DEF RegisterFile, REGISTER_COUNT, O, WordRange
  <2>2. QED
      BY <1>1, <2>1, WordType
<1>4. \A x \in WordRange : mem_read(mem, x, 4) \in WordRange
    BY MemReadType DEF WordRange
<1>5. get_param_value(mem, rg, p) \in WordRange
  <2>1. 0 \in WordRange
      BY Widths DEF WordRange
  <2>2. QED
      BY <1>1, <1>2, <1>3, <1>4, <2>1 DEF get_param_value
<1>6. get_param_value_sign_extended(mem, rg, p) \in WordRange
  <2>1. SignExtend(p.value, param_size(p.mode)) \in WordRange
      BY <1>1, SignExtendType
  <2>2. QED
      BY <1>2, <1>5, <2>1 DEF get_param_value_sign_extended
<1>7. get_param_address(rg, p) \in Nat
    BY <1>1, <1>2, <1>3, MemAssumption DEF get_param_address, WordRange
<1>8. QED
    BY <1>5, <1>6, <1>7

LEMMA ParamValueSize ==
    ASSUME NEW p
    PROVE  param_value_size(p) \in {1, 2, 4}
BY RegisterSize DEF param_value_size

-----------------------------------------------------------------------------
(* Induction.  It is stated for sets, of the numbers that have a property:  *)
(* the order of the natural numbers is well-founded. *)

NatLess == {ss \in Nat \X Nat : ss[1] < ss[2]}

(* Among some natural numbers there is a least one. *)
LEMMA LeastElement ==
    ASSUME NEW T, T \subseteq Nat, T # {}
    PROVE  \E x \in T : \A y \in T : x <= y
<1>1. IsWellFoundedOn(NatLess, Nat)
    BY NatLessThanWellFounded DEF NatLess, OpToRel
<1>2. PICK x \in T : \A y \in T : ~(<<y, x>> \in NatLess)
    BY <1>1, WFMin
<1>3. ASSUME NEW y \in T PROVE x <= y
  <2>1. x \in Nat /\ y \in Nat
      OBVIOUS
  <2> DEFINE ss == <<y, x>>
  <2>2. ss \in Nat \X Nat /\ ss[1] = y /\ ss[2] = x
      BY <2>1
  <2>3. ss \notin NatLess
      BY <1>2
  <2> HIDE DEF ss
  <2>4. ~(y < x)
      BY <2>2, <2>3 DEF NatLess
  <2>5. QED
      BY <2>1, <2>4
<1>4. QED
    BY <1>2, <1>3

(* A set holds the numbers up to n if it holds 0 and, with each one below n, *)
(* the next. *)
LEMMA InductionUpTo ==
    ASSUME NEW n \in Nat, NEW G, 0 \in G,
           \A k \in 0 .. n - 1 : k \in G => k + 1 \in G
    PROVE  0 .. n \subseteq G
<1> SUFFICES ASSUME NEW j \in 0 .. n, j \notin G PROVE FALSE
    OBVIOUS
<1> DEFINE T == {k \in 0 .. n : k \notin G}
<1>1. T \subseteq Nat /\ j \in T
    OBVIOUS
<1>2. PICK x \in T : \A y \in T : x <= y
    BY <1>1, LeastElement
<1>3. x \in 1 .. n
    BY <1>2
<1>4. x - 1 \in 0 .. n - 1 /\ x - 1 \in G
  <2>1. x - 1 \in 0 .. n - 1
      BY <1>3
  <2>2. x - 1 \notin T
      BY <1>2, <1>3
  <2>3. QED
      BY <2>1, <2>2
<1>5. x \in G
    BY <1>3, <1>4
<1>6. QED
    BY <1>2, <1>5

-----------------------------------------------------------------------------
(* Sequences of sequences, joined. *)

(* Two and four sequences one after another. *)
LEMMA TwoParts ==
    ASSUME NEW T, NEW s \in Seq(T), NEW t \in Seq(T), NEW w, w = s \o t
    PROVE  /\ w \in Seq(T) /\ Len(w) = Len(s) + Len(t)
           /\ \A k \in 1 .. Len(s) : w[k] = s[k]
           /\ \A k \in 1 .. Len(t) : w[Len(s) + k] = t[k]
OBVIOUS

LEMMA FourParts ==
    ASSUME NEW T, NEW s \in Seq(T), NEW t \in Seq(T),
           NEW u \in Seq(T), NEW v \in Seq(T),
           NEW w, w = s \o t \o u \o v
    PROVE  /\ w \in Seq(T)
           /\ Len(w) = Len(s) + Len(t) + Len(u) + Len(v)
           /\ \A k \in 1 .. Len(s) : w[k] = s[k]
           /\ \A k \in 1 .. Len(t) : w[Len(s) + k] = t[k]
           /\ \A k \in 1 .. Len(u) : w[Len(s) + Len(t) + k] = u[k]
           /\ \A k \in 1 .. Len(v) : w[Len(s) + Len(t) + Len(u) + k] = v[k]
<1>1. PICK st, stu : st = s \o t /\ stu = st \o u /\ w = stu \o v
    OBVIOUS
<1>2. /\ st \in Seq(T) /\ Len(st) = Len(s) + Len(t)
      /\ \A k \in 1 .. Len(s) : st[k] = s[k]
      /\ \A k \in 1 .. Len(t) : st[Len(s) + k] = t[k]
    BY <1>1, TwoParts
<1>3. /\ stu \in Seq(T) /\ Len(stu) = Len(st) + Len(u)
      /\ \A k \in 1 .. Len(st) : stu[k] = st[k]
      /\ \A k \in 1 .. Len(u) : stu[Len(st) + k] = u[k]
  <2>1. st \in Seq(T) /\ stu = st \o u
      BY <1>1, <1>2
  <2>2. QED
      BY <2>1, TwoParts
<1>4. /\ w \in Seq(T) /\ Len(w) = Len(stu) + Len(v)
      /\ \A k \in 1 .. Len(stu) : w[k] = stu[k]
      /\ \A k \in 1 .. Len(v) : w[Len(stu) + k] = v[k]
  <2>1. stu \in Seq(T) /\ w = stu \o v
      BY <1>1, <1>3
  <2>2. QED
      BY <2>1, TwoParts
<1>5. \A k \in 1 .. Len(s) : w[k] = s[k]
    BY <1>1, <1>2, <1>3, <1>4
<1>6. \A k \in 1 .. Len(t) : w[Len(s) + k] = t[k]
  <2>1. \A k \in 1 .. Len(t) : /\ Len(s) + k \in 1 .. Len(st)
                               /\ Len(s) + k \in 1 .. Len(stu)
      BY <1>1, <1>2, <1>3
  <2>2. QED
      BY <1>2, <1>3, <1>4, <2>1
<1>7. \A k \in 1 .. Len(u) : w[Len(s) + Len(t) + k] = u[k]
    BY <1>1, <1>2, <1>3, <1>4
<1>8. /\ w \in Seq(T)
      /\ Len(w) = Len(s) + Len(t) + Len(u) + Len(v)
      /\ \A k \in 1 .. Len(v) : w[Len(s) + Len(t) + Len(u) + k] = v[k]
    BY <1>1, <1>2, <1>3, <1>4
<1>9. QED
    BY <1>1, <1>5, <1>6, <1>7, <1>8

(* The recursive function that FlattenSeq computes by. *)
Joins(f, ss, n) ==
    f = [i \in 1 .. n |-> IF i = 1 THEN ss[i] ELSE f[i - 1] \o ss[i]]

(* There is one, for any number of sequences. *)
LEMMA JoinExists ==
    ASSUME NEW n \in Nat, NEW ss
    PROVE  \E f : Joins(f, ss, n)
<1> DEFINE G == {k \in Nat : \E f : Joins(f, ss, k)}
<1>1. 0 \in G
  <2>1. Joins([i \in 1 .. 0 |-> ss[i]], ss, 0)
      BY DEF Joins
  <2>2. QED
      BY <2>1
<1>2. ASSUME NEW k \in Nat, k \in G PROVE k + 1 \in G
  <2>1. PICK f : Joins(f, ss, k)
      BY <1>2
  <2> DEFINE g == [i \in 1 .. k + 1 |->
                     IF i <= k THEN f[i]
                     ELSE IF i = 1 THEN ss[i] ELSE f[i - 1] \o ss[i]]
  <2>2. Joins(g, ss, k + 1)
    <3>1. \A i \in 1 .. k : g[i] = f[i]
        OBVIOUS
    <3>2. \A i \in 1 .. k : f[i] = IF i = 1 THEN ss[i] ELSE f[i - 1] \o ss[i]
        BY <2>1 DEF Joins
    <3>3. \A i \in 1 .. k : i # 1 => i - 1 \in 1 .. k
        OBVIOUS
    <3>4. \A i \in 1 .. k + 1 :
              g[i] = IF i = 1 THEN ss[i] ELSE g[i - 1] \o ss[i]
      <4>1. ASSUME NEW i \in 1 .. k
            PROVE g[i] = IF i = 1 THEN ss[i] ELSE g[i - 1] \o ss[i]
        <5> HIDE DEF g
        <5>1. QED
            BY <3>1, <3>2, <3>3
      <4>2. g[k+1] = IF k+1 = 1 THEN ss[k+1] ELSE g[k] \o ss[k+1]
        <5>1. g[k+1] = IF k+1 = 1 THEN ss[k+1] ELSE f[k + 1 - 1] \o ss[k+1]
            OBVIOUS
        <5>2. k + 1 - 1 = k /\ (k + 1 = 1 \/ k \in 1 .. k)
            OBVIOUS
        <5> HIDE DEF g
        <5>3. QED
            BY <5>1, <5>2, <3>1
      <4> HIDE DEF g
      <4>3. \A i \in 1 .. k + 1 : i \in 1 .. k \/ (i = k + 1 /\ i - 1 = k)
          OBVIOUS
      <4>4. QED
          BY <4>1, <4>2, <4>3
    <3>5. g = [i \in 1 .. k + 1 |-> g[i]]
        OBVIOUS
    <3> HIDE DEF g
    <3>6. QED
        BY <3>4, <3>5 DEF Joins
  <2> HIDE DEF g
  <2>3. QED
      BY <2>2
<1> HIDE DEF G
<1>3. 0 .. n \subseteq G
    BY <1>1, <1>2, InductionUpTo
<1>4. n \in G
    BY <1>3
<1>5. QED
    BY <1>4 DEF G

(* FlattenSeq takes its last value. *)
LEMMA FlattenJoins ==
    ASSUME NEW ss, Len(ss) \in Nat \ {0}
    PROVE  \E f : Joins(f, ss, Len(ss)) /\ FlattenSeq(ss) = f[Len(ss)]
<1> DEFINE n == Len(ss)
           f == CHOOSE f : f = [i \in 1 .. n |->
                    IF i = 1 THEN ss[i] ELSE f[i - 1] \o ss[i]]
<1>1. Joins(f, ss, n)
   BY JoinExists DEF Joins
<1>2. FlattenSeq(ss) = f[n]
   BY DEF FlattenSeq
<1> QED
    BY <1>1, <1>2

(* Where each of the sequences begins in the joined one. *)
Begins(off, ss) ==
    /\ off \in [1 .. Len(ss) + 1 -> Nat]
    /\ off[1] = 0
    /\ \A m \in 1 .. Len(ss) : off[m + 1] = off[m] + Len(ss[m])

(* That is determined for any sequences. *)
LEMMA BeginsExist ==
    ASSUME NEW T, NEW ss \in Seq(Seq(T))
    PROVE  \E off : Begins(off, ss)
<1> DEFINE n == Len(ss)
           Upto(off, k) == /\ off \in [1 .. k + 1 -> Nat]
                           /\ off[1] = 0
                           /\ \A m \in 1 .. k :
                                  off[m + 1] = off[m] + Len(ss[m])
           G == {k \in 0 .. n : \E off : Upto(off, k)}
<1>1. n \in Nat /\ \A m \in 1 .. n : Len(ss[m]) \in Nat
    OBVIOUS
<1>2. 0 \in G
  <2>1. Upto([m \in 1 .. 1 |-> 0], 0) /\ 0 \in 0 .. n
      BY <1>1
  <2> HIDE DEF Upto, n
  <2>2. QED
      BY <2>1
<1> HIDE DEF n
<1>3. ASSUME NEW k \in 0 .. n - 1, k \in G PROVE k + 1 \in G
  <2>1. PICK off : Upto(off, k)
      BY <1>3
  <2> DEFINE new == [m \in 1 .. k + 2 |->
                        IF m = k + 2 THEN off[k + 1] + Len(ss[k + 1])
                        ELSE off[m]]
  <2>2. /\ k \in Nat /\ k + 1 \in 1 .. n
        /\ off[k + 1] \in Nat /\ Len(ss[k + 1]) \in Nat
      BY <1>1, <2>1
  <2>3. /\ \A m \in 1 .. k + 1 : new[m] = off[m]
        /\ new[k + 2] = off[k + 1] + Len(ss[k + 1])
        /\ new \in [1 .. k + 2 -> Nat]
      BY <2>1, <2>2
  <2> HIDE DEF new
  <2>4. \A m \in 1 .. k + 1 : new[m + 1] = new[m] + Len(ss[m])
    <3>1. ASSUME NEW m \in 1 .. k PROVE new[m + 1] = new[m] + Len(ss[m])
      <4>1. m \in 1 .. k + 1 /\ m + 1 \in 1 .. k + 1
          BY <2>2
      <4>2. QED
          BY <2>1, <2>3, <4>1
    <3>2. new[k + 1 + 1] = new[k + 1] + Len(ss[k + 1])
      <4>1. k + 1 + 1 = k + 2 /\ k + 1 \in 1 .. k + 1
          BY <2>2
      <4>2. QED
          BY <2>3, <4>1
    <3>3. \A m \in 1 .. k + 1 : m \in 1 .. k \/ m = k + 1
        BY <2>2
    <3>4. QED
        BY <3>1, <3>2, <3>3
  <2>5. new[1] = 0 /\ k + 2 = k + 1 + 1
      BY <2>1, <2>2, <2>3
  <2>6. Upto(new, k + 1) /\ k + 1 \in 0 .. n
      BY <1>1, <2>2, <2>3, <2>4, <2>5
  <2> HIDE DEF Upto
  <2>7. QED
      BY <2>6
<1> HIDE DEF G
<1>4. n \in G
  <2>1. 0 .. n \subseteq G
      BY <1>1, <1>2, <1>3, InductionUpTo
  <2>2. QED
      BY <1>1, <2>1
<1>5. QED
    BY <1>4 DEF G, n, Begins

(* Parts begin in their order. *)
LEMMA BeginsGrow ==
    ASSUME NEW T, NEW ss \in Seq(Seq(T)), NEW off, Begins(off, ss),
           NEW k \in 1 .. Len(ss) + 1, NEW m \in 1 .. k
    PROVE  off[m] <= off[k]
<1> DEFINE d == k - m
           G == {x \in 0 .. d : off[m] <= off[m + x]}
           n == Len(ss)
<1>1. n \in Nat /\ \A i \in 1 .. n : Len(ss[i]) \in Nat
    OBVIOUS
<1>2. /\ \A i \in 1 .. n + 1 : off[i] \in Nat
      /\ \A i \in 1 .. n : off[i + 1] = off[i] + Len(ss[i])
    BY DEF Begins
<1> HIDE DEF n
<1>3. \A i \in 1 .. n : off[i] <= off[i + 1]
  <2>1. ASSUME NEW i \in 1 .. n PROVE off[i] <= off[i + 1]
    <3> DEFINE a == off[i]
               b == off[i + 1]
               c == Len(ss[i])
    <3>1. i \in 1 .. n + 1
        BY <1>1
    <3>2. a \in Nat /\ c \in Nat /\ b = a + c
        BY <1>1, <1>2, <3>1
    <3> HIDE DEF a, b, c
    <3>3. a <= b
        BY <3>2
    <3>4. QED
        BY <3>3 DEF a, b
  <2>2. QED
      BY <2>1
<1>4. k \in 1 .. n + 1 /\ m \in 1 .. k
    BY DEF n
<1>5. d \in Nat /\ m + d = k /\ m + 0 = m
    BY <1>1, <1>4
<1> HIDE DEF d
<1>6. 0 \in G
    BY <1>1, <1>2, <1>4, <1>5
<1>7. ASSUME NEW x \in 0 .. d - 1, x \in G PROVE x + 1 \in G
  <2> DEFINE i == m + x
  <2>1. /\ i \in 1 .. n /\ m + (x + 1) = i + 1 /\ x + 1 \in 0 .. d
        /\ i \in 1 .. n + 1 /\ i + 1 \in 1 .. n + 1 /\ m \in 1 .. n + 1
      BY <1>1, <1>4, <1>5
  <2>2. off[m] <= off[i]
      BY <1>7
  <2> HIDE DEF i
  <2>3. off[m] <= off[i + 1]
      BY <1>2, <1>3, <2>1, <2>2
  <2>4. QED
      BY <2>1, <2>3
<1> HIDE DEF G
<1>8. 0 .. d \subseteq G
    BY <1>5, <1>6, <1>7, InductionUpTo
<1>9. d \in G
    BY <1>5, <1>8
<1>10. QED
    BY <1>5, <1>9 DEF G

(* The joined sequence holds each of them where it begins. *)
LEMMA Flattened ==
    ASSUME NEW T, NEW ss \in Seq(Seq(T)), NEW off, Begins(off, ss)
    PROVE  /\ FlattenSeq(ss) \in Seq(T)
           /\ Len(FlattenSeq(ss)) = off[Len(ss) + 1]
           /\ \A m \in 1 .. Len(ss) : \A j \in 1 .. Len(ss[m]) :
                  FlattenSeq(ss)[off[m] + j] = ss[m][j]
<1> DEFINE n == Len(ss)
<1>1. /\ n \in Nat
      /\ \A m \in 1 .. n : ss[m] \in Seq(T) /\ Len(ss[m]) \in Nat
    OBVIOUS
<1>2. /\ \A m \in 1 .. n + 1 : off[m] \in Nat
      /\ off[1] = 0
      /\ \A m \in 1 .. n : off[m + 1] = off[m] + Len(ss[m])
    BY DEF Begins
<1>3. CASE n = 0
  <2>1. FlattenSeq(ss) = ss /\ ss = << >>
      BY <1>3 DEF FlattenSeq
  <2>2. QED
      BY <1>2, <1>3, <2>1
<1>4. CASE n # 0
  <2>1. PICK f : Joins(f, ss, n) /\ FlattenSeq(ss) = f[n]
      BY <1>1, <1>4, FlattenJoins
  <2> DEFINE Good(w, k) ==
                 /\ w \in Seq(T)
                 /\ Len(w) = off[k + 1]
                 /\ \A m \in 1 .. k : \A j \in 1 .. Len(ss[m]) :
                        w[off[m] + j] = ss[m][j]
             G == {k \in 0 .. n - 1 : Good(f[k + 1], k + 1)}
  <2>0. \A k \in 1 .. n : f[k] = IF k = 1 THEN ss[k] ELSE f[k - 1] \o ss[k]
      BY <2>1 DEF Joins
  <2> HIDE DEF n
  <2>2. f[1] = ss[1] /\ \A k \in 2 .. n : f[k] = f[k - 1] \o ss[k]
    <3>1. 1 \in 1 .. n /\ \A k \in 2 .. n : k \in 1 .. n /\ k # 1
        BY <1>1, <1>4
    <3>2. QED
        BY <2>0, <3>1
  <2>3. 0 \in G
    <3>1. Good(ss[1], 1)
      <4>1. 1 \in 1 .. n
          BY <1>1, <1>4
      <4>2. off[1 + 1] = Len(ss[1])
          BY <1>1, <1>2, <4>1
      <4>3. \A m \in 1 .. 1 : m = 1
          OBVIOUS
      <4>4. ASSUME NEW m \in 1 .. 1, NEW j \in 1 .. Len(ss[m])
            PROVE  ss[1][off[m] + j] = ss[m][j]
          BY <1>1, <1>2, <4>1, <4>3
      <4>5. QED
          BY <1>1, <4>1, <4>2, <4>4
    <3>2. f[0 + 1] = ss[1] /\ 0 \in 0 .. n - 1 /\ 0 + 1 = 1
        BY <1>1, <1>4, <2>2
    <3> HIDE DEF Good
    <3>3. QED
        BY <3>1, <3>2
  <2>4. ASSUME NEW k \in 0 .. n - 1 - 1, k \in G PROVE k + 1 \in G
    <3> DEFINE u == f[k + 1]
               v == ss[k + 2]
               w == f[k + 2]
    <3>1. /\ k \in Nat /\ k + 2 \in 1 .. n /\ k + 1 \in 1 .. n
          /\ k + 2 \in 2 .. n
          /\ k + 2 - 1 = k + 1 /\ k + 1 + 1 = k + 2 /\ k + 2 + 1 = k + 3
        BY <1>1
    <3>2. w = u \o v /\ v \in Seq(T)
      <4>1. PICK x \in 2 .. n : x = k + 2
          BY <3>1
      <4>2. f[x] = f[x - 1] \o ss[x]
          BY <2>2
      <4>3. x - 1 = k + 1 /\ ss[k + 2] \in Seq(T)
          BY <1>1, <3>1, <4>1
      <4>4. QED
          BY <4>1, <4>2, <4>3
    <3>a. Good(u, k + 1)
      <4> HIDE DEF Good
      <4>1. QED
          BY <2>4
    <3>3. off[k + 3] = off[k + 2] + Len(v) /\ off[k + 2] \in Nat
      <4>1. off[k + 2 + 1] = off[k + 2] + Len(v) /\ k + 2 \in 1 .. n + 1
          BY <1>1, <1>2, <3>1
      <4>2. QED
          BY <1>2, <3>1, <4>1
    <3> HIDE DEF u, v, w
    <3>b. u \in Seq(T) /\ Len(u) = off[k + 2]
        BY <3>1, <3>a
    <3>4. /\ w \in Seq(T) /\ Len(w) = Len(u) + Len(v)
          /\ \A j \in 1 .. Len(u) : w[j] = u[j]
          /\ \A j \in 1 .. Len(v) : w[Len(u) + j] = v[j]
      <4>1. u \in Seq(T) /\ v \in Seq(T) /\ w = u \o v
          BY <3>2, <3>b
      <4>2. QED
          BY <4>1, TwoParts
    <3>6. ASSUME NEW m \in 1 .. k + 1, NEW j \in 1 .. Len(ss[m])
          PROVE  w[off[m] + j] = ss[m][j]
      <4>1. u[off[m] + j] = ss[m][j]
          BY <3>a
      <4>2. off[m + 1] <= off[k + 2]
        <5>1. k + 2 \in 1 .. Len(ss) + 1 /\ m + 1 \in 1 .. k + 2
            BY <1>1, <3>1 DEF n
        <5>2. QED
            BY <5>1, BeginsGrow
      <4>3. /\ off[m + 1] = off[m] + Len(ss[m])
            /\ off[m] \in Nat /\ Len(ss[m]) \in Nat
        <5>1. m \in 1 .. n /\ m \in 1 .. n + 1
            BY <1>1, <3>1
        <5>2. QED
            BY <1>1, <1>2, <5>1
      <4>4. off[m] + j \in 1 .. Len(u)
        <5> DEFINE a == off[m]
                   b == off[m + 1]
                   c == Len(ss[m])
                   d == off[k + 2]
        <5>1. /\ a \in Nat /\ c \in Nat /\ d \in Nat /\ b = a + c /\ b <= d
              /\ j \in 1 .. c
            BY <3>3, <4>2, <4>3
        <5> HIDE DEF a, b, c, d
        <5>2. a + j \in 1 .. d
            BY <5>1
        <5>3. QED
            BY <3>b, <5>2 DEF a, d
      <4>5. QED
          BY <3>4, <4>1, <4>4
    <3>7. ASSUME NEW j \in 1 .. Len(ss[k + 2])
          PROVE  w[off[k + 2] + j] = ss[k + 2][j]
        BY <3>4, <3>b DEF v
    <3>8. \A m \in 1 .. k + 2 : m \in 1 .. k + 1 \/ m = k + 2
        BY <3>1
    <3>c. \A m \in 1 .. k + 2 : \A j \in 1 .. Len(ss[m]) :
              w[off[m] + j] = ss[m][j]
        BY <3>6, <3>7, <3>8
    <3>9. Good(w, k + 2)
      <4>1. Len(w) = off[k + 2 + 1]
          BY <3>1, <3>3, <3>4, <3>b
      <4>2. QED
          BY <3>4, <3>c, <4>1
    <3> HIDE DEF Good
    <3>10. k + 1 \in 0 .. n - 1 /\ Good(f[k + 1 + 1], k + 1 + 1)
        BY <1>1, <3>1, <3>9 DEF w
    <3>11. QED
        BY <3>10
  <2>5. n - 1 \in G
    <3>1. n - 1 \in Nat
        BY <1>1, <1>4
    <3> HIDE DEF G
    <3>2. 0 .. n - 1 \subseteq G
        BY <2>3, <2>4, <3>1, InductionUpTo
    <3>3. QED
        BY <3>1, <3>2
  <2>6. Good(f[n], n)
    <3>1. n - 1 + 1 = n
        BY <1>1
    <3> HIDE DEF Good
    <3>2. QED
        BY <2>5, <3>1
  <2>7. QED
      BY <2>1, <2>6 DEF n
<1>5. QED
    BY <1>3, <1>4

-----------------------------------------------------------------------------
(* Encoding an instruction, and decoding it. *)

(* Instructions that have the parameters their opcode takes, and no others. *)
ParamsMatch(x) == LET count == param_count(opcode_from_name(x.op))
                  IN  /\ count > 0 <=> x.p1.mode # Unused
                      /\ count > 1 <=> x.p2.mode # Unused
WordParam == [mode : 0 .. 7, value : WordRange]
Encodings == {x \in [op : ToSet(OpTable), p1 : WordParam, p2 : WordParam] :
                 ParamsMatch(x)}

(* A parameter is written as the low bytes of its value, as many as the    *)
(* decoder takes for its mode. *)
LEMMA ParameterBytes ==
    ASSUME NEW p \in WordParam
    PROVE  LET size == param_size(p.mode)
               bytes == write_parameter(p)
           IN  /\ size \in 0 .. 4
               /\ size = 0 <=> p.mode = Unused
               /\ bytes \in Seq(ByteRange)
               /\ Len(bytes) = size
               /\ \A j \in 0 .. size - 1 : bytes[j + 1] = Digit(p.value, j)
<1> DEFINE size == param_size(p.mode)
<1>1. /\ size \in 0 .. 4
      /\ size = 0 <=> p.mode = Unused
      /\ write_parameter(p) = [k \in 1 .. size |-> Digit(p.value, k - 1)]
    BY DEF WordParam, param_size, write_parameter, Constant8, Register, Unused,
           RegisterAddress, Constant16, AbsoluteAddress, RelativeAddress,
           Constant32, Label
<1>2. p.value \in WordRange
    BY DEF WordParam
<1>3. \A k : Digit(p.value, k - 1) \in ByteRange
    BY <1>2, DigitType
<1> HIDE DEF size
<1>4. write_parameter(p) \in [1 .. size -> ByteRange]
    BY <1>1, <1>3
<1>5. write_parameter(p) \in Seq(ByteRange) /\ Len(write_parameter(p)) = size
    BY <1>1, <1>4
<1>6. \A j \in 0 .. size - 1 : write_parameter(p)[j + 1] = Digit(p.value, j)
    BY <1>1
<1>7. QED
    BY <1>1, <1>5, <1>6 DEF size

(* Where the parts of an instruction begin: behind the opcode and, if the   *)
(* opcode takes parameters, the byte of the modes. *)
ModesLength(x) == IF param_count(opcode_from_name(x.op)) > 0 THEN 1 ELSE 0

LEMMA InstructionBytes ==
    ASSUME NEW x \in Encodings, BYTE >= 128
    PROVE  LET w == write_instruction(x)
               first == 1 + ModesLength(x)
               size1 == param_size(x.p1.mode)
               size2 == param_size(x.p2.mode)
           IN  /\ w \in Seq(ByteRange)
               /\ Len(w) = first + size1 + size2
               /\ w[1] = opcode_from_name(x.op)
               /\ ModesLength(x) = 1 => w[2] = 16 * x.p1.mode + x.p2.mode
               /\ \A j \in 0 .. size1 - 1 :
                      w[first + j + 1] = Digit(x.p1.value, j)
               /\ \A j \in 0 .. size2 - 1 :
                      w[first + size1 + j + 1] = Digit(x.p2.value, j)
<1> DEFINE opcode == opcode_from_name(x.op)
           modes == 16 * x.p1.mode + x.p2.mode
           size1 == param_size(x.p1.mode)
           size2 == param_size(x.p2.mode)
           n == ModesLength(x)
<1>1. /\ opcode \in 0 .. 127 /\ x.p1 \in WordParam /\ x.p2 \in WordParam
      /\ param_count(opcode) > 0 <=> x.p1.mode # Unused
    BY OpcodeOfName DEF Encodings, ParamsMatch
<1>2. PICK s, t, u, v :
        /\ s = << opcode >>
        /\ t = IF x.p1.mode = Unused THEN << >> ELSE << modes >>
        /\ u = write_parameter(x.p1)
        /\ v = write_parameter(x.p2)
    OBVIOUS
<1>3. write_instruction(x) = s \o t \o u \o v
    BY <1>2 DEF write_instruction
<1>4. opcode \in ByteRange /\ modes \in ByteRange
  <2>1. x.p1.mode \in 0 .. 7 /\ x.p2.mode \in 0 .. 7
      BY <1>1 DEF WordParam
  <2>2. QED
      BY <1>1, <2>1, Widths DEF ByteRange
<1>5. n = IF x.p1.mode = Unused THEN 0 ELSE 1
    BY <1>1 DEF ModesLength
<1> HIDE DEF opcode, modes, n
<1>6. /\ s \in Seq(ByteRange) /\ Len(s) = 1 /\ s[1] = opcode
      /\ t \in Seq(ByteRange) /\ Len(t) = n /\ (n = 1 => t[1] = modes)
    BY <1>2, <1>4, <1>5
<1>7. /\ u \in Seq(ByteRange) /\ Len(u) = size1 /\ size1 \in 0 .. 4
      /\ v \in Seq(ByteRange) /\ Len(v) = size2 /\ size2 \in 0 .. 4
      /\ \A j \in 0 .. size1 - 1 : u[j + 1] = Digit(x.p1.value, j)
      /\ \A j \in 0 .. size2 - 1 : v[j + 1] = Digit(x.p2.value, j)
    BY <1>1, <1>2, ParameterBytes
<1> HIDE DEF size1, size2
<1>8. PICK w : w = s \o t \o u \o v
    OBVIOUS
<1>9. /\ w \in Seq(ByteRange)
      /\ Len(w) = 1 + n + size1 + size2
      /\ \A k \in 1 .. 1 : w[k] = s[k]
      /\ \A k \in 1 .. n : w[1 + k] = t[k]
      /\ \A k \in 1 .. size1 : w[1 + n + k] = u[k]
      /\ \A k \in 1 .. size2 : w[1 + n + size1 + k] = v[k]
  <2>1. /\ s \in Seq(ByteRange) /\ t \in Seq(ByteRange)
        /\ u \in Seq(ByteRange) /\ v \in Seq(ByteRange)
      BY <1>6, <1>7
  <2>2. /\ w \in Seq(ByteRange)
        /\ Len(w) = Len(s) + Len(t) + Len(u) + Len(v)
        /\ \A k \in 1 .. Len(s) : w[k] = s[k]
        /\ \A k \in 1 .. Len(t) : w[Len(s) + k] = t[k]
        /\ \A k \in 1 .. Len(u) : w[Len(s) + Len(t) + k] = u[k]
        /\ \A k \in 1 .. Len(v) : w[Len(s) + Len(t) + Len(u) + k] = v[k]
      BY <1>8, <2>1, FourParts
  <2>3. Len(s) = 1 /\ Len(t) = n /\ Len(u) = size1 /\ Len(v) = size2
      BY <1>6, <1>7
  <2>4. QED
      BY <2>2, <2>3
<1>10. n \in {0, 1}
    BY <1>5
<1>11. w[1] = opcode /\ (n = 1 => w[2] = modes)
    BY <1>6, <1>9, <1>10
<1>12. /\ \A j \in 0 .. size1 - 1 : w[1 + n + j + 1] = Digit(x.p1.value, j)
       /\ \A j \in 0 .. size2 - 1 :
              w[1 + n + size1 + j + 1] = Digit(x.p2.value, j)
  <2>1. \A j \in 0 .. size1 - 1 :
            j + 1 \in 1 .. size1 /\ 1 + n + j + 1 = 1 + n + (j + 1)
      BY <1>7, <1>10
  <2>2. \A j \in 0 .. size2 - 1 :
            /\ j + 1 \in 1 .. size2
            /\ 1 + n + size1 + j + 1 = 1 + n + size1 + (j + 1)
      BY <1>7, <1>10
  <2>3. QED
      BY <1>7, <1>9, <2>1, <2>2
<1>13. QED
    BY <1>3, <1>8, <1>9, <1>11, <1>12 DEF opcode, modes, size1, size2, n

(* At most ten bytes: the two first ones and two words. *)
LEMMA InstructionLength ==
    ASSUME NEW x \in Encodings, BYTE >= 128
    PROVE  /\ Len(write_instruction(x)) \in 1 .. 10
           /\ calculate_instruction_length(x) = Len(write_instruction(x))
<1>1. /\ param_size(x.p1.mode) \in 0 .. 4 /\ param_size(x.p2.mode) \in 0 .. 4
      /\ ModesLength(x) \in {0, 1}
    BY ParamSize DEF ModesLength
<1>2. Len(write_instruction(x)) = 1 + ModesLength(x)
            + param_size(x.p1.mode) + param_size(x.p2.mode)
    BY InstructionBytes
<1>3. calculate_instruction_length(x) = 1 + ModesLength(x)
            + param_size(x.p1.mode) + param_size(x.p2.mode)
    BY DEF calculate_instruction_length, ModesLength
<1>4. QED
    BY <1>1, <1>2, <1>3

(* Bytes that are placed inside the memory are found there.                *)
LEMMA PlacedBytes ==
    ASSUME NEW bytes \in Seq(ByteRange), NEW at \in Nat,
           NEW noise \in ByteRange, at + Len(bytes) <= MEM_SIZE
    PROVE  /\ Placed(bytes, at, noise) \in Memory
           /\ \A j \in 0 .. Len(bytes) - 1 :
                  Placed(bytes, at, noise)[at + j] = bytes[j + 1]
<1>1. Len(bytes) \in Nat /\ \A k \in 1 .. Len(bytes) : bytes[k] \in ByteRange
    OBVIOUS
<1>2. ASSUME NEW c \in Cells, c >= at, c - at < Len(bytes)
      PROVE  bytes[c - at + 1] \in ByteRange
    BY <1>1, <1>2, MemAssumption DEF Cells
<1>3. Placed(bytes, at, noise) \in Memory
    BY <1>2 DEF Placed, Memory
<1>4. ASSUME NEW j \in 0 .. Len(bytes) - 1
      PROVE  Placed(bytes, at, noise)[at + j] = bytes[j + 1]
  <2>1. at + j \in Cells /\ at + j >= at /\ (at + j) - at = j
      BY <1>1, MemAssumption DEF Cells
  <2>2. QED
      BY <1>1, <2>1 DEF Placed
<1>5. QED
    BY <1>3, <1>4

(* The value of a parameter is decoded from the bytes it was written as: as *)
(* much of it as its mode has room for. *)
LEMMA ParameterDecoded ==
    ASSUME NEW m \in Memory, NEW at \in Nat, NEW p \in WordParam,
           at + param_size(p.mode) <= MEM_SIZE,
           \A j \in 0 .. param_size(p.mode) - 1 : m[at + j] = Digit(p.value, j)
    PROVE  ParamValue(m, at, p.mode) = p.value % Capacity(param_size(p.mode))
<1> DEFINE size == param_size(p.mode)
<1>1. p.mode \in 0 .. 7 /\ p.value \in Nat
    BY DEF WordParam, WordRange
<1>2. size \in 0 .. 4 /\ (size = 0 <=> p.mode = Unused)
    BY ParameterBytes
<1> HIDE DEF size
<1>3. CASE p.mode = Unused
  <2>1. p.value % Capacity(size) = 0
    <3>1. Capacity(size) = 1
        BY <1>2, <1>3 DEF Capacity
    <3>2. p.value % 1 = 0
        BY <1>1
    <3>3. QED
        BY <3>1, <3>2
  <2>2. QED
      BY <1>3, <2>1 DEF ParamValue, Unused, Constant8, RegisterAddress, size
<1>4. CASE p.mode # Unused
  <2>1. size \in 1 .. 4 /\ 4 \in size .. 4
      BY <1>2, <1>4
  <2>2. mem_read(m, at, 4) % Capacity(size) = p.value % Capacity(size)
      BY <1>1, <2>1, ReadBytes DEF size
  <2>3. p.mode \in Constant8 .. RegisterAddress
      BY <1>1, <1>4 DEF Unused, Constant8, RegisterAddress
  <2>4. QED
      BY <1>1, <2>2, <2>3 DEF ParamValue, size
<1>5. QED
    BY <1>3, <1>4

(* What the decoder makes of a parameter. *)
Read(p) == [mode |-> p.mode, value |-> p.value % Capacity(param_size(p.mode))]

(* The decoder inverts the encoder wherever the bytes of the instruction    *)
(* lie in a memory. *)
LEMMA Decoded ==
    ASSUME NEW x \in Encodings, BYTE >= 128, NEW m \in Memory, NEW at \in Nat,
           at + Len(write_instruction(x)) <= MEM_SIZE,
           \A j \in 0 .. Len(write_instruction(x)) - 1 :
               m[at + j] = write_instruction(x)[j + 1]
    PROVE  parse_instruction(m, at) =
             [op |-> x.op, p1 |-> Read(x.p1), p2 |-> Read(x.p2),
              len |-> Len(write_instruction(x))]
<1> DEFINE w == write_instruction(x)
           opcode == opcode_from_name(x.op)
           count == param_count(opcode)
           n == ModesLength(x)
           size1 == param_size(x.p1.mode)
           size2 == param_size(x.p2.mode)
<1>1. /\ op_function(opcode) = x.op /\ count \in {0, 1, 2}
      /\ x.p1 \in WordParam /\ x.p2 \in WordParam
      /\ count > 0 <=> x.p1.mode # Unused
      /\ count > 1 <=> x.p2.mode # Unused
  <2>1. opcode \in 0 .. 127 /\ op_function(opcode) = x.op
      BY OpcodeOfName DEF Encodings
  <2>2. count \in {0, 1, 2}
    <3>1. \A z \in 0 .. 127 : z \in Nat
        OBVIOUS
    <3> HIDE DEF opcode
    <3>2. opcode \in Nat
        BY <2>1, <3>1
    <3>3. QED
        BY <3>2, ParamCount
  <2>3. QED
      BY <2>1, <2>2 DEF Encodings, ParamsMatch
<1>2. /\ w \in Seq(ByteRange) /\ Len(w) = 1 + n + size1 + size2
      /\ w[1] = opcode
      /\ n = 1 => w[2] = 16 * x.p1.mode + x.p2.mode
      /\ \A j \in 0 .. size1 - 1 : w[1 + n + j + 1] = Digit(x.p1.value, j)
      /\ \A j \in 0 .. size2 - 1 :
             w[1 + n + size1 + j + 1] = Digit(x.p2.value, j)
    BY InstructionBytes
<1>3. n = (IF count > 0 THEN 1 ELSE 0) /\ n \in {0, 1}
    BY DEF ModesLength
<1>4. size1 \in 0 .. 4 /\ size2 \in 0 .. 4
    BY ParamSize
<1>5. at \in Nat
    OBVIOUS
<1>a. at + Len(w) <= MEM_SIZE
    OBVIOUS
<1>6. x.p1.mode \in 0 .. 7 /\ x.p2.mode \in 0 .. 7
    BY <1>1 DEF WordParam
<1>7. \A j \in 0 .. Len(w) - 1 : m[at + j] = w[j + 1]
    OBVIOUS
<1> HIDE DEF w, opcode, count, n, size1, size2
<1>8. m[at] = opcode
  <2>1. 0 \in 0 .. Len(w) - 1 /\ at + 0 = at /\ 0 + 1 = 1
      BY <1>2, <1>3, <1>4, <1>5
  <2>2. QED
      BY <1>2, <1>7, <2>1
<1>9. n = 1 => m[at + 1] = 16 * x.p1.mode + x.p2.mode
    BY <1>2, <1>3, <1>4, <1>5, <1>7
<1> DEFINE mode1 == IF count > 0 THEN m[at + 1] \div 16 ELSE Unused
           mode2 == IF count > 1 THEN m[at + 1] % 16 ELSE Unused
<1>10. mode1 = x.p1.mode /\ mode2 = x.p2.mode
  <2>1. \A a, b \in 0 .. 7 : (16 * a + b) \div 16 = a /\ (16 * a + b) % 16 = b
      OBVIOUS
  <2>2. /\ (16 * x.p1.mode + x.p2.mode) \div 16 = x.p1.mode
        /\ (16 * x.p1.mode + x.p2.mode) % 16 = x.p2.mode
      BY <1>6, <2>1
  <2>3. QED
      BY <1>1, <1>3, <1>9, <2>2
<1>11. ParamValue(m, at + 1 + n, x.p1.mode)
        = x.p1.value % Capacity(size1)
  <2>1. \A j \in 0 .. size1 - 1 : m[at + 1 + n + j] = Digit(x.p1.value, j)
    <3>1. \A j \in 0 .. size1 - 1 : /\ 1 + n + j \in 0 .. Len(w) - 1
                                    /\ at + (1 + n + j) = at + 1 + n + j
      <4>1. Len(w) = 1 + n + size1 + size2
          BY <1>2
      <4>2. n \in Nat /\ size1 \in Nat /\ size2 \in Nat
          BY <1>3, <1>4
      <4> HIDE DEF size1, size2
      <4>3. ASSUME NEW j \in 0 .. size1 - 1
            PROVE  /\ 1 + n + j \in 0 .. Len(w) - 1
                   /\ at + (1 + n + j) = at + 1 + n + j
        <5>1. j \in Nat /\ j < size1
            BY <4>2
        <5>2. 1 + n + j \in 0 .. 1 + n + size1 - 1
            BY <4>2, <5>1
        <5>3. 1 + n + size1 - 1 <= Len(w) - 1
            BY <4>1, <4>2
        <5>4. QED
            BY <1>5, <4>1, <4>2, <5>1, <5>2, <5>3
      <4>4. QED
          BY <4>3
    <3>2. \A j \in 0 .. size1 - 1 : m[at + (1 + n + j)] = w[1 + n + j + 1]
        BY <1>7, <3>1
    <3>3. QED
        BY <1>2, <3>1, <3>2
  <2>2. at + 1 + n \in Nat /\ at + 1 + n + size1 <= MEM_SIZE
    <3>1. Len(w) = 1 + n + size1 + size2
        BY <1>2
    <3>2. n \in Nat /\ size1 \in Nat /\ size2 \in Nat
        BY <1>3, <1>4
    <3>3. at + 1 + n + size1 + size2 = at + Len(w)
        BY <1>5, <3>1, <3>2
    <3>4. at + 1 + n + size1 <= at + 1 + n + size1 + size2
        BY <1>5, <3>2
    <3>5. QED
        BY <1>5, <1>a, <3>2, <3>3, <3>4, MemAssumption
  <2>3. QED
      BY <1>1, <1>7, <2>1, <2>2, ParameterDecoded DEF size1
<1>12. ParamValue(m, at + 1 + n + size1, x.p2.mode)
        = x.p2.value % Capacity(size2)
  <2>1. \A j \in 0 .. size2 - 1 :
            m[at + 1 + n + size1 + j] = Digit(x.p2.value, j)
    <3>1. \A j \in 0 .. size2 - 1 :
              /\ 1 + n + size1 + j \in 0 .. Len(w) - 1
              /\ at + (1 + n + size1 + j) = at + 1 + n + size1 + j
      <4>1. Len(w) = 1 + n + size1 + size2
          BY <1>2
      <4>2. n \in Nat /\ size1 \in Nat /\ size2 \in Nat
          BY <1>3, <1>4
      <4> HIDE DEF size2
      <4>3. ASSUME NEW j \in 0 .. size2 - 1
            PROVE  /\ 1 + n + size1 + j \in 0 .. Len(w) - 1
                   /\ at + (1 + n + size1 + j) = at + 1 + n + size1 + j
        <5>1. j \in Nat /\ j < size2
            BY <4>2
        <5>2. 1 + n + size1 + j \in 0 .. 1 + n + size1 + size2 - 1
            BY <4>2, <5>1
        <5>3. QED
            BY <1>5, <4>1, <4>2, <5>1, <5>2
      <4>4. QED
          BY <4>3
    <3>2. \A j \in 0 .. size2 - 1 :
              m[at + (1 + n + size1 + j)] = w[1 + n + size1 + j + 1]
        BY <1>7, <3>1
    <3>3. QED
        BY <1>2, <3>1, <3>2
  <2>2. /\ at + 1 + n + size1 \in Nat
        /\ at + 1 + n + size1 + size2 <= MEM_SIZE
    <3>1. Len(w) = 1 + n + size1 + size2
        BY <1>2
    <3>2. QED
        BY <1>3, <1>4, <1>5, <1>a, <3>1, MemAssumption
  <2>3. QED
      BY <1>1, <1>7, <2>1, <2>2, ParameterDecoded DEF size2
<1>13. parse_instruction(m, at) =
        [ op  |-> x.op,
          p1  |-> Read(x.p1),
          p2  |-> Read(x.p2),
          len |-> at + 1 + n + size1 + size2 - at ]
    BY <1>1, <1>3, <1>8, <1>10, <1>11, <1>12
       DEF parse_instruction, count, size1, size2, Read
<1>15. at + 1 + n + size1 + size2 - at = Len(w)
  <2>1. Len(w) = 1 + n + size1 + size2
      BY <1>2
  <2>2. n \in Int /\ size1 \in Int /\ size2 \in Int /\ at \in Int
      BY <1>3, <1>4, <1>5
  <2>3. QED
      BY <2>1, <2>2
<1>16. QED
    BY <1>13, <1>15 DEF w
=============================================================================
