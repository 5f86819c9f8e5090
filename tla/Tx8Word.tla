------------------------------ MODULE Tx8Word ------------------------------
(***************************************************************************)
(* The fixed-width integers of the tx8 cpu: uint8, uint16 and uint32, and  *)
(* the conversions C++ makes between them.                                 *)
(*                                                                         *)
(* A byte has BYTE_BITS bits.  The code has 8; the model checker uses      *)
(* fewer, because its own integers have 32 bits, and the proofs hold for   *)
(* every value.                                                            *)
(***************************************************************************)
EXTENDS Integers

CONSTANT
    BYTE_BITS,  \* bits of a byte (8 in the code)
    BYTE        \* number of byte values, 2 ^ BYTE_BITS (256 in the code)

(* The powers of two up to the number of words, in place of the operator ^ *)
(* of which the provers know nothing. *)
Pow2[n \in 0 .. 4 * BYTE_BITS] == IF n = 0 THEN 1 ELSE 2 * Pow2[n - 1]

ASSUME ByteAssumption == /\ BYTE_BITS \in Nat \ {0}
                        /\ BYTE \in Nat /\ BYTE > 1
                        /\ BYTE = Pow2[BYTE_BITS]

(* How many values fit in a ValueSize: Byte = 1, Short = 2 and Word = 4    *)
(* bytes; 3 is the width of an address parameter and 0 of an unused one.   *)
SHORT == BYTE * BYTE
ADDRESS == BYTE * SHORT
WORD == BYTE * ADDRESS

ByteRange == 0 .. BYTE - 1
WordRange == 0 .. WORD - 1

Sizes == {0, 1, 2, 3, 4}
Capacity(size) == CASE size = 1 -> BYTE
                    [] size = 2 -> SHORT
                    [] size = 3 -> ADDRESS
                    [] size = 4 -> WORD
                    [] OTHER -> 1

Bits(size) == size * BYTE_BITS

(* Wrap-around of unsigned arithmetic, and of a cast to uint32. *)
Word(x) == x % WORD

(* The byte of x at offset i, the least significant one first. *)
Digit(x, i) == (x \div Capacity(i)) % BYTE

(* The word whose bytes are d0 (least significant) to d3. *)
Compose(d0, d1, d2, d3) == d0 + BYTE * (d1 + BYTE * (d2 + BYTE * d3))

(* Reading the size low bytes of x as a signed number, and the word that a *)
(* cast of that number back to uint32 yields.                              *)
Signed(x, size) ==
    LET v == x % Capacity(size)
    IN  IF 2 * v >= Capacity(size) THEN v - Capacity(size) ELSE v
SignExtend(x, size) == Word(Signed(x, size))
=============================================================================
