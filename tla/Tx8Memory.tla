----------------------------- MODULE Tx8Memory -----------------------------
(***************************************************************************)
(* The memory of the cpu (CPU::mem_read and CPU::mem_write).               *)
(*                                                                         *)
(* The code allocates MEM_SIZE bytes, addresses 0 .. MEM_SIZE - 1, and     *)
(* masks an address with MEM_SIZE itself (0xffffff), so that an access can *)
(* start at MEM_SIZE.  The cells from MEM_SIZE on are not part of the      *)
(* vector: they are the bytes behind it, which in the program's builds     *)
(* belong to the same allocation and behave as memory.                     *)
(***************************************************************************)
EXTENDS Tx8Word

CONSTANT MEM_SIZE   \* size of the memory and mask of addresses, 0xffffff

ASSUME MemAssumption == MEM_SIZE \in Nat /\ MEM_SIZE > 16 /\ MEM_SIZE < WORD

InMemory == 0 .. MEM_SIZE - 1
Cells == 0 .. MEM_SIZE + 3
Memory == [Cells -> ByteRange]

(* location & MEM_SIZE, where MEM_SIZE is one less than a power of two *)
Masked(location) == location % (MEM_SIZE + 1)

(* The number of bytes an access of size bytes transfers.  The distance to *)
(* the end is computed from the address as given, not from the masked one, *)
(* in unsigned arithmetic.                                                 *)
Clipped(location, size) ==
    LET left == Word(MEM_SIZE - location)
    IN  IF left < size THEN left ELSE size

mem_read(mem, location, size) ==
    LET base == Masked(location)
        n == Clipped(location, size)
        At(i) == IF i < n THEN mem[base + i] ELSE 0
    IN  Compose(At(0), At(1), At(2), At(3))

mem_write(mem, location, value, size) ==
    LET base == Masked(location)
        n == Clipped(location, size)
    IN  [c \in Cells |-> IF c >= base /\ c - base < n
                         THEN Digit(value, c - base) ELSE mem[c]]
=============================================================================
