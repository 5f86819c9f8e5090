--------------------------- MODULE CallDiscipline ---------------------------
(***************************************************************************)
(* What call and ret promise a program that uses the stack for nothing     *)
(* else: calls nest, and a subroutine comes back to the instruction behind *)
(* the call that entered it.                                               *)
(***************************************************************************)
EXTENDS Naturals, Sequences

CONSTANT CallLengths    \* the lengths an encoded call can have

VARIABLES
    at,     \* the address of the next instruction
    frames  \* return addresses, that of the innermost call first

vars == <<at, frames>>

Init == at \in Nat /\ frames = << >>

Enter == /\ \E length \in CallLengths : frames' = <<at + length>> \o frames
         /\ at' \in Nat

Leave == /\ frames # << >>
         /\ at' = Head(frames)
         /\ frames' = Tail(frames)

Local == /\ at' \in Nat
         /\ UNCHANGED frames

Spec == Init /\ [][Enter \/ Leave \/ Local]_vars
=============================================================================
