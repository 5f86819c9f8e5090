------------------------------- MODULE MCFlow -------------------------------
(* Values for the constants of Flow. *)
EXTENDS Flow

NoHash == [name \in {} |-> 0]

(* A small number, one that is negative as a byte and as a half but not as *)
(* a word, and the least word, whose difference to 1 overflows. *)
FlowValues == {1, BYTE \div 2 + SHORT \div 2, WORD \div 2}
=============================================================================
