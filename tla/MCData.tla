------------------------------- MODULE MCData -------------------------------
(* Values for the constants of Data. *)
EXTENDS Data

NoHash == [name \in {} |-> 0]

(* Every byte differs; the byte and the half are negative in one of them.  *)
DataValues == {1 + BYTE * (2 + BYTE * (3 + BYTE * 4)),
               WORD - 1 - (5 + BYTE * (6 + BYTE * 7))}
DataFloats == {0, WORD - 1}
=============================================================================
