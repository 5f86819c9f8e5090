------------------------------- MODULE MCAlu -------------------------------
(* Words of four 2-bit bytes.  The first operands are all bytes and halves *)
(* and the words around the limits of words, signed and unsigned; each is  *)
(* combined with every word. *)
EXTENDS AluLaws

AluFirsts == {x \in WordRange : \/ x < SHORT
                                \/ x - WORD \div 2 \in -12 .. 11
                                \/ WORD - x <= SHORT}
AluFloats == {0, WORD - 1}
=============================================================================
