------------------------------ MODULE MCCodec ------------------------------
(* Values for the constants of Codec. *)
EXTENDS Codec

(* Every byte differs, and the greatest word. *)
CodecValues == {1 + BYTE * (2 + BYTE * (3 + BYTE * 4)), WORD - 1}
=============================================================================
