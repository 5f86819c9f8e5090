----------------------------- MODULE MCAssembly -----------------------------
(***************************************************************************)
(* Sources for the assembler: all sequences of up to three of some lines,  *)
(* and all sequences of up to four of some tokens, most of which are       *)
(* erroneous.                                                              *)
(***************************************************************************)
EXTENDS Assembly

EndOfLine == [end_of_line |-> TRUE]
Opcode(op) == [opcode |-> op]
LabelToken(name) == [label |-> << name >>]
StringToken(bytes) == [string |-> bytes]
Integer(v, size) == [integer |-> v, size |-> size]
RegisterToken(which) == [register |-> which]

HashOfNames == [name \in {"print"} |-> 300]

(* Labels before and behind their definition, twice in an instruction,     *)
(* defined twice, or not at all; strings of two lengths, one of them       *)
(* twice; parameters of every kind. *)
Lines == { << LabelToken("x") >>,
           << LabelToken("y"), Opcode("inc"), [absolute_address |-> 100] >>,
           << Opcode("jmp"), LabelToken("x") >>,
           << Opcode("ld"), LabelToken("y"), LabelToken("x") >>,
           << Opcode("push"), StringToken(<< 72, 105 >>) >>,
           << Opcode("lds"), StringToken(<< >>), LabelToken("y") >>,
           << StringToken(<< 65 >>), LabelToken("y"),
              Opcode("push"), Integer(5, 2) >>,
           << Opcode("add"), RegisterToken(A), Integer(WORD - 1, 1) >>,
           << Opcode("cmp"), [register_address |-> B],
              [relative_address |-> WORD - 4] >> }

Joined(lines) ==
    FlattenSeq([n \in 1 .. 2 * Len(lines) - 1 |->
                   IF n % 2 = 1 THEN lines[(n + 1) \div 2] ELSE << EndOfLine >>])

SomeTokens == { EndOfLine, Opcode("hlt"), Opcode("inc"), Opcode("cmp"),
                LabelToken("x"), [alias |-> "print"], [invalid |-> TRUE] }

MCSources == {Joined(lines) : lines \in SeqOf(Lines, 3) \ {<< >>}}
             \cup SeqOf(SomeTokens, 4)
=============================================================================
