------------------------------- MODULE MCCli -------------------------------
(***************************************************************************)
(* Sources for the cli: an empty one, one that is shorter than the magic   *)
(* bytes, one with labels and strings, one larger than a rom may be, and   *)
(* one for each kind of error.                                             *)
(***************************************************************************)
EXTENDS Cli

SourceFile(length, tokens) ==
    [bytes |-> [i \in 1 .. length |-> 104], tokens |-> tokens]
EndOfLine == [end_of_line |-> TRUE]
Opcode(op) == [opcode |-> op]
LabelToken(name) == [label |-> << name >>]

MCSourceFiles ==
    {SourceFile(0, << >>),
     SourceFile(3, << Opcode("hlt") >>),
     SourceFile(9, << LabelToken("x"), Opcode("push"), [string |-> << 72 >>],
                      EndOfLine, Opcode("jmp"), LabelToken("x") >>),
     SourceFile(9, << Opcode("jmp"), LabelToken("x") >>),
     SourceFile(9, << Opcode("inc"), EndOfLine, Opcode("hlt") >>),
     SourceFile(9, << [string |-> [i \in 1 .. 16 |-> 65]] >>)}

MCSources == {file.tokens : file \in MCSourceFiles} \cup {<< [invalid |-> TRUE] >>}

Title(name, description) == [name |-> name, description |-> description]
MCTitles == {Title(<< 71, 97 >>, << 68 >>), Title(<< >>, << >>),
             Title([i \in 1 .. BYTE + 2 |-> 65], << >>)}

NoHash == [name \in {} |-> 0]
=============================================================================
