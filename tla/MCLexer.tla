------------------------------ MODULE MCLexer ------------------------------
(***************************************************************************)
(* Texts for the lexer: all of up to five characters that tell lexemes     *)
(* apart, all of up to three of some fragments, and numbers of every form  *)
(* for bytes of two bits.                                                  *)
(***************************************************************************)
EXTENDS Lexing

Characters == {" ", "\n", ";", "\"", "\\", "a"}

Fragments ==
    {<< " " >>, << "\t" >>, << "\n" >>, << "\r", "\n" >>,
     << ";", "x", "\"" >>, << "h", "l", "t" >>, << "P", "s" >>,
     << "@", "c", "b" >>, << "#", "1", "0" >>, << "$", "-", "F" >>,
     << "&", "x", "-", "_" >>, << ":", "x", "1" >>, << "1", ".", "5" >>,
     << "\"", "n", "\\", "n", ";", "\"" >>, << "x", "\\", "\"" >>}

(* Around the limits of bytes, halves and words: 2 and 4, 8 and 16, 128    *)
(* and 256. *)
SomeDigits(n) ==
    CASE n.base = 2 -> [1 .. 1 -> DigitsOf(2)] \cup [1 .. 4 -> DigitsOf(2)]
      [] n.base = 10 -> [1 .. 1 -> DigitsOf(10)] \cup [1 .. 2 -> {"0", "1", "5", "6"}]
                        \cup {<< h, t, u >> : h \in {"1", "2"}, t \in {"2", "5"},
                                             u \in {"5", "6", "7", "8", "9"}}
      [] OTHER -> UNION {[1 .. k -> {"0", "1", "7", "8", "f"}] : k \in 1 .. 2}
                  \cup {<< "1", "0", "0" >>, << "F" >>, << "1", "A" >>, << "C", "d" >>}
Numbers == UNION {{Append(Spelled(n, digits), "\n") : digits \in SomeDigits(n)} :
                  n \in Forms}

MCTexts == SeqOf(Characters, 5)
           \cup {FlattenSeq(parts) : parts \in SeqOf(Fragments, 3)}
           \cup Numbers
=============================================================================
