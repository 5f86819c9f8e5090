----------------------------- MODULE Tx8Stream -----------------------------
(***************************************************************************)
(* The std::istream the lexer and the rom header are read from, as far as  *)
(* the code uses it.  A stream is a record: its text is the sequence of    *)
(* characters (or bytes), pos how many of them have been extracted, and    *)
(* eof, fail and bad are its state bits.  An operation on a stream that is *)
(* not good only sets fail.                                                *)
(***************************************************************************)
EXTENDS Integers, SequencesExt

Kinds == {"file", "string"}     \* std::ifstream and std::istringstream
EOF == "eof"                    \* what peek returns at the end

Opened(text, kind) == [text |-> text, kind |-> kind, pos |-> 0,
                       eof |-> FALSE, fail |-> FALSE, bad |-> FALSE]

Good(s) == ~(s.eof \/ s.fail \/ s.bad)
Failed(s) == [s EXCEPT !.fail = TRUE]
Exhausted(s) == [s EXCEPT !.pos = Len(s.text), !.eof = TRUE]

Space == {" ", "\t", "\n", "\r"}

(* The index of the first character behind pos that is in a set, or of the *)
(* end. *)
Ahead(s, chars) ==
    Min({i \in s.pos + 1 .. Len(s.text) : s.text[i] \in chars}
        \cup {Len(s.text) + 1})

-----------------------------------------------------------------------------
(* Unformatted input. *)

peeked(s) == IF Good(s) /\ s.pos < Len(s.text) THEN s.text[s.pos + 1] ELSE EOF
peek(s) == IF ~Good(s) THEN Failed(s)
           ELSE IF s.pos < Len(s.text) THEN s
           ELSE [s EXCEPT !.eof = TRUE]

(* The next n characters; if there are fewer, the stream is at its end and *)
(* has failed.  One character is read by get. *)
get(s, n) == IF ~Good(s) THEN Failed(s)
             ELSE IF s.pos + n <= Len(s.text) \/ n = 0
             THEN [s EXCEPT !.pos = @ + n]
             ELSE Failed(Exhausted(s))

(* Everything up to a character, and the character. *)
ignore(s, char) ==
    IF ~Good(s) THEN Failed(s)
    ELSE IF Ahead(s, {char}) > Len(s.text) THEN Exhausted(s)
    ELSE [s EXCEPT !.pos = Ahead(s, {char})]

(* n calls of unget, after as many characters have been extracted. *)
unget(s, n) ==
    IF n = 0 THEN s
    ELSE IF s.fail \/ s.bad THEN [s EXCEPT !.eof = FALSE, !.fail = TRUE]
    ELSE [s EXCEPT !.eof = FALSE, !.pos = @ - n]

(* A character is put back in the place of the one extracted last.  If     *)
(* that was another one, a file replaces it in its buffer; a string that   *)
(* is open for input only cannot, and the stream is lost. *)
putback(s, char) ==
    IF s.fail \/ s.bad THEN [s EXCEPT !.eof = FALSE, !.fail = TRUE]
    ELSE IF s.pos > 0 /\ (s.kind = "file" \/ s.text[s.pos] = char)
    THEN [s EXCEPT !.eof = FALSE, !.pos = @ - 1, !.text[s.pos] = char]
    ELSE [s EXCEPT !.eof = FALSE, !.bad = TRUE]

(* The end is forgotten first, a failure never. *)
seek(s, pos) == IF s.fail \/ s.bad THEN [s EXCEPT !.eof = FALSE, !.fail = TRUE]
                ELSE [s EXCEPT !.eof = FALSE, !.pos = pos]

-----------------------------------------------------------------------------
(* Formatted input of a word: white space is skipped first. *)

Skipped(s) == [s EXCEPT !.pos = Ahead(s, ToSet(s.text) \ Space) - 1]
word(s) == IF ~Good(s) THEN << >>
           ELSE LET begin == Skipped(s)
                IN  SubSeq(s.text, begin.pos + 1, Ahead(begin, Space) - 1)
extract(s) ==
    IF ~Good(s) THEN Failed(s)
    ELSE IF word(s) = << >> THEN Failed(Exhausted(s))
    ELSE LET end == Ahead(Skipped(s), Space) - 1
         IN  [s EXCEPT !.pos = end, !.eof = (end = Len(s.text))]
=============================================================================
