------------------------------- MODULE Lexing -------------------------------
(***************************************************************************)
(* What the lexer promises: the tokens of a text are its lexemes, numbers  *)
(* have the value and the size they are written with, and any text comes   *)
(* to its end.                                                             *)
(***************************************************************************)
EXTENDS Tx8Lexer

(* How a text is to be read, a character at a time: between lexemes, in a  *)
(* word, in a string, behind a backslash in it, or in a comment. *)
Reading == [place |-> "between", lexeme |-> << >>, found |-> << >>]

Found(r, token) == [r EXCEPT !.found = Append(@, token), !.lexeme = << >>]
WordEnd(r) == IF r.place # "word" THEN r
              ELSE Found(r, WordToken(r.lexeme[1], r.lexeme))
At(r, place) == [r EXCEPT !.place = place]
With(r, chars) == [r EXCEPT !.lexeme = @ \o chars]

Read(r, char) ==
    CASE r.place = "string" /\ char = "\"" ->
            At(Found(r, [string |-> r.lexeme]), "between")
      [] r.place = "string" /\ char = "\\" -> At(r, "escape")
      [] r.place = "string" /\ char \notin {"\"", "\\"} -> With(r, << char >>)
      [] r.place = "escape" -> At(With(r, Unescaped(char)), "string")
      [] r.place \notin {"string", "escape"} /\ char = "\n" ->
            At(Found(WordEnd(r), [end_of_line |-> TRUE]), "between")
      [] r.place \in {"between", "word"} /\ char = ";" -> At(WordEnd(r), "comment")
      [] r.place \in {"between", "word"} /\ char \in Blank ->
            At(WordEnd(r), "between")
      [] r.place = "between" /\ char = "\"" -> At(r, "string")
      [] r.place = "comment" /\ char # "\n" -> r
      [] OTHER -> At(With(r, << char >>), "word")

ReadAll(chars) == FoldLeft(Read, Reading, chars)

(* A last character that would begin a lexeme, such as the end of the last *)
(* line, is not read: readSpace does not put back what it finds at the end *)
(* of the stream.  A string that is not closed is invalid. *)
Unread(before, last) ==
    \/ before.place = "between"
    \/ before.place \in {"word", "comment"} /\ last = "\n"
Lexemes(chars) ==
    LET before == ReadAll(Front(chars))
        all == IF Unread(before, Last(chars)) THEN before ELSE ReadAll(chars)
    IN  CASE chars = << >> -> << >>
          [] all.place \in {"string", "escape"} -> Found(all, Invalid).found
          [] OTHER -> WordEnd(all).found

(* A comment begins within a word, and goes on in the same word. *)
CommentInWord(chars) ==
    \E i \in DOMAIN chars :
        /\ chars[i] = ";"
        /\ i > 1 /\ chars[i - 1] \notin Space
        /\ i < Len(chars) /\ chars[i + 1] \notin Space

(* The tokens are the lexemes of the text, one after another and none      *)
(* twice, whatever readSpace, next_token and readString put back.  From a  *)
(* string the text up to a comment within a word is read at least, and     *)
(* nothing that is not there; a carriage return is no blank for readSpace. *)
TokensAsWritten ==
    "\r" \notin ToSet(text) =>
        /\ IsPrefix(tokens, Lexemes(text))
        /\ ended /\ (stream.kind = "file" \/ ~CommentInWord(text))
              => tokens = Lexemes(text)

-----------------------------------------------------------------------------
(* The numbers of the language: an optional sign, a base, digits, and the  *)
(* type, by the letter of its sign and its size. *)
Forms == [minus : BOOLEAN, base : {2, 10, 16}, letter : {"i", "u"}, size : {1, 2, 4}]
         \cup [minus : BOOLEAN, base : {2, 10, 16}, letter : {""}, size : {4}]

Prefix(n) == (IF n.minus THEN << "-" >> ELSE << >>)
             \o (CASE n.base = 16 -> << "0", "x" >>
                   [] n.base = 2 -> << "0", "b" >>
                   [] OTHER -> << >>)
Suffix(n) == CASE n.letter = "" -> << >>
               [] n.size = 1 -> << n.letter, "8" >>
               [] n.size = 2 -> << n.letter, "1", "6" >>
               [] OTHER -> << n.letter, "3", "2" >>
Spelled(n, digits) == Prefix(n) \o digits \o Suffix(n)

(* What is between prefix and suffix, if a number has this form. *)
Digits(n, number) ==
    SubSeq(number, Len(Prefix(n)) + 1, Len(number) - Len(Suffix(n)))
HasForm(n, number) ==
    /\ Len(Spelled(n, << >>)) < Len(number)
    /\ number = Spelled(n, Digits(n, number))
    /\ ToSet(Digits(n, number)) \subseteq DigitsOf(n.base)

Magnitude(base, digits) ==
    MapThenSumSet(LAMBDA i : DigitValue(digits[i]) * base ^ (Len(digits) - i),
                  DOMAIN digits)
Number(n, digits) == IF n.minus THEN -Magnitude(n.base, digits)
                     ELSE Magnitude(n.base, digits)

Fits(n, i) ==
    LET signed == -Capacity(n.size) <= 2 * i /\ 2 * i < Capacity(n.size)
        unsigned == 0 <= i /\ i < Capacity(n.size)
    IN  CASE n.letter = "" -> signed \/ unsigned
          [] n.letter = "i" -> signed
          [] OTHER -> unsigned

(* A number that its type can represent is read as an integer of this      *)
(* value and size; one that does not fit never becomes another integer.    *)
NumbersMean ==
    ended /\ Starts(text, DigitsOf(10) \cup {"-"}) /\ Last(text) = "\n" =>
        \A n \in {form \in Forms : HasForm(form, Front(text))} :
            LET i == Number(n, Digits(n, Front(text)))
            IN  IF Fits(n, i)
                THEN tokens = << [integer |-> Word(i), size |-> n.size] >>
                ELSE \A k \in DOMAIN tokens : "integer" \notin DOMAIN tokens[k]

-----------------------------------------------------------------------------
(* next_token comes to the end of every text: no character is put back for *)
(* ever. *)
LexingEnds == <>ended
=============================================================================
