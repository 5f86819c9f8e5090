------------------------------ MODULE Tx8Lexer ------------------------------
(***************************************************************************)
(* The lexer of the assembler (asm/lexer.cpp): characters to tokens.  A    *)
(* word is the sequence of its characters, which are strings of length     *)
(* one.  Tokens are records as in Tx8Parser, but for a string, which has   *)
(* its characters, and for a float, which has the word it was read from.   *)
(*                                                                         *)
(* An optional result is a set that has the value or is empty.             *)
(***************************************************************************)
EXTENDS Tx8Isa, Tx8Stream

CONSTANTS
    Texts,          \* the texts of sources
    MAX_CALLS       \* bound of the model: calls of next_token

ASSUME LexerAssumption == MAX_CALLS \in Nat

VARIABLES
    text,           \* what the stream was opened on
    stream,
    tokens,         \* what next_token has returned
    calls,          \* how often it has been called
    ended           \* it has returned no token

vars == <<text, stream, tokens, calls, ended>>

Blank == {" ", "\t"}
Lower == {"a", "b", "c", "d", "e", "f", "g", "h", "i", "j", "k", "l", "m",
          "n", "o", "p", "q", "r", "s", "t", "u", "v", "w", "x", "y", "z"}
Upper == {"A", "B", "C", "D", "E", "F", "G", "H", "I", "J", "K", "L", "M",
          "N", "O", "P", "Q", "R", "S", "T", "U", "V", "W", "X", "Y", "Z"}
(* The characters of each digit, in either case. *)
HexDigits == << {"0"}, {"1"}, {"2"}, {"3"}, {"4"}, {"5"}, {"6"}, {"7"}, {"8"},
                {"9"}, {"a", "A"}, {"b", "B"}, {"c", "C"}, {"d", "D"},
                {"e", "E"}, {"f", "F"} >>
DigitsOf(base) == UNION {HexDigits[i] : i \in 1 .. base}

Starts(w, chars) == w # << >> /\ w[1] \in chars
From(w, n) == SubSeq(w, n, Len(w))
(* How many characters at the beginning are in a set. *)
Span(w, chars) == Ahead(Opened(w, "string"), ToSet(w) \ chars) - 1

(* Fault: a comment is left to next_token. *)
readSpace_blanks(s) ==
    LET behind == get(s, Ahead(s, ToSet(s.text) \ Blank) - s.pos)
    IN  IF peeked(behind) = EOF THEN peek(behind) ELSE unget(behind, 1)

(* Blanks and a comment; the character behind them, which has been read,   *)
(* is put back, but not at the end of the stream. *)
readSpace(s) ==
    LET behind == get(s, Ahead(s, ToSet(s.text) \ Blank) - s.pos)
        read == IF Good(behind) /\ behind.text[behind.pos] = ";"
                THEN ignore(behind, "\n") ELSE behind
    IN  IF peeked(read) = EOF THEN peek(read) ELSE unget(read, 1)

-----------------------------------------------------------------------------
(* Words. *)

(* Without the names IN_xx of opcodes that have no operation. *)
op_names == ToSet(OpTable) \ {"inv"}

readOpcode(w) ==
    IF w = << >> THEN {}
    ELSE {[opcode |-> name] : name \in {FlattenSeq(w)} \cap op_names}

(* The first two characters of the word decide, in either case. *)
RegisterId ==
    [a |-> A, b |-> B, c |-> C, d |-> D, r |-> R, o |-> O, s |-> S, p |-> P]
    @@ [A |-> A, B |-> B, C |-> C, D |-> D, R |-> R, O |-> O, S |-> S, P |-> P]
reg_id_from_name(w) ==
    {RegisterId[c] + 16 * (CASE Starts(Tail(w), {"b", "B"}) -> 1
                                [] Starts(Tail(w), {"s", "S"}) -> 2
                                [] OTHER -> 0) :
        c \in {letter \in DOMAIN RegisterId : Starts(w, {letter})}}

readRegister(w) == {[register |-> r] : r \in reg_id_from_name(w)}

readIdentifier(w) ==
    IF /\ Starts(w, Lower \cup Upper)
       /\ ToSet(w) \subseteq Lower \cup Upper \cup DigitsOf(10) \cup {"_", "-"}
    THEN {FlattenSeq(w)} ELSE {}

(* std::stoll: a number, and how many characters it has.  Words are too    *)
(* short for a number out of range. *)
DigitValue(digit) == (CHOOSE i \in 1 .. 16 : digit \in HexDigits[i]) - 1
SignLength(w) == IF Starts(w, {"+", "-"}) THEN 1 ELSE 0
HasHexPrefix(w) == Starts(w, {"0"}) /\ Starts(Tail(w), {"x", "X"})
PrefixLength(w, base) ==
    IF /\ base = 16 /\ HasHexPrefix(w)
       /\ Starts(From(w, 3), DigitsOf(16))
    THEN 2 ELSE 0
stoll(w, base) ==
    LET unsigned == From(w, SignLength(w) + 1)
        numeral == From(unsigned, PrefixLength(unsigned, base) + 1)
        count == Span(numeral, DigitsOf(base))
        value == FoldLeft(LAMBDA v, digit : v * base + DigitValue(digit), 0,
                          SubSeq(numeral, 1, count))
    IN  IF count = 0 THEN {}
        ELSE {[value |-> IF Starts(w, {"-"}) THEN -value ELSE value,
               length |-> Len(w) - Len(numeral) + count]}

(* The types an integer may have by its suffix, without one by default. *)
(* Fault: the bound of a type is the first value that it lacks. *)
IntegerType_wide(suffix, size, low, high) ==
    [suffix |-> suffix, size |-> size, low |-> low, high |-> high + 1]
IntegerType(suffix, size, low, high) ==
    [suffix |-> suffix, size |-> size, low |-> low, high |-> high]
IntegerTypes ==
    {IntegerType(<< "i", "8" >>, 1, -(BYTE \div 2), BYTE \div 2 - 1),
     IntegerType(<< "u", "8" >>, 1, 0, BYTE - 1),
     IntegerType(<< "i", "1", "6" >>, 2, -(SHORT \div 2), SHORT \div 2 - 1),
     IntegerType(<< "u", "1", "6" >>, 2, 0, SHORT - 1),
     IntegerType(<< "i", "3", "2" >>, 4, -(WORD \div 2), WORD \div 2 - 1),
     IntegerType(<< "u", "3", "2" >>, 4, 0, WORD - 1),
     IntegerType(<< >>, 4, -(WORD \div 2), WORD - 1)}

(* A sign, a base that the second character of the rest tells, a number,   *)
(* which may again have a sign, and a suffix. *)
readInteger(w) ==
    LET unsigned == IF Starts(w, {"-"}) THEN Tail(w) ELSE w
        base == CASE Starts(From(unsigned, 2), {"x"}) -> 16
                  [] Starts(From(unsigned, 2), {"b"}) -> 2
                  [] OTHER -> 10
        s == IF base = 10 THEN unsigned ELSE From(unsigned, 3)
        i(n) == IF Starts(w, {"-"}) THEN -n.value ELSE n.value
    IN  UNION {{[integer |-> Word(i(n)), size |-> type.size] :
                    type \in {t \in IntegerTypes :
                                 /\ t.suffix = From(s, n.length + 1)
                                 /\ t.low <= i(n) /\ i(n) <= t.high}} :
               n \in stoll(s, base)}

readAddress(w, allow_negative) ==
    {Word(n.value) : n \in {m \in stoll(w, 16) :
        /\ m.length = Len(w)
        /\ m.value < ADDRESS /\ -m.value < ADDRESS
        /\ m.value >= 0 \/ allow_negative}}

(* std::stof, for words without an exponent. *)
readFloat(w) ==
    LET unsigned == From(w, SignLength(w) + 1)
        hex == HasHexPrefix(unsigned)
        numeral == IF hex THEN From(unsigned, 3) ELSE unsigned
        digits == DigitsOf(IF hex THEN 16 ELSE 10)
        points == {n \in DOMAIN numeral : numeral[n] = "."}
    IN  IF /\ ToSet(numeral) \cap digits # {}
           /\ ToSet(numeral) \subseteq digits \cup {"."}
           /\ Cardinality(points) <= 1
        THEN {[float |-> w]} ELSE {}

Invalid == [invalid |-> TRUE]
FirstOf(options) ==
    FoldLeft(LAMBDA found, option : IF found # {} THEN found ELSE option,
             {}, options)

(* The token for a word that begins with a character. *)
WordToken(c, w) ==
    LET name == From(w, 2)
        found ==
          CASE c = ":" -> {[label |-> << n >>] : n \in readIdentifier(name)}
            [] c = "&" -> {[alias |-> n] : n \in readIdentifier(name)}
            [] c = "@" -> {[register_address |-> r] : r \in reg_id_from_name(name)}
            [] c = "#" -> {[absolute_address |-> i] : i \in readAddress(name, FALSE)}
            [] c = "$" -> {[relative_address |-> i] : i \in readAddress(name, TRUE)}
            [] OTHER -> FirstOf(<< readOpcode(w), readRegister(w),
                                   readInteger(w), readFloat(w) >>)
    IN  IF found = {} THEN Invalid ELSE CHOOSE token \in found : TRUE

-----------------------------------------------------------------------------
(* Strings: up to the next quote that is not escaped. *)

Unescaped(c) == CASE c \in {"\"", "\\"} -> << c >>
                  [] c = "n" -> << "\n" >>
                  [] c = "r" -> << "\r" >>
                  [] c = "t" -> << "\t" >>
                  [] OTHER -> << "\\", c >>

ReadCharacter(str, c) ==
    CASE str.closed -> str
      [] str.escaped -> [str EXCEPT !.value = @ \o Unescaped(c),
                                    !.escaped = FALSE, !.length = @ + 1]
      [] OTHER -> [str EXCEPT !.value = IF c \in {"\"", "\\"} THEN @
                                        ELSE Append(@, c),
                              !.escaped = (c = "\\"),
                              !.closed = (c = "\""), !.length = @ + 1]

readString(s) ==
    LET str == FoldLeft(ReadCharacter,
                        [value |-> << >>, length |-> 0,
                         escaped |-> FALSE, closed |-> FALSE],
                        From(s.text, s.pos + 1))
    IN  IF Good(s) /\ str.closed
        THEN [token |-> [string |-> str.value], stream |-> get(s, str.length)]
        ELSE [token |-> Invalid, stream |-> get(s, Len(s.text) + 1)]

-----------------------------------------------------------------------------
(* Calls of next_token. *)

Init == /\ text \in Texts
        /\ \E kind \in Kinds : stream = Opened(text, kind)
        /\ tokens = << >>
        /\ calls = 0
        /\ ended = FALSE

(* The parser calls next_token as long as it gets a token. *)
Call == /\ ~ended /\ calls < MAX_CALLS
        /\ calls' = calls + 1

(* The stream where a token begins, and the character that tells which. *)
Begin == peek(readSpace(stream))
first == peeked(readSpace(stream))
Over == Begin.eof \/ Begin.bad

Return(token, s) ==
    /\ ~Over
    /\ tokens' = Append(tokens, token)
    /\ stream' = s
    /\ UNCHANGED <<text, ended>>

EndOfInput == /\ Over
              /\ ended' = TRUE
              /\ stream' = Begin
              /\ UNCHANGED <<text, tokens>>

EndOfLine == first = "\n" /\ Return([end_of_line |-> TRUE], get(Begin, 1))

(* Up to a comment, which may begin within a word. *)
Uncommented(w) == IF Starts(w, {"\""}) THEN w
                  ELSE SubSeq(w, 1, Span(w, ToSet(w) \ {";"}))

(* Fault: the semicolon is not put back. *)
NextWord_swallow ==
    /\ first \notin {"\n", "\""}
    /\ Return(WordToken(first, Uncommented(word(Begin))), extract(Begin))

(* The semicolon that ends a word is put back for readSpace. *)
NextWord ==
    /\ first \notin {"\n", "\""}
    /\ LET w == word(Begin)
       IN  Return(WordToken(first, Uncommented(w)),
                  IF Uncommented(w) = w THEN extract(Begin)
                  ELSE putback(extract(Begin), ";"))

(* The word is put back up to the quote. *)
NextString ==
    /\ first = "\""
    /\ LET s == readString(unget(extract(Begin), Len(word(Begin)) - 1))
       IN  Return(s.token, s.stream)

Next == Call /\ (EndOfInput \/ EndOfLine \/ NextWord \/ NextString)
Spec == Init /\ [][Next]_vars /\ WF_calls(Call)
=============================================================================
