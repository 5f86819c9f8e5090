----------------------------- MODULE Tx8Parser -----------------------------
(***************************************************************************)
(* The parser of the assembler (asm/parser.cpp): tokens to nodes.          *)
(*                                                                         *)
(* A C++ variant is a record with one field named for the alternative it   *)
(* holds.  Tokens have the fields                                          *)
(*   end_of_line, opcode, label, string, alias, float, register,           *)
(*   register_address, absolute_address, relative_address, invalid,        *)
(* and integer with size.  An opcode is the name of its operation, a       *)
(* string the sequence of its bytes.                                       *)
(***************************************************************************)
EXTENDS Tx8Encode

CONSTANTS
    Sources,    \* the token sequences an input may consist of
    str_hash    \* what an alias stands for

(* The name of a label; a sequence, for the assembler adds names of two    *)
(* elements to them. *)
Name == [{1} -> STRING]

Token == [end_of_line : {TRUE}] \cup [invalid : {TRUE}]
         \cup [opcode : ToSet(OpTable)]
         \cup [label : Name] \cup [alias : DOMAIN str_hash]
         \cup [string : Seq(ByteRange)]
         \cup [integer : WordRange, size : {1, 2, 4}] \cup [float : WordRange]
         \cup [register : ByteRange] \cup [register_address : ByteRange]
         \cup [absolute_address : WordRange] \cup [relative_address : WordRange]

ASSUME SourceAssumption == /\ Sources \subseteq Seq(Token)
                          /\ str_hash \in [DOMAIN str_hash -> WordRange]

VARIABLES
    source,         \* the tokens the lexer finds in its stream
    read,           \* how many of them next_token has returned
    ast,            \* the nodes parsed so far
    parser_error

parser == <<source, read, ast, parser_error>>

Is(variant, alternative) == alternative \in DOMAIN variant

(* The token at an index exists and holds that alternative. *)
TokenIs(at, alternative) == at <= Len(source) /\ Is(source[at], alternative)

Parameters == {"register", "register_address", "absolute_address",
               "relative_address", "integer", "float", "alias", "label",
               "string"}
IsParameter(at) == \E alternative \in Parameters : TokenIs(at, alternative)

Literal(m, v) == [mode |-> m, value |-> v]

(* The parameter read from a token; labels and strings stay as they are. *)
read_parameter(token) ==
    CASE Is(token, "register") -> Literal(Register, token.register)
      [] Is(token, "register_address") ->
            Literal(RegisterAddress, token.register_address)
      [] Is(token, "absolute_address") ->
            Literal(AbsoluteAddress, token.absolute_address)
      [] Is(token, "relative_address") ->
            Literal(RelativeAddress, token.relative_address)
      [] Is(token, "integer") ->
            Literal(CASE token.size = 1 -> Constant8
                      [] token.size = 2 -> Constant16
                      [] OTHER -> Constant32, token.integer)
      [] Is(token, "float") -> Literal(Constant32, token.float)
      [] Is(token, "alias") -> Literal(Constant32, str_hash[token.alias])
      [] OTHER -> token

(* The parameters of an instruction whose opcode is the last token read,   *)
(* and the end of its line.  Reading stops with the first token that does  *)
(* not fit, which is lost; the end of the input ends a line as well.       *)
ParametersOf(op) == param_count(opcode_from_name(op))

(* Fault: whatever follows the parameters is taken for the end of a line. *)
Unfit_lenient(op) ==
    {i \in 1 .. ParametersOf(op) : ~IsParameter(read + 1 + i)}

Unfit(op) ==
    {i \in 1 .. ParametersOf(op) + 1 :
        IF i <= ParametersOf(op) THEN ~IsParameter(read + 1 + i)
        ELSE read + 1 + i <= Len(source) /\ ~TokenIs(read + 1 + i, "end_of_line")}

ReadTo(op) ==
    LET wanted == read + 1 + IF Unfit(op) = {} THEN ParametersOf(op) + 1
                             ELSE Min(Unfit(op))
    IN  IF wanted <= Len(source) THEN wanted ELSE Len(source)

read_instruction(op) ==
    LET p(i) == IF i <= ParametersOf(op) THEN read_parameter(source[read + 1 + i])
                ELSE Literal(Unused, 0)
    IN  [op |-> op, p1 |-> p(1), p2 |-> p(2)]

-----------------------------------------------------------------------------
(* The iterations of the loop of parse. *)

ParserInit == source \in Sources /\ read = 0 /\ ast = << >> /\ parser_error = FALSE

ParseInstruction ==
    /\ TokenIs(read + 1, "opcode")
    /\ LET op == source[read + 1].opcode
       IN  /\ read' = ReadTo(op)
           /\ IF Unfit(op) = {}
              THEN /\ ast' = Append(ast, read_instruction(op))
                   /\ UNCHANGED parser_error
              ELSE parser_error' = TRUE /\ UNCHANGED ast
    /\ UNCHANGED source

(* A label or a string is a statement of its own; more may follow on the   *)
(* same line. *)
ParseLabelOrString ==
    /\ TokenIs(read + 1, "label") \/ TokenIs(read + 1, "string")
    /\ read' = read + 1
    /\ ast' = Append(ast, source[read + 1])
    /\ UNCHANGED <<source, parser_error>>

ParseEndOfLine ==
    /\ TokenIs(read + 1, "end_of_line")
    /\ read' = read + 1
    /\ UNCHANGED <<source, ast, parser_error>>

Statements == {"opcode", "label", "string", "end_of_line"}

(* Fault: the token is not consumed. *)
ParseUnexpected_again ==
    /\ read < Len(source)
    /\ \A alternative \in Statements : ~TokenIs(read + 1, alternative)
    /\ parser_error' = TRUE
    /\ UNCHANGED <<source, read, ast>>

ParseUnexpected ==
    /\ read < Len(source)
    /\ \A alternative \in Statements : ~TokenIs(read + 1, alternative)
    /\ read' = read + 1
    /\ parser_error' = TRUE
    /\ UNCHANGED <<source, ast>>

ParseNode == \/ ParseInstruction \/ ParseLabelOrString
             \/ ParseEndOfLine \/ ParseUnexpected

AtEnd == read = Len(source)
=============================================================================
