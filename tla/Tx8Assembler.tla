---------------------------- MODULE Tx8Assembler ----------------------------
(***************************************************************************)
(* The assembler (asm/assembler.cpp): nodes to a binary, in two passes.    *)
(* The first one adds up the lengths of the nodes, by which labels get     *)
(* their positions, and the second one puts these into the instructions    *)
(* that refer to labels.                                                   *)
(*                                                                         *)
(* The host calls run, generate_binary and write_binary in any order; the  *)
(* latter two begin with a call of run.                                    *)
(***************************************************************************)
EXTENDS Tx8Parser

CONSTANT ROM_START      \* address of the first byte of a binary

ASSUME OriginAssumption == ROM_START \in Nat

VARIABLES
    tables,         \* the labels and strings that were met so far
    instructions,   \* encodable instructions, and [raw |-> bytes]
    position,       \* length of the binary up to here
    error,
    ran,
    call,           \* the call the host has made last
    at,             \* where it is
    next,           \* the index of the loop it is in
    output          \* what calls have returned: the last binary, or its lack

vars == <<source, read, ast, parser_error, tables, instructions, position,
          error, ran, call, at, next, output>>

Calls == {"run", "generate_binary", "write_binary"}
Places == {"host", "parse", "nodes", "data", "convert", "return"}

INVALID_LABEL_ADDRESS == WORD - 1
NoOutput == [ok |-> FALSE, binary |-> << >>]
NoTables == [labels |-> << >>, last_label_id |-> 1,
             data_section |-> << >>, last_string_id |-> 1]

-----------------------------------------------------------------------------
(* Labels.  A name is a sequence: <<identifier>> for a label of the source *)
(* and <<prefix, number>> for the label of a string, which begins with an  *)
(* underscore as no identifier does. *)

DataName(n) == << "__tx_data_str", n >>

Known(t, name) == \E label \in ToSet(t.labels) : label.name = name

handle_label(t, name) ==
    IF Known(t, name) THEN t
    ELSE [t EXCEPT !.labels = Append(@, [name |-> name,
                                         id |-> t.last_label_id + 1,
                                         position |-> INVALID_LABEL_ADDRESS]),
                   !.last_label_id = @ + 1]

handle_string(t, str) ==
    LET name == DataName(t.last_string_id)
    IN  [handle_label(t, name) EXCEPT
            !.last_string_id = @ + 1,
            !.data_section = Append(@, [label_name |-> name,
                                        data |-> Append(str, 0)])]

LabelId(t, name) ==
    (CHOOSE label \in ToSet(t.labels) : label.name = name).id

(* Fault: a second definition is not an error. *)
Unplaced_known(t, name) == Known(t, name)

(* A label with this name waits for its position; if there is none, an     *)
(* error is reported. *)
Unplaced(t, name) == \E label \in ToSet(t.labels) :
    label.name = name /\ label.position = INVALID_LABEL_ADDRESS

set_label_position(t, name) ==
    [t EXCEPT !.labels = [i \in DOMAIN @ |->
        IF @[i].name = name /\ @[i].position = INVALID_LABEL_ADDRESS
        THEN [@[i] EXCEPT !.position = Word(ROM_START + position)]
        ELSE @[i]]]

Resolved(id) == \E label \in ToSet(tables.labels) :
    label.id = id /\ label.position # INVALID_LABEL_ADDRESS

(* Zero, with an error, for a label without a position. *)
convert_label(id) ==
    IF Resolved(id)
    THEN (CHOOSE label \in ToSet(tables.labels) : label.id = id).position
    ELSE 0

-----------------------------------------------------------------------------
(* The first pass: the loop over the nodes. *)

(* A parameter that names a label or is a string is registered, and stands *)
(* for the id of its label until the second pass. *)
Registered(t, p) == CASE Is(p, "label") -> handle_label(t, p.label)
                      [] Is(p, "string") -> handle_string(t, p.string)
                      [] OTHER -> t
Operand(t, p) ==
    CASE Is(p, "label") -> Literal(Label, LabelId(t, p.label))
      [] Is(p, "string") ->
            Literal(Label, LabelId(t, DataName(t.last_string_id - 1)))
      [] OTHER -> p

add_instruction(i) ==
    /\ instructions' = Append(instructions, i)
    /\ position' = Word(position + calculate_instruction_length(i))

AtNode(alternative) == at = "nodes" /\ next <= Len(ast) /\ Is(ast[next], alternative)

InstructionNode ==
    /\ AtNode("op")
    /\ LET first == Registered(tables, ast[next].p1)
           second == Registered(first, ast[next].p2)
       IN  /\ tables' = second
           /\ add_instruction([ast[next] EXCEPT !.p1 = Operand(first, @),
                                                !.p2 = Operand(second, @)])
    /\ next' = next + 1
    /\ UNCHANGED <<error, ran, at>>

LabelNode ==
    /\ AtNode("label")
    /\ LET name == ast[next].label
           known == handle_label(tables, name)
       IN  /\ tables' = set_label_position(known, name)
           /\ error' = (error \/ ~Unplaced(known, name))
    /\ next' = next + 1
    /\ UNCHANGED <<instructions, position, ran, at>>

(* Fault: the zero byte behind the string is not counted. *)
StringNode_short ==
    /\ AtNode("string")
    /\ instructions' = Append(instructions,
                              [raw |-> Append(ast[next].string, 0)])
    /\ position' = Word(position + Len(ast[next].string))
    /\ next' = next + 1
    /\ UNCHANGED <<tables, error, ran, at>>

StringNode ==
    /\ AtNode("string")
    /\ instructions' = Append(instructions,
                              [raw |-> Append(ast[next].string, 0)])
    /\ position' = Word(position + Len(ast[next].string) + 1)
    /\ next' = next + 1
    /\ UNCHANGED <<tables, error, ran, at>>

NodesEnd ==
    /\ at = "nodes" /\ next > Len(ast)
    /\ at' = "data" /\ next' = 1
    /\ UNCHANGED <<tables, instructions, position, error, ran>>

(* The strings that are parameters go behind the last node. *)
DataEntry ==
    /\ at = "data" /\ next <= Len(tables.data_section)
    /\ LET entry == tables.data_section[next]
       IN  /\ tables' = set_label_position(tables, entry.label_name)
           /\ error' = (error \/ ~Unplaced(tables, entry.label_name))
           /\ position' = Word(position + Len(entry.data))
    /\ next' = next + 1
    /\ UNCHANGED <<instructions, ran, at>>

DataEnd ==
    /\ at = "data" /\ next > Len(tables.data_section)
    /\ at' = "convert"
    /\ UNCHANGED <<tables, instructions, position, error, ran, next>>

(* The second pass. *)

(* Fault: the parameter stays a label. *)
Converted_label(p) == IF p.mode = Label THEN Literal(Label, convert_label(p.value))
                      ELSE p

Converted(p) == IF p.mode = Label THEN Literal(Constant32, convert_label(p.value))
                ELSE p
Dangles(p) == p.mode = Label /\ ~Resolved(p.value)

(* Fault: the assembler does not remember that it ran. *)
convert_labels_forgetting ==
    /\ at = "convert"
    /\ instructions' = [n \in DOMAIN instructions |->
         IF Is(instructions[n], "raw") THEN instructions[n]
         ELSE [instructions[n] EXCEPT !.p1 = Converted(@), !.p2 = Converted(@)]]
    /\ error' = (error \/ \E i \in ToSet(instructions) :
                    ~Is(i, "raw") /\ (Dangles(i.p1) \/ Dangles(i.p2)))
    /\ at' = "return"
    /\ UNCHANGED <<tables, position, ran, next>>

convert_labels ==
    /\ at = "convert"
    /\ instructions' = [n \in DOMAIN instructions |->
         IF Is(instructions[n], "raw") THEN instructions[n]
         ELSE [instructions[n] EXCEPT !.p1 = Converted(@), !.p2 = Converted(@)]]
    /\ error' = (error \/ \E i \in ToSet(instructions) :
                    ~Is(i, "raw") /\ (Dangles(i.p1) \/ Dangles(i.p2)))
    /\ ran' = TRUE
    /\ at' = "return"
    /\ UNCHANGED <<tables, position, next>>

-----------------------------------------------------------------------------
(* Calls. *)

Init == /\ ParserInit
        /\ tables = NoTables
        /\ instructions = << >>
        /\ position = 0
        /\ error = FALSE
        /\ ran = FALSE
        /\ call = "run"
        /\ at = "host"
        /\ next = 1
        /\ output = NoOutput

Enter ==
    /\ at = "host"
    /\ call' \in Calls
    /\ at' = IF ran THEN "return" ELSE "parse"
    /\ UNCHANGED <<parser, tables, instructions, position, error, ran, next,
                   output>>

(* run calls parse, which goes on where the lexer is, and is left again    *)
(* with neither error nor ran set if the parser has reported an error. *)
Parse ==
    /\ at = "parse" /\ ParseNode
    /\ UNCHANGED <<tables, instructions, position, error, ran, call, at, next,
                   output>>

Parsed ==
    /\ at = "parse" /\ AtEnd
    /\ at' = IF parser_error THEN "return" ELSE "nodes"
    /\ next' = 1
    /\ UNCHANGED <<parser, tables, instructions, position, error, ran, call,
                   output>>

Pass ==
    /\ \/ InstructionNode \/ LabelNode \/ StringNode \/ NodesEnd
       \/ DataEntry \/ DataEnd \/ convert_labels
    /\ UNCHANGED <<parser, call, output>>

binary ==
    FlattenSeq([n \in DOMAIN instructions |->
        IF Is(instructions[n], "raw") THEN instructions[n].raw
        ELSE write_instruction(instructions[n])])
    \o FlattenSeq([n \in DOMAIN tables.data_section |->
                      tables.data_section[n].data])

(* generate_binary returns the binary and write_binary writes it to a      *)
(* stream, both unless error is set. *)
Return ==
    /\ at = "return"
    /\ at' = "host"
    /\ output' = IF call = "run" THEN output
                 ELSE IF error THEN NoOutput
                 ELSE [ok |-> TRUE, binary |-> binary]
    /\ UNCHANGED <<parser, tables, instructions, position, error, ran, call,
                   next>>

(* The thread is inside the assembler. *)
Work == Parse \/ Parsed \/ Pass \/ Return

Next == Enter \/ Work
Spec == Init /\ [][Next]_vars /\ WF_vars(Work)
=============================================================================
