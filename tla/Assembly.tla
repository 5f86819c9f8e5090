------------------------------ MODULE Assembly ------------------------------
(***************************************************************************)
(* What the assembler promises for any source: the parser accepts the      *)
(* lines of the language, and the cpu reads in the binary what the source  *)
(* says, with each label at the node behind it.                            *)
(***************************************************************************)
EXTENDS Tx8Assembler, Programs

CONSTANT Names      \* identifiers of labels

(* The modes of two parameters share a byte.  Names are those of the       *)
(* labels of the sources. *)
ASSUME NamesAssumption ==
    /\ BYTE >= 128
    /\ \A tokens \in Sources : \A n \in DOMAIN tokens :
          Is(tokens[n], "label") => tokens[n].label \in {<< name >> : name \in Names}

Bytes == Seq(ByteRange)
LabelNames == {<< name >> : name \in Names}
              \cup {DataName(n) : n \in 1 .. tables.last_string_id - 1}
IsLabel(l) == /\ l.name \in LabelNames
              /\ l.id \in 2 .. tables.last_label_id
              /\ l.position \in WordRange
IsOperand(p) == p.mode \in {Unused, Label} \cup Constant8 .. RegisterAddress
                /\ p.value \in WordRange

(* Types.  After the second pass no parameter refers to a label, so that   *)
(* the modes of an instruction can be encoded. *)
TypeOK ==
    /\ read \in 0 .. Len(source)
    /\ parser_error \in BOOLEAN
    /\ \A l \in ToSet(tables.labels) : IsLabel(l)
    /\ \A entry \in ToSet(tables.data_section) : entry.data \in Bytes
    /\ \A i \in ToSet(instructions) :
          IF Is(i, "raw") THEN i.raw \in Bytes
          ELSE \A p \in {i.p1, i.p2} :
                  IsOperand(p) /\ (ran => p.mode # Label)
    /\ position \in WordRange
    /\ error \in BOOLEAN
    /\ ran \in BOOLEAN
    /\ call \in Calls
    /\ at \in Places
    /\ next \in Nat
    /\ output.binary \in Bytes

-----------------------------------------------------------------------------
(* The grammar: a line is any number of labels and strings, then at most   *)
(* one instruction, with as many parameters as its operation takes. *)

Ends == {i \in 1 .. Len(source) : Is(source[i], "end_of_line")}
        \cup {Len(source) + 1}
Line(end) ==
    LET begin == Max({0} \cup {e \in Ends : e < end})
    IN  SubSeq(source, begin + 1, end - 1)

Opcodes(line) == {i \in DOMAIN line : Is(line[i], "opcode")}
Statement(token) == Is(token, "label") \/ Is(token, "string")
WellFormed(line) ==
    \/ \A i \in DOMAIN line : Statement(line[i])
    \/ \E i \in Opcodes(line) :
          /\ \A j \in 1 .. i - 1 : Statement(line[j])
          /\ Len(line) = i + ParametersOf(line[i].opcode)
          /\ \A j \in i + 1 .. Len(line) :
                Parameters \cap DOMAIN line[j] # {}

(* The statements of a well-formed line. *)
NodesOf(line) ==
    IF Opcodes(line) = {} THEN line
    ELSE LET i == Max(Opcodes(line))
             p(k) == IF i + k <= Len(line) THEN read_parameter(line[i + k])
                     ELSE None
         IN  Append(SubSeq(line, 1, i - 1), Op2(line[i].opcode, p(1), p(2)))

(* The parser reports an error if and only if some line of the source is   *)
(* not well-formed, although it does not read by lines and resumes behind  *)
(* a token that it did not expect; else it has the nodes of all lines, in  *)
(* their order. *)
ParserAcceptsLines ==
    at = "host" /\ AtEnd =>
      IF \A end \in Ends : WellFormed(Line(end))
      THEN /\ ~parser_error
           /\ ast = FlattenSeq([n \in 1 .. Len(source) + 1 |->
                        IF n \in Ends THEN NodesOf(Line(n)) ELSE << >>])
      ELSE parser_error

-----------------------------------------------------------------------------
(* What the cpu finds in a memory that the binary has been loaded to. *)

BytesAt(memory, address, n) == [i \in 1 .. n |-> memory[address + i - 1]]
Terminated(str) == Append(str, 0)

NodeSize(node, memory, address) ==
    CASE Is(node, "op") -> parse_instruction(memory, address).len
      [] Is(node, "string") -> Len(node.string) + 1
      [] OTHER -> 0

(* The address of each node, by the lengths the cpu decodes, and of what   *)
(* is behind them. *)
Addresses(memory) ==
    LET address[k \in 1 .. Len(ast) + 1] ==
            IF k = 1 THEN ROM_START
            ELSE address[k - 1] + NodeSize(ast[k - 1], memory, address[k - 1])
    IN  address

(* The cpu reads for a parameter what the source means by it. *)
Means(p, decoded, memory, addresses) ==
    CASE Is(p, "label") ->
            /\ decoded.mode = Constant32
            /\ \E k \in DOMAIN ast : /\ ast[k] = p
                                     /\ decoded.value = addresses[k]
      [] Is(p, "string") ->
            /\ decoded.mode = Constant32
            /\ decoded.value >= Last(addresses)
            /\ decoded.value + Len(p.string) < ROM_START + position
            /\ BytesAt(memory, decoded.value, Len(p.string) + 1)
                  = Terminated(p.string)
      [] OTHER -> decoded = Param(p.mode, p.value % Capacity(param_size(p.mode)))

ReadsAs(node, address, memory, addresses) ==
    CASE Is(node, "op") ->
            LET inst == parse_instruction(memory, address)
            IN  /\ inst.op = node.op
                /\ Means(node.p1, inst.p1, memory, addresses)
                /\ Means(node.p2, inst.p2, memory, addresses)
      [] Is(node, "string") ->
            BytesAt(memory, address, Len(node.string) + 1)
              = Terminated(node.string)
      [] OTHER -> TRUE

(* The cpu, decoding the binary from ROM_START on, finds the instructions  *)
(* and strings of the source one after another; labels lead to what they   *)
(* precede and string parameters to their bytes behind the code.           *)
(* get_binary_size is the length of the binary. *)
CpuReadsProgram ==
    at = "host" /\ output.ok /\ ~parser_error =>
        LET memory == Placed(output.binary, ROM_START, 0)
            addresses == Addresses(memory)
        IN  /\ \A k \in DOMAIN ast :
                  ReadsAs(ast[k], addresses[k], memory, addresses)
            /\ position = Len(output.binary)

(* There is no binary if a label is defined twice or is used without being *)
(* defined, and only then. *)
LabelNodes(name) == {k \in DOMAIN ast : ast[k] = [label |-> name]}
UsedNames == {p.label : p \in {q \in UNION {{i.p1, i.p2} :
                  i \in {node \in ToSet(ast) : Is(node, "op")}} : Is(q, "label")}}
LabelsClear ==
    /\ \A k, l \in DOMAIN ast :
          Is(ast[k], "label") /\ ast[k] = ast[l] => k = l
    /\ \A name \in UsedNames : LabelNodes(name) # {}
ErrorsYieldNoBinary ==
    at = "host" /\ ran => /\ error = ~LabelsClear
                          /\ call # "run" => output.ok = LabelsClear

(* Whatever calls a host makes and in which order, a binary once returned  *)
(* is returned again by every later call: assembling is done once. *)
CallsAgree == [][output.ok => output' = output]_vars

(* Every call returns, on any input. *)
CallsComeBack == at # "host" ~> at = "host"

(* The documentation of generate_binary: the binary is returned if         *)
(* successful.  After an error of the parser an empty one is. *)
BinaryOnlyIfSuccessful == output.ok => ~parser_error
=============================================================================
