--------------------------- MODULE Assembly_proofs ---------------------------
(***************************************************************************)
(* What a host may rely on when it assembles a source, whatever it calls   *)
(* and in which order: its calls agree on the result, there is a binary    *)
(* exactly when every label that is used has a position, and the cpu reads *)
(* from that binary what the source says.                                  *)
(***************************************************************************)
EXTENDS Assembly, Tx8Isa_proofs

(* Where the thread is determines what has happened: the passes run only   *)
(* before ran is set and after the parser has accepted the source.  After  *)
(* an error of the parser its input is used up, so that parsing again      *)
(* changes nothing. *)
Refused == parser_error /\ AtEnd
Passing == at \in {"nodes", "data", "convert"}
PhaseInv == /\ at \in Places
            /\ at = "parse" => ~ran
            /\ Passing => ~ran /\ ~parser_error
            /\ at = "return" => ran \/ Refused

(* A binary that was returned is the one that the assembler holds, which   *)
(* is the final one. *)
OutputInv == output.ok => /\ output = [ok |-> TRUE, binary |-> binary]
                          /\ ~error
                          /\ ran \/ Refused

AgreeInv == source \in Seq(Token) /\ PhaseInv /\ OutputInv

(* No iteration of parse begins at the end of the input. *)
LEMMA ParseNeedsToken ==
    ASSUME source \in Seq(Token), AtEnd
    PROVE  ~ParseNode
<1>1. \A alternative : ~TokenIs(read + 1, alternative)
    BY DEF TokenIs, AtEnd
<1>2. ~(read < Len(source))
    BY DEF AtEnd
<1>3. QED
    BY <1>1, <1>2 DEF ParseNode, ParseInstruction, ParseLabelOrString,
       ParseEndOfLine, ParseUnexpected

(* Before the first call nothing has been returned. *)
LEMMA AgreeInit == Init => AgreeInv
BY SourceAssumption DEF Init, ParserInit, AgreeInv, PhaseInv, OutputInv,
   Passing, Refused, Places, NoOutput, NoTables

(* The members that a binary is made of. *)
made_of == <<instructions, tables>>

(* No step changes the binary that was returned. *)
LEMMA AgreeNext ==
    ASSUME AgreeInv, [Next]_vars
    PROVE  AgreeInv' /\ (output.ok => output' = output)
<1>1. CASE Enter
  <2>1. /\ UNCHANGED <<source, read, parser_error, made_of, error, ran,
                       output>>
        /\ at' = IF ran THEN "return" ELSE "parse"
      BY <1>1 DEF Enter, parser, made_of
  <2>2. binary' = binary
      BY <2>1 DEF binary, made_of
  <2>3. QED
      BY <2>1, <2>2 DEF AgreeInv, PhaseInv, OutputInv, Passing, Refused, AtEnd,
         Places
<1>2. CASE Parse
  <2>1. /\ UNCHANGED <<source, made_of, error, ran, at, output>>
        /\ at = "parse" /\ ParseNode
      BY <1>2 DEF Parse, ParseNode, ParseInstruction, ParseLabelOrString,
         ParseEndOfLine, ParseUnexpected, made_of
  <2>2. ~output.ok
      BY <2>1, ParseNeedsToken DEF AgreeInv, PhaseInv, OutputInv, Refused
  <2>3. QED
      BY <2>1, <2>2 DEF AgreeInv, PhaseInv, OutputInv, Passing, Refused, Places
<1>3. CASE Parsed
  <2>1. /\ UNCHANGED <<source, read, parser_error, made_of, error, ran,
                       output>>
        /\ at = "parse" /\ AtEnd
        /\ at' = IF parser_error THEN "return" ELSE "nodes"
      BY <1>3 DEF Parsed, parser, made_of
  <2>2. binary' = binary
      BY <2>1 DEF binary, made_of
  <2>3. QED
      BY <2>1, <2>2 DEF AgreeInv, PhaseInv, OutputInv, Passing, Refused, AtEnd,
         Places
<1>4. CASE Pass
  <2>1. /\ UNCHANGED <<source, parser_error, output>>
        /\ Passing
        /\ \/ ran' = ran /\ at' \in {"nodes", "data", "convert"}
           \/ ran' = TRUE /\ at' = "return"
      BY <1>4 DEF Pass, parser, Passing, AtNode, InstructionNode, LabelNode,
         StringNode, NodesEnd, DataEntry, DataEnd, convert_labels
  <2>2. ~output.ok
      BY <2>1 DEF AgreeInv, PhaseInv, OutputInv, Refused
  <2>3. QED
      BY <2>1, <2>2 DEF AgreeInv, PhaseInv, OutputInv, Passing, Places
<1>5. CASE Return
  <2>1. /\ UNCHANGED <<source, read, parser_error, made_of, error, ran>>
        /\ at = "return" /\ at' = "host"
        /\ output' = IF call = "run" THEN output
                     ELSE IF error THEN NoOutput
                     ELSE [ok |-> TRUE, binary |-> binary]
      BY <1>5 DEF Return, parser, made_of
  <2>2. binary' = binary
      BY <2>1 DEF binary, made_of
  <2>3. \/ output' = output
        \/ error /\ output' = NoOutput
        \/ ~error /\ output' = [ok |-> TRUE, binary |-> binary]
      BY <2>1
  <2>4. (ran \/ Refused) /\ (ran \/ Refused)'
      BY <2>1 DEF AgreeInv, PhaseInv, Refused, AtEnd
  <2>5. OutputInv' /\ (output.ok => output' = output)
      BY <2>1, <2>2, <2>3, <2>4 DEF AgreeInv, OutputInv, NoOutput
  <2>6. QED
      BY <2>1, <2>5 DEF AgreeInv, PhaseInv, Passing, Places
<1>6. CASE UNCHANGED vars
  <2>1. binary' = binary
      BY <1>6 DEF vars, binary
  <2>2. QED
      BY <1>6, <2>1 DEF vars, AgreeInv, PhaseInv, OutputInv, Passing, Refused,
         AtEnd
<1>7. QED
    BY <1>1, <1>2, <1>3, <1>4, <1>5, <1>6 DEF Next, Work

(* Whatever calls a host makes and in which order, a binary once returned  *)
(* is returned again by every later call: run assembles once, and after an *)
(* error of the parser it finds no further token. *)
THEOREM BinaryIsFinal == Spec => CallsAgree
<1>1. Init => AgreeInv
    BY AgreeInit
<1>2. AgreeInv /\ [Next]_vars => AgreeInv' /\ (output.ok => output' = output)
    BY AgreeNext
<1>3. QED
    BY <1>1, <1>2, PTL DEF Spec, CallsAgree

-----------------------------------------------------------------------------
(* The parser makes nodes of three kinds, and tokens of one alternative    *)
(* each. *)

(* The nodes that the parser makes: an instruction has the parameters that  *)
(* its operation takes, and no others. *)
Given == [mode : 1 .. 7, value : WordRange]
         \cup [label : Name] \cup [string : Bytes]
NodeParam == Given \cup {Literal(Unused, 0)}
Complete(node) ==
    /\ node.p1 \in IF ParametersOf(node.op) > 0 THEN Given
                   ELSE {Literal(Unused, 0)}
    /\ node.p2 \in IF ParametersOf(node.op) > 1 THEN Given
                   ELSE {Literal(Unused, 0)}
OpNode == {node \in [op : ToSet(OpTable), p1 : NodeParam, p2 : NodeParam] :
              Complete(node)}
Node == OpNode \cup [label : Name] \cup [string : Bytes]

(* A token that is a parameter stands for one. *)
LEMMA ParameterType ==
    ASSUME source \in Seq(Token), NEW n \in Nat \ {0}, IsParameter(n)
    PROVE  read_parameter(source[n]) \in Given
<1> DEFINE token == source[n]
<1>1. token \in Token
  <2>1. n \in 1 .. Len(source)
      BY DEF IsParameter, TokenIs
  <2>2. QED
      BY <2>1
<1>2. \E alternative \in Parameters : alternative \in DOMAIN token
    BY DEF IsParameter, TokenIs, Is
<1> HIDE DEF token
<1>3. read_parameter(token) \in Given
  <2>1. CASE \/ token \in [register : ByteRange]
             \/ token \in [register_address : ByteRange]
    <3>1. \A b \in ByteRange : b \in WordRange
        BY Widths DEF ByteRange, WordRange
    <3>2. QED
        BY <2>1, <3>1 DEF read_parameter, Is, Given, Literal, Register,
           RegisterAddress
  <2>2. CASE \/ token \in [absolute_address : WordRange]
             \/ token \in [relative_address : WordRange]
      BY <2>2 DEF read_parameter, Is, Given, Literal, AbsoluteAddress,
         RelativeAddress
  <2>3. CASE token \in [integer : WordRange, size : {1, 2, 4}]
      BY <2>3 DEF read_parameter, Is, Given, Literal, Constant8,
         Constant16, Constant32
  <2>4. CASE token \in [float : WordRange]
      BY <2>4 DEF read_parameter, Is, Given, Literal, Constant32
  <2>5. CASE token \in [alias : DOMAIN str_hash]
    <3>1. str_hash[token.alias] \in WordRange
        BY <2>5, SourceAssumption
    <3>2. QED
        BY <2>5, <3>1 DEF read_parameter, Is, Given, Literal, Constant32
  <2>6. CASE token \in [label : Name] \/ token \in [string : Bytes]
      BY <2>6 DEF read_parameter, Is, Given
  <2>7. CASE token \in [end_of_line : {TRUE}] \/ token \in [invalid : {TRUE}]
             \/ token \in [opcode : ToSet(OpTable)]
      BY <1>2, <2>7 DEF Parameters
  <2>8. QED
      BY <1>1, <2>1, <2>2, <2>3, <2>4, <2>5, <2>6, <2>7 DEF Token, Bytes
<1>4. QED
    BY <1>3 DEF token

(* A token holds one alternative. *)
LEMMA TokenAlternative ==
    ASSUME NEW token \in Token
    PROVE  /\ "opcode" \in DOMAIN token => token \in [opcode : ToSet(OpTable)]
           /\ "label" \in DOMAIN token => token \in [label : Name]
           /\ "string" \in DOMAIN token => token \in [string : Bytes]
<1>1. CASE \/ token \in [opcode : ToSet(OpTable)] \/ token \in [label : Name]
           \/ token \in [string : Bytes]
    BY <1>1
<1>2. CASE \/ token \in [register : ByteRange]
           \/ token \in [register_address : ByteRange]
           \/ token \in [absolute_address : WordRange]
           \/ token \in [relative_address : WordRange]
    BY <1>2
<1>3. CASE \/ token \in [integer : WordRange, size : {1, 2, 4}]
           \/ token \in [float : WordRange]
           \/ token \in [alias : DOMAIN str_hash]
           \/ token \in [end_of_line : {TRUE}] \/ token \in [invalid : {TRUE}]
    BY <1>3
<1>4. QED
    BY <1>1, <1>2, <1>3 DEF Token, Bytes

(* An iteration of parse adds at most one node. *)
LEMMA AstStep ==
    ASSUME source \in Seq(Token), read \in Nat, ast \in Seq(Node), ParseNode
    PROVE  ast' \in Seq(Node) /\ read' \in Nat
<1>1. CASE ParseInstruction
  <2> DEFINE op == source[read + 1].opcode
             count == ParametersOf(op)
  <2>1. op \in ToSet(OpTable)
    <3>1. read + 1 \in 1 .. Len(source) /\ "opcode" \in DOMAIN source[read + 1]
        BY <1>1 DEF ParseInstruction, TokenIs, Is
    <3> DEFINE token == source[read + 1]
    <3>2. token \in Token /\ "opcode" \in DOMAIN token
        BY <3>1
    <3> HIDE DEF token
    <3>3. token \in [opcode : ToSet(OpTable)]
        BY <3>2, TokenAlternative
    <3>4. token.opcode \in ToSet(OpTable)
        BY <3>3
    <3>5. QED
        BY <3>4 DEF token
  <2>2. count \in {0, 1, 2}
    <3> HIDE DEF op
    <3> DEFINE opcode == opcode_from_name(op)
    <3>1. opcode \in 0 .. 127
        BY <2>1, OpcodeOfName
    <3> HIDE DEF opcode
    <3>2. opcode \in Nat
        BY <3>1
    <3>3. QED
        BY <3>2, ParamCount DEF ParametersOf, opcode
  <2>3. /\ read' = ReadTo(op)
        /\ Unfit(op) = {} => ast' = Append(ast, read_instruction(op))
        /\ Unfit(op) # {} => ast' = ast
      BY <1>1 DEF ParseInstruction
  <2>4. ReadTo(op) \in Nat
    <3>1. Len(source) \in Nat
        OBVIOUS
    <3>2. CASE Unfit(op) = {}
        BY <2>2, <3>1, <3>2 DEF ReadTo
    <3>3. CASE Unfit(op) # {}
      <4>1. Unfit(op) \subseteq 1 .. count + 1
          BY DEF Unfit
      <4>2. Min(Unfit(op)) \in Unfit(op)
        <5>1. \E x \in Unfit(op) : \A y \in Unfit(op) : x <= y
            BY <2>2, <3>3, <4>1
        <5>2. QED
            BY <5>1 DEF Min
      <4>3. Min(Unfit(op)) \in Nat
          BY <2>2, <4>1, <4>2
      <4>4. QED
          BY <3>1, <3>3, <4>3 DEF ReadTo
    <3>4. QED
        BY <3>2, <3>3
  <2>5. CASE Unfit(op) = {}
    <3>1. \A i \in 1 .. count : IsParameter(read + 1 + i)
        BY <2>2, <2>5 DEF Unfit
    <3>2. \A i \in 1 .. 2 : i <= count =>
              read_parameter(source[read + 1 + i]) \in Given
        BY <2>2, <3>1, ParameterType
    <3> DEFINE first == read_parameter(source[read + 1 + 1])
               second == read_parameter(source[read + 1 + 2])
               node == read_instruction(op)
    <3>3. /\ count > 0 => first \in Given
          /\ count > 1 => second \in Given
        BY <2>2, <3>2
    <3> HIDE DEF op, count
    <3>4. node = [op |-> op,
                  p1 |-> IF count > 0 THEN first ELSE Literal(Unused, 0),
                  p2 |-> IF count > 1 THEN second ELSE Literal(Unused, 0)]
        BY <2>2 DEF read_instruction, count
    <3> HIDE DEF first, second, node
    <3>5. node \in OpNode
        BY <2>1, <3>3, <3>4 DEF OpNode, Complete, NodeParam, count
    <3>6. QED
        BY <2>3, <2>4, <2>5, <3>5 DEF Node, node
  <2>6. CASE Unfit(op) # {}
      BY <2>3, <2>4, <2>6
  <2>7. QED
      BY <2>5, <2>6
<1>2. CASE ParseLabelOrString
  <2> DEFINE token == source[read + 1]
  <2>1. read + 1 \in 1 .. Len(source)
        /\ ("label" \in DOMAIN token \/ "string" \in DOMAIN token)
      BY <1>2 DEF ParseLabelOrString, TokenIs, Is
  <2>2. token \in Token
      BY <2>1
  <2>3. read' = read + 1 /\ ast' = Append(ast, token)
      BY <1>2 DEF ParseLabelOrString
  <2> HIDE DEF token
  <2>4. token \in [label : Name] \cup [string : Seq(ByteRange)]
      BY <2>1, <2>2, TokenAlternative DEF Bytes
  <2>5. QED
      BY <2>3, <2>4 DEF Node, Bytes
<1>3. CASE ParseEndOfLine
    BY <1>3 DEF ParseEndOfLine
<1>4. CASE ParseUnexpected
    BY <1>4 DEF ParseUnexpected
<1>5. QED
    BY <1>1, <1>2, <1>3, <1>4 DEF ParseNode

-----------------------------------------------------------------------------
(* The tables of the assembler: labels and strings. *)

(* A label's name: of the source, or of a string. *)
LabelName == Name \cup {DataName(n) : n \in Nat}
LabelRecord == [name : LabelName, id : Nat, position : WordRange]
DataRecord == [label_name : LabelName, data : Bytes]
Tables == [labels : Seq(LabelRecord), last_label_id : Nat,
           data_section : Seq(DataRecord), last_string_id : Nat]

Positioned(t, name) == \E label \in ToSet(t.labels) :
    label.name = name /\ label.position # INVALID_LABEL_ADDRESS
HasId(t, name, id) == \E label \in ToSet(t.labels) :
    label.name = name /\ label.id = id

(* Neither a name nor an id belongs to two labels. *)
LabelsOK(t) ==
    /\ t \in Tables
    /\ \A x \in ToSet(t.labels) : x.id <= t.last_label_id
    /\ \A x, y \in ToSet(t.labels) :
          x.name = y.name \/ x.id = y.id => x = y

(* The strings that are parameters have the labels with their numbers. *)
DataOK(t) ==
    /\ t.last_string_id = Len(t.data_section) + 1
    /\ \A j \in 1 .. Len(t.data_section) :
          /\ t.data_section[j].label_name = DataName(j)
          /\ Known(t, DataName(j))
    /\ \A name : Known(t, name) =>
          \/ name \in Name
          \/ \E j \in 1 .. Len(t.data_section) : name = DataName(j)

(* What a sequence holds after an element was appended. *)
LEMMA AppendedSet ==
    ASSUME NEW T, NEW s \in Seq(T), NEW x \in T
    PROVE  /\ Append(s, x) \in Seq(T) /\ Len(Append(s, x)) = Len(s) + 1
           /\ ToSet(Append(s, x)) = ToSet(s) \cup {x}
           /\ \A i \in 1 .. Len(s) : Append(s, x)[i] = s[i]
           /\ Append(s, x)[Len(s) + 1] = x
BY DEF ToSet

(* The names of the labels of strings differ from each other and from     *)
(* those of the source. *)
LEMMA DataNames ==
    /\ \A m, n \in Nat : DataName(m) = DataName(n) => m = n
    /\ \A n \in Nat : DataName(n) \notin Name
<1>1. \A m, n \in Nat : DataName(m) = DataName(n) => m = n
  <2>1. \A n \in Nat : DataName(n)[2] = n
      BY DEF DataName
  <2>2. QED
      BY <2>1
<1>2. \A n \in Nat : DataName(n) \notin Name
  <2>1. \A n \in Nat : 2 \in DOMAIN DataName(n)
      BY DEF DataName
  <2>2. \A x \in Name : 2 \notin DOMAIN x
      BY DEF Name
  <2>3. QED
      BY <2>1, <2>2
<1>3. QED
    BY <1>1, <1>2

(* The address of a label without a position is an address. *)
LEMMA InvalidAddress == INVALID_LABEL_ADDRESS \in WordRange
BY Widths DEF INVALID_LABEL_ADDRESS, WordRange

(* A name that is registered is known from then on, and nothing else       *)
(* changes. *)
LEMMA HandleLabel ==
    ASSUME NEW t, LabelsOK(t), NEW name \in LabelName
    PROVE  LET u == handle_label(t, name)
           IN  /\ LabelsOK(u)
               /\ u.data_section = t.data_section
               /\ u.last_string_id = t.last_string_id
               /\ \A m : Known(u, m) <=> Known(t, m) \/ m = name
               /\ \A m : Positioned(u, m) <=> Positioned(t, m)
               /\ \A m, id : HasId(t, m, id) => HasId(u, m, id)
               /\ HasId(u, name, LabelId(u, name))
<1> DEFINE u == handle_label(t, name)
           r == [name |-> name, id |-> t.last_label_id + 1,
                 position |-> INVALID_LABEL_ADDRESS]
<1>1. CASE Known(t, name)
  <2>1. u = t
      BY <1>1 DEF handle_label
  <2>2. HasId(t, name, LabelId(t, name))
      BY <1>1 DEF HasId, LabelId, Known
  <2>3. QED
      BY <1>1, <2>1, <2>2
<1>2. CASE ~Known(t, name)
  <2>1. u = [t EXCEPT !.labels = Append(@, r), !.last_label_id = @ + 1]
      BY <1>2 DEF handle_label
  <2>2. t \in Tables /\ t.labels \in Seq(LabelRecord) /\ r \in LabelRecord
      BY InvalidAddress DEF LabelsOK, Tables, LabelRecord
  <2>3. /\ u.labels = Append(t.labels, r)
        /\ u.last_label_id = t.last_label_id + 1
        /\ u.data_section = t.data_section
        /\ u.last_string_id = t.last_string_id
        /\ u \in Tables
    <3>1. Append(t.labels, r) \in Seq(LabelRecord)
        BY <2>2, AppendedSet
    <3>2. t.last_label_id + 1 \in Nat
        BY <2>2 DEF Tables
    <3> HIDE DEF u, r
    <3>3. QED
        BY <2>1, <2>2, <3>1, <3>2 DEF Tables
  <2>4. ToSet(u.labels) = ToSet(t.labels) \cup {r}
      BY <2>2, <2>3, AppendedSet
  <2>5. /\ r.name = name /\ r.id = t.last_label_id + 1
        /\ r.position = INVALID_LABEL_ADDRESS
      OBVIOUS
  <2>6. t.last_label_id \in Nat /\ \A x \in ToSet(t.labels) : x.id \in Nat
    <3>1. t.last_label_id \in Nat
        BY <2>2 DEF Tables
    <3>2. \A x \in ToSet(t.labels) : x \in LabelRecord
        BY <2>2 DEF ToSet
    <3>3. QED
        BY <3>1, <3>2 DEF LabelRecord
  <2> HIDE DEF u, r
  <2>7. LabelsOK(u)
    <3>1. \A x \in ToSet(t.labels) : x.name # name
        BY <1>2 DEF Known
    <3>2. \A x \in ToSet(t.labels) : x.id <= t.last_label_id
        BY DEF LabelsOK
    <3>3. \A x \in ToSet(u.labels) : x.id <= u.last_label_id
        BY <2>3, <2>4, <2>5, <2>6, <3>2
    <3>4. \A x \in ToSet(t.labels) : x.id # r.id
        BY <2>5, <2>6, <3>2
    <3>5. \A x, y \in ToSet(t.labels) : x.name = y.name \/ x.id = y.id => x = y
        BY DEF LabelsOK
    <3>6. \A x, y \in ToSet(u.labels) : x.name = y.name \/ x.id = y.id => x = y
        BY <2>4, <2>5, <3>1, <3>4, <3>5
    <3>7. QED
        BY <2>3, <3>3, <3>6 DEF LabelsOK
  <2>8. \A m : Known(u, m) <=> Known(t, m) \/ m = name
      BY <2>4, <2>5 DEF Known
  <2>9. \A m : Positioned(u, m) <=> Positioned(t, m)
      BY <2>4, <2>5 DEF Positioned
  <2>10. \A m, id : HasId(t, m, id) => HasId(u, m, id)
      BY <2>4 DEF HasId
  <2>11. HasId(u, name, LabelId(u, name))
      BY <2>8 DEF HasId, LabelId, Known
  <2>12. QED
      BY <2>3, <2>7, <2>8, <2>9, <2>10, <2>11 DEF u
<1>3. QED
    BY <1>1, <1>2

(* A position is given to the label of that name, if it waits for one. *)
LEMMA SetPosition ==
    ASSUME NEW t, LabelsOK(t), NEW name,
           Word(ROM_START + position) \in WordRange \ {INVALID_LABEL_ADDRESS}
    PROVE  LET u == set_label_position(t, name)
           IN  /\ LabelsOK(u)
               /\ u.data_section = t.data_section
               /\ u.last_string_id = t.last_string_id
               /\ \A m : Known(u, m) <=> Known(t, m)
               /\ \A m : Positioned(u, m) <=>
                            \/ Positioned(t, m)
                            \/ m = name /\ Known(t, m)
               /\ \A m, id : HasId(u, m, id) <=> HasId(t, m, id)
<1> DEFINE u == set_label_position(t, name)
           s == t.labels
           w == Word(ROM_START + position)
           F(x) == IF x.name = name /\ x.position = INVALID_LABEL_ADDRESS
                   THEN [x EXCEPT !.position = w] ELSE x
<1>1. t \in Tables /\ s \in Seq(LabelRecord)
    BY DEF LabelsOK, Tables
<1>2. u = [t EXCEPT !.labels = [i \in DOMAIN s |-> F(s[i])]]
    BY DEF set_label_position
<1>3. /\ u.labels = [i \in DOMAIN s |-> F(s[i])]
      /\ u.last_label_id = t.last_label_id
      /\ u.data_section = t.data_section
      /\ u.last_string_id = t.last_string_id
    BY <1>1, <1>2 DEF Tables
<1>4. \A x \in LabelRecord :
          /\ F(x) \in LabelRecord /\ F(x).name = x.name /\ F(x).id = x.id
          /\ F(x).position =
                IF x.name = name /\ x.position = INVALID_LABEL_ADDRESS
                THEN w ELSE x.position
    BY DEF LabelRecord
<1> HIDE DEF F, w
<1>5. /\ u.labels \in Seq(LabelRecord)
      /\ ToSet(u.labels) = {F(x) : x \in ToSet(s)}
    BY <1>1, <1>3, <1>4 DEF ToSet
<1>6. u \in Tables
    BY <1>1, <1>2, <1>3, <1>5 DEF Tables
<1>7. \A x \in ToSet(s) : x \in LabelRecord
    BY <1>1 DEF ToSet
<1> DEFINE L == ToSet(t.labels)
           M == ToSet(u.labels)
<1>8. /\ \A y \in M : \E x \in L : y = F(x)
      /\ \A x \in L : F(x) \in M
    BY <1>5
<1>9. w # INVALID_LABEL_ADDRESS
    BY DEF w
<1>a. \A x \in L :
          /\ F(x).name = x.name /\ F(x).id = x.id
          /\ F(x).position =
                IF x.name = name /\ x.position = INVALID_LABEL_ADDRESS
                THEN w ELSE x.position
    BY <1>4, <1>7
<1> HIDE DEF u, s
<1>10. LabelsOK(u)
  <2>1. /\ \A x \in L : x.id <= t.last_label_id
        /\ \A x, y \in L : x.name = y.name \/ x.id = y.id => x = y
      BY DEF LabelsOK
  <2> HIDE DEF L, M
  <2>2. \A x \in M : x.id <= u.last_label_id
      BY <1>3, <1>8, <1>a, <2>1
  <2>3. \A x, y \in M : x.name = y.name \/ x.id = y.id => x = y
      BY <1>8, <1>a, <2>1
  <2>4. QED
      BY <1>6, <2>2, <2>3 DEF LabelsOK, M
<1>11. \A m : Known(u, m) <=> Known(t, m)
    BY <1>8, <1>a DEF Known
<1>12. \A m : Positioned(u, m) <=>
                  Positioned(t, m) \/ (m = name /\ Known(t, m))
    BY <1>8, <1>9, <1>a DEF Known, Positioned
<1>13. \A m, id : HasId(u, m, id) <=> HasId(t, m, id)
    BY <1>8, <1>a DEF HasId
<1>14. QED
    BY <1>3, <1>10, <1>11, <1>12, <1>13 DEF u

-----------------------------------------------------------------------------
(* Parameters in the first pass. *)

(* What an instruction holds for a parameter of a node: the id of the      *)
(* label it names or of the string it is, or the parameter itself. *)
Stands(t, q, p) ==
    IF Is(p, "label") THEN q.mode = Label /\ HasId(t, p.label, q.value)
    ELSE IF Is(p, "string")
    THEN /\ q.mode = Label
         /\ \E j \in 1 .. Len(t.data_section) :
                /\ t.data_section[j].data = Append(p.string, 0)
                /\ HasId(t, DataName(j), q.value)
    ELSE q.mode # Label /\ q = p

(* No label or string of t is forgotten in u; and the labels that u has in *)
(* addition have no position yet. *)
Keeps(t, u) ==
    /\ \A name, id : HasId(t, name, id) => HasId(u, name, id)
    /\ 1 .. Len(t.data_section) \subseteq 1 .. Len(u.data_section)
    /\ \A j \in 1 .. Len(t.data_section) :
          u.data_section[j] = t.data_section[j]
Grows(t, u) ==
    Keeps(t, u) /\ \A name : Positioned(u, name) <=> Positioned(t, name)

(* What stands for a parameter does so with more labels. *)
LEMMA StandsStill ==
    ASSUME NEW t, NEW u, NEW q, NEW p, Keeps(t, u), Stands(t, q, p)
    PROVE  Stands(u, q, p)
BY DEF Stands, Keeps

(* u are the tables t with an entry and a label for str. *)
HasString(u, t, str) ==
    /\ LabelsOK(u) /\ DataOK(u) /\ Grows(t, u)
    /\ Len(u.data_section) = t.last_string_id
    /\ u.data_section[t.last_string_id].data = Append(str, 0)
    /\ u.last_string_id = t.last_string_id + 1
    /\ HasId(u, DataName(t.last_string_id),
             LabelId(u, DataName(t.last_string_id)))

(* A string that is a parameter gets an entry and a label of its own. *)
LEMMA HandleString ==
    ASSUME NEW t, LabelsOK(t), DataOK(t), NEW str \in Bytes
    PROVE  HasString(handle_string(t, str), t, str)
<1> DEFINE n == t.last_string_id
           name == DataName(n)
           h == handle_label(t, name)
           entry == [label_name |-> name, data |-> Append(str, 0)]
           u == handle_string(t, str)
           ds == t.data_section
<1>1. /\ t \in Tables /\ n \in Nat /\ ds \in Seq(DataRecord)
      /\ n = Len(ds) + 1 /\ Len(ds) \in Nat
    BY DEF LabelsOK, DataOK, Tables
<1>2. name \in LabelName /\ entry \in DataRecord
  <2>1. Append(str, 0) \in Bytes
      BY Widths DEF Bytes, ByteRange
  <2>2. QED
      BY <1>1, <2>1 DEF LabelName, DataRecord
<1>3. /\ LabelsOK(h) /\ h.data_section = ds /\ h.last_string_id = n
      /\ \A m : Known(h, m) <=> Known(t, m) \/ m = name
      /\ \A m : Positioned(h, m) <=> Positioned(t, m)
      /\ \A m, id : HasId(t, m, id) => HasId(h, m, id)
      /\ HasId(h, name, LabelId(h, name))
    BY <1>2, HandleLabel
<1>4. u = [h EXCEPT !.last_string_id = @ + 1,
                    !.data_section = Append(@, entry)]
    BY DEF handle_string
<1> HIDE DEF u, h, entry
<1>5. /\ u.labels = h.labels /\ u.last_label_id = h.last_label_id
      /\ u.last_string_id = n + 1 /\ u.data_section = Append(ds, entry)
      /\ u \in Tables
  <2>1. h \in Tables
      BY <1>3 DEF LabelsOK
  <2>2. Append(ds, entry) \in Seq(DataRecord) /\ n + 1 \in Nat
      BY <1>1, <1>2, AppendedSet
  <2> HIDE DEF ds, n
  <2>3. QED
      BY <1>3, <1>4, <2>1, <2>2 DEF Tables
<1>6. /\ \A m : Known(u, m) <=> Known(t, m) \/ m = name
      /\ \A m : Positioned(u, m) <=> Positioned(t, m)
      /\ \A m, id : HasId(t, m, id) => HasId(u, m, id)
      /\ HasId(u, name, LabelId(u, name))
  <2>1. /\ \A m : Known(u, m) <=> Known(h, m)
        /\ \A m : Positioned(u, m) <=> Positioned(h, m)
        /\ \A m, id : HasId(u, m, id) <=> HasId(h, m, id)
      BY <1>5 DEF Known, Positioned, HasId
  <2>2. LabelId(u, name) = LabelId(h, name)
      BY <1>5 DEF LabelId
  <2>3. QED
      BY <1>3, <2>1, <2>2
<1>7. /\ Len(u.data_section) = n
      /\ \A j \in 1 .. Len(ds) : u.data_section[j] = ds[j]
      /\ u.data_section[n] = entry
    BY <1>1, <1>2, <1>5, AppendedSet
<1>8. LabelsOK(u)
    BY <1>3, <1>5 DEF LabelsOK
<1>9. DataOK(u)
  <2>1. /\ \A j \in 1 .. Len(ds) : ds[j].label_name = DataName(j)
                                   /\ Known(t, DataName(j))
        /\ \A m : Known(t, m) =>
              m \in Name \/ \E j \in 1 .. Len(ds) : m = DataName(j)
      BY DEF DataOK
  <2>2. entry.label_name = name
      BY DEF entry
  <2> HIDE DEF ds, n
  <2>3. \A j \in 1 .. n : j \in 1 .. Len(ds) \/ j = n
      BY <1>1
  <2>4. \A j \in 1 .. Len(ds) : j \in 1 .. n
      BY <1>1
  <2>5. n \in 1 .. n
      BY <1>1
  <2>6. \A j \in 1 .. n : u.data_section[j].label_name = DataName(j)
                          /\ Known(u, DataName(j))
      BY <1>6, <1>7, <2>1, <2>2, <2>3
  <2>7. \A m : Known(u, m) => m \in Name \/ \E j \in 1 .. n : m = DataName(j)
      BY <1>6, <2>1, <2>4, <2>5
  <2>8. QED
      BY <1>5, <1>7, <2>6, <2>7 DEF DataOK
<1>10. Grows(t, u)
  <2>1. 1 .. Len(ds) \subseteq 1 .. n
      BY <1>1
  <2>2. QED
      BY <1>6, <1>7, <2>1 DEF Grows, Keeps
<1>11. u.data_section[n].data = Append(str, 0)
    BY <1>7 DEF entry
<1>12. QED
    BY <1>5, <1>6, <1>7, <1>8, <1>9, <1>10, <1>11 DEF u, HasString

(* What an instruction may hold before the second pass. *)
Encodable == [mode : 0 .. 15, value : Nat]

(* The id of a label is a parameter. *)
LEMMA IdType ==
    ASSUME NEW t, LabelsOK(t), NEW name, NEW id, HasId(t, name, id)
    PROVE  Literal(Label, id) \in Encodable
<1>1. \A x \in ToSet(t.labels) : x \in LabelRecord
    BY DEF LabelsOK, Tables, ToSet
<1>2. id \in Nat
    BY <1>1 DEF HasId, LabelRecord
<1>3. QED
    BY <1>2 DEF Literal, Label, Encodable

(* The first pass registers a parameter and puts in its place what stands  *)
(* for it. *)
LEMMA RegisterOperand ==
    ASSUME NEW t, LabelsOK(t), DataOK(t), NEW p \in NodeParam
    PROVE  LET u == Registered(t, p)
           IN  /\ LabelsOK(u) /\ DataOK(u) /\ Grows(t, u)
               /\ Stands(u, Operand(u, p), p)
               /\ Operand(u, p) \in Encodable
<1> DEFINE u == Registered(t, p)
<1>1. CASE p \in [mode : 0 .. 7, value : WordRange]
  <2>1. ~Is(p, "label") /\ ~Is(p, "string") /\ p.mode # Label
      BY <1>1 DEF Is, Label
  <2>2. u = t /\ Operand(u, p) = p
      BY <2>1 DEF Registered, Operand
  <2>3. p \in Encodable
      BY <1>1 DEF Encodable, WordRange
  <2>4. QED
      BY <2>1, <2>2, <2>3 DEF Grows, Keeps, Stands
<1>2. CASE p \in [label : Name]
  <2>1. Is(p, "label") /\ p.label \in Name
      BY <1>2 DEF Is
  <2>0. ~Is(p, "string")
      BY <1>2 DEF Is
  <2>2. /\ u = handle_label(t, p.label)
        /\ Operand(u, p) = Literal(Label, LabelId(u, p.label))
      BY <2>0, <2>1 DEF Registered, Operand
  <2>3. p.label \in LabelName
      BY <2>1 DEF LabelName
  <2>4. /\ LabelsOK(u) /\ u.data_section = t.data_section
        /\ u.last_string_id = t.last_string_id
        /\ \A m : Known(u, m) <=> Known(t, m) \/ m = p.label
        /\ \A m : Positioned(u, m) <=> Positioned(t, m)
        /\ \A m, id : HasId(t, m, id) => HasId(u, m, id)
        /\ HasId(u, p.label, LabelId(u, p.label))
      BY <2>2, <2>3, HandleLabel
  <2> HIDE DEF u
  <2>5. DataOK(u) /\ Grows(t, u)
      BY <2>1, <2>4 DEF DataOK, Grows, Keeps
  <2>6. Stands(u, Operand(u, p), p)
      BY <2>1, <2>2, <2>4 DEF Stands, Literal
  <2>7. Operand(u, p) \in Encodable
      BY <2>2, <2>4, IdType
  <2>8. QED
      BY <2>4, <2>5, <2>6, <2>7 DEF u
<1>3. CASE p \in [string : Bytes]
  <2>1. Is(p, "string") /\ p.string \in Bytes
      BY <1>3 DEF Is
  <2>0. ~Is(p, "label")
      BY <1>3 DEF Is
  <2> DEFINE n == t.last_string_id
  <2>2. /\ u = handle_string(t, p.string)
        /\ Operand(u, p)
              = Literal(Label, LabelId(u, DataName(u.last_string_id - 1)))
      BY <2>0, <2>1 DEF Registered, Operand
  <2>3. /\ LabelsOK(u) /\ DataOK(u) /\ Grows(t, u)
        /\ Len(u.data_section) = n /\ u.last_string_id = n + 1
        /\ u.data_section[n].data = Append(p.string, 0)
        /\ HasId(u, DataName(n), LabelId(u, DataName(n)))
    <3>1. HasString(u, t, p.string)
        BY <2>1, <2>2, HandleString, Zenon
    <3> HIDE DEF u
    <3>2. QED
        BY <3>1 DEF HasString
  <2> HIDE DEF u
  <2>4. n \in Nat /\ n >= 1 /\ u.last_string_id - 1 = n
    <3>1. n = Len(t.data_section) + 1 /\ t.data_section \in Seq(DataRecord)
        BY DEF DataOK, LabelsOK, Tables
    <3>2. Len(t.data_section) \in Nat
        BY <3>1
    <3> HIDE DEF n
    <3>3. QED
        BY <2>3, <3>1, <3>2
  <2>5. Operand(u, p) = Literal(Label, LabelId(u, DataName(n)))
      BY <2>2, <2>4
  <2>6. n \in 1 .. Len(u.data_section)
      BY <2>3, <2>4
  <2>7. Stands(u, Operand(u, p), p)
    <3> DEFINE q == Operand(u, p)
               d == LabelId(u, DataName(n))
    <3>1. q.mode = Label /\ q.value = d
        BY <2>5 DEF Literal
    <3> HIDE DEF q, d, n
    <3>2. \E j \in 1 .. Len(u.data_section) :
              /\ u.data_section[j].data = Append(p.string, 0)
              /\ HasId(u, DataName(j), q.value)
        BY <2>3, <2>6, <3>1 DEF d
    <3>3. QED
        BY <2>0, <2>1, <3>1, <3>2 DEF Stands, q
  <2>8. Operand(u, p) \in Encodable
      BY <2>3, <2>5, IdType
  <2>9. QED
      BY <2>3, <2>7, <2>8 DEF u
<1>4. Literal(Unused, 0) \in [mode : 0 .. 7, value : WordRange]
    BY Widths DEF Literal, Unused, WordRange
<1>5. QED
    BY <1>1, <1>2, <1>3, <1>4 DEF NodeParam, Given

-----------------------------------------------------------------------------
(* The passes. *)

(* The code tells a label without a position by the highest address: a     *)
(* binary may be as long as there are addresses below it. *)
PositionsFit == ROM_START + position < INVALID_LABEL_ADDRESS

(* The first n nodes define the name; or some name twice. *)
Defined(name, n) == \E k \in 1 .. n : ast[k] = [label |-> name]
DefinedTwice(n) == \E k, l \in 1 .. n :
    k # l /\ ast[k] = ast[l] /\ Is(ast[k], "label")

(* The instructions before the second pass stand for the nodes seen, and   *)
(* the nodes seen are all encoded. *)
Instruction == [op : ToSet(OpTable), p1 : Encodable, p2 : Encodable]
               \cup [raw : Bytes]
Encodes(t, i, node) == /\ ~Is(i, "raw") /\ i.op = node.op
                       /\ Stands(t, i.p1, node.p1)
                       /\ Stands(t, i.p2, node.p2)

EncodedBy(t, insts, n) ==
    /\ \A i \in ToSet(insts) :
          \/ Is(i, "raw")
          \/ \E k \in 1 .. n : Is(ast[k], "op") /\ Encodes(t, i, ast[k])
    /\ \A k \in 1 .. n : Is(ast[k], "op") =>
          \E i \in ToSet(insts) : Encodes(t, i, ast[k])

(* How many nodes the first pass has seen. *)
done == IF at = "nodes" THEN next - 1 ELSE Len(ast)

(* The state inside the passes.  A label of the source has a position if   *)
(* one of the nodes seen so far defines it, the label of a string if the   *)
(* loop over the strings has passed it; error is set if a node seen        *)
(* defines a label a second time. *)
ProgressInv == /\ next \in Nat \ {0}
               /\ at = "nodes" => next <= Len(ast) + 1
               /\ instructions \in Seq(Instruction)
LabelsPlaced ==
    \A name \in Name : Positioned(tables, name) <=> Defined(name, done)
StringsPlaced ==
    \A j \in Nat : Positioned(tables, DataName(j)) <=>
        /\ j \in 1 .. Len(tables.data_section)
        /\ at = "convert" \/ (at = "data" /\ j < next)
Encoded == EncodedBy(tables, instructions, done)
PassInv == Passing => /\ ~ran
                      /\ ProgressInv
                      /\ LabelsOK(tables) /\ DataOK(tables)
                      /\ LabelsPlaced /\ StringsPlaced
                      /\ error = DefinedTwice(done)
                      /\ Encoded

(* Outside of them nothing has been met before the first pass has run, and *)
(* afterwards error says for good whether the labels are clear. *)
TypesInv == /\ source \in Seq(Token) /\ read \in Nat /\ ast \in Seq(Node)
            /\ position \in Nat /\ at \in Places /\ ran \in BOOLEAN
FreshInv == ~ran /\ ~Passing => /\ tables = NoTables /\ instructions = << >>
                                /\ error = FALSE
EndInv == /\ ran => at \in {"host", "return"} /\ error = ~LabelsClear
          /\ ran /\ at = "host" /\ call # "run" => output.ok = LabelsClear
ClearInv == TypesInv /\ FreshInv /\ PassInv /\ EndInv

(* A position that fits is not the one of labels without a position. *)
LEMMA PositionWord ==
    ASSUME position \in Nat, PositionsFit
    PROVE  Word(ROM_START + position) \in WordRange \ {INVALID_LABEL_ADDRESS}
<1> DEFINE x == ROM_START + position
<1>1. x \in Nat /\ x < WORD - 1 /\ WORD \in Nat \ {0}
    BY OriginAssumption, Widths DEF PositionsFit, INVALID_LABEL_ADDRESS
<1> HIDE DEF x
<1>2. x % WORD = x
    BY <1>1
<1>3. x \in WordRange \ {INVALID_LABEL_ADDRESS}
    BY <1>1 DEF WordRange, INVALID_LABEL_ADDRESS
<1>4. QED
    BY <1>2, <1>3 DEF x, Word

(* There is one label of a name, so that either it waits or it is placed. *)
LEMMA Waiting ==
    ASSUME NEW t, LabelsOK(t), NEW name
    PROVE  Unplaced(t, name) <=> Known(t, name) /\ ~Positioned(t, name)
BY DEF Unplaced, Known, Positioned, LabelsOK

(* So does an instruction for a node. *)
LEMMA EncodesStill ==
    ASSUME NEW t, NEW u, Keeps(t, u), NEW i, NEW node, Encodes(t, i, node)
    PROVE  Encodes(u, i, node)
BY StandsStill DEF Encodes

(* A node holds one alternative. *)
LEMMA NodeAlternative ==
    ASSUME NEW node \in Node
    PROVE  /\ Is(node, "op") => /\ node \in OpNode
                                /\ ~Is(node, "label") /\ ~Is(node, "string")
           /\ Is(node, "label") => node \in [label : Name] /\ ~Is(node, "op")
           /\ Is(node, "string") =>
                 /\ node \in [string : Bytes]
                 /\ ~Is(node, "op") /\ ~Is(node, "label")
<1>1. CASE node \in OpNode
    BY <1>1 DEF OpNode, Is
<1>2. CASE node \in [label : Name]
    BY <1>2 DEF Is
<1>3. CASE node \in [string : Bytes]
    BY <1>3 DEF Is
<1>4. QED
    BY <1>1, <1>2, <1>3 DEF Node

(* Another instruction for another node. *)
LEMMA EncodedMore ==
    ASSUME NEW n \in Nat, NEW m \in Nat, m = n + 1,
           NEW t, NEW u, Keeps(t, u), NEW insts, NEW more,
           EncodedBy(t, insts, n),
           \A i \in ToSet(more) : \/ i \in ToSet(insts) \/ Is(i, "raw")
                                  \/ Is(ast[m], "op") /\ Encodes(u, i, ast[m]),
           ToSet(insts) \subseteq ToSet(more),
           Is(ast[m], "op") => \E i \in ToSet(more) : Encodes(u, i, ast[m])
    PROVE  EncodedBy(u, more, m)
<1>1. \A k : k \in 1 .. m <=> k \in 1 .. n \/ k = m
    OBVIOUS
<1>2. \A i, node : Encodes(t, i, node) => Encodes(u, i, node)
    BY EncodesStill
<1>3. \A i \in ToSet(insts) :
              \/ Is(i, "raw")
              \/ \E k \in 1 .. m : Is(ast[k], "op") /\ Encodes(u, i, ast[k])
    BY <1>1, <1>2 DEF EncodedBy
<1>4. QED
    BY <1>1, <1>2, <1>3 DEF EncodedBy

(* A label that is met for the first time is added behind the others. *)
LEMMA LabelsKept ==
    ASSUME NEW t, LabelsOK(t), NEW name \in LabelName
    PROVE  ToSet(t.labels) \subseteq ToSet(handle_label(t, name).labels)
<1> DEFINE r == [name |-> name, id |-> t.last_label_id + 1,
                 position |-> INVALID_LABEL_ADDRESS]
           u == handle_label(t, name)
<1>1. CASE Known(t, name)
    BY <1>1 DEF handle_label
<1>2. CASE ~Known(t, name)
  <2>1. /\ t \in Tables /\ t.labels \in Seq(LabelRecord) /\ r \in LabelRecord
      BY InvalidAddress DEF LabelsOK, Tables, LabelRecord
  <2>2. u = [t EXCEPT !.labels = Append(@, r), !.last_label_id = @ + 1]
      BY <1>2 DEF handle_label
  <2> HIDE DEF r, u
  <2>3. u.labels = Append(t.labels, r)
      BY <2>1, <2>2 DEF Tables
  <2>4. ToSet(u.labels) = ToSet(t.labels) \cup {r}
      BY <2>1, <2>3, AppendedSet
  <2>5. QED
      BY <2>4 DEF u
<1>3. QED
    BY <1>1, <1>2

LEMMA RegisteredKeeps ==
    ASSUME NEW t, LabelsOK(t), DataOK(t), NEW p \in NodeParam
    PROVE  ToSet(t.labels) \subseteq ToSet(Registered(t, p).labels)
<1>0. ~(Is(p, "label") /\ Is(p, "string"))
    BY DEF Is, NodeParam, Given, Literal
<1>1. CASE Is(p, "label")
  <2>1. p.label \in LabelName
      BY <1>1 DEF Is, NodeParam, Given, Literal, LabelName
  <2>2. Registered(t, p) = handle_label(t, p.label)
      BY <1>0, <1>1 DEF Registered
  <2>3. QED
      BY <2>1, <2>2, LabelsKept
<1>2. CASE Is(p, "string") /\ ~Is(p, "label")
  <2> DEFINE name == DataName(t.last_string_id)
             h == handle_label(t, name)
  <2>1. name \in LabelName
    <3>1. t.last_string_id \in Nat
        BY DEF LabelsOK, Tables
    <3>2. QED
        BY <3>1 DEF LabelName
  <2>2. LabelsOK(h) /\ ToSet(t.labels) \subseteq ToSet(h.labels)
      BY <2>1, HandleLabel, LabelsKept
  <2>3. Registered(t, p) = handle_string(t, p.string)
      BY <1>2 DEF Registered
  <2>4. handle_string(t, p.string).labels = h.labels
    <3> HIDE DEF h
    <3>1. h \in Tables
        BY <2>2 DEF LabelsOK
    <3>2. QED
        BY <3>1 DEF handle_string, h, Tables
  <2>5. QED
      BY <2>2, <2>3, <2>4
<1>3. CASE ~Is(p, "string") /\ ~Is(p, "label")
    BY <1>3 DEF Registered
<1>4. QED
    BY <1>1, <1>2, <1>3

(* The first pass: an instruction registers its two parameters in order,   *)
(* and places nothing. *)
LEMMA InstructionNodeStep ==
    ASSUME TypesInv, PassInv, InstructionNode
    PROVE  /\ at = "nodes" /\ next \in 1 .. Len(ast)
           /\ next' = next + 1 /\ UNCHANGED <<error, ran, at>>
           /\ ast[next] \in OpNode /\ Is(ast[next], "op")
           /\ ~Is(ast[next], "label")
           /\ LabelsOK(tables') /\ DataOK(tables') /\ Keeps(tables, tables')
           /\ ToSet(tables.labels) \subseteq ToSet(tables'.labels)
           /\ \A name : Positioned(tables', name) <=> Positioned(tables, name)
           /\ \E i \in [op : ToSet(OpTable), p1 : Encodable, p2 : Encodable] :
                 /\ Encodes(tables', i, ast[next])
                 /\ instructions' = Append(instructions, i)
                 /\ position'
                       = Word(position + calculate_instruction_length(i))
<1> DEFINE node == ast[next]
           first == Registered(tables, node.p1)
           second == Registered(first, node.p2)
           i == [node EXCEPT !.p1 = Operand(first, @),
                             !.p2 = Operand(second, @)]
<1>1. /\ at = "nodes" /\ next <= Len(ast) /\ Is(node, "op")
      /\ tables' = second /\ add_instruction(i)
      /\ next' = next + 1 /\ UNCHANGED <<error, ran, at>>
    BY DEF InstructionNode, AtNode
<1>2. Passing
    BY <1>1 DEF Passing
<1>3. ProgressInv /\ LabelsOK(tables) /\ DataOK(tables)
    BY <1>2 DEF PassInv
<1>4. ast \in Seq(Node) /\ next \in 1 .. Len(ast)
    BY <1>1, <1>3 DEF ProgressInv, TypesInv
<1>5. node \in OpNode /\ ~Is(node, "label")
  <2>1. node \in Node
      BY <1>4
  <2>2. QED
      BY <1>1, <2>1, NodeAlternative
<1>6. /\ node.p1 \in NodeParam /\ node.p2 \in NodeParam
      /\ node.op \in ToSet(OpTable)
    BY <1>5 DEF OpNode
<1> HIDE DEF node
<1>7. /\ LabelsOK(first) /\ DataOK(first) /\ Grows(tables, first)
      /\ Stands(first, Operand(first, node.p1), node.p1)
      /\ Operand(first, node.p1) \in Encodable
    BY <1>3, <1>6, RegisterOperand
<1>a. ToSet(tables.labels) \subseteq ToSet(first.labels)
    BY <1>3, <1>6, RegisteredKeeps
<1> HIDE DEF first
<1>8. /\ LabelsOK(second) /\ DataOK(second) /\ Grows(first, second)
      /\ Stands(second, Operand(second, node.p2), node.p2)
      /\ Operand(second, node.p2) \in Encodable
    BY <1>6, <1>7, RegisterOperand
<1>b. ToSet(first.labels) \subseteq ToSet(second.labels)
    BY <1>6, <1>7, RegisteredKeeps
<1> HIDE DEF second
<1>9. i = [op |-> node.op, p1 |-> Operand(first, node.p1),
           p2 |-> Operand(second, node.p2)]
  <2>1. node = [op |-> node.op, p1 |-> node.p1, p2 |-> node.p2]
      BY <1>5 DEF OpNode
  <2>2. i = [[node EXCEPT !.p1 = Operand(first, node.p1)]
                EXCEPT !.p2 = Operand(second, node.p2)]
      BY <2>1
  <2> HIDE DEF i
  <2>3. QED
      BY <2>1, <2>2
<1> HIDE DEF i
<1>10. /\ i \in [op : ToSet(OpTable), p1 : Encodable, p2 : Encodable]
       /\ Encodes(second, i, node)
  <2>1. Stands(second, Operand(first, node.p1), node.p1)
      BY <1>7, <1>8, StandsStill DEF Grows
  <2>2. QED
      BY <1>6, <1>7, <1>8, <1>9, <2>1 DEF Encodes, Is
<1>11. Keeps(tables, second)
       /\ \A name : Positioned(second, name) <=> Positioned(tables, name)
    BY <1>7, <1>8 DEF Grows, Keeps
<1>12. /\ instructions' = Append(instructions, i)
       /\ position' = Word(position + calculate_instruction_length(i))
    BY <1>1 DEF add_instruction
<1>13. /\ second = tables'
       /\ ToSet(tables.labels) \subseteq ToSet(second.labels)
    BY <1>1, <1>a, <1>b
<1>14. ast[next] \in OpNode /\ ~Is(ast[next], "label") /\ Is(ast[next], "op")
    BY <1>1, <1>5 DEF node
<1>15. Encodes(second, i, ast[next])
    BY <1>10 DEF node
<1>16. QED
    BY <1>1, <1>4, <1>8, <1>10, <1>11, <1>12, <1>13, <1>14, <1>15

(* The invariant of the passes is preserved. *)
LEMMA InstructionStep ==
    ASSUME TypesInv, PassInv, InstructionNode,
           UNCHANGED <<source, read, ast, parser_error>>
    PROVE  PassInv' /\ position' \in Nat
<1> DEFINE node == ast[next]
<1>1. /\ at = "nodes" /\ next \in 1 .. Len(ast)
      /\ next' = next + 1 /\ UNCHANGED <<error, ran, at>>
      /\ Is(node, "op") /\ ~Is(node, "label")
    BY InstructionNodeStep
<1>2. Passing /\ Passing' /\ ~ran
    BY <1>1 DEF Passing, PassInv
<1>3. /\ ProgressInv /\ LabelsOK(tables) /\ DataOK(tables)
      /\ LabelsPlaced /\ StringsPlaced /\ error = DefinedTwice(done) /\ Encoded
    BY <1>2 DEF PassInv
<1>4. /\ next \in Nat \ {0} /\ ast \in Seq(Node) /\ next \in 1 .. Len(ast)
      /\ done = next - 1 /\ done' = next /\ done \in Nat
    BY <1>1, <1>3 DEF ProgressInv, TypesInv, done
<1>5. PICK i \in [op : ToSet(OpTable), p1 : Encodable, p2 : Encodable] :
        /\ Encodes(tables', i, node)
        /\ instructions' = Append(instructions, i)
        /\ position' = Word(position + calculate_instruction_length(i))
    BY InstructionNodeStep
<1> HIDE DEF node
<1>11. /\ LabelsOK(tables') /\ DataOK(tables') /\ Keeps(tables, tables')
       /\ \A name : Positioned(tables', name) <=> Positioned(tables, name)
    BY InstructionNodeStep
<1>12. /\ instructions' \in Seq(Instruction)
       /\ ToSet(instructions') = ToSet(instructions) \cup {i}
  <2>1. instructions \in Seq(Instruction) /\ i \in Instruction
      BY <1>3, <1>5 DEF ProgressInv, Instruction
  <2>2. QED
      BY <1>5, <2>1, AppendedSet
<1>13. position' \in Nat
  <2> DEFINE length == calculate_instruction_length(i)
  <2>1. length \in Int
    <3>1. param_size(i.p1.mode) \in 0 .. 4 /\ param_size(i.p2.mode) \in 0 .. 4
        BY ParamSize
    <3>2. QED
        BY <3>1 DEF calculate_instruction_length
  <2> HIDE DEF length
  <2>2. position' = Word(position + length) /\ position \in Nat
      BY <1>5 DEF length, TypesInv
  <2>3. Word(position + length) \in WordRange
      BY <2>1, <2>2, WordType
  <2>4. QED
      BY <2>2, <2>3 DEF WordRange
<1>14. ProgressInv'
    BY <1>1, <1>4, <1>12 DEF ProgressInv
<1>15. LabelsPlaced'
  <2>1. \A name : Defined(name, next) <=> Defined(name, next - 1)
    <3>1. \A name : node # [label |-> name]
        BY <1>1 DEF Is
    <3>2. \A k : k \in 1 .. next <=> k \in 1 .. next - 1 \/ k = next
        BY <1>4
    <3>3. QED
        BY <3>1, <3>2 DEF Defined, node
  <2>2. QED
      BY <1>1, <1>3, <1>4, <1>11, <2>1 DEF LabelsPlaced, Defined
<1>16. StringsPlaced'
    BY <1>1, <1>3, <1>11 DEF StringsPlaced
<1>17. (error = DefinedTwice(done))'
  <2>1. \A k : k \in 1 .. next <=> k \in 1 .. next - 1 \/ k = next
      BY <1>4
  <2>2. DefinedTwice(next) = DefinedTwice(next - 1)
      BY <1>1, <2>1 DEF DefinedTwice, node
  <2>3. QED
      BY <1>1, <1>3, <1>4, <2>2 DEF DefinedTwice
<1>18. Encoded'
  <2>1. \A x \in ToSet(instructions') :
            \/ x \in ToSet(instructions) \/ Is(x, "raw")
            \/ Is(ast[next], "op") /\ Encodes(tables', x, ast[next])
      BY <1>1, <1>5, <1>12 DEF node
  <2>2. Is(ast[next], "op") =>
            \E x \in ToSet(instructions') : Encodes(tables', x, ast[next])
      BY <1>5, <1>12 DEF node
  <2> DEFINE n == next - 1
             insts == instructions
             more == instructions'
  <2>3. n \in Nat /\ next \in Nat /\ next = n + 1
      BY <1>4
  <2>4. EncodedBy(tables, insts, n)
      BY <1>3, <1>4 DEF Encoded
  <2>5. ToSet(insts) \subseteq ToSet(more)
      BY <1>12
  <2> HIDE DEF n, insts, more
  <2>6. EncodedBy(tables', more, next)
      BY <1>11, <2>1, <2>2, <2>3, <2>4, <2>5, EncodedMore DEF insts, more
  <2>7. QED
      BY <1>1, <1>4, <2>6 DEF Encoded, EncodedBy, more
<1>19. QED
    BY <1>1, <1>2, <1>11, <1>13, <1>14, <1>15, <1>16, <1>17, <1>18 DEF PassInv

(* A label gets its position, and a second definition is an error. *)
LEMMA LabelStep ==
    ASSUME TypesInv, PassInv, PositionsFit, LabelNode,
           UNCHANGED <<source, read, ast, parser_error>>
    PROVE  PassInv' /\ position' \in Nat
<1> DEFINE node == ast[next]
           name == node.label
           known == handle_label(tables, name)
           placed == set_label_position(known, name)
<1>1. /\ at = "nodes" /\ next <= Len(ast) /\ Is(node, "label")
      /\ tables' = placed /\ error' = (error \/ ~Unplaced(known, name))
      /\ next' = next + 1 /\ UNCHANGED <<instructions, position, ran, at>>
    BY DEF LabelNode, AtNode
<1>2. Passing /\ Passing' /\ ~ran
    BY <1>1 DEF Passing, PassInv
<1>3. /\ ProgressInv /\ LabelsOK(tables) /\ DataOK(tables)
      /\ LabelsPlaced /\ StringsPlaced /\ error = DefinedTwice(done) /\ Encoded
    BY <1>2 DEF PassInv
<1>4. /\ next \in Nat \ {0} /\ ast \in Seq(Node) /\ next \in 1 .. Len(ast)
      /\ done = next - 1 /\ done' = next /\ done \in Nat
    BY <1>1, <1>3 DEF ProgressInv, TypesInv, done
<1>5. node \in [label : Name] /\ ~Is(node, "op")
  <2>1. node \in Node
      BY <1>4
  <2>2. QED
      BY <1>1, <2>1, NodeAlternative
<1>6. name \in Name /\ name \in LabelName /\ node = [label |-> name]
    BY <1>5 DEF LabelName
<1> HIDE DEF name, node
<1>7. /\ LabelsOK(known) /\ known.data_section = tables.data_section
      /\ known.last_string_id = tables.last_string_id
      /\ \A m : Known(known, m) <=> Known(tables, m) \/ m = name
      /\ \A m : Positioned(known, m) <=> Positioned(tables, m)
      /\ \A m, id : HasId(tables, m, id) => HasId(known, m, id)
    BY <1>3, <1>6, HandleLabel
<1> HIDE DEF known
<1>8. /\ LabelsOK(placed) /\ placed.data_section = known.data_section
      /\ placed.last_string_id = known.last_string_id
      /\ \A m : Known(placed, m) <=> Known(known, m)
      /\ \A m : Positioned(placed, m) <=>
                   Positioned(known, m) \/ (m = name /\ Known(known, m))
      /\ \A m, id : HasId(placed, m, id) <=> HasId(known, m, id)
    BY <1>7, PositionWord, SetPosition DEF TypesInv
<1> HIDE DEF placed
<1>9. /\ placed.data_section = tables.data_section
      /\ placed.last_string_id = tables.last_string_id
      /\ \A m : Known(placed, m) <=> Known(tables, m) \/ m = name
      /\ \A m : Positioned(placed, m) <=> Positioned(tables, m) \/ m = name
      /\ \A m, id : HasId(tables, m, id) => HasId(placed, m, id)
    BY <1>7, <1>8
<1>10. DataOK(placed) /\ Keeps(tables, placed)
    BY <1>3, <1>6, <1>9 DEF DataOK, Keeps
<1>11. \A k : k \in 1 .. next <=> k \in 1 .. next - 1 \/ k = next
    BY <1>4
<1>12. \A m : Defined(m, next) <=> Defined(m, next - 1) \/ m = name
  <2>1. \A m : node = [label |-> m] <=> m = name
      BY <1>6
  <2>2. QED
      BY <1>11, <2>1 DEF Defined, node
<1>13. LabelsPlaced'
    BY <1>1, <1>3, <1>4, <1>9, <1>12 DEF LabelsPlaced, Defined
<1>14. StringsPlaced'
    BY <1>1, <1>3, <1>6, <1>9, DataNames DEF StringsPlaced
<1>15. (error = DefinedTwice(done))'
  <2>1. ~Unplaced(known, name) <=> Defined(name, next - 1)
      BY <1>3, <1>4, <1>6, <1>7, Waiting DEF LabelsPlaced
  <2>2. DefinedTwice(next) <=>
            DefinedTwice(next - 1) \/ Defined(name, next - 1)
    <3>1. \A k \in 1 .. next - 1 : k # next
        BY <1>4
    <3>2. DefinedTwice(next) =>
              DefinedTwice(next - 1) \/ Defined(name, next - 1)
        BY <1>6, <1>11 DEF DefinedTwice, Defined, node
    <3>3. Defined(name, next - 1) => DefinedTwice(next)
        BY <1>1, <1>6, <1>11, <3>1 DEF DefinedTwice, Defined, node
    <3>4. DefinedTwice(next - 1) => DefinedTwice(next)
        BY <1>11 DEF DefinedTwice
    <3>5. QED
        BY <3>2, <3>3, <3>4
  <2>3. error' = DefinedTwice(next)
      BY <1>1, <1>3, <1>4, <2>1, <2>2 DEF DefinedTwice
  <2>4. QED
      BY <1>1, <1>4, <2>3 DEF DefinedTwice
<1>16. Encoded'
  <2> DEFINE n == next - 1
             insts == instructions
  <2>1. n \in Nat /\ next \in Nat /\ next = n + 1
      BY <1>4
  <2>2. EncodedBy(tables, insts, n)
      BY <1>3, <1>4 DEF Encoded
  <2>3. ~Is(ast[next], "op")
      BY <1>5 DEF node
  <2> HIDE DEF n, insts
  <2>4. EncodedBy(placed, insts, next)
      BY <1>10, <2>1, <2>2, <2>3, EncodedMore
  <2>5. QED
      BY <1>1, <1>4, <2>4 DEF Encoded, EncodedBy, insts
<1>17. ProgressInv'
    BY <1>1, <1>3, <1>4 DEF ProgressInv
<1>18. QED
    BY <1>1, <1>2, <1>8, <1>10, <1>13, <1>14, <1>15, <1>16, <1>17
       DEF PassInv, TypesInv

(* A string among the nodes is encoded as it is. *)
LEMMA StringStep ==
    ASSUME TypesInv, PassInv, StringNode,
           UNCHANGED <<source, read, ast, parser_error>>
    PROVE  PassInv' /\ position' \in Nat
<1> DEFINE node == ast[next]
           i == [raw |-> Append(node.string, 0)]
<1>1. /\ at = "nodes" /\ next <= Len(ast) /\ Is(node, "string")
      /\ instructions' = Append(instructions, i)
      /\ position' = Word(position + Len(node.string) + 1)
      /\ next' = next + 1 /\ UNCHANGED <<tables, error, ran, at>>
    BY DEF StringNode, AtNode
<1>2. Passing /\ Passing' /\ ~ran
    BY <1>1 DEF Passing, PassInv
<1>3. /\ ProgressInv /\ LabelsOK(tables) /\ DataOK(tables)
      /\ LabelsPlaced /\ StringsPlaced /\ error = DefinedTwice(done) /\ Encoded
    BY <1>2 DEF PassInv
<1>4. /\ next \in Nat \ {0} /\ ast \in Seq(Node) /\ next \in 1 .. Len(ast)
      /\ done = next - 1 /\ done' = next /\ done \in Nat
    BY <1>1, <1>3 DEF ProgressInv, TypesInv, done
<1>5. node \in [string : Bytes] /\ ~Is(node, "op") /\ ~Is(node, "label")
  <2>1. node \in Node
      BY <1>4
  <2>2. QED
      BY <1>1, <2>1, NodeAlternative
<1> HIDE DEF node
<1>6. i \in Instruction /\ Is(i, "raw")
  <2>1. Append(node.string, 0) \in Bytes
      BY <1>5, Widths DEF Bytes, ByteRange
  <2>2. QED
      BY <2>1 DEF Instruction, Is
<1> HIDE DEF i
<1>7. /\ instructions' \in Seq(Instruction)
      /\ ToSet(instructions') = ToSet(instructions) \cup {i}
  <2>1. instructions \in Seq(Instruction)
      BY <1>3 DEF ProgressInv
  <2>2. QED
      BY <1>1, <1>6, <2>1, AppendedSet
<1>8. position' \in Nat
  <2>1. node.string \in Seq(ByteRange)
      BY <1>5 DEF Bytes
  <2> DEFINE sum == position + Len(node.string) + 1
  <2>2. sum \in Int
      BY <2>1 DEF TypesInv
  <2>3. position' = Word(sum)
      BY <1>1
  <2> HIDE DEF sum
  <2>4. QED
      BY <2>2, <2>3, WordType DEF WordRange
<1>9. \A k : k \in 1 .. next <=> k \in 1 .. next - 1 \/ k = next
    BY <1>4
<1>10. LabelsPlaced'
  <2>1. \A name : node # [label |-> name]
      BY <1>5 DEF Is
  <2>2. \A name : Defined(name, next) <=> Defined(name, next - 1)
      BY <1>9, <2>1 DEF Defined, node
  <2>3. QED
      BY <1>1, <1>3, <1>4, <2>2 DEF LabelsPlaced, Defined
<1>11. StringsPlaced'
    BY <1>1, <1>3 DEF StringsPlaced
<1>12. (error = DefinedTwice(done))'
  <2>1. DefinedTwice(next) = DefinedTwice(next - 1)
      BY <1>5, <1>9 DEF DefinedTwice, node
  <2>2. QED
      BY <1>1, <1>3, <1>4, <2>1 DEF DefinedTwice
<1>13. Encoded'
  <2> DEFINE n == next - 1
             insts == instructions
             more == instructions'
  <2>1. n \in Nat /\ next \in Nat /\ next = n + 1
      BY <1>4
  <2>2. EncodedBy(tables, insts, n)
      BY <1>3, <1>4 DEF Encoded
  <2>3. ~Is(ast[next], "op")
      BY <1>5 DEF node
  <2>4. /\ \A x \in ToSet(more) : x \in ToSet(insts) \/ Is(x, "raw")
        /\ ToSet(insts) \subseteq ToSet(more)
      BY <1>6, <1>7
  <2>5. Keeps(tables, tables)
      BY DEF Keeps
  <2> HIDE DEF n, insts, more
  <2>6. EncodedBy(tables, more, next)
      BY <2>1, <2>2, <2>3, <2>4, <2>5, EncodedMore
  <2>7. QED
      BY <1>1, <1>4, <2>6 DEF Encoded, EncodedBy, more
<1>14. ProgressInv'
    BY <1>1, <1>3, <1>4, <1>7 DEF ProgressInv
<1>15. QED
    BY <1>1, <1>2, <1>3, <1>8, <1>10, <1>11, <1>12, <1>13, <1>14 DEF PassInv

(* All nodes have been seen. *)
LEMMA NodesEndStep ==
    ASSUME TypesInv, PassInv, NodesEnd,
           UNCHANGED <<source, read, ast, parser_error>>
    PROVE  PassInv' /\ position' \in Nat
<1>1. /\ at = "nodes" /\ next > Len(ast) /\ at' = "data" /\ next' = 1
      /\ UNCHANGED <<tables, instructions, position, error, ran>>
    BY DEF NodesEnd
<1>2. Passing /\ Passing' /\ ~ran
    BY <1>1 DEF Passing, PassInv
<1>3. /\ ProgressInv /\ LabelsOK(tables) /\ DataOK(tables)
      /\ LabelsPlaced /\ StringsPlaced /\ error = DefinedTwice(done) /\ Encoded
    BY <1>2 DEF PassInv
<1>4. done' = done
  <2>1. Len(ast) \in Nat
      BY DEF TypesInv
  <2>2. next - 1 = Len(ast)
      BY <1>1, <1>3, <2>1 DEF ProgressInv
  <2>3. QED
      BY <1>1, <2>2 DEF done
<1>5. LabelsPlaced' /\ (error = DefinedTwice(done))' /\ Encoded'
    BY <1>1, <1>3, <1>4 DEF LabelsPlaced, Defined, DefinedTwice, Encoded,
       EncodedBy
<1>6. StringsPlaced'
  <2>1. \A j \in Nat : ~Positioned(tables, DataName(j))
      BY <1>1, <1>3 DEF StringsPlaced
  <2>2. \A j \in 1 .. Len(tables.data_section) : ~(j < 1)
      OBVIOUS
  <2>3. QED
      BY <1>1, <2>1, <2>2 DEF StringsPlaced
<1>7. ProgressInv'
    BY <1>1, <1>3 DEF ProgressInv
<1>8. QED
    BY <1>1, <1>2, <1>3, <1>5, <1>6, <1>7 DEF PassInv, TypesInv

(* The label of a string gets its position, which never is an error. *)
LEMMA DataStep ==
    ASSUME TypesInv, PassInv, PositionsFit, DataEntry,
           UNCHANGED <<source, read, ast, parser_error>>
    PROVE  PassInv' /\ position' \in Nat
<1> DEFINE entry == tables.data_section[next]
           name == entry.label_name
           placed == set_label_position(tables, name)
<1>1. /\ at = "data" /\ next <= Len(tables.data_section)
      /\ tables' = placed /\ error' = (error \/ ~Unplaced(tables, name))
      /\ position' = Word(position + Len(entry.data))
      /\ next' = next + 1 /\ UNCHANGED <<instructions, ran, at>>
    BY DEF DataEntry
<1>2. Passing /\ Passing' /\ ~ran
    BY <1>1 DEF Passing, PassInv
<1>3. /\ ProgressInv /\ LabelsOK(tables) /\ DataOK(tables)
      /\ LabelsPlaced /\ StringsPlaced /\ error = DefinedTwice(done) /\ Encoded
    BY <1>2 DEF PassInv
<1>4. /\ tables.data_section \in Seq(DataRecord) /\ next \in Nat \ {0}
      /\ next \in 1 .. Len(tables.data_section)
  <2>1. tables.data_section \in Seq(DataRecord)
      BY <1>3 DEF LabelsOK, Tables
  <2>2. QED
      BY <1>1, <1>3, <2>1 DEF ProgressInv
<1>5. name = DataName(next) /\ Known(tables, name) /\ entry.data \in Bytes
  <2>1. name = DataName(next) /\ Known(tables, DataName(next))
      BY <1>3, <1>4 DEF DataOK
  <2>2. entry \in DataRecord
      BY <1>4
  <2>3. QED
      BY <2>1, <2>2 DEF DataRecord
<1> HIDE DEF name, entry
<1>6. /\ LabelsOK(placed) /\ placed.data_section = tables.data_section
      /\ placed.last_string_id = tables.last_string_id
      /\ \A m : Known(placed, m) <=> Known(tables, m)
      /\ \A m : Positioned(placed, m) <=>
                   Positioned(tables, m) \/ (m = name /\ Known(tables, m))
      /\ \A m, id : HasId(placed, m, id) <=> HasId(tables, m, id)
    BY <1>3, PositionWord, SetPosition DEF TypesInv
<1> HIDE DEF placed
<1>7. DataOK(placed) /\ Keeps(tables, placed)
    BY <1>3, <1>6 DEF DataOK, Keeps
<1>8. done' = done
    BY <1>1 DEF done
<1>9. LabelsPlaced'
  <2>1. \A m \in Name : m # name
      BY <1>4, <1>5, DataNames
  <2>2. QED
      BY <1>1, <1>3, <1>6, <1>8, <2>1 DEF LabelsPlaced, Defined
<1>10. StringsPlaced'
  <2>1. \A j \in Nat : DataName(j) = name <=> j = next
      BY <1>4, <1>5, DataNames
  <2>2. \A j \in Nat : j < next + 1 <=> j < next \/ j = next
      BY <1>4
  <2>3. \A j \in Nat : Positioned(tables, DataName(j)) <=>
            j \in 1 .. Len(tables.data_section) /\ j < next
      BY <1>1, <1>3 DEF StringsPlaced
  <2>4. \A j \in Nat : Positioned(placed, DataName(j)) <=>
            j \in 1 .. Len(placed.data_section) /\ j < next + 1
      BY <1>4, <1>5, <1>6, <2>1, <2>2, <2>3
  <2>5. QED
      BY <1>1, <2>4 DEF StringsPlaced
<1>11. (error = DefinedTwice(done))'
  <2>1. ~Positioned(tables, name)
      BY <1>1, <1>3, <1>4, <1>5 DEF StringsPlaced
  <2>2. Unplaced(tables, name)
      BY <1>3, <1>5, <2>1, Waiting
  <2>3. error' = error
      BY <1>1, <1>3, <2>2 DEF DefinedTwice
  <2>4. QED
      BY <1>3, <1>8, <2>3 DEF DefinedTwice
<1>12. Encoded'
  <2>1. \A i, node : Encodes(tables, i, node) => Encodes(placed, i, node)
      BY <1>7, EncodesStill
  <2>2. QED
      BY <1>1, <1>3, <1>8, <2>1 DEF Encoded, EncodedBy
<1>13. position' \in Nat
  <2>1. entry.data \in Seq(ByteRange)
      BY <1>5 DEF Bytes
  <2>2. position + Len(entry.data) \in Int
      BY <2>1 DEF TypesInv
  <2>3. QED
      BY SMTT(30), <1>1, <2>2, WordType DEF WordRange
<1>14. ProgressInv'
    BY <1>1, <1>3 DEF ProgressInv
<1>15. QED
    BY <1>1, <1>2, <1>6, <1>7, <1>9, <1>10, <1>11, <1>12, <1>13, <1>14
       DEF PassInv

(* All strings have got their positions. *)
LEMMA DataEndStep ==
    ASSUME TypesInv, PassInv, DataEnd,
           UNCHANGED <<source, read, ast, parser_error>>
    PROVE  PassInv' /\ position' \in Nat
<1>1. /\ at = "data" /\ next > Len(tables.data_section) /\ at' = "convert"
      /\ UNCHANGED <<tables, instructions, position, error, ran, next>>
    BY DEF DataEnd
<1>2. Passing /\ Passing' /\ ~ran
    BY <1>1 DEF Passing, PassInv
<1>3. /\ ProgressInv /\ LabelsOK(tables) /\ DataOK(tables)
      /\ LabelsPlaced /\ StringsPlaced /\ error = DefinedTwice(done) /\ Encoded
    BY <1>2 DEF PassInv
<1>4. done' = done
    BY <1>1 DEF done
<1>5. LabelsPlaced' /\ (error = DefinedTwice(done))' /\ Encoded'
    BY <1>1, <1>3, <1>4 DEF LabelsPlaced, Defined, DefinedTwice, Encoded,
       EncodedBy
<1>6. StringsPlaced'
  <2>1. tables.data_section \in Seq(DataRecord)
      BY <1>3 DEF LabelsOK, Tables
  <2>2. \A j \in 1 .. Len(tables.data_section) : j < next
      BY <1>1, <1>3, <2>1 DEF ProgressInv
  <2>3. QED
      BY <1>1, <1>3, <2>2 DEF StringsPlaced
<1>7. ProgressInv'
    BY <1>1, <1>3 DEF ProgressInv
<1>8. QED
    BY <1>1, <1>2, <1>3, <1>5, <1>6, <1>7 DEF PassInv, TypesInv

-----------------------------------------------------------------------------
(* The second pass. *)

(* A label is resolved if the one with its name has got a position. *)
LEMMA ResolvedName ==
    ASSUME LabelsOK(tables), NEW name, NEW id, HasId(tables, name, id)
    PROVE  Resolved(id) <=> Positioned(tables, name)
BY DEF Resolved, Positioned, HasId, LabelsOK

(* The names used are those of the parameters of the nodes. *)
LEMMA UsedInNode ==
    ASSUME ast \in Seq(Node), NEW k \in DOMAIN ast, Is(ast[k], "op"),
           NEW p \in {ast[k].p1, ast[k].p2}, Is(p, "label")
    PROVE  p.label \in UsedNames
<1>1. ast[k] \in {node \in ToSet(ast) : Is(node, "op")}
    BY DEF ToSet
<1>2. p \in UNION {{i.p1, i.p2} : i \in {node \in ToSet(ast) : Is(node, "op")}}
    BY <1>1
<1>3. QED
    BY <1>2 DEF UsedNames

(* Conversely, a name that is used is a parameter of some node ... *)
LEMMA UsedNode ==
    ASSUME NEW name \in UsedNames
    PROVE  \E k \in DOMAIN ast : \E p \in {ast[k].p1, ast[k].p2} :
              Is(ast[k], "op") /\ Is(p, "label") /\ name = p.label
BY DEF UsedNames, ToSet

(* ... and a name of the source. *)
LEMMA UsedIsName ==
    ASSUME ast \in Seq(Node), NEW k \in DOMAIN ast, Is(ast[k], "op"),
           NEW p \in {ast[k].p1, ast[k].p2}, Is(p, "label")
    PROVE  p.label \in Name
<1>1. ast[k] \in Node
    OBVIOUS
<1>2. ast[k] \in OpNode
    BY <1>1, NodeAlternative
<1>3. p \in NodeParam
    BY <1>2 DEF OpNode
<1>4. p \in [label : Name]
    BY <1>3 DEF NodeParam, Given, Literal, Is
<1>5. QED
    BY <1>4

(* The second pass reports what is left: at its end error says whether the *)
(* labels are clear. *)
LEMMA ConvertStep ==
    ASSUME TypesInv, PassInv, convert_labels,
           UNCHANGED <<source, read, ast, parser_error>>
    PROVE  /\ ran' /\ at' = "return"
           /\ error' = ~LabelsClear /\ position' = position
<1>1. /\ at = "convert" /\ ran' = TRUE /\ at' = "return"
      /\ error' = (error \/ \E i \in ToSet(instructions) :
                       ~Is(i, "raw") /\ (Dangles(i.p1) \/ Dangles(i.p2)))
      /\ UNCHANGED <<tables, position, next>>
    BY DEF convert_labels
<1>2. /\ LabelsOK(tables) /\ DataOK(tables)
      /\ LabelsPlaced /\ StringsPlaced /\ error = DefinedTwice(done) /\ Encoded
    BY <1>1 DEF PassInv, Passing
<1> DEFINE n == Len(ast)
<1>3. done = n /\ n \in Nat /\ DOMAIN ast = 1 .. n /\ ast \in Seq(Node)
    BY <1>1 DEF done, TypesInv
<1> HIDE DEF n
<1>4. \A name \in Name : Positioned(tables, name) <=> LabelNodes(name) # {}
    BY <1>2, <1>3 DEF LabelsPlaced, Defined, LabelNodes
<1> DEFINE Twice == \E k, l \in DOMAIN ast :
                        Is(ast[k], "label") /\ ast[k] = ast[l] /\ k # l
           Missing == \E name \in UsedNames : LabelNodes(name) = {}
<1>5. LabelsClear <=> ~Twice /\ ~Missing
    BY DEF LabelsClear
<1>6. error <=> Twice
    BY <1>2, <1>3 DEF DefinedTwice
<1>7. ASSUME NEW q, NEW k \in DOMAIN ast, NEW p \in {ast[k].p1, ast[k].p2},
             Is(ast[k], "op"), Stands(tables, q, p)
      PROVE  Dangles(q) <=> Is(p, "label") /\ LabelNodes(p.label) = {}
  <2>1. CASE Is(p, "label")
    <3>1. q.mode = Label /\ HasId(tables, p.label, q.value)
        BY <1>7, <2>1 DEF Stands
    <3>2. p.label \in Name
        BY <1>3, <1>7, <2>1, UsedIsName
    <3>3. Resolved(q.value) <=> LabelNodes(p.label) # {}
        BY <1>2, <1>4, <3>1, <3>2, ResolvedName
    <3>4. QED
        BY <2>1, <3>1, <3>3 DEF Dangles
  <2>2. CASE ~Is(p, "label") /\ Is(p, "string")
    <3>1. PICK j \in 1 .. Len(tables.data_section) :
              HasId(tables, DataName(j), q.value)
        BY <1>7, <2>2 DEF Stands
    <3>2. Positioned(tables, DataName(j))
        BY <1>1, <1>2, <3>1 DEF StringsPlaced
    <3>3. Resolved(q.value)
        BY <1>2, <3>1, <3>2, ResolvedName
    <3>4. QED
        BY <2>2, <3>3 DEF Dangles
  <2>3. CASE ~Is(p, "label") /\ ~Is(p, "string")
      BY <1>7, <2>3 DEF Stands, Dangles
  <2>4. QED
      BY <2>1, <2>2, <2>3
<1> DEFINE Left == \E i \in ToSet(instructions) :
                       ~Is(i, "raw") /\ (Dangles(i.p1) \/ Dangles(i.p2))
<1>8. ASSUME Left PROVE Missing
  <2>1. PICK i \in ToSet(instructions) :
            ~Is(i, "raw") /\ (Dangles(i.p1) \/ Dangles(i.p2))
      BY <1>8
  <2>2. PICK k \in 1 .. n : Is(ast[k], "op") /\ Encodes(tables, i, ast[k])
      BY <1>2, <1>3, <2>1 DEF Encoded, EncodedBy
  <2>3. k \in DOMAIN ast
      BY <1>3
  <2>4. PICK p \in {ast[k].p1, ast[k].p2} :
            Is(p, "label") /\ LabelNodes(p.label) = {}
      BY <1>7, <2>1, <2>2, <2>3 DEF Encodes
  <2>5. p.label \in UsedNames
      BY <1>3, <2>2, <2>3, <2>4, UsedInNode
  <2>6. QED
      BY <2>4, <2>5
<1>9. ASSUME Missing PROVE Left
  <2>1. PICK name \in UsedNames : LabelNodes(name) = {}
      BY <1>9
  <2>2. PICK k \in DOMAIN ast : \E p \in {ast[k].p1, ast[k].p2} :
            Is(ast[k], "op") /\ Is(p, "label") /\ name = p.label
      BY UsedNode
  <2>3. PICK p \in {ast[k].p1, ast[k].p2} :
            Is(ast[k], "op") /\ Is(p, "label") /\ name = p.label
      BY <2>2
  <2>4. PICK i \in ToSet(instructions) : Encodes(tables, i, ast[k])
      BY <1>2, <1>3, <2>3 DEF Encoded, EncodedBy
  <2>5. Dangles(i.p1) \/ Dangles(i.p2)
      BY <1>7, <2>1, <2>3, <2>4 DEF Encodes
  <2>6. QED
      BY <2>4, <2>5 DEF Encodes
<1>10. error' = (error \/ Left)
    BY <1>1
<1> HIDE DEF Twice, Missing, Left
<1>11. error' = ~LabelsClear
    BY <1>5, <1>6, <1>8, <1>9, <1>10
<1>12. QED
    BY <1>1, <1>11

-----------------------------------------------------------------------------
(* The assembler as a whole. *)

(* Before the first call nothing has been met. *)
LEMMA ClearInit == Init => ClearInv
<1> SUFFICES ASSUME Init PROVE ClearInv
    OBVIOUS
<1>1. /\ source \in Sources /\ read = 0 /\ ast = << >>
      /\ tables = NoTables /\ instructions = << >> /\ position = 0
      /\ error = FALSE /\ ran = FALSE /\ at = "host"
    BY DEF Init, ParserInit
<1>2. TypesInv
  <2>1. source \in Seq(Token) /\ ast \in Seq(Node) /\ at \in Places
      BY <1>1, SourceAssumption DEF Places
  <2>2. ran \in BOOLEAN /\ read \in Nat /\ position \in Nat
      BY <1>1
  <2>3. QED
      BY <2>1, <2>2 DEF TypesInv
<1>3. QED
    BY <1>1, <1>2 DEF ClearInv, FreshInv, PassInv, EndInv, Passing

(* At the beginning of the passes. *)
LEMMA NothingPlaced ==
    /\ LabelsOK(NoTables) /\ DataOK(NoTables)
    /\ \A name : ~Positioned(NoTables, name)
    /\ Len(NoTables.data_section) = 0
<1>1. ToSet(NoTables.labels) = {}
    BY DEF NoTables, ToSet
<1>2. NoTables \in Tables
    BY DEF NoTables, Tables
<1>3. LabelsOK(NoTables)
    BY <1>1, <1>2 DEF LabelsOK
<1>4. \A name : ~Known(NoTables, name) /\ ~Positioned(NoTables, name)
    BY <1>1 DEF Known, Positioned
<1>5. /\ Len(NoTables.data_section) = 0
      /\ NoTables.last_string_id = Len(NoTables.data_section) + 1
    BY DEF NoTables
<1>6. DataOK(NoTables)
    BY <1>4, <1>5 DEF DataOK
<1>7. QED
    BY <1>3, <1>4, <1>5, <1>6

(* The passes begin with all of this true of no nodes. *)
LEMMA PassesBegin ==
    ASSUME TypesInv', tables' = NoTables, instructions' = << >>,
           error' = FALSE, at' = "nodes", next' = 1, ran' = FALSE
    PROVE  PassInv'
<1>1. /\ LabelsOK(tables') /\ DataOK(tables')
      /\ \A name : ~Positioned(tables', name)
    BY NothingPlaced
<1>2. done' = 0
    BY DEF done
<1>3. ProgressInv'
    BY DEF ProgressInv, TypesInv
<1>4. LabelsPlaced'
    BY <1>1, <1>2 DEF LabelsPlaced, Defined
<1>5. StringsPlaced'
    BY <1>1 DEF StringsPlaced
<1>6. (error = DefinedTwice(done))'
  <2>1. DefinedTwice(done)' = FALSE
      BY <1>2 DEF DefinedTwice
  <2>2. QED
      BY <2>1
<1>7. Encoded'
    BY <1>2 DEF Encoded, EncodedBy, ToSet
<1>8. QED
    BY <1>1, <1>3, <1>4, <1>5, <1>6, <1>7 DEF PassInv

(* Every step preserves it, as long as positions fit. *)
LEMMA ClearNext ==
    ASSUME ClearInv, PositionsFit, [Next]_vars
    PROVE  ClearInv'
<1> USE DEF ClearInv
<1>1. CASE Enter
  <2>1. /\ UNCHANGED <<source, read, ast, tables, instructions, position,
                       error, ran>>
        /\ at = "host" /\ at' = IF ran THEN "return" ELSE "parse"
      BY <1>1 DEF Enter, parser
  <2>2. LabelsClear' = LabelsClear
      BY <2>1 DEF LabelsClear, LabelNodes, UsedNames
  <2>3. TypesInv' /\ FreshInv' /\ PassInv'
      BY <2>1 DEF TypesInv, FreshInv, PassInv, Passing, Places
  <2>4. EndInv'
      BY <2>1, <2>2 DEF EndInv
  <2>5. QED
      BY <2>3, <2>4
<1>2. CASE Parse
  <2>1. /\ UNCHANGED <<source, tables, instructions, position, error, ran, at>>
        /\ at = "parse" /\ ParseNode
      BY <1>2 DEF Parse, ParseNode, ParseInstruction, ParseLabelOrString,
         ParseEndOfLine, ParseUnexpected
  <2>2. ~ran
      BY <2>1 DEF EndInv
  <2>3. ast' \in Seq(Node) /\ read' \in Nat
      BY <2>1, AstStep DEF TypesInv
  <2>4. QED
      BY <2>1, <2>2, <2>3 DEF TypesInv, FreshInv, PassInv, Passing, EndInv
<1>3. CASE Parsed
  <2>1. /\ UNCHANGED <<source, read, ast, tables, instructions, position,
                       error, ran>>
        /\ at = "parse" /\ at' \in {"return", "nodes"} /\ next' = 1
      BY <1>3 DEF Parsed, parser
  <2>2. ~ran
      BY <2>1 DEF EndInv
  <2>3. tables = NoTables /\ instructions = << >> /\ error = FALSE
      BY <2>1, <2>2 DEF FreshInv, Passing
  <2>4. TypesInv' /\ FreshInv' /\ EndInv'
      BY <2>1, <2>2, <2>3 DEF TypesInv, FreshInv, EndInv, Places
  <2>5. PassInv'
    <3>1. CASE at' = "nodes"
      <4>1. ran' = FALSE
          BY <2>1, <2>2 DEF TypesInv
      <4>2. /\ TypesInv' /\ tables' = NoTables /\ instructions' = << >>
            /\ error' = FALSE /\ next' = 1
          BY <2>1, <2>3, <2>4
      <4>3. QED
          BY <3>1, <4>1, <4>2, PassesBegin
    <3>2. CASE at' # "nodes"
        BY <2>1, <3>2 DEF PassInv, Passing
    <3>3. QED
        BY <3>1, <3>2
  <2>6. QED
      BY <2>4, <2>5
<1>4. CASE Pass
  <2>1. UNCHANGED <<source, read, ast, parser_error>> /\ UNCHANGED output
      BY <1>4 DEF Pass, parser
  <2>2. LabelsClear' = LabelsClear
      BY <2>1 DEF LabelsClear, LabelNodes, UsedNames
  <2>3. Passing /\ ~ran
      BY <1>4 DEF Pass, Passing, AtNode, InstructionNode, LabelNode,
         StringNode, NodesEnd, DataEntry, DataEnd, convert_labels, PassInv
  <2>4. CASE \/ InstructionNode \/ LabelNode \/ StringNode \/ NodesEnd
             \/ DataEntry \/ DataEnd
    <3>1. PassInv' /\ position' \in Nat
        BY <2>1, <2>4, InstructionStep, LabelStep, StringStep, NodesEndStep,
           DataStep, DataEndStep
    <3>2. ran' = ran /\ at' \in {"nodes", "data", "convert"}
        BY <2>3, <2>4 DEF Passing, InstructionNode, LabelNode, AtNode,
           StringNode, NodesEnd, DataEntry, DataEnd
    <3>3. QED
        BY <2>1, <2>3, <3>1, <3>2
           DEF TypesInv, FreshInv, EndInv, Passing, Places
  <2>5. CASE convert_labels
    <3>1. /\ ran' /\ at' = "return"
          /\ error' = ~LabelsClear /\ position' = position
        BY <2>1, <2>5, ConvertStep
    <3>2. QED
        BY <2>1, <2>2, <3>1
           DEF TypesInv, FreshInv, PassInv, EndInv, Passing, Places
  <2>6. QED
      BY <1>4, <2>4, <2>5 DEF Pass
<1>5. CASE Return
  <2>1. /\ UNCHANGED <<source, read, ast, tables, instructions, position,
                       error, ran, call>>
        /\ at = "return" /\ at' = "host"
        /\ call # "run" => output' = IF error THEN NoOutput
                                     ELSE [ok |-> TRUE, binary |-> binary]
      BY <1>5 DEF Return, parser
  <2>2. LabelsClear' = LabelsClear
      BY <2>1 DEF LabelsClear, LabelNodes, UsedNames
  <2>3. ran => error = ~LabelsClear
      BY DEF EndInv
  <2>4. LabelsClear \in BOOLEAN
      BY DEF LabelsClear
  <2>5. ran /\ call # "run" => output'.ok = LabelsClear
    <3>1. CASE error
      <4>1. call # "run" => output'.ok = FALSE
          BY <2>1, <3>1 DEF NoOutput
      <4>2. QED
          BY <2>3, <2>4, <3>1, <4>1
    <3>2. CASE ~error
      <4>1. call # "run" => output'.ok = TRUE
          BY <2>1, <3>2
      <4>2. QED
          BY <2>3, <2>4, <3>2, <4>1
    <3>3. QED
        BY <3>1, <3>2
  <2>6. EndInv'
      BY <2>1, <2>2, <2>3, <2>5 DEF EndInv
  <2>7. TypesInv' /\ FreshInv' /\ PassInv'
      BY <2>1 DEF TypesInv, FreshInv, PassInv, Passing, Places
  <2>8. QED
      BY <2>6, <2>7
<1>6. CASE UNCHANGED vars
  <2>1. UNCHANGED <<source, read, ast, tables, instructions, position,
                    error, ran, call, at, next, output>>
      BY <1>6 DEF vars
  <2>2. LabelsClear' = LabelsClear /\ done' = done
      BY <2>1 DEF LabelsClear, LabelNodes, UsedNames, done
  <2>3. PassInv'
      BY <2>1, <2>2 DEF PassInv, Passing, ProgressInv, LabelsPlaced, Defined,
         StringsPlaced, DefinedTwice, Encoded, EncodedBy
  <2>4. QED
      BY <2>1, <2>2, <2>3 DEF TypesInv, FreshInv, EndInv, Passing
<1>7. QED
    BY <1>1, <1>2, <1>3, <1>4, <1>5, <1>6 DEF Next, Work

(* There is no binary if a label is defined twice or used without being    *)
(* defined, and only then: for every source that the parser has accepted   *)
(* and whatever a host calls, as long as no position reaches the address   *)
(* that stands for a label without one. *)
THEOREM BinaryIffLabelsClear ==
    Spec /\ []PositionsFit => []ErrorsYieldNoBinary
<1>1. Init => ClearInv
    BY ClearInit
<1>2. ClearInv /\ PositionsFit /\ [Next]_vars => ClearInv'
    BY ClearNext
<1>3. ClearInv => ErrorsYieldNoBinary
    BY DEF ClearInv, EndInv, ErrorsYieldNoBinary
<1>4. QED
    BY <1>1, <1>2, <1>3, PTL DEF Spec

-----------------------------------------------------------------------------
(* The layout of the nodes: where the passes put them. *)

(* Wrapping around twice is wrapping around once. *)
LEMMA WordSum ==
    ASSUME NEW x \in Int, NEW y \in Int
    PROVE  Word(Word(x) + y) = Word(x + y)
<1> DEFINE c == WORD
           z == x + y
           p == x \div c
           q == z \div c
           r == z % c
<1>1. c \in Nat \ {0}
    BY Widths
<1> HIDE DEF c
<1>2. p \in Int /\ x = c * p + (x % c) /\ x % c \in Int
    BY <1>1
<1>3. q \in Int /\ z = c * q + r /\ r \in 0 .. c - 1
    BY <1>1
<1> HIDE DEF p, q, r
<1> DEFINE s == x % c
<1>4. s + y = r + c * (q - p)
  <2> DEFINE a == c * p
             b == c * q
  <2>1. a \in Int /\ b \in Int /\ c * (q - p) = b - a
      BY <1>1, <1>2, <1>3
  <2>2. x = a + s /\ x + y = b + r /\ s \in Int /\ r \in Int
      BY <1>2, <1>3
  <2> HIDE DEF a, b, s
  <2>3. QED
      BY <2>1, <2>2
<1>5. (s + y) % c = r
  <2>1. q - p \in Int
      BY <1>2, <1>3
  <2> HIDE DEF s
  <2>2. QED
      BY <1>1, <1>3, <1>4, <2>1, LowPart
<1>6. QED
    BY <1>5 DEF Word, c, r, s, z

(* The label of that name has that position. *)
Lies(t, name, v) == \E label \in ToSet(t.labels) :
    label.name = name /\ label.position = v

(* A label that is placed stays where it is, and the one that waits for a  *)
(* position gets it. *)
LEMMA PositionSet ==
    ASSUME NEW t, LabelsOK(t), NEW name,
           Word(ROM_START + position) \in WordRange
    PROVE  LET u == set_label_position(t, name)
           IN  /\ \A m, v : v # INVALID_LABEL_ADDRESS /\ Lies(t, m, v)
                              => Lies(u, m, v)
               /\ Unplaced(t, name)
                     => Lies(u, name, Word(ROM_START + position))
<1> DEFINE u == set_label_position(t, name)
           s == t.labels
           w == Word(ROM_START + position)
           F(x) == IF x.name = name /\ x.position = INVALID_LABEL_ADDRESS
                   THEN [x EXCEPT !.position = w] ELSE x
<1>1. t \in Tables /\ s \in Seq(LabelRecord)
    BY DEF LabelsOK, Tables
<1>2. u = [t EXCEPT !.labels = [i \in DOMAIN s |-> F(s[i])]]
    BY DEF set_label_position
<1>3. u.labels = [i \in DOMAIN s |-> F(s[i])]
    BY <1>1, <1>2 DEF Tables
<1>4. \A x \in LabelRecord :
          /\ F(x).name = x.name
          /\ F(x).position =
                IF x.name = name /\ x.position = INVALID_LABEL_ADDRESS
                THEN w ELSE x.position
    BY DEF LabelRecord
<1> HIDE DEF F, w, u
<1>5. \A x \in ToSet(s) : x \in LabelRecord /\ F(x) \in ToSet(u.labels)
    BY <1>1, <1>3 DEF ToSet
<1>6. QED
    BY <1>4, <1>5 DEF Lies, Unplaced, u, w

(* What is placed stays so when labels are added. *)
LEMMA LiesStill ==
    ASSUME NEW t, NEW u, ToSet(t.labels) \subseteq ToSet(u.labels),
           NEW name, NEW v, Lies(t, name, v)
    PROVE  Lies(u, name, v)
BY DEF Lies

(* How many bytes the first pass reserves for an instruction. *)
Size(i) == IF Is(i, "raw") THEN Len(i.raw) ELSE calculate_instruction_length(i)

(* Where each instruction begins, and which one a node has become: a label *)
(* none of its own. *)
Sums(off, insts) ==
    /\ off \in [1 .. Len(insts) + 1 -> Nat]
    /\ off[1] = 0
    /\ \A m \in 1 .. Len(insts) : off[m + 1] = off[m] + Size(insts[m])

OpInstruction == [op : ToSet(OpTable), p1 : Encodable, p2 : Encodable]
Codes(t, i, node) ==
    IF Is(node, "op") THEN i \in OpInstruction /\ Encodes(t, i, node)
    ELSE i = [raw |-> Append(node.string, 0)]
Becomes(nodes, t, insts, idx, n) ==
    /\ idx \in [1 .. n + 1 -> 1 .. Len(insts) + 1]
    /\ idx[1] = 1 /\ idx[n + 1] = Len(insts) + 1
    /\ \A k \in 1 .. n :
          IF Is(nodes[k], "label") THEN idx[k + 1] = idx[k]
          ELSE /\ idx[k + 1] = idx[k] + 1
               /\ idx[k] \in 1 .. Len(insts)
               /\ Codes(t, insts[idx[k]], nodes[k])

(* A label of the source lies at a node that defines it. *)
Located(nodes, t, off, idx, n) == \A name \in Name : Positioned(t, name) =>
    \E k \in 1 .. n : /\ nodes[k] = [label |-> name]
                      /\ Lies(t, name, Word(ROM_START + off[idx[k]]))

(* A function with one value more. *)
Extended(f, n, v) == [m \in 1 .. n + 2 |-> IF m = n + 2 THEN v ELSE f[m]]

(* An instruction is added. *)
LEMMA SumsMore ==
    ASSUME NEW T, NEW insts \in Seq(T), NEW off, Sums(off, insts),
           NEW i \in T, Size(i) \in Nat
    PROVE  LET n == Len(insts)
               more == Extended(off, n, off[n + 1] + Size(i))
           IN  /\ Sums(more, Append(insts, i))
               /\ \A m \in 1 .. n + 1 : more[m] = off[m]
               /\ more[n + 2] = off[n + 1] + Size(i)
<1> DEFINE n == Len(insts)
           new == Append(insts, i)
           v == off[n + 1] + Size(i)
           more == Extended(off, n, v)
<1>1. /\ n \in Nat /\ Len(new) = n + 1
      /\ \A m \in 1 .. n : new[m] = insts[m]
      /\ new[n + 1] = i
    BY AppendedSet
<1>2. /\ off \in [1 .. n + 1 -> Nat] /\ off[1] = 0
      /\ \A m \in 1 .. n : off[m + 1] = off[m] + Size(insts[m])
    BY DEF Sums
<1> HIDE DEF n, new
<1>3. v \in Nat
  <2>1. off[n + 1] \in Nat
      BY <1>1, <1>2
  <2>2. QED
      BY <2>1
<1>4. /\ more \in [1 .. n + 2 -> Nat]
      /\ \A m \in 1 .. n + 1 : more[m] = off[m]
      /\ more[n + 2] = v
  <2> HIDE DEF v
  <2>1. n \in Nat /\ off \in [1 .. n + 1 -> Nat] /\ v \in Nat
      BY <1>1, <1>2, <1>3
  <2>2. /\ Extended(off, n, v) \in [1 .. n + 2 -> Nat]
        /\ \A m \in 1 .. n + 1 : Extended(off, n, v)[m] = off[m]
        /\ Extended(off, n, v)[n + 2] = v
      BY <2>1 DEF Extended
  <2>3. QED
      BY <2>2
<1> HIDE DEF more
<1>5. \A m \in 1 .. n + 1 : more[m + 1] = more[m] + Size(new[m])
  <2>1. ASSUME NEW m \in 1 .. n
        PROVE  more[m + 1] = more[m] + Size(new[m])
    <3>1. m \in 1 .. n + 1 /\ m + 1 \in 1 .. n + 1
        BY <1>1
    <3>2. QED
        BY <1>1, <1>2, <1>4, <3>1
  <2>2. more[n + 1 + 1] = more[n + 1] + Size(new[n + 1])
    <3>1. n + 1 + 1 = n + 2 /\ n + 1 \in 1 .. n + 1
        BY <1>1
    <3>2. QED
        BY <1>1, <1>4, <3>1
  <2>3. \A m \in 1 .. n + 1 : m \in 1 .. n \/ m = n + 1
      BY <1>1
  <2>4. QED
      BY <2>1, <2>2, <2>3
<1>6. more[1] = 0 /\ n + 1 + 1 = n + 2
    BY <1>1, <1>2, <1>4
<1>7. Sums(more, new)
    BY <1>1, <1>4, <1>5, <1>6 DEF Sums
<1>8. QED
    BY <1>4, <1>7 DEF n, more, new

(* A node is passed: it becomes the instruction that is added. *)
LEMMA BecomesMore ==
    ASSUME NEW nodes, NEW t, NEW u, Keeps(t, u), NEW T, NEW insts \in Seq(T),
           NEW n \in Nat, NEW idx, Becomes(nodes, t, insts, idx, n),
           ~Is(nodes[n + 1], "label"), NEW i \in T, Codes(u, i, nodes[n + 1])
    PROVE  LET more == Extended(idx, n, Len(insts) + 2)
           IN  /\ Becomes(nodes, u, Append(insts, i), more, n + 1)
               /\ \A k \in 1 .. n + 1 : more[k] = idx[k]
<1> DEFINE l == Len(insts)
           new == Append(insts, i)
           more == Extended(idx, n, l + 2)
<1>1. /\ l \in Nat /\ Len(new) = l + 1
      /\ \A m \in 1 .. l : new[m] = insts[m]
      /\ new[l + 1] = i
    BY AppendedSet
<1>2. /\ idx \in [1 .. n + 1 -> 1 .. l + 1] /\ idx[1] = 1 /\ idx[n + 1] = l + 1
      /\ \A k \in 1 .. n :
            IF Is(nodes[k], "label") THEN idx[k + 1] = idx[k]
            ELSE /\ idx[k + 1] = idx[k] + 1 /\ idx[k] \in 1 .. l
                 /\ Codes(t, insts[idx[k]], nodes[k])
    BY DEF Becomes
<1> HIDE DEF l, new
<1>3. /\ more \in [1 .. n + 2 -> 1 .. l + 2]
      /\ \A k \in 1 .. n + 1 : more[k] = idx[k]
      /\ more[n + 2] = l + 2
  <2>1. idx \in [1 .. n + 1 -> 1 .. l + 2] /\ l + 2 \in 1 .. l + 2
    <3>1. \A x \in 1 .. l + 1 : x \in 1 .. l + 2
        BY <1>1
    <3>2. l + 2 \in 1 .. l + 2
        BY <1>1
    <3>3. QED
        BY <1>2, <3>1, <3>2
  <2> DEFINE v == l + 2
  <2> HIDE DEF v
  <2>3. /\ Extended(idx, n, v) \in [1 .. n + 2 -> 1 .. v]
        /\ \A k \in 1 .. n + 1 : Extended(idx, n, v)[k] = idx[k]
        /\ Extended(idx, n, v)[n + 2] = v
    <3>1. idx \in [1 .. n + 1 -> 1 .. v] /\ v \in 1 .. v
        BY <2>1 DEF v
    <3>2. QED
        BY <3>1 DEF Extended
  <2>4. QED
      BY <2>3 DEF v
<1> HIDE DEF more
<1>4. \A x, node : Codes(t, x, node) => Codes(u, x, node)
    BY EncodesStill DEF Codes
<1>5. ASSUME NEW k \in 1 .. n + 1
      PROVE  IF Is(nodes[k], "label") THEN more[k + 1] = more[k]
             ELSE /\ more[k + 1] = more[k] + 1 /\ more[k] \in 1 .. l + 1
                  /\ Codes(u, new[more[k]], nodes[k])
  <2>1. CASE k \in 1 .. n
    <3>1. k \in 1 .. n + 1 /\ k + 1 \in 1 .. n + 1
        BY <2>1
    <3>2. more[k + 1] = idx[k + 1] /\ more[k] = idx[k]
        BY <1>3, <3>1
    <3>3. CASE Is(nodes[k], "label")
        BY <1>2, <2>1, <3>2, <3>3
    <3>4. CASE ~Is(nodes[k], "label")
      <4>1. /\ idx[k + 1] = idx[k] + 1 /\ idx[k] \in 1 .. l
            /\ Codes(t, insts[idx[k]], nodes[k])
          BY <1>2, <2>1, <3>4
      <4>2. idx[k] \in 1 .. l + 1 /\ new[idx[k]] = insts[idx[k]]
          BY <1>1, <4>1
      <4>3. QED
          BY <1>4, <3>2, <3>4, <4>1, <4>2
    <3>5. QED
        BY <3>3, <3>4
  <2>2. CASE k = n + 1
    <3>1. n + 1 \in 1 .. n + 1 /\ n + 1 + 1 = n + 2 /\ l + 1 \in 1 .. l + 1
          /\ l + 1 + 1 = l + 2
        BY <1>1
    <3>2. more[n + 1] = l + 1 /\ more[n + 1 + 1] = l + 2
        BY <1>2, <1>3, <3>1
    <3>3. QED
        BY <1>1, <2>2, <3>1, <3>2
  <2>3. QED
      BY <2>1, <2>2
<1>6. /\ 1 \in 1 .. n + 1 /\ n + 1 + 1 = n + 2 /\ l + 1 + 1 = l + 2
    BY <1>1
<1>7. Becomes(nodes, u, new, more, n + 1)
  <2>1. more[1] = 1
      BY <1>2, <1>3, <1>6
  <2>2. QED
      BY <1>1, <1>3, <1>5, <1>6, <2>1 DEF Becomes
<1>8. QED
    BY <1>3, <1>7 DEF more, new, l

(* A label is passed. *)
LEMMA BecomesLabel ==
    ASSUME NEW nodes, NEW t, NEW u, Keeps(t, u), NEW T, NEW insts \in Seq(T),
           NEW n \in Nat, NEW idx, Becomes(nodes, t, insts, idx, n),
           Is(nodes[n + 1], "label")
    PROVE  LET more == Extended(idx, n, Len(insts) + 1)
           IN  /\ Becomes(nodes, u, insts, more, n + 1)
               /\ \A k \in 1 .. n + 1 : more[k] = idx[k]
<1> DEFINE l == Len(insts)
           v == l + 1
           more == Extended(idx, n, v)
<1>1. l \in Nat
    OBVIOUS
<1>2. /\ idx \in [1 .. n + 1 -> 1 .. v] /\ idx[1] = 1 /\ idx[n + 1] = v
      /\ \A k \in 1 .. n :
            IF Is(nodes[k], "label") THEN idx[k + 1] = idx[k]
            ELSE /\ idx[k + 1] = idx[k] + 1 /\ idx[k] \in 1 .. l
                 /\ Codes(t, insts[idx[k]], nodes[k])
    BY DEF Becomes
<1>3. v \in 1 .. v
    BY <1>1
<1> HIDE DEF l, v
<1>4. /\ more \in [1 .. n + 2 -> 1 .. v]
      /\ \A k \in 1 .. n + 1 : more[k] = idx[k]
      /\ more[n + 2] = v
    BY <1>1, <1>2, <1>3 DEF Extended
<1> HIDE DEF more
<1>5. \A x, node : Codes(t, x, node) => Codes(u, x, node)
    BY EncodesStill DEF Codes
<1>6. ASSUME NEW k \in 1 .. n + 1
      PROVE  IF Is(nodes[k], "label") THEN more[k + 1] = more[k]
             ELSE /\ more[k + 1] = more[k] + 1 /\ more[k] \in 1 .. l
                  /\ Codes(u, insts[more[k]], nodes[k])
  <2>1. CASE k \in 1 .. n
    <3>1. k \in 1 .. n + 1 /\ k + 1 \in 1 .. n + 1
        BY <2>1
    <3>2. more[k + 1] = idx[k + 1] /\ more[k] = idx[k]
        BY <1>4, <3>1
    <3>3. QED
        BY <1>2, <1>5, <2>1, <3>2
  <2>2. CASE k = n + 1
    <3>1. n + 1 \in 1 .. n + 1 /\ n + 1 + 1 = n + 2
        OBVIOUS
    <3>2. QED
        BY <1>2, <1>4, <2>2, <3>1
  <2>3. QED
      BY <2>1, <2>2
<1>7. 1 \in 1 .. n + 1 /\ n + 1 + 1 = n + 2
    OBVIOUS
<1>8. Becomes(nodes, u, insts, more, n + 1)
    BY <1>2, <1>4, <1>6, <1>7 DEF Becomes, l, v
<1>9. QED
    BY <1>4, <1>8 DEF more, v, l

(* The nodes passed, laid out one after another. *)
Laid(nodes, t, insts, n, off, idx) ==
    /\ Sums(off, insts)
    /\ Becomes(nodes, t, insts, idx, n)
    /\ Located(nodes, t, off, idx, n)

(* The strings behind them, up to the one the loop over them is at. *)
Datas(t) == [j \in DOMAIN t.data_section |-> t.data_section[j].data]
Strung(t, doff, end, n, at_position) ==
    /\ Begins(doff, Datas(t))
    /\ n \in 0 .. Len(t.data_section)
    /\ at_position = Word(end + doff[n + 1])
    /\ \A j \in 1 .. n :
          Lies(t, DataName(j), Word(ROM_START + (end + doff[j])))

passed == IF at = "data" THEN next - 1 ELSE Len(tables.data_section)
LayoutInv == Passing => \E off, idx :
    /\ Laid(ast, tables, instructions, done, off, idx)
    /\ LET end == off[Len(instructions) + 1]
       IN  IF at = "nodes" THEN position = Word(end)
           ELSE \E doff : Strung(tables, doff, end, passed, position)

(* A label that is placed lies at one position only. *)
LEMMA LiesOnce ==
    ASSUME NEW t, LabelsOK(t), NEW name, NEW v, Lies(t, name, v)
    PROVE  /\ v \in WordRange
           /\ Positioned(t, name) => v # INVALID_LABEL_ADDRESS
           /\ \A w : Lies(t, name, w) => w = v
<1>1. \A x \in ToSet(t.labels) : x.position \in WordRange
  <2>1. t.labels \in Seq(LabelRecord)
      BY DEF LabelsOK, Tables
  <2>2. \A x \in ToSet(t.labels) : x \in LabelRecord
      BY <2>1 DEF ToSet
  <2>3. QED
      BY <2>2 DEF LabelRecord
<1>2. \A x, y \in ToSet(t.labels) : x.name = y.name => x = y
    BY DEF LabelsOK
<1>3. QED
    BY <1>1, <1>2 DEF Lies, Positioned

(* The first pass reserves at least the opcode of an instruction. *)
LEMMA SizeType ==
    /\ \A i \in OpInstruction : /\ Size(i) = calculate_instruction_length(i)
                                /\ Size(i) \in Nat
    /\ \A b \in Bytes : Size([raw |-> b]) = Len(b) /\ Len(b) \in Nat
<1>1. ASSUME NEW i \in OpInstruction
      PROVE  /\ Size(i) = calculate_instruction_length(i)
             /\ Size(i) \in Nat
  <2>1. ~Is(i, "raw")
      BY DEF OpInstruction, Is
  <2>2. param_size(i.p1.mode) \in Nat /\ param_size(i.p2.mode) \in Nat
    <3>1. /\ param_size(i.p1.mode) \in 0 .. 4
          /\ param_size(i.p2.mode) \in 0 .. 4
        BY ParamSize
    <3>2. QED
        BY <3>1
  <2>3. calculate_instruction_length(i) \in Nat
      BY <2>2 DEF calculate_instruction_length
  <2>4. QED
      BY <2>1, <2>3 DEF Size
<1>2. ASSUME NEW b \in Bytes
      PROVE  Size([raw |-> b]) = Len(b) /\ Len(b) \in Nat
    BY DEF Size, Is, Bytes
<1>3. QED
    BY <1>1, <1>2

(* The instructions lie still when i is put behind them. *)
LaidBehind(nodes, t, insts, n, off, i) ==
    \E off2, idx2 :
        /\ Laid(nodes, t, Append(insts, i), n + 1, off2, idx2)
        /\ off2[Len(Append(insts, i)) + 1] = off[Len(insts) + 1] + Size(i)

(* An instruction is laid behind the others. *)
LEMMA LaidMore ==
    ASSUME NEW nodes, NEW t, NEW u, Keeps(t, u),
           NEW insts \in Seq(Instruction),
           NEW n \in Nat, NEW off, NEW idx,
           Laid(nodes, t, insts, n, off, idx),
           ~Is(nodes[n + 1], "label"),
           NEW i \in Instruction, Size(i) \in Nat, Codes(u, i, nodes[n + 1]),
           ToSet(t.labels) \subseteq ToSet(u.labels),
           \A name \in Name : Positioned(u, name) => Positioned(t, name)
    PROVE  LaidBehind(nodes, u, insts, n, off, i)
<1> DEFINE l == Len(insts)
           new == Append(insts, i)
           off2 == Extended(off, l, off[l + 1] + Size(i))
           idx2 == Extended(idx, n, l + 2)
<1>1. l \in Nat /\ Len(new) + 1 = l + 2
    BY AppendedSet
<1>2. /\ Sums(off, insts) /\ Becomes(nodes, t, insts, idx, n)
      /\ Located(nodes, t, off, idx, n)
    BY DEF Laid
<1>3. /\ Sums(off2, new)
      /\ \A m \in 1 .. l + 1 : off2[m] = off[m]
      /\ off2[l + 2] = off[l + 1] + Size(i)
    BY <1>2, SumsMore
<1>4. /\ Becomes(nodes, u, new, idx2, n + 1)
      /\ \A k \in 1 .. n + 1 : idx2[k] = idx[k]
    BY <1>2, BecomesMore
<1>5. idx \in [1 .. n + 1 -> 1 .. l + 1]
    BY <1>2 DEF Becomes
<1> HIDE DEF l, new, off2, idx2
<1>6. Located(nodes, u, off2, idx2, n + 1)
  <2> SUFFICES ASSUME NEW name \in Name, Positioned(u, name)
               PROVE  \E k \in 1 .. n + 1 :
                          /\ nodes[k] = [label |-> name]
                          /\ Lies(u, name, Word(ROM_START + off2[idx2[k]]))
      BY DEF Located
  <2>1. Positioned(t, name) /\ \A v : Lies(t, name, v) => Lies(u, name, v)
      BY LiesStill
  <2>2. PICK k \in 1 .. n :
            /\ nodes[k] = [label |-> name]
            /\ Lies(t, name, Word(ROM_START + off[idx[k]]))
      BY <1>2, <2>1 DEF Located
  <2>3. k \in 1 .. n + 1 /\ idx[k] \in 1 .. l + 1
      BY <1>5
  <2>4. off2[idx2[k]] = off[idx[k]]
      BY <1>3, <1>4, <2>3
  <2>5. QED
      BY <2>1, <2>2, <2>3, <2>4
<1>7. Laid(nodes, u, new, n + 1, off2, idx2)
    BY <1>3, <1>4, <1>6 DEF Laid
<1>8. off2[Len(new) + 1] = off[l + 1] + Size(i)
    BY <1>1, <1>3
<1>9. QED
    BY <1>7, <1>8 DEF new, l, LaidBehind

(* How many nodes the passes have seen. *)
LEMMA NodesSeen ==
    ASSUME TypesInv, PassInv, at = "nodes", next <= Len(ast),
           next' = next + 1, UNCHANGED <<at, ast>>
    PROVE  /\ next \in 1 .. Len(ast) /\ next \in Nat
           /\ done \in Nat /\ done + 1 = next /\ done' = done + 1
BY DEF TypesInv, PassInv, Passing, ProgressInv, done

(* The steps of the passes keep the layout: an instruction is laid behind   *)
(* the nodes before it, ... *)
LEMMA InstructionLaid ==
    ASSUME TypesInv, PassInv, LayoutInv, InstructionNode,
           UNCHANGED <<source, read, ast, parser_error>>
    PROVE  LayoutInv'
<1>1. /\ at = "nodes" /\ next \in 1 .. Len(ast)
      /\ next' = next + 1 /\ UNCHANGED <<error, ran, at>>
      /\ ast[next] \in OpNode /\ Is(ast[next], "op")
      /\ ~Is(ast[next], "label")
      /\ LabelsOK(tables') /\ DataOK(tables') /\ Keeps(tables, tables')
      /\ ToSet(tables.labels) \subseteq ToSet(tables'.labels)
      /\ \A name : Positioned(tables', name) <=> Positioned(tables, name)
    BY InstructionNodeStep
<1>2. PICK i \in OpInstruction :
          /\ Encodes(tables', i, ast[next])
          /\ instructions' = Append(instructions, i)
          /\ position' = Word(position + calculate_instruction_length(i))
    BY InstructionNodeStep DEF OpInstruction
<1>3. i \in Instruction /\ Size(i) \in Nat
      /\ Size(i) = calculate_instruction_length(i)
    BY SizeType DEF OpInstruction, Instruction
<1>4. Passing /\ Passing' /\ instructions \in Seq(Instruction)
    BY <1>1 DEF Passing, PassInv, ProgressInv
<1>5. done \in Nat /\ done + 1 = next /\ done' = done + 1
    BY <1>1, NodesSeen DEF TypesInv
<1>6. PICK off, idx : /\ Laid(ast, tables, instructions, done, off, idx)
                      /\ position = Word(off[Len(instructions) + 1])
    BY <1>1, <1>4 DEF LayoutInv
<1>7. Codes(tables', i, ast[done + 1])
    BY <1>1, <1>2, <1>5 DEF Codes
<1> DEFINE n == done
<1>8. PICK off2, idx2 :
          /\ Laid(ast, tables', instructions', n + 1, off2, idx2)
          /\ off2[Len(instructions') + 1]
                  = off[Len(instructions) + 1] + Size(i)
  <2> HIDE DEF n
  <2>1. /\ Keeps(tables, tables') /\ instructions \in Seq(Instruction)
        /\ n \in Nat /\ Laid(ast, tables, instructions, n, off, idx)
        /\ ~Is(ast[n + 1], "label") /\ i \in Instruction
        /\ Size(i) \in Nat /\ Codes(tables', i, ast[n + 1])
        /\ ToSet(tables.labels) \subseteq ToSet(tables'.labels)
        /\ \A name \in Name :
              Positioned(tables', name) => Positioned(tables, name)
      BY <1>1, <1>3, <1>4, <1>5, <1>6, <1>7 DEF n
  <2>2. LaidBehind(ast, tables', instructions, n, off, i)
      BY <2>1, LaidMore, Zenon
  <2>3. QED
      BY <1>2, <2>2 DEF LaidBehind
<1>9. position' = Word(off2[Len(instructions') + 1])
  <2> DEFINE end == off[Len(instructions) + 1]
  <2>1. end \in Nat
      BY <1>4, <1>6 DEF Laid, Sums
  <2> HIDE DEF end
  <2>2. Word(Word(end) + Size(i)) = Word(end + Size(i))
      BY <1>3, <2>1, WordSum
  <2>3. QED
      BY <1>2, <1>3, <1>6, <1>8, <2>2 DEF end
<1>10. Laid(ast', tables', instructions', done', off2, idx2)
    BY <1>5, <1>8
<1>11. QED
    BY <1>1, <1>9, <1>10 DEF LayoutInv

(* ... a label gets the position of what comes next, ... *)
LEMMA LabelLaid ==
    ASSUME TypesInv, PassInv, LayoutInv, PositionsFit, LabelNode,
           UNCHANGED <<source, read, ast, parser_error>>
    PROVE  LayoutInv'
<1> DEFINE node == ast[next]
           name == node.label
           known == handle_label(tables, name)
           placed == set_label_position(known, name)
           n == done
           l == Len(instructions)
<1>1. /\ at = "nodes" /\ next <= Len(ast) /\ Is(node, "label")
      /\ tables' = placed /\ next' = next + 1
      /\ UNCHANGED <<instructions, position, at>>
    BY DEF LabelNode, AtNode
<1>2. /\ LabelsOK(tables) /\ DataOK(tables) /\ Passing /\ Passing'
      /\ instructions \in Seq(Instruction)
    BY <1>1 DEF Passing, PassInv, ProgressInv
<1>3. n \in Nat /\ n + 1 = next /\ done' = n + 1 /\ next \in 1 .. Len(ast)
    BY <1>1, NodesSeen
<1>4. name \in Name /\ name \in LabelName /\ node = [label |-> name]
  <2>1. node \in Node
      BY <1>3 DEF TypesInv
  <2>2. node \in [label : Name]
      BY <1>1, <2>1, NodeAlternative
  <2>3. QED
      BY <2>2 DEF LabelName
<1>5. PICK off, idx : /\ Laid(ast, tables, instructions, n, off, idx)
                      /\ position = Word(off[l + 1])
    BY <1>1, <1>2 DEF LayoutInv
<1> DEFINE idx2 == Extended(idx, n, l + 1)
<1>6. ast[n + 1] = node /\ Is(ast[n + 1], "label")
    BY <1>1, <1>3
<1> HIDE DEF n, l, node, name
<1>7. /\ LabelsOK(known) /\ known.data_section = tables.data_section
      /\ \A m : Known(known, m) <=> Known(tables, m) \/ m = name
      /\ \A m : Positioned(known, m) <=> Positioned(tables, m)
      /\ \A m, id : HasId(tables, m, id) => HasId(known, m, id)
      /\ ToSet(tables.labels) \subseteq ToSet(known.labels)
    BY <1>2, <1>4, HandleLabel, LabelsKept
<1> HIDE DEF known
<1>8. Word(ROM_START + position) \in WordRange \ {INVALID_LABEL_ADDRESS}
    BY PositionWord DEF TypesInv
<1>9. /\ LabelsOK(placed) /\ placed.data_section = known.data_section
      /\ \A m : Positioned(placed, m) <=>
                   Positioned(known, m) \/ (m = name /\ Known(known, m))
      /\ \A m, id : HasId(placed, m, id) <=> HasId(known, m, id)
    BY <1>7, <1>8, SetPosition
<1>10. /\ \A m, v : v # INVALID_LABEL_ADDRESS /\ Lies(known, m, v)
                        => Lies(placed, m, v)
       /\ Unplaced(known, name)
              => Lies(placed, name, Word(ROM_START + position))
    BY <1>7, <1>8, PositionSet
<1> HIDE DEF placed
<1>11. Keeps(tables, placed)
    BY <1>7, <1>9 DEF Keeps
<1>12. /\ Sums(off, instructions)
       /\ Becomes(ast, tables, instructions, idx, n)
       /\ Located(ast, tables, off, idx, n)
    BY <1>5 DEF Laid
<1>13. /\ Becomes(ast, placed, instructions, idx2, n + 1)
       /\ \A k \in 1 .. n + 1 : idx2[k] = idx[k]
    BY <1>2, <1>3, <1>6, <1>11, <1>12, BecomesLabel DEF l
<1> HIDE DEF idx2
<1>14. /\ idx[n + 1] = l + 1 /\ n + 1 \in 1 .. n + 1
       /\ \A k \in 1 .. n : k \in 1 .. n + 1
    BY <1>3, <1>12 DEF Becomes, l
<1>15. Word(ROM_START + position) = Word(ROM_START + off[l + 1])
  <2> DEFINE end == off[l + 1]
  <2>1. end \in Nat
      BY <1>2, <1>12 DEF Sums, l
  <2> HIDE DEF end
  <2>2. Word(Word(end) + ROM_START) = Word(end + ROM_START)
      BY <2>1, WordSum, OriginAssumption
  <2>3. position = Word(end) /\ position \in Nat
      BY <1>5 DEF end, TypesInv
  <2>4. /\ Word(end) + ROM_START = ROM_START + Word(end)
        /\ end + ROM_START = ROM_START + end
      BY <2>1, <2>3, OriginAssumption
  <2>5. QED
      BY <2>2, <2>3, <2>4 DEF end
<1>16. Located(ast, placed, off, idx2, n + 1)
  <2> SUFFICES ASSUME NEW m \in Name, Positioned(placed, m)
               PROVE  \E k \in 1 .. n + 1 :
                          /\ ast[k] = [label |-> m]
                          /\ Lies(placed, m, Word(ROM_START + off[idx2[k]]))
      BY DEF Located
  <2>1. CASE Positioned(tables, m)
    <3>1. PICK k \in 1 .. n :
              /\ ast[k] = [label |-> m]
              /\ Lies(tables, m, Word(ROM_START + off[idx[k]]))
        BY <1>12, <2>1 DEF Located
    <3> DEFINE v == Word(ROM_START + off[idx[k]])
    <3>2. v # INVALID_LABEL_ADDRESS /\ Lies(known, m, v)
        BY <1>2, <1>7, <2>1, <3>1, LiesOnce, LiesStill
    <3>3. Lies(placed, m, v) /\ idx2[k] = idx[k] /\ k \in 1 .. n + 1
        BY <1>10, <1>13, <1>14, <3>1, <3>2
    <3>4. QED
        BY <3>1, <3>3
  <2>2. CASE ~Positioned(tables, m)
    <3>1. m = name /\ Known(known, name) /\ ~Positioned(known, name)
        BY <1>7, <1>9, <2>2
    <3>2. Unplaced(known, name)
        BY <1>7, <3>1, Waiting
    <3>3. Lies(placed, name, Word(ROM_START + off[l + 1]))
        BY <1>10, <1>15, <3>2
    <3>4. /\ n + 1 \in 1 .. n + 1 /\ idx2[n + 1] = l + 1
          /\ ast[n + 1] = [label |-> name]
        BY <1>4, <1>6, <1>13, <1>14
    <3>5. QED
        BY <3>1, <3>3, <3>4
  <2>3. QED
      BY <2>1, <2>2
<1>17. Laid(ast', tables', instructions', done', off, idx2)
    BY <1>1, <1>3, <1>12, <1>13, <1>16 DEF Laid
<1>18. position' = Word(off[Len(instructions') + 1])
    BY <1>1, <1>5 DEF l
<1>19. QED
    BY <1>1, <1>17, <1>18 DEF LayoutInv

(* ... and a string is laid like an instruction. *)
LEMMA StringLaid ==
    ASSUME TypesInv, PassInv, LayoutInv, StringNode,
           UNCHANGED <<source, read, ast, parser_error>>
    PROVE  LayoutInv'
<1> DEFINE node == ast[next]
           n == done
           i == [raw |-> Append(node.string, 0)]
<1>1. /\ at = "nodes" /\ next <= Len(ast) /\ Is(node, "string")
      /\ instructions' = Append(instructions, i)
      /\ position' = Word(position + Len(node.string) + 1)
      /\ next' = next + 1 /\ UNCHANGED <<tables, at>>
    BY DEF StringNode, AtNode
<1>2. Passing /\ Passing' /\ instructions \in Seq(Instruction)
    BY <1>1 DEF Passing, PassInv, ProgressInv
<1>3. n \in Nat /\ n + 1 = next /\ done' = n + 1 /\ next \in 1 .. Len(ast)
    BY <1>1, NodesSeen
<1>4. node.string \in Bytes /\ ~Is(node, "op") /\ ~Is(node, "label")
  <2>1. node \in Node
      BY <1>3 DEF TypesInv
  <2>2. node \in [string : Bytes] /\ ~Is(node, "op") /\ ~Is(node, "label")
      BY <1>1, <2>1, NodeAlternative
  <2>3. QED
      BY <2>2
<1>5. PICK off, idx : /\ Laid(ast, tables, instructions, n, off, idx)
                      /\ position = Word(off[Len(instructions) + 1])
    BY <1>1, <1>2 DEF LayoutInv
<1>6. ast[n + 1] = node
    BY <1>3
<1>7. /\ Append(node.string, 0) \in Bytes /\ i \in Instruction
      /\ Size(i) \in Nat /\ Size(i) = Len(node.string) + 1
      /\ Len(node.string) \in Nat
  <2>1. 0 \in ByteRange
      BY Widths DEF ByteRange
  <2>2. /\ Append(node.string, 0) \in Bytes /\ Len(node.string) \in Nat
        /\ Len(Append(node.string, 0)) = Len(node.string) + 1
      BY <1>4, <2>1 DEF Bytes
  <2> DEFINE b == Append(node.string, 0)
  <2>3. b \in Bytes /\ i = [raw |-> b]
      BY <2>2
  <2> HIDE DEF b
  <2>4. Size(i) = Len(b) /\ Size(i) \in Nat /\ i \in Instruction
      BY <2>3, SizeType DEF Instruction
  <2>5. QED
      BY <2>2, <2>4 DEF b
<1>8. Codes(tables, i, node)
    BY <1>4 DEF Codes
<1> HIDE DEF n, node, i
<1>9. PICK off2, idx2 :
          /\ Laid(ast, tables, instructions', n + 1, off2, idx2)
          /\ off2[Len(instructions') + 1]
                  = off[Len(instructions) + 1] + Size(i)
  <2>1. /\ Keeps(tables, tables) /\ instructions \in Seq(Instruction)
        /\ n \in Nat /\ Laid(ast, tables, instructions, n, off, idx)
        /\ ~Is(ast[n + 1], "label") /\ i \in Instruction
        /\ Size(i) \in Nat /\ Codes(tables, i, ast[n + 1])
        /\ ToSet(tables.labels) \subseteq ToSet(tables.labels)
        /\ \A name \in Name :
              Positioned(tables, name) => Positioned(tables, name)
      BY <1>2, <1>3, <1>4, <1>5, <1>6, <1>7, <1>8 DEF Keeps
  <2>2. LaidBehind(ast, tables, instructions, n, off, i)
      BY <2>1, LaidMore, Zenon
  <2>3. QED
      BY <1>1, <2>2 DEF LaidBehind
<1>10. position' = Word(off2[Len(instructions') + 1])
  <2> DEFINE end == off[Len(instructions) + 1]
             s == Len(node.string)
  <2>1. end \in Nat
      BY <1>2, <1>5 DEF Laid, Sums
  <2>2. s \in Nat /\ Size(i) = s + 1 /\ position = Word(end)
        /\ position' = Word(position + s + 1) /\ position \in Nat
      BY <1>1, <1>5, <1>7 DEF TypesInv
  <2> HIDE DEF end, s
  <2>3. Word(Word(end) + (s + 1)) = Word(end + (s + 1))
      BY <2>1, <2>2, WordSum
  <2>4. position + s + 1 = Word(end) + (s + 1)
      BY <2>2
  <2>5. QED
      BY <1>9, <2>2, <2>3, <2>4 DEF end
<1>11. Laid(ast', tables', instructions', done', off2, idx2)
    BY <1>1, <1>3, <1>9
<1>12. QED
    BY <1>1, <1>10, <1>11 DEF LayoutInv

(* The bytes of the strings. *)
LEMMA DatasType ==
    ASSUME NEW t, LabelsOK(t)
    PROVE  /\ t.data_section \in Seq(DataRecord)
           /\ Datas(t) \in Seq(Seq(ByteRange))
           /\ Len(Datas(t)) = Len(t.data_section)
           /\ Len(t.data_section) \in Nat
           /\ \A j \in 1 .. Len(t.data_section) :
                  Datas(t)[j] = t.data_section[j].data
<1> DEFINE s == t.data_section
<1>1. s \in Seq(DataRecord)
    BY DEF LabelsOK, Tables
<1> HIDE DEF s
<1>2. \A j \in 1 .. Len(s) : s[j].data \in Seq(ByteRange)
  <2>1. \A j \in 1 .. Len(s) : s[j] \in DataRecord
      BY <1>1
  <2>2. QED
      BY <2>1 DEF DataRecord, Bytes
<1> DEFINE d == [j \in 1 .. Len(s) |-> s[j].data]
<1>3. d = Datas(t)
    BY <1>1 DEF Datas, s
<1>4. /\ d \in Seq(Seq(ByteRange)) /\ Len(d) = Len(s)
      /\ \A j \in 1 .. Len(s) : d[j] = s[j].data
    BY <1>1, <1>2
<1>5. QED
    BY <1>1, <1>3, <1>4 DEF s

(* Behind the last node the strings begin ... *)
LEMMA NodesEndLaid ==
    ASSUME TypesInv, PassInv, LayoutInv, NodesEnd,
           UNCHANGED <<source, read, ast, parser_error>>
    PROVE  LayoutInv'
<1>1. /\ at = "nodes" /\ next > Len(ast) /\ at' = "data" /\ next' = 1
      /\ UNCHANGED <<tables, instructions, position>>
    BY DEF NodesEnd
<1>2. /\ Passing /\ Passing' /\ LabelsOK(tables)
      /\ next <= Len(ast) + 1 /\ next \in Nat
    BY <1>1 DEF Passing, PassInv, ProgressInv
<1>3. done' = done
  <2>1. Len(ast) \in Nat
      BY DEF TypesInv
  <2>2. QED
      BY <1>1, <1>2, <2>1 DEF done
<1>4. PICK off, idx : /\ Laid(ast, tables, instructions, done, off, idx)
                      /\ position = Word(off[Len(instructions) + 1])
    BY <1>1, <1>2 DEF LayoutInv
<1> DEFINE end == off[Len(instructions) + 1]
<1>5. PICK doff : Begins(doff, Datas(tables))
    BY <1>2, DatasType, BeginsExist
<1>6. end \in Nat
    BY <1>2, <1>4 DEF Laid, Sums, Passing, PassInv, ProgressInv
<1>7. Strung(tables, doff, end, 0, position)
  <2>1. doff[1] = 0 /\ 0 + 1 = 1 /\ position = Word(end)
      BY <1>4, <1>5 DEF Begins
  <2> HIDE DEF end
  <2>2. position = Word(end + doff[0 + 1]) /\ ~ \E j : j \in 1 .. 0
      BY <1>6, <2>1
  <2>3. 0 \in 0 .. Len(tables.data_section)
      BY <1>2, DatasType
  <2>4. QED
      BY <1>5, <2>2, <2>3 DEF Strung
<1>8. Laid(ast', tables', instructions', done', off, idx)
    BY <1>1, <1>3, <1>4
<1>9. passed' = 0 /\ off[Len(instructions') + 1] = end
    BY <1>1 DEF passed
<1> HIDE DEF end
<1>10. Strung(tables', doff, off[Len(instructions') + 1], passed', position')
    BY <1>1, <1>7, <1>9
<1>11. at' # "nodes"
    BY <1>1
<1>12. QED
    BY <1>8, <1>10, <1>11 DEF LayoutInv

(* ... of which each is laid behind the one before, at its label, ... *)
LEMMA DataLaid ==
    ASSUME TypesInv, PassInv, LayoutInv, PositionsFit, DataEntry,
           UNCHANGED <<source, read, ast, parser_error>>
    PROVE  LayoutInv'
<1> DEFINE entry == tables.data_section[next]
           name == entry.label_name
           placed == set_label_position(tables, name)
           n == passed
<1>1. /\ at = "data" /\ next <= Len(tables.data_section)
      /\ tables' = placed /\ position' = Word(position + Len(entry.data))
      /\ next' = next + 1 /\ UNCHANGED <<instructions, at>>
    BY DEF DataEntry
<1>2. /\ Passing /\ Passing' /\ LabelsOK(tables) /\ DataOK(tables)
      /\ StringsPlaced /\ next \in Nat \ {0}
    BY <1>1 DEF Passing, PassInv, ProgressInv
<1>3. /\ tables.data_section \in Seq(DataRecord)
      /\ next \in 1 .. Len(tables.data_section)
    BY <1>1, <1>2, DatasType
<1>4. n = next - 1 /\ n \in Nat /\ n + 1 = next /\ passed' = n + 1
      /\ done' = done
    BY <1>1, <1>2 DEF passed, done
<1>5. name = DataName(next) /\ Known(tables, name)
      /\ ~Positioned(tables, name) /\ entry.data = Datas(tables)[next]
  <2>1. name = DataName(next) /\ Known(tables, DataName(next))
      BY <1>2, <1>3 DEF DataOK
  <2>2. ~Positioned(tables, DataName(next))
      BY <1>1, <1>2 DEF StringsPlaced
  <2>3. QED
      BY <1>2, <1>3, <2>1, <2>2, DatasType
<1>6. PICK off, idx : /\ Laid(ast, tables, instructions, done, off, idx)
                      /\ \E doff : Strung(tables, doff,
                             off[Len(instructions) + 1], n, position)
    BY <1>1, <1>2 DEF LayoutInv
<1> DEFINE end == off[Len(instructions) + 1]
<1>7. PICK doff : Strung(tables, doff, end, n, position)
    BY <1>6
<1>8. end \in Nat
    BY <1>2, <1>6 DEF Laid, Sums, Passing, PassInv, ProgressInv
<1> HIDE DEF end, n, name, entry
<1>9. Word(ROM_START + position) \in WordRange \ {INVALID_LABEL_ADDRESS}
    BY PositionWord DEF TypesInv
<1>10. /\ LabelsOK(placed) /\ placed.data_section = tables.data_section
       /\ \A m : Positioned(placed, m) <=>
                    Positioned(tables, m) \/ (m = name /\ Known(tables, m))
       /\ \A m, id : HasId(placed, m, id) <=> HasId(tables, m, id)
    BY <1>2, <1>9, SetPosition
<1>11. /\ \A m, v : v # INVALID_LABEL_ADDRESS /\ Lies(tables, m, v)
                        => Lies(placed, m, v)
       /\ Lies(placed, name, Word(ROM_START + position))
    BY <1>2, <1>5, <1>9, PositionSet, Waiting
<1> HIDE DEF placed
<1>12. Keeps(tables, placed)
    BY <1>10 DEF Keeps
<1>13. \A m, v : Positioned(tables, m) /\ Lies(tables, m, v)
                     => Lies(placed, m, v)
    BY <1>2, <1>11, LiesOnce
<1>14. Laid(ast, placed, instructions, done, off, idx)
  <2>1. \A i, node : Codes(tables, i, node) => Codes(placed, i, node)
      BY <1>12, EncodesStill DEF Codes
  <2>2. Becomes(ast, placed, instructions, idx, done)
      BY <1>6, <2>1 DEF Laid, Becomes
  <2>3. \A m \in Name : Positioned(placed, m) => Positioned(tables, m)
      BY <1>3, <1>5, <1>10, DataNames
  <2>4. Located(ast, tables, off, idx, done) /\ Sums(off, instructions)
      BY <1>6 DEF Laid
  <2>5. Located(ast, placed, off, idx, done)
      BY <1>13, <2>3, <2>4 DEF Located
  <2>6. QED
      BY <2>2, <2>4, <2>5 DEF Laid
<1>15. Datas(placed) = Datas(tables)
    BY <1>10 DEF Datas
<1>16. /\ doff[n + 1] \in Nat /\ doff[n + 1 + 1] \in Nat
       /\ Len(entry.data) \in Nat
       /\ doff[n + 1 + 1] = doff[n + 1] + Len(entry.data)
       /\ position = Word(end + doff[n + 1])
  <2> DEFINE d == Datas(tables)
  <2>1. d \in Seq(Seq(ByteRange)) /\ next \in 1 .. Len(d)
      BY <1>2, <1>3, DatasType
  <2>2. Begins(doff, d) /\ position = Word(end + doff[n + 1])
      BY <1>7 DEF Strung
  <2>3. entry.data = d[next]
      BY <1>5
  <2> HIDE DEF d
  <2>4. /\ next \in 1 .. Len(d) + 1 /\ next + 1 \in 1 .. Len(d) + 1
        /\ d[next] \in Seq(ByteRange)
      BY <2>1
  <2>5. /\ doff[next] \in Nat /\ doff[next + 1] \in Nat
        /\ doff[next + 1] = doff[next] + Len(d[next])
      BY <2>1, <2>2, <2>4 DEF Begins
  <2>6. Len(d[next]) \in Nat
      BY <2>4
  <2>7. QED
      BY <1>4, <2>2, <2>3, <2>5, <2>6
<1>17. /\ position' = Word(end + doff[n + 1 + 1])
       /\ Word(ROM_START + position) = Word(ROM_START + (end + doff[n + 1]))
  <2> DEFINE x == doff[n + 1]
             y == doff[n + 1 + 1]
             s == Len(entry.data)
  <2>1. x \in Nat /\ y \in Nat /\ s \in Nat /\ y = x + s
        /\ position = Word(end + x) /\ position \in Nat
        /\ position' = Word(position + s)
      BY <1>1, <1>16 DEF TypesInv
  <2> HIDE DEF x, y, s
  <2>2. end + x \in Int /\ end + x + s = end + y /\ ROM_START \in Int
        /\ end + x + ROM_START = ROM_START + (end + x)
      BY <1>8, <2>1, OriginAssumption
  <2> DEFINE z == end + x
  <2>3. z \in Int /\ z + s = end + y /\ position = Word(z)
        /\ z + ROM_START = ROM_START + z
      BY <2>1, <2>2
  <2>4. Word(ROM_START + (end + x)) = Word(ROM_START + z)
      OBVIOUS
  <2> HIDE DEF z
  <2>5. Word(Word(z) + s) = Word(z + s)
      BY <2>1, <2>3, WordSum
  <2>6. Word(Word(z) + ROM_START) = Word(z + ROM_START)
      BY <2>2, <2>3, WordSum
  <2>7. Word(z) + ROM_START = ROM_START + position
      BY <2>1, <2>2, <2>3
  <2>8. QED
      BY <2>1, <2>3, <2>4, <2>5, <2>6, <2>7 DEF x, y
<1>18. \A j \in 1 .. n + 1 :
           Lies(placed, DataName(j), Word(ROM_START + (end + doff[j])))
  <2>1. ASSUME NEW j \in 1 .. n
        PROVE  Lies(placed, DataName(j), Word(ROM_START + (end + doff[j])))
    <3>1. Lies(tables, DataName(j), Word(ROM_START + (end + doff[j])))
        BY <1>7 DEF Strung
    <3>2. j \in Nat /\ j \in 1 .. Len(tables.data_section) /\ j < next
        BY <1>3, <1>4
    <3>3. Positioned(tables, DataName(j))
        BY <1>1, <1>2, <3>2 DEF StringsPlaced
    <3>4. QED
        BY <1>13, <3>1, <3>3
  <2>2. DataName(n + 1) = name
      BY <1>4, <1>5
  <2>3. Lies(placed, DataName(n + 1),
             Word(ROM_START + (end + doff[n + 1])))
      BY <1>11, <1>17, <2>2
  <2>4. \A j \in 1 .. n + 1 : j \in 1 .. n \/ j = n + 1
      BY <1>4
  <2>5. QED
      BY <2>1, <2>3, <2>4
<1>19. Strung(placed, doff, end, n + 1, position')
  <2>1. Begins(doff, Datas(placed))
      BY <1>7, <1>15 DEF Strung
  <2>2. n + 1 \in 0 .. Len(placed.data_section)
      BY <1>3, <1>4, <1>10
  <2>3. QED
      BY <1>17, <1>18, <2>1, <2>2 DEF Strung
<1>20. Strung(tables', doff, off[Len(instructions') + 1], passed', position')
    BY <1>1, <1>4, <1>19 DEF end
<1>21. Laid(ast', tables', instructions', done', off, idx) /\ at' # "nodes"
    BY <1>1, <1>4, <1>14
<1>22. QED
    BY <1>20, <1>21 DEF LayoutInv

(* ... until all are. *)
LEMMA DataEndLaid ==
    ASSUME TypesInv, PassInv, LayoutInv, DataEnd,
           UNCHANGED <<source, read, ast, parser_error>>
    PROVE  LayoutInv'
<1>1. /\ at = "data" /\ next > Len(tables.data_section) /\ at' = "convert"
      /\ UNCHANGED <<tables, instructions, position, next>>
    BY DEF DataEnd
<1>2. /\ Passing /\ Passing' /\ LabelsOK(tables) /\ next \in Nat \ {0}
    BY <1>1 DEF Passing, PassInv, ProgressInv
<1>3. PICK off, idx : /\ Laid(ast, tables, instructions, done, off, idx)
                      /\ \E doff : Strung(tables, doff,
                             off[Len(instructions) + 1], passed, position)
    BY <1>1, <1>2 DEF LayoutInv
<1>4. PICK doff : Strung(tables, doff, off[Len(instructions) + 1], passed,
                         position)
    BY <1>3
<1>5. passed' = passed /\ done' = done
  <2>1. passed \in 0 .. Len(tables.data_section)
      BY <1>4 DEF Strung
  <2>2. Len(tables.data_section) \in Nat
      BY <1>2, DatasType
  <2>3. QED
      BY <1>1, <1>2, <2>1, <2>2 DEF passed, done
<1>6. Laid(ast', tables', instructions', done', off, idx) /\ at' # "nodes"
    BY <1>1, <1>3, <1>5
<1>7. Strung(tables', doff, off[Len(instructions') + 1], passed', position')
    BY <1>1, <1>4, <1>5
<1>8. QED
    BY <1>6, <1>7 DEF LayoutInv

-----------------------------------------------------------------------------
(* The layout of the binary. *)

(* What the binary is made of. *)
Pieces(insts) ==
    [m \in DOMAIN insts |-> IF Is(insts[m], "raw") THEN insts[m].raw
                            ELSE write_instruction(insts[m])]

(* What an encoded parameter is to the one of the source. *)
Denotes(nodes, t, off, idx, doff, q, p) ==
    IF Is(p, "label")
    THEN /\ q.mode = Constant32
         /\ \E k \in 1 .. Len(nodes) :
                /\ nodes[k] = p
                /\ q.value = Word(ROM_START + off[idx[k]])
    ELSE IF Is(p, "string")
    THEN /\ q.mode = Constant32
         /\ \E j \in 1 .. Len(t.data_section) :
                /\ t.data_section[j].data = Append(p.string, 0)
                /\ q.value = Word(ROM_START
                                  + (off[idx[Len(nodes) + 1]] + doff[j]))
    ELSE q = p

(* The second pass puts in the place of a label's id where the label lies. *)
LEMMA ConvertedParam ==
    ASSUME LabelsOK(tables), ast \in Seq(Node), NEW insts,
           NEW off, NEW idx, NEW doff, NEW pos,
           Laid(ast, tables, insts, Len(ast), off, idx),
           Strung(tables, doff, off[Len(insts) + 1],
                  Len(tables.data_section), pos),
           \A j \in 1 .. Len(tables.data_section) :
               Positioned(tables, DataName(j)),
           NEW p \in NodeParam, NEW q, Stands(tables, q, p), ~Dangles(q)
    PROVE  /\ Denotes(ast, tables, off, idx, doff, Converted(q), p)
           /\ Converted(q) \in WordParam
           /\ param_size(Converted(q).mode) = param_size(q.mode)
           /\ Converted(q).mode # Unused <=> p \in Given
           /\ p \in Given <=> p # Literal(Unused, 0)
<1> DEFINE c == Converted(q)
<1>1. idx[Len(ast) + 1] = Len(insts) + 1 /\ Len(ast) \in Nat
    BY DEF Laid, Becomes
<1>2. p \in Given <=> p # Literal(Unused, 0)
  <2>1. Literal(Unused, 0) \notin Given
    <3>1. ASSUME Literal(Unused, 0) \in Given PROVE FALSE
      <4> DEFINE z == [mode |-> 0, value |-> 0]
      <4>1. z \in Given
          BY <3>1 DEF Literal, Unused
      <4>2. z.mode = 0 /\ DOMAIN z = {"mode", "value"}
          OBVIOUS
      <4> HIDE DEF z
      <4>3. CASE z \in [mode : 1 .. 7, value : WordRange]
          BY <4>2, <4>3
      <4>4. CASE z \in [label : Name]
        <5>1. DOMAIN z = {"label"}
            BY <4>4
        <5>2. QED
            BY <4>2, <5>1
      <4>5. CASE z \in [string : Bytes]
        <5>1. DOMAIN z = {"string"}
            BY <4>5
        <5>2. QED
            BY <4>2, <5>1
      <4>6. QED
          BY <4>1, <4>3, <4>4, <4>5 DEF Given
    <3>2. QED
        BY <3>1
  <2>2. QED
      BY <2>1 DEF NodeParam
<1>3. \A name, id : HasId(tables, name, id) => id \in Nat
    BY IdType DEF Encodable, Literal
<1>4. ASSUME NEW name, HasId(tables, name, q.value), q.mode = Label,
             NEW v, Lies(tables, name, v), Positioned(tables, name)
      PROVE  /\ c.mode = Constant32 /\ c.value = v /\ c \in WordParam
             /\ param_size(c.mode) = param_size(q.mode)
             /\ c.mode # Unused
  <2>1. Resolved(q.value)
      BY <1>4, ResolvedName
  <2>2. PICK y \in ToSet(tables.labels) : y.name = name /\ y.id = q.value
      BY <1>4 DEF HasId
  <2>3. PICK x \in ToSet(tables.labels) : x.name = name /\ x.position = v
      BY <1>4 DEF Lies
  <2>4. /\ x = y
        /\ \A z \in ToSet(tables.labels) : z.id = q.value => z = x
    <3>1. \A z, z2 \in ToSet(tables.labels) :
              z.name = z2.name \/ z.id = z2.id => z = z2
        BY DEF LabelsOK
    <3>2. QED
        BY <2>2, <2>3, <3>1
  <2>5. convert_label(q.value) = v
    <3>1. (CHOOSE z \in ToSet(tables.labels) : z.id = q.value) = x
        BY <2>2, <2>4
    <3>2. QED
        BY <2>1, <2>3, <3>1 DEF convert_label
  <2>6. c = [mode |-> 3, value |-> v]
      BY <1>4, <2>5 DEF Converted, Literal, Constant32
  <2>7. v \in WordRange
      BY <1>4, LiesOnce
  <2>8. c \in WordParam
      BY <2>6, <2>7 DEF WordParam
  <2>9. c.mode = 3 /\ c.value = v
      BY <2>6
  <2> HIDE DEF c
  <2>10. param_size(3) = 4 /\ param_size(15) = 4
      BY DEF param_size, Constant8, Constant16, Constant32, AbsoluteAddress,
         RelativeAddress, Register, RegisterAddress, Label
  <2>11. QED
      BY <1>4, <2>8, <2>9, <2>10 DEF Label, Constant32, Unused
<1>5. CASE Is(p, "label")
  <2>1. q.mode = Label /\ HasId(tables, p.label, q.value)
      BY <1>5 DEF Stands
  <2>2. p \in Given /\ p.label \in Name /\ p = [label |-> p.label]
    <3>1. p \in [label : Name]
        BY <1>5 DEF NodeParam, Given, Is, Literal
    <3>2. QED
        BY <3>1 DEF Given
  <2>3. Positioned(tables, p.label)
      BY <2>1, ResolvedName DEF Dangles
  <2>4. PICK k \in 1 .. Len(ast) :
            /\ ast[k] = [label |-> p.label]
            /\ Lies(tables, p.label, Word(ROM_START + off[idx[k]]))
      BY <2>2, <2>3 DEF Laid, Located
  <2> DEFINE v == Word(ROM_START + off[idx[k]])
  <2>5. Lies(tables, p.label, v) /\ ast[k] = p
      BY <2>2, <2>4
  <2> HIDE DEF v
  <2>6. /\ c.mode = Constant32 /\ c.value = v /\ c \in WordParam
        /\ param_size(c.mode) = param_size(q.mode)
        /\ c.mode # Unused
      BY <1>4, <2>1, <2>3, <2>5
  <2> HIDE DEF c
  <2>7. Denotes(ast, tables, off, idx, doff, c, p)
      BY <1>5, <2>5, <2>6 DEF Denotes, v
  <2>8. QED
      BY <1>2, <2>2, <2>6, <2>7 DEF c
<1>6. CASE ~Is(p, "label") /\ Is(p, "string")
  <2>1. q.mode = Label
      BY <1>6 DEF Stands
  <2>2. PICK j \in 1 .. Len(tables.data_section) :
            /\ tables.data_section[j].data = Append(p.string, 0)
            /\ HasId(tables, DataName(j), q.value)
      BY <1>6 DEF Stands
  <2>3. p \in Given
    <3>1. p \in [string : Bytes]
        BY <1>6 DEF NodeParam, Given, Is, Literal
    <3>2. QED
        BY <3>1 DEF Given
  <2> DEFINE v == Word(ROM_START + (off[Len(insts) + 1] + doff[j]))
  <2>4. Lies(tables, DataName(j), v)
      BY DEF Strung
  <2> HIDE DEF v
  <2>5. /\ c.mode = Constant32 /\ c.value = v /\ c \in WordParam
        /\ param_size(c.mode) = param_size(q.mode)
        /\ c.mode # Unused
      BY <1>4, <2>1, <2>2, <2>4
  <2> HIDE DEF c
  <2>6. Denotes(ast, tables, off, idx, doff, c, p)
      BY <1>1, <1>6, <2>2, <2>5 DEF Denotes, v
  <2>7. QED
      BY <1>2, <2>3, <2>5, <2>6 DEF c
<1>7. CASE ~Is(p, "label") /\ ~Is(p, "string")
  <2>1. q.mode # Label /\ q = p /\ c = q
      BY <1>7 DEF Stands, Converted
  <2>2. p \in [mode : 1 .. 7, value : WordRange] \/ p = Literal(Unused, 0)
      BY <1>7 DEF NodeParam, Given, Is
  <2>3. 0 \in WordRange
      BY Widths DEF WordRange
  <2>4. p \in WordParam /\ (p.mode # 0 <=> p # Literal(Unused, 0))
      BY <2>2, <2>3 DEF WordParam, Literal, Unused
  <2> HIDE DEF c
  <2>5. Denotes(ast, tables, off, idx, doff, c, p)
      BY <1>7, <2>1 DEF Denotes
  <2>6. QED
      BY <1>2, <2>1, <2>4, <2>5 DEF c, Unused
<1>8. QED
    BY <1>5, <1>6, <1>7

(* An instruction keeps its length by that, and can be encoded. *)
LEMMA ConvertedInstruction ==
    ASSUME LabelsOK(tables), ast \in Seq(Node), NEW insts,
           NEW off, NEW idx, NEW doff, NEW pos,
           Laid(ast, tables, insts, Len(ast), off, idx),
           Strung(tables, doff, off[Len(insts) + 1],
                  Len(tables.data_section), pos),
           \A j \in 1 .. Len(tables.data_section) :
               Positioned(tables, DataName(j)),
           NEW node \in OpNode, NEW i \in OpInstruction,
           Encodes(tables, i, node), ~Dangles(i.p1), ~Dangles(i.p2)
    PROVE  LET x == [i EXCEPT !.p1 = Converted(@), !.p2 = Converted(@)]
           IN  /\ x \in Encodings /\ x.op = node.op
               /\ ~Is(x, "raw")
               /\ Len(write_instruction(x)) = Size(i)
               /\ write_instruction(x) \in Bytes
               /\ Denotes(ast, tables, off, idx, doff, x.p1, node.p1)
               /\ Denotes(ast, tables, off, idx, doff, x.p2, node.p2)
<1> DEFINE x == [i EXCEPT !.p1 = Converted(@), !.p2 = Converted(@)]
           c1 == Converted(i.p1)
           c2 == Converted(i.p2)
<1>1. x = [op |-> i.op, p1 |-> c1, p2 |-> c2]
  <2>1. i = [op |-> i.op, p1 |-> i.p1, p2 |-> i.p2]
      BY DEF OpInstruction
  <2>2. x = [[i EXCEPT !.p1 = Converted(i.p1)] EXCEPT !.p2 = Converted(i.p2)]
      BY <2>1
  <2> HIDE DEF x
  <2>3. QED
      BY <2>1, <2>2
<1> HIDE DEF x
<1>2. /\ i.op = node.op /\ i.op \in ToSet(OpTable)
      /\ Stands(tables, i.p1, node.p1) /\ Stands(tables, i.p2, node.p2)
    BY DEF Encodes, OpInstruction
<1>3. /\ node.p1 \in NodeParam /\ node.p2 \in NodeParam /\ Complete(node)
    BY DEF OpNode
<1>4. /\ Denotes(ast, tables, off, idx, doff, c1, node.p1)
      /\ c1 \in WordParam /\ param_size(c1.mode) = param_size(i.p1.mode)
      /\ c1.mode # Unused <=> node.p1 \in Given
      /\ node.p1 \in Given <=> node.p1 # Literal(Unused, 0)
    BY <1>2, <1>3, ConvertedParam
<1>5. /\ Denotes(ast, tables, off, idx, doff, c2, node.p2)
      /\ c2 \in WordParam /\ param_size(c2.mode) = param_size(i.p2.mode)
      /\ c2.mode # Unused <=> node.p2 \in Given
      /\ node.p2 \in Given <=> node.p2 # Literal(Unused, 0)
    BY <1>2, <1>3, ConvertedParam
<1> HIDE DEF c1, c2
<1>6. /\ ParametersOf(node.op) > 0 <=> c1.mode # Unused
      /\ ParametersOf(node.op) > 1 <=> c2.mode # Unused
  <2>1. /\ ParametersOf(node.op) > 0 => node.p1 \in Given
        /\ ~(ParametersOf(node.op) > 0) => node.p1 = Literal(Unused, 0)
        /\ ParametersOf(node.op) > 1 => node.p2 \in Given
        /\ ~(ParametersOf(node.op) > 1) => node.p2 = Literal(Unused, 0)
      BY <1>3 DEF Complete
  <2>2. QED
      BY <1>4, <1>5, <2>1
<1>7. x.op = i.op /\ x.p1 = c1 /\ x.p2 = c2
    BY <1>1
<1>8. ParamsMatch(x)
    BY <1>2, <1>6, <1>7 DEF ParamsMatch, ParametersOf
<1>9. x \in Encodings
    BY <1>1, <1>2, <1>4, <1>5, <1>8 DEF Encodings
<1>10. ~Is(x, "raw")
    BY <1>1 DEF Is
<1>11. write_instruction(x) \in Bytes
    BY <1>9, InstructionBytes, NamesAssumption DEF Bytes
<1>12. calculate_instruction_length(x) = calculate_instruction_length(i)
    BY <1>4, <1>5, <1>7 DEF calculate_instruction_length
<1>13. Len(write_instruction(x)) = Size(i)
    BY <1>9, <1>12, InstructionLength, SizeType, NamesAssumption
<1>14. QED
    BY <1>2, <1>4, <1>5, <1>7, <1>9, <1>10, <1>11, <1>13 DEF x

(* The bytes of an instruction, or of a string among the nodes. *)
Holds(nodes, t, off, idx, doff, piece, node) ==
    IF Is(node, "op")
    THEN \E x \in Encodings :
             /\ piece = write_instruction(x) /\ x.op = node.op
             /\ Denotes(nodes, t, off, idx, doff, x.p1, node.p1)
             /\ Denotes(nodes, t, off, idx, doff, x.p2, node.p2)
    ELSE piece = Append(node.string, 0)

(* After the second pass: the pieces of the binary are the nodes. *)
Final(nodes, t, pieces, pos, off, idx, doff) ==
    /\ pieces \in Seq(Bytes) /\ Begins(off, pieces)
    /\ Datas(t) \in Seq(Bytes) /\ Begins(doff, Datas(t))
    /\ Len(Datas(t)) = Len(t.data_section)
    /\ \A j \in 1 .. Len(Datas(t)) : Datas(t)[j] = t.data_section[j].data
    /\ pos = Word(off[Len(pieces) + 1] + doff[Len(Datas(t)) + 1])
    /\ idx \in [1 .. Len(nodes) + 1 -> 1 .. Len(pieces) + 1]
    /\ idx[1] = 1 /\ idx[Len(nodes) + 1] = Len(pieces) + 1
    /\ \A k \in 1 .. Len(nodes) :
          IF Is(nodes[k], "label") THEN idx[k + 1] = idx[k]
          ELSE /\ idx[k + 1] = idx[k] + 1
               /\ idx[k] \in 1 .. Len(pieces)
               /\ Holds(nodes, t, off, idx, doff, pieces[idx[k]], nodes[k])
FinalInv == ran /\ ~error => \E off, idx, doff :
    Final(ast, tables, Pieces(instructions), position, off, idx, doff)

(* The second pass ends with the pieces of the binary where the first one  *)
(* has laid the nodes. *)
LEMMA ConvertLaid ==
    ASSUME TypesInv, PassInv, LayoutInv, convert_labels, ~error',
           UNCHANGED <<source, read, ast, parser_error>>
    PROVE  \E off, idx, doff : Final(ast', tables', Pieces(instructions'),
                                     position', off, idx, doff)
<1> DEFINE l == Len(instructions)
           N == Len(ast)
           d == Len(tables.data_section)
           new == [n \in DOMAIN instructions |->
                      IF Is(instructions[n], "raw") THEN instructions[n]
                      ELSE [instructions[n] EXCEPT !.p1 = Converted(@),
                                                   !.p2 = Converted(@)]]
<1>1. /\ at = "convert" /\ instructions' = new
      /\ error' = (error \/ \E i \in ToSet(instructions) :
                       ~Is(i, "raw") /\ (Dangles(i.p1) \/ Dangles(i.p2)))
      /\ UNCHANGED <<tables, position, next>>
    BY DEF convert_labels
<1>2. /\ Passing /\ LabelsOK(tables) /\ DataOK(tables) /\ Encoded
      /\ StringsPlaced /\ instructions \in Seq(Instruction)
      /\ ast \in Seq(Node)
    BY <1>1 DEF Passing, PassInv, ProgressInv, TypesInv
<1>3. done = N /\ passed = d /\ N \in Nat /\ l \in Nat /\ d \in Nat
  <2>1. d \in Nat
      BY <1>2, DatasType
  <2>2. l \in Nat /\ N \in Nat
      BY <1>2
  <2>3. QED
      BY <1>1, <2>1, <2>2 DEF done, passed
<1>4. PICK off, idx : /\ Laid(ast, tables, instructions, N, off, idx)
                      /\ \E doff : Strung(tables, doff, off[l + 1],
                                          d, position)
    BY <1>1, <1>2, <1>3 DEF LayoutInv
<1>5. PICK doff : Strung(tables, doff, off[l + 1], d, position)
    BY <1>4
<1>6. \A j \in 1 .. d : Positioned(tables, DataName(j))
  <2>1. \A j \in 1 .. d : j \in Nat
      BY <1>3
  <2>2. QED
      BY <1>1, <1>2, <2>1 DEF StringsPlaced
<1>7. \A i \in ToSet(instructions) :
          ~Is(i, "raw") => ~Dangles(i.p1) /\ ~Dangles(i.p2)
    BY <1>1
<1>8. /\ Sums(off, instructions)
      /\ Becomes(ast, tables, instructions, idx, N)
    BY <1>4 DEF Laid
<1>9. ASSUME NEW m \in 1 .. l
      PROVE  /\ instructions[m] \in Instruction
             /\ instructions[m] \in ToSet(instructions)
    BY <1>2 DEF ToSet
<1> DEFINE W(i) == [i EXCEPT !.p1 = Converted(@), !.p2 = Converted(@)]
           pieces == [m \in 1 .. l |->
                         IF Is(new[m], "raw") THEN new[m].raw
                         ELSE write_instruction(new[m])]
<1>10. ASSUME NEW i \in OpInstruction, i \in ToSet(instructions),
              NEW node \in OpNode, Encodes(tables, i, node)
       PROVE  /\ W(i) \in Encodings /\ W(i).op = node.op
              /\ ~Is(W(i), "raw") /\ ~Is(i, "raw")
              /\ Len(write_instruction(W(i))) = Size(i)
              /\ write_instruction(W(i)) \in Bytes
              /\ Denotes(ast, tables, off, idx, doff, W(i).p1, node.p1)
              /\ Denotes(ast, tables, off, idx, doff, W(i).p2, node.p2)
  <2>1. ~Is(i, "raw")
      BY <1>10 DEF Encodes
  <2>2. ~Dangles(i.p1) /\ ~Dangles(i.p2)
      BY <1>7, <1>10, <2>1
  <2> HIDE DEF W, new, pieces
  <2>3. LET x == [i EXCEPT !.p1 = Converted(@), !.p2 = Converted(@)]
        IN  /\ x \in Encodings /\ x.op = node.op
            /\ ~Is(x, "raw")
            /\ Len(write_instruction(x)) = Size(i)
            /\ write_instruction(x) \in Bytes
            /\ Denotes(ast, tables, off, idx, doff, x.p1, node.p1)
            /\ Denotes(ast, tables, off, idx, doff, x.p2, node.p2)
      BY <1>2, <1>4, <1>5, <1>6, <1>10, <2>2, ConvertedInstruction
  <2>4. QED
      BY <2>1, <2>3 DEF W
<1> HIDE DEF W
<1>11. \A m \in 1 .. l : new[m] = IF Is(instructions[m], "raw")
                                  THEN instructions[m] ELSE W(instructions[m])
  <2>1. \A m \in 1 .. l : m \in DOMAIN instructions
      BY <1>2
  <2>2. QED
      BY <2>1 DEF W
<1>12. pieces = Pieces(instructions')
  <2>1. DOMAIN new = 1 .. l
      BY <1>2
  <2> HIDE DEF new
  <2>2. QED
      BY <1>1, <2>1 DEF Pieces
<1> HIDE DEF new
<1>13. ASSUME NEW m \in 1 .. l
       PROVE  pieces[m] \in Bytes /\ Len(pieces[m]) = Size(instructions[m])
  <2> DEFINE i == instructions[m]
  <2>1. pieces[m] = IF Is(new[m], "raw") THEN new[m].raw
                    ELSE write_instruction(new[m])
      OBVIOUS
  <2>2. /\ i \in Instruction /\ i \in ToSet(instructions)
        /\ new[m] = IF Is(i, "raw") THEN i ELSE W(i)
      BY <1>9, <1>11
  <2> HIDE DEF pieces
  <2>3. CASE Is(i, "raw")
    <3>1. i \in [raw : Bytes]
        BY <2>2, <2>3 DEF Instruction, Is
    <3>2. pieces[m] = i.raw /\ i.raw \in Bytes /\ Size(i) = Len(i.raw)
        BY <2>1, <2>2, <2>3, <3>1 DEF Size
    <3>3. QED
        BY <3>2
  <2>4. CASE ~Is(i, "raw")
    <3>1. i \in OpInstruction
        BY <2>2, <2>4 DEF Instruction, OpInstruction, Is
    <3>2. PICK k \in 1 .. N : Is(ast[k], "op") /\ Encodes(tables, i, ast[k])
        BY <1>2, <1>3, <2>2, <2>4 DEF Encoded, EncodedBy
    <3>3. ast[k] \in OpNode
      <4>1. ast[k] \in Node
          BY <1>2
      <4>2. QED
          BY <3>2, <4>1, NodeAlternative
    <3> HIDE DEF i
    <3>4. /\ ~Is(W(i), "raw") /\ Len(write_instruction(W(i))) = Size(i)
          /\ write_instruction(W(i)) \in Bytes
        BY <1>10, <2>2, <3>1, <3>2, <3>3
    <3>5. pieces[m] = write_instruction(W(i))
        BY <2>1, <2>2, <2>4, <3>4
    <3>6. QED
        BY <3>4, <3>5 DEF i
  <2>5. QED
      BY <2>3, <2>4
<1>14. /\ pieces \in Seq(Bytes) /\ Len(pieces) = l
  <2>1. pieces = [m \in 1 .. l |-> pieces[m]]
      OBVIOUS
  <2> HIDE DEF pieces
  <2>2. QED
      BY <1>3, <1>13, <2>1
<1> HIDE DEF pieces
<1>15. Begins(off, pieces)
    BY <1>8, <1>13, <1>14 DEF Begins, Sums
<1>16. /\ idx \in [1 .. N + 1 -> 1 .. l + 1] /\ idx[1] = 1
       /\ idx[N + 1] = l + 1
       /\ \A k \in 1 .. N :
             IF Is(ast[k], "label") THEN idx[k + 1] = idx[k]
             ELSE /\ idx[k + 1] = idx[k] + 1
                  /\ idx[k] \in 1 .. l
                  /\ Codes(tables, instructions[idx[k]], ast[k])
    BY <1>8 DEF Becomes
<1>17. ASSUME NEW k \in 1 .. N, ~Is(ast[k], "label")
       PROVE  Holds(ast, tables, off, idx, doff, pieces[idx[k]], ast[k])
  <2> DEFINE m == idx[k]
             i == instructions[m]
             node == ast[k]
  <2>1. m \in 1 .. l /\ Codes(tables, i, node) /\ node \in Node
      BY <1>2, <1>16, <1>17
  <2>2. i \in ToSet(instructions)
        /\ new[m] = IF Is(i, "raw") THEN i ELSE W(i)
      BY <1>9, <1>11, <2>1
  <2>3. pieces[m] = IF Is(new[m], "raw") THEN new[m].raw
                    ELSE write_instruction(new[m])
      BY <2>1 DEF pieces
  <2> HIDE DEF m, i, node
  <2>4. CASE Is(node, "op")
    <3>1. i \in OpInstruction /\ Encodes(tables, i, node) /\ node \in OpNode
        BY <2>1, <2>4, NodeAlternative DEF Codes
    <3>2. /\ W(i) \in Encodings /\ W(i).op = node.op
          /\ ~Is(W(i), "raw") /\ ~Is(i, "raw")
          /\ Denotes(ast, tables, off, idx, doff, W(i).p1, node.p1)
          /\ Denotes(ast, tables, off, idx, doff, W(i).p2, node.p2)
        BY <1>10, <2>2, <3>1
    <3>3. pieces[m] = write_instruction(W(i))
        BY <2>2, <2>3, <3>2
    <3>4. QED
        BY <2>4, <3>2, <3>3 DEF Holds, m, node
  <2>5. CASE ~Is(node, "op")
    <3>1. i = [raw |-> Append(node.string, 0)]
        BY <2>1, <2>5 DEF Codes
    <3>2. Is(i, "raw") /\ i.raw = Append(node.string, 0)
        BY <3>1 DEF Is
    <3>3. pieces[m] = Append(node.string, 0)
        BY <2>2, <2>3, <3>2
    <3>4. QED
        BY <2>5, <3>3 DEF Holds, m, node
  <2>6. QED
      BY <2>4, <2>5
<1>18. /\ Datas(tables) \in Seq(Bytes) /\ Len(Datas(tables)) = d
       /\ \A j \in 1 .. d : Datas(tables)[j] = tables.data_section[j].data
    BY <1>2, DatasType DEF Bytes
<1>19. /\ Begins(doff, Datas(tables))
       /\ position = Word(off[l + 1] + doff[d + 1])
    BY <1>5 DEF Strung
<1> HIDE DEF l, N, d
<1>20. Final(ast, tables, pieces, position, off, idx, doff)
  <2>1. Len(ast) = N /\ Len(tables.data_section) = d
      BY DEF N, d
  <2>2. QED
      BY <1>14, <1>15, <1>16, <1>17, <1>18, <1>19, <2>1 DEF Final
<1>21. Final(ast', tables', Pieces(instructions'), position', off, idx, doff)
    BY <1>1, <1>12, <1>20
<1>22. QED
    BY <1>21

(* Nothing is assembled before the passes. *)
StartInv == ~ran /\ ~Passing => position = 0
LaidInv == StartInv /\ LayoutInv /\ FinalInv

(* The passes begin with nothing laid. *)
LEMMA LaidBegins ==
    ASSUME ast \in Seq(Node), UNCHANGED ast,
           tables' = NoTables, instructions' = << >>, position' = 0,
           at' = "nodes", next' = 1
    PROVE  LayoutInv'
<1> DEFINE off == [m \in 1 .. 0 + 1 |-> 0]
           idx == [m \in 1 .. 0 + 1 |-> 1]
<1>1. off \in [1 .. 0 + 1 -> Nat] /\ off[1] = 0 /\ off[0 + 1] = 0
    OBVIOUS
<1>2. idx \in [1 .. 0 + 1 -> 1 .. 0 + 1] /\ idx[1] = 1 /\ idx[0 + 1] = 0 + 1
    OBVIOUS
<1>3. Len(<< >>) = 0 /\ done' = 0
    BY DEF done
<1> HIDE DEF off, idx
<1>4. Sums(off, << >>)
    BY <1>1, <1>3 DEF Sums
<1>5. Becomes(ast, NoTables, << >>, idx, 0)
    BY <1>2, <1>3 DEF Becomes
<1>6. Located(ast, NoTables, off, idx, 0)
    BY NothingPlaced DEF Located
<1>7. Laid(ast', tables', instructions', done', off, idx)
    BY <1>3, <1>4, <1>5, <1>6 DEF Laid
<1>8. position' = Word(off[Len(instructions') + 1])
  <2>1. Word(0) = 0
    <3>1. 0 \in 0 .. WORD - 1 /\ WORD \in Nat \ {0}
        BY Widths
    <3>2. QED
        BY <3>1, SmallMod DEF Word
  <2>2. QED
      BY <1>1, <1>3, <2>1
<1>9. QED
    BY <1>7, <1>8 DEF LayoutInv

(* Every step keeps the layout, as long as positions fit. *)
LEMMA LaidNext ==
    ASSUME ClearInv, LaidInv, PositionsFit, [Next]_vars
    PROVE  LaidInv'
<1> USE DEF LaidInv
<1>1. TypesInv /\ FreshInv /\ PassInv /\ EndInv
    BY DEF ClearInv
<1>2. CASE Enter
  <2>1. /\ UNCHANGED <<ast, tables, instructions, position, error, ran>>
        /\ at = "host" /\ at' \in {"return", "parse"}
      BY <1>2 DEF Enter, parser
  <2>2. ~Passing /\ ~Passing'
      BY <2>1 DEF Passing
  <2>3. QED
      BY <2>1, <2>2 DEF StartInv, LayoutInv, FinalInv
<1>3. CASE Parse
  <2>1. /\ UNCHANGED <<tables, instructions, position, error, ran, at>>
        /\ at = "parse"
      BY <1>3 DEF Parse
  <2>2. ~ran /\ ~Passing /\ ~Passing'
      BY <1>1, <2>1 DEF EndInv, Passing
  <2>3. QED
      BY <2>1, <2>2 DEF StartInv, LayoutInv, FinalInv
<1>4. CASE Parsed
  <2>1. /\ UNCHANGED <<ast, tables, instructions, position, error, ran>>
        /\ at = "parse" /\ at' \in {"return", "nodes"} /\ next' = 1
      BY <1>4 DEF Parsed, parser
  <2>2. ~ran /\ ~Passing
      BY <1>1, <2>1 DEF EndInv, Passing
  <2>3. tables = NoTables /\ instructions = << >> /\ position = 0
        /\ ast \in Seq(Node)
      BY <1>1, <2>2 DEF FreshInv, StartInv, TypesInv
  <2>4. at' = "nodes" => LayoutInv'
      BY <2>1, <2>3, LaidBegins
  <2>5. at' = "return" => ~Passing'
      BY DEF Passing
  <2>6. QED
      BY <2>1, <2>2, <2>3, <2>4, <2>5 DEF StartInv, LayoutInv, FinalInv
<1>5. CASE Pass
  <2>1. UNCHANGED <<source, read, ast, parser_error>>
      BY <1>5 DEF Pass, parser
  <2>2. Passing /\ ~ran
      BY <1>1, <1>5 DEF Pass, Passing, AtNode, InstructionNode, LabelNode,
         StringNode, NodesEnd, DataEntry, DataEnd, convert_labels, PassInv
  <2>3. CASE \/ InstructionNode \/ LabelNode \/ StringNode \/ NodesEnd
             \/ DataEntry \/ DataEnd
    <3>1. LayoutInv'
        BY <1>1, <2>1, <2>3, InstructionLaid, LabelLaid, StringLaid,
           NodesEndLaid, DataLaid, DataEndLaid
    <3>2. ran' = ran /\ at' \in {"nodes", "data", "convert"}
        BY <2>2, <2>3 DEF Passing, InstructionNode, LabelNode, AtNode,
           StringNode, NodesEnd, DataEntry, DataEnd
    <3>3. ~ran' /\ Passing'
        BY <2>2, <3>2 DEF Passing
    <3>4. QED
        BY <3>1, <3>3 DEF StartInv, FinalInv
  <2>4. CASE convert_labels
    <3>1. ran' /\ at' = "return"
        BY <2>4 DEF convert_labels
    <3>2. ~error' => FinalInv'
        BY <1>1, <2>1, <2>4, ConvertLaid DEF FinalInv
    <3>3. error' => FinalInv'
        BY DEF FinalInv
    <3>4. QED
        BY <3>1, <3>2, <3>3 DEF StartInv, LayoutInv, Passing
  <2>5. QED
      BY <1>5, <2>3, <2>4 DEF Pass
<1>6. CASE Return
  <2>1. /\ UNCHANGED <<ast, tables, instructions, position, error, ran>>
        /\ at = "return" /\ at' = "host"
      BY <1>6 DEF Return, parser
  <2>2. ~Passing /\ ~Passing'
      BY <2>1 DEF Passing
  <2>3. QED
      BY <2>1, <2>2 DEF StartInv, LayoutInv, FinalInv
<1>7. CASE UNCHANGED vars
  <2>1. UNCHANGED <<ast, tables, instructions, position, error, ran, at, next>>
      BY <1>7 DEF vars
  <2>2. done' = done /\ passed' = passed /\ Passing' = Passing
      BY <2>1 DEF done, passed, Passing
  <2>3. LayoutInv'
      BY <2>1, <2>2 DEF LayoutInv
  <2>4. QED
      BY <2>1, <2>2, <2>3 DEF StartInv, FinalInv
<1>8. QED
    BY <1>2, <1>3, <1>4, <1>5, <1>6, <1>7 DEF Next, Work

(* It holds before the first call. *)
LEMMA LaidInit == Init => LaidInv
<1> SUFFICES ASSUME Init PROVE LaidInv
    OBVIOUS
<1>1. at = "host" /\ ~ran /\ position = 0
    BY DEF Init
<1>2. QED
    BY <1>1 DEF LaidInv, StartInv, LayoutInv, FinalInv, Passing

-----------------------------------------------------------------------------
(* What the cpu reads. *)

(* The two parts of the binary: each of their pieces lies where it begins. *)
Parts(ss, off) ==
    LET whole == FlattenSeq(ss)
        end == off[Len(ss) + 1]
    IN  /\ whole \in Bytes /\ Len(whole) = end
        /\ \A m \in 1 .. Len(ss) :
              /\ off[m] \in Nat /\ Len(ss[m]) \in Nat
              /\ off[m + 1] = off[m] + Len(ss[m])
              /\ off[m] + Len(ss[m]) <= end
              /\ \A j \in 1 .. Len(ss[m]) : whole[off[m] + j] = ss[m][j]

LEMMA PartBytes ==
    ASSUME NEW ss \in Seq(Bytes), NEW off, Begins(off, ss)
    PROVE  Parts(ss, off)
<1>1. ss \in Seq(Seq(ByteRange))
    BY DEF Bytes
<1>2. /\ FlattenSeq(ss) \in Seq(ByteRange)
      /\ Len(FlattenSeq(ss)) = off[Len(ss) + 1]
      /\ \A m \in 1 .. Len(ss) : \A j \in 1 .. Len(ss[m]) :
             FlattenSeq(ss)[off[m] + j] = ss[m][j]
    BY <1>1, Flattened
<1>3. ASSUME NEW m \in 1 .. Len(ss)
      PROVE  /\ off[m] \in Nat /\ Len(ss[m]) \in Nat
             /\ off[m + 1] = off[m] + Len(ss[m])
             /\ off[m] + Len(ss[m]) <= off[Len(ss) + 1]
  <2> DEFINE n == Len(ss) + 1
  <2>1. /\ n \in 1 .. n /\ m + 1 \in 1 .. n /\ m \in 1 .. n
        /\ Len(ss[m]) \in Nat
      BY <1>1
  <2>2. /\ off[m] \in Nat /\ off[m + 1] = off[m] + Len(ss[m])
      BY <2>1 DEF Begins
  <2>3. off[m + 1] <= off[n]
      BY <1>1, <2>1, BeginsGrow
  <2>4. QED
      BY <2>1, <2>2, <2>3
<1>4. QED
    BY <1>2, <1>3 DEF Bytes, Parts

(* In a memory that the binary is loaded to, each piece of its code and    *)
(* each string behind it lies where it begins. *)
Joined(t, pieces) == FlattenSeq(pieces) \o FlattenSeq(Datas(t))
Fits(w) == ROM_START + Len(w) <= MEM_SIZE
Stored(t, pieces, off, doff, w) ==
    LET memory == Placed(w, ROM_START, 0)
        end == off[Len(pieces) + 1]
        ds == t.data_section
    IN  /\ memory \in Memory /\ w \in Bytes
        /\ end \in Nat /\ doff[Len(ds) + 1] \in Nat
        /\ Len(w) = end + doff[Len(ds) + 1]
        /\ \A m \in 1 .. Len(pieces) :
              /\ off[m] \in Nat /\ Len(pieces[m]) \in Nat
              /\ off[m + 1] = off[m] + Len(pieces[m])
              /\ off[m] + Len(pieces[m]) <= end
              /\ \A j \in 0 .. Len(pieces[m]) - 1 :
                    memory[ROM_START + off[m] + j] = pieces[m][j + 1]
        /\ \A m \in 1 .. Len(ds) :
              /\ doff[m] \in Nat /\ Len(ds[m].data) \in Nat
              /\ doff[m] + Len(ds[m].data) <= doff[Len(ds) + 1]
              /\ \A j \in 0 .. Len(ds[m].data) - 1 :
                    memory[ROM_START + (end + doff[m]) + j]
                        = ds[m].data[j + 1]

(* So it is with the binary of the final layout, if it fits there; and its *)
(* length is the position that the passes have counted to. *)
LEMMA BinaryPlaced ==
    ASSUME NEW nodes, NEW t, NEW pieces, NEW pos,
           NEW off, NEW idx, NEW doff,
           Final(nodes, t, pieces, pos, off, idx, doff),
           NEW w, w = Joined(t, pieces), Fits(w)
    PROVE  Stored(t, pieces, off, doff, w) /\ pos = Len(w)
<1> DEFINE memory == Placed(w, ROM_START, 0)
           end == off[Len(pieces) + 1]
           ds == t.data_section
           dd == Datas(t)
           code == FlattenSeq(pieces)
           data == FlattenSeq(dd)
           all == doff[Len(ds) + 1]
<1>1. /\ pieces \in Seq(Bytes) /\ Begins(off, pieces)
      /\ dd \in Seq(Bytes) /\ Begins(doff, dd) /\ Len(dd) = Len(ds)
      /\ \A j \in 1 .. Len(ds) : dd[j] = ds[j].data
      /\ pos = Word(end + all)
    BY DEF Final
<1> HIDE DEF ds, dd
<1>2. /\ code \in Bytes /\ Len(code) = end
      /\ \A m \in 1 .. Len(pieces) :
            /\ off[m] \in Nat /\ Len(pieces[m]) \in Nat
            /\ off[m + 1] = off[m] + Len(pieces[m])
            /\ off[m] + Len(pieces[m]) <= end
            /\ \A j \in 1 .. Len(pieces[m]) :
                   code[off[m] + j] = pieces[m][j]
  <2>1. Parts(pieces, off)
      BY <1>1, PartBytes
  <2>2. QED
      BY <2>1 DEF Parts
<1>3. /\ data \in Bytes /\ Len(data) = all
      /\ \A m \in 1 .. Len(dd) :
            /\ doff[m] \in Nat /\ Len(dd[m]) \in Nat
            /\ doff[m] + Len(dd[m]) <= all
            /\ \A j \in 1 .. Len(dd[m]) : data[doff[m] + j] = dd[m][j]
  <2> DEFINE n == Len(dd) + 1
  <2>1. /\ data \in Bytes /\ Len(data) = doff[n]
        /\ \A m \in 1 .. Len(dd) :
              /\ doff[m] \in Nat /\ Len(dd[m]) \in Nat
              /\ doff[m] + Len(dd[m]) <= doff[n]
              /\ \A j \in 1 .. Len(dd[m]) : data[doff[m] + j] = dd[m][j]
    <3>1. Parts(dd, doff)
        BY <1>1, PartBytes
    <3>2. QED
        BY <3>1 DEF Parts
  <2>2. doff[n] = all
      BY <1>1
  <2> HIDE DEF n, all
  <2>3. QED
      BY <2>1, <2>2
<1>4. end \in Nat /\ all \in Nat
    BY <1>2, <1>3 DEF Bytes
<1>5. w = code \o data
    BY DEF dd, Joined
<1>f. ROM_START + Len(w) <= MEM_SIZE
    BY DEF Fits
<1> HIDE DEF code, data, end, all
<1>6. /\ w \in Bytes /\ Len(w) = end + all
      /\ \A k \in 1 .. end : w[k] = code[k]
      /\ \A k \in 1 .. all : w[end + k] = data[k]
  <2>1. code \in Seq(ByteRange) /\ data \in Seq(ByteRange)
      BY <1>2, <1>3 DEF Bytes
  <2>2. /\ w \in Seq(ByteRange) /\ Len(w) = Len(code) + Len(data)
        /\ \A k \in 1 .. Len(code) : w[k] = code[k]
        /\ \A k \in 1 .. Len(data) : w[Len(code) + k] = data[k]
      BY <1>5, <2>1, TwoParts
  <2>3. QED
      BY <1>2, <1>3, <2>2 DEF Bytes
<1>7. pos = Len(w)
  <2> DEFINE n == end + all
  <2>1. n \in Nat /\ n <= MEM_SIZE
      BY <1>4, <1>6, <1>f, OriginAssumption, MemAssumption
  <2>2. n \in 0 .. WORD - 1 /\ WORD \in Nat \ {0}
      BY <2>1, Widths, MemAssumption
  <2> HIDE DEF n
  <2>3. Word(n) = n
      BY <2>2, SmallMod DEF Word
  <2>4. QED
      BY <1>1, <1>6, <2>3 DEF n
<1>8. /\ memory \in Memory
      /\ \A k \in 1 .. end + all : memory[ROM_START + k - 1] = w[k]
  <2>1. 0 \in ByteRange
      BY Widths DEF ByteRange
  <2>2. /\ memory \in Memory
        /\ \A j \in 0 .. Len(w) - 1 : memory[ROM_START + j] = w[j + 1]
      BY <1>6, <1>f, <2>1, OriginAssumption, PlacedBytes DEF Bytes
  <2> HIDE DEF memory
  <2>3. ASSUME NEW k \in 1 .. end + all
        PROVE  memory[ROM_START + k - 1] = w[k]
    <3>1. k - 1 \in 0 .. Len(w) - 1 /\ k - 1 + 1 = k
          /\ ROM_START + (k - 1) = ROM_START + k - 1
        BY <1>4, <1>6, OriginAssumption
    <3>2. QED
        BY <2>2, <3>1
  <2>4. QED
      BY <2>2, <2>3
<1> HIDE DEF memory
<1>9. ASSUME NEW m \in 1 .. Len(pieces), NEW j \in 0 .. Len(pieces[m]) - 1
      PROVE  memory[ROM_START + off[m] + j] = pieces[m][j + 1]
  <2> DEFINE b == off[m]
             s == Len(pieces[m])
             k == b + (j + 1)
  <2>1. /\ b \in Nat /\ s \in Nat /\ b + s <= end
        /\ \A i \in 1 .. s : code[b + i] = pieces[m][i]
      BY <1>2
  <2> HIDE DEF b
  <2>2. j + 1 \in 1 .. s /\ j \in Nat
      BY <2>1
  <2>a. code[k] = pieces[m][j + 1]
      BY <2>1, <2>2
  <2> HIDE DEF s
  <2>3. k \in 1 .. end /\ k \in 1 .. end + all
        /\ ROM_START + k - 1 = ROM_START + b + j
      BY <1>4, <2>1, <2>2, OriginAssumption
  <2> HIDE DEF k
  <2>4. memory[ROM_START + k - 1] = code[k]
      BY <1>6, <1>8, <2>3
  <2>5. QED
      BY <2>3, <2>4, <2>a DEF b
<1>10. ASSUME NEW m \in 1 .. Len(ds)
       PROVE  /\ doff[m] \in Nat /\ Len(ds[m].data) \in Nat
              /\ doff[m] + Len(ds[m].data) <= all
              /\ \A j \in 0 .. Len(ds[m].data) - 1 :
                    memory[ROM_START + (end + doff[m]) + j]
                        = ds[m].data[j + 1]
  <2> DEFINE b == doff[m]
             c == ds[m].data
             s == Len(c)
  <2>1. /\ b \in Nat /\ s \in Nat /\ b + s <= all
        /\ \A i \in 1 .. s : data[b + i] = c[i]
      BY <1>1, <1>3
  <2> HIDE DEF b, c
  <2>2. ASSUME NEW j \in 0 .. s - 1
        PROVE  memory[ROM_START + (end + b) + j] = c[j + 1]
    <3> DEFINE k == b + (j + 1)
               h == end + k
    <3>1. j + 1 \in 1 .. s /\ j \in Nat
        BY <2>1
    <3>2. data[k] = c[j + 1]
        BY <2>1, <3>1
    <3> HIDE DEF s
    <3>3. k \in 1 .. all /\ h \in 1 .. end + all
          /\ ROM_START + h - 1 = ROM_START + (end + b) + j
        BY <1>4, <2>1, <3>1, OriginAssumption
    <3>4. w[h] = data[k]
        BY <1>6, <3>3
    <3> HIDE DEF k, h
    <3>5. memory[ROM_START + h - 1] = w[h]
        BY <1>8, <3>3
    <3>6. QED
        BY <3>2, <3>3, <3>4, <3>5
  <2>3. QED
      BY <2>1, <2>2 DEF b, c
<1>11. QED
    BY <1>2, <1>4, <1>6, <1>7, <1>8, <1>9, <1>10
       DEF Stored, memory, end, all, ds

(* The addresses of the nodes are those that begin at the origin and grow  *)
(* by what the cpu decodes. *)
LEMMA AddressesAre ==
    ASSUME NEW memory, Len(ast) \in Nat, NEW g,
           g = [k \in 1 .. Len(ast) + 1 |-> g[k]], g[1] = ROM_START,
           \A k \in 1 .. Len(ast) :
               g[k + 1] = g[k] + NodeSize(ast[k], memory, g[k])
    PROVE  Addresses(memory) = g
<1> DEFINE n == Len(ast)
           After(f) == [k \in 1 .. n + 1 |->
               IF k = 1 THEN ROM_START
               ELSE f[k - 1] + NodeSize(ast[k - 1], memory, f[k - 1])]
           address == CHOOSE f : f = After(f)
<1>1. Addresses(memory) = address
    BY DEF Addresses
<1>2. n \in Nat
    OBVIOUS
<1> HIDE DEF n
<1>3. /\ g = [k \in 1 .. n + 1 |-> g[k]] /\ g[1] = ROM_START
      /\ \A k \in 1 .. n : g[k + 1] = g[k] + NodeSize(ast[k], memory, g[k])
    BY DEF n
<1>4. \A k \in 1 .. n + 1 : k # 1 => k - 1 \in 1 .. n /\ k - 1 + 1 = k
    BY <1>2
<1>5. \A k \in 1 .. n + 1 : g[k] =
          IF k = 1 THEN ROM_START
          ELSE g[k - 1] + NodeSize(ast[k - 1], memory, g[k - 1])
  <2>1. ASSUME NEW k \in 1 .. n + 1, k # 1
        PROVE  g[k] = g[k - 1] + NodeSize(ast[k - 1], memory, g[k - 1])
    <3> DEFINE i == k - 1
    <3>1. i \in 1 .. n /\ i + 1 = k
        BY <1>4, <2>1
    <3> HIDE DEF i
    <3>2. g[i + 1] = g[i] + NodeSize(ast[i], memory, g[i])
        BY <1>3, <3>1
    <3>3. QED
        BY <3>1, <3>2 DEF i
  <2>2. QED
      BY <1>3, <2>1
<1>6. g = After(g)
    BY <1>3, <1>5
<1>7. address = After(address)
  <2> HIDE DEF After
  <2>1. \E f : f = After(f)
      BY <1>6
  <2>2. QED
      BY <2>1
<1> HIDE DEF address
<1>8. /\ address = [k \in 1 .. n + 1 |-> address[k]]
      /\ \A k \in 1 .. n + 1 : address[k] =
          IF k = 1 THEN ROM_START
          ELSE address[k - 1]
               + NodeSize(ast[k - 1], memory, address[k - 1])
    BY <1>7
<1> HIDE DEF After
<1> DEFINE G == {k \in 0 .. n : address[k + 1] = g[k + 1]}
<1>9. 0 \in G
  <2>1. 1 \in 1 .. n + 1 /\ 0 \in 0 .. n /\ 0 + 1 = 1
      BY <1>2
  <2>2. address[1] = g[1]
      BY <1>3, <1>8, <2>1
  <2>3. QED
      BY <2>1, <2>2
<1>10. ASSUME NEW k \in 0 .. n - 1, k \in G
       PROVE  k + 1 \in G
  <2> DEFINE i == k + 1
  <2>1. /\ i \in 1 .. n /\ i \in 0 .. n /\ i + 1 \in 1 .. n + 1
        /\ i + 1 # 1 /\ i + 1 - 1 = i
      BY <1>2
  <2>2. address[i] = g[i]
      BY <1>10
  <2> HIDE DEF i
  <2>3. address[i + 1] = address[i] + NodeSize(ast[i], memory, address[i])
    <3> DEFINE h == i + 1
    <3>1. h \in 1 .. n + 1 /\ h # 1 /\ h - 1 = i
        BY <2>1
    <3> HIDE DEF h
    <3>2. address[h] = address[h - 1]
                       + NodeSize(ast[h - 1], memory, address[h - 1])
        BY <1>8, <3>1
    <3>3. QED
        BY <3>1, <3>2 DEF h
  <2>4. g[i + 1] = g[i] + NodeSize(ast[i], memory, g[i])
      BY <1>3, <2>1
  <2>5. i \in G
      BY <2>1, <2>2, <2>3, <2>4
  <2>6. QED
      BY <2>5 DEF i
<1> HIDE DEF G
<1>11. 0 .. n \subseteq G
    BY <1>2, <1>9, <1>10, InductionUpTo
<1>12. ASSUME NEW k \in 1 .. n + 1
       PROVE  address[k] = g[k]
  <2> DEFINE i == k - 1
  <2>1. i \in 0 .. n /\ i + 1 = k
      BY <1>2
  <2> HIDE DEF i
  <2>2. i \in G
      BY <1>11, <2>1
  <2>3. QED
      BY <2>1, <2>2 DEF G
<1>13. address = g
    BY <1>3, <1>8, <1>12
<1>14. QED
    BY <1>1, <1>13

(* Bytes found one after another are the sequence of them. *)
LEMMA BytesAre ==
    ASSUME NEW b \in Bytes, NEW memory, NEW a \in Nat,
           \A j \in 0 .. Len(b) - 1 : memory[a + j] = b[j + 1],
           NEW n, n = Len(b)
    PROVE  BytesAt(memory, a, n) = b
<1>1. b \in Seq(ByteRange) /\ n \in Nat
    BY DEF Bytes
<1>2. ASSUME NEW i \in 1 .. n
      PROVE  memory[a + i - 1] = b[i]
  <2> DEFINE j == i - 1
  <2>1. j \in 0 .. Len(b) - 1 /\ j + 1 = i /\ a + i - 1 = a + j
      BY <1>1
  <2>2. QED
      BY <2>1
<1>3. b = [i \in 1 .. n |-> b[i]]
    BY <1>1
<1>4. QED
    BY <1>2, <1>3 DEF BytesAt

(* A parameter of a node holds one alternative. *)
LEMMA ParamAlternative ==
    ASSUME NEW p \in NodeParam
    PROVE  /\ Is(p, "label") => p \in [label : Name] /\ ~Is(p, "string")
           /\ Is(p, "string") => p \in [string : Bytes]
BY DEF NodeParam, Given, Is, Literal

(* The cpu reads for a parameter what it denotes. *)
LEMMA ParamRead ==
    ASSUME ast \in Seq(Node), NEW pieces, NEW off, NEW idx, NEW doff,
           Final(ast, tables, pieces, position, off, idx, doff),
           NEW w, w = Joined(tables, pieces), Fits(w),
           NEW g, g \in [1 .. Len(ast) + 1 -> Nat],
           \A k \in 1 .. Len(ast) + 1 :
               g[k] = ROM_START + off[idx[k]] /\ g[k] <= MEM_SIZE,
           NEW p \in NodeParam, NEW q \in WordParam,
           Denotes(ast, tables, off, idx, doff, q, p)
    PROVE  Means(p, Read(q), Placed(w, ROM_START, 0), g)
<1> DEFINE N == Len(ast)
           memory == Placed(w, ROM_START, 0)
           end == off[Len(pieces) + 1]
           ds == tables.data_section
           all == doff[Len(ds) + 1]
<1>1. /\ w \in Bytes /\ end \in Nat /\ all \in Nat
      /\ Len(w) = end + all /\ position = Len(w)
      /\ \A m \in 1 .. Len(ds) :
            /\ doff[m] \in Nat /\ Len(ds[m].data) \in Nat
            /\ doff[m] + Len(ds[m].data) <= all
            /\ \A j \in 0 .. Len(ds[m].data) - 1 :
                  memory[ROM_START + (end + doff[m]) + j] = ds[m].data[j + 1]
  <2>1. Stored(tables, pieces, off, doff, w) /\ position = Len(w)
      BY BinaryPlaced
  <2>2. QED
      BY <2>1 DEF Stored
<1>f. ROM_START + Len(w) <= MEM_SIZE
    BY DEF Fits
<1>2. /\ idx[N + 1] = Len(pieces) + 1 /\ N \in Nat
      /\ \A m \in 1 .. Len(ds) : ds[m].data \in Bytes
    BY DEF Final
<1>3. ASSUME NEW v, v \in Nat, v <= MEM_SIZE, q.mode = Constant32,
             q.value = Word(v)
      PROVE  Read(q).mode = Constant32 /\ Read(q).value = v
  <2>1. Capacity(param_size(Constant32)) = WORD
      BY DEF param_size, Capacity, Constant8, Constant16, Constant32,
         AbsoluteAddress, RelativeAddress, Register, RegisterAddress, Label
  <2>2. v \in 0 .. WORD - 1 /\ WORD \in Nat \ {0}
      BY <1>3, Widths, MemAssumption
  <2>3. v % WORD = v
      BY <2>2, SmallMod
  <2>4. QED
      BY <1>3, <2>1, <2>3 DEF Read, Word
<1> HIDE DEF memory, end, ds, all
<1>4. CASE Is(p, "label")
  <2>1. PICK k \in 1 .. N : /\ ast[k] = p
                            /\ q.value = Word(ROM_START + off[idx[k]])
      BY <1>4 DEF Denotes
  <2>2. /\ k \in 1 .. N + 1 /\ k \in DOMAIN ast
        /\ q.value = Word(g[k]) /\ g[k] \in Nat /\ g[k] <= MEM_SIZE
    <3>1. k \in 1 .. N + 1 /\ k \in DOMAIN ast
        BY <1>2
    <3>2. g[k] \in Nat /\ g[k] <= MEM_SIZE /\ g[k] = ROM_START + off[idx[k]]
        BY <3>1
    <3>3. QED
        BY <2>1, <3>1, <3>2
  <2>3. q.mode = Constant32
      BY <1>4 DEF Denotes
  <2>4. Read(q).mode = Constant32 /\ Read(q).value = g[k]
      BY <1>3, <2>2, <2>3
  <2>5. \E i \in DOMAIN ast : ast[i] = p /\ Read(q).value = g[i]
      BY <2>1, <2>2, <2>4
  <2>6. QED
      BY <1>4, <2>4, <2>5, ParamAlternative DEF Means
<1>5. CASE ~Is(p, "label") /\ Is(p, "string")
  <2>1. PICK j \in 1 .. Len(ds) :
            /\ ds[j].data = Append(p.string, 0)
            /\ q.value = Word(ROM_START + (off[idx[N + 1]] + doff[j]))
      BY <1>5 DEF Denotes, ds
  <2> DEFINE s == Len(p.string)
             b == ds[j].data
             v == ROM_START + (end + doff[j])
  <2>2. p.string \in Bytes /\ s \in Nat /\ Len(b) = s + 1 /\ b \in Bytes
    <3>1. p \in [string : Bytes]
        BY <1>5, ParamAlternative
    <3>2. p.string \in Bytes
        BY <3>1
    <3>3. QED
        BY <1>2, <2>1, <3>2 DEF Bytes
  <2>3. /\ doff[j] \in Nat /\ doff[j] + Len(b) <= all
        /\ \A i \in 0 .. Len(b) - 1 : memory[v + i] = b[i + 1]
      BY <1>1
  <2>4. q.value = Word(v)
      BY <1>2, <2>1 DEF end
  <2> HIDE DEF b, s
  <2>5. /\ v \in Nat /\ v + s < ROM_START + (end + all)
        /\ v <= MEM_SIZE /\ v >= ROM_START + end
    <3> DEFINE o == doff[j]
    <3>1. /\ o \in Nat /\ o + (s + 1) <= all /\ v = ROM_START + (end + o)
          /\ end \in Nat /\ all \in Nat /\ s \in Nat
        BY <1>1, <2>2, <2>3
    <3>2. ROM_START + (end + all) <= MEM_SIZE /\ ROM_START \in Nat
        BY <1>1, <1>f, OriginAssumption
    <3> HIDE DEF o, v
    <3>3. QED
        BY <3>1, <3>2, MemAssumption
  <2> HIDE DEF v
  <2>6. q.mode = Constant32
      BY <1>5 DEF Denotes
  <2>7. Read(q).mode = Constant32 /\ Read(q).value = v
      BY <1>3, <2>4, <2>5, <2>6
  <2>8. BytesAt(memory, v, s + 1) = b
      BY <2>2, <2>3, <2>5, BytesAre
  <2>9. b = Terminated(p.string)
      BY <2>1 DEF b, Terminated
  <2>10. Last(g) = ROM_START + end
    <3>1. Len(g) = N + 1 /\ N + 1 \in 1 .. N + 1
        BY <1>2
    <3>2. g[N + 1] = ROM_START + off[idx[N + 1]]
        BY <3>1
    <3>3. QED
        BY <1>2, <3>1, <3>2 DEF Last, end
  <2>11. ROM_START + (end + all) = ROM_START + position
      BY <1>1
  <2>12. /\ Read(q).mode = Constant32
         /\ Read(q).value >= Last(g)
         /\ Read(q).value + Len(p.string) < ROM_START + position
         /\ BytesAt(memory, Read(q).value, Len(p.string) + 1)
                = Terminated(p.string)
      BY <2>5, <2>7, <2>8, <2>9, <2>10, <2>11 DEF s
  <2>13. QED
      BY <1>5, <2>12 DEF Means, memory
<1>6. CASE ~Is(p, "label") /\ ~Is(p, "string")
  <2>1. q = p
      BY <1>6 DEF Denotes
  <2>2. Read(q) = Param(p.mode, p.value % Capacity(param_size(p.mode)))
      BY <2>1 DEF Read, Param
  <2>3. QED
      BY <1>6, <2>2 DEF Means
<1>7. QED
    BY <1>4, <1>5, <1>6

(* The binary is returned in a memory it fits into. *)
BinaryFits == output.ok => ROM_START + Len(output.binary) <= MEM_SIZE

(* The cpu, decoding the binary of the final layout, finds each node at its *)
(* address, and at each address the node. *)
LEMMA FinalRead ==
    ASSUME ast \in Seq(Node), NEW pieces, NEW off, NEW idx, NEW doff,
           Final(ast, tables, pieces, position, off, idx, doff),
           NEW w, w = Joined(tables, pieces), Fits(w)
    PROVE  LET memory == Placed(w, ROM_START, 0)
               addresses == Addresses(memory)
           IN  /\ \A k \in DOMAIN ast :
                     ReadsAs(ast[k], addresses[k], memory, addresses)
               /\ position = Len(w)
<1> DEFINE N == Len(ast)
           L == Len(pieces)
           memory == Placed(w, ROM_START, 0)
           end == off[L + 1]
           g == [k \in 1 .. N + 1 |-> ROM_START + off[idx[k]]]
<1>f. ROM_START + Len(w) <= MEM_SIZE
    BY DEF Fits
<1>1. /\ memory \in Memory /\ w \in Bytes /\ end \in Nat
      /\ position = Len(w) /\ ROM_START + end <= MEM_SIZE
      /\ \A m \in 1 .. L :
            /\ off[m] \in Nat /\ Len(pieces[m]) \in Nat
            /\ off[m + 1] = off[m] + Len(pieces[m])
            /\ off[m] + Len(pieces[m]) <= end
            /\ \A j \in 0 .. Len(pieces[m]) - 1 :
                  memory[ROM_START + off[m] + j] = pieces[m][j + 1]
  <2>1. /\ memory \in Memory /\ w \in Bytes /\ end \in Nat
        /\ position = Len(w)
        /\ doff[Len(tables.data_section) + 1] \in Nat
        /\ Len(w) = end + doff[Len(tables.data_section) + 1]
        /\ \A m \in 1 .. L :
              /\ off[m] \in Nat /\ Len(pieces[m]) \in Nat
              /\ off[m + 1] = off[m] + Len(pieces[m])
              /\ off[m] + Len(pieces[m]) <= end
              /\ \A j \in 0 .. Len(pieces[m]) - 1 :
                    memory[ROM_START + off[m] + j] = pieces[m][j + 1]
    <3>1. Stored(tables, pieces, off, doff, w) /\ position = Len(w)
        BY BinaryPlaced
    <3>2. QED
        BY <3>1, Zenon DEF Stored
  <2> HIDE DEF memory, end
  <2>2. ROM_START + end <= MEM_SIZE
      BY <2>1, <1>f, OriginAssumption, MemAssumption
  <2>3. QED
      BY <2>1, <2>2
<1>2. /\ idx \in [1 .. N + 1 -> 1 .. L + 1] /\ idx[1] = 1
      /\ idx[N + 1] = L + 1 /\ N \in Nat /\ L \in Nat
      /\ off[1] = 0 /\ pieces \in Seq(Bytes)
      /\ \A k \in 1 .. N :
            IF Is(ast[k], "label") THEN idx[k + 1] = idx[k]
            ELSE /\ idx[k + 1] = idx[k] + 1
                 /\ idx[k] \in 1 .. L
                 /\ Holds(ast, tables, off, idx, doff, pieces[idx[k]], ast[k])
  <2>1. pieces \in Seq(Bytes) /\ off[1] = 0
      BY DEF Final, Begins
  <2>2. N \in Nat /\ L \in Nat
      BY <2>1
  <2>3. QED
      BY <2>1, <2>2 DEF Final
<1> HIDE DEF memory, end, L, N
<1>3. \A k \in 1 .. N + 1 :
          /\ off[idx[k]] \in Nat
          /\ g[k] = ROM_START + off[idx[k]]
          /\ g[k] \in Nat /\ g[k] <= MEM_SIZE
  <2>1. ASSUME NEW m \in 1 .. L + 1
        PROVE  off[m] \in Nat /\ off[m] <= end
    <3>1. CASE m = L + 1
        BY <1>1, <3>1 DEF end
    <3>2. CASE m # L + 1
      <4>1. m \in 1 .. L
          BY <1>2, <3>2
      <4>2. /\ off[m] \in Nat /\ Len(pieces[m]) \in Nat
            /\ off[m] + Len(pieces[m]) <= end
          BY <1>1, <4>1
      <4>3. QED
          BY <1>1, <4>2
    <3>3. QED
        BY <3>1, <3>2
  <2>2. ASSUME NEW k \in 1 .. N + 1
        PROVE  /\ off[idx[k]] \in Nat
               /\ g[k] = ROM_START + off[idx[k]]
               /\ g[k] \in Nat /\ g[k] <= MEM_SIZE
    <3> DEFINE b == off[idx[k]]
    <3>1. b \in Nat /\ b <= end
        BY <1>2, <2>1
    <3>2. g[k] = ROM_START + b
        OBVIOUS
    <3> HIDE DEF b, g
    <3>3. ROM_START + b \in Nat /\ ROM_START + b <= MEM_SIZE
        BY <1>1, <3>1, OriginAssumption, MemAssumption
    <3>4. QED
        BY <3>1, <3>2, <3>3 DEF b
  <2>3. QED
      BY <2>2
<1>4. g = [k \in 1 .. N + 1 |-> g[k]]
    OBVIOUS
<1> HIDE DEF g
<1>5. \A k \in 1 .. N : k \in 1 .. N + 1 /\ k + 1 \in 1 .. N + 1
    BY <1>2
<1>6. ASSUME NEW k \in 1 .. N, ~Is(ast[k], "label")
      PROVE  LET b == pieces[idx[k]]
             IN  /\ b \in Bytes /\ Len(b) \in Nat
                 /\ g[k + 1] = g[k] + Len(b)
                 /\ g[k] + Len(b) <= MEM_SIZE
                 /\ \A j \in 0 .. Len(b) - 1 : memory[g[k] + j] = b[j + 1]
                 /\ Holds(ast, tables, off, idx, doff, b, ast[k])
  <2> DEFINE m == idx[k]
             b == pieces[m]
  <2>1. /\ m \in 1 .. L /\ idx[k + 1] = m + 1
        /\ Holds(ast, tables, off, idx, doff, b, ast[k])
      BY <1>2, <1>6
  <2>2. g[k] = ROM_START + off[m] /\ g[k + 1] = ROM_START + off[m + 1]
      BY <1>3, <1>5, <2>1
  <2> HIDE DEF m
  <2>3. /\ off[m] \in Nat /\ Len(b) \in Nat
        /\ off[m + 1] = off[m] + Len(b) /\ off[m] + Len(b) <= end
        /\ \A j \in 0 .. Len(b) - 1 :
              memory[ROM_START + off[m] + j] = b[j + 1]
      BY <1>1, <2>1
  <2>4. b \in Bytes
      BY <1>2, <2>1 DEF L
  <2> HIDE DEF b
  <2> DEFINE o == off[m]
  <2>5. /\ o \in Nat /\ off[m + 1] = o + Len(b) /\ o + Len(b) <= end
        /\ g[k] = ROM_START + o
      BY <2>2, <2>3
  <2> HIDE DEF o
  <2>6. /\ g[k + 1] = g[k] + Len(b) /\ g[k] + Len(b) <= MEM_SIZE
    <3> DEFINE n == Len(b)
               o2 == off[m + 1]
    <3>1. /\ n \in Nat /\ o2 = o + n /\ o + n <= end /\ o \in Nat
          /\ g[k] = ROM_START + o /\ g[k + 1] = ROM_START + o2
        BY <2>2, <2>3, <2>5
    <3>2. end \in Nat /\ ROM_START + end <= MEM_SIZE
        BY <1>1
    <3> HIDE DEF n, o2
    <3>3. g[k + 1] = g[k] + n /\ g[k] + n <= MEM_SIZE
        BY <3>1, <3>2, OriginAssumption, MemAssumption
    <3>4. QED
        BY <3>3 DEF n
  <2>7. \A j \in 0 .. Len(b) - 1 : memory[g[k] + j] = b[j + 1]
      BY <2>2, <2>3
  <2>8. QED
      BY <2>1, <2>3, <2>4, <2>6, <2>7 DEF b, m
<1>7. ASSUME NEW k \in 1 .. N, Is(ast[k], "op")
      PROVE  \E x \in Encodings :
                 /\ x.op = ast[k].op
                 /\ Denotes(ast, tables, off, idx, doff, x.p1, ast[k].p1)
                 /\ Denotes(ast, tables, off, idx, doff, x.p2, ast[k].p2)
                 /\ parse_instruction(memory, g[k]) =
                      [op |-> x.op, p1 |-> Read(x.p1), p2 |-> Read(x.p2),
                       len |-> Len(pieces[idx[k]])]
  <2> DEFINE b == pieces[idx[k]]
             a == g[k]
  <2>1. ~Is(ast[k], "label") /\ ast[k] \in Node
    <3>1. ast[k] \in Node
        BY DEF N
    <3>2. QED
        BY <1>7, <3>1, NodeAlternative
  <2>2. /\ a \in Nat /\ a + Len(b) <= MEM_SIZE
        /\ \A j \in 0 .. Len(b) - 1 : memory[a + j] = b[j + 1]
        /\ Holds(ast, tables, off, idx, doff, b, ast[k])
      BY <1>3, <1>5, <1>6, <2>1
  <2> HIDE DEF a, b
  <2>3. PICK x \in Encodings :
             /\ b = write_instruction(x) /\ x.op = ast[k].op
             /\ Denotes(ast, tables, off, idx, doff, x.p1, ast[k].p1)
             /\ Denotes(ast, tables, off, idx, doff, x.p2, ast[k].p2)
      BY <1>7, <2>2 DEF Holds
  <2>4. parse_instruction(memory, a) =
            [op |-> x.op, p1 |-> Read(x.p1), p2 |-> Read(x.p2),
             len |-> Len(b)]
      BY <1>1, <2>2, <2>3, Decoded, NamesAssumption
  <2>5. QED
      BY <2>3, <2>4 DEF a, b
<1>8. ASSUME NEW k \in 1 .. N
      PROVE  g[k + 1] = g[k] + NodeSize(ast[k], memory, g[k])
  <2> DEFINE node == ast[k]
             b == pieces[idx[k]]
  <2>1. node \in Node
      BY DEF N
  <2>2. CASE Is(node, "op")
    <3>1. ~Is(node, "label") /\ ~Is(node, "string")
        BY <2>1, <2>2, NodeAlternative
    <3>2. parse_instruction(memory, g[k]).len = Len(b)
      <4>1. PICK x \in Encodings : parse_instruction(memory, g[k]) =
                [op |-> x.op, p1 |-> Read(x.p1), p2 |-> Read(x.p2),
                 len |-> Len(b)]
          BY <1>7, <2>2
      <4> DEFINE i == parse_instruction(memory, g[k])
      <4>2. i = [op |-> x.op, p1 |-> Read(x.p1), p2 |-> Read(x.p2),
                 len |-> Len(b)]
          BY <4>1
      <4> HIDE DEF i, b
      <4>3. i.len = Len(b)
          BY <4>2
      <4>4. QED
          BY <4>3 DEF i
    <3> HIDE DEF b
    <3>3. NodeSize(node, memory, g[k]) = Len(b)
      <4> HIDE DEF node
      <4>1. Len(b) \in Nat
          BY <1>6, <3>1 DEF b, node
      <4>2. QED
          BY <2>2, <3>1, <3>2, <4>1 DEF NodeSize
    <3>4. g[k + 1] = g[k] + Len(b)
        BY <1>6, <3>1 DEF b
    <3>5. QED
        BY <3>3, <3>4
  <2>3. CASE Is(node, "string")
    <3>1. node \in [string : Bytes] /\ ~Is(node, "op") /\ ~Is(node, "label")
        BY <2>1, <2>3, NodeAlternative
    <3>2. /\ Holds(ast, tables, off, idx, doff, b, node)
          /\ g[k + 1] = g[k] + Len(b)
        BY <1>6, <3>1
    <3>3. b = Append(node.string, 0) /\ node.string \in Seq(ByteRange)
        BY <3>1, <3>2 DEF Holds, Bytes
    <3>4. Len(b) = Len(node.string) + 1
        BY <3>3
    <3> HIDE DEF node, b
    <3>5. NodeSize(node, memory, g[k]) = Len(node.string) + 1
        BY <2>3, <3>1 DEF NodeSize
    <3>6. QED
        BY <3>2, <3>4, <3>5 DEF node
  <2>4. CASE ~Is(node, "op") /\ ~Is(node, "string")
    <3>1. Is(node, "label")
      <4>1. node \in [label : Name]
          BY <2>1, <2>4 DEF Node, OpNode, Is
      <4>2. QED
          BY <4>1 DEF Is
    <3>2. idx[k + 1] = idx[k]
        BY <1>2, <3>1
    <3>3. g[k + 1] = g[k] /\ g[k] \in Nat
        BY <1>3, <1>5, <3>2
    <3>4. NodeSize(node, memory, g[k]) = 0
        BY <2>4 DEF NodeSize
    <3>5. QED
        BY <3>3, <3>4
  <2>5. QED
      BY <2>2, <2>3, <2>4
<1>9. Addresses(memory) = g
  <2>1. g[1] = ROM_START
    <3>1. 1 \in 1 .. N + 1
        BY <1>2
    <3>2. QED
        BY <1>2, <1>3, <3>1, OriginAssumption
  <2>2. QED
      BY <1>2, <1>4, <1>8, <2>1, AddressesAre DEF N
<1>10. ASSUME NEW k \in 1 .. N
       PROVE  ReadsAs(ast[k], g[k], memory, g)
  <2> DEFINE node == ast[k]
  <2>1. node \in Node
      BY DEF N
  <2>2. CASE Is(node, "op")
    <3>1. PICK x \in Encodings :
              /\ x.op = node.op
              /\ Denotes(ast, tables, off, idx, doff, x.p1, node.p1)
              /\ Denotes(ast, tables, off, idx, doff, x.p2, node.p2)
              /\ parse_instruction(memory, g[k]) =
                   [op |-> x.op, p1 |-> Read(x.p1), p2 |-> Read(x.p2),
                    len |-> Len(pieces[idx[k]])]
        BY <1>7, <2>2
    <3>2. /\ node.p1 \in NodeParam /\ node.p2 \in NodeParam
          /\ ~Is(node, "string")
        BY <2>1, <2>2, NodeAlternative DEF OpNode
    <3>3. x.p1 \in WordParam /\ x.p2 \in WordParam
        BY DEF Encodings
    <3> HIDE DEF node
    <3>4. /\ g \in [1 .. Len(ast) + 1 -> Nat]
          /\ \A i \in 1 .. Len(ast) + 1 :
                g[i] = ROM_START + off[idx[i]] /\ g[i] <= MEM_SIZE
        BY <1>3, <1>4 DEF N
    <3>5. Means(node.p1, Read(x.p1), memory, g)
        BY <3>1, <3>2, <3>3, <3>4, ParamRead DEF memory
    <3>6. Means(node.p2, Read(x.p2), memory, g)
        BY <3>1, <3>2, <3>3, <3>4, ParamRead DEF memory
    <3>7. /\ parse_instruction(memory, g[k]).op = node.op
          /\ parse_instruction(memory, g[k]).p1 = Read(x.p1)
          /\ parse_instruction(memory, g[k]).p2 = Read(x.p2)
        BY <3>1
    <3>8. ReadsAs(node, g[k], memory, g)
        BY <2>2, <3>2, <3>5, <3>6, <3>7 DEF ReadsAs
    <3>9. QED
        BY <3>8 DEF node
  <2>3. CASE Is(node, "string")
    <3>1. node \in [string : Bytes] /\ ~Is(node, "op") /\ ~Is(node, "label")
        BY <2>1, <2>3, NodeAlternative
    <3> DEFINE b == pieces[idx[k]]
               a == g[k]
    <3>2. /\ Holds(ast, tables, off, idx, doff, b, node) /\ b \in Bytes
          /\ \A j \in 0 .. Len(b) - 1 : memory[a + j] = b[j + 1]
          /\ a \in Nat
        BY <1>3, <1>5, <1>6, <3>1
    <3>3. b = Append(node.string, 0) /\ node.string \in Seq(ByteRange)
        BY <3>1, <3>2 DEF Holds, Bytes
    <3>4. Len(b) = Len(node.string) + 1
        BY <3>3
    <3> HIDE DEF node, a, b
    <3>5. BytesAt(memory, a, Len(node.string) + 1) = b
        BY <3>2, <3>4, BytesAre
    <3>6. ReadsAs(node, a, memory, g)
        BY <2>3, <3>1, <3>3, <3>5 DEF ReadsAs, Terminated
    <3>7. QED
        BY <3>6 DEF node, a
  <2>4. CASE ~Is(node, "op") /\ ~Is(node, "string")
    <3> HIDE DEF node
    <3>1. ReadsAs(node, g[k], memory, g)
        BY <2>4 DEF ReadsAs
    <3>2. QED
        BY <3>1 DEF node
  <2>5. QED
      BY <2>2, <2>3, <2>4
<1>11. DOMAIN ast = 1 .. N
    BY DEF N
<1>12. QED
    BY <1>1, <1>9, <1>10, <1>11 DEF memory

(* Whatever a host calls, a binary that is returned and that the memory has *)
(* room for is read by the cpu as the source says: the instructions and     *)
(* strings one after another, each label at the node behind it, each string *)
(* parameter at its bytes behind the code.  So it is for every source, as   *)
(* long as no position reaches the address that stands for a label without  *)
(* one. *)
THEOREM BinaryReadsAsSource ==
    Spec /\ []PositionsFit => [](BinaryFits => CpuReadsProgram)
<1> DEFINE Inv == ClearInv /\ AgreeInv /\ LaidInv
<1>1. Init => Inv
    BY ClearInit, AgreeInit, LaidInit
<1>2. Inv /\ PositionsFit /\ [Next]_vars => Inv'
    BY ClearNext, AgreeNext, LaidNext
<1>3. Inv => (BinaryFits => CpuReadsProgram)
  <2> SUFFICES ASSUME Inv, BinaryFits, at = "host", output.ok, ~parser_error
               PROVE  LET memory == Placed(output.binary, ROM_START, 0)
                          addresses == Addresses(memory)
                      IN  /\ \A k \in DOMAIN ast :
                                ReadsAs(ast[k], addresses[k],
                                        memory, addresses)
                          /\ position = Len(output.binary)
      BY DEF CpuReadsProgram
  <2>1. output = [ok |-> TRUE, binary |-> binary] /\ ~error /\ ran
      BY DEF AgreeInv, OutputInv, Refused
  <2>2. PICK off, idx, doff : Final(ast, tables, Pieces(instructions),
                                    position, off, idx, doff)
      BY <2>1 DEF LaidInv, FinalInv
  <2>3. output.binary = Joined(tables, Pieces(instructions))
      BY <2>1 DEF binary, Joined, Pieces, Datas
  <2>4. Fits(output.binary)
      BY DEF BinaryFits, Fits
  <2>5. ast \in Seq(Node)
      BY DEF ClearInv, TypesInv
  <2>6. QED
      BY <2>2, <2>3, <2>4, <2>5, FinalRead
<1> HIDE DEF Inv
<1>4. QED
    BY <1>1, <1>2, <1>3, PTL DEF Spec

-----------------------------------------------------------------------------
(* Types.  They do not depend on where labels lie, so that they hold       *)
(* whatever positions are. *)

(* The names in a node are those of labels of the sources. *)
SourceNames == {<< name >> : name \in Names}
Named(p) == Is(p, "label") => p.label \in SourceNames
NamedNode(node) ==
    Named(node) /\ (Is(node, "op") => Named(node.p1) /\ Named(node.p2))
AstInv == /\ source \in Sources /\ source \in Seq(Token)
          /\ read \in 0 .. Len(source) /\ parser_error \in BOOLEAN
          /\ ast \in Seq(Node)
          /\ \A k \in 1 .. Len(ast) : NamedNode(ast[k])

(* The names of labels, as long as there are k strings. *)
NamesUpTo(k) == SourceNames \cup {DataName(n) : n \in 1 .. k}
TypedUpTo(t, k) ==
    /\ t \in Tables /\ t.last_label_id >= 1
    /\ \A l \in ToSet(t.labels) : /\ l.name \in NamesUpTo(k)
                                  /\ l.id \in 2 .. t.last_label_id
Typed(t) == t.last_string_id >= 1 /\ TypedUpTo(t, t.last_string_id - 1)

(* What an instruction may hold once last ids were given, and what it      *)
(* holds outside of the passes. *)
Held(last) == WordParam \cup [mode : {Label}, value : 0 .. last]
HeldInstruction(last) ==
    [op : ToSet(OpTable), p1 : Held(last), p2 : Held(last)]
    \cup [raw : Bytes]
Ready == [op : ToSet(OpTable), p1 : WordParam, p2 : WordParam]
         \cup [raw : Bytes]

CodeInv == /\ Typed(tables)
           /\ instructions \in Seq(HeldInstruction(tables.last_label_id))
           /\ ~Passing => instructions \in Seq(Ready)
OwnInv == /\ position \in WordRange
          /\ error \in BOOLEAN /\ ran \in BOOLEAN
          /\ call \in Calls /\ next \in Nat \ {0}
          /\ output.binary \in Bytes
TypeInv == AstInv /\ CodeInv /\ OwnInv

(* A token that is a parameter names a label of the sources, if any. *)
LEMMA NamedToken ==
    ASSUME source \in Sources, NEW k \in DOMAIN source
    PROVE  /\ Named(source[k]) /\ Named(read_parameter(source[k]))
<1> DEFINE token == source[k]
           p == read_parameter(token)
<1>1. Named(token)
    BY NamesAssumption DEF Named, SourceNames
<1>2. \A m, v : ~Is(Literal(m, v), "label")
    BY DEF Is, Literal
<1>3. p = token \/ \E m, v : p = Literal(m, v)
    BY DEF read_parameter
<1>4. QED
    BY <1>1, <1>2, <1>3 DEF Named

(* The parser reads on within the source, and adds nodes made of its       *)
(* tokens. *)
LEMMA AstTyped ==
    ASSUME AstInv, ParseNode
    PROVE  AstInv'
<1>1. /\ source' = source /\ Len(source) \in Nat /\ read \in Nat
      /\ DOMAIN source = 1 .. Len(source)
    BY DEF AstInv, ParseNode, ParseInstruction, ParseLabelOrString,
           ParseEndOfLine, ParseUnexpected
<1>2. ast' \in Seq(Node) /\ read' \in Nat
    BY <1>1, AstStep DEF AstInv
<1>3. read' <= Len(source) /\ parser_error' \in BOOLEAN
  <2>1. CASE ParseInstruction
    <3> DEFINE op == source[read + 1].opcode
    <3>1. read' = ReadTo(op) /\ parser_error' \in BOOLEAN
        BY <2>1 DEF ParseInstruction, AstInv
    <3> HIDE DEF op
    <3>2. \E wanted : ReadTo(op) = IF wanted <= Len(source) THEN wanted
                                   ELSE Len(source)
        BY DEF ReadTo
    <3>3. QED
        BY <1>1, <3>1, <3>2
  <2>2. CASE ParseLabelOrString \/ ParseEndOfLine
      BY <1>1, <2>2 DEF ParseLabelOrString, ParseEndOfLine, TokenIs, AstInv
  <2>3. CASE ParseUnexpected
      BY <1>1, <2>3 DEF ParseUnexpected, AstInv
  <2>4. QED
      BY <2>1, <2>2, <2>3 DEF ParseNode
<1>4. \/ ast' = ast
      \/ \E node : ast' = Append(ast, node) /\ NamedNode(node)
  <2>1. CASE ParseInstruction
    <3> DEFINE op == source[read + 1].opcode
               node == read_instruction(op)
               q(i) == IF i <= ParametersOf(op)
                       THEN read_parameter(source[read + 1 + i])
                       ELSE Literal(Unused, 0)
    <3>1. CASE Unfit(op) = {}
      <4>1. ast' = Append(ast, node)
          BY <2>1, <3>1 DEF ParseInstruction
      <4>2. \A i \in {1, 2} : i <= ParametersOf(op)
                                => read + 1 + i \in DOMAIN source
        <5>1. ParametersOf(op) \in Nat
          <6>1. op \in ToSet(OpTable)
            <7>1. source[read + 1] \in Token /\ Is(source[read + 1], "opcode")
                BY <1>1, <2>1 DEF ParseInstruction, TokenIs, AstInv
            <7>2. source[read + 1] \in [opcode : ToSet(OpTable)]
                BY <7>1, TokenAlternative DEF Is
            <7>3. QED
                BY <7>2
          <6> HIDE DEF op
          <6>2. opcode_from_name(op) \in Nat
              BY <6>1, OpcodeOfName
          <6>3. QED
              BY <6>2, ParamCount DEF ParametersOf
        <5> HIDE DEF op
        <5>2. \A i \in 1 .. ParametersOf(op) : IsParameter(read + 1 + i)
            BY <3>1, <5>1 DEF Unfit
        <5>3. QED
            BY <1>1, <5>1, <5>2 DEF IsParameter, TokenIs
      <4>3. \A i \in {1, 2} : Named(q(i))
        <5>1. Named(Literal(Unused, 0))
            BY DEF Named, Literal, Is
        <5> HIDE DEF op
        <5>2. QED
            BY <4>2, <5>1, NamedToken DEF AstInv
      <4>4. node = [op |-> op, p1 |-> q(1), p2 |-> q(2)]
          BY DEF read_instruction
      <4> HIDE DEF q, op, node
      <4>5. Named(node) /\ Named(node.p1) /\ Named(node.p2)
          BY <4>3, <4>4 DEF Named, Is
      <4>6. QED
          BY <4>1, <4>5 DEF NamedNode
    <3>2. CASE Unfit(op) # {}
        BY <2>1, <3>2 DEF ParseInstruction
    <3>3. QED
        BY <3>1, <3>2
  <2>2. CASE ParseLabelOrString
    <3> DEFINE token == source[read + 1]
    <3>1. read + 1 \in DOMAIN source /\ ast' = Append(ast, token)
        BY <1>1, <2>2 DEF ParseLabelOrString, TokenIs
    <3>2. Named(token)
        BY <3>1, NamedToken DEF AstInv
    <3>3. ~Is(token, "op")
      <4>1. /\ token \in Token
            /\ "label" \in DOMAIN token \/ "string" \in DOMAIN token
          BY <2>2, <3>1 DEF AstInv, ParseLabelOrString, TokenIs, Is
      <4> HIDE DEF token
      <4>2. token \in [label : Name] \/ token \in [string : Bytes]
          BY <4>1, TokenAlternative
      <4>3. QED
          BY <4>2 DEF Is
    <3>4. QED
        BY <3>1, <3>2, <3>3 DEF NamedNode
  <2>3. CASE ParseEndOfLine \/ ParseUnexpected
      BY <2>3 DEF ParseEndOfLine, ParseUnexpected
  <2>4. QED
      BY <2>1, <2>2, <2>3 DEF ParseNode
<1>5. \A k \in 1 .. Len(ast') : NamedNode(ast'[k])
  <2>1. CASE ast' = ast
      BY <2>1 DEF AstInv
  <2>2. ASSUME NEW node, ast' = Append(ast, node), NamedNode(node)
        PROVE  \A k \in 1 .. Len(ast') : NamedNode(ast'[k])
    <3>1. ast \in Seq(Node) /\ \A k \in 1 .. Len(ast) : NamedNode(ast[k])
        BY DEF AstInv
    <3>2. /\ Len(ast') = Len(ast) + 1 /\ ast'[Len(ast) + 1] = node
          /\ \A k \in 1 .. Len(ast) : ast'[k] = ast[k]
        BY <2>2, <3>1
    <3>3. QED
        BY <2>2, <3>1, <3>2
  <2>3. QED
      BY <1>4, <2>1, <2>2
<1>6. QED
    BY <1>1, <1>2, <1>3, <1>5 DEF AstInv

(* A label is registered under a name of those. *)
LEMMA HandleTyped ==
    ASSUME NEW t, NEW k \in Nat, TypedUpTo(t, k),
           NEW name \in LabelName, name \in NamesUpTo(k)
    PROVE  LET u == handle_label(t, name)
           IN  /\ TypedUpTo(u, k)
               /\ LabelId(u, name) \in 0 .. u.last_label_id
               /\ t.last_label_id <= u.last_label_id
               /\ u.last_string_id = t.last_string_id
               /\ u.data_section = t.data_section
<1> DEFINE u == handle_label(t, name)
           r == [name |-> name, id |-> t.last_label_id + 1,
                 position |-> INVALID_LABEL_ADDRESS]
<1>1. /\ t \in Tables /\ t.labels \in Seq(LabelRecord)
      /\ t.last_label_id \in Nat
    BY DEF TypedUpTo, Tables
<1>2. CASE Known(t, name)
  <2>1. u = t
      BY <1>2 DEF handle_label
  <2>2. LabelId(t, name) \in 2 .. t.last_label_id
      BY <1>2 DEF LabelId, Known, TypedUpTo
  <2>3. QED
      BY <1>1, <2>1, <2>2
<1>3. CASE ~Known(t, name)
  <2>1. u = [t EXCEPT !.labels = Append(@, r), !.last_label_id = @ + 1]
      BY <1>3 DEF handle_label
  <2>2. r \in LabelRecord
      BY <1>1, InvalidAddress DEF LabelRecord
  <2>3. /\ Append(t.labels, r) \in Seq(LabelRecord)
        /\ ToSet(Append(t.labels, r)) = ToSet(t.labels) \cup {r}
      BY <1>1, <2>2, AppendedSet
  <2>4. r.name = name /\ r.id = t.last_label_id + 1
      OBVIOUS
  <2> HIDE DEF r
  <2>5. /\ u.labels = Append(t.labels, r)
        /\ u.last_label_id = t.last_label_id + 1
        /\ u.data_section = t.data_section
        /\ u.last_string_id = t.last_string_id
        /\ u \in Tables
    <3> HIDE DEF u
    <3>1. t.last_label_id + 1 \in Nat
        BY <1>1
    <3>2. QED
        BY <1>1, <2>1, <2>3, <3>1 DEF Tables
  <2> HIDE DEF u
  <2>6. \A l \in ToSet(u.labels) : /\ l.name \in NamesUpTo(k)
                                  /\ l.id \in 2 .. u.last_label_id
      BY <1>1, <2>3, <2>4, <2>5 DEF TypedUpTo
  <2>7. \E l \in ToSet(u.labels) : l.name = name
      BY <2>3, <2>4, <2>5
  <2>8. LabelId(u, name) \in 2 .. u.last_label_id
      BY <2>6, <2>7 DEF LabelId
  <2>9. u.last_label_id >= 1 /\ t.last_label_id <= u.last_label_id
      BY <1>1, <2>5 DEF TypedUpTo
  <2>10. TypedUpTo(u, k)
      BY <2>5, <2>6, <2>9 DEF TypedUpTo
  <2>11. LabelId(u, name) \in 0 .. u.last_label_id
      BY <1>1, <2>5, <2>8
  <2>12. QED
      BY <2>5, <2>9, <2>10, <2>11 DEF u
<1>4. QED
    BY <1>2, <1>3

(* So it is for the parameter of an instruction. *)
Registers(t, p) ==
    LET u == Registered(t, p)
    IN  /\ Typed(u) /\ t.last_label_id <= u.last_label_id
        /\ Operand(u, p) \in Held(u.last_label_id)

LEMMA RegisteredTyped ==
    ASSUME NEW t, Typed(t), NEW p \in NodeParam, Named(p)
    PROVE  Registers(t, p)
<1> DEFINE u == Registered(t, p)
           k == t.last_string_id - 1
<1>1. /\ t \in Tables /\ t.last_label_id \in Nat
      /\ t.data_section \in Seq(DataRecord)
      /\ t.last_string_id \in Nat /\ k \in Nat /\ TypedUpTo(t, k)
    BY DEF Typed, TypedUpTo, Tables
<1>2. CASE p \in [mode : 0 .. 7, value : WordRange]
  <2>1. ~Is(p, "label") /\ ~Is(p, "string")
      BY <1>2 DEF Is
  <2>2. u = t /\ Operand(u, p) = p
      BY <2>1 DEF Registered, Operand
  <2>3. QED
      BY <1>1, <1>2, <2>2 DEF Registers, Held, WordParam
<1>3. CASE p \in [label : Name]
  <2>1. Is(p, "label") /\ ~Is(p, "string") /\ p.label \in Name
      BY <1>3 DEF Is
  <2>2. p.label \in LabelName /\ p.label \in NamesUpTo(k)
      BY <2>1 DEF LabelName, NamesUpTo, Named
  <2>3. /\ u = handle_label(t, p.label)
        /\ Operand(u, p) = Literal(Label, LabelId(u, p.label))
      BY <2>1 DEF Registered, Operand
  <2> HIDE DEF k
  <2>4. /\ TypedUpTo(u, k)
        /\ LabelId(u, p.label) \in 0 .. u.last_label_id
        /\ t.last_label_id <= u.last_label_id
        /\ u.last_string_id = t.last_string_id
      BY <1>1, <2>2, <2>3, HandleTyped
  <2> HIDE DEF u
  <2>5. Operand(u, p) \in Held(u.last_label_id)
      BY <2>3, <2>4 DEF Literal, Held
  <2>6. Typed(u)
      BY <2>4 DEF Typed, k
  <2>7. QED
      BY <2>4, <2>5, <2>6 DEF Registers, u
<1>4. CASE p \in [string : Bytes]
  <2>1. Is(p, "string") /\ ~Is(p, "label") /\ p.string \in Bytes
      BY <1>4 DEF Is
  <2> DEFINE n == t.last_string_id
             name == DataName(n)
             h == handle_label(t, name)
             entry == [label_name |-> name, data |-> Append(p.string, 0)]
  <2>2. /\ u = [h EXCEPT !.last_string_id = @ + 1,
                         !.data_section = Append(@, entry)]
        /\ Operand(u, p)
              = Literal(Label, LabelId(u, DataName(u.last_string_id - 1)))
      BY <2>1 DEF Registered, Operand, handle_string
  <2>3. n \in Nat /\ n >= 1 /\ k = n - 1
      BY <1>1 DEF Typed
  <2>4. TypedUpTo(t, n)
    <3>1. NamesUpTo(k) \subseteq NamesUpTo(n)
        BY <2>3 DEF NamesUpTo
    <3>2. QED
        BY <1>1, <3>1 DEF TypedUpTo
  <2>5. name \in LabelName /\ name \in NamesUpTo(n)
      BY <2>3 DEF LabelName, NamesUpTo
  <2>6. entry \in DataRecord
    <3>1. Append(p.string, 0) \in Bytes
        BY <2>1, Widths DEF Bytes, ByteRange
    <3>2. QED
        BY <2>5, <3>1 DEF DataRecord
  <2> HIDE DEF u, k, h, n, name, entry
  <2>7. /\ TypedUpTo(h, n)
        /\ LabelId(h, name) \in 0 .. h.last_label_id
        /\ t.last_label_id <= h.last_label_id
        /\ h.last_string_id = n
        /\ h.data_section = t.data_section
      BY <2>3, <2>4, <2>5, HandleTyped DEF h, n
  <2>8. /\ u.labels = h.labels /\ u.last_label_id = h.last_label_id
        /\ u.last_string_id = n + 1 /\ u \in Tables
    <3>1. h \in Tables
        BY <2>7 DEF TypedUpTo
    <3>2. Append(t.data_section, entry) \in Seq(DataRecord) /\ n + 1 \in Nat
        BY <1>1, <2>3, <2>6
    <3>3. QED
        BY <2>2, <2>7, <3>1, <3>2 DEF Tables
  <2>9. u.last_string_id - 1 = n
      BY <2>3, <2>8
  <2>10. TypedUpTo(u, n)
      BY <2>7, <2>8 DEF TypedUpTo
  <2>11. LabelId(u, name) = LabelId(h, name)
      BY <2>8 DEF LabelId
  <2>12. Operand(u, p) \in Held(u.last_label_id)
      BY <2>2, <2>7, <2>8, <2>9, <2>11 DEF Literal, Held, name
  <2>13. Typed(u)
      BY <2>3, <2>8, <2>9, <2>10 DEF Typed
  <2>14. QED
      BY <2>7, <2>8, <2>12, <2>13 DEF Registers, u
<1>5. QED
  <2>1. Literal(Unused, 0) \in [mode : 0 .. 7, value : WordRange]
      BY Widths DEF Literal, Unused, WordRange
  <2>2. QED
      BY <1>2, <1>3, <1>4, <2>1 DEF NodeParam, Given

(* A label that is placed keeps its name and its id. *)
LEMMA PlacedTyped ==
    ASSUME NEW t, Typed(t), NEW name, ROM_START + position \in Int
    PROVE  LET u == set_label_position(t, name)
           IN  Typed(u) /\ u.last_label_id = t.last_label_id
<1> DEFINE u == set_label_position(t, name)
           s == t.labels
           w == Word(ROM_START + position)
           F(x) == IF x.name = name /\ x.position = INVALID_LABEL_ADDRESS
                   THEN [x EXCEPT !.position = w] ELSE x
<1>1. t \in Tables /\ s \in Seq(LabelRecord)
    BY DEF Typed, TypedUpTo, Tables
<1>2. u = [t EXCEPT !.labels = [i \in DOMAIN s |-> F(s[i])]]
    BY DEF set_label_position
<1>3. w \in WordRange
    BY WordType
<1> HIDE DEF w
<1>4. \A x \in LabelRecord :
          F(x) \in LabelRecord /\ F(x).name = x.name /\ F(x).id = x.id
    BY <1>3 DEF LabelRecord
<1>5. [i \in DOMAIN s |-> F(s[i])] \in Seq(LabelRecord)
    BY <1>1, <1>4
<1>6. /\ u.labels = [i \in DOMAIN s |-> F(s[i])]
      /\ u.last_label_id = t.last_label_id
      /\ u.last_string_id = t.last_string_id
      /\ u \in Tables
  <2> HIDE DEF F
  <2>1. QED
      BY <1>1, <1>2, <1>5 DEF Tables
<1>7. \A l \in ToSet(u.labels) : \E x \in ToSet(s) :
          l.name = x.name /\ l.id = x.id
  <2>1. \A i \in DOMAIN s : s[i] \in LabelRecord /\ s[i] \in ToSet(s)
      BY <1>1 DEF ToSet
  <2> HIDE DEF F, u, s
  <2>2. /\ DOMAIN u.labels = DOMAIN s
        /\ \A i \in DOMAIN s : u.labels[i] = F(s[i])
      BY <1>6
  <2>3. \A l \in ToSet(u.labels) : \E i \in DOMAIN s : l = F(s[i])
      BY <2>2 DEF ToSet
  <2>4. QED
      BY <1>4, <2>1, <2>3
<1> HIDE DEF u, s
<1>8. TypedUpTo(u, t.last_string_id - 1)
    BY <1>6, <1>7 DEF Typed, TypedUpTo, s
<1>9. QED
    BY <1>6, <1>8 DEF Typed, u

(* Instructions that were registered stay so with more labels. *)
LEMMA HeldGrows ==
    ASSUME NEW m \in Nat, NEW n \in Nat, m <= n,
           NEW insts \in Seq(HeldInstruction(m))
    PROVE  insts \in Seq(HeldInstruction(n))
<1>1. 0 .. m \subseteq 0 .. n
    OBVIOUS
<1>2. Held(m) \subseteq Held(n)
    BY <1>1 DEF Held
<1>3. HeldInstruction(m) \subseteq HeldInstruction(n)
    BY <1>2 DEF HeldInstruction
<1>4. QED
    BY <1>3

(* The first pass: ... *)
LEMMA InstructionTyped ==
    ASSUME AstInv, CodeInv, OwnInv, InstructionNode,
           UNCHANGED <<parser, call, output>>
    PROVE  CodeInv' /\ OwnInv'
<1> DEFINE node == ast[next]
           first == Registered(tables, node.p1)
           second == Registered(first, node.p2)
           i == [node EXCEPT !.p1 = Operand(first, @),
                             !.p2 = Operand(second, @)]
           last == second.last_label_id
<1>1. /\ at = "nodes" /\ at' = "nodes" /\ next \in 1 .. Len(ast)
      /\ Is(node, "op") /\ tables' = second
      /\ instructions' = Append(instructions, i)
      /\ position' = Word(position + calculate_instruction_length(i))
      /\ next' = next + 1 /\ error' = error /\ ran' = ran
    BY DEF InstructionNode, AtNode, add_instruction, OwnInv
<1>2. /\ node \in OpNode /\ NamedNode(node)
  <2>1. node \in Node /\ NamedNode(node)
      BY <1>1 DEF AstInv
  <2> HIDE DEF node
  <2>2. QED
      BY <1>1, <2>1, NodeAlternative
<1>3. /\ node.op \in ToSet(OpTable)
      /\ node.p1 \in NodeParam /\ node.p2 \in NodeParam
      /\ Named(node.p1) /\ Named(node.p2)
      /\ node = [op |-> node.op, p1 |-> node.p1, p2 |-> node.p2]
    BY <1>1, <1>2 DEF OpNode, NamedNode
<1> HIDE DEF node
<1>4. Registers(tables, node.p1)
    BY <1>3, RegisteredTyped DEF CodeInv
<1>5. Typed(first)
    BY <1>4 DEF Registers
<1> HIDE DEF first
<1>6. Registers(first, node.p2)
    BY <1>3, <1>5, RegisteredTyped
<1>7. /\ Typed(second) /\ last \in Nat /\ first.last_label_id \in Nat
      /\ tables.last_label_id \in Nat
      /\ tables.last_label_id <= first.last_label_id
      /\ first.last_label_id <= last
      /\ Operand(first, node.p1) \in Held(first.last_label_id)
      /\ Operand(second, node.p2) \in Held(last)
    BY <1>4, <1>5, <1>6
       DEF Registers, CodeInv, Typed, TypedUpTo, Tables, first
<1> HIDE DEF second
<1>8. i = [op |-> node.op, p1 |-> Operand(first, node.p1),
           p2 |-> Operand(second, node.p2)]
  <2> DEFINE q1 == Operand(first, node.p1)
             q2 == Operand(second, node.p2)
  <2>1. node \in [op : ToSet(OpTable), p1 : NodeParam, p2 : NodeParam]
      BY <1>2 DEF OpNode
  <2>2. i = [node EXCEPT !.p1 = q1, !.p2 = q2]
      OBVIOUS
  <2> HIDE DEF q1, q2, i
  <2>3. i = [op |-> node.op, p1 |-> q1, p2 |-> q2]
      BY <2>1, <2>2
  <2>4. QED
      BY <2>3 DEF q1, q2
<1> HIDE DEF i
<1>9. i \in HeldInstruction(last)
  <2>1. 0 .. first.last_label_id \subseteq 0 .. last
      BY <1>7
  <2>2. Operand(first, node.p1) \in Held(last)
      BY <1>7, <2>1 DEF Held
  <2>3. QED
      BY <1>3, <1>7, <1>8, <2>2 DEF HeldInstruction
<1>10. instructions \in Seq(HeldInstruction(last))
  <2>1. tables.last_label_id <= last
      BY <1>7
  <2>2. QED
      BY <1>7, <2>1, HeldGrows DEF CodeInv
<1>11. calculate_instruction_length(i) \in Nat
  <2>1. i.op \in ToSet(OpTable)
      BY <1>3, <1>8
  <2> DEFINE c == param_count(opcode_from_name(i.op))
             s1 == param_size(i.p1.mode)
             s2 == param_size(i.p2.mode)
  <2>2. c \in {0, 1, 2} /\ s1 \in 0 .. 4 /\ s2 \in 0 .. 4
    <3>1. opcode_from_name(i.op) \in Nat
        BY <2>1, OpcodeOfName
    <3>2. QED
        BY <3>1, ParamCount, ParamSize
  <2>3. calculate_instruction_length(i)
          = 1 + (IF c > 0 THEN 1 ELSE 0) + s1 + s2
      BY DEF calculate_instruction_length
  <2> HIDE DEF c, s1, s2
  <2>4. QED
      BY <2>2, <2>3
<1>12. CodeInv'
  <2>1. Append(instructions, i) \in Seq(HeldInstruction(last))
      BY <1>9, <1>10
  <2>2. Passing'
      BY <1>1 DEF Passing
  <2>3. QED
      BY <1>1, <1>7, <2>1, <2>2 DEF CodeInv
<1>13. OwnInv'
  <2>1. position \in Nat
      BY DEF OwnInv, WordRange
  <2>2. position' \in WordRange
      BY <1>1, <1>11, <2>1, WordType
  <2>3. QED
      BY <1>1, <2>2 DEF OwnInv
<1>14. QED
    BY <1>12, <1>13

(* ... a label is placed, ... *)
LEMMA LabelTyped ==
    ASSUME AstInv, CodeInv, OwnInv, LabelNode,
           UNCHANGED <<parser, call, output>>
    PROVE  CodeInv' /\ OwnInv'
<1> DEFINE node == ast[next]
           name == node.label
           known == handle_label(tables, name)
           u == set_label_position(known, name)
           k == tables.last_string_id - 1
<1>1. /\ at = "nodes" /\ at' = "nodes" /\ next \in 1 .. Len(ast)
      /\ Is(node, "label") /\ tables' = u
      /\ error' = (error \/ ~Unplaced(known, name))
      /\ instructions' = instructions /\ position' = position
      /\ next' = next + 1 /\ ran' = ran
    BY DEF LabelNode, AtNode, OwnInv
<1>2. name \in LabelName /\ name \in NamesUpTo(k)
  <2>1. node \in Node /\ NamedNode(node)
      BY <1>1 DEF AstInv
  <2> HIDE DEF node
  <2>2. node \in [label : Name]
      BY <1>1, <2>1, NodeAlternative
  <2>3. QED
      BY <1>1, <2>1, <2>2 DEF LabelName, NamesUpTo, NamedNode, Named
<1>3. /\ TypedUpTo(tables, k) /\ k \in Nat /\ tables.last_string_id >= 1
      /\ tables.last_label_id \in Nat
    BY DEF CodeInv, Typed, TypedUpTo, Tables
<1> HIDE DEF name, k
<1>4. /\ TypedUpTo(known, k)
      /\ tables.last_label_id <= known.last_label_id
      /\ known.last_string_id = tables.last_string_id
    BY <1>2, <1>3, HandleTyped
<1> HIDE DEF known
<1>5. Typed(known)
    BY <1>3, <1>4 DEF Typed, k
<1>6. ROM_START + position \in Int
    BY OriginAssumption DEF OwnInv, WordRange
<1>7. Typed(u) /\ u.last_label_id = known.last_label_id
    BY <1>5, <1>6, PlacedTyped
<1> HIDE DEF u
<1>8. u.last_label_id \in Nat /\ tables.last_label_id <= u.last_label_id
    BY <1>4, <1>7 DEF Typed, TypedUpTo, Tables
<1>9. instructions \in Seq(HeldInstruction(u.last_label_id))
    BY <1>3, <1>8, HeldGrows DEF CodeInv
<1>10. CodeInv'
    BY <1>1, <1>7, <1>9 DEF CodeInv, Passing
<1>11. OwnInv'
  <2>1. error' \in BOOLEAN
      BY <1>1, Zenon DEF OwnInv
  <2>2. QED
      BY <1>1, <2>1 DEF OwnInv
<1>12. QED
    BY <1>10, <1>11

(* ... a string is copied; ... *)
LEMMA StringTyped ==
    ASSUME AstInv, CodeInv, OwnInv, StringNode,
           UNCHANGED <<parser, call, output>>
    PROVE  CodeInv' /\ OwnInv'
<1> DEFINE node == ast[next]
           i == [raw |-> Append(node.string, 0)]
<1>1. /\ at = "nodes" /\ at' = "nodes" /\ next \in 1 .. Len(ast)
      /\ Is(node, "string") /\ tables' = tables
      /\ instructions' = Append(instructions, i)
      /\ position' = Word(position + Len(node.string) + 1)
      /\ next' = next + 1 /\ error' = error /\ ran' = ran
    BY DEF StringNode, AtNode, OwnInv
<1>2. node.string \in Bytes
  <2>1. node \in Node
      BY <1>1 DEF AstInv
  <2> HIDE DEF node
  <2>2. node \in [string : Bytes]
      BY <1>1, <2>1, NodeAlternative
  <2>3. QED
      BY <2>2
<1>3. Append(node.string, 0) \in Bytes /\ Len(node.string) \in Nat
    BY <1>2, Widths DEF Bytes, ByteRange
<1> HIDE DEF node
<1>4. i \in HeldInstruction(tables.last_label_id)
    BY <1>3 DEF HeldInstruction
<1> HIDE DEF i
<1>5. CodeInv'
  <2>1. Append(instructions, i)
            \in Seq(HeldInstruction(tables.last_label_id))
      BY <1>4 DEF CodeInv
  <2>2. QED
      BY <1>1, <2>1 DEF CodeInv, Passing
<1>6. OwnInv'
  <2>1. position + Len(node.string) + 1 \in Int
      BY <1>3 DEF OwnInv, WordRange
  <2>2. position' \in WordRange
      BY <1>1, <2>1, WordType
  <2>3. QED
      BY <1>1, <2>2 DEF OwnInv
<1>7. QED
    BY <1>5, <1>6

(* ... and so are the strings that are parameters. *)
LEMMA DataTyped ==
    ASSUME CodeInv, OwnInv, DataEntry, UNCHANGED <<parser, call, output>>
    PROVE  CodeInv' /\ OwnInv'
<1> DEFINE entry == tables.data_section[next]
           u == set_label_position(tables, entry.label_name)
<1>1. /\ at = "data" /\ at' = "data"
      /\ next \in 1 .. Len(tables.data_section) /\ tables' = u
      /\ error' = (error \/ ~Unplaced(tables, entry.label_name))
      /\ position' = Word(position + Len(entry.data))
      /\ instructions' = instructions
      /\ next' = next + 1 /\ ran' = ran
  <2>1. tables.data_section \in Seq(DataRecord)
      BY DEF CodeInv, Typed, TypedUpTo, Tables
  <2>2. QED
      BY <2>1 DEF DataEntry, OwnInv
<1>2. entry.data \in Bytes /\ Len(entry.data) \in Nat
  <2>1. entry \in DataRecord
      BY <1>1 DEF CodeInv, Typed, TypedUpTo, Tables
  <2> HIDE DEF entry
  <2>2. QED
      BY <2>1 DEF DataRecord, Bytes
<1>3. ROM_START + position \in Int
    BY OriginAssumption DEF OwnInv, WordRange
<1> HIDE DEF entry
<1>4. Typed(u) /\ u.last_label_id = tables.last_label_id
    BY <1>3, PlacedTyped DEF CodeInv
<1> HIDE DEF u
<1>5. CodeInv'
    BY <1>1, <1>4 DEF CodeInv, Passing
<1>6. OwnInv'
  <2>1. position + Len(entry.data) \in Int
      BY <1>2 DEF OwnInv, WordRange
  <2>2. position' \in WordRange
      BY <1>1, <2>1, WordType
  <2>3. error' \in BOOLEAN
      BY <1>1, Zenon DEF OwnInv
  <2>4. QED
      BY <1>1, <2>2, <2>3 DEF OwnInv
<1>7. QED
    BY <1>5, <1>6

(* The second pass leaves instructions that can be encoded. *)
LEMMA ConvertTyped ==
    ASSUME CodeInv, OwnInv, convert_labels, UNCHANGED <<parser, call, output>>
    PROVE  CodeInv' /\ OwnInv'
<1> DEFINE last == tables.last_label_id
           x(i) == [i EXCEPT !.p1 = Converted(@), !.p2 = Converted(@)]
           F(i) == IF Is(i, "raw") THEN i ELSE x(i)
<1>1. /\ at' = "return" /\ ran' = TRUE /\ UNCHANGED <<tables, position, next>>
      /\ instructions' = [n \in DOMAIN instructions |-> F(instructions[n])]
      /\ error' = (error \/ \E i \in ToSet(instructions) :
                       ~Is(i, "raw") /\ (Dangles(i.p1) \/ Dangles(i.p2)))
    BY DEF convert_labels
<1>2. /\ instructions \in Seq(HeldInstruction(last))
      /\ \A l \in ToSet(tables.labels) : l.position \in WordRange
  <2>1. \A l \in ToSet(tables.labels) : l \in LabelRecord
      BY DEF CodeInv, Typed, TypedUpTo, Tables, ToSet
  <2>2. QED
      BY <2>1 DEF CodeInv, LabelRecord
<1>3. \A id : convert_label(id) \in WordRange
  <2>1. 0 \in WordRange
      BY Widths DEF WordRange
  <2>2. QED
      BY <1>2, <2>1 DEF convert_label, Resolved
<1>4. \A q \in Held(last) : Converted(q) \in WordParam
  <2> SUFFICES ASSUME NEW q \in Held(last)
               PROVE  Converted(q) \in WordParam
      OBVIOUS
  <2> HIDE DEF last
  <2>1. CASE q.mode = Label
      BY <1>3, <2>1 DEF Converted, Literal, WordParam, Constant32
  <2>2. CASE q.mode # Label
    <3>1. q \in WordParam
        BY <2>2 DEF Held
    <3>2. QED
        BY <2>2, <3>1 DEF Converted
  <2>3. QED
      BY <2>1, <2>2
<1>5. \A i \in HeldInstruction(last) : F(i) \in Ready
  <2> SUFFICES ASSUME NEW i \in HeldInstruction(last)
               PROVE  F(i) \in Ready
      OBVIOUS
  <2> HIDE DEF last
  <2>1. CASE i \in [raw : Bytes]
    <3>1. Is(i, "raw")
        BY <2>1 DEF Is
    <3>2. QED
        BY <2>1, <3>1 DEF Ready
  <2>2. CASE i \in [op : ToSet(OpTable), p1 : Held(last), p2 : Held(last)]
    <3>1. ~Is(i, "raw")
        BY <2>2 DEF Is
    <3> DEFINE q1 == Converted(i.p1)
               q2 == Converted(i.p2)
    <3>2. q1 \in WordParam /\ q2 \in WordParam /\ i.op \in ToSet(OpTable)
        BY <1>4, <2>2
    <3>3. x(i) = [i EXCEPT !.p1 = q1, !.p2 = q2]
        OBVIOUS
    <3> HIDE DEF q1, q2, x
    <3>4. x(i) = [op |-> i.op, p1 |-> q1, p2 |-> q2]
        BY <2>2, <3>3
    <3>5. QED
        BY <3>1, <3>2, <3>4 DEF Ready
  <2>3. QED
      BY <2>1, <2>2 DEF HeldInstruction
<1>6. instructions' \in Seq(Ready)
  <2> HIDE DEF F, last
  <2>1. QED
      BY <1>1, <1>2, <1>5
<1>7. Ready \subseteq HeldInstruction(last)
    BY DEF Ready, HeldInstruction, Held
<1>8. CodeInv'
  <2>1. instructions' \in Seq(HeldInstruction(last))
      BY <1>6, <1>7
  <2>2. QED
      BY <1>1, <1>6, <2>1 DEF CodeInv
<1>9. OwnInv'
  <2>1. error' \in BOOLEAN
      BY <1>1, Zenon DEF OwnInv
  <2>2. QED
      BY <1>1, <2>1 DEF OwnInv
<1>10. QED
    BY <1>8, <1>9

(* What can be encoded is encoded in bytes, and so is the whole binary. *)
LEMMA ReadyBytes ==
    ASSUME NEW i \in [op : ToSet(OpTable), p1 : WordParam, p2 : WordParam]
    PROVE  write_instruction(i) \in Bytes
<1> DEFINE opcode == opcode_from_name(i.op)
           modes == 16 * i.p1.mode + i.p2.mode
<1>1. opcode \in 0 .. 127 /\ i.p1 \in WordParam /\ i.p2 \in WordParam
    BY OpcodeOfName
<1>2. i.p1.mode \in 0 .. 7 /\ i.p2.mode \in 0 .. 7
    BY <1>1 DEF WordParam
<1>3. 0 .. 127 \subseteq ByteRange
    BY NamesAssumption, Widths DEF ByteRange
<1>4. modes \in 0 .. 127
    BY <1>2
<1> HIDE DEF opcode, modes
<1>5. << opcode >> \in Bytes /\ << modes >> \in Bytes /\ << >> \in Bytes
    BY <1>1, <1>3, <1>4 DEF Bytes
<1>6. write_parameter(i.p1) \in Bytes /\ write_parameter(i.p2) \in Bytes
    BY <1>1, ParameterBytes DEF Bytes
<1>7. write_instruction(i)
        = << opcode >>
          \o (IF i.p1.mode = Unused THEN << >> ELSE << modes >>)
          \o write_parameter(i.p1) \o write_parameter(i.p2)
    BY DEF write_instruction, opcode, modes
<1>8. QED
    BY <1>5, <1>6, <1>7 DEF Bytes

(* Bytes joined are bytes. *)
LEMMA JoinedBytes ==
    ASSUME NEW ss \in Seq(Bytes)
    PROVE  FlattenSeq(ss) \in Bytes
<1>1. ss \in Seq(Seq(ByteRange))
    BY DEF Bytes
<1>2. PICK off : Begins(off, ss)
    BY <1>1, BeginsExist
<1>3. QED
    BY <1>1, <1>2, Flattened DEF Bytes

(* The binary outside of the passes. *)
LEMMA BinaryBytes ==
    ASSUME CodeInv, ~Passing
    PROVE  binary \in Bytes
<1> DEFINE pieces == Pieces(instructions)
           datas == Datas(tables)
<1>1. pieces \in Seq(Bytes)
  <2> DEFINE F(i) == IF Is(i, "raw") THEN i.raw ELSE write_instruction(i)
  <2>1. instructions \in Seq(Ready)
      BY DEF CodeInv
  <2>2. \A i \in Ready : F(i) \in Bytes
      BY ReadyBytes DEF Ready, Is
  <2>3. pieces = [n \in DOMAIN instructions |-> F(instructions[n])]
      BY DEF Pieces
  <2> HIDE DEF F, pieces
  <2>4. QED
      BY <2>1, <2>2, <2>3
<1>2. datas \in Seq(Bytes)
  <2>1. tables.data_section \in Seq(DataRecord)
      BY DEF CodeInv, Typed, TypedUpTo, Tables
  <2>2. \A r \in DataRecord : r.data \in Bytes
      BY DEF DataRecord
  <2>3. QED
      BY <2>1, <2>2 DEF Datas
<1>3. binary = FlattenSeq(pieces) \o FlattenSeq(datas)
    BY DEF binary, Pieces, Datas
<1> HIDE DEF pieces, datas
<1>4. FlattenSeq(pieces) \in Bytes /\ FlattenSeq(datas) \in Bytes
    BY <1>1, <1>2, JoinedBytes
<1>5. QED
    BY <1>3, <1>4 DEF Bytes

(* Every step keeps the types. *)
LEMMA TypeNext ==
    ASSUME TypeInv, [Next]_vars
    PROVE  TypeInv'
<1>1. AstInv /\ CodeInv /\ OwnInv
    BY DEF TypeInv
<1>2. CASE Enter
  <2>1. UNCHANGED <<parser, tables, instructions, position, error, ran, next,
                    output>>
        /\ at = "host" /\ at' \in {"return", "parse"} /\ call' \in Calls
      BY <1>2 DEF Enter
  <2>2. QED
      BY <1>1, <2>1
         DEF TypeInv, AstInv, CodeInv, OwnInv, Passing, parser, NamedNode
<1>3. CASE Parse
  <2>1. ParseNode /\ UNCHANGED <<tables, instructions, position, error, ran,
                                 call, at, next, output>>
      BY <1>3 DEF Parse
  <2>2. AstInv'
      BY <1>1, <2>1, AstTyped
  <2>3. QED
      BY <1>1, <2>1, <2>2 DEF TypeInv, CodeInv, OwnInv, Passing
<1>4. CASE Parsed
  <2>1. UNCHANGED <<parser, tables, instructions, position, error, ran, call,
                    output>>
        /\ at = "parse" /\ next' = 1
      BY <1>4 DEF Parsed
  <2>2. QED
      BY <1>1, <2>1
         DEF TypeInv, AstInv, CodeInv, OwnInv, Passing, parser, NamedNode
<1>5. CASE Pass
  <2>1. UNCHANGED <<parser, call, output>>
      BY <1>5 DEF Pass
  <2>2. AstInv'
      BY <1>1, <2>1 DEF AstInv, parser, NamedNode
  <2>3. CASE NodesEnd \/ DataEnd
    <3>1. /\ UNCHANGED <<tables, instructions, position, error, ran, call,
                         output>>
          /\ Passing /\ Passing' /\ next' \in {1, next}
        BY <2>1, <2>3 DEF NodesEnd, DataEnd, Passing
    <3>2. CodeInv'
        BY <1>1, <3>1 DEF CodeInv
    <3>3. OwnInv'
        BY <1>1, <3>1 DEF OwnInv
    <3>4. QED
        BY <2>2, <3>2, <3>3 DEF TypeInv
  <2>4. CASE ~NodesEnd /\ ~DataEnd
    <3>1. CASE InstructionNode
        BY <1>1, <2>1, <2>2, <3>1, InstructionTyped DEF TypeInv
    <3>2. CASE LabelNode
        BY <1>1, <2>1, <2>2, <3>2, LabelTyped DEF TypeInv
    <3>3. CASE StringNode
        BY <1>1, <2>1, <2>2, <3>3, StringTyped DEF TypeInv
    <3>4. CASE DataEntry
        BY <1>1, <2>1, <2>2, <3>4, DataTyped DEF TypeInv
    <3>5. CASE convert_labels
        BY <1>1, <2>1, <2>2, <3>5, ConvertTyped DEF TypeInv
    <3>6. QED
        BY <1>5, <2>4, <3>1, <3>2, <3>3, <3>4, <3>5 DEF Pass
  <2>5. QED
      BY <2>3, <2>4
<1>6. CASE Return
  <2>1. /\ UNCHANGED <<parser, tables, instructions, position, error, ran,
                       call, next>>
        /\ at = "return" /\ at' = "host"
        /\ output' \in {output, NoOutput, [ok |-> TRUE, binary |-> binary]}
      BY <1>6 DEF Return
  <2>2. ~Passing /\ ~Passing'
      BY <2>1 DEF Passing
  <2>3. binary \in Bytes /\ NoOutput.binary \in Bytes
      BY <1>1, <2>2, BinaryBytes DEF NoOutput, Bytes
  <2>4. output'.binary \in Bytes
      BY <1>1, <2>1, <2>3 DEF OwnInv
  <2>5. AstInv' /\ CodeInv'
      BY <1>1, <2>1, <2>2 DEF AstInv, CodeInv, parser, NamedNode
  <2>6. OwnInv'
      BY <1>1, <2>1, <2>4 DEF OwnInv
  <2>7. QED
      BY <2>5, <2>6 DEF TypeInv
<1>7. CASE UNCHANGED vars
    BY <1>1, <1>7
       DEF TypeInv, AstInv, CodeInv, OwnInv, Passing, vars, NamedNode
<1>8. QED
    BY <1>2, <1>3, <1>4, <1>5, <1>6, <1>7 DEF Next, Work

(* They hold before the first call. *)
LEMMA TypeInit == Init => TypeInv
<1> SUFFICES ASSUME Init
             PROVE  TypeInv
    OBVIOUS
<1>1. AstInv
  <2>1. source \in Sources /\ source \in Seq(Token) /\ read = 0
        /\ ast = << >> /\ parser_error = FALSE
      BY SourceAssumption DEF Init, ParserInit
  <2>2. Len(source) \in Nat /\ << >> \in Seq(Node) /\ Len(<< >>) = 0
      BY <2>1
  <2>3. read \in 0 .. Len(source)
      BY <2>1, <2>2
  <2>4. \A k \in 1 .. Len(ast) : NamedNode(ast[k])
      BY <2>1, <2>2
  <2>5. parser_error \in BOOLEAN
      BY <2>1
  <2>6. QED
      BY <2>1, <2>2, <2>3, <2>4, <2>5 DEF AstInv
<1>2. CodeInv
  <2>1. /\ tables = NoTables /\ instructions = << >>
      BY DEF Init
  <2>2. NoTables \in Tables /\ ToSet(NoTables.labels) = {}
      BY DEF NoTables, Tables, ToSet
  <2>3. Typed(tables)
      BY <2>1, <2>2 DEF Typed, TypedUpTo, NoTables
  <2>4. QED
      BY <2>1, <2>3 DEF CodeInv
<1>3. OwnInv
  <2>1. /\ position = 0 /\ error = FALSE /\ ran = FALSE /\ call = "run"
        /\ next = 1 /\ output.binary = << >>
      BY DEF Init, NoOutput
  <2>2. 0 \in WordRange /\ << >> \in Bytes
      BY Widths DEF WordRange, Bytes
  <2>3. error \in BOOLEAN /\ ran \in BOOLEAN
      BY <2>1
  <2>4. call \in Calls /\ next \in Nat \ {0}
      BY <2>1 DEF Calls
  <2>5. position \in WordRange /\ output.binary \in Bytes
      BY <2>1, <2>2
  <2>6. QED
      BY <2>3, <2>4, <2>5, Zenon DEF OwnInv
<1>4. QED
    BY <1>1, <1>2, <1>3 DEF TypeInv

(* The ids of labels are words, so that there is an end of them. *)
LabelsFit == tables.last_label_id \in WordRange

(* The members of the assembler have their types, whatever a host calls    *)
(* and whatever the source is: names are those of the source and of its    *)
(* strings, ids are distinct from zero and one, no parameter refers to a   *)
(* label after the second pass, and a binary that is returned consists of  *)
(* bytes.  The ids are words in the code: the types hold in every state in *)
(* which fewer labels have been met than there are words. *)
THEOREM MembersTyped == Spec => [](LabelsFit => TypeOK)
<1> DEFINE Inv == TypeInv /\ AgreeInv
<1>1. Init => Inv
    BY TypeInit, AgreeInit
<1>2. Inv /\ [Next]_vars => Inv'
    BY TypeNext, AgreeNext
<1>3. Inv => (LabelsFit => TypeOK)
  <2> SUFFICES ASSUME TypeInv, AgreeInv, LabelsFit
               PROVE  TypeOK
      OBVIOUS
  <2> DEFINE last == tables.last_label_id
  <2>1. AstInv /\ CodeInv /\ OwnInv /\ at \in Places /\ (ran => ~Passing)
      BY DEF TypeInv, AgreeInv, PhaseInv
  <2>2. /\ tables.labels \in Seq(LabelRecord) /\ last \in WordRange
        /\ tables.data_section \in Seq(DataRecord)
        /\ instructions \in Seq(HeldInstruction(last))
        /\ ran => instructions \in Seq(Ready)
      BY <2>1 DEF CodeInv, Typed, TypedUpTo, Tables, LabelsFit
  <2>3. \A l \in ToSet(tables.labels) : IsLabel(l)
    <3>1. \A l \in ToSet(tables.labels) : l.position \in WordRange
      <4>1. \A l \in ToSet(tables.labels) : l \in LabelRecord
          BY <2>2 DEF ToSet
      <4>2. QED
          BY <4>1 DEF LabelRecord
    <3>2. NamesUpTo(tables.last_string_id - 1) = LabelNames
        BY DEF NamesUpTo, LabelNames, SourceNames
    <3>3. QED
        BY <2>1, <3>1, <3>2 DEF CodeInv, Typed, TypedUpTo, IsLabel
  <2>4. \A entry \in ToSet(tables.data_section) : entry.data \in Bytes
    <3>1. \A entry \in ToSet(tables.data_section) : entry \in DataRecord
        BY <2>2 DEF ToSet
    <3>2. QED
        BY <3>1 DEF DataRecord
  <2>5. \A q \in Held(last) : IsOperand(q)
    <3> HIDE DEF last
    <3>1. 0 .. last \subseteq WordRange
        BY <2>2, Widths DEF WordRange
    <3>2. QED
        BY <3>1 DEF Held, WordParam, IsOperand, Unused, Label, Constant8,
                    RegisterAddress
  <2>6. \A q \in WordParam : q.mode # Label
      BY DEF WordParam, Label
  <2>7. ASSUME NEW i \in ToSet(instructions)
        PROVE  IF Is(i, "raw") THEN i.raw \in Bytes
               ELSE \A q \in {i.p1, i.p2} :
                       IsOperand(q) /\ (ran => q.mode # Label)
    <3>1. i \in HeldInstruction(last) /\ (ran => i \in Ready)
        BY <2>2 DEF ToSet
    <3> HIDE DEF last
    <3>2. CASE Is(i, "raw")
        BY <3>1, <3>2 DEF HeldInstruction, Is
    <3>3. CASE ~Is(i, "raw")
      <4>1. /\ i.p1 \in Held(last) /\ i.p2 \in Held(last)
            /\ ran => i.p1 \in WordParam /\ i.p2 \in WordParam
          BY <3>1, <3>3 DEF HeldInstruction, Ready, Is
      <4>2. QED
          BY <2>5, <2>6, <3>3, <4>1
    <3>4. QED
        BY <3>2, <3>3
  <2>8. QED
      BY <2>1, <2>3, <2>4, <2>7 DEF TypeOK, AstInv, OwnInv
<1>4. QED
    BY <1>1, <1>2, <1>3, PTL DEF Spec

-----------------------------------------------------------------------------
(* The parser accepts the lines of the language, although it does not read *)
(* by lines. *)

(* A token holds one alternative: what begins a statement and what ends a  *)
(* line is told apart from the rest. *)
LEMMA TokenKinds ==
    ASSUME NEW token \in Token
    PROVE  /\ Is(token, "opcode") =>
                 /\ ~Statement(token) /\ ~Is(token, "end_of_line")
                 /\ token.opcode \in ToSet(OpTable)
           /\ Statement(token) =>
                 ~Is(token, "opcode") /\ ~Is(token, "end_of_line")
           /\ Parameters \cap DOMAIN token # {} =>
                 ~Is(token, "opcode") /\ ~Is(token, "end_of_line")
<1>1. \/ token \in [end_of_line : {TRUE}] \cup [invalid : {TRUE}]
                   \cup [register : ByteRange]
                   \cup [register_address : ByteRange]
                   \cup [absolute_address : WordRange]
                   \cup [relative_address : WordRange]
                   \cup [integer : WordRange, size : {1, 2, 4}]
                   \cup [float : WordRange] \cup [alias : DOMAIN str_hash]
      \/ token \in [opcode : ToSet(OpTable)]
      \/ token \in [label : Name] \cup [string : Bytes]
    BY DEF Token, Bytes
<1>2. CASE token \in [opcode : ToSet(OpTable)]
  <2>1. DOMAIN token = {"opcode"} /\ token.opcode \in ToSet(OpTable)
      BY <1>2
  <2>2. QED
      BY <2>1 DEF Is, Statement, Parameters
<1>3. CASE token \in [label : Name] \cup [string : Bytes]
  <2>1. DOMAIN token = {"label"} \/ DOMAIN token = {"string"}
      BY <1>3
  <2>2. QED
      BY <2>1 DEF Is, Statement, Parameters
<1>4. CASE token \in [end_of_line : {TRUE}] \cup [invalid : {TRUE}]
  <2>1. DOMAIN token = {"end_of_line"} \/ DOMAIN token = {"invalid"}
      BY <1>4
  <2>2. QED
      BY <2>1 DEF Is, Statement, Parameters
<1>5. CASE \/ token \in [register : ByteRange]
           \/ token \in [register_address : ByteRange]
           \/ token \in [absolute_address : WordRange]
           \/ token \in [relative_address : WordRange]
  <2>1. \/ DOMAIN token = {"register"} \/ DOMAIN token = {"register_address"}
        \/ DOMAIN token = {"absolute_address"}
        \/ DOMAIN token = {"relative_address"}
      BY <1>5
  <2>2. QED
      BY <2>1 DEF Is, Statement, Parameters
<1>6. CASE \/ token \in [integer : WordRange, size : {1, 2, 4}]
           \/ token \in [float : WordRange]
           \/ token \in [alias : DOMAIN str_hash]
  <2>1. \/ DOMAIN token = {"integer", "size"} \/ DOMAIN token = {"float"}
        \/ DOMAIN token = {"alias"}
      BY <1>6
  <2>2. QED
      BY <2>1 DEF Is, Statement, Parameters
<1>7. QED
    BY <1>1, <1>2, <1>3, <1>4, <1>5, <1>6

(* A line of statements is one of the language, and its nodes are these. *)
LEMMA StatementLine ==
    ASSUME NEW line \in Seq(Token),
           \A i \in 1 .. Len(line) : Statement(line[i])
    PROVE  WellFormed(line) /\ NodesOf(line) = line
<1>1. /\ DOMAIN line = 1 .. Len(line)
      /\ \A i \in 1 .. Len(line) : line[i] \in Token
    OBVIOUS
<1>2. Opcodes(line) = {}
    BY <1>1, TokenKinds DEF Opcodes
<1>3. QED
    BY <1>1, <1>2 DEF WellFormed, NodesOf

(* A line of statements, an instruction and as many parameters as it takes *)
(* is one of the language; its nodes are the statements and what            *)
(* read_instruction makes. *)
LEMMA InstructionLine ==
    ASSUME NEW line \in Seq(Token), NEW i \in 1 .. Len(line),
           Is(line[i], "opcode"), \A j \in 1 .. i - 1 : Statement(line[j]),
           NEW count \in Nat, count = ParametersOf(line[i].opcode),
           Len(line) = i + count,
           \A j \in i + 1 .. Len(line) : Parameters \cap DOMAIN line[j] # {}
    PROVE  /\ WellFormed(line)
           /\ NodesOf(line) =
                 LET p(k) == IF k <= count THEN read_parameter(line[i + k])
                             ELSE None
                 IN  Append(SubSeq(line, 1, i - 1),
                            Op2(line[i].opcode, p(1), p(2)))
<1>1. /\ DOMAIN line = 1 .. Len(line)
      /\ \A j \in 1 .. Len(line) : line[j] \in Token
    OBVIOUS
<1>2. Opcodes(line) = {i}
  <2>1. \A j \in 1 .. Len(line) : j # i => ~Is(line[j], "opcode")
    <3>1. \A j \in 1 .. Len(line) :
              j \in 1 .. i - 1 \/ j = i \/ j \in i + 1 .. Len(line)
        OBVIOUS
    <3>2. QED
        BY <1>1, <3>1, TokenKinds
  <2>2. QED
      BY <1>1, <2>1 DEF Opcodes
<1>3. WellFormed(line)
    BY <1>1, <1>2 DEF WellFormed
<1>4. Max({i}) = i
    BY DEF Max
<1>5. \A k \in Nat : (i + k <= Len(line)) <=> (k <= count)
  <2>1. i \in Nat
      OBVIOUS
  <2>2. ASSUME NEW k \in Nat
        PROVE  (i + k <= Len(line)) <=> (k <= count)
    <3>1. i + k <= i + count => k <= count
        BY <2>1
    <3>2. k <= count => i + k <= i + count
        BY <2>1
    <3>3. QED
        BY <3>1, <3>2
  <2>3. QED
      BY <2>2
<1>6. NodesOf(line) =
        LET p(k) == IF i + k <= Len(line) THEN read_parameter(line[i + k])
                    ELSE None
        IN  Append(SubSeq(line, 1, i - 1), Op2(line[i].opcode, p(1), p(2)))
    BY <1>2, <1>4 DEF NodesOf
<1>7. QED
    BY <1>3, <1>5, <1>6

(* What a line of the language is that has something else than a statement *)
(* behind its statements. *)
LEMMA OtherLine ==
    ASSUME NEW line \in Seq(Token), NEW i \in 1 .. Len(line),
           ~Statement(line[i]), \A j \in 1 .. i - 1 : Statement(line[j]),
           WellFormed(line)
    PROVE  /\ Is(line[i], "opcode")
           /\ Len(line) = i + ParametersOf(line[i].opcode)
           /\ \A j \in i + 1 .. Len(line) :
                 Parameters \cap DOMAIN line[j] # {}
<1>1. /\ DOMAIN line = 1 .. Len(line)
      /\ \A j \in 1 .. Len(line) : line[j] \in Token
    OBVIOUS
<1>2. PICK k \in Opcodes(line) :
          /\ \A j \in 1 .. k - 1 : Statement(line[j])
          /\ Len(line) = k + ParametersOf(line[k].opcode)
          /\ \A j \in k + 1 .. Len(line) :
                Parameters \cap DOMAIN line[j] # {}
    BY <1>1 DEF WellFormed
<1>3. k \in 1 .. Len(line) /\ Is(line[k], "opcode")
    BY <1>1, <1>2 DEF Opcodes
<1>4. ~(k \in 1 .. i - 1) /\ ~(i \in 1 .. k - 1)
    BY <1>1, <1>2, <1>3, TokenKinds
<1>5. k = i
    BY <1>3, <1>4
<1>6. QED
    BY <1>2, <1>3, <1>5

(* A line begins behind the end before its own. *)
LineFrom(b, e) == /\ b \in Nat /\ e \in Ends /\ b < e
                  /\ b = 0 \/ b \in Ends
                  /\ \A x \in Ends : x < e => x <= b

(* Its tokens. *)
LEMMA LineIs ==
    ASSUME source \in Seq(Token), NEW b, NEW e, LineFrom(b, e)
    PROVE  /\ Line(e) = SubSeq(source, b + 1, e - 1)
           /\ Line(e) \in Seq(Token) /\ Len(Line(e)) = e - 1 - b
           /\ \A i \in 1 .. e - 1 - b : Line(e)[i] = source[b + i]
<1>1. /\ b \in Nat /\ e \in 1 .. Len(source) + 1 /\ b < e
      /\ Len(source) \in Nat /\ Ends \subseteq Nat
    BY DEF LineFrom, Ends
<1>2. Max({0} \cup {x \in Ends : x < e}) = b
  <2> DEFINE T == {0} \cup {x \in Ends : x < e}
  <2>1. b \in T /\ \A x \in T : b >= x
      BY <1>1 DEF LineFrom
  <2>2. \A x \in T : x \in Nat
      BY <1>1
  <2> HIDE DEF T
  <2>3. \A y \in T : (\A x \in T : y >= x) => y = b
      BY <1>1, <2>1, <2>2
  <2>4. Max(T) = b
      BY <2>1, <2>3 DEF Max
  <2>5. QED
      BY <2>4 DEF T
<1>3. Line(e) = SubSeq(source, b + 1, e - 1)
    BY <1>2 DEF Line
<1>4. QED
    BY <1>1, <1>3

(* The nodes of the lines that have ended, up to each token. *)
Nodes == [n \in 1 .. Len(source) + 1 |->
             IF n \in Ends THEN NodesOf(Line(n)) ELSE << >>]
JoinedTo(f, n) == IF n = 0 THEN << >> ELSE f[n]

(* What the end of a line adds to the nodes. *)
LEMMA NodesJoined ==
    ASSUME source \in Seq(Token), NEW f, Joins(f, Nodes, Len(source) + 1),
           NEW n \in 1 .. Len(source) + 1, JoinedTo(f, n - 1) \in Seq(Node)
    PROVE  /\ n \notin Ends => JoinedTo(f, n) = JoinedTo(f, n - 1)
           /\ n \in Ends /\ NodesOf(Line(n)) \in Seq(Node) =>
                 JoinedTo(f, n) = JoinedTo(f, n - 1) \o NodesOf(Line(n))
<1> DEFINE s == JoinedTo(f, n - 1)
<1>1. n \in Nat /\ n # 0 /\ (n - 1 = 0 <=> n = 1) /\ JoinedTo(f, n) = f[n]
    BY DEF JoinedTo
<1>2. f[n] = IF n = 1 THEN Nodes[n] ELSE f[n - 1] \o Nodes[n]
    BY DEF Joins
<1>3. Nodes[n] = IF n \in Ends THEN NodesOf(Line(n)) ELSE << >>
    BY DEF Nodes
<1>4. s = IF n = 1 THEN << >> ELSE f[n - 1]
    BY <1>1 DEF JoinedTo
<1> HIDE DEF s
<1>5. s \in Seq(Node)
    BY DEF s
<1>6. s \o << >> = s
    BY <1>5
<1>7. ASSUME NEW t \in Seq(Node)
      PROVE  << >> \o t = t
    OBVIOUS
<1>8. QED
    BY <1>1, <1>2, <1>3, <1>4, <1>6, <1>7 DEF s

(* Within a line nothing is joined. *)
LEMMA NothingJoined ==
    ASSUME source \in Seq(Token), NEW f, Joins(f, Nodes, Len(source) + 1),
           NEW r \in Nat, NEW s \in r .. Len(source) + 1,
           JoinedTo(f, r) \in Seq(Node), \A x \in Ends : ~(x \in r + 1 .. s)
    PROVE  JoinedTo(f, s) = JoinedTo(f, r)
<1> DEFINE n == s - r
           G == {k \in 0 .. n : JoinedTo(f, r + k) = JoinedTo(f, r)}
<1>1. n \in Nat /\ r + n = s /\ n \in 0 .. n /\ r + 0 = r /\ 0 \in 0 .. n
    OBVIOUS
<1>2. 0 \in G
    BY <1>1
<1>3. \A k \in 0 .. n - 1 : k \in G => k + 1 \in G
  <2> SUFFICES ASSUME NEW k \in 0 .. n - 1, k \in G
               PROVE  k + 1 \in G
      OBVIOUS
  <2>1. JoinedTo(f, r + k) = JoinedTo(f, r)
      OBVIOUS
  <2> DEFINE m == r + k + 1
  <2>2. /\ m \in 1 .. Len(source) + 1 /\ m - 1 = r + k /\ m \in r + 1 .. s
        /\ r + (k + 1) = m /\ k + 1 \in 0 .. n
      OBVIOUS
  <2> HIDE DEF m, n
  <2>3. m \notin Ends
      BY <2>2
  <2>4. JoinedTo(f, m) = JoinedTo(f, r)
      BY <2>1, <2>2, <2>3, NodesJoined
  <2>5. QED
      BY <2>2, <2>4
<1> HIDE DEF G, n
<1>4. n \in G
    BY <1>1, <1>2, <1>3, InductionUpTo
<1>5. QED
    BY <1>1, <1>4 DEF G

(* Where the parser is between two statements: behind b, where the line    *)
(* begins, are statements of the line; and all lines up to b are those of  *)
(* the language. *)
Within(b, r) ==
    /\ b \in 0 .. r /\ (b = 0 \/ b \in Ends)
    /\ \A x \in Ends : x <= r => x <= b
    /\ \A i \in b + 1 .. r : Statement(source[i])
    /\ \A x \in Ends : x <= b => WellFormed(Line(x))
AllWellFormed == \A x \in Ends : WellFormed(Line(x))

(* As long as there is no error, the nodes are those of the lines that     *)
(* have ended and of the statements behind them. *)
Accepted(f, nodes, r) ==
    /\ Joins(f, Nodes, Len(source) + 1)
    /\ FlattenSeq(Nodes) = f[Len(source) + 1]
    /\ \/ \E b : /\ Within(b, r) /\ JoinedTo(f, r) \in Seq(Node)
                  /\ nodes = JoinedTo(f, r) \o SubSeq(source, b + 1, r)
       \/ r = Len(source) /\ AllWellFormed /\ nodes = f[Len(source) + 1]
ParsedInv == IF parser_error THEN ~AllWellFormed
             ELSE \E f : Accepted(f, ast, read)

(* What is common to the steps of the parser: where it reads, with the     *)
(* nodes that it has. *)
Reading(f, b) ==
    /\ Joins(f, Nodes, Len(source) + 1)
    /\ FlattenSeq(Nodes) = f[Len(source) + 1]
    /\ Within(b, read) /\ JoinedTo(f, read) \in Seq(Node)
    /\ ast = JoinedTo(f, read) \o SubSeq(source, b + 1, read)

(* The types of what it reads with. *)
LEMMA ReadingTypes ==
    ASSUME AstInv, NEW b, Within(b, read)
    PROVE  /\ source \in Seq(Token) /\ Len(source) \in Nat /\ read \in Nat
           /\ read <= Len(source) /\ b \in Nat /\ b <= read
           /\ Ends \subseteq 1 .. Len(source) + 1 /\ Len(source) + 1 \in Ends
           /\ \A n \in 1 .. Len(source) :
                 n \in Ends <=> Is(source[n], "end_of_line")
           /\ \A n \in 1 .. Len(source) : source[n] \in Token
<1>1. source \in Seq(Token) /\ read \in 0 .. Len(source)
    BY DEF AstInv
<1>2. Len(source) \in Nat
    BY <1>1
<1>3. read \in Nat /\ read <= Len(source) /\ b \in Nat /\ b <= read
    BY <1>1, <1>2 DEF Within
<1>4. /\ Ends \subseteq 1 .. Len(source) + 1 /\ Len(source) + 1 \in Ends
      /\ \A n \in 1 .. Len(source) :
            n \in Ends <=> Is(source[n], "end_of_line")
    BY <1>2 DEF Ends
<1>5. QED
    BY <1>1, <1>2, <1>3, <1>4

(* The line that the parser is in, once its end is known, begins with the  *)
(* statements it has read. *)
LEMMA LineAhead ==
    ASSUME AstInv, NEW b, Within(b, read), NEW e \in Ends, read < e,
           \A x \in Ends : x < e => x <= read
    PROVE  /\ LineFrom(b, e)
           /\ Line(e) = SubSeq(source, b + 1, e - 1)
           /\ Line(e) \in Seq(Token) /\ Len(Line(e)) = e - 1 - b
           /\ \A i \in 1 .. e - 1 - b : Line(e)[i] = source[b + i]
           /\ \A i \in 1 .. read - b : Statement(Line(e)[i])
<1>1. /\ source \in Seq(Token) /\ read \in Nat /\ b \in Nat /\ b <= read
      /\ e \in Nat
    BY ReadingTypes
<1>2. LineFrom(b, e)
    BY <1>1 DEF LineFrom, Within
<1>3. /\ Line(e) = SubSeq(source, b + 1, e - 1)
      /\ Line(e) \in Seq(Token) /\ Len(Line(e)) = e - 1 - b
      /\ \A i \in 1 .. e - 1 - b : Line(e)[i] = source[b + i]
    BY <1>1, <1>2, LineIs
<1>4. \A i \in 1 .. read - b : Statement(Line(e)[i])
  <2>1. \A i \in 1 .. read - b :
            i \in 1 .. e - 1 - b /\ b + i \in b + 1 .. read
      BY <1>1
  <2>2. QED
      BY <1>3, <2>1 DEF Within
<1>5. QED
    BY <1>2, <1>3, <1>4

AppendsBehind(s, t, e) == Append(s \o t, e) = s \o Append(t, e)

(* To append behind two sequences is to append behind the second. *)
LEMMA AppendBehind ==
    ASSUME NEW T, NEW U, NEW s \in Seq(T), NEW t \in Seq(U), NEW e \in U
    PROVE  AppendsBehind(s, t, e)
<1> DEFINE v == Append(t, e)
           w == s \o t
           x == Append(w, e)
           y == s \o v
<1>1. /\ Len(s) \in Nat /\ Len(t) \in Nat
      /\ v \in Seq(U) /\ Len(v) = Len(t) + 1
      /\ s \in Seq(T \cup U) /\ t \in Seq(T \cup U) /\ v \in Seq(T \cup U)
    OBVIOUS
<1>2. /\ w \in Seq(T \cup U) /\ Len(w) = Len(s) + Len(t)
      /\ y \in Seq(T \cup U) /\ Len(y) = Len(s) + Len(v)
    BY <1>1
<1>3. x \in Seq(T \cup U) /\ Len(x) = Len(w) + 1
    BY <1>2
<1>4. \A i \in 1 .. Len(s) : x[i] = s[i] /\ y[i] = s[i]
    BY <1>1, <1>2
<1>5. \A i \in 1 .. Len(t) : x[Len(s) + i] = t[i] /\ y[Len(s) + i] = t[i]
  <2>1. \A i \in 1 .. Len(t) : w[Len(s) + i] = t[i] /\ v[i] = t[i]
      BY <1>1
  <2>2. \A i \in 1 .. Len(t) : y[Len(s) + i] = v[i]
      BY <1>1
  <2>3. \A i \in 1 .. Len(t) : Len(s) + i \in 1 .. Len(w)
      BY <1>1, <1>2
  <2> HIDE DEF w, v, y
  <2>4. \A i \in 1 .. Len(w) : x[i] = w[i]
      BY <1>2
  <2>5. QED
      BY <2>1, <2>2, <2>3, <2>4
<1>6. x[Len(w) + 1] = e /\ y[Len(w) + 1] = e
  <2>1. v[Len(v)] = e
      BY <1>1
  <2>2. y[Len(s) + Len(v)] = v[Len(v)]
      BY <1>1
  <2>3. Len(s) + Len(v) = Len(w) + 1
      BY <1>1, <1>2
  <2>4. x[Len(w) + 1] = e
      BY <1>2
  <2>5. QED
      BY <2>1, <2>2, <2>3, <2>4
<1> HIDE DEF v, w, x, y
<1>7. \A i \in 1 .. Len(w) + 1 :
          \/ i \in 1 .. Len(s) \/ i = Len(w) + 1
          \/ i - Len(s) \in 1 .. Len(t) /\ Len(s) + (i - Len(s)) = i
  <2>1. ASSUME NEW m \in Nat, NEW k \in Nat, NEW i \in 1 .. m + k + 1
        PROVE  \/ i \in 1 .. m \/ i = m + k + 1
               \/ i - m \in 1 .. k /\ m + (i - m) = i
      OBVIOUS
  <2>2. Len(s) \in Nat /\ Len(t) \in Nat /\ Len(w) = Len(s) + Len(t)
      BY <1>1, <1>2
  <2>3. QED
      BY <2>1, <2>2
<1>8. \A i \in 1 .. Len(w) + 1 : x[i] = y[i]
    BY <1>4, <1>5, <1>6, <1>7
<1>9. Len(x) = Len(w) + 1 /\ Len(y) = Len(w) + 1
    BY <1>1, <1>2, <1>3
<1>10. x = y
  <2> DEFINE l == Len(w) + 1
  <2>1. x = [i \in 1 .. Len(x) |-> x[i]] /\ y = [i \in 1 .. Len(y) |-> y[i]]
      BY <1>2, <1>3
  <2> HIDE DEF l
  <2>2. x = [i \in 1 .. l |-> x[i]] /\ y = [i \in 1 .. l |-> y[i]]
      BY <1>9, <2>1 DEF l
  <2>3. \A i \in 1 .. l : x[i] = y[i]
      BY <1>8 DEF l
  <2>4. QED
      BY <2>2, <2>3
<1>11. QED
    BY <1>10 DEF x, y, v, w, AppendsBehind

(* A statement without parameters. *)
LEMMA StatementRead ==
    ASSUME AstInv, NEW f, NEW b, Reading(f, b), ParseLabelOrString
    PROVE  Accepted(f, ast', read')
<1> DEFINE n == read + 1
           token == source[n]
           s == JoinedTo(f, read)
<1>1. /\ source \in Seq(Token) /\ Len(source) \in Nat /\ read \in Nat
      /\ read <= Len(source) /\ b \in Nat /\ b <= read
      /\ Within(b, read) /\ s \in Seq(Node)
      /\ \A i \in 1 .. Len(source) :
            i \in Ends <=> Is(source[i], "end_of_line")
      /\ Ends \subseteq 1 .. Len(source) + 1
    BY ReadingTypes DEF Reading
<1>2. /\ n \in 1 .. Len(source) /\ Statement(token) /\ read' = n
      /\ ast' = Append(ast, token) /\ token \in Token
    BY <1>1 DEF ParseLabelOrString, TokenIs, Statement
<1>3. n \notin Ends
    BY <1>1, <1>2, TokenKinds
<1> HIDE DEF token
<1>4. Within(b, n)
  <2>1. \A x \in Ends : x <= n => x <= read
      BY <1>1, <1>2, <1>3
  <2>2. \A i \in b + 1 .. n : i \in b + 1 .. read \/ i = n
      BY <1>1
  <2>3. \A i \in b + 1 .. n : Statement(source[i])
      BY <1>1, <1>2, <2>2 DEF Within, token
  <2>4. b \in 0 .. n
      BY <1>1
  <2>5. QED
      BY <1>1, <2>1, <2>3, <2>4 DEF Within
<1>5. JoinedTo(f, n) = s
  <2>1. n - 1 = read /\ n \in 1 .. Len(source) + 1
      BY <1>1, <1>2
  <2>2. QED
      BY <1>1, <1>3, <2>1, NodesJoined DEF Reading
<1>6. ast' = s \o SubSeq(source, b + 1, n)
  <2>1. ast = s \o SubSeq(source, b + 1, read)
      BY DEF Reading
  <2> DEFINE t == SubSeq(source, b + 1, read)
  <2>2. t \in Seq(Token) /\ SubSeq(source, b + 1, n) = Append(t, token)
      BY <1>1, <1>2 DEF token
  <2> HIDE DEF s, t
  <2>3. s \in Seq(Node)
      BY <1>1
  <2>4. Append(s \o t, token) = s \o Append(t, token)
    <3>1. t \in Seq(Token) /\ token \in Token
        BY <1>2, <2>2
    <3>2. AppendsBehind(s, t, token)
        BY <2>3, <3>1, AppendBehind, Zenon
    <3>3. QED
        BY <3>2 DEF AppendsBehind
  <2>5. QED
      BY <1>2, <2>1, <2>2, <2>4 DEF t
<1>7. QED
    BY <1>1, <1>2, <1>4, <1>5, <1>6 DEF Accepted, Reading

(* The second of two sequences, in what they are joined to. *)
LEMMA SecondHalf ==
    ASSUME NEW T, NEW U, NEW s \in Seq(T), NEW t \in Seq(U),
           NEW w, w = s \o t
    PROVE  \A i \in 1 .. Len(t) : /\ t[i] = w[Len(s) + i]
                                  /\ Len(s) + i \in 1 .. Len(w)
<1>1. Len(s) \in Nat /\ Len(t) \in Nat /\ Len(w) = Len(s) + Len(t)
    OBVIOUS
<1>2. \A i \in 1 .. Len(t) : t[i] = w[Len(s) + i]
    OBVIOUS
<1>3. \A i \in 1 .. Len(t) : Len(s) + i \in 1 .. Len(w)
    BY <1>1
<1>4. QED
    BY <1>2, <1>3

(* The end of a line of statements. *)
LEMMA LineDone ==
    ASSUME AstInv, NEW f, NEW b, Reading(f, b), read + 1 \in Ends
    PROVE  /\ WellFormed(Line(read + 1)) /\ JoinedTo(f, read + 1) = ast
           /\ \A x \in Ends : x <= read + 1 => WellFormed(Line(x))
<1> DEFINE n == read + 1
           s == JoinedTo(f, read)
           t == Line(n)
<1>1. /\ source \in Seq(Token) /\ Len(source) \in Nat /\ read \in Nat
      /\ read <= Len(source) /\ b \in Nat /\ b <= read
      /\ Within(b, read) /\ s \in Seq(Node) /\ ast \in Seq(Node)
      /\ Ends \subseteq 1 .. Len(source) + 1
    BY ReadingTypes DEF Reading, AstInv
<1>2. n \in 1 .. Len(source) + 1 /\ n - 1 = read
    BY <1>1
<1>3. /\ t = SubSeq(source, b + 1, read) /\ t \in Seq(Token)
      /\ WellFormed(t) /\ NodesOf(t) = t
  <2>1. read < n /\ \A x \in Ends : x < n => x <= read
      BY <1>1
  <2>2. /\ t = SubSeq(source, b + 1, n - 1)
        /\ t \in Seq(Token) /\ Len(t) = n - 1 - b
        /\ \A i \in 1 .. read - b : Statement(t[i])
      BY <1>1, <1>2, <2>1, LineAhead
  <2>3. \A i \in 1 .. Len(t) : Statement(t[i])
      BY <1>2, <2>2
  <2>4. QED
      BY <1>2, <2>2, <2>3, StatementLine
<1>4. JoinedTo(f, n) = ast
  <2>1. ast = s \o t
      BY <1>3 DEF Reading
  <2>2. t \in Seq(Node)
    <3> HIDE DEF t, s
    <3>1. \A i \in 1 .. Len(t) : /\ t[i] = ast[Len(s) + i]
                                 /\ Len(s) + i \in 1 .. Len(ast)
        BY <1>1, <1>3, <2>1, SecondHalf
    <3>2. \A i \in 1 .. Len(t) : t[i] \in Node
        BY <1>1, <3>1
    <3>3. t \in Seq(Token)
        BY <1>3
    <3>4. Len(t) \in Nat /\ t = [i \in 1 .. Len(t) |-> t[i]]
        BY <3>3
    <3>5. [i \in 1 .. Len(t) |-> t[i]] \in Seq(Node)
        BY <3>2, <3>4
    <3>6. QED
        BY <3>4, <3>5
  <2>3. JoinedTo(f, n) = s \o NodesOf(t)
      BY <1>1, <1>2, <1>3, <2>2, NodesJoined DEF Reading
  <2>4. QED
      BY <1>3, <2>1, <2>3
<1>5. \A x \in Ends : x <= n => WellFormed(Line(x))
  <2>1. \A x \in Ends : x <= n => x = n \/ x <= read
      BY <1>1
  <2>2. QED
      BY <1>1, <1>3, <2>1 DEF Within
<1>6. QED
    BY <1>3, <1>4, <1>5

(* So the parser comes to the next line. *)
LEMMA EndRead ==
    ASSUME AstInv, NEW f, NEW b, Reading(f, b), ParseEndOfLine
    PROVE  Accepted(f, ast', read')
<1> DEFINE n == read + 1
<1>1. /\ source \in Seq(Token) /\ Len(source) \in Nat /\ read \in Nat
      /\ ast \in Seq(Node)
      /\ \A i \in 1 .. Len(source) :
            i \in Ends <=> Is(source[i], "end_of_line")
    BY ReadingTypes DEF Reading, AstInv
<1>2. /\ n \in 1 .. Len(source) /\ n \in Ends /\ read' = n /\ ast' = ast
    BY <1>1 DEF ParseEndOfLine, TokenIs
<1>3. /\ JoinedTo(f, n) = ast
      /\ \A x \in Ends : x <= n => WellFormed(Line(x))
    BY <1>2, LineDone
<1>4. Within(n, n)
  <2>1. n \in 0 .. n /\ \A i \in n + 1 .. n : FALSE
      BY <1>1
  <2>2. QED
      BY <1>2, <1>3, <2>1 DEF Within
<1>5. ast = ast \o SubSeq(source, n + 1, n)
  <2>1. SubSeq(source, n + 1, n) = << >>
      BY <1>1, <1>2
  <2>2. QED
      BY <1>1, <2>1
<1>6. QED
    BY <1>1, <1>2, <1>3, <1>4, <1>5 DEF Accepted, Reading

(* The operation that a token names takes none to two parameters. *)
LEMMA ParametersCount ==
    ASSUME NEW op \in ToSet(OpTable)
    PROVE  ParametersOf(op) \in {0, 1, 2}
<1>1. opcode_from_name(op) \in Nat
    BY OpcodeOfName
<1>2. QED
    BY <1>1, ParamCount DEF ParametersOf

(* An instruction with what it takes, up to the end of its line. *)
LEMMA InstructionRead ==
    ASSUME AstInv, NEW f, NEW b, Reading(f, b), ParseInstruction,
           Unfit(source[read + 1].opcode) = {}
    PROVE  Accepted(f, ast', read')
<1> DEFINE n == read + 1
           token == source[n]
           op == token.opcode
           count == ParametersOf(op)
           e == n + count + 1
           s == JoinedTo(f, read)
           t == SubSeq(source, b + 1, read)
           node == read_instruction(op)
<1>1. /\ source \in Seq(Token) /\ Len(source) \in Nat /\ read \in Nat
      /\ read <= Len(source) /\ b \in Nat /\ b <= read
      /\ Within(b, read) /\ s \in Seq(Node) /\ ast \in Seq(Node)
      /\ \A i \in 1 .. Len(source) :
            i \in Ends <=> Is(source[i], "end_of_line")
      /\ \A i \in 1 .. Len(source) : source[i] \in Token
      /\ Ends \subseteq 1 .. Len(source) + 1 /\ Len(source) + 1 \in Ends
    BY ReadingTypes DEF Reading, AstInv
<1>2. /\ n \in 1 .. Len(source) /\ Is(token, "opcode") /\ n - 1 = read
      /\ read' = ReadTo(op) /\ ast' = Append(ast, node)
    BY <1>1 DEF ParseInstruction, TokenIs
<1>3. op \in ToSet(OpTable) /\ n \notin Ends
    BY <1>1, <1>2, TokenKinds
<1>4. count \in {0, 1, 2} /\ count \in Nat
    BY <1>3, ParametersCount
<1>5. /\ \A i \in 1 .. count : IsParameter(n + i)
      /\ e > Len(source) \/ TokenIs(e, "end_of_line")
  <2>1. Unfit(op) = {}
      OBVIOUS
  <2> HIDE DEF op
  <2>2. \A i \in 1 .. count : IsParameter(read + 1 + i)
      BY <1>4, <2>1 DEF Unfit
  <2>3. \/ read + 1 + (count + 1) > Len(source)
        \/ TokenIs(read + 1 + (count + 1), "end_of_line")
    <3>1. count + 1 \in 1 .. count + 1 /\ ~(count + 1 <= count)
        BY <1>4
    <3>2. ~ /\ read + 1 + (count + 1) <= Len(source)
            /\ ~TokenIs(read + 1 + (count + 1), "end_of_line")
        BY <2>1, <3>1 DEF Unfit
    <3>3. QED
        BY <1>1, <1>4, <3>2
  <2>4. read + 1 + (count + 1) = e
      BY <1>1, <1>4
  <2>5. QED
      BY <2>2, <2>3, <2>4
<1> HIDE DEF op
<1>6. \A i \in 1 .. count :
          /\ n + i \in 1 .. Len(source) /\ n + i \notin Ends
          /\ Parameters \cap DOMAIN source[n + i] # {}
  <2>1. \A i \in 1 .. count :
            /\ n + i <= Len(source)
            /\ Parameters \cap DOMAIN source[n + i] # {}
      BY <1>5 DEF IsParameter, TokenIs, Is
  <2>2. \A i \in 1 .. count : n + i \in 1 .. Len(source)
      BY <1>1, <1>4, <2>1
  <2>3. QED
      BY <1>1, <2>1, <2>2, TokenKinds
<1>7. n + count <= Len(source)
  <2>1. CASE count = 0
      BY <1>1, <1>2, <2>1
  <2>2. CASE count # 0
    <3>1. count \in 1 .. count
        BY <1>4, <2>2
    <3>2. n + count \in 1 .. Len(source)
        BY <1>6, <3>1
    <3>3. QED
        BY <1>1, <3>2
  <2>3. QED
      BY <2>1, <2>2
<1> HIDE DEF count
<1>8. e \in Ends /\ e \in Nat /\ read < e /\ e \in 1 .. Len(source) + 1
  <2>1. e \in Nat /\ read < e /\ e \in 1 .. Len(source) + 1
      BY <1>1, <1>4, <1>7
  <2>2. CASE e > Len(source)
    <3>1. e = Len(source) + 1
        BY <1>1, <2>1, <2>2
    <3>2. QED
        BY <1>1, <2>1, <3>1
  <2>3. CASE TokenIs(e, "end_of_line")
    <3>1. e \in 1 .. Len(source)
        BY <1>1, <2>1, <2>3 DEF TokenIs
    <3>2. QED
        BY <1>1, <2>1, <2>3, <3>1 DEF TokenIs
  <2>4. QED
      BY <1>5, <2>2, <2>3
<1>9. \A x \in Ends : x < e => x <= read
  <2> SUFFICES ASSUME NEW x \in Ends, x < e, ~(x <= read)
               PROVE  FALSE
      OBVIOUS
  <2>1. x \in Nat /\ x >= n /\ x <= n + count
      BY <1>1, <1>4
  <2>2. x = n \/ (x - n \in 1 .. count /\ n + (x - n) = x)
      BY <1>1, <1>4, <2>1
  <2>3. QED
      BY <1>3, <1>6, <2>2
<1>10. /\ Line(e) = SubSeq(source, b + 1, e - 1)
       /\ Line(e) \in Seq(Token) /\ Len(Line(e)) = e - 1 - b
       /\ \A i \in 1 .. e - 1 - b : Line(e)[i] = source[b + i]
       /\ \A i \in 1 .. read - b : Statement(Line(e)[i])
    BY <1>1, <1>8, <1>9, LineAhead
<1> DEFINE line == Line(e)
           i0 == n - b
<1>11. /\ i0 \in Nat /\ i0 \in 1 .. Len(line) /\ b + i0 = n
       /\ i0 - 1 = read - b /\ Len(line) = i0 + count
       /\ \A k \in 1 .. count : /\ i0 + k \in 1 .. e - 1 - b
                                /\ b + (i0 + k) = n + k
  <2>1. i0 \in Nat /\ i0 >= 1 /\ b + i0 = n /\ i0 - 1 = read - b
      BY <1>1
  <2>2. e - 1 - b = i0 + count
      BY <1>1, <1>4
  <2>3. Len(line) = i0 + count
      BY <1>10, <2>2
  <2>4. \A k \in 1 .. count : b + (i0 + k) = n + k
      BY <1>1, <1>4
  <2> HIDE DEF line, i0, e
  <2>5. /\ i0 \in 1 .. Len(line)
        /\ \A k \in 1 .. count : i0 + k \in 1 .. e - 1 - b
      BY <1>4, <2>1, <2>2, <2>3
  <2>6. QED
      BY <2>1, <2>3, <2>4, <2>5
<1>12. line[i0] = token /\ \A k \in 1 .. count : line[i0 + k] = source[n + k]
  <2>1. i0 \in 1 .. e - 1 - b
      BY <1>10, <1>11
  <2> HIDE DEF e, i0
  <2>2. QED
      BY <1>10, <1>11, <2>1
<1>13. \A j \in i0 + 1 .. Len(line) : Parameters \cap DOMAIN line[j] # {}
  <2> SUFFICES ASSUME NEW j \in i0 + 1 .. Len(line)
               PROVE  Parameters \cap DOMAIN line[j] # {}
      OBVIOUS
  <2> HIDE DEF line, i0
  <2>1. j - i0 \in 1 .. count /\ i0 + (j - i0) = j
      BY <1>4, <1>11
  <2>2. QED
      BY <1>6, <1>12, <2>1
<1> DEFINE p(k) == IF k <= count THEN read_parameter(line[i0 + k]) ELSE None
<1>14. /\ WellFormed(line)
       /\ NodesOf(line) = Append(SubSeq(line, 1, i0 - 1), Op2(op, p(1), p(2)))
  <2>1. /\ line \in Seq(Token) /\ Is(line[i0], "opcode")
        /\ \A j \in 1 .. i0 - 1 : Statement(line[j])
        /\ line[i0].opcode = op /\ count = ParametersOf(line[i0].opcode)
      BY <1>2, <1>10, <1>11, <1>12 DEF op, count
  <2> HIDE DEF line, i0
  <2>2. QED
      BY <1>4, <1>11, <1>13, <2>1, InstructionLine
<1>15. Op2(op, p(1), p(2)) = node
  <2>1. \A k \in {1, 2} : p(k) = IF k <= count
                                THEN read_parameter(source[n + k])
                                ELSE Literal(Unused, 0)
    <3>1. \A k \in {1, 2} : k <= count => k \in 1 .. count
        BY <1>4
    <3>2. None = Literal(Unused, 0)
        BY DEF None, Param, Literal
    <3> HIDE DEF line, i0
    <3>3. QED
        BY <1>12, <3>1, <3>2
  <2> HIDE DEF p
  <2>2. QED
      BY <2>1 DEF Op2, read_instruction, count
<1>16. SubSeq(line, 1, i0 - 1) = t
  <2> DEFINE u == SubSeq(line, 1, i0 - 1)
  <2>1. /\ u \in Seq(Token) /\ t \in Seq(Token)
        /\ Len(u) = read - b /\ Len(t) = read - b
        /\ \A i \in 1 .. read - b : u[i] = line[i]
        /\ \A i \in 1 .. read - b : t[i] = source[b + i]
    <3>1. 1 \in 1 .. 1 /\ i0 - 1 <= Len(line) /\ i0 - 1 = read - b
          /\ line \in Seq(Token)
        BY <1>1, <1>4, <1>10, <1>11
    <3>2. \A i \in 1 .. read - b : b + 1 + i - 1 = b + i
        BY <1>1
    <3>3. t \in Seq(Token) /\ Len(t) = read - b
          /\ \A i \in 1 .. read - b : t[i] = source[b + i]
        BY <1>1, <3>2
    <3> HIDE DEF line, i0, t
    <3>4. u \in Seq(Token) /\ Len(u) = read - b
          /\ \A i \in 1 .. read - b : u[i] = line[i]
        BY <1>1, <3>1
    <3>5. QED
        BY <3>3, <3>4
  <2>2. \A i \in 1 .. read - b : line[i] = source[b + i]
    <3>1. \A i \in 1 .. read - b : i \in 1 .. e - 1 - b
        BY <1>1, <1>8
    <3>2. QED
        BY <1>10, <3>1
  <2> HIDE DEF u, t, line
  <2>3. u = t
      BY <2>1, <2>2
  <2>4. QED
      BY <2>3 DEF u
<1> DEFINE before == JoinedTo(f, e - 1)
<1>17. before = s
  <2>1. \A x \in Ends : ~(x \in read + 1 .. e - 1)
      BY <1>1, <1>8, <1>9
  <2>2. e - 1 \in read .. Len(source) + 1
      BY <1>1, <1>8
  <2> HIDE DEF e
  <2>3. QED
      BY <1>1, <2>1, <2>2, NothingJoined DEF Reading
<1>18. ast' = (s \o t) \o << node >> /\ t \in Seq(Token)
       /\ ast = s \o t /\ s \in Seq(Node)
  <2>1. ast = s \o t /\ t \in Seq(Token)
      BY <1>1 DEF Reading
  <2>2. s \in Seq(Node) /\ ast' = ast \o << node >>
      BY <1>1, <1>2
  <2> HIDE DEF s, t, node
  <2>3. QED
      BY <2>1, <2>2
<1>19. ast' \in Seq(Node)
    BY <1>1, AstStep DEF AstInv, ParseNode
<1>20. NodesOf(line) = Append(t, node)
    BY <1>14, <1>15, <1>16
<1>21. ast' = s \o NodesOf(line) /\ NodesOf(line) \in Seq(Node)
  <2> DEFINE v == Append(t, node)
             both == Token \cup {node}
  <2> HIDE DEF s, t, node, line
  <2>0. t \in Seq(both) /\ node \in both
    <3>1. Token \subseteq both
        OBVIOUS
    <3> HIDE DEF both
    <3>2. t \in Seq(both)
        BY <1>18, <3>1
    <3>3. QED
        BY <3>2 DEF both
  <2> HIDE DEF both
  <2>1. v \in Seq(both) /\ ast' = s \o v
      BY <1>18, <2>0
  <2> HIDE DEF v
  <2>2. s \in Seq(Node)
      BY <1>18
  <2>3. \A i \in 1 .. Len(v) :
            v[i] = ast'[Len(s) + i] /\ Len(s) + i \in 1 .. Len(ast')
      BY <2>1, <2>2, SecondHalf
  <2>4. \A i \in 1 .. Len(v) : v[i] \in Node
      BY <1>19, <2>3
  <2>5. v \in Seq(Node)
      BY <2>1, <2>4
  <2>6. QED
      BY <1>20, <2>1, <2>5 DEF v
<1>22. JoinedTo(f, e) = ast'
  <2> HIDE DEF e
  <2>1. JoinedTo(f, e) = before \o NodesOf(line)
      BY <1>1, <1>8, <1>17, <1>21, NodesJoined DEF Reading
  <2>2. QED
      BY <1>17, <1>21, <2>1
<1>23. /\ \A x \in Ends : x <= e => WellFormed(Line(x))
  <2>1. \A x \in Ends : x <= e => x = e \/ x <= read
      BY <1>1, <1>8, <1>9
  <2>2. \A x \in Ends : x <= read => WellFormed(Line(x))
      BY <1>1 DEF Within
  <2>3. QED
      BY <1>14, <2>1, <2>2
<1>24. read' = IF e <= Len(source) THEN e ELSE Len(source)
  <2>1. read + 1 + (count + 1) = e
      BY <1>1, <1>4
  <2>2. read + 1 + (IF Unfit(op) = {} THEN ParametersOf(op) + 1
                    ELSE Min(Unfit(op))) = read + 1 + (count + 1)
      BY DEF op, count
  <2> HIDE DEF e
  <2>3. ReadTo(op) = IF e <= Len(source) THEN e ELSE Len(source)
      BY <2>1, <2>2 DEF ReadTo
  <2>4. QED
      BY <1>2, <2>3
<1>25. CASE e <= Len(source)
  <2>1. read' = e
      BY <1>24, <1>25
  <2>2. Within(e, e)
    <3>1. e \in 0 .. e /\ \A i \in e + 1 .. e : FALSE
        BY <1>8
    <3>2. QED
        BY <1>8, <1>23, <3>1 DEF Within
  <2>3. ast' = ast' \o SubSeq(source, e + 1, e)
    <3>1. SubSeq(source, e + 1, e) = << >>
        BY <1>1, <1>8
    <3>2. \A q \in Seq(Node) : q = q \o << >>
        OBVIOUS
    <3> HIDE DEF e
    <3>3. QED
        BY <1>19, <3>1, <3>2
  <2>4. QED
      BY <1>19, <1>22, <2>1, <2>2, <2>3 DEF Accepted, Reading
<1>26. CASE ~(e <= Len(source))
  <2>1. e = Len(source) + 1 /\ read' = Len(source)
      BY <1>1, <1>8, <1>24, <1>26
  <2>2. AllWellFormed
      BY <1>1, <1>23, <2>1 DEF AllWellFormed
  <2>3. f[e] = ast'
      BY <1>8, <1>22 DEF JoinedTo
  <2>4. QED
      BY <2>1, <2>2, <2>3 DEF Accepted, Reading
<1>27. QED
    BY <1>25, <1>26

(* The line the parser is in has an end. *)
LEMMA NextEnd ==
    ASSUME AstInv, NEW b, Within(b, read)
    PROVE  \E e \in Ends : /\ read < e
                           /\ \A x \in Ends : x < e => x <= read
<1> DEFINE T == {x \in Ends : read < x}
<1>1. /\ read \in Nat /\ Len(source) \in Nat /\ read <= Len(source)
      /\ Ends \subseteq 1 .. Len(source) + 1 /\ Len(source) + 1 \in Ends
    BY ReadingTypes
<1>2. T \subseteq Nat /\ Len(source) + 1 \in T
  <2>1. \A x \in Ends : x \in Nat
      BY <1>1
  <2>2. read < Len(source) + 1
      BY <1>1
  <2>3. QED
      BY <1>1, <2>1, <2>2
<1>3. T # {}
    BY <1>2
<1> HIDE DEF T
<1>4. PICK e \in T : \A y \in T : e <= y
    BY <1>2, <1>3, LeastElement
<1>5. e \in Ends /\ read < e /\ e \in Nat
    BY <1>2, <1>4 DEF T
<1>6. \A x \in Ends : x < e => x <= read
  <2> SUFFICES ASSUME NEW x \in Ends, x < e, ~(x <= read)
               PROVE  FALSE
      OBVIOUS
  <2>1. x \in T /\ x \in Nat
      BY <1>1 DEF T
  <2>2. QED
      BY <1>4, <1>5, <2>1
<1>7. QED
    BY <1>5, <1>6

(* Where the parser finds an error, the line is not one of the language. *)
LEMMA ErrorRead ==
    ASSUME AstInv, NEW f, NEW b, Reading(f, b),
           \/ ParseInstruction /\ Unfit(source[read + 1].opcode) # {}
           \/ ParseUnexpected
    PROVE  ~AllWellFormed
<1> DEFINE n == read + 1
           token == source[n]
           i0 == n - b
<1>1. /\ source \in Seq(Token) /\ Len(source) \in Nat /\ read \in Nat
      /\ read <= Len(source) /\ b \in Nat /\ b <= read /\ Within(b, read)
      /\ \A i \in 1 .. Len(source) :
            i \in Ends <=> Is(source[i], "end_of_line")
      /\ \A i \in 1 .. Len(source) : source[i] \in Token
      /\ Ends \subseteq 1 .. Len(source) + 1
    BY ReadingTypes DEF Reading
<1>2. PICK e \in Ends : read < e /\ \A x \in Ends : x < e => x <= read
    BY <1>1, NextEnd
<1>3. n \in 1 .. Len(source) /\ ~Is(token, "end_of_line") /\ ~Statement(token)
  <2>1. CASE ParseInstruction
    <3>1. n \in 1 .. Len(source) /\ Is(token, "opcode")
        BY <1>1, <2>1 DEF ParseInstruction, TokenIs
    <3>2. QED
        BY <1>1, <3>1, TokenKinds
  <2>2. CASE ParseUnexpected
      BY <1>1, <2>2 DEF ParseUnexpected, Statements, TokenIs, Statement
  <2>3. QED
      BY <2>1, <2>2
<1>4. e # n /\ e \in Nat /\ n < e
    BY <1>1, <1>2, <1>3
<1> DEFINE line == Line(e)
<1>5. /\ line \in Seq(Token) /\ Len(line) = e - 1 - b
      /\ \A i \in 1 .. e - 1 - b : line[i] = source[b + i]
      /\ \A i \in 1 .. read - b : Statement(line[i])
    BY <1>1, <1>2, LineAhead
<1>6. /\ i0 \in 1 .. e - 1 - b /\ b + i0 = n /\ i0 - 1 = read - b
      /\ i0 \in Nat
    BY <1>1, <1>4
<1>7. line[i0] = token
    BY <1>5, <1>6
<1> HIDE DEF line, token, i0
<1>8. i0 \in 1 .. Len(line)
    BY <1>5, <1>6
<1>9. SUFFICES ASSUME WellFormed(line)
               PROVE  FALSE
    BY <1>2 DEF AllWellFormed, line
<1>10. /\ Is(token, "opcode") /\ Len(line) = i0 + ParametersOf(token.opcode)
       /\ \A j \in i0 + 1 .. Len(line) : Parameters \cap DOMAIN line[j] # {}
  <2>1. ~Statement(line[i0]) /\ \A j \in 1 .. i0 - 1 : Statement(line[j])
      BY <1>3, <1>5, <1>6, <1>7
  <2>2. QED
      BY <1>5, <1>7, <1>8, <1>9, <2>1, OtherLine
<1>11. CASE ParseUnexpected
  <2>1. ~TokenIs(n, "opcode")
      BY <1>11 DEF ParseUnexpected, Statements
  <2>2. QED
      BY <1>1, <1>3, <1>10, <2>1 DEF TokenIs, token
<1>12. CASE Unfit(token.opcode) # {}
  <2> DEFINE op == token.opcode
             count == ParametersOf(op)
  <2>1. op \in ToSet(OpTable)
      BY <1>1, <1>3, <1>10, TokenKinds DEF token
  <2>2. count \in {0, 1, 2}
      BY <2>1, ParametersCount
  <2>3. e = n + count + 1
    <3>1. e - 1 - b = i0 + count /\ b + i0 = n
        BY <1>5, <1>6, <1>10
    <3> HIDE DEF count
    <3>2. QED
        BY <1>1, <1>4, <1>6, <2>2, <3>1
  <2>4. \A i \in 1 .. count : IsParameter(read + 1 + i)
    <3> SUFFICES ASSUME NEW i \in 1 .. count
                 PROVE  IsParameter(read + 1 + i)
        OBVIOUS
    <3> HIDE DEF count, op
    <3>1. /\ i0 + i \in i0 + 1 .. e - 1 - b /\ i0 + i \in 1 .. e - 1 - b
          /\ b + (i0 + i) = n + i /\ n + i <= Len(source)
        BY <1>1, <1>4, <1>6, <2>2, <2>3
    <3>2. /\ Parameters \cap DOMAIN line[i0 + i] # {}
          /\ line[i0 + i] = source[n + i]
        BY <1>5, <1>10, <3>1
    <3>3. QED
        BY <3>1, <3>2 DEF IsParameter, TokenIs, Is
  <2>5. \/ read + 1 + (count + 1) > Len(source)
        \/ TokenIs(read + 1 + (count + 1), "end_of_line")
    <3>1. read + 1 + (count + 1) = e
        BY <1>1, <2>2, <2>3
    <3>2. e \in Nat /\ e >= 1
        BY <1>4, <1>1
    <3> HIDE DEF count
    <3>3. e <= Len(source) => TokenIs(e, "end_of_line")
        BY <1>1, <1>2, <3>2 DEF TokenIs
    <3>4. QED
        BY <1>1, <3>1, <3>2, <3>3
  <2> DEFINE last == read + 1 + (count + 1)
  <2>6. last \in Nat /\ (~(last > Len(source)) <=> last <= Len(source))
      BY <1>1, <2>2
  <2> HIDE DEF op
  <2>7. \A i \in 1 .. count + 1 :
            i \in 1 .. count \/ (i = count + 1 /\ ~(i <= count))
      BY <2>2
  <2>8. Unfit(op) = {}
    <3> SUFFICES ASSUME NEW i \in Unfit(op)
                 PROVE  FALSE
        OBVIOUS
    <3>1. /\ i \in 1 .. count + 1
          /\ IF i <= count THEN ~IsParameter(read + 1 + i)
             ELSE /\ read + 1 + i <= Len(source)
                  /\ ~TokenIs(read + 1 + i, "end_of_line")
        BY DEF Unfit
    <3>2. CASE i \in 1 .. count
      <4>1. i <= count
          BY <2>2, <3>2
      <4>2. QED
          BY <2>4, <3>1, <3>2, <4>1
    <3>3. CASE i = count + 1 /\ ~(i <= count)
        BY <2>5, <2>6, <3>1, <3>3
    <3>4. QED
        BY <2>7, <3>1, <3>2, <3>3
  <2>9. QED
      BY <1>12, <2>8 DEF op
<1>13. QED
    BY <1>11, <1>12 DEF token

(* The lines are those of the source, which stays. *)
LEMMA LinesStay ==
    ASSUME source' = source
    PROVE  /\ Ends' = Ends /\ Nodes' = Nodes
           /\ AllWellFormed' = AllWellFormed
           /\ \A n : Line(n)' = Line(n)
<1>1. Ends' = Ends
    BY DEF Ends
<1>2. ASSUME NEW n
      PROVE  Line(n)' = Line(n)
    BY <1>1 DEF Line
<1>3. Nodes' = Nodes
    BY <1>1, <1>2 DEF Nodes
<1>4. AllWellFormed' = AllWellFormed
    BY <1>1, <1>2 DEF AllWellFormed
<1>5. QED
    BY <1>1, <1>2, <1>3, <1>4

(* What is accepted depends on the source only by the lines. *)
LEMMA AcceptedStays ==
    ASSUME source' = source, NEW f, Accepted(f, ast', read')
    PROVE  Accepted(f, ast, read)'
<1>1. /\ Ends' = Ends /\ Nodes' = Nodes /\ AllWellFormed' = AllWellFormed
      /\ \A n : Line(n)' = Line(n)
    BY LinesStay
<1>2. ASSUME NEW b, Within(b, read')
      PROVE  Within(b, read)'
    BY <1>1, <1>2 DEF Within
<1>3. QED
    BY <1>1, <1>2 DEF Accepted

(* Every iteration of parse keeps this. *)
LEMMA ParsedNode ==
    ASSUME AstInv, ParsedInv, ParseNode
    PROVE  ParsedInv'
<1>1. source' = source
    BY DEF ParseNode, ParseInstruction, ParseLabelOrString, ParseEndOfLine,
           ParseUnexpected
<1>2. AllWellFormed' = AllWellFormed
    BY <1>1, LinesStay
<1>3. CASE parser_error
  <2>1. parser_error'
      BY <1>3 DEF ParseNode, ParseInstruction, ParseLabelOrString,
                  ParseEndOfLine, ParseUnexpected
  <2>2. QED
      BY <1>2, <1>3, <2>1 DEF ParsedInv
<1>4. CASE ~parser_error
  <2>1. PICK f : Accepted(f, ast, read)
      BY <1>4 DEF ParsedInv
  <2>2. read # Len(source)
      BY ParseNeedsToken DEF AstInv, AtEnd
  <2>3. PICK b : Reading(f, b)
      BY <2>1, <2>2 DEF Accepted, Reading
  <2>4. CASE \/ ParseLabelOrString \/ ParseEndOfLine
             \/ ParseInstruction /\ Unfit(source[read + 1].opcode) = {}
    <3>1. Accepted(f, ast', read')
        BY <2>3, <2>4, StatementRead, EndRead, InstructionRead
    <3>2. ~parser_error'
        BY <1>4, <2>4 DEF ParseLabelOrString, ParseEndOfLine, ParseInstruction
    <3>3. Accepted(f, ast, read)'
        BY <1>1, <3>1, AcceptedStays
    <3>4. QED
        BY <3>2, <3>3 DEF ParsedInv
  <2>5. CASE \/ ParseInstruction /\ Unfit(source[read + 1].opcode) # {}
             \/ ParseUnexpected
    <3>1. ~AllWellFormed
        BY <2>3, <2>5, ErrorRead
    <3>2. parser_error'
        BY <2>5 DEF ParseInstruction, ParseUnexpected
    <3>3. QED
        BY <1>2, <3>1, <3>2 DEF ParsedInv
  <2>6. QED
      BY <2>4, <2>5 DEF ParseNode
<1>5. QED
    BY <1>3, <1>4

(* No other step has to do with the parser. *)
LEMMA ParsedNext ==
    ASSUME AstInv, ParsedInv, [Next]_vars
    PROVE  ParsedInv'
<1>1. CASE Parse
    BY <1>1, ParsedNode DEF Parse
<1>2. CASE ~Parse
  <2>1. UNCHANGED <<source, read, ast, parser_error>>
      BY <1>2 DEF Next, Work, Enter, Parsed, Pass, Return, vars, parser
  <2>2. AllWellFormed' = AllWellFormed
      BY <2>1, LinesStay
  <2>3. CASE parser_error
      BY <2>1, <2>2, <2>3 DEF ParsedInv
  <2>4. CASE ~parser_error
    <3>1. PICK f : Accepted(f, ast, read)
        BY <2>4 DEF ParsedInv
    <3>2. Accepted(f, ast', read')
        BY <2>1, <3>1
    <3>3. Accepted(f, ast, read)'
        BY <2>1, <3>2, AcceptedStays
    <3>4. QED
        BY <2>1, <2>4, <3>3 DEF ParsedInv
  <2>5. QED
      BY <2>3, <2>4
<1>3. QED
    BY <1>1, <1>2

(* Before the first token no line has begun. *)
LEMMA ParsedInit == Init => ParsedInv
<1> SUFFICES ASSUME Init
             PROVE  ParsedInv
    OBVIOUS
<1>1. /\ source \in Seq(Token) /\ read = 0 /\ ast = << >>
      /\ ~parser_error
    BY SourceAssumption DEF Init, ParserInit
<1>2. Len(source) \in Nat /\ Len(Nodes) = Len(source) + 1
    BY <1>1 DEF Nodes
<1>3. PICK f : /\ Joins(f, Nodes, Len(source) + 1)
               /\ FlattenSeq(Nodes) = f[Len(source) + 1]
  <2>1. Len(Nodes) \in Nat \ {0}
      BY <1>2
  <2>2. QED
      BY <1>2, <2>1, FlattenJoins
<1>4. Within(0, 0)
  <2>1. \A x \in Ends : x >= 1 /\ x \in Nat
      BY <1>2 DEF Ends
  <2>2. \A i \in 0 + 1 .. 0 : FALSE
      OBVIOUS
  <2>3. QED
      BY <2>1, <2>2 DEF Within
<1>5. JoinedTo(f, 0) = << >> /\ << >> \in Seq(Node)
    BY DEF JoinedTo
<1>6. << >> = << >> \o SubSeq(source, 0 + 1, 0)
    BY <1>1
<1>7. QED
    BY <1>1, <1>3, <1>4, <1>5, <1>6 DEF ParsedInv, Accepted

(* The parser reports an error exactly if some line of the source is not   *)
(* one of the language; else it has the statements of all lines in their   *)
(* order.  So it is for every source, and whatever a host calls, although  *)
(* the parser does not read by lines and goes on behind an error. *)
THEOREM ParserReadsLines == Spec => []ParserAcceptsLines
<1> DEFINE Inv == TypeInv /\ ParsedInv
<1>1. Init => Inv
    BY TypeInit, ParsedInit
<1>2. Inv /\ [Next]_vars => Inv'
    BY TypeNext, ParsedNext DEF TypeInv
<1>3. Inv => ParserAcceptsLines
  <2> SUFFICES ASSUME AstInv, ParsedInv, AtEnd
               PROVE  IF AllWellFormed
                      THEN ~parser_error /\ ast = FlattenSeq(Nodes)
                      ELSE parser_error
      BY DEF ParserAcceptsLines, AllWellFormed, Nodes, TypeInv
  <2>1. CASE parser_error
      BY <2>1 DEF ParsedInv
  <2>2. CASE ~parser_error
    <3>1. PICK f : Accepted(f, ast, read)
        BY <2>2 DEF ParsedInv
    <3>2. CASE AllWellFormed /\ ast = f[Len(source) + 1]
        BY <2>2, <3>1, <3>2 DEF Accepted
    <3>3. CASE \E b : Reading(f, b)
      <4>1. PICK b : Reading(f, b)
          BY <3>3
      <4>2. /\ read + 1 = Len(source) + 1 /\ read + 1 \in Ends
            /\ Ends \subseteq 1 .. Len(source) + 1 /\ Len(source) \in Nat
          BY <4>1, ReadingTypes DEF Reading, AtEnd
      <4>3. /\ JoinedTo(f, read + 1) = ast
            /\ \A x \in Ends : x <= read + 1 => WellFormed(Line(x))
          BY <4>1, <4>2, LineDone
      <4>4. AllWellFormed
          BY <4>2, <4>3 DEF AllWellFormed
      <4>5. f[Len(source) + 1] = ast
          BY <4>2, <4>3 DEF JoinedTo
      <4>6. QED
          BY <2>2, <4>1, <4>4, <4>5 DEF Reading
    <3>4. QED
        BY <3>1, <3>2, <3>3 DEF Accepted, Reading
  <2>3. QED
      BY <2>1, <2>2
<1>4. QED
    BY <1>1, <1>2, <1>3, PTL DEF Spec
=============================================================================
