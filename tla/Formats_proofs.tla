--------------------------- MODULE Formats_proofs ---------------------------
(***************************************************************************)
(* Theorems about the two binary formats: what is written is what is read. *)
(*                                                                         *)
(* Instructions.  The decoder of the cpu inverts the encoder of the        *)
(* assembler, for every width of a byte, every parameter value and every   *)
(* place in every memory.  An instruction is a sequence of up to four      *)
(* parts: the opcode, the modes, and the bytes of each parameter.  The     *)
(* decoder finds each part by the lengths of those before it, and takes    *)
(* four bytes for each parameter, of which it keeps as many as its mode    *)
(* has: ReadBytes says that the bytes behind it, or the end of the memory, *)
(* do not matter.                                                          *)
(*                                                                         *)
(* Rom files.  For every name, description, size and checksum function:    *)
(* what build_header writes is what parse_header reads, a header that was  *)
(* cut off is never accepted, and a title that the fields cannot express   *)
(* is never read.                                                          *)
(***************************************************************************)
EXTENDS Codec, Tx8Rom, Tx8Isa_proofs, SequenceTheorems

-----------------------------------------------------------------------------
(* Instructions and their parts. *)

(* The parameters the parser passes to the assembler, and the one it fills *)
(* the places with that an opcode does not use. *)
ParamSet ==
    {p \in [mode : 0 .. 7, value : WordRange] :
        p.value = p.value % Capacity(param_size(p.mode))}

LEMMA ParamsInSet ==
    /\ None \in ParamSet /\ None.mode = Unused
    /\ \A p \in Params(Modes) : p \in ParamSet /\ p.mode \in 1 .. 7
<1>1. None \in ParamSet /\ None.mode = Unused
  <2>1. Capacity(param_size(0)) = 1
      BY DEF param_size, Capacity, Constant8, Register, RegisterAddress,
             Constant16, AbsoluteAddress, RelativeAddress, Constant32, Label
  <2>2. 0 % 1 = 0 /\ 0 \in WordRange
      BY Widths DEF WordRange
  <2>3. QED
      BY <2>1, <2>2 DEF None, Param, ParamSet, Unused
<1>2. ASSUME NEW m \in Modes, NEW v \in Values
      PROVE  Param(m, v % Capacity(param_size(m))) \in ParamSet
  <2> DEFINE c == Capacity(param_size(m))
  <2>1. v \in Int /\ c \in Nat \ {0} /\ m \in 0 .. 7
      BY CodecAssumption, CapacityRange
         DEF WordRange, Modes, Constant8, RegisterAddress
  <2>2. v % c \in WordRange /\ v % c \in 0 .. c - 1
      BY <2>1, LowBytesType
  <2> DEFINE x == v % c
  <2>3. x % c = x
    <3> HIDE DEF c, x
    <3>1. x \in 0 .. c - 1
        BY <2>2 DEF x
    <3>2. QED
        BY <2>1, <3>1, SmallMod
  <2>4. QED
      BY <2>1, <2>2, <2>3 DEF Param, ParamSet
<1>3. QED
    BY <1>1, <1>2 DEF Params, Param, Modes, Constant8, RegisterAddress

(* Every instruction has the parameters its opcode takes, and no others.   *)
LEMMA InstructionForm ==
    ASSUME NEW x \in Instructions
    PROVE  LET opcode == opcode_from_name(x.op)
               count == param_count(opcode)
           IN  /\ x.op \in ToSet(OpTable)
               /\ count \in {0, 1, 2}
               /\ x = [op |-> x.op, p1 |-> x.p1, p2 |-> x.p2]
               /\ x.p1 \in ParamSet /\ x.p2 \in ParamSet
               /\ count > 0 <=> x.p1.mode # Unused
               /\ count > 1 <=> x.p2.mode # Unused
<1>1. PICK op \in ToSet(OpTable) \ {"inv"} :
        LET count == param_count(opcode_from_name(op))
            first == IF count > 0 THEN Params(Modes) ELSE {None}
            second == IF count > 1 THEN Params(Modes) ELSE {None}
        IN  \E p \in first, q \in second : x = Op2(op, p, q)
    BY DEF Instructions
<1> DEFINE count == param_count(opcode_from_name(op))
<1>2. PICK p \in IF count > 0 THEN Params(Modes) ELSE {None},
           q \in IF count > 1 THEN Params(Modes) ELSE {None} :
        x = Op2(op, p, q)
    BY <1>1
<1>3. x.op = op /\ x.p1 = p /\ x.p2 = q
    BY <1>2 DEF Op2
<1>4. /\ opcode_from_name(op) \in 0 .. 127
      /\ op_function(opcode_from_name(op)) = op
    BY OpcodeOfName
<1>5. count \in {0, 1, 2}
    BY <1>4, ParamCount
<1> HIDE DEF count
<1>6. /\ p \in ParamSet /\ q \in ParamSet
      /\ count > 0 <=> p.mode # Unused
      /\ count > 1 <=> q.mode # Unused
    BY <1>5, ParamsInSet DEF Unused
<1>7. x = [op |-> x.op, p1 |-> x.p1, p2 |-> x.p2]
    BY <1>2 DEF Op2
<1>8. QED
    BY <1>3, <1>4, <1>5, <1>6, <1>7 DEF count

(* They are instructions that the encoder and the decoder agree on, with    *)
(* values that their modes have room for. *)
LEMMA InstructionsTaken ==
    ASSUME NEW x \in Instructions
    PROVE  /\ x \in Encodings
           /\ Read(x.p1) = x.p1 /\ Read(x.p2) = x.p2
<1>1. /\ x.op \in ToSet(OpTable) /\ x.p1 \in ParamSet /\ x.p2 \in ParamSet
      /\ x = [op |-> x.op, p1 |-> x.p1, p2 |-> x.p2]
      /\ ParamsMatch(x)
    BY InstructionForm DEF ParamsMatch
<1>2. /\ x.p1 \in WordParam /\ x.p2 \in WordParam
      /\ Read(x.p1) = x.p1 /\ Read(x.p2) = x.p2
    BY <1>1 DEF ParamSet, WordParam, Read
<1>3. x \in [op : ToSet(OpTable), p1 : WordParam, p2 : WordParam]
    BY <1>1, <1>2
<1>4. QED
    BY <1>1, <1>2, <1>3 DEF Encodings

-----------------------------------------------------------------------------
(* The encoding is chosen once and does not change. *)

LEMMA InitStays == Init /\ [Next]_vars => Init'
BY DEF Init, Next, vars

(* CPU::parse_instruction returns the instruction Assembler::encode was    *)
(* given, with its modes, values and length, at every address the cpu      *)
(* fetches from and whatever bytes surround it: what the programmer wrote  *)
(* is what the cpu executes. *)
THEOREM DecoderInverts == Spec => []DecodeInvertsEncode
<1>1. Init => DecodeInvertsEncode
  <2>1. SUFFICES ASSUME Init PROVE DecodeInvertsEncode
      OBVIOUS
  <2>2. PICK noise \in Noise :
            mem = Placed(write_instruction(instr), pc, noise)
      BY <2>1 DEF Init
  <2>3. instr \in Instructions /\ pc \in 0 .. PC_LIMIT /\ noise \in ByteRange
      BY <2>1, CodecAssumption DEF Init
  <2> DEFINE w == write_instruction(instr)
  <2>4. /\ instr \in Encodings
        /\ Read(instr.p1) = instr.p1 /\ Read(instr.p2) = instr.p2
      BY <2>3, InstructionsTaken
  <2>5. w \in Seq(ByteRange) /\ Len(w) \in 1 .. 10
      BY <2>4, CodecAssumption, InstructionBytes, InstructionLength
  <2>6. pc \in Nat /\ pc + Len(w) <= MEM_SIZE
    <3>1. pc \in Nat /\ pc + 10 < MEM_SIZE
        BY <2>3, CodecAssumption, MemAssumption DEF PC_LIMIT
    <3>2. \A n \in 1 .. 10 : pc + n <= MEM_SIZE
        BY <3>1, MemAssumption
    <3>3. QED
        BY <2>5, <3>1, <3>2
  <2>7. mem \in Memory /\ \A j \in 0 .. Len(w) - 1 : mem[pc + j] = w[j + 1]
      BY <2>2, <2>3, <2>5, <2>6, PlacedBytes
  <2>8. QED
      BY <2>4, <2>6, <2>7, CodecAssumption, Decoded DEF DecodeInvertsEncode
<1>2. QED
    BY <1>1, InitStays, PTL DEF Spec

(* The length the assembler reserves for an instruction in its first pass  *)
(* is the number of bytes it writes in the second one, and never more than *)
(* the cpu leaves room for at the end of the memory: labels are exact.     *)
THEOREM LengthsAgree == Spec => []LengthIsExact
<1>1. Init => LengthIsExact
  <2>1. SUFFICES ASSUME Init PROVE LengthIsExact
      OBVIOUS
  <2>2. instr \in Instructions /\ pc \in 0 .. PC_LIMIT
      BY <2>1, CodecAssumption DEF Init
  <2>3. /\ Len(write_instruction(instr)) \in 1 .. 10
        /\ calculate_instruction_length(instr) = Len(write_instruction(instr))
      BY <2>2, CodecAssumption, InstructionsTaken, InstructionLength
  <2>4. pc + 10 < MEM_SIZE /\ pc \in Nat
      BY <2>2, CodecAssumption, MemAssumption DEF PC_LIMIT
  <2>5. QED
      BY <2>3, <2>4, CodecAssumption, MemAssumption DEF LengthIsExact
<1>2. QED
    BY <1>1, InitStays, PTL DEF Spec

-----------------------------------------------------------------------------
(* The header as it is written, before its checksum is known. *)

Fixed(info) == MAGIC \o LittleEndian(Len(info.name), 1)
                     \o LittleEndian(Len(info.description), 2)
                     \o LittleEndian(info.size, 4)
Plain(info) == Fixed(info)
               \o [i \in 1 .. 1 + UNUSED_BYTES_COUNT |-> 0]
               \o info.name \o info.description

(* build_header writes it with its checksum filled in. *)
LEMMA BuildsPlain ==
    ASSUME NEW info
    PROVE  build_header(info)
              = WithChecksum(Plain(info), Checksum(Plain(info)))
BY DEF build_header, Plain, Fixed

(* The two parts of a sequence that was appended to. *)
LEMMA Appended ==
    ASSUME NEW s \in Seq(Int), NEW t \in Seq(Int), NEW w, w = s \o t
    PROVE  /\ w \in Seq(Int)
           /\ Len(w) = Len(s) + Len(t)
           /\ \A i \in 1 .. Len(s) : w[i] = s[i]
           /\ \A i \in 1 .. Len(t) : w[Len(s) + i] = t[i]
<1>1. /\ w \in Seq(Int) /\ Len(w) = Len(s) + Len(t)
      /\ \A i \in 1 .. Len(s) + Len(t) :
            w[i] = IF i <= Len(s) THEN s[i] ELSE t[i - Len(s)]
    BY ConcatProperties
<1>2. Len(s) \in Nat /\ Len(t) \in Nat
    OBVIOUS
<1>3. \A i \in 1 .. Len(t) : w[Len(s) + i] = t[i]
  <2>1. SUFFICES ASSUME NEW i \in 1 .. Len(t)
                 PROVE  w[Len(s) + i] = t[i]
      OBVIOUS
  <2> DEFINE j == Len(s) + i
  <2>2. j \in 1 .. Len(s) + Len(t) /\ ~(j <= Len(s)) /\ j - Len(s) = i
      BY <1>2
  <2> HIDE DEF j
  <2>3. w[j] = t[j - Len(s)]
      BY <1>1, <2>2
  <2>4. QED
      BY <2>2, <2>3 DEF j
<1>4. QED
    BY <1>1, <1>2, <1>3

(* A field that memcpy writes holds the digits of its value. *)
LEMMA LittleEndianBytes ==
    ASSUME NEW x \in Nat, NEW size \in 1 .. 4
    PROVE  /\ LittleEndian(x, size) \in Seq(Int)
           /\ Len(LittleEndian(x, size)) = size
           /\ \A i \in 1 .. size : LittleEndian(x, size)[i] = Digit(x, i - 1)
<1>1. \A i \in 1 .. size : Digit(x, i - 1) \in Int
  <2>1. \A i \in 0 .. 3 : Digit(x, i) \in ByteRange
      BY Digits
  <2>2. \A i \in 1 .. size : i - 1 \in 0 .. 3
      OBVIOUS
  <2>3. ByteRange \subseteq Int
      BY DEF ByteRange
  <2>4. QED
      BY <2>1, <2>2, <2>3
<1>2. QED
    BY <1>1 DEF LittleEndian

(* The eleven bytes in front of the checksum. *)
LEMMA FixedBytes ==
    ASSUME NEW info \in RomInfo
    PROVE  LET f == Fixed(info) IN
           /\ f \in Seq(Int) /\ Len(f) = 11
           /\ \A i \in 1 .. 4 : f[i] = MAGIC[i]
           /\ f[5] = Digit(Len(info.name), 0)
           /\ f[6] = Digit(Len(info.description), 0)
           /\ f[7] = Digit(Len(info.description), 1)
           /\ f[8] = Digit(info.size, 0) /\ f[9] = Digit(info.size, 1)
           /\ f[10] = Digit(info.size, 2) /\ f[11] = Digit(info.size, 3)
<1> DEFINE nl == Len(info.name)
           dl == Len(info.description)
           sz == info.size
           n == LittleEndian(nl, 1)
           d == LittleEndian(dl, 2)
           z == LittleEndian(sz, 4)
           f1 == MAGIC \o n
           f2 == f1 \o d
           f3 == f2 \o z
<1>1. nl \in Nat /\ dl \in Nat /\ sz \in Nat
    BY DEF RomInfo, WordRange
<1>2. MAGIC \in Seq(Int) /\ Len(MAGIC) = 4
    BY DEF MAGIC
<1>3. Fixed(info) = f3
    BY DEF Fixed
<1> HIDE DEF nl, dl, sz
<1>4. /\ n \in Seq(Int) /\ Len(n) = 1 /\ n[1] = Digit(nl, 0)
      /\ d \in Seq(Int) /\ Len(d) = 2
      /\ d[1] = Digit(dl, 0) /\ d[2] = Digit(dl, 1)
      /\ z \in Seq(Int) /\ Len(z) = 4
      /\ z[1] = Digit(sz, 0) /\ z[2] = Digit(sz, 1)
      /\ z[3] = Digit(sz, 2) /\ z[4] = Digit(sz, 3)
  <2>1. /\ n \in Seq(Int) /\ Len(n) = 1
        /\ \A i \in 1 .. 1 : n[i] = Digit(nl, i - 1)
      BY <1>1, LittleEndianBytes
  <2>2. /\ d \in Seq(Int) /\ Len(d) = 2
        /\ \A i \in 1 .. 2 : d[i] = Digit(dl, i - 1)
      BY <1>1, LittleEndianBytes
  <2>3. /\ z \in Seq(Int) /\ Len(z) = 4
        /\ \A i \in 1 .. 4 : z[i] = Digit(sz, i - 1)
      BY <1>1, LittleEndianBytes
  <2> HIDE DEF n, d, z
  <2>4. 1 - 1 = 0 /\ 2 - 1 = 1 /\ 3 - 1 = 2 /\ 4 - 1 = 3
      OBVIOUS
  <2>5. QED
      BY <2>1, <2>2, <2>3, <2>4
<1>5. f1 = MAGIC \o n /\ f2 = f1 \o d /\ f3 = f2 \o z
    OBVIOUS
<1> HIDE DEF n, d, z, f1, f2, f3
<1>6. /\ f1 \in Seq(Int) /\ Len(f1) = 5
      /\ \A i \in 1 .. 4 : f1[i] = MAGIC[i]
      /\ f1[5] = n[1]
  <2>0. MAGIC \in Seq(Int) /\ n \in Seq(Int) /\ f1 = MAGIC \o n
      BY <1>2, <1>4, <1>5
  <2>1. /\ f1 \in Seq(Int) /\ Len(f1) = Len(MAGIC) + Len(n)
        /\ \A i \in 1 .. Len(MAGIC) : f1[i] = MAGIC[i]
        /\ \A i \in 1 .. Len(n) : f1[Len(MAGIC) + i] = n[i]
      BY <2>0, Appended
  <2>2. 4 + 1 = 5
      OBVIOUS
  <2>3. QED
      BY <1>2, <1>4, <2>1, <2>2
<1>7. /\ f2 \in Seq(Int) /\ Len(f2) = 7
      /\ \A i \in 1 .. 5 : f2[i] = f1[i]
      /\ f2[6] = d[1] /\ f2[7] = d[2]
  <2>0. f1 \in Seq(Int) /\ d \in Seq(Int) /\ f2 = f1 \o d
      BY <1>4, <1>5, <1>6
  <2>1. /\ f2 \in Seq(Int) /\ Len(f2) = Len(f1) + Len(d)
        /\ \A i \in 1 .. Len(f1) : f2[i] = f1[i]
        /\ \A i \in 1 .. Len(d) : f2[Len(f1) + i] = d[i]
      BY <2>0, Appended
  <2>2. 5 + 1 = 6 /\ 5 + 2 = 7
      OBVIOUS
  <2>3. QED
      BY <1>4, <1>6, <2>1, <2>2
<1>8. /\ f3 \in Seq(Int) /\ Len(f3) = 11
      /\ \A i \in 1 .. 7 : f3[i] = f2[i]
      /\ f3[8] = z[1] /\ f3[9] = z[2] /\ f3[10] = z[3] /\ f3[11] = z[4]
  <2>0. f2 \in Seq(Int) /\ z \in Seq(Int) /\ f3 = f2 \o z
      BY <1>4, <1>5, <1>7
  <2>1. /\ f3 \in Seq(Int) /\ Len(f3) = Len(f2) + Len(z)
        /\ \A i \in 1 .. Len(f2) : f3[i] = f2[i]
        /\ \A i \in 1 .. Len(z) : f3[Len(f2) + i] = z[i]
      BY <2>0, Appended
  <2>2. 7 + 1 = 8 /\ 7 + 2 = 9 /\ 7 + 3 = 10 /\ 7 + 4 = 11
      OBVIOUS
  <2>3. QED
      BY <1>4, <1>7, <2>1, <2>2
<1>9. /\ f3[5] = Digit(nl, 0) /\ f3[6] = Digit(dl, 0) /\ f3[7] = Digit(dl, 1)
      /\ \A i \in 1 .. 4 : f3[i] = MAGIC[i]
    BY <1>4, <1>6, <1>7, <1>8
<1>10. QED
    BY <1>3, <1>4, <1>8, <1>9 DEF nl, dl, sz

(* Where the parts of a header are. *)
LEMMA PlainBytes ==
    ASSUME NEW info \in RomInfo
    PROVE  LET h == Plain(info)
               f == Fixed(info)
               n == Len(info.name)
               d == Len(info.description)
               base == BASIC_ROM_INFO_LEN
           IN  /\ h \in Seq(Int) /\ Len(h) = base + n + d
               /\ base \in Nat /\ base >= 12 /\ n \in Nat /\ d \in Nat
               /\ \A i \in 1 .. 11 : h[i] = f[i]
               /\ h[12] = 0
               /\ \A i \in 1 .. n : h[base + i] = info.name[i]
               /\ \A i \in 1 .. d : h[base + n + i] = info.description[i]
<1> DEFINE f == Fixed(info)
           u == UNUSED_BYTES_COUNT
           z == [i \in 1 .. 1 + u |-> 0]
           name == info.name
           description == info.description
           n == Len(name)
           d == Len(description)
           base == BASIC_ROM_INFO_LEN
           h1 == f \o z
           h2 == h1 \o name
           h == h2 \o description
<1>1. f \in Seq(Int) /\ Len(f) = 11
    BY FixedBytes
<1>2. u \in Nat /\ base = 12 + u
    BY RomAssumption DEF BASIC_ROM_INFO_LEN, CHECKSUM_BYTE_INDEX
<1>3. z \in Seq(Int) /\ Len(z) = 1 + u /\ z[1] = 0
    BY <1>2
<1>4. /\ name \in Seq(Int) /\ n \in Nat
      /\ description \in Seq(Int) /\ d \in Nat
  <2>1. name \in Seq(ByteRange) /\ description \in Seq(ByteRange)
      BY DEF RomInfo
  <2>2. ByteRange \subseteq Int
      BY DEF ByteRange
  <2> HIDE DEF name, description
  <2>3. name \in Seq(Int) /\ description \in Seq(Int)
      BY <2>1, <2>2, SeqMonotonic
  <2>4. QED
      BY <2>3
<1>5. h1 = f \o z /\ h2 = h1 \o name /\ h = h2 \o description
    OBVIOUS
<1>6. Plain(info) = h
    BY DEF Plain
<1> HIDE DEF f, u, z, name, description, base, h1, h2, h
<1>7. /\ h1 \in Seq(Int) /\ Len(h1) = base
      /\ \A i \in 1 .. 11 : h1[i] = f[i]
      /\ h1[12] = 0
  <2>1. f \in Seq(Int) /\ z \in Seq(Int) /\ h1 = f \o z
      BY <1>1, <1>3, <1>5
  <2>2. /\ h1 \in Seq(Int) /\ Len(h1) = Len(f) + Len(z)
        /\ \A i \in 1 .. Len(f) : h1[i] = f[i]
        /\ \A i \in 1 .. Len(z) : h1[Len(f) + i] = z[i]
      BY <2>1, Appended
  <2>3. 11 + 1 = 12 /\ 1 \in 1 .. Len(z)
      BY <1>2, <1>3
  <2>4. QED
      BY <1>1, <1>2, <1>3, <2>2, <2>3
<1>8. /\ h2 \in Seq(Int) /\ Len(h2) = base + n
      /\ \A i \in 1 .. base : h2[i] = h1[i]
      /\ \A i \in 1 .. n : h2[base + i] = name[i]
  <2>1. h1 \in Seq(Int) /\ name \in Seq(Int) /\ h2 = h1 \o name
      BY <1>4, <1>5, <1>7
  <2>2. /\ h2 \in Seq(Int) /\ Len(h2) = Len(h1) + Len(name)
        /\ \A i \in 1 .. Len(h1) : h2[i] = h1[i]
        /\ \A i \in 1 .. Len(name) : h2[Len(h1) + i] = name[i]
      BY <2>1, Appended
  <2>3. QED
      BY <1>7, <2>2
<1>9. /\ h \in Seq(Int) /\ Len(h) = base + n + d
      /\ \A i \in 1 .. base + n : h[i] = h2[i]
      /\ \A i \in 1 .. d : h[base + n + i] = description[i]
  <2>1. /\ h2 \in Seq(Int) /\ description \in Seq(Int)
        /\ h = h2 \o description
      BY <1>4, <1>5, <1>8
  <2>2. /\ h \in Seq(Int) /\ Len(h) = Len(h2) + Len(description)
        /\ \A i \in 1 .. Len(h2) : h[i] = h2[i]
        /\ \A i \in 1 .. Len(description) :
              h[Len(h2) + i] = description[i]
      BY <2>1, Appended
  <2>3. QED
      BY <1>8, <2>2
<1>10. base \in Nat /\ base >= 12 /\ n \in Nat /\ d \in Nat
    BY <1>2, <1>4
<1> HIDE DEF n, d
<1>11. /\ \A i \in 1 .. 11 : h[i] = f[i]
       /\ h[12] = 0
       /\ \A i \in 1 .. n : h[base + i] = name[i]
  <2>1. \A i \in 1 .. base : h[i] = h1[i]
      BY <1>8, <1>9, <1>10
  <2>2. \A i \in 1 .. n : base + i \in 1 .. base + n
      BY <1>10
  <2>3. QED
      BY SMTT(30), <1>7, <1>8, <1>9, <1>10, <2>1, <2>2
<1>12. QED
    BY <1>6, <1>9, <1>10, <1>11 DEF f, name, description, base, n, d

(* A sequence that is long enough for the fixed part of a header, and      *)
(* agrees with the one of info as far as it goes, has the fields of info.  *)
LEMMA FieldsOf ==
    ASSUME NEW info \in RomInfo, Fits(info),
           NEW T, NEW bytes \in Seq(T), Len(bytes) >= BASIC_ROM_INFO_LEN,
           \A i \in 1 .. 11 : bytes[i] = Plain(info)[i]
    PROVE  /\ name_len(bytes) = Len(info.name)
           /\ description_len(bytes) = Len(info.description)
           /\ size_field(bytes) = info.size
           /\ HeaderLength(bytes) = Len(Plain(info))
           /\ IsPrefix(MAGIC, bytes)
<1> DEFINE f == Fixed(info)
           n == Len(info.name)
           d == Len(info.description)
           sz == info.size
<1>1. /\ n \in Nat /\ d \in Nat /\ BASIC_ROM_INFO_LEN \in Nat
      /\ BASIC_ROM_INFO_LEN >= 12
      /\ Len(Plain(info)) = BASIC_ROM_INFO_LEN + n + d
      /\ \A i \in 1 .. 11 : bytes[i] = f[i]
    BY PlainBytes
<1>2. /\ n < BYTE /\ d < SHORT /\ sz \in 0 .. WORD - 1 /\ sz \in Nat
    BY DEF Fits, RomInfo, WordRange
<1>3. Len(bytes) \in Nat /\ Len(bytes) >= 12
    BY <1>1
<1>4. /\ \A i \in 1 .. 4 : f[i] = MAGIC[i]
      /\ f[5] = Digit(n, 0)
      /\ f[6] = Digit(d, 0) /\ f[7] = Digit(d, 1)
      /\ f[8] = Digit(sz, 0) /\ f[9] = Digit(sz, 1)
      /\ f[10] = Digit(sz, 2) /\ f[11] = Digit(sz, 3)
    BY FixedBytes
<1> HIDE DEF f, n, d, sz
<1>5. /\ ByteAt(bytes, 4) = Digit(n, 0)
      /\ ByteAt(bytes, 5) = Digit(d, 0) /\ ByteAt(bytes, 6) = Digit(d, 1)
      /\ ByteAt(bytes, 7) = Digit(sz, 0) /\ ByteAt(bytes, 8) = Digit(sz, 1)
      /\ ByteAt(bytes, 9) = Digit(sz, 2) /\ ByteAt(bytes, 10) = Digit(sz, 3)
  <2>1. ASSUME NEW i \in 4 .. 10 PROVE ByteAt(bytes, i) = f[i + 1]
    <3>1. i + 1 \in 1 .. 11 /\ i < Len(bytes)
        BY <1>3
    <3>2. bytes[i + 1] = f[i + 1]
        BY <1>1, <3>1
    <3>3. QED
        BY <3>1, <3>2 DEF ByteAt
  <2>2. /\ 4 + 1 = 5 /\ 5 + 1 = 6 /\ 6 + 1 = 7 /\ 7 + 1 = 8 /\ 8 + 1 = 9
        /\ 9 + 1 = 10 /\ 10 + 1 = 11
      OBVIOUS
  <2>3. QED
      BY <1>4, <2>1, <2>2
<1>6. name_len(bytes) = n
  <2> DEFINE q == n \div BYTE
  <2>0. n \in Nat
      BY <1>1
  <2>1. n = Digit(n, 0) + BYTE * q /\ Digit(n, 0) \in ByteRange /\ q \in Nat
    <3>1. \A i \in 0 .. 3 : Digit(n, i) \in ByteRange
        BY <2>0, Digits
    <3>2. n = Digit(n, 0) + BYTE * (n \div BYTE) /\ n \div BYTE \in Nat
        BY <2>0, Digits
    <3>3. QED
        BY <3>1, <3>2
  <2> HIDE DEF q
  <2>2. n % BYTE = Digit(n, 0)
    <3> DEFINE r == Digit(n, 0)
    <3>1. r \in 0 .. BYTE - 1 /\ n = r + BYTE * q /\ q \in Int
        BY <2>1 DEF ByteRange
    <3>2. BYTE \in Nat \ {0}
        BY Widths
    <3> HIDE DEF r
    <3>3. n % BYTE = r
        BY <3>1, <3>2, LowPart
    <3>4. QED
        BY <3>3 DEF r
  <2>3. n % BYTE = n
    <3>1. n \in 0 .. BYTE - 1
        BY <1>1, <1>2, Widths
    <3>2. QED
        BY <3>1, Widths, SmallMod
  <2>4. QED
      BY <1>5, <2>2, <2>3 DEF name_len
<1>7. description_len(bytes) = d
  <2>0. d \in Nat
      BY <1>1
  <2>1. /\ Digit(d, 0) \in ByteRange /\ Digit(d, 1) \in ByteRange
        /\ 0 \in ByteRange
    <3>1. \A i \in 0 .. 3 : Digit(d, i) \in ByteRange
        BY <2>0, Digits
    <3>2. 0 \in ByteRange
        BY Widths DEF ByteRange
    <3>3. QED
        BY <3>1, <3>2
  <2> DEFINE x == Compose(Digit(d, 0), Digit(d, 1), 0, 0)
  <2>2. x % Capacity(2) = d % Capacity(2)
      BY <1>1, <2>1, ComposeLow
  <2>3. Capacity(2) = SHORT
      BY DEF Capacity
  <2>4. x = Digit(d, 0) + BYTE * Digit(d, 1)
    <3>1. BYTE \in Nat /\ BYTE * (0 + BYTE * 0) = 0
        BY Widths
    <3>2. QED
        BY <2>1, <3>1 DEF Compose, ByteRange
  <2>5. x \in 0 .. SHORT - 1
      BY <2>1, <2>4, AppendDigit, Widths DEF ByteRange, SHORT
  <2>6. x % SHORT = x
      BY <2>5, Widths, SmallMod
  <2>7. d % SHORT = d
    <3>1. d \in 0 .. SHORT - 1
        BY <1>1, <1>2, Widths
    <3>2. QED
        BY <3>1, Widths, SmallMod
  <2> HIDE DEF x
  <2>8. x = d
      BY <2>2, <2>3, <2>6, <2>7
  <2>9. QED
      BY <1>5, <2>8 DEF description_len, x
<1>8. size_field(bytes) = sz
  <2>1. /\ Digit(sz, 0) \in ByteRange /\ Digit(sz, 1) \in ByteRange
        /\ Digit(sz, 2) \in ByteRange /\ Digit(sz, 3) \in ByteRange
      BY <1>2, Digits
  <2> DEFINE x == Compose(Digit(sz, 0), Digit(sz, 1), Digit(sz, 2),
                          Digit(sz, 3))
  <2>2. x % Capacity(4) = sz % Capacity(4)
      BY <1>2, <2>1, ComposeLow
  <2>3. Capacity(4) = WORD
      BY DEF Capacity
  <2>4. x \in 0 .. WORD - 1
      BY <2>1, ComposeType DEF WordRange
  <2> HIDE DEF x
  <2>5. x % WORD = x /\ sz % WORD = sz
      BY <1>2, <2>4, Widths, SmallMod
  <2>6. x = sz
      BY <2>2, <2>3, <2>5
  <2>7. QED
      BY <1>5, <2>6 DEF size_field, x
<1>9. IsPrefix(MAGIC, bytes)
  <2>1. Len(MAGIC) = 4 /\ MAGIC \in Seq(Int)
      BY DEF MAGIC
  <2>2. /\ SubSeq(MAGIC, 1, 4) = [i \in 1 .. 4 |-> MAGIC[i]]
        /\ SubSeq(bytes, 1, 4) = [i \in 1 .. 4 |-> bytes[i]]
      OBVIOUS
  <2>3. \A i \in 1 .. 4 : bytes[i] = MAGIC[i]
    <3>1. \A i \in 1 .. 11 : bytes[i] = f[i]
        BY <1>1
    <3>2. \A i \in 1 .. 4 : f[i] = MAGIC[i] /\ i \in 1 .. 11
        BY <1>4
    <3>3. QED
        BY <3>1, <3>2
  <2>4. QED
      BY <1>3, <2>1, <2>2, <2>3 DEF IsPrefix
<1>10. QED
    BY <1>1, <1>6, <1>7, <1>8, <1>9 DEF HeaderLength, n, d, sz

-----------------------------------------------------------------------------
(* The stream of the header. *)

At(text, pos) == [text |-> text, kind |-> "file", pos |-> pos,
                  eof |-> FALSE, fail |-> FALSE, bad |-> FALSE]

(* Reading inside the file moves on by what was read. *)
LEMMA GetAhead ==
    ASSUME NEW text, NEW pos \in Nat, NEW n \in Nat, pos + n <= Len(text)
    PROVE  get(At(text, pos), n) = At(text, pos + n)
<1>1. Good(At(text, pos)) /\ At(text, pos).pos = pos
      /\ At(text, pos).text = text
    BY DEF Good, At
<1>2. get(At(text, pos), n) = [At(text, pos) EXCEPT !.pos = @ + n]
    BY <1>1 DEF get
<1>3. QED
    BY <1>2 DEF At

(* seek goes to the place it is given. *)
LEMMA SeekTo ==
    ASSUME NEW text, NEW pos, NEW to
    PROVE  seek(At(text, pos), to) = At(text, to)
BY DEF seek, At

-----------------------------------------------------------------------------
(* The header as it is written differs from Plain in the checksum only.    *)
LEMMA BuiltBytes ==
    ASSUME NEW info \in RomInfo
    PROVE  LET p == Plain(info)
               bh == build_header(info)
               T == Int \cup {Checksum(p)}
           IN  /\ bh \in Seq(T) /\ Len(bh) = Len(p)
               /\ Len(p) \in Nat /\ Len(p) >= BASIC_ROM_INFO_LEN
               /\ BASIC_ROM_INFO_LEN \in Nat /\ BASIC_ROM_INFO_LEN >= 12
               /\ \A i \in 1 .. Len(p) : i # 12 => bh[i] = p[i]
               /\ bh[12] = Checksum(p)
               /\ WithChecksum(bh, 0) = p
<1> DEFINE p == Plain(info)
           k == Checksum(p)
           bh == build_header(info)
           T == Int \cup {k}
<1>1. /\ p \in Seq(Int) /\ Len(p) >= BASIC_ROM_INFO_LEN /\ Len(p) \in Nat
      /\ BASIC_ROM_INFO_LEN \in Nat /\ BASIC_ROM_INFO_LEN >= 12
      /\ p[12] = 0
  <2> DEFINE n == Len(info.name)
             d == Len(info.description)
             base == BASIC_ROM_INFO_LEN
  <2>1. /\ p \in Seq(Int) /\ Len(p) = base + n + d
        /\ base \in Nat /\ base >= 12 /\ n \in Nat /\ d \in Nat
        /\ p[12] = 0
      BY PlainBytes
  <2> HIDE DEF p, n, d
  <2>2. QED
      BY <2>1
<1>2. bh = [p EXCEPT ![12] = k]
  <2>1. CHECKSUM_BYTE_INDEX + 1 = 12
      BY DEF CHECKSUM_BYTE_INDEX
  <2>2. bh = WithChecksum(p, k)
      BY BuildsPlain
  <2> HIDE DEF p, k, bh
  <2>3. QED
      BY <2>1, <2>2 DEF WithChecksum
<1> HIDE DEF p, k, bh
<1>3. bh \in Seq(T) /\ Len(bh) = Len(p)
  <2>1. p \in Seq(T)
      BY <1>1, SeqMonotonic
  <2>2. 12 \in 1 .. Len(p) /\ k \in T
      BY <1>1
  <2> HIDE DEF T
  <2>3. QED
      BY <1>2, <2>1, <2>2, ExceptSeq
<1>4. /\ \A i \in 1 .. Len(p) : i # 12 => bh[i] = p[i]
      /\ bh[12] = k
    BY <1>1, <1>2
<1>5. WithChecksum(bh, 0) = p
  <2>1. WithChecksum(bh, 0) = [bh EXCEPT ![12] = 0]
      BY DEF WithChecksum, CHECKSUM_BYTE_INDEX
  <2>2. p = [i \in 1 .. Len(p) |-> p[i]] /\ 12 \in 1 .. Len(p)
      BY <1>1
  <2>3. [bh EXCEPT ![12] = 0]
            = [i \in 1 .. Len(p) |-> IF i = 12 THEN 0 ELSE p[i]]
      BY <1>2, <2>2
  <2>4. [bh EXCEPT ![12] = 0] = p
      BY <1>1, <2>2, <2>3
  <2>5. QED
      BY <2>1, <2>4
<1>6. QED
    BY <1>1, <1>3, <1>4, <1>5 DEF p, k, bh

(* A rom file says what was built: for every name and description that     *)
(* have the length of their fields and every size up to the largest,       *)
(* parse_header reads from what build_header wrote the same info, whatever *)
(* follows the header. *)
THEOREM HeaderReadBack ==
    ASSUME NEW info \in RomInfo, Fits(info), NEW body \in Seq(Int)
    PROVE  LET result ==
                   parse_header(Opened(build_header(info) \o body, "file"))
           IN  /\ result.info = {info}
               /\ result.stream = At(build_header(info) \o body,
                                     Len(build_header(info)))
<1> DEFINE p == Plain(info)
           bh == build_header(info)
           T == Int \cup {Checksum(p)}
           bytes == bh \o body
           n == Len(info.name)
           d == Len(info.description)
           base == BASIC_ROM_INFO_LEN
           L == Len(p)
<1>1. /\ bh \in Seq(T) /\ Len(bh) = L /\ L \in Nat
      /\ base \in Nat /\ base >= 12
      /\ \A i \in 1 .. L : i # 12 => bh[i] = p[i]
      /\ bh[12] = Checksum(p) /\ WithChecksum(bh, 0) = p
    BY BuiltBytes
<1>2. /\ p \in Seq(Int) /\ L = base + n + d /\ n \in Nat /\ d \in Nat
      /\ \A i \in 1 .. n : p[base + i] = info.name[i]
      /\ \A i \in 1 .. d : p[base + n + i] = info.description[i]
    BY PlainBytes
<1>3. body \in Seq(T)
    BY SeqMonotonic
<1>4. /\ bytes \in Seq(T) /\ Len(bytes) \in Nat /\ Len(bytes) >= L
      /\ \A i \in 1 .. L : bytes[i] = bh[i]
  <2> HIDE DEF T, bh, p, L
  <2>1. QED
      BY <1>1, <1>3
<1>5. size_field(bytes) <= MAX_ROM_SIZE /\ info.size = size_field(bytes)
      /\ name_len(bytes) = n /\ description_len(bytes) = d
      /\ HeaderLength(bytes) = L /\ IsPrefix(MAGIC, bytes)
  <2>1. Len(bytes) >= BASIC_ROM_INFO_LEN
    <3> HIDE DEF bytes, p, bh, n, d
    <3>1. QED
        BY <1>1, <1>2, <1>4
  <2>2. \A i \in 1 .. 11 : bytes[i] = p[i]
    <3> HIDE DEF bytes, p, bh, n, d
    <3>1. \A i \in 1 .. 11 : i \in 1 .. L /\ i # 12
        BY <1>1, <1>2
    <3>2. QED
        BY <1>1, <1>4, <3>1
  <2> HIDE DEF bytes
  <2>3. QED
      BY <1>4, <2>1, <2>2, FieldsOf DEF Fits
<1> HIDE DEF p, bh, T, bytes, n, d, base, L
<1>6. ChecksumFits(bytes)
  <2>1. SubSeq(bytes, 1, L) = bh
    <3>1. SubSeq(bytes, 1, L) = [i \in 1 .. L |-> bytes[i]]
        BY <1>1
    <3>2. bh = [i \in 1 .. L |-> bh[i]]
        BY <1>1
    <3>3. QED
        BY <1>4, <3>1, <3>2
  <2>2. ByteAt(bytes, CHECKSUM_BYTE_INDEX) = Checksum(p)
    <3>1. 11 < Len(bytes) /\ 12 \in 1 .. L
        BY <1>1, <1>2, <1>4
    <3>2. bytes[12] = Checksum(p)
        BY <1>1, <1>4, <3>1
    <3>3. QED
        BY <3>1, <3>2 DEF ByteAt, CHECKSUM_BYTE_INDEX
  <2>3. QED
      BY <1>1, <1>5, <2>1, <2>2 DEF ChecksumFits
<1> DEFINE s == Opened(bytes, "file")
           magic == get(s, 4)
           sizes == get(magic, 7)
           names == get(seek(get(sizes, 1), BASIC_ROM_INFO_LEN),
                        name_len(bytes) + description_len(bytes))
           header == get(seek(names, 0), HeaderLength(bytes))
           name == [i \in 1 .. name_len(bytes) |-> bytes[base + i]]
           description == SubSeq(bytes, base + Len(name) + 1,
                                 HeaderLength(bytes))
<1>7. s = At(bytes, 0) /\ s.text = bytes
    BY DEF Opened, At
<1>8. header = At(bytes, L)
  <2> HIDE DEF s
  <2>1. magic = At(bytes, 4)
    <3>1. 0 + 4 = 4 /\ 0 + 4 <= Len(bytes)
        BY <1>1, <1>2, <1>4
    <3>2. QED
        BY <1>7, <3>1, GetAhead
  <2> HIDE DEF magic
  <2>2. sizes = At(bytes, 11)
    <3>1. 4 + 7 = 11 /\ 4 + 7 <= Len(bytes)
        BY <1>1, <1>2, <1>4
    <3>2. QED
        BY <2>1, <3>1, GetAhead DEF sizes
  <2> HIDE DEF sizes
  <2>3. get(sizes, 1) = At(bytes, 12)
    <3>1. 11 + 1 = 12 /\ 11 + 1 <= Len(bytes)
        BY <1>1, <1>2, <1>4
    <3>2. QED
        BY <2>2, <3>1, GetAhead
  <2>4. seek(get(sizes, 1), BASIC_ROM_INFO_LEN) = At(bytes, base)
      BY <2>3, SeekTo DEF base
  <2>5. names = At(bytes, L)
    <3> DEFINE more == n + d
    <3>1. more \in Nat /\ base + more = L /\ base + more <= Len(bytes)
        BY <1>1, <1>2, <1>4
    <3>2. name_len(bytes) + description_len(bytes) = more
        BY <1>5
    <3> HIDE DEF more
    <3>3. get(At(bytes, base), more) = At(bytes, L)
        BY <1>1, <3>1, GetAhead
    <3>4. QED
        BY <2>4, <3>2, <3>3
  <2> HIDE DEF names
  <2>6. seek(names, 0) = At(bytes, 0)
      BY <2>5, SeekTo
  <2>7. 0 + L = L /\ 0 + L <= Len(bytes)
      BY <1>1, <1>4
  <2>8. get(At(bytes, 0), L) = At(bytes, L)
      BY <1>1, <2>7, GetAhead
  <2>9. QED
      BY <1>5, <2>6, <2>8
<1>9. name = info.name
  <2>1. info.name = [i \in 1 .. n |-> info.name[i]]
      BY DEF RomInfo, n
  <2>2. \A i \in 1 .. n : bytes[base + i] = info.name[i]
    <3>1. SUFFICES ASSUME NEW i \in 1 .. n
                   PROVE  bytes[base + i] = info.name[i]
        OBVIOUS
    <3>2. /\ base \in Nat /\ base >= 12 /\ n \in Nat /\ d \in Nat
          /\ L = base + n + d
        BY <1>1, <1>2
    <3>3. base + i \in 1 .. L /\ base + i # 12
        BY <3>2
    <3>4. QED
        BY <1>1, <1>2, <1>4, <3>3
  <2>3. QED
      BY <1>5, <2>1, <2>2
<1>10. description = info.description
  <2>1. Len(name) = n
      BY <1>9 DEF n
  <2>2. /\ info.description = [i \in 1 .. d |-> info.description[i]]
      BY DEF RomInfo, d
  <2> DEFINE from == base + n
  <2>3. from \in Nat /\ from >= 12 /\ L = from + d
      BY <1>1, <1>2
  <2>4. \A i \in 1 .. d : bytes[from + i] = info.description[i]
    <3>1. SUFFICES ASSUME NEW i \in 1 .. d
                   PROVE  bytes[from + i] = info.description[i]
        OBVIOUS
    <3>2. from + i \in 1 .. L /\ from + i # 12
        BY <1>2, <2>3
    <3>3. p[from + i] = info.description[i]
        BY <1>2 DEF from
    <3>4. QED
        BY <1>1, <1>4, <3>2, <3>3
  <2> HIDE DEF from
  <2>5. SubSeq(bytes, from + 1, from + d) = [i \in 1 .. d |-> bytes[from + i]]
      BY <1>2, <1>4, <2>3
  <2>6. description = SubSeq(bytes, from + 1, from + d)
      BY <1>5, <2>1, <2>3 DEF from
  <2>7. QED
      BY <2>2, <2>4, <2>5, <2>6
<1>11. header.fail = FALSE
    BY <1>8 DEF At
<1>12. parse_header(s) =
           [info |-> {[size |-> size_field(bytes), name |-> name,
                       description |-> description]},
            stream |-> header]
  <2>1. ~(size_field(bytes) > MAX_ROM_SIZE)
      BY <1>5, RomAssumption DEF RomInfo, WordRange
  <2>2. parse_header(s) =
          LET NoInfo(t) == [info |-> {}, stream |-> t] IN
          IF ~IsPrefix(MAGIC, bytes) THEN NoInfo(magic)
          ELSE IF size_field(bytes) > MAX_ROM_SIZE THEN NoInfo(sizes)
          ELSE IF header.fail \/ ~ChecksumFits(bytes) THEN NoInfo(header)
          ELSE [info |-> {[size |-> size_field(bytes), name |-> name,
                           description |-> description]},
                stream |-> header]
      BY <1>7 DEF parse_header, base
  <2> HIDE DEF s, magic, sizes, names, header, name, description
  <2>3. QED
      BY <1>5, <1>6, <1>11, <2>1, <2>2
<1>13. info = [size |-> info.size, name |-> info.name,
               description |-> info.description]
    BY DEF RomInfo
<1>14. QED
  <2> HIDE DEF name, description, header, s
  <2>1. parse_header(s).info = {info} /\ parse_header(s).stream = At(bytes, L)
      BY <1>5, <1>8, <1>9, <1>10, <1>12, <1>13
  <2>2. QED
      BY <1>1, <2>1 DEF s, bytes, bh

-----------------------------------------------------------------------------
(* Files that end before their header does. *)

Streams(text) == [text : {text}, kind : {"file"}, pos : Nat,
                  eof : BOOLEAN, fail : BOOLEAN, bad : BOOLEAN]

(* Nothing is read from a stream that is not good. *)
LEMMA GetRefused ==
    ASSUME NEW t, NEW n, ~Good(t)
    PROVE  get(t, n) = [t EXCEPT !.fail = TRUE]
BY DEF get, Failed

(* Reading more than there is takes what there is, and fails. *)
LEMMA GetShort ==
    ASSUME NEW text, NEW t \in Streams(text), NEW n, Good(t),
           ~(t.pos + n <= Len(t.text) \/ n = 0)
    PROVE  get(t, n) = [t EXCEPT !.pos = Len(text), !.eof = TRUE,
                                 !.fail = TRUE]
<1>1. get(t, n) = Failed(Exhausted(t))
    BY DEF get
<1>2. t.text = text
    BY DEF Streams
<1>3. Exhausted(t) = [t EXCEPT !.pos = Len(text), !.eof = TRUE]
    BY <1>2 DEF Exhausted
<1>4. QED
    BY <1>1, <1>3 DEF Failed, Streams

(* Neither reading nor seek leaves the file. *)
LEMMA StreamType ==
    ASSUME NEW T, NEW text \in Seq(T), NEW t \in Streams(text), NEW n \in Nat
    PROVE  get(t, n) \in Streams(text) /\ seek(t, n) \in Streams(text)
<1>1. Len(text) \in Nat
    OBVIOUS
<1>2. t.text = text /\ t.pos \in Nat
    BY DEF Streams
<1>3. get(t, n) \in Streams(text)
  <2>1. CASE ~Good(t)
    <3>1. get(t, n) = [t EXCEPT !.fail = TRUE]
        BY <2>1, GetRefused
    <3>2. QED
        BY <3>1 DEF Streams
  <2>2. CASE Good(t) /\ (t.pos + n <= Len(t.text) \/ n = 0)
    <3>1. get(t, n) = [t EXCEPT !.pos = @ + n]
        BY <2>2 DEF get
    <3>2. t.pos + n \in Nat
        BY <1>2
    <3>3. QED
        BY <3>1, <3>2 DEF Streams
  <2>3. CASE Good(t) /\ ~(t.pos + n <= Len(t.text) \/ n = 0)
    <3>1. get(t, n) = [t EXCEPT !.pos = Len(text), !.eof = TRUE, !.fail = TRUE]
        BY <2>3, GetShort
    <3>2. QED
        BY <1>1, <3>1 DEF Streams
  <2>4. QED
      BY <2>1, <2>2, <2>3
<1>4. seek(t, n) \in Streams(text)
    BY DEF Streams, seek
<1>5. QED
    BY <1>3, <1>4

(* Whatever the stream has been through, reading more characters than the  *)
(* file has from its beginning fails. *)
LEMMA GetBeyond ==
    ASSUME NEW T, NEW text \in Seq(T), NEW t \in Streams(text),
           NEW n \in Nat, n > Len(text)
    PROVE  get(seek(t, 0), n).fail = TRUE
<1> DEFINE u == seek(t, 0)
<1>1. u \in Streams(text)
    BY StreamType
<1>2. u.pos = 0 \/ u.fail = TRUE
    BY DEF seek, Streams
<1> HIDE DEF u
<1>3. u.text = text /\ Len(text) \in Nat
    BY <1>1 DEF Streams
<1>4. get(u, n).fail = TRUE
  <2>1. CASE ~Good(u)
    <3>1. get(u, n) = [u EXCEPT !.fail = TRUE]
        BY <2>1, GetRefused
    <3>2. QED
        BY <1>1, <3>1 DEF Streams
  <2>2. CASE Good(u)
    <3>1. u.pos = 0
        BY <1>1, <1>2, <2>2 DEF Good
    <3>2. ~(u.pos + n <= Len(u.text) \/ n = 0)
        BY <1>3, <3>1
    <3>3. get(u, n) = [u EXCEPT !.pos = Len(text), !.eof = TRUE, !.fail = TRUE]
        BY <1>1, <2>2, <3>2, GetShort
    <3>4. QED
        BY <1>1, <3>3 DEF Streams
  <2>3. QED
      BY <2>1, <2>2
<1>5. QED
    BY <1>4 DEF u

(* The ways parse_header can end. *)
LEMMA ParseOutcome ==
    ASSUME NEW T, NEW text \in Seq(T),
           name_len(text) \in Nat, description_len(text) \in Nat
    PROVE  LET result == parse_header(Opened(text, "file"))
               L == HeaderLength(text)
               name == [i \in 1 .. name_len(text) |->
                           text[BASIC_ROM_INFO_LEN + i]]
           IN  \/ result.info = {}
               \/ /\ L <= Len(text)
                  /\ ~(size_field(text) > MAX_ROM_SIZE)
                  /\ result.info =
                        {[size |-> size_field(text), name |-> name,
                          description |->
                              SubSeq(text, BASIC_ROM_INFO_LEN + Len(name) + 1,
                                     L)]}
<1> DEFINE s == Opened(text, "file")
           L == HeaderLength(text)
           base == BASIC_ROM_INFO_LEN
           magic == get(s, 4)
           sizes == get(magic, 7)
           more == name_len(text) + description_len(text)
           names == get(seek(get(sizes, 1), base), more)
           header == get(seek(names, 0), L)
           name == [i \in 1 .. name_len(text) |-> text[base + i]]
           description == SubSeq(text, base + Len(name) + 1, L)
<1>1. s \in Streams(text) /\ s.text = text
    BY DEF Opened, Streams
<1>2. base \in Nat /\ more \in Nat /\ L \in Nat
  <2>1. base \in Nat
      BY RomAssumption DEF BASIC_ROM_INFO_LEN, CHECKSUM_BYTE_INDEX
  <2>2. L = base + name_len(text) + description_len(text)
      BY DEF HeaderLength
  <2> HIDE DEF L, base
  <2>3. QED
      BY <2>1, <2>2
<1>3. parse_header(s) =
          LET NoInfo(t) == [info |-> {}, stream |-> t] IN
          IF ~IsPrefix(MAGIC, text) THEN NoInfo(magic)
          ELSE IF size_field(text) > MAX_ROM_SIZE THEN NoInfo(sizes)
          ELSE IF header.fail \/ ~ChecksumFits(text) THEN NoInfo(header)
          ELSE [info |-> {[size |-> size_field(text), name |-> name,
                           description |-> description]},
                stream |-> header]
    BY <1>1 DEF parse_header
<1> HIDE DEF s, L, base, more
<1>4. names \in Streams(text)
  <2>1. magic \in Streams(text)
      BY <1>1, StreamType
  <2> HIDE DEF magic
  <2>2. sizes \in Streams(text)
      BY <2>1, StreamType
  <2> HIDE DEF sizes
  <2>3. get(sizes, 1) \in Streams(text)
      BY <2>2, StreamType
  <2> DEFINE t == get(sizes, 1)
  <2> HIDE DEF t
  <2>4. seek(t, base) \in Streams(text)
      BY <1>2, <2>3, StreamType DEF t
  <2> DEFINE u == seek(t, base)
  <2> HIDE DEF u
  <2>5. get(u, more) \in Streams(text)
      BY <1>2, <2>4, StreamType DEF u
  <2>6. QED
      BY <2>5 DEF u, t
<1> HIDE DEF magic, sizes, names
<1>5. L > Len(text) => header.fail = TRUE
    BY <1>2, <1>4, GetBeyond
<1> HIDE DEF header, name, description
<1>6. CASE \/ ~IsPrefix(MAGIC, text) \/ size_field(text) > MAX_ROM_SIZE
           \/ header.fail \/ ~ChecksumFits(text)
  <2>1. parse_header(s).info = {}
      BY <1>3, <1>6
  <2>2. QED
      BY <2>1 DEF s
<1>7. CASE ~(\/ ~IsPrefix(MAGIC, text) \/ size_field(text) > MAX_ROM_SIZE
             \/ header.fail \/ ~ChecksumFits(text))
  <2>1. parse_header(s).info = {[size |-> size_field(text), name |-> name,
                                 description |-> description]}
      BY <1>3, <1>7
  <2>2. L <= Len(text)
    <3>1. Len(text) \in Nat
        OBVIOUS
    <3>2. QED
        BY <1>2, <1>5, <1>7, <3>1
  <2>3. QED
      BY <1>7, <2>1, <2>2 DEF s, L, base, name, description
<1>8. QED
    BY <1>6, <1>7

(* What the fields of any file can be, those that it lacks included. *)
LEMMA FieldTypes ==
    ASSUME NEW T, NEW text \in Seq(T),
           \A i \in 5 .. 11 : i <= Len(text) => text[i] \in ByteRange
    PROVE  /\ name_len(text) \in ByteRange
           /\ description_len(text) \in 0 .. SHORT - 1
           /\ size_field(text) \in WordRange
<1>1. \A i \in 4 .. 10 : ByteAt(text, i) \in ByteRange
  <2>1. SUFFICES ASSUME NEW i \in 4 .. 10
                 PROVE  ByteAt(text, i) \in ByteRange
      OBVIOUS
  <2>2. Len(text) \in Nat /\ 0 \in ByteRange
      BY Widths DEF ByteRange
  <2>3. CASE i < Len(text)
    <3>1. i + 1 \in 5 .. 11 /\ i + 1 <= Len(text)
        BY <2>2, <2>3
    <3>2. QED
        BY <2>3, <3>1 DEF ByteAt
  <2>4. QED
      BY <2>2, <2>3 DEF ByteAt
<1> DEFINE a == ByteAt(text, 5)
           b == ByteAt(text, 6)
<1>2. a \in ByteRange /\ b \in ByteRange
    BY <1>1
<1>3. description_len(text) = a + BYTE * b
  <2>1. description_len(text) = a + BYTE * (b + BYTE * (0 + BYTE * 0))
      BY DEF description_len, Compose
  <2> HIDE DEF a, b
  <2>2. a \in Int /\ b \in Int /\ BYTE \in Int
      BY <1>2, Widths DEF ByteRange
  <2>3. BYTE * 0 = 0
      BY <2>2
  <2>4. QED
      BY <2>1, <2>2, <2>3
<1> HIDE DEF a, b
<1>4. description_len(text) \in 0 .. SHORT - 1
    BY <1>2, <1>3, AppendDigit, Widths DEF ByteRange, SHORT
<1>5. size_field(text) \in WordRange
  <2>1. /\ ByteAt(text, 7) \in ByteRange /\ ByteAt(text, 8) \in ByteRange
        /\ ByteAt(text, 9) \in ByteRange /\ ByteAt(text, 10) \in ByteRange
      BY <1>1
  <2>2. QED
      BY <2>1, ComposeType DEF size_field
<1>6. QED
    BY <1>1, <1>4, <1>5 DEF name_len

(* A file that was cut off inside its header is never taken for a rom, at  *)
(* whatever byte it ends: neither the bytes that are missing nor the       *)
(* checksum of those that are there can make parse_header accept it. *)
THEOREM CutHeaderRejected ==
    ASSUME NEW info \in RomInfo, Fits(info),
           NEW k \in 0 .. Len(build_header(info)) - 1
    PROVE  parse_header(Opened(SubSeq(build_header(info), 1, k), "file")).info
              = {}
<1> DEFINE p == Plain(info)
           bh == build_header(info)
           T == Int \cup {Checksum(p)}
           base == BASIC_ROM_INFO_LEN
           text == SubSeq(bh, 1, k)
           L == HeaderLength(text)
<1>1. /\ bh \in Seq(T) /\ Len(bh) = Len(p) /\ Len(p) \in Nat
      /\ base \in Nat /\ base >= 12 /\ Len(p) >= base
      /\ \A i \in 1 .. Len(p) : i # 12 => bh[i] = p[i]
    BY BuiltBytes
<1>2. /\ text \in Seq(T) /\ Len(text) = k /\ k \in Nat /\ k < Len(p)
      /\ \A i \in 1 .. k : text[i] = bh[i]
  <2>1. k \in 0 .. Len(bh) - 1
      OBVIOUS
  <2> HIDE DEF p, T, bh
  <2>2. QED
      BY <1>1, <2>1
<1>3. \A i \in 1 .. 11 : i <= k => text[i] = p[i]
  <2>1. SUFFICES ASSUME NEW i \in 1 .. 11, i <= k
                 PROVE  text[i] = p[i]
      OBVIOUS
  <2> HIDE DEF p, T, bh, text, base
  <2>2. i \in 1 .. Len(p) /\ i \in 1 .. k /\ i # 12
      BY <1>1, <1>2, <2>1
  <2>3. QED
      BY <1>1, <1>2, <2>2
<1>4. \A i \in 5 .. 11 : p[i] \in ByteRange
  <2> DEFINE f == Fixed(info)
             nl == Len(info.name)
             dl == Len(info.description)
             sz == info.size
  <2>1. nl \in Nat /\ dl \in Nat /\ sz \in Nat
      BY DEF RomInfo, WordRange
  <2>2. \A i \in 1 .. 11 : p[i] = f[i]
      BY PlainBytes
  <2>3. /\ f[5] = Digit(nl, 0) /\ f[6] = Digit(dl, 0) /\ f[7] = Digit(dl, 1)
        /\ f[8] = Digit(sz, 0) /\ f[9] = Digit(sz, 1)
        /\ f[10] = Digit(sz, 2) /\ f[11] = Digit(sz, 3)
      BY FixedBytes
  <2> HIDE DEF p, f, nl, dl, sz
  <2>4. /\ \A i \in 0 .. 3 : Digit(nl, i) \in ByteRange
        /\ \A i \in 0 .. 3 : Digit(dl, i) \in ByteRange
        /\ \A i \in 0 .. 3 : Digit(sz, i) \in ByteRange
      BY <2>1, Digits
  <2>5. \A i \in 5 .. 11 : f[i] \in ByteRange
    <3>1. /\ f[5] \in ByteRange /\ f[6] \in ByteRange /\ f[7] \in ByteRange
          /\ f[8] \in ByteRange /\ f[9] \in ByteRange
          /\ f[10] \in ByteRange /\ f[11] \in ByteRange
        BY <2>3, <2>4
    <3>2. \A i \in 5 .. 11 : i \in {5, 6, 7, 8, 9, 10, 11}
        OBVIOUS
    <3>3. QED
        BY <3>1, <3>2
  <2>6. QED
      BY <2>2, <2>5
<1> HIDE DEF p, T, bh, text
<1>5. /\ name_len(text) \in Nat /\ description_len(text) \in Nat
  <2>1. ASSUME NEW i \in 5 .. 11, i <= Len(text)
        PROVE  text[i] \in ByteRange
    <3>1. text[i] = p[i]
        BY <1>2, <1>3, <2>1
    <3>2. QED
        BY <1>4, <3>1
  <2>2. /\ name_len(text) \in ByteRange
        /\ description_len(text) \in 0 .. SHORT - 1
      BY <1>2, <2>1, FieldTypes
  <2>3. QED
      BY <2>2 DEF ByteRange
<1>6. L > k /\ L \in Nat
  <2>1. L = base + name_len(text) + description_len(text)
      BY DEF HeaderLength
  <2>2. CASE k < base
    <3> HIDE DEF L, base
    <3>1. QED
        BY <1>1, <1>2, <1>5, <2>1, <2>2
  <2>3. CASE k >= base
    <3>1. \A i \in 1 .. 11 : text[i] = p[i]
      <4> HIDE DEF base
      <4>1. \A i \in 1 .. 11 : i <= k
          BY <1>1, <1>2, <2>3
      <4>2. QED
          BY <1>3, <4>1
    <3>2. HeaderLength(text) = Len(Plain(info))
        BY <1>2, <2>3, <3>1, FieldsOf DEF p
    <3>3. QED
        BY <1>1, <1>2, <3>2 DEF p
  <2>4. QED
    <3> HIDE DEF L, base
    <3>1. QED
        BY <1>1, <1>2, <2>2, <2>3
<1>7. parse_header(Opened(text, "file")).info = {} \/ L <= Len(text)
    BY <1>2, <1>5, ParseOutcome
<1> HIDE DEF L
<1>8. parse_header(Opened(text, "file")).info = {}
    BY <1>2, <1>6, <1>7
<1>9. QED
    BY <1>8 DEF text, bh

(* Whatever bytes a file has, a header that parse_header accepts lies      *)
(* within the file and says something that could have been built: a name   *)
(* and a description no longer than their fields can count, and a binary   *)
(* no larger than a rom may be. *)
THEOREM OnlyWhatFitsIsRead ==
    ASSUME NEW text \in Seq(ByteRange),
           NEW info \in parse_header(Opened(text, "file")).info
    PROVE  info \in RomInfo /\ Fits(info) /\ HeaderLength(text) <= Len(text)
<1> DEFINE n == name_len(text)
           d == description_len(text)
           base == BASIC_ROM_INFO_LEN
           L == HeaderLength(text)
           name == [i \in 1 .. n |-> text[base + i]]
           description == SubSeq(text, base + Len(name) + 1, L)
<1>1. n \in ByteRange /\ d \in 0 .. SHORT - 1 /\ size_field(text) \in WordRange
  <2>1. \A i \in 5 .. 11 : i <= Len(text) => text[i] \in ByteRange
      OBVIOUS
  <2>2. QED
      BY <2>1, FieldTypes
<1>2. n \in Nat /\ n < BYTE /\ d \in Nat /\ d < SHORT /\ Len(text) \in Nat
    BY <1>1, Widths DEF ByteRange
<1>3. /\ L <= Len(text) /\ ~(size_field(text) > MAX_ROM_SIZE)
      /\ info = [size |-> size_field(text), name |-> name,
                 description |-> description]
    BY <1>2, ParseOutcome
<1>4. base \in Nat /\ L = base + n + d
    BY RomAssumption DEF BASIC_ROM_INFO_LEN, CHECKSUM_BYTE_INDEX, HeaderLength
<1> HIDE DEF n, d, base, L
<1>5. name \in Seq(ByteRange) /\ Len(name) = n
  <2>1. \A i \in 1 .. n : text[base + i] \in ByteRange
    <3>1. \A i \in 1 .. n : base + i \in 1 .. Len(text)
        BY <1>2, <1>3, <1>4
    <3>2. QED
        BY <3>1
  <2>2. QED
      BY <1>2, <2>1
<1>6. description \in Seq(ByteRange) /\ Len(description) = d
  <2>1. description = SubSeq(text, base + n + 1, L)
      BY <1>5
  <2> HIDE DEF name, description
  <2>2. base + n + 1 \in Nat \ {0} /\ L \in Nat /\ L - (base + n + 1) + 1 = d
      BY <1>2, <1>4
  <2>3. QED
      BY <1>2, <1>3, <1>4, <2>1, <2>2
<1> HIDE DEF name, description
<1>7. info \in RomInfo
    BY <1>1, <1>3, <1>5, <1>6 DEF RomInfo
<1>8. info.size <= MAX_ROM_SIZE
    BY <1>1, <1>3, RomAssumption DEF WordRange
<1>9. QED
    BY <1>2, <1>3, <1>5, <1>6, <1>7, <1>8 DEF Fits, L
=============================================================================
