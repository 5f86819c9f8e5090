------------------------------- MODULE Tx8Rom -------------------------------
(***************************************************************************)
(* The header of a rom file (core/util.cpp), as it is written and read.    *)
(* Its bytes are                                                           *)
(*   magic (4), length of the name (1) and of the description (2), size of *)
(*   the binary (4), checksum (1), unused, name, description.              *)
(***************************************************************************)
EXTENDS Tx8Word, Tx8Stream, FiniteSetsExt

CONSTANTS
    UNUSED_BYTES_COUNT, \* 52 in the code
    MAX_ROM_SIZE

ASSUME RomAssumption == UNUSED_BYTES_COUNT \in Nat /\ MAX_ROM_SIZE \in Nat

MAGIC == << 84, 88, 56, 0 >>    \* TX8 and a zero byte
CHECKSUM_BYTE_INDEX == 11
BASIC_ROM_INFO_LEN == CHECKSUM_BYTE_INDEX + 1 + UNUSED_BYTES_COUNT

RomInfo == [size : WordRange,
            name : Seq(ByteRange), description : Seq(ByteRange)]

LittleEndian(x, size) == [i \in 1 .. size |-> Digit(x, i - 1)]

(* Exclusive or of all bytes: a bit is set if an odd number of bytes has   *)
(* it. *)
Checksum(bytes) ==
    LET Having(bit) == {i \in DOMAIN bytes : (bytes[i] \div 2 ^ bit) % 2 = 1}
    IN  MapThenSumSet(LAMBDA bit : (Cardinality(Having(bit)) % 2) * 2 ^ bit,
                      0 .. BYTE_BITS - 1)
WithChecksum(bytes, sum) == [bytes EXCEPT ![CHECKSUM_BYTE_INDEX + 1] = sum]

(* The lengths are cast to their fields, but name and description are      *)
(* written as they are. *)
build_header(info) ==
    LET header == MAGIC
                  \o LittleEndian(Len(info.name), 1)
                  \o LittleEndian(Len(info.description), 2)
                  \o LittleEndian(info.size, 4)
                  \o [i \in 1 .. 1 + UNUSED_BYTES_COUNT |-> 0]
                  \o info.name \o info.description
    IN  WithChecksum(header, Checksum(header))

-----------------------------------------------------------------------------
(* The fields of a header; bytes that the file lacks are never initialized *)
(* by the code, which fails later. *)

ByteAt(bytes, index) == IF index < Len(bytes) THEN bytes[index + 1] ELSE 0
name_len(bytes) == ByteAt(bytes, 4)
description_len(bytes) == Compose(ByteAt(bytes, 5), ByteAt(bytes, 6), 0, 0)
size_field(bytes) == Compose(ByteAt(bytes, 7), ByteAt(bytes, 8),
                             ByteAt(bytes, 9), ByteAt(bytes, 10))

HeaderLength(bytes) ==
    BASIC_ROM_INFO_LEN + name_len(bytes) + description_len(bytes)

(* Fault: the checksum is not compared. *)
ChecksumFits_always(bytes) == TRUE

ChecksumFits(bytes) ==
    LET header == SubSeq(bytes, 1, HeaderLength(bytes))
    IN  Checksum(WithChecksum(header, 0)) = ByteAt(bytes, CHECKSUM_BYTE_INDEX)

(* The info of a header, if it has one, and the stream behind what was     *)
(* read.  The names are read, and then the whole header again for its      *)
(* checksum. *)
parse_header(s) ==
    LET bytes == s.text
        magic == get(s, 4)
        sizes == get(magic, 7)
        names == get(seek(get(sizes, 1), BASIC_ROM_INFO_LEN),
                     name_len(bytes) + description_len(bytes))
        header == get(seek(names, 0), HeaderLength(bytes))
        name == [i \in 1 .. name_len(bytes) |-> bytes[BASIC_ROM_INFO_LEN + i]]
        NoInfo(stream) == [info |-> {}, stream |-> stream]
        description == SubSeq(bytes, BASIC_ROM_INFO_LEN + Len(name) + 1,
                              HeaderLength(bytes))
    IN  IF ~IsPrefix(MAGIC, bytes) THEN NoInfo(magic)
        ELSE IF size_field(bytes) > MAX_ROM_SIZE THEN NoInfo(sizes)
        ELSE IF header.fail \/ ~ChecksumFits(bytes) THEN NoInfo(header)
        ELSE [info |-> {[size |-> size_field(bytes), name |-> name,
                         description |-> description]},
              stream |-> header]

-----------------------------------------------------------------------------
(* A header can say it: the name and the description have the length of    *)
(* their fields, and the binary is no larger than a rom may be. *)
Fits(info) == /\ Len(info.name) < BYTE /\ Len(info.description) < SHORT
              /\ info.size <= MAX_ROM_SIZE
=============================================================================
