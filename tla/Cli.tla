-------------------------------- MODULE Cli --------------------------------
(***************************************************************************)
(* What the commands promise of the files they read and write.             *)
(***************************************************************************)
EXTENDS Tx8Cli

RomWritten == "rom" \in DOMAIN files /\ command = Idle
Intact == RomWritten /\ files["rom"].bytes = built.bytes

(* The header of a rom says what was built, and running the rom comes to   *)
(* the same as running the source: the same binary, or, if a label is      *)
(* missing, zeros in its place.  A title that is too long for its fields   *)
(* is never read again as it was; a rom with a larger binary is run as a   *)
(* source, which comes to nothing. *)
BuildThenRun ==
    Intact =>
        /\ Fits(built.info) => Header("rom").info = {built.info}
        /\ ~Fits(built.info) => built.info \notin Header("rom").info
        /\ \A src \in loaded["source"], rom \in loaded["rom"] :
              /\ src.ok => built.info.size = Len(src.binary)
              /\ Fits(built.info) =>
                    IF src.ok THEN rom = src
                    ELSE rom.ok /\ ToSet(rom.binary) \subseteq {0}
              /\ built.info.size > MAX_ROM_SIZE => rom = Started(<< >>)

(* Bytes of the rom as it was built that the file has lost or changed. *)
Harmed == {i \in DOMAIN built.bytes :
              i > Len(files["rom"].bytes) \/ files["rom"].bytes[i] # built.bytes[i]}
Lengths == 5 .. 7

(* A rom is not run if any byte of its header is not as it was built, but  *)
(* for the lengths, which a checksum over as many bytes cannot protect.    *)
(* Damage behind the header reaches no other byte of the binary. *)
DamageIsContained ==
    RomWritten /\ Fits(built.info) =>
        LET end == HeaderLength(built.bytes) IN
        \A rom \in loaded["rom"] :
            /\ Harmed \cap (1 .. end \ Lengths) # {} => rom = Started(<< >>)
            /\ Harmed \cap 1 .. end = {} =>
                  \A i \in 1 .. built.info.size :
                      end + i \in DOMAIN built.bytes \ Harmed =>
                          rom.binary[i] = built.bytes[end + i]

(* A file is shorter than the magic bytes, or than the header that it      *)
(* begins with. *)
TooShort(bytes) ==
    \/ Len(bytes) < Len(MAGIC)
    \/ /\ IsPrefix(MAGIC, bytes)
       /\ \/ Len(bytes) < CHECKSUM_BYTE_INDEX
          \/ /\ size_field(bytes) <= MAX_ROM_SIZE
             /\ Len(bytes) < HeaderLength(bytes)

(* Every command ends, but for a run of such a file: parse_header leaves   *)
(* a failed stream behind, from which the assembler reads for ever. *)
CommandsEnd ==
    command # Idle ~>
        \/ command = Idle
        \/ command.verb = "run" /\ TooShort(files[command.file].bytes)
=============================================================================
