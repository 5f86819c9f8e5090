------------------------------- MODULE Tx8Cli -------------------------------
(***************************************************************************)
(* The commands of the cli (cli/main.cpp): `build` assembles a source file *)
(* to a rom file, and `run` starts the cpu with the binary of either.      *)
(* Each command is a process of its own, in which the members of the       *)
(* assembler are new.  Between commands the rom file may be damaged.       *)
(*                                                                         *)
(* A file has the bytes that parse_header reads, and the tokens that the   *)
(* lexer makes of it; of a rom it makes at least one that is invalid.  The *)
(* cpu that is started is the one of Tx8Cpu and not modelled here again.   *)
(***************************************************************************)
EXTENDS Tx8Assembler, Tx8Rom

CONSTANTS
    SourceFiles,
    Titles,         \* names and descriptions; the cli has one of each
    Noise           \* what a damaged byte may be

VARIABLES
    files,          \* the file "source", and "rom" after a build
    command,        \* what the shell has started
    stream,         \* the stream of the file the assembler reads
    loaded,         \* what running a file has come to, once it has
    built           \* the rom file as it was built, and what it is to be

cli == <<files, command, stream, loaded, built>>
cliVars == <<vars, cli>>

Idle == [verb |-> "none"]
RomFile(bytes) == [bytes |-> bytes, tokens |-> << [invalid |-> TRUE] >>]
Started(rom) == [ok |-> TRUE, binary |-> rom]

CliInit == /\ Init /\ source = << >>
           /\ \E file \in SourceFiles : files = [name \in {"source"} |-> file]
           /\ command = Idle
           /\ stream = Opened(<< >>, "file")
           /\ loaded = [name \in {"source", "rom"} |-> {}]
           /\ built = [bytes |-> << >>, info |-> [size |-> 0]]

(* An assembler is constructed and called. *)
Assemble(tokens, method) ==
    /\ source' = tokens
    /\ read' = 0 /\ ast' = << >> /\ parser_error' = FALSE
    /\ tables' = NoTables /\ instructions' = << >> /\ position' = 0
    /\ error' = FALSE /\ ran' = FALSE
    /\ call' = method /\ at' = "parse" /\ next' = 1
    /\ output' = NoOutput

-----------------------------------------------------------------------------
(* run.  Bound of the model: a file is run once, but again when damaged. *)

Header(name) == parse_header(Opened(files[name].bytes, "file"))
CanRun(name) == command = Idle /\ name \in DOMAIN files /\ loaded[name] = {}

(* The bytes behind the header; those that the file lacks remain zero. *)
Body(s, size) == [i \in 1 .. size |-> ByteAt(s.text, s.pos + i - 1)]

RunRom(name) ==
    /\ CanRun(name)
    /\ \E info \in Header(name).info :
          loaded' = [loaded EXCEPT
                       ![name] = {Started(Body(Header(name).stream, info.size))}]
    /\ UNCHANGED <<vars, files, command, stream, built>>

(* A file without a valid header is taken for a source. *)
RunSource(name) ==
    /\ CanRun(name) /\ Header(name).info = {}
    /\ command' = [verb |-> "run", file |-> name]
    /\ stream' = seek(Header(name).stream, 0)
    /\ Assemble(files[name].tokens, "generate_binary")
    /\ UNCHANGED <<files, loaded, built>>

(* Without a binary the process exits with an error. *)
RunAssembled ==
    /\ command.verb = "run" /\ at = "host"
    /\ loaded' = [loaded EXCEPT ![command.file] = {output}]
    /\ command' = Idle
    /\ UNCHANGED <<vars, files, stream, built>>

-----------------------------------------------------------------------------
(* build.  The destination must not exist and is created at once; the      *)
(* header goes before a binary that may be missing. *)

Build ==
    /\ command = Idle /\ "rom" \notin DOMAIN files
    /\ \E title \in Titles : command' = [verb |-> "build", title |-> title]
    /\ files' = files @@ ("rom" :> RomFile(<< >>))
    /\ stream' = Opened(files["source"].bytes, "file")
    /\ Assemble(files["source"].tokens, "run")
    /\ UNCHANGED <<loaded, built>>

(* Fault: the size is that of the binary before it is assembled. *)
BuildHeader_early ==
    /\ command.verb = "build" /\ at = "host" /\ call = "run"
    /\ built' = [built EXCEPT !.info = [size |-> 0] @@ command.title]
    /\ files' = [files EXCEPT !["rom"].bytes = build_header(built'.info)]
    /\ Enter /\ call' = "write_binary"
    /\ UNCHANGED <<command, stream, loaded>>

BuildHeader ==
    /\ command.verb = "build" /\ at = "host" /\ call = "run"
    /\ built' = [built EXCEPT !.info = [size |-> position] @@ command.title]
    /\ files' = [files EXCEPT !["rom"].bytes = build_header(built'.info)]
    /\ Enter /\ call' = "write_binary"
    /\ UNCHANGED <<command, stream, loaded>>

BuildBinary ==
    /\ command.verb = "build" /\ at = "host" /\ call = "write_binary"
    /\ files' = [files EXCEPT !["rom"].bytes = @ \o output.binary]
    /\ built' = [built EXCEPT !.bytes = files'["rom"].bytes]
    /\ command' = Idle
    /\ UNCHANGED <<vars, stream, loaded>>

-----------------------------------------------------------------------------
(* The assembler at work.  From a stream that has failed, but is not at    *)
(* its end, next_token returns invalid tokens for ever. *)

Endless == command.verb = "run" /\ stream.fail /\ ~stream.eof

ParseEndless ==
    /\ at = "parse" /\ Endless
    /\ parser_error' = TRUE
    /\ UNCHANGED <<source, read, ast, tables, instructions, position, error,
                   ran, call, at, next, output, cli>>

AssemblerStep == /\ ~(at = "parse" /\ Endless)
                 /\ Work
                 /\ UNCHANGED cli

(* The rom file loses its end, or one of its bytes changes. *)
Damaged == ({SubSeq(built.bytes, 1, i - 1) : i \in DOMAIN built.bytes}
            \cup {[built.bytes EXCEPT ![i] = byte] :
                     i \in DOMAIN built.bytes, byte \in Noise}) \ {built.bytes}
Damage ==
    /\ command = Idle /\ "rom" \in DOMAIN files /\ files["rom"].bytes = built.bytes
    /\ \E bytes \in Damaged : files' = [files EXCEPT !["rom"].bytes = bytes]
    /\ loaded' = [loaded EXCEPT !["rom"] = {}]
    /\ UNCHANGED <<vars, command, stream, built>>

Command == \/ RunAssembled \/ BuildHeader \/ BuildBinary
           \/ AssemblerStep \/ ParseEndless
Shell == \/ \E name \in {"source", "rom"} : RunRom(name) \/ RunSource(name)
         \/ Build
CliNext == Shell \/ Command \/ Damage
CliSpec == CliInit /\ [][CliNext]_cliVars /\ WF_cliVars(Command)
=============================================================================
