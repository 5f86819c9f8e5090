# tx8 in TLA+

Models of tx8, a fantasy computer: a virtual cpu with 16 MB of memory, eight
32-bit registers and some ninety operations (`src/core`), an assembler for it
(`src/asm`), and a command line program that builds and runs programs
(`src/cli`).  Paths below are relative to the repository.

Contents: [inventory](#inventory), [modules](#modules), [runs](#runs),
[bounds](#bounds), [fairness](#fairness), [proofs](#proofs),
[divergences](#divergences-from-the-specification), [limits](#what-is-not-modelled),
[plan](#plan).

## Inventory

| Component | Code | State | Operations |
|---|---|---|---|
| cpu | `src/core/cpu.cpp`, `include/tx8/core/cpu.hpp` | `mem`, `registers`, `rseed`, `halted`, `stopped`, `sys_func_table` | constructor, `register_sysfunc`, `run`, one handler per opcode |
| instruction set | `include/tx8/core/instruction.hpp` | none (tables) | opcode and register names, parameter modes, sizes and masks |
| standard library | `src/core/stdlib.cpp` | none | `print*`, `put`, `get`, called by `sys` |
| assembler | `src/asm/assembler.cpp` | `labels`, `instructions`, `data_section`, `position`, `error`, `ran` | `run` (two passes), `generate_binary`, `write_binary` |
| parser | `src/asm/parser.cpp` | `ast`, `error` | `parse`, recursive descent with one token at a time |
| lexer | `src/asm/lexer.cpp` | position and state bits of the input stream | `next_token` |
| rom header | `src/core/util.cpp` | position and state bits of the stream | `build_header`, `parse_header` |
| cli | `src/cli/main.cpp` | files | `cmd_build`, `cmd_run` |
| log | `src/core/log.cpp` | output stream | formatting |

How they interact: the cli constructs an `Assembler` from a source file, which
pulls an AST from its `Parser`, which pulls tokens from its `Lexer`.  The rom it
generates is copied into the memory of a `CPU`.  The host registers system
functions with the cpu under the hash of their names and calls `run()`, which
executes handlers until `halted` is set; a `sys` instruction calls back into the
host, whose functions call `push` and `top` on the cpu.  Everything happens in
one thread: the hard behaviours are long sequences of legal instructions,
aliasing (one cell reached through three addressing modes, one register through
three widths), implicit channels between instructions (`R`, the stack), errors
that are reported but do not leave the handler they occur in, and the edges of
memory, of words and of the register file.  On the way from a file to a rom they
are a stream that is shared by three readers (header, lexer, and the cli itself),
each of which reads ahead, puts back and may leave it at its end or failed, and
files that are written in steps whatever the step before has come to.

What makes each component correct:

* **cpu, control flow**: a conditional jump after a comparison goes where the
  order of the operands says; calls nest and return; a run ends at `hlt`,
  `stop` or an error, and nothing changes after it.
* **cpu, data**: what is stored through one addressing mode is read through the
  others; a handler changes what it is specified to change and no more; small
  registers keep their upper bytes; `pop` undoes `push`.
* **cpu, arithmetic**: a result and what is left in `R` together lose nothing,
  at each width.
* **cpu, safety**: no program makes the cpu fetch or store outside its memory
  and registers (one known exception: the register number 8, see below).
* **host**: a failed setup never runs a program; the function table is
  unambiguous.
* **assembler**: the cpu decodes what the assembler encodes; labels point at
  what they name; an erroneous source yields no binary.
* **lexer**: the tokens are the lexemes of the text, none lost, none twice; a
  number has the value and the size it is written with, or is no integer; the end
  of any text is reached.
* **parser**: an erroneous source is reported.
* **rom header**: `parse_header` inverts `build_header`, and a header with a
  damaged byte, other than its lengths, is no header.
* **cli**: building a source and running the rom is running the source.

## Modules

The models of the code, each extending the ones above it:

| Module | Models | Correspondence |
|---|---|---|
| `Tx8Word` | `uint8`, `uint16`, `uint32` and casts between them | `Word(x)` is a cast to `uint32`, `Capacity(size)` the number of values of `size` bytes |
| `Tx8Memory` | `CPU::mem_read`, `CPU::mem_write` | `Masked` is `location & MEM_SIZE`, `Clipped` the number of bytes copied |
| `Tx8Isa` | `instruction.hpp` and the helpers `reg_read`, `reg_write`, `parse_instruction`, `get_param_*` | operators of the same names; `RegError`, `ValueError`, `AddressError` are the calls of `error()` in them |
| `Tx8Alu` | what arithmetic handlers compute | `alu(op, a, b, size)` is the set of pairs of a result and of `R` |
| `Tx8Cpu` | constructor, `register_sysfunc`, `run` and all handlers | one action per handler, or per macro that generates handlers |
| `Tx8Encode` | `write_instruction`, `write_parameter`, `calculate_instruction_length` | operators of the same names |
| `Tx8Parser` | `Parser::parse`, `read_instruction`, `read_parameter` | one action per branch of the loop of `parse`, over the tokens of an input |
| `Tx8Assembler` | `Assembler::run`, `generate_binary`, `write_binary` | one action per iteration of the loops of `run`, one for the second pass, entry and return of a call |
| `Tx8Stream` | `std::istream`, as the code uses it (external) | a record of text, position and state bits; one operator per method |
| `Tx8Lexer` | `Lexer::next_token` and its readers | one action per way that a call of `next_token` ends; readers are operators of the same names |
| `Tx8Rom` | `build_header`, `parse_header` | operators of the same names, over sequences of bytes and streams |
| `Tx8Cli` | `cmd_run`, `cmd_build` | extends `Tx8Assembler` and `Tx8Rom`; one action per step of a command between which the assembler works |

`Tx8Cpu` has one variable per member of the class `CPU`, the registers being a
function from register ids.  `phase` says where the thread of the host is
(before `run()`, inside it, after it, or dead by undefined behaviour) and
`table_intact` whether a store has gone to the word behind the registers.  A
step inside `run()` is a whole iteration of its loop: the checks at its head,
fetch, handler, and the increment of `P`.  `Finish(rg, m, err)` is the end
of an iteration in which the handler left the registers `rg` and the memory
`m` behind; `err` tells whether `error()` was called.  `error()` returns to its
caller, so that the rest of the handler takes effect as well: a handler that
reports an error over a parameter still writes its destination.  Only
`CHECK_WRITABLE` and the checks for a division by zero return (`Fault`).

`Tx8Parser` and `Tx8Assembler` have the members of their classes as variables;
`tables` holds those that `handle_label` and `handle_string` update.  A variant
of the code is a record with one field named for the alternative it holds.  The
input is a sequence of tokens, `read` the number of them that the lexer has
returned: at the end of the input `next_token` returns nothing, however often it
is called.  `call`, `at` and `next` say which call of the host is in progress,
in which loop and at which index; `output` is what the last call that yields a
binary has yielded.  A nested call (`write_binary` calls `generate_binary`, each
of them `run`) has no step of its own: `run` does nothing when it is called again,
be it that it `ran`, or that the parser is at the end of its input with its
error.

A stream has the three state bits of `std::ios`, since the code depends on the
way they interact: `peek` at the end sets `eof`, `unget` and `seekg` forget it,
nothing forgets `fail`, `ignore` to the end does not set it.  `putback` of
another character than the one extracted last succeeds on a file, whose buffer
is changed, and makes a stream on a string bad; the tests of the repository read
strings, the cli reads files, and the model has both (`Kinds`).  These rules
were compared with the library the program is built with.

An optional result in `Tx8Lexer` is a set that is empty or has the value.  A string
token has its characters and a float the word it was read from, of which only the
form is checked.

In `Tx8Cli` a command is a process that constructs an assembler anew (`Assemble`
resets its members) and calls it; the steps of the assembler are those of
`Tx8Assembler`.  A file is its bytes, for `parse_header`, together with the
tokens that the lexer makes of it, for the assembler: `Tx8Lexer` is not composed
with it, only what a failed stream does to it is (`Endless`: `next_token` returns
invalid tokens for ever, and the loop of `parse` does not end).  `Damage` is not
the program: between two commands the rom file loses its end or one byte changes.

Undefined behaviour of the code is nondeterminism in the model:

* register number 8 passes the check `id > REGISTER_COUNT`.  The register file
  has a word for it; its initial value is any of `Behind`, and a store to it may
  or may not damage the function table that lies there (`table_intact`), in
  which case a lookup may fail or kill the process.
* an access at an address with more than 24 bits is not clipped at the end of
  the memory, and reaches up to four bytes behind it (`Cells`).  In the
  program's builds those belong to the same allocation.
* `INT_MIN / -1` yields `INT_MIN` or traps (`DivisionTrap`).
* printing a string that no zero byte ends prints something or kills the process
  (`SysCrash`).
* the constructor, given a rom that is too large, returns before it sets the
  members: the memory stays an empty vector (`NoMemory`), and the registers, the
  seed and `stopped` are any of `Leftovers` (`Rejected`).  Its report
  of the error decodes an instruction at the program counter that is left there:
  above the limit of `P` that yields a `nop` and the host has a halted cpu; below,
  it reads through the null pointer of an empty vector, at an address below 16 MB
  where a position independent executable has nothing mapped, and the process dies.

The modules of the runs extend these: `Programs` writes programs as sequences of
instructions and assembles them with `Tx8Encode`; `Flow`, `Data`, `Host` and
`Divergences` choose programs and state properties of the cpu; `AluLaws` and
`Codec` check the pure parts over bounded inputs; `Assembly` states what the
assembler promises, and composes it with the decoder of the cpu; `Lexing` has a
reader of its own for what a text means, a character at a time, and `Cli`
relates files to what running them comes to; `CallDiscipline` is the abstract
specification of `call` and `ret`. An `MC` module gives values to constants that
a `.cfg` cannot write. Definitions that a comment calls a fault are mutations of
the one they are named after, to see the properties fail: no specification uses
them.

## Runs

| Run | Module | Checks | Shows |
|---|---|---|---|
| `flow` | `MCFlow` | `BranchFollowsOrder`, `CallsReturn`, `CallsNest`, `RunReturns`, `HaltIsFinal` | All conditional jumps after `cmp` and `ucmp` of registers of several sizes, over values that differ as bytes, halves and words; recursion through a label, a register and a cell of memory |
| `data` | `MCData` | `TypeOK`, `FetchInBounds`, `StoresAlias`, `PopUndoesPush`, `RegisterFrame`, `UpperBytesKept`, `StoreFootprint`, `FaultsHalt` | Stores by `ld`, `lds`, `lw`, `lws`, `sta` read back through each mode; pushes and pops of each size; 54 operations with every kind of parameter, invalid ones included |
| `alu` | `MCAlu` | nine laws | Operations on a word of eight bits: all bytes and halves and the words near the limits, with every second operand, for the three widths of a destination |
| `host` | `MCHost` | `GetBalancesStack`, `FailedSetupNeverRuns`, `TableGrows`, `RunEnds` | Registrations in any order, before and between runs, with colliding names; a rom that is too large; missing functions; a damaged table; an unterminated string |
| `codec` | `MCCodec` | `DecodeInvertsEncode`, `LengthIsExact` | Every opcode and combination of modes, at both ends of the memory |
| `assembly` | `MCAssembly` | `TypeOK`, `ParserAcceptsLines`, `CpuReadsProgram`, `ErrorsYieldNoBinary`, `CallsAgree`, `CallsComeBack` | Sources of up to three lines with labels used before, behind and without a definition, defined twice, strings in both places; erroneous token sequences; `run`, `generate_binary` and `write_binary` in any order |
| `lexer` | `MCLexer` | `TokensAsWritten`, `NumbersMean`, `LexingEnds` | All texts of up to five of six characters and up to three of fifteen fragments, and numbers of each form around the limits of each type, read from a file and from a string |
| `cli` | `MCCli` | `BuildThenRun`, `DamageIsContained`, `CommandsEnd` | `build` and `run` in any order of six sources (empty, shorter than the magic bytes, with labels and strings, with a label missing, erroneous, too large), three titles; the rom truncated anywhere, or with any one byte changed |
| `parser_error` | `MCAssembly` | `BinaryOnlyIfSuccessful` | Violated: see below |
| `self_jump`, `pop_mode`, `memory_edge` | `Divergences` | one property each | Violated: see below |

`CallsNest` is a refinement: read as return addresses, the stack of a program
that uses it for calls only, together with `P`, implements `CallDiscipline`,
whose steps enter a subroutine (remembering the address behind the call), leave
one (to the address that was remembered last), or do neither.

`ParserAcceptsLines` compares the parser with the grammar by lines, which the
code does not have: it resumes wherever a statement went wrong.
`CpuReadsProgram` loads the binary to the memory of a cpu and decodes it there:
it uses neither the lengths nor the positions that the assembler has computed, so
that an instruction, a label or a string that is out of place by one byte is
seen.

`TokensAsWritten` compares the tokens with those of a reader that looks at each
character once (`ReadAll`) and puts nothing back.  It says what the code does at
the end of a text, where the last lexeme may be lost (`Unread`).  A text from a
string with a comment inside a word is read up to the comment only, since
`putback` makes the stream bad; texts with a carriage return are left out (see
[divergences](#divergences-from-the-specification)).

`BuildThenRun` is the composition of `build_header`, the assembler and
`parse_header`: what is run is compared with what running the source comes to.
`CommandsEnd` excludes exactly the files for which the program does not end
(`TooShort`).

`RegisterFrame` is the specification's statement that an operation not said to
change `R` does not, extended to all registers.  It is stated from the list of
operations in `spec/spec.md`, not from the handlers.

## Bounds

Integers of TLC have 32 bits, so that a byte of the model is smaller than that
of the code: 7 bits (`BYTE = 128`) where the cpu runs, which is the least that
holds every opcode (up to 0x78) and every valid byte of modes (up to 0x77), and
2 bits in `alu`, where every word is a second operand and the first ones are all
bytes and halves and the words near the limits (`Firsts`).  Nothing in the code depends
on the number of bits in a byte but the constants, which the models derive from
`BYTE_BITS`, and the proofs hold for any.

`MEM_SIZE` is 127 and the rom begins at 32: room for the programs (at most ten
instructions), for a cell and for a stack of four words, with both ends of
memory in reach.  `MEM_SIZE` is one less than a power of two as in the code, so
that the mask is a remainder.  `RAND_MUL` and `RAND_ADD` are small numbers; no property
depends on the sequence.  `FloatBits` stands for what float operations yield.

The programs are families in which each parameter that matters takes values on
both sides of its limits: values that are negative at one width and not at
another, offsets `O` below and above a cell, the least word, register numbers
without a register (8, 9, 48) and a mode that does not exist.  `Leftovers` of `host` has a word
below the limit of `P` and one above it, for each member on its own.  Recursions are
two and three deep.  All programs of `flow` end by construction (they count
down), so that `RunReturns` is about the code's loop and handlers.

The sources of `assembly` are all sequences of up to three of nine lines and of
up to four of seven tokens.  Three lines suffice for a reference before and one behind
a label, for two definitions of it, and for two strings with a node between them;
four tokens for an instruction of two parameters that goes wrong at any place,
with one token behind it to be lost or read.

`lexer` has bytes of two bits, so that the limits of its integer types are numbers
of at most three digits, and all words are short enough for `stoll`.  Five
characters hold a string with an escape in it, or a word with a comment inside
and a line behind it; `MAX_CALLS` is above the number of tokens of any of the
texts, so that `LexingEnds` is about the lexer.  Three fragments hold
one lexeme of each kind between two others.

`cli` has bytes of seven bits, two unused bytes in the place of 52
(`UNUSED_BYTES_COUNT`), and a `MAX_ROM_SIZE` that one of the sources is beyond and the others
are below.  One title is longer than its field by two, so that the length
wraps.  Each file is run once and the rom once more when damaged; the rom is damaged
once: all positions, each with the bytes of `Noise`.

## Fairness

`Spec` of `Tx8Assembler` has weak fairness on `Work`, the thread inside a call,
and none on the host's calls; the argument is the one for the cpu.

`Spec` of `Tx8Lexer` has weak fairness on `Call`: the parser calls `next_token` in a
loop as long as it gets a token.  `CliSpec` has weak fairness on `Command`, a
process that has been started; nothing is assumed of the user who starts
commands (`Shell`), nor of `Damage`.

`Spec` of `Tx8Cpu` has weak fairness on `Loop`, the thread inside `run()`: it is
a `while` loop that does not block, in a process the operating system schedules.
Nothing is assumed of the host: it may never call `run()`.

## Proofs

Eight modules hold proofs.  Each extends the module it is about, and all but the
first extend `Tx8Isa_proofs`, whose lemmas about words, memory, registers and
encoded instructions the others cite.

The theorems hold for every value of the constants under the assumptions stated
with them: `ByteAssumption` (a byte has some number of bits), `MemAssumption`,
`RandAssumption`, `CpuAssumption` (at least 128 and at most 256 values of a byte, a rom
that lies in the memory, instructions of ten bytes at most), `CodecAssumption`,
`LawsAssumption` (a byte has two bits or more), `SourceAssumption`,
`NamesAssumption`, `OriginAssumption` and `RomAssumption`.  The runs evaluate them.  In particular
they hold for bytes of eight bits, 16 MB of memory, any rom, table of functions,
hash and source.

### Words, memory, registers (`Tx8Isa_proofs`)

* `ReadAfterWrite`, `ReadElsewhere`: memory is memory, for accesses of any size
  that do not cross its end.  `mem_write` stores digits and `mem_read` composes
  them; the argument is digit by digit (`AppendDigit`).
* `RegReadAfterWrite`: the same for registers of each width.

### Cpu and its host (`Tx8Cpu_proofs`, `Data_proofs`, `Host_proofs`)

* `TypeCorrect`: `Spec => []TypeOK`.  `TypeOK` is inductive as it stands (a
  cpu without memory is halted, and stays so), since
  the code checks no address and relies on masks, truncation and clipping
  instead: after any handler, whatever its parameters are, the memory holds
  bytes at its cells and the registers words.  The argument goes bottom up: a
  number of which the bytes are bytes is a word (`ComposeType`), an access stays
  within the cells (`AccessRange`), a write to a small register keeps the range
  of the word since each width divides it (`ReplaceLow`, `CapacityDivides`,
  `RegWriteType`), what is decoded has one to ten bytes (`ParseType`);
  then one step per handler (`InstructionType`).
* `FetchesInBounds`: `Spec => []FetchInBounds`.  With `TypeOK`, the check of `P`
  in `run()` leaves room for the ten bytes the decoder reads at most.
* `HaltedStays`: `Spec => HaltIsFinal`.  No handler is enabled in a halted
  machine, and a registration can only halt it.
* `RegistersFramed`, `UpperBytesStay`, `StoresBounded`: `Spec => RegisterFrame`,
  `Spec => UpperBytesKept`, `Spec => StoreFootprint`.  The run `data` has a few
  programs for each; these are about any rom, with instructions that decode to
  nothing, registers that do not exist and handlers that go on after an error.
  They need `TypeOK` only: each handler is shown to leave the loop with registers
  and memory that differ from the old ones in nothing else (`Sound`).
* `FaultsEndTheRun`: `Spec => FaultsHalt`.
* `CallsNestAlways`: the cpu refines `CallDiscipline`,
  `Spec /\ Accepted /\ []StackHolds /\ [][OthersKeepTheStack]_vars => CallsNest`.  `call` is
  the abstract step `Enter` (`CallEnters`), `ret` is `Leave` (`RetLeaves`), and
  anything else `Local` (`OthersStay`).  The inductive invariant is that `S` is a
  whole number of return addresses below `STACK_BEGIN` (`Stacked`): without it
  the sequence read from the stack would not begin at `S`.  `FramePushed`,
  `FramePopped` and `FramesKept` say what writing, popping and leaving alone do to
  that sequence.

  `Accepted` says that the rom fits: else `S` is not even initialized.  The
  other hypotheses are about the program, and the programs of `flow` satisfy
  them.  `OthersKeepTheStack`: it uses the stack for calls only, since the code
  lets any store, `push` or `ld s` change a return address.  `StackHolds`: the
  stack has room for a call and an address for a `ret`, neither of which the code
  checks, and no `ret` returns to its own address.  The proof
  asked for the last one: `run()` takes such a `ret` for an instruction that
  does not jump and goes on behind it (see *Jump to itself* below).  A `call` of
  the `ret` that follows it leads there.
* `BranchesAsCompared`: `cmp` leaves a sign in `R` as an unsigned word, and the
  jump reads it as a signed one.  The jump holds exactly if the
  difference of the operands has the sign it asks for, for words of any size.
* `PushStores`, `PopLoads`: what `push` leaves on top of the stack, and `pop`
  takes from there, for parameters of each size.
* `TableOnlyGrows`: `Spec => TableGrows`.  The inductive invariant is that no
  hash occurs twice in the table (`Unambiguous`); a registration is the only step that
  changes it, and refuses a hash that is there.
* `FailedSetupIsFinal`: `Spec => FailedSetupNeverRuns`.  A cpu that
  is halted before `run()` stays halted, with `P` where it is, and the process
  goes on (`Jammed`).  Nothing is assumed of where that is: a rejected rom leaves any
  word in `P`.  `P` stands for the whole machine, which `HaltedStays` is about,
  since no instruction leaves it as it was.

### Whole programs (`Flow_proofs`, `Data_proofs`, `Host_proofs`)

These theorems are about programs as the cpu runs them, from the bytes that the
assembler's encoder writes to the values at the end.  Three layers carry them:
the bytes of a program in the memory are its instructions one after another
(`Assembled`, `Listing`), as long as nothing is stored there (`LiesKept`); the cpu at the
`k`-th of them fetches just that one (`Fetched`), and anything else the thread or
the host does leaves registers and memory alone (`AsideOrInstruction`); and
for each kind of instruction there is a lemma that says what it does to the
machine, from the handler (`LwStep`, `LdxStep`, `CmpStep`, `JumpStep`, `CountStep`,
`CallStep`, `RetStep`, ... in `Tx8Cpu_proofs`).  The invariants say at which
instruction the program is and what the registers it uses hold there.

* `BranchesFollowOrder`: `Spec /\ []SetupHolds => []BranchFollowsOrder`, for all
  words and for registers of each width.  At the jump, `R` is what makes the
  jump hold exactly if the operands have that order (`BranchAt`), which
  `BranchesAsCompared` gives; behind it, the instruction says which way it went.
* `CallsAllReturn`: `Spec /\ []SetupHolds => []CallsReturn`, for every depth that a
  byte can say.  The invariant (`RecursionInv`) counts: so many calls
  are not finished, each has left the address behind it below `STACK_BEGIN`, the
  outermost one that of the main program, and `A` and `C` are what the number of calls says.

  `FlowHolds` are the hypotheses about the constants: the programs fit where they are
  loaded, and the stack has room for the depth, apart from them; so it is for the
  values of the code, where `STACK_BEGIN` is 8 KiB above the end of the rom.
  `SetupHolds` says that no registration failed before `run()`: else the program
  is never begun (`FailedSetupIsFinal`).
* `ValuesPassMemory`: `Spec /\ []SetupHolds /\ TransferLoaded => []StoresAlias`, for
  every value and every offset of the cell from `O`.  An address relative to `O`
  has 24 bits and wraps at the memory: it leads to the cell because
  the memory's size divides that of an address (`RelativePlace`).  The invariant
  (`TransferInv`) says what the cell holds around the store; `LoadLands` shows that the four
  handlers of the loads leave there what `StoresAlias` asks for.
* `PopsUndoPushes`: `Spec /\ []SetupHolds /\ StackLoaded => []PopUndoesPush`, for
  every value, sizes of one, two and four bytes, and every kind of source, a word
  of the program itself included (`LoadedConstant`).  The invariant (`StackInv`)
  says that between the two the low bytes of the value are on top of the stack.

  `DataHolds` are the hypotheses of the two about the constants: the programs fit, the cell and
  the word below `STACK_BEGIN` lie apart from them, both can be named in an
  instruction, and the memory's size divides that of an address.  So it is for the values of
  the code and those of `MCData.cfg`.  `TransferLoaded` and `StackLoaded` say of the first state
  that the rom is one of those programs: `DataRoms` also has the single
  instructions, which may store over themselves.
* `GetIsBalanced`: `Spec /\ Loaded(...) => []GetBalancesStack` for the program that calls
  `get`, for every input and every order of registrations, failed ones and a missing `get`
  included.  The function pushes its result below the `S` the cpu has, and the
  program pops it.  `GetCallable` are its hypotheses: no other name has the
  hash of `get`, and the program fits in the rom, apart from the top of the stack.

### Arithmetic (`AluLaws_proofs`)

All nine laws of the run `alu` are proved for words of any number of bits, all
operands and the three widths; that both operands stay in their range (`Operands`)
is the invariant.

* `IncIsAddition`, `SubtractionUndoes`, `ProductsAreWide`,
  `DivisionsHaveRemainders`, `ExtremaKeep`: sums, products, quotients, maxima.  The
  arithmetic is nonlinear, so that the proofs go by lemmas about quotients
  and residues that are stated for arbitrary moduli (`Congruent`, `Truncated`,
  `NextResidue`).
* `LogicLaws`, `ShiftsLoseNothing`, `BitsAreRestored`, `RotationsAreUndone`:
  operations on bits.  A word is treated as the set of positions of its bits:
  each set of positions below a width is that of exactly one number of
  that width (`BitsFrom`, `SumOfBits`, `SameBits`, on powers of two and their
  sums: `Powers`, `PowerSum`, `SumBits`).  Then the logical operations are those on
  sets (`LogicBits`), a shift moves positions and divides or multiplies by a power
  (`ShiftedOut`), and a rotation permutes the positions below the
  width of the destination, while the other ones stay out of it
  (`RightBits`, `LeftBits`, `OppositeCount`).

### Instructions and rom headers as bytes (`Formats_proofs`)

* `DecoderInverts`: `Spec => []DecodeInvertsEncode`, whatever bytes surround the
  instruction.  The encoder is a concatenation; the proof finds the bytes of each part
  at its place, and the decoder's byte of modes from its two digits.
* `LengthsAgree`: `Spec => []LengthIsExact`.
* `HeaderReadBack`: what `build_header` writes, `parse_header` reads back, for
  each info that its fields can say (`Fits`), and the stream is left at the
  first byte behind it.
* `CutHeaderRejected`: any proper prefix of such a header is rejected.
* `OnlyWhatFitsIsRead`: an info that is accepted, whatever the bytes are, fits its
  fields and the memory, and its header ends within the file.

### Assembler (`Assembly_proofs`)

* `BinaryIsFinal`: `Spec => CallsAgree`.  The inductive invariant
  `AgreeInv` says that a binary was returned only after `run` had finished
  (`ran`) or after the parser had used up its input with an error, and that it
  is the one the members describe.  `PhaseInv` is needed for it: the passes,
  which change those members, begin only when neither is the case.
* `BinaryIffLabelsClear`: `Spec /\ []PositionsFit => []ErrorsYieldNoBinary`.  The
  property speaks about the end of a call only; the inductive invariant
  `ClearInv` says what the passes have achieved so far.  A name is in the
  table once it was used or defined, and has a position exactly if one of the
  nodes handled defines it (`LabelsPlaced`; `StringsPlaced` for the labels of
  strings); `error` is set exactly if two of these nodes define the same name;
  and the instructions collected are those of the nodes, parameter for parameter,
  with the number of a label for its name (`Encoded`), so that the second
  pass fails exactly if a name used was never defined.  That a new assembler has
  none of this (`FreshInv`) and that nothing happens after a finished run
  (`EndInv`) complete it.

  Hypothesis `PositionsFit`: the code marks a label that has no position by the
  highest address, `INVALID_LABEL_ADDRESS`.  A label that lies there counts as not
  defined.  In the program that takes a binary of almost 4 GiB; in every run
  the hypothesis holds.
* `BinaryReadsAsSource`: `Spec /\ []PositionsFit => [](BinaryFits => CpuReadsProgram)`.
  The binary is a concatenation of as many parts as the source has nodes; the
  invariant says where each part begins.  During the first pass (`LayoutInv`),
  the instruction of each node handled lies where the lengths before it add up to, a
  label lies at the node behind it, and a string behind the code at the
  sum of the strings before it; after the second pass (`FinalInv`) the parts
  are the bytes of these instructions with positions for names.
  The decoder is then applied to each part with `Decoded`, the lemma that
  `DecoderInverts` rests on.

  Hypotheses: `PositionsFit`, and `BinaryFits`, that the binary lies in
  memory: the cpu reads nothing beyond it.
* `MembersTyped`: `Spec => [](LabelsFit => TypeOK)`.  Positions are computed in
  32 bits and wrap, ids of labels are not truncated; `LabelsFit` says that there are no more
  names than words.
* `ParserReadsLines`: `Spec => []ParserAcceptsLines`.  The parser is a recursive
  descent that reads one token at a time, backs out of an
  instruction at the first token that is not a parameter and goes on behind an
  error.  The invariant `ParsedInv` relates what it has consumed to a
  division of the tokens into lines, each a node, an empty line or neither: as long as there
  was no error, the nodes it has are those of the lines that end
  before the place it is at (`Joins`, `Within`).

### What the proofs changed

* `FaultsHalt` said that a parameter without a register always halts the cpu.
  The proof failed for a division of which the dividend is read through such a
  parameter: the error is reported, but only recorded behind the handler, and the
  value that is used instead may be one whose division traps.  The process is gone
  then; the property says so now.  `data` has no such program.
* The operators of `Tx8Stream` and `parse_header` were `CASE`s with guards that
  overlap, of which TLC takes the first but the logic any; they are
  `IF`s now.
* A name in a token is wrapped as a sequence of one (`Name`), which the proof that
  nodes are told apart by their contents needs; `ROM_START` got its assumption
  in the assembler (`OriginAssumption`), and a set of the names in the sources
  is a parameter of `Assembly` (`NamesAssumption`).
* Recursive functions in place of folds and of `^`, about which the provers know
  nothing: `Addresses` in `CpuReadsProgram`, `Offset` in `Programs`, `Pow2` and
  `FromBits` in the arithmetic.  `ParserAcceptsLines` takes the lines by their ends in place of a
  recursive splitting of the tokens.

### Only model-checked

* Liveness: `RunReturns`, `RunEnds`, `CallsComeBack`, `LexingEnds`, `CommandsEnd`
  are out of the prover's reach.
* `TokensAsWritten` and `NumbersMean`, which compare the lexer with a reference that is
  `RECURSIVE` over the characters of a text; the provers have no
  induction over data.  (Induction over numbers they have, by the
  least number that is not in a set, `InductionUpTo`: the theorems about sums of bits
  and about the parts of a binary use it.)
* The part of `DamageIsContained` that one changed byte changes the checksum; that
  a cut header is rejected is proved.
* `BuildThenRun` and the rest of `DamageIsContained`: the theorems about the
  header are the part of them that is about the header.

## Divergences from the specification

Found while modelling, each shown by a run on a program of a few instructions:

* **Jump to itself** (`self_jump`).  `run()` compares `P` before and after the
  handler (`src/core/cpu.cpp:76`): a jump to its own address counts as no jump,
  and falls through.  `spec/spec.md:229` says `P` is not incremented after `jmp`.
  The same goes for a `ret` to its own address.
* **pop ignores the mode** (`pop_mode`).  `op_pop` stores to the value of the
  parameter (`src/core/cpu.cpp:393`): the register `O` is not added to a relative
  address (`spec/spec.md:113`).
* **Edge of the memory** (`memory_edge`).  The clip is computed from the address
  before it is truncated (`src/core/cpu.cpp:204`), against `spec/spec.md:32-34`.
* **Error of the parser** (`parser_error`).  `run()` returns after one without
  setting `error` (`src/asm/assembler.cpp:24`), so that `generate_binary` returns
  an empty binary and `write_binary` reports success, against
  `include/tx8/asm/assembler.hpp:76` and `:79`.  The cli runs or writes an empty
  rom then.

Found in the lexer, the header and the cli.  These are part of the models, and the
properties are stated so that they show where the code differs; no run of its own
is about them:

* **A file that ends early** (`CommandsEnd`, `TooShort`).  `run` of a file that is
  shorter than four bytes, or of a rom that ends within its header, does not
  return: `parse_header` leaves the stream failed, `seekg(0)`
  (`src/cli/main.cpp:25`) forgets the end of the file but not the failure, and
  `next_token` tests only `eof` and `bad` (`src/asm/lexer.cpp:161`).  Seen with
  the compiled program as well.
* **The last token** (`Unread`).  A lexeme of one character at the end of a file
  without a line end is lost, as is the last line end: `readSpace` does not put
  back what it has read when the end follows (`src/asm/lexer.cpp:21`).
* **Comments in a word from a string** (`CommentInWord`).  In `x;comment` the
  semicolon is put back over the `t`, which a string stream refuses
  (`src/asm/lexer.cpp:181`): everything behind it is lost.
* **Carriage returns**.  The grammar has `eol = \n|\r\n`
  (`spec/tx8_asm_language.md:24`); `readSpace` takes `\r` for the beginning of a
  word, and the extraction of the word skips it together with the line end.
* **Registers** are recognised by their first two characters
  (`instruction.hpp:299`): any word that begins with one of the letters and is
  no opcode is a register, a misspelt opcode as well.
* **Integers** out of the range of their type are tried as floats, so that
  `300000000000` is a float; `5x1`, which is hexadecimal 1, and `--1` are accepted,
  and the suffixes `i` and `u` of the grammar (`spec/tx8_asm_language.md:19`) are not.
* **Titles** longer than their fields are not truncated, against
  `include/tx8/core/util.hpp:45`: only the length is (`src/core/util.cpp:71`), so
  that the rest of the text is taken for the binary, or the checksum fails.
* **A label error** makes `build` write a header without a binary, which `run`
  takes for a rom full of zeros (`BuildThenRun`); `run` of such a source asks the
  log of errors for its text (`src/cli/main.cpp:30`), which that log, writing to
  a stream, does not keep.  The model ends the command there.

## What is not modelled

* Values of floating point operations (the handlers are, with any result), the
  text that is printed or logged, `format_as` functions: no decision of the
  program depends on them.
* In the lexer, numbers too long for `stoll`, floats with an exponent, `inf` and
  `nan`, and the names `IN_xx` of opcodes without an operation.
* The log (`src/core/log.cpp`), and the options of the cli, which a library parses.
* `str_hash` is any function of the names, so that collisions happen in small
  instances.

## Plan

1. *Done*: cpu, instruction set, standard library, host, encoding.
2. *Done*: `Tx8Parser` and `Tx8Assembler`.
3. *Done*: `Tx8Stream` and `Tx8Lexer`.
4. *Done*: `Tx8Rom` and `Tx8Cli`.
5. *Done*: the proofs above: types, frames and faults of the cpu, the table of
   functions, memory and registers, encoding, the laws of arithmetic, the header,
   labels and the bytes of a binary, the parser, nesting of calls, branches, `push`
   and `pop`, and the programs of `Flow` and `Data` from their bytes to their ends.
6. Left: the length of the rom that `build` writes.
