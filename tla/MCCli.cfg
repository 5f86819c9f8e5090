SPECIFICATION CliSpec
CONSTANTS
    BYTE_BITS = 7
    BYTE = 128
    MEM_SIZE = 127
    INSTRUCTION_MAX_LENGTH = 10
    ROM_START = 32
    Sources <- MCSources
    str_hash <- NoHash
    UNUSED_BYTES_COUNT = 2
    MAX_ROM_SIZE = 16
    SourceFiles <- MCSourceFiles
    Titles <- MCTitles
    Noise = {0, 1, 84, 127}
INVARIANTS BuildThenRun DamageIsContained
PROPERTY CommandsEnd
CHECK_DEADLOCK FALSE
