SPECIFICATION Spec
CONSTANTS
    BYTE_BITS = 2
    BYTE = 4
    MEM_SIZE = 63
    INSTRUCTION_MAX_LENGTH = 10
    MAX_CALLS = 12
    Texts <- MCTexts
INVARIANTS TokensAsWritten NumbersMean
PROPERTY LexingEnds
CHECK_DEADLOCK FALSE
