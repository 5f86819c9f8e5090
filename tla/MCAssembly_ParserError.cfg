SPECIFICATION Spec
CONSTANTS
    BYTE_BITS = 7
    BYTE = 128
    MEM_SIZE = 127
    INSTRUCTION_MAX_LENGTH = 10
    ROM_START = 32
    Sources <- MCSources
    str_hash <- HashOfNames
    Names = {"x", "y"}
INVARIANT BinaryOnlyIfSuccessful
