SPECIFICATION Spec
CONSTANTS
    BYTE_BITS = 7
    BYTE = 128
    MEM_SIZE = 127
    INSTRUCTION_MAX_LENGTH = 10
    Values <- CodecValues
    Places = {0, 116}
    Noise = {127}
INVARIANTS DecodeInvertsEncode LengthIsExact
