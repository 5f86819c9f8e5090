SPECIFICATION Spec
CONSTANTS
    BYTE_BITS = 7
    BYTE = 128
    MEM_SIZE = 127
    INSTRUCTION_MAX_LENGTH = 10
    FloatBits = {0}
    RANDOM_MAX = 7
    RAND_MUL = 13
    RAND_ADD = 11
    ROM_START = 32
    ROM_SIZE = 64
    STACK_BEGIN = 120
    RAND_INITIAL_SEED = 5
    Roms <- DivergentRoms
    SysNames = {}
    Hash <- NoHash
    Input = {}
    Behind = {0}
    Leftovers = {0}
INVARIANT PopHonoursO
