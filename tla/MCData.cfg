SPECIFICATION Spec
CONSTANTS
    BYTE_BITS = 7
    BYTE = 128
    MEM_SIZE = 127
    INSTRUCTION_MAX_LENGTH = 10
    FloatBits <- DataFloats
    RANDOM_MAX = 7
    RAND_MUL = 13
    RAND_ADD = 11
    ROM_START = 32
    ROM_SIZE = 64
    STACK_BEGIN = 120
    RAND_INITIAL_SEED = 5
    Roms <- DataRoms
    SysNames = {}
    Hash <- NoHash
    Input = {}
    Behind = {0}
    Leftovers = {0}
    Values <- DataValues
    Cell = 100
    Offsets = {90, 110}
INVARIANTS TypeOK FetchInBounds StoresAlias PopUndoesPush
PROPERTIES RegisterFrame UpperBytesKept StoreFootprint FaultsHalt
