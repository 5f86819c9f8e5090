SPECIFICATION Spec
CONSTANTS
    BYTE_BITS = 7
    BYTE = 128
    MEM_SIZE = 127
    INSTRUCTION_MAX_LENGTH = 10
    FloatBits = {0}
    RANDOM_MAX = 7
    RAND_MUL = 13
    RAND_ADD = 11
    ROM_START = 32
    ROM_SIZE = 64
    STACK_BEGIN = 120
    RAND_INITIAL_SEED = 5
    Roms <- HostRoms
    SysNames = {"print_u32", "print", "get", "user"}
    Hash <- HostHash
    Input = {65, 127}
    Behind = {0}
    Leftovers = {0, 200}
    LastWord = 123
    Text = 8471937
INVARIANTS GetBalancesStack
PROPERTIES FailedSetupNeverRuns TableGrows RunEnds
