SPECIFICATION Spec
CONSTANTS
    BYTE_BITS = 2
    BYTE = 4
    FloatBits <- AluFloats
    RANDOM_MAX = 7
    RAND_MUL = 13
    RAND_ADD = 11
    Firsts <- AluFirsts
INVARIANTS
    SubtractionUndoesAddition IncIsAddOne ProductIsWide
    DivisionHasRemainder ShiftsKeepBits RotationsUndo BitsRestore LogicAgrees
    ExtremaKeepBoth
