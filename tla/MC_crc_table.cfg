CONSTANTS
    Messages <- OneByte
SPECIFICATION Spec
INVARIANTS
    CrcIsIso3309
