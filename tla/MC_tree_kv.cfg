CONSTANTS
    v1 = v1
    v2 = v2
    NoVal = NoVal
    LEAF_MAX_KEYS = 3
    INTERNAL_MAX_KEYS = 2
    MIN_FILE_PAGES = 4
    Keys <- KeysSmall
    Vals <- ValsTwo
SPECIFICATION TreeSpec
VIEW ShapeView
PROPERTIES
    KVSpec
