CONSTANTS
    v1 = v1
    NoVal = NoVal
    LEAF_MAX_KEYS = 3
    INTERNAL_MAX_KEYS = 2
    MIN_FILE_PAGES = 4
    Keys <- KeysCrash
    Vals <- ValsOne
SPECIFICATION CrashSpec
INVARIANT SyncedRecordsSurviveCrash
CHECK_DEADLOCK FALSE
