CONSTANTS
    Pages <- PagesOne
    Images <- ImagesTwo
    d1 = d1
    d2 = d2
    Zero = Zero
    MaxLsn = 4
    MaxLogLen = 3
SPECIFICATION Spec
INVARIANTS
    AppendedRecordsReadable
