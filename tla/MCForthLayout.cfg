CONSTANTS
    CELL = 4
    NameCap = 7
    DictBase = 4
    RamEnd = 136
    Names <- MCNames
    Texts <- MCTexts
    Codes = {17}
    Lengths = {3}
    MaxWords = 2
    MaxItems = 2
    MaxAllots = 1
SPECIFICATION Spec
CHECK_DEADLOCK FALSE
INVARIANTS
    LayoutTypeOK
    FreshAboveHere
    SearchFindsNewest
    CodeReadsBack
PROPERTIES
    WritesBehindHere
    ListsWords
