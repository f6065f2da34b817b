SPECIFICATION FairSpec
CONSTANTS
    Category = {a, b}
    Name = {n}
    Unselected = undefined
    Null = null
    NoRow = NoRow
    Tab = {t1}
    MaxClicks = 4
    MaxOthers = 1
    MaxStarts = 1
INVARIANTS TypeOK ItemsHaveCategory
CHECK_DEADLOCK FALSE
PROPERTY EveryCallEnds
