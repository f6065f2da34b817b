SPECIFICATION Spec
CONSTANTS
    Category = {a, b}
    Name = {n}
    Unselected = undefined
    Null = null
    NoRow = NoRow
    Tab = {t1}
    MaxClicks = 4
    MaxOthers = 0
    MaxStarts = 0
INVARIANT NewElementAppears
CHECK_DEADLOCK FALSE
