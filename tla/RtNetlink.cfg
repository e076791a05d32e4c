SPECIFICATION Spec
CONSTANTS
    i1 = i1
    i2 = i2
    n1 = n1
    n2 = n2
    Indexes <- MCIndexes
    Names <- MCNames
    NoName = NoName
    NoIndex = NoIndex
    MaxChanges = 4
INVARIANTS
    SettledView
    NothingMissed
    NamesAreKnown
CHECK_DEADLOCK FALSE
