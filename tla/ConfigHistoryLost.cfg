SPECIFICATION Spec
CONSTANTS
    c1 = c1
    c2 = c2
    blank = blank
    Contents <- MCContents
    Empty = blank
    Mixed = Mixed
    NoFile = NoFile
    Unparsable = Unparsable
    NumHandlers = 2
    StartApplies <- MCStartApplies
    MaxVersion = 3
PROPERTIES
    HistoryNeverRewritten
