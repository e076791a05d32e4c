SPECIFICATION Spec
CONSTANTS
    a = a
    b = b
    old = old
    new = new
    Unset = Unset
    NoArgument = NoArgument
    Clients = {c1, c2}
    Idle = Idle
    InitSections <- MCInitSections
    Commands <- MCCommands
    MaxEdits = 3
SYMMETRY MCSymmetry
INVARIANT KeysUnique
PROPERTIES
    OthersKept
    DoneAsAsked
