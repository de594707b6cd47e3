SPECIFICATION Spec
CONSTANTS
    Packets <- MCPackets
    Lengths = {4, 6, 12}
    PointerSize = 2
    UintSize = 2
    FreshTypes = {"OBJECT", "ARRAY", "KEY"}
    MaxParses = 3
INVARIANT ItemsReadBack
INVARIANT NotesPointToValues
INVARIANT WholeOrLeftOut
INVARIANT StackReturns
CHECK_DEADLOCK FALSE
