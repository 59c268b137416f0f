SPECIFICATION Spec
CONSTANTS
    Writers = {w1, w2}
    Readers = {r1}
    Keys = {1, 2}
    MaxHeight = 2
    MaxNodes = 4
INVARIANTS TypeOK BottomComplete UpperSound WalkDelivers
PROPERTY ImplementsMap
