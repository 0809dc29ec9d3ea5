CONSTANTS
    Formats = {f1, f2}
    NoFormat = none
    BLOCK_SIZE = 5
    MaxArenas = 3
SPECIFICATION Spec
INVARIANTS SlotsAccounted PointersValid NoAbort
