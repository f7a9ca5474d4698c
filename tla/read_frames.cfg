SPECIFICATION FairSpec
CONSTANTS
    Frames <- MCFrames
    MaxFrames = 3
    Interjections = FALSE
    Sizes = {2, 7}
    Byte = 2
    Use16Bit = 2
INVARIANTS TypeOK InOrder InStep
PROPERTY ReadEnds
