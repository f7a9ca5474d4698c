SPECIFICATION FairSpec
CONSTANTS
    Frames <- MCFragments
    MaxFrames = 4
    Interjections = TRUE
    Sizes = {2}
    Byte = 2
    Use16Bit = 2
INVARIANT InOrder
