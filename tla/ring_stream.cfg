SPECIFICATION FairFSpec
CONSTANTS
    BufLen = 96
    MaxPayload = 40
    Large = 28
    NotWorthIt = 16
    Use16Bit = 36
    Lengths = {13, 17, 31}
    TcpFaults = {"refused", "partial"}
CONSTRAINT UntilFault
INVARIANTS IntactTypeOK IntactFramesKept IntactMarkersLead
PROPERTIES WriteEnds FlushEnds IntactIsFrameQueue
