SPECIFICATION FSpec
CONSTANTS
    BufLen = 1024
    MaxPayload = 256
    Large = 192
    NotWorthIt = 16
    Use16Bit = 126
    Lengths = {10}
    TcpFaults = {"partial"}
INVARIANT CallbackFindsMarker
