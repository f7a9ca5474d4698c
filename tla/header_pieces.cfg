SPECIFICATION FairSpec
CONSTANTS
    Chars <- MCChars
    Fields <- MCFields
    Websocket <- MCWebsocket
    KeyLen = 2
    Requests <- MCRequests
    Behind <- MCBehind
    MaxPieces = 2
    CutNames = TRUE
    Hashes <- MCHashes
INVARIANT SelectorInList
