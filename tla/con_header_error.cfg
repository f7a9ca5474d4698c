SPECIFICATION FairSpec
CONSTANTS
    RcvWnd = 3
    SndBuf = 2
    Page <- MCPage
    Response <- MCResponse
PROPERTY ErrorEndsTask
