SPECIFICATION FairSpec
CONSTANTS
    RcvWnd = 3
    SndBuf = 2
    Page <- MCPage
    Response <- MCResponse
INVARIANTS TypeOK ClosedHasEnded WaitCanEnd EndedIsFinal WritesToOpenPcb AcksMatchFrames FraminatorReady
PROPERTIES AnswerEnds ReplyEnds ErrorEndsAnswer PbufsFreed
