SPECIFICATION FairCSpec
CONSTANTS
    c1 = c1
    c2 = c2
    read = read
    flush = flush
    End = End
    Contexts = {c1, c2}
    Reasons = {read, flush}
INVARIANTS TypeOK KeptTaskExclusive KeptLockHeldByOne AloneNoLostWakeup AloneNoResumeAfterEnd
PROPERTIES WaiterRuns LockReleased
\* Both contexts may end up on the stack of a task that was continued wrongly.
CHECK_DEADLOCK FALSE
