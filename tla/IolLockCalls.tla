---------------------------- MODULE IolLockCalls ----------------------------
(* What the I/O task lock promises depends on how it is called. `alone' says *)
(* that so far no two contexts have been in its calls at once, as on a core  *)
(* whose handlers run one after another; `kept' that iol_task_run has not    *)
(* cleared the lock while a context held it.                                 *)
EXTENDS IolLock

VARIABLES alone, kept

Overlap == \E c, d \in Contexts : c # d /\ ~At(c, "idle") /\ ~At(d, "idle")

\* The task of the last connection has ended, but its context has not come to
\* iol_unlock yet.
Stolen == \E c, d \in Contexts : iol_task_run(c) /\ Holds(d)

CInit == Init /\ alone = TRUE /\ kept = TRUE

CNext ==
    /\ Next
    /\ alone' = (alone /\ ~Overlap')
    /\ kept' = (kept /\ ~Stolen)

CSpec == CInit /\ [][CNext]_<<vars, alone, kept>>

FairCSpec == CSpec /\ Fairness

-----------------------------------------------------------------------------
(* Properties *)

\* Two contexts are never on the task's stack at once, however they interleave,
\* until iol_task_run takes the lock away from one.
KeptTaskExclusive == kept => TaskExclusive

\* Until then locked is set exactly while one context is between winning
\* iol_trylock and iol_unlock.
KeptLockHeldByOne == kept => LockHeldByOne

\* As long as calls have not overlapped, no handler returns and leaves a task
\* suspended that it should have woken, through errors, restarts and
\* announcements of reasons that are not ready.
AloneNoLostWakeup == alone => NoLostWakeup

\* As long as calls have not overlapped, no ended or running task is continued.
AloneNoResumeAfterEnd == alone => NoResumeAfterEnd

\* A task whose condition has come true runs again, unless calls overlap.
WaiterRuns ==
    (task = "suspended" /\ CheckReason(waiting_reason, active_err))
        ~> (task # "suspended" \/ ~alone)

\* The lock is always given back, however the calls interleave, unless the
\* task's stack was destroyed by a continue of an ended task or iol_task_run
\* took the lock away.
LockReleased == locked ~> (~locked \/ task = "crashed" \/ ~kept)
=============================================================================
