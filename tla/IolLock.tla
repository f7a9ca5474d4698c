------------------------------- MODULE IolLock -------------------------------
(* The I/O task lock, iol_lock.c: an event handler ("context": an interrupt  *)
(* or a core) announces an event with iol_notify, and the context that wins  *)
(* iol_trylock continues the one task of the lock object on its own thread.  *)
(* Every shared access of lock or mutex is a step of its own; what the       *)
(* callbacks and the task do with user_obj is left to `ready', the set of    *)
(* reasons whose condition check_reason would find true.                     *)
EXTENDS FiniteSets

CONSTANTS
    Contexts,   \* interrupt levels and cores that may call into the lock
    Reasons,    \* what a task can yield for; its result when it ends is End
    End         \* IOL_YIELD_REASON_END, also waiting_reason before any task

ASSUME ContextsAssumption == Contexts # {}
ASSUME ReasonsAssumption == End \notin Reasons

VARIABLES
    mutex,          \* contexts holding global_core_lock
    locked,         \* lock->locked
    waiting_reason, \* lock->waiting_reason
    active_err,     \* lock->active_err # 0
    task,           \* what the stack of lock->waiting_task holds
    ready,          \* reasons whose condition holds in lock->user_obj
    pc,             \* where each context is
    starting,       \* contexts whose next sub_task_run starts the function
    note            \* reason and error of each context's iol_notify

vars == <<mutex, locked, waiting_reason, active_err, task, ready, pc,
          starting, note>>

TaskStates == {"none", "new", "running", "suspended", "ended", "crashed"}
Locations == {"idle", "notify", "error", "enter", "test", "set", "won",
              "lost", "resume", "run", "unlock", "check"}
Notes == [reason : Reasons, err : BOOLEAN]

Init ==
    /\ mutex = {}
    /\ locked = FALSE
    /\ waiting_reason = End
    /\ active_err = FALSE
    /\ task = "none"
    /\ ready = {}
    /\ pc = [c \in Contexts |-> "idle"]
    /\ starting = {}
    /\ note \in [Contexts -> {n \in Notes : ~n.err}]

\* Variant: the error test forgets that an ended task waits for nothing.
CheckReasonOfEnded(reason, err) == err \/ reason \in ready

\* The reason check of the user object: an error wakes any waiting task, a
\* condition wakes the task that waits for it, an ended task is never woken.
CheckReason(reason, err) == (reason # End /\ err) \/ reason \in ready

At(c, here) == pc[c] = here
GoTo(c, there) == pc' = [pc EXCEPT ![c] = there]

-----------------------------------------------------------------------------
(* The calls that enter the lock *)

\* A fresh task is run: the caller has reset its stack. The lock object is the
\* same for every connection, and the next one is accepted once the task of the
\* last has ended, whether or not another context is still inside.
iol_task_run(c) ==
    /\ At(c, "idle")
    /\ task \in {"none", "ended"}
    /\ task' = "new"
    /\ waiting_reason' = End
    /\ active_err' = FALSE
    /\ locked' = FALSE
    /\ starting' = starting \cup {c}
    /\ GoTo(c, "enter")
    /\ UNCHANGED <<mutex, ready, note>>

\* An event: user_obj changes, or an error is reported, and then the reason
\* is announced. The condition need not hold: an acknowledgement of part of
\* the data is announced too.
Event(c) ==
    /\ At(c, "idle")
    /\ \E n \in Notes :
         /\ note' = [note EXCEPT ![c] = n]
         /\ ready' \in {ready, ready \cup {n.reason}}
    /\ GoTo(c, "notify")
    /\ UNCHANGED <<mutex, locked, waiting_reason, active_err, task, starting>>

\* iol_notify reads waiting_reason once, without the lock.
iol_notify(c) ==
    /\ At(c, "notify")
    /\ GoTo(c, IF waiting_reason # note[c].reason THEN "idle"
               ELSE IF note[c].err THEN "error" ELSE "enter")
    /\ UNCHANGED <<mutex, locked, waiting_reason, active_err, task, ready,
                   starting, note>>

SetError(c) ==
    /\ At(c, "error")
    /\ active_err' = TRUE
    /\ GoTo(c, "enter")
    /\ UNCHANGED <<mutex, locked, waiting_reason, task, ready, starting, note>>

-----------------------------------------------------------------------------
(* iol_trylock: mutex_try_enter, the test and the set of locked, mutex_exit *)

\* Variant: mutex_try_enter lets a second owner in.
TryEnterShared(c) ==
    /\ At(c, "enter")
    /\ mutex' = {c}
    /\ GoTo(c, "test")
    /\ UNCHANGED <<locked, waiting_reason, active_err, task, ready, starting,
                   note>>

TryEnter(c) ==
    /\ At(c, "enter")
    /\ mutex = {}
    /\ mutex' = {c}
    /\ GoTo(c, "test")
    /\ UNCHANGED <<locked, waiting_reason, active_err, task, ready, starting,
                   note>>

\* Someone else is inside the mutex: iol_trylock fails whatever locked says.
TryEnterFails(c) ==
    /\ At(c, "enter")
    /\ mutex # {}
    /\ starting' = starting \ {c}
    /\ GoTo(c, "idle")
    /\ UNCHANGED <<mutex, locked, waiting_reason, active_err, task, ready, note>>

\* Variant: iol_trylock sets locked without looking at it.
TestSkipped(c) ==
    /\ At(c, "test")
    /\ GoTo(c, "set")
    /\ UNCHANGED <<mutex, locked, waiting_reason, active_err, task, ready,
                   starting, note>>

TestLocked(c) ==
    /\ At(c, "test")
    /\ GoTo(c, IF locked THEN "lost" ELSE "set")
    /\ UNCHANGED <<mutex, locked, waiting_reason, active_err, task, ready,
                   starting, note>>

SetLocked(c) ==
    /\ At(c, "set")
    /\ locked' = TRUE
    /\ GoTo(c, "won")
    /\ UNCHANGED <<mutex, waiting_reason, active_err, task, ready, starting,
                   note>>

\* Variant: mutex_exit is left out on the path that won the lock.
MutexExitForgotten(c) ==
    /\ pc[c] \in {"won", "lost"}
    /\ mutex' = IF At(c, "won") THEN mutex ELSE {}
    /\ GoTo(c, IF At(c, "won") THEN "resume" ELSE "idle")
    /\ starting' = IF At(c, "won") THEN starting ELSE starting \ {c}
    /\ UNCHANGED <<locked, waiting_reason, active_err, task, ready, note>>

MutexExit(c) ==
    /\ pc[c] \in {"won", "lost"}
    /\ mutex' = {}
    /\ GoTo(c, IF At(c, "won") THEN "resume" ELSE "idle")
    /\ starting' = IF At(c, "won") THEN starting ELSE starting \ {c}
    /\ UNCHANGED <<locked, waiting_reason, active_err, task, ready, note>>

-----------------------------------------------------------------------------
(* The lock holder runs the task and looks for what it missed *)

\* sub_task_run switches to the task's stack. Only a stack that a yield left
\* can be continued.
Resume(c) ==
    /\ At(c, "resume")
    /\ task' = IF task = (IF c \in starting THEN "new" ELSE "suspended")
               THEN "running" ELSE "crashed"
    /\ starting' = starting \ {c}
    /\ GoTo(c, "run")
    /\ UNCHANGED <<mutex, locked, waiting_reason, active_err, ready, note>>

\* Variant: what the task gave back is stored in the wrong field.
TaskReturnsToErr(c) ==
    /\ At(c, "run")
    /\ task = "running"
    /\ active_err' \in Reasons /\ task' = "suspended"
    /\ GoTo(c, "unlock")
    /\ UNCHANGED <<mutex, locked, waiting_reason, ready, starting, note>>

\* The task consumes some of what was ready, then yields or returns; what it
\* gave back is stored as the new waiting reason.
TaskReturns(c) ==
    /\ At(c, "run")
    /\ task = "running"
    /\ \E used \in SUBSET ready : ready' = ready \ used
    /\ \/ waiting_reason' \in Reasons /\ task' = "suspended"
       \/ waiting_reason' = End /\ task' = "ended"
    /\ GoTo(c, "unlock")
    /\ UNCHANGED <<mutex, locked, active_err, starting, note>>

\* Variant: the lock is not given back.
UnlockForgotten(c) ==
    /\ At(c, "unlock")
    /\ GoTo(c, "check")
    /\ UNCHANGED <<mutex, locked, waiting_reason, active_err, task, ready,
                   starting, note>>

iol_unlock(c) ==
    /\ At(c, "unlock")
    /\ locked' = FALSE
    /\ GoTo(c, "check")
    /\ UNCHANGED <<mutex, waiting_reason, active_err, task, ready, starting,
                   note>>

\* Variant: iol_continue runs the task once and does not look again.
RecheckSkipped(c) ==
    /\ At(c, "check")
    /\ GoTo(c, "idle")
    /\ UNCHANGED <<mutex, locked, waiting_reason, active_err, task, ready,
                   starting, note>>

\* The loop of iol_continue, and the same check after the first run.
Recheck(c) ==
    /\ At(c, "check")
    /\ GoTo(c, IF CheckReason(waiting_reason, active_err) THEN "enter"
               ELSE "idle")
    /\ UNCHANGED <<mutex, locked, waiting_reason, active_err, task, ready,
                   starting, note>>

-----------------------------------------------------------------------------
Proceed(c) ==
    \/ iol_notify(c) \/ SetError(c)
    \/ TryEnter(c) \/ TryEnterFails(c) \/ TestLocked(c) \/ SetLocked(c)
    \/ MutexExit(c)
    \/ Resume(c) \/ TaskReturns(c) \/ iol_unlock(c) \/ Recheck(c)

Next == \E c \in Contexts : iol_task_run(c) \/ Event(c) \/ Proceed(c)

Spec == Init /\ [][Next]_vars

\* A handler that was entered runs on; no event has to happen.
Fairness == \A c \in Contexts : WF_vars(Proceed(c))

-----------------------------------------------------------------------------
(* Properties *)

TypeOK ==
    /\ mutex \in SUBSET Contexts
    /\ locked \in BOOLEAN
    /\ waiting_reason \in Reasons \cup {End}
    /\ active_err \in BOOLEAN
    /\ task \in TaskStates
    /\ ready \in SUBSET Reasons
    /\ pc \in [Contexts -> Locations]
    /\ starting \in SUBSET Contexts
    /\ note \in [Contexts -> Notes]

\* "Don't go to upside-down-world": two contexts are never on the task's
\* stack at once.
TaskExclusive ==
    \A c, d \in Contexts : At(c, "run") /\ At(d, "run") => c = d

\* The lock is never leaked and never stolen: it is set exactly while one
\* context is between winning iol_trylock and iol_unlock.
Holds(c) == pc[c] \in {"won", "resume", "run", "unlock"}
LockHeldByOne ==
    /\ locked <=> \E c \in Contexts : Holds(c)
    /\ \A c, d \in Contexts : Holds(c) /\ Holds(d) => c = d

\* Once every handler has returned, a task whose reason to wait is gone, or
\* that has an error to handle, is not left suspended: whoever failed to get
\* the lock relied on the holder's own check.
NoLostWakeup ==
    (task = "suspended" /\ \A c \in Contexts : At(c, "idle"))
        => ~CheckReason(waiting_reason, active_err)

\* An ended or running task is never continued ("that would cause a crash").
NoResumeAfterEnd == task # "crashed"
=============================================================================
