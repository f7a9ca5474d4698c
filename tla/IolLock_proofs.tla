--------------------------- MODULE IolLock_proofs ---------------------------
(* Proofs about IolLock for any set of contexts and any reasons: the lock    *)
(* excludes until iol_task_run clears it under a context that holds it, and  *)
(* until the calls of two contexts overlap no wakeup is lost and no ended    *)
(* task is continued.                                                        *)
EXTENDS IolLockCalls, TLAPS

\* The contexts between mutex_try_enter and mutex_exit.
InMutex(c) == pc[c] \in {"test", "set", "won", "lost"}

\* The global mutex has at most one owner, and while its owner is about to
\* set locked nobody else has set it.
MutexInv ==
    /\ mutex = {c \in Contexts : InMutex(c)}
    /\ \A c, d \in Contexts : InMutex(c) /\ InMutex(d) => c = d
    /\ \A c \in Contexts : At(c, "set") => ~locked

LockInv == TypeOK /\ MutexInv /\ LockHeldByOne

-----------------------------------------------------------------------------
\* The initial state has the types of the lock object.
LEMMA InitType == Init => TypeOK
  BY DEF Init, TypeOK, TaskStates, Locations, Notes

\* Every step keeps the types of the lock object.
LEMMA NextType == TypeOK /\ [Next]_vars => TypeOK'
  <1> SUFFICES ASSUME TypeOK, [Next]_vars PROVE TypeOK'
    OBVIOUS
  <1> USE DEF TypeOK, TaskStates, Locations, GoTo, At
  <1>1. ASSUME NEW c \in Contexts, iol_task_run(c) PROVE TypeOK'
    BY <1>1 DEF iol_task_run
  <1>2. ASSUME NEW c \in Contexts, Event(c) PROVE TypeOK'
    BY <1>2 DEF Event, Notes
  <1>3. ASSUME NEW c \in Contexts, Proceed(c) PROVE TypeOK'
    <2>1. CASE iol_notify(c) \/ SetError(c)
      BY <2>1 DEF iol_notify, SetError
    <2>2. CASE TryEnter(c) \/ TryEnterFails(c)
      BY <2>2 DEF TryEnter, TryEnterFails
    <2>3. CASE TestLocked(c) \/ SetLocked(c) \/ MutexExit(c)
      BY <2>3 DEF TestLocked, SetLocked, MutexExit
    <2>4. CASE Resume(c)
      BY <2>4 DEF Resume
    <2>5. CASE TaskReturns(c)
      BY <2>5 DEF TaskReturns
    <2>6. CASE iol_unlock(c) \/ Recheck(c)
      BY <2>6 DEF iol_unlock, Recheck
    <2>7. QED
      BY <1>3, <2>1, <2>2, <2>3, <2>4, <2>5, <2>6 DEF Proceed
  <1>4. CASE UNCHANGED vars
    BY <1>4 DEF vars
  <1>5. QED
    BY <1>1, <1>2, <1>3, <1>4 DEF Next

\* A step of the specification, without what it remembers.
LEMMA StepIs == [CNext]_<<vars, alone, kept>> => [Next]_vars
  BY DEF CNext

\* Type correctness: the fields of the lock object, the mutex and the task's
\* stack stay in their types through every interleaving of the handlers.
THEOREM TypeCorrect == CSpec => []TypeOK
  <1>1. CInit => TypeOK
    BY InitType DEF CInit
  <1>2. TypeOK /\ [CNext]_<<vars, alone, kept>> => TypeOK'
    BY NextType, StepIs
  <1>3. QED
    BY <1>1, <1>2, PTL DEF CSpec

-----------------------------------------------------------------------------
\* In the initial state nobody holds the mutex or the lock.
LEMMA InitLock == Init => LockInv
  BY InitType
  DEF Init, LockInv, MutexInv, LockHeldByOne, InMutex, Holds, At

\* Every step keeps the mutex and the lock with at most one context each.
LEMMA NextLock ==
  ASSUME LockInv, [Next]_vars, ~Stolen
  PROVE  LockInv'
  <1>1. TypeOK'
    BY NextType DEF LockInv
  <1> USE DEF LockInv, TypeOK, Locations, GoTo, At, InMutex, Holds
  <1>2. ASSUME NEW c \in Contexts, iol_task_run(c) PROVE LockInv'
    <2>1. \A d \in Contexts : ~Holds(d)
      BY <1>2 DEF Stolen
    <2>2. MutexInv'
      BY <1>2 DEF iol_task_run, MutexInv
    <2>3. LockHeldByOne'
      BY <1>2, <2>1 DEF iol_task_run, LockHeldByOne
    <2>4. QED
      BY <1>1, <2>2, <2>3
  <1>3. ASSUME NEW c \in Contexts, Event(c) PROVE LockInv'
    BY <1>1, <1>3 DEF Event, MutexInv, LockHeldByOne
  <1>4. ASSUME NEW c \in Contexts, iol_notify(c) PROVE LockInv'
    BY <1>1, <1>4 DEF iol_notify, MutexInv, LockHeldByOne
  <1>5. ASSUME NEW c \in Contexts, SetError(c) PROVE LockInv'
    BY <1>1, <1>5 DEF SetError, MutexInv, LockHeldByOne
  <1>6. ASSUME NEW c \in Contexts, TryEnter(c) PROVE LockInv'
    BY <1>1, <1>6 DEF TryEnter, MutexInv, LockHeldByOne
  <1>7. ASSUME NEW c \in Contexts, TryEnterFails(c) PROVE LockInv'
    BY <1>1, <1>7 DEF TryEnterFails, MutexInv, LockHeldByOne
  <1>8. ASSUME NEW c \in Contexts, TestLocked(c) PROVE LockInv'
    BY <1>1, <1>8 DEF TestLocked, MutexInv, LockHeldByOne
  <1>9. ASSUME NEW c \in Contexts, SetLocked(c) PROVE LockInv'
    <2>1. MutexInv'
      BY <1>9 DEF SetLocked, MutexInv
    <2>2. LockHeldByOne'
      BY <1>9 DEF SetLocked, MutexInv, LockHeldByOne
    <2>3. QED
      BY <1>1, <2>1, <2>2
  <1>10. ASSUME NEW c \in Contexts, MutexExit(c) PROVE LockInv'
    BY <1>1, <1>10 DEF MutexExit, MutexInv, LockHeldByOne
  <1>11. ASSUME NEW c \in Contexts, Resume(c) PROVE LockInv'
    BY <1>1, <1>11 DEF Resume, MutexInv, LockHeldByOne
  <1>12. ASSUME NEW c \in Contexts, TaskReturns(c) PROVE LockInv'
    BY <1>1, <1>12 DEF TaskReturns, MutexInv, LockHeldByOne
  <1>13. ASSUME NEW c \in Contexts, iol_unlock(c) PROVE LockInv'
    BY <1>1, <1>13 DEF iol_unlock, MutexInv, LockHeldByOne
  <1>14. ASSUME NEW c \in Contexts, Recheck(c) PROVE LockInv'
    BY <1>1, <1>14 DEF Recheck, MutexInv, LockHeldByOne
  <1>15. CASE UNCHANGED vars
    BY <1>1, <1>15 DEF vars, MutexInv, LockHeldByOne
  <1>16. QED
    BY <1>2, <1>3, <1>4, <1>5, <1>6, <1>7, <1>8, <1>9, <1>10, <1>11, <1>12,
       <1>13, <1>14, <1>15 DEF Next, Proceed

\* The inductive invariant of the lock.
KeptInv == kept => LockInv

LEMMA LockInvariant == CSpec => []KeptInv
  <1>1. CInit => KeptInv
    BY InitLock DEF CInit, KeptInv
  <1>2. KeptInv /\ [CNext]_<<vars, alone, kept>> => KeptInv'
    <2> SUFFICES ASSUME KeptInv, [CNext]_<<vars, alone, kept>>, kept'
                 PROVE  LockInv'
      BY DEF KeptInv
    <2>1. CASE CNext
      <3>1. LockInv /\ Next /\ ~Stolen
        BY <2>1 DEF CNext, KeptInv
      <3>2. QED
        BY <3>1, NextLock
    <2>2. CASE UNCHANGED <<vars, alone, kept>>
      <3>1. LockInv /\ UNCHANGED vars
        BY <2>2 DEF KeptInv
      <3>2. QED
        BY <3>1
        DEF LockInv, TypeOK, MutexInv, LockHeldByOne, InMutex, Holds, At, vars
    <2>3. QED
      BY <2>1, <2>2
  <1>3. QED
    BY <1>1, <1>2, PTL DEF CSpec

\* The lock is set exactly while one context is between winning iol_trylock
\* and iol_unlock, for any number of interrupts and cores, until iol_task_run
\* clears it under one of them.
THEOREM LockHeld == CSpec => []KeptLockHeldByOne
  <1>1. KeptInv => KeptLockHeldByOne
    BY DEF KeptInv, LockInv, KeptLockHeldByOne
  <1>2. QED
    BY LockInvariant, <1>1, PTL

\* Until then no two contexts are on the task's stack at once ("don't continue
\* an already running task", iol_lock.h).
THEOREM Exclusion == CSpec => []KeptTaskExclusive
  <1>1. KeptInv => KeptTaskExclusive
    BY DEF KeptInv, LockInv, LockHeldByOne, KeptTaskExclusive, TaskExclusive,
           Holds, At
  <1>2. QED
    BY LockInvariant, <1>1, PTL

-----------------------------------------------------------------------------
(* Calls that do not overlap *)

\* Where the context that calls is decides what the task is: outside its
\* handler the task is suspended exactly when it waits for a reason, nothing it
\* waits for has happened, and on the way to the task the stack is one it may
\* run.
Orderly(c) ==
    /\ pc[c] # "lost"
    /\ pc[c] \in {"enter", "test", "set", "won", "resume"}
         => task = IF c \in starting THEN "new" ELSE "suspended"
    /\ c \in starting
         => pc[c] \in {"enter", "test", "set", "won", "resume"}
    /\ pc[c] = "error" => task = "suspended"
    /\ pc[c] = "run" => task = "running"
    /\ pc[c] \in {"idle", "notify", "unlock", "check"}
         => /\ task \in {"none", "suspended", "ended"}
            /\ task = "suspended" <=> waiting_reason \in Reasons
    /\ pc[c] = "idle" /\ task = "suspended"
         => ~CheckReason(waiting_reason, active_err)
    /\ pc[c] = "notify" /\ task = "suspended"
            /\ CheckReason(waiting_reason, active_err)
         => note[c].reason = waiting_reason

\* Every other context is idle.
Caller(c) ==
    /\ \A d \in Contexts : d # c => At(d, "idle")
    /\ starting \subseteq {c}
    /\ Orderly(c)

AloneInv == alone => kept /\ \E c \in Contexts : Caller(c)

\* In the initial state there is no task and anyone may call.
LEMMA InitAlone == CInit => AloneInv
  <1> SUFFICES ASSUME CInit PROVE \E c \in Contexts : Caller(c)
    BY DEF CInit, AloneInv
  <1>1. PICK c \in Contexts : TRUE
    BY ContextsAssumption
  <1>2. Orderly(c)
    BY ReasonsAssumption DEF CInit, Init, Orderly, CheckReason
  <1>3. QED
    BY <1>1, <1>2 DEF CInit, Init, Caller, At

\* Every step of the caller keeps its order.
LEMMA CallerStep ==
  ASSUME LockInv, NEW c \in Contexts, Caller(c),
         iol_task_run(c) \/ Event(c) \/ Proceed(c)
  PROVE  Caller(c)'
  <1> USE DEF LockInv, TypeOK, Locations, TaskStates, GoTo, At, Caller
  <1>1. CASE iol_task_run(c)
    BY <1>1 DEF iol_task_run, Orderly
  <1>2. CASE Event(c)
    BY <1>2 DEF Event, Orderly, CheckReason, Notes
  <1>3. CASE iol_notify(c)
    BY <1>3 DEF iol_notify, Orderly, CheckReason, Notes
  <1>4. CASE SetError(c)
    BY <1>4 DEF SetError, Orderly
  <1>5. CASE TryEnter(c)
    BY <1>5 DEF TryEnter, Orderly
  <1>6. CASE TryEnterFails(c)
    BY <1>6 DEF TryEnterFails, MutexInv, InMutex
  <1>7. CASE TestLocked(c)
    <2>1. ~locked
      BY <1>7 DEF TestLocked, LockHeldByOne, Holds
    <2>2. QED
      BY <1>7, <2>1 DEF TestLocked, Orderly
  <1>8. CASE SetLocked(c)
    BY <1>8 DEF SetLocked, Orderly
  <1>9. CASE MutexExit(c)
    BY <1>9 DEF MutexExit, Orderly
  <1>10. CASE Resume(c)
    BY <1>10 DEF Resume, Orderly
  <1>11. CASE TaskReturns(c)
    BY <1>11, ReasonsAssumption DEF TaskReturns, Orderly
  <1>12. CASE iol_unlock(c)
    BY <1>12 DEF iol_unlock, Orderly
  <1>13. CASE Recheck(c)
    BY <1>13, ReasonsAssumption DEF Recheck, Orderly, CheckReason
  <1>14. QED
    BY <1>1, <1>2, <1>3, <1>4, <1>5, <1>6, <1>7, <1>8, <1>9, <1>10, <1>11,
       <1>12, <1>13 DEF Proceed

\* While nobody is inside, whoever steps next is the caller.
LEMMA NextCaller ==
  ASSUME TypeOK, NEW c \in Contexts, Caller(c), NEW e \in Contexts,
         iol_task_run(e) \/ Event(e) \/ Proceed(e), ~Overlap'
  PROVE  Caller(e)
  <1>1. CASE e = c
    BY <1>1
  <1>2. CASE e # c
    <2>1. At(e, "idle")
      BY <1>2 DEF Caller
    <2>2. iol_task_run(e) \/ Event(e)
      BY <2>1 DEF Proceed, At, iol_notify, SetError, TryEnter, TryEnterFails,
                  TestLocked, SetLocked, MutexExit, Resume, TaskReturns,
                  iol_unlock, Recheck
    <2>3. pc'[e] # "idle" /\ pc'[c] = pc[c]
      BY <1>2, <2>2 DEF iol_task_run, Event, GoTo, TypeOK
    <2>4. At(c, "idle")
      BY <1>2, <2>3 DEF Overlap, At
    <2>5. starting = {}
      BY <2>4 DEF Caller, Orderly, At
    <2>6. Orderly(e)
      BY <2>1, <2>4, <2>5 DEF Caller, Orderly, At
    <2>7. QED
      BY <2>4, <2>5, <2>6 DEF Caller
  <1>3. QED
    BY <1>1, <1>2

\* Calls that do not overlap cannot take the lock from one another.
LEMMA AloneKeeps ==
  ASSUME TypeOK, Next, ~Overlap'
  PROVE  ~Stolen
  <1> SUFFICES ASSUME NEW c \in Contexts, NEW d \in Contexts,
                      iol_task_run(c), Holds(d)
               PROVE  FALSE
    BY DEF Stolen
  <1>1. c # d /\ pc'[c] = "enter" /\ pc'[d] = pc[d] /\ pc[d] # "idle"
    BY DEF iol_task_run, Holds, At, GoTo, TypeOK
  <1>2. QED
    BY <1>1 DEF Overlap, At

LEMMA AloneInvariant == CSpec => []AloneInv
  <1>1. TypeOK /\ KeptInv /\ AloneInv /\ [CNext]_<<vars, alone, kept>> => AloneInv'
    <2> SUFFICES ASSUME TypeOK, KeptInv, AloneInv,
                        [CNext]_<<vars, alone, kept>>, alone'
                 PROVE  kept' /\ \E c \in Contexts : Caller(c)'
      BY DEF AloneInv
    <2>1. CASE CNext
      <3>1. alone /\ ~Overlap' /\ Next /\ (kept' <=> (kept /\ ~Stolen))
        BY <2>1 DEF CNext
      <3>2. kept /\ LockInv
        BY <3>1 DEF AloneInv, KeptInv
      <3>3. kept'
        BY <3>1, <3>2, AloneKeeps
      <3>4. PICK c \in Contexts : Caller(c)
        BY <3>1 DEF AloneInv
      <3>5. PICK e \in Contexts : iol_task_run(e) \/ Event(e) \/ Proceed(e)
        BY <3>1 DEF Next
      <3>6. Caller(e)
        BY <3>1, <3>4, <3>5, NextCaller
      <3>7. Caller(e)'
        BY <3>2, <3>5, <3>6, CallerStep
      <3>8. QED
        BY <3>3, <3>7
    <2>2. CASE UNCHANGED <<vars, alone, kept>>
      BY <2>2 DEF AloneInv, Caller, Orderly, CheckReason, At, vars
    <2>3. QED
      BY <2>1, <2>2
  <1>2. QED
    BY InitAlone, TypeCorrect, LockInvariant, <1>1, PTL DEF CSpec

\* Until calls overlap no wakeup is lost, however often tasks are started again.
THEOREM SerialNoLostWakeup == CSpec => []AloneNoLostWakeup
  <1>1. AloneInv => AloneNoLostWakeup
    BY DEF AloneInv, Caller, Orderly, AloneNoLostWakeup, NoLostWakeup, At
  <1>2. QED
    BY AloneInvariant, <1>1, PTL

\* Until calls overlap no ended or running task is ever continued.
THEOREM SerialNoResumeAfterEnd == CSpec => []AloneNoResumeAfterEnd
  <1>1. TypeOK /\ AloneInv => AloneNoResumeAfterEnd
    <2> SUFFICES ASSUME TypeOK, NEW c \in Contexts, Caller(c)
                 PROVE  task # "crashed"
      BY DEF AloneInv, AloneNoResumeAfterEnd, NoResumeAfterEnd
    <2>1. pc[c] \in Locations
      BY DEF TypeOK
    <2>2. QED
      BY <2>1 DEF Caller, Orderly, Locations
  <1>2. QED
    BY TypeCorrect, AloneInvariant, <1>1, PTL
=============================================================================
