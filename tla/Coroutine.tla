------------------------------ MODULE Coroutine ------------------------------
(* What sub_task.h promises: two threads that take turns, each of which      *)
(* finds its registers, its stack and the place it called from as it left    *)
(* them. A task that has ended, and no other, can be reset and its stack     *)
(* used for a new one.                                                       *)
CONSTANT Contexts   \* what a thread may find when it goes on

VARIABLES
    life,       \* of the task
    main, task  \* the contexts of the two threads

vars == <<life, main, task>>

Init == life = "none" /\ main \in Contexts /\ task \in Contexts

\* The thread whose turn it is computes; the other's context is left alone.
MainWorks ==
    /\ life # "running"
    /\ main' \in Contexts
    /\ UNCHANGED <<life, task>>

TaskWorks ==
    /\ life = "running"
    /\ task' \in Contexts
    /\ UNCHANGED <<life, main>>

Switch(from, to) == life = from /\ life' = to /\ UNCHANGED main

Start == Switch("none", "running") /\ task' \in Contexts
Yield == Switch("running", "suspended") /\ UNCHANGED task
Continue == Switch("suspended", "running") /\ UNCHANGED task
End == Switch("running", "ended") /\ task' \in Contexts
Reset == Switch("ended", "none") /\ UNCHANGED task

Next == MainWorks \/ TaskWorks \/ Start \/ Yield \/ Continue \/ End \/ Reset

Spec == Init /\ [][Next]_vars
=============================================================================
