------------------------------- MODULE SubTask -------------------------------
(* The context switch of sub_task.S and sub_task.h, word by word: what is    *)
(* pushed on which stack, which stack pointer is exchanged for which, and    *)
(* what is popped where. Between switches the two threads are compiled C,    *)
(* which uses its registers and its stack as it likes and leaves both, when  *)
(* it returns, as the procedure call standard says.                          *)
EXTENDS Integers, Sequences

CONSTANTS
    Marks,      \* what compiled code may put into a register or on its stack
    Depth       \* words of its own that a thread may have on its stack

ASSUME MarksAssumption == Marks # {}
ASSUME DepthAssumption == Depth \in Nat

VARIABLES
    sp,         \* the stack in use, "main" or "task"; stack_ptr has the other
    stack,      \* both stacks, the top last
    used,       \* how many words of its own each thread has on its stack
    regs,       \* r4 to r11, and as "pc" the place in the running thread
    given       \* a task function was given to the stack and not reset since

vars == <<sp, stack, used, regs, given>>

\* The words of a saved context: a push puts its highest register first, and
\* r8 to r11 follow through the low registers.
Order == <<"pc", "r7", "r6", "r5", "r4", "r11", "r10", "r9", "r8">>
Registers == {"pc", "r4", "r5", "r6", "r7", "r8", "r9", "r10", "r11"}
Index(r) == CHOOSE k \in 1..9 : Order[k] = r

\* A word is known by what it was made for and a mark.
Word(kind, mark) == <<kind, mark>>
Trap == Word("sub_task_trap", "*")
AfterCall == Word("sub_task_run", "*")  \* where the task function returns to
TaskPointer == Word("sub_task*", "*")   \* the argument task
MainSP == Word("sp", "*")               \* a stack pointer passing through r4

Holding(mark) == [r \in Registers |-> Word(r, mark)]

Top(words) == words[Len(words)]
Push(words, r) == words \o [k \in 1..9 |-> r[Order[k]]]
Pop(words) == SubSeq(words, 1, Len(words) - 9)

\* Variant: the high registers are popped and not moved back.
PoppedLow(words, now) ==
    [r \in Registers |->
        IF r \in {"r8", "r9", "r10", "r11"} THEN now[r]
        ELSE words[Len(words) - 9 + Index(r)]]

\* Variant: the low registers are popped first.
PoppedLowFirst(words, now) ==
    LET at(k) == IF k = 1 THEN 1 ELSE IF k < 6 THEN k + 4 ELSE k - 4
    IN [r \in Registers |-> words[Len(words) - 9 + at(Index(r))]]

\* What the registers hold after a pop; none keeps what it had.
Popped(words, now) == [r \in Registers |-> words[Len(words) - 9 + Index(r)]]

Init ==
    /\ sp = "main" /\ given = FALSE
    /\ stack = [s \in {"main", "task"} |-> <<>>]
    /\ used = [s \in {"main", "task"} |-> 0]
    /\ \E m \in Marks : regs = Holding(m)

-----------------------------------------------------------------------------
(* Compiled code *)

UseRegisters ==
    /\ \E m \in Marks : regs' = Holding(m)
    /\ UNCHANGED <<sp, stack, used, given>>

PushLocal ==
    /\ used[sp] < Depth
    /\ \E m \in Marks :
         stack' = [stack EXCEPT ![sp] = Append(@, Word("local", m))]
    /\ used' = [used EXCEPT ![sp] = @ + 1]
    /\ UNCHANGED <<sp, regs, given>>

PopLocal ==
    /\ used[sp] > 0
    /\ stack' = [stack EXCEPT ![sp] = SubSeq(@, 1, Len(@) - 1)]
    /\ used' = [used EXCEPT ![sp] = @ - 1]
    /\ UNCHANGED <<sp, regs, given>>

\* Prologue of the task function, which its epilogue undoes: what it will use
\* of r4 to r11 and its return address are on the stack while it runs.
Prologue(words, r) == Push(words, [r EXCEPT !["pc"] = AfterCall])

-----------------------------------------------------------------------------
(* sub_task_run *)

\* Store the context below sp and exchange sp for stack_ptr, where `there' is
\* on the stack.
Leave(to, there) ==
    /\ sp' = to
    /\ stack' = [stack EXCEPT ![sp] = Push(@, regs), ![to] = there]

\* The function begins with what the switch left in the registers: r4 to r7
\* were used to move r8 to r11, then r4 and r5 for the stack pointer and task.
Start ==
    /\ sp = "main" /\ ~given
    /\ given' = TRUE
    /\ LET found == [regs EXCEPT !["r4"] = MainSP, !["r5"] = TaskPointer,
                                 !["r6"] = regs["r10"], !["r7"] = regs["r11"]]
       IN Leave("task", Prologue(stack["task"], found))
    /\ \E m \in Marks : regs' = Holding(m)
    /\ UNCHANGED used

\* sub_task_run_resume: the words of the other thread come back.
Resume(other) ==
    /\ Leave(other, Pop(stack[other]))
    /\ regs' = Popped(stack[other], regs)
    /\ UNCHANGED <<used, given>>

Continue ==
    /\ sp = "main" /\ given
    /\ Top(stack["task"]) # Trap    \* nobody continues an ended task
    /\ Resume("task")

Yield ==
    /\ sp = "task"
    /\ Resume("main")

\* The task function returns: its epilogue, then the trap, and with the task
\* pointer that the function had to keep in r5 back to the other stack.
Return ==
    /\ sp = "task" /\ used["task"] = 0
    /\ LET back == Popped(stack["task"], regs)
       IN /\ sp' = IF back["pc"] = AfterCall /\ back["r5"] = TaskPointer
                   THEN "main" ELSE "wild"
          /\ regs' = Popped(stack["main"], back)
    /\ stack' = [stack EXCEPT !["main"] = Pop(@),
                              !["task"] = Append(Pop(@), Trap)]
    /\ UNCHANGED <<used, given>>

-----------------------------------------------------------------------------
(* sub_task_reset, asked of a stack that has a task *)

\* Variant: the trap is left on the stack.
ResetKeeps == UNCHANGED stack
ResetPops == stack' = [stack EXCEPT !["task"] = SubSeq(@, 1, Len(@) - 1)]

Reset ==
    /\ sp = "main" /\ given
    /\ Top(stack["task"]) = Trap
    /\ ResetPops
    /\ given' = FALSE
    /\ UNCHANGED <<sp, used, regs>>

Next ==
    \/ UseRegisters \/ PushLocal \/ PopLocal
    \/ Start \/ Continue \/ Yield \/ Return
    \/ Reset

Spec == Init /\ [][Next]_vars

-----------------------------------------------------------------------------
(* Correctness *)

Values ==
    {Word(k, m) : k \in Registers \cup {"local"}, m \in Marks}
        \cup {Trap, AfterCall, TaskPointer, MainSP}

\* Types: both stacks hold words a thread or a switch put there, and the
\* running thread never finds a trap or a switch's own words in its registers.
TypeOK ==
    /\ sp \in {"main", "task"}
    /\ stack \in [{"main", "task"} -> Seq(Values)]
    /\ used \in [{"main", "task"} -> 0..Depth]
    /\ \E m \in Marks : regs = Holding(m)
    /\ given \in BOOLEAN

\* sub_task_reset is right about every task, whatever the task did with its
\* stack: the word that sub_task_run leaves on it (sub_task.S:53) says that it
\* has ended, and after the reset the next task begins at the top of the
\* stack. So nothing leaks, which the FIXME at sub_task.S:49 is afraid of.
StackBalanced ==
    sp = "main" =>
        \/ ~given /\ stack["task"] = <<>>
        \/ given /\ stack["task"] = <<Trap>>
        \/ /\ given /\ Top(stack["task"]) # Trap
           /\ Len(stack["task"]) = 18 + used["task"]

\* A thread's own words, the task's above the prologue of its function. When it
\* is not running, the rest of its context is in the words above them.
Below(s) == IF s = "task" THEN 9 ELSE 0
Locals(s) == SubSeq(stack[s], Below(s) + 1, Below(s) + used[s])
ContextOf(s) ==
    [regs |-> IF sp = s THEN regs ELSE Popped(stack[s], regs),
     locals |-> Locals(s)]

Life ==
    IF sp = "task" THEN "running"
    ELSE IF ~given THEN "none"
    ELSE IF Top(stack["task"]) = Trap THEN "ended"
    ELSE "suspended"

Contexts == [regs : [Registers -> Values], locals : Seq(Values)]
Idle == [regs |-> Holding(CHOOSE m \in Marks : TRUE), locals |-> <<>>]

\* Whatever the two threads compute, each goes on after a switch with the
\* registers, the stack and the place it had before: sub_task_run implements
\* the coroutine that sub_task.h promises.
Threads == INSTANCE Coroutine WITH
    life <- Life,
    main <- ContextOf("main"),
    task <- IF Life \in {"none", "ended"} THEN Idle ELSE ContextOf("task")

IsCoroutine == Threads!Spec
=============================================================================
