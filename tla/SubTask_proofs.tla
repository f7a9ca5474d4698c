--------------------------- MODULE SubTask_proofs ---------------------------
(* sub_task_run is a coroutine switch, for every number of words that the    *)
(* threads have on their stacks and for every value of their registers.      *)
EXTENDS SubTask, SequenceTheorems, TLAPS

-----------------------------------------------------------------------------
(* Words on a stack *)

\* Every register has one place among the nine words of a saved context.
LEMMA IndexOfRegister ==
    \A r \in Registers : Index(r) \in 1..9 /\ Order[Index(r)] = r
<1> SUFFICES ASSUME NEW r \in Registers
             PROVE  Index(r) \in 1..9 /\ Order[Index(r)] = r
    OBVIOUS
<1>1. \E k \in 1..9 : Order[k] = r
  <2>1. Order[1] = "pc" /\ Order[2] = "r7" /\ Order[3] = "r6"
      BY DEF Order
  <2>2. Order[4] = "r5" /\ Order[5] = "r4" /\ Order[6] = "r11"
      BY DEF Order
  <2>3. Order[7] = "r10" /\ Order[8] = "r9" /\ Order[9] = "r8"
      BY DEF Order
  <2> HIDE DEF Order
  <2>4. r \in {Order[1], Order[2], Order[3], Order[4], Order[5],
               Order[6], Order[7], Order[8], Order[9]}
      BY <2>1, <2>2, <2>3 DEF Registers
  <2> QED BY <2>4
<1> QED BY <1>1 DEF Index

\* Two registers of which the end of a task depends.
LEMMA PlaceOfRegister == Index("pc") = 1 /\ Index("r5") = 4
<1>1. Index("pc") \in 1..9 /\ Order[Index("pc")] = "pc"
    BY IndexOfRegister DEF Registers
<1>2. Index("r5") \in 1..9 /\ Order[Index("r5")] = "r5"
    BY IndexOfRegister DEF Registers
<1> QED BY <1>1, <1>2 DEF Order

LEMMA OrderType == \A k \in 1..9 : Order[k] \in Registers
BY DEF Order, Registers

LEMMA WordTypes ==
    /\ Trap \in Values /\ AfterCall \in Values
    /\ TaskPointer \in Values /\ MainSP \in Values
    /\ \A m \in Marks : /\ Word("local", m) \in Values
                        /\ Holding(m) \in [Registers -> Values]
BY DEF Values, Holding

\* A push adds nine words, which a pop takes off again.
LEMMA PushPop ==
    ASSUME NEW w \in Seq(Values), NEW r \in [Registers -> Values]
    PROVE  /\ Push(w, r) \in Seq(Values)
           /\ Len(Push(w, r)) = Len(w) + 9
           /\ \A i \in 1..Len(w) : Push(w, r)[i] = w[i]
           /\ \A k \in 1..9 : Push(w, r)[Len(w) + k] = r[Order[k]]
           /\ Pop(Push(w, r)) = w
           /\ \A now : Popped(Push(w, r), now) = r
<1> DEFINE c == [k \in 1..9 |-> r[Order[k]]]
           p == Push(w, r)
<1>1. c \in Seq(Values) /\ Len(c) = 9
  <2>1. c \in [1..9 -> Values]
      BY OrderType
  <2> HIDE DEF c, p
  <2>2. c \in Seq(Values)
      BY <2>1, SeqDef
  <2>3. DOMAIN c = 1..9 /\ DOMAIN c = 1..Len(c) /\ Len(c) \in Nat
      BY <2>1, <2>2, LenProperties
  <2> QED BY <2>2, <2>3
<1>2. Len(w) \in Nat
    BY LenProperties
<1>3. /\ p \in Seq(Values)
      /\ Len(p) = Len(w) + Len(c)
      /\ \A i \in 1 .. Len(w) + Len(c) :
             p[i] = IF i <= Len(w) THEN w[i] ELSE c[i - Len(w)]
  <2>1. p = w \o c
      BY DEF Push
  <2> HIDE DEF c, p
  <2> QED BY <1>1, <2>1, ConcatProperties
<1>4. \A i \in 1..Len(w) : p[i] = w[i]
  <2> HIDE DEF c, p
  <2> QED BY <1>1, <1>2, <1>3
<1>5. \A k \in 1..9 : p[Len(w) + k] = r[Order[k]]
  <2> SUFFICES ASSUME NEW k \in 1..9 PROVE p[Len(w) + k] = c[k]
      OBVIOUS
  <2> HIDE DEF c, p
  <2> DEFINE i == Len(w) + k
  <2>1. i \in 1 .. Len(w) + Len(c) /\ ~(i <= Len(w)) /\ i - Len(w) = k
      BY <1>1, <1>2
  <2> HIDE DEF i
  <2>2. p[i] = c[k]
      BY <2>1, <1>3
  <2> QED BY <2>2 DEF i
<1> HIDE DEF c, p
<1>6. Pop(p) = w
  <2>1. Pop(p) = SubSeq(p, 1, Len(w))
      BY <1>1, <1>2, <1>3 DEF Pop
  <2>2. \A i \in 1..Len(w) : p[i] \in Values
      BY <1>2, <1>4, ElementOfSeq
  <2>3. /\ Pop(p) \in Seq(Values)
        /\ Len(Pop(p)) = Len(w)
        /\ \A i \in 1..Len(w) : Pop(p)[i] = p[i]
      BY <1>2, <2>1, <2>2, SubSeqProperties
  <2> QED BY <2>3, <1>4, SeqEqual
<1>7. \A now : Popped(p, now) = r
  <2> SUFFICES ASSUME NEW now PROVE Popped(p, now) = r
      OBVIOUS
  <2>1. Len(p) - 9 = Len(w)
      BY <1>1, <1>2, <1>3
  <2>2. \A q \in Registers : p[Len(w) + Index(q)] = r[q]
      BY <1>5, IndexOfRegister
  <2> QED BY <2>1, <2>2 DEF Popped
<1> QED BY <1>1, <1>3, <1>4, <1>5, <1>6, <1>7 DEF p

\* Two stacks with the same words at the bottom have the same subsequences of
\* them.
LEMMA SameBelow ==
    ASSUME NEW v \in Seq(Values), NEW w \in Seq(Values),
           NEW m \in Nat \ {0}, NEW n \in Nat,
           n <= Len(v), n <= Len(w),
           \A i \in 1..n : v[i] = w[i]
    PROVE  SubSeq(v, m, n) = SubSeq(w, m, n)
<1>1. \A i \in m..n : v[i] \in Values /\ w[i] \in Values /\ v[i] = w[i]
  <2>1. Len(v) \in Nat /\ Len(w) \in Nat
      BY LenProperties
  <2>2. \A i \in m..n : i \in 1..n /\ i \in 1..Len(v) /\ i \in 1..Len(w)
      BY <2>1
  <2> QED BY <2>2, ElementOfSeq
<1>2. /\ SubSeq(v, m, n) \in Seq(Values)
      /\ Len(SubSeq(v, m, n)) = IF m <= n THEN n - m + 1 ELSE 0
      /\ \A i \in 1 .. n - m + 1 : SubSeq(v, m, n)[i] = v[m + i - 1]
    BY <1>1, SubSeqProperties
<1>3. /\ SubSeq(w, m, n) \in Seq(Values)
      /\ Len(SubSeq(w, m, n)) = IF m <= n THEN n - m + 1 ELSE 0
      /\ \A i \in 1 .. n - m + 1 : SubSeq(w, m, n)[i] = w[m + i - 1]
    BY <1>1, SubSeqProperties
<1>4. \A i \in 1 .. n - m + 1 : v[m + i - 1] = w[m + i - 1]
    BY <1>1
<1> QED BY <1>2, <1>3, <1>4, SeqEqual

\* What is left when the top is taken off, one word or nine.
LEMMA Shortened ==
    ASSUME NEW w \in Seq(Values), NEW n \in Nat, n <= Len(w)
    PROVE  /\ SubSeq(w, 1, n) \in Seq(Values)
           /\ Len(SubSeq(w, 1, n)) = n
           /\ \A i \in 1..n : SubSeq(w, 1, n)[i] = w[i]
<1>1. Len(w) \in Nat
    BY LenProperties
<1>2. \A i \in 1..n : w[i] \in Values
    BY <1>1, ElementOfSeq
<1> QED BY <1>2, SubSeqProperties

-----------------------------------------------------------------------------
(* The inductive invariant *)

\* The words of a whole context, on top of a stack.
Saved(words) ==
    /\ Len(words) >= 9
    /\ \E m \in Marks : \A now : Popped(words, now) = Holding(m)

\* While the main thread runs, only its own words are on its stack. The other
\* stack is empty, or has the trap only, or the prologue of the task function,
\* the task's own words and its context.
WhileMain ==
    /\ Len(stack["main"]) = used["main"]
    /\ \/ ~given /\ stack["task"] = <<>> /\ used["task"] = 0
       \/ given /\ stack["task"] = <<Trap>> /\ used["task"] = 0
       \/ /\ given
          /\ Len(stack["task"]) = 18 + used["task"]
          /\ Top(stack["task"]) # Trap
          /\ Saved(stack["task"])

WhileTask ==
    /\ given
    /\ Len(stack["main"]) = used["main"] + 9
    /\ Saved(stack["main"])
    /\ Len(stack["task"]) = 9 + used["task"]

\* The task function was called with what it needs to return: sub_task_run's
\* address behind the call, and the task in r5.
WayBack ==
    Len(stack["task"]) >= 9 =>
        stack["task"][1] = AfterCall /\ stack["task"][4] = TaskPointer

IInv ==
    /\ TypeOK
    /\ sp = "main" => WhileMain
    /\ sp = "task" => WhileTask
    /\ WayBack

\* What the types say of each variable, in a form without functions of stacks.
LEMMA Parts ==
    ASSUME TypeOK
    PROVE  /\ stack["main"] \in Seq(Values) /\ stack["task"] \in Seq(Values)
           /\ Len(stack["main"]) \in Nat /\ Len(stack["task"]) \in Nat
           /\ used["main"] \in Nat /\ used["task"] \in Nat
           /\ regs \in [Registers -> Values]
<1>1. stack["main"] \in Seq(Values) /\ stack["task"] \in Seq(Values)
    BY DEF TypeOK
<1>2. used["main"] \in Nat /\ used["task"] \in Nat
    BY DepthAssumption DEF TypeOK
<1>3. regs \in [Registers -> Values]
    BY WordTypes DEF TypeOK
<1> QED BY <1>1, <1>2, <1>3, LenProperties

\* A thread that is left with its registers in order has its context saved.
LEMMA PushSaves ==
    ASSUME NEW w \in Seq(Values), NEW m \in Marks
    PROVE  /\ Saved(Push(w, Holding(m)))
           /\ Top(Push(w, Holding(m))) # Trap
<1> DEFINE h == Holding(m)
           p == Push(w, h)
<1>1. h \in [Registers -> Values]
    BY WordTypes
<1>2. h[Order[9]] = <<"r8", m>>
    BY DEF Holding, Order, Registers, Word
<1>3. <<"r8", m>> # Trap
    BY DEF Trap, Word
<1>4. Len(w) \in Nat
    BY LenProperties
<1> HIDE DEF h
<1>5. /\ Len(p) = Len(w) + 9
      /\ \A k \in 1..9 : p[Len(w) + k] = h[Order[k]]
      /\ \A now : Popped(p, now) = h
    BY <1>1, PushPop
<1> HIDE DEF p
<1>6. p[Len(w) + 9] = h[Order[9]]
    BY <1>5
<1>7. Top(p) # Trap
    BY <1>2, <1>3, <1>5, <1>6 DEF Top
<1>8. Saved(p)
    BY <1>4, <1>5 DEF Saved, h
<1> QED BY <1>7, <1>8 DEF p, h

LEMMA InitIInv == Init => IInv
<1> SUFFICES ASSUME Init PROVE IInv
    OBVIOUS
<1>1. <<>> \in Seq(Values) /\ Len(<<>>) = 0
    BY EmptySeq
<1>2. stack["main"] = <<>> /\ stack["task"] = <<>>
    BY DEF Init
<1>3. TypeOK
  <2>1. stack \in [{"main", "task"} -> Seq(Values)]
      BY <1>1 DEF Init
  <2>2. used \in [{"main", "task"} -> 0..Depth]
      BY DepthAssumption DEF Init
  <2> QED BY <2>1, <2>2 DEF Init, TypeOK
<1>4. WhileMain /\ WayBack
    BY <1>1, <1>2 DEF Init, WhileMain, WayBack
<1> QED BY <1>3, <1>4 DEF IInv, Init

-----------------------------------------------------------------------------
(* Every step preserves the invariant *)

LEMMA UseRegistersIInv == IInv /\ UseRegisters => IInv'
<1> SUFFICES ASSUME IInv, UseRegisters PROVE IInv'
    OBVIOUS
<1>1. TypeOK'
    BY DEF IInv, TypeOK, UseRegisters
<1>2. sp' = sp /\ stack' = stack /\ used' = used /\ given' = given
    BY DEF UseRegisters
<1>3. (sp = "main" => WhileMain') /\ (sp = "task" => WhileTask') /\ WayBack'
    BY <1>2 DEF IInv, WhileMain, WhileTask, WayBack
<1> QED BY <1>1, <1>2, <1>3 DEF IInv

\* A local word on the stack in use.
LEMMA PushLocalIInv == IInv /\ PushLocal => IInv'
<1> SUFFICES ASSUME IInv, PushLocal PROVE IInv'
    OBVIOUS
<1>1. PICK m \in Marks :
          stack' = [stack EXCEPT ![sp] = Append(@, Word("local", m))]
    BY DEF PushLocal
<1> DEFINE top == Word("local", m)
           w == stack[sp]
<1>2. TypeOK /\ sp \in {"main", "task"}
    BY DEF IInv, TypeOK
<1>3. w \in Seq(Values) /\ Len(w) \in Nat /\ top \in Values
    BY <1>2, Parts, WordTypes
<1> HIDE DEF top
<1>4. /\ Append(w, top) \in Seq(Values)
      /\ Len(Append(w, top)) = Len(w) + 1
      /\ \A i \in 1..Len(w) : Append(w, top)[i] = w[i]
    BY <1>3, AppendProperties
<1>5. stack' = [stack EXCEPT ![sp] = Append(w, top)]
    BY <1>1 DEF top
<1>6. TypeOK'
  <2>1. stack' \in [{"main", "task"} -> Seq(Values)]
      BY <1>2, <1>4, <1>5 DEF TypeOK
  <2>2. used[sp] + 1 \in 0..Depth
      BY <1>2, DepthAssumption DEF TypeOK, PushLocal
  <2>3. used' \in [{"main", "task"} -> 0..Depth]
      BY <1>2, <2>2 DEF TypeOK, PushLocal
  <2> QED BY <1>2, <2>1, <2>3 DEF TypeOK, PushLocal
<1>7. CASE sp = "main"
  <2>1. /\ sp' = "main" /\ given' = given
        /\ stack'["main"] = Append(stack["main"], top)
        /\ stack'["task"] = stack["task"]
        /\ used'["main"] = used["main"] + 1 /\ used'["task"] = used["task"]
      BY <1>2, <1>5, <1>7 DEF TypeOK, PushLocal
  <2>2. WhileMain' /\ WayBack'
      BY <1>4, <1>7, <2>1 DEF IInv, WhileMain, WayBack
  <2> QED BY <1>6, <2>1, <2>2 DEF IInv
<1>8. CASE sp = "task"
  <2>1. /\ sp' = "task" /\ given' = given
        /\ stack'["task"] = Append(stack["task"], top)
        /\ stack'["main"] = stack["main"]
        /\ used'["task"] = used["task"] + 1 /\ used'["main"] = used["main"]
      BY <1>2, <1>5, <1>8 DEF TypeOK, PushLocal
  <2>2. Len(stack["task"]) >= 9
      BY <1>2, <1>8, Parts DEF IInv, WhileTask
  <2>3. stack'["task"][1] = stack["task"][1] /\ stack'["task"][4] = stack["task"][4]
      BY <1>3, <1>4, <1>8, <2>1, <2>2
  <2>4. WhileTask'
      BY <1>2, <1>4, <1>8, <2>1, Parts DEF IInv, WhileTask
  <2>5. WayBack'
      BY <2>2, <2>3 DEF IInv, WayBack
  <2> QED BY <1>6, <2>1, <2>4, <2>5 DEF IInv
<1> QED BY <1>2, <1>7, <1>8

LEMMA PopLocalIInv == IInv /\ PopLocal => IInv'
<1> SUFFICES ASSUME IInv, PopLocal PROVE IInv'
    OBVIOUS
<1> DEFINE w == stack[sp]
           n == Len(w) - 1
<1>1. TypeOK /\ sp \in {"main", "task"}
    BY DEF IInv, TypeOK
<1>2. used[sp] > 0 /\ used[sp] \in Nat
    BY <1>1, Parts DEF PopLocal
<1>3. w \in Seq(Values) /\ Len(w) \in Nat
    BY <1>1, Parts
<1>4. Len(w) >= used[sp]
    BY <1>1, <1>3, Parts DEF IInv, WhileMain, WhileTask
<1>5. n \in Nat /\ n <= Len(w)
    BY <1>2, <1>3, <1>4
<1> HIDE DEF n
<1>6. /\ SubSeq(w, 1, n) \in Seq(Values)
      /\ Len(SubSeq(w, 1, n)) = n
      /\ \A i \in 1..n : SubSeq(w, 1, n)[i] = w[i]
    BY <1>3, <1>5, Shortened
<1>7. stack' = [stack EXCEPT ![sp] = SubSeq(w, 1, n)]
    BY DEF n, PopLocal
<1>8. TypeOK'
  <2>1. stack' \in [{"main", "task"} -> Seq(Values)]
      BY <1>1, <1>6, <1>7 DEF TypeOK
  <2>2. used[sp] - 1 \in 0..Depth
      BY <1>1, <1>2, DepthAssumption DEF TypeOK
  <2>3. used' \in [{"main", "task"} -> 0..Depth]
      BY <1>1, <2>2 DEF TypeOK, PopLocal
  <2> QED BY <1>1, <2>1, <2>3 DEF TypeOK, PopLocal
<1>9. CASE sp = "main"
  <2>1. /\ sp' = "main" /\ given' = given
        /\ stack'["main"] = SubSeq(w, 1, n)
        /\ stack'["task"] = stack["task"]
        /\ used'["main"] = used["main"] - 1 /\ used'["task"] = used["task"]
      BY <1>1, <1>7, <1>9 DEF TypeOK, PopLocal
  <2>2. WhileMain' /\ WayBack'
      BY <1>6, <1>9, <2>1 DEF IInv, WhileMain, WayBack, n
  <2> QED BY <1>8, <2>1, <2>2 DEF IInv
<1>10. CASE sp = "task"
  <2>1. /\ sp' = "task" /\ given' = given
        /\ stack'["task"] = SubSeq(w, 1, n)
        /\ stack'["main"] = stack["main"]
        /\ used'["task"] = used["task"] - 1 /\ used'["main"] = used["main"]
      BY <1>1, <1>7, <1>10 DEF TypeOK, PopLocal
  <2>2. n = 9 + used["task"] - 1
      BY <1>1, <1>10, Parts DEF IInv, WhileTask, n
  <2>3. stack'["task"][1] = stack["task"][1] /\ stack'["task"][4] = stack["task"][4]
    <3>1. 1 \in 1..n /\ 4 \in 1..n
        BY <1>2, <1>10, <2>2
    <3> QED BY <1>6, <1>10, <2>1, <3>1
  <2>4. Len(stack["task"]) >= 9
      BY <1>1, <1>10, Parts DEF IInv, WhileTask
  <2>5. WhileTask'
      BY <1>1, <1>6, <1>10, <2>1, <2>2, Parts DEF IInv, WhileTask
  <2>6. WayBack'
      BY <2>3, <2>4 DEF IInv, WayBack
  <2> QED BY <1>8, <2>1, <2>5, <2>6 DEF IInv
<1> QED BY <1>1, <1>9, <1>10

\* The context of the main thread, saved by a switch to the task.
LEMMA MainIsSaved ==
    ASSUME IInv, sp = "main", stack'["main"] = Push(stack["main"], regs)
    PROVE  /\ Saved(stack'["main"])
           /\ Len(stack'["main"]) = used["main"] + 9
<1>1. TypeOK /\ Len(stack["main"]) = used["main"]
    BY DEF IInv, WhileMain
<1>2. stack["main"] \in Seq(Values) /\ regs \in [Registers -> Values]
    BY <1>1, Parts
<1>3. PICK m \in Marks : regs = Holding(m)
    BY <1>1 DEF TypeOK
<1>4. Len(Push(stack["main"], regs)) = Len(stack["main"]) + 9
    BY <1>2, PushPop
<1>5. Saved(Push(stack["main"], regs))
    BY <1>2, <1>3, PushSaves
<1> QED BY <1>1, <1>4, <1>5

\* A new task: the stack of the main thread holds its context, the other the
\* prologue with the way back.
LEMMA StartDoes ==
    ASSUME IInv, Start
    PROVE  /\ sp = "main" /\ ~given /\ sp' = "task" /\ given' /\ used' = used
           /\ stack["task"] = <<>> /\ used["task"] = 0
           /\ stack'["main"] = Push(stack["main"], regs)
           /\ \E f \in [Registers -> Values] :
                 /\ f["pc"] = AfterCall /\ f["r5"] = TaskPointer
                 /\ stack'["task"] = Push(<<>>, f)
           /\ stack' \in [{"main", "task"} -> Seq(Values)]
<1>1. TypeOK
    BY DEF IInv
<1>2. /\ sp = "main" /\ ~given /\ stack["task"] = <<>> /\ used["task"] = 0
    BY DEF IInv, WhileMain, Start
<1> DEFINE found == [regs EXCEPT !["r4"] = MainSP, !["r5"] = TaskPointer,
                                 !["r6"] = regs["r10"], !["r7"] = regs["r11"]]
           f == [found EXCEPT !["pc"] = AfterCall]
<1>3. f \in [Registers -> Values] /\ f["pc"] = AfterCall /\ f["r5"] = TaskPointer
  <2>1. regs \in [Registers -> Values]
      BY <1>1, Parts
  <2>2. found \in [Registers -> Values] /\ found["r5"] = TaskPointer
      BY <2>1, WordTypes DEF Registers
  <2> HIDE DEF found
  <2> QED BY <2>2, WordTypes DEF Registers
<1>4. sp' = "task" /\ stack' = [stack EXCEPT ![sp] = Push(@, regs), !["task"] = Push(<<>>, f)]
    BY <1>2 DEF Start, Leave, Prologue
<1> HIDE DEF f
<1>5. /\ stack'["main"] = Push(stack["main"], regs)
      /\ stack'["task"] = Push(<<>>, f)
    BY <1>1, <1>2, <1>4 DEF TypeOK
<1>6. Push(stack["main"], regs) \in Seq(Values) /\ Push(<<>>, f) \in Seq(Values)
    BY <1>1, <1>3, Parts, PushPop, EmptySeq
<1>7. stack' \in [{"main", "task"} -> Seq(Values)]
    BY <1>1, <1>2, <1>4, <1>6 DEF TypeOK
<1> QED BY <1>2, <1>3, <1>4, <1>5, <1>7 DEF Start

LEMMA StartIInv == IInv /\ Start => IInv'
<1> SUFFICES ASSUME IInv, Start PROVE IInv'
    OBVIOUS
<1>1. TypeOK
    BY DEF IInv
<1>2. PICK f \in [Registers -> Values] :
          /\ f["pc"] = AfterCall /\ f["r5"] = TaskPointer
          /\ stack'["task"] = Push(<<>>, f)
    BY StartDoes
<1>3. /\ sp = "main" /\ sp' = "task" /\ given' /\ used' = used
      /\ used["task"] = 0
      /\ stack'["main"] = Push(stack["main"], regs)
      /\ stack' \in [{"main", "task"} -> Seq(Values)]
    BY StartDoes
<1>4. TypeOK'
    BY <1>1, <1>3 DEF TypeOK, Start
<1>6. /\ Saved(stack'["main"])
      /\ Len(stack'["main"]) = used["main"] + 9
    BY <1>3, MainIsSaved
<1>7. /\ Len(stack'["task"]) = 9
      /\ stack'["task"][1] = AfterCall /\ stack'["task"][4] = TaskPointer
  <2>1. /\ Len(Push(<<>>, f)) = Len(<<>>) + 9
        /\ \A k \in 1..9 : Push(<<>>, f)[Len(<<>>) + k] = f[Order[k]]
      BY EmptySeq, PushPop
  <2>2. Len(<<>>) = 0
      BY EmptySeq
  <2>3. \A k \in 1..9 : Push(<<>>, f)[k] = f[Order[k]]
      BY <2>1, <2>2
  <2>4. Order[1] = "pc" /\ Order[4] = "r5"
      BY DEF Order
  <2> QED BY <1>2, <2>1, <2>2, <2>3, <2>4
<1>8. WhileTask' /\ WayBack'
    BY <1>3, <1>6, <1>7 DEF WhileTask, WayBack, Saved
<1> QED BY <1>3, <1>4, <1>8 DEF IInv

\* From the main thread to a suspended task.
LEMMA ContinueDoes ==
    ASSUME IInv, Continue
    PROVE  /\ sp = "main" /\ sp' = "task" /\ given /\ given' /\ used' = used
           /\ Top(stack["task"]) # Trap
           /\ Len(stack["task"]) = 18 + used["task"] /\ Saved(stack["task"])
           /\ stack'["main"] = Push(stack["main"], regs)
           /\ stack'["task"] = Pop(stack["task"])
           /\ stack'["task"] \in Seq(Values)
           /\ Len(stack'["task"]) = 9 + used["task"]
           /\ \A i \in 1..Len(stack'["task"]) : stack'["task"][i] = stack["task"][i]
           /\ regs' = Popped(stack["task"], regs)
           /\ stack' \in [{"main", "task"} -> Seq(Values)]
<1>1. TypeOK
    BY DEF IInv
<1>2. Top(<<Trap>>) = Trap /\ (given = FALSE \/ given = TRUE)
    BY <1>1 DEF Top, TypeOK
<1>3. /\ sp = "main" /\ given /\ Top(stack["task"]) # Trap
      /\ Len(stack["task"]) = 18 + used["task"] /\ Saved(stack["task"])
    BY <1>2 DEF IInv, WhileMain, Continue
<1>4. /\ sp' = "task" /\ given' = given /\ used' = used
      /\ stack' = [stack EXCEPT ![sp] = Push(@, regs), !["task"] = Pop(stack["task"])]
      /\ regs' = Popped(stack["task"], regs)
    BY DEF Continue, Resume, Leave
<1>5. /\ stack'["main"] = Push(stack["main"], regs)
      /\ stack'["task"] = Pop(stack["task"])
    BY <1>1, <1>3, <1>4 DEF TypeOK
<1>6. /\ Pop(stack["task"]) \in Seq(Values)
      /\ Len(Pop(stack["task"])) = 9 + used["task"]
      /\ \A i \in 1..9 + used["task"] : Pop(stack["task"])[i] = stack["task"][i]
  <2>1. /\ 9 + used["task"] \in Nat /\ 9 + used["task"] <= Len(stack["task"])
        /\ Len(stack["task"]) - 9 = 9 + used["task"]
      BY <1>1, <1>3, Parts
  <2> QED BY <1>1, <2>1, Parts, Shortened DEF Pop
<1>7. Push(stack["main"], regs) \in Seq(Values)
    BY <1>1, Parts, PushPop
<1>8. stack' \in [{"main", "task"} -> Seq(Values)]
    BY <1>1, <1>3, <1>4, <1>6, <1>7 DEF TypeOK
<1> QED BY <1>3, <1>4, <1>5, <1>6, <1>8

LEMMA ContinueIInv == IInv /\ Continue => IInv'
<1> SUFFICES ASSUME IInv, Continue PROVE IInv'
    OBVIOUS
<1>1. TypeOK
    BY DEF IInv
<1>3. \E k \in Marks : regs' = Holding(k)
    BY ContinueDoes DEF Saved
<1>4. TypeOK'
    BY <1>1, <1>3, ContinueDoes DEF TypeOK
<1>5. /\ Saved(stack'["main"])
      /\ Len(stack'["main"]) = used["main"] + 9
    BY MainIsSaved, ContinueDoes
<1>6. WhileTask'
    BY <1>5, ContinueDoes DEF WhileTask, Saved
<1>7. WayBack'
  <2>1. /\ Len(stack["task"]) >= 9
        /\ 1 \in 1..Len(stack'["task"]) /\ 4 \in 1..Len(stack'["task"])
      BY <1>1, Parts, ContinueDoes
  <2> QED BY <2>1, ContinueDoes DEF IInv, WayBack
<1> QED BY <1>4, <1>6, <1>7, ContinueDoes DEF IInv

\* And from the task to the main thread.
LEMMA YieldDoes ==
    ASSUME IInv, Yield
    PROVE  /\ sp = "task" /\ sp' = "main" /\ given /\ given' /\ used' = used
           /\ Saved(stack["main"]) /\ Len(stack["main"]) = used["main"] + 9
           /\ stack'["task"] = Push(stack["task"], regs)
           /\ stack'["main"] = Pop(stack["main"])
           /\ stack'["main"] \in Seq(Values)
           /\ Len(stack'["main"]) = used["main"]
           /\ \A i \in 1..used["main"] : stack'["main"][i] = stack["main"][i]
           /\ regs' = Popped(stack["main"], regs)
           /\ stack' \in [{"main", "task"} -> Seq(Values)]
<1>1. TypeOK
    BY DEF IInv
<1>2. /\ sp = "task" /\ given
      /\ Len(stack["main"]) = used["main"] + 9 /\ Saved(stack["main"])
    BY DEF IInv, WhileTask, Yield
<1>3. /\ sp' = "main" /\ given' = given /\ used' = used
      /\ stack' = [stack EXCEPT ![sp] = Push(@, regs), !["main"] = Pop(stack["main"])]
      /\ regs' = Popped(stack["main"], regs)
    BY DEF Yield, Resume, Leave
<1>4. /\ stack'["task"] = Push(stack["task"], regs)
      /\ stack'["main"] = Pop(stack["main"])
    BY <1>1, <1>2, <1>3 DEF TypeOK
<1>5. /\ Pop(stack["main"]) \in Seq(Values)
      /\ Len(Pop(stack["main"])) = used["main"]
      /\ \A i \in 1..used["main"] : Pop(stack["main"])[i] = stack["main"][i]
  <2>1. used["main"] <= Len(stack["main"]) /\ Len(stack["main"]) - 9 = used["main"]
      BY <1>1, <1>2, Parts
  <2> QED BY <1>1, <2>1, Parts, Shortened DEF Pop
<1>6. Push(stack["task"], regs) \in Seq(Values)
    BY <1>1, Parts, PushPop
<1>7. stack' \in [{"main", "task"} -> Seq(Values)]
    BY <1>1, <1>2, <1>3, <1>5, <1>6 DEF TypeOK
<1> QED BY <1>2, <1>3, <1>4, <1>5, <1>7

LEMMA YieldIInv == IInv /\ Yield => IInv'
<1> SUFFICES ASSUME IInv, Yield PROVE IInv'
    OBVIOUS
<1>1. TypeOK
    BY DEF IInv
<1>2. PICK m \in Marks : regs = Holding(m)
    BY <1>1 DEF TypeOK
<1>3. \E k \in Marks : regs' = Holding(k)
    BY YieldDoes DEF Saved
<1>4. TypeOK'
    BY <1>1, <1>3, YieldDoes DEF TypeOK
<1> DEFINE w == stack["task"]
<1>5. w \in Seq(Values) /\ regs \in [Registers -> Values] /\ used["task"] \in Nat
    BY <1>1, Parts
<1>6. Len(w) = 9 + used["task"] /\ w[1] = AfterCall /\ w[4] = TaskPointer
    BY <1>5, YieldDoes DEF IInv, WhileTask, WayBack
<1> HIDE DEF w
<1>7. /\ Len(Push(w, regs)) = 18 + used["task"]
      /\ Push(w, regs)[1] = AfterCall /\ Push(w, regs)[4] = TaskPointer
  <2>1. 1 \in 1..Len(w) /\ 4 \in 1..Len(w) /\ Len(w) + 9 = 18 + used["task"]
      BY <1>5, <1>6
  <2> QED BY <1>5, <1>6, <2>1, PushPop
<1>8. Saved(Push(w, regs)) /\ Top(Push(w, regs)) # Trap
    BY <1>2, <1>5, PushSaves
<1>9. WhileMain' /\ WayBack'
    BY <1>7, <1>8, YieldDoes DEF WhileMain, WayBack, Saved, Top, w
<1> QED BY <1>4, <1>9, YieldDoes DEF IInv

\* The end of the task function: the epilogue takes the way back off, which
\* leaves the trap alone on the stack.
LEMMA ReturnDoes ==
    ASSUME IInv, Return
    PROVE  /\ sp = "task" /\ sp' = "main" /\ given /\ given' /\ used' = used
           /\ used["task"] = 0
           /\ Saved(stack["main"]) /\ Len(stack["main"]) = used["main"] + 9
           /\ stack'["task"] = <<Trap>>
           /\ stack'["main"] \in Seq(Values)
           /\ Len(stack'["main"]) = used["main"]
           /\ \A i \in 1..used["main"] : stack'["main"][i] = stack["main"][i]
           /\ regs' = Popped(stack["main"], regs)
           /\ stack' \in [{"main", "task"} -> Seq(Values)]
<1>1. TypeOK
    BY DEF IInv
<1>2. /\ sp = "task" /\ given /\ used["task"] = 0
      /\ Len(stack["main"]) = used["main"] + 9 /\ Saved(stack["main"])
      /\ Len(stack["task"]) = 9
      /\ stack["task"][1] = AfterCall /\ stack["task"][4] = TaskPointer
  <2>1. /\ sp = "task" /\ given /\ used["task"] = 0
        /\ Len(stack["main"]) = used["main"] + 9 /\ Saved(stack["main"])
        /\ Len(stack["task"]) = 9 + used["task"]
      BY DEF IInv, WhileTask, Return
  <2>2. Len(stack["task"]) = 9
      BY <2>1
  <2> QED BY <2>1, <2>2 DEF IInv, WayBack
<1> DEFINE back == Popped(stack["task"], regs)
<1>3. back["pc"] = AfterCall /\ back["r5"] = TaskPointer
  <2>1. /\ back["pc"] = stack["task"][Len(stack["task"]) - 9 + Index("pc")]
        /\ back["r5"] = stack["task"][Len(stack["task"]) - 9 + Index("r5")]
      BY DEF Popped, Registers
  <2> QED BY <1>2, <2>1, PlaceOfRegister
<1>4. /\ stack' = [stack EXCEPT !["main"] = Pop(@),
                                !["task"] = Append(Pop(@), Trap)]
      /\ regs' = Popped(stack["main"], back)
      /\ sp' = "main" /\ given' = given /\ used' = used
    BY <1>3 DEF Return
<1>5. regs' = Popped(stack["main"], regs)
    BY <1>4 DEF Popped
<1>6. Pop(stack["task"]) = <<>>
    BY <1>2, SubSeqEmpty DEF Pop
<1>7. /\ stack'["main"] = Pop(stack["main"])
      /\ stack'["task"] = <<Trap>>
  <2>1. Append(<<>>, Trap) = <<Trap>>
      OBVIOUS
  <2> QED BY <1>1, <1>4, <1>6, <2>1 DEF TypeOK
<1>8. /\ Pop(stack["main"]) \in Seq(Values)
      /\ Len(Pop(stack["main"])) = used["main"]
      /\ \A i \in 1..used["main"] : Pop(stack["main"])[i] = stack["main"][i]
  <2>1. used["main"] <= Len(stack["main"]) /\ Len(stack["main"]) - 9 = used["main"]
      BY <1>1, <1>2, Parts
  <2> QED BY <1>1, <2>1, Parts, Shortened DEF Pop
<1>9. stack' \in [{"main", "task"} -> Seq(Values)]
  <2>1. Append(Pop(stack["task"]), Trap) \in Seq(Values)
      BY <1>6, WordTypes, EmptySeq, AppendProperties
  <2> QED BY <1>1, <1>4, <1>8, <2>1 DEF TypeOK
<1> QED BY <1>2, <1>4, <1>5, <1>7, <1>8, <1>9

LEMMA ReturnIInv == IInv /\ Return => IInv'
<1> SUFFICES ASSUME IInv, Return PROVE IInv'
    OBVIOUS
<1>1. TypeOK
    BY DEF IInv
<1>2. \E k \in Marks : regs' = Holding(k)
    BY ReturnDoes DEF Saved
<1>3. TypeOK'
    BY <1>1, <1>2, ReturnDoes DEF TypeOK
<1>4. Len(<<Trap>>) = 1
    OBVIOUS
<1>5. WhileMain' /\ WayBack'
    BY <1>4, ReturnDoes DEF WhileMain, WayBack
<1> QED BY <1>3, <1>5, ReturnDoes DEF IInv

\* The trap is what sub_task_reset takes off.
LEMMA ResetDoes ==
    ASSUME IInv, Reset
    PROVE  /\ sp = "main" /\ sp' = "main" /\ given /\ ~given'
           /\ used' = used /\ used["task"] = 0 /\ regs' = regs
           /\ Top(stack["task"]) = Trap
           /\ stack'["main"] = stack["main"] /\ stack'["task"] = <<>>
           /\ stack' \in [{"main", "task"} -> Seq(Values)]
<1>1. TypeOK
    BY DEF IInv
<1>2. /\ sp = "main" /\ given /\ stack["task"] = <<Trap>> /\ used["task"] = 0
    BY DEF IInv, WhileMain, Reset
<1>3. SubSeq(<<Trap>>, 1, Len(<<Trap>>) - 1) = <<>>
    BY SubSeqEmpty
<1>4. stack' = [stack EXCEPT !["task"] = <<>>]
    BY <1>2, <1>3 DEF Reset, ResetPops
<1>5. <<>> \in Seq(Values)
    BY EmptySeq
<1> QED BY <1>1, <1>2, <1>4, <1>5 DEF TypeOK, Reset

LEMMA ResetIInv == IInv /\ Reset => IInv'
<1> SUFFICES ASSUME IInv, Reset PROVE IInv'
    OBVIOUS
<1>1. TypeOK
    BY DEF IInv
<1>2. TypeOK'
    BY <1>1, ResetDoes DEF TypeOK, Reset
<1>3. Len(<<>>) = 0
    BY EmptySeq
<1>4. WhileMain' /\ WayBack'
    BY <1>3, ResetDoes DEF IInv, WhileMain, WayBack
<1> QED BY <1>2, <1>4, ResetDoes DEF IInv

LEMMA NextIInv == IInv /\ [Next]_vars => IInv'
<1> SUFFICES ASSUME IInv, [Next]_vars PROVE IInv'
    OBVIOUS
<1>1. CASE UNCHANGED vars
    BY <1>1 DEF vars, IInv, TypeOK, WhileMain, WhileTask, WayBack
<1>2. CASE Next
    BY <1>2, UseRegistersIInv, PushLocalIInv, PopLocalIInv, StartIInv,
       ContinueIInv, YieldIInv, ReturnIInv, ResetIInv DEF Next
<1> QED BY <1>1, <1>2

\* The two threads and the two stacks agree at every moment: who runs, whose
\* context is saved where, and what is under it.
THEOREM Invariance == Spec => []IInv
BY InitIInv, NextIInv, PTL DEF Spec

\* Types, for every Depth: the running thread never finds a trap, a stack
\* pointer or a return address in its registers.
THEOREM TypeCorrect == Spec => []TypeOK
<1>1. IInv => TypeOK
    BY DEF IInv
<1> QED BY <1>1, Invariance, PTL

\* sub_task_reset is right about every task: the trap is alone on the stack of
\* one that ended and never on top of one that yielded.
THEOREM Balanced == Spec => []StackBalanced
<1>1. IInv => StackBalanced
    BY DEF IInv, WhileMain, StackBalanced
<1> QED BY <1>1, Invariance, PTL

-----------------------------------------------------------------------------
(* The switch implements the coroutine                                       *)

\* The contexts, by what is on the two stacks.
MainView ==
    [regs |-> IF sp = "main" THEN regs ELSE Popped(stack["main"], regs),
     locals |-> SubSeq(stack["main"], 1, used["main"])]
TaskContext ==
    [regs |-> IF sp = "task" THEN regs ELSE Popped(stack["task"], regs),
     locals |-> SubSeq(stack["task"], 10, 9 + used["task"])]
TaskView == IF Life \in {"none", "ended"} THEN Idle ELSE TaskContext

LEMMA Views ==
    TypeOK => /\ ContextOf("main") = MainView
              /\ (IF Life \in {"none", "ended"} THEN Idle ELSE ContextOf("task"))
                    = TaskView
<1> SUFFICES ASSUME TypeOK
             PROVE  /\ ContextOf("main") = MainView
                    /\ ContextOf("task") = TaskContext
    BY DEF TaskView
<1>1. Below("main") + 1 = 1 /\ Below("task") + 1 = 10
    BY DEF Below
<1>2. Below("main") + used["main"] = used["main"]
    BY Parts DEF Below
<1>3. Below("task") + used["task"] = 9 + used["task"]
    BY DEF Below
<1> QED BY <1>1, <1>2, <1>3 DEF ContextOf, Locals, MainView, TaskContext

LEMMA NextViews ==
    TypeOK' => /\ (ContextOf("main") = MainView)'
               /\ ((IF Life \in {"none", "ended"} THEN Idle ELSE ContextOf("task"))
                    = TaskView)'
BY Views, PTL

LEMMA LocalsType ==
    ASSUME NEW w \in Seq(Values), NEW m \in Nat \ {0}, NEW n \in Nat, n <= Len(w)
    PROVE  SubSeq(w, m, n) \in Seq(Values)
<1>1. Len(w) \in Nat
    BY LenProperties
<1>2. \A i \in m..n : i \in 1..Len(w)
    BY <1>1
<1>3. \A i \in m..n : w[i] \in Values
    BY <1>2, ElementOfSeq
<1> QED BY <1>3, SubSeqProperties

LEMMA ViewTypes == IInv => MainView \in Contexts /\ TaskView \in Contexts
<1> SUFFICES ASSUME IInv PROVE MainView \in Contexts /\ TaskView \in Contexts
    OBVIOUS
<1>1. TypeOK /\ sp \in {"main", "task"}
    BY DEF IInv, TypeOK
<1>2. /\ stack["main"] \in Seq(Values) /\ stack["task"] \in Seq(Values)
      /\ Len(stack["main"]) \in Nat /\ Len(stack["task"]) \in Nat
      /\ used["main"] \in Nat /\ used["task"] \in Nat
      /\ regs \in [Registers -> Values]
    BY <1>1, Parts
<1>3. \A w : Saved(w) => Popped(w, regs) \in [Registers -> Values]
    BY WordTypes DEF Saved
<1>4. MainView \in Contexts
  <2>1. used["main"] <= Len(stack["main"])
      BY <1>1, <1>2 DEF IInv, WhileMain, WhileTask
  <2>2. SubSeq(stack["main"], 1, used["main"]) \in Seq(Values)
      BY <1>2, <2>1, LocalsType
  <2>3. sp # "main" => Popped(stack["main"], regs) \in [Registers -> Values]
      BY <1>1, <1>3 DEF IInv, WhileTask
  <2> QED BY <1>2, <2>2, <2>3 DEF MainView, Contexts
<1>5. Idle \in Contexts
    BY MarksAssumption, WordTypes, EmptySeq DEF Idle, Contexts
<1>6. ASSUME Life \notin {"none", "ended"}
      PROVE  TaskContext \in Contexts
  <2>1. /\ 9 + used["task"] <= Len(stack["task"])
        /\ sp # "task" => Saved(stack["task"])
    <3>1. CASE sp = "task"
        BY <1>2, <3>1 DEF IInv, WhileTask
    <3>2. CASE sp = "main"
      <4>1. given /\ Top(stack["task"]) # Trap
          BY <1>6, <3>2 DEF Life
      <4>2. Top(<<Trap>>) = Trap
          BY DEF Top
      <4>3. Len(stack["task"]) = 18 + used["task"] /\ Saved(stack["task"])
          BY <3>2, <4>1, <4>2 DEF IInv, WhileMain
      <4> QED BY <1>2, <4>3
    <3> QED BY <1>1, <3>1, <3>2
  <2>2. SubSeq(stack["task"], 10, 9 + used["task"]) \in Seq(Values)
      BY <1>2, <2>1, LocalsType
  <2>3. sp # "task" => Popped(stack["task"], regs) \in [Registers -> Values]
      BY <1>3, <2>1
  <2> QED BY <1>2, <2>2, <2>3 DEF TaskContext, Contexts
<1>7. TaskView \in Contexts
    BY <1>5, <1>6 DEF TaskView
<1> QED BY <1>4, <1>7

LEMMA NextViewTypes == IInv' => MainView' \in Contexts /\ TaskView' \in Contexts
<1>1. IInv' => (MainView \in Contexts /\ TaskView \in Contexts)'
    BY ViewTypes, PTL
<1> QED BY <1>1 DEF Contexts

\* What a pop finds does not depend on the registers before it.
LEMMA PoppedAnew == \A w, a, b : Popped(w, a) = Popped(w, b)
BY DEF Popped

\* While one thread computes, the other's context stays as it was saved.
LEMMA MainComputes ==
    ASSUME sp = "main", sp' = "main", given' = given,
           stack'["task"] = stack["task"], used'["task"] = used["task"]
    PROVE  Life' = Life /\ Life # "running" /\ TaskView' = TaskView
<1>1. Life' = Life /\ Life # "running"
    BY DEF Life
<1>2. TaskContext' = TaskContext
    BY PoppedAnew DEF TaskContext
<1> QED BY <1>1, <1>2 DEF TaskView, Idle

LEMMA TaskComputes ==
    ASSUME sp = "task", sp' = "task",
           stack'["main"] = stack["main"], used'["main"] = used["main"]
    PROVE  Life' = "running" /\ Life = "running" /\ MainView' = MainView
BY PoppedAnew DEF Life, MainView

\* The thread that leaves takes nothing along: what it is seen to have is the
\* same with its registers in the processor and with them on its stack.
LEMMA MainLeaves ==
    ASSUME IInv, sp = "main", sp' = "task", used' = used,
           stack'["main"] = Push(stack["main"], regs)
    PROVE  MainView' = MainView
<1>1. TypeOK /\ Len(stack["main"]) = used["main"]
    BY DEF IInv, WhileMain
<1> DEFINE w == stack["main"]
           n == used["main"]
<1>2. w \in Seq(Values) /\ regs \in [Registers -> Values] /\ n \in Nat
    BY <1>1, Parts
<1> HIDE DEF w, n
<1>3. /\ Push(w, regs) \in Seq(Values) /\ Len(Push(w, regs)) = n + 9
      /\ \A i \in 1..n : Push(w, regs)[i] = w[i]
      /\ \A now : Popped(Push(w, regs), now) = regs
    BY <1>1, <1>2, PushPop DEF w, n
<1>4. n <= Len(Push(w, regs)) /\ n <= Len(w)
    BY <1>1, <1>2, <1>3 DEF w, n
<1>5. SubSeq(Push(w, regs), 1, n) = SubSeq(w, 1, n)
    BY <1>2, <1>3, <1>4, SameBelow
<1> QED BY <1>3, <1>5 DEF MainView, w, n

LEMMA MainReturns ==
    ASSUME IInv, sp = "task", sp' = "main", used' = used,
           stack'["main"] \in Seq(Values),
           Len(stack'["main"]) = used["main"],
           Len(stack["main"]) = used["main"] + 9,
           \A i \in 1..used["main"] : stack'["main"][i] = stack["main"][i],
           regs' = Popped(stack["main"], regs)
    PROVE  MainView' = MainView
<1>1. TypeOK
    BY DEF IInv
<1> DEFINE w == stack["main"]
           v == stack'["main"]
           n == used["main"]
<1>2. w \in Seq(Values) /\ v \in Seq(Values) /\ n \in Nat
    BY <1>1, Parts
<1>3. n <= Len(w) /\ n <= Len(v) /\ \A i \in 1..n : v[i] = w[i]
    BY <1>2
<1> HIDE DEF w, v, n
<1>4. SubSeq(v, 1, n) = SubSeq(w, 1, n)
    BY <1>2, <1>3, SameBelow
<1> QED BY <1>4 DEF MainView, w, v, n

LEMMA TaskLeaves ==
    ASSUME IInv, Yield
    PROVE  Life = "running" /\ Life' = "suspended" /\ TaskView' = TaskView
<1>1. TypeOK
    BY DEF IInv
<1> DEFINE w == stack["task"]
           n == 9 + used["task"]
<1>2. /\ w \in Seq(Values) /\ regs \in [Registers -> Values] /\ n \in Nat
      /\ Len(w) = n
    BY <1>1, Parts, YieldDoes DEF IInv, WhileTask
<1>3. PICK m \in Marks : regs = Holding(m)
    BY <1>1 DEF TypeOK
<1>4. Top(Push(w, regs)) # Trap
    BY <1>2, <1>3, PushSaves
<1>5. sp = "task" /\ sp' = "main" /\ given' /\ used' = used /\ stack'["task"] = Push(w, regs)
    BY YieldDoes
<1>6. Life = "running" /\ Life' = "suspended"
    BY <1>4, <1>5 DEF Life, Top
<1> HIDE DEF w, n
<1>7. /\ Push(w, regs) \in Seq(Values) /\ Len(Push(w, regs)) = n + 9
      /\ \A i \in 1..n : Push(w, regs)[i] = w[i]
      /\ \A now : Popped(Push(w, regs), now) = regs
    BY <1>2, PushPop
<1>8. SubSeq(Push(w, regs), 10, n) = SubSeq(w, 10, n)
    BY <1>2, <1>7, SameBelow
<1>9. TaskContext' = TaskContext
    BY <1>5, <1>7, <1>8 DEF TaskContext, w, n
<1> QED BY <1>6, <1>9 DEF TaskView

LEMMA TaskContinues ==
    ASSUME IInv, Continue
    PROVE  Life = "suspended" /\ Life' = "running" /\ TaskView' = TaskView
<1>1. TypeOK
    BY DEF IInv
<1> DEFINE w == stack["task"]
           v == stack'["task"]
           n == 9 + used["task"]
<1>2. Life = "suspended" /\ Life' = "running"
    BY ContinueDoes DEF Life
<1>3. /\ w \in Seq(Values) /\ v \in Seq(Values) /\ n \in Nat
      /\ Len(v) = n /\ n <= Len(w)
      /\ \A i \in 1..n : v[i] = w[i]
    BY <1>1, Parts, ContinueDoes
<1>4. sp = "main" /\ sp' = "task" /\ used' = used /\ regs' = Popped(w, regs)
    BY ContinueDoes
<1> HIDE DEF w, v, n
<1>5. SubSeq(v, 10, n) = SubSeq(w, 10, n)
    BY <1>3, SameBelow
<1>6. TaskContext' = TaskContext
    BY <1>4, <1>5 DEF TaskContext, w, v, n
<1> QED BY <1>2, <1>6 DEF TaskView

\* The steps of the coroutine, said of the views.
Seen(main, task, from, to) ==
    Life = from /\ Life' = to /\ main /\ task
MainSame == MainView' = MainView
TaskSame == TaskView' = TaskView
MainAny == MainView' \in Contexts
TaskAny == TaskView' \in Contexts

LEMMA StepSeen ==
    ASSUME IInv, IInv', [Next]_vars
    PROVE  \/ Life # "running" /\ Life' = Life /\ MainAny /\ TaskSame
           \/ Seen(MainSame, TaskAny, "running", "running")
           \/ Seen(MainSame, TaskAny, "none", "running")
           \/ Seen(MainSame, TaskSame, "running", "suspended")
           \/ Seen(MainSame, TaskSame, "suspended", "running")
           \/ Seen(MainSame, TaskAny, "running", "ended")
           \/ Seen(MainSame, TaskSame, "ended", "none")
           \/ Life' = Life /\ MainSame /\ TaskSame
<1>1. TypeOK /\ sp \in {"main", "task"} /\ given \in BOOLEAN
    BY DEF IInv, TypeOK
<1>2. MainAny /\ TaskAny
    BY NextViewTypes DEF MainAny, TaskAny
<1>3. ASSUME sp' = sp, given' = given, stack' = [stack EXCEPT ![sp] = stack'[sp]],
             used' = [used EXCEPT ![sp] = used'[sp]]
      PROVE  \/ Life # "running" /\ Life' = Life /\ MainAny /\ TaskSame
             \/ Seen(MainSame, TaskAny, "running", "running")
  <2>1. CASE sp = "main"
    <3>1. stack'["task"] = stack["task"] /\ used'["task"] = used["task"]
        BY <1>1, <1>3, <2>1 DEF TypeOK
    <3> QED BY <1>2, <1>3, <2>1, <3>1, MainComputes DEF TaskSame
  <2>2. CASE sp = "task"
    <3>1. stack'["main"] = stack["main"] /\ used'["main"] = used["main"]
        BY <1>1, <1>3, <2>2 DEF TypeOK
    <3> QED BY <1>2, <1>3, <2>2, <3>1, TaskComputes DEF MainSame, Seen
  <2> QED BY <1>1, <2>1, <2>2
<1>4. CASE UseRegisters
    BY <1>1, <1>3, <1>4 DEF UseRegisters, TypeOK
<1>5. CASE PushLocal
    BY <1>1, <1>3, <1>5 DEF PushLocal, TypeOK
<1>6. CASE PopLocal
    BY <1>1, <1>3, <1>6 DEF PopLocal, TypeOK
<1>7. CASE Start
  <2>1. MainSame
      BY <1>7, StartDoes, MainLeaves DEF MainSame
  <2>2. Life = "none" /\ Life' = "running"
      BY <1>7, StartDoes DEF Life
  <2> QED BY <1>2, <2>1, <2>2 DEF Seen
<1>8. CASE Continue
  <2>1. MainSame
      BY <1>8, ContinueDoes, MainLeaves DEF MainSame
  <2> QED BY <1>8, <2>1, TaskContinues DEF Seen, TaskSame
<1>9. CASE Yield
  <2>1. MainSame
      BY <1>9, YieldDoes, MainReturns DEF MainSame
  <2> QED BY <1>9, <2>1, TaskLeaves DEF Seen, TaskSame
<1>10. CASE Return
  <2>1. MainSame
      BY <1>10, ReturnDoes, MainReturns DEF MainSame
  <2>2. Top(<<Trap>>) = Trap
      BY DEF Top
  <2>3. Life = "running" /\ Life' = "ended"
      BY <1>10, <2>2, ReturnDoes DEF Life, Top
  <2> QED BY <1>2, <2>1, <2>3 DEF Seen
<1>11. CASE Reset
  <2>1. MainSame
      BY <1>11, ResetDoes DEF MainSame, MainView
  <2>2. Life = "ended" /\ Life' = "none"
      BY <1>11, ResetDoes DEF Life
  <2>3. TaskSame
      BY <2>2 DEF TaskSame, TaskView, Idle
  <2> QED BY <2>1, <2>2, <2>3 DEF Seen
<1>12. CASE UNCHANGED vars
    BY <1>12 DEF vars, Life, MainSame, MainView, TaskSame, TaskView, TaskContext, Idle
<1> QED BY <1>4, <1>5, <1>6, <1>7, <1>8, <1>9, <1>10, <1>11, <1>12 DEF Next

LEMMA StepRefines == IInv /\ IInv' /\ [Next]_vars => [Threads!Next]_(Threads!vars)
<1> SUFFICES ASSUME IInv, IInv', [Next]_vars
             PROVE  [Threads!Next]_(Threads!vars)
    OBVIOUS
<1> DEFINE main == ContextOf("main")
           task == IF Life \in {"none", "ended"} THEN Idle ELSE ContextOf("task")
<1>1. main = MainView /\ task = TaskView
    BY Views DEF IInv
<1>2. main' = MainView' /\ task' = TaskView'
    BY NextViews DEF IInv
<1> HIDE DEF main, task
<1>3. \/ Life # "running" /\ Life' = Life /\ main' \in Contexts /\ task' = task
      \/ Life = "running" /\ Life' = "running" /\ main' = main /\ task' \in Contexts
      \/ Life = "none" /\ Life' = "running" /\ main' = main /\ task' \in Contexts
      \/ Life = "running" /\ Life' = "suspended" /\ main' = main /\ task' = task
      \/ Life = "suspended" /\ Life' = "running" /\ main' = main /\ task' = task
      \/ Life = "running" /\ Life' = "ended" /\ main' = main /\ task' \in Contexts
      \/ Life = "ended" /\ Life' = "none" /\ main' = main /\ task' = task
      \/ Life' = Life /\ main' = main /\ task' = task
    BY <1>1, <1>2, StepSeen DEF Seen, MainSame, TaskSame, MainAny, TaskAny
<1>4. \/ Threads!MainWorks \/ Threads!TaskWorks \/ Threads!Start \/ Threads!Yield
      \/ Threads!Continue \/ Threads!End \/ Threads!Reset
      \/ UNCHANGED Threads!vars
    BY <1>3 DEF Threads!MainWorks, Threads!TaskWorks, Threads!Start, Threads!Yield,
       Threads!Continue, Threads!End, Threads!Reset, Threads!Switch, Threads!vars,
       main, task
<1> QED BY <1>4 DEF Threads!Next

LEMMA InitRefines == Init => Threads!Init
<1> SUFFICES ASSUME Init PROVE Threads!Init
    OBVIOUS
<1>1. IInv
    BY InitIInv
<1>2. Life = "none"
    BY DEF Init, Life
<1>3. MainView \in Contexts /\ TaskView \in Contexts
    BY <1>1, ViewTypes
<1>4. /\ ContextOf("main") = MainView
      /\ (IF Life \in {"none", "ended"} THEN Idle ELSE ContextOf("task")) = TaskView
    BY <1>1, Views DEF IInv
<1> QED BY <1>2, <1>3, <1>4 DEF Threads!Init

\* Whatever the two threads compute and however deep their stacks are, each
\* goes on after a switch with the registers, the stack and the place it had.
THEOREM Refinement == Spec => IsCoroutine
<1>1. Init => Threads!Init
    BY InitRefines
<1>2. IInv /\ IInv' /\ [Next]_vars => [Threads!Next]_(Threads!vars)
    BY StepRefines
<1> QED BY <1>1, <1>2, Invariance, PTL DEF Spec, IsCoroutine, Threads!Spec
=============================================================================
