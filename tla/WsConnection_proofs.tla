------------------------ MODULE WsConnection_proofs ------------------------
(* Proofs about WsConnection for any window, send buffer and answers: one    *)
(* inductive invariant, kept by every callback and every step of the task,   *)
(* that ties the waiting task to the announcements still to be made, the pcb *)
(* to the errors and the framinator to the send queue.                       *)
EXTENDS WsConnection, SequenceTheorems, TLAPS

\* What a callback still has to announce, from its first reason to its last.
All == <<READ, WAIT_FOR_ACK, FLUSH>>
Writers == <<WAIT_FOR_ACK, FLUSH>>
Announcements == {<<>>, <<READ>>, All, Writers, <<FLUSH>>}

Announced(reason) ==
    /\ turn = "notify"
    /\ \/ reason = READ /\ pending \in {<<READ>>, All}
       \/ reason = WAIT_FOR_ACK /\ pending \in {All, Writers}
       \/ reason = FLUSH /\ pending \in {All, Writers, <<FLUSH>>}

\* The reason the task waits for at each place where it can yield.
ReadPlaces == {"request", "header", "key", "frame"}
AckPlaces == {"writing", "acking"}
Asleep == turn # "task" /\ at \notin {"none", "ended"}

WaitInv ==
    Asleep =>
        \/ at \in ReadPlaces /\ waiting_reason = READ
        \/ at \in AckPlaces /\ waiting_reason = WAIT_FOR_ACK
        \/ at = "draining" /\ waiting_reason = FLUSH

\* Errors are reported when the pcb is gone, and returned once reported.
ErrInv ==
    /\ active_err \/ failed => ~pcb
    /\ err => active_err

PendingInv ==
    /\ pending \in Announcements
    /\ turn = "idle" => pending = <<>>
    /\ failed => pending # <<READ>>

\* Without a task there is no connection, and the result of an ended one
\* wakes nothing.
EndInv ==
    /\ at \in {"none", "ended"} => ~pcb /\ turn # "task"
    /\ at \in {"none", "ended"} => waiting_reason \in {END, ABRT}
    /\ at \in {"none", "ended"} /\ waiting_reason = ABRT => ~active_err

\* A task whose connection is gone knows, or is about to be told; one that
\* knows does not wait for anything.
LossInv ==
    /\ ~pcb /\ at \notin {"none", "ended"} /\ ~active_err
         => failed /\ Announced(waiting_reason)
    /\ active_err /\ turn \in {"idle", "notify"} => at \in {"none", "ended"}

\* A task waits for what has not come, or is about to be told that it came.
SleepInv ==
    Asleep /\ pcb =>
        /\ waiting_reason = READ => p_current = <<>> \/ Announced(READ)
        /\ waiting_reason # READ =>
             unacked > 0 \/ Announced(waiting_reason) \/ ReplyRefused

\* Nothing the task did not read is lost from the peer's window.
WindowInv == pcb => window + Len(p_current) = RcvWnd

\* The framinator's callback is set when nothing is in flight, and from then
\* on every unit in flight is a frame of its ring, if it has one.
AckInv ==
    /\ at \in HeaderPlaces \cup AnswerPlaces => ~ack_callback /\ frames = 0
    /\ pcb /\ at = "init" => unacked = 0
    /\ pcb /\ at \in FramePlaces =>
         /\ ack_callback
         /\ unacked <= frames
         /\ at # "acking" => frames = 0
         /\ at = "acking" => fram = "ready"

\* A ws_t_write that was begun has something left to write.
OutInv == at = "writing" => out # <<>>

ConInv ==
    /\ TypeOK /\ WaitInv /\ ErrInv /\ PendingInv /\ EndInv /\ LossInv
    /\ SleepInv /\ WindowInv /\ AckInv /\ OutInv /\ WritesToOpenPcb

-----------------------------------------------------------------------------
\* Announcing the next reason leaves the later ones.
LEMMA TailOfAnnouncements ==
  /\ Head(<<READ>>) = READ /\ Tail(<<READ>>) = <<>>
  /\ Head(All) = READ /\ Tail(All) = Writers
  /\ Head(Writers) = WAIT_FOR_ACK /\ Tail(Writers) = <<FLUSH>>
  /\ Head(<<FLUSH>>) = FLUSH /\ Tail(<<FLUSH>>) = <<>>
  BY DEF All, Writers

\* The sequences of announcements are different from one another.
LEMMA AnnouncementsDiffer ==
  /\ <<READ>> # <<>> /\ All # <<>> /\ Writers # <<>> /\ <<FLUSH>> # <<>>
  /\ <<READ>> # All /\ <<READ>> # Writers /\ <<READ>> # <<FLUSH>>
  /\ All # Writers /\ All # <<FLUSH>> /\ Writers # <<FLUSH>>
  BY DEF All, Writers, READ, FLUSH, WAIT_FOR_ACK

\* The announcements are sequences of reasons.
LEMMA AnnouncementsType == Announcements \subseteq Seq(Reasons)
  BY DEF Announcements, All, Writers, Reasons

\* The type invariant in three parts.
SeqTypes ==
    /\ p_current \in Seq(Items) /\ Len(p_current) <= RcvWnd
    /\ out \in Seq(Nat)
    /\ pending \in Seq(Reasons)

FlagTypes ==
    /\ pcb \in BOOLEAN /\ notify_ack \in BOOLEAN /\ ack_callback \in BOOLEAN
    /\ active_err \in BOOLEAN /\ err \in BOOLEAN
    /\ upgrade \in BOOLEAN /\ failed \in BOOLEAN

RestTypes ==
    /\ window \in 0..RcvWnd
    /\ unacked \in 0..SndBuf
    /\ frames \in Nat
    /\ waiting_reason \in Reasons \cup {END, ABRT}
    /\ at \in Places
    /\ fram \in {"none", "ready", "garbage"}
    /\ turn \in {"idle", "notify", "task", "check"}

\* The parts make up the type invariant.
LEMMA TypeParts == TypeOK <=> SeqTypes /\ FlagTypes /\ RestTypes
  BY DEF TypeOK, SeqTypes, FlagTypes, RestTypes

USE DEF READ, FLUSH, WAIT_FOR_ACK, END, ABRT,
        Places, HeaderPlaces, AnswerPlaces, FramePlaces, ReadPlaces, AckPlaces,
        ReplyRefused

\* The empty sequence has every type.
LEMMA Empty ==
  /\ <<>> \in Seq(Items) /\ <<>> \in Seq(Nat) /\ <<>> \in Seq(Reasons)
  /\ Len(<<>>) = 0
  <1>1. \A S : <<>> \in Seq(S) /\ Len(<<>>) = 0
    BY EmptySeq, Zenon
  <1>2. QED
    BY <1>1, Zenon

\* The initial state satisfies the invariant.
LEMMA InitCon == Init => ConInv
  <1> SUFFICES ASSUME Init PROVE ConInv
    OBVIOUS
  <1> USE DEF Init
  <1>1. SeqTypes /\ WindowInv
    BY SizesAssumption, Empty DEF SeqTypes, WindowInv
  <1>2. RestTypes /\ FlagTypes
    <2>1. FlagTypes
      BY DEF FlagTypes
    <2>2. RestTypes
      BY SizesAssumption DEF RestTypes
    <2>3. QED BY <2>1, <2>2
  <1>3. WaitInv /\ ErrInv /\ PendingInv /\ EndInv /\ LossInv /\ SleepInv
    BY AnnouncementsDiffer
    DEF WaitInv, ErrInv, PendingInv, EndInv, LossInv, SleepInv, Asleep,
        Announcements
  <1>4. AckInv /\ OutInv /\ WritesToOpenPcb
    BY DEF AckInv, OutInv, WritesToOpenPcb
  <1>5. QED
    BY <1>1, <1>2, <1>3, <1>4, TypeParts DEF ConInv

-----------------------------------------------------------------------------
\* A callback can only come to a task that sleeps at one of its waits.
LEMMA CallbackAsleep ==
  ASSUME ConInv, turn = "idle", pcb
  PROVE  /\ Asleep /\ at \in ReadPlaces \cup AckPlaces \cup {"draining"}
         /\ pending = <<>> /\ ~active_err
         /\ ack_callback => unacked <= frames
  BY DEF ConInv, EndInv, WaitInv, Asleep, PendingInv, AckInv, ErrInv

\* A new connection finds the state of one that has not been used.
LEMMA AcceptCon == ConInv /\ Accept => ConInv'
  <1> SUFFICES ASSUME ConInv, Accept PROVE ConInv'
    OBVIOUS
  <1> USE DEF Accept
  <1>1. SeqTypes' /\ WindowInv'
    BY SizesAssumption, Empty DEF SeqTypes, WindowInv
  <1>2. RestTypes' /\ FlagTypes'
    <2>1. FlagTypes'
      BY DEF FlagTypes
    <2>2. RestTypes'
      BY SizesAssumption DEF RestTypes
    <2>3. QED BY <2>1, <2>2
  <1>3. WaitInv' /\ ErrInv' /\ PendingInv' /\ EndInv' /\ LossInv' /\ SleepInv'
    BY DEF WaitInv, ErrInv, PendingInv, EndInv, LossInv, SleepInv, Asleep,
           Announcements
  <1>4. AckInv' /\ OutInv' /\ WritesToOpenPcb'
    BY DEF AckInv, OutInv, WritesToOpenPcb
  <1>5. QED
    BY <1>1, <1>2, <1>3, <1>4
    DEF ConInv, TypeOK, SeqTypes, FlagTypes, RestTypes

\* Data that arrives is announced to a reader.
LEMMA RecvCon == ConInv /\ Recv => ConInv'
  <1> SUFFICES ASSUME ConInv, Recv PROVE ConInv'
    OBVIOUS
  <1> USE DEF Recv, Callback, ioVars, jobVars, ackVars
  <1>0. Asleep /\ ~active_err
    BY CallbackAsleep
  <1>1. p_current' \in Seq(Items) /\ Len(p_current') = Len(p_current) + 1
    BY AppendProperties DEF ConInv, TypeOK
  <1>2. pending' \in Seq(Reasons)
    BY AnnouncementsType DEF Announcements
  <1>3. SeqTypes' /\ WindowInv'
    BY <1>1, <1>2, SizesAssumption, TypeParts
    DEF ConInv, SeqTypes, RestTypes, WindowInv
  <1>4. RestTypes' /\ FlagTypes'
    <2>1. FlagTypes'
      BY TypeParts DEF ConInv, FlagTypes
    <2>2. RestTypes'
      BY SizesAssumption, TypeParts DEF ConInv, RestTypes
    <2>3. QED BY <2>1, <2>2
  <1>5. WaitInv' /\ ErrInv' /\ PendingInv' /\ EndInv' /\ LossInv' /\ OutInv'
          /\ WritesToOpenPcb'
    BY <1>0
    DEF ConInv, WaitInv, ErrInv, PendingInv, EndInv, LossInv, OutInv,
        WritesToOpenPcb, Asleep, Announcements
  <1>6. SleepInv'
    BY <1>0, CallbackAsleep, AnnouncementsDiffer
    DEF ConInv, SleepInv, Asleep, Announced, PendingInv
  <1>7. AckInv'
    BY DEF ConInv, AckInv
  <1>8. QED
    BY <1>3, <1>4, <1>5, <1>6, <1>7
    DEF ConInv, TypeOK, SeqTypes, FlagTypes, RestTypes

\* The loss of the connection is announced to whoever waits.
LEMMA LossCon == ConInv /\ (RecvClose \/ ConnectionError) => ConInv'
  <1> SUFFICES ASSUME ConInv, RecvClose \/ ConnectionError PROVE ConInv'
    OBVIOUS
  <1> USE DEF RecvClose, ConnectionError, Callback, ioVars, jobVars, ackVars,
              rcvVars
  <1>1. Asleep /\ ~active_err /\ turn = "idle" /\ pcb
    BY CallbackAsleep
  <1>2. pending' = All /\ turn' = "notify" /\ failed'
    BY DEF All
  <1>3. SeqTypes'
    BY <1>2, AnnouncementsType, TypeParts DEF ConInv, SeqTypes, Announcements
  <1>4. FlagTypes' /\ RestTypes'
    BY TypeParts DEF ConInv, FlagTypes, RestTypes
  <1>5. WaitInv' /\ ErrInv' /\ PendingInv' /\ EndInv' /\ LossInv'
    BY <1>1, <1>2, AnnouncementsDiffer
    DEF ConInv, WaitInv, ErrInv, PendingInv, EndInv, LossInv, Asleep,
        Announcements, Announced
  <1>6. SleepInv' /\ WindowInv' /\ AckInv' /\ OutInv' /\ WritesToOpenPcb'
    BY <1>1 DEF ConInv, SleepInv, WindowInv, AckInv, OutInv, WritesToOpenPcb,
                Asleep
  <1>7. QED
    BY <1>3, <1>4, <1>5, <1>6
    DEF ConInv, TypeOK, SeqTypes, FlagTypes, RestTypes

\* An acknowledgement is announced to every kind of writer, and takes from
\* the ring what it takes from the send queue.
LEMMA SentCon == ConInv /\ Sent => ConInv'
  <1> SUFFICES ASSUME ConInv, Sent PROVE ConInv'
    OBVIOUS
  <1> USE DEF Callback, ioVars, jobVars, rcvVars
  <1>1. /\ Asleep /\ ~active_err /\ turn = "idle" /\ pcb
        /\ at \in ReadPlaces \cup AckPlaces \cup {"draining"}
        /\ ack_callback => unacked <= frames
    BY CallbackAsleep DEF Sent
  <1>2. pending' = Writers /\ turn' = "notify" /\ ~failed'
    BY DEF Writers, Sent
  <1>3. SeqTypes'
    BY <1>2, AnnouncementsType, TypeParts
    DEF ConInv, SeqTypes, Announcements, Sent
  <1>4. PICK n \in 1..unacked :
          /\ unacked' = unacked - n
          /\ frames' = IF ack_callback THEN frames - n ELSE frames
    BY DEF Sent
  <1>5. FlagTypes'
    BY TypeParts DEF ConInv, FlagTypes, Sent
  <1>6. RestTypes'
    <2>1. unacked' \in 0..SndBuf /\ frames' \in Nat
      BY <1>1, <1>4, TypeParts, SizesAssumption DEF ConInv, RestTypes
    <2>2. QED
      BY <2>1, TypeParts DEF ConInv, RestTypes, Sent
  <1>7. WaitInv' /\ ErrInv' /\ PendingInv' /\ EndInv' /\ LossInv'
    BY <1>1, <1>2, AnnouncementsDiffer
    DEF ConInv, WaitInv, ErrInv, PendingInv, EndInv, LossInv, Asleep,
        Announcements, Announced, Sent
  <1>8. SleepInv'
    BY <1>1, <1>2 DEF ConInv, SleepInv, WaitInv, Asleep, Announced, Sent
  <1>9. AckInv'
    BY <1>1, <1>4, TypeParts, SizesAssumption
    DEF ConInv, AckInv, RestTypes, Sent
  <1>10. WindowInv' /\ OutInv' /\ WritesToOpenPcb'
    BY DEF ConInv, WindowInv, OutInv, WritesToOpenPcb, Sent
  <1>11. QED
    BY <1>3, <1>5, <1>6, <1>7, <1>8, <1>9, <1>10
    DEF ConInv, TypeOK, SeqTypes, FlagTypes, RestTypes

-----------------------------------------------------------------------------
\* A task that goes on gets every error there is: when its pcb is gone, the
\* yield returns one.
LEMMA ContinueCon ==
  ASSUME ConInv, Asleep, at # "fault", Continue(active_err'),
         active_err' \in BOOLEAN, active_err => active_err',
         active_err' <=> ~pcb,
         pending' \in Announcements, failed' = failed,
         failed => pending' # <<READ>>
  PROVE  ConInv'
  <1> USE DEF Continue, jobVars, rcvVars
  <1>1. at' = at /\ turn' = "task"
    BY DEF Asleep
  <1>2. SeqTypes'
    BY AnnouncementsType, TypeParts DEF ConInv, SeqTypes
  <1>3. FlagTypes'
    BY TypeParts DEF ConInv, FlagTypes
  <1>4. RestTypes'
    BY <1>1, TypeParts DEF ConInv, RestTypes
  <1>5. WaitInv' /\ SleepInv' /\ ErrInv' /\ PendingInv' /\ WritesToOpenPcb'
    BY <1>1 DEF ConInv, WaitInv, SleepInv, ErrInv, PendingInv, Asleep,
                WritesToOpenPcb
  <1>6. EndInv' /\ LossInv'
    BY <1>1 DEF ConInv, EndInv, LossInv, Asleep
  <1>7. WindowInv' /\ OutInv' /\ AckInv'
    BY <1>1 DEF ConInv, WindowInv, OutInv, AckInv
  <1>8. QED
    BY <1>2, <1>3, <1>4, <1>5, <1>6, <1>7
    DEF ConInv, TypeOK, SeqTypes, FlagTypes, RestTypes

\* The reasons that are left after the next one was announced.
LEMMA NextAnnouncement ==
  ASSUME ConInv, turn = "notify", pending # <<>>, pending' = Tail(pending)
  PROVE  /\ pending' \in Announcements /\ pending' # <<READ>>
         /\ Head(pending) \in Reasons
         /\ turn' = turn =>
              \A reason \in Reasons :
                Announced(reason) /\ reason # Head(pending)
                  => Announced(reason)'
  <1>1. pending \in {<<READ>>, All, Writers, <<FLUSH>>}
    BY DEF ConInv, PendingInv, Announcements
  <1>2. CASE pending = <<READ>>
    BY <1>2, TailOfAnnouncements, AnnouncementsDiffer
    DEF Announcements, Announced, Reasons
  <1>3. CASE pending = All
    BY <1>3, TailOfAnnouncements, AnnouncementsDiffer
    DEF Announcements, Announced, Reasons
  <1>4. CASE pending = Writers
    BY <1>4, TailOfAnnouncements, AnnouncementsDiffer
    DEF Announcements, Announced, Reasons
  <1>5. CASE pending = <<FLUSH>>
    BY <1>5, TailOfAnnouncements, AnnouncementsDiffer
    DEF Announcements, Announced, Reasons
  <1>6. QED
    BY <1>1, <1>2, <1>3, <1>4, <1>5

\* iol_notify continues the task that waits for the reason, or leaves it to
\* the announcements still to come.
LEMMA NotifyCon == ConInv /\ Notify => ConInv'
  <1> SUFFICES ASSUME ConInv, Notify PROVE ConInv'
    OBVIOUS
  <1>1. /\ turn = "notify" /\ pending # <<>> /\ pending' = Tail(pending)
        /\ failed' = failed
    BY DEF Notify
  <1>2. /\ pending' \in Announcements /\ pending' # <<READ>>
        /\ Head(pending) \in Reasons
    BY <1>1, NextAnnouncement
  <1>3. CASE waiting_reason = Head(pending)
    <2>1. active_err' = (active_err \/ failed) /\ Continue(active_err')
      BY <1>3 DEF Notify
    <2>2. at \notin {"none", "ended"}
      BY <1>2, <1>3 DEF ConInv, EndInv, Reasons
    <2>3. Asleep /\ at # "fault"
      BY <1>1, <2>2 DEF Asleep, ConInv, WaitInv
    <2>4. active_err' \in BOOLEAN
      BY <2>1, TypeParts DEF ConInv, FlagTypes
    <2>5. (active_err \/ failed) <=> ~pcb
      BY <2>2 DEF ConInv, ErrInv, LossInv
    <2>6. QED
      BY <1>1, <1>2, <2>1, <2>3, <2>4, <2>5, ContinueCon
  <1>4. CASE waiting_reason # Head(pending)
    <2>1. UNCHANGED <<pcb, rcvVars, unacked, ackVars, ioVars, at, err, jobVars,
                      turn>>
      BY <1>4 DEF Notify
    <2> USE DEF rcvVars, ackVars, ioVars, jobVars
    <2>2. SeqTypes' /\ FlagTypes' /\ RestTypes'
      BY <1>1, <1>2, <2>1, AnnouncementsType, TypeParts
      DEF ConInv, SeqTypes, FlagTypes, RestTypes
    <2>3. WaitInv' /\ ErrInv' /\ PendingInv' /\ EndInv' /\ WindowInv' /\ AckInv'
            /\ OutInv' /\ WritesToOpenPcb'
      BY <1>1, <1>2, <2>1
      DEF ConInv, WaitInv, ErrInv, PendingInv, EndInv, WindowInv, AckInv,
          OutInv, WritesToOpenPcb, Asleep
    <2>4. at \notin {"none", "ended"} =>
            waiting_reason \in Reasons
              /\ (Announced(waiting_reason) => Announced(waiting_reason)')
      <3>1. at \notin {"none", "ended"} => waiting_reason \in Reasons
        BY <1>1 DEF ConInv, WaitInv, Asleep, Reasons
      <3>2. \A reason \in Reasons :
              Announced(reason) /\ reason # Head(pending) => Announced(reason)'
        BY <1>1, <2>1, NextAnnouncement
      <3>3. QED
        BY <1>4, <2>1, <3>1, <3>2 DEF Announced
    <2>5. LossInv' /\ SleepInv'
      BY <1>1, <2>1, <2>4 DEF ConInv, LossInv, SleepInv, Asleep, Announced
    <2>6. QED
      BY <2>2, <2>3, <2>5 DEF ConInv, TypeOK, SeqTypes, FlagTypes, RestTypes
  <1>5. QED
    BY <1>3, <1>4

\* A callback returns when everything is announced.
LEMMA ReturnCon == ConInv /\ CallbackReturns => ConInv'
  <1> SUFFICES ASSUME ConInv, CallbackReturns PROVE ConInv'
    OBVIOUS
  <1> USE DEF CallbackReturns, rcvVars, ackVars, ioVars, jobVars, cbVars
  <1>1. SeqTypes' /\ FlagTypes' /\ RestTypes'
    BY TypeParts DEF ConInv, SeqTypes, FlagTypes, RestTypes
  <1>2. ~Announced(READ) /\ ~Announced(waiting_reason)
    BY AnnouncementsDiffer DEF Announced
  <1>3. WaitInv' /\ ErrInv' /\ PendingInv' /\ EndInv' /\ LossInv' /\ SleepInv'
    BY <1>2 DEF ConInv, WaitInv, ErrInv, PendingInv, EndInv, LossInv, SleepInv,
                Asleep
  <1>4. WindowInv' /\ AckInv' /\ OutInv' /\ WritesToOpenPcb'
    BY DEF ConInv, WindowInv, AckInv, OutInv, WritesToOpenPcb
  <1>5. QED
    BY <1>1, <1>3, <1>4 DEF ConInv, TypeOK, SeqTypes, FlagTypes, RestTypes

\* The check of a yield lets an ended task rest, and lets any other go on
\* only with the error that was reported to it.
LEMMA RecheckCon == ConInv /\ Recheck => ConInv'
  <1> SUFFICES ASSUME ConInv, Recheck PROVE ConInv'
    OBVIOUS
  <1> USE DEF cbVars
  <1>1. turn = "check" /\ UNCHANGED <<active_err, pending, failed>>
    BY DEF Recheck
  <1>2. CASE CheckReason(waiting_reason, active_err)
    <2>1. Continue(active_err')
      BY <1>1, <1>2 DEF Recheck, Continue
    <2>2. at \notin {"none", "ended"}
      BY <1>2 DEF ConInv, EndInv, CheckReason
    <2>3. Asleep /\ at # "fault"
      BY <1>1, <2>2 DEF Asleep, ConInv, WaitInv
    <2>4. active_err <=> ~pcb
      BY <1>1, <2>2 DEF ConInv, ErrInv, LossInv, Announced
    <2>5. active_err \in BOOLEAN /\ pending \in Announcements
            /\ (failed => pending # <<READ>>)
      BY TypeParts DEF ConInv, FlagTypes, PendingInv
    <2>6. QED
      BY <1>1, <2>1, <2>3, <2>4, <2>5, ContinueCon
  <1>3. CASE ~CheckReason(waiting_reason, active_err)
    <2>1. /\ turn' = "notify"
          /\ UNCHANGED <<pcb, rcvVars, unacked, ackVars, waiting_reason, at,
                         err, jobVars>>
      BY <1>3 DEF Recheck
    <2> USE DEF rcvVars, ackVars, jobVars
    <2>2. SeqTypes' /\ FlagTypes' /\ RestTypes'
      BY <1>1, <2>1, TypeParts DEF ConInv, SeqTypes, FlagTypes, RestTypes
    <2>3. active_err => at \in {"none", "ended"}
      BY <1>1, <1>3 DEF CheckReason, ConInv, WaitInv, Asleep
    <2>4. WaitInv' /\ ErrInv' /\ PendingInv' /\ EndInv' /\ LossInv' /\ SleepInv'
      BY <1>1, <2>1, <2>3
      DEF ConInv, WaitInv, ErrInv, PendingInv, EndInv, LossInv, SleepInv,
          Asleep, Announced
    <2>5. WindowInv' /\ AckInv' /\ OutInv' /\ WritesToOpenPcb'
      BY <2>1 DEF ConInv, WindowInv, AckInv, OutInv, WritesToOpenPcb
    <2>6. QED
      BY <2>2, <2>4, <2>5 DEF ConInv, TypeOK, SeqTypes, FlagTypes, RestTypes
  <1>4. QED
    BY <1>2, <1>3

-----------------------------------------------------------------------------
\* While the task runs, what concerns sleeping tasks is not disturbed by a
\* step that stays at its place with the pcb, or goes elsewhere.
LEMMA MoveKeeps ==
  ASSUME ConInv, turn = "task", at' \in Places \ {"none", "ended"},
         err' = FALSE, UNCHANGED <<turn, ioVars, pcb, cbVars>>
  PROVE  WaitInv' /\ ErrInv' /\ PendingInv' /\ EndInv' /\ LossInv' /\ SleepInv'
  BY DEF ConInv, WaitInv, ErrInv, PendingInv, EndInv, LossInv, SleepInv, Asleep,
         Announced, ioVars, cbVars

\* A task that yields has been told of every error.
LEMMA YieldKeeps ==
  ASSUME ConInv, turn = "task", turn' = "check",
         \/ at \in ReadPlaces /\ waiting_reason' = READ
         \/ at \in AckPlaces /\ waiting_reason' = WAIT_FOR_ACK
         \/ at = "draining" /\ waiting_reason' = FLUSH,
         UNCHANGED <<at, err, active_err, pcb, cbVars>>
  PROVE  WaitInv' /\ ErrInv' /\ PendingInv' /\ EndInv' /\ LossInv'
  BY DEF ConInv, WaitInv, ErrInv, PendingInv, EndInv, LossInv, Asleep,
         Announced, cbVars

\* Taking an item makes room for another one.
LEMMA ConsumeKeeps ==
  ASSUME ConInv, p_current # <<>>, Consume, pcb' = pcb
  PROVE  /\ p_current' \in Seq(Items) /\ Len(p_current') <= RcvWnd
         /\ window' \in 0..RcvWnd
         /\ WindowInv'
  <1>1. /\ p_current' \in Seq(Items)
        /\ Len(p_current') = Len(p_current) - 1
        /\ Len(p_current) \in Nat /\ Len(p_current') \in Nat
    BY HeadTailProperties, LenProperties, TypeParts
    DEF Consume, ConInv, SeqTypes
  <1>2. /\ RcvWnd \in Nat /\ window \in 0..RcvWnd
        /\ Len(p_current) <= RcvWnd
        /\ pcb => window + Len(p_current) = RcvWnd
    BY TypeParts, SizesAssumption DEF ConInv, SeqTypes, RestTypes, WindowInv
  <1>3. window' = IF pcb THEN window + 1 ELSE window
    BY DEF Consume
  <1>4. window' \in 0..RcvWnd
    BY <1>1, <1>2, <1>3
  <1>5. WindowInv'
    BY <1>1, <1>2, <1>3 DEF WindowInv
  <1>6. QED
    BY <1>1, <1>2, <1>4, <1>5

\* The waits for data, of the header and of the frames.
LEMMA AwaitCon ==
  ConInv /\ (AwaitHeader \/ \E place \in {"key", "frame"} : AwaitBytes(place))
    => ConInv'
  <1> SUFFICES ASSUME ConInv,
                      AwaitHeader \/ AwaitBytes("key") \/ AwaitBytes("frame")
               PROVE  ConInv'
    OBVIOUS
  <1> USE DEF AwaitHeader, AwaitBytes, Running, Yield, rcvVars, ackVars, jobVars,
              cbVars
  <1>1. SeqTypes' /\ FlagTypes' /\ RestTypes'
    BY TypeParts DEF ConInv, SeqTypes, FlagTypes, RestTypes, Reasons
  <1>2. WaitInv' /\ ErrInv' /\ PendingInv' /\ EndInv' /\ LossInv'
    <2>1. /\ turn = "task" /\ turn' = "check"
          /\ at \in ReadPlaces /\ waiting_reason' = READ
          /\ UNCHANGED <<at, err, active_err, pcb, cbVars>>
      OBVIOUS
    <2>2. QED
      BY <2>1, YieldKeeps
  <1>3. SleepInv' /\ WindowInv' /\ AckInv' /\ OutInv' /\ WritesToOpenPcb'
    BY DEF ConInv, SleepInv, WindowInv, AckInv, OutInv, WritesToOpenPcb
  <1>4. QED
    BY <1>1, <1>2, <1>3 DEF ConInv, TypeOK, SeqTypes, FlagTypes, RestTypes

\* The errors of the reads, dropped in the header and passed on elsewhere.
LEMMA ReadErrorCon ==
  ConInv /\ (HeaderError \/ \E place \in {"key", "frame"} : ReadFails(place))
    => ConInv'
  <1> SUFFICES ASSUME ConInv,
                      HeaderError \/ ReadFails("key") \/ ReadFails("frame")
               PROVE  ConInv'
    OBVIOUS
  <1> USE DEF HeaderError, ReadFails, Running, GoTo, rcvVars, ackVars, jobVars
  <1>1. SeqTypes' /\ FlagTypes' /\ RestTypes'
    BY TypeParts DEF ConInv, SeqTypes, FlagTypes, RestTypes, cbVars, ioVars
  <1>2. WaitInv' /\ ErrInv' /\ PendingInv' /\ EndInv' /\ LossInv' /\ SleepInv'
    BY MoveKeeps
  <1>3. WindowInv' /\ AckInv' /\ OutInv' /\ WritesToOpenPcb'
    BY DEF ConInv, WindowInv, AckInv, OutInv, WritesToOpenPcb
  <1>4. QED
    BY <1>1, <1>2, <1>3 DEF ConInv, TypeOK, SeqTypes, FlagTypes, RestTypes

\* Parsing the header writes nothing.
LEMMA HeaderCon ==
  ConInv /\ (RequestLine \/ HeaderField \/ HeaderKey) => ConInv'
  <1> SUFFICES ASSUME ConInv, RequestLine \/ HeaderField \/ HeaderKey
               PROVE  ConInv'
    OBVIOUS
  <1> USE DEF Running, GoTo, ackVars, jobVars
  <1>1. /\ turn = "task" /\ at \in HeaderPlaces
        /\ p_current # <<>> /\ Consume
        /\ at' \in HeaderPlaces \cup {"write"}
        /\ err' = FALSE
        /\ out' \in {out, Page, Response}
        /\ upgrade' \in BOOLEAN
        /\ UNCHANGED <<turn, ioVars, pcb, unacked, ackVars, fram, cbVars>>
    <2>1. CASE RequestLine
      BY <2>1, TypeParts DEF RequestLine, ConInv, FlagTypes
    <2>2. CASE HeaderField
      <3>1. upgrade' \in BOOLEAN
        BY <2>2, TypeParts DEF HeaderField, ConInv, FlagTypes
      <3>2. CASE Head(p_current) = "key"
        BY <2>2, <3>1, <3>2 DEF HeaderField
      <3>3. CASE Head(p_current) = "blank"
        BY <2>2, <3>1, <3>3 DEF HeaderField
      <3>4. CASE Head(p_current) \notin {"key", "blank"}
        BY <2>2, <3>1, <3>4 DEF HeaderField
      <3>5. QED
        BY <3>2, <3>3, <3>4
    <2>3. CASE HeaderKey
      BY <2>3, TypeParts DEF HeaderKey, ConInv, FlagTypes
    <2>4. QED
      BY <2>1, <2>2, <2>3
  <1>2. /\ p_current' \in Seq(Items) /\ Len(p_current') <= RcvWnd
        /\ window' \in 0..RcvWnd
        /\ WindowInv'
    BY <1>1, ConsumeKeeps
  <1>3. SeqTypes' /\ FlagTypes' /\ RestTypes'
    BY <1>1, <1>2, AnswersAssumption, TypeParts
    DEF ConInv, SeqTypes, FlagTypes, RestTypes, cbVars, ioVars
  <1>4. WaitInv' /\ ErrInv' /\ PendingInv' /\ EndInv' /\ LossInv' /\ SleepInv'
    BY <1>1, MoveKeeps
  <1>5. AckInv' /\ OutInv' /\ WritesToOpenPcb'
    BY <1>1 DEF ConInv, AckInv, OutInv, WritesToOpenPcb
  <1>6. QED
    BY <1>2, <1>3, <1>4, <1>5
    DEF ConInv, TypeOK, SeqTypes, FlagTypes, RestTypes

\* From one ws_t_write to the next, and into the barrier.
LEMMA NextWriteCon == ConInv /\ (NextWrite \/ WriteGivesUp) => ConInv'
  <1> SUFFICES ASSUME ConInv, NextWrite \/ WriteGivesUp PROVE ConInv'
    OBVIOUS
  <1>1. /\ turn = "task" /\ at \in {"write", "writing"}
        /\ at' \in {"write", "writing", "barrier"}
        /\ at' = "writing" => pcb /\ out # <<>> /\ out' = out
        /\ at = "writing" => out # <<>>
        /\ err' = FALSE
        /\ out' = out \/ (out # <<>> /\ out' = Tail(out))
        /\ UNCHANGED <<turn, ioVars, pcb, rcvVars, unacked, ackVars, upgrade,
                       fram, cbVars>>
    BY DEF NextWrite, WriteGivesUp, GoTo, Running, ConInv, OutInv
  <1>2. out' \in Seq(Nat)
    BY <1>1, TypeParts, HeadTailProperties DEF ConInv, SeqTypes
  <1>3. SeqTypes' /\ FlagTypes' /\ RestTypes'
    BY <1>1, <1>2, TypeParts
    DEF ConInv, SeqTypes, FlagTypes, RestTypes, rcvVars, ackVars, ioVars, cbVars
  <1>4. WaitInv' /\ ErrInv' /\ PendingInv' /\ EndInv' /\ LossInv' /\ SleepInv'
    BY <1>1, MoveKeeps
  <1>5. WindowInv' /\ AckInv' /\ OutInv' /\ WritesToOpenPcb'
    BY <1>1
    DEF ConInv, WindowInv, AckInv, OutInv, WritesToOpenPcb, rcvVars, ackVars
  <1>6. QED
    BY <1>3, <1>4, <1>5 DEF ConInv, TypeOK, SeqTypes, FlagTypes, RestTypes

\* A call that fits the send buffer.
LEMMA WriteAllCon == ConInv /\ WriteAll => ConInv'
  <1> SUFFICES ASSUME ConInv, WriteAll PROVE ConInv'
    OBVIOUS
  <1> USE DEF WriteAll, GoTo, Running, rcvVars, ackVars
  <1>1. out # <<>> /\ Head(out) \in Nat /\ out' \in Seq(Nat)
    BY TypeParts, HeadTailProperties DEF ConInv, SeqTypes, OutInv
  <1>2. unacked' \in 0..SndBuf
    BY <1>1, TypeParts, SizesAssumption DEF ConInv, RestTypes, Space
  <1>3. SeqTypes' /\ FlagTypes' /\ RestTypes'
    BY <1>1, <1>2, TypeParts
    DEF ConInv, SeqTypes, FlagTypes, RestTypes, cbVars, ioVars
  <1>4. WaitInv' /\ ErrInv' /\ PendingInv' /\ EndInv' /\ LossInv' /\ SleepInv'
    BY MoveKeeps
  <1>5. WindowInv' /\ AckInv' /\ OutInv' /\ WritesToOpenPcb'
    BY DEF ConInv, WindowInv, AckInv, OutInv, WritesToOpenPcb
  <1>6. QED
    BY <1>3, <1>4, <1>5 DEF ConInv, TypeOK, SeqTypes, FlagTypes, RestTypes

\* A call that fills the send buffer waits with something in flight.
LEMMA WritePartCon == ConInv /\ WritePart => ConInv'
  <1> SUFFICES ASSUME ConInv, WritePart PROVE ConInv'
    OBVIOUS
  <1> USE DEF WritePart, Yield, Running, rcvVars, ackVars
  <1>1. /\ out # <<>> /\ Head(out) \in Nat /\ Tail(out) \in Seq(Nat)
    BY TypeParts, HeadTailProperties DEF ConInv, SeqTypes, OutInv
  <1>2. Head(out) - Space \in Nat
    BY <1>1, TypeParts, SizesAssumption DEF ConInv, RestTypes, Space
  <1>3. <<Head(out) - Space>> \in Seq(Nat) /\ <<Head(out) - Space>> # <<>>
    BY <1>2
  <1>4. out' \in Seq(Nat) /\ out' # <<>>
    BY <1>1, <1>3, ConcatProperties, ConcatSimplifications
  <1>5. unacked' \in 0..SndBuf /\ unacked' > 0
    BY SizesAssumption
  <1>6. SeqTypes' /\ FlagTypes' /\ RestTypes'
    BY <1>4, <1>5, TypeParts
    DEF ConInv, SeqTypes, FlagTypes, RestTypes, cbVars, Reasons
  <1>7. WaitInv' /\ ErrInv' /\ PendingInv' /\ EndInv' /\ LossInv'
    BY YieldKeeps
  <1>8. SleepInv' /\ OutInv'
    BY <1>4, <1>5 DEF SleepInv, OutInv
  <1>9. WindowInv' /\ AckInv' /\ WritesToOpenPcb'
    BY DEF ConInv, WindowInv, AckInv, WritesToOpenPcb
  <1>10. QED
    BY <1>6, <1>7, <1>8, <1>9
    DEF ConInv, TypeOK, SeqTypes, FlagTypes, RestTypes

\* The barrier, begun with a pcb and left when nothing is in flight or the
\* pcb is gone.
LEMMA BarrierCon == ConInv /\ (Barrier \/ Drain) => ConInv'
  <1> SUFFICES ASSUME ConInv, Barrier \/ Drain PROVE ConInv'
    OBVIOUS
  <1>1. /\ turn = "task" /\ at \in {"barrier", "draining"}
        /\ UNCHANGED <<active_err, pcb, rcvVars, unacked, ackVars, jobVars,
                       cbVars>>
    BY DEF Barrier, Drain, Running, GoTo, Yield, AfterBarrier, ioVars
  <1> USE DEF rcvVars, ackVars, jobVars
  <1>2. CASE /\ at = "draining" /\ unacked > 0
             /\ at' = at /\ err' = err
             /\ turn' = "check" /\ waiting_reason' = FLUSH
    <2>1. SeqTypes' /\ FlagTypes' /\ RestTypes'
      BY <1>1, <1>2, TypeParts
      DEF ConInv, SeqTypes, FlagTypes, RestTypes, cbVars, Reasons
    <2>2. WaitInv' /\ ErrInv' /\ PendingInv' /\ EndInv' /\ LossInv'
      BY <1>1, <1>2, YieldKeeps
    <2>3. SleepInv' /\ WindowInv' /\ AckInv' /\ OutInv' /\ WritesToOpenPcb'
      BY <1>1, <1>2
      DEF ConInv, SleepInv, WindowInv, AckInv, OutInv, WritesToOpenPcb
    <2>4. QED
      BY <2>1, <2>2, <2>3 DEF ConInv, TypeOK, SeqTypes, FlagTypes, RestTypes
  <1>3. CASE /\ at' \in {"draining", "init", "close"}
             /\ at' = "draining" => pcb
             /\ at' = "init" /\ pcb => unacked = 0
             /\ err' = FALSE /\ UNCHANGED <<turn, ioVars>>
    <2>1. SeqTypes' /\ FlagTypes' /\ RestTypes'
      BY <1>1, <1>3, TypeParts
      DEF ConInv, SeqTypes, FlagTypes, RestTypes, cbVars, ioVars
    <2>2. WaitInv' /\ ErrInv' /\ PendingInv' /\ EndInv' /\ LossInv' /\ SleepInv'
      BY <1>1, <1>3, MoveKeeps
    <2>3. WindowInv' /\ AckInv' /\ OutInv' /\ WritesToOpenPcb'
      BY <1>1, <1>3
      DEF ConInv, WindowInv, AckInv, OutInv, WritesToOpenPcb
    <2>4. QED
      BY <2>1, <2>2, <2>3 DEF ConInv, TypeOK, SeqTypes, FlagTypes, RestTypes
  <1>4. CASE Barrier
    BY <1>1, <1>3, <1>4 DEF Barrier, Running, GoTo, AfterBarrier
  <1>5. CASE Drain
    <2>1. err => ~pcb
      BY DEF ConInv, ErrInv
    <2>2. unacked \in Nat
      BY TypeParts, SizesAssumption DEF ConInv, RestTypes
    <2>3. CASE ~err /\ unacked > 0
      BY <1>2, <1>5, <2>3 DEF Drain, Running, Yield
    <2>4. CASE err \/ unacked = 0
      <3>1. AfterBarrier
        BY <1>5, <2>4 DEF Drain
      <3>2. pcb => unacked = 0
        BY <2>1, <2>4
      <3>3. QED
        BY <1>3, <3>1, <3>2 DEF GoTo, AfterBarrier
    <2>5. QED
      BY <2>2, <2>3, <2>4
  <1>6. QED
    BY <1>4, <1>5

\* The framinator starts with nothing in flight, if there is a pcb.
LEMMA InitFraminatorCon == ConInv /\ InitFraminator => ConInv'
  <1> SUFFICES ASSUME ConInv, InitFraminator PROVE ConInv'
    OBVIOUS
  <1> USE DEF InitFraminator, GoTo, Running, rcvVars
  <1>1. pcb => unacked = 0
    BY DEF ConInv, AckInv
  <1>2. /\ fram' \in {"ready", "garbage"} /\ ack_callback' \in BOOLEAN
        /\ pcb => ack_callback'
        /\ frames = 0
    <2>1. PICK bufferFree \in BOOLEAN :
            /\ pcb => (bufferFree <=> unacked = 0)
            /\ ack_callback' = bufferFree
            /\ fram' \in {"garbage"} \cup (IF bufferFree THEN {"ready"} ELSE {})
      BY Zenon
    <2>2. fram' \in {"ready", "garbage"}
      BY <2>1
    <2>3. ack_callback' \in BOOLEAN /\ (pcb => ack_callback')
      BY <1>1, <2>1, Zenon
    <2>4. frames = 0
      BY DEF ConInv, AckInv
    <2> QED BY <2>2, <2>3, <2>4
  <1>3. SeqTypes' /\ FlagTypes' /\ RestTypes'
    BY <1>2, TypeParts DEF ConInv, SeqTypes, FlagTypes, RestTypes, cbVars, ioVars
  <1>4. WaitInv' /\ ErrInv' /\ PendingInv' /\ EndInv' /\ LossInv' /\ SleepInv'
    BY MoveKeeps
  <1>5. pcb' => ack_callback' /\ unacked' = 0 /\ frames' = 0
    BY <1>1, <1>2
  <1>6. AckInv'
    BY <1>5 DEF AckInv
  <1>7. WindowInv' /\ OutInv' /\ WritesToOpenPcb'
    BY DEF ConInv, WindowInv, OutInv, WritesToOpenPcb
  <1>8. QED
    BY <1>3, <1>4, <1>6, <1>7 DEF ConInv, TypeOK, SeqTypes, FlagTypes, RestTypes

\* A command is read and answered with the ring empty.
LEMMA CommandCon == ConInv /\ Command => ConInv'
  <1> SUFFICES ASSUME ConInv, Command PROVE ConInv'
    OBVIOUS
  <1> USE DEF Running, ackVars, jobVars
  <1>1. /\ turn = "task" /\ at = "frame" /\ at' \in {"frame", "reply"}
        /\ p_current # <<>> /\ Consume /\ err' = FALSE
        /\ UNCHANGED <<turn, ioVars, pcb, unacked, ackVars, jobVars, cbVars>>
    BY DEF Command, GoTo
  <1>2. /\ p_current' \in Seq(Items) /\ Len(p_current') <= RcvWnd
        /\ window' \in 0..RcvWnd
        /\ WindowInv'
    BY <1>1, ConsumeKeeps
  <1>3. SeqTypes' /\ FlagTypes' /\ RestTypes'
    BY <1>1, <1>2, TypeParts
    DEF ConInv, SeqTypes, FlagTypes, RestTypes, cbVars, ioVars
  <1>4. WaitInv' /\ ErrInv' /\ PendingInv' /\ EndInv' /\ LossInv' /\ SleepInv'
    BY <1>1, MoveKeeps
  <1>5. AckInv' /\ OutInv' /\ WritesToOpenPcb'
    BY <1>1 DEF ConInv, AckInv, OutInv, WritesToOpenPcb
  <1>6. QED
    BY <1>2, <1>3, <1>4, <1>5
    DEF ConInv, TypeOK, SeqTypes, FlagTypes, RestTypes

\* The reply enters the ring, and TCP unless its memory runs out.
LEMMA ReplyCon == ConInv /\ Reply => ConInv'
  <1> SUFFICES ASSUME ConInv, Reply PROVE ConInv'
    OBVIOUS
  <1> USE DEF Running, rcvVars, jobVars
  <1>1. /\ turn = "task" /\ at = "reply" /\ at' \in {"acking", "fault"}
        /\ at' = "acking" => fram = "ready"
        /\ err' = FALSE /\ frames' = frames + 1
        /\ UNCHANGED <<turn, ioVars, pcb, p_current, window, notify_ack,
                       ack_callback, out, upgrade, fram, cbVars>>
    BY DEF Reply, GoTo
  <1>2. /\ unacked' \in {unacked, unacked + 1}
        /\ ~pcb => unacked' = unacked
    BY DEF Reply
  <1>3. frames \in Nat /\ unacked \in 0..SndBuf /\ SndBuf \in Nat \ {0}
    BY TypeParts, SizesAssumption DEF ConInv, RestTypes
  <1>4. pcb => frames = 0 /\ unacked = 0 /\ ack_callback
    BY <1>1, <1>3 DEF ConInv, AckInv
  <1>5. unacked' \in 0..SndBuf /\ frames' \in Nat
    BY <1>1, <1>2, <1>3, <1>4
  <1>6. SeqTypes' /\ FlagTypes' /\ RestTypes'
    BY <1>1, <1>5, TypeParts
    DEF ConInv, SeqTypes, FlagTypes, RestTypes, cbVars, ioVars
  <1>7. WaitInv' /\ ErrInv' /\ PendingInv' /\ EndInv' /\ LossInv' /\ SleepInv'
    BY <1>1, MoveKeeps
  <1>8. AckInv'
    BY <1>1, <1>2, <1>3, <1>4 DEF AckInv
  <1>9. WindowInv' /\ OutInv' /\ WritesToOpenPcb'
    BY <1>1 DEF ConInv, WindowInv, OutInv, WritesToOpenPcb
  <1>10. QED
    BY <1>6, <1>7, <1>8, <1>9
    DEF ConInv, TypeOK, SeqTypes, FlagTypes, RestTypes

\* The wait for the ring ends when it is empty or the pcb is gone.
LEMMA AwaitAcksCon == ConInv /\ AwaitAcks => ConInv'
  <1> SUFFICES ASSUME ConInv, AwaitAcks PROVE ConInv'
    OBVIOUS
  <1>1. /\ turn = "task" /\ at = "acking"
        /\ UNCHANGED <<active_err, pcb, rcvVars, unacked, ackVars, jobVars,
                       cbVars>>
    BY DEF AwaitAcks, Running, GoTo, Yield, ioVars
  <1>2. frames \in Nat /\ unacked \in Nat /\ (err => ~pcb)
    BY TypeParts, SizesAssumption DEF ConInv, RestTypes, ErrInv
  <1> USE DEF rcvVars, ackVars, jobVars
  <1>3. CASE ~err /\ frames > 0
    <2>1. at' = at /\ err' = err /\ turn' = "check"
            /\ waiting_reason' = WAIT_FOR_ACK
      BY <1>3 DEF AwaitAcks, Yield
    <2>2. SeqTypes' /\ FlagTypes' /\ RestTypes'
      BY <1>1, <2>1, TypeParts
      DEF ConInv, SeqTypes, FlagTypes, RestTypes, cbVars, Reasons
    <2>3. WaitInv' /\ ErrInv' /\ PendingInv' /\ EndInv' /\ LossInv'
      BY <1>1, <2>1, YieldKeeps
    <2>4. pcb => unacked <= frames
      BY <1>1 DEF ConInv, AckInv
    <2>5. SleepInv'
      BY <1>1, <1>2, <1>3, <2>1, <2>4 DEF SleepInv
    <2>6. WindowInv' /\ AckInv' /\ OutInv' /\ WritesToOpenPcb'
      BY <1>1, <2>1 DEF ConInv, WindowInv, AckInv, OutInv, WritesToOpenPcb
    <2>7. QED
      BY <2>2, <2>3, <2>5, <2>6
      DEF ConInv, TypeOK, SeqTypes, FlagTypes, RestTypes
  <1>4. CASE err \/ frames = 0
    <2>1. at' = "frame" /\ err' = FALSE /\ UNCHANGED <<turn, ioVars>>
      BY <1>4 DEF AwaitAcks, GoTo
    <2>2. SeqTypes' /\ FlagTypes' /\ RestTypes'
      BY <1>1, <2>1, TypeParts
      DEF ConInv, SeqTypes, FlagTypes, RestTypes, cbVars, ioVars
    <2>3. WaitInv' /\ ErrInv' /\ PendingInv' /\ EndInv' /\ LossInv' /\ SleepInv'
      BY <1>1, <2>1, MoveKeeps
    <2>4. WindowInv' /\ AckInv' /\ OutInv' /\ WritesToOpenPcb'
      BY <1>1, <1>2, <1>4, <2>1
      DEF ConInv, WindowInv, AckInv, OutInv, WritesToOpenPcb
    <2>5. QED
      BY <2>2, <2>3, <2>4 DEF ConInv, TypeOK, SeqTypes, FlagTypes, RestTypes
  <1>5. QED
    BY <1>2, <1>3, <1>4

\* An ended task leaves no pcb and no error that would wake it.
LEMMA CloseCon == ConInv /\ Close => ConInv'
  <1> SUFFICES ASSUME ConInv, Close PROVE ConInv'
    OBVIOUS
  <1> USE DEF Close, Running, rcvVars, ackVars, jobVars, cbVars
  <1>1. SeqTypes' /\ FlagTypes' /\ RestTypes'
    BY TypeParts DEF ConInv, SeqTypes, FlagTypes, RestTypes
  <1>2. WaitInv' /\ ErrInv' /\ PendingInv' /\ EndInv' /\ LossInv' /\ SleepInv'
    BY DEF ConInv, WaitInv, ErrInv, PendingInv, EndInv, LossInv, SleepInv, Asleep
  <1>3. WindowInv' /\ AckInv' /\ OutInv' /\ WritesToOpenPcb'
    BY DEF ConInv, WindowInv, AckInv, OutInv, WritesToOpenPcb
  <1>4. QED
    BY <1>1, <1>2, <1>3 DEF ConInv, TypeOK, SeqTypes, FlagTypes, RestTypes

-----------------------------------------------------------------------------
\* Every step keeps the invariant.
LEMMA StepCon == ConInv /\ [Next]_vars => ConInv'
  <1> SUFFICES ASSUME ConInv, [Next]_vars PROVE ConInv'
    OBVIOUS
  <1>1. CASE Accept \/ Recv \/ RecvClose \/ ConnectionError \/ Sent
    BY <1>1, AcceptCon, RecvCon, LossCon, SentCon
  <1>2. CASE Notify \/ CallbackReturns \/ Recheck
    BY <1>2, NotifyCon, ReturnCon, RecheckCon
  <1>3. CASE TaskStep
    BY <1>3, AwaitCon, ReadErrorCon, HeaderCon, NextWriteCon, WriteAllCon,
       WritePartCon, BarrierCon, InitFraminatorCon, CommandCon, ReplyCon,
       AwaitAcksCon, CloseCon
    DEF TaskStep
  <1>4. CASE UNCHANGED vars
    BY <1>4
    DEF vars, rcvVars, ackVars, ioVars, jobVars, cbVars, ConInv, TypeOK, WaitInv,
        ErrInv, PendingInv, EndInv, LossInv, SleepInv, WindowInv, AckInv, OutInv,
        WritesToOpenPcb, Asleep, Announced
  <1>5. QED
    BY <1>1, <1>2, <1>3, <1>4 DEF Next, Step, Halted

\* The state of a connection is consistent whatever the peer and the task do.
THEOREM Consistent == Spec => []ConInv
  BY InitCon, StepCon, PTL DEF Spec

\* Every variable of a connection keeps its type.
THEOREM TypeCorrect == Spec => []TypeOK
  <1>1. ConInv => TypeOK
    BY DEF ConInv
  <1>2. QED
    BY <1>1, Consistent, PTL

\* No task of a lost connection is left asleep.
THEOREM LostTaskEnds == Spec => []ClosedHasEnded
  <1>1. ConInv => ClosedHasEnded
    BY AnnouncementsDiffer
    DEF ConInv, ClosedHasEnded, Suspended, LossInv, ErrInv, EndInv, Announced
  <1>2. QED
    BY <1>1, Consistent, PTL

\* A task that waits between callbacks waits for something that can come,
\* unless tcp_write refused the reply it waits for. The window of a reader is
\* open because everything it got was consumed.
THEOREM WaitsCanEnd == Spec => []WaitCanEnd
  <1>1. ConInv => WaitCanEnd
    <2> SUFFICES ASSUME ConInv, Suspended PROVE WaitCanEnd
      BY DEF WaitCanEnd
    <2>1. Asleep /\ turn = "idle" /\ ~Announced(READ)
            /\ ~Announced(waiting_reason)
      BY DEF Suspended, Asleep, Announced
    <2>2. pcb
      BY <2>1 DEF ConInv, LossInv, Suspended
    <2>3. CASE waiting_reason = READ
      <3>1. p_current = <<>>
        BY <2>1, <2>2, <2>3 DEF ConInv, SleepInv
      <3>2. window > 0
        BY <2>2, <3>1, Empty, TypeParts, SizesAssumption
        DEF ConInv, WindowInv, RestTypes
      <3>3. QED
        BY <2>3, <3>1, <3>2 DEF WaitCanEnd
    <2>4. CASE waiting_reason \in {FLUSH, WAIT_FOR_ACK}
      <3>1. unacked > 0 \/ ReplyRefused
        BY <2>1, <2>2, <2>4 DEF ConInv, SleepInv
      <3>2. ReplyRefused => waiting_reason = WAIT_FOR_ACK
        BY <2>1 DEF ConInv, WaitInv
      <3>3. QED
        BY <2>4, <3>1, <3>2 DEF WaitCanEnd
    <2>5. QED
      BY <2>1, <2>3, <2>4 DEF ConInv, WaitInv
  <1>2. QED
    BY <1>1, Consistent, PTL

\* Nothing wakes the stack of an ended task.
THEOREM EndedSleeps == Spec => []EndedIsFinal
  <1>1. ConInv => EndedIsFinal
    BY DEF ConInv, EndedIsFinal, EndInv, CheckReason, Reasons
  <1>2. QED
    BY <1>1, Consistent, PTL

\* No answer is written through a pcb that is gone.
THEOREM WritesAreSafe == Spec => []WritesToOpenPcb
  <1>1. ConInv => WritesToOpenPcb
    BY DEF ConInv
  <1>2. QED
    BY <1>1, Consistent, PTL

\* Only frames of the ring are in flight when its callback is set, and the
\* task leaves a flush on an open connection with all of them acknowledged,
\* whichever tcp_write fails and whether there was memory for the ring or not.
THEOREM FramesAreInFlight == Spec => []AcksMatchFrames
  <1>1. ConInv => AcksMatchFrames
    <2> SUFFICES ASSUME ConInv, pcb, at \in FramePlaces
                 PROVE  /\ unacked <= frames
                        /\ at # "acking" => frames = 0
                        /\ fram # "ready" => unacked = 0
      BY DEF AcksMatchFrames
    <2>1. frames \in Nat /\ unacked \in 0..SndBuf
      BY TypeParts DEF ConInv, RestTypes
    <2>2. QED
      BY <2>1, SizesAssumption DEF ConInv, AckInv
  <1>2. QED
    BY <1>1, Consistent, PTL

\* On an open connection the framinator was not refused: the barrier has
\* emptied the send buffer, or the connection is gone.
THEOREM BarrierEmptiesBuffer == Spec => []FraminatorReady
  <1>1. ConInv => FraminatorReady
    BY DEF ConInv, AckInv, FraminatorReady
  <1>2. QED
    BY <1>1, Consistent, PTL
=============================================================================
