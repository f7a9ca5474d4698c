---------------------------- MODULE WsConnection ----------------------------
(* One client connection of testing.c: the lwIP callbacks, the I/O task lock *)
(* between them and the connection's task, and the task itself from the HTTP *)
(* header to the WebSocket command loop and the close. The callbacks of lwIP *)
(* run one after another, so a callback and all it sets off is finished      *)
(* before the next; `turn' says how far the current one is. A stretch of the *)
(* task between two calls that look at shared state is one step. Bytes are   *)
(* abstracted to the items the parser tells apart, and send-buffer space to  *)
(* units.                                                                    *)
EXTENDS Naturals, Sequences

CONSTANTS
    RcvWnd,     \* items the peer may send before the task has consumed them
    SndBuf,     \* units that fit the TCP send buffer
    Page,       \* lengths of the ws_t_write calls that answer a page request
    Response    \* lengths of the ws_t_write calls that answer an upgrade

ASSUME SizesAssumption == RcvWnd \in Nat \ {0} /\ SndBuf \in Nat \ {0}
ASSUME AnswersAssumption == Page \in Seq(Nat) /\ Response \in Seq(Nat)

VARIABLES
    pcb,            \* printed_circuit_board # NULL
    p_current,      \* items received and not yet consumed
    window,         \* items the peer may still send
    unacked,        \* units in the TCP send queue, not acknowledged
    notify_ack,     \* cli_con->notify_ack
    ack_callback,   \* is the framinator's acknowledgement callback set?
    frames,         \* frames of the ring that no acknowledgement covered
    waiting_reason, \* io_task.waiting_reason
    active_err,     \* io_task.active_err # 0
    at,             \* where the task is
    err,            \* did its last sub_task_yield return an error?
    out,            \* lengths left to write in the rest of the answer
    upgrade,        \* websocket_upgrade
    fram,           \* what websocket_initialize_framinator left behind
    turn,           \* what the current callback does
    pending,        \* reasons the current callback has yet to announce
    failed          \* are they announced with an error?

ioVars == <<waiting_reason, active_err>>
rcvVars == <<p_current, window>>
ackVars == <<notify_ack, ack_callback, frames>>
jobVars == <<out, upgrade, fram>>
cbVars == <<pending, failed>>
vars == <<pcb, rcvVars, unacked, ackVars, ioVars, at, err, jobVars, turn, cbVars>>

READ == "read"
FLUSH == "flush"
WAIT_FOR_ACK == "ack"
END == "end"
ABRT == "abrt"      \* ERR_ABRT, the other result of do_cli_con_task
Reasons == {READ, FLUSH, WAIT_FOR_ACK}

\* What arrives: the rest of nothing complete, a line no one looks at, the
\* two header fields, the blank line, a frame that asks for the ADC value.
\* Any byte sequence may come at any time; "line" is any other command or a
\* control frame to the frame reader.
Items == {"part", "line", "upgrade", "key", "blank", "ask"}

HeaderPlaces == {"request", "header", "key"}
AnswerPlaces == {"write", "writing", "barrier", "draining", "init"}
FramePlaces == {"frame", "reply", "acking"}
Places == HeaderPlaces \cup AnswerPlaces \cup FramePlaces
              \cup {"none", "close", "ended", "fault"}

Init ==
    /\ pcb = FALSE
    /\ p_current = <<>> /\ window = RcvWnd /\ unacked = 0
    /\ notify_ack = FALSE /\ ack_callback = FALSE /\ frames = 0
    /\ waiting_reason = END /\ active_err = FALSE
    /\ at = "none" /\ err = FALSE
    /\ out = <<>> /\ upgrade = FALSE /\ fram = "none"
    /\ turn = "idle" /\ pending = <<>> /\ failed = FALSE

-----------------------------------------------------------------------------
(* The I/O task lock, run by one context *)

\* ws_check_reason
CheckReason(reason, error) ==
    \/ reason # END /\ error
    \/ reason = READ /\ p_current # <<>>
    \/ reason = FLUSH /\ (~pcb \/ unacked = 0)
    \/ reason = WAIT_FOR_ACK /\ notify_ack

\* The task goes on with the error its yield returns; every wait for an
\* acknowledgement clears notify_ack when it got none. The stack of an ended
\* task has nothing to go on with.
Continue(error) ==
    /\ turn' = "task"
    /\ err' = error
    /\ at' = IF at = "ended" THEN "fault" ELSE at
    /\ notify_ack' = (notify_ack /\ (waiting_reason # WAIT_FOR_ACK \/ error))
    /\ UNCHANGED <<pcb, rcvVars, unacked, ack_callback, frames, waiting_reason,
                   jobVars>>

\* Variant: the task is continued with the error of before this notify.
NotifyStaleErr ==
    /\ turn = "notify" /\ pending # <<>>
    /\ pending' = Tail(pending)
    /\ UNCHANGED failed
    /\ IF waiting_reason = Head(pending)
       THEN /\ active_err' = (active_err \/ failed)
            /\ Continue(active_err)
       ELSE UNCHANGED <<pcb, rcvVars, unacked, ackVars, ioVars, at, err,
                        jobVars, turn>>

\* iol_notify for the next reason the callback announces.
Notify ==
    /\ turn = "notify" /\ pending # <<>>
    /\ pending' = Tail(pending)
    /\ UNCHANGED failed
    /\ IF waiting_reason = Head(pending)
       THEN /\ active_err' = (active_err \/ failed)
            /\ Continue(active_err')
       ELSE UNCHANGED <<pcb, rcvVars, unacked, ackVars, ioVars, at, err,
                        jobVars, turn>>

CallbackReturns ==
    /\ turn = "notify" /\ pending = <<>>
    /\ turn' = "idle"
    /\ UNCHANGED <<pcb, rcvVars, unacked, ackVars, ioVars, at, err, jobVars,
                   cbVars>>

\* The task yielded or ended: iol_continue looks whether it must go on.
Recheck ==
    /\ turn = "check"
    /\ UNCHANGED <<active_err, cbVars>>
    /\ IF CheckReason(waiting_reason, active_err)
       THEN Continue(active_err)
       ELSE /\ turn' = "notify"
            /\ UNCHANGED <<pcb, rcvVars, unacked, ackVars, waiting_reason, at,
                           err, jobVars>>

-----------------------------------------------------------------------------
(* lwIP callbacks *)

\* tcp_server_accept: sub_task_reset accepts only an ended task.
Accept ==
    /\ turn = "idle" /\ at \in {"none", "ended"}
    /\ pcb' = TRUE
    /\ p_current' = <<>> /\ window' = RcvWnd /\ unacked' = 0
    /\ notify_ack' = FALSE /\ ack_callback' = FALSE /\ frames' = 0
    /\ waiting_reason' = END /\ active_err' = FALSE
    /\ at' = "request" /\ err' = FALSE
    /\ out' = <<>> /\ upgrade' = FALSE /\ fram' = "none"
    /\ turn' = "task" /\ pending' = <<>> /\ failed' = FALSE

Callback(reasons, error) ==
    /\ turn = "idle" /\ pcb
    /\ turn' = "notify" /\ pending' = reasons /\ failed' = error
    /\ UNCHANGED <<ioVars, at, err, jobVars>>

\* tcp_cli_con_recv with data
Recv ==
    /\ window > 0
    /\ window' = window - 1
    /\ \E item \in Items : p_current' = Append(p_current, item)
    /\ Callback(<<READ>>, FALSE)
    /\ UNCHANGED <<pcb, unacked, ackVars>>

\* Variant: the peer's close leaves printed_circuit_board set.
RecvCloseKeepsPcb ==
    /\ Callback(<<READ, WAIT_FOR_ACK, FLUSH>>, TRUE)
    /\ UNCHANGED <<pcb, rcvVars, unacked, ackVars>>

\* tcp_cli_con_recv at the end of the peer's data: the pcb is closed at once.
RecvClose ==
    /\ pcb' = FALSE
    /\ Callback(<<READ, WAIT_FOR_ACK, FLUSH>>, TRUE)
    /\ UNCHANGED <<rcvVars, unacked, ackVars>>

\* Variant: the error is not announced to those who wait for ACKs.
ErrorForgetsAck ==
    /\ pcb' = FALSE
    /\ Callback(<<READ, FLUSH>>, TRUE)
    /\ UNCHANGED <<rcvVars, unacked, ackVars>>

\* tcp_cli_con_err: lwIP has freed the pcb.
ConnectionError ==
    /\ pcb' = FALSE
    /\ Callback(<<READ, WAIT_FOR_ACK, FLUSH>>, TRUE)
    /\ UNCHANGED <<rcvVars, unacked, ackVars>>

\* Variants: the FLUSH waiters, the framinator are not told of the ACK.
SentForgetsFlush ==
    /\ \E n \in 1..unacked :
         /\ unacked' = unacked - n
         /\ frames' = IF ack_callback THEN frames - n ELSE frames
    /\ notify_ack' = TRUE
    /\ Callback(<<WAIT_FOR_ACK>>, FALSE)
    /\ UNCHANGED <<pcb, rcvVars, ack_callback>>

SentForgetsFrames ==
    /\ \E n \in 1..unacked : unacked' = unacked - n
    /\ notify_ack' = TRUE
    /\ Callback(<<WAIT_FOR_ACK, FLUSH>>, FALSE)
    /\ UNCHANGED <<pcb, rcvVars, ack_callback, frames>>

\* tcp_cli_con_sent: the framinator's tail moves over the acknowledged frames
\* first, then both kinds of waiters are announced.
Sent ==
    /\ \E n \in 1..unacked :
         /\ unacked' = unacked - n
         /\ frames' = IF ack_callback THEN frames - n ELSE frames
    /\ notify_ack' = TRUE
    /\ Callback(<<WAIT_FOR_ACK, FLUSH>>, FALSE)
    /\ UNCHANGED <<pcb, rcvVars, ack_callback>>

-----------------------------------------------------------------------------
(* The task: the header *)

Running(places) == turn = "task" /\ at \in places

\* sub_task_yield back to iol_continue
Yield(reason) ==
    /\ waiting_reason' = reason
    /\ turn' = "check"
    /\ UNCHANGED <<at, err, active_err>>

GoTo(place) ==
    /\ at' = place
    /\ err' = FALSE
    /\ UNCHANGED <<turn, ioVars>>

\* Variant: recved_current is credited again the next time.
ConsumeCreditsTwice ==
    /\ p_current' = Tail(p_current)
    /\ window' = IF pcb THEN window + 2 ELSE window

\* ws_consume and ws_read take an item and open the window for another one.
Consume ==
    /\ p_current' = Tail(p_current)
    /\ window' = IF pcb THEN window + 1 ELSE window

\* ws_t_peak waits for data in the request line and in the header fields.
AwaitHeader ==
    /\ Running({"request", "header"})
    /\ ~err /\ p_current = <<>>
    /\ Yield(READ)
    /\ UNCHANGED <<pcb, rcvVars, unacked, ackVars, jobVars, cbVars>>

\* do_ws_header drops the errors of ws_t_peak and goes on parsing.
HeaderError ==
    /\ Running({"request", "header"})
    /\ err
    /\ GoTo("header")
    /\ UNCHANGED <<pcb, rcvVars, unacked, ackVars, jobVars, cbVars>>

RequestLine ==
    /\ Running({"request"})
    /\ ~err /\ p_current # <<>>
    /\ Consume
    /\ GoTo(IF Head(p_current) = "part" THEN "request" ELSE "header")
    /\ UNCHANGED <<pcb, unacked, ackVars, jobVars, cbVars>>

HeaderField ==
    /\ Running({"header"})
    /\ ~err /\ p_current # <<>>
    /\ Consume
    /\ upgrade' = (upgrade \/ Head(p_current) = "upgrade")
    /\ CASE Head(p_current) = "key" -> GoTo("key") /\ UNCHANGED out
         [] Head(p_current) = "blank" ->
              GoTo("write") /\ out' = IF upgrade THEN Response ELSE Page
         [] OTHER -> GoTo("header") /\ UNCHANGED out
    /\ UNCHANGED <<pcb, unacked, ackVars, fram, cbVars>>

\* ws_t_read: an error or a closed pcb with nothing left to read is returned
\* to the caller, which then closes the connection.
AwaitBytes(place) ==
    /\ Running({place})
    /\ ~err /\ p_current = <<>> /\ pcb
    /\ Yield(READ)
    /\ UNCHANGED <<pcb, rcvVars, unacked, ackVars, jobVars, cbVars>>

\* Variant: a read fails as soon as the pcb is gone.
ReadFailsEarly(place) ==
    /\ Running({place})
    /\ err \/ ~pcb
    /\ GoTo("close")
    /\ UNCHANGED <<pcb, rcvVars, unacked, ackVars, jobVars, cbVars>>

ReadFails(place) ==
    /\ Running({place})
    /\ err \/ (p_current = <<>> /\ ~pcb)
    /\ GoTo("close")
    /\ UNCHANGED <<pcb, rcvVars, unacked, ackVars, jobVars, cbVars>>

HeaderKey ==
    /\ Running({"key"})
    /\ ~err /\ p_current # <<>>
    /\ Consume
    /\ GoTo(IF Head(p_current) = "part" THEN "key" ELSE "header")
    /\ UNCHANGED <<pcb, unacked, ackVars, jobVars, cbVars>>

-----------------------------------------------------------------------------
(* The task: the answer, a sequence of ws_t_write calls and a barrier whose  *)
(* errors nobody looks at                                                    *)

\* The next ws_t_write looks at the pcb before it starts.
NextWrite ==
    /\ Running({"write"})
    /\ IF out = <<>> THEN GoTo("barrier") /\ UNCHANGED out
       ELSE IF pcb THEN GoTo("writing") /\ UNCHANGED out
       ELSE GoTo("write") /\ out' = Tail(out)
    /\ UNCHANGED <<pcb, rcvVars, unacked, ackVars, upgrade, fram, cbVars>>

Space == SndBuf - unacked

\* The call ends early with an error, from its yield or because a tcp_write
\* has no memory, or its last tcp_write fails unnoticed: the rest of what it
\* had to write is dropped.
WriteGivesUp ==
    /\ Running({"writing"})
    /\ out' = Tail(out)
    /\ GoTo("write")
    /\ UNCHANGED <<pcb, rcvVars, unacked, ackVars, upgrade, fram, cbVars>>

WriteAll ==
    /\ Running({"writing"})
    /\ ~err /\ Head(out) <= Space
    /\ unacked' = unacked + Head(out)
    /\ out' = Tail(out)
    /\ GoTo("write")
    /\ UNCHANGED <<pcb, rcvVars, ackVars, upgrade, fram, cbVars>>

WritePart ==
    /\ Running({"writing"})
    /\ ~err /\ Head(out) > Space
    /\ unacked' = SndBuf
    /\ out' = <<Head(out) - Space>> \o Tail(out)
    /\ Yield(WAIT_FOR_ACK)
    /\ UNCHANGED <<pcb, rcvVars, ackVars, upgrade, fram, cbVars>>

\* What do_ws_header does after ws_t_write_barrier, whatever that returned.
AfterBarrier == GoTo(IF upgrade THEN "init" ELSE "close")

Barrier ==
    /\ Running({"barrier"})
    /\ IF pcb THEN GoTo("draining") ELSE AfterBarrier
    /\ UNCHANGED <<pcb, rcvVars, unacked, ackVars, jobVars, cbVars>>

\* Variants: the barrier waits once, or waits on after an error.
DrainOnce ==
    /\ Running({"draining"})
    /\ IF ~err /\ unacked > 0 /\ waiting_reason # FLUSH
       THEN Yield(FLUSH) ELSE AfterBarrier
    /\ UNCHANGED <<pcb, rcvVars, unacked, ackVars, jobVars, cbVars>>

DrainIgnoresErr ==
    /\ Running({"draining"})
    /\ IF unacked > 0 THEN Yield(FLUSH) ELSE AfterBarrier
    /\ UNCHANGED <<pcb, rcvVars, unacked, ackVars, jobVars, cbVars>>

Drain ==
    /\ Running({"draining"})
    /\ IF ~err /\ unacked > 0 THEN Yield(FLUSH) ELSE AfterBarrier
    /\ UNCHANGED <<pcb, rcvVars, unacked, ackVars, jobVars, cbVars>>

-----------------------------------------------------------------------------
(* The task: WebSocket frames *)

\* websocket_initialize_framinator refuses a send buffer in use, then sets
\* its callback, and then may find no memory for the ring; nobody looks at
\* what it returns. With no pcb it reads the send-buffer space through a NULL
\* pointer and can find anything.
InitFraminator ==
    /\ Running({"init"})
    /\ \E bufferFree \in BOOLEAN :
         /\ pcb => (bufferFree <=> unacked = 0)
         /\ ack_callback' = bufferFree
         /\ fram' \in {"garbage"} \cup (IF bufferFree THEN {"ready"} ELSE {})
    /\ GoTo("frame")
    /\ UNCHANGED <<pcb, rcvVars, unacked, notify_ack, frames, out, upgrade,
                   cbVars>>

\* websocket_read of one command; through a framinator that was never
\* initialised any byte may look like any command.
Command ==
    /\ Running({"frame"})
    /\ ~err /\ p_current # <<>>
    /\ Consume
    /\ \E item \in IF fram = "ready" THEN {Head(p_current)} ELSE Items :
         GoTo(IF item = "ask" THEN "reply" ELSE "frame")
    /\ UNCHANGED <<pcb, unacked, ackVars, jobVars, cbVars>>

\* websocket_write and the first half of websocket_flush: the frame enters
\* the ring, and if there is a pcb tcp_write takes it, or has no memory: its
\* result is not looked at.
Reply ==
    /\ Running({"reply"})
    /\ IF fram = "ready" THEN GoTo("acking") ELSE GoTo("fault")
    /\ frames' = frames + 1
    /\ unacked' \in {unacked} \cup (IF pcb THEN {unacked + 1} ELSE {})
    /\ UNCHANGED <<pcb, rcvVars, notify_ack, ack_callback, jobVars, cbVars>>

\* Variants: the wait for the ring does not look again, goes on after an error.
AwaitAcksOnce ==
    /\ Running({"acking"})
    /\ IF ~err /\ frames > 0 /\ waiting_reason # WAIT_FOR_ACK
       THEN Yield(WAIT_FOR_ACK) ELSE GoTo("frame")
    /\ UNCHANGED <<pcb, rcvVars, unacked, ackVars, jobVars, cbVars>>

AwaitAcksIgnoresErr ==
    /\ Running({"acking"})
    /\ IF frames > 0 THEN Yield(WAIT_FOR_ACK) ELSE GoTo("frame")
    /\ UNCHANGED <<pcb, rcvVars, unacked, ackVars, jobVars, cbVars>>

\* The second half: wait until the ring is empty, or give up on an error.
AwaitAcks ==
    /\ Running({"acking"})
    /\ IF ~err /\ frames > 0 THEN Yield(WAIT_FOR_ACK) ELSE GoTo("frame")
    /\ UNCHANGED <<pcb, rcvVars, unacked, ackVars, jobVars, cbVars>>

\* do_cli_con_task closes what is still open and returns the result of that.
Close ==
    /\ Running({"close"})
    /\ waiting_reason' \in IF pcb THEN {END, ABRT} ELSE {END}
    /\ pcb' = FALSE
    /\ at' = "ended"
    /\ turn' = "check"
    /\ UNCHANGED <<rcvVars, unacked, ackVars, active_err, err, jobVars, cbVars>>

\* After a NULL or wild pointer was followed nothing more is said.
Halted == at = "fault" /\ UNCHANGED vars

-----------------------------------------------------------------------------
TaskStep ==
    \/ AwaitHeader \/ HeaderError \/ RequestLine \/ HeaderField \/ HeaderKey
    \/ \E place \in {"key", "frame"} : AwaitBytes(place) \/ ReadFails(place)
    \/ NextWrite \/ WriteGivesUp \/ WriteAll \/ WritePart \/ Barrier \/ Drain
    \/ InitFraminator \/ Command \/ Reply \/ AwaitAcks \/ Close

Step == Notify \/ CallbackReturns \/ Recheck \/ TaskStep

Next == Accept \/ Recv \/ RecvClose \/ ConnectionError \/ Sent \/ Step \/ Halted

Spec == Init /\ [][Next]_vars

\* A callback that was entered runs on, and TCP sooner or later gets an
\* acknowledgement of what it sent or gives the connection up.
FairSpec ==
    /\ Spec
    /\ WF_vars(Step)
    /\ WF_vars(unacked > 0 /\ (Sent \/ RecvClose \/ ConnectionError))

-----------------------------------------------------------------------------
(* Properties *)

TypeOK ==
    /\ pcb \in BOOLEAN /\ notify_ack \in BOOLEAN /\ ack_callback \in BOOLEAN
    /\ active_err \in BOOLEAN /\ err \in BOOLEAN
    /\ upgrade \in BOOLEAN /\ failed \in BOOLEAN
    /\ p_current \in Seq(Items) /\ Len(p_current) <= RcvWnd
    /\ window \in 0..RcvWnd
    /\ unacked \in 0..SndBuf
    /\ frames \in Nat
    /\ waiting_reason \in Reasons \cup {END, ABRT}
    /\ at \in Places
    /\ out \in Seq(Nat)
    /\ fram \in {"none", "ready", "garbage"}
    /\ turn \in {"idle", "notify", "task", "check"}
    /\ pending \in Seq(Reasons)

Suspended == turn = "idle" /\ at \notin {"none", "ended", "fault"}

\* Between callbacks a closed connection has no task left: a task that slept
\* through the close would make tcp_server_accept refuse every later client.
ClosedHasEnded == Suspended => pcb

\* A reply that tcp_write did not take: its frame is in the ring, and on the
\* connection nothing will acknowledge it.
ReplyRefused == at = "acking" /\ pcb /\ frames > unacked

\* Between callbacks a waiting task waits for something that can still come:
\* a reader has read everything and the peer has window to send more, a
\* writer has something unacknowledged. The one wait that nothing but a lost
\* connection ends is that for a reply which tcp_write refused.
WaitCanEnd ==
    Suspended =>
        \/ waiting_reason = READ /\ p_current = <<>> /\ window > 0
        \/ waiting_reason \in {FLUSH, WAIT_FOR_ACK} /\ unacked > 0
        \/ waiting_reason = WAIT_FOR_ACK /\ ReplyRefused

\* An ended task is never woken again, neither by its own check (its result
\* may be ERR_ABRT, no known reason) nor by a callback, and its pcb is gone.
EndedIsFinal ==
    at = "ended" =>
        /\ ~pcb
        /\ waiting_reason \notin Reasons
        /\ ~CheckReason(waiting_reason, active_err)

\* ws_t_write and the barrier look at the pcb once and use it after yields: a
\* yield without an error means that the pcb is still there.
WritesToOpenPcb ==
    turn = "task" /\ at \in {"writing", "draining"} /\ ~err => pcb

\* Acknowledgements fit the ring: none of the answer's bytes reaches the
\* framinator's callback, and websocket_flush returns without an error only
\* when every frame is acknowledged, also if tcp_write refused one and nobody
\* looked. A ring for which there was no memory is never acknowledged.
AcksMatchFrames ==
    pcb /\ at \in FramePlaces =>
        /\ unacked <= frames
        /\ at # "acking" => frames = 0
        /\ fram # "ready" => unacked = 0

\* The answer to a request comes to an end, whichever tcp_write fails.
AnswerEnds == at \in AnswerPlaces ~> at \in {"frame", "ended"}

\* A reply comes to an end, by its acknowledgement or by the error of a lost
\* connection, unless tcp_write refused it.
ReplyEnds == (at = "acking" /\ ~ReplyRefused) ~> at \in {"frame", "ended"}

\* The same for every reply ("Wait for ACK until the entire buffer is
\* flushed"), also one that tcp_write refused.
EveryReplyEnds == at = "acking" ~> at \in {"frame", "ended"}

\* "Let the task handle the error": once an error was reported to a task that
\* is past its header, the task ends.
ErrorEndsAnswer ==
    (active_err /\ at \notin HeaderPlaces) ~> at \in {"ended", "fault"}

\* The same for every task, also one that still reads the header.
ErrorEndsTask == active_err ~> at \in {"ended", "fault"}

\* The barrier lets the answer leave the send buffer before the framinator is
\* set up ("snd_buf must have max space"): on an open connection it is never
\* refused for that, and its callback hears of every acknowledgement.
FraminatorReady == pcb /\ at \in FramePlaces => ack_callback

\* "pbufs get freed as we used them": a WebSocket session has read all it got
\* when the next connection takes over p_current, however it ended. A page
\* request leaves what came after it.
PbufsFreed == [][Accept /\ upgrade => p_current = <<>>]_vars
=============================================================================
