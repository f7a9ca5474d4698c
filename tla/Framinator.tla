----------------------------- MODULE Framinator -----------------------------
(* The write side of websocket_framinator.h: small writes are collected in a *)
(* frame at the head of a ring, TCP sends complete frames out of the ring    *)
(* without copying them, and its acknowledgements move the tail over them    *)
(* with the help of the marker in front of each. Offsets and lengths are in  *)
(* bytes; what the bytes are is left out, where they are is not.             *)
EXTENDS Naturals, Sequences

CONSTANTS
    BufLen,         \* WS_BUF_STARTING_LEN
    MaxPayload,     \* WS_MAX_PAYLOAD_LEN
    Large,          \* WS_ITS_LARGE_ENOUGH_JUST_SEND_IT
    NotWorthIt,     \* WS_JUST_WRAP_ANYWAY_ITS_NOT_WORTH_IT_PAYLOAD_LEN
    Use16Bit,       \* WS_HEADER_PAYLOAD_LEN_USE_16BIT
    Lengths,        \* lengths of the application's websocket_write calls
    TcpFaults       \* what TCP does to the ring: "refused" frames (tcp_write or
                    \* tcp_output fails), acknowledgements of "partial" frames

\* The buffer is aligned and longer than two empty frames; a frame that follows
\* another before the end of the buffer has room for a payload.
ASSUME SizesAssumption ==
    /\ BufLen \in Nat /\ BufLen >= 24 /\ BufLen % 4 = 0
    /\ MaxPayload \in Nat /\ Large \in 1..MaxPayload
    /\ NotWorthIt \in Nat /\ NotWorthIt >= 12 /\ Use16Bit \in Nat
ASSUME LengthsAssumption == Lengths \subseteq Nat \ {0}
ASSUME FaultsAssumption == TcpFaults \subseteq {"refused", "partial"}

VARIABLES
    head,                \* end of the frame being built
    tail,                \* where the callback expects the next marker
    current_marker,      \* start of the frame being built
    current_payload_len, \* its payload so far
    markers,             \* the markers in the buffer, by offset
    in_flight,           \* the frames TCP refers to, oldest first
    at,                  \* where the task is
    left                 \* bytes the current websocket_write has to copy

frameVars == <<head, current_marker, current_payload_len>>
vars == <<frameVars, tail, markers, in_flight, at, left>>

MarkerSize == 4                 \* sizeof and alignof(ws_buf_marker)
HeaderSize == 4                 \* WS_MAX_NO_MASK_HEADER_LEN
PayloadStart == MarkerSize + HeaderSize
SizeRange == 2^30   \* stands for the range of size_t, larger than any offset

\* a - b in size_t
Minus(a, b) == IF b <= a THEN a - b ELSE SizeRange - (b - a)

Least(a, b) == IF a <= b THEN a ELSE b

Padded(offset) == offset + ((MarkerSize - (offset % MarkerSize)) % MarkerSize)

\* The packed marker: six bits of scratch length below the wrap flag.
MarkerOf(scratch, len) ==
    [wrap |-> (scratch \div 64) % 2 = 1, scratch |-> scratch % 64, len |-> len]
Empty == MarkerOf(0, 0)
Wrap == [wrap |-> TRUE, scratch |-> 0, len |-> 0]

\* Bytes from..to-1 are written: a marker they touch is one no longer.
Erase(map, from, to) ==
    [o \in {p \in DOMAIN map : p + MarkerSize <= from \/ to <= p} |-> map[o]]

Store(map, offset, marker) ==
    [o \in DOMAIN Erase(map, offset, offset + MarkerSize) \cup {offset} |->
        IF o = offset THEN marker ELSE map[o]]

Waits == {"space", "wrap", "snake", "flush", "empty"}
Places == Waits \cup {"idle", "copy", "send", "closed", "astray"}

Init ==
    /\ head = PayloadStart /\ tail = 0
    /\ current_marker = 0 /\ current_payload_len = 0
    /\ markers = [o \in {0} |-> Empty] /\ in_flight = <<>>
    /\ at = "idle" /\ left = 0

-----------------------------------------------------------------------------
(* websocket_write *)

Write ==
    /\ at = "idle"
    /\ left' \in Lengths
    /\ at' = "copy"
    /\ UNCHANGED <<frameVars, tail, markers, in_flight>>

\* Mutant: the place of the wrap marker is forgotten.
SpaceToTheEnd ==
    IF head < tail
    THEN Minus(Minus(Minus(tail, head), MarkerSize), tail % MarkerSize)
    ELSE Minus(BufLen, head)

\* Free bytes at the head, a marker's place left out.
Space ==
    IF head < tail
    THEN Minus(Minus(Minus(tail, head), MarkerSize), tail % MarkerSize)
    ELSE Minus(Minus(BufLen, head), MarkerSize)

\* ws_con->head < ws_con->tail and no space: wait for an acknowledgement.
AwaitSpace ==
    /\ at = "copy"
    /\ head < tail /\ Space = 0
    /\ at' = "space"
    /\ UNCHANGED <<frameVars, tail, markers, in_flight, left>>

SpaceFound ==
    /\ at = "space"
    /\ ~(head < tail /\ Space = 0)
    /\ at' = "copy"
    /\ UNCHANGED <<frameVars, tail, markers, in_flight, left>>

\* The write goes on as long as it has bytes.
Onward(rest) == IF rest = 0 THEN "idle" ELSE "copy"

Copy ==
    /\ at = "copy"
    /\ ~(head < tail /\ Space = 0)
    /\ LET n == Least(Space, Least(Minus(MaxPayload, current_payload_len), left))
       IN /\ head' = head + n
          /\ current_payload_len' = current_payload_len + n
          /\ left' = left - n
          /\ markers' = Erase(markers, head, head + n)
    /\ at' = IF head' >= BufLen - MarkerSize \/ current_payload_len' >= Large
             THEN "send" ELSE Onward(left')
    /\ UNCHANGED <<tail, current_marker, in_flight>>

\* The frame being built as TCP gets it, from its header on.
Frame ==
    LET header == IF current_payload_len >= Use16Bit THEN 4 ELSE 2
    IN [marker |-> current_marker, len |-> current_payload_len + header,
        first |-> current_marker + PayloadStart - header]

\* TCP has the frame, and the next one starts without payload.
Taken == in_flight' = Append(in_flight, Frame) /\ current_payload_len' = 0

\* tcp_write keeps nothing of the frame and ws_t_write says nothing of it, or
\* tcp_output fails and the payload stays as long as it was, or both: all of
\* websocket_complete_and_send_frame's callers go on as if it had succeeded.
MaybeTaken ==
    /\ in_flight' \in {in_flight, Append(in_flight, Frame)}
    /\ current_payload_len' \in {0, current_payload_len}

HandOver == Taken \/ ("refused" \in TcpFaults /\ MaybeTaken)

\* Mutant: the scratch length is forgotten.
CompleteWithoutScratch(map, end) ==
    /\ markers' = Store(Erase(map, Frame.first, current_marker + PayloadStart),
                        current_marker, MarkerOf(0, Frame.len))
    /\ HandOver

\* websocket_complete_and_send_frame: the header and the marker of the frame
\* that ends at `end' are filled in, over what `map' holds, and TCP gets it.
CompleteAndSend(map, end) ==
    /\ markers' = Store(Erase(map, Frame.first, current_marker + PayloadStart),
                        current_marker,
                        MarkerOf(end - current_marker - Frame.len, Frame.len))
    /\ HandOver

StartFrame(marker) ==
    /\ current_marker' = marker
    /\ head' = marker + PayloadStart

\* Mutant: wrap only when the next frame's header has no room.
TooCloseForHeader == Minus(Minus(BufLen, head), MarkerSize) < PayloadStart

\* Case spaghetti: a wrap marker at the end of the buffer, and the next frame
\* at its start as soon as the tail has left it.
TooCloseToEnd == Minus(Minus(BufLen, head), MarkerSize) < NotWorthIt

SendAndWrap ==
    /\ at = "send" /\ TooCloseToEnd
    /\ head' = Padded(head)
    /\ CompleteAndSend(Store(markers, head', Wrap), head')
    /\ at' = "wrap"
    /\ UNCHANGED <<tail, current_marker, left>>

\* Mutants: a tail ahead of the head passes; a tail that has caught up does not.
StartIsFreeAnyTail == tail >= PayloadStart
StartIsFreeStrict == tail < head /\ tail >= PayloadStart

StartIsFree == tail <= head /\ tail >= PayloadStart

WrapAround ==
    /\ at = "wrap" /\ StartIsFree
    /\ StartFrame(0)
    /\ markers' = Store(markers, 0, Empty)
    /\ at' = Onward(left)
    /\ UNCHANGED <<tail, current_payload_len, in_flight, left>>

\* Tail behind head, or enough space before the tail: the next frame follows.
RoomBeforeTail == Minus(Minus(tail, head), MarkerSize) >= PayloadStart

SendAndGoOn ==
    /\ at = "send" /\ ~TooCloseToEnd
    /\ tail <= head \/ RoomBeforeTail
    /\ CompleteAndSend(Store(markers, Padded(head), Empty), Padded(head))
    /\ StartFrame(Padded(head))
    /\ at' = Onward(left)
    /\ UNCHANGED <<tail, left>>

\* Snake about to eat its own tail: wait for room for a marker and a header.
SendAndAwaitRoom ==
    /\ at = "send" /\ ~TooCloseToEnd
    /\ head < tail /\ ~RoomBeforeTail
    /\ head' = Padded(head)
    /\ CompleteAndSend(markers, head')
    /\ at' = "snake"
    /\ UNCHANGED <<tail, current_marker, left>>

GoOnBeforeTail ==
    /\ at = "snake"
    /\ tail <= head \/ tail - head >= PayloadStart
    /\ StartFrame(head)
    /\ markers' = Store(markers, head, Empty)
    /\ at' = Onward(left)
    /\ UNCHANGED <<tail, current_payload_len, in_flight, left>>

-----------------------------------------------------------------------------
(* websocket_flush *)

\* Mutant: the scratch includes padding that the head does not.
FlushPadded ==
    /\ at = "idle" /\ current_payload_len > 0
    /\ CompleteAndSend(markers, Padded(head))
    /\ at' = "flush"
    /\ UNCHANGED <<head, current_marker, tail, left>>

Flush ==
    /\ at = "idle" /\ current_payload_len > 0
    /\ CompleteAndSend(markers, head)
    /\ at' = "flush"
    /\ UNCHANGED <<head, current_marker, tail, left>>

\* Without payload nothing is sent, but the wait is the same.
FlushEmpty ==
    /\ at = "idle" /\ current_payload_len = 0
    /\ at' = "empty"
    /\ UNCHANGED <<frameVars, tail, markers, in_flight, left>>

Flushed ==
    /\ at \in {"flush", "empty"} /\ tail = head
    /\ tail' = 0
    /\ StartFrame(0)
    /\ markers' = Store(markers, 0, Empty)
    /\ at' = "idle"
    /\ UNCHANGED <<current_payload_len, in_flight, left>>

-----------------------------------------------------------------------------
(* TCP *)

\* Where the callback finds the next marker: at the tail, or at the start if
\* the tail has come to the wrap marker.
NextMarker == IF tail \in DOMAIN markers /\ markers[tail].wrap THEN 0 ELSE tail

\* websocket_framinator_ack_callback for n bytes of the oldest frame. An
\* acknowledgement of several frames does the same once for each. If there is
\* no marker, or one that is too short, it goes astray in the buffer.
Sent ==
    /\ at \in Waits \cup {"idle"} /\ in_flight # <<>>
    /\ \E n \in IF "partial" \in TcpFaults
                 THEN 1..in_flight[1].len ELSE {in_flight[1].len} :
         /\ in_flight' =
              IF n = in_flight[1].len THEN Tail(in_flight)
              ELSE [in_flight EXCEPT ![1].first = @ + n, ![1].len = @ - n]
         /\ IF NextMarker \in DOMAIN markers /\ markers[NextMarker].len >= n
            THEN /\ tail' = NextMarker + n + markers[NextMarker].scratch
                 /\ UNCHANGED at
            ELSE at' = "astray" /\ UNCHANGED tail
    /\ UNCHANGED <<frameVars, markers, left>>

\* Every wait returns the error of a lost connection, and the task ends.
ConnectionLost ==
    /\ at \in Waits \cup {"idle"}
    /\ at' = "closed"
    /\ UNCHANGED <<frameVars, tail, markers, in_flight, left>>

Stopped == at \in {"closed", "astray"} /\ UNCHANGED vars

-----------------------------------------------------------------------------
Step ==
    \/ AwaitSpace \/ SpaceFound \/ Copy
    \/ SendAndWrap \/ WrapAround \/ SendAndGoOn
    \/ SendAndAwaitRoom \/ GoOnBeforeTail
    \/ Flushed

Next == Write \/ Flush \/ FlushEmpty \/ Step \/ Sent \/ ConnectionLost \/ Stopped

Spec == Init /\ [][Next]_vars

Fairness ==
    /\ WF_vars(Step)
    /\ WF_vars(in_flight # <<>> /\ (Sent \/ ConnectionLost))

-----------------------------------------------------------------------------
(* Properties *)

Lost == {"closed", "astray"}

\* Types, and the head, the tail and every marker stay inside the allocation:
\* websocket_write copies and stores by offsets it has only compared.
TypeOK ==
    /\ head \in 0..BufLen /\ tail \in 0..BufLen /\ current_marker \in 0..BufLen
    /\ current_payload_len \in 0..MaxPayload
    /\ DOMAIN markers \subseteq 0..(BufLen - MarkerSize)
    /\ markers \in [DOMAIN markers ->
                      [wrap : BOOLEAN, scratch : 0..63, len : Nat]]
    /\ in_flight \in Seq([marker : 0..BufLen, first : 0..BufLen, len : Nat])
    /\ at \in Places /\ left \in Nat

Bytes(frame) == frame.first..(frame.first + frame.len - 1)

\* The bytes TCP still refers to are nobody else's: no two frames in flight
\* overlap, and the frame websocket_write builds, from its marker on, touches
\* none of them.
FramesKept ==
    at \notin Lost =>
        /\ \A i, j \in DOMAIN in_flight :
             i # j => Bytes(in_flight[i]) \cap Bytes(in_flight[j]) = {}
        /\ at \in {"idle", "copy", "space", "send", "empty"} =>
             \A i \in DOMAIN in_flight :
                 Bytes(in_flight[i]) \cap current_marker..(head - 1) = {}

After(o) == o + markers[o].len + markers[o].scratch

\* From offset o the callback comes to that place, over a wrap marker if need be.
Leads(o, place) ==
    o = place \/ (o \in DOMAIN markers /\ markers[o].wrap /\ place = 0)

\* Where the callback stands when everything is acknowledged.
End == IF at \in {"wrap", "snake", "flush"} THEN head ELSE current_marker

\* Walked from the tail, the markers in the buffer are exactly those of the
\* frames in flight, in the order they were sent and with their lengths, and
\* they end at the frame being built: what websocket_write stores in between
\* does not mislead websocket_framinator_ack_callback.
MarkersLead ==
    at \notin Lost =>
        LET n == Len(in_flight)
        IN /\ \A i \in 1..n :
                /\ in_flight[i].marker \in DOMAIN markers
                /\ markers[in_flight[i].marker].len = in_flight[i].len
                /\ ~markers[in_flight[i].marker].wrap
           /\ Leads(tail, IF n = 0 THEN End ELSE in_flight[1].marker)
           /\ \A i \in 1..n :
                Leads(After(in_flight[i].marker),
                      IF i = n THEN End ELSE in_flight[i + 1].marker)

\* What the wait at line 364 takes for enough: a frame that begins here has no
\* room, and its head stands on the tail.
RingFull == at = "snake" /\ tail = head + PayloadStart

\* websocket_framinator_ack_callback never reads a marker where there is none,
\* or one too short for what was acknowledged.
CallbackFindsMarker == at # "astray"

\* The ring is a queue of frames: no byte of a write is lost or repeated, no
\* frame is without payload, the markers give TCP's acknowledgements back frame
\* by frame, and websocket_flush returns with everything acknowledged, not
\* before.
Queue == INSTANCE FrameQueue WITH
    mode <- CASE at \in {"copy", "send", "space", "wrap", "snake"} -> "writing"
              [] at \in {"flush", "empty"} -> "flushing"
              [] OTHER -> at,
    todo <- left,
    open <- current_payload_len,
    queue <- [i \in DOMAIN in_flight |->
                in_flight[i].len + in_flight[i].first
                    - (in_flight[i].marker + PayloadStart)]
=============================================================================
