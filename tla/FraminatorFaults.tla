-------------------------- MODULE FraminatorFaults --------------------------
(* The ring until something happens that it does not provide for. There are  *)
(* three such events: TCP does not take a frame (testing.c ignores tcp_write *)
(* at line 299, and websocket_write what it is told of tcp_output), TCP      *)
(* acknowledges part of a frame, and the wait at line 364 lets a frame begin *)
(* whose head stands on the tail. `intact' remembers that none has happened. *)
EXTENDS Framinator

VARIABLE intact

\* A frame was sent, and TCP does not have it or its payload is still counted.
Refused ==
    /\ at = "send" \/ (at = "idle" /\ at' = "flush")
    /\ ~Taken

\* The oldest frame has become shorter.
PartAcknowledged ==
    Len(in_flight') = Len(in_flight) /\ in_flight' # in_flight

OntoTail == RingFull /\ GoOnBeforeTail

FInit == Init /\ intact = TRUE

FNext ==
    /\ Next
    /\ intact' = (intact /\ ~Refused /\ ~PartAcknowledged /\ ~OntoTail)

FSpec == FInit /\ [][FNext]_<<vars, intact>>

FairFSpec == FSpec /\ Fairness

\* After the first of the events the head can run out of the buffer for ever:
\* runs of whole behaviours end there.
UntilFault == intact

-----------------------------------------------------------------------------
(* Properties *)

\* Until one of the three events, head, tail and every marker stay inside the
\* allocation, whatever is written, flushed and acknowledged.
IntactTypeOK == intact => TypeOK

\* Until then websocket_write writes over no byte TCP still refers to, through
\* every case of head and tail but the one at line 364 with its head on the tail.
IntactFramesKept == intact => FramesKept

\* Until then the acknowledgement callback finds its way from marker to marker,
\* over every wrap, padding and scratch.
IntactMarkersLead == intact => MarkersLead

\* Until then the ring takes the steps of a queue of frames only.
IntactIsFrameQueue ==
    Queue!Init /\ [][intact' => [Queue!Next]_(Queue!vars)]_<<vars, intact>>

\* A websocket_write returns, unless one of the three events comes first: none
\* of its three waits is for an acknowledgement that cannot come, as long as
\* TCP makes progress or gives up.
WriteEnds ==
    at \in {"copy", "send", "space", "wrap", "snake"}
        ~> at \in {"idle"} \cup Lost \/ ~intact

\* A websocket_flush of a frame with payload returns, unless one of them comes
\* first: the tail meets the head exactly.
FlushEnds == at = "flush" ~> at \in {"idle"} \cup Lost \/ ~intact
=============================================================================
