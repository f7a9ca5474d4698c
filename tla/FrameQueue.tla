----------------------------- MODULE FrameQueue ------------------------------
(* What the write side of the framinator promises, without its ring: writes  *)
(* of any length become frames with a payload, TCP has the frames in order   *)
(* until it acknowledges them, no byte is left out or sent twice, and a      *)
(* flush returns when there is nothing left.                                 *)
EXTENDS Naturals, Sequences

CONSTANTS
    Lengths,    \* of the writes
    MaxPayload  \* of a frame

VARIABLES
    mode,       \* idle, writing, flushing or closed
    todo,       \* bytes the present write has still to hand over
    open,       \* payload of the frame that is not sent yet
    queue       \* payloads of the frames not acknowledged yet, oldest first

vars == <<mode, todo, open, queue>>

Init == mode = "idle" /\ todo = 0 /\ open = 0 /\ queue = <<>>

Write ==
    /\ mode = "idle" /\ mode' = "writing"
    /\ todo' \in Lengths
    /\ UNCHANGED <<open, queue>>

\* A write returns when all of it is kept, and not before.
GoOn == mode' = "writing" \/ (mode' = "idle" /\ todo' = 0)

Take ==
    /\ mode = "writing" /\ GoOn
    /\ todo' <= todo /\ open' = open + (todo - todo')
    /\ open' <= MaxPayload
    /\ UNCHANGED queue

SendOpen ==
    /\ open > 0
    /\ queue' = Append(queue, open) /\ open' = 0

Send == mode = "writing" /\ GoOn /\ SendOpen /\ UNCHANGED todo

Flush ==
    /\ mode = "idle" /\ mode' = "flushing"
    /\ SendOpen \/ (open = 0 /\ UNCHANGED <<open, queue>>)
    /\ UNCHANGED todo

Flushed ==
    /\ mode = "flushing" /\ mode' = "idle"
    /\ queue = <<>> /\ open = 0
    /\ UNCHANGED <<todo, open, queue>>

Acknowledge ==
    /\ mode # "closed" /\ queue # <<>>
    /\ queue' = Tail(queue)
    /\ UNCHANGED <<mode, todo, open>>

Lose == mode' = "closed" /\ UNCHANGED <<todo, open, queue>>

Next == Write \/ Take \/ Send \/ Flush \/ Flushed \/ Acknowledge \/ Lose

Spec == Init /\ [][Next]_vars
=============================================================================
