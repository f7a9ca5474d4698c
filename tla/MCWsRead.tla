------------------------------ MODULE MCWsRead ------------------------------
(* Instances of WsRead for TLC. Bytes of a length field have two values, so *)
(* that short frames need each of the three ways to say their length.         *)
EXTENDS WsRead

MCFrame(op, fin, len, masked) ==
    [op |-> op, fin |-> fin, len |-> len, masked |-> masked]

MCFrames ==
    {MCFrame("text", TRUE, 7, TRUE), MCFrame("text", FALSE, 1, TRUE),
     MCFrame("data", FALSE, 3, FALSE), MCFrame("continuation", FALSE, 0, TRUE),
     MCFrame("continuation", TRUE, 2, TRUE), MCFrame("control", TRUE, 2, TRUE)}

\* A message in two fragments, what may come between them, and a message after.
MCFragments ==
    {MCFrame("text", FALSE, 1, TRUE), MCFrame("continuation", TRUE, 1, TRUE),
     MCFrame("control", TRUE, 0, TRUE), MCFrame("text", TRUE, 2, TRUE)}
=============================================================================
