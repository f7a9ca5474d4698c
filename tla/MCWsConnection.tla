--------------------------- MODULE MCWsConnection ---------------------------
(* Instances of WsConnection for TLC: four writes answer a page request, the *)
(* last one larger than the send buffer, and three answer an upgrade.        *)
EXTENDS WsConnection

MCPage == <<1, 1, 1, 3>>
MCResponse == <<1, 1, 1>>
=============================================================================
