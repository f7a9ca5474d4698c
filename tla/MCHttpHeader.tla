---------------------------- MODULE MCHttpHeader -----------------------------
(* HttpHeader for TLC: names of two letters and a key of two. Requests in    *)
(* every order of the fields that matter, with names that begin like the     *)
(* ones looked for, and values that begin like the tag.                      *)
EXTENDS HttpHeader

MCChars == {"GET", "CR", "LF", ":", " ", "u", "p", "s", "k", "w", "x", "o", "1", "2"}
MCFields == << <<"u", "p">>, <<"s", "k">> >>
MCWebsocket == <<"w", "s">>

L(name, value) == [name |-> name, value |-> value]
Up == L(MCFields[1], MCWebsocket)
Key == L(MCFields[2], <<"k", "1">>)
OtherKey == L(MCFields[2], <<"k", ":">>)
WsAndMore == L(MCFields[1], <<"w", "s", "x">>)
Short == L(MCFields[1], <<"w">>)
Other == L(<<"o">>, <<"x", ":">>)
Longer == L(<<"u", "p", "s">>, MCWebsocket)
Shorter == L(<<"u">>, <<"x">>)
Mixed == L(<<"u", "k">>, <<"k", "2">>)

MCRequests ==
    { <<Up, Key>>, <<Other, Key, Up>>, <<Key, OtherKey, Other>>, <<Longer, Short, Key>>,
      <<Key, WsAndMore>>, <<Shorter, Up>>, <<Key, Mixed>>, <<Short, Up, Other>>, <<>> }

MCBehind == <<"LF">>

MCHashes == { [i \in 1..20 |-> (i * 37 + 11) % 256], [i \in 1..20 |-> 255],
              [i \in 1..20 |-> (251 * i * i) % 256] }
=============================================================================
