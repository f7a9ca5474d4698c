------------------------------ MODULE HttpHeader -----------------------------
(* The reading of an HTTP header, as do_ws_header and its helpers do it:     *)
(* piece by piece, as lwIP hands the bytes up, with a selector that finds    *)
(* the name of a field without keeping it, and the base64 text of the key    *)
(* that answers an upgrade. A look at the received data sees one piece only; *)
(* ws_t_read alone reads across pieces.                                      *)
EXTENDS Integers, Sequences, SequencesExt, FiniteSetsExt

CONSTANTS
    Chars,      \* what text is made of
    Fields,     \* WS_H_FIELDS, the names looked for: upgrade and key
    Websocket,  \* the value that ws_confirm_tag compares with
    KeyLen,     \* WS_KEY_LEN
    Requests,   \* sequences of lines [name, value] a client may send
    Behind,     \* what it may send behind the header
    MaxPieces,  \* pieces that may wait unread
    CutNames,   \* may a piece end in a name that no field begins with?
    Hashes      \* what SHA-1 may give

Text == Seq(Chars)
Bytes == 0..255

ASSUME SizesAssumption ==
    /\ KeyLen \in Nat /\ MaxPieces \in Nat \ {0} /\ CutNames \in BOOLEAN
    /\ {"GET", "CR", "LF", ":", " "} \subseteq Chars
\* No name of the selector's list is the beginning of one before it.
ASSUME FieldsAssumption ==
    /\ Fields \in Text \X Text /\ ~IsPrefix(Fields[2], Fields[1])
    /\ Websocket \in Text /\ \A k \in 1..Len(Websocket) : Websocket[k] # "CR"
\* What a client sends that keeps to HTTP. An empty value, or a key of another
\* length, makes the parser take the next line for a part of it.
ASSUME RequestsAssumption ==
    /\ Behind \in Text
    /\ Requests \subseteq Seq([name : Text \ {<<>>}, value : Text \ {<<>>}])
    /\ \A lines \in Requests : \A k \in 1..Len(lines) :
         LET name == lines[k].name
             value == lines[k].value
         IN /\ \A n \in 1..Len(name) : name[n] \notin {":", "LF"}
            /\ \A n \in 1..Len(value) : value[n] \notin {"CR", "LF"}
            /\ value[1] \notin {":", " "}
            /\ name = Fields[2] => Len(value) = KeyLen
ASSUME HashesAssumption == Hashes \subseteq Seq(Bytes)

VARIABLES
    request,    \* its fields and text, which do not change
    pos,        \* bytes of it that are consumed
    ends,       \* where the unread pieces end; the last is all that arrived
    at,         \* the place in do_ws_header
    finder,     \* tag_finder: list_index and str_index
    selected,
    tag,        \* bytes of the tag that agreed so far
    upgrade,    \* websocket_upgrade
    key,        \* wsKey, up to what was read
    accept      \* baseBuf

vars == <<request, pos, ends, at, finder, selected, tag, upgrade, key, accept>>

-----------------------------------------------------------------------------
(* The text and its pieces *)

Line(l) == l.name \o <<":", " ">> \o l.value \o <<"CR", "LF">>

\* The text up to the end of line k
UpTo(ls) ==
    LET upTo[k \in 0..Len(ls)] ==
            IF k = 0 THEN <<"GET", "CR", "LF">> ELSE upTo[k - 1] \o Line(ls[k])
    IN upTo
Header(ls) == UpTo(ls)[Len(ls)] \o <<"CR", "LF">>

Arrived == Max(ends \cup {pos})

\* The name, as far as it goes, of the line that is cut at n.
CutName(text, n) ==
    LET start == Max({k \in 0..n : k = 0 \/ text[k] = "LF"})
    IN SubSeq(text, start + 1, n)

HarmlessCut(text, headerEnd, n) ==
    \/ n <= 3 \/ n >= headerEnd - 2
    \/ \E k \in 1..Len(CutName(text, n)) : CutName(text, n)[k] = ":"
    \/ \E f \in 1..2 : IsPrefix(CutName(text, n), Fields[f])

Request(ls) ==
    LET header == Header(ls)
    IN [lines |-> ls, text |-> header \o Behind, length |-> Len(header),
        cuts |-> {n \in 1..Len(header \o Behind) :
                    CutNames \/ HarmlessCut(header \o Behind, Len(header), n)}]

\* tcp_cli_con_recv: what arrives is chained behind the unread pieces, or, when
\* lwIP is short of pbufs, all of them are made one.
Arrive ==
    /\ Cardinality(ends) < MaxPieces
    /\ \E n \in request.cuts :
         /\ n > Arrived
         /\ ends' \in {ends \cup {n}, {n}}
    /\ UNCHANGED <<request, pos, at, finder, selected, tag, upgrade, key, accept>>

\* What ws_t_peak shows, byte i of Size; without a piece it waits.
Size == Min(ends) - pos
Byte(i) == request.text[pos + i]

Consume(n) == pos' = pos + n /\ ends' = {e \in ends : e > pos + n}

\* Where the piece has one of these bytes, and where the first of some places
\* is, if any.
Found(bytes) == {i \in 1..Size : Byte(i) \in bytes}
First(places) == {i \in places : \A j \in places : i <= j}

-----------------------------------------------------------------------------
(* bl_str_select, a byte at a time. The names that share the bytes found so  *)
(* far with the present one are candidates, later ones only.                 *)

NewFinder == [list_index |-> 1, str_index |-> 0]

Candidates(f, c) ==
    {l \in f.list_index..2 :
        /\ Len(Fields[l]) > f.str_index
        /\ SubSeq(Fields[l], 1, f.str_index)
             = SubSeq(Fields[f.list_index], 1, f.str_index)
        /\ Fields[l][f.str_index + 1] = c}

SelectByte(f, c) ==
    IF Candidates(f, c) = {} THEN [f EXCEPT !.list_index = 3]
    ELSE [list_index |-> Min(Candidates(f, c)), str_index |-> f.str_index + 1]

Select(f, piece) ==
    LET after[n \in 0..Len(piece)] ==
            IF n = 0 THEN f ELSE SelectByte(after[n - 1], piece[n])
    IN after[Len(piece)]

\* BL_STR_NO_MATCH and BL_STR_NO_MATCH_YET are 0: nobody tells them apart.
Selection(f) ==
    IF f.list_index <= 2 /\ f.str_index = Len(Fields[f.list_index])
    THEN f.list_index ELSE 0

-----------------------------------------------------------------------------
(* Reading the header *)

Init ==
    /\ \E ls \in Requests : request = Request(ls)
    /\ pos = 0 /\ ends = {}
    /\ at = "first"
    /\ finder = NewFinder /\ selected = 0 /\ tag = 0
    /\ upgrade = FALSE /\ key = <<>> /\ accept = <<>>

At(place) == at = place /\ ends # {}

CRs == Found({"CR"})
Blacks == (1..Size) \ Found({":", " ", "CR"})
ColonsOrLFs == Found({":", "LF"})

\* ws_consume_line: up to the "\r".
ConsumeLine(place, next) ==
    /\ At(place)
    /\ \/ /\ \E i \in First(CRs) : Consume(i - 1)
          /\ at' = next
       \/ /\ First(CRs) = {} /\ Consume(Size)
          /\ UNCHANGED at
    /\ UNCHANGED <<request, finder, selected, tag, upgrade, key, accept>>

\* ws_eat_whitespace has come to something, with the end of the line or not.
EatWhite(place, lineEnds, Rest) ==
    /\ At(place)
    /\ \E i \in First(Blacks) :
         /\ lineEnds = (Byte(i) = "LF")
         /\ Consume(IF lineEnds THEN i ELSE i - 1)
    /\ Rest

EatAllWhite ==
    /\ \E place \in {"eol", "colon", "tail"} : At(place)
    /\ First(Blacks) = {}
    /\ Consume(Size)
    /\ UNCHANGED <<request, at, finder, selected, tag, upgrade, key, accept>>

\* Variant: bl_str_reset is called once, before the loop.
FinderKept == UNCHANGED finder

NextFinder == finder' = NewFinder

RequestLine == ConsumeLine("first", "eol")

LineBegins ==
    /\ at' = "name"
    /\ NextFinder
    /\ UNCHANGED <<request, selected, tag, upgrade, key, accept>>

RequestLineEnds == \E e \in BOOLEAN : EatWhite("eol", e, LineBegins)

\* Where the header ends in this piece, and where the name does.
\* Variant: only a line end at the start of a piece is seen.
BlankAtStart == {i \in First(ColonsOrLFs) : i = 1 /\ Byte(i) = "LF"}
BlankAt == {i \in First(ColonsOrLFs) : Byte(i) = "LF"}
NameEnd == Min({Size} \cup {i - 1 : i \in First(ColonsOrLFs)})

HeaderDone ==
    /\ At("name")
    /\ \E i \in BlankAt : Consume(i)
    /\ at' = "done"
    /\ UNCHANGED <<request, finder, selected, tag, upgrade, key, accept>>

\* Asked again after BL_STR_NO_MATCH, the selector reads behind its list.
Name ==
    /\ At("name") /\ BlankAt = {}
    /\ LET i == NameEnd
       IN IF finder.list_index > 2
          THEN at' = "wild" /\ UNCHANGED <<pos, ends, finder, selected>>
          ELSE /\ Consume(i)
               /\ finder' = Select(finder, SubSeq(request.text, pos + 1, pos + i))
               /\ selected' = Selection(finder')
               /\ at' = IF i = Size THEN "name" ELSE "colon"
    /\ UNCHANGED <<request, tag, upgrade, key, accept>>

\* The switch on what was selected.
ValueBegins ==
    /\ at' = CASE selected = 1 -> "tag" [] selected = 2 -> "key" [] OTHER -> "tail"
    /\ tag' = 0
    /\ key' = IF selected = 2 THEN <<>> ELSE key
    /\ UNCHANGED <<request, finder, selected, upgrade, accept>>

Colon == \E e \in BOOLEAN : EatWhite("colon", e, ValueBegins)

\* Variant: the tag is not moved on by the length of a piece.
TagUnmoved == 0
TagMoved == tag + Size

\* ws_confirm_tag: how many bytes of the piece agree, and what comes then.
Agreeing ==
    Max({i \in 0..Size : tag + i <= Len(Websocket)
             /\ \A j \in 1..i : Byte(j) = Websocket[tag + j]})

ConfirmTag ==
    /\ At("tag")
    /\ LET i == Agreeing
           whole == tag + i = Len(Websocket)
       IN \/ /\ i = Size
             /\ Consume(i) /\ tag' = TagMoved
             /\ UNCHANGED <<at, upgrade>>
          \/ /\ i < Size /\ whole /\ Byte(i + 1) = "CR"
             /\ Consume(i) /\ upgrade' = TRUE
             /\ at' = "tail" /\ UNCHANGED tag
          \/ /\ i < Size /\ ~(whole /\ Byte(i + 1) = "CR")
             /\ Consume(IF whole THEN i + 1 ELSE i)
             /\ at' = "rest" /\ UNCHANGED <<tag, upgrade>>
    /\ UNCHANGED <<request, finder, selected, key, accept>>

\* What ws_t_read still wants.
\* Variant: the whole length every time.
StillWholeKey == KeyLen
StillWanted == KeyLen - Len(key)

\* Wanting nothing it would not wait; KeyLen is not 0 and key begins empty.
ReadKey ==
    /\ At("key")
    /\ LET n == Min({StillWanted, Arrived - pos})
       IN /\ Consume(n)
          /\ key' = key \o SubSeq(request.text, pos + 1, pos + n)
    /\ at' = IF Len(key') >= KeyLen THEN "tail" ELSE "key"
    /\ UNCHANGED <<request, finder, selected, tag, upgrade, accept>>

LineEnds == EatWhite("tail", TRUE, LineBegins)

ValueLeft ==
    EatWhite("tail", FALSE,
             at' = "rest" /\ UNCHANGED <<request, finder, selected, tag, upgrade, key, accept>>)

RestOfLine == ConsumeLine("rest", "tail")

-----------------------------------------------------------------------------
(* encode_base64, with the codes of the characters *)

bitsToBase64(bits) ==
    CASE bits < 26 -> 65 + bits
      [] bits \in 26..51 -> 97 + bits - 26
      [] bits \in 52..61 -> 48 + bits - 52
      [] bits = 62 -> 43
      [] bits = 63 -> 47
Pad == 61   \* '='

\* Variant: the last group of two bytes loses its shift.
PairUnshifted(a, b) ==
    <<bitsToBase64(a \div 4), bitsToBase64((a * 16 + b \div 16) % 64),
      bitsToBase64(b % 64), Pad>>
Pair(a, b) ==
    <<bitsToBase64(a \div 4), bitsToBase64((a * 16 + b \div 16) % 64),
      bitsToBase64((b * 4) % 64), Pad>>
Triple(a, b, c) ==
    <<bitsToBase64(a \div 4), bitsToBase64((a * 16 + b \div 16) % 64),
      bitsToBase64((b * 4 + c \div 64) % 64), bitsToBase64(c % 64)>>
Single(a) == <<bitsToBase64(a \div 4), bitsToBase64((a * 16) % 64), Pad, Pad>>

Group(input, i) ==
    CASE i + 2 < Len(input) -> Triple(input[i + 1], input[i + 2], input[i + 3])
      [] i + 2 = Len(input) -> Pair(input[i + 1], input[i + 2])
      [] i + 1 = Len(input) -> Single(input[i + 1])

encode_base64(input) ==
    [j \in 1..4 * ((Len(input) + 2) \div 3) |->
        Group(input, 3 * ((j - 1) \div 4))[((j - 1) % 4) + 1]]

\* The answer: a page, or what SHA-1 makes of the key, as text.
Answer ==
    /\ at = "done"
    /\ at' = "answered"
    /\ IF upgrade THEN \E h \in Hashes : accept' = encode_base64(h)
       ELSE UNCHANGED accept
    /\ UNCHANGED <<request, pos, ends, finder, selected, tag, upgrade, key>>

Stopped ==
    /\ at \in {"answered", "wild"}
    /\ UNCHANGED vars

Step ==
    \/ RequestLine \/ EatAllWhite \/ RequestLineEnds
    \/ Name \/ HeaderDone \/ Colon
    \/ ConfirmTag \/ ReadKey
    \/ LineEnds \/ ValueLeft \/ RestOfLine
    \/ Answer

Next == Arrive \/ Step \/ Stopped

Spec == Init /\ [][Next]_vars

\* The task runs on while there is something to read. No client has to send.
FairSpec == Spec /\ WF_vars(Step)

-----------------------------------------------------------------------------
(* Correctness *)

Places == {"first", "eol", "name", "colon", "tag", "key", "tail", "rest",
           "done", "answered", "wild"}

\* Types: the parser is never past what has arrived, wsKey holds at most its
\* length, and the selector stands in its list or has left it.
TypeOK ==
    /\ request.lines \in Requests
    /\ pos \in 0..Arrived /\ ends \subseteq pos + 1..Len(request.text)
    /\ at \in Places
    /\ finder.list_index \in 1..3
    /\ finder.list_index \in 1..2 =>
         finder.str_index \in 0..Len(Fields[finder.list_index])
    /\ selected \in 0..2 /\ tag \in 0..Len(Websocket)
    /\ upgrade \in BOOLEAN
    /\ Len(key) <= KeyLen
    /\ accept \in Seq(Bytes)

\* bl_str_select (bufferless_str.c:7) never takes a name from behind its list:
\* do_ws_header does not ask it again, for one name, after BL_STR_NO_MATCH.
SelectorInList == at # "wild"

Sent(field) == {k \in 1..Len(request.lines) : request.lines[k].name = Fields[field]}

\* However the request is cut into pieces, do_ws_header makes of it what it
\* says as a whole: an upgrade if a field of that name has the value
\* websocket, the key of the last key field, and of what is behind the header
\* not a byte is taken from the frames.
ParsedAsSent ==
    at \in {"done", "answered"} =>
        /\ upgrade <=> \E k \in Sent(1) : request.lines[k].value = Websocket
        /\ Sent(2) # {} => key = request.lines[Max(Sent(2))].value
        /\ pos = request.length

\* A header that arrived whole is answered, whatever its fields and its pieces.
HeaderEnds == (Arrived >= request.length) ~> (at = "answered")

\* Base64 by its definition: bit k of the input, six bits to a character.
Weights == <<128, 64, 32, 16, 8, 4, 2, 1>>
Bit(bytes, k) ==
    IF k >= 8 * Len(bytes) THEN 0
    ELSE (bytes[k \div 8 + 1] \div Weights[(k % 8) + 1]) % 2
Sextet(bytes, j) ==
    LET b(k) == Bit(bytes, 6 * j + k)
    IN 32 * b(0) + 16 * b(1) + 8 * b(2) + 4 * b(3) + 2 * b(4) + b(5)
Alphabet == [j \in 0..63 |-> IF j < 26 THEN 65 + j ELSE IF j < 52 THEN 71 + j
                             ELSE IF j < 62 THEN j - 4 ELSE 4 * j - 205]

Base64(bytes) ==
    [j \in 1..4 * ((Len(bytes) + 2) \div 3) |->
        IF 6 * (j - 1) >= 8 * Len(bytes) THEN 61 ELSE Alphabet[Sextet(bytes, j - 1)]]
Base64Texts == {Base64(h) : h \in Hashes}

\* Sec-WebSocket-Accept is the base64 text of a hash, all 28 bytes of baseBuf.
AcceptIsBase64 == at = "answered" /\ upgrade => accept \in Base64Texts
=============================================================================
