------------------------------- MODULE WsRead -------------------------------
(* The read side of websocket_framinator.h: websocket_read fills the buffers *)
(* of the application with the payload of the data frames that arrive, one   *)
(* ws_t_read at a time, and takes the mask off as it goes. A byte is known   *)
(* by its place: byte k of the peer's frame i is <<i, k>>.                   *)
EXTENDS Naturals, Sequences

CONSTANTS
    Frames,         \* the frames the peer may send
    MaxFrames,      \* how many it sends
    Interjections,  \* may control frames come between the frames of a message?
    Sizes,          \* sizes the application reads
    Byte,           \* values of a byte in a length field
    Use16Bit        \* WS_HEADER_PAYLOAD_LEN_USE_16BIT

Opcodes == {"continuation", "text", "data", "control"}

Word == Byte * Byte * Byte * Byte

ASSUME FramesAssumption ==
    /\ Frames \subseteq [op : Opcodes, fin : BOOLEAN, len : Nat, masked : BOOLEAN]
    /\ \A frame \in Frames : frame.len < Word * Word
ASSUME SizesAssumption ==
    /\ MaxFrames \in Nat /\ Interjections \in BOOLEAN
    /\ Sizes \subseteq Nat \ {0} /\ Byte \in Nat \ {0, 1} /\ Use16Bit \in Nat

VARIABLES
    sent,           \* the frames of the peer
    coming,         \* their bytes that have not arrived yet
    p_current,      \* bytes that arrived and were not read
    read_length,    \* payload left in the current frame
    read_mask,      \* four mask bytes, the one for the next byte first
    read_lastOp,    \* opcode of the message a continuation belongs to
    at,             \* where websocket_read is
    header,         \* the frame header it is working on
    got,            \* what the current ws_t_read has so far
    size,           \* bytes left to read for the application
    align,          \* address of the next one, modulo the size of a word
    delivered       \* what the application was given

readerVars == <<read_length, read_mask, read_lastOp, at, header, size, align>>
vars == <<sent, coming, p_current, got, delivered, readerVars>>

-----------------------------------------------------------------------------
(* The peer *)

Use64Bit == Use16Bit + 1

\* What the second byte of a frame says of its length.
Length7(frame) ==
    IF frame.len < Use16Bit THEN frame.len
    ELSE IF frame.len < Byte * Byte THEN Use16Bit ELSE Use64Bit

LengthSize(frame) ==
    IF Length7(frame) = Use16Bit THEN 2
    ELSE IF Length7(frame) = Use64Bit THEN 8 ELSE 0

\* Two bytes of header, the length if it does not fit them, the mask, the
\* payload.
MaskAt(frame) == 2 + LengthSize(frame)
PayloadAt(frame) == MaskAt(frame) + (IF frame.masked THEN 4 ELSE 0)
FrameSize(frame) == PayloadAt(frame) + frame.len

Bytes(frame, i) == [k \in 1..FrameSize(frame) |-> <<i, k>>]

KindOf(byte) ==
    LET frame == sent[byte[1]]
    IN IF byte[2] <= 2 THEN "header"
       ELSE IF byte[2] <= MaskAt(frame) THEN "length"
       ELSE IF byte[2] <= PayloadAt(frame) THEN "mask" ELSE "payload"

\* The digit of n that has k digits behind it, for k < 4
Digit(n, k) ==
    (CASE k = 0 -> n
       [] k = 1 -> n \div Byte
       [] k = 2 -> (n \div Byte) \div Byte
       [] k = 3 -> ((n \div Byte) \div Byte) \div Byte) % Byte

\* Byte k of a length field
LengthByte(frame, k) ==
    IF LengthSize(frame) = 2 THEN Digit(frame.len, 2 - k)
    ELSE IF k <= 4 THEN Digit(frame.len \div Word, 4 - k)
    ELSE Digit(frame.len % Word, 8 - k)

\* Place k of the payload of frame i, the mask byte that is on it, and what is
\* neither.
None == <<0, 0>>
MaskByte(i, k) == IF sent[i].masked THEN <<i, (k - 1) % 4>> ELSE None

\* Is a message begun and not finished?
InMessage(frames) ==
    \E i \in DOMAIN frames :
        /\ ~frames[i].fin
        /\ \A j \in i + 1..Len(frames) : frames[j].op = "control"

Legal(frames, frame) ==
    CASE frame.op = "control" -> frame.fin /\ (Interjections \/ ~InMessage(frames))
      [] frame.op = "continuation" -> InMessage(frames)
      [] OTHER -> ~InMessage(frames)

\* One frame is under way at a time; others are as good as not yet sent.
Send ==
    /\ Len(sent) < MaxFrames /\ coming = <<>>
    /\ \E frame \in Frames :
         /\ Legal(sent, frame)
         /\ sent' = Append(sent, frame)
         /\ coming' = Bytes(frame, Len(sent'))
    /\ UNCHANGED <<p_current, got, delivered, readerVars>>

Arrive ==
    /\ coming # <<>>
    /\ p_current' = Append(p_current, Head(coming))
    /\ coming' = Tail(coming)
    /\ UNCHANGED <<sent, got, delivered, readerVars>>

-----------------------------------------------------------------------------
(* websocket_read *)

NoMask == <<None, None, None, None>>

Init ==
    /\ sent = <<>> /\ coming = <<>> /\ p_current = <<>> /\ got = <<>>
    /\ read_length = 0 /\ read_mask = NoMask /\ read_lastOp = "continuation"
    /\ at = "idle" /\ header = <<>> /\ size = 0 /\ align = 0
    /\ delivered = <<>>

Least(a, b) == IF a <= b THEN a ELSE b

\* The head of the loop.
Onward(left, payload) ==
    IF left = 0 THEN "idle" ELSE IF payload > 0 THEN "payload" ELSE "header"

Read ==
    /\ at = "idle"
    /\ size' \in Sizes /\ align' \in 0..3
    /\ at' = Onward(size', read_length)
    /\ UNCHANGED <<sent, coming, p_current, got, delivered, read_length,
                   read_mask, read_lastOp, header>>

\* Variant: a read may take more than the buffer holds.
WantedWholeFrame ==
    CASE at = "payload" -> read_length
      [] at \in {"header", "length16"} -> 2
      [] at = "length64" -> 8
      [] at = "mask" -> 4
      [] at = "skip" -> 1
      [] OTHER -> 0

\* How many bytes the ws_t_read at each place asks for.
Wanted ==
    CASE at = "payload" -> Least(read_length, size)
      [] at \in {"header", "length16"} -> 2
      [] at = "length64" -> 8
      [] at = "mask" -> 4
      [] at = "skip" -> 1
      [] OTHER -> 0

\* ws_read takes what there is.
Take ==
    /\ Len(got) < Wanted /\ p_current # <<>>
    /\ LET n == Least(Wanted - Len(got), Len(p_current))
       IN /\ got' = got \o SubSeq(p_current, 1, n)
          /\ p_current' = SubSeq(p_current, n + 1, Len(p_current))
    /\ UNCHANGED <<sent, coming, delivered, readerVars>>

\* What the bytes must be that the ws_t_read at each place has read.
Kind == CASE at \in {"payload", "skip"} -> "payload"
          [] at \in {"length16", "length64"} -> "length"
          [] OTHER -> at
Fits == \A k \in 1..Len(got) : KindOf(got[k]) = Kind

\* ws_t_read returns to `place' what it was asked for.
Done(place) ==
    /\ at = place /\ Len(got) = Wanted /\ Fits
    /\ got' = <<>>
    /\ UNCHANGED <<sent, coming, p_current>>

\* A number of bytes read as an err_t of eight bits: is it an error?
TakenForError(n) == n % 256 >= 128

\* The mask n bytes later; rotating by all 32 bits leaves it as it is.
Rotate(mask, n) == [k \in 1..4 |-> mask[((k - 1 + n) % 4) + 1]]

\* websocket_apply_mask: bytes up to a word boundary, whole words, odd bytes.
Before(n) == Least(4 - align, n)
MaskOn(n, k) ==
    LET rotated == Rotate(read_mask, Before(n))
        odd == (n - Before(n)) % 4
    IN IF k <= Before(n) THEN read_mask[k]
       ELSE IF k <= n - odd THEN rotated[((k - Before(n) - 1) % 4) + 1]
       ELSE rotated[k - (n - odd)]

\* Variant: only the bytes before the words rotate the mask.
AfterMaskOfWords(n) == Rotate(read_mask, Before(n))

AfterMask(n) ==
    Rotate(Rotate(read_mask, Before(n)), (n - Before(n)) % 4)

\* What the bytes are once the mask is off: a byte that got another mask than
\* its own is nothing the peer sent.
Unmasked(bytes) ==
    [j \in 1..Len(bytes) |->
        LET i == bytes[j][1]
            k == bytes[j][2] - PayloadAt(sent[i])
        IN IF MaskOn(Len(bytes), j) = MaskByte(i, k) THEN <<i, k>> ELSE None]

Payload ==
    /\ Done("payload")
    /\ IF TakenForError(Wanted)
       THEN at' = "error" /\ UNCHANGED <<delivered, size, align, read_length, read_mask>>
       ELSE /\ delivered' = delivered \o Unmasked(got)
            /\ read_mask' = AfterMask(Wanted)
            /\ align' = (align + Wanted) % 4
            /\ size' = size - Wanted
            /\ read_length' = read_length - Wanted
            /\ at' = Onward(size', read_length')
    /\ UNCHANGED <<read_lastOp, header>>

\* After the length comes the mask; without one the XOR is made a no-op.
MaskNext(masked) ==
    IF masked THEN at' = "mask" /\ UNCHANGED read_mask
    ELSE at' = "opcode" /\ read_mask' = NoMask

Header ==
    /\ Done("header")
    /\ LET first == sent[got[1][1]]
           second == sent[got[2][1]]
       IN /\ header' = [op |-> first.op, fin |-> first.fin, masked |-> second.masked]
          /\ CASE Length7(second) = Use16Bit ->
                    at' = "length16" /\ UNCHANGED <<read_length, read_mask>>
               [] Length7(second) = Use64Bit ->
                    at' = "length64" /\ UNCHANGED <<read_length, read_mask>>
               [] OTHER ->
                    read_length' = Length7(second) /\ MaskNext(second.masked)
    /\ UNCHANGED <<delivered, size, align, read_lastOp>>

Value(k) == LengthByte(sent[got[k][1]], got[k][2] - 2)

\* Variant: the bytes as the processor counts them.
NtohsLeft(a, b) == b * Byte + a

\* lwip_ntohs and lwip_ntohl of bytes as they lie in memory
Ntohs(a, b) == a * Byte + b
Ntohl(a, b, c, d) == ((a * Byte + b) * Byte + c) * Byte + d

Length16 ==
    /\ Done("length16")
    /\ read_length' = Ntohs(Value(1), Value(2))
    /\ MaskNext(header.masked)
    /\ UNCHANGED <<delivered, header, size, align, read_lastOp>>

Length64 ==
    /\ Done("length64")
    /\ read_length' = Ntohl(Value(1), Value(2), Value(3), Value(4)) * Word
                      + Ntohl(Value(5), Value(6), Value(7), Value(8))
    /\ MaskNext(header.masked)
    /\ UNCHANGED <<delivered, header, size, align, read_lastOp>>

Mask ==
    /\ Done("mask")
    /\ read_mask' = [k \in 1..4 |-> MaskByte(got[k][1], got[k][2] - MaskAt(sent[got[k][1]]))]
    /\ at' = "opcode"
    /\ UNCHANGED <<delivered, header, size, align, read_length, read_lastOp>>

\* Variant: a continuation that does not end its message is remembered as such.
OpcodeAsSent ==
    /\ at = "opcode"
    /\ LET op == IF header.op = "continuation" THEN read_lastOp ELSE header.op
       IN /\ read_lastOp' = IF header.fin THEN "continuation" ELSE header.op
          /\ at' = IF op \in {"text", "data"} THEN Onward(size, read_length)
                   ELSE IF read_length > 0 THEN "skip" ELSE "header"
    /\ UNCHANGED <<sent, coming, p_current, got, delivered, header, size, align,
                   read_length, read_mask>>

\* A continuation takes the opcode of its message, if one is remembered; the
\* last frame of a message forgets it.
Opcode ==
    /\ at = "opcode"
    /\ LET op == IF header.op = "continuation" THEN read_lastOp ELSE header.op
       IN /\ read_lastOp' = IF header.fin THEN "continuation" ELSE op
          /\ at' = IF op \in {"text", "data"} THEN Onward(size, read_length)
                   ELSE IF read_length > 0 THEN "skip" ELSE "header"
    /\ UNCHANGED <<sent, coming, p_current, got, delivered, header, size, align,
                   read_length, read_mask>>

\* The payload of any other frame is read and dropped, byte by byte.
Skip ==
    /\ Done("skip")
    /\ read_length' = read_length - 1
    /\ at' = IF read_length' > 0 THEN "skip" ELSE "header"
    /\ UNCHANGED <<delivered, header, size, align, read_mask, read_lastOp>>

\* The peer has said all it has to say, or nothing more is modelled.
Silence ==
    /\ Len(sent) = MaxFrames /\ coming = <<>>
    /\ p_current = <<>> \/ at = "error"
    /\ UNCHANGED vars

Step ==
    \/ Take \/ Payload \/ Header \/ Length16 \/ Length64 \/ Mask \/ Opcode \/ Skip

Next == Send \/ Arrive \/ Read \/ Step \/ Silence

Spec == Init /\ [][Next]_vars

\* A task that has bytes goes on, and what was sent arrives.
FairSpec == Spec /\ WF_vars(Step) /\ WF_vars(Arrive)

-----------------------------------------------------------------------------
(* Properties *)

Places == {"idle", "payload", "header", "length16", "length64", "mask", "opcode",
           "skip", "error"}

\* Types; a read in progress has asked for bytes, and never more of the
\* payload than the frame and the application's buffer have.
TypeOK ==
    /\ sent \in Seq(Frames) /\ at \in Places
    /\ read_lastOp \in Opcodes \ {"control"}
    /\ read_length \in Nat /\ size \in Nat /\ align \in 0..3
    /\ Len(read_mask) = 4
    /\ Len(got) <= Wanted
    /\ at \notin {"idle", "error"} => size > 0

\* A frame without payload for the application
Bare(i) == sent[i].op = "control" \/ sent[i].len = 0

\* Is the place the last of its frame, or before all frames?
Ends(place) == place = None \/ place[2] = sent[place[1]].len

\* Is b the place after a in the payload of the messages?
Follows(a, b) ==
    \/ ~Ends(a) /\ b = <<a[1], a[2] + 1>>
    \/ /\ Ends(a) /\ b[2] = 1
       /\ b[1] \in a[1] + 1..Len(sent) /\ ~Bare(b[1])
       /\ \A i \in a[1] + 1..b[1] - 1 : Bare(i)

Given(n) == IF n = 0 THEN None ELSE delivered[n]

\* What the application gets is the payload of the messages from their first
\* byte on, in order, nothing left out, and every byte free of its mask,
\* however reads and frames overlap and wherever the buffers lie.
InOrder == \A n \in 1..Len(delivered) : Follows(Given(n - 1), delivered[n])

\* websocket_read never takes payload for a header, or a header for payload.
InStep == Fits

AllGiven ==
    LET last == Given(Len(delivered))
    IN Ends(last) /\ \A i \in last[1] + 1..Len(sent) : Bare(i)

\* A websocket_read that the messages can fill returns ERR_OK: no byte is kept
\* back, and none of the counts it goes by looks like an error.
ReadEnds == at # "idle" ~> (at = "idle" \/ AllGiven)
=============================================================================
