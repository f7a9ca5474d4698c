---------------------------- MODULE WsRead_proofs ----------------------------
(* websocket_read stays in step with the frames and gives the application    *)
(* the payload of the messages in order, for frames of every length, reads   *)
(* of every size, buffers at every address, and bytes that arrive in any     *)
(* pieces.                                                                   *)
EXTENDS WsRead, SequenceTheorems, TLAPS

-----------------------------------------------------------------------------
(* The inductive invariant *)

Pair == Nat \X Nat
Wire == Seq(Pair)

\* Concatenation, of which the proofs use no more than a few lemmas say
Cat(s, t) == s \o t

\* What the peer has sent and websocket_read has not used yet
Stream == Cat(Cat(got, p_current), coming)

SizeIn(frames, i) == IF i = 0 THEN 0 ELSE FrameSize(frames[i])

\* Place j of the stream s holds a byte of one of the frames; the rest of the
\* frame follows it without a gap, and after that the next frame, if any.
InFrame(frames, s, j) ==
    LET i == s[j][1]
        k == s[j][2]
        rest == SizeIn(frames, i) - k
    IN /\ i \in 1..Len(frames) /\ k \in 1..SizeIn(frames, i) /\ j + rest <= Len(s)
       /\ \A m \in 0..rest : s[j + m] = <<i, k + m>>
       /\ IF j + rest = Len(s) THEN i = Len(frames)
          ELSE s[j + rest + 1] = <<i + 1, 1>>

Whole(frames, s) == \A j \in 1..Len(s) : InFrame(frames, s, j)

\* Byte o of frame c is the last before the stream s.
UsedUpTo(frames, s, c, o) ==
    /\ c \in 0..Len(frames) /\ o \in 0..SizeIn(frames, c)
    /\ IF s = <<>> THEN c = Len(frames) /\ o = SizeIn(frames, c)
       ELSE s[1] = IF o < SizeIn(frames, c) THEN <<c, o + 1>> ELSE <<c + 1, 1>>

\* The places at which the header of frame c is known but not dealt with
InHeader == at \in {"length16", "length64", "mask", "opcode"}

\* What websocket_read believes of frame c, of which it has used o bytes
Knows(c, o) ==
    /\ at \in {"idle", "payload", "header", "skip"} =>
         /\ o + read_length = SizeIn(sent, c)
         /\ read_length > 0 => c > 0 /\ read_length <= sent[c].len
         /\ at # "idle" => (read_length = 0 <=> at = "header")
    /\ InHeader =>
         /\ c > 0
         /\ header = [op |-> sent[c].op, fin |-> sent[c].fin, masked |-> sent[c].masked]
    /\ at = "length16" => o = 2 /\ LengthSize(sent[c]) = 2
    /\ at = "length64" => o = 2 /\ LengthSize(sent[c]) = 8
    /\ at = "mask" =>
         sent[c].masked /\ o = MaskAt(sent[c]) /\ read_length = sent[c].len
    /\ at = "opcode" => o = PayloadAt(sent[c]) /\ read_length = sent[c].len

\* read_mask begins with the mask byte of the next byte of the payload.
MaskInPlace(c) ==
    at \in {"opcode", "idle", "payload"} /\ read_length > 0 =>
        \A k \in 1..4 : read_mask[k] = MaskByte(c, sent[c].len - read_length + k)

\* A message that frame n leaves open
Open(n) == n > 0 /\ ~sent[n].fin

\* The peer's frames are those of messages, one after the other.
Messages ==
    \A i \in 1..Len(sent) :
        /\ sent[i].op = "control" => sent[i].fin
        /\ ~Interjections => (sent[i].op = "continuation" <=> Open(i - 1))

\* read_lastOp tells whether frame c continues, or the next one will.
LastOpInPlace(c) ==
    /\ at = "skip" => sent[c].op = "control"
    /\ at \in {"idle", "payload"} /\ read_length > 0 => sent[c].op # "control"
    /\ IF Open(IF InHeader THEN c - 1 ELSE c) THEN read_lastOp \in {"text", "data"}
       ELSE read_lastOp = "continuation"

\* All the payload up to place k of frame c has been given to the application.
GivenUpTo(c, k) ==
    LET last == Given(Len(delivered))
    IN IF k > 0 THEN last = <<c, k>>
       ELSE /\ Ends(last)
            /\ last[1] < c \/ last = None
            /\ \A i \in last[1] + 1..c - 1 : Bare(i)

PlaceIn(c) ==
    IF InHeader \/ c = 0 \/ Bare(c) THEN 0 ELSE sent[c].len - read_length

GivenInPlace(c) == GivenUpTo(c, PlaceIn(c))

Types ==
    /\ TypeOK
    /\ got \in Wire /\ p_current \in Wire /\ coming \in Wire
    /\ read_mask \in Wire /\ delivered \in Wire

DeliveredSent ==
    \A n \in 1..Len(delivered) :
        LET place == delivered[n]
        IN place[1] \in 1..Len(sent) /\ place[2] \in 1..sent[place[1]].len

\* websocket_read and the peer agree where they are.
Reader ==
    \E c \in 0..Len(sent) : \E o \in 0..SizeIn(sent, c) :
        /\ UsedUpTo(sent, Stream, c, o) /\ Knows(c, o) /\ MaskInPlace(c)
        /\ ~Interjections /\ at # "error" => LastOpInPlace(c) /\ GivenInPlace(c)

IInv ==
    /\ Types /\ Messages /\ Whole(sent, Stream) /\ Reader
    /\ DeliveredSent
    /\ ~Interjections => InOrder
-----------------------------------------------------------------------------
(* Lengths *)

LEMMA Constants ==
    /\ Byte \in Nat /\ Byte > 1 /\ Word \in Nat /\ Word > 0 /\ Use16Bit \in Nat
    /\ \A frame \in Frames :
         /\ frame.op \in Opcodes /\ frame.fin \in BOOLEAN /\ frame.masked \in BOOLEAN
         /\ frame.len \in Nat /\ frame.len < Word * Word
         /\ frame = [op |-> frame.op, fin |-> frame.fin, len |-> frame.len,
                     masked |-> frame.masked]
<1>1. Byte \in Nat /\ Byte > 1 /\ Use16Bit \in Nat
    BY SizesAssumption
<1>2. \A a, b \in Nat : a > 0 /\ b > 0 => a * b \in Nat /\ a * b > 0
    OBVIOUS
<1>3. Word \in Nat /\ Word > 0
    BY <1>1, <1>2 DEF Word
<1> QED BY <1>1, <1>3, FramesAssumption

LEMMA DivMod ==
    ASSUME NEW n \in Nat, NEW b \in Nat \ {0}
    PROVE  /\ n \div b \in Nat /\ n % b \in 0..b - 1
           /\ n = (n \div b) * b + (n % b)
OBVIOUS

LEMMA DivLess ==
    ASSUME NEW n \in Nat, NEW b \in Nat \ {0}, NEW m \in Nat, n < m * b
    PROVE  n \div b < m
OBVIOUS

LEMMA ModOfLess ==
    ASSUME NEW n \in Nat, NEW b \in Nat \ {0}, n < b
    PROVE  n % b = n
OBVIOUS

\* lwip_ntohs undoes what the peer did to a length of two bytes.
LEMMA NtohsIsLength ==
    ASSUME NEW n \in Nat, n < Byte * Byte
    PROVE  Ntohs(Digit(n, 1), Digit(n, 0)) = n
<1>1. Digit(n, 1) = (n \div Byte) % Byte /\ Digit(n, 0) = n % Byte
    BY DEF Digit
<1>2. n \div Byte \in Nat /\ n \div Byte < Byte
    BY Constants, DivMod, DivLess
<1>3. (n \div Byte) % Byte = n \div Byte
    BY <1>2, Constants, ModOfLess
<1> QED BY <1>1, <1>3, Constants, DivMod DEF Ntohs

\* lwip_ntohl undoes what the peer did to one of four.
LEMMA NtohlIsWord ==
    ASSUME NEW n \in Nat, n < Word
    PROVE  Ntohl(Digit(n, 3), Digit(n, 2), Digit(n, 1), Digit(n, 0)) = n
<1> DEFINE m == n \div Byte
           l == m \div Byte
           k == l \div Byte
<1>1. /\ Digit(n, 3) = k % Byte /\ Digit(n, 2) = l % Byte
      /\ Digit(n, 1) = m % Byte /\ Digit(n, 0) = n % Byte
    BY DEF Digit
<1>2. Byte \in Nat \ {0} /\ Byte * Byte \in Nat /\ Byte * Byte * Byte \in Nat
    BY Constants
<1>3. m \in Nat /\ m < Byte * Byte * Byte /\ n = m * Byte + (n % Byte)
    BY <1>2, DivMod, DivLess DEF Word
<1> HIDE DEF m
<1>4. l \in Nat /\ l < Byte * Byte /\ m = l * Byte + (m % Byte)
    BY <1>2, <1>3, DivMod, DivLess
<1> HIDE DEF l
<1>5. k \in Nat /\ k < Byte /\ l = k * Byte + (l % Byte)
    BY <1>2, <1>4, DivMod, DivLess
<1> HIDE DEF k
<1>6. k % Byte = k
    BY <1>2, <1>5, ModOfLess
<1> QED BY <1>1, <1>3, <1>4, <1>5, <1>6 DEF Ntohl

LEMMA DigitIsNat ==
    ASSUME NEW n \in Nat, NEW k \in 0..3
    PROVE  Digit(n, k) \in Nat
<1>1. Byte \in Nat \ {0}
    BY Constants
<1>2. /\ n \div Byte \in Nat /\ (n \div Byte) \div Byte \in Nat
      /\ ((n \div Byte) \div Byte) \div Byte \in Nat
    BY <1>1, DivMod
<1>3. \A m \in Nat : m % Byte \in Nat
    BY <1>1, DivMod
<1>4. CASE k = 0
    BY <1>3, <1>4 DEF Digit
<1>5. CASE k = 1
    BY <1>2, <1>3, <1>5 DEF Digit
<1>6. CASE k = 2
    BY <1>2, <1>3, <1>6 DEF Digit
<1>7. CASE k = 3
    BY <1>2, <1>3, <1>7 DEF Digit
<1> QED BY <1>4, <1>5, <1>6, <1>7

-----------------------------------------------------------------------------
(* Frames *)

LEMMA FrameFacts ==
    ASSUME NEW frame \in Frames
    PROVE  /\ LengthSize(frame) \in {0, 2, 8}
           /\ MaskAt(frame) \in Nat /\ MaskAt(frame) = 2 + LengthSize(frame)
           /\ PayloadAt(frame) \in Nat
           /\ PayloadAt(frame) = MaskAt(frame) + (IF frame.masked THEN 4 ELSE 0)
           /\ FrameSize(frame) \in Nat
           /\ FrameSize(frame) = PayloadAt(frame) + frame.len
<1>1. LengthSize(frame) \in {0, 2, 8}
    BY DEF LengthSize
<1>2. frame.len \in Nat /\ frame.masked \in BOOLEAN
    BY Constants
<1> QED BY <1>1, <1>2 DEF MaskAt, PayloadAt, FrameSize

\* The second byte tells the length or how many bytes will.
LEMMA SecondByte ==
    ASSUME NEW frame \in Frames
    PROVE  /\ Length7(frame) = Use16Bit => LengthSize(frame) = 2
           /\ Length7(frame) = Use64Bit => LengthSize(frame) = 8
           /\ Length7(frame) \notin {Use16Bit, Use64Bit} =>
                LengthSize(frame) = 0 /\ Length7(frame) = frame.len
<1>1. Use16Bit \in Nat /\ frame.len \in Nat /\ Use64Bit = Use16Bit + 1
    BY Constants DEF Use64Bit
<1>2. \/ Length7(frame) = frame.len /\ frame.len < Use16Bit
      \/ Length7(frame) \in {Use16Bit, Use64Bit}
    BY DEF Length7
<1>3. Length7(frame) = Use64Bit => Length7(frame) # Use16Bit
    BY <1>1
<1> QED BY <1>1, <1>2, <1>3 DEF LengthSize

\* The length the reader computes from the length field is the frame's.
LEMMA LengthOf2 ==
    ASSUME NEW frame \in Frames, LengthSize(frame) = 2
    PROVE  Ntohs(LengthByte(frame, 1), LengthByte(frame, 2)) = frame.len
<1>1. Use16Bit \in Nat /\ Byte \in Nat /\ frame.len \in Nat /\ Use64Bit = Use16Bit + 1
    BY Constants DEF Use64Bit
<1>2. Length7(frame) = Use16Bit
    BY DEF LengthSize
<1>3. frame.len < Byte * Byte
    BY <1>1, <1>2 DEF Length7
<1>4. LengthByte(frame, 1) = Digit(frame.len, 1) /\ LengthByte(frame, 2) = Digit(frame.len, 0)
    BY DEF LengthByte
<1> QED BY <1>1, <1>3, <1>4, NtohsIsLength

LEMMA LengthOf8 ==
    ASSUME NEW frame \in Frames, LengthSize(frame) = 8
    PROVE  Ntohl(LengthByte(frame, 1), LengthByte(frame, 2),
                 LengthByte(frame, 3), LengthByte(frame, 4)) * Word
             + Ntohl(LengthByte(frame, 5), LengthByte(frame, 6),
                     LengthByte(frame, 7), LengthByte(frame, 8))
           = frame.len
<1> DEFINE high == frame.len \div Word
           low == frame.len % Word
<1>1. Word \in Nat \ {0} /\ frame.len \in Nat /\ frame.len < Word * Word
    BY Constants
<1>2. /\ high \in Nat /\ low \in 0..Word - 1 /\ frame.len = high * Word + low
      /\ high < Word
    BY <1>1, DivMod, DivLess
<1>3. /\ LengthByte(frame, 1) = Digit(high, 3) /\ LengthByte(frame, 2) = Digit(high, 2)
      /\ LengthByte(frame, 3) = Digit(high, 1) /\ LengthByte(frame, 4) = Digit(high, 0)
      /\ LengthByte(frame, 5) = Digit(low, 3) /\ LengthByte(frame, 6) = Digit(low, 2)
      /\ LengthByte(frame, 7) = Digit(low, 1) /\ LengthByte(frame, 8) = Digit(low, 0)
    BY DEF LengthByte
<1> HIDE DEF high, low
<1>4. Ntohl(Digit(high, 3), Digit(high, 2), Digit(high, 1), Digit(high, 0)) = high
    BY <1>2, NtohlIsWord
<1>5. Ntohl(Digit(low, 3), Digit(low, 2), Digit(low, 1), Digit(low, 0)) = low
    BY <1>1, <1>2, NtohlIsWord
<1> QED BY <1>2, <1>3, <1>4, <1>5

-----------------------------------------------------------------------------
(* Streams of bytes *)

LEMMA SizeIsNat ==
    ASSUME NEW frames \in Seq(Frames), NEW i \in 0..Len(frames)
    PROVE  /\ SizeIn(frames, i) \in Nat
           /\ i > 0 => frames[i] \in Frames /\ SizeIn(frames, i) = FrameSize(frames[i])
                       /\ SizeIn(frames, i) >= 2
<1>1. CASE i = 0
    BY <1>1 DEF SizeIn
<1>2. CASE i # 0
  <2>1. i \in 1..Len(frames)
      BY <1>2
  <2>2. frames[i] \in Frames
      BY <2>1, ElementOfSeq
  <2>3. \A f \in Frames : FrameSize(f) \in Nat /\ FrameSize(f) >= 2
    <3>1. TAKE f \in Frames
    <3>2. f.len \in Nat
        BY Constants
    <3>3. /\ LengthSize(f) \in {0, 2, 8} /\ MaskAt(f) = 2 + LengthSize(f)
          /\ PayloadAt(f) = MaskAt(f) + (IF f.masked THEN 4 ELSE 0)
          /\ FrameSize(f) = PayloadAt(f) + f.len
        BY FrameFacts
    <3>4. PayloadAt(f) \in Nat /\ PayloadAt(f) >= 2
        BY <3>3
    <3> QED BY <3>2, <3>3, <3>4
  <2> QED BY <1>2, <2>2, <2>3 DEF SizeIn
<1> QED BY <1>1, <1>2

\* What is left of a stream is a stream.
LEMMA WholeAfter ==
    ASSUME NEW frames \in Seq(Frames), NEW s \in Wire, NEW t \in Wire, NEW n \in Nat,
           Whole(frames, s), Len(t) + n = Len(s),
           \A j \in 1..Len(t) : t[j] = s[j + n]
    PROVE  Whole(frames, t)
<1> SUFFICES ASSUME NEW j \in 1..Len(t)
             PROVE  InFrame(frames, t, j)
    BY DEF Whole
<1> DEFINE i == s[j + n][1]
           k == s[j + n][2]
           rest == SizeIn(frames, i) - k
<1>1. Len(s) \in Nat /\ Len(t) \in Nat
    BY LenProperties DEF Wire
<1>2. j + n \in 1..Len(s) /\ t[j] = s[j + n]
    BY <1>1
<1>3. /\ i \in 1..Len(frames) /\ k \in 1..SizeIn(frames, i) /\ (j + n) + rest <= Len(s)
      /\ \A m \in 0..rest : s[(j + n) + m] = <<i, k + m>>
      /\ IF (j + n) + rest = Len(s) THEN i = Len(frames)
         ELSE s[(j + n) + rest + 1] = <<i + 1, 1>>
    BY <1>2 DEF Whole, InFrame
<1>4. SizeIn(frames, i) \in Nat /\ Len(frames) \in Nat
    BY <1>3, SizeIsNat, LenProperties
<1>5. rest \in Nat
    BY <1>3, <1>4
<1>6. t[j][1] = i /\ t[j][2] = k
    BY <1>2
<1> HIDE DEF i, k
<1>7. j + rest <= Len(t)
    BY <1>1, <1>3, <1>5
<1>8. ASSUME NEW m \in 0..rest
      PROVE  t[j + m] = <<i, k + m>>
  <2>1. j + m \in 1..Len(t) /\ (j + m) + n = (j + n) + m
      BY <1>1, <1>5, <1>7
  <2> QED BY <1>3, <2>1
<1>9. IF j + rest = Len(t) THEN i = Len(frames) ELSE t[j + rest + 1] = <<i + 1, 1>>
  <2>1. CASE j + rest = Len(t)
      BY <1>1, <1>3, <1>5, <2>1
  <2>2. CASE j + rest # Len(t)
    <3>1. j + rest + 1 \in 1..Len(t) /\ (j + rest + 1) + n = (j + n) + rest + 1
        BY <1>1, <1>5, <1>7, <2>2
    <3>2. (j + n) + rest # Len(s)
        BY <1>1, <1>5, <2>2
    <3> QED BY <1>3, <2>2, <3>1, <3>2
  <2> QED BY <2>1, <2>2
<1> QED BY <1>3, <1>6, <1>7, <1>8, <1>9 DEF InFrame

\* Within a frame the next bytes are those of the frame.
LEMMA NextBytes ==
    ASSUME NEW frames \in Seq(Frames), NEW s \in Wire, Whole(frames, s),
           NEW c \in 0..Len(frames), NEW o \in 0..SizeIn(frames, c),
           UsedUpTo(frames, s, c, o), o < SizeIn(frames, c)
    PROVE  /\ s # <<>> /\ c > 0 /\ SizeIn(frames, c) - o <= Len(s)
           /\ \A j \in 1..SizeIn(frames, c) - o : s[j] = <<c, o + j>>
           /\ IF SizeIn(frames, c) - o = Len(s) THEN c = Len(frames)
              ELSE s[SizeIn(frames, c) - o + 1] = <<c + 1, 1>>
<1> DEFINE z == SizeIn(frames, c)
<1>1. z \in Nat /\ Len(frames) \in Nat /\ c \in Nat /\ o \in Nat /\ Len(s) \in Nat
    BY SizeIsNat, LenProperties DEF Wire
<1>2. c > 0
    BY <1>1 DEF SizeIn
<1>3. s # <<>> /\ s[1] = <<c, o + 1>>
    BY <1>1 DEF UsedUpTo
<1>4. 1 \in 1..Len(s)
    BY <1>1, <1>3, EmptySeq DEF Wire
<1>5. InFrame(frames, s, 1)
    BY <1>4 DEF Whole
<1>6. s[1][1] = c /\ s[1][2] = o + 1
    BY <1>3
<1>7. /\ 1 + (z - (o + 1)) <= Len(s)
      /\ \A m \in 0..z - (o + 1) : s[1 + m] = <<c, (o + 1) + m>>
      /\ IF 1 + (z - (o + 1)) = Len(s) THEN c = Len(frames)
         ELSE s[1 + (z - (o + 1)) + 1] = <<c + 1, 1>>
    BY <1>5, <1>6 DEF InFrame
<1> HIDE DEF z
<1>8. 1 + (z - (o + 1)) = z - o
    BY <1>1
<1>9. ASSUME NEW j \in 1..z - o
      PROVE  s[j] = <<c, o + j>>
  <2>1. j - 1 \in 0..z - (o + 1) /\ 1 + (j - 1) = j /\ (o + 1) + (j - 1) = o + j
      BY <1>1
  <2> QED BY <1>7, <2>1
<1> QED BY <1>2, <1>3, <1>7, <1>8, <1>9 DEF z

\* After a frame comes the next.
LEMMA NextFrame ==
    ASSUME NEW frames \in Seq(Frames), NEW s \in Wire, Whole(frames, s),
           NEW c \in 0..Len(frames), UsedUpTo(frames, s, c, SizeIn(frames, c)),
           s # <<>>
    PROVE  c + 1 \in 1..Len(frames) /\ UsedUpTo(frames, s, c + 1, 0)
<1>1. SizeIn(frames, c) \in Nat /\ Len(frames) \in Nat /\ c \in Nat /\ Len(s) \in Nat
    BY SizeIsNat, LenProperties DEF Wire
<1>2. s[1] = <<c + 1, 1>>
    BY <1>1 DEF UsedUpTo
<1>3. 1 \in 1..Len(s)
    BY <1>1, EmptySeq DEF Wire
<1>4. InFrame(frames, s, 1) /\ s[1][1] = c + 1
    BY <1>2, <1>3 DEF Whole
<1>5. c + 1 \in 1..Len(frames)
    BY <1>4 DEF InFrame
<1>6. SizeIn(frames, c + 1) \in Nat /\ SizeIn(frames, c + 1) >= 2
    BY <1>1, <1>5, SizeIsNat
<1> QED BY <1>1, <1>2, <1>5, <1>6 DEF UsedUpTo

\* Using up bytes of a frame.
LEMMA UsedMore ==
    ASSUME NEW frames \in Seq(Frames), NEW s \in Wire, NEW t \in Wire, Whole(frames, s),
           NEW c \in 0..Len(frames), NEW o \in 0..SizeIn(frames, c),
           UsedUpTo(frames, s, c, o), NEW n \in Nat \ {0}, o + n <= SizeIn(frames, c),
           Len(t) + n = Len(s), \A j \in 1..Len(t) : t[j] = s[j + n]
    PROVE  o + n \in 0..SizeIn(frames, c) /\ UsedUpTo(frames, t, c, o + n)
<1> DEFINE z == SizeIn(frames, c)
<1>1. /\ z \in Nat /\ Len(frames) \in Nat /\ c \in Nat /\ o \in Nat
      /\ Len(s) \in Nat /\ Len(t) \in Nat
  <2>1. Len(frames) \in Nat /\ Len(s) \in Nat /\ Len(t) \in Nat
      BY LenProperties DEF Wire
  <2>2. z \in Nat
      BY SizeIsNat
  <2> QED BY <2>1, <2>2
<1>2. /\ z - o <= Len(s)
      /\ \A j \in 1..z - o : s[j] = <<c, o + j>>
      /\ IF z - o = Len(s) THEN c = Len(frames) ELSE s[z - o + 1] = <<c + 1, 1>>
  <2>1. o < z
      BY <1>1
  <2> QED BY <2>1, NextBytes
<1>3. UsedUpTo(frames, s, c, o) /\ o + n <= z
    OBVIOUS
<1>4. CASE t = <<>>
  <2>1. Len(s) = n
      BY <1>1, <1>4, EmptySeq
  <2>2. z - o = Len(s) /\ o + n = z
      BY <1>1, <1>2, <1>3, <2>1
  <2> QED BY <1>1, <1>2, <1>4, <2>2 DEF UsedUpTo
<1>5. CASE t # <<>>
  <2>1. Len(t) > 0
      BY <1>1, <1>5, EmptySeq DEF Wire
  <2>2. t[1] = s[n + 1]
      BY <1>1, <2>1
  <2>3. CASE o + n < z
    <3>1. n + 1 \in 1..z - o /\ o + (n + 1) = (o + n) + 1
        BY <1>1, <2>3
    <3>2. t[1] = <<c, (o + n) + 1>>
        BY <1>2, <2>2, <3>1
    <3> QED BY <1>1, <1>5, <2>3, <3>2 DEF UsedUpTo
  <2>4. CASE o + n = z
    <3>1. z - o # Len(s) /\ z - o + 1 = n + 1
        BY <1>1, <2>1, <2>4
    <3>2. t[1] = <<c + 1, 1>>
        BY <1>2, <2>2, <3>1
    <3> QED BY <1>1, <1>5, <2>4, <3>2 DEF UsedUpTo
  <2> QED BY <1>1, <1>3, <2>3, <2>4
<1> QED BY <1>4, <1>5

LEMMA BytesAre ==
    ASSUME NEW frame \in Frames, NEW i \in Nat
    PROVE  /\ Bytes(frame, i) \in Wire /\ Len(Bytes(frame, i)) = FrameSize(frame)
           /\ \A k \in 1..FrameSize(frame) : Bytes(frame, i)[k] = <<i, k>>
<1>1. FrameSize(frame) \in Nat
    BY FrameFacts
<1>2. Bytes(frame, i) \in [1..FrameSize(frame) -> Pair]
    BY <1>1 DEF Bytes, Pair
<1>3. Bytes(frame, i) \in Wire
    BY <1>1, <1>2 DEF Wire
<1> QED BY <1>1, <1>2, <1>3 DEF Bytes

\* A new frame at the end of the stream
LEMMA StreamGrows ==
    ASSUME NEW frames \in Seq(Frames), NEW frame \in Frames, NEW s \in Wire, NEW t \in Wire,
           t = Cat(s, Bytes(frame, Len(frames) + 1)), Whole(frames, s)
    PROVE  /\ Whole(Append(frames, frame), t)
           /\ \A c \in 0..Len(frames) : \A o \in 0..SizeIn(frames, c) :
                UsedUpTo(frames, s, c, o) => UsedUpTo(Append(frames, frame), t, c, o)
<1> DEFINE all == Append(frames, frame)
           last == Len(frames) + 1
           z == FrameSize(frame)
           b == Bytes(frame, last)
<1>1. /\ Len(frames) \in Nat /\ Len(s) \in Nat /\ last \in Nat
      /\ all \in Seq(Frames) /\ Len(all) = last
      /\ all[last] = frame /\ \A i \in 1..Len(frames) : all[i] = frames[i]
    BY LenProperties, AppendProperties DEF Wire
<1>2. /\ z \in Nat /\ b \in Wire /\ Len(b) = z
      /\ \A k \in 1..z : b[k] = <<last, k>>
    BY <1>1, BytesAre, FrameFacts
<1>3. SizeIn(all, last) = z /\ z >= 2
  <2>1. last > 0 /\ last \in 0..Len(all)
      BY <1>1
  <2>2. SizeIn(all, last) = FrameSize(all[last]) /\ SizeIn(all, last) >= 2
      BY <1>1, <2>1, SizeIsNat
  <2> QED BY <1>1, <2>2
<1>4. /\ Len(t) = Len(s) + z
      /\ \A j \in 1..Len(s) : t[j] = s[j]
      /\ \A k \in 1..z : t[Len(s) + k] = <<last, k>>
  <2>1. /\ Len(t) = Len(s) + Len(b)
        /\ \A j \in 1..Len(s) + Len(b) : t[j] = IF j <= Len(s) THEN s[j] ELSE b[j - Len(s)]
      BY <1>2, ConcatProperties DEF Wire, Cat
  <2> HIDE DEF b, z
  <2>2. ASSUME NEW j \in 1..Len(s)
        PROVE  t[j] = s[j]
      BY <1>1, <1>2, <2>1
  <2>3. ASSUME NEW k \in 1..z
        PROVE  t[Len(s) + k] = <<last, k>>
    <3>1. /\ Len(s) + k \in 1..Len(s) + Len(b) /\ ~(Len(s) + k <= Len(s))
          /\ (Len(s) + k) - Len(s) = k
        BY <1>1, <1>2
    <3> QED BY <1>2, <2>1, <3>1
  <2> QED BY <1>2, <2>1, <2>2, <2>3
<1>5. \A i \in 0..Len(frames) : SizeIn(all, i) = SizeIn(frames, i) /\ SizeIn(frames, i) \in Nat
    BY <1>1, SizeIsNat DEF SizeIn
<1> HIDE DEF all, last, z, b
<1>51. /\ z \in Nat /\ Len(s) \in Nat /\ Len(frames) \in Nat /\ last = Len(frames) + 1
      /\ Len(t) = Len(s) + z /\ z >= 2 /\ Len(all) = last
    BY <1>1, <1>2, <1>3, <1>4 DEF last
<1>6. ASSUME NEW j \in 1..Len(t)
      PROVE  InFrame(all, t, j)
  <2>1. CASE j <= Len(s)
    <3> DEFINE i == s[j][1]
               k == s[j][2]
               rest == SizeIn(frames, i) - k
    <3>1. /\ i \in 1..Len(frames) /\ k \in 1..SizeIn(frames, i) /\ j + rest <= Len(s)
          /\ \A m \in 0..rest : s[j + m] = <<i, k + m>>
          /\ IF j + rest = Len(s) THEN i = Len(frames) ELSE s[j + rest + 1] = <<i + 1, 1>>
      <4>1. j \in 1..Len(s)
          BY <1>51, <2>1
      <4>2. InFrame(frames, s, j)
          BY <4>1 DEF Whole
      <4> QED BY <4>2 DEF InFrame
    <3>2. t[j] = s[j] /\ SizeIn(all, i) = SizeIn(frames, i) /\ SizeIn(frames, i) \in Nat
        BY <1>1, <1>4, <1>5, <2>1, <3>1
    <3>3. rest \in Nat
        BY <3>1, <3>2
    <3>4. i \in 1..Len(all) /\ k \in 1..SizeIn(all, i) /\ j + rest <= Len(t)
        BY <1>1, <1>2, <1>4, <3>1, <3>2, <3>3 DEF last
    <3>5. t[j][1] = i /\ t[j][2] = k
        BY <3>2
    <3> HIDE DEF i, k
    <3>6. ASSUME NEW m \in 0..rest
          PROVE  t[j + m] = <<i, k + m>>
      <4>1. j + m \in 1..Len(s)
          BY <1>51, <2>1, <3>1, <3>3
      <4> QED BY <1>4, <3>1, <4>1
    <3>7. IF j + rest = Len(t) THEN i = Len(all) ELSE t[j + rest + 1] = <<i + 1, 1>>
      <4>1. j + rest # Len(t)
          BY <1>1, <1>2, <1>3, <1>4, <3>1, <3>3
      <4>2. CASE j + rest = Len(s)
        <5>1. i + 1 = last /\ 1 \in 1..z /\ j + rest + 1 = Len(s) + 1
            BY <1>1, <1>2, <1>3, <3>1, <4>2 DEF last
        <5>2. t[Len(s) + 1] = <<last, 1>>
            BY <1>4, <5>1
        <5> QED BY <4>1, <5>1, <5>2
      <4>3. CASE j + rest # Len(s)
        <5>1. j + rest + 1 \in 1..Len(s)
            BY <1>1, <3>1, <3>3, <4>3
        <5> QED BY <1>4, <3>1, <4>1, <4>3, <5>1
      <4> QED BY <4>2, <4>3
    <3> QED BY <3>2, <3>4, <3>5, <3>6, <3>7 DEF InFrame
  <2>2. CASE ~(j <= Len(s))
    <3>1. j - Len(s) \in 1..z /\ Len(s) + (j - Len(s)) = j
        BY <1>51, <2>2
    <3>2. PICK k \in 1..z : Len(s) + k = j
        BY <3>1
    <3>7. t[j] = <<last, k>>
        BY <1>4, <3>2
    <3>3. t[j][1] = last /\ t[j][2] = k
        BY <3>7
    <3>4. last \in 1..Len(all) /\ j + (z - k) = Len(t)
        BY <1>51, <3>2
    <3>5. ASSUME NEW m \in 0..z - k
          PROVE  t[j + m] = <<last, k + m>>
      <4>1. k + m \in 1..z /\ j + m = Len(s) + (k + m)
          BY <1>51, <3>2
      <4> QED BY <1>4, <4>1
    <3>6. SizeIn(all, last) = z /\ last = Len(all)
        BY <1>51, <1>3
    <3> QED BY <3>2, <3>3, <3>4, <3>5, <3>6 DEF InFrame
  <2> QED BY <2>1, <2>2
<1>7. ASSUME NEW c \in 0..Len(frames), NEW o \in 0..SizeIn(frames, c),
             UsedUpTo(frames, s, c, o)
      PROVE  UsedUpTo(all, t, c, o)
  <2>1. c \in 0..Len(all) /\ SizeIn(all, c) = SizeIn(frames, c) /\ t # <<>>
      BY <1>1, <1>2, <1>3, <1>4, <1>5, EmptySeq DEF last
  <2>2. CASE s = <<>>
    <3>1. c = Len(frames) /\ o = SizeIn(frames, c)
        BY <1>7, <2>2 DEF UsedUpTo
    <3>2. Len(s) = 0 /\ 1 \in 1..z
        BY <1>2, <1>3, <2>2, EmptySeq
    <3>3. t[Len(s) + 1] = <<last, 1>>
        BY <1>4, <3>2
    <3>4. t[1] = <<c + 1, 1>>
      <4>1. Len(s) + 1 = 1 /\ last = c + 1
          BY <1>51, <3>1, <3>2
      <4> QED BY <3>3, <4>1
    <3>5. ~(o < SizeIn(all, c))
        BY <1>5, <2>1, <3>1
    <3> QED BY <2>1, <3>1, <3>4, <3>5 DEF UsedUpTo
  <2>3. CASE s # <<>>
    <3>1. 1 \in 1..Len(s)
        BY <1>1, <2>3, EmptySeq DEF Wire
    <3>2. t[1] = s[1]
        BY <1>4, <3>1
    <3> QED BY <1>7, <2>1, <2>3, <3>2 DEF UsedUpTo
  <2> QED BY <2>2, <2>3
<1> QED BY <1>6, <1>7 DEF all, Whole

LEMMA CatWire ==
    ASSUME NEW a \in Wire, NEW b \in Wire
    PROVE  Cat(a, b) \in Wire /\ Len(Cat(a, b)) = Len(a) + Len(b)
BY ConcatProperties DEF Wire, Cat

LEMMA Associative ==
    ASSUME NEW a \in Wire, NEW b \in Wire, NEW d \in Wire
    PROVE  Cat(Cat(a, b), d) = Cat(a, Cat(b, d))
BY ConcatAssociative DEF Wire, Cat

\* ws_t_read moves bytes from p_current to what it has.
LEMMA Moved ==
    ASSUME NEW a \in Wire, NEW b \in Wire, NEW n \in 0..Len(b)
    PROVE  /\ Cat(a, SubSeq(b, 1, n)) \in Wire /\ SubSeq(b, n + 1, Len(b)) \in Wire
           /\ Len(Cat(a, SubSeq(b, 1, n))) = Len(a) + n
           /\ Cat(Cat(a, SubSeq(b, 1, n)), SubSeq(b, n + 1, Len(b))) = Cat(a, b)
<1> DEFINE u == SubSeq(b, 1, n)
           v == SubSeq(b, n + 1, Len(b))
<1>1. Len(b) \in Nat /\ Len(a) \in Nat /\ \A i \in 1..Len(b) : b[i] \in Pair
    BY LenProperties, ElementOfSeq DEF Wire
<1>2. u \in Wire /\ Len(u) = n
    BY <1>1, SubSeqProperties DEF Wire
<1>3. v \in Wire
    BY <1>1, SubSeqProperties DEF Wire
<1>4. Cat(u, v) = b
  <2>1. /\ 1 \in 1..Len(b) + 1 /\ n \in 1 - 1..Len(b) /\ Len(b) \in n..Len(b)
      BY <1>1
  <2>2. u \o v = SubSeq(b, 1, Len(b))
      BY <2>1, ConcatAdjacentSubSeq DEF Wire
  <2> QED BY <2>2, SubSeqFull DEF Wire, Cat
<1> HIDE DEF u, v
<1>5. Cat(a, u) \in Wire /\ Len(Cat(a, u)) = Len(a) + n
    BY <1>1, <1>2, CatWire
<1>6. Cat(Cat(a, u), v) = Cat(a, b)
    BY <1>2, <1>3, <1>4, Associative
<1> QED BY <1>2, <1>3, <1>5, <1>6 DEF u, v

\* A byte arrives.
LEMMA Arrived ==
    ASSUME NEW a \in Wire, NEW b \in Wire, NEW d \in Wire, d # <<>>
    PROVE  /\ Append(b, Head(d)) \in Wire /\ Tail(d) \in Wire
           /\ Cat(Cat(a, Append(b, Head(d))), Tail(d)) = Cat(Cat(a, b), d)
<1> DEFINE h == <<Head(d)>>
           t == Tail(d)
           e == Append(b, Head(d))
<1>1. Head(d) \in Pair /\ t \in Wire /\ e \in Wire
    BY HeadTailProperties, AppendProperties DEF Wire
<1>2. h \in Wire
    BY <1>1 DEF Wire
<1>3. e = Cat(b, h)
    BY <1>1, AppendIsConcat DEF Wire, Cat
<1>4. Cat(h, t) = d
    BY DEF Wire, Cat
<1> HIDE DEF h, t, e
<1>5. Cat(a, b) \in Wire /\ Cat(a, Cat(b, h)) = Cat(Cat(a, b), h)
    BY <1>2, Associative, CatWire
<1>6. Cat(Cat(Cat(a, b), h), t) = Cat(Cat(a, b), Cat(h, t))
    BY <1>1, <1>2, <1>5, Associative
<1>7. Cat(Cat(a, e), t) = Cat(Cat(a, b), d)
    BY <1>3, <1>4, <1>5, <1>6
<1> QED BY <1>1, <1>7 DEF t, e

\* ws_t_read gives what it has to its caller.
LEMMA Used ==
    ASSUME NEW a \in Wire, NEW b \in Wire, NEW d \in Wire
    PROVE  \E s \in Wire, t \in Wire :
             /\ s = Cat(Cat(a, b), d) /\ t = Cat(Cat(<<>>, b), d)
             /\ Len(t) + Len(a) = Len(s) /\ \A j \in 1..Len(t) : t[j] = s[j + Len(a)]
             /\ Len(a) <= Len(s) /\ \A j \in 1..Len(a) : s[j] = a[j]
<1>1. PICK t \in Wire : t = Cat(b, d)
    BY CatWire
<1>2. Cat(Cat(<<>>, b), d) = t
    BY <1>1, ConcatEmptySeq DEF Cat, Wire
<1>3. PICK s \in Wire : s = Cat(a, t)
    BY CatWire
<1>4. Cat(Cat(a, b), d) = s
    BY <1>1, <1>3, Associative
<1>5. /\ Len(s) = Len(a) + Len(t)
      /\ \A i \in 1..Len(a) + Len(t) : s[i] = IF i <= Len(a) THEN a[i] ELSE t[i - Len(a)]
    BY <1>3, ConcatProperties DEF Cat, Wire
<1>6. Len(a) \in Nat /\ Len(t) \in Nat
    BY LenProperties DEF Wire
<1>7. ASSUME NEW j \in 1..Len(t)
      PROVE  t[j] = s[j + Len(a)]
  <2>1. /\ j + Len(a) \in 1..Len(a) + Len(t) /\ ~(j + Len(a) <= Len(a))
        /\ (j + Len(a)) - Len(a) = j
      BY <1>6
  <2> QED BY <1>5, <2>1
<1>8. ASSUME NEW j \in 1..Len(a)
      PROVE  s[j] = a[j]
    BY <1>5, <1>6
<1>9. Len(t) + Len(a) = Len(s) /\ Len(a) <= Len(s)
    BY <1>5, <1>6
<1> QED BY <1>2, <1>4, <1>7, <1>8, <1>9

-----------------------------------------------------------------------------
(* What ws_t_read has read *)

LEMMA StreamIsWire ==
    ASSUME Types
    PROVE  Stream \in Wire /\ sent \in Seq(Frames) /\ Len(sent) \in Nat
           /\ Len(got) \in Nat /\ Wanted \in Nat /\ Len(got) <= Wanted
<1>1. /\ got \in Wire /\ p_current \in Wire /\ coming \in Wire /\ sent \in Seq(Frames)
      /\ read_length \in Nat /\ size \in Nat /\ Len(got) <= Wanted
    BY DEF Types, TypeOK
<1>2. Stream \in Wire
    BY <1>1, CatWire DEF Stream
<1>3. Len(sent) \in Nat /\ Len(got) \in Nat
    BY <1>1, LenProperties DEF Wire
<1>4. Wanted \in Nat
    BY <1>1 DEF Wanted, Least
<1> QED BY <1>1, <1>2, <1>3, <1>4

\* The bytes it has are the next of the stream.
LEMMA GotIsNext ==
    ASSUME Types
    PROVE  /\ Len(got) <= Len(Stream) /\ Len(Stream) \in Nat
           /\ \A j \in 1..Len(got) : got[j] = Stream[j]
           /\ got # <<>> => Stream # <<>>
<1>1. got \in Wire /\ p_current \in Wire /\ coming \in Wire
    BY DEF Types
<1>2. Stream \in Wire /\ Len(Stream) \in Nat /\ Len(got) \in Nat
    BY StreamIsWire, LenProperties DEF Wire
<1>4. Len(got) <= Len(Stream) /\ \A j \in 1..Len(got) : Stream[j] = got[j]
    BY <1>1, Used DEF Stream
<1>5. got # <<>> => Len(got) > 0
    BY <1>1, EmptySeq DEF Wire
<1>6. Stream = <<>> => Len(Stream) = 0
    BY EmptySeq
<1> QED BY <1>2, <1>4, <1>5, <1>6

\* A read within frame c, of which o bytes have been used
LEMMA ReadWithin ==
    ASSUME Types, Whole(sent, Stream),
           NEW c \in 0..Len(sent), NEW o \in 0..SizeIn(sent, c),
           UsedUpTo(sent, Stream, c, o), o + Wanted <= SizeIn(sent, c)
    PROVE  \A j \in 1..Len(got) : got[j] = <<c, o + j>> /\ c > 0 /\ sent[c] \in Frames
<1>1. /\ Stream \in Wire /\ sent \in Seq(Frames) /\ Len(sent) \in Nat
      /\ Len(got) \in Nat /\ Wanted \in Nat /\ Len(got) <= Wanted
    BY StreamIsWire
<1>2. SizeIn(sent, c) \in Nat /\ (c > 0 => sent[c] \in Frames)
    BY <1>1, SizeIsNat
<1> SUFFICES ASSUME NEW j \in 1..Len(got)
             PROVE  got[j] = <<c, o + j>> /\ c > 0 /\ sent[c] \in Frames
    OBVIOUS
<1>3. o \in Nat /\ o < SizeIn(sent, c) /\ j \in 1..SizeIn(sent, c) - o
    BY <1>1, <1>2
<1>4. c > 0 /\ \A k \in 1..SizeIn(sent, c) - o : Stream[k] = <<c, o + k>>
    BY <1>1, <1>3, NextBytes
<1>5. got[j] = Stream[j]
    BY GotIsNext
<1> QED BY <1>2, <1>3, <1>4, <1>5

\* What has been read at each place; "header" starts on the next frame.
Reading(c, o) ==
    /\ at = "header" /\ got # <<>> =>
         /\ c + 1 \in 1..Len(sent) /\ UsedUpTo(sent, Stream, c + 1, 0)
         /\ 0 + Wanted <= SizeIn(sent, c + 1)
    /\ at \in {"payload", "skip", "length16", "length64", "mask"} =>
         c > 0 /\ o + Wanted <= SizeIn(sent, c)
    /\ at \in {"idle", "opcode", "error"} => got = <<>>

LEMMA WhatIsRead ==
    ASSUME Types, Whole(sent, Stream),
           NEW c \in 0..Len(sent), NEW o \in 0..SizeIn(sent, c),
           UsedUpTo(sent, Stream, c, o), Knows(c, o)
    PROVE  Reading(c, o)
<1>1. /\ Stream \in Wire /\ sent \in Seq(Frames) /\ Len(sent) \in Nat
      /\ Len(got) \in Nat /\ Wanted \in Nat /\ Len(got) <= Wanted
    BY StreamIsWire
<1>2. SizeIn(sent, c) \in Nat /\ (c > 0 => sent[c] \in Frames)
      /\ (c > 0 => SizeIn(sent, c) = FrameSize(sent[c]))
    BY <1>1, SizeIsNat
<1>3. read_length \in Nat /\ size \in Nat
    BY DEF Types, TypeOK
<1>4. ASSUME at = "header", got # <<>>
      PROVE  /\ c + 1 \in 1..Len(sent) /\ UsedUpTo(sent, Stream, c + 1, 0)
             /\ 0 + Wanted <= SizeIn(sent, c + 1)
  <2>1. o = SizeIn(sent, c)
      BY <1>2, <1>3, <1>4 DEF Knows
  <2>2. Stream # <<>>
      BY <1>4, GotIsNext
  <2>3. c + 1 \in 1..Len(sent) /\ UsedUpTo(sent, Stream, c + 1, 0)
      BY <1>1, <2>1, <2>2, NextFrame
  <2>4. SizeIn(sent, c + 1) >= 2 /\ SizeIn(sent, c + 1) \in Nat
      BY <1>1, <2>3, SizeIsNat
  <2>5. Wanted = 2
      BY <1>4 DEF Wanted
  <2> QED BY <2>3, <2>4, <2>5
<1>5. ASSUME at \in {"payload", "skip"}
      PROVE  c > 0 /\ o + Wanted <= SizeIn(sent, c)
  <2>1. o + read_length = SizeIn(sent, c) /\ read_length > 0 /\ c > 0
      BY <1>3, <1>5 DEF Knows
  <2>2. Wanted <= read_length
    <3>1. CASE at = "payload"
        BY <1>3, <3>1 DEF Wanted, Least
    <3>2. CASE at = "skip"
        BY <1>3, <2>1, <3>2 DEF Wanted
    <3> QED BY <1>5, <3>1, <3>2
  <2> QED BY <1>1, <1>2, <1>3, <2>1, <2>2
<1>6. ASSUME at \in {"length16", "length64", "mask"}
      PROVE  c > 0 /\ o + Wanted <= SizeIn(sent, c)
  <2>1. c > 0
      BY <1>6 DEF Knows, InHeader
  <2> DEFINE f == sent[c]
  <2>2. f \in Frames /\ SizeIn(sent, c) = FrameSize(f)
      BY <1>2, <2>1
  <2>3. /\ LengthSize(f) \in {0, 2, 8} /\ MaskAt(f) = 2 + LengthSize(f)
        /\ PayloadAt(f) = MaskAt(f) + (IF f.masked THEN 4 ELSE 0)
        /\ FrameSize(f) = PayloadAt(f) + f.len /\ f.len \in Nat
      BY <2>2, FrameFacts, Constants
  <2>4. \/ at = "length16" /\ o = 2 /\ LengthSize(f) = 2 /\ Wanted = 2
        \/ at = "length64" /\ o = 2 /\ LengthSize(f) = 8 /\ Wanted = 8
        \/ at = "mask" /\ f.masked /\ o = MaskAt(f) /\ Wanted = 4
      BY <1>6 DEF Knows, Wanted
  <2> HIDE DEF f
  <2>5. o + Wanted <= PayloadAt(f) /\ PayloadAt(f) \in Nat
      BY <2>3, <2>4
  <2>6. FrameSize(f) \in Nat /\ o + Wanted <= FrameSize(f)
    <3>1. f.len \in Nat /\ FrameSize(f) = PayloadAt(f) + f.len
        BY <2>3
    <3>2. o + Wanted \in Nat
        BY <1>1, <1>2
    <3> QED BY <2>5, <3>1, <3>2
  <2> QED BY <2>1, <2>2, <2>6
<1>7. ASSUME at \in {"idle", "opcode", "error"}
      PROVE  got = <<>>
  <2>1. Wanted = 0
      BY <1>7 DEF Wanted
  <2>2. Len(got) = 0 /\ got \in Wire
      BY <1>1, <2>1 DEF Types
  <2> QED BY <2>2, EmptySeq DEF Wire
<1> QED BY <1>4, <1>5, <1>6, <1>7 DEF Reading

\* What the bytes are, with the frame they belong to
LEMMA GotBytes ==
    ASSUME Types, Whole(sent, Stream),
           NEW c \in 0..Len(sent), NEW o \in 0..SizeIn(sent, c),
           UsedUpTo(sent, Stream, c, o), Knows(c, o)
    PROVE  \A j \in 1..Len(got) :
              /\ at \in Places \ {"idle", "opcode", "error"}
              /\ IF at = "header" THEN c + 1 \in 1..Len(sent) /\ sent[c + 1] \in Frames
                                       /\ got[j] = <<c + 1, j>>
                 ELSE c > 0 /\ sent[c] \in Frames /\ got[j] = <<c, o + j>>
<1>1. Reading(c, o)
    BY WhatIsRead
<1>2. /\ at \in Places /\ sent \in Seq(Frames) /\ Len(sent) \in Nat /\ got \in Wire
      /\ Len(got) \in Nat
    BY StreamIsWire DEF Types, TypeOK
<1> SUFFICES ASSUME NEW j \in 1..Len(got)
             PROVE  /\ at \in Places \ {"idle", "opcode", "error"}
                    /\ IF at = "header" THEN c + 1 \in 1..Len(sent) /\ sent[c + 1] \in Frames
                                             /\ got[j] = <<c + 1, j>>
                       ELSE c > 0 /\ sent[c] \in Frames /\ got[j] = <<c, o + j>>
    OBVIOUS
<1>3. got # <<>>
  <2>1. Len(got) # 0
      BY <1>2
  <2> QED BY <2>1, EmptySeq
<1>4. at \in Places \ {"idle", "opcode", "error"}
    BY <1>1, <1>2, <1>3 DEF Reading
<1>5. CASE at = "header"
  <2>1. /\ c + 1 \in 1..Len(sent) /\ UsedUpTo(sent, Stream, c + 1, 0)
        /\ 0 + Wanted <= SizeIn(sent, c + 1)
      BY <1>1, <1>3, <1>5 DEF Reading
  <2>2. c + 1 \in 0..Len(sent) /\ SizeIn(sent, c + 1) \in Nat /\ 0 \in 0..SizeIn(sent, c + 1)
    <3>1. c + 1 \in 0..Len(sent)
        BY <1>2, <2>1
    <3> QED BY <1>2, <3>1, SizeIsNat
  <2>3. got[j] = <<c + 1, 0 + j>> /\ sent[c + 1] \in Frames
      BY <2>1, <2>2, ReadWithin
  <2> QED BY <1>2, <1>4, <1>5, <2>1, <2>3
<1>6. CASE at # "header"
  <2>1. c > 0 /\ o + Wanted <= SizeIn(sent, c)
      BY <1>1, <1>4, <1>6 DEF Reading, Places
  <2>2. got[j] = <<c, o + j>> /\ sent[c] \in Frames
      BY <2>1, ReadWithin
  <2> QED BY <1>4, <1>6, <2>1, <2>2
<1> QED BY <1>5, <1>6

\* websocket_read takes payload for payload and headers for headers.
LEMMA StaysInStep ==
    ASSUME IInv
    PROVE  InStep
<1>1. Types /\ Whole(sent, Stream)
    BY DEF IInv
<1>c. PICK c \in 0..Len(sent) : \E o \in 0..SizeIn(sent, c) :
          UsedUpTo(sent, Stream, c, o) /\ Knows(c, o)
    BY DEF IInv, Reader
<1>2. PICK o \in 0..SizeIn(sent, c) : UsedUpTo(sent, Stream, c, o) /\ Knows(c, o)
    BY <1>c
<1>3. Reading(c, o)
    BY <1>1, <1>2, WhatIsRead
<1>4. /\ sent \in Seq(Frames) /\ Len(sent) \in Nat /\ Wanted \in Nat /\ Len(got) \in Nat
      /\ Len(got) <= Wanted /\ read_length \in Nat /\ size \in Nat
    BY <1>1, StreamIsWire DEF Types, TypeOK
<1> SUFFICES ASSUME NEW j \in 1..Len(got)
             PROVE  KindOf(got[j]) = Kind
    BY DEF InStep, Fits
<1>5. /\ at \in Places \ {"idle", "opcode", "error"}
      /\ IF at = "header" THEN c + 1 \in 1..Len(sent) /\ sent[c + 1] \in Frames
                               /\ got[j] = <<c + 1, j>>
         ELSE c > 0 /\ sent[c] \in Frames /\ got[j] = <<c, o + j>>
    BY <1>1, <1>2, GotBytes
<1>6. j \in Nat /\ j >= 1 /\ j <= Wanted /\ o \in Nat
  <2>1. SizeIn(sent, c) \in Nat
      BY <1>4, SizeIsNat
  <2> QED BY <1>4, <2>1
<1>7. CASE at = "header"
  <2>1. Wanted = 2 /\ Kind = "header"
      BY <1>7 DEF Wanted, Kind
  <2>2. got[j][2] <= 2
      BY <1>5, <1>6, <1>7, <2>1
  <2> QED BY <2>1, <2>2 DEF KindOf
<1>8. CASE at # "header"
  <2> DEFINE f == sent[c]
             k == o + j
  <2>1. got[j] = <<c, k>> /\ f \in Frames /\ c > 0
      BY <1>5, <1>8
  <2>2. KindOf(got[j]) = IF k <= 2 THEN "header" ELSE IF k <= MaskAt(f) THEN "length"
                         ELSE IF k <= PayloadAt(f) THEN "mask" ELSE "payload"
      BY <2>1 DEF KindOf
  <2>3. /\ LengthSize(f) \in {0, 2, 8} /\ MaskAt(f) = 2 + LengthSize(f)
        /\ PayloadAt(f) = MaskAt(f) + (IF f.masked THEN 4 ELSE 0)
        /\ FrameSize(f) = PayloadAt(f) + f.len /\ f.len \in Nat
      BY <2>1, FrameFacts, Constants
  <2>4. SizeIn(sent, c) = FrameSize(f)
      BY <2>1, <1>4, SizeIsNat
  <2>5. CASE at \in {"payload", "skip"}
    <3>1. o + read_length = FrameSize(f) /\ read_length <= f.len
        BY <1>2, <1>4, <2>4, <2>5 DEF Knows
    <3>2. k > PayloadAt(f) /\ PayloadAt(f) >= MaskAt(f) /\ MaskAt(f) >= 2
          /\ MaskAt(f) \in Nat /\ PayloadAt(f) \in Nat
      <4>1. o >= PayloadAt(f) /\ PayloadAt(f) \in Nat
          BY <1>4, <1>6, <2>3, <3>1
      <4> QED BY <1>6, <2>3, <4>1
    <3>3. Kind = "payload"
        BY <2>5 DEF Kind
    <3> QED BY <1>6, <2>2, <3>2, <3>3
  <2>6. CASE at \in {"length16", "length64"}
    <3>1. o = 2 /\ Wanted = LengthSize(f) /\ Kind = "length"
        BY <1>2, <2>6 DEF Knows, Wanted, Kind
    <3>2. k > 2 /\ k <= MaskAt(f)
        BY <1>6, <2>3, <3>1
    <3> QED BY <1>6, <2>2, <3>1, <3>2
  <2>7. CASE at = "mask"
    <3>1. o = MaskAt(f) /\ f.masked /\ Wanted = 4 /\ Kind = "mask"
        BY <1>2, <2>7 DEF Knows, Wanted, Kind
    <3>2. k > MaskAt(f) /\ MaskAt(f) >= 2 /\ k <= PayloadAt(f)
        BY <1>6, <2>3, <3>1
    <3> QED BY <1>6, <2>2, <2>3, <3>1, <3>2
  <2> QED BY <1>5, <1>8, <2>5, <2>6, <2>7 DEF Places
<1> QED BY <1>7, <1>8

\* What ws_t_read has read is used up when it returns.
LEMMA Advance ==
    ASSUME Types, Whole(sent, Stream), NEW place, Done(place), Wanted > 0,
           NEW c \in 0..Len(sent), NEW o \in 0..SizeIn(sent, c),
           UsedUpTo(sent, Stream, c, o), o + Wanted <= SizeIn(sent, c)
    PROVE  /\ sent' = sent /\ Whole(sent', Stream')
           /\ o + Wanted \in 0..SizeIn(sent', c) /\ UsedUpTo(sent', Stream', c, o + Wanted)
           /\ c \in 0..Len(sent')
           /\ got' \in Wire /\ p_current' \in Wire /\ coming' \in Wire
<1>1. /\ got' = <<>> /\ sent' = sent /\ coming' = coming /\ p_current' = p_current
      /\ Len(got) = Wanted
    BY DEF Done
<1>2. got \in Wire /\ p_current \in Wire /\ coming \in Wire /\ sent \in Seq(Frames)
      /\ Stream \in Wire /\ Wanted \in Nat
    BY StreamIsWire DEF Types
<1>3. PICK s \in Wire, t \in Wire :
          /\ s = Stream /\ t = Cat(Cat(<<>>, p_current), coming)
          /\ Len(t) + Len(got) = Len(s) /\ \A k \in 1..Len(t) : t[k] = s[k + Len(got)]
    BY <1>2, Used DEF Stream
<1>4. Stream' = t
    BY <1>1, <1>3 DEF Stream
<1>5. Len(t) + Wanted = Len(s) /\ \A k \in 1..Len(t) : t[k] = s[k + Wanted]
    BY <1>1, <1>3
<1>6. Whole(sent, t)
    BY <1>2, <1>3, <1>5, WholeAfter
<1>7. o + Wanted \in 0..SizeIn(sent, c) /\ UsedUpTo(sent, t, c, o + Wanted)
  <2>1. Wanted \in Nat \ {0}
      BY <1>2
  <2>2. Whole(sent, s) /\ UsedUpTo(sent, s, c, o)
      BY <1>3
  <2> QED BY <1>2, <1>5, <2>1, <2>2, UsedMore
<1>8. got' \in Wire
    BY <1>1, EmptySeq DEF Wire
<1> QED BY <1>1, <1>2, <1>4, <1>6, <1>7, <1>8

-----------------------------------------------------------------------------
(* The initial state, and steps that leave the reader where it is *)

LEMMA InitIInv ==
    ASSUME Init
    PROVE  IInv
<1>1. Len(sent) = 0 /\ Len(got) = 0 /\ Len(delivered) = 0 /\ <<>> \in Wire
    BY EmptySeq DEF Init, Wire
<1>2. Stream = <<>>
    BY ConcatEmptySeq DEF Init, Stream, Cat
<1>3. Types
  <2>1. read_mask \in Wire /\ Len(read_mask) = 4
      BY DEF Init, NoMask, None, Wire, Pair
  <2>2. sent \in Seq(Frames)
      BY EmptySeq DEF Init
  <2>3. Wanted = 0
      BY DEF Init, Wanted
  <2> QED BY <1>1, <2>1, <2>2, <2>3 DEF Init, Types, TypeOK, Places, Opcodes
<1>4. Messages /\ DeliveredSent /\ InOrder
    BY <1>1 DEF Messages, DeliveredSent, InOrder
<1>5. Whole(sent, Stream)
    BY <1>1, <1>2 DEF Whole, Init
<1>6. Reader
  <2>1. SizeIn(sent, 0) = 0
      BY DEF SizeIn
  <2>2. UsedUpTo(sent, Stream, 0, 0)
      BY <1>1, <1>2, <2>1 DEF UsedUpTo
  <2>3. Knows(0, 0) /\ MaskInPlace(0)
      BY <2>1 DEF Init, Knows, MaskInPlace, InHeader
  <2>4. LastOpInPlace(0)
      BY DEF Init, LastOpInPlace, InHeader, Open
  <2>5. GivenInPlace(0)
    <3>1. Given(Len(delivered)) = None /\ Ends(None)
        BY <1>1 DEF Given, Ends
    <3>2. PlaceIn(0) = 0
        BY DEF PlaceIn
    <3>3. \A i \in None[1] + 1..0 - 1 : Bare(i)
        BY DEF None
    <3> QED BY <3>1, <3>2, <3>3 DEF GivenInPlace, GivenUpTo
  <2>6. 0 \in 0..Len(sent) /\ 0 \in 0..SizeIn(sent, 0)
      BY <1>1, <2>1
  <2> QED BY <2>2, <2>3, <2>4, <2>5, <2>6 DEF Reader
<1> QED BY <1>3, <1>4, <1>5, <1>6 DEF IInv

LEMMA SameFrames ==
    ASSUME sent' = sent
    PROVE  /\ Messages' <=> Messages
           /\ \A i : /\ Bare(i)' <=> Bare(i)
                     /\ Open(i)' <=> Open(i)
           /\ \A i, k : MaskByte(i, k)' = MaskByte(i, k)
BY DEF Messages, Bare, Open, MaskByte

LEMMA SameDelivered ==
    ASSUME sent' = sent, delivered' = delivered
    PROVE  /\ InOrder' <=> InOrder
           /\ DeliveredSent' <=> DeliveredSent
           /\ \A c, k : GivenUpTo(c, k)' <=> GivenUpTo(c, k)
<1>1. \A n : Given(n)' = Given(n)
    BY DEF Given
<1>2. \A place : Ends(place)' <=> Ends(place)
    BY DEF Ends
<1>3. \A i : Bare(i)' <=> Bare(i)
    BY DEF Bare
<1>4. \A a, b : Follows(a, b)' <=> Follows(a, b)
    BY <1>2, <1>3 DEF Follows
<1>5. InOrder' <=> InOrder
    BY <1>1, <1>4 DEF InOrder
<1>6. DeliveredSent' <=> DeliveredSent
    BY DEF DeliveredSent
<1>7. \A c, k : GivenUpTo(c, k)' <=> GivenUpTo(c, k)
    BY <1>1, <1>2, <1>3 DEF GivenUpTo
<1> QED BY <1>5, <1>6, <1>7

LEMMA ReaderWaits ==
    ASSUME IInv, UNCHANGED <<sent, delivered>>, UNCHANGED readerVars, Stream' = Stream,
           Types'
    PROVE  IInv'
<1>1. /\ read_length' = read_length /\ read_mask' = read_mask /\ at' = at
      /\ read_lastOp' = read_lastOp /\ header' = header /\ sent' = sent
    BY DEF readerVars
<1>2. Messages' /\ Whole(sent, Stream)' /\ DeliveredSent' /\ (~Interjections => InOrder')
    BY SameFrames, SameDelivered DEF IInv, Whole, InFrame, SizeIn
<1>3. ASSUME NEW c
      PROVE  /\ MaskInPlace(c) => MaskInPlace(c)'
             /\ LastOpInPlace(c) => LastOpInPlace(c)'
             /\ GivenInPlace(c) => GivenInPlace(c)'
  <2>1. InHeader' <=> InHeader
      BY <1>1 DEF InHeader
  <2>2. MaskInPlace(c) => MaskInPlace(c)'
      BY <1>1, SameFrames DEF MaskInPlace
  <2>3. LastOpInPlace(c) => LastOpInPlace(c)'
      BY <1>1, <2>1, SameFrames DEF LastOpInPlace
  <2>4. PlaceIn(c)' = PlaceIn(c)
      BY <1>1, <2>1, SameFrames DEF PlaceIn
  <2>5. GivenInPlace(c) => GivenInPlace(c)'
      BY <2>4, SameDelivered DEF GivenInPlace
  <2> QED BY <2>2, <2>3, <2>5
<1>4. \A c, o : Knows(c, o) => Knows(c, o)'
    BY <1>1 DEF Knows, InHeader, SizeIn
<1>5. \A c, o : UsedUpTo(sent, Stream, c, o) => UsedUpTo(sent', Stream', c, o)
    BY <1>1
<1>6. Reader'
  <2>1. PICK c \in 0..Len(sent) : \E o \in 0..SizeIn(sent, c) :
            /\ UsedUpTo(sent, Stream, c, o) /\ Knows(c, o) /\ MaskInPlace(c)
            /\ ~Interjections /\ at # "error" => LastOpInPlace(c) /\ GivenInPlace(c)
      BY DEF IInv, Reader
  <2>2. PICK o \in 0..SizeIn(sent, c) :
            /\ UsedUpTo(sent, Stream, c, o) /\ Knows(c, o) /\ MaskInPlace(c)
            /\ ~Interjections /\ at # "error" => LastOpInPlace(c) /\ GivenInPlace(c)
      BY <2>1
  <2>3. /\ UsedUpTo(sent', Stream', c, o) /\ Knows(c, o)' /\ MaskInPlace(c)'
        /\ ~Interjections /\ at' # "error" => LastOpInPlace(c)' /\ GivenInPlace(c)'
      BY <1>1, <1>3, <1>4, <1>5, <2>2
  <2>4. c \in 0..Len(sent') /\ o \in 0..SizeIn(sent', c)
      BY <1>1
  <2> QED BY <2>3, <2>4 DEF Reader
<1> QED BY <1>2, <1>6 DEF IInv

LEMMA TakeIInv ==
    ASSUME IInv, Take
    PROVE  IInv'
<1> DEFINE n == Least(Wanted - Len(got), Len(p_current))
<1>1. /\ Types /\ got \in Wire /\ p_current \in Wire /\ coming \in Wire
      /\ Wanted \in Nat /\ Len(got) \in Nat
    BY StreamIsWire DEF IInv, Types
<1>2. /\ got' = got \o SubSeq(p_current, 1, n)
      /\ p_current' = SubSeq(p_current, n + 1, Len(p_current))
      /\ coming' = coming /\ sent' = sent /\ delivered' = delivered /\ UNCHANGED readerVars
      /\ Len(got) < Wanted
    BY DEF Take
<1>3. n \in 0..Len(p_current) /\ n <= Wanted - Len(got)
    BY <1>1, <1>2, LenProperties DEF Least, Wire
<1> HIDE DEF n
<1>4. got' = Cat(got, SubSeq(p_current, 1, n))
    BY <1>2 DEF Cat
<1>5. /\ got' \in Wire /\ p_current' \in Wire /\ Len(got') = Len(got) + n
      /\ Cat(got', p_current') = Cat(got, p_current)
  <2>1. /\ Cat(got, SubSeq(p_current, 1, n)) \in Wire
        /\ SubSeq(p_current, n + 1, Len(p_current)) \in Wire
        /\ Len(Cat(got, SubSeq(p_current, 1, n))) = Len(got) + n
        /\ Cat(Cat(got, SubSeq(p_current, 1, n)), SubSeq(p_current, n + 1, Len(p_current)))
             = Cat(got, p_current)
      BY <1>1, <1>3, Moved
  <2>2. p_current' = SubSeq(p_current, n + 1, Len(p_current))
      BY <1>2
  <2> QED BY <1>4, <2>1, <2>2
<1>6. Stream' = Stream
    BY <1>2, <1>5 DEF Stream
<1>7. Wanted' = Wanted
    BY <1>2 DEF Wanted, Least, readerVars
<1>8. Len(got') <= Wanted'
    BY <1>1, <1>3, <1>5, <1>7
<1>9. Types'
    BY <1>1, <1>2, <1>5, <1>8 DEF Types, TypeOK, readerVars
<1> QED BY <1>2, <1>6, <1>9, ReaderWaits

LEMMA ArriveIInv ==
    ASSUME IInv, Arrive
    PROVE  IInv'
<1>1. /\ Types /\ got \in Wire /\ p_current \in Wire /\ coming \in Wire
    BY DEF IInv, Types
<1>2. /\ coming # <<>> /\ p_current' = Append(p_current, Head(coming))
      /\ coming' = Tail(coming)
      /\ got' = got /\ sent' = sent /\ delivered' = delivered /\ UNCHANGED readerVars
    BY DEF Arrive
<1>3. /\ p_current' \in Wire /\ coming' \in Wire
      /\ Cat(Cat(got, p_current'), coming') = Cat(Cat(got, p_current), coming)
    BY <1>1, <1>2, Arrived
<1>4. Stream' = Stream
    BY <1>2, <1>3 DEF Stream
<1>5. Wanted' = Wanted
    BY <1>2 DEF Wanted, Least, readerVars
<1>6. Types'
    BY <1>1, <1>2, <1>3, <1>5 DEF Types, TypeOK, readerVars
<1> QED BY <1>2, <1>4, <1>6, ReaderWaits

LEMMA StutterIInv ==
    ASSUME IInv, UNCHANGED vars
    PROVE  IInv'
<1>1. /\ sent' = sent /\ coming' = coming /\ p_current' = p_current /\ got' = got
      /\ delivered' = delivered /\ UNCHANGED readerVars
    BY DEF vars
<1>2. Stream' = Stream
    BY <1>1 DEF Stream
<1>3. Types'
    BY <1>1 DEF IInv, Types, TypeOK, Wanted, Least, readerVars
<1> QED BY <1>1, <1>2, <1>3, ReaderWaits

-----------------------------------------------------------------------------
(* The peer *)

\* A message is open exactly when the last frame is not its end.
LEMMA InMessageIsOpen ==
    ASSUME sent \in Seq(Frames), Messages, ~Interjections
    PROVE  InMessage(sent) <=> Open(Len(sent))
<1>0. Len(sent) \in Nat
    BY LenProperties
<1>1. Len(sent) \in Nat /\ DOMAIN sent = 1..Len(sent)
    BY LenProperties
<1>2. ASSUME Open(Len(sent))
      PROVE  InMessage(sent)
  <2>1. Len(sent) \in DOMAIN sent /\ ~sent[Len(sent)].fin
      BY <1>1, <1>2 DEF Open
  <2>2. \A j \in Len(sent) + 1..Len(sent) : sent[j].op = "control"
      BY <1>1
  <2> QED BY <2>1, <2>2 DEF InMessage
<1>3. ASSUME InMessage(sent)
      PROVE  Open(Len(sent))
  <2>1. PICK i \in 1..Len(sent) :
            ~sent[i].fin /\ \A j \in i + 1..Len(sent) : sent[j].op = "control"
      BY <1>1, <1>3 DEF InMessage
  <2>2. Open(i)
      BY <1>1, <2>1 DEF Open
  <2>3. CASE i = Len(sent)
      BY <2>2, <2>3
  <2>4. CASE i # Len(sent)
    <3>1. i + 1 \in 1..Len(sent) /\ (i + 1) - 1 = i /\ i + 1 \in i + 1..Len(sent)
      <4>1. i \in Nat /\ i < Len(sent) /\ Len(sent) \in Nat
          BY <1>0, <2>1, <2>4
      <4> QED BY <4>1
    <3>2. sent[i + 1].op = "control"
        BY <2>1, <3>1
    <3>3. sent[i + 1].op = "continuation"
        BY <2>2, <3>1 DEF Messages
    <3> QED BY <3>2, <3>3
  <2> QED BY <2>3, <2>4
<1> QED BY <1>2, <1>3

LEMMA SendIInv ==
    ASSUME IInv, Send
    PROVE  IInv'
<1>1. PICK frame \in Frames :
          /\ Legal(sent, frame) /\ sent' = Append(sent, frame)
          /\ coming' = Bytes(frame, Len(sent'))
    BY DEF Send
<1>2. /\ coming = <<>> /\ p_current' = p_current /\ got' = got /\ delivered' = delivered
      /\ read_length' = read_length /\ read_mask' = read_mask /\ at' = at
      /\ read_lastOp' = read_lastOp /\ header' = header /\ size' = size /\ align' = align
    BY DEF Send, readerVars
<1>3. /\ Types /\ got \in Wire /\ p_current \in Wire /\ coming \in Wire
      /\ Stream \in Wire /\ sent \in Seq(Frames) /\ Len(sent) \in Nat
      /\ Messages /\ Whole(sent, Stream)
    BY StreamIsWire DEF IInv, Types
<1>4. /\ sent' \in Seq(Frames) /\ Len(sent') = Len(sent) + 1
      /\ sent'[Len(sent) + 1] = frame
      /\ \A i \in 1..Len(sent) : sent'[i] = sent[i]
    BY <1>1, <1>3, AppendProperties
<1>5. /\ Bytes(frame, Len(sent) + 1) \in Wire
      /\ coming' = Bytes(frame, Len(sent) + 1)
    BY <1>1, <1>3, <1>4, BytesAre
<1>6. Stream = Cat(got, p_current) /\ Cat(got, p_current) \in Wire
  <2>1. Cat(got, p_current) \in Wire
      BY <1>3, CatWire
  <2>2. \A s \in Wire : Cat(s, <<>>) = s
      BY ConcatEmptySeq DEF Wire, Cat
  <2> QED BY <1>2, <2>1, <2>2 DEF Stream
<1>7. Stream' = Cat(Stream, Bytes(frame, Len(sent) + 1)) /\ Stream' \in Wire
  <2>1. Stream' = Cat(Cat(got, p_current), coming')
      BY <1>2 DEF Stream
  <2> QED BY <1>3, <1>5, <1>6, <2>1, CatWire
<1>8. /\ Whole(sent', Stream')
      /\ \A c \in 0..Len(sent) : \A o \in 0..SizeIn(sent, c) :
           UsedUpTo(sent, Stream, c, o) => UsedUpTo(sent', Stream', c, o)
    BY <1>1, <1>3, <1>7, StreamGrows
<1>9. /\ \A i \in 1..Len(sent) : /\ Bare(i)' <=> Bare(i)
                                 /\ \A k : MaskByte(i, k)' = MaskByte(i, k)
      /\ \A i \in 0..Len(sent) : /\ Open(i)' <=> Open(i)
                                 /\ SizeIn(sent', i) = SizeIn(sent, i)
    BY <1>3, <1>4 DEF Bare, MaskByte, Open, SizeIn
<1>10. Types'
    BY <1>2, <1>3, <1>4, <1>5 DEF Types, TypeOK, Wanted, Least
<1>11. Messages'
  <2> SUFFICES ASSUME NEW i \in 1..Len(sent')
               PROVE  /\ sent'[i].op = "control" => sent'[i].fin
                      /\ ~Interjections => (sent'[i].op = "continuation" <=> Open(i - 1)')
      BY DEF Messages
  <2>1. i - 1 \in 0..Len(sent)
      BY <1>3, <1>4
  <2>2. CASE i <= Len(sent)
      BY <1>3, <1>4, <1>9, <2>1, <2>2 DEF Messages
  <2>3. CASE i = Len(sent) + 1
    <3>1. sent'[i] = frame /\ i - 1 = Len(sent)
        BY <1>3, <1>4, <2>3
    <3>2. frame.op = "control" => frame.fin
        BY <1>1 DEF Legal
    <3>3. ~Interjections => (frame.op = "continuation" <=> InMessage(sent))
        BY <1>1 DEF Legal
    <3>4. ~Interjections => (frame.op = "continuation" <=> Open(Len(sent)))
        BY <1>3, <3>3, InMessageIsOpen
    <3> QED BY <1>3, <1>9, <2>1, <3>1, <3>2, <3>4
  <2> QED BY <1>3, <1>4, <2>2, <2>3
<1>12. DeliveredSent' /\ (~Interjections => InOrder')
  <2>1. DeliveredSent /\ (~Interjections => InOrder)
      BY DEF IInv
  <2>2. delivered \in Wire /\ Len(delivered) \in Nat
      BY <1>3, LenProperties DEF Types, Wire
  <2>3. DeliveredSent'
    <3> SUFFICES ASSUME NEW n \in 1..Len(delivered)
                 PROVE  /\ delivered[n][1] \in 1..Len(sent')
                        /\ delivered[n][2] \in 1..sent'[delivered[n][1]].len
        BY <1>2 DEF DeliveredSent
    <3>1. /\ delivered[n][1] \in 1..Len(sent)
          /\ delivered[n][2] \in 1..sent[delivered[n][1]].len
        BY <2>1 DEF DeliveredSent
    <3> QED BY <1>3, <1>4, <3>1
  <2>4. ASSUME ~Interjections
        PROVE  InOrder'
    <3> SUFFICES ASSUME NEW n \in 1..Len(delivered)
                 PROVE  Follows(Given(n - 1), delivered[n])'
        BY <1>2 DEF InOrder
    <3>0. PICK a, b : a = Given(n - 1) /\ b = delivered[n]
        OBVIOUS
    <3>1. Follows(a, b)
        BY <2>1, <2>4, <3>0 DEF InOrder
    <3>2. a = None \/ a[1] \in 1..Len(sent)
      <4>1. CASE n = 1
          BY <3>0, <4>1 DEF Given
      <4>2. CASE n # 1
        <5>1. n - 1 \in 1..Len(delivered) /\ n - 1 # 0
            BY <2>2, <4>2
        <5> QED BY <2>1, <3>0, <5>1 DEF DeliveredSent, Given
      <4> QED BY <4>1, <4>2
    <3>3. Given(n - 1)' = a /\ delivered'[n] = b
        BY <1>2, <3>0 DEF Given
    <3>4. a[1] \in 0..Len(sent)
        BY <1>3, <3>2 DEF None
    <3>5. Ends(a)' <=> Ends(a)
        BY <1>4, <3>2 DEF Ends
    <3>6. CASE ~Ends(a) /\ b = <<a[1], a[2] + 1>>
        BY <3>3, <3>5, <3>6 DEF Follows
    <3>7. CASE /\ Ends(a) /\ b[2] = 1
               /\ b[1] \in a[1] + 1..Len(sent) /\ ~Bare(b[1])
               /\ \A i \in a[1] + 1..b[1] - 1 : Bare(i)
      <4>1. b[1] \in 1..Len(sent) /\ b[1] \in a[1] + 1..Len(sent')
          BY <1>3, <1>4, <3>4, <3>7
      <4>2. \A i \in a[1] + 1..b[1] - 1 : i \in 1..Len(sent)
          BY <1>3, <3>4, <4>1
      <4>3. ~Bare(b[1])' /\ \A i \in a[1] + 1..b[1] - 1 : Bare(i)'
          BY <1>9, <3>7, <4>1, <4>2
      <4> QED BY <3>3, <3>5, <3>7, <4>1, <4>3 DEF Follows
    <3> QED BY <3>1, <3>6, <3>7 DEF Follows
  <2> QED BY <2>3, <2>4
<1>13. Reader'
  <2>1. PICK c \in 0..Len(sent) : \E o \in 0..SizeIn(sent, c) :
            /\ UsedUpTo(sent, Stream, c, o) /\ Knows(c, o) /\ MaskInPlace(c)
            /\ ~Interjections /\ at # "error" => LastOpInPlace(c) /\ GivenInPlace(c)
      BY DEF IInv, Reader
  <2>2. PICK o \in 0..SizeIn(sent, c) :
            /\ UsedUpTo(sent, Stream, c, o) /\ Knows(c, o) /\ MaskInPlace(c)
            /\ ~Interjections /\ at # "error" => LastOpInPlace(c) /\ GivenInPlace(c)
      BY <2>1
  <2>3. /\ c \in 0..Len(sent') /\ SizeIn(sent', c) = SizeIn(sent, c)
        /\ c > 0 => c \in 1..Len(sent) /\ sent'[c] = sent[c]
      BY <1>3, <1>4, <1>9
  <2>4. InHeader' <=> InHeader
      BY <1>2 DEF InHeader
  <2>6. /\ InHeader => c > 0
        /\ at \in {"idle", "payload", "skip"} /\ read_length > 0 => c > 0
        /\ at = "skip" => read_length > 0
    <3>1. read_length \in Nat
        BY <1>3 DEF Types, TypeOK
    <3> QED BY <2>2, <3>1 DEF Knows
  <2>5. Knows(c, o)'
    <3>1. CASE c = 0
        BY <1>2, <2>2, <2>3, <2>4, <2>6, <3>1 DEF Knows, InHeader
    <3>2. CASE c > 0
        BY <1>2, <2>2, <2>3, <2>4, <3>2 DEF Knows, InHeader
    <3> QED BY <1>3, <3>1, <3>2
  <2>7. MaskInPlace(c)'
      BY <1>2, <1>9, <2>2, <2>3, <2>6 DEF MaskInPlace, InHeader
  <2>8. ASSUME ~Interjections, at # "error"
        PROVE  LastOpInPlace(c)' /\ GivenInPlace(c)'
    <3>1. LastOpInPlace(c) /\ GivenInPlace(c)
        BY <2>2, <2>8
    <3>2. (IF InHeader THEN c - 1 ELSE c) \in 0..Len(sent)
        BY <1>3, <2>6
    <3>3. LastOpInPlace(c)'
        BY <1>2, <1>9, <2>3, <2>4, <2>6, <3>1, <3>2 DEF LastOpInPlace
    <3>4. PlaceIn(c)' = PlaceIn(c)
        BY <1>2, <1>9, <2>3, <2>4 DEF PlaceIn
    <3> DEFINE last == Given(Len(delivered))
    <3>5. last' = last /\ (last = None \/ last[1] \in 1..Len(sent))
      <4>1. Len(delivered) \in Nat
          BY <1>3, LenProperties DEF Types, Wire
      <4> QED BY <1>2, <4>1 DEF Given, IInv, DeliveredSent
    <3>6. last[1] \in 0..Len(sent)
        BY <1>3, <3>5 DEF None
    <3>7. Ends(last)' <=> Ends(last)
        BY <1>4, <3>5 DEF Ends
    <3>8. \A i \in last[1] + 1..c - 1 : Bare(i)' <=> Bare(i)
      <4>1. \A i \in last[1] + 1..c - 1 : i \in 1..Len(sent)
          BY <1>3, <3>6
      <4> QED BY <1>9, <4>1
    <3> HIDE DEF last
    <3>9. GivenInPlace(c)'
        BY <3>1, <3>4, <3>5, <3>7, <3>8 DEF GivenInPlace, GivenUpTo, last
    <3> QED BY <3>3, <3>9
  <2>9. UsedUpTo(sent', Stream', c, o)
      BY <1>8, <2>2
  <2> QED BY <1>2, <2>3, <2>5, <2>7, <2>8, <2>9 DEF Reader
<1> QED BY <1>8, <1>10, <1>11, <1>12, <1>13 DEF IInv

-----------------------------------------------------------------------------
(* The headers *)

\* What is left to show for a step that gives nothing to the application
LEMMA NothingGiven ==
    ASSUME IInv, sent' = sent, delivered' = delivered, Types', Whole(sent', Stream'),
           Reader'
    PROVE  IInv'
<1>1. Messages' /\ DeliveredSent' /\ (~Interjections => InOrder')
    BY SameFrames, SameDelivered DEF IInv
<1> QED BY <1>1 DEF IInv

LEMMA ReadIInv ==
    ASSUME IInv, Read
    PROVE  IInv'
<1>1. /\ at = "idle" /\ size' \in Sizes /\ align' \in 0..3 /\ at' = Onward(size', read_length)
      /\ sent' = sent /\ coming' = coming /\ p_current' = p_current /\ got' = got
      /\ delivered' = delivered /\ read_length' = read_length /\ read_mask' = read_mask
      /\ read_lastOp' = read_lastOp /\ header' = header
    BY DEF Read
<1>2. Types /\ Whole(sent, Stream) /\ read_length \in Nat /\ sent \in Seq(Frames)
    BY DEF IInv, Types, TypeOK
<1>3. PICK c \in 0..Len(sent) : \E o \in 0..SizeIn(sent, c) :
          /\ UsedUpTo(sent, Stream, c, o) /\ Knows(c, o) /\ MaskInPlace(c)
          /\ ~Interjections /\ at # "error" => LastOpInPlace(c) /\ GivenInPlace(c)
    BY DEF IInv, Reader
<1>4. PICK o \in 0..SizeIn(sent, c) :
          /\ UsedUpTo(sent, Stream, c, o) /\ Knows(c, o) /\ MaskInPlace(c)
          /\ ~Interjections /\ at # "error" => LastOpInPlace(c) /\ GivenInPlace(c)
    BY <1>3
<1>5. got = <<>>
    BY <1>1, <1>2, <1>4, WhatIsRead DEF Reading
<1>6. size' \in Nat \ {0}
    BY <1>1, SizesAssumption
<1>7. at' = IF read_length > 0 THEN "payload" ELSE "header"
    BY <1>1, <1>6 DEF Onward
<1>8. Types'
  <2>1. Wanted' \in Nat /\ Len(got') = 0
      BY <1>1, <1>2, <1>5, <1>6, <1>7 DEF Wanted, Least
  <2> QED BY <1>1, <1>2, <1>6, <1>7, <2>1 DEF Types, TypeOK, Places
<1>9. Stream' = Stream
    BY <1>1 DEF Stream
<1>10. ~InHeader /\ ~InHeader'
    BY <1>1, <1>7 DEF InHeader
<1>11. Knows(c, o)'
    BY <1>1, <1>2, <1>4, <1>7, <1>10 DEF Knows, SizeIn
<1>12. MaskInPlace(c)'
    BY <1>1, <1>4, SameFrames DEF MaskInPlace
<1>13. ASSUME ~Interjections
       PROVE  LastOpInPlace(c)' /\ GivenInPlace(c)'
  <2>1. LastOpInPlace(c) /\ GivenInPlace(c)
      BY <1>1, <1>4, <1>13
  <2>2. LastOpInPlace(c)'
      BY <1>1, <1>7, <1>10, <2>1, SameFrames DEF LastOpInPlace
  <2>3. PlaceIn(c)' = PlaceIn(c)
      BY <1>1, <1>10, SameFrames DEF PlaceIn
  <2> QED BY <1>1, <2>1, <2>2, <2>3, SameDelivered DEF GivenInPlace
<1>14. Reader'
    BY <1>1, <1>4, <1>9, <1>11, <1>12, <1>13 DEF Reader
<1> QED BY <1>1, <1>2, <1>8, <1>9, <1>14, NothingGiven

\* Nothing of the next frame has been given when all of this one has.
LEMMA GivenNext ==
    ASSUME Types, DeliveredSent, NEW c \in 0..Len(sent),
           GivenUpTo(c, IF c = 0 \/ Bare(c) THEN 0 ELSE sent[c].len)
    PROVE  GivenUpTo(c + 1, 0)
<1> DEFINE last == Given(Len(delivered))
<1>1. sent \in Seq(Frames) /\ Len(sent) \in Nat /\ c \in Nat
    BY StreamIsWire
<1>2. last = None \/ last[1] \in 1..Len(sent)
  <2>1. Len(delivered) \in Nat
      BY LenProperties DEF Types, Wire
  <2> QED BY <2>1 DEF Given, DeliveredSent
<1>3. last[1] \in Nat
    BY <1>1, <1>2 DEF None
<1>4. c > 0 => sent[c].len \in Nat
    BY <1>1, SizeIsNat, Constants
<1> SUFFICES /\ Ends(last)
             /\ last[1] < c + 1 \/ last = None
             /\ \A i \in last[1] + 1..c : Bare(i)
    BY <1>1 DEF GivenUpTo
<1>5. CASE c = 0 \/ Bare(c)
  <2>1. /\ Ends(last)
        /\ last[1] < c \/ last = None
        /\ \A i \in last[1] + 1..c - 1 : Bare(i)
      BY <1>5 DEF GivenUpTo
  <2> HIDE DEF last
  <2>2. ASSUME NEW i \in last[1] + 1..c
        PROVE  Bare(i)
    <3>1. CASE i = c
        BY <1>1, <1>3, <1>5, <3>1
    <3>2. CASE i # c
      <4>1. i \in last[1] + 1..c - 1
          BY <1>1, <1>3, <3>2
      <4> QED BY <2>1, <4>1
    <3> QED BY <3>1, <3>2
  <2>3. last[1] < c + 1 \/ last = None
      BY <1>1, <1>3, <2>1
  <2> QED BY <2>1, <2>2, <2>3
<1>6. CASE ~(c = 0 \/ Bare(c))
  <2>1. sent[c].len > 0
      BY <1>1, <1>4, <1>6 DEF Bare
  <2>2. last = <<c, sent[c].len>>
      BY <1>6, <2>1 DEF GivenUpTo
  <2> HIDE DEF last
  <2>3. Ends(last)
      BY <2>2 DEF Ends
  <2>4. \A i \in last[1] + 1..c : Bare(i)
      BY <1>1, <2>2
  <2> QED BY <1>1, <2>2, <2>3, <2>4
<1> QED BY <1>5, <1>6

\* With the length known, the mask is next, or it is none.
LEMMA AfterLength ==
    ASSUME Types, sent' = sent, NEW c \in 1..Len(sent), read_length' = sent[c].len,
           MaskNext(sent[c].masked),
           header' = [op |-> sent[c].op, fin |-> sent[c].fin, masked |-> sent[c].masked]
    PROVE  /\ Knows(c, MaskAt(sent[c]))' /\ MaskInPlace(c)' /\ InHeader'
           /\ read_mask' \in Wire /\ Len(read_mask') = 4 /\ at' \in {"mask", "opcode"}
           /\ read_length' \in Nat
<1> DEFINE f == sent[c]
<1>1. /\ f \in Frames /\ f.len \in Nat /\ f.masked \in BOOLEAN /\ c > 0
      /\ PayloadAt(f) = MaskAt(f) + (IF f.masked THEN 4 ELSE 0) /\ MaskAt(f) \in Nat
  <2>1. f \in Frames /\ c > 0
      BY StreamIsWire, SizeIsNat
  <2> QED BY <2>1, FrameFacts, Constants
<1>2. read_mask \in Wire /\ Len(read_mask) = 4
    BY DEF Types, TypeOK
<1>3. CASE f.masked
  <2>1. at' = "mask" /\ read_mask' = read_mask
      BY <1>3 DEF MaskNext
  <2>2. Knows(c, MaskAt(f))'
      BY <1>1, <1>3, <2>1 DEF Knows, InHeader
  <2>3. MaskInPlace(c)' /\ InHeader'
      BY <2>1 DEF MaskInPlace, InHeader
  <2> QED BY <1>1, <1>2, <2>1, <2>2, <2>3
<1>4. CASE ~f.masked
  <2>1. at' = "opcode" /\ read_mask' = NoMask
      BY <1>4 DEF MaskNext
  <2>2. PayloadAt(f) = MaskAt(f)
      BY <1>1, <1>4
  <2>3. Knows(c, MaskAt(f))' /\ InHeader'
      BY <1>1, <2>1, <2>2 DEF Knows, InHeader
  <2>4. MaskInPlace(c)'
      BY <1>4, <2>1 DEF MaskInPlace, MaskByte, NoMask
  <2>5. read_mask' \in Wire /\ Len(read_mask') = 4
      BY <2>1 DEF NoMask, None, Wire, Pair
  <2> QED BY <1>1, <2>1, <2>3, <2>4, <2>5
<1> QED BY <1>1, <1>3, <1>4


LEMMA DoneTypes ==
    ASSUME Types, got' = <<>>, UNCHANGED <<sent, coming, p_current, delivered, size, align>>,
           at' \in Places, at' \notin {"idle", "error"} => size > 0,
           read_length' \in Nat, read_mask' \in Wire, Len(read_mask') = 4,
           read_lastOp' \in Opcodes \ {"control"}
    PROVE  Types'
<1>1. size' \in Nat /\ align' \in 0..3
    BY DEF Types, TypeOK
<1>2. Wanted' \in Nat
    BY <1>1 DEF Wanted, Least
<1>3. Len(got') = 0 /\ got' \in Wire
    BY EmptySeq DEF Wire
<1>4. Len(got') <= Wanted'
    BY <1>2, <1>3
<1>5. sent' \in Seq(Frames) /\ size' \in Nat /\ align' \in 0..3
    BY <1>1 DEF Types, TypeOK
<1>6. TypeOK'
    BY <1>4, <1>5 DEF TypeOK
<1>7. p_current' \in Wire /\ coming' \in Wire /\ delivered' \in Wire
    BY DEF Types
<1> QED BY <1>3, <1>6, <1>7 DEF Types

\* The length of frame c has been read.
LEMMA LengthIInv ==
    ASSUME IInv, at \in {"length16", "length64"}, Done(at),
           UNCHANGED <<delivered, header, size, align, read_lastOp>>,
           MaskNext(header.masked),
           NEW c \in 0..Len(sent), NEW o \in 0..SizeIn(sent, c),
           UsedUpTo(sent, Stream, c, o), Knows(c, o),
           ~Interjections => LastOpInPlace(c) /\ GivenInPlace(c),
           read_length' = sent[c].len
    PROVE  IInv'
<1> DEFINE f == sent[c]
<1>1. Types /\ Whole(sent, Stream) /\ sent \in Seq(Frames) /\ Len(sent) \in Nat
    BY StreamIsWire DEF IInv
<1>2. /\ got' = <<>> /\ sent' = sent /\ coming' = coming /\ p_current' = p_current
      /\ delivered' = delivered /\ size' = size /\ align' = align
      /\ header' = header /\ read_lastOp' = read_lastOp
    BY DEF Done
<1>3. /\ c > 0 /\ InHeader /\ o = 2 /\ Wanted = LengthSize(f)
      /\ header = [op |-> f.op, fin |-> f.fin, masked |-> f.masked]
    BY DEF Knows, InHeader, Wanted
<1>4. f \in Frames /\ MaskAt(f) = o + Wanted /\ Wanted > 0 /\ c \in 1..Len(sent)
  <2>1. f \in Frames /\ c \in 1..Len(sent)
      BY <1>1, <1>3, SizeIsNat
  <2>2. Wanted > 0
      BY DEF Wanted
  <2> QED BY <1>3, <2>1, <2>2, FrameFacts
<1>5. o + Wanted <= SizeIn(sent, c)
    BY <1>1, WhatIsRead DEF Reading
<1>6. /\ Whole(sent', Stream') /\ MaskAt(f) \in 0..SizeIn(sent', c)
      /\ UsedUpTo(sent', Stream', c, MaskAt(f))
    BY <1>1, <1>4, <1>5, Advance
<1>7. /\ Knows(c, MaskAt(f))' /\ MaskInPlace(c)' /\ InHeader'
      /\ read_mask' \in Wire /\ Len(read_mask') = 4 /\ at' \in {"mask", "opcode"}
      /\ read_length' \in Nat
    BY <1>1, <1>2, <1>3, <1>4, AfterLength
<1>8. Types'
  <2>1. size > 0 /\ at' \in Places /\ read_lastOp' \in Opcodes \ {"control"}
      BY <1>1, <1>2, <1>7 DEF Types, TypeOK, Places
  <2> QED BY <1>1, <1>2, <1>7, <2>1, DoneTypes
<1>9. ASSUME ~Interjections
      PROVE  LastOpInPlace(c)' /\ GivenInPlace(c)'
  <2>1. LastOpInPlace(c)'
      BY <1>2, <1>3, <1>7, <1>9, SameFrames DEF LastOpInPlace
  <2>2. PlaceIn(c) = 0 /\ PlaceIn(c)' = 0
      BY <1>3, <1>7 DEF PlaceIn
  <2> QED BY <1>2, <1>9, <2>1, <2>2, SameDelivered DEF GivenInPlace
<1>10. Reader'
    BY <1>2, <1>6, <1>7, <1>9 DEF Reader
<1> QED BY <1>2, <1>6, <1>8, <1>10, NothingGiven

LEMMA Length16IInv ==
    ASSUME IInv, Length16
    PROVE  IInv'
<1>1. /\ at = "length16" /\ Done(at) /\ UNCHANGED <<delivered, header, size, align, read_lastOp>>
      /\ MaskNext(header.masked) /\ read_length' = Ntohs(Value(1), Value(2))
      /\ Len(got) = 2
    BY DEF Length16, Done, Wanted
<1>2. Types /\ Whole(sent, Stream) /\ sent \in Seq(Frames)
    BY StreamIsWire DEF IInv
<1>3. PICK c \in 0..Len(sent) : \E o \in 0..SizeIn(sent, c) :
          /\ UsedUpTo(sent, Stream, c, o) /\ Knows(c, o)
          /\ ~Interjections => LastOpInPlace(c) /\ GivenInPlace(c)
    BY <1>1 DEF IInv, Reader
<1>4. PICK o \in 0..SizeIn(sent, c) :
          /\ UsedUpTo(sent, Stream, c, o) /\ Knows(c, o)
          /\ ~Interjections => LastOpInPlace(c) /\ GivenInPlace(c)
    BY <1>3
<1>5. o = 2 /\ LengthSize(sent[c]) = 2
    BY <1>1, <1>4 DEF Knows
<1>6. \A j \in 1..2 : sent[c] \in Frames /\ got[j] = <<c, 2 + j>>
    BY <1>1, <1>2, <1>4, <1>5, GotBytes
<1>7. \A j \in 1..2 : Value(j) = LengthByte(sent[c], j)
  <2> SUFFICES ASSUME NEW j \in 1..2
               PROVE  Value(j) = LengthByte(sent[c], j)
      OBVIOUS
  <2>1. got[j] = <<c, 2 + j>> /\ (2 + j) - 2 = j
      BY <1>6
  <2> QED BY <2>1 DEF Value
<1>8. read_length' = sent[c].len
    BY <1>1, <1>5, <1>6, <1>7, LengthOf2
<1> QED BY <1>1, <1>4, <1>8, LengthIInv

LEMMA Length64IInv ==
    ASSUME IInv, Length64
    PROVE  IInv'
<1>1. /\ at = "length64" /\ Done(at) /\ UNCHANGED <<delivered, header, size, align, read_lastOp>>
      /\ MaskNext(header.masked)
      /\ read_length' = Ntohl(Value(1), Value(2), Value(3), Value(4)) * Word
                        + Ntohl(Value(5), Value(6), Value(7), Value(8))
      /\ Len(got) = 8
    BY DEF Length64, Done, Wanted
<1>2. Types /\ Whole(sent, Stream) /\ sent \in Seq(Frames)
    BY StreamIsWire DEF IInv
<1>3. PICK c \in 0..Len(sent) : \E o \in 0..SizeIn(sent, c) :
          /\ UsedUpTo(sent, Stream, c, o) /\ Knows(c, o)
          /\ ~Interjections => LastOpInPlace(c) /\ GivenInPlace(c)
    BY <1>1 DEF IInv, Reader
<1>4. PICK o \in 0..SizeIn(sent, c) :
          /\ UsedUpTo(sent, Stream, c, o) /\ Knows(c, o)
          /\ ~Interjections => LastOpInPlace(c) /\ GivenInPlace(c)
    BY <1>3
<1>5. o = 2 /\ LengthSize(sent[c]) = 8
    BY <1>1, <1>4 DEF Knows
<1>6. \A j \in 1..8 : sent[c] \in Frames /\ got[j] = <<c, 2 + j>>
    BY <1>1, <1>2, <1>4, <1>5, GotBytes
<1>7. \A j \in 1..8 : Value(j) = LengthByte(sent[c], j)
  <2> SUFFICES ASSUME NEW j \in 1..8
               PROVE  Value(j) = LengthByte(sent[c], j)
      OBVIOUS
  <2>1. got[j] = <<c, 2 + j>> /\ (2 + j) - 2 = j
      BY <1>6
  <2> QED BY <2>1 DEF Value
<1>8. read_length' = sent[c].len
  <2>1. /\ Value(1) = LengthByte(sent[c], 1) /\ Value(2) = LengthByte(sent[c], 2)
        /\ Value(3) = LengthByte(sent[c], 3) /\ Value(4) = LengthByte(sent[c], 4)
        /\ Value(5) = LengthByte(sent[c], 5) /\ Value(6) = LengthByte(sent[c], 6)
        /\ Value(7) = LengthByte(sent[c], 7) /\ Value(8) = LengthByte(sent[c], 8)
      BY <1>7
  <2>2. sent[c] \in Frames
      BY <1>6
  <2> HIDE <1>7
  <2> QED BY <1>1, <1>5, <2>1, <2>2, LengthOf8
<1> QED BY <1>1, <1>4, <1>8, LengthIInv

LEMMA HeaderIInv ==
    ASSUME IInv, Header
    PROVE  IInv'
<1>1. /\ Done("header") /\ at = "header" /\ Len(got) = 2 /\ Wanted = 2
      /\ got' = <<>> /\ sent' = sent /\ coming' = coming /\ p_current' = p_current
      /\ delivered' = delivered /\ size' = size /\ align' = align
      /\ read_lastOp' = read_lastOp
    BY DEF Header, Done, Wanted
<1>2. Types /\ Whole(sent, Stream) /\ sent \in Seq(Frames) /\ Len(sent) \in Nat
      /\ DeliveredSent /\ read_length \in Nat
    BY StreamIsWire DEF IInv, Types, TypeOK
<1>3. PICK b \in 0..Len(sent) : \E o \in 0..SizeIn(sent, b) :
          /\ UsedUpTo(sent, Stream, b, o) /\ Knows(b, o)
          /\ ~Interjections => LastOpInPlace(b) /\ GivenInPlace(b)
    BY <1>1 DEF IInv, Reader
<1>4. PICK o \in 0..SizeIn(sent, b) :
          /\ UsedUpTo(sent, Stream, b, o) /\ Knows(b, o)
          /\ ~Interjections => LastOpInPlace(b) /\ GivenInPlace(b)
    BY <1>3
<1>5. PICK c \in Nat : c = b + 1
    BY <1>2
<1>6. read_length = 0 /\ ~InHeader /\ got # <<>>
  <2>1. got # <<>>
      BY <1>1, EmptySeq
  <2> QED BY <1>1, <1>4, <2>1 DEF Knows, InHeader
<1>7. /\ c \in 1..Len(sent) /\ UsedUpTo(sent, Stream, c, 0) /\ 0 + Wanted <= SizeIn(sent, c)
    BY <1>1, <1>2, <1>4, <1>5, <1>6, WhatIsRead DEF Reading
<1> DEFINE f == sent[c]
<1>8. f \in Frames /\ got[1] = <<c, 1>> /\ got[2] = <<c, 2>>
    BY <1>1, <1>2, <1>4, <1>5, GotBytes
<1>9. /\ Whole(sent', Stream') /\ 2 \in 0..SizeIn(sent', c) /\ UsedUpTo(sent', Stream', c, 2)
  <2>1. 0 \in 0..SizeIn(sent, c) /\ c \in 0..Len(sent)
      BY <1>1, <1>7, SizeIsNat, <1>2
  <2>2. 0 + Wanted = 2 /\ Wanted > 0
      BY <1>1
  <2> QED BY <1>1, <1>2, <1>7, <2>1, <2>2, Advance
<1>10. /\ header' = [op |-> f.op, fin |-> f.fin, masked |-> f.masked]
       /\ CASE Length7(f) = Use16Bit ->
                  at' = "length16" /\ UNCHANGED <<read_length, read_mask>>
            [] Length7(f) = Use64Bit ->
                  at' = "length64" /\ UNCHANGED <<read_length, read_mask>>
            [] OTHER -> read_length' = Length7(f) /\ MaskNext(f.masked)
  <2>1. got[1][1] = c /\ got[2][1] = c
      BY <1>8
  <2> QED BY <2>1 DEF Header
<1>11. /\ Knows(c, 2)' /\ MaskInPlace(c)' /\ InHeader'
       /\ read_mask' \in Wire /\ Len(read_mask') = 4 /\ read_length' \in Nat
  <2>1. read_mask \in Wire /\ Len(read_mask) = 4
      BY <1>2 DEF Types, TypeOK
  <2>2. c > 0
      BY <1>7
  <2>3. CASE Length7(f) = Use16Bit
    <3>1. LengthSize(f) = 2
        BY <1>8, <2>3, SecondByte
    <3>2. at' = "length16" /\ UNCHANGED <<read_length, read_mask>>
        BY <1>10, <2>3, Constants DEF Use64Bit
    <3>3. Knows(c, 2)'
        BY <1>1, <1>10, <2>2, <3>1, <3>2 DEF Knows, InHeader
    <3>4. MaskInPlace(c)' /\ InHeader'
        BY <3>2 DEF MaskInPlace, InHeader
    <3> QED BY <1>2, <2>1, <3>2, <3>3, <3>4
  <2>4. CASE Length7(f) # Use16Bit /\ Length7(f) = Use64Bit
    <3>1. LengthSize(f) = 8
        BY <1>8, <2>4, SecondByte
    <3>2. at' = "length64" /\ UNCHANGED <<read_length, read_mask>>
        BY <1>10, <2>4, Constants DEF Use64Bit
    <3>3. Knows(c, 2)'
        BY <1>1, <1>10, <2>2, <3>1, <3>2 DEF Knows, InHeader
    <3>4. MaskInPlace(c)' /\ InHeader'
        BY <3>2 DEF MaskInPlace, InHeader
    <3> QED BY <1>2, <2>1, <3>2, <3>3, <3>4
  <2>5. CASE Length7(f) # Use16Bit /\ Length7(f) # Use64Bit
    <3>1. LengthSize(f) = 0 /\ Length7(f) = f.len
        BY <1>8, <2>5, SecondByte
    <3>2. read_length' = f.len /\ MaskNext(f.masked)
        BY <1>10, <2>5, <3>1
    <3>3. MaskAt(f) = 2
        BY <1>8, <3>1, FrameFacts
    <3> QED BY <1>1, <1>2, <1>7, <1>10, <3>2, <3>3, AfterLength
  <2> QED BY <2>3, <2>4, <2>5
<1>12. Types'
  <2>1. size > 0 /\ at' \in Places /\ read_lastOp' \in Opcodes \ {"control"}
      BY <1>1, <1>2, <1>11 DEF Types, TypeOK, Places, InHeader
  <2> QED BY <1>1, <1>2, <1>11, <2>1, DoneTypes
<1>13. ASSUME ~Interjections
       PROVE  LastOpInPlace(c)' /\ GivenInPlace(c)'
  <2>1. LastOpInPlace(b) /\ GivenInPlace(b)
      BY <1>4, <1>13
  <2>2. c - 1 = b
      BY <1>2, <1>5
  <2>3. IF Open(b) THEN read_lastOp \in {"text", "data"} ELSE read_lastOp = "continuation"
      BY <1>6, <2>1 DEF LastOpInPlace
  <2>4. at' \notin {"skip", "idle", "payload"}
      BY <1>11 DEF InHeader
  <2>5. LastOpInPlace(c)'
      BY <1>1, <1>11, <2>2, <2>3, <2>4, SameFrames DEF LastOpInPlace
  <2>6. PlaceIn(b) = IF b = 0 \/ Bare(b) THEN 0 ELSE sent[b].len
    <3>1. b # 0 => sent[b].len \in Nat
        BY <1>2, SizeIsNat, Constants
    <3> QED BY <1>6, <3>1 DEF PlaceIn
  <2>7. GivenUpTo(c, 0)
      BY <1>2, <1>5, <2>1, <2>6, GivenNext DEF GivenInPlace
  <2>8. PlaceIn(c)' = 0
      BY <1>11 DEF PlaceIn
  <2> QED BY <1>1, <2>5, <2>7, <2>8, SameDelivered DEF GivenInPlace
<1>14. Reader'
  <2>1. c \in 0..Len(sent')
      BY <1>1, <1>7
  <2> QED BY <1>1, <1>9, <1>11, <1>13, <2>1 DEF Reader
<1> QED BY <1>1, <1>9, <1>12, <1>14, NothingGiven

LEMMA FourBytes ==
    ASSUME NEW mask \in [1..4 -> Pair]
    PROVE  mask \in Wire /\ Len(mask) = 4
<1>1. mask \in Wire
  <2>1. PICK n \in Nat : n = 4
      OBVIOUS
  <2>2. mask \in [1..n -> Pair]
      BY <2>1
  <2> QED BY <2>2 DEF Wire
<1>2. Len(mask) \in Nat /\ DOMAIN mask = 1..Len(mask) /\ DOMAIN mask = 1..4
    BY <1>1, LenProperties DEF Wire
<1> QED BY <1>1, <1>2

LEMMA MaskIInv ==
    ASSUME IInv, Mask
    PROVE  IInv'
<1>1. /\ Done("mask") /\ at = "mask" /\ Len(got) = 4 /\ Wanted = 4
      /\ got' = <<>> /\ sent' = sent /\ coming' = coming /\ p_current' = p_current
      /\ delivered' = delivered /\ size' = size /\ align' = align
      /\ read_lastOp' = read_lastOp /\ header' = header /\ read_length' = read_length
      /\ at' = "opcode"
    BY DEF Mask, Done, Wanted
<1>2. Types /\ Whole(sent, Stream) /\ sent \in Seq(Frames) /\ Len(sent) \in Nat
      /\ read_length \in Nat
    BY StreamIsWire DEF IInv, Types, TypeOK
<1>3. PICK c \in 0..Len(sent) : \E o \in 0..SizeIn(sent, c) :
          /\ UsedUpTo(sent, Stream, c, o) /\ Knows(c, o)
          /\ ~Interjections => LastOpInPlace(c) /\ GivenInPlace(c)
    BY <1>1 DEF IInv, Reader
<1>4. PICK o \in 0..SizeIn(sent, c) :
          /\ UsedUpTo(sent, Stream, c, o) /\ Knows(c, o)
          /\ ~Interjections => LastOpInPlace(c) /\ GivenInPlace(c)
    BY <1>3
<1> DEFINE f == sent[c]
<1>5. /\ c > 0 /\ InHeader /\ o = MaskAt(f) /\ f.masked /\ read_length = f.len
      /\ header = [op |-> f.op, fin |-> f.fin, masked |-> f.masked]
    BY <1>1, <1>4 DEF Knows, InHeader
<1>6. f \in Frames /\ MaskAt(f) \in Nat /\ PayloadAt(f) = o + Wanted
  <2>1. f \in Frames
      BY <1>2, <1>5, SizeIsNat
  <2> QED BY <1>1, <1>5, <2>1, FrameFacts
<1>7. \A k \in 1..4 : got[k] = <<c, MaskAt(f) + k>>
    BY <1>1, <1>2, <1>4, <1>5, GotBytes
<1>8. \A k \in 1..4 : read_mask'[k] = MaskByte(c, k)
  <2> SUFFICES ASSUME NEW k \in 1..4
               PROVE  read_mask'[k] = MaskByte(c, k)
      OBVIOUS
  <2>1. read_mask'[k] = MaskByte(got[k][1], got[k][2] - MaskAt(sent[got[k][1]]))
      BY DEF Mask
  <2>2. got[k][1] = c /\ got[k][2] = MaskAt(f) + k
      BY <1>7
  <2>3. got[k][2] - MaskAt(sent[got[k][1]]) = k
    <3>1. MaskAt(sent[got[k][1]]) = MaskAt(f)
        BY <2>2
    <3> QED BY <1>6, <2>2, <3>1
  <2>4. MaskByte(got[k][1], got[k][2] - MaskAt(sent[got[k][1]])) = MaskByte(c, k)
      BY <2>2, <2>3
  <2> QED BY <2>1, <2>4
<1>9. read_mask' \in Wire /\ Len(read_mask') = 4
  <2>1. \A k \in 1..4 : MaskByte(c, k) \in Pair
      BY <1>2 DEF MaskByte, Pair, None
  <2>2. read_mask' = [k \in 1..4 |-> MaskByte(c, k)]
      BY <1>8 DEF Mask
  <2>3. \A k \in 1..4 : read_mask'[k] \in Pair
      BY <1>8, <2>1
  <2>4. read_mask' \in [1..4 -> Pair]
      BY <2>1, <2>2
  <2> QED BY <2>4, FourBytes
<1>10. Whole(sent', Stream') /\ PayloadAt(f) \in 0..SizeIn(sent', c)
       /\ UsedUpTo(sent', Stream', c, PayloadAt(f))
  <2>1. o + Wanted <= SizeIn(sent, c) /\ Wanted > 0
      BY <1>1, <1>2, <1>4, WhatIsRead DEF Reading
  <2> QED BY <1>1, <1>2, <1>4, <1>6, <2>1, Advance
<1>11. Types'
  <2>1. size > 0 /\ at' \in Places /\ read_lastOp' \in Opcodes \ {"control"}
      BY <1>1, <1>2 DEF Types, TypeOK, Places
  <2> QED BY <1>1, <1>2, <1>9, <2>1, DoneTypes
<1>12. Knows(c, PayloadAt(f))' /\ InHeader'
    BY <1>1, <1>5 DEF Knows, InHeader
<1>13. MaskInPlace(c)'
  <2>1. f.len - f.len = 0 /\ \A k \in 1..4 : 0 + k = k
      BY <1>6, Constants
  <2>2. \A k \in 1..4 : f.len - f.len + k = k
      BY <2>1
  <2> QED BY <1>1, <1>5, <1>8, <2>2, SameFrames DEF MaskInPlace
<1>14. ASSUME ~Interjections
       PROVE  LastOpInPlace(c)' /\ GivenInPlace(c)'
  <2>1. LastOpInPlace(c)'
      BY <1>1, <1>4, <1>5, <1>12, <1>14, SameFrames DEF LastOpInPlace
  <2>2. PlaceIn(c) = 0 /\ PlaceIn(c)' = 0
      BY <1>5, <1>12 DEF PlaceIn
  <2> QED BY <1>1, <1>4, <1>14, <2>1, <2>2, SameDelivered DEF GivenInPlace
<1>15. Reader'
    BY <1>1, <1>10, <1>12, <1>13, <1>14 DEF Reader
<1> QED BY <1>1, <1>10, <1>11, <1>15, NothingGiven

-----------------------------------------------------------------------------
(* What follows the header *)

LEMMA OpcodeIInv ==
    ASSUME IInv, Opcode
    PROVE  IInv'
<1> DEFINE op == IF header.op = "continuation" THEN read_lastOp ELSE header.op
<1>1. /\ at = "opcode" /\ sent' = sent /\ coming' = coming /\ p_current' = p_current
      /\ got' = got /\ delivered' = delivered /\ header' = header /\ size' = size
      /\ align' = align /\ read_length' = read_length /\ read_mask' = read_mask
      /\ read_lastOp' = IF header.fin THEN "continuation" ELSE op
      /\ at' = IF op \in {"text", "data"} THEN Onward(size, read_length)
               ELSE IF read_length > 0 THEN "skip" ELSE "header"
    BY DEF Opcode
<1> HIDE DEF op
<1>2. /\ Types /\ Whole(sent, Stream) /\ sent \in Seq(Frames) /\ Len(sent) \in Nat
      /\ read_length \in Nat /\ size \in Nat /\ Messages
      /\ read_lastOp \in Opcodes \ {"control"}
    BY StreamIsWire DEF IInv, Types, TypeOK
<1>3. size > 0
    BY <1>1, <1>2 DEF Types, TypeOK
<1>4. PICK c \in 0..Len(sent) : \E o \in 0..SizeIn(sent, c) :
          /\ UsedUpTo(sent, Stream, c, o) /\ Knows(c, o) /\ MaskInPlace(c)
          /\ ~Interjections => LastOpInPlace(c) /\ GivenInPlace(c)
    BY <1>1 DEF IInv, Reader
<1>5. PICK o \in 0..SizeIn(sent, c) :
          /\ UsedUpTo(sent, Stream, c, o) /\ Knows(c, o) /\ MaskInPlace(c)
          /\ ~Interjections => LastOpInPlace(c) /\ GivenInPlace(c)
    BY <1>4
<1> DEFINE f == sent[c]
<1>6. /\ c > 0 /\ InHeader /\ o = PayloadAt(f) /\ read_length = f.len
      /\ header = [op |-> f.op, fin |-> f.fin, masked |-> f.masked]
    BY <1>1, <1>5 DEF Knows, InHeader
<1>7. /\ c \in 1..Len(sent) /\ f \in Frames /\ f.op \in Opcodes /\ f.fin \in BOOLEAN
      /\ SizeIn(sent, c) = o + read_length /\ f.len \in Nat
  <2>1. c \in 1..Len(sent) /\ f \in Frames
      BY <1>2, <1>6, SizeIsNat
  <2>2. SizeIn(sent, c) = FrameSize(f)
      BY <1>2, <1>6, SizeIsNat
  <2> QED BY <1>6, <2>1, <2>2, FrameFacts, Constants
<1>8. /\ header.op = f.op /\ header.fin = f.fin
      /\ f.op = "control" => f.fin
  <2>1. f.op = "control" => f.fin
      BY <1>2, <1>7 DEF Messages
  <2> QED BY <1>6, <2>1
<1>9. /\ op \in Opcodes
      /\ op = "control" <=> f.op = "control"
    BY <1>2, <1>7, <1>8 DEF op, Opcodes
<1>10. /\ at' \in {"payload", "skip", "header"}
       /\ read_length = 0 <=> at' = "header"
       /\ at' = "payload" => op \in {"text", "data"}
       /\ at' = "skip" => op \notin {"text", "data"}
    BY <1>1, <1>2, <1>3 DEF Onward
<1>11. ~InHeader' /\ at' # "idle" /\ at' \in Places /\ at' # "error"
    BY <1>10 DEF InHeader, Places
<1>12. read_lastOp' \in Opcodes \ {"control"}
    BY <1>1, <1>8, <1>9 DEF Opcodes
<1>13. got = <<>>
    BY <1>1, <1>2, <1>5, WhatIsRead DEF Reading
<1>14. Types'
  <2>1. read_mask' \in Wire /\ Len(read_mask') = 4
      BY <1>1, <1>2 DEF Types, TypeOK
  <2> QED BY <1>1, <1>2, <1>3, <1>11, <1>12, <1>13, <2>1, DoneTypes
<1>15. Stream' = Stream
    BY <1>1 DEF Stream
<1>16. Knows(c, o)'
  <2>1. o + read_length' = SizeIn(sent', c) /\ c > 0 /\ read_length' <= sent'[c].len
      BY <1>1, <1>6, <1>7
  <2>2. read_length' = 0 <=> at' = "header"
      BY <1>1, <1>10
  <2> QED BY <1>10, <1>11, <2>1, <2>2 DEF Knows, InHeader
<1>17. MaskInPlace(c)'
    BY <1>1, <1>5, SameFrames DEF MaskInPlace
<1>18. ASSUME ~Interjections
       PROVE  LastOpInPlace(c)' /\ GivenInPlace(c)'
  <2>1. LastOpInPlace(c) /\ GivenInPlace(c)
      BY <1>5, <1>18
  <2>2. f.op = "continuation" <=> Open(c - 1)
      BY <1>2, <1>7, <1>18 DEF Messages
  <2>3. f.op = "continuation" => read_lastOp \in {"text", "data"}
      BY <1>6, <2>1, <2>2 DEF LastOpInPlace
  <2>4. op \in {"text", "data"} <=> f.op # "control"
      BY <1>7, <1>8, <2>3 DEF op, Opcodes
  <2>5. Open(c) <=> ~f.fin
      BY <1>6 DEF Open
  <2>6. IF Open(c) THEN read_lastOp' \in {"text", "data"} ELSE read_lastOp' = "continuation"
      BY <1>1, <1>8, <2>4, <2>5
  <2>7. LastOpInPlace(c)'
      BY <1>1, <1>10, <1>11, <2>4, <2>6, SameFrames DEF LastOpInPlace
  <2>8. PlaceIn(c) = 0
      BY <1>6 DEF PlaceIn
  <2>9. PlaceIn(c)' = 0
    <3>1. f.len - f.len = 0
        BY <1>7
    <3> QED BY <1>1, <1>6, <1>11, <3>1 DEF PlaceIn
  <2> QED BY <1>1, <2>1, <2>7, <2>8, <2>9, SameDelivered DEF GivenInPlace
<1>19. Reader'
    BY <1>1, <1>5, <1>15, <1>16, <1>17, <1>18 DEF Reader
<1> QED BY <1>1, <1>2, <1>14, <1>15, <1>19, NothingGiven

LEMMA SkipIInv ==
    ASSUME IInv, Skip
    PROVE  IInv'
<1>1. /\ Done("skip") /\ at = "skip" /\ Len(got) = 1 /\ Wanted = 1
      /\ got' = <<>> /\ sent' = sent /\ coming' = coming /\ p_current' = p_current
      /\ delivered' = delivered /\ header' = header /\ size' = size /\ align' = align
      /\ read_mask' = read_mask /\ read_lastOp' = read_lastOp
      /\ read_length' = read_length - 1
      /\ at' = IF read_length' > 0 THEN "skip" ELSE "header"
    BY DEF Skip, Done, Wanted
<1>2. Types /\ Whole(sent, Stream) /\ sent \in Seq(Frames) /\ Len(sent) \in Nat
      /\ read_length \in Nat
    BY StreamIsWire DEF IInv, Types, TypeOK
<1>3. PICK c \in 0..Len(sent) : \E o \in 0..SizeIn(sent, c) :
          /\ UsedUpTo(sent, Stream, c, o) /\ Knows(c, o)
          /\ ~Interjections => LastOpInPlace(c) /\ GivenInPlace(c)
    BY <1>1 DEF IInv, Reader
<1>4. PICK o \in 0..SizeIn(sent, c) :
          /\ UsedUpTo(sent, Stream, c, o) /\ Knows(c, o)
          /\ ~Interjections => LastOpInPlace(c) /\ GivenInPlace(c)
    BY <1>3
<1>5. /\ o + read_length = SizeIn(sent, c) /\ c > 0 /\ read_length <= sent[c].len
      /\ read_length > 0 /\ ~InHeader
    BY <1>1, <1>2, <1>4 DEF Knows, InHeader
<1>6. /\ SizeIn(sent, c) \in Nat /\ sent[c] \in Frames /\ sent[c].len \in Nat
      /\ o \in Nat
  <2>1. SizeIn(sent, c) \in Nat /\ sent[c] \in Frames
      BY <1>2, <1>5, SizeIsNat
  <2> QED BY <2>1, Constants
<1>7. /\ read_length' \in Nat
      /\ read_length' = 0 <=> at' = "header"
      /\ at' \in {"skip", "header"} /\ (o + 1) + read_length' = SizeIn(sent, c)
      /\ read_length' <= sent[c].len
  <2>1. read_length' \in Nat /\ read_length' <= sent[c].len
      BY <1>1, <1>2, <1>5, <1>6
  <2>2. (o + 1) + read_length' = SizeIn(sent, c)
      BY <1>1, <1>2, <1>5, <1>6
  <2>3. at' = IF read_length' > 0 THEN "skip" ELSE "header"
      BY <1>1
  <2>4. read_length' = 0 <=> at' = "header"
      BY <2>1, <2>3
  <2>5. at' \in {"skip", "header"}
      BY <2>3
  <2> QED BY <2>1, <2>2, <2>4, <2>5
<1>8. /\ Whole(sent', Stream') /\ o + 1 \in 0..SizeIn(sent', c)
      /\ UsedUpTo(sent', Stream', c, o + 1)
  <2>1. o + Wanted <= SizeIn(sent, c) /\ Wanted > 0
      BY <1>1, <1>2, <1>4, WhatIsRead DEF Reading
  <2>2. o + Wanted = o + 1
      BY <1>1
  <2> QED BY <1>1, <1>2, <1>4, <2>1, <2>2, Advance
<1>9. Types'
  <2>1. /\ size > 0 /\ at' \in Places /\ read_lastOp' \in Opcodes \ {"control"}
        /\ read_mask' \in Wire /\ Len(read_mask') = 4
      BY <1>1, <1>2, <1>7 DEF Types, TypeOK, Places
  <2> QED BY <1>1, <1>2, <1>7, <2>1, DoneTypes
<1>10. ~InHeader'
    BY <1>7 DEF InHeader
<1>11. Knows(c, o + 1)'
  <2>1. /\ (o + 1) + read_length' = SizeIn(sent', c) /\ c > 0
        /\ read_length' <= sent'[c].len /\ at' # "idle"
        /\ read_length' = 0 <=> at' = "header"
      BY <1>1, <1>5, <1>7
  <2> QED BY <1>7, <1>10, <2>1 DEF Knows
<1>12. MaskInPlace(c)'
    BY <1>7 DEF MaskInPlace
<1>13. ASSUME ~Interjections
       PROVE  LastOpInPlace(c)' /\ GivenInPlace(c)'
  <2>1. LastOpInPlace(c) /\ GivenInPlace(c)
      BY <1>4, <1>13
  <2>2. sent[c].op = "control"
      BY <1>1, <2>1 DEF LastOpInPlace
  <2>3. LastOpInPlace(c)'
      BY <1>1, <1>5, <1>7, <1>10, <2>1, <2>2, SameFrames DEF LastOpInPlace
  <2>4. Bare(c)
      BY <2>2 DEF Bare
  <2>5. PlaceIn(c) = 0 /\ PlaceIn(c)' = 0
      BY <1>1, <2>4, SameFrames DEF PlaceIn
  <2> QED BY <1>1, <2>1, <2>3, <2>5, SameDelivered DEF GivenInPlace
<1>14. Reader'
    BY <1>1, <1>8, <1>11, <1>12, <1>13 DEF Reader
<1> QED BY <1>1, <1>8, <1>9, <1>14, NothingGiven

-----------------------------------------------------------------------------
(* The mask *)

\* The mask of the bytes after place p of frame c
MaskFrom(mask, c, p) == \A k \in 1..4 : mask[k] = MaskByte(c, p + k)

LEMMA DivMod4 ==
    ASSUME NEW n \in Nat
    PROVE  \E r \in 0..3, q \in Nat : r = n % 4 /\ q = n \div 4 /\ n = q * 4 + r
<1>1. /\ n % 4 \in 0..4 - 1 /\ n \div 4 \in Nat
      /\ n = (n \div 4) * 4 + (n % 4)
    BY 4 \in Nat \ {0}, DivMod
<1> QED BY <1>1

\* The mask repeats itself every four bytes.
LEMMA MaskRepeats ==
    ASSUME NEW c, NEW k \in Nat \ {0}, NEW q \in Nat
    PROVE  MaskByte(c, k + 4 * q) = MaskByte(c, k)
<1>1. (k + 4 * q - 1) % 4 = (k - 1) % 4
    OBVIOUS
<1> QED BY <1>1 DEF MaskByte

LEMMA Rotated ==
    ASSUME NEW mask, NEW c, NEW p \in Nat, NEW n \in Nat, MaskFrom(mask, c, p)
    PROVE  MaskFrom(Rotate(mask, n), c, p + n)
<1> SUFFICES ASSUME NEW k \in 1..4
             PROVE  Rotate(mask, n)[k] = MaskByte(c, (p + n) + k)
    BY DEF MaskFrom
<1>1. PICK m \in Nat : m = k - 1 + n
    OBVIOUS
<1>2. PICK e \in 0..3, q \in Nat : e = m % 4 /\ m = q * 4 + e
    BY DivMod4
<1>3. PICK r \in 1..4 : r = e + 1
    OBVIOUS
<1>4. Rotate(mask, n)[k] = mask[r]
    BY <1>1, <1>2, <1>3 DEF Rotate
<1>5. mask[r] = MaskByte(c, p + r)
    BY DEF MaskFrom
<1>6. (p + n) + k = (p + r) + 4 * q /\ p + r \in Nat \ {0}
    BY <1>1, <1>2, <1>3
<1>7. MaskByte(c, (p + r) + 4 * q) = MaskByte(c, p + r)
    BY <1>6, MaskRepeats
<1> QED BY <1>4, <1>5, <1>6, <1>7

\* A word more or less makes no difference to the mask.
LEMMA WordsLater ==
    ASSUME NEW mask, NEW c, NEW p \in Nat, NEW q \in Nat, MaskFrom(mask, c, p)
    PROVE  MaskFrom(mask, c, p + 4 * q)
<1> SUFFICES ASSUME NEW k \in 1..4
             PROVE  mask[k] = MaskByte(c, (p + 4 * q) + k)
    BY DEF MaskFrom
<1>1. (p + 4 * q) + k = (p + k) + 4 * q /\ p + k \in Nat \ {0}
    OBVIOUS
<1>2. MaskByte(c, (p + k) + 4 * q) = MaskByte(c, p + k)
    BY <1>1, MaskRepeats
<1> QED BY <1>1, <1>2 DEF MaskFrom

LEMMA BeforeIs ==
    ASSUME Types, NEW n \in Nat
    PROVE  Before(n) \in 0..4 /\ Before(n) <= n
BY DEF Types, TypeOK, Before, Least

\* websocket_apply_mask takes the mask of its own place from every byte,
\* wherever the words begin.
LEMMA MaskFits ==
    ASSUME Types, NEW c, NEW p \in Nat, NEW n \in Nat, NEW j \in 1..n,
           MaskFrom(read_mask, c, p)
    PROVE  MaskOn(n, j) = MaskByte(c, p + j)
<1>1. PICK b \in 0..4 : b = Before(n) /\ b <= n
    BY BeforeIs
<1>2. PICK w \in Nat : w = n - b
    BY <1>1
<1>3. b \in Nat
    BY <1>1
<1>4. PICK odd \in 0..3, words \in Nat : odd = w % 4 /\ w = words * 4 + odd
    BY DivMod4
<1>5. PICK rotated : rotated = Rotate(read_mask, b)
    OBVIOUS
<1>6. MaskFrom(rotated, c, p + b)
    BY <1>3, <1>5, Rotated
<1>7. MaskOn(n, j) = IF j <= b THEN read_mask[j]
                     ELSE IF j <= n - odd THEN rotated[((j - b - 1) % 4) + 1]
                     ELSE rotated[j - (n - odd)]
    BY <1>1, <1>2, <1>4, <1>5 DEF MaskOn
<1>8. CASE j <= b
    BY <1>1, <1>7, <1>8 DEF MaskFrom
<1>9. CASE j > b /\ j <= n - odd
  <2>1. PICK m \in Nat : m = j - b - 1
      BY <1>9
  <2>2. PICK e \in 0..3, q \in Nat : e = m % 4 /\ m = q * 4 + e
      BY DivMod4
  <2>3. PICK r \in 1..4 : r = e + 1
      OBVIOUS
  <2>4. MaskOn(n, j) = rotated[r]
      BY <1>7, <1>9, <2>1, <2>2, <2>3
  <2>5. rotated[r] = MaskByte(c, (p + b) + r)
      BY <1>6 DEF MaskFrom
  <2>6. p + j = ((p + b) + r) + 4 * q /\ (p + b) + r \in Nat \ {0}
      BY <2>1, <2>2, <2>3
  <2>7. MaskByte(c, ((p + b) + r) + 4 * q) = MaskByte(c, (p + b) + r)
      BY <2>6, MaskRepeats
  <2> QED BY <2>4, <2>5, <2>6, <2>7
<1>10. CASE j > b /\ ~(j <= n - odd)
  <2>1. PICK r \in 1..4 : r = j - (n - odd)
      BY <1>10
  <2>2. MaskOn(n, j) = rotated[r]
      BY <1>7, <1>10, <2>1
  <2>3. rotated[r] = MaskByte(c, (p + b) + r)
      BY <1>6 DEF MaskFrom
  <2>4. p + j = ((p + b) + r) + 4 * words /\ (p + b) + r \in Nat \ {0}
      BY <1>2, <1>4, <2>1
  <2>5. MaskByte(c, ((p + b) + r) + 4 * words) = MaskByte(c, (p + b) + r)
      BY <2>4, MaskRepeats
  <2> QED BY <2>2, <2>3, <2>4, <2>5
<1> QED BY <1>8, <1>9, <1>10

\* And it leaves the mask rotated to the byte that comes next.
LEMMA MaskGoesOn ==
    ASSUME Types, NEW c, NEW p \in Nat, NEW n \in Nat, MaskFrom(read_mask, c, p)
    PROVE  MaskFrom(AfterMask(n), c, p + n)
<1>1. PICK b \in Nat : b = Before(n) /\ b <= n
    BY BeforeIs
<1>2. PICK w \in Nat : w = n - b
    BY <1>1
<1>3. PICK odd \in 0..3, words \in Nat : odd = w % 4 /\ w = words * 4 + odd
    BY DivMod4
<1>4. PICK m \in Nat : m = p + b
    OBVIOUS
<1>5. MaskFrom(Rotate(read_mask, b), c, m)
    BY <1>4, Rotated
<1>6. PICK k \in Nat : k = m + odd
    BY <1>3
<1>7. MaskFrom(Rotate(Rotate(read_mask, b), odd), c, k)
  <2>1. odd \in Nat
      BY <1>3
  <2> QED BY <1>5, <1>6, <2>1, Rotated
<1>8. MaskFrom(Rotate(Rotate(read_mask, b), odd), c, k + 4 * words)
    BY <1>7, WordsLater
<1>9. k + 4 * words = p + n
    BY <1>1, <1>2, <1>3, <1>4, <1>6
<1>10. AfterMask(n) = Rotate(Rotate(read_mask, b), odd)
    BY <1>1, <1>2, <1>3 DEF AfterMask
<1> QED BY <1>8, <1>9, <1>10

LEMMA MaskStaysMask ==
    ASSUME NEW c \in Nat, NEW p \in Nat, NEW n \in Nat, MaskFrom(AfterMask(n), c, p)
    PROVE  AfterMask(n) \in Wire /\ Len(AfterMask(n)) = 4
<1>1. \A k \in 1..4 : MaskByte(c, p + k) \in Pair
    BY DEF MaskByte, Pair, None
<1>2. AfterMask(n) \in [1..4 -> Pair]
  <2>1. AfterMask(n) = [k \in 1..4 |-> AfterMask(n)[k]]
      BY DEF AfterMask, Rotate
  <2>2. \A k \in 1..4 : AfterMask(n)[k] \in Pair
      BY <1>1 DEF MaskFrom
  <2> QED BY <2>1, <2>2
<1> QED BY <1>2, FourBytes

-----------------------------------------------------------------------------
(* The payload *)

LEMMA Appended ==
    ASSUME NEW a \in Wire, NEW b \in Wire
    PROVE  /\ Cat(a, b) \in Wire /\ Len(Cat(a, b)) = Len(a) + Len(b)
           /\ Len(a) \in Nat /\ Len(b) \in Nat
           /\ \A k \in 1..Len(a) : Cat(a, b)[k] = a[k]
           /\ \A k \in 1..Len(b) : Cat(a, b)[Len(a) + k] = b[k]
<1>1. Len(a) \in Nat /\ Len(b) \in Nat
    BY LenProperties DEF Wire
<1>2. Cat(a, b) \in Wire /\ Len(Cat(a, b)) = Len(a) + Len(b)
    BY CatWire
<1>3. \A k \in 1..Len(a) + Len(b) :
          Cat(a, b)[k] = IF k <= Len(a) THEN a[k] ELSE b[k - Len(a)]
    BY ConcatProperties DEF Wire, Cat
<1>4. ASSUME NEW k \in 1..Len(a)
      PROVE  Cat(a, b)[k] = a[k]
    BY <1>1, <1>3
<1>5. ASSUME NEW k \in 1..Len(b)
      PROVE  Cat(a, b)[Len(a) + k] = b[k]
  <2>1. Len(a) + k \in 1..Len(a) + Len(b) /\ ~(Len(a) + k <= Len(a))
        /\ Len(a) + k - Len(a) = k
      BY <1>1
  <2> QED BY <1>3, <2>1
<1> QED BY <1>1, <1>2, <1>4, <1>5

\* The payload that was read, without its mask
LEMMA UnmaskedIs ==
    ASSUME Types, NEW c \in 1..Len(sent), NEW p \in Nat, NEW n \in Nat, Len(got) = n,
           \A j \in 1..n : got[j] = <<c, PayloadAt(sent[c]) + p + j>>,
           PayloadAt(sent[c]) \in Nat, MaskFrom(read_mask, c, p)
    PROVE  /\ Unmasked(got) \in Wire /\ Len(Unmasked(got)) = n
           /\ \A j \in 1..n : Unmasked(got)[j] = <<c, p + j>>
<1>1. Len(sent) \in Nat /\ c \in Nat
    BY StreamIsWire
<1>2. DOMAIN Unmasked(got) = 1..n
    BY DEF Unmasked
<1>3. ASSUME NEW j \in 1..n
      PROVE  Unmasked(got)[j] = <<c, p + j>>
  <2>1. got[j][1] = c /\ got[j][2] = PayloadAt(sent[c]) + p + j
      OBVIOUS
  <2>2. got[j][2] - PayloadAt(sent[got[j][1]]) = p + j
    <3>1. PayloadAt(sent[got[j][1]]) = PayloadAt(sent[c])
        BY <2>1
    <3> QED BY <2>1, <3>1
  <2>3. MaskOn(Len(got), j) = MaskByte(c, p + j)
      BY MaskFits
  <2>4. Unmasked(got)[j] =
            IF MaskOn(Len(got), j)
                 = MaskByte(got[j][1], got[j][2] - PayloadAt(sent[got[j][1]]))
            THEN <<got[j][1], got[j][2] - PayloadAt(sent[got[j][1]])>> ELSE None
      BY DEF Unmasked
  <2> QED BY <2>1, <2>2, <2>3, <2>4
<1>4. Unmasked(got) \in Wire
  <2>1. Unmasked(got) = [j \in 1..n |-> Unmasked(got)[j]]
      BY DEF Unmasked
  <2>2. \A j \in 1..n : Unmasked(got)[j] \in Pair
    <3>1. \A j \in 1..n : <<c, p + j>> \in Pair
        BY <1>1 DEF Pair
    <3> QED BY <1>3, <3>1
  <2>3. Unmasked(got) \in [1..n -> Pair]
      BY <2>1, <2>2
  <2> QED BY <2>3 DEF Wire
<1>5. Len(Unmasked(got)) = n
  <2>1. Len(Unmasked(got)) \in Nat /\ DOMAIN Unmasked(got) = 1..Len(Unmasked(got))
      BY <1>4, LenProperties DEF Wire
  <2> QED BY <1>2, <2>1
<1> QED BY <1>3, <1>4, <1>5

LEMMA WithinFrame ==
    ASSUME NEW c, NEW k, c # 0, k # sent[c].len
    PROVE  Follows(<<c, k>>, <<c, k + 1>>)
<1>1. <<c, k>> # <<0, 0>>
    OBVIOUS
<1>2. ~Ends(<<c, k>>)
    BY <1>1 DEF Ends, None
<1> QED BY <1>2 DEF Follows

\* Places p + 1 to p + n of frame c come after what has been given.
LEMMA MoreInOrder ==
    ASSUME Types, DeliveredSent, sent' = sent,
           NEW c \in 1..Len(sent), NEW p \in Nat, NEW n \in Nat \ {0},
           p + n <= sent[c].len, sent[c].len \in Nat,
           NEW u \in Wire, Len(u) = n, \A j \in 1..n : u[j] = <<c, p + j>>,
           delivered' = Cat(delivered, u)
    PROVE  /\ delivered' \in Wire /\ DeliveredSent'
           /\ GivenUpTo(c, p) /\ InOrder /\ ~Bare(c) => InOrder'
           /\ GivenUpTo(c, p + n)'
<1> DEFINE d == Len(delivered)
<1>1. /\ delivered \in Wire /\ d \in Nat /\ Len(sent) \in Nat /\ c \in Nat
      /\ delivered' \in Wire /\ Len(delivered') = d + n
      /\ \A k \in 1..d : delivered'[k] = delivered[k]
      /\ \A k \in 1..n : delivered'[d + k] = <<c, p + k>>
  <2>1. delivered \in Wire
      BY DEF Types
  <2>2. /\ Cat(delivered, u) \in Wire /\ Len(Cat(delivered, u)) = d + n /\ d \in Nat
        /\ \A k \in 1..d : Cat(delivered, u)[k] = delivered[k]
        /\ \A k \in 1..n : Cat(delivered, u)[d + k] = u[k]
      BY <2>1, Appended
  <2> HIDE DEF d
  <2>3. \A k \in 1..n : Cat(delivered, u)[d + k] = <<c, p + k>>
      BY <2>2
  <2>4. Len(sent) \in Nat /\ c \in Nat
      BY StreamIsWire
  <2> QED BY <2>1, <2>2, <2>3, <2>4
<1> HIDE DEF d
<1>2. \A m \in 1..d + n : m \in 1..d \/ \E k \in 1..n : m = d + k
  <2> SUFFICES ASSUME NEW m \in 1..d + n, m \notin 1..d
               PROVE  m - d \in 1..n /\ m = d + (m - d)
      OBVIOUS
  <2> QED BY <1>1
<1>3. DeliveredSent'
  <2> SUFFICES ASSUME NEW m \in 1..d + n
               PROVE  /\ delivered'[m][1] \in 1..Len(sent)
                      /\ delivered'[m][2] \in 1..sent[delivered'[m][1]].len
      BY <1>1 DEF DeliveredSent
  <2>1. CASE m \in 1..d
    <3>1. delivered'[m] = delivered[m]
        BY <1>1, <2>1
    <3> QED BY <2>1, <3>1 DEF DeliveredSent, d
  <2>2. CASE m \notin 1..d
    <3>1. PICK k \in 1..n : m = d + k
        BY <1>2, <2>2
    <3>2. delivered'[m] = <<c, p + k>>
        BY <1>1, <3>1
    <3>3. p + k \in 1..sent[c].len
        OBVIOUS
    <3> QED BY <3>2, <3>3
  <2> QED BY <2>1, <2>2
<1>4. ASSUME GivenUpTo(c, p), InOrder, ~Bare(c)
      PROVE  InOrder'
  <2>1. \A a, b : Follows(a, b)' <=> Follows(a, b)
    <3>1. \A i : Bare(i)' <=> Bare(i)
        BY DEF Bare
    <3>2. \A a : Ends(a)' <=> Ends(a)
        BY DEF Ends
    <3> QED BY <3>1, <3>2 DEF Follows
  <2>2. \A m : Given(m)' = IF m = 0 THEN None ELSE delivered'[m]
      BY DEF Given
  <2> SUFFICES ASSUME NEW m \in 1..d + n
               PROVE  Follows(Given(m - 1)', delivered'[m])
      BY <1>1, <2>1 DEF InOrder
  <2>3. CASE m \in 1..d
    <3>1. delivered'[m] = delivered[m]
        BY <1>1, <2>3
    <3>2. Given(m - 1)' = Given(m - 1)
      <4>1. m - 1 = 0 \/ m - 1 \in 1..d
          BY <1>1, <2>3
      <4> QED BY <1>1, <4>1 DEF Given
    <3> QED BY <1>4, <2>3, <3>1, <3>2 DEF InOrder, d
  <2>4. ASSUME NEW k \in 1..n, m = d + k, k # 1
        PROVE  Follows(Given(m - 1)', delivered'[m])
    <3>1. k - 1 \in 1..n /\ m - 1 = d + (k - 1) /\ m - 1 # 0
        BY <1>1, <2>4
    <3>2. delivered'[m] = <<c, p + k>> /\ delivered'[m - 1] = <<c, p + (k - 1)>>
        BY <1>1, <2>4, <3>1
    <3>3. Given(m - 1)' = <<c, p + (k - 1)>>
        BY <2>2, <3>1, <3>2
    <3>4. PICK q \in Nat : q = p + (k - 1)
        BY <3>1
    <3>5. q # sent[c].len /\ p + k = q + 1 /\ c # 0
        BY <1>1, <3>1, <3>4
    <3>6. Follows(<<c, q>>, <<c, q + 1>>)
        BY <3>5, WithinFrame
    <3> QED BY <3>2, <3>3, <3>4, <3>5, <3>6
  <2>5. ASSUME m = d + 1
        PROVE  Follows(Given(m - 1)', delivered'[m])
    <3>1. delivered'[m] = <<c, p + 1>>
        BY <1>1, <2>5
    <3>2. Given(m - 1)' = Given(d)
      <4>1. m - 1 = d /\ (d = 0 \/ d \in 1..d)
          BY <1>1, <2>5
      <4> QED BY <1>1, <4>1 DEF Given
    <3>3. CASE p > 0
      <4>1. Given(d) = <<c, p>>
          BY <1>4, <3>3 DEF GivenUpTo, d
      <4>2. p # sent[c].len /\ c # 0
          BY <1>1
      <4>3. Follows(<<c, p>>, <<c, p + 1>>)
          BY <4>2, WithinFrame
      <4> QED BY <3>1, <3>2, <4>1, <4>3
    <3>4. CASE p = 0
      <4> DEFINE last == Given(d)
      <4>1. /\ Ends(last)
            /\ last[1] < c \/ last = None
            /\ \A i \in last[1] + 1..c - 1 : Bare(i)
          BY <1>4, <3>4 DEF GivenUpTo, d
      <4>2. last = None \/ last[1] \in 1..Len(sent)
          BY <1>1 DEF Given, DeliveredSent, d
      <4> HIDE DEF last
      <4>3. last[1] \in Nat /\ last[1] < c
          BY <1>1, <4>1, <4>2 DEF None
      <4>4. c \in last[1] + 1..Len(sent)
          BY <1>1, <4>3
      <4>5. Follows(last, <<c, p + 1>>)
          BY <1>4, <3>4, <4>1, <4>4 DEF Follows
      <4> QED BY <3>1, <3>2, <4>5 DEF last
    <3> QED BY <3>3, <3>4
  <2> QED BY <1>2, <2>3, <2>4, <2>5
<1>5. GivenUpTo(c, p + n)'
  <2>1. delivered'[d + n] = <<c, p + n>> /\ d + n # 0 /\ p + n > 0
      BY <1>1
  <2>2. Given(Len(delivered))' = <<c, p + n>>
      BY <1>1, <2>1 DEF Given
  <2> QED BY <2>1, <2>2 DEF GivenUpTo
<1> QED BY <1>1, <1>3, <1>4, <1>5

LEMMA PayloadIInv ==
    ASSUME IInv, Payload
    PROVE  IInv'
<1>1. /\ Done("payload") /\ at = "payload" /\ Len(got) = Wanted
      /\ got' = <<>> /\ sent' = sent /\ coming' = coming /\ p_current' = p_current
      /\ header' = header /\ read_lastOp' = read_lastOp
      /\ Wanted = Least(read_length, size)
    BY DEF Payload, Done, Wanted
<1>2. Types /\ Whole(sent, Stream) /\ sent \in Seq(Frames) /\ Len(sent) \in Nat
      /\ DeliveredSent
    BY StreamIsWire DEF IInv
<1>3. /\ read_length \in Nat /\ size \in Nat /\ size > 0 /\ align \in 0..3
      /\ read_lastOp \in Opcodes \ {"control"}
    BY <1>1, <1>2 DEF Types, TypeOK
<1>4. PICK c \in 0..Len(sent) : \E o \in 0..SizeIn(sent, c) :
          /\ UsedUpTo(sent, Stream, c, o) /\ Knows(c, o) /\ MaskInPlace(c)
          /\ ~Interjections => LastOpInPlace(c) /\ GivenInPlace(c)
    BY <1>1 DEF IInv, Reader
<1>5. PICK o \in 0..SizeIn(sent, c) :
          /\ UsedUpTo(sent, Stream, c, o) /\ Knows(c, o) /\ MaskInPlace(c)
          /\ ~Interjections => LastOpInPlace(c) /\ GivenInPlace(c)
    BY <1>4
<1> DEFINE f == sent[c]
<1>6. /\ o + read_length = SizeIn(sent, c) /\ c > 0 /\ read_length <= f.len
      /\ read_length > 0 /\ ~InHeader
    BY <1>1, <1>3, <1>5 DEF Knows, InHeader
<1>7. /\ c \in 1..Len(sent) /\ f.len \in Nat /\ PayloadAt(f) \in Nat /\ o \in Nat
      /\ SizeIn(sent, c) \in Nat /\ SizeIn(sent, c) = PayloadAt(f) + f.len
  <2>1. c \in 1..Len(sent) /\ f \in Frames /\ SizeIn(sent, c) = FrameSize(f)
        /\ SizeIn(sent, c) \in Nat
      BY <1>2, <1>6, SizeIsNat
  <2> QED BY <2>1, FrameFacts, Constants
<1> HIDE DEF f
<1>8. PICK n \in Nat \ {0} : n = Wanted /\ n <= read_length /\ n <= size
    BY <1>1, <1>3, <1>6 DEF Least
<1>9. PICK p \in Nat : p = f.len - read_length
    BY <1>3, <1>6, <1>7
<1>10. o = PayloadAt(f) + p /\ p + n <= f.len
    BY <1>3, <1>6, <1>7, <1>8, <1>9
<1>11. MaskFrom(read_mask, c, p)
    BY <1>1, <1>5, <1>6, <1>9 DEF MaskInPlace, MaskFrom, f
<1>12. /\ Whole(sent', Stream') /\ o + n \in 0..SizeIn(sent', c)
       /\ UsedUpTo(sent', Stream', c, o + n)
  <2>1. o + Wanted <= SizeIn(sent, c) /\ Wanted > 0
      BY <1>3, <1>6, <1>7, <1>8
  <2>2. /\ Whole(sent', Stream') /\ o + Wanted \in 0..SizeIn(sent', c)
        /\ UsedUpTo(sent', Stream', c, o + Wanted)
      BY <1>2, <1>5, <1>1, <2>1, Advance
  <2> QED BY <1>8, <2>2
<1>13. c \in 0..Len(sent')
    BY <1>1
<1>14. CASE TakenForError(Wanted)
  <2>1. /\ at' = "error" /\ delivered' = delivered /\ size' = size /\ align' = align
        /\ read_length' = read_length /\ read_mask' = read_mask
      BY <1>14 DEF Payload
  <2>2. Types'
    <3>1. read_mask \in Wire /\ Len(read_mask) = 4 /\ "error" \in Places
        BY <1>2 DEF Types, TypeOK, Places
    <3> QED BY <1>1, <1>2, <1>3, <2>1, <3>1, DoneTypes
  <2>3. Knows(c, o + n)' /\ MaskInPlace(c)'
      BY <2>1 DEF Knows, MaskInPlace, InHeader
  <2>4. Reader'
      BY <1>12, <1>13, <2>1, <2>3 DEF Reader
  <2> QED BY <1>1, <1>12, <2>1, <2>2, <2>4, NothingGiven
<1>15. CASE ~TakenForError(Wanted)
  <2>1. /\ delivered' = Cat(delivered, Unmasked(got)) /\ read_mask' = AfterMask(n)
        /\ align' = (align + n) % 4 /\ size' = size - n
        /\ read_length' = read_length - n /\ at' = Onward(size', read_length')
      BY <1>8, <1>15 DEF Payload, Cat
  <2>2. /\ Unmasked(got) \in Wire /\ Len(Unmasked(got)) = n
        /\ \A j \in 1..n : Unmasked(got)[j] = <<c, p + j>>
    <3>1. \A j \in 1..Len(got) : got[j] = <<c, o + j>>
        BY <1>1, <1>2, <1>5, GotBytes
    <3>2. \A j \in 1..n : got[j] = <<c, PayloadAt(f) + p + j>>
        BY <1>1, <1>8, <1>10, <3>1
    <3> QED BY <1>1, <1>2, <1>7, <1>8, <1>11, <3>2, UnmaskedIs DEF f
  <2>3. PICK u \in Wire : u = Unmasked(got) /\ Len(u) = n
                          /\ \A j \in 1..n : u[j] = <<c, p + j>>
      BY <2>2
  <2>4. /\ read_length' \in Nat /\ size' \in Nat /\ align' \in 0..3
        /\ p + n = f.len - read_length' /\ (o + n) + read_length' = SizeIn(sent, c)
        /\ read_length' <= f.len
    <3>1. read_length' \in Nat /\ size' \in Nat /\ read_length' <= f.len
        BY <1>3, <1>6, <1>7, <1>8, <2>1
    <3>2. align' \in 0..3
        BY <1>3, <2>1
    <3>3. p + n = f.len - read_length' /\ (o + n) + read_length' = SizeIn(sent, c)
        BY <1>3, <1>6, <1>7, <1>8, <1>9, <2>1
    <3> QED BY <3>1, <3>2, <3>3
  <2>5. /\ at' \in {"idle", "payload", "header"}
        /\ at' # "idle" => size' > 0
        /\ at' # "idle" => (read_length' = 0 <=> at' = "header")
      BY <2>1, <2>4 DEF Onward
  <2>6. ~InHeader'
      BY <2>5 DEF InHeader
  <2>7. MaskFrom(read_mask', c, p + n)
      BY <1>2, <1>11, <2>1, MaskGoesOn
  <2>8. read_mask' \in Wire /\ Len(read_mask') = 4
    <3>1. PICK m \in Nat : m = p + n
        OBVIOUS
    <3>2. MaskFrom(AfterMask(n), c, m)
        BY <2>1, <2>7, <3>1
    <3>3. c \in Nat
        BY <1>2
    <3> QED BY <2>1, <3>2, <3>3, MaskStaysMask
  <2>9. /\ delivered' \in Wire /\ DeliveredSent'
        /\ GivenUpTo(c, p) /\ InOrder /\ ~Bare(c) => InOrder'
        /\ GivenUpTo(c, p + n)'
      BY <1>1, <1>2, <1>7, <1>10, <2>1, <2>3, MoreInOrder DEF f
  <2>10. Types'
    <3>1. Wanted' \in Nat
        BY <2>4 DEF Wanted, Least
    <3>2. Len(got') = 0 /\ got' \in Wire
        BY <1>1, EmptySeq DEF Wire
    <3>3. at' \in Places /\ at' \notin {"idle", "error"} => size' > 0
        BY <2>5 DEF Places
    <3>4. sent' \in Seq(Frames) /\ read_lastOp' \in Opcodes \ {"control"}
        BY <1>1, <1>2, <1>3
    <3>5. at' \in Places /\ Len(got') <= Wanted'
        BY <2>5, <3>1, <3>2 DEF Places
    <3>6. TypeOK'
        BY <2>4, <2>8, <3>3, <3>4, <3>5 DEF TypeOK
    <3>7. p_current' \in Wire /\ coming' \in Wire
        BY <1>1, <1>2 DEF Types
    <3> QED BY <2>8, <2>9, <3>2, <3>6, <3>7 DEF Types
  <2>11. Knows(c, o + n)'
    <3>1. /\ (o + n) + read_length' = SizeIn(sent', c) /\ c > 0
          /\ read_length' <= sent'[c].len
        BY <1>1, <1>6, <2>4 DEF f
    <3> QED BY <2>5, <2>6, <3>1 DEF Knows, InHeader
  <2>12. MaskInPlace(c)'
    <3>1. \A k \in 1..4 : read_mask'[k] = MaskByte(c, f.len - read_length' + k)
        BY <2>4, <2>7 DEF MaskFrom
    <3> QED BY <1>1, <3>1, SameFrames DEF MaskInPlace, f
  <2>13. ASSUME ~Interjections
         PROVE  LastOpInPlace(c)' /\ GivenInPlace(c)' /\ InOrder'
    <3>1. LastOpInPlace(c) /\ GivenInPlace(c) /\ InOrder
        BY <1>5, <2>13 DEF IInv
    <3>2. f.op # "control"
        BY <1>1, <1>6, <3>1 DEF LastOpInPlace, f
    <3>3. ~Bare(c)
      <4>1. f.len # 0
          BY <1>3, <1>6, <1>7
      <4> QED BY <3>2, <4>1 DEF Bare, f
    <3>4. LastOpInPlace(c)'
      <4>1. IF Open(c) THEN read_lastOp \in {"text", "data"}
            ELSE read_lastOp = "continuation"
          BY <1>6, <3>1 DEF LastOpInPlace
      <4>2. sent'[c].op # "control" /\ at' # "skip"
          BY <1>1, <2>5, <3>2 DEF f
      <4> QED BY <1>1, <2>6, <4>1, <4>2, SameFrames DEF LastOpInPlace
    <3>5. PlaceIn(c) = p
        BY <1>6, <1>9, <3>3 DEF PlaceIn, f
    <3>6. PlaceIn(c)' = p + n
      <4>1. ~Bare(c)' /\ c # 0
          BY <1>1, <1>6, <3>3, SameFrames
      <4> QED BY <1>1, <2>4, <2>6, <4>1 DEF PlaceIn, f
    <3>7. GivenUpTo(c, p)
        BY <3>1, <3>5 DEF GivenInPlace
    <3>8. InOrder' /\ GivenUpTo(c, p + n)'
        BY <2>9, <3>1, <3>3, <3>7
    <3> QED BY <3>4, <3>6, <3>8 DEF GivenInPlace
  <2>14. Reader'
      BY <1>12, <1>13, <2>11, <2>12, <2>13 DEF Reader
  <2>15. Messages'
      BY <1>1, SameFrames DEF IInv
  <2> QED BY <1>12, <2>9, <2>10, <2>13, <2>14, <2>15 DEF IInv
<1> QED BY <1>14, <1>15

-----------------------------------------------------------------------------
(* The invariant and what follows from it *)

LEMMA NextIInv ==
    ASSUME IInv, [Next]_vars
    PROVE  IInv'
<1>1. CASE Send
    BY <1>1, SendIInv
<1>2. CASE Arrive
    BY <1>2, ArriveIInv
<1>3. CASE Read
    BY <1>3, ReadIInv
<1>4. CASE Step
  <2>1. CASE Take
      BY <2>1, TakeIInv
  <2>2. CASE Payload
      BY <2>2, PayloadIInv
  <2>3. CASE Header
      BY <2>3, HeaderIInv
  <2>4. CASE Length16
      BY <2>4, Length16IInv
  <2>5. CASE Length64
      BY <2>5, Length64IInv
  <2>6. CASE Mask
      BY <2>6, MaskIInv
  <2>7. CASE Opcode
      BY <2>7, OpcodeIInv
  <2>8. CASE Skip
      BY <2>8, SkipIInv
  <2> QED BY <1>4, <2>1, <2>2, <2>3, <2>4, <2>5, <2>6, <2>7, <2>8 DEF Step
<1>5. CASE UNCHANGED vars
    BY <1>5, StutterIInv
<1>6. Silence => UNCHANGED vars
    BY DEF Silence
<1> QED BY <1>1, <1>2, <1>3, <1>4, <1>5, <1>6 DEF Next

LEMMA Invariant == Spec => []IInv
<1>1. Init => IInv
    BY InitIInv
<1>2. IInv /\ [Next]_vars => IInv'
    BY NextIInv
<1> QED BY <1>1, <1>2, PTL DEF Spec

\* Whatever websocket_read is at, it asks for what it can take: at least one
\* byte of an application's buffer is free while it reads, no ws_t_read has
\* more than it asked for, and what it remembers of a message is an opcode of
\* a message.
THEOREM ReadTypeCorrect == Spec => []TypeOK
<1>1. IInv => TypeOK
    BY DEF IInv, Types
<1> QED BY <1>1, Invariant, PTL

\* websocket_read reads headers, lengths, masks and payload where the peer put
\* them, for frames of every length the protocol has, whatever the sizes of
\* the reads, the pieces the bytes arrive in, and the control frames between.
THEOREM ReadStaysInStep == Spec => []InStep
<1>1. IInv => InStep
    BY StaysInStep
<1> QED BY <1>1, Invariant, PTL

\* Without control frames inside a message the application gets the payload of
\* all messages in order and unmasked: websocket_read loses none at the end of
\* a buffer or a frame, and websocket_apply_mask turns the mask with it. (With
\* them it does not: the run read_fragments shows how.)
THEOREM PayloadInOrder ==
    ASSUME ~Interjections
    PROVE  Spec => []InOrder
<1>1. IInv => InOrder
    BY DEF IInv
<1> QED BY <1>1, Invariant, PTL
=============================================================================
