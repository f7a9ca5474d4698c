------------------------- MODULE Framinator_proofs --------------------------
(* The ring of the framinator loses nothing, for buffers of every aligned    *)
(* size, payload limits and lengths of writes and whatever TCP may do to it, *)
(* until the first of the three events of FraminatorFaults.                  *)
EXTENDS FraminatorFaults, SequenceTheorems, TLAPS

-----------------------------------------------------------------------------
(* The inductive invariant *)

Start(i) == in_flight[i].marker
Finish(i) == After(in_flight[i].marker)

\* A frame in flight lies between its marker and the place its marker leads to.
FrameInPlace(i) ==
    /\ Start(i) \in DOMAIN markers /\ ~markers[Start(i)].wrap
    /\ markers[Start(i)].len = in_flight[i].len
    /\ Start(i) % 4 = 0
    /\ Start(i) + MarkerSize <= in_flight[i].first
    /\ Start(i) + PayloadStart < in_flight[i].first + in_flight[i].len
    /\ in_flight[i].first + in_flight[i].len <= Start(i) + PayloadStart + MaxPayload
    /\ in_flight[i].first + in_flight[i].len <= Finish(i)
    /\ Finish(i) % 4 = 0 \/ (at = "flush" /\ i = Len(in_flight))

FramesInPlace == \A i \in DOMAIN in_flight : FrameInPlace(i)

\* With the tail behind the head, the frames lie between the two.
Straight ==
    tail <= head =>
        /\ tail <= End
        /\ \A i \in DOMAIN in_flight : tail <= Start(i) /\ Finish(i) <= End

\* A wrap marker ahead of the tail, that no frame there extends over.
WrapMarker(w) ==
    /\ w \in DOMAIN markers /\ markers[w].wrap
    /\ w % 4 = 0 /\ tail <= w
    /\ \A i \in DOMAIN in_flight : tail <= Start(i) => Finish(i) <= w

\* With the tail ahead of the head, there is room for a marker between them,
\* and the frames lie between the tail and a wrap marker or before the head.
Wrapped ==
    head < tail =>
        /\ head + MarkerSize <= tail
        /\ \E w \in DOMAIN markers : WrapMarker(w)
        /\ \A i \in DOMAIN in_flight : Start(i) < tail => Finish(i) <= End

\* The frames at the tail were sent before those at the start of the buffer,
\* and on either side they follow one another.
Ordered ==
    \A i, j \in DOMAIN in_flight :
        i < j => /\ tail <= Start(j) => tail <= Start(i)
                 /\ (tail <= Start(i) <=> tail <= Start(j)) => Finish(i) <= Start(j)

\* Where the marker of a frame has to lead.
Successor(i) == IF i = Len(in_flight) THEN End ELSE Start(i + 1)

\* MarkersLead, frame by frame.
Chained ==
    /\ Leads(tail, IF in_flight = <<>> THEN End ELSE Start(1))
    /\ \A i \in DOMAIN in_flight : Leads(Finish(i), Successor(i))

\* The tail stands on a marker's place, but for the end of a flush.
TailInPlace ==
    /\ tail = 0 \/ PayloadStart < tail
    /\ tail % 4 = 0 \/ (at = "flush" /\ tail = head)

\* The head ends the frame being built, and what each wait has done before.
HeadInPlace ==
    /\ at \in {"idle", "copy", "space", "send", "empty"} =>
         /\ head = current_marker + PayloadStart + current_payload_len
         /\ current_marker % 4 = 0
         /\ head <= BufLen - MarkerSize
    /\ at \in {"idle", "copy", "space", "empty"} =>
         head < BufLen - MarkerSize /\ current_payload_len < Large
    /\ at \in {"copy", "space"} => left > 0
    /\ at \in {"idle", "flush", "empty"} => left = 0
    /\ at = "send" => current_payload_len > 0
    /\ at \in {"wrap", "snake", "flush", "empty"} => current_payload_len = 0
    /\ at \in {"wrap", "snake"} => head % 4 = 0
    /\ at = "wrap" => head \in DOMAIN markers /\ markers[head].wrap
    /\ at = "snake" => head + 16 <= BufLen
    /\ at = "flush" => head > 0

Ring ==
    /\ FramesInPlace /\ Straight /\ Wrapped /\ Ordered /\ Chained
    /\ TailInPlace /\ HeadInPlace

IInv ==
    /\ TypeOK
    /\ at # "astray"
    /\ at # "closed" => Ring

-----------------------------------------------------------------------------
(* Offsets and markers *)

Marks == [wrap : BOOLEAN, scratch : 0..63, len : Nat]

IsMap(map) ==
    /\ DOMAIN map \subseteq 0..(BufLen - MarkerSize)
    /\ map \in [DOMAIN map -> Marks]

\* Padding goes to the next aligned offset.
LEMMA PaddedIsNext ==
    ASSUME NEW o \in Nat
    PROVE  /\ Padded(o) \in Nat /\ Padded(o) % 4 = 0
           /\ o <= Padded(o) /\ Padded(o) <= o + 3
           /\ \A b \in Nat : b % 4 = 0 /\ o <= b => Padded(o) <= b
BY DEF Padded, MarkerSize

\* What bytes written over the buffer leave of its markers.
LEMMA Erased ==
    ASSUME NEW map, IsMap(map), NEW from \in Nat, NEW to \in Nat
    PROVE  /\ IsMap(Erase(map, from, to))
           /\ \A o \in DOMAIN map :
                o + MarkerSize <= from \/ to <= o =>
                    /\ o \in DOMAIN Erase(map, from, to)
                    /\ Erase(map, from, to)[o] = map[o]
BY DEF Erase, IsMap

\* A stored marker is there, and so are those it does not overlap.
LEMMA Stored ==
    ASSUME NEW map, IsMap(map),
           NEW offset \in Nat, offset + MarkerSize <= BufLen,
           NEW marker \in Marks
    PROVE  /\ IsMap(Store(map, offset, marker))
           /\ offset \in DOMAIN Store(map, offset, marker)
           /\ Store(map, offset, marker)[offset] = marker
           /\ \A o \in DOMAIN map :
                o + MarkerSize <= offset \/ offset + MarkerSize <= o =>
                    /\ o \in DOMAIN Store(map, offset, marker)
                    /\ Store(map, offset, marker)[o] = map[o]
<1> DEFINE e == Erase(map, offset, offset + MarkerSize)
<1>1. IsMap(e)
    BY Erased DEF MarkerSize
<1>2. \A o \in DOMAIN map :
        o + MarkerSize <= offset \/ offset + MarkerSize <= o =>
            o \in DOMAIN e
    BY Erased DEF MarkerSize
<1>3. DOMAIN e \subseteq DOMAIN map
    BY DEF Erase
<1>4. BufLen \in Nat
    BY SizesAssumption
<1>5. offset \in 0..(BufLen - MarkerSize)
    BY <1>4 DEF MarkerSize
<1>6. \A o \in DOMAIN map : map[o] \in Marks /\ o \in Nat
    BY <1>4 DEF IsMap, MarkerSize
<1> DEFINE s == Store(map, offset, marker)
<1>7. s = [o \in DOMAIN e \cup {offset} |-> IF o = offset THEN marker ELSE map[o]]
    BY DEF Store
<1> HIDE DEF e, s
<1>8. DOMAIN s = DOMAIN e \cup {offset}
    BY <1>7
<1>9. \A o \in DOMAIN s : s[o] = IF o = offset THEN marker ELSE map[o]
    BY <1>7, <1>8
<1>10. IsMap(s)
    BY <1>1, <1>3, <1>5, <1>6, <1>7, <1>8, <1>9 DEF IsMap
<1>11. \A o \in DOMAIN map :
        o + MarkerSize <= offset \/ offset + MarkerSize <= o =>
            o # offset
    BY <1>6 DEF MarkerSize
<1> QED BY <1>2, <1>8, <1>9, <1>10, <1>11 DEF s

\* The scratch length of a frame fits its six bits.
LEMMA MarkersFit ==
    /\ \A scratch \in 0..63, len \in Nat :
         /\ MarkerOf(scratch, len) \in Marks
         /\ MarkerOf(scratch, len) = [wrap |-> FALSE, scratch |-> scratch, len |-> len]
    /\ Empty \in Marks /\ Wrap \in Marks
<1>1. \A scratch \in 0..63 : scratch \div 64 = 0 /\ scratch % 64 = scratch
    BY SMT
<1>2. 0 % 2 # 1
    BY SMT
<1>3. \A scratch \in 0..63, len \in Nat :
        MarkerOf(scratch, len) = [wrap |-> FALSE, scratch |-> scratch, len |-> len]
    BY <1>1, <1>2 DEF MarkerOf
<1>4. ASSUME NEW scratch \in 0..63, NEW len \in Nat
      PROVE  MarkerOf(scratch, len) \in Marks
  <2>1. [wrap |-> FALSE, scratch |-> scratch, len |-> len] \in Marks
      BY DEF Marks
  <2> QED BY <1>3, <2>1
<1>5. Empty \in Marks
    BY <1>4 DEF Empty
<1>6. Wrap \in Marks
    BY DEF Wrap, Marks
<1> QED BY <1>3, <1>4, <1>5, <1>6

\* The sizes in numbers.
LEMMA Sizes ==
    /\ MarkerSize = 4 /\ HeaderSize = 4 /\ PayloadStart = 8
    /\ BufLen \in Nat /\ BufLen >= 24 /\ BufLen % 4 = 0
    /\ MaxPayload \in Nat /\ Large \in Nat /\ Large >= 1 /\ Large <= MaxPayload
    /\ NotWorthIt \in Nat /\ NotWorthIt >= 12 /\ Use16Bit \in Nat
BY SizesAssumption DEF MarkerSize, HeaderSize, PayloadStart

\* Facts of arithmetic that the solver does not find among others.
LEMMA Apart ==
    \A a, b \in Nat : /\ a + MarkerSize <= b => a < b
                      /\ a < b <=> ~(b <= a)
BY DEF MarkerSize

LEMMA ThreeInOrder == \A a, b, c, d \in Nat : a <= b /\ b <= c /\ c <= d => a <= d
OBVIOUS

Frames == [marker : 0..BufLen, first : 0..BufLen, len : Nat]

\* The type invariant by the names used here.
LEMMA TypeFacts ==
    TypeOK <=>
        /\ head \in 0..BufLen /\ tail \in 0..BufLen /\ current_marker \in 0..BufLen
        /\ current_payload_len \in 0..MaxPayload
        /\ IsMap(markers)
        /\ in_flight \in Seq(Frames)
        /\ at \in Places /\ left \in Nat
BY DEF TypeOK, IsMap, Marks, Frames

\* The ring in numbers.
LEMMA Numbers ==
    ASSUME IInv, at # "closed"
    PROVE  /\ head \in Nat /\ head <= BufLen /\ tail \in Nat /\ tail <= BufLen
           /\ End \in Nat /\ End <= head
           /\ Len(in_flight) \in Nat /\ DOMAIN in_flight = 1..Len(in_flight)
           /\ \A i \in DOMAIN in_flight :
                /\ in_flight[i] \in Frames
                /\ Start(i) \in Nat /\ Finish(i) \in Nat
                /\ Start(i) + 8 < Finish(i)
<1> USE Sizes
<1>1. TypeOK /\ Ring
    BY DEF IInv
<1>2. /\ head \in Nat /\ head <= BufLen /\ tail \in Nat /\ tail <= BufLen
      /\ current_marker \in Nat /\ current_payload_len \in Nat
    BY <1>1, TypeFacts
<1>3. End \in Nat /\ End <= head
    BY <1>1, <1>2 DEF End, Ring, HeadInPlace, TypeOK, Places, Waits, IInv
<1>4. Len(in_flight) \in Nat /\ DOMAIN in_flight = 1..Len(in_flight)
    BY <1>1, TypeFacts, LenProperties
<1>5. ASSUME NEW i \in DOMAIN in_flight
      PROVE  /\ in_flight[i] \in Frames
             /\ Start(i) \in Nat /\ Finish(i) \in Nat
             /\ Start(i) + 8 < Finish(i)
  <2>1. in_flight[i] \in Frames
      BY <1>1, <1>4, TypeFacts, ElementOfSeq
  <2>2. Start(i) \in Nat /\ in_flight[i].first \in Nat /\ in_flight[i].len \in Nat
      BY <2>1 DEF Frames, Start
  <2>3. FrameInPlace(i)
      BY <1>1 DEF Ring, FramesInPlace
  <2>4. IsMap(markers)
      BY <1>1, TypeFacts
  <2>5. markers[Start(i)] \in Marks
      BY <2>3, <2>4 DEF IsMap, FrameInPlace
  <2>6. markers[Start(i)].len \in Nat /\ markers[Start(i)].scratch \in Nat
      BY <2>5 DEF Marks
  <2>7. Finish(i) \in Nat
      BY <2>2, <2>6 DEF Finish, After, Start
  <2> QED BY <2>1, <2>2, <2>3, <2>7 DEF FrameInPlace
<1> QED BY <1>2, <1>3, <1>4, <1>5

-----------------------------------------------------------------------------
(* Steps that send no frame *)

\* The markers the callback has still to find.
Protected(o) == o + MarkerSize <= End \/ (head < tail /\ tail <= o)

Keeps(map) ==
    \A o \in DOMAIN markers :
        Protected(o) => o \in DOMAIN map /\ map[o] = markers[o]

\* Those of the frames in flight and the wrap marker are among them.
LEMMA FramesProtected ==
    ASSUME IInv, at # "closed"
    PROVE  /\ \A i \in DOMAIN in_flight : Protected(Start(i))
           /\ \A w \in DOMAIN markers : head < tail /\ tail <= w => Protected(w)
<1> USE Sizes
<1>1. ASSUME NEW i \in DOMAIN in_flight PROVE Protected(Start(i))
    BY <1>1, Numbers DEF Protected, IInv, Ring, Straight, Wrapped
<1> QED BY <1>1 DEF Protected

\* A wrap marker leads only from behind the tail to the front of it.
LEMMA Straightforward ==
    ASSUME IInv, at # "closed"
    PROVE  /\ tail <= head /\ in_flight # <<>> => tail = Start(1)
           /\ \A i \in DOMAIN in_flight :
                \/ Finish(i) = Successor(i)
                \/ /\ head < tail /\ tail <= Finish(i) /\ Successor(i) = 0
                   /\ Finish(i) \in DOMAIN markers /\ markers[Finish(i)].wrap
<1> USE Sizes
<1>1. /\ head \in Nat /\ tail \in Nat /\ End \in Nat /\ End <= head
      /\ Len(in_flight) \in Nat /\ DOMAIN in_flight = 1..Len(in_flight)
    BY Numbers
<1>2. \A i \in DOMAIN in_flight :
        Start(i) \in Nat /\ Finish(i) \in Nat /\ Start(i) + 8 < Finish(i)
    BY Numbers
<1>3. Chained /\ Straight /\ Wrapped /\ Ordered
    BY DEF IInv, Ring
<1>4. ASSUME tail <= head, in_flight # <<>> PROVE tail = Start(1)
  <2>1. 1 \in DOMAIN in_flight
      BY <1>1, <1>4
  <2>2. tail <= Start(1)
      BY <1>3, <1>4, <2>1 DEF Straight
  <2>3. Leads(tail, Start(1))
      BY <1>3, <1>4 DEF Chained
  <2> QED BY <1>1, <1>2, <2>1, <2>2, <2>3 DEF Leads
<1>5. ASSUME NEW i \in DOMAIN in_flight, Finish(i) # Successor(i)
      PROVE  /\ head < tail /\ tail <= Finish(i) /\ Successor(i) = 0
             /\ Finish(i) \in DOMAIN markers /\ markers[Finish(i)].wrap
  <2>1. /\ Finish(i) \in DOMAIN markers /\ markers[Finish(i)].wrap
        /\ Successor(i) = 0
      BY <1>3, <1>5 DEF Chained, Leads
  <2>2. i # Len(in_flight) =>
          i + 1 \in DOMAIN in_flight /\ i < i + 1 /\ Start(i + 1) = 0
      BY <1>1, <2>1 DEF Successor
  <2>3. i = Len(in_flight) => End = 0
      BY <2>1 DEF Successor
  <2>4. i # Len(in_flight) => ~(tail <= Start(i) <=> tail <= Start(i + 1))
      BY <1>2, <1>3, <2>2 DEF Ordered
  <2>5. i # Len(in_flight) => tail <= Start(i) /\ ~(tail <= Start(i + 1))
      BY <1>3, <2>2, <2>4 DEF Ordered
  <2>6. ~(tail <= head)
      BY <1>1, <1>2, <1>3, <2>2, <2>3, <2>5 DEF Straight
  <2>7. tail <= Start(i)
      BY <1>1, <1>2, <1>3, <2>3, <2>5, <2>6 DEF Wrapped
  <2> QED BY <1>1, <1>2, <2>1, <2>6, <2>7
<1> QED BY <1>4, <1>5

\* A step that leaves the tail, the frames and the markers to be found alone
\* keeps the ring, wherever the head goes without coming to the tail.
LEMMA NothingSent ==
    ASSUME IInv, at # "closed", at # "flush", at' # "flush",
           in_flight' = in_flight, tail' = tail, End' = End, head' \in Nat,
           Keeps(markers'),
           tail <= head => tail <= head',
           head < tail => head' + MarkerSize <= tail
    PROVE  FramesInPlace' /\ Straight' /\ Wrapped' /\ Ordered' /\ Chained'
<1> USE Sizes
<1>1. /\ head \in Nat /\ tail \in Nat /\ End \in Nat /\ End <= head
      /\ DOMAIN in_flight = 1..Len(in_flight) /\ Len(in_flight) \in Nat
    BY Numbers
<1>2. FramesInPlace /\ Straight /\ Wrapped /\ Ordered /\ Chained
    BY DEF IInv, Ring
<1>3. head < tail <=> head' < tail
  <2>1. head' \in Nat
      OBVIOUS
  <2>2. head < tail => head' < tail
      BY <1>1, <2>1, Apart
  <2>3. ~(head < tail) => ~(head' < tail)
      BY <1>1, <2>1, Apart
  <2> QED BY <2>2, <2>3
<1>4. \A i \in DOMAIN in_flight :
        /\ Start(i) \in DOMAIN markers'
        /\ markers'[Start(i)] = markers[Start(i)]
    BY <1>2, FramesProtected DEF Keeps, FramesInPlace, FrameInPlace
<1>5. \A i \in DOMAIN in_flight : Start(i)' = Start(i) /\ Finish(i)' = Finish(i)
    BY <1>4 DEF Start, Finish, After
<1>6. FramesInPlace'
    BY <1>2, <1>4, <1>5 DEF FramesInPlace, FrameInPlace, Start
<1>7. Straight'
    BY <1>1, <1>2, <1>3, <1>5 DEF Straight
<1>8. Ordered'
    BY <1>2, <1>5 DEF Ordered
<1>9. \A w \in DOMAIN markers :
        head < tail /\ tail <= w =>
            w \in DOMAIN markers' /\ markers'[w] = markers[w]
    BY FramesProtected DEF Keeps
<1>10. Wrapped'
  <2> SUFFICES ASSUME head' < tail'
               PROVE  /\ head' + MarkerSize <= tail'
                      /\ \E w \in DOMAIN markers' : WrapMarker(w)'
                      /\ \A i \in DOMAIN in_flight' :
                           Start(i)' < tail' => Finish(i)' <= End'
      BY DEF Wrapped
  <2>1. head < tail
      BY <1>3
  <2>2. PICK w \in DOMAIN markers : WrapMarker(w)
      BY <1>2, <2>1 DEF Wrapped
  <2>3. w \in DOMAIN markers' /\ markers'[w] = markers[w]
      BY <1>9, <2>1, <2>2 DEF WrapMarker
  <2>4. WrapMarker(w)'
      BY <1>5, <2>2, <2>3 DEF WrapMarker
  <2>5. \A i \in DOMAIN in_flight' : Start(i)' < tail' => Finish(i)' <= End'
      BY <1>2, <1>5, <2>1 DEF Wrapped
  <2> QED BY <2>1, <2>3, <2>4, <2>5
<1>11. Chained'
  <2>1. \A i \in DOMAIN in_flight : Successor(i)' = Successor(i)
      BY <1>1, <1>5 DEF Successor
  <2>2. ASSUME NEW i \in DOMAIN in_flight
        PROVE  Leads(Finish(i), Successor(i))'
    <3>1. CASE Finish(i) = Successor(i)
        BY <1>5, <2>1, <3>1 DEF Leads
    <3>2. CASE Finish(i) # Successor(i)
      <4>1. /\ head < tail /\ tail <= Finish(i) /\ Successor(i) = 0
            /\ Finish(i) \in DOMAIN markers /\ markers[Finish(i)].wrap
          BY <3>2, Straightforward
      <4> QED BY <1>5, <1>9, <2>1, <4>1 DEF Leads
    <3> QED BY <3>1, <3>2
  <2>3. Leads(tail, IF in_flight = <<>> THEN End ELSE Start(1))'
    <3> DEFINE first == IF in_flight = <<>> THEN End ELSE Start(1)
    <3>1. first' = first
        BY <1>1, <1>5
    <3>2. CASE tail = first
        BY <3>1, <3>2 DEF Leads
    <3>3. CASE tail # first
      <4>1. tail \in DOMAIN markers /\ markers[tail].wrap /\ first = 0
          BY <1>2, <3>3 DEF Chained, Leads
      <4>2. head < tail
          BY <1>1, <1>2, <3>3, <4>1, Straightforward DEF Straight
      <4>3. tail' \in DOMAIN markers' /\ markers'[tail'].wrap /\ first' = 0
          BY <1>1, <1>9, <3>1, <4>1, <4>2
      <4> HIDE DEF first
      <4>4. Leads(tail, first)'
          BY <4>3 DEF Leads
      <4> QED BY <4>4 DEF first
    <3> QED BY <3>2, <3>3
  <2> QED BY <1>5, <2>1, <2>2, <2>3 DEF Chained
<1> QED BY <1>6, <1>7, <1>8, <1>10, <1>11

-----------------------------------------------------------------------------
(* Steps that send a frame *)

\* What TCP gets, and what its marker leads over.
LEMMA FrameFacts ==
    ASSUME TypeOK, NEW end \in 0..BufLen,
           head = current_marker + PayloadStart + current_payload_len,
           current_payload_len > 0, head <= end, end <= head + 3,
           current_marker + PayloadStart <= BufLen
    PROVE  /\ Frame \in Frames
           /\ Frame.marker = current_marker
           /\ current_marker + MarkerSize <= Frame.first
           /\ Frame.first + Frame.len = head
           /\ end - current_marker - Frame.len \in 0..63
<1> USE Sizes
<1> DEFINE header == IF current_payload_len >= Use16Bit THEN 4 ELSE 2
           len == current_payload_len + header
           first == current_marker + PayloadStart - header
<1>1. /\ current_marker \in Nat /\ current_payload_len \in Nat /\ head \in Nat
      /\ end \in Nat /\ current_marker <= BufLen /\ end <= BufLen
    BY DEF TypeOK
<1>2. Frame = [marker |-> current_marker, len |-> len, first |-> first]
    BY DEF Frame
<1>3. header \in Nat /\ header <= 4
    BY <1>1
<1> HIDE DEF header
<1>4. len \in Nat /\ end - current_marker - len \in 0..63
    BY <1>1, <1>3
<1>5. first \in 0..BufLen
    BY <1>1, <1>3
<1>6. current_marker + MarkerSize <= first /\ first + len = head
    BY <1>1, <1>3
<1>7. Frame.marker = current_marker /\ Frame.len = len /\ Frame.first = first
    BY <1>2
<1>8. Frame \in Frames
    BY <1>1, <1>2, <1>4, <1>5 DEF Frames
<1> HIDE DEF len, first
<1> QED BY <1>4, <1>6, <1>7, <1>8

\* What CompleteAndSend makes of the frame that ends at `end'.
LEMMA Completed ==
    ASSUME TypeOK, NEW map, IsMap(map), NEW end \in 0..BufLen,
           head = current_marker + PayloadStart + current_payload_len,
           current_payload_len > 0, head <= end, end <= head + 3,
           current_marker + PayloadStart <= BufLen,
           CompleteAndSend(map, end), Taken
    PROVE  \E frame \in Frames, marker \in Marks :
             /\ in_flight' = Append(in_flight, frame)
             /\ markers' = Store(Erase(map, frame.first, current_marker + PayloadStart),
                                 current_marker, marker)
             /\ current_payload_len' = 0
             /\ frame.marker = current_marker
             /\ frame.len = marker.len /\ ~marker.wrap
             /\ current_marker + marker.len + marker.scratch = end
             /\ current_marker + MarkerSize <= frame.first
             /\ frame.first + frame.len = head
<1> DEFINE scratch == end - current_marker - Frame.len
           marker == MarkerOf(scratch, Frame.len)
<1>1. /\ Frame \in Frames
      /\ Frame.marker = current_marker
      /\ current_marker + MarkerSize <= Frame.first
      /\ Frame.first + Frame.len = head
      /\ scratch \in 0..63
    BY FrameFacts
<1>2. /\ in_flight' = Append(in_flight, Frame)
      /\ markers' = Store(Erase(map, Frame.first, current_marker + PayloadStart),
                          current_marker, marker)
      /\ current_payload_len' = 0
    BY DEF CompleteAndSend, Taken
<1>3. Frame.len \in Nat
    BY <1>1 DEF Frames
<1>4. marker \in Marks /\ marker = [wrap |-> FALSE, scratch |-> scratch, len |-> Frame.len]
    BY <1>1, <1>3, MarkersFit
<1>5. marker.len = Frame.len /\ marker.scratch = scratch /\ ~marker.wrap
  <2> HIDE DEF marker, scratch
  <2> QED BY <1>4
<1>6. current_marker + Frame.len + scratch = end
  <2>1. current_marker \in Nat /\ end \in Nat
      BY Sizes, TypeFacts
  <2> QED BY <1>3, <2>1
<1> HIDE DEF marker, scratch
<1> QED BY <1>1, <1>2, <1>4, <1>5, <1>6

\* A step that sends the frame being built keeps the ring, if it does not touch
\* the markers the callback has to find and stops before the tail.
LEMMA FrameSent ==
    ASSUME IInv, at \in {"idle", "send"}, current_payload_len > 0,
           NEW map, IsMap(map), Keeps(map),
           NEW end \in 0..BufLen, head <= end, end <= head + 3,
           CompleteAndSend(map, end), Taken, tail' = tail,
           head' \in Nat, at' # "closed", End' = end, end <= head',
           head < tail => head' + MarkerSize <= tail,
           end % 4 = 0 \/ at' = "flush"
    PROVE  /\ FramesInPlace' /\ Straight' /\ Wrapped' /\ Ordered' /\ Chained'
           /\ IsMap(markers') /\ in_flight' \in Seq(Frames)
           /\ current_payload_len' = 0
           /\ \A o \in DOMAIN map :
                head <= o => o \in DOMAIN markers' /\ markers'[o] = map[o]
<1> USE Sizes
<1>1. /\ head \in Nat /\ tail \in Nat /\ End \in Nat /\ End <= head
      /\ DOMAIN in_flight = 1..Len(in_flight) /\ Len(in_flight) \in Nat
    BY Numbers
<1>2. /\ FramesInPlace /\ Straight /\ Wrapped /\ Ordered /\ Chained
      /\ HeadInPlace /\ TypeOK
    BY DEF IInv, Ring
<1>3. /\ head = current_marker + PayloadStart + current_payload_len
      /\ current_marker % 4 = 0 /\ head <= BufLen - MarkerSize
    BY <1>2 DEF HeadInPlace
<1>4. /\ current_marker \in Nat /\ current_payload_len \in Nat
      /\ in_flight \in Seq(Frames) /\ current_payload_len <= MaxPayload
    BY <1>2, TypeFacts
<1>5. End = current_marker
    BY DEF End
<1>6. end \in Nat /\ current_marker + PayloadStart <= BufLen
    BY <1>1, <1>3, <1>4
<1>7. PICK frame \in Frames, marker \in Marks :
         /\ in_flight' = Append(in_flight, frame)
         /\ markers' = Store(Erase(map, frame.first, current_marker + PayloadStart),
                             current_marker, marker)
         /\ current_payload_len' = 0
         /\ frame.marker = current_marker
         /\ frame.len = marker.len /\ ~marker.wrap
         /\ current_marker + marker.len + marker.scratch = end
         /\ current_marker + MarkerSize <= frame.first
         /\ frame.first + frame.len = head
    BY <1>2, <1>3, <1>6, Completed
<1>10. PICK n \in Nat : n = Len(in_flight) /\ DOMAIN in_flight = 1..n
    BY <1>1
<1>8. /\ in_flight' \in Seq(Frames) /\ Len(in_flight') = n + 1
      /\ \A i \in 1..n : in_flight'[i] = in_flight[i]
      /\ in_flight'[n + 1] = frame
    BY <1>4, <1>7, <1>10, AppendProperties
<1>9. DOMAIN in_flight' = 1..(n + 1)
    BY <1>1, <1>8, LenProperties
\* The markers
<1>11. /\ IsMap(markers')
       /\ current_marker \in DOMAIN markers'
       /\ markers'[current_marker] = marker
       /\ \A o \in DOMAIN map :
            o + MarkerSize <= current_marker \/ current_marker + PayloadStart <= o =>
                o \in DOMAIN markers' /\ markers'[o] = map[o]
  <2> DEFINE e == Erase(map, frame.first, current_marker + PayloadStart)
  <2>1. frame.first \in Nat /\ current_marker + PayloadStart \in Nat
      BY <1>4 DEF Frames
  <2>2. /\ IsMap(e)
        /\ \A o \in DOMAIN map :
             o + MarkerSize <= frame.first \/ current_marker + PayloadStart <= o =>
                 o \in DOMAIN e /\ e[o] = map[o]
      BY <2>1, Erased
  <2> HIDE DEF e
  <2>3. markers' = Store(e, current_marker, marker)
      BY <1>7 DEF e
  <2>4. /\ IsMap(markers')
        /\ current_marker \in DOMAIN markers'
        /\ markers'[current_marker] = marker
        /\ \A o \in DOMAIN e :
             o + MarkerSize <= current_marker \/ current_marker + MarkerSize <= o =>
                 o \in DOMAIN markers' /\ markers'[o] = e[o]
      BY <1>4, <1>6, <2>2, <2>3, Stored
  <2>5. \A o \in DOMAIN map : o \in Nat
      BY DEF IsMap
  <2>6. \A o \in DOMAIN map :
          /\ o + MarkerSize <= current_marker => o + MarkerSize <= frame.first
          /\ current_marker + PayloadStart <= o => current_marker + MarkerSize <= o
      BY <1>4, <1>7, <2>1, <2>5
  <2> QED BY <2>2, <2>4, <2>6
<1>12. \A o \in DOMAIN map :
        head <= o => o \in DOMAIN markers' /\ markers'[o] = map[o]
  <2>1. \A o \in DOMAIN map : o \in Nat
      BY DEF IsMap
  <2> QED BY <1>1, <1>3, <1>4, <1>11, <2>1
<1>13. \A o \in DOMAIN markers :
        Protected(o) => o \in DOMAIN markers' /\ markers'[o] = markers[o]
  <2>1. \A o \in DOMAIN markers : o \in Nat
      BY <1>2, TypeFacts DEF IsMap
  <2>2. ASSUME NEW o \in DOMAIN markers, Protected(o)
        PROVE  o \in DOMAIN markers' /\ markers'[o] = markers[o]
    <3>1. o \in DOMAIN map /\ map[o] = markers[o]
        BY <2>2 DEF Keeps
    <3>2. o + MarkerSize <= current_marker \/ current_marker + PayloadStart <= o
        BY <1>1, <1>3, <1>4, <1>5, <2>1, <2>2 DEF Protected
    <3> QED BY <1>11, <3>1, <3>2
  <2> QED BY <2>2
\* The frames that were in flight
<1>14. \A i \in 1..n :
        /\ Start(i) \in DOMAIN markers /\ Start(i) \in DOMAIN markers'
        /\ markers'[Start(i)] = markers[Start(i)]
    BY <1>2, <1>10, <1>13, FramesProtected DEF FramesInPlace, FrameInPlace
<1>15. \A i \in 1..n : Start(i)' = Start(i) /\ Finish(i)' = Finish(i)
    BY <1>8, <1>14 DEF Start, Finish, After
<1>16. \A i \in 1..n :
        /\ Start(i) \in Nat /\ Finish(i) \in Nat /\ Start(i) + 8 < Finish(i)
        /\ tail <= Start(i) \/ Finish(i) <= current_marker
        /\ tail <= head => tail <= Start(i) /\ Finish(i) <= current_marker
    BY <1>1, <1>2, <1>5, <1>10, Numbers DEF Straight, Wrapped
\* The new one
<1>17. Start(n + 1)' = current_marker /\ Finish(n + 1)' = end
    BY <1>7, <1>8, <1>11 DEF Start, Finish, After
<1>18. tail <= head => tail <= current_marker
    BY <1>2, <1>5 DEF Straight
<1>19. /\ head < tail <=> head' < tail
       /\ tail <= head <=> tail <= head'
       /\ head < tail <=> ~(tail <= head)
       /\ head < tail => current_marker < tail
  <2>1. head \in Nat /\ head' \in Nat /\ tail \in Nat
      BY <1>1
  <2>2. tail <= head => tail <= head'
      BY <1>6, <2>1, ThreeInOrder
  <2>3. head < tail => head' < tail
      BY <2>1, Apart
  <2> QED BY <1>3, <1>4, <2>1, <2>2, <2>3, Apart
<1>20. DOMAIN in_flight' = 1..(n + 1) /\ \A i \in 1..(n + 1) : i \in 1..n \/ i = n + 1
    BY <1>9, <1>10
<1>21. FramesInPlace'
  <2>1. ASSUME NEW i \in 1..n PROVE FrameInPlace(i)'
    <3>1. FrameInPlace(i) /\ Finish(i) % 4 = 0
        BY <1>2, <1>10 DEF FramesInPlace, FrameInPlace
    <3> QED BY <1>8, <1>14, <1>15, <3>1 DEF FrameInPlace, Start
  <2>2. FrameInPlace(n + 1)'
    <3>1. /\ frame.first \in Nat /\ frame.len \in Nat
          /\ current_marker + PayloadStart < frame.first + frame.len
          /\ frame.first + frame.len <= current_marker + PayloadStart + MaxPayload
          /\ frame.first + frame.len <= end
      <4>1. frame.first \in Nat /\ frame.len \in Nat
          BY DEF Frames
      <4>2. frame.first + frame.len = head
          BY <1>7
      <4>3. /\ current_marker + 8 < head
            /\ head <= current_marker + 8 + MaxPayload
          BY <1>3, <1>4
      <4> QED BY <4>1, <4>2, <4>3
    <3>2. Finish(n + 1)' % 4 = 0 \/ (at' = "flush" /\ n + 1 = Len(in_flight'))
        BY <1>8, <1>17
    <3> QED BY <1>3, <1>7, <1>8, <1>11, <1>17, <3>1, <3>2
         DEF FrameInPlace, Start, Finish
  <2> QED BY <1>20, <2>1, <2>2 DEF FramesInPlace
<1>22. Straight'
  <2> SUFFICES ASSUME tail <= head
               PROVE  /\ tail <= end
                      /\ \A i \in 1..(n + 1) : tail <= Start(i)' /\ Finish(i)' <= end
      BY <1>19, <1>20 DEF Straight
  <2>1. tail <= end /\ current_marker <= end
      BY <1>1, <1>3, <1>4, <1>6, <1>18
  <2>2. ASSUME NEW i \in 1..n PROVE tail <= Start(i)' /\ Finish(i)' <= end
      BY <1>4, <1>6, <1>15, <1>16, <2>1
  <2>3. tail <= Start(n + 1)' /\ Finish(n + 1)' <= end
      BY <1>6, <1>17, <1>18
  <2> QED BY <1>20, <2>1, <2>2, <2>3
<1>23. Wrapped'
  <2> SUFFICES ASSUME head < tail
               PROVE  /\ head' + MarkerSize <= tail
                      /\ \E w \in DOMAIN markers' : WrapMarker(w)'
                      /\ \A i \in 1..(n + 1) : Start(i)' < tail => Finish(i)' <= end
      BY <1>19, <1>20 DEF Wrapped
  <2>1. current_marker <= end
      BY <1>1, <1>3, <1>4, <1>6
  <2>2. ASSUME NEW i \in 1..n, Start(i)' < tail PROVE Finish(i)' <= end
    <3>1. /\ Start(i) \in Nat /\ Finish(i) \in Nat /\ Start(i) < tail
          /\ tail <= Start(i) \/ Finish(i) <= current_marker
        BY <1>15, <1>16, <2>2
    <3>2. Finish(i) <= current_marker
        BY <1>1, <3>1, Apart
    <3> QED BY <1>4, <1>6, <1>15, <2>1, <3>1, <3>2
  <2>3. Finish(n + 1)' <= end
      BY <1>6, <1>17
  <2>4. PICK w \in DOMAIN markers : WrapMarker(w)
      BY <1>2 DEF Wrapped
  <2>5. w \in DOMAIN markers' /\ markers'[w] = markers[w]
      BY <1>13, <2>4, FramesProtected DEF WrapMarker
  <2>6. \A i \in 1..n : tail <= Start(i)' => Finish(i)' <= w
      BY <1>10, <1>15, <2>4 DEF WrapMarker
  <2>7. ~(tail <= Start(n + 1)')
      BY <1>1, <1>4, <1>17, <1>19
  <2>8. WrapMarker(w)'
      BY <1>20, <2>4, <2>5, <2>6, <2>7 DEF WrapMarker
  <2> QED BY <1>20, <2>2, <2>3, <2>5, <2>8
<1>24. Ordered'
  <2> SUFFICES ASSUME NEW i \in 1..(n + 1), NEW j \in 1..(n + 1), i < j
               PROVE  /\ tail <= Start(j)' => tail <= Start(i)'
                      /\ (tail <= Start(i)' <=> tail <= Start(j)') =>
                           Finish(i)' <= Start(j)'
      BY <1>20 DEF Ordered
  <2>1. i \in 1..n
      BY <1>10
  <2>2. CASE j \in 1..n
      BY <1>2, <1>10, <1>15, <2>1, <2>2 DEF Ordered
  <2>3. CASE j = n + 1
    <3>1. Start(j)' = current_marker
        BY <1>17, <2>3
    <3>2. tail <= current_marker => tail <= head
        BY <1>1, <1>4, <1>19
    <3>3. tail <= current_marker => tail <= Start(i)'
        BY <1>15, <1>16, <2>1, <3>2
    <3>4. tail <= current_marker => Finish(i)' <= current_marker
        BY <1>15, <1>16, <2>1, <3>2
    <3>5. ~(tail <= Start(i)') => Finish(i)' <= current_marker
        BY <1>15, <1>16, <2>1
    <3> QED BY <3>1, <3>3, <3>4, <3>5
  <2> QED BY <1>20, <2>2, <2>3
<1>25. Chained'
  <2>1. ASSUME NEW o, NEW place, Leads(o, place),
               o \in DOMAIN markers /\ markers[o].wrap => o = place \/ Protected(o)
        PROVE  \/ o = place
               \/ o \in DOMAIN markers' /\ markers'[o].wrap /\ place = 0
      BY <1>13, <2>1 DEF Leads
  <2>2. Leads(tail, IF in_flight = <<>> THEN End ELSE Start(1))'
    <3>1. CASE in_flight = <<>>
      <4>1. n = 0 /\ Start(1)' = current_marker /\ in_flight' # <<>>
        <5>1. n = 0
            BY <1>10, <3>1, EmptySeq
        <5>2. in_flight' # <<>>
            BY <1>8, <1>10, EmptySeq
        <5> QED BY <1>17, <5>1, <5>2
      <4>2. Leads(tail, current_marker)
          BY <1>2, <1>5, <3>1 DEF Chained
      <4>3. tail = current_marker \/ head < tail
          BY <1>1, <1>4, <1>16, <1>18, <1>19, <4>2 DEF Leads
      <4>4. tail \in DOMAIN markers /\ head < tail => Protected(tail)
          BY <1>1, FramesProtected
      <4> QED BY <2>1, <4>1, <4>2, <4>3, <4>4 DEF Leads
    <3>2. CASE in_flight # <<>>
      <4>1. 1 \in 1..n /\ Start(1)' = Start(1) /\ in_flight' # <<>>
        <5>1. n # 0
            BY <1>4, <1>10, <3>2, EmptySeq
        <5>2. in_flight' # <<>>
            BY <1>8, <1>10, EmptySeq
        <5> QED BY <1>15, <5>1, <5>2
      <4>2. Leads(tail, Start(1))
          BY <1>2, <3>2 DEF Chained
      <4>3. tail = Start(1) \/ head < tail
          BY <1>19, <3>2, Straightforward
      <4>4. tail \in DOMAIN markers /\ head < tail => Protected(tail)
          BY <1>1, FramesProtected
      <4> QED BY <2>1, <4>1, <4>2, <4>3, <4>4 DEF Leads
    <3> QED BY <3>1, <3>2
  <2>3. ASSUME NEW i \in 1..n PROVE Leads(Finish(i), Successor(i))'
    <3>1. Successor(i)' = Successor(i)
        BY <1>5, <1>8, <1>10, <1>15, <1>17 DEF Successor
    <3>2. CASE Finish(i) = Successor(i)
        BY <1>15, <3>1, <3>2 DEF Leads
    <3>3. CASE Finish(i) # Successor(i)
      <4>1. /\ head < tail /\ tail <= Finish(i) /\ Successor(i) = 0
            /\ Finish(i) \in DOMAIN markers /\ markers[Finish(i)].wrap
          BY <1>10, <3>3, Straightforward
      <4>2. Protected(Finish(i))
          BY <4>1, FramesProtected
      <4> QED BY <1>13, <1>15, <3>1, <4>1, <4>2 DEF Leads
    <3> QED BY <3>2, <3>3
  <2>4. Leads(Finish(n + 1), Successor(n + 1))'
      BY <1>8, <1>17 DEF Leads, Successor
  <2> QED BY <1>20, <2>2, <2>3, <2>4 DEF Chained
<1> QED BY <1>7, <1>8, <1>11, <1>12, <1>21, <1>22, <1>23, <1>24, <1>25

-----------------------------------------------------------------------------
(* Each action keeps the invariant *)

LEMMA PlacesSplit ==
    /\ Waits = {"space", "wrap", "snake", "flush", "empty"}
    /\ Places = {"space", "wrap", "snake", "flush", "empty", "idle", "copy", "send",
                 "closed", "astray"}
BY DEF Waits, Places

LEMMA InitIInv == Init => IInv
<1> SUFFICES ASSUME Init PROVE IInv
    OBVIOUS
<1> USE Sizes
<1>1. /\ head = 8 /\ tail = 0 /\ current_marker = 0 /\ current_payload_len = 0
      /\ markers = [o \in {0} |-> Empty] /\ in_flight = <<>>
      /\ at = "idle" /\ left = 0
    BY DEF Init
<1>2. in_flight \in Seq(Frames) /\ DOMAIN in_flight = {} /\ Len(in_flight) = 0
  <2>1. in_flight \in Seq(Frames) /\ Len(in_flight) = 0
      BY <1>1, EmptySeq
  <2>2. DOMAIN in_flight = 1..0
      BY <2>1, LenProperties
  <2> QED BY <2>1, <2>2
<1>3. IsMap(markers)
    BY <1>1, MarkersFit DEF IsMap
<1>4. TypeOK
    BY <1>1, <1>2, <1>3, TypeFacts, PlacesSplit
<1>5. FramesInPlace /\ Ordered
    BY <1>2 DEF FramesInPlace, Ordered
<1>6. Straight /\ Wrapped /\ Chained
    BY <1>1, <1>2 DEF Straight, Wrapped, Chained, End, Leads
<1>7. TailInPlace /\ HeadInPlace
    BY <1>1 DEF TailInPlace, HeadInPlace
<1> QED BY <1>1, <1>4, <1>5, <1>6, <1>7 DEF IInv, Ring

\* In an aligned ring, the tail is aligned but for the end of a flush.
LEMMA TailAligned ==
    ASSUME IInv, at # "closed", at # "flush"
    PROVE  tail \in Nat /\ tail % 4 = 0
BY Numbers DEF IInv, Ring, TailInPlace

\* A step of the task alone, up to the places of head and tail.
LEMMA Moved ==
    ASSUME IInv, at \notin {"closed", "flush"}, at' \notin {"closed", "astray", "flush"},
           in_flight' = in_flight, tail' = tail, End' = End,
           IsMap(markers'), Keeps(markers'),
           tail <= head => tail <= head',
           head < tail => head' + MarkerSize <= tail,
           head' \in 0..BufLen, current_marker' \in 0..BufLen,
           current_payload_len' \in 0..MaxPayload,
           at' \in Places, left' \in Nat,
           HeadInPlace'
    PROVE  IInv'
<1>1. head' \in Nat
    BY Sizes
<1>2. FramesInPlace' /\ Straight' /\ Wrapped' /\ Ordered' /\ Chained'
    BY <1>1, NothingSent
<1>3. TypeOK /\ TailInPlace
    BY DEF IInv, Ring
<1>4. TypeOK'
  <2>1. in_flight' \in Seq(Frames) /\ tail' \in 0..BufLen
      BY <1>3, TypeFacts
  <2>2. (TypeOK <=> TypeFacts!2)'
      BY TypeFacts, PTL
  <2> QED BY <2>1, <2>2
<1>5. TailInPlace'
    BY <1>3 DEF TailInPlace
<1> QED BY <1>2, <1>4, <1>5 DEF IInv, Ring

LEMMA WriteIInv == ASSUME IInv, Write PROVE IInv'
<1>1. /\ at = "idle" /\ at' = "copy" /\ left' \in Lengths
      /\ UNCHANGED <<head, tail, current_marker, current_payload_len, markers, in_flight>>
    BY DEF Write, frameVars
<1>2. left' \in Nat /\ left' > 0
    BY <1>1, LengthsAssumption
<1>3. TypeOK /\ HeadInPlace
    BY <1>1 DEF IInv, Ring
<1>4. End' = End /\ Keeps(markers')
    BY <1>1 DEF End, Keeps
<1>5. HeadInPlace'
    BY <1>1, <1>2, <1>3 DEF HeadInPlace
<1>6. head < tail => head + MarkerSize <= tail
    BY <1>1 DEF IInv, Ring, Wrapped
<1> QED BY <1>1, <1>2, <1>3, <1>4, <1>5, <1>6, TypeFacts, PlacesSplit, Moved

LEMMA WaitIInv == ASSUME IInv, AwaitSpace \/ SpaceFound PROVE IInv'
<1>1. /\ (at = "copy" /\ at' = "space") \/ (at = "space" /\ at' = "copy")
      /\ UNCHANGED <<head, tail, current_marker, current_payload_len, markers,
                     in_flight, left>>
    BY DEF AwaitSpace, SpaceFound, frameVars
<1>2. TypeOK /\ HeadInPlace
    BY <1>1 DEF IInv, Ring
<1>3. End' = End /\ Keeps(markers')
    BY <1>1 DEF End, Keeps
<1>4. HeadInPlace'
    BY <1>1, <1>2 DEF HeadInPlace
<1>5. head < tail => head + MarkerSize <= tail
    BY <1>1 DEF IInv, Ring, Wrapped
<1> QED BY <1>1, <1>2, <1>3, <1>4, <1>5, TypeFacts, PlacesSplit, Moved

\* How much a copy takes: something, that fits the frame, the write, and the
\* buffer up to a marker's place before its end or the tail.
LEMMA CopyFits ==
    ASSUME IInv, at = "copy", ~(head < tail /\ Space = 0),
           NEW n, n = Least(Space, Least(Minus(MaxPayload, current_payload_len), left))
    PROVE  /\ n \in Nat /\ n > 0 /\ n <= left
           /\ current_payload_len + n <= MaxPayload
           /\ head + n <= BufLen - MarkerSize
           /\ head < tail => head + n + MarkerSize <= tail
<1> USE Sizes
<1>1. TypeOK /\ HeadInPlace /\ Wrapped
    BY DEF IInv, Ring
<1>2. /\ head \in Nat /\ tail \in Nat /\ current_payload_len \in Nat /\ left \in Nat
      /\ tail <= BufLen
    BY <1>1, TypeFacts
<1>3. head < BufLen - MarkerSize /\ current_payload_len < Large /\ left > 0
    BY <1>1 DEF HeadInPlace
<1>4. tail % 4 = 0
    BY TailAligned
<1>5. Minus(MaxPayload, current_payload_len) = MaxPayload - current_payload_len
    BY <1>2, <1>3 DEF Minus
<1>6. /\ Space \in Nat /\ Space > 0 /\ head + Space <= BufLen - MarkerSize
      /\ head < tail => head + Space + MarkerSize <= tail
  <2>1. CASE head < tail
    <3>1. head + MarkerSize <= tail
        BY <1>1, <2>1 DEF Wrapped
    <3>2. Space = tail - head - 4
        BY <1>2, <1>4, <2>1, <3>1 DEF Space, Minus
    <3> QED BY <1>2, <2>1, <3>1, <3>2
  <2>2. CASE ~(head < tail)
    <3>1. Space = BufLen - head - 4
        BY <1>2, <1>3, <2>2 DEF Space, Minus
    <3> QED BY <1>2, <1>3, <2>2, <3>1
  <2> QED BY <2>1, <2>2
<1> HIDE DEF Space
<1> QED BY <1>2, <1>3, <1>5, <1>6 DEF Least

LEMMA CopyIInv == ASSUME IInv, Copy PROVE IInv'
<1> USE Sizes
<1>1. at = "copy" /\ ~(head < tail /\ Space = 0)
    BY DEF Copy
<1>2. PICK n : n = Least(Space, Least(Minus(MaxPayload, current_payload_len), left))
    OBVIOUS
<1>3. /\ head' = head + n /\ current_payload_len' = current_payload_len + n
      /\ left' = left - n /\ markers' = Erase(markers, head, head + n)
      /\ at' = IF head' >= BufLen - MarkerSize \/ current_payload_len' >= Large
               THEN "send" ELSE IF left' = 0 THEN "idle" ELSE "copy"
      /\ UNCHANGED <<tail, current_marker, in_flight>>
    BY <1>2 DEF Copy, Onward
<1>4. /\ n \in Nat /\ n > 0 /\ n <= left
      /\ current_payload_len + n <= MaxPayload
      /\ head + n <= BufLen - MarkerSize
      /\ head < tail => head + n + MarkerSize <= tail
    BY <1>1, <1>2, CopyFits
<1>5. TypeOK /\ HeadInPlace
    BY <1>1 DEF IInv, Ring
<1>6. /\ head \in Nat /\ tail \in Nat /\ current_payload_len \in Nat /\ left \in Nat
      /\ current_marker \in 0..BufLen /\ current_marker \in Nat /\ IsMap(markers)
    BY <1>5, TypeFacts
<1>7. /\ head = current_marker + PayloadStart + current_payload_len
      /\ current_marker % 4 = 0
    BY <1>1, <1>5 DEF HeadInPlace
<1>8. /\ head' \in Nat /\ head' \in 0..BufLen /\ left' \in Nat
      /\ current_payload_len' \in 0..MaxPayload /\ current_payload_len' > 0
      /\ head' = current_marker' + PayloadStart + current_payload_len'
      /\ head' <= BufLen - MarkerSize
      /\ tail <= head => tail <= head'
      /\ head < tail => head' + MarkerSize <= tail
    BY <1>3, <1>4, <1>6, <1>7
<1>9. at' \in {"send", "idle", "copy"}
    BY <1>3
<1>10. End' = End
    BY <1>1, <1>3, <1>9 DEF End
<1>11. IsMap(markers') /\ Keeps(markers')
  <2>1. IsMap(markers')
      BY <1>3, <1>4, <1>6, Erased
  <2>2. ASSUME NEW o \in DOMAIN markers, Protected(o)
        PROVE  o \in DOMAIN markers' /\ markers'[o] = markers[o]
    <3>1. o \in Nat
        BY <1>6 DEF IsMap
    <3>2. o + MarkerSize <= head \/ head + n <= o
      <4>1. End <= head /\ End \in Nat
          BY <1>1, Numbers
      <4>2. CASE o + MarkerSize <= End
          BY <1>6, <3>1, <4>1, <4>2
      <4>3. CASE head < tail /\ tail <= o
          BY <1>4, <1>6, <3>1, <4>3
      <4> QED BY <2>2, <4>2, <4>3 DEF Protected
    <3> QED BY <1>3, <1>4, <1>6, <3>2, Erased
  <2> QED BY <2>1, <2>2 DEF Keeps
<1>12. HeadInPlace'
  <2>1. at' = "send" \/ (head' < BufLen - MarkerSize /\ current_payload_len' < Large)
      BY <1>3, <1>8
  <2>2. (at' = "copy" => left' > 0) /\ (at' = "idle" => left' = 0)
      BY <1>3, <1>8
  <2> QED BY <1>3, <1>7, <1>8, <1>9, <2>1, <2>2 DEF HeadInPlace
<1> QED BY <1>1, <1>3, <1>6, <1>8, <1>9, <1>10, <1>11, <1>12, PlacesSplit, Moved

\* The next frame begins at the head: ~RingFull is what it needs.
LEMMA GoOnBeforeTailIInv ==
    ASSUME IInv, GoOnBeforeTail, ~RingFull PROVE IInv'
<1> USE Sizes
<1>1. /\ at = "snake"
      /\ tail <= head \/ tail - head >= PayloadStart
      /\ current_marker' = head /\ head' = head + PayloadStart
      /\ markers' = Store(markers, head, Empty)
      /\ at' = IF left = 0 THEN "idle" ELSE "copy"
      /\ UNCHANGED <<tail, current_payload_len, in_flight, left>>
    BY DEF GoOnBeforeTail, StartFrame, Onward
<1>2. TypeOK /\ HeadInPlace
    BY <1>1 DEF IInv, Ring
<1>3. /\ head \in Nat /\ tail \in Nat /\ left \in Nat /\ IsMap(markers)
      /\ head \in 0..BufLen
    BY <1>2, TypeFacts
<1>4. head % 4 = 0 /\ head + 16 <= BufLen /\ current_payload_len = 0
    BY <1>1, <1>2 DEF HeadInPlace
<1>5. tail % 4 = 0
    BY <1>1, TailAligned
<1>6. tail # head + PayloadStart
    BY <1>1 DEF RingFull
<1>7. /\ tail <= head => tail <= head'
      /\ head < tail => head' + MarkerSize <= tail
      /\ head' \in 0..BufLen /\ head' < BufLen - MarkerSize
    BY <1>1, <1>3, <1>4, <1>5, <1>6
<1>8. at' \in {"idle", "copy"}
    BY <1>1
<1>9. End' = End
    BY <1>1, <1>8 DEF End
<1>10. IsMap(markers') /\ Keeps(markers')
  <2>0. head + MarkerSize <= BufLen /\ Empty \in Marks
      BY <1>3, <1>4, MarkersFit
  <2>1. IsMap(markers')
      BY <1>1, <1>3, <2>0, Stored
  <2>2. ASSUME NEW o \in DOMAIN markers, Protected(o)
        PROVE  o \in DOMAIN markers' /\ markers'[o] = markers[o]
    <3>1. o \in Nat
        BY <1>3 DEF IsMap
    <3>2. o + MarkerSize <= head \/ head + MarkerSize <= o
      <4>1. CASE o + MarkerSize <= End
          BY <1>1, <4>1 DEF End
      <4>2. CASE head < tail /\ tail <= o
          BY <1>1, <1>3, <1>7, <3>1, <4>2
      <4> QED BY <2>2, <4>1, <4>2 DEF Protected
    <3> QED BY <1>1, <1>3, <2>0, <3>2, Stored
  <2> QED BY <2>1, <2>2 DEF Keeps
<1>11. HeadInPlace'
  <2>1. at' = "copy" => left' > 0
      BY <1>1, <1>3
  <2>2. head' = current_marker' + PayloadStart + current_payload_len'
      BY <1>1, <1>3, <1>4
  <2>3. current_payload_len' < Large /\ head' <= BufLen - MarkerSize
      BY <1>1, <1>4, <1>7
  <2> QED BY <1>1, <1>4, <1>7, <1>8, <2>1, <2>2, <2>3 DEF HeadInPlace
<1>12. current_payload_len' \in 0..MaxPayload /\ left' \in Nat
    BY <1>1, <1>3, <1>4
<1>13. tail' = tail /\ in_flight' = in_flight /\ current_marker' \in 0..BufLen
    BY <1>1, <1>3
<1> QED BY <1>1, <1>7, <1>8, <1>9, <1>10, <1>11, <1>12, <1>13, PlacesSplit, Moved

\* What the three cases of a complete frame, and a flush, start from.
LEMMA FrameToSend ==
    ASSUME IInv, at \in {"idle", "send"}, current_payload_len > 0
    PROVE  /\ head \in Nat /\ tail \in Nat /\ left \in Nat /\ IsMap(markers)
           /\ head <= BufLen - MarkerSize
           /\ Padded(head) \in Nat /\ Padded(head) % 4 = 0
           /\ head <= Padded(head) /\ Padded(head) <= head + 3
           /\ Padded(head) <= BufLen - MarkerSize
           /\ head < tail => Padded(head) + MarkerSize <= tail
           /\ tail % 4 = 0 /\ End = current_marker
           /\ current_marker \in Nat /\ current_marker < head
           /\ current_marker \in 0..BufLen
<1> USE Sizes
<1>1. TypeOK /\ HeadInPlace /\ Wrapped
    BY DEF IInv, Ring
<1>2. /\ head \in Nat /\ tail \in Nat /\ left \in Nat /\ IsMap(markers)
      /\ current_marker \in Nat /\ current_payload_len \in Nat
      /\ current_marker \in 0..BufLen
    BY <1>1, TypeFacts
<1>3. /\ head = current_marker + PayloadStart + current_payload_len
      /\ head <= BufLen - MarkerSize
    BY <1>1 DEF HeadInPlace
<1>4. tail % 4 = 0
    BY TailAligned
<1>5. /\ Padded(head) \in Nat /\ Padded(head) % 4 = 0
      /\ head <= Padded(head) /\ Padded(head) <= head + 3
      /\ \A b \in Nat : b % 4 = 0 /\ head <= b => Padded(head) <= b
    BY <1>2, PaddedIsNext
<1> HIDE DEF Padded
<1>6. Padded(head) <= BufLen - MarkerSize
  <2>1. BufLen - 4 \in Nat /\ (BufLen - 4) % 4 = 0 /\ head <= BufLen - 4
      BY <1>3
  <2> QED BY <1>5, <2>1
<1>7. ASSUME head < tail PROVE Padded(head) + MarkerSize <= tail
  <2>1. head + 4 <= tail
      BY <1>1, <1>7 DEF Wrapped
  <2>2. tail - 4 \in Nat /\ (tail - 4) % 4 = 0 /\ head <= tail - 4
      BY <1>2, <1>4, <2>1
  <2>3. Padded(head) <= tail - 4
      BY <1>5, <2>2
  <2> QED BY <1>2, <1>5, <2>3
<1>8. End = current_marker
    BY DEF End
<1>9. current_marker < head
    BY <1>2, <1>3
<1> QED BY <1>2, <1>3, <1>4, <1>5, <1>6, <1>7, <1>8, <1>9

\* A marker stored at the end of the frame keeps those to be found.
LEMMA StoredBehind ==
    ASSUME IInv, at \in {"idle", "send"}, current_payload_len > 0,
           NEW marker \in Marks
    PROVE  /\ IsMap(Store(markers, Padded(head), marker))
           /\ Keeps(Store(markers, Padded(head), marker))
           /\ Padded(head) \in DOMAIN Store(markers, Padded(head), marker)
           /\ Store(markers, Padded(head), marker)[Padded(head)] = marker
<1> USE Sizes
<1> DEFINE p == Padded(head)
<1>1. /\ head \in Nat /\ tail \in Nat /\ IsMap(markers)
      /\ p \in Nat /\ head <= p /\ p + MarkerSize <= BufLen
      /\ head < tail => p + MarkerSize <= tail
      /\ End = current_marker /\ current_marker < head /\ current_marker \in Nat
    BY FrameToSend
<1> HIDE DEF p
<1> DEFINE s == Store(markers, p, marker)
<1>2. /\ IsMap(s) /\ p \in DOMAIN s /\ s[p] = marker
      /\ \A o \in DOMAIN markers :
           o + MarkerSize <= p \/ p + MarkerSize <= o =>
               o \in DOMAIN s /\ s[o] = markers[o]
    BY <1>1, Stored
<1>3. \A o \in DOMAIN markers : o \in Nat
    BY <1>1 DEF IsMap
<1>4. \A o \in DOMAIN markers :
        Protected(o) => o + MarkerSize <= p \/ p + MarkerSize <= o
    BY <1>1, <1>3 DEF Protected
<1> HIDE DEF s
<1>5. Keeps(s)
    BY <1>2, <1>4 DEF Keeps
<1> QED BY <1>2, <1>5 DEF s, p

\* The part of the invariant that is the same for all of them.
LEMMA SentIInv ==
    ASSUME IInv, at \in {"idle", "send"}, current_payload_len > 0,
           NEW map, IsMap(map), Keeps(map),
           NEW end \in 0..BufLen, head <= end, end <= head + 3,
           CompleteAndSend(map, end), Taken, tail' = tail, left' = left,
           head' \in 0..BufLen, current_marker' \in 0..BufLen,
           at' \in Places \ {"closed", "astray"}, End' = end, end <= head',
           head < tail => head' + MarkerSize <= tail,
           end % 4 = 0 \/ at' = "flush",
           HeadInPlace'
    PROVE  IInv'
<1> USE Sizes
<1>1. head' \in Nat
    OBVIOUS
<1>2. /\ FramesInPlace' /\ Straight' /\ Wrapped' /\ Ordered' /\ Chained'
      /\ IsMap(markers') /\ in_flight' \in Seq(Frames)
      /\ current_payload_len' = 0
    BY <1>1, FrameSent
<1>3. TypeOK /\ TailInPlace
    BY DEF IInv, Ring
<1>4. TypeOK'
  <2>1. tail' \in 0..BufLen /\ left' \in Nat
      BY <1>3, TypeFacts
  <2>2. (TypeOK <=> TypeFacts!2)'
      BY TypeFacts, PTL
  <2>3. current_payload_len' \in 0..MaxPayload
      BY <1>2
  <2> QED BY <1>2, <2>1, <2>2, <2>3
<1>5. TailInPlace'
    BY <1>3 DEF TailInPlace
<1> QED BY <1>2, <1>4, <1>5 DEF IInv, Ring

\* Far enough from the end, another frame fits behind this one.
LEMMA FarFromEnd ==
    ASSUME IInv, at = "send", ~TooCloseToEnd
    PROVE  Padded(head) + 16 <= BufLen
<1> USE Sizes
<1>1. current_payload_len > 0
    BY DEF IInv, Ring, HeadInPlace
<1>2. head \in Nat /\ head <= BufLen - MarkerSize
    BY <1>1, FrameToSend
<1>3. Minus(Minus(BufLen, head), MarkerSize) = BufLen - head - 4
    BY <1>2 DEF Minus
<1>4. head <= BufLen - 16
    BY <1>2, <1>3 DEF TooCloseToEnd
<1>5. \A b \in Nat : b % 4 = 0 /\ head <= b => Padded(head) <= b
    BY <1>2, PaddedIsNext
<1>6. BufLen - 16 \in Nat /\ (BufLen - 16) % 4 = 0
    OBVIOUS
<1>7. Padded(head) \in Nat /\ Padded(head) <= BufLen - 16
    BY <1>2, <1>4, <1>5, <1>6, PaddedIsNext
<1> QED BY <1>7

LEMMA SendAndWrapIInv == ASSUME IInv, SendAndWrap, Taken PROVE IInv'
<1> USE Sizes
<1> DEFINE map == Store(markers, Padded(head), Wrap)
<1>1. /\ at = "send" /\ at' = "wrap" /\ head' = Padded(head)
      /\ CompleteAndSend(map, Padded(head))
      /\ tail' = tail /\ current_marker' = current_marker /\ left' = left
    BY DEF SendAndWrap
<1>2. current_payload_len > 0
    BY <1>1 DEF IInv, Ring, HeadInPlace
<1>3. /\ IsMap(map) /\ Keeps(map)
      /\ Padded(head) \in DOMAIN map /\ map[Padded(head)] = Wrap
    BY <1>1, <1>2, MarkersFit, StoredBehind
<1>4. /\ head \in Nat /\ tail \in Nat
      /\ Padded(head) \in Nat /\ Padded(head) % 4 = 0
      /\ head <= Padded(head) /\ Padded(head) <= head + 3
      /\ Padded(head) <= BufLen - MarkerSize
      /\ head < tail => Padded(head) + MarkerSize <= tail
      /\ current_marker \in 0..BufLen
    BY <1>1, <1>2, FrameToSend
<1> HIDE DEF map
<1>5. End' = Padded(head)
    BY <1>1 DEF End
<1> DEFINE end == Padded(head)
<1>6. end \in 0..BufLen /\ head' \in 0..BufLen /\ head' \in Nat
    BY <1>1, <1>4
<1>7. /\ current_payload_len' = 0
      /\ end \in DOMAIN markers' /\ markers'[end] = Wrap
  <2>1. /\ current_payload_len' = 0
        /\ \A o \in DOMAIN map :
             head <= o => o \in DOMAIN markers' /\ markers'[o] = map[o]
    <3> HIDE DEF end
    <3>1. end = Padded(head)
        BY DEF end
    <3> QED BY <1>1, <1>2, <1>3, <1>4, <1>5, <1>6, <3>1, FrameSent
  <2> QED BY <1>3, <1>4, <2>1
<1>8. HeadInPlace'
    BY <1>1, <1>4, <1>7 DEF HeadInPlace, Wrap
<1> HIDE DEF end
<1>9. end = Padded(head)
    BY DEF end
<1> QED BY <1>1, <1>2, <1>3, <1>4, <1>5, <1>6, <1>8, <1>9, SentIInv, PlacesSplit

LEMMA SendAndGoOnIInv == ASSUME IInv, SendAndGoOn, Taken PROVE IInv'
<1> USE Sizes
<1> DEFINE map == Store(markers, Padded(head), Empty)
           end == Padded(head)
<1>1. /\ at = "send" /\ at' = (IF left = 0 THEN "idle" ELSE "copy")
      /\ head' = end + PayloadStart /\ current_marker' = end
      /\ CompleteAndSend(map, end)
      /\ tail' = tail /\ left' = left
      /\ ~TooCloseToEnd
      /\ tail <= head \/ RoomBeforeTail
    BY DEF SendAndGoOn, StartFrame, Onward
<1>2. current_payload_len > 0
    BY <1>1 DEF IInv, Ring, HeadInPlace
<1>3. IsMap(map) /\ Keeps(map)
    BY <1>1, <1>2, MarkersFit, StoredBehind
<1> HIDE DEF map
<1>4. /\ head \in Nat /\ tail \in Nat /\ left \in Nat
      /\ end \in Nat /\ end % 4 = 0
      /\ head <= end /\ end <= head + 3
      /\ head < tail => end + MarkerSize <= tail
      /\ tail % 4 = 0
    BY <1>1, <1>2, FrameToSend
<1>5. end + 16 <= BufLen
    BY <1>1, FarFromEnd
<1> HIDE DEF end
<1>6. at' \in {"idle", "copy"} /\ End' = end
    BY <1>1 DEF End
<1>7. head < tail => head' + MarkerSize <= tail
  <2> SUFFICES ASSUME head < tail PROVE head' + MarkerSize <= tail
      OBVIOUS
  <2>1. head + 4 <= tail
      BY <1>4
  <2>2. Minus(Minus(tail, head), MarkerSize) = tail - head - 4
      BY <1>4, <2>1 DEF Minus
  <2>3. ~(tail <= head)
      BY <1>4
  <2>4. head + 12 <= tail
      BY <1>1, <1>4, <2>2, <2>3 DEF RoomBeforeTail
  <2>5. tail - 12 \in Nat /\ (tail - 12) % 4 = 0 /\ head <= tail - 12
      BY <1>4, <2>4
  <2>6. end <= tail - 12
      BY <1>4, <2>5, PaddedIsNext DEF end
  <2> QED BY <1>1, <1>4, <2>6
<1>8. /\ end \in 0..BufLen /\ head' \in 0..BufLen /\ head' \in Nat
      /\ end <= head' /\ head' < BufLen - MarkerSize
    BY <1>1, <1>4, <1>5
<1>9. current_payload_len' = 0
    BY DEF Taken
<1>10. HeadInPlace'
  <2>1. (at' = "copy" => left' > 0) /\ (at' = "idle" => left' = 0)
      BY <1>1, <1>4
  <2>2. /\ head' = current_marker' + PayloadStart + current_payload_len'
        /\ current_marker' % 4 = 0 /\ head' <= BufLen - MarkerSize
        /\ current_payload_len' < Large
      BY <1>1, <1>4, <1>8, <1>9
  <2> QED BY <1>6, <1>8, <2>1, <2>2 DEF HeadInPlace
<1>11. current_marker' \in 0..BufLen
    BY <1>1, <1>8
<1> QED BY <1>1, <1>2, <1>3, <1>4, <1>6, <1>7, <1>8, <1>10, <1>11, SentIInv,
           PlacesSplit

LEMMA SendAndAwaitRoomIInv == ASSUME IInv, SendAndAwaitRoom, Taken PROVE IInv'
<1> USE Sizes
<1> DEFINE end == Padded(head)
<1>1. /\ at = "send" /\ at' = "snake"
      /\ head' = end /\ CompleteAndSend(markers, end)
      /\ tail' = tail /\ current_marker' = current_marker /\ left' = left
      /\ ~TooCloseToEnd
    BY DEF SendAndAwaitRoom
<1>2. current_payload_len > 0
    BY <1>1 DEF IInv, Ring, HeadInPlace
<1>3. /\ head \in Nat /\ tail \in Nat /\ IsMap(markers)
      /\ end \in Nat /\ end % 4 = 0
      /\ head <= end /\ end <= head + 3
      /\ head < tail => end + MarkerSize <= tail
      /\ current_marker \in 0..BufLen
    BY <1>1, <1>2, FrameToSend
<1>4. end + 16 <= BufLen
    BY <1>1, FarFromEnd
<1> HIDE DEF end
<1>5. End' = end
    BY <1>1 DEF End
<1>6. end \in 0..BufLen /\ head' \in 0..BufLen /\ end <= head'
    BY <1>1, <1>3, <1>4
<1>7. current_payload_len' = 0
    BY DEF Taken
<1>8. HeadInPlace'
    BY <1>1, <1>3, <1>4, <1>7 DEF HeadInPlace
<1>9. Keeps(markers)
    BY DEF Keeps
<1> QED BY <1>1, <1>2, <1>3, <1>5, <1>6, <1>8, <1>9, SentIInv, PlacesSplit

LEMMA FlushIInv == ASSUME IInv, Flush, Taken PROVE IInv'
<1> USE Sizes
<1>1. /\ at = "idle" /\ at' = "flush" /\ current_payload_len > 0
      /\ CompleteAndSend(markers, head)
      /\ head' = head /\ current_marker' = current_marker
      /\ tail' = tail /\ left' = left
    BY DEF Flush
<1>2. /\ head \in Nat /\ tail \in Nat /\ IsMap(markers)
      /\ head <= BufLen - MarkerSize /\ head > 0
      /\ current_marker \in 0..BufLen
    BY <1>1, FrameToSend
<1>3. End' = head
    BY <1>1 DEF End
<1>4. head < tail => head + MarkerSize <= tail
    BY <1>1 DEF IInv, Ring, Wrapped
<1>5. current_payload_len' = 0
    BY DEF Taken
<1>6. HeadInPlace'
  <2>1. left = 0 /\ head < BufLen - MarkerSize
      BY <1>1 DEF IInv, Ring, HeadInPlace
  <2> QED BY <1>1, <1>2, <1>5, <2>1 DEF HeadInPlace
<1>7. Keeps(markers)
    BY DEF Keeps
<1>8. PICK end : end = head
    OBVIOUS
<1>9. end \in 0..BufLen /\ head <= end /\ end <= head + 3
    BY <1>2, <1>8
<1> QED BY <1>1, <1>2, <1>3, <1>4, <1>6, <1>7, <1>8, <1>9, SentIInv, PlacesSplit

\* An empty frame is waited for, not sent.
LEMMA FlushEmptyIInv == ASSUME IInv, FlushEmpty PROVE IInv'
<1>1. /\ at = "idle" /\ at' = "empty" /\ current_payload_len = 0
      /\ UNCHANGED <<head, tail, current_marker, current_payload_len, markers,
                     in_flight, left>>
    BY DEF FlushEmpty, frameVars
<1>2. TypeOK /\ HeadInPlace
    BY <1>1 DEF IInv, Ring
<1>3. End' = End /\ Keeps(markers')
    BY <1>1 DEF End, Keeps
<1>4. HeadInPlace'
    BY <1>1, <1>2 DEF HeadInPlace
<1>5. head < tail => head + MarkerSize <= tail
    BY <1>1 DEF IInv, Ring, Wrapped
<1> QED BY <1>1, <1>2, <1>3, <1>4, <1>5, TypeFacts, PlacesSplit, Moved

\* The head goes to the start, behind the tail no longer but ahead of it.
LEMMA WrapAroundIInv == ASSUME IInv, WrapAround PROVE IInv'
<1> USE Sizes
<1>1. /\ at = "wrap" /\ tail <= head /\ tail >= 8
      /\ current_marker' = 0 /\ head' = 8
      /\ markers' = Store(markers, 0, Empty)
      /\ at' = (IF left = 0 THEN "idle" ELSE "copy")
      /\ UNCHANGED <<tail, current_payload_len, in_flight, left>>
    BY DEF WrapAround, StartIsFree, StartFrame, Onward
<1>2. /\ TypeOK /\ FramesInPlace /\ Straight /\ Ordered /\ Chained
      /\ TailInPlace /\ HeadInPlace
    BY <1>1 DEF IInv, Ring
<1>3. /\ head \in Nat /\ tail \in Nat /\ tail \in 0..BufLen /\ left \in Nat
      /\ IsMap(markers) /\ in_flight \in Seq(Frames)
    BY <1>2, TypeFacts
<1>4. /\ head % 4 = 0 /\ head \in DOMAIN markers /\ markers[head].wrap
      /\ current_payload_len = 0
    BY <1>1, <1>2 DEF HeadInPlace
<1>5. tail % 4 = 0 /\ tail >= 12
  <2>1. tail % 4 = 0
      BY <1>1, TailAligned
  <2>2. tail > 8
      BY <1>1, <1>2, <1>3 DEF TailInPlace
  <2> QED BY <1>3, <2>1, <2>2
<1>6. at' \in {"idle", "copy"} /\ End = head /\ End' = 0
    BY <1>1 DEF End
<1>7. /\ DOMAIN in_flight = 1..Len(in_flight) /\ Len(in_flight) \in Nat
      /\ \A i \in DOMAIN in_flight : Start(i) \in Nat /\ Finish(i) \in Nat
    BY <1>1, Numbers
<1>8. \A i \in DOMAIN in_flight : tail <= Start(i) /\ Finish(i) <= head
    BY <1>1, <1>2, <1>6 DEF Straight
<1>9. /\ IsMap(markers')
      /\ \A o \in DOMAIN markers :
           4 <= o => o \in DOMAIN markers' /\ markers'[o] = markers[o]
  <2>1. Empty \in Marks /\ 0 + MarkerSize <= BufLen /\ 0 \in Nat
      BY MarkersFit
  <2> QED BY <1>1, <1>3, <2>1, Stored
<1>10. head \in DOMAIN markers' /\ markers'[head].wrap
    BY <1>1, <1>3, <1>4, <1>5, <1>9
<1>11. \A i \in DOMAIN in_flight :
        /\ Start(i) \in DOMAIN markers'
        /\ markers'[Start(i)] = markers[Start(i)]
    BY <1>2, <1>3, <1>5, <1>7, <1>8, <1>9 DEF FramesInPlace, FrameInPlace
<1>12. \A i \in DOMAIN in_flight : Start(i)' = Start(i) /\ Finish(i)' = Finish(i)
    BY <1>1, <1>11 DEF Start, Finish, After
<1>13. FramesInPlace'
  <2>1. at # "flush"
      BY <1>1
  <2> QED BY <1>1, <1>2, <1>11, <1>12, <2>1 DEF FramesInPlace, FrameInPlace, Start
<1>14. Straight'
    BY <1>1, <1>3, <1>5 DEF Straight
<1>15. Ordered'
    BY <1>1, <1>2, <1>12 DEF Ordered
<1>16. Wrapped'
  <2>1. PICK w : w = head
      OBVIOUS
  <2>2. w \in DOMAIN markers' /\ WrapMarker(w)'
      BY <1>1, <1>4, <1>8, <1>10, <1>12, <2>1 DEF WrapMarker
  <2>3. head' + MarkerSize <= tail'
      BY <1>1, <1>3, <1>5
  <2>4. \A i \in DOMAIN in_flight' : ~(Start(i)' < tail')
      BY <1>1, <1>3, <1>7, <1>8, <1>12
  <2> QED BY <2>2, <2>3, <2>4 DEF Wrapped
<1>17. Chained'
  <2>1. ASSUME NEW i \in DOMAIN in_flight
        PROVE  Leads(Finish(i), Successor(i))'
    <3>1. Finish(i) = Successor(i)
        BY <1>1, <1>3, Straightforward
    <3>2. CASE i = Len(in_flight)
      <4>1. Successor(i) = head /\ Successor(i)' = 0
          BY <1>1, <1>6, <3>2 DEF Successor
      <4> QED BY <1>10, <1>12, <3>1, <4>1 DEF Leads
    <3>3. CASE i # Len(in_flight)
      <4>1. Successor(i)' = Successor(i)
          BY <1>1, <1>7, <1>12, <3>3 DEF Successor
      <4> QED BY <1>12, <3>1, <4>1 DEF Leads
    <3> QED BY <3>2, <3>3
  <2>2. Leads(tail, IF in_flight = <<>> THEN End ELSE Start(1))'
    <3>1. CASE in_flight = <<>>
      <4>1. Leads(tail, head)
          BY <1>2, <1>6, <3>1 DEF Chained
      <4>2. tail = head
          BY <1>1, <1>3, <1>5, <4>1 DEF Leads
      <4> QED BY <1>1, <1>6, <1>10, <3>1, <4>2 DEF Leads
    <3>2. CASE in_flight # <<>>
      <4>1. tail = Start(1)
          BY <1>1, <3>2, Straightforward
      <4>2. 1 \in DOMAIN in_flight
          BY <1>3, <1>7, <3>2, EmptySeq
      <4> QED BY <1>1, <1>12, <3>2, <4>1, <4>2 DEF Leads
    <3> QED BY <3>1, <3>2
  <2> QED BY <1>1, <2>1, <2>2 DEF Chained
<1>18. TypeOK'
  <2>1. (TypeOK <=> TypeFacts!2)'
      BY TypeFacts, PTL
  <2>2. TypeFacts!2
      BY <1>2, TypeFacts
  <2>3. head' \in 0..BufLen /\ current_marker' \in 0..BufLen /\ at' \in Places
      BY <1>1, <1>6, PlacesSplit
  <2> QED BY <1>1, <1>9, <2>1, <2>2, <2>3
<1>19. TailInPlace'
    BY <1>1, <1>3, <1>5 DEF TailInPlace
<1>20. HeadInPlace'
  <2>1. (at' = "copy" => left' > 0) /\ (at' = "idle" => left' = 0)
      BY <1>1, <1>3
  <2>2. /\ head' = current_marker' + PayloadStart + current_payload_len'
        /\ current_marker' % 4 = 0 /\ head' < BufLen - MarkerSize
        /\ head' <= BufLen - MarkerSize /\ current_payload_len' < Large
      BY <1>1, <1>4
  <2> QED BY <1>6, <2>1, <2>2 DEF HeadInPlace
<1> QED BY <1>6, <1>13, <1>14, <1>15, <1>16, <1>17, <1>18, <1>19, <1>20 DEF IInv, Ring

\* An empty frame keeps the head away from the tail: its flush goes on waiting.
LEMMA EmptyFrameApart ==
    ASSUME IInv, at = "empty"
    PROVE  tail # head
<1>1. head \in Nat /\ tail \in Nat /\ current_marker \in Nat
    BY TypeFacts, Sizes DEF IInv
<1>2. head = current_marker + 8
    BY <1>1, Sizes DEF IInv, Ring, HeadInPlace
<1>3. tail <= head => tail <= current_marker
    BY DEF IInv, Ring, Straight, End
<1> QED BY <1>1, <1>2, <1>3

\* When the tail meets the head, nothing is in flight.
LEMMA NothingInFlight ==
    ASSUME IInv, at = "flush", tail = head
    PROVE  in_flight = <<>>
<1>1. /\ head \in Nat /\ DOMAIN in_flight = 1..Len(in_flight) /\ Len(in_flight) \in Nat
      /\ \A i \in DOMAIN in_flight :
           /\ Start(i) \in Nat /\ Finish(i) \in Nat
           /\ Start(i) + 8 < Finish(i)
    BY Numbers
<1>2. \A i \in DOMAIN in_flight : tail <= Start(i) /\ Finish(i) <= head
    BY <1>1 DEF IInv, Ring, Straight, End
<1>3. \A i \in DOMAIN in_flight : FALSE
    BY <1>1, <1>2
<1>4. Len(in_flight) = 0
    BY <1>1, <1>3
<1>5. in_flight \in Seq(Frames)
    BY TypeFacts DEF IInv
<1> QED BY <1>4, <1>5, EmptySeq

LEMMA FlushedIInv == ASSUME IInv, Flushed PROVE IInv'
<1> USE Sizes
<1>1. /\ at = "flush" /\ tail = head /\ at' = "idle"
      /\ tail' = 0 /\ current_marker' = 0 /\ head' = 8
      /\ markers' = Store(markers, 0, Empty)
      /\ UNCHANGED <<current_payload_len, in_flight, left>>
    BY EmptyFrameApart DEF Flushed, StartFrame
<1>2. in_flight = <<>>
    BY <1>1, NothingInFlight
<1>3. TypeOK /\ HeadInPlace
    BY <1>1 DEF IInv, Ring
<1>4. /\ current_payload_len = 0 /\ left = 0
      /\ IsMap(markers) /\ in_flight \in Seq(Frames)
    BY <1>1, <1>3, TypeFacts DEF HeadInPlace
<1>5. DOMAIN in_flight = {} /\ Len(in_flight) = 0
  <2>1. Len(in_flight) = 0
      BY <1>2, EmptySeq
  <2>2. DOMAIN in_flight = 1..0
      BY <1>4, <2>1, LenProperties
  <2> QED BY <2>1, <2>2
<1>6. IsMap(markers')
  <2>1. Empty \in Marks /\ 0 + MarkerSize <= BufLen /\ 0 \in Nat
      BY MarkersFit
  <2> QED BY <1>1, <1>4, <2>1, Stored
<1>7. TypeOK'
  <2>1. (TypeOK <=> TypeFacts!2)'
      BY TypeFacts, PTL
  <2>2. head' \in 0..BufLen /\ tail' \in 0..BufLen /\ current_marker' \in 0..BufLen
      BY <1>1
  <2>3. at' \in Places /\ current_payload_len' \in 0..MaxPayload /\ left' \in Nat
      BY <1>1, <1>4, PlacesSplit
  <2> QED BY <1>1, <1>4, <1>6, <2>1, <2>2, <2>3
<1>8. FramesInPlace' /\ Ordered'
    BY <1>1, <1>5 DEF FramesInPlace, Ordered
<1>9. Straight' /\ Wrapped' /\ Chained'
  <2>1. End' = 0
      BY <1>1 DEF End
  <2>2. Chained'
      BY <1>1, <1>2, <1>5, <2>1 DEF Chained, Leads
  <2> QED BY <1>1, <1>5, <2>1, <2>2 DEF Straight, Wrapped
<1>10. TailInPlace' /\ HeadInPlace'
    BY <1>1, <1>4 DEF TailInPlace, HeadInPlace
<1> QED BY <1>1, <1>7, <1>8, <1>9, <1>10 DEF IInv, Ring

LEMMA LostIInv == ASSUME IInv, ConnectionLost \/ Stopped PROVE IInv'
<1>1. CASE ConnectionLost
  <2>1. /\ at' = "closed"
        /\ UNCHANGED <<head, tail, current_marker, current_payload_len, markers,
                       in_flight, left>>
      BY <1>1 DEF ConnectionLost, frameVars
  <2>2. TypeOK'
      BY <2>1, PlacesSplit DEF IInv, TypeOK
  <2> QED BY <2>1, <2>2 DEF IInv
<1>2. CASE Stopped
  <2>1. /\ at = "closed"
        /\ UNCHANGED <<head, tail, current_marker, current_payload_len, markers,
                       in_flight, left, at>>
      BY <1>2 DEF Stopped, IInv, vars, frameVars
  <2>2. TypeOK'
      BY <2>1 DEF IInv, TypeOK
  <2> QED BY <2>1, <2>2 DEF IInv
<1> QED BY <1>1, <1>2

\* An acknowledgement of the oldest frame finds its marker and follows it.
LEMMA SentDoes ==
    ASSUME IInv, Sent, ~PartAcknowledged
    PROVE  /\ at \in {"space", "wrap", "snake", "flush", "empty", "idle"}
           /\ at' = at /\ in_flight # <<>>
           /\ in_flight' = Tail(in_flight) /\ tail' = Finish(1)
           /\ tail = Start(1) \/ (tail # Start(1) /\ Start(1) = 0)
           /\ UNCHANGED <<head, current_marker, current_payload_len, markers, left>>
<1>1. /\ at \in {"space", "wrap", "snake", "flush", "empty", "idle"} /\ in_flight # <<>>
      /\ UNCHANGED <<head, current_marker, current_payload_len, markers, left>>
    BY PlacesSplit DEF Sent, frameVars
<1>2. TypeOK /\ FramesInPlace /\ Chained
    BY <1>1 DEF IInv, Ring
<1>3. in_flight \in Seq(Frames)
    BY <1>2, TypeFacts
<1>4. 1 \in DOMAIN in_flight
    BY <1>1, <1>3, EmptySeq, Numbers
<1>5. /\ Start(1) \in DOMAIN markers /\ ~markers[Start(1)].wrap
      /\ markers[Start(1)].len = in_flight[1].len
    BY <1>2, <1>4 DEF FramesInPlace, FrameInPlace
<1>6. Leads(tail, Start(1))
    BY <1>1, <1>2 DEF Chained
<1>7. NextMarker = Start(1) /\ (tail = Start(1) \/ Start(1) = 0)
  <2>1. CASE tail = Start(1)
      BY <1>5, <2>1 DEF NextMarker
  <2>2. CASE tail # Start(1)
      BY <1>6, <2>2 DEF NextMarker, Leads
  <2> QED BY <2>1, <2>2
<1>8. in_flight[1].len \in Nat
    BY <1>1, <1>4, Numbers DEF Frames
<1> DEFINE n == in_flight[1].len
           part(k) == [in_flight EXCEPT ![1].first = @ + k, ![1].len = @ - k]
<1>9. /\ in_flight' = Tail(in_flight)
      /\ IF NextMarker \in DOMAIN markers /\ markers[NextMarker].len >= n
         THEN /\ tail' = NextMarker + n + markers[NextMarker].scratch
              /\ UNCHANGED at
         ELSE at' = "astray" /\ UNCHANGED tail
  <2>1. PICK k \in 1..n \cup {n} :
          /\ in_flight' = IF k = n THEN Tail(in_flight) ELSE part(k)
          /\ IF NextMarker \in DOMAIN markers /\ markers[NextMarker].len >= k
             THEN /\ tail' = NextMarker + k + markers[NextMarker].scratch
                  /\ UNCHANGED at
             ELSE at' = "astray" /\ UNCHANGED tail
      BY DEF Sent
  <2>2. k = n
    <3> SUFFICES ASSUME k # n PROVE FALSE
        OBVIOUS
    <3>1. in_flight' = part(k) /\ k \in Nat /\ k >= 1
        BY <1>8, <2>1
    <3>2. in_flight[1] \in Frames /\ in_flight[1].first \in Nat
        BY <1>1, <1>4, Numbers DEF Frames
    <3>3. /\ DOMAIN part(k) = DOMAIN in_flight
          /\ part(k)[1].first = in_flight[1].first + k
      <4>1. in_flight[1] = [marker |-> in_flight[1].marker,
                            first |-> in_flight[1].first, len |-> in_flight[1].len]
          BY <3>2 DEF Frames
      <4>2. in_flight = [i \in DOMAIN in_flight |-> in_flight[i]]
          BY <1>3
      <4>3. part(k)[1] = [in_flight[1] EXCEPT !.first = @ + k, !.len = @ - k]
          BY <1>4
      <4>4. [in_flight[1] EXCEPT !.first = @ + k, !.len = @ - k].first
              = in_flight[1].first + k
          BY <4>1
      <4> QED BY <4>3, <4>4
    <3>4. in_flight' # in_flight
      <4>1. part(k)[1].first # in_flight[1].first
          BY <3>1, <3>2, <3>3
      <4> HIDE DEF part
      <4> QED BY <3>1, <4>1
    <3>5. Len(in_flight') = Len(in_flight)
      <4>1. DOMAIN in_flight = 1..Len(in_flight) /\ Len(in_flight) \in Nat
          BY <1>1, Numbers
      <4>2. DOMAIN in_flight' = 1..Len(in_flight)
          BY <3>1, <3>3, <4>1
      <4> QED BY <4>1, <4>2
    <3> QED BY <3>4, <3>5 DEF PartAcknowledged
  <2> QED BY <2>1, <2>2
<1>10. at' = at /\ tail' = Finish(1)
    BY <1>5, <1>7, <1>8, <1>9 DEF Finish, After, Start
<1> QED BY <1>1, <1>7, <1>9, <1>10

\* The tail moves over the oldest frame: along the ring while it is behind the
\* head or the frame is on its side of the wrap marker, else to the start.
LEMMA SentKeeps == ASSUME IInv, Sent, ~PartAcknowledged PROVE IInv'
<1> USE Sizes
<1>1. /\ at \in {"space", "wrap", "snake", "flush", "empty", "idle"}
      /\ at' = at /\ in_flight # <<>>
      /\ in_flight' = Tail(in_flight) /\ tail' = Finish(1)
      /\ tail = Start(1) \/ (tail # Start(1) /\ Start(1) = 0)
      /\ UNCHANGED <<head, current_marker, current_payload_len, markers, left>>
    BY SentDoes
<1>2. /\ TypeOK /\ FramesInPlace /\ Straight /\ Wrapped /\ Ordered /\ Chained
      /\ TailInPlace /\ HeadInPlace
    BY <1>1 DEF IInv, Ring
<1>3. /\ head \in Nat /\ tail \in Nat /\ head <= BufLen
      /\ End \in Nat /\ End <= head /\ End' = End
      /\ DOMAIN in_flight = 1..Len(in_flight) /\ Len(in_flight) \in Nat
    BY <1>1, Numbers DEF End
<1>4. in_flight \in Seq(Frames) /\ IsMap(markers)
    BY <1>2, TypeFacts
<1>5. PICK m \in Nat : Len(in_flight) = m + 1
  <2>1. Len(in_flight) # 0
      BY <1>1, <1>4, EmptySeq
  <2>2. Len(in_flight) - 1 \in Nat /\ Len(in_flight) = Len(in_flight) - 1 + 1
      BY <1>3, <2>1
  <2> QED BY <2>2
<1>6. /\ in_flight' \in Seq(Frames) /\ Len(in_flight') = m
      /\ \A i \in 1..m : in_flight'[i] = in_flight[i + 1]
  <2>1. /\ Tail(in_flight) \in Seq(Frames)
        /\ Len(Tail(in_flight)) = Len(in_flight) - 1
        /\ \A i \in 1..Len(Tail(in_flight)) : Tail(in_flight)[i] = in_flight[i + 1]
      BY <1>1, <1>4, HeadTailProperties
  <2> QED BY <1>1, <1>5, <2>1
<1>7. /\ DOMAIN in_flight' = 1..m /\ 1 \in DOMAIN in_flight
      /\ \A i \in 1..m : i + 1 \in DOMAIN in_flight /\ 1 < i + 1
    BY <1>3, <1>5, <1>6, LenProperties
<1>8. \A i \in 1..m : Start(i)' = Start(i + 1) /\ Finish(i)' = Finish(i + 1)
    BY <1>1, <1>6 DEF Start, Finish, After
<1>9. \A i \in DOMAIN in_flight :
        Start(i) \in Nat /\ Finish(i) \in Nat /\ Start(i) + 8 < Finish(i)
    BY <1>1, Numbers
<1>10. FramesInPlace'
  <2>1. ASSUME NEW i \in 1..m PROVE FrameInPlace(i)'
    <3>1. FrameInPlace(i + 1)
        BY <1>2, <1>7 DEF FramesInPlace
    <3>2. Finish(i)' % 4 = 0 \/ (at' = "flush" /\ i = Len(in_flight'))
        BY <1>1, <1>5, <1>6, <1>8, <3>1 DEF FrameInPlace
    <3> QED BY <1>1, <1>6, <1>8, <3>1, <3>2 DEF FrameInPlace, Start
  <2> QED BY <1>7, <2>1 DEF FramesInPlace
\* Where the tail was, and where it is now
<1>11. tail' \in Nat
    BY <1>1, <1>7, <1>9
<1>12. ASSUME tail <= head \/ tail # Start(1)
       PROVE  Straight' /\ Wrapped' /\ Ordered' /\ tail' <= BufLen
  <2>1. /\ tail' <= End
        /\ \A i \in 1..m : tail' <= Start(i)' /\ Finish(i)' <= End
    <3>1. CASE tail <= head
      <4>1. \A i \in DOMAIN in_flight : tail <= Start(i) /\ Finish(i) <= End
          BY <1>2, <3>1 DEF Straight
      <4>2. \A i \in 1..m : Finish(1) <= Start(i + 1)
          BY <1>2, <1>7, <4>1 DEF Ordered
      <4> QED BY <1>1, <1>7, <1>8, <4>1, <4>2
    <3>2. CASE head < tail /\ tail # Start(1)
      <4>1. ~(tail <= Start(1)) /\ Start(1) < tail
          BY <1>1, <1>3, <3>2
      <4>2. \A i \in 1..m : ~(tail <= Start(i + 1))
          BY <1>2, <1>7, <4>1 DEF Ordered
      <4>3. \A i \in 1..m : Finish(1) <= Start(i + 1)
          BY <1>2, <1>7, <4>1, <4>2 DEF Ordered
      <4>4. \A i \in 1..m : Start(i + 1) < tail
          BY <1>3, <1>7, <1>9, <4>2
      <4>5. \A i \in DOMAIN in_flight : Start(i) < tail => Finish(i) <= End
          BY <1>2, <3>2 DEF Wrapped
      <4> QED BY <1>1, <1>7, <1>8, <4>1, <4>3, <4>4, <4>5
    <3> QED BY <1>3, <1>12, <3>1, <3>2
  <2>2. Straight'
      BY <1>3, <1>7, <2>1 DEF Straight
  <2>3. Wrapped'
    <3>1. tail' <= head'
        BY <1>1, <1>3, <1>11, <2>1, ThreeInOrder
    <3>2. ~(head' < tail')
        BY <1>1, <1>3, <1>11, <3>1, Apart
    <3> QED BY <3>2 DEF Wrapped
  <2>4. Ordered'
    <3> SUFFICES ASSUME NEW i \in 1..m, NEW j \in 1..m, i < j
                 PROVE  tail' <= Start(i)' /\ Finish(i)' <= Start(j)'
        BY <1>7 DEF Ordered
    <3>1. i + 1 < j + 1 /\ i + 1 \in DOMAIN in_flight /\ j + 1 \in DOMAIN in_flight
        BY <1>7
    <3>2. (tail <= Start(i + 1) <=> tail <= Start(j + 1)) => Finish(i + 1) <= Start(j + 1)
        BY <1>2, <3>1 DEF Ordered
    <3>3. tail <= Start(i + 1) <=> tail <= Start(j + 1)
      <4>1. CASE tail <= head
          BY <1>2, <3>1, <4>1 DEF Straight
      <4>2. CASE head < tail /\ tail # Start(1)
        <5>1. ~(tail <= Start(1))
            BY <1>1, <1>3, <4>2
        <5> QED BY <1>2, <1>7, <3>1, <5>1 DEF Ordered
      <4> QED BY <1>3, <1>12, <4>1, <4>2
    <3> QED BY <1>8, <2>1, <3>2, <3>3
  <2>5. tail' <= BufLen
      BY <1>3, <1>11, <2>1, ThreeInOrder
  <2> QED BY <2>2, <2>3, <2>4, <2>5
<1>13. ASSUME head < tail, tail = Start(1)
       PROVE  Straight' /\ Wrapped' /\ Ordered' /\ tail' <= BufLen
  <2>1. PICK w \in DOMAIN markers : WrapMarker(w)
      BY <1>2, <1>13 DEF Wrapped
  <2>2. w \in Nat /\ w <= BufLen
      BY <1>4 DEF IsMap
  <2>3. Finish(1) <= w /\ Start(1) < Finish(1) /\ Finish(1) \in Nat
      BY <1>3, <1>7, <1>9, <1>13, <2>1 DEF WrapMarker
  <2>4. \A i \in 1..m : Finish(1) <= Start(i + 1) <=> tail <= Start(i + 1)
    <3> TAKE i \in 1..m
    <3>1. tail <= Start(i + 1) => Finish(1) <= Start(i + 1)
        BY <1>2, <1>3, <1>7, <1>13 DEF Ordered
    <3>2. Finish(1) <= Start(i + 1) => tail <= Start(i + 1)
        BY <1>3, <1>7, <1>9, <1>13, <2>3
    <3> QED BY <3>1, <3>2
  <2>5. ~(Finish(1) <= head) /\ head + MarkerSize <= Finish(1)
    <3>1. head + MarkerSize <= tail
        BY <1>2, <1>13 DEF Wrapped
    <3> QED BY <1>3, <1>13, <2>3, <3>1
  <2>6. Straight'
      BY <1>1, <2>5 DEF Straight
  <2>7. Wrapped'
    <3>1. WrapMarker(w)'
      <4>1. \A i \in 1..m : tail' <= Start(i)' => Finish(i)' <= w
          BY <1>1, <1>7, <1>8, <2>1, <2>4 DEF WrapMarker
      <4> QED BY <1>1, <1>7, <2>1, <2>3, <4>1 DEF WrapMarker
    <3>2. ASSUME NEW i \in 1..m, Start(i)' < tail' PROVE Finish(i)' <= End'
      <4>1. ~(Finish(1) <= Start(i + 1))
          BY <1>1, <1>7, <1>8, <1>9, <3>2
      <4>2. ~(tail <= Start(i + 1))
          BY <2>4, <4>1
      <4>3. Start(i + 1) < tail
          BY <1>3, <1>7, <1>9, <4>2
      <4> QED BY <1>2, <1>3, <1>7, <1>8, <1>13, <4>3 DEF Wrapped
    <3> QED BY <1>1, <1>7, <2>1, <2>5, <3>1, <3>2 DEF Wrapped
  <2>8. Ordered'
    <3> SUFFICES ASSUME NEW i \in 1..m, NEW j \in 1..m, i < j
                 PROVE  /\ tail' <= Start(j)' => tail' <= Start(i)'
                        /\ (tail' <= Start(i)' <=> tail' <= Start(j)') =>
                             Finish(i)' <= Start(j)'
        BY <1>7 DEF Ordered
    <3>1. i + 1 < j + 1 /\ i + 1 \in DOMAIN in_flight /\ j + 1 \in DOMAIN in_flight
        BY <1>7
    <3>2. /\ tail <= Start(j + 1) => tail <= Start(i + 1)
          /\ (tail <= Start(i + 1) <=> tail <= Start(j + 1)) =>
               Finish(i + 1) <= Start(j + 1)
        BY <1>2, <3>1 DEF Ordered
    <3> QED BY <1>1, <1>8, <2>4, <3>2
  <2>9. tail' <= BufLen
      BY <1>1, <2>2, <2>3
  <2> QED BY <2>6, <2>7, <2>8, <2>9
<1>14. Straight' /\ Wrapped' /\ Ordered' /\ tail' <= BufLen
  <2>1. tail <= head \/ head < tail
      BY <1>3
  <2> QED BY <1>12, <1>13, <2>1
<1>15. \A i \in DOMAIN in_flight : Leads(Finish(i), Successor(i))
    BY <1>2 DEF Chained
<1>16. Chained'
  <2>1. ASSUME NEW i \in 1..m PROVE Leads(Finish(i), Successor(i))'
    <3>1. Successor(i)' = Successor(i + 1)
      <4>1. CASE i = m
          BY <1>3, <1>5, <1>6, <4>1 DEF Successor
      <4>2. CASE i # m
          BY <1>5, <1>6, <1>8, <4>2 DEF Successor
      <4> QED BY <4>1, <4>2
    <3>2. Leads(Finish(i + 1), Successor(i + 1))
        BY <1>7, <1>15
    <3> QED BY <1>1, <1>8, <3>1, <3>2 DEF Leads
  <2>2. Leads(tail, IF in_flight = <<>> THEN End ELSE Start(1))'
    <3>1. Leads(Finish(1), Successor(1))
        BY <1>7, <1>15
    <3>2. (IF in_flight = <<>> THEN End ELSE Start(1))' = Successor(1)
      <4>1. CASE m = 0
          BY <1>3, <1>5, <1>6, <4>1, EmptySeq DEF Successor
      <4>2. CASE m # 0
          BY <1>5, <1>6, <1>8, <4>2, EmptySeq DEF Successor
      <4> QED BY <4>1, <4>2
    <3> QED BY <1>1, <3>1, <3>2 DEF Leads
  <2> QED BY <1>7, <2>1, <2>2 DEF Chained
<1>17. TailInPlace'
  <2>1. 8 < tail'
      BY <1>1, <1>7, <1>9, <1>11
  <2>2. CASE Finish(1) % 4 = 0
      BY <1>1, <2>1, <2>2 DEF TailInPlace
  <2>3. CASE Finish(1) % 4 # 0
    <3>1. at = "flush" /\ Len(in_flight) = 1
        BY <1>2, <1>7, <2>3 DEF FramesInPlace, FrameInPlace
    <3>2. Successor(1) = head /\ head > 0
        BY <1>2, <3>1 DEF Successor, End, HeadInPlace
    <3>3. Finish(1) = head
      <4>1. at # "closed"
          BY <1>1
      <4>2. Finish(1) = Successor(1) \/ Successor(1) = 0
          BY <1>7, <4>1, Straightforward
      <4> QED BY <1>3, <3>2, <4>2
    <3> QED BY <1>1, <2>1, <3>1, <3>3 DEF TailInPlace
  <2> QED BY <2>2, <2>3
<1>18. TypeOK'
  <2>1. (TypeOK <=> TypeFacts!2)'
      BY TypeFacts, PTL
  <2>2. TypeFacts!2
      BY <1>2, TypeFacts
  <2>3. tail' \in 0..BufLen
      BY <1>11, <1>14
  <2> QED BY <1>1, <1>6, <2>1, <2>2, <2>3
<1>19. HeadInPlace'
    BY <1>1, <1>2 DEF HeadInPlace
<1> QED BY <1>1, <1>10, <1>14, <1>16, <1>17, <1>18, <1>19 DEF IInv, Ring

\* Every step but the three events keeps the invariant.
LEMMA NextIInv ==
    ASSUME IInv, Next, ~Refused, ~PartAcknowledged, ~OntoTail
    PROVE  IInv'
<1>0. at = "send" \/ (at = "idle" /\ at' = "flush") => Taken
    BY DEF Refused
<1>1. CASE Write
    BY <1>1, WriteIInv
<1>2. CASE Flush
    BY <1>0, <1>2, FlushIInv DEF Flush
<1>3. CASE AwaitSpace \/ SpaceFound
    BY <1>3, WaitIInv
<1>4. CASE Copy
    BY <1>4, CopyIInv
<1>5. CASE SendAndWrap
    BY <1>0, <1>5, SendAndWrapIInv DEF SendAndWrap
<1>6. CASE WrapAround
    BY <1>6, WrapAroundIInv
<1>7. CASE SendAndGoOn
    BY <1>0, <1>7, SendAndGoOnIInv DEF SendAndGoOn
<1>8. CASE SendAndAwaitRoom
    BY <1>0, <1>8, SendAndAwaitRoomIInv DEF SendAndAwaitRoom
<1>9. CASE GoOnBeforeTail
    BY <1>9, GoOnBeforeTailIInv DEF OntoTail
<1>10. CASE Flushed
    BY <1>10, FlushedIInv
<1>11. CASE Sent
    BY <1>11, SentKeeps
<1>12. CASE ConnectionLost \/ Stopped
    BY <1>12, LostIInv
<1>13. CASE FlushEmpty
    BY <1>13, FlushEmptyIInv
<1> QED BY <1>1, <1>2, <1>3, <1>4, <1>5, <1>6, <1>7, <1>8, <1>9, <1>10, <1>11,
           <1>12, <1>13 DEF Next, Step

LEMMA StutterIInv == ASSUME IInv, UNCHANGED vars PROVE IInv'
BY DEF vars, frameVars, IInv, TypeOK, Ring, FramesInPlace, FrameInPlace,
       Straight, Wrapped, WrapMarker, Ordered, Chained, Successor, TailInPlace,
       HeadInPlace, End, Start, Finish, After, Leads

-----------------------------------------------------------------------------
(* What the invariant means *)

\* No two frames overlap, nor the one being built with any.
LEMMA FramesApart == IInv => FramesKept
<1> SUFFICES ASSUME IInv, at \notin Lost PROVE FramesKept
    BY DEF FramesKept
<1> USE Sizes
<1>1. at # "closed"
    BY DEF Lost
<1>2. FramesInPlace /\ Straight /\ Wrapped /\ Ordered /\ HeadInPlace
    BY <1>1 DEF IInv, Ring
<1>3. /\ head \in Nat /\ tail \in Nat /\ End \in Nat /\ End <= head
      /\ DOMAIN in_flight = 1..Len(in_flight) /\ Len(in_flight) \in Nat
    BY <1>1, Numbers
\* A frame is between its marker and the place the marker leads to.
<1>4. ASSUME NEW i \in DOMAIN in_flight
      PROVE  /\ Start(i) \in Nat /\ Finish(i) \in Nat
             /\ \A b \in Bytes(in_flight[i]) :
                  b \in Nat /\ Start(i) <= b /\ b < Finish(i)
  <2>1. /\ Start(i) \in Nat /\ Finish(i) \in Nat
        /\ in_flight[i].first \in Nat /\ in_flight[i].len \in Nat
      BY <1>1, <1>4, Numbers DEF Frames
  <2>2. /\ Start(i) + 4 <= in_flight[i].first
        /\ in_flight[i].first + in_flight[i].len <= Finish(i)
      BY <1>2, <1>4 DEF FramesInPlace, FrameInPlace
  <2> QED BY <2>1, <2>2 DEF Bytes
<1>5. ASSUME NEW i \in DOMAIN in_flight, NEW j \in DOMAIN in_flight, i < j
      PROVE  Bytes(in_flight[i]) \cap Bytes(in_flight[j]) = {}
  <2>1. Finish(i) <= Start(j) \/ Finish(j) <= Start(i)
    <3>1. CASE tail <= Start(i) <=> tail <= Start(j)
        BY <1>2, <1>5, <3>1 DEF Ordered
    <3>2. CASE ~(tail <= Start(i) <=> tail <= Start(j))
      <4>1. tail <= Start(i) /\ ~(tail <= Start(j))
          BY <1>2, <1>5, <3>2 DEF Ordered
      <4>2. Start(j) < tail
          BY <1>3, <1>4, <4>1
      <4>3. head < tail
          BY <1>2, <1>3, <4>1 DEF Straight
      <4>4. Finish(j) <= End
          BY <1>2, <4>2, <4>3 DEF Wrapped
      <4> QED BY <1>3, <1>4, <4>1, <4>3, <4>4
    <3> QED BY <3>1, <3>2
  <2> QED BY <1>4, <2>1
<1>6. ASSUME NEW i \in DOMAIN in_flight, NEW j \in DOMAIN in_flight, i # j
      PROVE  Bytes(in_flight[i]) \cap Bytes(in_flight[j]) = {}
  <2>1. i < j \/ j < i
      BY <1>3, <1>6
  <2> QED BY <1>5, <2>1
<1>7. ASSUME at \in {"idle", "copy", "space", "send", "empty"},
             NEW i \in DOMAIN in_flight
      PROVE  Bytes(in_flight[i]) \cap current_marker..(head - 1) = {}
  <2>1. End = current_marker /\ current_marker <= head
      BY <1>3, <1>7 DEF End
  <2>2. Finish(i) <= current_marker \/ head < Start(i)
    <3>1. CASE tail <= head
        BY <1>2, <2>1, <3>1 DEF Straight
    <3>2. CASE head < tail
        BY <1>2, <1>3, <1>4, <2>1, <3>2 DEF Wrapped
    <3> QED BY <1>3, <3>1, <3>2
  <2>3. \A b \in current_marker..(head - 1) : current_marker <= b /\ b < head
      BY <1>3, <2>1
  <2> QED BY <1>3, <1>4, <2>1, <2>2, <2>3
<1> QED BY <1>6, <1>7 DEF FramesKept

\* Chained says it with the frame being built as the last.
LEMMA MarkersInOrder == IInv => MarkersLead
<1> SUFFICES ASSUME IInv, at \notin Lost PROVE MarkersLead
    BY DEF MarkersLead
<1>1. at # "closed"
    BY DEF Lost
<1>2. FramesInPlace /\ Chained
    BY <1>1 DEF IInv, Ring
<1>3. DOMAIN in_flight = 1..Len(in_flight) /\ Len(in_flight) \in Nat
    BY <1>1, Numbers
<1>4. in_flight = <<>> <=> Len(in_flight) = 0
    BY EmptySeq, TypeFacts DEF IInv
<1> QED BY <1>2, <1>3, <1>4
        DEF MarkersLead, FramesInPlace, FrameInPlace, Chained, Successor, Start, Finish

-----------------------------------------------------------------------------
(* The ring is a queue of frames *)

Payload(frame) == frame.len + frame.first - (frame.marker + PayloadStart)
Payloads == [i \in DOMAIN in_flight |->
                in_flight[i].len + in_flight[i].first
                    - (in_flight[i].marker + PayloadStart)]
Mode == CASE at \in {"copy", "send", "space", "wrap", "snake"} -> "writing"
          [] at \in {"flush", "empty"} -> "flushing"
          [] OTHER -> at

\* The queue of FrameQueue, and what happens to it with the frames.
LEMMA PayloadsType ==
    ASSUME NEW f \in Seq(Frames)
    PROVE  /\ [i \in DOMAIN f |-> Payload(f[i])] \in Seq(Int)
           /\ Len([i \in DOMAIN f |-> Payload(f[i])]) = Len(f)
           /\ \A i \in 1..Len(f) : [j \in DOMAIN f |-> Payload(f[j])][i] = Payload(f[i])
<1>1. DOMAIN f = 1..Len(f) /\ Len(f) \in Nat
    BY LenProperties
<1>2. \A i \in 1..Len(f) : f[i] \in Frames
    BY ElementOfSeq
<1>3. \A i \in 1..Len(f) : Payload(f[i]) \in Int
    BY <1>2, Sizes DEF Frames, Payload
<1> DEFINE p == [i \in DOMAIN f |-> Payload(f[i])]
<1>4. p \in [1..Len(f) -> Int]
    BY <1>1, <1>3
<1>5. \A i \in 1..Len(f) : p[i] = Payload(f[i])
    BY <1>1
<1> HIDE DEF p
<1>6. p \in Seq(Int) /\ Len(p) = Len(f)
    BY <1>1, <1>4
<1> QED BY <1>5, <1>6 DEF p

LEMMA PayloadsSent ==
    ASSUME NEW f \in Seq(Frames), NEW frame \in Frames
    PROVE  [i \in DOMAIN Append(f, frame) |-> Payload(Append(f, frame)[i])]
             = Append([i \in DOMAIN f |-> Payload(f[i])], Payload(frame))
<1> DEFINE g == Append(f, frame)
           p == [i \in DOMAIN f |-> Payload(f[i])]
           q == [i \in DOMAIN g |-> Payload(g[i])]
<1>1. /\ g \in Seq(Frames) /\ Len(g) = Len(f) + 1
      /\ \A i \in 1..Len(f) : g[i] = f[i]
      /\ g[Len(f) + 1] = frame
    BY AppendProperties
<1> HIDE DEF g
<1>2. /\ p \in Seq(Int) /\ Len(p) = Len(f)
      /\ \A i \in 1..Len(f) : p[i] = Payload(f[i])
    BY PayloadsType
<1>3. /\ q \in Seq(Int) /\ Len(q) = Len(g)
      /\ \A i \in 1..Len(g) : q[i] = Payload(g[i])
    BY <1>1, PayloadsType
<1> HIDE DEF p, q
<1>4. Payload(frame) \in Int
    BY Sizes DEF Frames, Payload
<1>5. /\ Append(p, Payload(frame)) \in Seq(Int)
      /\ Len(Append(p, Payload(frame))) = Len(p) + 1
      /\ \A i \in 1..Len(p) : Append(p, Payload(frame))[i] = p[i]
      /\ Append(p, Payload(frame))[Len(p) + 1] = Payload(frame)
    BY <1>2, <1>4, AppendProperties
<1>6. Len(f) \in Nat
    BY LenProperties
<1>7. \A i \in 1..Len(q) : q[i] = Append(p, Payload(frame))[i]
    BY <1>1, <1>2, <1>3, <1>5, <1>6
<1>8. q = Append(p, Payload(frame))
    BY <1>1, <1>2, <1>3, <1>5, <1>7, SeqEqual
<1> QED BY <1>8 DEF g, p, q

LEMMA PayloadsAcknowledged ==
    ASSUME NEW f \in Seq(Frames), f # <<>>
    PROVE  /\ [i \in DOMAIN Tail(f) |-> Payload(Tail(f)[i])]
                = Tail([i \in DOMAIN f |-> Payload(f[i])])
           /\ [i \in DOMAIN f |-> Payload(f[i])] # <<>>
<1> DEFINE g == Tail(f)
           p == [i \in DOMAIN f |-> Payload(f[i])]
           q == [i \in DOMAIN g |-> Payload(g[i])]
<1>1. /\ g \in Seq(Frames) /\ Len(g) = Len(f) - 1
      /\ \A i \in 1..Len(g) : g[i] = f[i + 1]
    BY HeadTailProperties
<1> HIDE DEF g
<1>2. /\ p \in Seq(Int) /\ Len(p) = Len(f)
      /\ \A i \in 1..Len(f) : p[i] = Payload(f[i])
    BY PayloadsType
<1>3. /\ q \in Seq(Int) /\ Len(q) = Len(g)
      /\ \A i \in 1..Len(g) : q[i] = Payload(g[i])
    BY <1>1, PayloadsType
<1> HIDE DEF p, q
<1>4. Len(f) \in Nat \ {0}
    BY EmptySeq
<1>5. p # <<>>
    BY <1>2, <1>4, EmptySeq
<1>6. /\ Tail(p) \in Seq(Int) /\ Len(Tail(p)) = Len(p) - 1
      /\ \A i \in 1..Len(Tail(p)) : Tail(p)[i] = p[i + 1]
    BY <1>2, <1>5, HeadTailProperties
<1>7. \A i \in 1..Len(q) : q[i] = Tail(p)[i]
  <2>1. TAKE i \in 1..Len(q)
  <2>2. Len(g) \in Nat /\ Len(q) = Len(g) /\ i \in 1..Len(g) /\ i + 1 \in 1..Len(f)
    BY <1>1, <1>3, <1>4
  <2>3. q[i] = Payload(f[i + 1])
    BY <1>1, <1>3, <2>2
  <2>4. i \in 1..Len(Tail(p))
    BY <1>1, <1>2, <1>6, <2>2
  <2>5. Tail(p)[i] = Payload(f[i + 1])
    BY <1>2, <1>6, <2>2, <2>4
  <2> QED BY <2>3, <2>5
<1>8. q = Tail(p)
    BY <1>1, <1>2, <1>3, <1>6, <1>7, SeqEqual
<1> QED BY <1>5, <1>8 DEF g, p, q

LEMMA PayloadsAre ==
    /\ Payloads = [i \in DOMAIN in_flight |-> Payload(in_flight[i])]
    /\ Payloads' = [i \in DOMAIN in_flight' |-> Payload(in_flight'[i])]
BY DEF Payloads, Payload

\* Sending the frame appends its payload to the queue.
LEMMA OpenSent ==
    ASSUME IInv, at \in {"idle", "send"}, current_payload_len > 0,
           Taken
    PROVE  Payloads' = Append(Payloads, current_payload_len) /\ current_payload_len' = 0
<1> USE Sizes
<1>1. /\ TypeOK /\ head \in 0..BufLen
      /\ current_marker \in Nat /\ current_payload_len \in Nat /\ in_flight \in Seq(Frames)
    BY TypeFacts DEF IInv
<1>2. /\ head = current_marker + PayloadStart + current_payload_len
      /\ current_marker + PayloadStart <= BufLen
    BY <1>1 DEF IInv, Ring, HeadInPlace
<1>3. /\ Frame \in Frames /\ Frame.marker = current_marker
      /\ Frame.first + Frame.len = head
  <2>1. PICK end \in 0..BufLen : end = head
      BY <1>1
  <2>2. head <= end /\ end <= head + 3
      BY <1>1, <2>1
  <2> QED BY <1>1, <1>2, <2>2, FrameFacts
<1>4. Payload(Frame) = current_payload_len
  <2>1. Frame.first \in Nat /\ Frame.len \in Nat
      BY <1>3 DEF Frames
  <2> QED BY <1>1, <1>2, <1>3, <2>1 DEF Payload
<1>5. Payloads' = Append(Payloads, Payload(Frame))
    BY <1>1, <1>3, PayloadsAre, PayloadsSent DEF Taken
<1> QED BY <1>4, <1>5 DEF Taken

\* Each case of the task's mode, and of its next one.
LEMMA Modes ==
    /\ at \in {"copy", "send", "space", "wrap", "snake"} => Mode = "writing"
    /\ at \in {"flush", "empty"} => Mode = "flushing"
    /\ at = "idle" => Mode = "idle"
    /\ at = "closed" => Mode = "closed"
BY DEF Mode

LEMMA QueueInit == Init => Queue!Init
<1> SUFFICES ASSUME Init PROVE Queue!Init
    OBVIOUS
<1>1. at = "idle" /\ left = 0 /\ current_payload_len = 0 /\ in_flight = <<>>
    BY DEF Init
<1>2. Mode = "idle"
    BY <1>1, Modes
<1>3. Payloads = <<>>
  <2>1. in_flight \in Seq(Frames) /\ Len(in_flight) = 0
      BY <1>1, EmptySeq
  <2>2. Payloads \in Seq(Int) /\ Len(Payloads) = 0
      BY <2>1, PayloadsAre, PayloadsType
  <2> QED BY <2>2, EmptySeq
<1> QED BY <1>1, <1>2, <1>3 DEF Queue!Init, Mode, Payloads

\* Every step is a step of the queue, or changes nothing of it.
LEMMA QueueNext ==
    ASSUME IInv, IInv', [Next]_vars, ~Refused, ~PartAcknowledged
    PROVE  [Queue!Next]_Queue!vars
<1> USE Sizes
<1>1. CASE Write
  <2>1. /\ at = "idle" /\ at' = "copy" /\ left' \in Lengths
        /\ current_payload_len' = current_payload_len /\ in_flight' = in_flight
      BY <1>1 DEF Write, frameVars
  <2>2. Mode = "idle" /\ Mode' = "writing" /\ Payloads' = Payloads
      BY <2>1, PayloadsAre DEF Mode
  <2>3. Queue!Write
      BY <2>1, <2>2 DEF Queue!Write, Mode, Payloads
  <2> QED BY <2>3 DEF Queue!Next
<1>2. CASE Flush
  <2>1. /\ at = "idle" /\ at' = "flush" /\ current_payload_len > 0 /\ left' = left
        /\ Taken
      BY <1>2 DEF Flush, Refused
  <2>2. /\ Payloads' = Append(Payloads, current_payload_len)
        /\ current_payload_len' = 0
      BY <2>1, OpenSent
  <2>3. Mode = "idle" /\ Mode' = "flushing"
      BY <2>1 DEF Mode
  <2>4. Queue!Flush
      BY <2>1, <2>2, <2>3 DEF Queue!Flush, Queue!SendOpen, Mode, Payloads
  <2> QED BY <2>4 DEF Queue!Next
<1>11. CASE FlushEmpty
  <2>1. /\ at = "idle" /\ at' = "empty" /\ current_payload_len = 0
        /\ left' = left /\ current_payload_len' = current_payload_len
        /\ in_flight' = in_flight
      BY <1>11 DEF FlushEmpty, frameVars
  <2>2. Mode = "idle" /\ Mode' = "flushing" /\ Payloads' = Payloads
      BY <2>1, PayloadsAre DEF Mode
  <2>3. Queue!Flush
      BY <2>1, <2>2 DEF Queue!Flush, Mode, Payloads
  <2> QED BY <2>3 DEF Queue!Next
<1>3. CASE AwaitSpace \/ SpaceFound
  <2>1. /\ at \in {"copy", "space"} /\ at' \in {"copy", "space"}
        /\ left' = left /\ current_payload_len' = current_payload_len
        /\ in_flight' = in_flight
      BY <1>3 DEF AwaitSpace, SpaceFound, frameVars
  <2>2. Mode = "writing" /\ Mode' = "writing" /\ Payloads' = Payloads
      BY <2>1, PayloadsAre DEF Mode
  <2>3. UNCHANGED Queue!vars
      BY <2>1, <2>2 DEF Queue!vars, Mode, Payloads
  <2> QED BY <2>3
<1>4. CASE Copy
  <2> DEFINE n == Least(Space, Least(Minus(MaxPayload, current_payload_len), left))
  <2>1. /\ at = "copy" /\ ~(head < tail /\ Space = 0)
        /\ current_payload_len' = current_payload_len + n
        /\ left' = left - n /\ in_flight' = in_flight
        /\ at' = IF head' >= BufLen - MarkerSize \/ current_payload_len' >= Large
                 THEN "send" ELSE IF left' = 0 THEN "idle" ELSE "copy"
      BY <1>4 DEF Copy, Onward
  <2>2. n \in Nat /\ n <= left /\ current_payload_len + n <= MaxPayload
      BY <2>1, CopyFits
  <2> HIDE DEF n
  <2>3. left \in Nat /\ current_payload_len \in Nat
      BY TypeFacts DEF IInv
  <2>4. /\ left' <= left /\ current_payload_len' <= MaxPayload
        /\ current_payload_len' = current_payload_len + (left - left')
      BY <2>1, <2>2, <2>3
  <2>5. Mode = "writing" /\ Payloads' = Payloads
      BY <2>1, PayloadsAre DEF Mode
  <2>6. Mode' = "writing" \/ (Mode' = "idle" /\ left' = 0)
      BY <2>1 DEF Mode
  <2>7. Queue!Take
      BY <2>4, <2>5, <2>6 DEF Queue!Take, Queue!GoOn, Mode, Payloads
  <2> QED BY <2>7 DEF Queue!Next
<1>5. CASE SendAndWrap \/ SendAndGoOn \/ SendAndAwaitRoom
  <2>1. /\ at = "send" /\ left' = left
        /\ at' \in {"wrap", "snake", "idle", "copy"}
        /\ at' = "idle" => left' = 0
      BY <1>5 DEF SendAndWrap, SendAndGoOn, SendAndAwaitRoom, Onward
  <2>2. Taken
      BY <2>1 DEF Refused
  <2>3. current_payload_len > 0
      BY <2>1 DEF IInv, Ring, HeadInPlace
  <2>4. /\ Payloads' = Append(Payloads, current_payload_len)
        /\ current_payload_len' = 0
      BY <2>1, <2>2, <2>3, OpenSent
  <2>5. Mode = "writing" /\ (Mode' = "writing" \/ (Mode' = "idle" /\ left' = 0))
      BY <2>1 DEF Mode
  <2>6. Queue!Send
      BY <2>1, <2>3, <2>4, <2>5
         DEF Queue!Send, Queue!SendOpen, Queue!GoOn, Mode, Payloads
  <2> QED BY <2>6 DEF Queue!Next
<1>6. CASE WrapAround \/ GoOnBeforeTail
  <2>1. /\ at \in {"wrap", "snake"} /\ left' = left
        /\ at' = "copy" \/ (at' = "idle" /\ left' = 0)
        /\ current_payload_len' = current_payload_len /\ in_flight' = in_flight
      BY <1>6 DEF WrapAround, GoOnBeforeTail, Onward
  <2>2. Mode = "writing" /\ (Mode' = "writing" \/ (Mode' = "idle" /\ left' = 0))
      BY <2>1 DEF Mode
  <2>3. Payloads' = Payloads
      BY <2>1, PayloadsAre
  <2>4. left \in Nat /\ current_payload_len \in Nat /\ current_payload_len <= MaxPayload
      BY TypeFacts DEF IInv
  <2>5. /\ left' <= left /\ current_payload_len' <= MaxPayload
        /\ current_payload_len' = current_payload_len + (left - left')
      BY <2>1, <2>4
  <2>6. Queue!Take
      BY <2>2, <2>3, <2>5 DEF Queue!Take, Queue!GoOn, Mode, Payloads
  <2> QED BY <2>6 DEF Queue!Next
<1>7. CASE Flushed
  <2>1. /\ at = "flush" /\ tail = head /\ at' = "idle" /\ left' = left
        /\ current_payload_len' = current_payload_len /\ in_flight' = in_flight
      BY <1>7, EmptyFrameApart DEF Flushed
  <2>2. in_flight = <<>> /\ current_payload_len = 0
      BY <2>1, NothingInFlight DEF IInv, Ring, HeadInPlace
  <2>3. Payloads = <<>>
    <3>1. in_flight \in Seq(Frames) /\ Len(in_flight) = 0
        BY <2>2, EmptySeq
    <3>2. Payloads \in Seq(Int) /\ Len(Payloads) = 0
        BY <3>1, PayloadsAre, PayloadsType
    <3> QED BY <3>2, EmptySeq
  <2>4. Mode = "flushing" /\ Mode' = "idle" /\ Payloads' = Payloads
      BY <2>1, PayloadsAre DEF Mode
  <2>5. Queue!Flushed
      BY <2>1, <2>2, <2>3, <2>4 DEF Queue!Flushed, Mode, Payloads
  <2> QED BY <2>5 DEF Queue!Next
<1>8. CASE Sent
  <2>1. /\ at \in {"space", "wrap", "snake", "flush", "empty", "idle"} /\ at' = at
        /\ in_flight # <<>> /\ in_flight' = Tail(in_flight)
        /\ current_payload_len' = current_payload_len /\ left' = left
      BY <1>8, SentDoes
  <2>2. in_flight \in Seq(Frames)
      BY TypeFacts DEF IInv
  <2>3. Payloads' = Tail(Payloads) /\ Payloads # <<>>
      BY <2>1, <2>2, PayloadsAre, PayloadsAcknowledged
  <2>4. Mode # "closed" /\ Mode' = Mode
      BY <2>1 DEF Mode
  <2>5. Queue!Acknowledge
      BY <2>1, <2>3, <2>4 DEF Queue!Acknowledge, Mode, Payloads
  <2> QED BY <2>5 DEF Queue!Next
<1>9. CASE ConnectionLost
  <2>1. /\ at' = "closed" /\ left' = left /\ in_flight' = in_flight
        /\ current_payload_len' = current_payload_len
      BY <1>9 DEF ConnectionLost, frameVars
  <2>2. Mode' = "closed" /\ Payloads' = Payloads
      BY <2>1, PayloadsAre DEF Mode
  <2>3. Queue!Lose
      BY <2>1, <2>2 DEF Queue!Lose, Mode, Payloads
  <2> QED BY <2>3 DEF Queue!Next
<1>10. CASE Stopped \/ UNCHANGED vars
  <2>1. UNCHANGED <<at, left, in_flight, current_payload_len>>
      BY <1>10 DEF Stopped, vars, frameVars
  <2>2. Mode' = Mode /\ Payloads' = Payloads
      BY <2>1, PayloadsAre DEF Mode
  <2>3. UNCHANGED Queue!vars
      BY <2>1, <2>2 DEF Queue!vars, Mode, Payloads
  <2> QED BY <2>3
<1> QED BY <1>1, <1>2, <1>3, <1>4, <1>5, <1>6, <1>7, <1>8, <1>9, <1>10, <1>11
        DEF Next, Step

-----------------------------------------------------------------------------
(* The theorems *)

\* Before the events, the ring is in order.
IntactIInv == intact => IInv

LEMMA IntactStep ==
    ASSUME FNext, intact'
    PROVE  intact /\ Next /\ ~Refused /\ ~PartAcknowledged /\ ~OntoTail
BY DEF FNext

LEMMA Invariant == FSpec => []IntactIInv
<1>1. FInit => IntactIInv
    BY InitIInv DEF FInit, IntactIInv
<1>2. IntactIInv /\ [FNext]_<<vars, intact>> => IntactIInv'
  <2> SUFFICES ASSUME IntactIInv, [FNext]_<<vars, intact>>, intact' PROVE IInv'
      BY DEF IntactIInv
  <2>1. CASE FNext
    <3>1. IInv /\ Next /\ ~Refused /\ ~PartAcknowledged /\ ~OntoTail
        BY <2>1, IntactStep DEF IntactIInv
    <3> QED BY <3>1, NextIInv
  <2>2. CASE UNCHANGED <<vars, intact>>
    <3>1. IInv /\ UNCHANGED vars
        BY <2>2 DEF IntactIInv
    <3> QED BY <3>1, StutterIInv
  <2> QED BY <2>1, <2>2
<1> QED BY <1>1, <1>2, PTL DEF FSpec

\* Until TCP refuses a frame, acknowledges part of one, or line 364 lets a frame
\* begin onto the tail, the head, the tail, every marker and every frame stay
\* inside the buffer.
THEOREM RingTypeCorrect == FSpec => []IntactTypeOK
<1>1. IntactIInv => IntactTypeOK
    BY DEF IntactIInv, IntactTypeOK, IInv
<1> QED BY <1>1, Invariant, PTL

\* Until then websocket_write never touches bytes TCP still refers to.
THEOREM FramesAreKept == FSpec => []IntactFramesKept
<1>1. IntactIInv => IntactFramesKept
    BY FramesApart DEF IntactIInv, IntactFramesKept
<1> QED BY <1>1, Invariant, PTL

\* Until then websocket_framinator_ack_callback finds the marker of every frame.
THEOREM MarkersLeadOn == FSpec => []IntactMarkersLead
<1>1. IntactIInv => IntactMarkersLead
    BY MarkersInOrder DEF IntactIInv, IntactMarkersLead
<1> QED BY <1>1, Invariant, PTL

\* Until then the ring is a queue of frames.
THEOREM RingIsFrameQueue == FSpec => IntactIsFrameQueue
<1>1. FInit => Queue!Init
    BY QueueInit DEF FInit
<1>2. ASSUME IntactIInv, IntactIInv', [FNext]_<<vars, intact>>
      PROVE  [intact' => [Queue!Next]_(Queue!vars)]_<<vars, intact>>
  <2> SUFFICES ASSUME FNext, intact' PROVE [Queue!Next]_(Queue!vars)
      BY <1>2
  <2>1. intact /\ Next /\ ~Refused /\ ~PartAcknowledged
      BY IntactStep
  <2>2. IInv /\ IInv'
      BY <1>2, <2>1 DEF IntactIInv
  <2> QED BY <2>1, <2>2, QueueNext
<1> QED BY <1>1, <1>2, Invariant, PTL DEF FSpec, IntactIsFrameQueue
=============================================================================
