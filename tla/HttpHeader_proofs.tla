-------------------------- MODULE HttpHeader_proofs --------------------------
(* The header parser keeps its types, its selector is a search for a prefix, *)
(* its base64 text is base64, and what it makes of a request is what the     *)
(* request says, for any fields and requests and any pieces.                 *)
EXTENDS HttpHeader, SequenceTheorems, WellFoundedInduction, TLAPS

-----------------------------------------------------------------------------
(* Numbers *)

\* Every set of natural numbers has a least element; this carries the
\* inductions below.
LEMMA LeastOf ==
    ASSUME NEW S \in SUBSET Nat, S # {}
    PROVE  \E m \in S : \A n \in S : m <= n
<1> DEFINE R == {p \in Nat \X Nat : p[1] < p[2]}
<1>1. IsWellFoundedOn(R, Nat)
    BY NatLessThanWellFounded DEF OpToRel
<1>2. PICK m \in S : \A n \in S : ~(<<n, m>> \in R)
    BY <1>1, WFMin
<1>3. ASSUME NEW n \in S
      PROVE  m <= n
  <2>1. <<n, m>> \in Nat \X Nat /\ ~(<<n, m>> \in R)
      BY <1>2
  <2>2. ~(n < m)
      BY <2>1
  <2> QED BY <2>1, <2>2
<1> QED BY <1>3

\* Induction over 0..b, with a set for the property.
LEMMA Induction ==
    ASSUME NEW S \in SUBSET Nat, NEW b \in Nat, 0 \in S,
           \A n \in S : n < b => n + 1 \in S
    PROVE  0..b \subseteq S
<1> SUFFICES ASSUME NEW k \in 0..b, k \notin S
             PROVE  FALSE
    OBVIOUS
<1> DEFINE rest == (0..b) \ S
<1>1. rest \in SUBSET Nat /\ rest # {}
    OBVIOUS
<1>2. PICK m \in rest : \A n \in rest : m <= n
    BY <1>1, LeastOf
<1>3. m \in 0..b /\ m \notin S /\ m # 0
    BY <1>2
<1>4. m - 1 \in 0..b /\ m - 1 < b /\ m = (m - 1) + 1 /\ ~(m <= m - 1)
    BY <1>3
<1>5. m - 1 \in S
    BY <1>2, <1>4
<1> QED BY <1>3, <1>4, <1>5

\* The least and the greatest of FiniteSetsExt are what they say.
LEMMA MinIs ==
    ASSUME NEW S \in SUBSET Nat, S # {}
    PROVE  Min(S) \in S /\ \A n \in S : Min(S) <= n
<1>1. \E m \in S : \A n \in S : m <= n
    BY LeastOf
<1> QED BY <1>1 DEF Min

LEMMA MaxIs ==
    ASSUME NEW b \in Nat, NEW S \in SUBSET (0..b), S # {}
    PROVE  Max(S) \in S /\ \A n \in S : Max(S) >= n
<1> DEFINE T == {b - n : n \in S}
<1>1. T \in SUBSET Nat /\ T # {}
    OBVIOUS
<1>2. PICK t \in T : \A n \in T : t <= n
    BY <1>1, LeastOf
<1>3. PICK m \in S : t = b - m
    OBVIOUS
<1>4. ASSUME NEW n \in S
      PROVE  m >= n
  <2>1. b - n \in T
      OBVIOUS
  <2>2. t <= b - n
      BY <1>2, <2>1
  <2>3. n \in 0..b /\ m \in 0..b
      BY Zenon
  <2> HIDE DEF T
  <2> QED BY <1>3, <2>2, <2>3
<1>5. \E x \in S : \A n \in S : x >= n
    BY <1>4
<1> QED BY <1>5 DEF Max

-----------------------------------------------------------------------------
(* Base64 *)

BitOf(byte, p) == (byte \div Weights[p + 1]) % 2

\* A byte is the sum of its bits.
LEMMA BitsOfByte ==
    ASSUME NEW a \in Bytes
    PROVE  \E b7, b6, b5, b4, b3, b2, b1, b0 \in {0, 1} :
             /\ a = 128 * b7 + 64 * b6 + 32 * b5 + 16 * b4 + 8 * b3 + 4 * b2 + 2 * b1 + b0
             /\ BitOf(a, 0) = b7 /\ BitOf(a, 1) = b6 /\ BitOf(a, 2) = b5 /\ BitOf(a, 3) = b4
             /\ BitOf(a, 4) = b3 /\ BitOf(a, 5) = b2 /\ BitOf(a, 6) = b1 /\ BitOf(a, 7) = b0
<1> DEFINE c7 == (a \div 128) % 2
           c6 == (a \div 64) % 2
           c5 == (a \div 32) % 2
           c4 == (a \div 16) % 2
           c3 == (a \div 8) % 2
           c2 == (a \div 4) % 2
           c1 == (a \div 2) % 2
           c0 == (a \div 1) % 2
<1>1. a \in Int /\ 0 <= a /\ a <= 255
    BY DEF Bytes
<1>2. /\ c7 \in {0, 1} /\ c6 \in {0, 1} /\ c5 \in {0, 1} /\ c4 \in {0, 1}
      /\ c3 \in {0, 1} /\ c2 \in {0, 1} /\ c1 \in {0, 1} /\ c0 \in {0, 1}
    BY <1>1
<1>3. a = 128 * c7 + 64 * c6 + 32 * c5 + 16 * c4 + 8 * c3 + 4 * c2 + 2 * c1 + c0
    BY <1>1
<1>4. /\ BitOf(a, 0) = c7 /\ BitOf(a, 1) = c6 /\ BitOf(a, 2) = c5 /\ BitOf(a, 3) = c4
      /\ BitOf(a, 4) = c3 /\ BitOf(a, 5) = c2 /\ BitOf(a, 6) = c1 /\ BitOf(a, 7) = c0
    BY DEF BitOf, Weights
<1> HIDE DEF c7, c6, c5, c4, c3, c2, c1, c0
<1> QED BY <1>2, <1>3, <1>4, SMTT(60)


ByteAt(bytes, n) == IF n <= Len(bytes) THEN bytes[n] ELSE 0

\* A byte of the input, or 0 behind it.
LEMMA ByteAtIs ==
    ASSUME NEW h \in Seq(Bytes), NEW n \in Nat \ {0}
    PROVE  ByteAt(h, n) \in Bytes
<1>1. CASE n <= Len(h)
  <2>1. Len(h) \in Nat /\ n \in 1..Len(h)
      BY <1>1
  <2>2. h[n] \in Bytes
      BY <2>1
  <2> QED BY <1>1, <2>2 DEF ByteAt
<1>2. CASE ~(n <= Len(h))
    BY <1>2 DEF ByteAt, Bytes
<1> QED BY <1>1, <1>2

\* Bit 24g + 8y + p of the input is bit p of byte 3g + y.
LEMMA BitIs ==
    ASSUME NEW h \in Seq(Bytes), NEW g \in Nat, NEW y \in 0..2, NEW p \in 0..7
    PROVE  Bit(h, 24 * g + 8 * y + p) = BitOf(ByteAt(h, 3 * g + y + 1), p)
<1> DEFINE k == 24 * g + 8 * y + p
<1> SUFFICES Bit(h, k) = BitOf(ByteAt(h, 3 * g + y + 1), p)
    OBVIOUS
<1>1. PICK m \in Nat : m = Len(h)
    OBVIOUS
<1>2. k \div 8 = 3 * g + y /\ (k % 8) = p
    OBVIOUS
<1>3. CASE k >= 8 * m
  <2>1. ~(3 * g + y + 1 <= m)
      BY <1>1, <1>3
  <2>2. Bit(h, k) = 0
      BY <1>1, <1>3 DEF Bit
  <2>3. ByteAt(h, 3 * g + y + 1) = 0
      BY <1>1, <2>1 DEF ByteAt
  <2>4. \A w \in {128, 64, 32, 16, 8, 4, 2, 1} : (0 \div w) % 2 = 0
      OBVIOUS
  <2>5. Weights[p + 1] \in {128, 64, 32, 16, 8, 4, 2, 1}
      BY DEF Weights
  <2> QED BY <2>2, <2>3, <2>4, <2>5 DEF BitOf
<1>4. CASE ~(k >= 8 * m)
  <2>1. 3 * g + y + 1 <= m
      BY <1>1, <1>4
  <2>2. Bit(h, k) = (h[k \div 8 + 1] \div Weights[(k % 8) + 1]) % 2
      BY <1>1, <1>4 DEF Bit
  <2>3. ByteAt(h, 3 * g + y + 1) = h[3 * g + y + 1]
      BY <1>1, <2>1 DEF ByteAt
  <2> HIDE DEF k
  <2> QED BY <1>2, <2>2, <2>3 DEF BitOf
<1> QED BY <1>3, <1>4

\* What a byte gives to the sextets left and right of a cut.
LEMMA ByteShares ==
    ASSUME NEW b7 \in {0, 1}, NEW b6 \in {0, 1}, NEW b5 \in {0, 1}, NEW b4 \in {0, 1},
           NEW b3 \in {0, 1}, NEW b2 \in {0, 1}, NEW b1 \in {0, 1}, NEW b0 \in {0, 1}, NEW a,
           a = 128 * b7 + 64 * b6 + 32 * b5 + 16 * b4 + 8 * b3 + 4 * b2 + 2 * b1 + b0
    PROVE  /\ 32 * b7 + 16 * b6 + 8 * b5 + 4 * b4 + 2 * b3 + b2 \in 0..63
           /\ 2 * b1 + b0 \in 0..3
           /\ a = 4 * (32 * b7 + 16 * b6 + 8 * b5 + 4 * b4 + 2 * b3 + b2) + (2 * b1 + b0)
           /\ 8 * b7 + 4 * b6 + 2 * b5 + b4 \in 0..15
           /\ 8 * b3 + 4 * b2 + 2 * b1 + b0 \in 0..15
           /\ a = 16 * (8 * b7 + 4 * b6 + 2 * b5 + b4) + (8 * b3 + 4 * b2 + 2 * b1 + b0)
           /\ 2 * b7 + b6 \in 0..3
           /\ 32 * b5 + 16 * b4 + 8 * b3 + 4 * b2 + 2 * b1 + b0 \in 0..63
           /\ a = 64 * (2 * b7 + b6) + (32 * b5 + 16 * b4 + 8 * b3 + 4 * b2 + 2 * b1 + b0)
OBVIOUS

\* The four characters of a group, from its three bytes.
LEMMA Sextets ==
    ASSUME NEW h \in Seq(Bytes), NEW g \in Nat,
           NEW a \in Bytes, NEW b \in Bytes, NEW c \in Bytes,
           a = ByteAt(h, 3 * g + 1), b = ByteAt(h, 3 * g + 2), c = ByteAt(h, 3 * g + 3)
    PROVE  /\ Sextet(h, 4 * g) = a \div 4
           /\ Sextet(h, 4 * g + 1) = (a * 16 + b \div 16) % 64
           /\ Sextet(h, 4 * g + 2) = (b * 4 + c \div 64) % 64
           /\ Sextet(h, 4 * g + 3) = c % 64
<1>a. \A p \in 0..7 : Bit(h, 24 * g + p) = BitOf(a, p)
  <2> TAKE p \in 0..7
  <2>1. PICK y \in 0..2 : y = 0
      OBVIOUS
  <2>2. Bit(h, 24 * g + 8 * y + p) = BitOf(ByteAt(h, 3 * g + y + 1), p)
      BY BitIs
  <2>3. 24 * g + 8 * y + p = 24 * g + p /\ 3 * g + y + 1 = 3 * g + 1
      BY <2>1
  <2> QED BY <2>2, <2>3
<1>b. \A p \in 0..7 : Bit(h, 24 * g + 8 + p) = BitOf(b, p)
  <2> TAKE p \in 0..7
  <2>1. PICK y \in 0..2 : y = 1
      OBVIOUS
  <2>2. Bit(h, 24 * g + 8 * y + p) = BitOf(ByteAt(h, 3 * g + y + 1), p)
      BY BitIs
  <2>3. 24 * g + 8 * y + p = 24 * g + 8 + p /\ 3 * g + y + 1 = 3 * g + 2
      BY <2>1
  <2> QED BY <2>2, <2>3
<1>c. \A p \in 0..7 : Bit(h, 24 * g + 16 + p) = BitOf(c, p)
  <2> TAKE p \in 0..7
  <2>1. PICK y \in 0..2 : y = 2
      OBVIOUS
  <2>2. Bit(h, 24 * g + 8 * y + p) = BitOf(ByteAt(h, 3 * g + y + 1), p)
      BY BitIs
  <2>3. 24 * g + 8 * y + p = 24 * g + 16 + p /\ 3 * g + y + 1 = 3 * g + 3
      BY <2>1
  <2> QED BY <2>2, <2>3
<1>1. PICK a7, a6, a5, a4, a3, a2, a1, a0 \in {0, 1} :
        /\ a = 128 * a7 + 64 * a6 + 32 * a5 + 16 * a4 + 8 * a3 + 4 * a2 + 2 * a1 + a0
        /\ BitOf(a, 0) = a7 /\ BitOf(a, 1) = a6 /\ BitOf(a, 2) = a5 /\ BitOf(a, 3) = a4
        /\ BitOf(a, 4) = a3 /\ BitOf(a, 5) = a2 /\ BitOf(a, 6) = a1 /\ BitOf(a, 7) = a0
    BY BitsOfByte
<1>2. PICK b7, b6, b5, b4, b3, b2, b1, b0 \in {0, 1} :
        /\ b = 128 * b7 + 64 * b6 + 32 * b5 + 16 * b4 + 8 * b3 + 4 * b2 + 2 * b1 + b0
        /\ BitOf(b, 0) = b7 /\ BitOf(b, 1) = b6 /\ BitOf(b, 2) = b5 /\ BitOf(b, 3) = b4
        /\ BitOf(b, 4) = b3 /\ BitOf(b, 5) = b2 /\ BitOf(b, 6) = b1 /\ BitOf(b, 7) = b0
    BY BitsOfByte
<1>3. PICK c7, c6, c5, c4, c3, c2, c1, c0 \in {0, 1} :
        /\ c = 128 * c7 + 64 * c6 + 32 * c5 + 16 * c4 + 8 * c3 + 4 * c2 + 2 * c1 + c0
        /\ BitOf(c, 0) = c7 /\ BitOf(c, 1) = c6 /\ BitOf(c, 2) = c5 /\ BitOf(c, 3) = c4
        /\ BitOf(c, 4) = c3 /\ BitOf(c, 5) = c2 /\ BitOf(c, 6) = c1 /\ BitOf(c, 7) = c0
    BY BitsOfByte
<1>4. Sextet(h, 4 * g) = 32 * a7 + 16 * a6 + 8 * a5 + 4 * a4 + 2 * a3 + a2
  <2>1. /\ 6 * (4 * g) + 0 = 24 * g + 0 /\ 6 * (4 * g) + 1 = 24 * g + 1
        /\ 6 * (4 * g) + 2 = 24 * g + 2 /\ 6 * (4 * g) + 3 = 24 * g + 3
        /\ 6 * (4 * g) + 4 = 24 * g + 4 /\ 6 * (4 * g) + 5 = 24 * g + 5
      OBVIOUS
  <2>2. /\ Bit(h, 24 * g + 0) = a7 /\ Bit(h, 24 * g + 1) = a6 /\ Bit(h, 24 * g + 2) = a5
        /\ Bit(h, 24 * g + 3) = a4 /\ Bit(h, 24 * g + 4) = a3 /\ Bit(h, 24 * g + 5) = a2
      BY <1>a, <1>1
  <2> QED BY ONLY <2>1, <2>2 DEF Sextet
<1>5. Sextet(h, 4 * g + 1) = 32 * a1 + 16 * a0 + 8 * b7 + 4 * b6 + 2 * b5 + b4
  <2>1. /\ 6 * (4 * g + 1) + 0 = 24 * g + 6 /\ 6 * (4 * g + 1) + 1 = 24 * g + 7
        /\ 6 * (4 * g + 1) + 2 = 24 * g + 8 + 0 /\ 6 * (4 * g + 1) + 3 = 24 * g + 8 + 1
        /\ 6 * (4 * g + 1) + 4 = 24 * g + 8 + 2 /\ 6 * (4 * g + 1) + 5 = 24 * g + 8 + 3
      OBVIOUS
  <2>2. /\ Bit(h, 24 * g + 6) = a1 /\ Bit(h, 24 * g + 7) = a0
      BY <1>a, <1>1
  <2>3. /\ Bit(h, 24 * g + 8 + 0) = b7 /\ Bit(h, 24 * g + 8 + 1) = b6
        /\ Bit(h, 24 * g + 8 + 2) = b5 /\ Bit(h, 24 * g + 8 + 3) = b4
      BY <1>b, <1>2
  <2> QED BY ONLY <2>1, <2>2, <2>3 DEF Sextet
<1>6. Sextet(h, 4 * g + 2) = 32 * b3 + 16 * b2 + 8 * b1 + 4 * b0 + 2 * c7 + c6
  <2>1. /\ 6 * (4 * g + 2) + 0 = 24 * g + 8 + 4 /\ 6 * (4 * g + 2) + 1 = 24 * g + 8 + 5
        /\ 6 * (4 * g + 2) + 2 = 24 * g + 8 + 6 /\ 6 * (4 * g + 2) + 3 = 24 * g + 8 + 7
        /\ 6 * (4 * g + 2) + 4 = 24 * g + 16 + 0 /\ 6 * (4 * g + 2) + 5 = 24 * g + 16 + 1
      OBVIOUS
  <2>2. /\ Bit(h, 24 * g + 8 + 4) = b3 /\ Bit(h, 24 * g + 8 + 5) = b2
        /\ Bit(h, 24 * g + 8 + 6) = b1 /\ Bit(h, 24 * g + 8 + 7) = b0
      BY <1>b, <1>2
  <2>3. /\ Bit(h, 24 * g + 16 + 0) = c7 /\ Bit(h, 24 * g + 16 + 1) = c6
      BY <1>c, <1>3
  <2> QED BY ONLY <2>1, <2>2, <2>3 DEF Sextet
<1>7. Sextet(h, 4 * g + 3) = 32 * c5 + 16 * c4 + 8 * c3 + 4 * c2 + 2 * c1 + c0
  <2>1. /\ 6 * (4 * g + 3) + 0 = 24 * g + 16 + 2 /\ 6 * (4 * g + 3) + 1 = 24 * g + 16 + 3
        /\ 6 * (4 * g + 3) + 2 = 24 * g + 16 + 4 /\ 6 * (4 * g + 3) + 3 = 24 * g + 16 + 5
        /\ 6 * (4 * g + 3) + 4 = 24 * g + 16 + 6 /\ 6 * (4 * g + 3) + 5 = 24 * g + 16 + 7
      OBVIOUS
  <2>2. /\ Bit(h, 24 * g + 16 + 2) = c5 /\ Bit(h, 24 * g + 16 + 3) = c4
        /\ Bit(h, 24 * g + 16 + 4) = c3 /\ Bit(h, 24 * g + 16 + 5) = c2
        /\ Bit(h, 24 * g + 16 + 6) = c1 /\ Bit(h, 24 * g + 16 + 7) = c0
      BY <1>c, <1>3
  <2> QED BY ONLY <2>1, <2>2 DEF Sextet
<1> DEFINE x == 32 * a7 + 16 * a6 + 8 * a5 + 4 * a4 + 2 * a3 + a2
           u == 2 * a1 + a0
           y == 8 * b7 + 4 * b6 + 2 * b5 + b4
           z == 8 * b3 + 4 * b2 + 2 * b1 + b0
           w == 2 * c7 + c6
           v == 32 * c5 + 16 * c4 + 8 * c3 + 4 * c2 + 2 * c1 + c0
<1>8. x \in 0..63 /\ u \in 0..3 /\ a = 4 * x + u
  <2>1. a = 128 * a7 + 64 * a6 + 32 * a5 + 16 * a4 + 8 * a3 + 4 * a2 + 2 * a1 + a0
      BY <1>1
  <2> QED BY <2>1, ByteShares
<1>9. y \in 0..15 /\ z \in 0..15 /\ b = 16 * y + z
  <2>1. b = 128 * b7 + 64 * b6 + 32 * b5 + 16 * b4 + 8 * b3 + 4 * b2 + 2 * b1 + b0
      BY <1>2
  <2> QED BY <2>1, ByteShares
<1>10. w \in 0..3 /\ v \in 0..63 /\ c = 64 * w + v
  <2>1. c = 128 * c7 + 64 * c6 + 32 * c5 + 16 * c4 + 8 * c3 + 4 * c2 + 2 * c1 + c0
      BY <1>3
  <2> QED BY <2>1, ByteShares
<1>11. /\ Sextet(h, 4 * g) = x /\ Sextet(h, 4 * g + 1) = 16 * u + y
       /\ Sextet(h, 4 * g + 2) = 4 * z + w /\ Sextet(h, 4 * g + 3) = v
  <2>1. 16 * u + y = 32 * a1 + 16 * a0 + 8 * b7 + 4 * b6 + 2 * b5 + b4
      OBVIOUS
  <2>2. 4 * z + w = 32 * b3 + 16 * b2 + 8 * b1 + 4 * b0 + 2 * c7 + c6
      OBVIOUS
  <2> QED BY <1>4, <1>5, <1>6, <1>7, <2>1, <2>2
<1> HIDE DEF x, u, y, z, w, v
<1>12. /\ a \div 4 = x /\ (a * 16 + b \div 16) % 64 = 16 * u + y
       /\ (b * 4 + c \div 64) % 64 = 4 * z + w /\ c % 64 = v
  <2>1. a \div 4 = x
    <3>1. \A X \in 0..63, U \in 0..3 : (4 * X + U) \div 4 = X
        BY ONLY TRUE
    <3> QED BY <1>8, <3>1, Zenon
  <2>2. b \div 16 = y /\ c \div 64 = w
    <3>1. \A Y \in 0..15, Z \in 0..15 : (16 * Y + Z) \div 16 = Y
        BY ONLY TRUE
    <3>2. \A W \in 0..3, V \in 0..63 : (64 * W + V) \div 64 = W
        BY ONLY TRUE
    <3>3. y \in 0..15 /\ z \in 0..15
        BY <1>9
    <3>4. w \in 0..3 /\ v \in 0..63
        BY <1>10
    <3>5. b = 16 * y + z /\ c = 64 * w + v
        BY <1>9, <1>10
    <3>6. (16 * y + z) \div 16 = y
        BY <3>1, <3>3, Zenon
    <3>7. (64 * w + v) \div 64 = w
        BY <3>2, <3>4, Zenon
    <3> QED BY ONLY <3>5, <3>6, <3>7, Zenon
  <2>3. \A X \in 0..63, U \in 0..3, Y \in 0..15 : \A A :
           A = 4 * X + U => A * 16 + Y = 64 * X + (16 * U + Y) /\ 16 * U + Y \in 0..63
      BY ONLY TRUE
  <2>4. \A Y \in 0..15, Z \in 0..15, W \in 0..3 :
           (16 * Y + Z) * 4 + W = 64 * Y + (4 * Z + W) /\ 4 * Z + W \in 0..63
      BY ONLY TRUE
  <2>5. \A X \in 0..63, s \in 0..63 : (64 * X + s) % 64 = s
      BY ONLY TRUE
  <2>6. a * 16 + y = 64 * x + (16 * u + y) /\ 16 * u + y \in 0..63
    <3>1. x \in 0..63 /\ u \in 0..3 /\ y \in 0..15
        BY <1>8, <1>9
    <3>2. a = 4 * x + u
        BY <1>8
    <3> QED BY ONLY <2>3, <3>1, <3>2, ZenonT(60)
  <2>7. b * 4 + w = 64 * y + (4 * z + w) /\ 4 * z + w \in 0..63
    <3>1. y \in 0..15 /\ z \in 0..15
        BY <1>9
    <3>2. w \in 0..3
        BY <1>10
    <3>3. /\ (16 * y + z) * 4 + w = 64 * y + (4 * z + w)
          /\ 4 * z + w \in 0..63
        BY <2>4, <3>1, <3>2, Zenon
    <3>4. b = 16 * y + z
        BY <1>9
    <3> QED BY <3>3, <3>4, Zenon
  <2>8. (64 * x + (16 * u + y)) % 64 = 16 * u + y
      BY <1>8, <2>5, <2>6, Zenon
  <2>9. (64 * y + (4 * z + w)) % 64 = 4 * z + w
    <3>1. y \in 0..63
        BY <1>9
    <3> QED BY <3>1, <2>5, <2>7, Zenon
  <2>10. c % 64 = v
    <3>1. \A W \in 0..3, V \in 0..63 : (64 * W + V) % 64 = V
        BY ONLY TRUE
    <3>2. w \in 0..3 /\ v \in 0..63
        BY <1>10
    <3>3. (64 * w + v) % 64 = v
        BY <3>1, <3>2, Zenon
    <3>4. c = 64 * w + v
        BY <1>10
    <3> QED BY ONLY <3>3, <3>4, Zenon
  <2> QED BY <2>1, <2>2, <2>6, <2>7, <2>8, <2>9, <2>10
<1> QED BY <1>11, <1>12

\* bitsToBase64 (testing.c) goes by the alphabet.
LEMMA AlphabetIs ==
    ASSUME NEW s \in 0..63
    PROVE  bitsToBase64(s) = Alphabet[s]
<1>1. s \in Int /\ 0 <= s /\ s <= 63
    OBVIOUS
<1>2. CASE s < 26
    BY <1>1, <1>2 DEF bitsToBase64, Alphabet
<1>3. CASE s \in 26..51
    BY <1>1, <1>3 DEF bitsToBase64, Alphabet
<1>4. CASE s \in 52..61
    BY <1>1, <1>4 DEF bitsToBase64, Alphabet
<1>5. CASE s = 62
    BY <1>1, <1>5 DEF bitsToBase64, Alphabet
<1>6. CASE s = 63
    BY <1>1, <1>6 DEF bitsToBase64, Alphabet
<1> QED BY <1>1, <1>2, <1>3, <1>4, <1>5, <1>6

\* encode_base64 (testing.c) is base64, whatever the length of its input.
LEMMA EncodesBase64 ==
    ASSUME NEW h \in Seq(Bytes)
    PROVE  encode_base64(h) = Base64(h)
<1>1. PICK m \in Nat : m = Len(h)
    OBVIOUS
<1> DEFINE D == 1..4 * ((m + 2) \div 3)
<1> SUFFICES ASSUME NEW j \in D
             PROVE  Group(h, 3 * ((j - 1) \div 4))[((j - 1) % 4) + 1]
                      = IF 6 * (j - 1) >= 8 * m THEN 61 ELSE Alphabet[Sextet(h, j - 1)]
    BY <1>1 DEF encode_base64, Base64
<1>2. PICK g \in Nat, r \in 0..3 :
        /\ j - 1 = 4 * g + r /\ (j - 1) \div 4 = g /\ ((j - 1) % 4) = r
        /\ 3 * g + 1 <= m
  <2>1. j \in Nat /\ j - 1 >= 0 /\ j <= 4 * ((m + 2) \div 3)
      OBVIOUS
  <2>2. /\ (j - 1) \div 4 \in Nat /\ ((j - 1) % 4) \in 0..3
        /\ j - 1 = 4 * ((j - 1) \div 4) + ((j - 1) % 4)
      BY <2>1
  <2>3. 3 * ((j - 1) \div 4) + 1 <= m
      BY <2>1
  <2> QED BY <2>2, <2>3
<1>3. PICK i \in Nat : i = 3 * g
    OBVIOUS
<1>4. PICK a, b, c \in Bytes :
        a = ByteAt(h, 3 * g + 1) /\ b = ByteAt(h, 3 * g + 2) /\ c = ByteAt(h, 3 * g + 3)
  <2>1. 3 * g + 1 \in Nat \ {0} /\ 3 * g + 2 \in Nat \ {0} /\ 3 * g + 3 \in Nat \ {0}
      OBVIOUS
  <2> QED BY <2>1, ByteAtIs
<1>5. /\ Sextet(h, 4 * g) = a \div 4
      /\ Sextet(h, 4 * g + 1) = (a * 16 + b \div 16) % 64
      /\ Sextet(h, 4 * g + 2) = (b * 4 + c \div 64) % 64
      /\ Sextet(h, 4 * g + 3) = c % 64
    BY <1>4, Sextets
<1>6. /\ a \div 4 \in 0..63 /\ (a * 16 + b \div 16) % 64 \in 0..63
      /\ (b * 4 + c \div 64) % 64 \in 0..63 /\ c % 64 \in 0..63
    BY DEF Bytes
<1>7. /\ bitsToBase64(a \div 4) = Alphabet[Sextet(h, 4 * g)]
      /\ bitsToBase64((a * 16 + b \div 16) % 64) = Alphabet[Sextet(h, 4 * g + 1)]
      /\ bitsToBase64((b * 4 + c \div 64) % 64) = Alphabet[Sextet(h, 4 * g + 2)]
      /\ bitsToBase64(c % 64) = Alphabet[Sextet(h, 4 * g + 3)]
  <2>1. \A d \in 0..63 : bitsToBase64(d) = Alphabet[d]
      BY AlphabetIs
  <2>2. /\ bitsToBase64(a \div 4) = Alphabet[a \div 4]
        /\ bitsToBase64((a * 16 + b \div 16) % 64) = Alphabet[(a * 16 + b \div 16) % 64]
        /\ bitsToBase64((b * 4 + c \div 64) % 64) = Alphabet[(b * 4 + c \div 64) % 64]
        /\ bitsToBase64(c % 64) = Alphabet[c % 64]
      BY ONLY <1>6, <2>1, ZenonT(60)
  <2> QED BY ONLY <1>5, <2>2, ZenonT(60)
<1> DEFINE text == Group(h, i)
           places == IF 6 * (4 * g + r) >= 8 * m THEN 61 ELSE Alphabet[Sextet(h, 4 * g + r)]
<1>8. SUFFICES text[r + 1] = places
    BY <1>2, <1>3
<1>9. /\ a = h[i + 1]
      /\ i + 2 <= m => b = h[i + 2]
      /\ i + 3 <= m => c = h[i + 3]
      /\ ~(i + 2 <= m) => b = 0
      /\ ~(i + 3 <= m) => c = 0
    BY <1>1, <1>2, <1>3, <1>4 DEF ByteAt
<1>10. CASE i + 2 < m
  <2>1. text = Triple(a, b, c)
      BY <1>1, <1>9, <1>10 DEF Group
  <2>2. ~(6 * (4 * g + r) >= 8 * m)
      BY <1>3, <1>10
  <2>3. places = Alphabet[Sextet(h, 4 * g + r)]
      BY <2>2
  <2> HIDE DEF places, text
  <2>4. r = 0 => text[r + 1] = places
      BY <2>1, <2>3, <1>7 DEF Triple
  <2>5. r = 1 => text[r + 1] = places
      BY <2>1, <2>3, <1>7 DEF Triple
  <2>6. r = 2 => text[r + 1] = places
      BY <2>1, <2>3, <1>7 DEF Triple
  <2>7. r = 3 => text[r + 1] = places
      BY <2>1, <2>3, <1>7 DEF Triple
  <2> QED BY <2>4, <2>5, <2>6, <2>7
<1>11. CASE i + 2 = m
  <2>1. text = Pair(a, b)
      BY <1>1, <1>9, <1>11 DEF Group
  <2>2. c = 0 /\ (b * 4) % 64 = (b * 4 + c \div 64) % 64
    <3>1. c = 0
        BY <1>9, <1>11
    <3>2. 0 \div 64 = 0 /\ b * 4 + 0 = b * 4
        BY DEF Bytes
    <3> QED BY <3>1, <3>2
  <2>3. r # 3 => places = Alphabet[Sextet(h, 4 * g + r)]
      BY <1>3, <1>11
  <2>4. r = 3 => places = 61
      BY <1>3, <1>11
  <2> HIDE DEF places, text
  <2>5. r = 0 => text[r + 1] = places
      BY <2>1, <2>3, <1>7 DEF Pair
  <2>6. r = 1 => text[r + 1] = places
      BY <2>1, <2>3, <1>7 DEF Pair
  <2>7. r = 2 => text[r + 1] = places
      BY <2>1, <2>2, <2>3, <1>7 DEF Pair
  <2>8. r = 3 => text[r + 1] = places
      BY <2>1, <2>4 DEF Pair, Pad
  <2> QED BY <2>5, <2>6, <2>7, <2>8
<1>12. CASE i + 1 = m
  <2>1. text = Single(a)
      BY <1>1, <1>9, <1>12 DEF Group
  <2>2. b = 0 /\ (a * 16) % 64 = (a * 16 + b \div 16) % 64
    <3>1. b = 0
        BY <1>9, <1>12
    <3>2. 0 \div 16 = 0 /\ a * 16 + 0 = a * 16
        BY DEF Bytes
    <3> QED BY <3>1, <3>2
  <2>3. r \in 0..1 => places = Alphabet[Sextet(h, 4 * g + r)]
      BY <1>3, <1>12
  <2>4. r \in 2..3 => places = 61
      BY <1>3, <1>12
  <2> HIDE DEF places, text
  <2>5. r = 0 => text[r + 1] = places
      BY <2>1, <2>3, <1>7 DEF Single
  <2>6. r = 1 => text[r + 1] = places
      BY <2>1, <2>2, <2>3, <1>7 DEF Single
  <2>7. r \in 2..3 => text[r + 1] = places
      BY <2>1, <2>4 DEF Single, Pad
  <2> QED BY <2>5, <2>6, <2>7
<1> QED BY <1>2, <1>3, <1>10, <1>11, <1>12

-----------------------------------------------------------------------------
(* Where the parser stands *)

\* Line k of a request: where it starts, its name, its value, its end. Line 0
\* is the request line, and the blank line is behind the last.
StartOf(r, k) == Len(UpTo(r.lines)[k - 1])
NameOf(r, k) == r.lines[k].name
TellsOf(r, k) == r.lines[k].value
ColonOf(r, k) == StartOf(r, k) + Len(NameOf(r, k))
ValueOf(r, k) == ColonOf(r, k) + 2
ReturnOf(r, k) == ValueOf(r, k) + Len(TellsOf(r, k))
Count(r) == Len(r.lines)

\* What the first k lines say.
Upgraded(r, k, u) ==
    u <=> \E j \in 1..k : NameOf(r, j) = Fields[1] /\ TellsOf(r, j) = Websocket
KeyKnown(r, k, y) ==
    \A j \in 1..k :
        NameOf(r, j) = Fields[2] /\ (\A m \in j + 1..k : NameOf(r, m) # Fields[2])
          => y = TellsOf(r, j)
Seen(r, k, u, y) == Upgraded(r, k, u) /\ KeyKnown(r, k, y)

\* Fields[l] begins like the text between s and p, and the finder of the first
\* such l.
Begins(t, s, p, l) ==
    p - s <= Len(Fields[l]) /\ \A j \in 1..p - s : t[s + j] = Fields[l][j]
FinderAt(t, s, p, f) ==
    \/ f.list_index = 1 /\ f.str_index = p - s /\ Begins(t, s, p, 1)
    \/ f.list_index = 2 /\ f.str_index = p - s /\ Begins(t, s, p, 2) /\ ~Begins(t, s, p, 1)
    \/ f.list_index = 3 /\ ~Begins(t, s, p, 2) /\ ~Begins(t, s, p, 1)

\* In line k, or in the blank line, by place.
InName(r, k, p, f) ==
    /\ p \in StartOf(r, k)..ColonOf(r, k)
    /\ p = StartOf(r, k) \/ p \in r.cuts
    /\ FinderAt(r.text, StartOf(r, k), p, f)
InBlank(r, p, f) ==
    /\ p \in StartOf(r, Count(r) + 1)..r.length - 1
    /\ FinderAt(r.text, StartOf(r, Count(r) + 1), p, f)
InColon(r, k, p, l) ==
    /\ p \in ColonOf(r, k)..ValueOf(r, k)
    /\ \A i \in 1..2 : l = i <=> NameOf(r, k) = Fields[i]
InTag(r, k, p, t) ==
    /\ NameOf(r, k) = Fields[1]
    /\ t <= Len(TellsOf(r, k)) /\ p = ValueOf(r, k) + t
    /\ \A j \in 1..t : TellsOf(r, k)[j] = Websocket[j]
InKey(r, k, p, y) ==
    /\ NameOf(r, k) = Fields[2]
    /\ Len(y) < KeyLen /\ p = ValueOf(r, k) + Len(y)
    /\ \A j \in 1..Len(y) : y[j] = TellsOf(r, k)[j]
InTail(r, k, p) == p \in ValueOf(r, k)..ReturnOf(r, k) + 1
InRest(r, k, p) == p \in ValueOf(r, k)..ReturnOf(r, k)

\* Every place says where in the text the parser is, and what it has seen.
PlacedFor(r, a, p, f, l, t, u, y) ==
    /\ a = "first" => p \in 0..1 /\ Seen(r, 0, u, y)
    /\ a = "eol" => p \in 1..2 /\ Seen(r, 0, u, y)
    /\ a = "name" =>
         \/ \E k \in 1..Count(r) : InName(r, k, p, f) /\ Seen(r, k - 1, u, y)
         \/ InBlank(r, p, f) /\ Seen(r, Count(r), u, y)
    /\ a = "colon" => \E k \in 1..Count(r) : InColon(r, k, p, l) /\ Seen(r, k - 1, u, y)
    /\ a = "tag" => \E k \in 1..Count(r) : InTag(r, k, p, t) /\ Seen(r, k - 1, u, y)
    /\ a = "key" => \E k \in 1..Count(r) : InKey(r, k, p, y) /\ Upgraded(r, k, u)
    /\ a = "tail" => \E k \in 1..Count(r) : InTail(r, k, p) /\ Seen(r, k, u, y)
    /\ a = "rest" => \E k \in 1..Count(r) : InRest(r, k, p) /\ Seen(r, k, u, y)
    /\ a \in {"done", "answered"} => p = r.length /\ Seen(r, Count(r), u, y)
    /\ a = "wild" => CutNames

IsRequest(r) == \E ls \in Requests : r = Request(ls)

PiecesFor(r, p, E) == p \in 0..Len(r.text) /\ E \subseteq r.cuts /\ \A e \in E : e > p

Finders == [list_index : 1..3, str_index : Nat]
FinderFits(f) == f.list_index \in 1..2 => f.str_index <= Len(Fields[f.list_index])

TypesFor(f, l, t, u, y) ==
    /\ f \in Finders /\ FinderFits(f)
    /\ l \in 0..2 /\ t \in 0..Len(Websocket)
    /\ u \in BOOLEAN
    /\ y \in Text /\ Len(y) <= KeyLen

AnswerFor(a, u, c) == c \in Seq(Bytes) /\ (a = "answered" /\ u => c \in Base64Texts)

\* The inductive invariant.
IInv ==
    /\ IsRequest(request)
    /\ PiecesFor(request, pos, ends)
    /\ at \in Places
    /\ TypesFor(finder, selected, tag, upgrade, key)
    /\ AnswerFor(at, upgrade, accept)
    /\ PlacedFor(request, at, pos, finder, selected, tag, upgrade, key)

-----------------------------------------------------------------------------
(* Functions by recursion, and the selector *)

Steps(N, V) == [1..N -> [V -> V]]
IsRecursion(g, N, V, b, S) ==
    g \in [0..N -> V] /\ g[0] = b /\ \A k \in 1..N : g[k] = S[k][g[k - 1]]

\* What is defined by recursion over 0..N exists and keeps to its set.
LEMMA Recursion ==
    ASSUME NEW N \in Nat, NEW V, NEW b \in V, NEW S \in Steps(N, V)
    PROVE  \E g : IsRecursion(g, N, V, b, S)
<1> DEFINE Good(n, g) == g[0] = b /\ \A k \in 1..n : g[k] = S[k][g[k - 1]]
           Lengths == {n \in 0..N : \E g \in [0..n -> V] : Good(n, g)}
<1>1. 0 \in Lengths
  <2> DEFINE g == [k \in 0..0 |-> b]
  <2>1. g \in [0..0 -> V] /\ g[0] = b
      OBVIOUS
  <2>2. 1..0 = {}
      OBVIOUS
  <2> HIDE DEF g
  <2>3. Good(0, g)
      BY <2>1, <2>2
  <2> QED BY <2>1, <2>3
<1>2. ASSUME NEW n \in Lengths, n < N
      PROVE  n + 1 \in Lengths
  <2>1. n \in Nat /\ n + 1 \in 1..N
      BY <1>2
  <2>2. PICK g \in [0..n -> V] : Good(n, g)
      OBVIOUS
  <2> DEFINE h == [k \in 0..n + 1 |-> IF k = n + 1 THEN S[n + 1][g[n]] ELSE g[k]]
  <2>3. S[n + 1] \in [V -> V] /\ g[n] \in V
      BY <2>1 DEF Steps
  <2>4. S[n + 1][g[n]] \in V
      BY <2>3
  <2>5. \A k \in 0..n : k \in 0..n + 1 /\ k # n + 1
      BY <2>1
  <2>6. h \in [0..n + 1 -> V]
    <3>1. \A k \in 0..n + 1 : k # n + 1 => k \in 0..n
        BY <2>1
    <3> QED BY <2>4, <3>1
  <2>7. \A k \in 0..n : h[k] = g[k]
      BY <2>5
  <2>8. h[0] = b
      BY <2>1, <2>2, <2>7
  <2>9. h[n + 1] = S[n + 1][h[n]]
      BY <2>1, <2>7
  <2>10. ASSUME NEW k \in 1..n + 1
         PROVE  h[k] = S[k][h[k - 1]]
    <3>1. CASE k = n + 1
      <4>1. k - 1 = n
          BY <2>1, <3>1
      <4> HIDE DEF h
      <4> QED BY <2>9, <3>1, <4>1
    <3>2. CASE k # n + 1
      <4>1. k \in 1..n /\ k \in 0..n /\ k - 1 \in 0..n
          BY <2>1, <3>2
      <4>2. g[k] = S[k][g[k - 1]]
          BY <2>2, <4>1
      <4> HIDE DEF h
      <4> QED BY <2>7, <4>1, <4>2
    <3> QED BY <3>1, <3>2
  <2>11. Good(n + 1, h)
      BY <2>8, <2>10
  <2>12. n + 1 \in 0..N
      BY <2>1
  <2> HIDE DEF h, Good
  <2> QED BY <2>6, <2>11, <2>12
<1>3. N \in Lengths
  <2>1. Lengths \in SUBSET Nat
      OBVIOUS
  <2>2. \A n \in Lengths : n < N => n + 1 \in Lengths
      BY <1>2
  <2> HIDE DEF Lengths
  <2>3. 0..N \subseteq Lengths
      BY <1>1, <2>1, <2>2, Induction
  <2> QED BY <2>3
<1> QED BY <1>3 DEF IsRecursion

\* The names looked for are texts.
LEMMA FieldLengths ==
    ASSUME NEW l \in 1..2
    PROVE  Fields[l] \in Text /\ Len(Fields[l]) \in Nat
<1>1. l = 1 \/ l = 2
    OBVIOUS
<1>2. Fields[l] \in Text
    BY <1>1, FieldsAssumption
<1> QED BY <1>2 DEF Text

\* A name that begins like p + 1 bytes begins like p, and the other way
\* round if the next byte is its own.
LEMMA BeginsLonger ==
    ASSUME NEW T \in Text, NEW s \in Nat, NEW p \in Nat, NEW n \in Nat, NEW q \in Nat,
           n <= p - s, n >= p - s, q <= p + 1, q >= p + 1, NEW l \in 1..2
    PROVE  /\ Begins(T, s, q, l) => Begins(T, s, p, l)
           /\ Begins(T, s, q, l) => Len(Fields[l]) > n
           /\ Begins(T, s, p, l) /\ Len(Fields[l]) > n /\ Fields[l][n + 1] = T[q]
                => Begins(T, s, q, l)
<1>1. PICK m \in Nat : m = Len(Fields[l])
    BY FieldLengths
<1>2. n = p - s /\ q = p + 1
    OBVIOUS
<1>3. q - s = n + 1 /\ s + (n + 1) = q
    BY <1>2
<1>4. Begins(T, s, q, l)
        <=> n + 1 <= m /\ \A j \in 1..n + 1 : T[s + j] = Fields[l][j]
    BY <1>1, <1>3 DEF Begins
<1>5. Begins(T, s, p, l) <=> n <= m /\ \A j \in 1..n : T[s + j] = Fields[l][j]
    BY <1>1, <1>2 DEF Begins
<1>6. (\A j \in 1..n + 1 : T[s + j] = Fields[l][j])
        <=> /\ \A j \in 1..n : T[s + j] = Fields[l][j]
            /\ T[s + (n + 1)] = Fields[l][n + 1]
  <2>1. \A j : j \in 1..n + 1 <=> j \in 1..n \/ j = n + 1
      OBVIOUS
  <2> QED BY <2>1
<1>7. n + 1 <= m <=> n <= m /\ m > n
    OBVIOUS
<1> QED BY <1>1, <1>2, <1>3, <1>4, <1>5, <1>6, <1>7

\* Two texts begin alike if they agree byte for byte.
LEMMA SharedBeginning ==
    ASSUME NEW a \in Text, NEW b \in Text, NEW n \in Nat, n <= Len(a), n <= Len(b)
    PROVE  SubSeq(a, 1, n) = SubSeq(b, 1, n) <=> \A j \in 1..n : a[j] = b[j]
<1>1. /\ Len(SubSeq(a, 1, n)) = n /\ Len(SubSeq(b, 1, n)) = n
      /\ SubSeq(a, 1, n) \in Text /\ SubSeq(b, 1, n) \in Text
    BY SubSeqProperties DEF Text
<1>2. \A j \in 1..n : SubSeq(a, 1, n)[j] = a[j] /\ SubSeq(b, 1, n)[j] = b[j]
    BY SubSeqProperties DEF Text
<1>3. ASSUME \A j \in 1..n : a[j] = b[j]
      PROVE  SubSeq(a, 1, n) = SubSeq(b, 1, n)
    BY <1>1, <1>2, <1>3, SeqEqual DEF Text
<1> QED BY <1>2, <1>3

\* bl_str_select, given one byte more, still stands at the first name that
\* begins so.
LEMMA SelectByteFinds ==
    ASSUME NEW T \in Text, NEW s \in Nat, NEW p \in Nat, s <= p, NEW f \in Finders,
           FinderAt(T, s, p, f)
    PROVE  /\ SelectByte(f, T[p + 1]) \in Finders
           /\ FinderAt(T, s, p + 1, SelectByte(f, T[p + 1]))
<1>0. PICK e \in Nat : e = p + 1
    OBVIOUS
<1>1. PICK c : c = T[e]
    OBVIOUS
<1>2. PICK n \in Nat : n = p - s
    OBVIOUS
<1>3. PICK C : C = Candidates(f, c)
    OBVIOUS
<1>4. PICK t : t = SelectByte(f, c)
    OBVIOUS
<1>5. C = {} => t = [f EXCEPT !.list_index = 3]
    BY <1>3, <1>4 DEF SelectByte
<1>6. C # {} => t = [list_index |-> Min(C), str_index |-> f.str_index + 1]
    BY <1>3, <1>4 DEF SelectByte
<1>7. \A l \in 1..2 : Begins(T, s, e, l)
                        <=> Begins(T, s, p, l) /\ Len(Fields[l]) > n /\ Fields[l][n + 1] = c
  <2> TAKE l \in 1..2
  <2>1. n <= p - s /\ n >= p - s /\ e <= p + 1 /\ e >= p + 1
      BY <1>0, <1>2
  <2>2. Begins(T, s, e, l) => Begins(T, s, p, l)
      BY <1>0, <2>1, BeginsLonger
  <2>3. Begins(T, s, e, l) => Len(Fields[l]) > n
      BY <1>0, <2>1, BeginsLonger
  <2>4. Begins(T, s, e, l) => Fields[l][n + 1] = T[e]
    <3>1. n + 1 \in 1..e - s /\ s + (n + 1) = e
        BY <1>0, <1>2
    <3> QED BY <3>1 DEF Begins
  <2>5. Begins(T, s, p, l) /\ Len(Fields[l]) > n /\ Fields[l][n + 1] = T[e]
          => Begins(T, s, e, l)
      BY <1>0, <2>1, BeginsLonger
  <2> QED BY <1>1, <2>2, <2>3, <2>4, <2>5
<1>8. e - s = n + 1
    BY <1>0, <1>2
<1>9. C \subseteq 1..2 /\ C \in SUBSET Nat
    BY <1>3 DEF Candidates, Finders
<1>10. f.list_index = 3 => C = {}
    BY <1>3 DEF Candidates
<1>11. ASSUME NEW q \in 1..2, f.list_index = q, f.str_index = n, Begins(T, s, p, q),
              NEW l \in q..2
       PROVE  l \in C <=> Begins(T, s, e, l)
  <2>1. l \in 1..2
      OBVIOUS
  <2>2. l \in C <=> /\ Len(Fields[l]) > n
                    /\ SubSeq(Fields[l], 1, n) = SubSeq(Fields[q], 1, n)
                    /\ Fields[l][n + 1] = c
      BY <1>3, <1>11 DEF Candidates
  <2>3. n <= Len(Fields[q]) /\ \A j \in 1..n : T[s + j] = Fields[q][j]
      BY <1>2, <1>11 DEF Begins
  <2>4. Begins(T, s, p, l)
          <=> n <= Len(Fields[l]) /\ \A j \in 1..n : T[s + j] = Fields[l][j]
      BY <1>2 DEF Begins
  <2>5. Len(Fields[l]) > n
          => n <= Len(Fields[l])
             /\ (SubSeq(Fields[l], 1, n) = SubSeq(Fields[q], 1, n)
                   <=> \A j \in 1..n : Fields[l][j] = Fields[q][j])
    <3>1. Len(Fields[l]) \in Nat /\ Fields[l] \in Text /\ Fields[q] \in Text
        BY <2>1, FieldLengths
    <3> QED BY <2>3, <3>1, SharedBeginning
  <2> QED BY <1>7, <2>1, <2>2, <2>3, <2>4, <2>5
<1>12. ASSUME NEW l \in 1..2, l \in C, \A m \in C : m >= l
       PROVE  t = [list_index |-> l, str_index |-> f.str_index + 1]
  <2>1. C # {} /\ C \in SUBSET Nat
      BY <1>9, <1>12
  <2>2. Min(C) \in C /\ \A m \in C : Min(C) <= m
      BY ONLY <2>1, MinIs
  <2>3. Min(C) = l
    <3>1. PICK m : m = Min(C)
        OBVIOUS
    <3>2. m \in Nat /\ l \in Nat /\ m <= l /\ m >= l
        BY <1>9, <1>12, <2>2, <3>1
    <3> QED BY <3>1, <3>2
  <2> QED BY <1>6, <2>1, <2>3
<1>13. f.str_index \in Nat /\ f.list_index \in 1..3
    BY DEF Finders
<1>14. CASE f.list_index = 1
  <2>1. f.str_index = n /\ Begins(T, s, p, 1)
      BY <1>2, <1>14 DEF FinderAt
  <2>2. 1 \in C <=> Begins(T, s, e, 1)
      BY <1>11, <1>14, <2>1
  <2>3. 2 \in C <=> Begins(T, s, e, 2)
      BY <1>11, <1>14, <2>1
  <2>4. CASE 1 \in C
    <3>1. t = [list_index |-> 1, str_index |-> n + 1]
        BY <1>9, <1>12, <2>1, <2>4
    <3>2. t \in Finders /\ t.list_index = 1 /\ t.str_index = n + 1
        BY <3>1 DEF Finders
    <3> QED BY <1>0, <1>1, <1>4, <1>8, <2>2, <2>4, <3>2 DEF FinderAt
  <2>5. CASE 1 \notin C /\ 2 \in C
    <3>1. t = [list_index |-> 2, str_index |-> n + 1]
        BY <1>9, <1>12, <2>1, <2>5
    <3>2. t \in Finders /\ t.list_index = 2 /\ t.str_index = n + 1
        BY <3>1 DEF Finders
    <3> QED BY <1>0, <1>1, <1>4, <1>8, <2>2, <2>3, <2>5, <3>2 DEF FinderAt
  <2>6. CASE 1 \notin C /\ 2 \notin C
    <3>1. C = {}
        BY <1>9, <2>6
    <3>2. t \in Finders /\ t.list_index = 3
        BY <1>5, <3>1 DEF Finders
    <3> QED BY <1>0, <1>1, <1>4, <2>2, <2>3, <2>6, <3>2 DEF FinderAt
  <2> QED BY <2>4, <2>5, <2>6
<1>15. CASE f.list_index = 2
  <2>1. f.str_index = n /\ Begins(T, s, p, 2) /\ ~Begins(T, s, p, 1)
      BY <1>2, <1>15 DEF FinderAt
  <2>2. ~Begins(T, s, e, 1)
      BY <1>7, <2>1
  <2>3. 2 \in C <=> Begins(T, s, e, 2)
      BY <1>11, <1>15, <2>1
  <2>4. 1 \notin C
      BY <1>3, <1>15 DEF Candidates
  <2>5. CASE 2 \in C
    <3>1. t = [list_index |-> 2, str_index |-> n + 1]
        BY <1>9, <1>12, <2>1, <2>4, <2>5
    <3>2. t \in Finders /\ t.list_index = 2 /\ t.str_index = n + 1
        BY <3>1 DEF Finders
    <3> QED BY <1>0, <1>1, <1>4, <1>8, <2>2, <2>3, <2>5, <3>2 DEF FinderAt
  <2>6. CASE 2 \notin C
    <3>1. C = {}
        BY <1>9, <2>4, <2>6
    <3>2. t \in Finders /\ t.list_index = 3
        BY <1>5, <3>1 DEF Finders
    <3> QED BY <1>0, <1>1, <1>4, <2>2, <2>3, <2>6, <3>2 DEF FinderAt
  <2> QED BY <2>5, <2>6
<1>16. CASE f.list_index = 3
  <2>1. ~Begins(T, s, p, 1) /\ ~Begins(T, s, p, 2)
      BY <1>16 DEF FinderAt
  <2>2. ~Begins(T, s, e, 1) /\ ~Begins(T, s, e, 2)
      BY <1>7, <2>1
  <2>3. t \in Finders /\ t.list_index = 3
      BY <1>5, <1>10, <1>16 DEF Finders
  <2> QED BY <1>0, <1>1, <1>4, <2>2, <2>3 DEF FinderAt
<1> QED BY <1>13, <1>14, <1>15, <1>16

\* One byte more, and the selector is a selector still.
LEMMA SelectByteType ==
    ASSUME NEW f \in Finders, NEW c
    PROVE  SelectByte(f, c) \in Finders
<1>1. PICK C : C = Candidates(f, c)
    OBVIOUS
<1>2. C \subseteq 1..2 /\ C \in SUBSET Nat
    BY <1>1 DEF Candidates, Finders
<1>3. C # {} => Min(C) \in C
    BY <1>2, MinIs
<1>4. [f EXCEPT !.list_index = 3] \in Finders
    BY DEF Finders
<1>5. C # {} => [list_index |-> Min(C), str_index |-> f.str_index + 1] \in Finders
  <2>1. C # {} => Min(C) \in 1..3
    <3>1. \A c1 \in C : c1 \in 1..3
        BY <1>2
    <3> QED BY <1>3, <3>1, Zenon
  <2>2. f.str_index + 1 \in Nat
      BY DEF Finders
  <2> QED BY <2>1, <2>2 DEF Finders
<1> QED BY <1>1, <1>4, <1>5 DEF SelectByte

\* The selector after a piece is what it makes of one byte after the other.
LEMMA SelectIs ==
    ASSUME NEW f \in Finders, NEW piece \in Text
    PROVE  \E a \in [0..Len(piece) -> Finders] :
             /\ a[0] = f /\ \A n \in 1..Len(piece) : a[n] = SelectByte(a[n - 1], piece[n])
             /\ Select(f, piece) = a[Len(piece)]
<1>1. PICK N \in Nat : N = Len(piece)
    BY DEF Text
<1> DEFINE Is(a) == a = [n \in 0..N |-> IF n = 0 THEN f ELSE SelectByte(a[n - 1], piece[n])]
<1>2. PICK S \in [1..N -> [Finders -> Finders]] :
        S = [k \in 1..N |-> [t \in Finders |-> SelectByte(t, piece[k])]]
    BY SelectByteType
<1>3. \E g : IsRecursion(g, N, Finders, f, S)
  <2>1. S \in Steps(N, Finders)
      BY DEF Steps
  <2> QED BY <2>1, Recursion
<1>4. PICK g \in [0..N -> Finders] : g[0] = f /\ \A k \in 1..N : g[k] = S[k][g[k - 1]]
    BY <1>3 DEF IsRecursion
<1>5. \A k \in 1..N : g[k] = SelectByte(g[k - 1], piece[k])
  <2> TAKE k \in 1..N
  <2>1. k - 1 \in 0..N
      OBVIOUS
  <2>2. g[k - 1] \in Finders
      BY <2>1
  <2>3. S[k][g[k - 1]] = SelectByte(g[k - 1], piece[k])
      BY <1>2, <2>2
  <2> QED BY <1>4, <2>3
<1>6. Is(g)
  <2>1. \A n \in 0..N : g[n] = IF n = 0 THEN f ELSE SelectByte(g[n - 1], piece[n])
    <3>1. \A n \in 0..N : n # 0 => n \in 1..N
        OBVIOUS
    <3> QED BY <1>4, <1>5, <3>1
  <2>2. g = [n \in 0..N |-> g[n]]
      OBVIOUS
  <2> QED BY <2>1, <2>2
<1>7. PICK a : a = CHOOSE b : Is(b)
    OBVIOUS
<1>8. Is(a)
    BY <1>6, <1>7
<1>9. Select(f, piece) = a[N]
    BY <1>1, <1>7 DEF Select
<1>10. \A n \in 0..N : a[n] = IF n = 0 THEN f ELSE SelectByte(a[n - 1], piece[n])
    BY <1>8
<1>11. a[0] = f /\ \A n \in 1..N : a[n] = SelectByte(a[n - 1], piece[n])
  <2>1. 0 \in 0..N /\ \A n \in 1..N : n \in 0..N /\ n # 0
      OBVIOUS
  <2> QED BY <1>10, <2>1
<1>12. \A n \in 0..N : a[n] \in Finders
  <2> DEFINE Q == {n \in 0..N : a[n] \in Finders}
  <2>1. Q \in SUBSET Nat /\ 0 \in Q
      BY <1>11
  <2>2. ASSUME NEW n \in Q, n < N
        PROVE  n + 1 \in Q
    <3>1. n + 1 \in 1..N /\ (n + 1) - 1 = n /\ n + 1 \in 0..N
        BY <2>2
    <3>2. a[n + 1] = SelectByte(a[n], piece[n + 1])
        BY <1>11, <3>1
    <3>3. a[n] \in Finders
        OBVIOUS
    <3>4. a[n + 1] \in Finders
        BY <3>2, <3>3, SelectByteType
    <3> QED BY <3>1, <3>4
  <2>3. \A n \in Q : n < N => n + 1 \in Q
      BY <2>2
  <2> HIDE DEF Q
  <2>4. 0..N \subseteq Q
      BY <2>1, <2>3, Induction
  <2> USE DEF Q
  <2> QED BY <2>4
<1>13. a \in [0..N -> Finders]
  <2>1. a = [n \in 0..N |-> a[n]]
      BY <1>8
  <2> QED BY <1>12, <2>1
<1> QED BY <1>1, <1>9, <1>11, <1>13

\* The bytes p + 1 to p + n of a text.
LEMMA Taken ==
    ASSUME NEW T \in Text, NEW p \in Nat, NEW n \in Nat, p + n <= Len(T)
    PROVE  /\ SubSeq(T, p + 1, p + n) \in Text /\ Len(SubSeq(T, p + 1, p + n)) = n
           /\ \A j \in 1..n : SubSeq(T, p + 1, p + n)[j] = T[p + j]
<1>1. PICK piece : piece = SubSeq(T, p + 1, p + n)
    OBVIOUS
<1>2. Len(T) \in Nat /\ p + 1 \in Int /\ p + n \in Int
    BY DEF Text
<1>3. (p + n) - (p + 1) + 1 = n /\ \A j \in 1..n : (p + 1) + j - 1 = p + j
    OBVIOUS
<1>4. \A j \in p + 1..p + n : T[j] \in Chars
  <2>1. \A j \in p + 1..p + n : j \in 1..Len(T)
      BY <1>2
  <2> QED BY <2>1 DEF Text
<1>5. /\ piece \in Seq(Chars)
      /\ Len(piece) = IF p + 1 <= p + n THEN (p + n) - (p + 1) + 1 ELSE 0
      /\ \A j \in 1..(p + n) - (p + 1) + 1 : piece[j] = T[(p + 1) + j - 1]
    BY <1>1, <1>2, <1>4, SubSeqProperties
<1> QED BY <1>1, <1>3, <1>5 DEF Text

\* bl_str_select finds, over a piece, the first name that begins like the text.
LEMMA SelectFinds ==
    ASSUME NEW T \in Text, NEW s \in Nat, NEW p \in Nat, s <= p, NEW i \in Nat,
           p + i <= Len(T), NEW f \in Finders, FinderAt(T, s, p, f)
    PROVE  /\ Select(f, SubSeq(T, p + 1, p + i)) \in Finders
           /\ FinderAt(T, s, p + i, Select(f, SubSeq(T, p + 1, p + i)))
<1>1. PICK piece : piece = SubSeq(T, p + 1, p + i)
    OBVIOUS
<1>2. /\ piece \in Text /\ Len(piece) = i
      /\ \A n \in 1..i : piece[n] = T[p + n]
    BY <1>1, Taken
<1>3. PICK a \in [0..i -> Finders] :
        /\ a[0] = f /\ \A n \in 1..i : a[n] = SelectByte(a[n - 1], piece[n])
        /\ Select(f, piece) = a[i]
    BY <1>2, SelectIs
<1> DEFINE Q == {n \in 0..i : FinderAt(T, s, p + n, a[n])}
<1>4. Q \in SUBSET Nat /\ 0 \in Q
  <2>1. p + 0 = p
      OBVIOUS
  <2> QED BY <1>3, <2>1
<1>5. ASSUME NEW n \in Q, n < i
      PROVE  n + 1 \in Q
  <2>1. n + 1 \in 1..i /\ (n + 1) - 1 = n /\ n + 1 \in 0..i /\ n \in 0..i
      BY <1>5
  <2>2. PICK e \in Nat : e = p + n
      BY <2>1
  <2>3. e + 1 = p + (n + 1) /\ s <= e
      BY <2>1, <2>2
  <2>4. FinderAt(T, s, e, a[n]) /\ a[n] \in Finders
      BY <2>1, <2>2
  <2>5. FinderAt(T, s, e + 1, SelectByte(a[n], T[e + 1]))
      BY <2>3, <2>4, SelectByteFinds
  <2>6. a[n + 1] = SelectByte(a[n], T[e + 1])
      BY <1>2, <1>3, <2>1, <2>3
  <2> QED BY <2>1, <2>3, <2>5, <2>6
<1>6. \A n \in Q : n < i => n + 1 \in Q
    BY <1>5
<1>7. i \in Q
  <2> HIDE DEF Q
  <2>1. 0..i \subseteq Q
      BY <1>4, <1>6, Induction
  <2> QED BY <2>1
<1> QED BY <1>1, <1>3, <1>7

-----------------------------------------------------------------------------
(* The text of a request *)

Cat(a, b) == a \o b
Lines == [name : Text \ {<<>>}, value : Text \ {<<>>}]

\* What a concatenation is, by position.
LEMMA CatIs ==
    ASSUME NEW a \in Text, NEW b \in Text
    PROVE  /\ Cat(a, b) \in Text /\ Len(Cat(a, b)) = Len(a) + Len(b)
           /\ \A i \in 1..Len(a) : Cat(a, b)[i] = a[i]
           /\ \A i \in 1..Len(b) : Cat(a, b)[Len(a) + i] = b[i]
<1>1. Len(a) \in Nat /\ Len(b) \in Nat
    BY DEF Text
<1>2. a \o b \in Text
    BY DEF Text
<1>3. Len(a \o b) = Len(a) + Len(b)
    BY DEF Text
<1>4. \A i \in 1..Len(a) : (a \o b)[i] = a[i]
    BY <1>1 DEF Text
<1>5. \A i \in 1..Len(b) : (a \o b)[Len(a) + i] = b[i]
    BY <1>1 DEF Text
<1> QED BY <1>2, <1>3, <1>4, <1>5 DEF Cat

\* The texts between the names and the values.
LEMMA Separators ==
    /\ <<"GET", "CR", "LF">> \in Text /\ <<":", " ">> \in Text /\ <<"CR", "LF">> \in Text
    /\ Len(<<"GET", "CR", "LF">>) = 3 /\ Len(<<":", " ">>) = 2 /\ Len(<<"CR", "LF">>) = 2
<1>1. {"GET", "CR", "LF", ":", " "} \subseteq Chars
    BY SizesAssumption
<1>2. "GET" \in Chars /\ "CR" \in Chars /\ "LF" \in Chars /\ ":" \in Chars /\ " " \in Chars
    BY <1>1
<1>3. \A S : \A a, b, c \in S : <<a, b, c>> \in Seq(S)
    BY ONLY TRUE
<1>4. \A S : \A a, b \in S : <<a, b>> \in Seq(S)
    BY ONLY TRUE
<1>5. <<"GET", "CR", "LF">> \in Text /\ <<":", " ">> \in Text /\ <<"CR", "LF">> \in Text
    BY <1>2, <1>3, <1>4, Zenon DEF Text
<1>6. Len(<<"GET", "CR", "LF">>) = 3 /\ Len(<<":", " ">>) = 2 /\ Len(<<"CR", "LF">>) = 2
    OBVIOUS
<1> QED BY <1>5, <1>6

\* A line, by position.
LEMMA LineIs ==
    ASSUME NEW l \in Lines
    PROVE  LET n == Len(l.name)
               v == Len(l.value)
           IN /\ n \in Nat \ {0} /\ v \in Nat \ {0}
              /\ Line(l) \in Text /\ Len(Line(l)) = n + v + 4
              /\ \A i \in 1..n : Line(l)[i] = l.name[i]
              /\ Line(l)[n + 1] = ":" /\ Line(l)[n + 2] = " "
              /\ \A i \in 1..v : Line(l)[n + 2 + i] = l.value[i]
              /\ Line(l)[n + v + 3] = "CR" /\ Line(l)[n + v + 4] = "LF"
<1>1. PICK name \in Text : name = l.name /\ name # <<>>
    BY DEF Lines
<1>2. PICK value \in Text : value = l.value /\ value # <<>>
    BY DEF Lines
<1>3. PICK n \in Nat \ {0} : n = Len(name)
    BY <1>1, EmptySeq DEF Text
<1>4. PICK v \in Nat \ {0} : v = Len(value)
    BY <1>2, EmptySeq DEF Text
<1>5. PICK a \in Text : a = <<":", " ">> /\ Len(a) = 2 /\ a[1] = ":" /\ a[2] = " "
    BY Separators
<1>6. PICK b \in Text : b = <<"CR", "LF">> /\ Len(b) = 2 /\ b[1] = "CR" /\ b[2] = "LF"
    BY Separators
<1>7. Line(l) = Cat(Cat(Cat(name, a), value), b)
    BY <1>1, <1>2, <1>5, <1>6 DEF Line, Cat
<1>8. PICK x \in Text : x = Cat(name, a)
    BY CatIs
<1>9. /\ Len(x) = n + 2 /\ \A i \in 1..n : x[i] = name[i]
      /\ \A i \in 1..2 : x[n + i] = a[i]
  <2>1. /\ Len(Cat(name, a)) = Len(name) + Len(a)
        /\ \A i \in 1..Len(name) : Cat(name, a)[i] = name[i]
        /\ \A i \in 1..Len(a) : Cat(name, a)[Len(name) + i] = a[i]
      BY CatIs
  <2> QED BY <1>3, <1>5, <1>8, <2>1
<1>10. PICK y \in Text : y = Cat(x, value)
    BY CatIs
<1>11. /\ Len(y) = (n + 2) + v /\ \A i \in 1..n + 2 : y[i] = x[i]
       /\ \A i \in 1..v : y[(n + 2) + i] = value[i]
  <2>1. /\ Len(Cat(x, value)) = Len(x) + Len(value)
        /\ \A i \in 1..Len(x) : Cat(x, value)[i] = x[i]
        /\ \A i \in 1..Len(value) : Cat(x, value)[Len(x) + i] = value[i]
      BY CatIs
  <2> QED BY <1>4, <1>9, <1>10, <2>1
<1>12. PICK z \in Text : z = Cat(y, b)
    BY CatIs
<1>13. /\ Len(z) = ((n + 2) + v) + 2 /\ \A i \in 1..(n + 2) + v : z[i] = y[i]
       /\ \A i \in 1..2 : z[((n + 2) + v) + i] = b[i]
  <2>1. /\ Len(Cat(y, b)) = Len(y) + Len(b)
        /\ \A i \in 1..Len(y) : Cat(y, b)[i] = y[i]
        /\ \A i \in 1..Len(b) : Cat(y, b)[Len(y) + i] = b[i]
      BY CatIs
  <2> QED BY <1>6, <1>11, <1>12, <2>1
<1>14. Line(l) = z
    BY <1>7, <1>8, <1>10, <1>12
<1>15. \A i \in 1..n : z[i] = name[i]
  <2>1. \A i \in 1..n : i \in 1..n + 2 /\ i \in 1..(n + 2) + v
      OBVIOUS
  <2> QED BY <1>9, <1>11, <1>13, <2>1
<1>16. z[n + 1] = ":" /\ z[n + 2] = " "
  <2>1. \A i \in {n + 1, n + 2} : i \in 1..n + 2 /\ i \in 1..(n + 2) + v
      OBVIOUS
  <2>2. x[n + 1] = a[1] /\ x[n + 2] = a[2]
      BY <1>9
  <2> QED BY <1>5, <1>11, <1>13, <2>1, <2>2
<1>17. \A i \in 1..v : z[n + 2 + i] = value[i]
  <2>1. \A i \in 1..v : (n + 2) + i \in 1..(n + 2) + v
      OBVIOUS
  <2> QED BY <1>11, <1>13, <2>1
<1>18. z[n + v + 3] = "CR" /\ z[n + v + 4] = "LF"
  <2>1. ((n + 2) + v) + 1 = n + v + 3 /\ ((n + 2) + v) + 2 = n + v + 4
      OBVIOUS
  <2>2. z[((n + 2) + v) + 1] = b[1] /\ z[((n + 2) + v) + 2] = b[2]
      BY <1>13
  <2> QED BY <1>6, <2>1, <2>2
<1>19. Len(z) = n + v + 4
    BY <1>13
<1> HIDE DEF Line
<1> QED BY <1>1, <1>2, <1>3, <1>4, <1>14, <1>15, <1>16, <1>17, <1>18, <1>19

\* The text up to each of its lines.
LEMMA UpToIs ==
    ASSUME NEW ls \in Seq(Lines)
    PROVE  /\ \A k \in 0..Len(ls) : UpTo(ls)[k] \in Text
           /\ UpTo(ls)[0] = <<"GET", "CR", "LF">>
           /\ \A k \in 1..Len(ls) : UpTo(ls)[k] = Cat(UpTo(ls)[k - 1], Line(ls[k]))
<1>1. PICK N \in Nat : N = Len(ls)
    OBVIOUS
<1>2. PICK first \in Text : first = <<"GET", "CR", "LF">>
    BY Separators
<1>3. \A k \in 1..N : ls[k] \in Lines
    BY <1>1
<1>4. \A k \in 1..N : Line(ls[k]) \in Text
    BY <1>3, LineIs
<1>5. \A k \in 1..N : \A t \in Text : Cat(t, Line(ls[k])) \in Text
    BY <1>4, CatIs
<1> DEFINE Is(a) == a = [k \in 0..N |-> IF k = 0 THEN first ELSE Cat(a[k - 1], Line(ls[k]))]
<1>6. PICK S \in [1..N -> [Text -> Text]] :
        S = [k \in 1..N |-> [t \in Text |-> Cat(t, Line(ls[k]))]]
    BY <1>5
<1>7. \E g : IsRecursion(g, N, Text, first, S)
  <2>1. S \in Steps(N, Text)
      BY DEF Steps
  <2> QED BY <2>1, Recursion
<1>8. PICK g \in [0..N -> Text] : g[0] = first /\ \A k \in 1..N : g[k] = S[k][g[k - 1]]
    BY <1>7 DEF IsRecursion
<1>9. \A k \in 1..N : g[k] = Cat(g[k - 1], Line(ls[k]))
  <2> TAKE k \in 1..N
  <2>1. k - 1 \in 0..N
      OBVIOUS
  <2>2. g[k - 1] \in Text
      BY <2>1
  <2>3. S[k][g[k - 1]] = Cat(g[k - 1], Line(ls[k]))
      BY <1>6, <2>2
  <2> QED BY <1>8, <2>3
<1>10. Is(g)
  <2>1. \A k \in 0..N : g[k] = IF k = 0 THEN first ELSE Cat(g[k - 1], Line(ls[k]))
    <3>1. \A k \in 0..N : k # 0 => k \in 1..N
        OBVIOUS
    <3> QED BY <1>8, <1>9, <3>1
  <2>2. g = [k \in 0..N |-> g[k]]
      OBVIOUS
  <2> QED BY <2>1, <2>2
<1>11. PICK a : a = CHOOSE b : Is(b)
    OBVIOUS
<1>12. Is(a)
    BY <1>10, <1>11
<1>13. UpTo(ls) = a
    BY <1>1, <1>2, <1>11 DEF UpTo, Cat
<1>14. \A k \in 0..N : a[k] = IF k = 0 THEN first ELSE Cat(a[k - 1], Line(ls[k]))
    BY <1>12
<1>15. a[0] = first /\ \A k \in 1..N : a[k] = Cat(a[k - 1], Line(ls[k]))
  <2>1. 0 \in 0..N /\ \A k \in 1..N : k \in 0..N /\ k # 0
      OBVIOUS
  <2> QED BY <1>14, <2>1
<1>16. \A k \in 0..N : a[k] \in Text
  <2> DEFINE Q == {k \in 0..N : a[k] \in Text}
  <2>1. Q \in SUBSET Nat /\ 0 \in Q
      BY <1>15
  <2>2. ASSUME NEW k \in Q, k < N
        PROVE  k + 1 \in Q
    <3>1. k + 1 \in 1..N /\ (k + 1) - 1 = k /\ k + 1 \in 0..N
        BY <2>2
    <3>2. a[k + 1] = Cat(a[k], Line(ls[k + 1]))
        BY <1>15, <3>1
    <3>3. a[k] \in Text
        OBVIOUS
    <3>4. a[k + 1] \in Text
        BY <1>5, <3>1, <3>2, <3>3
    <3> QED BY <3>1, <3>4
  <2>3. \A k \in Q : k < N => k + 1 \in Q
      BY <2>2
  <2> HIDE DEF Q
  <2>4. 0..N \subseteq Q
      BY <2>1, <2>3, Induction
  <2> USE DEF Q
  <2> QED BY <2>4
<1> QED BY <1>1, <1>2, <1>13, <1>15, <1>16

\* What is up to a line is still there with the lines behind it.
StartsIn(a, b) == Len(a) <= Len(b) /\ \A i \in 1..Len(a) : b[i] = a[i]

\* A beginning stays one, whatever is put behind.
LEMMA StartsInCat ==
    ASSUME NEW a \in Text, NEW b \in Text, NEW c \in Text, StartsIn(a, b)
    PROVE  StartsIn(a, Cat(b, c))
<1>1. Len(a) \in Nat /\ Len(b) \in Nat /\ Len(c) \in Nat
    BY DEF Text
<1>2. Len(Cat(b, c)) = Len(b) + Len(c) /\ \A i \in 1..Len(b) : Cat(b, c)[i] = b[i]
    BY CatIs
<1>3. Len(a) <= Len(b) /\ \A i \in 1..Len(a) : b[i] = a[i]
    BY DEF StartsIn
<1>4. \A i \in 1..Len(a) : i \in 1..Len(b)
    BY <1>1, <1>3
<1> QED BY <1>1, <1>2, <1>3, <1>4 DEF StartsIn

\* The text up to a line begins the text up to a later one.
LEMMA UpToGrows ==
    ASSUME NEW ls \in Seq(Lines), NEW k \in 0..Len(ls), NEW j \in 0..k
    PROVE  StartsIn(UpTo(ls)[j], UpTo(ls)[k])
<1>1. PICK N \in Nat : N = Len(ls)
    OBVIOUS
<1>2. PICK U : U = UpTo(ls)
    OBVIOUS
<1>3. /\ \A n \in 0..N : U[n] \in Text
      /\ \A n \in 1..N : U[n] = Cat(U[n - 1], Line(ls[n])) /\ Line(ls[n]) \in Text
  <2>1. /\ \A n \in 0..Len(ls) : UpTo(ls)[n] \in Text
        /\ \A n \in 1..Len(ls) : UpTo(ls)[n] = Cat(UpTo(ls)[n - 1], Line(ls[n]))
      BY UpToIs
  <2>2. \A n \in 1..N : ls[n] \in Lines
      BY <1>1
  <2>3. \A n \in 1..N : Line(ls[n]) \in Text
      BY <2>2, LineIs
  <2> QED BY <1>1, <1>2, <2>1, <2>3
<1>4. \A t \in Text : StartsIn(t, t)
    BY DEF StartsIn, Text
<1> DEFINE Q == {n \in 0..N : \A m \in 0..n : StartsIn(U[m], U[n])}
<1>5. Q \in SUBSET Nat /\ 0 \in Q
  <2>1. \A m \in 0..0 : m = 0
      OBVIOUS
  <2>2. 0 \in 0..N
      OBVIOUS
  <2> QED BY <1>3, <1>4, <2>1, <2>2
<1>6. ASSUME NEW n \in Q, n < N
      PROVE  n + 1 \in Q
  <2>1. n \in 0..N /\ n + 1 \in 1..N /\ (n + 1) - 1 = n /\ n + 1 \in 0..N
      BY <1>6
  <2>2. PICK e : e = n + 1
      OBVIOUS
  <2>3. U[n] \in Text /\ U[e] \in Text /\ U[e] = Cat(U[n], Line(ls[e])) /\ Line(ls[e]) \in Text
      BY <1>3, <2>1, <2>2
  <2>4. ASSUME NEW m \in 0..e
        PROVE  StartsIn(U[m], U[e])
    <3>1. CASE m = e
        BY <1>4, <2>3, <3>1
    <3>2. CASE m # e
      <4>1. m \in 0..n /\ m \in 0..N
          BY <2>1, <2>2, <3>2
      <4>2. StartsIn(U[m], U[n]) /\ U[m] \in Text
          BY <1>3, <4>1
      <4> QED BY <2>3, <4>2, StartsInCat
    <3> QED BY <3>1, <3>2
  <2> QED BY <2>1, <2>2, <2>4
<1>7. \A n \in Q : n < N => n + 1 \in Q
    BY <1>6
<1>8. k \in Q
  <2> HIDE DEF Q
  <2>1. 0..N \subseteq Q
      BY <1>5, <1>7, Induction
  <2> QED BY <1>1, <2>1
<1> QED BY <1>2, <1>8

\* What a request is made of.
LEMMA RequestIs ==
    ASSUME NEW r, IsRequest(r)
    PROVE  /\ r.lines \in Requests /\ r.lines \in Seq(Lines) /\ Count(r) \in Nat
           /\ r.text \in Text /\ r.length \in Nat /\ r.length <= Len(r.text)
           /\ StartsIn(Header(r.lines), r.text) /\ r.length = Len(Header(r.lines))
           /\ r.cuts \subseteq 1..Len(r.text)
           /\ \A n \in r.cuts : CutNames \/ HarmlessCut(r.text, r.length, n)
           /\ Header(r.lines) = Cat(UpTo(r.lines)[Count(r)], <<"CR", "LF">>)
           /\ Header(r.lines) \in Text
<1>1. PICK ls \in Requests : r = Request(ls)
    BY DEF IsRequest
<1>2. ls \in Seq(Lines)
    BY RequestsAssumption DEF Lines
<1>3. Len(ls) \in Nat
    BY <1>2
<1>4. PICK header : header = Header(ls)
    OBVIOUS
<1>5. PICK text : text = Cat(header, Behind)
    OBVIOUS
<1>6. r = [lines |-> ls, text |-> text, length |-> Len(header),
           cuts |-> {n \in 1..Len(text) : CutNames \/ HarmlessCut(text, Len(header), n)}]
    BY <1>1, <1>4, <1>5 DEF Request, Cat
<1>7. header = Cat(UpTo(ls)[Len(ls)], <<"CR", "LF">>)
    BY <1>4 DEF Header, Cat
<1>8. header \in Text
  <2>1. UpTo(ls)[Len(ls)] \in Text
    <3>1. Len(ls) \in 0..Len(ls)
        BY <1>3
    <3> QED BY <1>2, <3>1, UpToIs
  <2> QED BY <1>7, <2>1, Separators, CatIs
<1>9. Behind \in Text
    BY RequestsAssumption
<1>10. text \in Text /\ Len(text) = Len(header) + Len(Behind)
       /\ \A i \in 1..Len(header) : text[i] = header[i]
    BY <1>5, <1>8, <1>9, CatIs
<1>11. Len(header) \in Nat /\ Len(Behind) \in Nat
    BY <1>8, <1>9 DEF Text
<1>12. StartsIn(header, text) /\ Len(header) <= Len(text)
    BY <1>10, <1>11 DEF StartsIn
<1>13. /\ r.lines = ls /\ r.text = text /\ r.length = Len(header)
       /\ r.cuts = {n \in 1..Len(text) : CutNames \/ HarmlessCut(text, Len(header), n)}
    BY <1>6
<1> QED BY <1>2, <1>3, <1>4, <1>7, <1>8, <1>10, <1>11, <1>12, <1>13 DEF Count

\* The text has the word behind s.
Shows(t, s, word) == \A i \in 1..Len(word) : t[s + i] = word[i]

\* Where line k is in the text, and what is there.
LEMMA LineLaidOut ==
    ASSUME NEW r, IsRequest(r), NEW k \in 1..Count(r)
    PROVE  /\ StartOf(r, k) \in Nat /\ StartOf(r, k) >= 3 /\ r.text[StartOf(r, k)] = "LF"
           /\ NameOf(r, k) \in Text /\ TellsOf(r, k) \in Text
           /\ Len(NameOf(r, k)) \in Nat \ {0} /\ Len(TellsOf(r, k)) \in Nat \ {0}
           /\ StartOf(r, k + 1) = ReturnOf(r, k) + 2 /\ StartOf(r, k + 1) + 2 <= r.length
           /\ Shows(r.text, StartOf(r, k), NameOf(r, k))
           /\ r.text[ColonOf(r, k) + 1] = ":" /\ r.text[ColonOf(r, k) + 2] = " "
           /\ Shows(r.text, ValueOf(r, k), TellsOf(r, k))
           /\ r.text[ReturnOf(r, k) + 1] = "CR" /\ r.text[ReturnOf(r, k) + 2] = "LF"
<1>1. PICK ls \in Seq(Lines) : ls = r.lines
    BY RequestIs
<1>2. PICK U : U = UpTo(ls)
    OBVIOUS
<1>3. PICK K \in Nat : K = Len(ls) /\ K = Count(r)
    BY <1>1 DEF Count
<1>4. /\ \A n \in 0..K : U[n] \in Text /\ Len(U[n]) \in Nat
      /\ U[0] = <<"GET", "CR", "LF">>
      /\ \A n \in 1..K : U[n] = Cat(U[n - 1], Line(ls[n]))
  <2>1. /\ \A n \in 0..Len(ls) : UpTo(ls)[n] \in Text
        /\ UpTo(ls)[0] = <<"GET", "CR", "LF">>
        /\ \A n \in 1..Len(ls) : UpTo(ls)[n] = Cat(UpTo(ls)[n - 1], Line(ls[n]))
      BY UpToIs
  <2>2. \A t \in Text : Len(t) \in Nat
      BY DEF Text
  <2> QED BY <1>2, <1>3, <2>1, <2>2
<1>5. PICK h \in Text : h = Header(r.lines)
    BY RequestIs
<1>6. PICK T \in Text : T = r.text
    BY RequestIs
<1>7. /\ h = Cat(U[K], <<"CR", "LF">>) /\ StartsIn(h, T) /\ r.length = Len(h)
  <2>1. /\ StartsIn(Header(r.lines), r.text) /\ r.length = Len(Header(r.lines))
        /\ Header(r.lines) = Cat(UpTo(r.lines)[Count(r)], <<"CR", "LF">>)
      BY RequestIs
  <2> QED BY <1>1, <1>2, <1>3, <1>5, <1>6, <2>1
<1>8. PICK l \in Lines : l = ls[k]
  <2>1. k \in 1..Len(ls)
      BY <1>3
  <2> QED BY <2>1
<1>9. PICK n \in Nat \ {0} : n = Len(l.name)
    BY LineIs
<1>10. PICK v \in Nat \ {0} : v = Len(l.value)
    BY LineIs
<1>11. PICK w : w = Line(l)
    OBVIOUS
<1>12. /\ w \in Text /\ Len(w) = n + v + 4
       /\ \A i \in 1..n : w[i] = l.name[i]
       /\ w[n + 1] = ":" /\ w[n + 2] = " "
       /\ \A i \in 1..v : w[n + 2 + i] = l.value[i]
       /\ w[n + v + 3] = "CR" /\ w[n + v + 4] = "LF"
    BY <1>9, <1>10, <1>11, LineIs
<1>13. k \in 1..K /\ k \in 0..K /\ k - 1 \in 0..K /\ K \in 0..K /\ k \in Nat /\ k \in Int
    BY <1>3
<1>14. PICK s \in Nat : s = Len(U[k - 1])
    BY <1>4, <1>13
<1>15. U[k] = Cat(U[k - 1], w)
    BY <1>4, <1>8, <1>11, <1>13
<1>16. /\ Len(U[k]) = s + (n + v + 4) /\ \A i \in 1..n + v + 4 : U[k][s + i] = w[i]
  <2>1. U[k - 1] \in Text /\ w \in Text
      BY <1>4, <1>12, <1>13
  <2>2. /\ Len(Cat(U[k - 1], w)) = Len(U[k - 1]) + Len(w)
        /\ \A i \in 1..Len(w) : Cat(U[k - 1], w)[Len(U[k - 1]) + i] = w[i]
      BY <2>1, CatIs
  <2> QED BY <1>12, <1>14, <1>15, <2>2
<1>17. StartsIn(U[k], U[K])
    BY <1>2, <1>3, <1>13, UpToGrows
<1>18. /\ Len(h) = Len(U[K]) + 2 /\ \A i \in 1..Len(U[K]) : h[i] = U[K][i]
  <2>1. PICK c \in Text : c = <<"CR", "LF">> /\ Len(c) = 2
      BY Separators
  <2>2. U[K] \in Text /\ h = Cat(U[K], c)
      BY <1>4, <1>7, <1>13, <2>1
  <2>3. /\ Len(Cat(U[K], c)) = Len(U[K]) + Len(c)
        /\ \A i \in 1..Len(U[K]) : Cat(U[K], c)[i] = U[K][i]
      BY <2>2, CatIs
  <2> QED BY <2>1, <2>2, <2>3
<1>19. /\ Len(h) <= Len(T) /\ \A i \in 1..Len(h) : T[i] = h[i]
    BY <1>7 DEF StartsIn
<1>20. /\ Len(U[k]) <= Len(U[K]) /\ \A i \in 1..Len(U[k]) : U[K][i] = U[k][i]
    BY <1>17 DEF StartsIn
<1>21. Len(U[K]) \in Nat /\ Len(U[k]) \in Nat
    BY <1>4, <1>13
<1>22. \A i \in 1..Len(U[k]) : T[i] = U[k][i]
  <2>1. \A i \in 1..Len(U[k]) : i \in 1..Len(U[K]) /\ i \in 1..Len(h)
      BY <1>18, <1>20, <1>21
  <2> QED BY <1>18, <1>19, <1>20, <2>1
<1>23. \A i \in 1..n + v + 4 : T[s + i] = w[i]
  <2>1. \A i \in 1..n + v + 4 : s + i \in 1..Len(U[k])
      BY <1>16
  <2> QED BY <1>16, <1>22, <2>1
<1>24. s >= 3 /\ T[s] = "LF"
  <2>1. CASE k = 1
    <3>1. U[k - 1] = <<"GET", "CR", "LF">> /\ s = 3
      <4>1. k - 1 = 0
          BY <2>1
      <4>2. U[0] = <<"GET", "CR", "LF">>
          BY <1>4
      <4>3. Len(U[0]) = 3
          BY <4>2
      <4> QED BY <1>14, <4>1, <4>2, <4>3
    <3>2. U[k - 1] \in Text /\ w \in Text
        BY <1>4, <1>12, <1>13
    <3>3. \A i \in 1..Len(U[k - 1]) : Cat(U[k - 1], w)[i] = U[k - 1][i]
        BY <3>2, CatIs
    <3>4. U[k][3] = U[k - 1][3]
        BY <1>14, <1>15, <3>1, <3>3
    <3>5. U[k][3] = "LF"
        BY <3>1, <3>4
    <3>6. 3 \in 1..Len(U[k])
        BY <1>16, <3>1
    <3> QED BY <1>22, <3>1, <3>5, <3>6
  <2>2. CASE k # 1
    <3>1. PICK j : j = k - 1
        OBVIOUS
    <3>2. j \in 1..K /\ j \in 0..K /\ j - 1 \in 0..K /\ j \in 0..k
        BY <1>13, <2>2, <3>1
    <3>3. PICK m \in Lines : m = ls[j]
      <4>1. j \in 1..Len(ls)
          BY <1>3, <3>2
      <4> QED BY <4>1
    <3>4. PICK x \in Text : x = Line(m)
        BY LineIs
    <3>5. Len(x) \in Nat /\ Len(x) >= 4 /\ x[Len(x)] = "LF"
      <4>1. PICK a \in Nat, b \in Nat : a = Len(m.name) /\ b = Len(m.value)
          BY LineIs
      <4>2. Len(x) = a + b + 4 /\ x[a + b + 4] = "LF"
          BY <3>4, <4>1, LineIs
      <4> QED BY <4>2
    <3>6. U[j] = Cat(U[j - 1], x) /\ U[j - 1] \in Text
        BY <1>4, <3>2, <3>3, <3>4
    <3>7. /\ Len(U[j]) = Len(U[j - 1]) + Len(x)
          /\ \A i \in 1..Len(x) : U[j][Len(U[j - 1]) + i] = x[i]
      <4>1. PICK u \in Text : u = U[j - 1]
          BY <3>6
      <4>2. /\ Len(Cat(u, x)) = Len(u) + Len(x)
            /\ \A i \in 1..Len(x) : Cat(u, x)[Len(u) + i] = x[i]
          BY CatIs
      <4> QED BY <3>6, <4>1, <4>2
    <3>8. Len(x) \in 1..Len(x) /\ s = Len(U[j - 1]) + Len(x) /\ s >= 4
      <4>1. Len(U[j - 1]) \in Nat
          BY <1>4, <3>2
      <4> QED BY <1>14, <3>1, <3>5, <3>7, <4>1
    <3>9. U[j][s] = "LF"
        BY <3>5, <3>7, <3>8
    <3>10. StartsIn(U[j], U[k])
        BY <1>2, <1>3, <1>13, <3>2, UpToGrows
    <3>11. U[k][s] = U[j][s] /\ s \in 1..Len(U[k])
      <4>1. s \in 1..Len(U[j]) /\ Len(U[j]) = s
          BY <1>14, <3>1, <3>8
      <4> QED BY <1>16, <3>10, <4>1 DEF StartsIn
    <3> QED BY <1>22, <3>8, <3>9, <3>11
  <2> QED BY <2>1, <2>2
<1>25. /\ StartOf(r, k) = s /\ NameOf(r, k) = l.name /\ TellsOf(r, k) = l.value
       /\ ColonOf(r, k) = s + n /\ ValueOf(r, k) = s + n + 2 /\ ReturnOf(r, k) = s + n + 2 + v
  <2>1. StartOf(r, k) = s /\ NameOf(r, k) = l.name /\ TellsOf(r, k) = l.value
      BY <1>1, <1>2, <1>8, <1>14 DEF StartOf, NameOf, TellsOf
  <2> QED BY <1>9, <1>10, <2>1 DEF ColonOf, ValueOf, ReturnOf
<1>26. StartOf(r, k + 1) = s + n + 2 + v + 2 /\ StartOf(r, k + 1) + 2 <= r.length
  <2>1. (k + 1) - 1 = k
      BY <1>13
  <2>2. StartOf(r, k + 1) = Len(U[k])
      BY <1>1, <1>2, <2>1 DEF StartOf
  <2> QED BY <1>7, <1>16, <1>18, <1>20, <1>21, <2>2
<1>27. \A i \in 1..n : T[s + i] = l.name[i]
  <2>1. \A i \in 1..n : i \in 1..n + v + 4
      OBVIOUS
  <2> QED BY <1>12, <1>23, <2>1
<1>28. T[s + n + 1] = ":" /\ T[s + n + 2] = " "
  <2>1. n + 1 \in 1..n + v + 4 /\ n + 2 \in 1..n + v + 4
        /\ s + (n + 1) = s + n + 1 /\ s + (n + 2) = s + n + 2
      OBVIOUS
  <2> QED BY <1>12, <1>23, <2>1
<1>29. \A i \in 1..v : T[s + n + 2 + i] = l.value[i]
  <2> TAKE i \in 1..v
  <2>1. n + 2 + i \in 1..n + v + 4 /\ s + (n + 2 + i) = s + n + 2 + i
      OBVIOUS
  <2> QED BY <1>12, <1>23, <2>1
<1>30. T[s + n + 2 + v + 1] = "CR" /\ T[s + n + 2 + v + 2] = "LF"
  <2>1. n + v + 3 \in 1..n + v + 4 /\ n + v + 4 \in 1..n + v + 4
        /\ s + (n + v + 3) = s + n + 2 + v + 1 /\ s + (n + v + 4) = s + n + 2 + v + 2
      OBVIOUS
  <2>2. T[s + (n + v + 3)] = w[n + v + 3] /\ T[s + (n + v + 4)] = w[n + v + 4]
      BY <1>23, <2>1, Zenon
  <2> QED BY <1>12, <2>1, <2>2
<1>31. l.name \in Text /\ l.value \in Text
    BY DEF Lines
<1>32. PICK S : S = StartOf(r, k)
    OBVIOUS
<1>33. PICK C : C = ColonOf(r, k)
    OBVIOUS
<1>34. PICK V : V = ValueOf(r, k)
    OBVIOUS
<1>35. PICK R : R = ReturnOf(r, k)
    OBVIOUS
<1>36. PICK name, value : name = NameOf(r, k) /\ value = TellsOf(r, k)
    OBVIOUS
<1>37. /\ S \in Nat /\ S >= 3 /\ T[S] = "LF"
       /\ name \in Text /\ value \in Text
       /\ Len(name) \in Nat \ {0} /\ Len(value) \in Nat \ {0}
    BY <1>9, <1>10, <1>24, <1>25, <1>31, <1>32, <1>36
<1>38. StartOf(r, k + 1) = R + 2 /\ StartOf(r, k + 1) + 2 <= r.length
    BY <1>25, <1>26, <1>35
<1>39. Shows(T, S, name)
    BY <1>9, <1>25, <1>27, <1>32, <1>36 DEF Shows
<1>40. T[C + 1] = ":" /\ T[C + 2] = " "
    BY <1>25, <1>28, <1>33
<1>41. Shows(T, V, value)
    BY <1>10, <1>25, <1>29, <1>34, <1>36 DEF Shows
<1>42. T[R + 1] = "CR" /\ T[R + 2] = "LF"
    BY <1>25, <1>30, <1>35
<1> QED BY <1>6, <1>32, <1>33, <1>34, <1>35, <1>36, <1>37, <1>38, <1>39, <1>40, <1>41, <1>42

\* The request line and the blank line, by position.
LEMMA EdgesLaidOut ==
    ASSUME NEW r, IsRequest(r)
    PROVE  /\ StartOf(r, 1) = 3 /\ r.text[1] = "GET" /\ r.text[2] = "CR" /\ r.text[3] = "LF"
           /\ StartOf(r, Count(r) + 1) \in Nat /\ StartOf(r, Count(r) + 1) >= 3
           /\ r.length = StartOf(r, Count(r) + 1) + 2
           /\ r.text[StartOf(r, Count(r) + 1)] = "LF"
           /\ r.text[StartOf(r, Count(r) + 1) + 1] = "CR"
           /\ r.text[StartOf(r, Count(r) + 1) + 2] = "LF"
<1>1. PICK ls \in Seq(Lines) : ls = r.lines
    BY RequestIs
<1>2. PICK U : U = UpTo(ls)
    OBVIOUS
<1>3. PICK K \in Nat : K = Len(ls) /\ K = Count(r)
    BY <1>1 DEF Count
<1>4. /\ \A n \in 0..K : U[n] \in Text /\ Len(U[n]) \in Nat
      /\ U[0] = <<"GET", "CR", "LF">>
  <2>1. /\ \A n \in 0..Len(ls) : UpTo(ls)[n] \in Text
        /\ UpTo(ls)[0] = <<"GET", "CR", "LF">>
      BY UpToIs
  <2>2. \A t \in Text : Len(t) \in Nat
      BY DEF Text
  <2> QED BY <1>2, <1>3, <2>1, <2>2
<1>5. PICK h \in Text : h = Header(r.lines)
    BY RequestIs
<1>6. PICK T \in Text : T = r.text
    BY RequestIs
<1>7. /\ h = Cat(U[K], <<"CR", "LF">>) /\ StartsIn(h, T) /\ r.length = Len(h)
  <2>1. /\ StartsIn(Header(r.lines), r.text) /\ r.length = Len(Header(r.lines))
        /\ Header(r.lines) = Cat(UpTo(r.lines)[Count(r)], <<"CR", "LF">>)
      BY RequestIs
  <2> QED BY <1>1, <1>2, <1>3, <1>5, <1>6, <2>1
<1>8. K \in 0..K /\ 0 \in 0..K /\ 0 \in 0..Len(ls) /\ K \in 0..Len(ls)
    BY <1>3
<1>9. PICK e \in Nat : e = Len(U[K])
    BY <1>4, <1>8
<1>10. PICK c \in Text : c = <<"CR", "LF">> /\ Len(c) = 2 /\ c[1] = "CR" /\ c[2] = "LF"
    BY Separators
<1>11. /\ Len(h) = e + 2 /\ \A i \in 1..e : h[i] = U[K][i]
       /\ h[e + 1] = "CR" /\ h[e + 2] = "LF"
  <2>1. U[K] \in Text /\ h = Cat(U[K], c)
      BY <1>4, <1>7, <1>8, <1>10
  <2>2. /\ Len(Cat(U[K], c)) = Len(U[K]) + Len(c)
        /\ \A i \in 1..Len(U[K]) : Cat(U[K], c)[i] = U[K][i]
        /\ \A i \in 1..Len(c) : Cat(U[K], c)[Len(U[K]) + i] = c[i]
      BY <2>1, CatIs
  <2> QED BY <1>9, <1>10, <2>1, <2>2
<1>12. \A i \in 1..e + 2 : T[i] = h[i]
    BY <1>7, <1>11 DEF StartsIn
<1>13. Len(U[0]) = 3 /\ U[0][1] = "GET" /\ U[0][2] = "CR" /\ U[0][3] = "LF"
    BY <1>4
<1>14. StartsIn(U[0], U[K])
    BY <1>2, <1>8, UpToGrows
<1>15. /\ e >= 3 /\ \A i \in 1..3 : U[K][i] = U[0][i]
    BY <1>9, <1>13, <1>14 DEF StartsIn
<1>16. T[1] = "GET" /\ T[2] = "CR" /\ T[3] = "LF"
  <2>1. \A i \in {1, 2, 3} : i \in 1..3 /\ i \in 1..e /\ i \in 1..e + 2
      BY <1>15
  <2> QED BY <1>11, <1>12, <1>13, <1>15, <2>1
<1>17. StartOf(r, 1) = 3
  <2>1. 1 - 1 = 0
      OBVIOUS
  <2> QED BY <1>1, <1>2, <1>13, <2>1 DEF StartOf
<1>18. StartOf(r, Count(r) + 1) = e
  <2>1. (K + 1) - 1 = K
      OBVIOUS
  <2> QED BY <1>1, <1>2, <1>3, <1>9, <2>1 DEF StartOf
<1>19. T[e + 1] = "CR" /\ T[e + 2] = "LF"
    BY <1>11, <1>12
<1>20. T[e] = "LF"
  <2>1. CASE K = 0
    <3>1. e = 3
        BY <1>9, <1>13, <2>1
    <3> QED BY <1>16, <3>1
  <2>2. CASE K # 0
    <3>1. K \in 1..Count(r)
        BY <1>3, <2>2
    <3>2. StartOf(r, K + 1) = ReturnOf(r, K) + 2 /\ r.text[ReturnOf(r, K) + 2] = "LF"
        BY <3>1, LineLaidOut
    <3> QED BY <1>3, <1>6, <1>18, <3>2
  <2> QED BY <2>1, <2>2
<1> QED BY <1>6, <1>7, <1>9, <1>11, <1>15, <1>16, <1>17, <1>18, <1>19, <1>20

\* What the names and the values of a request are not.
LEMMA LineSpelled ==
    ASSUME NEW r, IsRequest(r), NEW k \in 1..Count(r)
    PROVE  /\ \A n \in 1..Len(NameOf(r, k)) : NameOf(r, k)[n] \notin {":", "LF"}
           /\ \A n \in 1..Len(TellsOf(r, k)) : TellsOf(r, k)[n] \notin {"CR", "LF"}
           /\ TellsOf(r, k)[1] \notin {":", " "}
           /\ NameOf(r, k) = Fields[2] => Len(TellsOf(r, k)) = KeyLen
<1>1. r.lines \in Requests /\ k \in 1..Len(r.lines)
    BY RequestIs DEF Count
<1>2. /\ \A n \in 1..Len(r.lines[k].name) : r.lines[k].name[n] \notin {":", "LF"}
      /\ \A n \in 1..Len(r.lines[k].value) : r.lines[k].value[n] \notin {"CR", "LF"}
      /\ r.lines[k].value[1] \notin {":", " "}
      /\ r.lines[k].name = Fields[2] => Len(r.lines[k].value) = KeyLen
    BY <1>1, RequestsAssumption
<1> QED BY <1>2 DEF NameOf, TellsOf

\* All of it by position. s, c, v, x: the ends of the line before, of the name,
\* of the separator, of the value.
LineIn(r, k, s, c, v, x) ==
    /\ s = StartOf(r, k) /\ c = ColonOf(r, k) /\ v = ValueOf(r, k) /\ x = ReturnOf(r, k)
    /\ s >= 3 /\ s < c /\ v = c + 2 /\ v < x /\ x + 4 <= r.length /\ r.length <= Len(r.text)
    /\ Len(NameOf(r, k)) = c - s /\ Len(TellsOf(r, k)) = x - v
    /\ StartOf(r, k + 1) = x + 2

Spelled(r, k, s, c, v, x) ==
    /\ r.text[s] = "LF"
    /\ \A i \in s + 1..c : r.text[i] = NameOf(r, k)[i - s] /\ r.text[i] \notin {":", "LF"}
    /\ r.text[c + 1] = ":" /\ r.text[c + 2] = " "
    /\ \A i \in v + 1..x : r.text[i] = TellsOf(r, k)[i - v] /\ r.text[i] \notin {"CR", "LF"}
    /\ r.text[v + 1] \notin {":", " "}
    /\ r.text[x + 1] = "CR" /\ r.text[x + 2] = "LF"

\* A line of the request, its ends named.
LEMMA LineByPosition ==
    ASSUME NEW r, IsRequest(r), NEW k \in 1..Count(r)
    PROVE  \E s, c, v, x \in Nat : LineIn(r, k, s, c, v, x) /\ Spelled(r, k, s, c, v, x)
<1>1. PICK T \in Text : T = r.text
    BY RequestIs
<1>2. PICK name \in Text : name = NameOf(r, k)
    BY LineLaidOut
<1>3. PICK value \in Text : value = TellsOf(r, k)
    BY LineLaidOut
<1>4. PICK n \in Nat \ {0} : n = Len(name)
    BY <1>2, LineLaidOut
<1>5. PICK m \in Nat \ {0} : m = Len(value)
    BY <1>3, LineLaidOut
<1>6. PICK s \in Nat : s = StartOf(r, k)
    BY LineLaidOut
<1>7. PICK c \in Nat : c = ColonOf(r, k) /\ c = s + n
    BY <1>2, <1>4, <1>6 DEF ColonOf
<1>8. PICK v \in Nat : v = ValueOf(r, k) /\ v = c + 2
    BY <1>7 DEF ValueOf
<1>9. PICK x \in Nat : x = ReturnOf(r, k) /\ x = v + m
    BY <1>3, <1>5, <1>8 DEF ReturnOf
<1>10. /\ s >= 3 /\ T[s] = "LF" /\ T[c + 1] = ":" /\ T[c + 2] = " "
       /\ T[x + 1] = "CR" /\ T[x + 2] = "LF"
  <2>1. /\ StartOf(r, k) >= 3 /\ r.text[StartOf(r, k)] = "LF"
        /\ r.text[ColonOf(r, k) + 1] = ":" /\ r.text[ColonOf(r, k) + 2] = " "
        /\ r.text[ReturnOf(r, k) + 1] = "CR" /\ r.text[ReturnOf(r, k) + 2] = "LF"
      BY LineLaidOut
  <2> QED BY <1>1, <1>6, <1>7, <1>9, <2>1
<1>11. \A i \in 1..n : T[s + i] = name[i]
  <2>1. Shows(r.text, StartOf(r, k), NameOf(r, k))
      BY LineLaidOut
  <2> QED BY <1>1, <1>2, <1>4, <1>6, <2>1 DEF Shows
<1>12. \A i \in 1..m : T[v + i] = value[i]
  <2>1. Shows(r.text, ValueOf(r, k), TellsOf(r, k))
      BY LineLaidOut
  <2> QED BY <1>1, <1>3, <1>5, <1>8, <2>1 DEF Shows
<1>13. /\ \A i \in 1..n : name[i] \notin {":", "LF"}
       /\ \A i \in 1..m : value[i] \notin {"CR", "LF"}
       /\ value[1] \notin {":", " "}
  <2>1. /\ \A i \in 1..Len(NameOf(r, k)) : NameOf(r, k)[i] \notin {":", "LF"}
        /\ \A i \in 1..Len(TellsOf(r, k)) : TellsOf(r, k)[i] \notin {"CR", "LF"}
        /\ TellsOf(r, k)[1] \notin {":", " "}
      BY LineSpelled
  <2> QED BY <1>2, <1>3, <1>4, <1>5, <2>1
<1>14. StartOf(r, k + 1) = x + 2 /\ StartOf(r, k + 1) + 2 <= r.length
  <2>1. StartOf(r, k + 1) = ReturnOf(r, k) + 2 /\ StartOf(r, k + 1) + 2 <= r.length
      BY LineLaidOut
  <2> QED BY <1>9, <2>1
<1>15. r.length \in Nat /\ r.length <= Len(r.text)
    BY RequestIs
<1>16. LineIn(r, k, s, c, v, x)
  <2>1. s < c /\ v = c + 2 /\ v < x /\ x + 4 <= r.length
      BY <1>7, <1>8, <1>9, <1>14, <1>15
  <2>2. n = c - s /\ m = x - v
      BY <1>7, <1>9
  <2> QED BY <1>2, <1>3, <1>4, <1>5, <1>6, <1>7, <1>8, <1>9, <1>10, <1>14, <1>15, <2>1, <2>2
          DEF LineIn
<1>17. ASSUME NEW i \in s + 1..c
       PROVE  T[i] = name[i - s] /\ T[i] \notin {":", "LF"}
  <2>1. i - s \in 1..n /\ s + (i - s) = i
      BY <1>7
  <2> QED BY <1>11, <1>13, <2>1
<1>18. ASSUME NEW i \in v + 1..x
       PROVE  T[i] = value[i - v] /\ T[i] \notin {"CR", "LF"}
  <2>1. i - v \in 1..m /\ v + (i - v) = i
      BY <1>9
  <2> QED BY <1>12, <1>13, <2>1
<1>19. T[v + 1] \notin {":", " "}
  <2>1. 1 \in 1..m
      OBVIOUS
  <2> QED BY <1>12, <1>13, <2>1
<1>20. Spelled(r, k, s, c, v, x)
    BY <1>1, <1>2, <1>3, <1>10, <1>17, <1>18, <1>19 DEF Spelled
<1> QED BY <1>16, <1>20

-----------------------------------------------------------------------------
(* Moving on in a piece *)

\* There is something to look at, and it ends where a piece was cut.
LEMMA PieceIs ==
    ASSUME IsRequest(request), PiecesFor(request, pos, ends), ends # {}
    PROVE  /\ pos \in Nat /\ Size \in Nat \ {0}
           /\ pos + Size \in ends /\ pos + Size \in request.cuts
           /\ pos + Size <= Len(request.text)
<1>1. PICK L \in Nat : L = Len(request.text)
    BY RequestIs DEF Text
<1>2. pos \in 0..L /\ ends \subseteq request.cuts /\ \A e \in ends : e > pos
    BY <1>1 DEF PiecesFor
<1>3. ends \subseteq 1..L
    BY <1>1, <1>2, RequestIs
<1>4. ends \in SUBSET Nat
    BY <1>3
<1>5. PICK m : m = Min(ends)
    OBVIOUS
<1>6. m \in ends
    BY <1>4, <1>5, MinIs
<1>7. m \in 1..L /\ m > pos /\ m \in request.cuts
    BY <1>2, <1>3, <1>6
<1>8. Size = m - pos
    BY <1>5 DEF Size
<1>9. Size \in Nat \ {0} /\ pos + Size = m
    BY <1>2, <1>7, <1>8
<1> QED BY <1>1, <1>2, <1>6, <1>7, <1>9

\* What has arrived is at least what was read.
LEMMA ArrivedIs ==
    ASSUME IsRequest(request), PiecesFor(request, pos, ends)
    PROVE  /\ Arrived \in Nat /\ Arrived >= pos /\ Arrived <= Len(request.text)
           /\ ends # {} => Arrived > pos
<1>1. PICK L \in Nat : L = Len(request.text)
    BY RequestIs DEF Text
<1>2. pos \in 0..L /\ ends \subseteq request.cuts /\ \A e \in ends : e > pos
    BY <1>1 DEF PiecesFor
<1>3. ends \subseteq 0..L
    BY <1>1, <1>2, RequestIs
<1>4. PICK S \in SUBSET (0..L) : S = ends \cup {pos}
    BY <1>2, <1>3
<1>5. PICK m : m = Max(S)
    OBVIOUS
<1>6. m \in S /\ \A n \in S : m >= n
  <2>1. S # {}
      BY <1>4
  <2> QED BY <1>5, <2>1, MaxIs
<1>7. Arrived = m
    BY <1>4, <1>5 DEF Arrived
<1>8. m \in 0..L /\ m >= pos
    BY <1>4, <1>6
<1>9. ends # {} => m > pos
  <2> SUFFICES ASSUME NEW e \in ends
               PROVE  m > pos
      OBVIOUS
  <2>1. e \in 0..L /\ e > pos /\ m >= e
      BY <1>2, <1>3, <1>4, <1>6
  <2> QED BY <1>2, <1>8, <2>1
<1> QED BY <1>1, <1>7, <1>8, <1>9

\* Consuming keeps the pieces.
LEMMA Consumed ==
    ASSUME IsRequest(request), PiecesFor(request, pos, ends), NEW n \in Nat,
           pos + n <= Len(request.text), Consume(n), request' = request
    PROVE  pos' = pos + n /\ PiecesFor(request', pos', ends')
<1>1. PICK L \in Nat : L = Len(request.text)
    BY RequestIs DEF Text
<1>2. pos \in 0..L /\ ends \subseteq request.cuts
    BY <1>1 DEF PiecesFor
<1>3. pos' = pos + n /\ ends' = {e \in ends : e > pos + n}
    BY DEF Consume
<1>4. pos' \in 0..L
    BY <1>1, <1>2, <1>3
<1> QED BY <1>1, <1>2, <1>3, <1>4 DEF PiecesFor

\* The first of some places is there if any is.
LEMMA FirstIs ==
    ASSUME NEW places \in SUBSET Nat
    PROVE  /\ First(places) = {} => places = {}
           /\ \A i \in First(places) : i \in places /\ \A j \in places : i <= j
<1>1. ASSUME places # {}
      PROVE  First(places) # {}
  <2>1. PICK m \in places : \A n \in places : m <= n
      BY <1>1, LeastOf
  <2> QED BY <2>1 DEF First
<1> QED BY <1>1 DEF First

\* ws_consume_line goes to the "\r" at x + 1, or to the end of the piece.
LEMMA ToReturn ==
    ASSUME IsRequest(request), PiecesFor(request, pos, ends), NEW x \in Nat, pos <= x,
           x + 1 <= Len(request.text), request.text[x + 1] = "CR",
           \A i \in pos + 1..x : request.text[i] # "CR",
           NEW place, NEW next, ConsumeLine(place, next)
    PROVE  /\ request' = request /\ PiecesFor(request', pos', ends')
           /\ pos' \in pos..x
           /\ at = place /\ ((at' = next /\ pos' = x) \/ at' = place)
           /\ UNCHANGED <<finder, selected, tag, upgrade, key, accept>>
<1>1. ends # {} /\ at = place
    BY DEF ConsumeLine, At
<1>2. PICK z \in Nat \ {0} : z = Size /\ pos \in Nat /\ pos + z <= Len(request.text)
    BY <1>1, PieceIs
<1>3. PICK T : T = request.text
    OBVIOUS
<1>4. CRs = {i \in 1..z : T[pos + i] = "CR"}
    BY <1>2, <1>3 DEF CRs, Found, Byte
<1>5. CRs \in SUBSET Nat
    BY <1>4
<1>6. UNCHANGED <<request, finder, selected, tag, upgrade, key, accept>>
    BY DEF ConsumeLine
<1>7. PICK L \in Nat : L = Len(request.text)
    BY RequestIs DEF Text
<1>8. PICK d \in Nat \ {0} : d = x + 1 - pos /\ pos + d = x + 1
    BY <1>2
<1>9. d <= z => d \in CRs
    BY <1>3, <1>4, <1>8
<1>10. \A i \in CRs : i >= d
  <2> SUFFICES ASSUME NEW i \in CRs, ~(i >= d)
               PROVE  FALSE
      OBVIOUS
  <2>1. i \in 1..z /\ T[pos + i] = "CR"
      BY <1>4
  <2>2. pos + i \in pos + 1..x
      BY <1>2, <1>8, <2>1
  <2> QED BY <1>3, <2>1, <2>2
<1>11. CASE \E i \in First(CRs) : Consume(i - 1) /\ at' = next
  <2>1. PICK i \in First(CRs) : Consume(i - 1) /\ at' = next
      BY <1>11
  <2>2. i \in CRs /\ \A j \in CRs : i <= j
      BY <1>5, <2>1, FirstIs
  <2>3. i \in 1..z /\ i >= d
      BY <1>4, <1>10, <2>2
  <2>4. i = d
      BY <1>2, <1>8, <1>9, <2>2, <2>3
  <2>5. i - 1 \in Nat /\ pos + (i - 1) = x
      BY <1>2, <1>8, <2>4
  <2>6. pos + (i - 1) <= Len(request.text)
      BY <1>7, <2>5
  <2>7. pos' = pos + (i - 1) /\ PiecesFor(request', pos', ends')
      BY <1>6, <2>1, <2>5, <2>6, Consumed
  <2> QED BY <1>1, <1>2, <1>6, <2>1, <2>5, <2>7
<1>12. CASE First(CRs) = {} /\ Consume(Size) /\ UNCHANGED at
  <2>1. CRs = {}
      BY <1>5, <1>12, FirstIs
  <2>2. z < d
      BY <1>2, <1>8, <1>9, <2>1
  <2>3. pos' = pos + z /\ PiecesFor(request', pos', ends')
      BY <1>2, <1>6, <1>12, Consumed
  <2>4. pos' \in pos..x
      BY <1>2, <1>8, <2>2, <2>3
  <2> QED BY <1>1, <1>6, <1>12, <2>3, <2>4
<1> QED BY <1>11, <1>12 DEF ConsumeLine

White == {":", " ", "CR"}

\* The places ws_eat_whitespace looks for are at b and behind it.
LEMMA BlacksAre ==
    ASSUME IsRequest(request), PiecesFor(request, pos, ends), ends # {},
           NEW b \in Nat, pos < b, request.text[b] \notin White,
           \A i \in pos + 1..b - 1 : request.text[i] \in White
    PROVE  /\ Blacks \in SUBSET Nat
           /\ \A i \in Blacks : i \in 1..Size /\ pos + i >= b
           /\ pos + Size >= b => b - pos \in Blacks
<1>1. PICK z \in Nat \ {0} : z = Size /\ pos \in Nat
    BY PieceIs
<1>2. Blacks = {i \in 1..z : request.text[pos + i] \notin White}
    BY <1>1 DEF Blacks, Found, Byte, White
<1>3. ASSUME NEW i \in Blacks
      PROVE  i \in 1..z /\ pos + i >= b
  <2>1. i \in 1..z /\ request.text[pos + i] \notin White
      BY <1>2
  <2>2. ~(pos + i \in pos + 1..b - 1)
      BY <2>1
  <2> QED BY <1>1, <2>1, <2>2
<1>4. pos + z >= b => b - pos \in 1..z /\ pos + (b - pos) = b
    BY <1>1
<1>5. pos + z >= b => b - pos \in Blacks
    BY <1>2, <1>4
<1>6. Blacks \in SUBSET Nat
    BY <1>2
<1> QED BY <1>1, <1>3, <1>5, <1>6

\* ws_eat_whitespace comes to the byte b that is not white, and eats it if it
\* is the "\n".
LEMMA ToBlack ==
    ASSUME IsRequest(request), PiecesFor(request, pos, ends), ends # {},
           NEW b \in Nat, pos < b, request.text[b] \notin White,
           \A i \in pos + 1..b - 1 : request.text[i] \in White,
           NEW e, NEW i \in First(Blacks), e = (Byte(i) = "LF"),
           Consume(IF e THEN i ELSE i - 1), request' = request
    PROVE  /\ PiecesFor(request', pos', ends')
           /\ e <=> request.text[b] = "LF"
           /\ pos' = IF request.text[b] = "LF" THEN b ELSE b - 1
<1>1. PICK z \in Nat \ {0} : z = Size /\ pos \in Nat /\ pos + z <= Len(request.text)
    BY PieceIs
<1>2. /\ Blacks \in SUBSET Nat /\ \A j \in Blacks : j \in 1..z /\ pos + j >= b
      /\ pos + z >= b => b - pos \in Blacks
    BY <1>1, BlacksAre
<1>3. i \in Blacks /\ \A j \in Blacks : i <= j
    BY <1>2, FirstIs
<1>4. i \in 1..z /\ pos + i = b
  <2>1. i \in 1..z /\ pos + i >= b
      BY <1>2, <1>3
  <2>2. b - pos \in Blacks
      BY <1>1, <1>2, <2>1
  <2>3. i <= b - pos
      BY <1>3, <2>2
  <2> QED BY <1>1, <2>1, <2>3
<1>5. e <=> request.text[b] = "LF"
    BY <1>4 DEF Byte
<1>6. PICK L \in Nat : L = Len(request.text)
    BY RequestIs DEF Text
<1>7. CASE request.text[b] = "LF"
  <2>1. Consume(i) /\ i \in Nat /\ pos + i <= Len(request.text)
      BY <1>1, <1>4, <1>5, <1>6, <1>7
  <2>2. pos' = pos + i /\ PiecesFor(request', pos', ends')
      BY <2>1, Consumed
  <2> QED BY <1>4, <1>5, <1>7, <2>2
<1>8. CASE request.text[b] # "LF"
  <2>1. Consume(i - 1) /\ i - 1 \in Nat /\ pos + (i - 1) <= Len(request.text)
      BY <1>1, <1>4, <1>5, <1>6, <1>8
  <2>2. pos' = pos + (i - 1) /\ PiecesFor(request', pos', ends')
      BY <2>1, Consumed
  <2>3. pos' = b - 1
      BY <1>1, <1>4, <2>2
  <2> QED BY <1>5, <1>8, <2>2, <2>3
<1> QED BY <1>7, <1>8

\* Up to b there is white only: ws_eat_whitespace may eat the whole piece.
LEMMA NoBlack ==
    ASSUME IsRequest(request), PiecesFor(request, pos, ends), ends # {},
           NEW b \in Nat, pos < b, request.text[b] \notin White,
           \A i \in pos + 1..b - 1 : request.text[i] \in White,
           First(Blacks) = {}, Consume(Size), request' = request
    PROVE  PiecesFor(request', pos', ends') /\ pos' \in pos + 1..b - 1
<1>1. PICK z \in Nat \ {0} : z = Size /\ pos \in Nat /\ pos + z <= Len(request.text)
    BY PieceIs
<1>2. Blacks \in SUBSET Nat /\ (pos + z >= b => b - pos \in Blacks)
    BY <1>1, BlacksAre
<1>3. Blacks = {}
    BY <1>2, FirstIs
<1>4. pos' = pos + z /\ PiecesFor(request', pos', ends')
    BY <1>1, Consumed
<1>5. pos + z < b
    BY <1>1, <1>2, <1>3
<1> QED BY <1>1, <1>4, <1>5

-----------------------------------------------------------------------------
(* What the lines say *)

\* The two names are not the same, nor is the key's the beginning of upgrade's.
LEMMA FieldsDiffer ==
    /\ Fields[1] # Fields[2] /\ Fields[1] \in Text /\ Fields[2] \in Text
    /\ Len(Fields[1]) \in Nat /\ Len(Fields[2]) \in Nat
    /\ ~(/\ Len(Fields[2]) <= Len(Fields[1])
         /\ \A j \in 1..Len(Fields[2]) : Fields[1][j] = Fields[2][j])
<1>1. PICK a, b \in Text : a = Fields[1] /\ b = Fields[2] /\ ~IsPrefix(b, a)
    BY FieldsAssumption
<1>2. PICK n \in Nat : n = Len(b)
    BY DEF Text
<1>3. Len(a) \in Nat
    BY DEF Text
<1>4. ~(n <= Len(a) /\ SubSeq(b, 1, n) = SubSeq(a, 1, n))
    BY <1>1, <1>2 DEF IsPrefix
<1>5. ~(n <= Len(a) /\ \A j \in 1..n : a[j] = b[j])
  <2> SUFFICES ASSUME n <= Len(a), \A j \in 1..n : a[j] = b[j]
               PROVE  FALSE
      OBVIOUS
  <2>1. SubSeq(b, 1, n) = SubSeq(a, 1, n) <=> \A j \in 1..n : b[j] = a[j]
      BY <1>2, SharedBeginning
  <2> QED BY <1>4, <2>1
<1>6. a # b
    BY <1>2, <1>3, <1>5
<1> QED BY <1>1, <1>2, <1>3, <1>5, <1>6

\* One line more: whether it asks for an upgrade.
LEMMA UpgradedNext ==
    ASSUME NEW r, NEW k \in Nat \ {0}, NEW u \in BOOLEAN, NEW w \in BOOLEAN,
           Upgraded(r, k - 1, u),
           w <=> u \/ (NameOf(r, k) = Fields[1] /\ TellsOf(r, k) = Websocket)
    PROVE  Upgraded(r, k, w)
<1>1. \A j : j \in 1..k <=> j \in 1..k - 1 \/ j = k
    OBVIOUS
<1>2. u <=> \E j \in 1..k - 1 : NameOf(r, j) = Fields[1] /\ TellsOf(r, j) = Websocket
    BY DEF Upgraded
<1> QED BY <1>1, <1>2 DEF Upgraded

\* One line more: whether it is the key.
LEMMA KeyKnownNext ==
    ASSUME NEW r, NEW k \in Nat \ {0}, NEW y,
           \/ NameOf(r, k) # Fields[2] /\ KeyKnown(r, k - 1, y)
           \/ NameOf(r, k) = Fields[2] /\ y = TellsOf(r, k)
    PROVE  KeyKnown(r, k, y)
<1> SUFFICES ASSUME NEW j \in 1..k, NameOf(r, j) = Fields[2],
                    \A m \in j + 1..k : NameOf(r, m) # Fields[2]
             PROVE  y = TellsOf(r, j)
    BY DEF KeyKnown
<1>1. CASE j = k
    BY <1>1
<1>2. CASE j # k
  <2>1. j \in 1..k - 1 /\ k \in j + 1..k /\ \A m \in j + 1..k - 1 : m \in j + 1..k
      BY <1>2
  <2>2. NameOf(r, k) # Fields[2]
      BY <2>1
  <2>3. KeyKnown(r, k - 1, y)
      BY <2>2
  <2>4. \A m \in j + 1..k - 1 : NameOf(r, m) # Fields[2]
      BY <2>1
  <2> QED BY <2>1, <2>3, <2>4 DEF KeyKnown
<1> QED BY <1>1, <1>2

\* A line that says nothing of an upgrade and is not the key.
LEMMA SeenNext ==
    ASSUME NEW r, NEW k \in Nat \ {0}, NEW u \in BOOLEAN, NEW y, Seen(r, k - 1, u, y),
           NameOf(r, k) # Fields[2],
           ~(NameOf(r, k) = Fields[1] /\ TellsOf(r, k) = Websocket)
    PROVE  Seen(r, k, u, y)
BY UpgradedNext, KeyKnownNext DEF Seen

\* Behind a line the parser stands in the next one's name, or in the blank.
LEMMA NameBegins ==
    ASSUME NEW r, IsRequest(r), NEW k \in 0..Count(r), NEW p, p = StartOf(r, k + 1),
           NEW l, NEW t, NEW u, NEW y, Seen(r, k, u, y)
    PROVE  PlacedFor(r, "name", p, NewFinder, l, t, u, y)
<1>1. PICK K \in Nat : K = Count(r)
    BY RequestIs
<1>2. p \in Nat
  <2>1. CASE k = K
      BY <1>1, <2>1, EdgesLaidOut
  <2>2. CASE k # K
    <3>1. k + 1 \in 1..Count(r)
        BY <1>1, <2>2
    <3> QED BY <3>1, LineLaidOut
  <2> QED BY <2>1, <2>2
<1>3. FinderAt(r.text, p, p, NewFinder)
  <2>1. p - p = 0 /\ 1..0 = {}
      BY <1>2
  <2>2. Len(Fields[1]) >= 0
      BY FieldsDiffer
  <2>3. Begins(r.text, p, p, 1)
      BY <2>1, <2>2 DEF Begins
  <2> QED BY <2>1, <2>3 DEF FinderAt, NewFinder
<1>4. CASE k = K
  <2>1. InBlank(r, p, NewFinder)
    <3>1. p = StartOf(r, Count(r) + 1) /\ r.length = p + 2
        BY <1>1, <1>4, EdgesLaidOut
    <3>2. p \in p..r.length - 1
        BY <1>2, <3>1
    <3> QED BY <1>3, <3>1, <3>2 DEF InBlank
  <2> QED BY <1>1, <1>4, <2>1 DEF PlacedFor
<1>5. CASE k # K
  <2>1. PICK n \in 1..Count(r) : n = k + 1 /\ n - 1 = k
      BY <1>1, <1>5
  <2>2. p = StartOf(r, n) /\ ColonOf(r, n) >= p /\ ColonOf(r, n) \in Int
    <3>1. p = StartOf(r, n)
        BY <2>1
    <3>2. PICK m \in Nat : m = Len(NameOf(r, n))
        BY LineLaidOut
    <3>3. ColonOf(r, n) = p + m
        BY <3>1, <3>2 DEF ColonOf
    <3> QED BY <1>2, <3>1, <3>3
  <2>3. p \in p..ColonOf(r, n)
      BY <1>2, <2>2
  <2>4. InName(r, n, p, NewFinder)
      BY <1>3, <2>2, <2>3 DEF InName
  <2>5. Seen(r, n - 1, u, y)
      BY <2>1
  <2> QED BY <2>4, <2>5 DEF PlacedFor
<1> QED BY <1>4, <1>5

\* A fresh selector is one.
LEMMA NewFinderType == NewFinder \in Finders /\ FinderFits(NewFinder)
<1>1. Len(Fields[1]) >= 0
    BY FieldsDiffer
<1> QED BY <1>1 DEF NewFinder, Finders, FinderFits

\* Nothing is said of baseBuf before the answer.
LEMMA AnswerElsewhere ==
    ASSUME NEW a, NEW b, NEW u, NEW w, NEW c, AnswerFor(a, u, c), b # "answered"
    PROVE  AnswerFor(b, w, c)
BY DEF AnswerFor

-----------------------------------------------------------------------------
(* The invariant, step by step *)

\* The invariant holds at the start.
LEMMA InitHolds == Init => IInv
<1> SUFFICES ASSUME Init
             PROVE  IInv
    OBVIOUS
<1>1. /\ request \in {Request(ls) : ls \in Requests} /\ pos = 0 /\ ends = {} /\ at = "first"
      /\ finder = NewFinder /\ selected = 0 /\ tag = 0
      /\ upgrade = FALSE /\ key = <<>> /\ accept = <<>>
    BY DEF Init
<1>2. IsRequest(request)
    BY <1>1 DEF IsRequest
<1>3. PiecesFor(request, pos, ends)
  <2>1. Len(request.text) \in Nat
      BY <1>2, RequestIs DEF Text
  <2> QED BY <1>1, <2>1 DEF PiecesFor
<1>4. TypesFor(finder, selected, tag, upgrade, key)
  <2>1. Len(Websocket) \in Nat
      BY FieldsAssumption DEF Text
  <2>2. key \in Text /\ Len(key) = 0
      BY <1>1 DEF Text
  <2>3. KeyLen \in Nat
      BY SizesAssumption
  <2>4. Len(key) <= KeyLen
      BY <2>2, <2>3
  <2>5. \A n \in Nat : 0 \in 0..n
      OBVIOUS
  <2>6. tag \in 0..Len(Websocket) /\ selected \in 0..2 /\ upgrade \in BOOLEAN
      BY <1>1, <2>1, <2>5
  <2> QED BY <1>1, <2>2, <2>4, <2>6, NewFinderType DEF TypesFor
<1>5. AnswerFor(at, upgrade, accept)
    BY <1>1 DEF AnswerFor
<1>6. Seen(request, 0, upgrade, key)
  <2>1. \A j : j \notin 1..0
      OBVIOUS
  <2> QED BY <1>1, <2>1 DEF Seen, Upgraded, KeyKnown
<1>7. PlacedFor(request, at, pos, finder, selected, tag, upgrade, key)
    BY <1>1, <1>6 DEF PlacedFor
<1> QED BY <1>1, <1>2, <1>3, <1>4, <1>5, <1>7 DEF IInv, Places

\* A piece that arrives does not move the parser.
LEMMA ArriveHolds == IInv /\ Arrive => IInv'
<1> SUFFICES ASSUME IInv, Arrive
             PROVE  IInv'
    OBVIOUS
<1>1. PICK n \in request.cuts : n > Arrived /\ ends' \in {ends \cup {n}, {n}}
    BY DEF Arrive
<1>2. UNCHANGED <<request, pos, at, finder, selected, tag, upgrade, key, accept>>
    BY DEF Arrive
<1>3. IsRequest(request) /\ PiecesFor(request, pos, ends)
    BY DEF IInv
<1>4. n > pos
  <2>1. Arrived \in Nat /\ Arrived >= pos
      BY <1>3, ArrivedIs
  <2>2. pos \in Nat /\ n \in Nat
    <3>1. request.cuts \subseteq 1..Len(request.text)
        BY <1>3, RequestIs
    <3> QED BY <1>3, <3>1 DEF PiecesFor
  <2> QED BY <1>1, <2>1, <2>2
<1>5. PiecesFor(request, pos, ends')
    BY <1>1, <1>3, <1>4 DEF PiecesFor
<1> QED BY <1>2, <1>5 DEF IInv

\* The request line is left at its "\r".
LEMMA RequestLineHolds == IInv /\ RequestLine => IInv'
<1> SUFFICES ASSUME IInv, RequestLine
             PROVE  IInv'
    OBVIOUS
<1>1. IsRequest(request) /\ PiecesFor(request, pos, ends)
    BY DEF IInv
<1>2. ConsumeLine("first", "eol")
    BY DEF RequestLine
<1>3. pos \in 0..1 /\ Seen(request, 0, upgrade, key)
    BY <1>2 DEF IInv, PlacedFor, ConsumeLine, At
<1>4. \A i \in pos + 1..1 : request.text[i] # "CR"
  <2>1. \A i \in pos + 1..1 : i = 1
      BY <1>3
  <2> QED BY <1>1, <2>1, EdgesLaidOut
<1>5. PICK x \in Nat : x = 1 /\ pos <= x /\ x + 1 <= Len(request.text) /\ request.text[x + 1] = "CR"
  <2>1. PICK e \in Nat : e = StartOf(request, Count(request) + 1) /\ e >= 3
      BY <1>1, EdgesLaidOut
  <2>2. request.length = e + 2 /\ request.length <= Len(request.text)
      BY <1>1, <2>1, EdgesLaidOut, RequestIs
  <2>3. Len(request.text) \in Nat
      BY <1>1, RequestIs DEF Text
  <2>4. request.text[1 + 1] = "CR"
      BY <1>1, EdgesLaidOut
  <2> QED BY <1>3, <2>1, <2>2, <2>3, <2>4
<1>6. /\ request' = request /\ PiecesFor(request', pos', ends')
      /\ pos' \in pos..x
      /\ at = "first" /\ ((at' = "eol" /\ pos' = x) \/ at' = "first")
      /\ UNCHANGED <<finder, selected, tag, upgrade, key, accept>>
    BY <1>1, <1>2, <1>4, <1>5, ToReturn
<1>7. PlacedFor(request', at', pos', finder', selected', tag', upgrade', key')
  <2>1. CASE at' = "eol" /\ pos' = x
      BY <1>3, <1>5, <1>6, <2>1 DEF PlacedFor
  <2>2. CASE at' = "first"
    <3>1. pos' \in 0..1
        BY <1>3, <1>5, <1>6
    <3> QED BY <1>3, <1>6, <2>2, <3>1 DEF PlacedFor
  <2> QED BY <1>6, <2>1, <2>2
<1>8. at' \in Places /\ at' # "answered"
    BY <1>6 DEF Places
<1>9. TypesFor(finder', selected', tag', upgrade', key') /\ AnswerFor(at', upgrade', accept')
    BY <1>6, <1>8, AnswerElsewhere DEF IInv
<1> QED BY <1>1, <1>6, <1>7, <1>8, <1>9 DEF IInv

\* The first byte that is not white, where ws_eat_whitespace is asked.
BlackAt(t, p, b) ==
    p < b /\ t[b] \notin White /\ \A i \in p + 1..b - 1 : t[i] \in White

\* Where ws_eat_whitespace comes to, in each of the three places.
LEMMA BlackInEol ==
    ASSUME NEW r, IsRequest(r), NEW p \in 1..2
    PROVE  BlackAt(r.text, p, 3) /\ r.text[3] = "LF"
<1>1. r.text[2] = "CR" /\ r.text[3] = "LF"
    BY EdgesLaidOut
<1>2. \A i \in p + 1..3 - 1 : i = 2
    OBVIOUS
<1>3. p < 3
    OBVIOUS
<1> QED BY <1>1, <1>2, <1>3 DEF BlackAt, White

LEMMA BlackInColon ==
    ASSUME NEW r, NEW k, NEW s \in Nat, NEW c \in Nat, NEW v \in Nat, NEW x \in Nat,
           LineIn(r, k, s, c, v, x), Spelled(r, k, s, c, v, x), NEW p \in c..v
    PROVE  BlackAt(r.text, p, v + 1) /\ r.text[v + 1] # "LF"
<1>1. v = c + 2 /\ v < x
    BY DEF LineIn
<1>2. r.text[c + 1] = ":" /\ r.text[c + 2] = " "
    BY DEF Spelled
<1>3. r.text[v + 1] \notin {":", " "}
    BY DEF Spelled
<1>4. r.text[v + 1] \notin {"CR", "LF"}
  <2>1. v + 1 \in v + 1..x
      BY <1>1
  <2> QED BY <2>1 DEF Spelled
<1>5. \A i \in p + 1..(v + 1) - 1 : i = c + 1 \/ i = c + 2
    BY <1>1
<1>6. p < v + 1
    OBVIOUS
<1> QED BY <1>2, <1>3, <1>4, <1>5, <1>6 DEF BlackAt, White

LEMMA BlackInTail ==
    ASSUME NEW r, NEW k, NEW s \in Nat, NEW c \in Nat, NEW v \in Nat, NEW x \in Nat,
           LineIn(r, k, s, c, v, x), Spelled(r, k, s, c, v, x), NEW p \in v..x + 1
    PROVE  \E b \in Nat :
             /\ BlackAt(r.text, p, b)
             /\ \/ r.text[b] = "LF" /\ b = x + 2
                \/ r.text[b] # "LF" /\ b <= x
<1>1. PICK T : T = r.text
    OBVIOUS
<1>2. T[x + 1] = "CR" /\ T[x + 2] = "LF"
    BY <1>1 DEF Spelled
<1> DEFINE S == {i \in p + 1..x + 2 : T[i] \notin White}
<1>3. S \in SUBSET Nat /\ S # {}
  <2>1. x + 2 \in p + 1..x + 2
      OBVIOUS
  <2>2. x + 2 \in S
      BY <1>2, <2>1 DEF White
  <2> QED BY <2>2
<1>4. PICK b \in S : \A i \in S : b <= i
    BY <1>3, LeastOf
<1>5. b \in p + 1..x + 2 /\ T[b] \notin White
    OBVIOUS
<1>6. \A i \in p + 1..b - 1 : T[i] \in White
  <2> TAKE i \in p + 1..b - 1
  <2>1. i \in p + 1..x + 2 /\ ~(b <= i)
      BY <1>5
  <2> QED BY <1>4, <2>1
<1>7. BlackAt(T, p, b)
    BY <1>5, <1>6 DEF BlackAt
<1>8. b # x + 1
    BY <1>2, <1>5 DEF White
<1>9. b <= x => T[b] # "LF"
  <2> SUFFICES ASSUME b <= x
               PROVE  T[b] # "LF"
      OBVIOUS
  <2>1. b \in v + 1..x
      BY <1>5
  <2> QED BY <1>1, <2>1 DEF Spelled
<1>10. b \in Nat /\ (b <= x \/ b = x + 1 \/ b = x + 2)
    BY <1>5
<1> QED BY <1>1, <1>2, <1>7, <1>8, <1>9, <1>10

\* White eaten to the end of a piece is white of the same place.
LEMMA EatAllWhiteHolds == IInv /\ EatAllWhite => IInv'
<1> SUFFICES ASSUME IInv, EatAllWhite
             PROVE  IInv'
    OBVIOUS
<1>1. /\ IsRequest(request) /\ PiecesFor(request, pos, ends)
      /\ PlacedFor(request, at, pos, finder, selected, tag, upgrade, key)
    BY DEF IInv
<1>2. /\ at \in {"eol", "colon", "tail"} /\ ends # {}
      /\ First(Blacks) = {} /\ Consume(Size)
      /\ UNCHANGED <<request, at, finder, selected, tag, upgrade, key, accept>>
    BY DEF EatAllWhite, At
<1>3. pos \in Nat
    BY <1>1, <1>2, PieceIs
<1>4. ASSUME NEW b \in Nat, BlackAt(request.text, pos, b)
      PROVE  PiecesFor(request', pos', ends') /\ pos' \in pos + 1..b - 1
    BY <1>1, <1>2, <1>4, NoBlack DEF BlackAt
<1>5. PiecesFor(request', pos', ends')
      /\ PlacedFor(request', at', pos', finder', selected', tag', upgrade', key')
  <2>1. CASE at = "eol"
    <3>1. pos \in 1..2 /\ Seen(request, 0, upgrade, key)
        BY <1>1, <2>1 DEF PlacedFor
    <3>2. PiecesFor(request', pos', ends') /\ pos' \in pos + 1..3 - 1
        BY <1>1, <1>4, <3>1, BlackInEol
    <3>3. pos' \in 1..2
        BY <3>1, <3>2
    <3> QED BY <1>2, <2>1, <3>1, <3>2, <3>3 DEF PlacedFor
  <2>2. CASE at = "colon"
    <3>1. PICK k \in 1..Count(request) :
            InColon(request, k, pos, selected) /\ Seen(request, k - 1, upgrade, key)
        BY <1>1, <2>2 DEF PlacedFor
    <3>2. PICK s, c, v, x \in Nat :
            LineIn(request, k, s, c, v, x) /\ Spelled(request, k, s, c, v, x)
        BY <1>1, LineByPosition
    <3>3. c = ColonOf(request, k) /\ v = ValueOf(request, k)
        BY <3>2 DEF LineIn
    <3>4. pos \in c..v
        BY <3>1, <3>3 DEF InColon
    <3>5. PICK b \in Nat : b = v + 1 /\ BlackAt(request.text, pos, b)
        BY <3>2, <3>4, BlackInColon
    <3>6. PiecesFor(request', pos', ends') /\ pos' \in pos + 1..b - 1
        BY <1>4, <3>5
    <3>7. pos' \in c..v
        BY <1>3, <3>4, <3>5, <3>6
    <3>8. InColon(request, k, pos', selected)
        BY <3>1, <3>3, <3>7 DEF InColon
    <3> QED BY <1>2, <2>2, <3>1, <3>6, <3>8 DEF PlacedFor
  <2>3. CASE at = "tail"
    <3>1. PICK k \in 1..Count(request) :
            InTail(request, k, pos) /\ Seen(request, k, upgrade, key)
        BY <1>1, <2>3 DEF PlacedFor
    <3>2. PICK s, c, v, x \in Nat :
            LineIn(request, k, s, c, v, x) /\ Spelled(request, k, s, c, v, x)
        BY <1>1, LineByPosition
    <3>3. v = ValueOf(request, k) /\ x = ReturnOf(request, k)
        BY <3>2 DEF LineIn
    <3>4. pos \in v..x + 1
        BY <3>1, <3>3 DEF InTail
    <3>5. PICK b \in Nat : b <= x + 2 /\ BlackAt(request.text, pos, b)
        BY <3>2, <3>4, BlackInTail
    <3>6. PiecesFor(request', pos', ends') /\ pos' \in pos + 1..b - 1
        BY <1>4, <3>5
    <3>7. pos' \in v..x + 1
        BY <1>3, <3>4, <3>5, <3>6
    <3>8. InTail(request, k, pos')
        BY <3>3, <3>7 DEF InTail
    <3> QED BY <1>2, <2>3, <3>1, <3>6, <3>8 DEF PlacedFor
  <2> QED BY <1>2, <2>1, <2>2, <2>3
<1> QED BY <1>1, <1>2, <1>5 DEF IInv

\* Behind the request line a name begins.
LEMMA RequestLineEndsHolds == IInv /\ RequestLineEnds => IInv'
<1> SUFFICES ASSUME IInv, RequestLineEnds
             PROVE  IInv'
    OBVIOUS
<1>1. /\ IsRequest(request) /\ PiecesFor(request, pos, ends)
      /\ PlacedFor(request, at, pos, finder, selected, tag, upgrade, key)
    BY DEF IInv
<1>2. PICK e \in BOOLEAN : EatWhite("eol", e, LineBegins)
    BY DEF RequestLineEnds
<1>3. PICK i \in First(Blacks) : e = (Byte(i) = "LF") /\ Consume(IF e THEN i ELSE i - 1)
    BY <1>2 DEF EatWhite
<1>4. /\ at = "eol" /\ ends # {} /\ at' = "name" /\ finder' = NewFinder
      /\ UNCHANGED <<request, selected, tag, upgrade, key, accept>>
    BY <1>2 DEF EatWhite, LineBegins, NextFinder, At
<1>5. pos \in 1..2 /\ Seen(request, 0, upgrade, key)
    BY <1>1, <1>4 DEF PlacedFor
<1>6. PICK b \in Nat : b = 3 /\ BlackAt(request.text, pos, b) /\ request.text[b] = "LF"
    BY <1>1, <1>5, BlackInEol
<1>7. PiecesFor(request', pos', ends') /\ pos' = b
    BY <1>1, <1>3, <1>4, <1>6, ToBlack DEF BlackAt
<1>8. PlacedFor(request, "name", pos', NewFinder, selected, tag, upgrade, key)
  <2>1. 0 \in 0..Count(request)
      BY <1>1, RequestIs
  <2>2. pos' = StartOf(request, 0 + 1)
    <3>1. 0 + 1 = 1
        OBVIOUS
    <3> QED BY <1>1, <1>6, <1>7, <3>1, EdgesLaidOut
  <2> QED BY <1>1, <1>5, <2>1, <2>2, NameBegins
<1>9. TypesFor(finder', selected', tag', upgrade', key')
    BY <1>4, NewFinderType DEF IInv, TypesFor
<1>10. AnswerFor(at', upgrade', accept')
    BY <1>4, AnswerElsewhere DEF IInv
<1> QED BY <1>1, <1>4, <1>7, <1>8, <1>9, <1>10 DEF IInv, Places

\* The rest of a value is left at its "\r".
LEMMA RestOfLineHolds == IInv /\ RestOfLine => IInv'
<1> SUFFICES ASSUME IInv, RestOfLine
             PROVE  IInv'
    OBVIOUS
<1>1. IsRequest(request) /\ PiecesFor(request, pos, ends)
    BY DEF IInv
<1>2. ConsumeLine("rest", "tail")
    BY DEF RestOfLine
<1>3. PICK k \in 1..Count(request) : InRest(request, k, pos) /\ Seen(request, k, upgrade, key)
    BY <1>2 DEF IInv, PlacedFor, ConsumeLine, At
<1>4. PICK s, c, v, x \in Nat :
        LineIn(request, k, s, c, v, x) /\ Spelled(request, k, s, c, v, x)
    BY <1>1, LineByPosition
<1>5. v = ValueOf(request, k) /\ x = ReturnOf(request, k)
    BY <1>4 DEF LineIn
<1>6. pos \in v..x
    BY <1>3, <1>5 DEF InRest
<1>7. \A i \in pos + 1..x : request.text[i] # "CR"
  <2>1. \A i \in pos + 1..x : i \in v + 1..x
      BY <1>6
  <2> QED BY <1>4, <2>1 DEF Spelled
<1>8. pos <= x /\ x + 1 <= Len(request.text) /\ request.text[x + 1] = "CR"
  <2>1. x + 4 <= request.length /\ request.length <= Len(request.text)
      BY <1>4 DEF LineIn
  <2>2. request.length \in Nat /\ Len(request.text) \in Nat
      BY <1>1, RequestIs DEF Text
  <2>3. request.text[x + 1] = "CR"
      BY <1>4 DEF Spelled
  <2>4. pos <= x
      BY <1>6
  <2> QED BY <2>1, <2>2, <2>3, <2>4
<1>9. /\ request' = request /\ PiecesFor(request', pos', ends')
      /\ pos' \in pos..x
      /\ at = "rest" /\ ((at' = "tail" /\ pos' = x) \/ at' = "rest")
      /\ UNCHANGED <<finder, selected, tag, upgrade, key, accept>>
    BY <1>1, <1>2, <1>7, <1>8, ToReturn
<1>10. PlacedFor(request', at', pos', finder', selected', tag', upgrade', key')
  <2>1. pos' \in v..x /\ pos' \in v..x + 1
      BY <1>6, <1>9
  <2>2. InRest(request, k, pos') /\ InTail(request, k, pos')
      BY <1>5, <2>1 DEF InRest, InTail
  <2> QED BY <1>3, <1>9, <2>2 DEF PlacedFor
<1>11. at' \in Places /\ at' # "answered"
    BY <1>9 DEF Places
<1>12. TypesFor(finder', selected', tag', upgrade', key') /\ AnswerFor(at', upgrade', accept')
    BY <1>9, <1>11, AnswerElsewhere DEF IInv
<1> QED BY <1>1, <1>9, <1>10, <1>11, <1>12 DEF IInv

\* Behind a value the next name begins.
LEMMA LineEndsHolds == IInv /\ LineEnds => IInv'
<1> SUFFICES ASSUME IInv, LineEnds
             PROVE  IInv'
    OBVIOUS
<1>1. /\ IsRequest(request) /\ PiecesFor(request, pos, ends)
      /\ PlacedFor(request, at, pos, finder, selected, tag, upgrade, key)
    BY DEF IInv
<1>2. PICK e, i :
        e = TRUE /\ i \in First(Blacks) /\ e = (Byte(i) = "LF") /\ Consume(IF e THEN i ELSE i - 1)
    BY DEF LineEnds, EatWhite
<1>3. /\ at = "tail" /\ ends # {} /\ at' = "name" /\ finder' = NewFinder
      /\ UNCHANGED <<request, selected, tag, upgrade, key, accept>>
    BY DEF LineEnds, EatWhite, LineBegins, NextFinder, At
<1>4. PICK k \in 1..Count(request) : InTail(request, k, pos) /\ Seen(request, k, upgrade, key)
    BY <1>1, <1>3 DEF PlacedFor
<1>5. PICK s, c, v, x \in Nat :
        LineIn(request, k, s, c, v, x) /\ Spelled(request, k, s, c, v, x)
    BY <1>1, LineByPosition
<1>6. v = ValueOf(request, k) /\ x = ReturnOf(request, k) /\ StartOf(request, k + 1) = x + 2
    BY <1>5 DEF LineIn
<1>7. pos \in v..x + 1
    BY <1>4, <1>6 DEF InTail
<1>8. PICK b \in Nat : /\ BlackAt(request.text, pos, b)
                       /\ request.text[b] = "LF" => b = x + 2
    BY <1>5, <1>7, BlackInTail
<1>9. /\ PiecesFor(request', pos', ends')
      /\ e <=> request.text[b] = "LF"
      /\ pos' = IF request.text[b] = "LF" THEN b ELSE b - 1
    BY <1>1, <1>2, <1>3, <1>8, ToBlack DEF BlackAt
<1>10. pos' = StartOf(request, k + 1)
    BY <1>2, <1>6, <1>8, <1>9
<1>11. PlacedFor(request, "name", pos', NewFinder, selected, tag, upgrade, key)
  <2>1. k \in 0..Count(request)
      BY <1>1, RequestIs
  <2> QED BY <1>1, <1>4, <1>10, <2>1, NameBegins
<1>12. TypesFor(finder', selected', tag', upgrade', key')
    BY <1>3, NewFinderType DEF IInv, TypesFor
<1>13. AnswerFor(at', upgrade', accept')
    BY <1>3, AnswerElsewhere DEF IInv
<1> QED BY <1>1, <1>3, <1>9, <1>11, <1>12, <1>13 DEF IInv, Places

\* What of a value was not looked at is the rest of its line.
LEMMA ValueLeftHolds == IInv /\ ValueLeft => IInv'
<1> SUFFICES ASSUME IInv, ValueLeft
             PROVE  IInv'
    OBVIOUS
<1>1. /\ IsRequest(request) /\ PiecesFor(request, pos, ends)
      /\ PlacedFor(request, at, pos, finder, selected, tag, upgrade, key)
    BY DEF IInv
<1>2. PICK e, i :
        e = FALSE /\ i \in First(Blacks) /\ e = (Byte(i) = "LF") /\ Consume(IF e THEN i ELSE i - 1)
    BY DEF ValueLeft, EatWhite
<1>3. /\ at = "tail" /\ ends # {} /\ at' = "rest"
      /\ UNCHANGED <<request, finder, selected, tag, upgrade, key, accept>>
    BY DEF ValueLeft, EatWhite, At
<1>4. PICK k \in 1..Count(request) : InTail(request, k, pos) /\ Seen(request, k, upgrade, key)
    BY <1>1, <1>3 DEF PlacedFor
<1>5. PICK s, c, v, x \in Nat :
        LineIn(request, k, s, c, v, x) /\ Spelled(request, k, s, c, v, x)
    BY <1>1, LineByPosition
<1>6. v = ValueOf(request, k) /\ x = ReturnOf(request, k)
    BY <1>5 DEF LineIn
<1>7. pos \in v..x + 1
    BY <1>4, <1>6 DEF InTail
<1>8. PICK b \in Nat : /\ BlackAt(request.text, pos, b)
                       /\ request.text[b] # "LF" => b <= x
    BY <1>5, <1>7, BlackInTail
<1>9. /\ PiecesFor(request', pos', ends')
      /\ e <=> request.text[b] = "LF"
      /\ pos' = IF request.text[b] = "LF" THEN b ELSE b - 1
    BY <1>1, <1>2, <1>3, <1>8, ToBlack DEF BlackAt
<1>10. pos' = b - 1 /\ b <= x /\ pos < b
    BY <1>2, <1>8, <1>9 DEF BlackAt
<1>11. pos' \in v..x
    BY <1>7, <1>10
<1>12. InRest(request, k, pos')
    BY <1>6, <1>11 DEF InRest
<1>13. PlacedFor(request', at', pos', finder', selected', tag', upgrade', key')
    BY <1>3, <1>4, <1>12 DEF PlacedFor
<1>14. AnswerFor(at', upgrade', accept')
    BY <1>3, AnswerElsewhere DEF IInv
<1> QED BY <1>1, <1>3, <1>9, <1>13, <1>14 DEF IInv, Places

\* Where the name or the header stops, at d.
LEMMA StopsAre ==
    ASSUME IsRequest(request), PiecesFor(request, pos, ends), ends # {},
           NEW d \in Nat, pos < d, request.text[d] \in {":", "LF"},
           \A i \in pos + 1..d - 1 : request.text[i] \notin {":", "LF"}
    PROVE  First(ColonsOrLFs) = IF pos + Size >= d THEN {d - pos} ELSE {}
<1>1. PICK z \in Nat \ {0} : z = Size /\ pos \in Nat
    BY PieceIs
<1>2. PICK C : C = ColonsOrLFs
    OBVIOUS
<1>3. C = {i \in 1..z : request.text[pos + i] \in {":", "LF"}}
    BY <1>1, <1>2 DEF ColonsOrLFs, Found, Byte
<1>4. ASSUME NEW i \in C
      PROVE  i \in 1..z /\ pos + i >= d
  <2>1. i \in 1..z /\ request.text[pos + i] \in {":", "LF"}
      BY <1>3
  <2>2. ~(pos + i \in pos + 1..d - 1)
      BY <2>1
  <2> QED BY <1>1, <2>1, <2>2
<1>5. CASE pos + z >= d
  <2>1. d - pos \in 1..z /\ pos + (d - pos) = d
      BY <1>1, <1>5
  <2>2. d - pos \in C
      BY <1>3, <2>1
  <2>3. \A i \in C : d - pos <= i
      BY <1>1, <1>4
  <2>4. \A i \in C : i <= d - pos => i = d - pos
      BY <1>1, <1>4
  <2>5. First(C) = {d - pos}
      BY <2>2, <2>3, <2>4 DEF First
  <2> QED BY <1>1, <1>2, <1>5, <2>5
<1>6. CASE ~(pos + z >= d)
  <2>1. C = {}
      BY <1>1, <1>4, <1>6
  <2>2. First(C) = {}
      BY <2>1 DEF First
  <2> QED BY <1>1, <1>2, <1>6, <2>2
<1> QED BY <1>5, <1>6

\* What ws_t_peak's piece shows of a name's or the header's end.
LEMMA NameStops ==
    ASSUME IsRequest(request), PiecesFor(request, pos, ends), ends # {},
           NEW d \in Nat, pos < d, request.text[d] \in {":", "LF"},
           \A i \in pos + 1..d - 1 : request.text[i] \notin {":", "LF"}
    PROVE  /\ pos + Size >= d =>
                /\ NameEnd = d - pos - 1
                /\ BlankAt = IF request.text[d] = "LF" THEN {d - pos} ELSE {}
           /\ ~(pos + Size >= d) => NameEnd = Size /\ BlankAt = {}
<1>1. PICK z \in Nat \ {0} : z = Size /\ pos \in Nat
    BY PieceIs
<1>2. PICK F : F = First(ColonsOrLFs)
    OBVIOUS
<1>3. F = IF pos + z >= d THEN {d - pos} ELSE {}
    BY <1>1, <1>2, StopsAre
<1>4. CASE pos + z >= d
  <2>1. PICK n \in Nat : n = d - pos - 1 /\ n < z /\ d - pos = n + 1
      BY <1>1, <1>4
  <2>2. F = {n + 1}
      BY <1>3, <1>4, <2>1
  <2>3. PICK S : S = {z} \cup {i - 1 : i \in F}
      OBVIOUS
  <2>4. S = {z, n} /\ S \in SUBSET Nat
    <3>1. (n + 1) - 1 = n
        OBVIOUS
    <3>2. {i - 1 : i \in F} = {n}
        BY <2>2, <3>1
    <3> QED BY <2>3, <3>2
  <2>5. PICK m : m = Min(S)
      OBVIOUS
  <2>6. m \in S /\ \A j \in S : m <= j
      BY <2>4, <2>5, MinIs
  <2>7. m = n
      BY <2>1, <2>4, <2>6
  <2>8. NameEnd = n
      BY <1>1, <1>2, <2>3, <2>5, <2>7 DEF NameEnd
  <2>9. BlankAt = {i \in F : Byte(i) = "LF"}
      BY <1>2 DEF BlankAt
  <2>10. Byte(n + 1) = request.text[d]
    <3>1. pos + (n + 1) = d
        BY <1>1, <2>1
    <3> QED BY <3>1 DEF Byte
  <2>11. BlankAt = IF request.text[d] = "LF" THEN {n + 1} ELSE {}
      BY <2>2, <2>9, <2>10
  <2> QED BY <1>1, <1>4, <2>1, <2>8, <2>11
<1>5. CASE ~(pos + z >= d)
  <2>1. F = {}
      BY <1>3, <1>5
  <2>2. PICK S \in SUBSET Nat : S = {z} \cup {i - 1 : i \in F}
      BY <2>1
  <2>3. S = {z}
      BY <2>1, <2>2
  <2>4. Min(S) \in S
      BY <2>3, MinIs
  <2>5. NameEnd = z
      BY <1>1, <1>2, <2>2, <2>3, <2>4 DEF NameEnd
  <2>6. BlankAt = {}
      BY <1>2, <2>1 DEF BlankAt
  <2> QED BY <1>1, <1>5, <2>5, <2>6
<1> QED BY <1>4, <1>5

\* What ends a name, and what ends the header.
LEMMA NameEndsAt ==
    ASSUME NEW r, NEW k, NEW s \in Nat, NEW c \in Nat, NEW v \in Nat, NEW x \in Nat,
           LineIn(r, k, s, c, v, x), Spelled(r, k, s, c, v, x), NEW p \in s..c
    PROVE  /\ p < c + 1 /\ r.text[c + 1] = ":"
           /\ \A i \in p + 1..(c + 1) - 1 : r.text[i] \notin {":", "LF"}
<1>1. \A i \in p + 1..(c + 1) - 1 : i \in s + 1..c
    OBVIOUS
<1>2. p < c + 1
    OBVIOUS
<1>3. r.text[c + 1] = ":" /\ \A i \in s + 1..c : r.text[i] \notin {":", "LF"}
    BY DEF Spelled
<1> QED BY <1>1, <1>2, <1>3

\* What ends the header.
LEMMA HeaderEndsAt ==
    ASSUME NEW r, IsRequest(r), NEW e \in Nat, e = StartOf(r, Count(r) + 1), NEW p \in e..e + 1
    PROVE  /\ p < e + 2 /\ r.text[e + 2] = "LF"
           /\ \A i \in p + 1..(e + 2) - 1 : r.text[i] \notin {":", "LF"}
<1>1. r.text[e + 1] = "CR" /\ r.text[e + 2] = "LF"
    BY EdgesLaidOut
<1>2. \A i \in p + 1..(e + 2) - 1 : i = e + 1
    OBVIOUS
<1>3. p < e + 2
    OBVIOUS
<1> QED BY <1>1, <1>2, <1>3

\* The header ends at its blank line, with nothing behind it taken.
LEMMA HeaderDoneHolds == IInv /\ HeaderDone => IInv'
<1> SUFFICES ASSUME IInv, HeaderDone
             PROVE  IInv'
    OBVIOUS
<1>1. /\ IsRequest(request) /\ PiecesFor(request, pos, ends)
      /\ PlacedFor(request, at, pos, finder, selected, tag, upgrade, key)
    BY DEF IInv
<1>2. /\ at = "name" /\ ends # {} /\ at' = "done"
      /\ UNCHANGED <<request, finder, selected, tag, upgrade, key, accept>>
    BY DEF HeaderDone, At
<1>3. PICK i \in BlankAt : Consume(i)
    BY DEF HeaderDone
<1>4. PICK z \in Nat \ {0} : z = Size /\ pos \in Nat /\ pos + z <= Len(request.text)
    BY <1>1, <1>2, PieceIs
<1>5. InBlank(request, pos, finder) /\ Seen(request, Count(request), upgrade, key)
  <2> SUFFICES ASSUME NEW k \in 1..Count(request), InName(request, k, pos, finder)
               PROVE  FALSE
      BY <1>1, <1>2 DEF PlacedFor
  <2>1. PICK s, c, v, x \in Nat :
          LineIn(request, k, s, c, v, x) /\ Spelled(request, k, s, c, v, x)
      BY <1>1, LineByPosition
  <2>2. pos \in s..c
      BY <2>1 DEF InName, LineIn
  <2>3. PICK d \in Nat : /\ d = c + 1 /\ pos < d /\ request.text[d] = ":"
                         /\ \A j \in pos + 1..d - 1 : request.text[j] \notin {":", "LF"}
      <3>1. PICK d \in Nat : d = c + 1
        OBVIOUS
    <3>2. /\ pos < c + 1 /\ request.text[c + 1] = ":"
          /\ \A j \in pos + 1..(c + 1) - 1 : request.text[j] \notin {":", "LF"}
        BY <1>1, <2>1, <2>2, NameEndsAt
    <3> QED BY <3>1, <3>2
  <2>4. BlankAt = {}
      BY <1>1, <1>2, <2>3, NameStops
  <2> QED BY <1>3, <2>4
<1>6. PICK e \in Nat : e = StartOf(request, Count(request) + 1) /\ request.length = e + 2
    BY <1>1, EdgesLaidOut
<1>7. pos \in e..e + 1
    BY <1>5, <1>6 DEF InBlank
<1>8. PICK d \in Nat : /\ d = e + 2 /\ pos < d /\ request.text[d] = "LF"
                       /\ \A j \in pos + 1..d - 1 : request.text[j] \notin {":", "LF"}
    BY <1>1, <1>6, <1>7, HeaderEndsAt
<1>9. BlankAt = IF pos + z >= d THEN {d - pos} ELSE {}
    BY <1>1, <1>2, <1>4, <1>8, NameStops
<1>10. pos + z >= d /\ i = d - pos
    BY <1>3, <1>9
<1>11. i \in Nat /\ pos + i = d /\ d <= Len(request.text)
  <2>1. Len(request.text) \in Nat
      BY <1>1, RequestIs DEF Text
  <2> QED BY <1>4, <1>8, <1>10, <2>1
<1>12. pos' = request.length /\ PiecesFor(request', pos', ends')
  <2>1. pos' = pos + i /\ PiecesFor(request', pos', ends')
      BY <1>1, <1>2, <1>3, <1>11, Consumed
  <2> QED BY <1>6, <1>8, <1>11, <2>1
<1>13. PlacedFor(request', at', pos', finder', selected', tag', upgrade', key')
    BY <1>2, <1>5, <1>12 DEF PlacedFor
<1>14. AnswerFor(at', upgrade', accept')
    BY <1>2, AnswerElsewhere DEF IInv
<1> QED BY <1>1, <1>2, <1>12, <1>13, <1>14 DEF IInv, Places

\* A name that a piece ends in, if it is no field's beginning, does harm.
LEMMA CutNameIs ==
    ASSUME NEW r, IsRequest(r), NEW k,
           NEW s \in Nat, NEW c \in Nat, NEW v \in Nat, NEW x \in Nat,
           LineIn(r, k, s, c, v, x), Spelled(r, k, s, c, v, x), NEW p \in s..c
    PROVE  CutName(r.text, p) = SubSeq(r.text, s + 1, p)
<1>1. PICK T : T = r.text
    OBVIOUS
<1>2. p \in Nat /\ s \in 0..p /\ s # 0 /\ T[s] = "LF"
  <2>1. s >= 3
      BY DEF LineIn
  <2>2. T[s] = "LF"
      BY <1>1 DEF Spelled
  <2> QED BY <2>1, <2>2
<1>3. \A i \in s + 1..p : T[i] # "LF"
  <2>1. \A i \in s + 1..p : i \in s + 1..c
      OBVIOUS
  <2> QED BY <1>1, <2>1 DEF Spelled
<1>4. PICK S \in SUBSET (0..p) : S = {n \in 0..p : n = 0 \/ T[n] = "LF"}
    OBVIOUS
<1>5. s \in S
    BY <1>2, <1>4
<1>6. PICK m : m = Max(S)
    OBVIOUS
<1>7. m \in S /\ \A n \in S : m >= n
    BY <1>2, <1>5, <1>6, MaxIs
<1>8. m \in 0..p /\ m >= s /\ ~(m \in s + 1..p)
    BY <1>2, <1>3, <1>4, <1>5, <1>7
<1>9. m = s
    BY <1>8
<1> QED BY <1>1, <1>4, <1>6, <1>9 DEF CutName

\* Without such cuts a name that a piece ends in begins like a field.
LEMMA HarmlessCuts ==
    ASSUME NEW r, IsRequest(r), NEW k,
           NEW s \in Nat, NEW c \in Nat, NEW v \in Nat, NEW x \in Nat,
           LineIn(r, k, s, c, v, x), Spelled(r, k, s, c, v, x), NEW p \in s..c,
           p = s \/ p \in r.cuts, ~CutNames
    PROVE  Begins(r.text, s, p, 1) \/ Begins(r.text, s, p, 2)
<1>1. PICK T \in Text : T = r.text
    BY RequestIs
<1>2. s >= 3 /\ s < c /\ v = c + 2 /\ v < x /\ x + 4 <= r.length
    BY DEF LineIn
<1>3. CASE p = s
  <2>1. p - s = 0 /\ 1..0 = {}
      BY <1>3
  <2>2. Len(Fields[1]) >= 0
      BY FieldsDiffer
  <2> QED BY <2>1, <2>2 DEF Begins
<1>4. CASE p # s
  <2>1. HarmlessCut(r.text, r.length, p)
      BY <1>4, RequestIs
  <2>2. PICK n \in Nat : n = p - s /\ s + n = p
      OBVIOUS
  <2>3. PICK w : w = CutName(r.text, p)
      OBVIOUS
  <2>4. w \in Text /\ Len(w) = n /\ \A i \in 1..n : w[i] = T[s + i]
    <3>1. s + n <= Len(T)
      <4>1. r.length \in Nat /\ r.length <= Len(r.text) /\ Len(T) \in Nat
          BY <1>1, RequestIs DEF Text
      <4> QED BY <1>1, <1>2, <2>2, <4>1
    <3>2. CutName(r.text, p) = SubSeq(r.text, s + 1, p)
        BY CutNameIs
    <3>3. w = SubSeq(T, s + 1, s + n)
        BY <1>1, <2>2, <2>3, <3>2
    <3> QED BY <3>1, <3>3, Taken
  <2>5. /\ ~(p <= 3) /\ ~(p >= r.length - 2)
    <3>1. r.length \in Nat
        BY RequestIs
    <3> QED BY <1>2, <1>4, <3>1
  <2>6. \A i \in 1..n : w[i] # ":"
    <3> TAKE i \in 1..n
    <3>1. s + i \in s + 1..c
        BY <2>2
    <3> QED BY <1>1, <2>4, <3>1 DEF Spelled
  <2>7. PICK f \in 1..2 : IsPrefix(w, Fields[f])
      BY <2>1, <2>3, <2>4, <2>5, <2>6 DEF HarmlessCut
  <2>8. PICK g \in Text : g = Fields[f]
      BY FieldLengths
  <2>9. n <= Len(g) /\ SubSeq(w, 1, n) = SubSeq(g, 1, n)
      BY <2>4, <2>7, <2>8 DEF IsPrefix
  <2>10. \A j \in 1..n : w[j] = g[j]
      BY <2>4, <2>9, SharedBeginning
  <2>11. Begins(r.text, s, p, f)
      BY <1>1, <2>2, <2>4, <2>8, <2>9, <2>10 DEF Begins
  <2> QED BY <2>11
<1> QED BY <1>3, <1>4

\* What the selector found, when it saw the whole name.
LEMMA SelectionIs ==
    ASSUME NEW r, IsRequest(r), NEW k \in 1..Count(r),
           NEW s \in Nat, NEW c \in Nat, NEW v \in Nat, NEW x \in Nat,
           LineIn(r, k, s, c, v, x), Spelled(r, k, s, c, v, x),
           NEW f, FinderAt(r.text, s, c, f)
    PROVE  \A i \in 1..2 : Selection(f) = i <=> NameOf(r, k) = Fields[i]
<1>1. PICK T : T = r.text
    OBVIOUS
<1>2. PICK name \in Text : name = NameOf(r, k)
    BY LineLaidOut
<1>3. PICK n \in Nat : n = c - s /\ n = Len(name)
    BY <1>2 DEF LineIn
<1>4. \A j \in 1..n : T[s + j] = name[j]
  <2> TAKE j \in 1..n
  <2>1. s + j \in s + 1..c /\ (s + j) - s = j
      BY <1>3
  <2> QED BY <1>1, <1>2, <2>1 DEF Spelled
<1>5. PICK a, b \in Text : a = Fields[1] /\ b = Fields[2]
    BY FieldsDiffer
<1>6. PICK na \in Nat : na = Len(a)
    BY DEF Text
<1>7. PICK nb \in Nat : nb = Len(b)
    BY DEF Text
<1>8. ~(nb <= na /\ \A j \in 1..nb : a[j] = b[j])
    BY <1>5, <1>6, <1>7, FieldsDiffer
<1>9. Begins(T, s, c, 1) <=> n <= na /\ \A j \in 1..n : name[j] = a[j]
    BY <1>3, <1>4, <1>5, <1>6 DEF Begins
<1>10. Begins(T, s, c, 2) <=> n <= nb /\ \A j \in 1..n : name[j] = b[j]
    BY <1>3, <1>4, <1>5, <1>7 DEF Begins
<1>11. name = a <=> n = na /\ \A j \in 1..n : name[j] = a[j]
    BY <1>3, <1>6, SeqEqual DEF Text
<1>12. name = b <=> n = nb /\ \A j \in 1..n : name[j] = b[j]
    BY <1>3, <1>7, SeqEqual DEF Text
<1>13. Selection(f) = IF f.list_index <= 2 /\ f.str_index = Len(Fields[f.list_index])
                      THEN f.list_index ELSE 0
    BY DEF Selection
<1>14. (Selection(f) = 1 <=> name = a) /\ (Selection(f) = 2 <=> name = b)
  <2>1. CASE f.list_index = 1 /\ f.str_index = n /\ Begins(T, s, c, 1)
    <3>1. Selection(f) = IF n = na THEN 1 ELSE 0
        BY <1>5, <1>6, <1>13, <2>1
    <3>2. n <= na /\ \A j \in 1..n : name[j] = a[j]
        BY <1>9, <2>1
    <3>3. name # b
      <4> SUFFICES ASSUME name = b
                   PROVE  FALSE
          OBVIOUS
      <4>1. nb = n
          BY <1>3, <1>7
      <4>2. nb <= na /\ \A j \in 1..nb : a[j] = b[j]
          BY <3>2, <4>1
      <4> QED BY <1>8, <4>2
    <3> QED BY <1>11, <3>1, <3>2, <3>3
  <2>2. CASE f.list_index = 2 /\ f.str_index = n /\ Begins(T, s, c, 2) /\ ~Begins(T, s, c, 1)
    <3>1. Selection(f) = IF n = nb THEN 2 ELSE 0
        BY <1>5, <1>7, <1>13, <2>2
    <3>2. \A j \in 1..n : name[j] = b[j]
        BY <1>10, <2>2
    <3>3. name # a
        BY <1>9, <1>11, <2>2
    <3> QED BY <1>12, <3>1, <3>2, <3>3
  <2>3. CASE f.list_index = 3 /\ ~Begins(T, s, c, 1) /\ ~Begins(T, s, c, 2)
    <3>1. Selection(f) = 0
        BY <1>13, <2>3
    <3>2. name # a /\ name # b
        BY <1>9, <1>10, <1>11, <1>12, <2>3
    <3> QED BY <3>1, <3>2
  <2> QED BY <1>1, <1>3, <2>1, <2>2, <2>3 DEF FinderAt
<1>15. \A i \in 1..2 : i = 1 \/ i = 2
    OBVIOUS
<1> QED BY <1>2, <1>5, <1>14, <1>15

\* The selector goes on with what is read of the name that begins behind s.
LEMMA NameRead ==
    ASSUME IsRequest(request), PiecesFor(request, pos, ends), finder \in Finders,
           NEW s \in Nat, s <= pos, FinderAt(request.text, s, pos, finder),
           NEW i \in Nat, pos + i <= Len(request.text), Consume(i), request' = request,
           finder' = Select(finder, SubSeq(request.text, pos + 1, pos + i))
    PROVE  /\ pos' = pos + i /\ PiecesFor(request', pos', ends')
           /\ finder' \in Finders /\ FinderFits(finder') /\ Selection(finder') \in 0..2
           /\ FinderAt(request.text, s, pos + i, finder')
<1>1. PICK T \in Text : T = request.text
    BY RequestIs
<1>2. PICK p \in Nat : p = pos
    BY DEF PiecesFor
<1>3. PICK f \in Finders : f = finder
    OBVIOUS
<1>4. PICK g : g = Select(f, SubSeq(T, p + 1, p + i))
    OBVIOUS
<1>5. g \in Finders /\ FinderAt(T, s, p + i, g)
  <2>1. FinderAt(T, s, p, f) /\ s <= p /\ p + i <= Len(T)
      BY <1>1, <1>2, <1>3
  <2> QED BY <1>4, <2>1, SelectFinds
<1>6. FinderFits(g)
  <2>1. CASE g.list_index = 1 /\ g.str_index = p + i - s /\ Begins(T, s, p + i, 1)
      BY <2>1 DEF FinderFits, Begins
  <2>2. CASE g.list_index = 2 /\ g.str_index = p + i - s /\ Begins(T, s, p + i, 2)
      BY <2>2 DEF FinderFits, Begins
  <2>3. CASE g.list_index = 3
      BY <2>3 DEF FinderFits
  <2> QED BY <1>5, <2>1, <2>2, <2>3 DEF FinderAt
<1>7. Selection(g) \in 0..2
  <2>1. g.list_index \in 1..3
      BY <1>5 DEF Finders
  <2>2. PICK m \in 1..3 : m = g.list_index
      BY <2>1
  <2>3. Selection(g) = IF m <= 2 /\ g.str_index = Len(Fields[m]) THEN m ELSE 0
      BY <2>2 DEF Selection
  <2>4. m <= 2 => m \in 0..2
      OBVIOUS
  <2> QED BY <2>3, <2>4
<1>8. pos' = pos + i /\ PiecesFor(request', pos', ends')
    BY Consumed
<1>9. finder' = g
    BY <1>1, <1>2, <1>3, <1>4
<1> QED BY <1>1, <1>2, <1>5, <1>6, <1>7, <1>8, <1>9

\* The selector has left its list: no field begins so.
LEMMA InWildIs ==
    ASSUME NEW t, NEW s, NEW p, NEW f, FinderAt(t, s, p, f), f.list_index > 2
    PROVE  ~Begins(t, s, p, 1) /\ ~Begins(t, s, p, 2)
<1>1. f.list_index # 1 /\ f.list_index # 2
    OBVIOUS
<1> QED BY <1>1 DEF FinderAt

\* A name of a line.
LEMMA NameInLine ==
    ASSUME IInv, Name, NEW k \in 1..Count(request), InName(request, k, pos, finder),
           Seen(request, k - 1, upgrade, key)
    PROVE  /\ PiecesFor(request', pos', ends')
           /\ TypesFor(finder', selected', tag', upgrade', key')
           /\ PlacedFor(request', at', pos', finder', selected', tag', upgrade', key')
           /\ at' \in Places /\ at' # "answered"
<1>1. /\ IsRequest(request) /\ PiecesFor(request, pos, ends)
      /\ TypesFor(finder, selected, tag, upgrade, key)
    BY DEF IInv
<1>2. /\ ends # {} /\ BlankAt = {} /\ UNCHANGED <<request, tag, upgrade, key, accept>>
    BY DEF Name, At
<1>3. PICK s, c, v, x \in Nat :
        LineIn(request, k, s, c, v, x) /\ Spelled(request, k, s, c, v, x)
    BY <1>1, LineByPosition
<1>4. s = StartOf(request, k) /\ c = ColonOf(request, k) /\ v = ValueOf(request, k)
      /\ v = c + 2
    BY <1>3 DEF LineIn
<1>5. pos \in s..c /\ (pos = s \/ pos \in request.cuts)
      /\ FinderAt(request.text, s, pos, finder)
    BY <1>4 DEF InName
<1>6. CASE finder.list_index > 2
  <2>1. at' = "wild" /\ UNCHANGED <<pos, ends, finder, selected>>
      BY <1>6 DEF Name
  <2>2. CutNames
    <3> SUFFICES ASSUME ~CutNames
                 PROVE  FALSE
        OBVIOUS
    <3>1. Begins(request.text, s, pos, 1) \/ Begins(request.text, s, pos, 2)
        BY <1>1, <1>3, <1>5, HarmlessCuts
    <3> QED BY <1>5, <1>6, <3>1, InWildIs
  <2>3. PlacedFor(request', at', pos', finder', selected', tag', upgrade', key')
      BY <2>1, <2>2 DEF PlacedFor
  <2> QED BY <1>1, <1>2, <2>1, <2>3 DEF Places
<1>7. CASE ~(finder.list_index > 2)
  <2>1. PICK i : /\ i = NameEnd /\ Consume(i)
                 /\ finder' = Select(finder, SubSeq(request.text, pos + 1, pos + i))
                 /\ selected' = Selection(finder')
                 /\ at' = IF i = Size THEN "name" ELSE "colon"
      BY <1>7 DEF Name
  <2>2. PICK z \in Nat \ {0} : /\ z = Size /\ pos \in Nat
                               /\ pos + z \in request.cuts /\ pos + z <= Len(request.text)
      BY <1>1, <1>2, PieceIs
  <2>3. PICK d \in Nat : /\ d = c + 1 /\ pos < d /\ request.text[d] = ":"
                         /\ \A j \in pos + 1..d - 1 : request.text[j] \notin {":", "LF"}
    <3>1. PICK d \in Nat : d = c + 1
        OBVIOUS
    <3>2. /\ pos < c + 1 /\ request.text[c + 1] = ":"
          /\ \A j \in pos + 1..(c + 1) - 1 : request.text[j] \notin {":", "LF"}
        BY <1>3, <1>5, NameEndsAt
    <3> QED BY <3>1, <3>2
  <2>4. /\ pos + z >= d => NameEnd = d - pos - 1
        /\ ~(pos + z >= d) => NameEnd = z
      BY <1>1, <1>2, <2>2, <2>3, NameStops
  <2>5. finder \in Finders /\ s <= pos
      BY <1>1, <1>5 DEF TypesFor
  <2>6. PICK L \in Nat : L = Len(request.text)
      BY <1>1, RequestIs DEF Text
  <2>7. i \in Nat /\ pos + i <= L /\ pos + i <= c
        /\ (i = z \/ (i # z /\ pos + i = c))
        /\ (i = z => pos + i \in request.cuts)
    <3>1. CASE pos + z >= d
      <4>1. i = d - pos - 1
          BY <2>1, <2>4, <3>1
      <4>2. i \in Nat /\ pos + i = c /\ i # z /\ c <= L
          BY <2>2, <2>3, <2>6, <3>1, <4>1
      <4> QED BY <4>2
    <3>2. CASE ~(pos + z >= d)
      <4>1. i = z
          BY <2>1, <2>4, <3>2
      <4>2. pos + z <= c /\ pos + z <= L
          BY <2>2, <2>3, <2>6, <3>2
      <4>3. pos + z \in request.cuts /\ z \in Nat
          BY <2>2
      <4>4. i \in Nat /\ pos + i \in request.cuts
          BY <4>1, <4>3
      <4>5. pos + i <= L /\ pos + i <= c
          BY <4>1, <4>2
      <4> QED BY <4>1, <4>4, <4>5
    <3> QED BY <3>1, <3>2
  <2>8. /\ pos' = pos + i /\ PiecesFor(request', pos', ends')
        /\ finder' \in Finders /\ FinderFits(finder') /\ Selection(finder') \in 0..2
        /\ FinderAt(request.text, s, pos + i, finder')
      BY <1>1, <1>2, <1>5, <2>1, <2>5, <2>6, <2>7, NameRead
  <2>9. TypesFor(finder', selected', tag', upgrade', key')
      BY <1>1, <1>2, <2>1, <2>8 DEF TypesFor
  <2>10. PlacedFor(request', at', pos', finder', selected', tag', upgrade', key')
    <3>1. CASE i = z
      <4>1. at' = "name"
          BY <2>1, <2>2, <3>1
      <4>2. pos' \in s..c
          BY <2>2, <2>5, <2>7, <2>8
      <4>3. InName(request, k, pos', finder')
          BY <1>4, <2>7, <2>8, <3>1, <4>2 DEF InName
      <4> QED BY <1>2, <4>1, <4>3 DEF PlacedFor
    <3>2. CASE i # z
      <4>1. at' = "colon" /\ pos' = c
          BY <2>1, <2>2, <2>7, <2>8, <3>2
      <4>2. \A j \in 1..2 : Selection(finder') = j <=> NameOf(request, k) = Fields[j]
        <5>1. FinderAt(request.text, s, c, finder')
            BY <2>7, <2>8, <3>2
        <5> QED BY <1>1, <1>3, <5>1, SelectionIs
      <4>3. pos' \in c..v
          BY <1>4, <4>1
      <4>4. InColon(request, k, pos', selected')
          BY <1>4, <2>1, <4>2, <4>3 DEF InColon
      <4> QED BY <1>2, <4>1, <4>4 DEF PlacedFor
    <3> QED BY <3>1, <3>2
  <2> QED BY <2>1, <2>8, <2>9, <2>10 DEF Places
<1> QED BY <1>6, <1>7

\* The blank line, of which the "\r" alone has come.
LEMMA NameInBlank ==
    ASSUME IInv, Name, InBlank(request, pos, finder),
           Seen(request, Count(request), upgrade, key)
    PROVE  /\ PiecesFor(request', pos', ends')
           /\ TypesFor(finder', selected', tag', upgrade', key')
           /\ PlacedFor(request', at', pos', finder', selected', tag', upgrade', key')
           /\ at' \in Places /\ at' # "answered"
<1>1. /\ IsRequest(request) /\ PiecesFor(request, pos, ends)
      /\ TypesFor(finder, selected, tag, upgrade, key)
    BY DEF IInv
<1>2. /\ ends # {} /\ BlankAt = {} /\ UNCHANGED <<request, tag, upgrade, key, accept>>
    BY DEF Name, At
<1>3. PICK e \in Nat : e = StartOf(request, Count(request) + 1) /\ request.length = e + 2
    BY <1>1, EdgesLaidOut
<1>4. pos \in e..e + 1 /\ FinderAt(request.text, e, pos, finder)
    BY <1>3 DEF InBlank
<1>5. PICK z \in Nat \ {0} : z = Size /\ pos + z <= Len(request.text)
    BY <1>1, <1>2, PieceIs
<1>6. PICK d \in Nat : /\ d = e + 2 /\ pos < d /\ request.text[d] = "LF"
                       /\ \A j \in pos + 1..d - 1 : request.text[j] \notin {":", "LF"}
    BY <1>1, <1>3, <1>4, HeaderEndsAt
<1>7. /\ BlankAt = IF pos + z >= d THEN {d - pos} ELSE {}
      /\ ~(pos + z >= d) => NameEnd = z
    BY <1>1, <1>2, <1>5, <1>6, NameStops
<1>8. ~(pos + z >= d) /\ NameEnd = z
    BY <1>2, <1>7
<1>9. pos = e /\ z = 1
    BY <1>4, <1>5, <1>6, <1>8
<1>10. ~(finder.list_index > 2)
  <2>1. e - e = 0 /\ 1..0 = {}
      OBVIOUS
  <2>2. Len(Fields[1]) >= 0
      BY FieldsDiffer
  <2>3. Begins(request.text, e, e, 1)
      BY <2>1, <2>2 DEF Begins
  <2>4. FinderAt(request.text, e, e, finder)
      BY <1>4, <1>9
  <2> QED BY <2>3, <2>4, InWildIs
<1>11. /\ Consume(z) /\ finder' = Select(finder, SubSeq(request.text, pos + 1, pos + z))
       /\ selected' = Selection(finder') /\ at' = "name"
    BY <1>5, <1>8, <1>10 DEF Name
<1>12. finder \in Finders /\ e <= pos
    BY <1>1, <1>4 DEF TypesFor
<1>13. /\ pos' = pos + z /\ PiecesFor(request', pos', ends')
       /\ finder' \in Finders /\ FinderFits(finder') /\ Selection(finder') \in 0..2
       /\ FinderAt(request.text, e, pos + z, finder')
    BY <1>1, <1>2, <1>4, <1>5, <1>11, <1>12, NameRead
<1>14. TypesFor(finder', selected', tag', upgrade', key')
    BY <1>1, <1>2, <1>11, <1>13 DEF TypesFor
<1>15. pos' \in e..request.length - 1
    BY <1>3, <1>9, <1>13
<1>16. InBlank(request, pos', finder')
    BY <1>3, <1>13, <1>15 DEF InBlank
<1>17. PlacedFor(request', at', pos', finder', selected', tag', upgrade', key')
    BY <1>2, <1>11, <1>16 DEF PlacedFor
<1> QED BY <1>11, <1>13, <1>14, <1>17 DEF Places

\* The name, by the line it is of.
LEMMA NameHolds == IInv /\ Name => IInv'
<1> SUFFICES ASSUME IInv, Name
             PROVE  IInv'
    OBVIOUS
<1>1. at = "name" /\ request' = request /\ UNCHANGED accept
    BY DEF Name, At
<1>2. /\ PiecesFor(request', pos', ends')
      /\ TypesFor(finder', selected', tag', upgrade', key')
      /\ PlacedFor(request', at', pos', finder', selected', tag', upgrade', key')
      /\ at' \in Places /\ at' # "answered"
  <2>1. CASE \E k \in 1..Count(request) :
               InName(request, k, pos, finder) /\ Seen(request, k - 1, upgrade, key)
      BY <2>1, NameInLine
  <2>2. CASE InBlank(request, pos, finder) /\ Seen(request, Count(request), upgrade, key)
      BY <2>2, NameInBlank
  <2> QED BY <1>1, <2>1, <2>2 DEF IInv, PlacedFor
<1>3. AnswerFor(at', upgrade', accept')
    BY <1>1, <1>2, AnswerElsewhere DEF IInv
<1> QED BY <1>1, <1>2, <1>3 DEF IInv

\* Behind the colon the value begins, of the field that was selected.
LEMMA ColonHolds == IInv /\ Colon => IInv'
<1> SUFFICES ASSUME IInv, Colon
             PROVE  IInv'
    OBVIOUS
<1>1. /\ IsRequest(request) /\ PiecesFor(request, pos, ends)
      /\ TypesFor(finder, selected, tag, upgrade, key)
      /\ PlacedFor(request, at, pos, finder, selected, tag, upgrade, key)
    BY DEF IInv
<1>2. PICK e \in BOOLEAN : EatWhite("colon", e, ValueBegins)
    BY DEF Colon
<1>3. PICK i \in First(Blacks) : e = (Byte(i) = "LF") /\ Consume(IF e THEN i ELSE i - 1)
    BY <1>2 DEF EatWhite
<1>4. /\ at = "colon" /\ ends # {} /\ ValueBegins
    BY <1>2 DEF EatWhite, At
<1>5. /\ at' = CASE selected = 1 -> "tag" [] selected = 2 -> "key" [] OTHER -> "tail"
      /\ tag' = 0 /\ key' = IF selected = 2 THEN <<>> ELSE key
      /\ UNCHANGED <<request, finder, selected, upgrade, accept>>
    BY <1>4 DEF ValueBegins
<1>6. PICK k \in 1..Count(request) :
        InColon(request, k, pos, selected) /\ Seen(request, k - 1, upgrade, key)
    BY <1>1, <1>4 DEF PlacedFor
<1>7. PICK s, c, v, x \in Nat :
        LineIn(request, k, s, c, v, x) /\ Spelled(request, k, s, c, v, x)
    BY <1>1, LineByPosition
<1>8. c = ColonOf(request, k) /\ v = ValueOf(request, k) /\ x = ReturnOf(request, k) /\ v < x
    BY <1>7 DEF LineIn
<1>9. /\ pos \in c..v
      /\ selected = 1 <=> NameOf(request, k) = Fields[1]
      /\ selected = 2 <=> NameOf(request, k) = Fields[2]
  <2>1. 1 \in 1..2 /\ 2 \in 1..2
      OBVIOUS
  <2> QED BY <1>6, <1>8, <2>1 DEF InColon
<1>10. PICK b \in Nat : /\ b = v + 1 /\ BlackAt(request.text, pos, b)
                        /\ request.text[b] # "LF"
  <2>1. BlackAt(request.text, pos, v + 1) /\ request.text[v + 1] # "LF"
      BY <1>7, <1>9, BlackInColon
  <2> QED BY <2>1
<1>11. PiecesFor(request', pos', ends') /\ pos' = b - 1
    BY <1>1, <1>3, <1>4, <1>5, <1>10, ToBlack DEF BlackAt
<1>12. pos' = v
    BY <1>10, <1>11
<1>13. k \in Nat \ {0} /\ upgrade \in BOOLEAN
    BY <1>1 DEF TypesFor
<1>14. TypesFor(finder', selected', tag', upgrade', key')
  <2>1. Len(Websocket) \in Nat
      BY FieldsAssumption DEF Text
  <2>2. \A n \in Nat : 0 \in 0..n
      OBVIOUS
  <2>3. tag' \in 0..Len(Websocket)
      BY <1>5, <2>1, <2>2
  <2>4. <<>> \in Text /\ Len(<<>>) = 0
      BY DEF Text
  <2>5. KeyLen \in Nat
      BY SizesAssumption
  <2>6. Len(<<>>) <= KeyLen
      BY <2>4, <2>5
  <2>7. key' \in Text /\ Len(key') <= KeyLen
      BY <1>1, <1>5, <2>4, <2>6 DEF TypesFor
  <2> QED BY <1>1, <1>5, <2>3, <2>7 DEF TypesFor
<1>15. at' \in {"tag", "key", "tail"}
    BY <1>5
<1>16. PlacedFor(request', at', pos', finder', selected', tag', upgrade', key')
  <2>1. CASE selected = 1
    <3>1. at' = "tag" /\ key' = key
        BY <1>5, <2>1
    <3>2. InTag(request, k, v, 0)
      <4>1. Len(TellsOf(request, k)) >= 0 /\ \A j : j \notin 1..0
        <5>1. PICK n \in Nat : n = Len(TellsOf(request, k))
            BY <1>1, LineLaidOut
        <5> QED BY <5>1
      <4>2. v = ValueOf(request, k) + 0
          BY <1>8
      <4> QED BY <1>9, <2>1, <4>1, <4>2 DEF InTag
    <3> QED BY <1>5, <1>6, <1>12, <3>1, <3>2 DEF PlacedFor
  <2>2. CASE selected = 2
    <3>1. at' = "key" /\ key' = <<>>
        BY <1>5, <2>2
    <3>2. NameOf(request, k) = Fields[2] /\ NameOf(request, k) # Fields[1]
        BY <1>9, <2>2
    <3>3. InKey(request, k, v, <<>>)
      <4>1. KeyLen \in Nat \ {0}
        <5>1. Len(TellsOf(request, k)) \in Nat \ {0}
            BY <1>1, LineLaidOut
        <5>2. Len(TellsOf(request, k)) = KeyLen
            BY <1>1, <3>2, LineSpelled
        <5> QED BY <5>1, <5>2
      <4>2. Len(<<>>) = 0 /\ \A j : j \notin 1..0
          OBVIOUS
      <4>3. Len(<<>>) < KeyLen /\ v = ValueOf(request, k) + Len(<<>>)
          BY <1>8, <4>1, <4>2
      <4>4. \A j \in 1..Len(<<>>) : <<>>[j] = TellsOf(request, k)[j]
          BY <4>2
      <4> QED BY <3>2, <4>3, <4>4 DEF InKey
    <3>4. Upgraded(request, k, upgrade)
      <4>1. Upgraded(request, k - 1, upgrade)
          BY <1>6 DEF Seen
      <4> QED BY <1>13, <3>2, <4>1, UpgradedNext
    <3> QED BY <1>5, <1>12, <3>1, <3>3, <3>4 DEF PlacedFor
  <2>3. CASE selected # 1 /\ selected # 2
    <3>1. at' = "tail" /\ key' = key
        BY <1>5, <2>3
    <3>2. Seen(request, k, upgrade, key)
        BY <1>6, <1>9, <1>13, <2>3, SeenNext
    <3>3. v \in v..x + 1
        BY <1>8
    <3>4. InTail(request, k, v)
        BY <1>8, <3>3 DEF InTail
    <3> QED BY <1>5, <1>12, <3>1, <3>2, <3>4 DEF PlacedFor
  <2> QED BY <2>1, <2>2, <2>3
<1>17. AnswerFor(at', upgrade', accept')
    BY <1>5, <1>15, AnswerElsewhere DEF IInv
<1> QED BY <1>1, <1>5, <1>11, <1>14, <1>15, <1>16, <1>17 DEF IInv, Places

\* How far the value is the tag.
LEMMA TagAgrees ==
    ASSUME IInv, ends # {}, NEW k \in 1..Count(request), InTag(request, k, pos, tag),
           NEW s \in Nat, NEW c \in Nat, NEW v \in Nat, NEW x \in Nat,
           LineIn(request, k, s, c, v, x), Spelled(request, k, s, c, v, x)
    PROVE  /\ Agreeing \in 0..Size /\ tag \in Nat /\ pos = v + tag
           /\ tag + Agreeing <= Len(Websocket) /\ v + tag + Agreeing <= x
           /\ \A j \in 1..tag + Agreeing : TellsOf(request, k)[j] = Websocket[j]
           /\ Agreeing < Size /\ TellsOf(request, k) = Websocket
                => tag + Agreeing = Len(Websocket)
<1>1. IsRequest(request) /\ PiecesFor(request, pos, ends) /\ tag \in 0..Len(Websocket)
    BY DEF IInv, TypesFor
<1>2. PICK T \in Text : T = request.text
    BY <1>1, RequestIs
<1>3. PICK value \in Text : value = TellsOf(request, k)
    BY <1>1, LineLaidOut
<1>4. PICK W \in Text : W = Websocket /\ \A j \in 1..Len(W) : W[j] # "CR"
    BY FieldsAssumption
<1>5. PICK l \in Nat : l = Len(W)
    BY DEF Text
<1>6. PICK t \in 0..l : t = tag
    BY <1>1, <1>4, <1>5
<1>7. PICK m \in Nat : m = Len(value) /\ m <= x - v /\ m >= x - v /\ v < x
  <2>1. Len(value) = x - v /\ v < x
      BY <1>3 DEF LineIn
  <2>2. PICK m \in Nat : m = x - v
      BY <2>1
  <2> QED BY <2>1, <2>2
<1>8. PICK p \in Nat : p = pos /\ p <= v + t /\ p >= v + t /\ t <= m
  <2>1. pos = v + t /\ t <= m
      BY <1>3, <1>6, <1>7 DEF InTag, LineIn
  <2> QED BY <2>1
<1>9. PICK z \in Nat \ {0} : z = Size
    BY <1>1, PieceIs
<1>10. PICK S : S = {i \in 0..z : t + i <= l /\ \A j \in 1..i : T[p + j] = W[t + j]}
    OBVIOUS
<1>11. S \in SUBSET (0..z) /\ 0 \in S
  <2>1. 0 \in 0..z /\ t + 0 <= l /\ \A j : j \notin 1..0
      OBVIOUS
  <2> QED BY <1>10, <2>1
<1>12. PICK i : i = Max(S)
    OBVIOUS
<1>13. i \in S /\ \A n \in S : i >= n
    BY <1>11, <1>12, MaxIs
<1>14. Agreeing = i
    BY <1>2, <1>4, <1>5, <1>6, <1>8, <1>9, <1>10, <1>12 DEF Agreeing, Byte
<1>15. i \in 0..z /\ t + i <= l /\ \A j \in 1..i : T[p + j] = W[t + j]
    BY <1>10, <1>13
<1>16. T[x + 1] = "CR" /\ \A n \in v + 1..x : T[n] = value[n - v]
    BY <1>2, <1>3 DEF Spelled
<1>17. t + i <= m
  <2> SUFFICES ASSUME ~(t + i <= m)
               PROVE  FALSE
      OBVIOUS
  <2>1. PICK j \in 1..i : j = m + 1 - t
      BY <1>8, <1>15
  <2>2. p + j = x + 1 /\ t + j \in 1..l
    <3>1. i \in Nat /\ j \in Nat \ {0} /\ t + j = m + 1
        BY <1>15, <2>1
    <3>2. p + j = x + 1
        BY <1>7, <1>8, <3>1
    <3>3. t + j \in 1..l
        BY <1>15, <3>1
    <3> QED BY <3>2, <3>3
  <2>3. W[t + j] = "CR"
      BY <1>15, <1>16, <2>2
  <2> QED BY <1>4, <1>5, <2>2, <2>3
<1>18. ASSUME NEW j \in 1..t + i
       PROVE  value[j] = W[j]
  <2>1. CASE j <= t
    <3>1. j \in 1..tag
        BY <1>6, <2>1
    <3> QED BY <1>3, <1>4, <3>1 DEF InTag
  <2>2. CASE j > t
    <3>1. PICK n \in 1..i : n = j - t
        BY <1>15, <2>2
    <3>2. t + n = j /\ p + n = v + j /\ v + j \in v + 1..x /\ (v + j) - v = j
      <4>1. n \in Nat /\ j \in Nat \ {0} /\ t + n = j
          BY <1>6, <1>15, <2>2, <3>1
      <4>2. p + n = v + j
          BY <1>8, <4>1
      <4>3. j <= m /\ v + j <= x
          BY <1>7, <1>15, <1>17, <4>1
      <4> QED BY <4>1, <4>2, <4>3
    <3>3. T[v + j] = value[j]
        BY <1>16, <3>2
    <3> QED BY <1>15, <3>2, <3>3
  <2> QED BY <2>1, <2>2
<1>19. ASSUME i < z, value = W
       PROVE  t + i = l
  <2> SUFFICES ASSUME t + i # l
               PROVE  FALSE
      OBVIOUS
  <2>1. m = l
      BY <1>5, <1>7, <1>19
  <2>2. PICK n \in 0..z : n = i + 1
      BY <1>15, <1>19
  <2>3. t + n <= l
      BY <1>15, <2>2
  <2>4. ASSUME NEW j \in 1..n
        PROVE  T[p + j] = W[t + j]
    <3>1. CASE j \in 1..i
        BY <1>15, <3>1
    <3>2. CASE j = n
      <4>1. p + j \in v + 1..x /\ (p + j) - v = t + j
          BY <1>7, <1>8, <2>1, <2>3, <3>2
      <4> QED BY <1>16, <1>19, <4>1
    <3> QED BY <1>15, <2>2, <3>1, <3>2
  <2>5. n \in S
      BY <1>10, <2>3, <2>4
  <2>6. i >= n
      BY <1>13, <2>5
  <2> QED BY <1>15, <2>2, <2>6
<1>20. pos = v + tag /\ v + tag + i <= x
    BY <1>6, <1>7, <1>8, <1>15, <1>17
<1>21. \A j \in 1..tag + i : TellsOf(request, k)[j] = Websocket[j]
    BY <1>3, <1>4, <1>6, <1>18
<1>22. i < Size /\ TellsOf(request, k) = Websocket => tag + i = Len(Websocket)
    BY <1>3, <1>4, <1>5, <1>6, <1>9, <1>19
<1>23. tag + i <= Len(Websocket) /\ i \in 0..Size /\ tag \in Nat
    BY <1>4, <1>5, <1>6, <1>9, <1>15
<1> QED BY <1>14, <1>20, <1>21, <1>22, <1>23

\* ws_confirm_tag says of the value whether it is the tag.
LEMMA ConfirmTagHolds == IInv /\ ConfirmTag => IInv'
<1> SUFFICES ASSUME IInv, ConfirmTag
             PROVE  IInv'
    OBVIOUS
<1>1. /\ IsRequest(request) /\ PiecesFor(request, pos, ends)
      /\ TypesFor(finder, selected, tag, upgrade, key)
      /\ PlacedFor(request, at, pos, finder, selected, tag, upgrade, key)
    BY DEF IInv
<1>2. /\ at = "tag" /\ ends # {} /\ UNCHANGED <<request, finder, selected, key, accept>>
    BY DEF ConfirmTag, At
<1>3. PICK k \in 1..Count(request) :
        InTag(request, k, pos, tag) /\ Seen(request, k - 1, upgrade, key)
    BY <1>1, <1>2 DEF PlacedFor
<1>4. PICK s, c, v, x \in Nat :
        LineIn(request, k, s, c, v, x) /\ Spelled(request, k, s, c, v, x)
    BY <1>1, LineByPosition
<1>5. PICK z \in Nat \ {0} : z = Size /\ pos + z <= Len(request.text)
    BY <1>1, <1>2, PieceIs
<1>6. PICK l \in Nat : l = Len(Websocket)
    BY FieldsAssumption DEF Text
<1>7. PICK i \in 0..z :
        /\ i = Agreeing /\ tag \in Nat /\ pos = v + tag
        /\ tag + i <= l /\ v + tag + i <= x
        /\ \A j \in 1..tag + i : TellsOf(request, k)[j] = Websocket[j]
        /\ i < z /\ TellsOf(request, k) = Websocket => tag + i = l
    BY <1>2, <1>3, <1>4, <1>5, <1>6, TagAgrees
<1>8. PICK L \in Nat : L = Len(request.text)
    BY <1>1, RequestIs DEF Text
<1>9. v = ValueOf(request, k) /\ x = ReturnOf(request, k)
      /\ Len(TellsOf(request, k)) = x - v /\ v < x
    BY <1>4 DEF LineIn
<1>10. request.text[x + 1] = "CR" /\ \A n \in v + 1..x : request.text[n] # "CR"
    BY <1>4 DEF Spelled
<1>11. k \in Nat \ {0} /\ upgrade \in BOOLEAN /\ NameOf(request, k) = Fields[1]
       /\ NameOf(request, k) # Fields[2]
    BY <1>1, <1>3, FieldsDiffer DEF TypesFor, InTag
<1>12. pos + i \in Nat /\ pos + i <= L
    BY <1>5, <1>7, <1>8
<1>13. /\ PiecesFor(request', pos', ends')
       /\ TypesFor(finder', selected', tag', upgrade', key')
       /\ PlacedFor(request', at', pos', finder', selected', tag', upgrade', key')
       /\ at' \in {"tag", "tail", "rest"}
  <2>1. CASE /\ i = z /\ Consume(i) /\ tag' = tag + z /\ UNCHANGED <<at, upgrade>>
    <3>1. pos' = pos + i /\ PiecesFor(request', pos', ends')
        BY <1>1, <1>2, <1>8, <1>12, <2>1, Consumed
    <3>2. tag' = tag + i /\ tag' \in 0..Len(Websocket)
        BY <1>6, <1>7, <2>1
    <3>3. InTag(request, k, pos', tag')
      <4>1. tag' <= Len(TellsOf(request, k))
          BY <1>7, <1>9, <3>2
      <4>2. pos' = ValueOf(request, k) + tag'
          BY <1>7, <1>9, <3>1, <3>2
      <4>3. \A j \in 1..tag' : TellsOf(request, k)[j] = Websocket[j]
          BY <1>7, <3>2
      <4> QED BY <1>11, <4>1, <4>2, <4>3 DEF InTag
    <3>4. TypesFor(finder', selected', tag', upgrade', key')
        BY <1>1, <1>2, <2>1, <3>2 DEF TypesFor
    <3>5. PlacedFor(request', at', pos', finder', selected', tag', upgrade', key')
        BY <1>2, <1>3, <2>1, <3>3 DEF PlacedFor
    <3> QED BY <1>2, <2>1, <3>1, <3>4, <3>5
  <2>2. CASE /\ i < z /\ tag + i = l /\ Byte(i + 1) = "CR" /\ Consume(i)
             /\ upgrade' = TRUE /\ at' = "tail" /\ UNCHANGED tag
    <3>1. pos' = pos + i /\ PiecesFor(request', pos', ends')
        BY <1>1, <1>2, <1>8, <1>12, <2>2, Consumed
    <3>2. pos + i = x
      <4>1. pos + i <= x /\ pos + i >= v /\ pos + (i + 1) = pos + i + 1
          BY <1>7
      <4>2. ~(pos + i + 1 \in v + 1..x)
          BY <1>10, <2>2, <4>1 DEF Byte
      <4> QED BY <1>12, <4>1, <4>2
    <3>3. TellsOf(request, k) = Websocket
      <4>1. PICK m \in Nat : m = tag + i /\ m = l /\ m = x - v
          BY <1>6, <1>7, <2>2, <3>2
      <4>2. Len(TellsOf(request, k)) = m /\ Len(Websocket) = m
          BY <1>6, <1>9, <4>1
      <4>3. \A j \in 1..m : TellsOf(request, k)[j] = Websocket[j]
          BY <1>7, <4>1
      <4>4. PICK value \in Text : value = TellsOf(request, k)
          BY <1>1, LineLaidOut
      <4>5. PICK W \in Text : W = Websocket
          BY FieldsAssumption
      <4>6. value \in Seq(Chars) /\ W \in Seq(Chars)
          BY DEF Text
      <4>7. Len(value) = Len(W) /\ \A j \in 1..Len(value) : value[j] = W[j]
          BY <4>2, <4>3, <4>4, <4>5
      <4> QED BY <4>4, <4>5, <4>6, <4>7, SeqEqual
    <3>4. Seen(request, k, TRUE, key)
      <4>1. Upgraded(request, k - 1, upgrade) /\ KeyKnown(request, k - 1, key)
          BY <1>3 DEF Seen
      <4>2. Upgraded(request, k, TRUE)
        <5>1. PICK w \in BOOLEAN : w = TRUE
            OBVIOUS
        <5>2. w <=> upgrade \/ (NameOf(request, k) = Fields[1]
                               /\ TellsOf(request, k) = Websocket)
            BY <1>11, <3>3, <5>1
        <5>3. Upgraded(request, k, w)
            BY <1>11, <4>1, <5>2, UpgradedNext
        <5> QED BY <5>1, <5>3
      <4>3. KeyKnown(request, k, key)
          BY <1>11, <4>1, KeyKnownNext
      <4> QED BY <4>2, <4>3 DEF Seen
    <3>5. x \in v..x + 1
        BY <1>9
    <3>6. InTail(request, k, pos')
        BY <1>9, <3>1, <3>2, <3>5 DEF InTail
    <3>7. PlacedFor(request', at', pos', finder', selected', tag', upgrade', key')
        BY <1>2, <2>2, <3>4, <3>6 DEF PlacedFor
    <3>8. TypesFor(finder', selected', tag', upgrade', key')
        BY <1>1, <1>2, <2>2 DEF TypesFor
    <3> QED BY <2>2, <3>1, <3>7, <3>8
  <2>3. CASE /\ i < z /\ ~(tag + i = l /\ Byte(i + 1) = "CR")
             /\ Consume(IF tag + i = l THEN i + 1 ELSE i)
             /\ at' = "rest" /\ UNCHANGED <<tag, upgrade>>
    <3>1. PICK n \in Nat : /\ n = IF tag + i = l THEN i + 1 ELSE i
                           /\ Consume(n) /\ n >= i /\ n <= z
        BY <2>3
    <3>2. pos + n <= L
        BY <1>5, <1>7, <1>8, <3>1
    <3>3. pos' = pos + n /\ PiecesFor(request', pos', ends')
        BY <1>1, <1>2, <1>8, <3>1, <3>2, Consumed
    <3>4. ~(tag + i = l /\ pos + i = x)
      <4> SUFFICES ASSUME tag + i = l, pos + i = x
                   PROVE  FALSE
          OBVIOUS
      <4>1. pos + (i + 1) = x + 1
          BY <1>7
      <4>2. Byte(i + 1) = "CR"
          BY <1>10, <4>1 DEF Byte
      <4> QED BY <2>3, <4>2
    <3>5. pos' \in v..x
        BY <1>7, <3>1, <3>3, <3>4
    <3>6. TellsOf(request, k) # Websocket
      <4> SUFFICES ASSUME TellsOf(request, k) = Websocket
                   PROVE  FALSE
          OBVIOUS
      <4>1. tag + i = l /\ l = x - v
          BY <1>6, <1>7, <1>9, <2>3
      <4> QED BY <1>7, <3>4, <4>1
    <3>7. Seen(request, k, upgrade, key)
        BY <1>3, <1>11, <3>6, SeenNext
    <3>8. InRest(request, k, pos')
        BY <1>9, <3>5 DEF InRest
    <3>9. PlacedFor(request', at', pos', finder', selected', tag', upgrade', key')
        BY <1>2, <2>3, <3>7, <3>8 DEF PlacedFor
    <3>10. TypesFor(finder', selected', tag', upgrade', key')
        BY <1>1, <1>2, <2>3 DEF TypesFor
    <3> QED BY <2>3, <3>3, <3>9, <3>10
  <2> QED BY <1>5, <1>6, <1>7, <2>1, <2>2, <2>3 DEF ConfirmTag, TagMoved
<1>14. AnswerFor(at', upgrade', accept')
    BY <1>2, <1>13, AnswerElsewhere DEF IInv
<1> QED BY <1>1, <1>2, <1>13, <1>14 DEF IInv, Places

\* What ws_t_read takes in one go.
LEMMA KeyTaken ==
    ASSUME IInv, ReadKey, NEW k \in 1..Count(request), InKey(request, k, pos, key),
           NEW s \in Nat, NEW c \in Nat, NEW v \in Nat, NEW x \in Nat,
           LineIn(request, k, s, c, v, x), Spelled(request, k, s, c, v, x)
    PROVE  /\ PiecesFor(request', pos', ends')
           /\ key' \in Text /\ Len(key') <= KeyLen /\ pos' = v + Len(key')
           /\ \A j \in 1..Len(key') : key'[j] = TellsOf(request, k)[j]
           /\ Len(TellsOf(request, k)) = KeyLen /\ x = v + KeyLen
<1>1. IsRequest(request) /\ PiecesFor(request, pos, ends) /\ key \in Text /\ ends # {}
    BY DEF IInv, TypesFor, ReadKey, At
<1>2. PICK T \in Text : T = request.text
    BY <1>1, RequestIs
<1>3. PICK value \in Text : value = TellsOf(request, k)
    BY <1>1, LineLaidOut
<1>4. NameOf(request, k) = Fields[2] /\ v = ValueOf(request, k) /\ Len(value) = x - v /\ v < x
    BY <1>3 DEF InKey, LineIn
<1>5. PICK m \in Nat \ {0} : m = KeyLen /\ m = Len(value) /\ x = v + m
  <2>1. Len(value) = KeyLen
      BY <1>1, <1>3, <1>4, LineSpelled
  <2>2. PICK m \in Nat \ {0} : m = x - v
      BY <1>4
  <2> QED BY <1>4, <2>1, <2>2
<1>6. PICK y \in Text : y = key
    BY <1>1
<1>7. PICK q \in Nat : q = Len(y)
    BY DEF Text
<1>8. PICK p \in Nat : p = pos /\ p = v + q
    BY <1>4, <1>6, <1>7 DEF InKey
<1>9. q < m /\ \A j \in 1..q : y[j] = value[j]
    BY <1>3, <1>5, <1>6, <1>7 DEF InKey
<1>10. PICK A \in Nat : A = Arrived /\ A > p /\ A <= Len(T)
    BY <1>1, <1>2, <1>8, ArrivedIs
<1>11. PICK n : /\ n = Min({StillWanted, Arrived - pos})
                /\ Consume(n) /\ key' = key \o SubSeq(request.text, pos + 1, pos + n)
    BY DEF ReadKey
<1>12. n \in Nat /\ p + n <= Len(T) /\ q + n <= m
  <2>1. PICK a \in Nat : a = m - q
      BY <1>9
  <2>2. PICK b \in Nat : b = A - p
      BY <1>10
  <2>3. n = Min({a, b})
      BY <1>5, <1>6, <1>7, <1>8, <1>10, <1>11, <2>1, <2>2 DEF StillWanted
  <2>4. {a, b} \in SUBSET Nat /\ {a, b} # {}
      OBVIOUS
  <2>5. n \in {a, b} /\ \A d \in {a, b} : n <= d
      BY <2>3, <2>4, MinIs
  <2>6. n \in Nat /\ n <= a /\ n <= b
      BY <2>5
  <2>7. Len(T) \in Nat
      BY DEF Text
  <2> QED BY <1>10, <2>1, <2>2, <2>6, <2>7
<1>13. PICK w \in Text : /\ w = SubSeq(T, p + 1, p + n) /\ Len(w) = n
                         /\ \A j \in 1..n : w[j] = T[p + j]
  <2>1. /\ SubSeq(T, p + 1, p + n) \in Text /\ Len(SubSeq(T, p + 1, p + n)) = n
        /\ \A j \in 1..n : SubSeq(T, p + 1, p + n)[j] = T[p + j]
    <3>1. n \in Nat /\ p + n <= Len(T)
        BY <1>12
    <3>2. \A t \in Text, i, l \in Nat :
             i + l <= Len(t) =>
               /\ SubSeq(t, i + 1, i + l) \in Text /\ Len(SubSeq(t, i + 1, i + l)) = l
               /\ \A j \in 1..l : SubSeq(t, i + 1, i + l)[j] = t[i + j]
        BY ONLY Taken, ZenonT(60)
    <3> QED BY ONLY <3>1, <3>2, ZenonT(60)
  <2> QED BY <2>1
<1>14. PICK z : z = Cat(y, w)
    OBVIOUS
<1>15. key' = z
    BY <1>2, <1>6, <1>8, <1>11, <1>13, <1>14 DEF Cat
<1>16. /\ z \in Text /\ Len(z) = q + n
       /\ \A j \in 1..q : z[j] = y[j]
       /\ \A i \in 1..n : z[q + i] = w[i]
  <2>1. /\ Cat(y, w) \in Text /\ Len(Cat(y, w)) = Len(y) + Len(w)
        /\ \A i \in 1..Len(y) : Cat(y, w)[i] = y[i]
        /\ \A i \in 1..Len(w) : Cat(y, w)[Len(y) + i] = w[i]
      BY CatIs
  <2> QED BY <1>7, <1>13, <1>14, <2>1
<1>17. \A i \in v + 1..x : T[i] = value[i - v]
    BY <1>2, <1>3 DEF Spelled
<1>18. ASSUME NEW j \in 1..q + n
       PROVE  z[j] = value[j]
  <2>1. CASE j \in 1..q
      BY <1>9, <1>16, <2>1
  <2>2. CASE j \notin 1..q
    <3>1. PICK i \in 1..n : j = q + i
      <4>1. j - q \in 1..n /\ j = q + (j - q)
          BY <1>12, <2>2
      <4> QED BY <4>1
    <3>2. i \in Nat \ {0} /\ j \in Nat \ {0} /\ j <= m
        BY <1>12, <3>1
    <3>3. PICK e \in Nat : e = p + i /\ e = v + j
        BY <1>8, <3>1, <3>2
    <3>4. e \in v + 1..x /\ e - v = j
        BY <1>5, <3>2, <3>3
    <3>5. z[j] = w[i]
        BY <1>16, <3>1
    <3>6. w[i] = T[e]
        BY <1>13, <3>3
    <3>7. T[e] = value[j]
        BY <1>17, <3>4
    <3> QED BY <3>5, <3>6, <3>7
  <2> QED BY <2>1, <2>2
<1>19. pos' = p + n /\ PiecesFor(request', pos', ends')
  <2>1. request' = request
      BY DEF ReadKey
  <2>2. pos + n <= Len(request.text)
      BY <1>2, <1>8, <1>12
  <2>3. pos' = pos + n /\ PiecesFor(request', pos', ends')
      BY <1>1, <1>11, <1>12, <2>1, <2>2, Consumed
  <2> QED BY <1>8, <2>3
<1>20. pos' = v + (q + n)
    BY <1>8, <1>12, <1>19
<1> QED BY <1>3, <1>5, <1>12, <1>15, <1>16, <1>18, <1>19, <1>20

\* wsKey fills with the value of the key field and no more.
LEMMA ReadKeyHolds == IInv /\ ReadKey => IInv'
<1> SUFFICES ASSUME IInv, ReadKey
             PROVE  IInv'
    OBVIOUS
<1>1. /\ IsRequest(request) /\ PiecesFor(request, pos, ends)
      /\ TypesFor(finder, selected, tag, upgrade, key)
      /\ PlacedFor(request, at, pos, finder, selected, tag, upgrade, key)
    BY DEF IInv
<1>2. /\ at = "key" /\ at' = IF Len(key') >= KeyLen THEN "tail" ELSE "key"
      /\ UNCHANGED <<request, finder, selected, tag, upgrade, accept>>
    BY DEF ReadKey, At
<1>3. PICK k \in 1..Count(request) :
        InKey(request, k, pos, key) /\ Upgraded(request, k, upgrade)
    BY <1>1, <1>2 DEF PlacedFor
<1>4. PICK s, c, v, x \in Nat :
        LineIn(request, k, s, c, v, x) /\ Spelled(request, k, s, c, v, x)
    BY <1>1, LineByPosition
<1>5. /\ PiecesFor(request', pos', ends')
      /\ key' \in Text /\ Len(key') <= KeyLen /\ pos' = v + Len(key')
      /\ \A j \in 1..Len(key') : key'[j] = TellsOf(request, k)[j]
      /\ Len(TellsOf(request, k)) = KeyLen /\ x = v + KeyLen
    BY <1>3, <1>4, KeyTaken
<1>6. v = ValueOf(request, k) /\ x = ReturnOf(request, k)
    BY <1>4 DEF LineIn
<1>7. PICK n \in Nat : n = Len(key')
    BY <1>5 DEF Text
<1>8. KeyLen \in Nat
    BY SizesAssumption
<1>9. k \in Nat \ {0} /\ NameOf(request, k) = Fields[2]
    BY <1>3 DEF InKey
<1>10. TypesFor(finder', selected', tag', upgrade', key')
    BY <1>1, <1>2, <1>5 DEF TypesFor
<1>11. PlacedFor(request', at', pos', finder', selected', tag', upgrade', key')
  <2>1. CASE n >= KeyLen
    <3>1. at' = "tail" /\ n = KeyLen
        BY <1>2, <1>5, <1>7, <1>8, <2>1
    <3>2. key' = TellsOf(request, k)
      <4>1. PICK y \in Text : y = key'
          BY <1>5
      <4>2. PICK value \in Text : value = TellsOf(request, k)
          BY <1>1, LineLaidOut
      <4>3. y \in Seq(Chars) /\ value \in Seq(Chars)
          BY DEF Text
      <4>4. Len(y) = Len(value) /\ \A j \in 1..Len(y) : y[j] = value[j]
          BY <1>5, <1>7, <3>1, <4>1, <4>2
      <4> QED BY <4>1, <4>2, <4>3, <4>4, SeqEqual
    <3>3. Seen(request, k, upgrade, key')
      <4>1. KeyKnown(request, k, key')
          BY <1>9, <3>2, KeyKnownNext
      <4> QED BY <1>3, <4>1 DEF Seen
    <3>4. pos' = x /\ x \in v..x + 1
        BY <1>5, <1>7, <1>8, <3>1
    <3>5. InTail(request, k, pos')
        BY <1>6, <3>4 DEF InTail
    <3> QED BY <1>2, <3>1, <3>3, <3>5 DEF PlacedFor
  <2>2. CASE ~(n >= KeyLen)
    <3>1. at' = "key" /\ Len(key') < KeyLen
        BY <1>2, <1>7, <1>8, <2>2
    <3>2. InKey(request, k, pos', key')
        BY <1>5, <1>6, <1>9, <3>1 DEF InKey
    <3> QED BY <1>2, <1>3, <3>1, <3>2 DEF PlacedFor
  <2> QED BY <2>1, <2>2
<1>12. at' \in Places /\ at' # "answered"
    BY <1>2 DEF Places
<1>13. AnswerFor(at', upgrade', accept')
    BY <1>2, <1>12, AnswerElsewhere DEF IInv
<1> QED BY <1>1, <1>2, <1>5, <1>10, <1>11, <1>12, <1>13 DEF IInv

\* A base64 text is bytes.
LEMMA SextetType ==
    ASSUME NEW h \in Seq(Bytes), NEW n \in Nat
    PROVE  Sextet(h, n) \in 0..63
<1>1. PICK g \in Nat, i \in 0..3 : n = 4 * g + i
  <2>1. \A d \in Nat : d \div 4 \in Nat /\ d % 4 \in 0..3 /\ d = 4 * (d \div 4) + (d % 4)
      BY ONLY TRUE
  <2> QED BY <2>1, Zenon
<1>2. PICK a \in Bytes : a = ByteAt(h, 3 * g + 1)
    BY ByteAtIs
<1>3. PICK b \in Bytes : b = ByteAt(h, 3 * g + 2)
    BY ByteAtIs
<1>4. PICK c \in Bytes : c = ByteAt(h, 3 * g + 3)
    BY ByteAtIs
<1>5. /\ Sextet(h, 4 * g) = a \div 4
      /\ Sextet(h, 4 * g + 1) = (a * 16 + b \div 16) % 64
      /\ Sextet(h, 4 * g + 2) = (b * 4 + c \div 64) % 64
      /\ Sextet(h, 4 * g + 3) = c % 64
    BY <1>2, <1>3, <1>4, Sextets
<1>6. \A d \in 0..255 : d \div 4 \in 0..63 /\ d \div 16 \in Int /\ d \div 64 \in Int
    BY ONLY TRUE
<1>7. \A d \in Int : d % 64 \in 0..63
    BY ONLY TRUE
<1>8. /\ a \div 4 \in 0..63 /\ a * 16 + b \div 16 \in Int
      /\ b * 4 + c \div 64 \in Int /\ c \in Int
    BY <1>6 DEF Bytes
<1>9. i = 0 \/ i = 1 \/ i = 2 \/ i = 3
    OBVIOUS
<1>10. 4 * g + 0 = 4 * g
    OBVIOUS
<1>11. CASE i = 0
    BY <1>1, <1>5, <1>8, <1>10, <1>11, Zenon
<1>12. CASE i = 1
    BY <1>1, <1>5, <1>7, <1>8, <1>12, Zenon
<1>13. CASE i = 2
    BY <1>1, <1>5, <1>7, <1>8, <1>13, Zenon
<1>14. CASE i = 3
    BY <1>1, <1>5, <1>7, <1>8, <1>14, Zenon
<1> QED BY <1>9, <1>11, <1>12, <1>13, <1>14

\* So is the whole text.
LEMMA Base64Type ==
    ASSUME NEW h \in Seq(Bytes)
    PROVE  Base64(h) \in Seq(Bytes)
<1>1. PICK m \in Nat : m = Len(h)
    OBVIOUS
<1>2. PICK L \in Nat : L = 4 * ((m + 2) \div 3)
    OBVIOUS
<1>3. Base64(h) = [j \in 1..L |-> IF 6 * (j - 1) >= 8 * m THEN 61
                                  ELSE Alphabet[Sextet(h, j - 1)]]
    BY <1>1, <1>2 DEF Base64
<1>4. \A s \in 0..63 : Alphabet[s] \in Bytes
  <2> TAKE s \in 0..63
  <2>1. Alphabet[s] = IF s < 26 THEN 65 + s ELSE IF s < 52 THEN 71 + s
                      ELSE IF s < 62 THEN s - 4 ELSE 4 * s - 205
      BY DEF Alphabet
  <2>2. CASE s < 52
      BY <2>1, <2>2 DEF Bytes
  <2>3. CASE ~(s < 52)
      BY <2>1, <2>3 DEF Bytes
  <2> QED BY <2>2, <2>3
<1>5. ASSUME NEW j \in 1..L
      PROVE  (IF 6 * (j - 1) >= 8 * m THEN 61 ELSE Alphabet[Sextet(h, j - 1)]) \in Bytes
  <2>1. j - 1 \in Nat
      OBVIOUS
  <2>2. Sextet(h, j - 1) \in 0..63
      BY <2>1, SextetType
  <2>3. 61 \in Bytes
      BY DEF Bytes
  <2> QED BY <1>4, <2>2, <2>3
<1>6. Base64(h) \in [1..L -> Bytes]
    BY <1>3, <1>5
<1> QED BY <1>6

\* The answer's key is the base64 text of what SHA-1 made.
LEMMA AnswerHolds == IInv /\ Answer => IInv'
<1> SUFFICES ASSUME IInv, Answer
             PROVE  IInv'
    OBVIOUS
<1>1. /\ at = "done" /\ at' = "answered"
      /\ UNCHANGED <<request, pos, ends, finder, selected, tag, upgrade, key>>
    BY DEF Answer
<1>2. AnswerFor(at', upgrade', accept')
  <2>1. CASE upgrade
    <3>1. PICK h \in Hashes : accept' = encode_base64(h)
        BY <2>1 DEF Answer
    <3>2. h \in Seq(Bytes)
        BY HashesAssumption
    <3>3. accept' = Base64(h)
        BY <3>1, <3>2, EncodesBase64
    <3>4. accept' \in Seq(Bytes)
        BY <3>2, <3>3, Base64Type
    <3>5. accept' \in Base64Texts
        BY <3>3 DEF Base64Texts
    <3> QED BY <3>4, <3>5 DEF AnswerFor
  <2>2. CASE ~upgrade
    <3>1. accept' = accept
        BY <2>2 DEF Answer
    <3> QED BY <1>1, <2>2, <3>1 DEF IInv, AnswerFor
  <2> QED BY <2>1, <2>2
<1>3. PlacedFor(request', at', pos', finder', selected', tag', upgrade', key')
    BY <1>1 DEF IInv, PlacedFor
<1> QED BY <1>1, <1>2, <1>3 DEF IInv, Places

-----------------------------------------------------------------------------
(* The theorems *)

\* The invariant holds, whatever the requests, the pieces and the hashes.
THEOREM Invariant == Spec => []IInv
<1>1. Init => IInv
    BY InitHolds
<1>2. IInv /\ [Next]_vars => IInv'
  <2>1. IInv /\ Step => IInv'
      BY RequestLineHolds, EatAllWhiteHolds, RequestLineEndsHolds, NameHolds, HeaderDoneHolds,
         ColonHolds, ConfirmTagHolds, ReadKeyHolds, LineEndsHolds, ValueLeftHolds,
         RestOfLineHolds, AnswerHolds DEF Step
  <2>2. IInv /\ UNCHANGED vars => IInv'
      BY DEF vars, IInv
  <2> QED BY <2>1, <2>2, ArriveHolds DEF Next, Stopped
<1> QED BY <1>1, <1>2, PTL DEF Spec

\* The parser is never past what has arrived, and wsKey, the tag, the selector
\* and baseBuf keep their bounds, whatever comes in whatever pieces.
THEOREM HeaderTypeCorrect == Spec => []TypeOK
<1>1. IInv => TypeOK
  <2> SUFFICES ASSUME IInv
               PROVE  TypeOK
      OBVIOUS
  <2>1. /\ IsRequest(request) /\ PiecesFor(request, pos, ends) /\ at \in Places
        /\ TypesFor(finder, selected, tag, upgrade, key) /\ accept \in Seq(Bytes)
      BY DEF IInv, AnswerFor
  <2>2. request.lines \in Requests
      BY <2>1, RequestIs
  <2>3. PICK L \in Nat : L = Len(request.text)
      BY <2>1, RequestIs DEF Text
  <2>4. pos \in 0..L /\ ends \subseteq request.cuts /\ \A e \in ends : e > pos
      BY <2>1, <2>3 DEF PiecesFor
  <2>5. pos \in 0..Arrived
      BY <2>1, <2>4, ArrivedIs
  <2>6. ends \subseteq pos + 1..L
    <3>1. request.cuts \subseteq 1..L
        BY <2>1, <2>3, RequestIs
    <3> QED BY <2>4, <3>1
  <2>7. /\ finder.list_index \in 1..3
        /\ finder.list_index \in 1..2 =>
             finder.str_index \in 0..Len(Fields[finder.list_index])
    <3>1. finder.list_index \in 1..3 /\ finder.str_index \in Nat
        BY <2>1 DEF TypesFor, Finders
    <3>2. finder.list_index \in 1..2 =>
            /\ finder.str_index <= Len(Fields[finder.list_index])
            /\ Len(Fields[finder.list_index]) \in Nat
        BY <2>1, FieldLengths DEF TypesFor, FinderFits
    <3>3. \A a, b \in Nat : a <= b => a \in 0..b
        OBVIOUS
    <3> QED BY <3>1, <3>2, <3>3
  <2>8. selected \in 0..2 /\ tag \in 0..Len(Websocket) /\ upgrade \in BOOLEAN /\ Len(key) <= KeyLen
      BY <2>1 DEF TypesFor
  <2> QED BY <2>1, <2>2, <2>3, <2>5, <2>6, <2>7, <2>8 DEF TypeOK
<1> QED BY <1>1, Invariant, PTL

\* However a request is cut into pieces, do_ws_header makes of it what it says
\* as a whole, and takes no byte from behind its header.
THEOREM HeaderParsedAsSent == Spec => []ParsedAsSent
<1>1. IInv => ParsedAsSent
  <2> SUFFICES ASSUME IInv, at \in {"done", "answered"}
               PROVE  /\ upgrade <=> \E k \in Sent(1) : request.lines[k].value = Websocket
                      /\ Sent(2) # {} => key = request.lines[Max(Sent(2))].value
                      /\ pos = request.length
      BY DEF ParsedAsSent
  <2>1. pos = request.length /\ Seen(request, Count(request), upgrade, key)
      BY DEF IInv, PlacedFor
  <2>2. PICK K \in Nat : K = Count(request) /\ K = Len(request.lines)
      BY RequestIs DEF IInv, Count
  <2>3. upgrade <=> \E j \in 1..K : /\ request.lines[j].name = Fields[1]
                                    /\ request.lines[j].value = Websocket
      BY <2>1, <2>2 DEF Seen, Upgraded, NameOf, TellsOf
  <2>4. upgrade <=> \E k \in Sent(1) : request.lines[k].value = Websocket
      BY <2>2, <2>3 DEF Sent
  <2>5. ASSUME Sent(2) # {}
        PROVE  key = request.lines[Max(Sent(2))].value
    <3>1. PICK S : S = Sent(2)
        OBVIOUS
    <3>2. S = {k \in 1..K : request.lines[k].name = Fields[2]}
        BY <2>2, <3>1 DEF Sent
    <3>3. S \in SUBSET (0..K) /\ S # {}
        BY <2>5, <3>1, <3>2
    <3>4. PICK j : j = Max(S)
        OBVIOUS
    <3>5. j \in S /\ \A n \in S : j >= n
        BY <3>3, <3>4, MaxIs
    <3>6. j \in 1..K /\ NameOf(request, j) = Fields[2]
        BY <3>2, <3>5 DEF NameOf
    <3>7. \A m \in j + 1..K : NameOf(request, m) # Fields[2]
      <4> SUFFICES ASSUME NEW m \in j + 1..K, NameOf(request, m) = Fields[2]
                   PROVE  FALSE
          OBVIOUS
      <4>1. m \in 1..K /\ ~(j >= m)
          BY <3>6
      <4>2. m \in S
          BY <3>2, <4>1 DEF NameOf
      <4> QED BY <3>5, <4>1, <4>2
    <3>8. key = TellsOf(request, j)
        BY <2>1, <2>2, <3>6, <3>7 DEF Seen, KeyKnown
    <3> QED BY <3>1, <3>4, <3>8 DEF TellsOf
  <2> QED BY <2>1, <2>4, <2>5
<1> QED BY <1>1, Invariant, PTL

\* The answer to an upgrade carries the base64 text of a hash.
THEOREM AcceptKeyIsBase64 == Spec => []AcceptIsBase64
<1>1. IInv => AcceptIsBase64
    BY DEF IInv, AnswerFor, AcceptIsBase64
<1> QED BY <1>1, Invariant, PTL

\* The selector is never asked for a byte of a name behind its list, unless a
\* piece may end in a name that no field begins with.
THEOREM SelectorStaysInList == ~CutNames => (Spec => []SelectorInList)
<1> SUFFICES ASSUME ~CutNames
             PROVE  Spec => []SelectorInList
    OBVIOUS
<1>1. IInv => SelectorInList
    BY DEF IInv, PlacedFor, SelectorInList
<1> QED BY <1>1, Invariant, PTL
=============================================================================
