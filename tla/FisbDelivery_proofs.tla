--------------------------- MODULE FisbDelivery_proofs -------------------------
(***************************************************************************)
(* What a receiver reads from uplink payloads, for any APDUs, frames,      *)
(* application data and products: the frames that were packed, the APDUs   *)
(* that were wrapped, and nothing that would be packed as other bytes.     *)
(***************************************************************************)
EXTENDS FisbDelivery, SequenceFacts

----------------------------------------------------------------------------
(* Reading: the recursion of information_frames(), without its LET.        *)

LengthAt(bytes, o) == 2 * bytes[o + 1] + bytes[o + 2] \div 128

FrameAt(bytes, o) ==
    [reserved |-> (bytes[o + 2] \div 16) % 8,
     type |-> bytes[o + 2] % 16,
     data |-> SubSeq(bytes, o + 3, o + 2 + LengthAt(bytes, o))]

\* Nothing follows at an offset, or nothing that can be read.
NoFrame(bytes, o) == o + 2 > Len(bytes) \/ LengthAt(bytes, o) = 0
BadFrame(bytes, o) ==
    o + LengthAt(bytes, o) + 2 > Len(bytes) \/ ~ Acceptable(FrameAt(bytes, o))

Behind(bytes, o) == o + LengthAt(bytes, o) + 2

Reads(bytes, from) ==
    from = [o \in 0..Len(bytes) |->
              IF o + 2 > Len(bytes) \/ LengthAt(bytes, o) = 0 THEN << >>
              ELSE IF \/ o + LengthAt(bytes, o) + 2 > Len(bytes)
                      \/ ~ Acceptable(FrameAt(bytes, o))
                      \/ from[o + LengthAt(bytes, o) + 2] = Error
                THEN Error
                ELSE <<FrameAt(bytes, o)>> \o from[o + LengthAt(bytes, o) + 2]]

LEMMA ReadsFirst ==
    ASSUME NEW bytes, \E from : Reads(bytes, from)
    PROVE  \E from : Reads(bytes, from) /\ InformationFrames(bytes) = from[0]
  <1> DEFINE from == CHOOSE from : Reads(bytes, from)
  <1>1. Reads(bytes, from)
    OBVIOUS
  <1>2. InformationFrames(bytes) = from[0]
    BY DEF InformationFrames, Reads, LengthAt, FrameAt
  <1> QED
    BY <1>1, <1>2

\* A frame header that can be read, and its frame.
LEMMA HeaderRead ==
    ASSUME NEW bytes \in Seq(Bytes), NEW o \in 0..Len(bytes),
           ~ NoFrame(bytes, o), ~ BadFrame(bytes, o)
    PROVE  /\ bytes[o + 1] \in Bytes /\ bytes[o + 2] \in Bytes
           /\ LengthAt(bytes, o) \in 1..511
           /\ Behind(bytes, o) \in o + 1..Len(bytes)
           /\ FrameAt(bytes, o) \in AnyFrames
           /\ Acceptable(FrameAt(bytes, o))
           /\ Len(FrameAt(bytes, o).data) = LengthAt(bytes, o)
           /\ LiesAt(bytes, o + 2, FrameAt(bytes, o).data)
  <1> DEFINE N == Len(bytes)
             a == bytes[o + 1]
             b == bytes[o + 2]
             n == LengthAt(bytes, o)
             data == SubSeq(bytes, o + 3, o + 2 + n)
  <1>1. N \in Nat /\ o \in Nat /\ o + 2 <= N
    BY DEF NoFrame
  <1>2. a \in Bytes /\ b \in Bytes
    BY <1>1
  <1>3. n \in 1..511
    <2>1. n = 2 * a + b \div 128 /\ n # 0
      BY DEF NoFrame, LengthAt
    <2> HIDE DEF a, b, n
    <2> QED
      BY <1>2, <2>1 DEF Bytes
  <1>4. o + n + 2 <= N
    <2>1. ~ (o + n + 2 > N)
      BY DEF BadFrame
    <2> HIDE DEF n, N
    <2> QED
      BY <1>1, <1>3, <2>1
  <1>5. Acceptable(FrameAt(bytes, o))
    BY DEF BadFrame
  <1>6. /\ data \in Seq(Bytes) /\ Len(data) = n
        /\ LiesAt(bytes, o + 2, data)
    <2>1. o + 2 \in Nat /\ n \in Nat /\ (o + 2) + n <= N
      <3> HIDE DEF n, N
      <3> QED
        BY <1>1, <1>3, <1>4
    <2>2. (o + 2) + 1 = o + 3 /\ (o + 2) + n = o + 2 + n
      <3> HIDE DEF n, N
      <3> QED
        BY <1>1, <1>3
    <2> HIDE DEF n
    <2>3. /\ SubSeq(bytes, (o + 2) + 1, (o + 2) + n) \in Seq(Bytes)
          /\ Len(SubSeq(bytes, (o + 2) + 1, (o + 2) + n)) = n
          /\ LiesAt(bytes, o + 2, SubSeq(bytes, (o + 2) + 1, (o + 2) + n))
      BY <2>1, SubSeqLiesAt
    <2> QED
      BY <2>2, <2>3
  <1>7. FrameAt(bytes, o) = [reserved |-> (b \div 16) % 8, type |-> b % 16, data |-> data]
    BY DEF FrameAt
  <1> HIDE DEF data, n, a, b, N
  <1>8. FrameAt(bytes, o) \in AnyFrames
    <2>1. (b \div 16) % 8 \in Bytes /\ b % 16 \in 0..15
      BY <1>2 DEF Bytes
    <2> QED
      BY <1>6, <1>7, <2>1 DEF AnyFrames
  <1>9. Behind(bytes, o) \in o + 1..N
    <2>1. Behind(bytes, o) = o + n + 2
      BY DEF Behind, n
    <2> QED
      BY <1>1, <1>3, <1>4, <2>1
  <1>10. FrameAt(bytes, o).data = data
    BY <1>7
  <1> QED
    BY <1>2, <1>3, <1>5, <1>6, <1>8, <1>9, <1>10 DEF n, a, b, N

LEMMA ReadsStep ==
    ASSUME NEW bytes \in Seq(Bytes), NEW from, Reads(bytes, from), NEW o \in 0..Len(bytes)
    PROVE  /\ NoFrame(bytes, o) => from[o] = << >>
           /\ ~ NoFrame(bytes, o) /\ BadFrame(bytes, o) => from[o] = Error
           /\ ~ NoFrame(bytes, o) /\ ~ BadFrame(bytes, o) =>
                from[o] = IF from[Behind(bytes, o)] = Error THEN Error
                          ELSE <<FrameAt(bytes, o)>> \o from[Behind(bytes, o)]
  <1>1. from[o] =
          IF o + 2 > Len(bytes) \/ LengthAt(bytes, o) = 0 THEN << >>
          ELSE IF \/ o + LengthAt(bytes, o) + 2 > Len(bytes)
                  \/ ~ Acceptable(FrameAt(bytes, o))
                  \/ from[o + LengthAt(bytes, o) + 2] = Error
            THEN Error
            ELSE <<FrameAt(bytes, o)>> \o from[o + LengthAt(bytes, o) + 2]
    BY Zenon DEF Reads
  <1> QED
    BY <1>1, Zenon DEF NoFrame, BadFrame, Behind

Results == Seq(AnyFrames) \cup {Error}

LEMMA PrefixedFrames ==
    ASSUME NEW f \in AnyFrames, NEW rest \in Seq(AnyFrames)
    PROVE  <<f>> \o rest \in Seq(AnyFrames)
  <1>1. PICK F \in Seq(AnyFrames) : F = <<f>>
    <2>1. <<f>> \in Seq(AnyFrames)
      OBVIOUS
    <2> QED
      BY <2>1
  <1>2. F \o rest \in Seq(AnyFrames)
    BY ConcatProperties, Zenon
  <1> QED
    BY <1>1, <1>2, Zenon

LEMMA ReadsExists ==
    ASSUME NEW bytes \in Seq(Bytes)
    PROVE  \E from : Reads(bytes, from)
  <1> DEFINE N == Len(bytes)
             Done == { o \in 0..N : NoFrame(bytes, o) \/ BadFrame(bytes, o) }
             base == [o \in 0..N |-> IF NoFrame(bytes, o) THEN << >> ELSE Error]
             Jump == [o \in 0..N |-> Behind(bytes, o)]
             Step == [p \in (0..N) \X Results |->
                        IF p[2] = Error THEN Error ELSE <<FrameAt(bytes, p[1])>> \o p[2]]
  <1>1. N \in Nat
    OBVIOUS
  <1>2. << >> \in Results
    BY DEF Results
  <1>3. \A i \in 0..N : i \in Done => base[i] \in Results
    BY <1>2 DEF Results
  <1>4. ASSUME NEW i \in 0..N, i \notin Done
        PROVE  Jump[i] \in i + 1..N /\ \A x \in Results : Step[<<i, x>>] \in Results
    <2>1. ~ NoFrame(bytes, i) /\ ~ BadFrame(bytes, i)
      BY <1>4
    <2>2. Behind(bytes, i) \in i + 1..N /\ FrameAt(bytes, i) \in AnyFrames
      BY <2>1, HeaderRead
    <2>3. ASSUME NEW x \in Results PROVE Step[<<i, x>>] \in Results
      <3>1. Step[<<i, x>>] = IF x = Error THEN Error ELSE <<FrameAt(bytes, i)>> \o x
        <4> HIDE DEF N
        <4> QED
          OBVIOUS
      <3>2. CASE x = Error
        BY <3>1, <3>2 DEF Results
      <3>3. CASE x # Error
        <4>1. x \in Seq(AnyFrames)
          BY <3>3 DEF Results
        <4>2. <<FrameAt(bytes, i)>> \o x \in Seq(AnyFrames)
          BY <2>2, <4>1, PrefixedFrames, Zenon
        <4> HIDE DEF Step
        <4> QED
          BY <3>1, <3>3, <4>2, Zenon DEF Results
      <3> QED
        BY <3>2, <3>3
    <2> QED
      BY <2>2, <2>3
  <1> HIDE DEF Done, base, Jump, Step
  <1>5. PICK f \in [0..N -> Results] :
           \A i \in 0..N : f[i] = IF i \in Done THEN base[i] ELSE Step[<<i, f[Jump[i]]>>]
    <2> HIDE DEF N
    <2>1. JumpsAhead(N, Results, Done, base, Jump, Step)
      BY <1>3, <1>4 DEF JumpsAhead
    <2>2. \E f \in [0..N -> Results] : Jumps(f, N, Done, base, Jump, Step)
      BY <1>1, <1>2, <2>1, JumpingExists, Zenon
    <2> QED
      BY <2>2 DEF Jumps
  <1>6. ASSUME NEW o \in 0..N
        PROVE  f[o] = IF o + 2 > N \/ LengthAt(bytes, o) = 0 THEN << >>
                      ELSE IF \/ o + LengthAt(bytes, o) + 2 > N
                              \/ ~ Acceptable(FrameAt(bytes, o))
                              \/ f[o + LengthAt(bytes, o) + 2] = Error
                        THEN Error
                        ELSE <<FrameAt(bytes, o)>> \o f[o + LengthAt(bytes, o) + 2]
    <2>1. CASE NoFrame(bytes, o)
      <3>1. o \in Done /\ base[o] = << >>
        BY <2>1 DEF Done, base
      <3>2. f[o] = << >>
        BY <1>5, <3>1
      <3> QED
        BY <2>1, <3>2 DEF NoFrame
    <2>2. CASE ~ NoFrame(bytes, o) /\ BadFrame(bytes, o)
      <3>1. o \in Done /\ base[o] = Error
        BY <2>2 DEF Done, base
      <3>2. f[o] = Error
        BY <1>5, <3>1
      <3> QED
        BY <2>2, <3>2 DEF NoFrame, BadFrame
    <2>3. CASE ~ NoFrame(bytes, o) /\ ~ BadFrame(bytes, o)
      <3>1. o \notin Done /\ Jump[o] = Behind(bytes, o)
        BY <2>3 DEF Done, Jump
      <3>2. f[o] = Step[<<o, f[Behind(bytes, o)]>>]
        BY <1>5, <3>1
      <3>3. Behind(bytes, o) \in 0..N
        <4>1. Behind(bytes, o) \in o + 1..N
          BY <2>3, HeaderRead
        <4> QED
          BY <1>1, <4>1
      <3>4. PICK x \in Results : x = f[Behind(bytes, o)]
        BY <1>5, <3>3
      <3>5. Step[<<o, x>>] = IF x = Error THEN Error ELSE <<FrameAt(bytes, o)>> \o x
        <4> HIDE DEF N
        <4> QED
          BY DEF Step
      <3>6. f[o] = IF x = Error THEN Error ELSE <<FrameAt(bytes, o)>> \o x
        BY <3>2, <3>4, <3>5, Zenon
      <3> QED
        BY <2>3, <3>4, <3>6, Zenon DEF NoFrame, BadFrame, Behind
    <2> QED
      BY <2>1, <2>2, <2>3
  <1>7. f = [o \in 0..N |->
                 IF o + 2 > N \/ LengthAt(bytes, o) = 0 THEN << >>
                 ELSE IF \/ o + LengthAt(bytes, o) + 2 > N
                         \/ ~ Acceptable(FrameAt(bytes, o))
                         \/ f[o + LengthAt(bytes, o) + 2] = Error
                   THEN Error
                   ELSE <<FrameAt(bytes, o)>> \o f[o + LengthAt(bytes, o) + 2]]
    <2> DEFINE g == [o \in 0..N |->
                 IF o + 2 > N \/ LengthAt(bytes, o) = 0 THEN << >>
                 ELSE IF \/ o + LengthAt(bytes, o) + 2 > N
                         \/ ~ Acceptable(FrameAt(bytes, o))
                         \/ f[o + LengthAt(bytes, o) + 2] = Error
                   THEN Error
                   ELSE <<FrameAt(bytes, o)>> \o f[o + LengthAt(bytes, o) + 2]]
    <2>1. \A o \in 0..N : f[o] = g[o]
      BY <1>6, Zenon
    <2>2. g = [o \in 0..N |-> g[o]] /\ f = [o \in 0..N |-> f[o]]
      <3>1. DOMAIN g = 0..N /\ DOMAIN f = 0..N
        BY Zenon
      <3> QED
        BY <3>1, Zenon
    <2> HIDE DEF g
    <2>3. f = g
      BY <2>1, <2>2, Zenon
    <2> QED
      BY <2>3 DEF g
  <1>8. Reads(bytes, f)
    BY <1>7, Zenon DEF Reads, N
  <1> QED
    BY <1>8

----------------------------------------------------------------------------
(* Reading what was packed                                                 *)

Sendable(f) == f \in AnyFrames /\ ValidForEncoding(f) /\ Len(f.data) <= MAX_FRAME_LEN

\* The two bytes in front of the data.
FrameHead(f) == <<Len(f.data) \div 2, 128 * (Len(f.data) % 2) + f.type>>

LEMMA HeadNumbers ==
    ASSUME NEW n \in 0..422, NEW t \in {0, 15}
    PROVE  /\ n \div 2 \in 0..255 /\ 128 * (n % 2) + t \in 0..255
           /\ 128 * (n % 2) + 16 * 0 + t = 128 * (n % 2) + t
           /\ 2 * (n \div 2) + (128 * (n % 2) + t) \div 128 = n
           /\ ((128 * (n % 2) + t) \div 16) % 8 = 0
           /\ (128 * (n % 2) + t) % 16 = t
  <1>1. n % 2 \in 0..1 /\ n \div 2 \in Nat /\ n = 2 * (n \div 2) + (n % 2)
    OBVIOUS
  <1> QED
    BY <1>1

LEMMA FrameBytesFacts ==
    ASSUME NEW f, Sendable(f)
    PROVE  /\ FrameHead(f) \in Seq(Bytes) /\ Len(FrameHead(f)) = 2
           /\ f.data \in Seq(Bytes) /\ Len(f.data) \in 0..422
           /\ FrameBytes(f) = FrameHead(f) \o f.data
           /\ FrameBytes(f) \in Seq(Bytes)
           /\ Len(FrameBytes(f)) = Len(f.data) + 2
  <1> DEFINE n == Len(f.data)
  <1>1. /\ f.data \in Seq(Bytes) /\ n \in 0..422
        /\ f.reserved = 0 /\ f.type \in {0, 15}
    <2>1. f \in AnyFrames /\ ValidForEncoding(f) /\ n <= 422
      BY DEF Sendable, MAX_FRAME_LEN
    <2>2. f.data \in Seq(Bytes) /\ f.type \in 0..15
      BY <2>1 DEF AnyFrames
    <2>3. n \in Nat
      BY <2>2
    <2>4. f.reserved = 0 /\ f.type \in {0, 15}
      BY <2>1 DEF ValidForEncoding, FisBApdu, Developmental
    <2> HIDE DEF n
    <2> QED
      BY <2>1, <2>2, <2>3, <2>4
  <1> HIDE DEF n
  <1>2. PICK m \in 0..422, k \in {0, 15} : m = n /\ k = f.type
    BY <1>1
  <1>3. /\ n \div 2 \in Bytes /\ 128 * (n % 2) + f.type \in Bytes
        /\ 128 * (n % 2) + 16 * f.reserved + f.type = 128 * (n % 2) + f.type
    <2>1. /\ m \div 2 \in Bytes /\ 128 * (m % 2) + k \in Bytes
          /\ 128 * (m % 2) + 16 * 0 + k = 128 * (m % 2) + k
      BY ONLY HeadNumbers, m \in 0..422, k \in {0, 15} DEF Bytes
    <2> QED
      BY <1>1, <1>2, <2>1, Zenon
  <1>4. FrameHead(f) = <<n \div 2, 128 * (n % 2) + f.type>>
    BY DEF FrameHead, n
  <1>5. FrameBytes(f) = FrameHead(f) \o f.data
    BY <1>3, <1>4, Zenon DEF FrameBytes, n
  <1>6. FrameHead(f) \in Seq(Bytes) /\ Len(FrameHead(f)) = 2
    <2> DEFINE x == n \div 2
               y == 128 * (n % 2) + f.type
    <2>1. x \in Bytes /\ y \in Bytes
      BY <1>3
    <2> HIDE DEF x, y
    <2>2. <<x, y>> \in Seq(Bytes) /\ Len(<<x, y>>) = 2
      BY <2>1
    <2> QED
      BY <1>4, <2>2, Zenon DEF x, y
  <1>7. FrameHead(f) \o f.data \in Seq(Bytes) /\ Len(FrameHead(f) \o f.data) = Len(FrameHead(f)) + n
    BY <1>1, <1>6, ConcatProperties, ZenonT(40) DEF n
  <1>8. Len(FrameBytes(f)) = n + 2
    <2>1. 2 + n = n + 2
      BY <1>1
    <2> QED
      BY <1>5, <1>6, <1>7, <2>1, Zenon
  <1> QED
    BY <1>1, <1>5, <1>6, <1>7, <1>8 DEF n

LEMMA FrameReadBack ==
    ASSUME NEW bytes \in Seq(Bytes), NEW o \in Nat, NEW f, Sendable(f),
           LiesAt(bytes, o, FrameBytes(f))
    PROVE  /\ o \in 0..Len(bytes)
           /\ f.data = << >> => NoFrame(bytes, o)
           /\ f.data # << >> => /\ ~ NoFrame(bytes, o) /\ ~ BadFrame(bytes, o)
                                /\ FrameAt(bytes, o) = f
                                /\ Behind(bytes, o) = o + Len(FrameBytes(f))
  <1> DEFINE n == Len(f.data)
             h == FrameHead(f)
             a == bytes[o + 1]
             b == bytes[o + 2]
  <1>1. /\ h \in Seq(Bytes) /\ Len(h) = 2
        /\ f.data \in Seq(Bytes) /\ n \in 0..422
        /\ FrameBytes(f) = h \o f.data /\ Len(FrameBytes(f)) = n + 2
    BY FrameBytesFacts, Zenon
  <1>2. LiesAt(bytes, o, h) /\ LiesAt(bytes, o + 2, f.data)
    <2>1. LiesAt(bytes, o, h) /\ LiesAt(bytes, o + Len(h), f.data)
      BY <1>1, LiesAtConcat, Zenon
    <2> QED
      BY <1>1, <2>1, Zenon
  <1>3. a = h[1] /\ b = h[2]
    <2>1. Len(h) = 2 /\ 1 \in 1..2 /\ 2 \in 1..2
      <3>1. Len(h) = 2
        BY <1>1
      <3> QED
        BY ONLY <3>1
    <2> QED
      BY <1>2, <2>1, Zenon DEF LiesAt
  <1>4. a = n \div 2 /\ b = 128 * (n % 2) + f.type
    <2>1. h[1] = n \div 2 /\ h[2] = 128 * (n % 2) + f.type
      BY DEF FrameHead
    <2> QED
      BY <1>3, <2>1
  <1>5. Len(bytes) \in Nat /\ o + (n + 2) <= Len(bytes)
    <2>1. Len(bytes) \in Nat
      OBVIOUS
    <2>2. o + Len(FrameBytes(f)) <= Len(bytes)
      BY Zenon DEF LiesAt
    <2> QED
      BY <1>1, <2>1, <2>2, Zenon
  <1>6. f.reserved = 0 /\ f.type \in {0, 15} /\ f = [reserved |-> f.reserved, type |-> f.type, data |-> f.data]
    <2>1. f \in AnyFrames /\ ValidForEncoding(f)
      BY DEF Sendable
    <2>2. f = [reserved |-> f.reserved, type |-> f.type, data |-> f.data]
      BY <2>1 DEF AnyFrames
    <2>3. f.reserved = 0 /\ f.type \in {0, 15}
      BY <2>1 DEF ValidForEncoding, FisBApdu, Developmental
    <2> QED
      BY <2>2, <2>3
  <1>7. PICK m \in 0..422, k \in {0, 15} : m = n /\ k = f.type
    BY <1>1, <1>6, ZenonT(40)
  <1>70. /\ LengthAt(bytes, o) = n
        /\ (b \div 16) % 8 = f.reserved /\ b % 16 = f.type
    <2>1. /\ 2 * (m \div 2) + (128 * (m % 2) + k) \div 128 = m
          /\ ((128 * (m % 2) + k) \div 16) % 8 = 0
          /\ (128 * (m % 2) + k) % 16 = k
      BY ONLY HeadNumbers, m \in 0..422, k \in {0, 15}
    <2>2. a = m \div 2 /\ b = 128 * (m % 2) + k
      BY <1>4, <1>7, Zenon
    <2>3. LengthAt(bytes, o) = 2 * a + b \div 128
      BY DEF LengthAt
    <2> HIDE DEF a, b, n
    <2> QED
      BY <1>6, <1>7, <2>1, <2>2, <2>3, Zenon
  <1>8. o \in 0..Len(bytes) /\ ~ (o + 2 > Len(bytes))
    <2> DEFINE N == Len(bytes)
    <2>1. N \in Nat /\ o + (n + 2) <= N /\ n \in 0..422
      BY <1>1, <1>5
    <2> HIDE DEF n, N
    <2>2. o \in 0..N /\ ~ (o + 2 > N)
      BY ONLY <2>1, o \in Nat
    <2> QED
      BY <2>2 DEF N
  <1>9. ASSUME f.data = << >> PROVE NoFrame(bytes, o)
    <2>1. n = 0
      BY <1>9
    <2> QED
      BY <1>70, <2>1 DEF NoFrame
  <1>10. ASSUME f.data # << >>
         PROVE  /\ ~ NoFrame(bytes, o) /\ ~ BadFrame(bytes, o)
                /\ FrameAt(bytes, o) = f
                /\ Behind(bytes, o) = o + Len(FrameBytes(f))
    <2>1. n # 0
      <3>1. f.data \in Seq(Bytes)
        BY <1>1
      <3> QED
        BY ONLY <1>10, <3>1, EmptySeq
    <2>2. ~ NoFrame(bytes, o)
      BY <1>70, <1>8, <2>1 DEF NoFrame
    <2>3. SubSeq(bytes, o + 3, o + 2 + n) = f.data
      <3>1. SubSeq(bytes, (o + 2) + 1, (o + 2) + n) = f.data
        <4>1. o + 2 \in Nat
          OBVIOUS
        <4> QED
          BY <1>1, <1>2, <4>1, LiesAtIsSubSeq, Zenon
      <3>2. (o + 2) + 1 = o + 3
        OBVIOUS
      <3> QED
        BY <3>1, <3>2, Zenon
    <2>4. (b \div 16) % 8 = f.reserved /\ b % 16 = f.type
      BY <1>70
    <2>5. FrameAt(bytes, o) = f
      <3>1. FrameAt(bytes, o) = [reserved |-> (b \div 16) % 8, type |-> b % 16,
                                 data |-> SubSeq(bytes, o + 3, o + 2 + n)]
        BY <1>70, Zenon DEF FrameAt
      <3> QED
        BY <1>6, <2>3, <2>4, <3>1, Zenon
    <2>6. Acceptable(FrameAt(bytes, o))
      BY <1>6, <2>5 DEF Acceptable, FisBApdu, Developmental
    <2>7. ~ (o + n + 2 > Len(bytes)) /\ o + n + 2 = o + (n + 2)
      <3> DEFINE N == Len(bytes)
      <3>1. N \in Nat /\ o + (n + 2) <= N /\ n \in 0..422
        BY <1>1, <1>5
      <3> HIDE DEF n, N
      <3>2. ~ (o + n + 2 > N) /\ o + n + 2 = o + (n + 2)
        BY ONLY <3>1, o \in Nat
      <3> QED
        BY <3>2 DEF N
    <2>8. ~ BadFrame(bytes, o)
      BY <1>70, <2>6, <2>7, Zenon DEF BadFrame
    <2>9. Behind(bytes, o) = o + Len(FrameBytes(f))
      BY <1>1, <1>70, <2>7, Zenon DEF Behind
    <2> QED
      BY <2>2, <2>5, <2>8, <2>9
  <1> QED
    BY <1>8, <1>9, <1>10

\* The frames of a list as bytes, one after the other.
Pieces(fs) == [i \in DOMAIN fs |-> FrameBytes(fs[i])]

LEMMA PiecesType ==
    ASSUME NEW fs \in Seq(AnyFrames), \A i \in DOMAIN fs : Sendable(fs[i])
    PROVE  /\ Pieces(fs) \in Seq(Seq(Bytes)) /\ Len(Pieces(fs)) = Len(fs)
           /\ DOMAIN fs = 1..Len(fs)
           /\ \A i \in 1..Len(fs) : Pieces(fs)[i] = FrameBytes(fs[i])
  <1>1. DOMAIN fs = 1..Len(fs) /\ Len(fs) \in Nat
    OBVIOUS
  <1>2. \A i \in 1..Len(fs) : FrameBytes(fs[i]) \in Seq(Bytes)
    BY <1>1, FrameBytesFacts, Zenon
  <1>3. Pieces(fs) = [i \in 1..Len(fs) |-> FrameBytes(fs[i])]
    BY <1>1, Zenon DEF Pieces
  <1>4. Pieces(fs) \in Seq(Seq(Bytes))
    BY <1>1, <1>2, <1>3
  <1>5. Len(Pieces(fs)) = Len(fs) /\ \A i \in 1..Len(fs) : Pieces(fs)[i] = FrameBytes(fs[i])
    BY <1>1, <1>3
  <1> QED
    BY <1>1, <1>4, <1>5

\* The number of frames in front of the first empty one.
IsReadable(fs, e) ==
    /\ e \in 0..Len(fs)
    /\ \A i \in 1..e : fs[i].data # << >>
    /\ e < Len(fs) => fs[e + 1].data = << >>

LEMMA PackedReads ==
    ASSUME NEW fs \in Seq(AnyFrames), \A i \in DOMAIN fs : Sendable(fs[i]),
           NEW bytes \in Seq(Bytes), LiesAt(bytes, 0, FlattenSeq(Pieces(fs))),
           \A j \in Len(FlattenSeq(Pieces(fs))) + 1..Len(bytes) : bytes[j] = 0,
           NEW e, IsReadable(fs, e)
    PROVE  InformationFrames(bytes) = SubSeq(fs, 1, e)
  <1> DEFINE n == Len(fs)
             all == FlattenSeq(Pieces(fs))
             N == Len(bytes)
  <1>1. /\ Pieces(fs) \in Seq(Seq(Bytes)) /\ Len(Pieces(fs)) = n
        /\ DOMAIN fs = 1..n /\ n \in Nat /\ N \in Nat
        /\ \A i \in 1..n : Pieces(fs)[i] = FrameBytes(fs[i])
    BY PiecesType
  <1>2. all \in Seq(Bytes)
    BY <1>1, FlattenType, Zenon
  <1>3. PICK off \in [0..n -> Nat] :
           /\ off[0] = 0 /\ off[n] = Len(all)
           /\ \A k \in 1..n : /\ off[k] = off[k - 1] + Len(Pieces(fs)[k])
                              /\ LiesAt(all, off[k - 1], Pieces(fs)[k])
    <2>1. \E off \in [0..Len(Pieces(fs)) -> Nat] :
             /\ off[0] = 0 /\ off[Len(Pieces(fs))] = Len(all)
             /\ \A k \in 1..Len(Pieces(fs)) : /\ off[k] = off[k - 1] + Len(Pieces(fs)[k])
                                              /\ LiesAt(all, off[k - 1], Pieces(fs)[k])
      BY <1>1, FlattenParts, Zenon
    <2> QED
      BY <1>1, <2>1, Zenon
  <1>4. Len(all) <= N /\ \A i \in 1..Len(all) : bytes[i] = all[i]
    <2>1. \A i \in 1..Len(all) : 0 + i = i
      BY <1>2
    <2> QED
      BY <1>2, <2>1 DEF LiesAt
  <1> HIDE DEF all, n, N
  <1>5. ASSUME NEW k \in 1..n
        PROVE  /\ off[k - 1] \in Nat /\ off[k] \in Nat
               /\ off[k] = off[k - 1] + Len(FrameBytes(fs[k]))
               /\ LiesAt(bytes, off[k - 1], FrameBytes(fs[k]))
               /\ Sendable(fs[k])
    <2>1. k \in 0..n /\ k - 1 \in 0..n
      BY <1>1
    <2>2. off[k - 1] \in Nat /\ off[k] \in Nat
      BY <1>3, <2>1
    <2>3. Sendable(fs[k])
      BY <1>1
    <2>4. FrameBytes(fs[k]) \in Seq(Bytes)
      BY <2>3, FrameBytesFacts
    <2>5. LiesAt(all, off[k - 1], FrameBytes(fs[k])) /\ off[k] = off[k - 1] + Len(FrameBytes(fs[k]))
      BY <1>1, <1>3
    <2>6. LiesAt(bytes, off[k - 1], FrameBytes(fs[k]))
      <3> DEFINE p == FrameBytes(fs[k])
                 o == off[k - 1]
      <3>1. o + Len(p) <= Len(all) /\ \A i \in 1..Len(p) : all[o + i] = p[i]
        BY <2>5 DEF LiesAt
      <3>2. Len(p) \in Nat /\ o \in Nat /\ Len(all) \in Nat
        BY <1>2, <2>2, <2>4
      <3> HIDE DEF p, o
      <3>3. o + Len(p) <= N /\ \A i \in 1..Len(p) : bytes[o + i] = p[i]
        BY <1>1, <1>4, <3>1, <3>2, SMTT(40)
      <3> QED
        BY <3>3 DEF LiesAt, p, o, N
    <2> QED
      BY <2>2, <2>3, <2>5, <2>6
  <1>6. e \in 0..n /\ e \in Nat
    BY <1>1 DEF IsReadable, n
  <1>7. PICK from : Reads(bytes, from) /\ InformationFrames(bytes) = from[0]
    BY ReadsExists, ReadsFirst
  <1> DEFINE S == { k \in 0..e : from[off[k]] = SubSeq(fs, k + 1, e) }
  <1>8. e \in S
    <2>1. SubSeq(fs, e + 1, e) = << >>
      BY <1>6, SubSeqEmpty
    <2>2. off[e] \in 0..N /\ NoFrame(bytes, off[e])
      <3>1. CASE e = n
        <4>1. off[e] = Len(all) /\ Len(all) \in 0..N
          BY <1>1, <1>2, <1>3, <1>4, <3>1
        <4>2. ASSUME ~ (off[e] + 2 > N) PROVE LengthAt(bytes, off[e]) = 0
          <5>1. off[e] + 1 \in Len(all) + 1..N /\ off[e] + 2 \in Len(all) + 1..N
            BY <1>1, <4>1, <4>2
          <5>2. bytes[off[e] + 1] = 0 /\ bytes[off[e] + 2] = 0
            BY <5>1 DEF all, N
          <5> QED
            BY <5>2 DEF LengthAt
        <4> QED
          BY <4>1, <4>2 DEF NoFrame, N
      <3>2. CASE e # n
        <4>1. e + 1 \in 1..n /\ (e + 1) - 1 = e /\ fs[e + 1].data = << >>
          BY <1>1, <1>6, <3>2 DEF IsReadable, n
        <4>2. off[e] \in Nat /\ LiesAt(bytes, off[e], FrameBytes(fs[e + 1])) /\ Sendable(fs[e + 1])
          BY <1>5, <4>1
        <4> QED
          BY <4>1, <4>2, FrameReadBack DEF N
      <3> QED
        BY <3>1, <3>2
    <2>3. from[off[e]] = << >>
      BY <1>7, <2>2, ReadsStep, ZenonT(40) DEF N
    <2>4. e \in 0..e
      BY <1>6
    <2> QED
      BY <2>1, <2>3, <2>4, Zenon
  <1>9. ASSUME NEW k \in 0..e, k # e, k + 1 \in S PROVE k \in S
    <2> DEFINE f == fs[k + 1]
               o == off[k]
               rest == SubSeq(fs, k + 2, e)
    <2>1. k + 1 \in 1..n /\ k + 1 \in 1..e /\ (k + 1) - 1 = k /\ (k + 1) + 1 = k + 2
      BY <1>1, <1>6, <1>9
    <2>2. f.data # << >> /\ f \in AnyFrames
      BY <1>1, <2>1 DEF IsReadable
    <2>3. /\ o \in Nat /\ off[k + 1] = o + Len(FrameBytes(f))
          /\ LiesAt(bytes, o, FrameBytes(f)) /\ Sendable(f)
      BY <1>5, <2>1
    <2>4. from[off[k + 1]] = rest
      BY <1>9, <2>1
    <2> HIDE DEF f, o
    <2>5. /\ o \in 0..Len(bytes)
          /\ ~ NoFrame(bytes, o) /\ ~ BadFrame(bytes, o) /\ FrameAt(bytes, o) = f
          /\ Behind(bytes, o) = off[k + 1]
      BY <2>2, <2>3, FrameReadBack
    <2>6. rest \in Seq(AnyFrames) /\ SubSeq(fs, k + 1, e) = <<f>> \o rest
      <3>1. k \in Nat /\ e \in Nat /\ k < e /\ e <= Len(fs)
        BY <1>1, <1>6, <1>9 DEF n
      <3> QED
        BY <3>1, SubSeqFirst DEF f
    <2> HIDE DEF rest
    <2>7. rest # Error
      BY <2>6, ResultsAssumption
    <2>8. from[o] = <<f>> \o rest
      <3>1. from[o] = IF from[Behind(bytes, o)] = Error THEN Error
                      ELSE <<FrameAt(bytes, o)>> \o from[Behind(bytes, o)]
        BY <1>7, <2>5, ReadsStep, Zenon
      <3> QED
        BY <2>4, <2>5, <2>7, <3>1, Zenon
    <2> QED
      BY <1>6, <2>6, <2>8 DEF o
  <1>10. 0..e \subseteq S
    <2> HIDE DEF S
    <2>1. ASSUME NEW i \in 0..e, \A j \in i + 1..e : j \in S PROVE i \in S
      <3>1. CASE i = e
        BY <1>8, <3>1
      <3>2. CASE i # e
        <4>1. i + 1 \in i + 1..e
          BY <1>6, <3>2
        <4>2. i + 1 \in S
          BY <2>1, <4>1
        <4> QED
          BY <1>9, <3>2, <4>2
      <3> QED
        BY <3>1, <3>2
    <2> QED
      BY <1>6, <2>1, DownwardInduction
  <1>11. 0 \in S
    <2>1. 0 \in 0..e
      BY <1>6
    <2> QED
      BY <1>10, <2>1
  <1>12. from[0] = SubSeq(fs, 1, e)
    BY <1>3, <1>11
  <1> QED
    BY <1>7, <1>12

----------------------------------------------------------------------------
(* Numbers and their bits                                                  *)

Bits == {0, 1}

\* pow[k] is two to the k: how many numbers k bits can stand for.
Doubles(pow) == pow[0] = 1 /\ \A k \in 1..16 : pow[k] = 2 * pow[k - 1]

LEMMA DoublesExists == \E pow \in [0..16 -> Nat] : Doubles(pow)
  <1> DEFINE Step == [p \in (1..16) \X Nat |-> 2 * p[2]]
  <1>1. Step \in [(1..16) \X Nat -> Nat]
    OBVIOUS
  <1>2. \A i \in 1..16, x \in Nat : Step[<<i, x>>] = 2 * x
    OBVIOUS
  <1> HIDE DEF Step
  <1>3. PICK g \in [0..16 -> Nat] : Recurs(g, 16, 1, Step)
    <2>1. 16 \in Nat /\ 1 \in Nat
      OBVIOUS
    <2> QED
      BY <1>1, <2>1, Recursion
  <1>4. ASSUME NEW i \in 1..16 PROVE g[i] = 2 * g[i - 1]
    <2>1. i - 1 \in 0..16
      OBVIOUS
    <2>2. g[i - 1] \in Nat
      BY <2>1
    <2>3. g[i] = Step[<<i, g[i - 1]>>]
      BY <1>3 DEF Recurs
    <2> QED
      BY <1>2, <2>2, <2>3
  <1> QED
    BY <1>3, <1>4 DEF Recurs, Doubles

LEMMA DoublesAre ==
    ASSUME NEW pow, Doubles(pow)
    PROVE  /\ pow[0] = 1 /\ pow[1] = 2 /\ pow[2] = 4 /\ pow[3] = 8 /\ pow[4] = 16
           /\ pow[5] = 32 /\ pow[6] = 64 /\ pow[7] = 128 /\ pow[8] = 256
           /\ pow[9] = 512 /\ pow[10] = 1024 /\ pow[11] = 2048
  <1>1. /\ pow[0] = 1 /\ pow[1] = 2 * pow[1 - 1] /\ pow[2] = 2 * pow[2 - 1]
        /\ pow[3] = 2 * pow[3 - 1] /\ pow[4] = 2 * pow[4 - 1] /\ pow[5] = 2 * pow[5 - 1]
        /\ pow[6] = 2 * pow[6 - 1] /\ pow[7] = 2 * pow[7 - 1] /\ pow[8] = 2 * pow[8 - 1]
        /\ pow[9] = 2 * pow[9 - 1] /\ pow[10] = 2 * pow[10 - 1] /\ pow[11] = 2 * pow[11 - 1]
    BY DEF Doubles
  <1> QED
    BY <1>1

\* What the first bits stand for.
Reading(bits, upTo) ==
    /\ upTo \in [0..Len(bits) -> Nat]
    /\ upTo[0] = 0
    /\ \A i \in 1..Len(bits) : upTo[i] = 2 * upTo[i - 1] + bits[i]

LEMMA NumberIsReading ==
    ASSUME NEW bits \in Seq(Bits)
    PROVE  \E upTo : Reading(bits, upTo) /\ NumberOf(bits) = upTo[Len(bits)]
  <1> DEFINE n == Len(bits)
             Step == [p \in (1..n) \X Nat |-> 2 * p[2] + bits[p[1]]]
             upTo == CHOOSE f : f = [i \in 0..n |-> IF i = 0 THEN 0 ELSE 2 * f[i - 1] + bits[i]]
  <1>1. n \in Nat /\ \A i \in 1..n : bits[i] \in Nat
    BY DEF Bits
  <1> HIDE DEF n
  <1>2. /\ Step \in [(1..n) \X Nat -> Nat]
        /\ \A i \in 1..n, x \in Nat : Step[<<i, x>>] = 2 * x + bits[i]
    BY <1>1, SMTT(40)
  <1> HIDE DEF Step
  <1>3. PICK g \in [0..n -> Nat] : Recurs(g, n, 0, Step)
    <2>1. 0 \in Nat
      OBVIOUS
    <2> QED
      BY <1>1, <1>2, <2>1, Recursion
  <1>4. ASSUME NEW i \in 1..n PROVE g[i] = 2 * g[i - 1] + bits[i]
    <2>1. i - 1 \in 0..n
      BY <1>1
    <2>2. g[i - 1] \in Nat
      BY <2>1
    <2>3. g[i] = Step[<<i, g[i - 1]>>]
      BY <1>3 DEF Recurs
    <2> QED
      BY <1>2, <2>2, <2>3
  <1>5. g[0] = 0
    BY <1>3 DEF Recurs
  <1>6. g = [i \in 0..n |-> IF i = 0 THEN 0 ELSE 2 * g[i - 1] + bits[i]]
    <2>1. \A i \in 0..n : i # 0 => i \in 1..n
      BY <1>1
    <2>2. \A i \in 0..n : g[i] = IF i = 0 THEN 0 ELSE 2 * g[i - 1] + bits[i]
      BY <1>4, <1>5, <2>1
    <2>3. DOMAIN g = 0..n
      OBVIOUS
    <2> QED
      BY <2>2, <2>3
  <1>7. upTo = [i \in 0..n |-> IF i = 0 THEN 0 ELSE 2 * upTo[i - 1] + bits[i]]
    BY <1>6
  <1>8. NumberOf(bits) = upTo[n]
    BY Zenon DEF NumberOf, n
  <1> HIDE DEF upTo
  <1>9. upTo[0] = 0 /\ \A i \in 1..n : upTo[i] = 2 * upTo[i - 1] + bits[i]
    <2>1. \A i \in 0..n : upTo[i] = IF i = 0 THEN 0 ELSE 2 * upTo[i - 1] + bits[i]
      BY <1>7, Zenon
    <2>2. 0 \in 0..n /\ \A i \in 1..n : i \in 0..n /\ i # 0
      BY <1>1
    <2> QED
      BY <2>1, <2>2, Zenon
  <1>10. \A i \in 0..n : upTo[i] \in Nat
    <2> DEFINE S == { i \in 0..n : upTo[i] \in Nat }
    <2>1. 0 \in S
      BY <1>1, <1>9
    <2>2. ASSUME NEW i \in 0..n - 1, i \in S PROVE i + 1 \in S
      <3>1. i + 1 \in 1..n /\ (i + 1) - 1 = i /\ upTo[i] \in Nat
        BY <1>1, <2>2
      <3>2. upTo[i + 1] = 2 * upTo[i] + bits[i + 1] /\ bits[i + 1] \in Nat
        BY <1>1, <1>9, <3>1
      <3>3. upTo[i + 1] \in Nat /\ i + 1 \in 0..n
        BY <1>1, <3>1, <3>2, SMTT(40)
      <3> QED
        BY <3>3
    <2> HIDE DEF S
    <2>3. 0..n \subseteq S
      BY <1>1, <2>1, <2>2, InductionUpTo
    <2> QED
      BY <2>3 DEF S
  <1>11. upTo \in [0..n -> Nat]
    <2>1. DOMAIN upTo = 0..n /\ upTo = [i \in 0..n |-> upTo[i]]
      BY <1>7, Zenon
    <2> QED
      BY <1>10, <2>1, Zenon
  <1> QED
    BY <1>8, <1>9, <1>11 DEF Reading, n

LEMMA NumberOfType ==
    ASSUME NEW bits \in Seq(Bits), NEW pow, Doubles(pow), Len(bits) <= 16
    PROVE  NumberOf(bits) \in 0..pow[Len(bits)] - 1
  <1> DEFINE n == Len(bits)
  <1>1. n \in Nat /\ n <= 16 /\ n \in 0..16 /\ \A i \in 1..n : bits[i] \in 0..1
    <2>1. n \in Nat /\ n <= 16 /\ \A i \in 1..n : bits[i] \in Bits
      OBVIOUS
    <2>2. Bits = 0..1
      BY DEF Bits
    <2> HIDE DEF n
    <2> QED
      BY ONLY <2>1, <2>2
  <1>2. PICK upTo : Reading(bits, upTo) /\ NumberOf(bits) = upTo[n]
    BY NumberIsReading
  <1>3. /\ \A i \in 0..n : upTo[i] \in Nat
        /\ upTo[0] = 0 /\ \A i \in 1..n : upTo[i] = 2 * upTo[i - 1] + bits[i]
    BY <1>2 DEF Reading
  <1> HIDE DEF n
  <1> DEFINE S == { i \in 0..n : pow[i] \in Nat /\ upTo[i] <= pow[i] - 1 }
  <1>4. 0 \in S
    <2>1. pow[0] = 1 /\ 0 \in 0..n /\ upTo[0] = 0
      BY <1>1, <1>3 DEF Doubles
    <2> QED
      BY ONLY <2>1
  <1>5. ASSUME NEW i \in 0..n - 1, i \in S PROVE i + 1 \in S
    <2>1. i + 1 \in 1..n /\ (i + 1) - 1 = i /\ i + 1 \in 1..16
      BY <1>1
    <2>2. upTo[i + 1] = 2 * upTo[i] + bits[i + 1] /\ pow[i + 1] = 2 * pow[i]
      BY <1>3, <2>1 DEF Doubles
    <2>3. bits[i + 1] \in 0..1 /\ upTo[i] \in Nat /\ pow[i] \in Nat /\ upTo[i] <= pow[i] - 1
      BY <1>1, <1>3, <1>5, <2>1
    <2>4. pow[i + 1] \in Nat /\ upTo[i + 1] <= pow[i + 1] - 1
      BY ONLY <2>2, <2>3, SMTT(40)
    <2> QED
      BY <1>1, <2>1, <2>4
  <1> HIDE DEF S
  <1>6. 0..n \subseteq S
    BY <1>1, <1>4, <1>5, InductionUpTo
  <1>7. n \in S /\ upTo[n] \in Nat
    BY <1>1, <1>3, <1>6
  <1> QED
    BY <1>2, <1>7 DEF S, n

LEMMA ShiftedSteps ==
    ASSUME NEW value \in Nat, NEW n \in Nat
    PROVE  /\ Shifted(value, n) \in [0..n -> Nat]
           /\ Shifted(value, n)[0] = value
           /\ \A k \in 1..n : Shifted(value, n)[k] = Shifted(value, n)[k - 1] \div 2
  <1> DEFINE Step == [p \in (1..n) \X Nat |-> p[2] \div 2]
             by == CHOOSE f : f = [k \in 0..n |-> IF k = 0 THEN value ELSE f[k - 1] \div 2]
  <1>2. /\ Step \in [(1..n) \X Nat -> Nat]
        /\ \A i \in 1..n, x \in Nat : Step[<<i, x>>] = x \div 2
    OBVIOUS
  <1> HIDE DEF Step
  <1>3. PICK g \in [0..n -> Nat] : Recurs(g, n, value, Step)
    BY <1>2, Recursion
  <1>4. ASSUME NEW i \in 1..n PROVE g[i] = g[i - 1] \div 2
    <2>1. i - 1 \in 0..n
      OBVIOUS
    <2>2. g[i - 1] \in Nat
      BY <2>1
    <2>3. g[i] = Step[<<i, g[i - 1]>>]
      BY <1>3 DEF Recurs
    <2> QED
      BY <1>2, <2>2, <2>3
  <1>5. g[0] = value
    BY <1>3 DEF Recurs
  <1>6. g = [k \in 0..n |-> IF k = 0 THEN value ELSE g[k - 1] \div 2]
    <2>1. \A i \in 0..n : i # 0 => i \in 1..n
      OBVIOUS
    <2>2. \A i \in 0..n : g[i] = IF i = 0 THEN value ELSE g[i - 1] \div 2
      BY <1>4, <1>5, <2>1
    <2>3. DOMAIN g = 0..n
      OBVIOUS
    <2> QED
      BY <2>2, <2>3
  <1>7. by = [k \in 0..n |-> IF k = 0 THEN value ELSE by[k - 1] \div 2]
    BY <1>6
  <1>8. Shifted(value, n) = by
    BY Zenon DEF Shifted
  <1> HIDE DEF by
  <1>9. by[0] = value /\ \A i \in 1..n : by[i] = by[i - 1] \div 2
    <2>1. \A i \in 0..n : by[i] = IF i = 0 THEN value ELSE by[i - 1] \div 2
      BY <1>7, Zenon
    <2>2. 0 \in 0..n /\ \A i \in 1..n : i \in 0..n /\ i # 0
      OBVIOUS
    <2> QED
      BY <2>1, <2>2, Zenon
  <1>10. \A i \in 0..n : by[i] \in Nat
    <2> DEFINE S == { i \in 0..n : by[i] \in Nat }
    <2>1. 0 \in S
      BY <1>9
    <2>2. ASSUME NEW i \in 0..n - 1, i \in S PROVE i + 1 \in S
      <3>1. i + 1 \in 1..n /\ (i + 1) - 1 = i /\ by[i] \in Nat
        BY <2>2
      <3> QED
        BY <1>9, <3>1
    <2> HIDE DEF S
    <2>3. 0..n \subseteq S
      BY <2>1, <2>2, InductionUpTo
    <2> QED
      BY <2>3 DEF S
  <1>11. by \in [0..n -> Nat]
    <2>1. by = [i \in 0..n |-> by[i]]
      BY <1>7, Zenon
    <2> QED
      BY <1>10, <2>1, Zenon
  <1> QED
    BY <1>8, <1>9, <1>11

LEMMA BitsOfType ==
    ASSUME NEW value \in Nat, NEW w \in Nat
    PROVE  BitsOf(value, w) \in Seq(Bits) /\ Len(BitsOf(value, w)) = w
  <1> DEFINE by == Shifted(value, w)
  <1>1. by \in [0..w -> Nat]
    BY ShiftedSteps
  <1>2. BitsOf(value, w) = [i \in 1..w |-> by[w - i] % 2]
    BY DEF BitsOf
  <1> HIDE DEF by
  <1>3. \A i \in 1..w : by[w - i] % 2 \in {0, 1}
    <2>1. \A i \in 1..w : w - i \in 0..w
      OBVIOUS
    <2>2. \A i \in 1..w : by[w - i] \in Nat
      BY <1>1, <2>1
    <2> QED
      BY <2>2
  <1>4. [i \in 1..w |-> by[w - i] % 2] \in Seq(Bits) /\ Len([i \in 1..w |-> by[w - i] % 2]) = w
    BY <1>3 DEF Bits
  <1> QED
    BY <1>2, <1>4, Zenon

\* A number that fits its bits comes back from them.
LEMMA NumberOfBits ==
    ASSUME NEW pow, Doubles(pow), NEW w \in 0..16, NEW value \in Nat, value < pow[w]
    PROVE  NumberOf(BitsOf(value, w)) = value
  <1> DEFINE by == Shifted(value, w)
             bits == BitsOf(value, w)
  <1>1. /\ by \in [0..w -> Nat] /\ by[0] = value
        /\ \A k \in 1..w : by[k] = by[k - 1] \div 2
    <2>1. w \in Nat
      OBVIOUS
    <2> QED
      BY <2>1, ShiftedSteps
  <1>2. bits \in Seq(Bits) /\ Len(bits) = w
    BY BitsOfType
  <1>3. PICK upTo : Reading(bits, upTo) /\ NumberOf(bits) = upTo[w]
    BY <1>2, NumberIsReading
  <1>4. \A i \in 1..w : bits[i] = by[w - i] % 2
    BY DEF BitsOf
  <1>5. upTo[0] = 0 /\ \A i \in 1..w : upTo[i] = 2 * upTo[i - 1] + bits[i]
    BY <1>2, <1>3 DEF Reading
  <1> HIDE DEF by, bits
  <1>6. \A k \in 0..w : by[k] \in Nat
    BY <1>1
  <1>7. by[w] = 0
    <2> DEFINE S == { k \in 0..w : by[k] < pow[w - k] }
    <2>1. 0 \in S
      <3>1. 0 \in 0..w /\ w - 0 = w /\ by[0] < pow[w]
        BY <1>1
      <3> QED
        BY <3>1, Zenon
    <2>2. ASSUME NEW k \in 0..w - 1, k \in S PROVE k + 1 \in S
      <3>1. k + 1 \in 1..w /\ k + 1 \in 0..w /\ (k + 1) - 1 = k /\ k \in 0..w
        OBVIOUS
      <3>2. w - k \in 1..16 /\ (w - k) - 1 = w - (k + 1)
        OBVIOUS
      <3>3. pow[w - k] = 2 * pow[w - (k + 1)]
        BY <3>2, Zenon DEF Doubles
      <3>4. by[k + 1] = by[k] \div 2
        BY <1>1, <3>1, Zenon
      <3>5. by[k] \in Nat /\ by[k] < pow[w - k]
        BY <1>6, <2>2, <3>1
      <3>6. pow[w - (k + 1)] \in Int
        <4> DEFINE T == { i \in 0..16 : pow[i] \in Nat }
        <4>1. 0 \in T
          BY DEF Doubles
        <4>2. ASSUME NEW i \in 0..16 - 1, i \in T PROVE i + 1 \in T
          <5>1. i + 1 \in 1..16 /\ (i + 1) - 1 = i /\ pow[i] \in Nat
            BY <4>2
          <5>2. pow[i + 1] = 2 * pow[i]
            BY <5>1, Zenon DEF Doubles
          <5>3. pow[i + 1] \in Nat /\ i + 1 \in 0..16
            BY ONLY <5>1, <5>2
          <5> QED
            BY <5>3
        <4> HIDE DEF T
        <4>3. 16 \in Nat
          OBVIOUS
        <4>4. 0..16 \subseteq T
          BY <4>1, <4>2, <4>3, InductionUpTo
        <4>5. w - (k + 1) \in 0..16
          OBVIOUS
        <4> QED
          BY <4>4, <4>5 DEF T
      <3>7. by[k + 1] < pow[w - (k + 1)]
        BY ONLY <3>3, <3>4, <3>5, <3>6
      <3> QED
        BY <3>1, <3>7, Zenon
    <2> HIDE DEF S
    <2>3. w \in Nat
      OBVIOUS
    <2>4. 0..w \subseteq S
      BY <2>1, <2>2, <2>3, InductionUpTo
    <2>5. w \in S
      BY <2>3, <2>4
    <2>6. by[w] < pow[w - w] /\ w - w = 0 /\ by[w] \in Nat
      BY <1>6, <2>5 DEF S
    <2> QED
      BY <2>6 DEF Doubles
  <1> DEFINE S == { i \in 0..w : upTo[i] = by[w - i] }
  <1>8. 0 \in S
    <2>1. w - 0 = w /\ 0 \in 0..w
      OBVIOUS
    <2> QED
      BY <1>5, <1>7, <2>1, Zenon
  <1>9. ASSUME NEW i \in 0..w - 1, i \in S PROVE i + 1 \in S
    <2>1. i + 1 \in 1..w /\ i + 1 \in 0..w /\ (i + 1) - 1 = i
      OBVIOUS
    <2>2. w - i \in 1..w /\ (w - i) - 1 = w - (i + 1) /\ w - (i + 1) \in 0..w
      OBVIOUS
    <2>3. by[w - i] = by[w - (i + 1)] \div 2
      BY <1>1, <2>2, Zenon
    <2>4. by[w - (i + 1)] \in Nat
      BY <1>6, <2>2
    <2>5. upTo[i + 1] = 2 * upTo[i] + bits[i + 1] /\ bits[i + 1] = by[w - (i + 1)] % 2
      BY <1>4, <1>5, <2>1, Zenon
    <2>6. upTo[i] = by[w - i]
      BY <1>9
    <2>7. upTo[i + 1] = by[w - (i + 1)]
      <3>1. \A x \in Nat : 2 * (x \div 2) + (x % 2) = x
        OBVIOUS
      <3>2. 2 * (by[w - (i + 1)] \div 2) + (by[w - (i + 1)] % 2) = by[w - (i + 1)]
        BY <2>4, <3>1, Zenon
      <3> QED
        BY <2>3, <2>5, <2>6, <3>2, Zenon
    <2> QED
      BY <2>1, <2>7, Zenon
  <1> HIDE DEF S
  <1>10. w \in Nat
    OBVIOUS
  <1>11. 0..w \subseteq S
    BY <1>8, <1>9, <1>10, InductionUpTo
  <1>12. w \in S /\ w - w = 0
    BY <1>10, <1>11
  <1> QED
    BY <1>1, <1>3, <1>12 DEF S, bits

\* And bits come back from the number they stand for.
LEMMA BitsOfNumber ==
    ASSUME NEW bits \in Seq(Bits)
    PROVE  NumberOf(bits) \in Nat /\ BitsOf(NumberOf(bits), Len(bits)) = bits
  <1> DEFINE w == Len(bits)
             by == Shifted(NumberOf(bits), w)
  <1>1. w \in Nat /\ \A i \in 1..w : bits[i] \in 0..1
    <2>1. w \in Nat /\ \A i \in 1..w : bits[i] \in Bits
      OBVIOUS
    <2> HIDE DEF w
    <2> QED
      BY ONLY <2>1 DEF Bits
  <1>2. PICK upTo : Reading(bits, upTo) /\ NumberOf(bits) = upTo[w]
    BY NumberIsReading
  <1>3. /\ \A i \in 0..w : upTo[i] \in Nat
        /\ \A i \in 1..w : upTo[i] = 2 * upTo[i - 1] + bits[i]
    BY <1>2 DEF Reading
  <1>4. NumberOf(bits) \in Nat
    BY <1>1, <1>2, <1>3
  <1>5. by[0] = NumberOf(bits) /\ \A k \in 1..w : by[k] = by[k - 1] \div 2
    BY <1>1, <1>4, ShiftedSteps
  <1>6. BitsOf(NumberOf(bits), w) = [i \in 1..w |-> by[w - i] % 2]
    BY DEF BitsOf
  <1> HIDE DEF by, w
  <1> DEFINE S == { k \in 0..w : by[k] = upTo[w - k] }
  <1>7. 0 \in S
    <2>1. w - 0 = w /\ 0 \in 0..w
      BY <1>1
    <2> QED
      BY <1>2, <1>5, <2>1, Zenon
  <1>8. ASSUME NEW k \in 0..w - 1, k \in S PROVE k + 1 \in S
    <2>1. k + 1 \in 1..w /\ k + 1 \in 0..w /\ (k + 1) - 1 = k
      BY <1>1
    <2>2. w - k \in 1..w /\ (w - k) - 1 = w - (k + 1) /\ w - (k + 1) \in 0..w
      BY <1>1
    <2>3. by[k + 1] = by[k] \div 2
      BY <1>5, <2>1, Zenon
    <2>4. upTo[w - k] = 2 * upTo[w - (k + 1)] + bits[w - k]
      BY <1>3, <2>2, Zenon
    <2>5. upTo[w - (k + 1)] \in Nat /\ bits[w - k] \in 0..1
      BY <1>1, <1>3, <2>2
    <2>6. by[k] = upTo[w - k]
      BY <1>8
    <2>7. by[k + 1] = upTo[w - (k + 1)]
      <3>1. \A x \in Nat, y \in 0..1 : (2 * x + y) \div 2 = x
        OBVIOUS
      <3>2. (2 * upTo[w - (k + 1)] + bits[w - k]) \div 2 = upTo[w - (k + 1)]
        BY <2>5, <3>1, Zenon
      <3> QED
        BY <2>3, <2>4, <2>6, <3>2, Zenon
    <2> QED
      BY <2>1, <2>7, Zenon
  <1> HIDE DEF S
  <1>9. 0..w \subseteq S
    BY <1>1, <1>7, <1>8, InductionUpTo
  <1>10. ASSUME NEW i \in 1..w PROVE by[w - i] % 2 = bits[i]
    <2>1. w - i \in 0..w /\ w - (w - i) = i /\ i - 1 \in 0..w
      BY <1>1
    <2>2. by[w - i] = upTo[i]
      <3>1. w - i \in S
        BY <1>9, <2>1
      <3> QED
        BY <2>1, <3>1 DEF S
    <2>3. upTo[i] = 2 * upTo[i - 1] + bits[i] /\ upTo[i - 1] \in Nat /\ bits[i] \in 0..1
      BY <1>1, <1>3, <2>1
    <2> QED
      BY ONLY <2>2, <2>3
  <1>11. bits = [i \in 1..w |-> bits[i]]
    BY DEF w
  <1>12. [i \in 1..w |-> by[w - i] % 2] = [i \in 1..w |-> bits[i]]
    BY <1>10, Zenon
  <1> QED
    BY <1>4, <1>6, <1>11, <1>12, Zenon DEF w

----------------------------------------------------------------------------
(* Bytes and their bits                                                    *)

LEMMA Octet ==
    ASSUME NEW bits \in Seq(Bits), NEW i \in 1..Len(bits) \div 8
    PROVE  /\ SubSeq(bits, 8 * i - 7, 8 * i) \in Seq(Bits)
           /\ Len(SubSeq(bits, 8 * i - 7, 8 * i)) = 8
           /\ LiesAt(bits, 8 * (i - 1), SubSeq(bits, 8 * i - 7, 8 * i))
           /\ NumberOf(SubSeq(bits, 8 * i - 7, 8 * i)) \in Bytes
  <1> DEFINE n == Len(bits)
             o == 8 * (i - 1)
  <1>1. n \in Nat /\ i \in Nat /\ i >= 1 /\ i <= n \div 8
    OBVIOUS
  <1>2. o \in Nat /\ o + 8 <= n /\ o + 1 = 8 * i - 7 /\ o + 8 = 8 * i
    <2> HIDE DEF n
    <2> QED
      BY ONLY <1>1
  <1>3. /\ SubSeq(bits, o + 1, o + 8) \in Seq(Bits)
        /\ Len(SubSeq(bits, o + 1, o + 8)) = 8
        /\ LiesAt(bits, o, SubSeq(bits, o + 1, o + 8))
    <2>1. 8 \in Nat
      OBVIOUS
    <2> HIDE DEF o
    <2> QED
      BY <1>2, <2>1, SubSeqLiesAt
  <1>4. NumberOf(SubSeq(bits, o + 1, o + 8)) \in Bytes
    <2> DEFINE p == SubSeq(bits, o + 1, o + 8)
    <2>1. p \in Seq(Bits) /\ Len(p) = 8
      BY <1>3
    <2> HIDE DEF p
    <2>2. PICK pow : Doubles(pow)
      BY DoublesExists
    <2>3. pow[8] = 256
      BY <2>2, DoublesAre
    <2>4. NumberOf(p) \in 0..pow[8] - 1
      <3>1. Len(p) <= 16
        BY <2>1
      <3> QED
        BY <2>1, <2>2, <3>1, NumberOfType, Zenon
    <2>5. NumberOf(p) \in 0..255
      BY ONLY <2>3, <2>4
    <2> QED
      BY <2>5 DEF Bytes, p
  <1> QED
    BY <1>2, <1>3, <1>4, Zenon

LEMMA BytesOfBitsType ==
    ASSUME NEW bits \in Seq(Bits)
    PROVE  /\ BytesOfBits(bits) \in Seq(Bytes)
           /\ Len(BytesOfBits(bits)) = Len(bits) \div 8
           /\ \A i \in 1..Len(bits) \div 8 :
                BytesOfBits(bits)[i] = NumberOf(SubSeq(bits, 8 * i - 7, 8 * i))
  <1> DEFINE m == Len(bits) \div 8
  <1>1. m \in Nat
    OBVIOUS
  <1>2. \A i \in 1..m : NumberOf(SubSeq(bits, 8 * i - 7, 8 * i)) \in Bytes
    BY Octet
  <1>3. BytesOfBits(bits) = [i \in 1..m |-> NumberOf(SubSeq(bits, 8 * i - 7, 8 * i))]
    BY DEF BytesOfBits
  <1> HIDE DEF m
  <1>4. [i \in 1..m |-> NumberOf(SubSeq(bits, 8 * i - 7, 8 * i))] \in Seq(Bytes)
    BY ONLY <1>1, <1>2
  <1>5. Len([i \in 1..m |-> NumberOf(SubSeq(bits, 8 * i - 7, 8 * i))]) = m
    BY ONLY <1>1
  <1> QED
    BY <1>3, <1>4, <1>5, Zenon DEF m

LEMMA BitsOfBytesType ==
    ASSUME NEW bytes \in Seq(Bytes)
    PROVE  /\ BitsOfBytes(bytes) \in Seq(Bits)
           /\ Len(BitsOfBytes(bytes)) = 8 * Len(bytes)
           /\ \A i \in 1..Len(bytes) :
                /\ BitsOf(bytes[i], 8) \in Seq(Bits) /\ Len(BitsOf(bytes[i], 8)) = 8
                /\ LiesAt(BitsOfBytes(bytes), 8 * (i - 1), BitsOf(bytes[i], 8))
  <1> DEFINE n == Len(bytes)
             bit == [j \in 1..8 * n |->
                       BitsOf(bytes[((j - 1) \div 8) + 1], 8)[((j - 1) % 8) + 1]]
  <1>1. n \in Nat /\ \A i \in 1..n : bytes[i] \in Bytes
    OBVIOUS
  <1>2. BitsOfBytes(bytes) = bit
    BY DEF BitsOfBytes
  <1> HIDE DEF n
  <1>3. ASSUME NEW i \in 1..n
        PROVE  BitsOf(bytes[i], 8) \in Seq(Bits) /\ Len(BitsOf(bytes[i], 8)) = 8
    <2>1. bytes[i] \in Nat /\ 8 \in Nat
      <3>1. bytes[i] \in Bytes /\ \A v \in Bytes : v \in Nat
        BY <1>1 DEF Bytes
      <3> QED
        BY <3>1
    <2> QED
      BY <2>1, BitsOfType, Zenon
  <1>4. \A i \in 1..n : \A k \in 1..8 : BitsOf(bytes[i], 8)[k] \in Bits
    BY <1>3
  <1>5. \A j \in 1..8 * n : bit[j] \in Bits
    <2>1. ASSUME NEW j \in 1..8 * n PROVE bit[j] \in Bits
      <3>1. ((j - 1) \div 8) + 1 \in 1..n /\ ((j - 1) % 8) + 1 \in 1..8
        BY ONLY <1>1, j \in 1..8 * n
      <3> QED
        BY <1>4, <3>1, Zenon
    <2> QED
      BY <2>1
  <1>6. ASSUME NEW i \in 1..n
        PROVE  LiesAt(bit, 8 * (i - 1), BitsOf(bytes[i], 8))
    <2>1. 8 * (i - 1) + 8 <= 8 * n
      BY ONLY <1>1, i \in 1..n
    <2>2. ASSUME NEW k \in 1..8 PROVE bit[8 * (i - 1) + k] = BitsOf(bytes[i], 8)[k]
      <3>2. PICK j \in 1..8 * n : j = 8 * (i - 1) + k
        <4>1. 8 * (i - 1) + k \in 1..8 * n
          BY ONLY <1>1, i \in 1..n, k \in 1..8
        <4> QED
          BY <4>1
      <3>1. ((j - 1) \div 8) + 1 = i /\ ((j - 1) % 8) + 1 = k
        BY ONLY <1>1, <3>2, i \in 1..n, k \in 1..8
      <3>3. bit[j] = BitsOf(bytes[((j - 1) \div 8) + 1], 8)[((j - 1) % 8) + 1]
        OBVIOUS
      <3> HIDE DEF bit
      <3> QED
        BY <3>1, <3>2, <3>3, Zenon
    <2>3. Len(bit) = 8 * n
      BY ONLY <1>1
    <2> HIDE DEF bit
    <2> QED
      BY <1>3, <2>1, <2>2, <2>3, Zenon DEF LiesAt
  <1>7. bit \in Seq(Bits) /\ Len(bit) = 8 * n
    <2>1. 8 * n \in Nat
      BY ONLY <1>1
    <2>2. bit = [j \in 1..8 * n |-> bit[j]] /\ DOMAIN bit = 1..8 * n
      OBVIOUS
    <2> HIDE DEF bit
    <2> QED
      BY ONLY <1>5, <2>1, <2>2
  <1> HIDE DEF bit
  <1> QED
    BY <1>2, <1>3, <1>6, <1>7, Zenon DEF n

LEMMA BitsOfThoseBytes ==
    ASSUME NEW bits \in Seq(Bits), NEW m \in Nat, Len(bits) = 8 * m
    PROVE  BitsOfBytes(BytesOfBits(bits)) = bits
  <1> DEFINE bytes == BytesOfBits(bits)
             x == BitsOfBytes(bytes)
             p(i) == SubSeq(bits, 8 * i - 7, 8 * i)
  <1>1. Len(bits) \div 8 = m
    OBVIOUS
  <1>2. /\ bytes \in Seq(Bytes) /\ Len(bytes) = m
        /\ \A i \in 1..m : bytes[i] = NumberOf(p(i))
    BY <1>1, BytesOfBitsType
  <1>3. x \in Seq(Bits) /\ Len(x) = 8 * m
        /\ \A i \in 1..m : LiesAt(x, 8 * (i - 1), BitsOf(bytes[i], 8))
    BY <1>2, BitsOfBytesType
  <1>4. ASSUME NEW i \in 1..m
        PROVE  Len(p(i)) = 8 /\ LiesAt(bits, 8 * (i - 1), p(i)) /\ BitsOf(bytes[i], 8) = p(i)
    <2>1. p(i) \in Seq(Bits) /\ Len(p(i)) = 8 /\ LiesAt(bits, 8 * (i - 1), p(i))
      BY <1>1, Octet
    <2> HIDE DEF p, bytes
    <2>2. BitsOf(NumberOf(p(i)), Len(p(i))) = p(i)
      BY <2>1, BitsOfNumber
    <2> QED
      BY <1>2, <2>1, <2>2
  <1> HIDE DEF x, p, bytes
  <1>5. ASSUME NEW j \in 1..8 * m PROVE x[j] = bits[j]
    <2> DEFINE i == ((j - 1) \div 8) + 1
               k == ((j - 1) % 8) + 1
    <2>1. i \in 1..m /\ k \in 1..8 /\ 8 * (i - 1) + k = j
      BY ONLY m \in Nat, j \in 1..8 * m
    <2> HIDE DEF i, k
    <2>2. Len(BitsOf(bytes[i], 8)) = 8 /\ x[8 * (i - 1) + k] = BitsOf(bytes[i], 8)[k]
      <3>1. LiesAt(x, 8 * (i - 1), BitsOf(bytes[i], 8)) /\ Len(BitsOf(bytes[i], 8)) = 8
        BY <1>3, <1>4, <2>1, Zenon
      <3> QED
        BY <2>1, <3>1, Zenon DEF LiesAt
    <2>3. bits[8 * (i - 1) + k] = p(i)[k]
      BY <1>4, <2>1, Zenon DEF LiesAt
    <2> QED
      BY <1>4, <2>1, <2>2, <2>3, Zenon
  <1>6. x = bits
    <2>1. Len(x) = Len(bits) /\ \A j \in 1..Len(x) : x[j] = bits[j]
      BY <1>3, <1>5, Zenon
    <2> QED
      BY <1>3, <2>1, SeqEqual
  <1> QED
    BY <1>6, Zenon DEF x, bytes

LEMMA BytesOfThoseBits ==
    ASSUME NEW bytes \in Seq(Bytes)
    PROVE  BytesOfBits(BitsOfBytes(bytes)) = bytes
  <1> DEFINE n == Len(bytes)
             bits == BitsOfBytes(bytes)
             y == BytesOfBits(bits)
             p(i) == SubSeq(bits, 8 * i - 7, 8 * i)
  <1>1. n \in Nat /\ \A i \in 1..n : bytes[i] \in Bytes
    OBVIOUS
  <1>2. /\ bits \in Seq(Bits) /\ Len(bits) = 8 * n
        /\ \A i \in 1..n : /\ BitsOf(bytes[i], 8) \in Seq(Bits) /\ Len(BitsOf(bytes[i], 8)) = 8
                           /\ LiesAt(bits, 8 * (i - 1), BitsOf(bytes[i], 8))
    BY BitsOfBytesType
  <1> HIDE DEF bits, n
  <1>3. Len(bits) \div 8 = n
    BY ONLY <1>1, <1>2
  <1>4. /\ y \in Seq(Bytes) /\ Len(y) = n
        /\ \A i \in 1..n : y[i] = NumberOf(p(i))
    BY <1>2, <1>3, BytesOfBitsType
  <1>5. ASSUME NEW i \in 1..n PROVE y[i] = bytes[i]
    <2>1. p(i) = BitsOf(bytes[i], 8)
      <3> DEFINE o == 8 * (i - 1)
      <3>1. o \in Nat /\ o + 1 = 8 * i - 7 /\ o + 8 = 8 * i
        BY ONLY <1>1, i \in 1..n
      <3>2. BitsOf(bytes[i], 8) \in Seq(Bits) /\ Len(BitsOf(bytes[i], 8)) = 8
            /\ LiesAt(bits, o, BitsOf(bytes[i], 8))
        BY <1>2
      <3> HIDE DEF o
      <3>3. SubSeq(bits, o + 1, o + 8) = BitsOf(bytes[i], 8)
        <4>1. SubSeq(bits, o + 1, o + Len(BitsOf(bytes[i], 8))) = BitsOf(bytes[i], 8)
          BY <1>2, <3>1, <3>2, LiesAtIsSubSeq, Zenon
        <4> QED
          BY <3>2, <4>1, Zenon
      <3> QED
        BY <3>1, <3>3, Zenon
    <2>2. NumberOf(BitsOf(bytes[i], 8)) = bytes[i]
      <3>1. PICK pow : Doubles(pow)
        BY DoublesExists
      <3>2. PICK v \in Nat : v = bytes[i] /\ v < 256
        <4>1. bytes[i] \in Bytes /\ \A v \in Bytes : v \in Nat /\ v < 256
          BY <1>1 DEF Bytes
        <4> QED
          BY <4>1
      <3>3. pow[8] = 256
        BY <3>1, DoublesAre
      <3>4. 8 \in 0..16 /\ v < pow[8]
        BY ONLY <3>2, <3>3
      <3>5. NumberOf(BitsOf(v, 8)) = v
        BY <3>1, <3>4, NumberOfBits, Zenon
      <3> QED
        BY <3>2, <3>5, Zenon
    <2> QED
      BY <1>4, <2>1, <2>2, Zenon
  <1> HIDE DEF y
  <1>6. y = bytes
    <2>1. Len(y) = Len(bytes) /\ \A i \in 1..Len(y) : y[i] = bytes[i]
      BY <1>4, <1>5, Zenon DEF n
    <2> QED
      BY <1>4, <2>1, SeqEqual
  <1> QED
    BY <1>6, Zenon DEF y, bits

\* Bytes in front give bits in front.
LEMMA FrontBits ==
    ASSUME NEW bytes \in Seq(Bytes), NEW p \in Seq(Bytes), LiesAt(bytes, 0, p)
    PROVE  LiesAt(BitsOfBytes(bytes), 0, BitsOfBytes(p))
  <1> DEFINE n == Len(bytes)
             m == Len(p)
             x == BitsOfBytes(bytes)
             y == BitsOfBytes(p)
  <1>1. n \in Nat /\ m \in Nat /\ m <= n /\ \A i \in 1..m : bytes[i] = p[i]
    <2>1. n \in Nat /\ m \in Nat
      OBVIOUS
    <2>2. 0 + m <= n /\ \A i \in 1..m : bytes[0 + i] = p[i]
      BY Zenon DEF LiesAt
    <2>3. \A i \in 1..m : 0 + i = i
      BY <2>1
    <2> HIDE DEF n, m
    <2>4. m <= n
      BY <2>1, <2>2
    <2> QED
      BY <2>1, <2>2, <2>3, <2>4, Zenon
  <1>2. /\ Len(x) = 8 * n
        /\ \A i \in 1..n : /\ Len(BitsOf(bytes[i], 8)) = 8
                           /\ LiesAt(x, 8 * (i - 1), BitsOf(bytes[i], 8))
    BY BitsOfBytesType
  <1>3. /\ Len(y) = 8 * m
        /\ \A i \in 1..m : /\ Len(BitsOf(p[i], 8)) = 8
                           /\ LiesAt(y, 8 * (i - 1), BitsOf(p[i], 8))
    BY BitsOfBytesType
  <1> HIDE DEF n, m, x, y
  <1>4. ASSUME NEW j \in 1..8 * m PROVE x[0 + j] = y[j]
    <2> DEFINE i == ((j - 1) \div 8) + 1
               k == ((j - 1) % 8) + 1
    <2>1. i \in 1..m /\ i \in 1..n /\ k \in 1..8 /\ 8 * (i - 1) + k = j /\ 0 + j = j
      <3>1. m \in Nat /\ n \in Nat /\ m <= n
        BY <1>1
      <3> QED
        BY ONLY <3>1, j \in 1..8 * m
    <2> HIDE DEF i, k
    <2>2. x[8 * (i - 1) + k] = BitsOf(bytes[i], 8)[k]
      BY <1>2, <2>1, Zenon DEF LiesAt
    <2>3. y[8 * (i - 1) + k] = BitsOf(p[i], 8)[k]
      BY <1>3, <2>1, Zenon DEF LiesAt
    <2> QED
      BY <1>1, <2>1, <2>2, <2>3, Zenon
  <1>5. 0 + 8 * m <= 8 * n
    <2>1. m \in Nat /\ n \in Nat /\ m <= n
      BY <1>1
    <2> QED
      BY ONLY <2>1
  <1> QED
    BY <1>2, <1>3, <1>4, <1>5, Zenon DEF LiesAt, x, y

----------------------------------------------------------------------------
(* Fields and headers                                                      *)

FieldAt(bits, at, w) == NumberOf(SubSeq(bits, at + 1, at + w))

LEMMA FieldRead ==
    ASSUME NEW pow, Doubles(pow), NEW bits \in Seq(Bits), NEW at \in Nat, NEW w \in 0..16,
           NEW v \in Nat, v < pow[w], LiesAt(bits, at, BitsOf(v, w))
    PROVE  FieldAt(bits, at, w) = v
  <1>1. w \in Nat
    OBVIOUS
  <1>2. BitsOf(v, w) \in Seq(Bits) /\ Len(BitsOf(v, w)) = w
    BY <1>1, BitsOfType
  <1>3. SubSeq(bits, at + 1, at + Len(BitsOf(v, w))) = BitsOf(v, w)
    BY <1>2, LiesAtIsSubSeq, Zenon
  <1>4. NumberOf(BitsOf(v, w)) = v
    BY NumberOfBits
  <1> QED
    BY <1>2, <1>3, <1>4, Zenon DEF FieldAt

LEMMA FieldAgain ==
    ASSUME NEW pow, Doubles(pow), NEW bits \in Seq(Bits), NEW at \in Nat, NEW w \in 0..16,
           at + w <= Len(bits)
    PROVE  /\ FieldAt(bits, at, w) \in 0..pow[w] - 1
           /\ LiesAt(bits, at, BitsOf(FieldAt(bits, at, w), w))
  <1> DEFINE p == SubSeq(bits, at + 1, at + w)
  <1>1. w \in Nat
    OBVIOUS
  <1>2. p \in Seq(Bits) /\ Len(p) = w /\ LiesAt(bits, at, p)
    BY <1>1, SubSeqLiesAt
  <1> HIDE DEF p
  <1>3. NumberOf(p) \in 0..pow[Len(p)] - 1
    <2>1. Len(p) <= 16
      BY <1>2
    <2> QED
      BY <1>2, <2>1, NumberOfType, Zenon
  <1>4. BitsOf(NumberOf(p), Len(p)) = p
    BY <1>2, BitsOfNumber
  <1> QED
    BY <1>2, <1>3, <1>4, Zenon DEF FieldAt, p

\* One more piece of what lies in front.
LEMMA LiesNext ==
    ASSUME NEW c \in Seq(Bits), NEW p \in Seq(Bits)
    PROVE  /\ c \o p \in Seq(Bits)
           /\ Len(c \o p) = Len(c) + Len(p)
           /\ \A bits \in Seq(Bits) :
                LiesAt(bits, 0, c \o p) <=> LiesAt(bits, 0, c) /\ LiesAt(bits, Len(c), p)
  <1>1. c \o p \in Seq(Bits) /\ Len(c \o p) = Len(c) + Len(p)
    BY ConcatProperties, Zenon
  <1>2. 0 \in Nat /\ 0 + Len(c) = Len(c)
    OBVIOUS
  <1>3. ASSUME NEW bits \in Seq(Bits)
        PROVE  LiesAt(bits, 0, c \o p) <=> LiesAt(bits, 0, c) /\ LiesAt(bits, Len(c), p)
    <2>1. LiesAt(bits, 0, c \o p) <=> LiesAt(bits, 0, c) /\ LiesAt(bits, 0 + Len(c), p)
      BY <1>2, LiesAtConcat, Zenon
    <2> QED
      BY <1>2, <2>1, Zenon
  <1> QED
    BY <1>1, <1>3

DateBits(h) ==
    IF HasDate(h) THEN BitsOf(h.date.month, 4) \o BitsOf(h.date.day, 5) ELSE << >>
SecondsBits(h) == IF HasSeconds(h) THEN BitsOf(h.seconds, 6) ELSE << >>
SegBits(h) ==
    IF h.seg # None THEN BitsOf(h.seg.file, 10) \o BitsOf(h.seg.total, 9) \o BitsOf(h.seg.number, 9)
                    ELSE << >>

DateLen(h) == 9 * Flag(HasDate(h))
SecondsLen(h) == 6 * Flag(HasSeconds(h))
SegLen(h) == 28 * Flag(h.flagged)
HeaderLen(h) == 28 + DateLen(h) + SecondsLen(h) + SegLen(h)

HeaderAt(bits, h) ==
    /\ LiesAt(bits, 0, BitsOf(h.agp, 3))
    /\ LiesAt(bits, 3, BitsOf(h.product, 11))
    /\ LiesAt(bits, 14, <<Flag(h.flagged)>>)
    /\ LiesAt(bits, 15, TimeFlags(h))
    /\ LiesAt(bits, 17, DateBits(h))
    /\ LiesAt(bits, 17 + DateLen(h), BitsOf(h.hours, 5))
    /\ LiesAt(bits, 22 + DateLen(h), BitsOf(h.minutes, 6))
    /\ LiesAt(bits, 28 + DateLen(h), SecondsBits(h))
    /\ LiesAt(bits, 28 + DateLen(h) + SecondsLen(h), SegBits(h))

\* The fields of an operational header fit their bits.
Below(v, n) == v \in Nat /\ v < n

Fitting(h) ==
    /\ Below(h.agp, 8) /\ Below(h.product, 2048) /\ Below(h.hours, 32) /\ Below(h.minutes, 64)
    /\ HasDate(h) => Below(h.date.month, 16) /\ Below(h.date.day, 32)
    /\ HasSeconds(h) => Below(h.seconds, 64)
    /\ h.seg # None =>
         Below(h.seg.file, 1024) /\ Below(h.seg.total, 512) /\ Below(h.seg.number, 512)

LEMMA SmallNumbers ==
    ASSUME NEW v
    PROVE  /\ v = 0 => Below(v, 8)
           /\ v \in 0..2047 => Below(v, 2048)
           /\ v \in 0..23 => Below(v, 32)
           /\ v \in 0..59 => Below(v, 64)
           /\ v \in 1..12 => Below(v, 16)
           /\ v \in 1..31 => Below(v, 32)
           /\ v \in 0..1023 => Below(v, 1024)
           /\ v \in 1..511 => Below(v, 512) /\ \A n \in 1..v : Below(n, 512)
  <1>1. v = 0 => Below(v, 8)
    BY DEF Below
  <1>2. v \in 0..2047 => Below(v, 2048)
    BY DEF Below
  <1>3. v \in 0..23 => Below(v, 32)
    BY DEF Below
  <1>4. v \in 0..59 => Below(v, 64)
    BY DEF Below
  <1>5. v \in 1..12 => Below(v, 16)
    BY DEF Below
  <1>6. v \in 1..31 => Below(v, 32)
    BY DEF Below
  <1>7. v \in 0..1023 => Below(v, 1024)
    BY DEF Below
  <1>8. v \in 1..511 => Below(v, 512) /\ \A n \in 1..v : Below(n, 512)
    BY DEF Below
  <1> QED
    BY <1>1, <1>2, <1>3, <1>4, <1>5, <1>6, <1>7, <1>8

\* And its flags say which of them there are.
Flagged(h) ==
    /\ h.flagged = (h.seg # None)
    /\ Flag(h.flagged) \in Bits /\ Flag(HasDate(h)) \in Bits /\ Flag(HasSeconds(h)) \in Bits
    /\ h.option = 2 * Flag(HasDate(h)) + Flag(HasSeconds(h))
    /\ h.option \div 2 = Flag(HasDate(h)) /\ h.option % 2 = Flag(HasSeconds(h))

LEMMA FieldsFit ==
    ASSUME NEW h, Operational(h)
    PROVE  Fitting(h) /\ Flagged(h) /\ h.agp = 0
  <1>1. Valid(h) /\ h.agp = 0
    BY DEF Operational
  <1>2. /\ h.flagged = (h.seg # None)
        /\ h.option = 2 * Flag(HasDate(h)) + Flag(HasSeconds(h))
    BY <1>1 DEF Valid, TimeOptionAgrees
  <1>3. Flag(h.flagged) \in Bits /\ Flag(HasDate(h)) \in Bits /\ Flag(HasSeconds(h)) \in Bits
    BY DEF Flag, Bits
  <1>4. h.option \div 2 = Flag(HasDate(h)) /\ h.option % 2 = Flag(HasSeconds(h))
    <2>1. \A x, y \in Bits : (2 * x + y) \div 2 = x /\ (2 * x + y) % 2 = y
      BY DEF Bits
    <2>2. PICK x \in Bits, y \in Bits : x = Flag(HasDate(h)) /\ y = Flag(HasSeconds(h))
      BY <1>3
    <2>3. h.option = 2 * x + y
      BY <1>2, <2>2
    <2>4. (2 * x + y) \div 2 = x /\ (2 * x + y) % 2 = y
      BY <2>1
    <2> QED
      BY <2>2, <2>3, <2>4
  <1>5. Below(h.agp, 8) /\ Below(h.product, 2048) /\ Below(h.hours, 32) /\ Below(h.minutes, 64)
    <2>1. h.agp = 0 /\ h.product \in 0..2047 /\ h.hours \in 0..23 /\ h.minutes \in 0..59
      BY <1>1 DEF Valid
    <2> QED
      BY <2>1, SmallNumbers
  <1>6. ASSUME HasDate(h) PROVE Below(h.date.month, 16) /\ Below(h.date.day, 32)
    <2>1. h.date.month \in 1..12 /\ h.date.day \in 1..31
      BY <1>1, <1>6 DEF Valid
    <2> QED
      BY <2>1, SmallNumbers
  <1>7. ASSUME HasSeconds(h) PROVE Below(h.seconds, 64)
    <2>1. h.seconds \in 0..59
      BY <1>1, <1>7 DEF Valid
    <2> QED
      BY <2>1, SmallNumbers
  <1>70. ASSUME h.seg # None
        PROVE  Below(h.seg.file, 1024) /\ Below(h.seg.total, 512) /\ Below(h.seg.number, 512)
    <2>1. h.seg.file \in 0..1023 /\ h.seg.total \in 1..511 /\ h.seg.number \in 1..h.seg.total
      BY <1>1, <1>70 DEF Valid
    <2>2. Below(h.seg.file, 1024) /\ Below(h.seg.total, 512)
      BY <2>1, SmallNumbers
    <2>3. \A n \in 1..h.seg.total : Below(n, 512)
      <3>1. PICK m : m = h.seg.total
        OBVIOUS
      <3>2. m \in 1..511
        BY <2>1, <3>1, SMTT(40)
      <3>3. \A n \in 1..m : Below(n, 512)
        BY ONLY <3>2, SmallNumbers, SMTT(40)
      <3> QED
        BY <3>1, <3>3, Zenon
    <2> QED
      BY <2>1, <2>2, <2>3
  <1>8. Fitting(h)
    BY <1>5, <1>6, <1>7, <1>70 DEF Fitting
  <1>9. Flagged(h)
    BY <1>2, <1>3, <1>4 DEF Flagged
  <1> QED
    BY <1>1, <1>8, <1>9

LEMMA FieldsAsBits ==
    ASSUME NEW h, Operational(h)
    PROVE  /\ BitsOf(h.agp, 3) \in Seq(Bits) /\ Len(BitsOf(h.agp, 3)) = 3
           /\ BitsOf(h.product, 11) \in Seq(Bits) /\ Len(BitsOf(h.product, 11)) = 11
           /\ BitsOf(h.hours, 5) \in Seq(Bits) /\ Len(BitsOf(h.hours, 5)) = 5
           /\ BitsOf(h.minutes, 6) \in Seq(Bits) /\ Len(BitsOf(h.minutes, 6)) = 6
           /\ HasDate(h) =>
                /\ BitsOf(h.date.month, 4) \in Seq(Bits) /\ Len(BitsOf(h.date.month, 4)) = 4
                /\ BitsOf(h.date.day, 5) \in Seq(Bits) /\ Len(BitsOf(h.date.day, 5)) = 5
           /\ HasSeconds(h) =>
                BitsOf(h.seconds, 6) \in Seq(Bits) /\ Len(BitsOf(h.seconds, 6)) = 6
           /\ h.seg # None =>
                /\ BitsOf(h.seg.file, 10) \in Seq(Bits) /\ Len(BitsOf(h.seg.file, 10)) = 10
                /\ BitsOf(h.seg.total, 9) \in Seq(Bits) /\ Len(BitsOf(h.seg.total, 9)) = 9
                /\ BitsOf(h.seg.number, 9) \in Seq(Bits) /\ Len(BitsOf(h.seg.number, 9)) = 9
  <1>0. Fitting(h)
    BY FieldsFit
  <1>1. /\ 3 \in Nat /\ 4 \in Nat /\ 5 \in Nat /\ 6 \in Nat /\ 9 \in Nat /\ 10 \in Nat /\ 11 \in Nat
    OBVIOUS
  <1>2. BitsOf(h.agp, 3) \in Seq(Bits) /\ Len(BitsOf(h.agp, 3)) = 3
    <2>1. h.agp \in Nat
      BY <1>0 DEF Fitting, Below
    <2> QED
      BY <1>1, <2>1, BitsOfType, Zenon
  <1>3. BitsOf(h.product, 11) \in Seq(Bits) /\ Len(BitsOf(h.product, 11)) = 11
    <2>1. h.product \in Nat
      BY <1>0 DEF Fitting, Below
    <2> QED
      BY <1>1, <2>1, BitsOfType, Zenon
  <1>4. BitsOf(h.hours, 5) \in Seq(Bits) /\ Len(BitsOf(h.hours, 5)) = 5
    <2>1. h.hours \in Nat
      BY <1>0 DEF Fitting, Below
    <2> QED
      BY <1>1, <2>1, BitsOfType, Zenon
  <1>5. BitsOf(h.minutes, 6) \in Seq(Bits) /\ Len(BitsOf(h.minutes, 6)) = 6
    <2>1. h.minutes \in Nat
      BY <1>0 DEF Fitting, Below
    <2> QED
      BY <1>1, <2>1, BitsOfType, Zenon
  <1>6. ASSUME HasDate(h)
        PROVE  /\ BitsOf(h.date.month, 4) \in Seq(Bits) /\ Len(BitsOf(h.date.month, 4)) = 4
               /\ BitsOf(h.date.day, 5) \in Seq(Bits) /\ Len(BitsOf(h.date.day, 5)) = 5
    <2>1. h.date.month \in Nat /\ h.date.day \in Nat
      BY <1>0, <1>6 DEF Fitting, Below
    <2>2. BitsOf(h.date.month, 4) \in Seq(Bits) /\ Len(BitsOf(h.date.month, 4)) = 4
      BY <1>1, <2>1, BitsOfType, Zenon
    <2>3. BitsOf(h.date.day, 5) \in Seq(Bits) /\ Len(BitsOf(h.date.day, 5)) = 5
      BY <1>1, <2>1, BitsOfType, Zenon
    <2> QED
      BY <2>2, <2>3
  <1>7. ASSUME HasSeconds(h)
        PROVE  BitsOf(h.seconds, 6) \in Seq(Bits) /\ Len(BitsOf(h.seconds, 6)) = 6
    <2>1. h.seconds \in Nat
      BY <1>0, <1>7 DEF Fitting, Below
    <2> QED
      BY <1>1, <2>1, BitsOfType, Zenon
  <1>8. ASSUME h.seg # None
        PROVE  /\ BitsOf(h.seg.file, 10) \in Seq(Bits) /\ Len(BitsOf(h.seg.file, 10)) = 10
               /\ BitsOf(h.seg.total, 9) \in Seq(Bits) /\ Len(BitsOf(h.seg.total, 9)) = 9
               /\ BitsOf(h.seg.number, 9) \in Seq(Bits) /\ Len(BitsOf(h.seg.number, 9)) = 9
    <2>1. h.seg.file \in Nat /\ h.seg.total \in Nat /\ h.seg.number \in Nat
      BY <1>0, <1>8 DEF Fitting, Below
    <2>2. BitsOf(h.seg.file, 10) \in Seq(Bits) /\ Len(BitsOf(h.seg.file, 10)) = 10
      BY <1>1, <2>1, BitsOfType, Zenon
    <2>3. BitsOf(h.seg.total, 9) \in Seq(Bits) /\ Len(BitsOf(h.seg.total, 9)) = 9
      BY <1>1, <2>1, BitsOfType, Zenon
    <2>4. BitsOf(h.seg.number, 9) \in Seq(Bits) /\ Len(BitsOf(h.seg.number, 9)) = 9
      BY <1>1, <2>1, BitsOfType, Zenon
    <2> QED
      BY <2>2, <2>3, <2>4
  <1> QED
    BY <1>2, <1>3, <1>4, <1>5, <1>6, <1>7, <1>8

\* The parts of a header that may be missing, and the flags.
LEMMA OptionalBits ==
    ASSUME NEW h, Operational(h)
    PROVE  /\ <<Flag(h.flagged)>> \in Seq(Bits) /\ Len(<<Flag(h.flagged)>>) = 1
           /\ TimeFlags(h) \in Seq(Bits) /\ Len(TimeFlags(h)) = 2
           /\ DateBits(h) \in Seq(Bits) /\ Len(DateBits(h)) = DateLen(h)
           /\ SecondsBits(h) \in Seq(Bits) /\ Len(SecondsBits(h)) = SecondsLen(h)
           /\ SegBits(h) \in Seq(Bits) /\ Len(SegBits(h)) = SegLen(h)
           /\ DateLen(h) \in {0, 9} /\ SecondsLen(h) \in {0, 6} /\ SegLen(h) \in {0, 28}
  <1>1. Flagged(h)
    BY FieldsFit
  <1>2. /\ h.flagged = (h.seg # None)
        /\ Flag(h.flagged) \in Bits /\ Flag(HasDate(h)) \in Bits /\ Flag(HasSeconds(h)) \in Bits
        /\ h.option \div 2 = Flag(HasDate(h)) /\ h.option % 2 = Flag(HasSeconds(h))
    BY <1>1, Zenon DEF Flagged
  <1>3. /\ HasDate(h) =>
             /\ BitsOf(h.date.month, 4) \in Seq(Bits) /\ Len(BitsOf(h.date.month, 4)) = 4
             /\ BitsOf(h.date.day, 5) \in Seq(Bits) /\ Len(BitsOf(h.date.day, 5)) = 5
        /\ HasSeconds(h) =>
             BitsOf(h.seconds, 6) \in Seq(Bits) /\ Len(BitsOf(h.seconds, 6)) = 6
        /\ h.seg # None =>
             /\ BitsOf(h.seg.file, 10) \in Seq(Bits) /\ Len(BitsOf(h.seg.file, 10)) = 10
             /\ BitsOf(h.seg.total, 9) \in Seq(Bits) /\ Len(BitsOf(h.seg.total, 9)) = 9
             /\ BitsOf(h.seg.number, 9) \in Seq(Bits) /\ Len(BitsOf(h.seg.number, 9)) = 9
    BY FieldsAsBits, Zenon
  <1>6. <<Flag(h.flagged)>> \in Seq(Bits) /\ Len(<<Flag(h.flagged)>>) = 1
    <2>1. PICK x \in Bits : x = Flag(h.flagged)
      BY <1>2
    <2>2. <<x>> \in Seq(Bits) /\ Len(<<x>>) = 1
      OBVIOUS
    <2> QED
      BY <2>1, <2>2, Zenon
  <1>7. TimeFlags(h) \in Seq(Bits) /\ Len(TimeFlags(h)) = 2
    <2>1. PICK x \in Bits, y \in Bits : x = h.option \div 2 /\ y = h.option % 2
      BY <1>2
    <2>2. <<x, y>> \in Seq(Bits) /\ Len(<<x, y>>) = 2
      OBVIOUS
    <2> QED
      BY <2>1, <2>2, Zenon DEF TimeFlags
  <1>8. << >> \in Seq(Bits) /\ Len(<< >>) = 0
    OBVIOUS
  <1>9. DateBits(h) \in Seq(Bits) /\ Len(DateBits(h)) = DateLen(h)
    <2>1. CASE HasDate(h)
      <3>1. PICK p \in Seq(Bits), q \in Seq(Bits) :
               p = BitsOf(h.date.month, 4) /\ q = BitsOf(h.date.day, 5) /\ Len(p) = 4 /\ Len(q) = 5
        BY <1>3, <2>1, Zenon
      <3>2. p \o q \in Seq(Bits) /\ Len(p \o q) = 4 + 5
        <4>1. p \o q \in Seq(Bits) /\ Len(p \o q) = Len(p) + Len(q)
          BY ConcatProperties, Zenon
        <4> QED
          BY <3>1, <4>1, Zenon
      <3>3. DateLen(h) = 4 + 5
        BY <2>1 DEF DateLen, Flag
      <3> QED
        BY <2>1, <3>1, <3>2, <3>3, Zenon DEF DateBits
    <2>2. CASE ~ HasDate(h)
      <3>1. DateLen(h) = 0
        BY <2>2 DEF DateLen, Flag
      <3> QED
        BY <1>8, <2>2, <3>1, Zenon DEF DateBits
    <2> QED
      BY <2>1, <2>2
  <1>10. SecondsBits(h) \in Seq(Bits) /\ Len(SecondsBits(h)) = SecondsLen(h)
    <2>1. CASE HasSeconds(h)
      <3>1. BitsOf(h.seconds, 6) \in Seq(Bits) /\ Len(BitsOf(h.seconds, 6)) = 6
        BY <1>3, <2>1, Zenon
      <3>2. SecondsLen(h) = 6
        BY <2>1 DEF SecondsLen, Flag
      <3> QED
        BY <2>1, <3>1, <3>2, Zenon DEF SecondsBits
    <2>2. CASE ~ HasSeconds(h)
      <3>1. SecondsLen(h) = 0
        BY <2>2 DEF SecondsLen, Flag
      <3> QED
        BY <1>8, <2>2, <3>1, Zenon DEF SecondsBits
    <2> QED
      BY <2>1, <2>2
  <1>11. SegBits(h) \in Seq(Bits) /\ Len(SegBits(h)) = SegLen(h)
    <2>1. CASE h.seg # None
      <3>1. PICK p \in Seq(Bits), q \in Seq(Bits), r \in Seq(Bits) :
               /\ p = BitsOf(h.seg.file, 10) /\ q = BitsOf(h.seg.total, 9) /\ r = BitsOf(h.seg.number, 9)
               /\ Len(p) = 10 /\ Len(q) = 9 /\ Len(r) = 9
        BY <1>3, <2>1, Zenon
      <3>2. p \o q \in Seq(Bits) /\ Len(p \o q) = 10 + 9
        <4>1. p \o q \in Seq(Bits) /\ Len(p \o q) = Len(p) + Len(q)
          BY ConcatProperties, Zenon
        <4> QED
          BY <3>1, <4>1, Zenon
      <3>3. p \o q \o r \in Seq(Bits) /\ Len(p \o q \o r) = (10 + 9) + 9
        <4>1. p \o q \o r \in Seq(Bits) /\ Len(p \o q \o r) = Len(p \o q) + Len(r)
          BY <3>2, ConcatProperties, Zenon
        <4> QED
          BY <3>1, <3>2, <4>1, Zenon
      <3>4. SegLen(h) = (10 + 9) + 9
        <4>1. Flag(h.flagged) = 1
          BY <1>2, <2>1, Zenon DEF Flag
        <4> QED
          BY <4>1 DEF SegLen
      <3> QED
        BY <2>1, <3>1, <3>3, <3>4, Zenon DEF SegBits
    <2>2. CASE h.seg = None
      <3>1. SegLen(h) = 0
        <4>1. Flag(h.flagged) = 0
          BY <1>2, <2>2, Zenon DEF Flag
        <4> QED
          BY <4>1 DEF SegLen
      <3> QED
        BY <1>8, <2>2, <3>1, Zenon DEF SegBits
    <2> QED
      BY <2>1, <2>2
  <1>12. DateLen(h) \in {0, 9} /\ SecondsLen(h) \in {0, 6} /\ SegLen(h) \in {0, 28}
    BY <1>2 DEF DateLen, SecondsLen, SegLen, Bits
  <1> QED
    BY <1>6, <1>7, <1>9, <1>10, <1>11, <1>12, Zenon

LEMMA HeaderLies ==
    ASSUME NEW h, Operational(h)
    PROVE  /\ HeaderBits(h) \in Seq(Bits) /\ Len(HeaderBits(h)) = HeaderLen(h)
           /\ \A bits \in Seq(Bits) : LiesAt(bits, 0, HeaderBits(h)) <=> HeaderAt(bits, h)
  <1>1. PICK p1 \in Seq(Bits),
             p2 \in Seq(Bits),
             p3 \in Seq(Bits),
             p4 \in Seq(Bits),
             p5 \in Seq(Bits),
             p6 \in Seq(Bits),
             p7 \in Seq(Bits),
             p8 \in Seq(Bits),
             p9 \in Seq(Bits) :
           /\ p1 = BitsOf(h.agp, 3) /\ Len(p1) = 3
           /\ p2 = BitsOf(h.product, 11) /\ Len(p2) = 11
           /\ p3 = <<Flag(h.flagged)>> /\ Len(p3) = 1
           /\ p4 = TimeFlags(h) /\ Len(p4) = 2
           /\ p5 = DateBits(h) /\ Len(p5) = DateLen(h)
           /\ p6 = BitsOf(h.hours, 5) /\ Len(p6) = 5
           /\ p7 = BitsOf(h.minutes, 6) /\ Len(p7) = 6
           /\ p8 = SecondsBits(h) /\ Len(p8) = SecondsLen(h)
           /\ p9 = SegBits(h) /\ Len(p9) = SegLen(h)
    <2>1. /\ BitsOf(h.agp, 3) \in Seq(Bits) /\ Len(BitsOf(h.agp, 3)) = 3
          /\ BitsOf(h.product, 11) \in Seq(Bits) /\ Len(BitsOf(h.product, 11)) = 11
          /\ BitsOf(h.hours, 5) \in Seq(Bits) /\ Len(BitsOf(h.hours, 5)) = 5
          /\ BitsOf(h.minutes, 6) \in Seq(Bits) /\ Len(BitsOf(h.minutes, 6)) = 6
      BY FieldsAsBits, Zenon
    <2>2. /\ <<Flag(h.flagged)>> \in Seq(Bits) /\ Len(<<Flag(h.flagged)>>) = 1
          /\ TimeFlags(h) \in Seq(Bits) /\ Len(TimeFlags(h)) = 2
          /\ DateBits(h) \in Seq(Bits) /\ Len(DateBits(h)) = DateLen(h)
          /\ SecondsBits(h) \in Seq(Bits) /\ Len(SecondsBits(h)) = SecondsLen(h)
          /\ SegBits(h) \in Seq(Bits) /\ Len(SegBits(h)) = SegLen(h)
      BY OptionalBits, Zenon
    <2> QED
      BY <2>1, <2>2, Zenon
  <1>2. PICK d \in {0, 9}, s \in {0, 6}, g \in {0, 28} :
           d = DateLen(h) /\ s = SecondsLen(h) /\ g = SegLen(h)
    BY OptionalBits
  <1> DEFINE c2 == p1 \o p2
             c3 == c2 \o p3
             c4 == c3 \o p4
             c5 == c4 \o p5
             c6 == c5 \o p6
             c7 == c6 \o p7
             c8 == c7 \o p8
             c9 == c8 \o p9
  <1>3. HeaderBits(h) = c9
    BY <1>1, Zenon DEF HeaderBits, DateBits, SecondsBits, SegBits
  <1>4. /\ c2 \in Seq(Bits) /\ Len(c2) = 14
        /\ \A bits \in Seq(Bits) :
              LiesAt(bits, 0, c2) <=> LiesAt(bits, 0, p1) /\ LiesAt(bits, 3, p2)
    <2>1. p1 \in Seq(Bits) /\ Len(p1) = 3 /\ Len(p2) = 11
      BY <1>1
    <2>2. (3) + 11 = 14
      BY ONLY d \in {0, 9}, s \in {0, 6}, g \in {0, 28}
    <2> HIDE DEF c3
    <2>3. /\ p1 \o p2 \in Seq(Bits) /\ Len(p1 \o p2) = Len(p1) + Len(p2)
          /\ \A bits \in Seq(Bits) :
                LiesAt(bits, 0, p1 \o p2)
                  <=> LiesAt(bits, 0, p1) /\ LiesAt(bits, Len(p1), p2)
      BY <2>1, LiesNext, Zenon
    <2> QED
      BY <2>1, <2>2, <2>3, Zenon
  <1>5. /\ c3 \in Seq(Bits) /\ Len(c3) = 15
        /\ \A bits \in Seq(Bits) :
              LiesAt(bits, 0, c3) <=> LiesAt(bits, 0, c2) /\ LiesAt(bits, 14, p3)
    <2>1. c2 \in Seq(Bits) /\ Len(c2) = 14 /\ Len(p3) = 1
      BY <1>1, <1>2, <1>4
    <2>2. (14) + 1 = 15
      BY ONLY d \in {0, 9}, s \in {0, 6}, g \in {0, 28}
    <2> HIDE DEF c2
    <2>3. /\ c2 \o p3 \in Seq(Bits) /\ Len(c2 \o p3) = Len(c2) + Len(p3)
          /\ \A bits \in Seq(Bits) :
                LiesAt(bits, 0, c2 \o p3)
                  <=> LiesAt(bits, 0, c2) /\ LiesAt(bits, Len(c2), p3)
      BY <2>1, LiesNext, Zenon
    <2> QED
      BY <2>1, <2>2, <2>3, Zenon
  <1>6. /\ c4 \in Seq(Bits) /\ Len(c4) = 17
        /\ \A bits \in Seq(Bits) :
              LiesAt(bits, 0, c4) <=> LiesAt(bits, 0, c3) /\ LiesAt(bits, 15, p4)
    <2>1. c3 \in Seq(Bits) /\ Len(c3) = 15 /\ Len(p4) = 2
      BY <1>1, <1>2, <1>5
    <2>2. (15) + 2 = 17
      BY ONLY d \in {0, 9}, s \in {0, 6}, g \in {0, 28}
    <2> HIDE DEF c3
    <2>3. /\ c3 \o p4 \in Seq(Bits) /\ Len(c3 \o p4) = Len(c3) + Len(p4)
          /\ \A bits \in Seq(Bits) :
                LiesAt(bits, 0, c3 \o p4)
                  <=> LiesAt(bits, 0, c3) /\ LiesAt(bits, Len(c3), p4)
      BY <2>1, LiesNext, Zenon
    <2> QED
      BY <2>1, <2>2, <2>3, Zenon
  <1>7. /\ c5 \in Seq(Bits) /\ Len(c5) = 17 + d
        /\ \A bits \in Seq(Bits) :
              LiesAt(bits, 0, c5) <=> LiesAt(bits, 0, c4) /\ LiesAt(bits, 17, p5)
    <2>1. c4 \in Seq(Bits) /\ Len(c4) = 17 /\ Len(p5) = d
      BY <1>1, <1>2, <1>6
    <2>2. (17) + d = 17 + d
      BY ONLY d \in {0, 9}, s \in {0, 6}, g \in {0, 28}
    <2> HIDE DEF c4
    <2>3. /\ c4 \o p5 \in Seq(Bits) /\ Len(c4 \o p5) = Len(c4) + Len(p5)
          /\ \A bits \in Seq(Bits) :
                LiesAt(bits, 0, c4 \o p5)
                  <=> LiesAt(bits, 0, c4) /\ LiesAt(bits, Len(c4), p5)
      BY <2>1, LiesNext, Zenon
    <2> QED
      BY <2>1, <2>2, <2>3, Zenon
  <1>8. /\ c6 \in Seq(Bits) /\ Len(c6) = 22 + d
        /\ \A bits \in Seq(Bits) :
              LiesAt(bits, 0, c6) <=> LiesAt(bits, 0, c5) /\ LiesAt(bits, 17 + d, p6)
    <2>1. c5 \in Seq(Bits) /\ Len(c5) = 17 + d /\ Len(p6) = 5
      BY <1>1, <1>2, <1>7
    <2>2. (17 + d) + 5 = 22 + d
      BY ONLY d \in {0, 9}, s \in {0, 6}, g \in {0, 28}
    <2> HIDE DEF c5
    <2>3. /\ c5 \o p6 \in Seq(Bits) /\ Len(c5 \o p6) = Len(c5) + Len(p6)
          /\ \A bits \in Seq(Bits) :
                LiesAt(bits, 0, c5 \o p6)
                  <=> LiesAt(bits, 0, c5) /\ LiesAt(bits, Len(c5), p6)
      BY <2>1, LiesNext, Zenon
    <2> QED
      BY <2>1, <2>2, <2>3, Zenon
  <1>9. /\ c7 \in Seq(Bits) /\ Len(c7) = 28 + d
        /\ \A bits \in Seq(Bits) :
              LiesAt(bits, 0, c7) <=> LiesAt(bits, 0, c6) /\ LiesAt(bits, 22 + d, p7)
    <2>1. c6 \in Seq(Bits) /\ Len(c6) = 22 + d /\ Len(p7) = 6
      BY <1>1, <1>2, <1>8
    <2>2. (22 + d) + 6 = 28 + d
      BY ONLY d \in {0, 9}, s \in {0, 6}, g \in {0, 28}
    <2> HIDE DEF c6
    <2>3. /\ c6 \o p7 \in Seq(Bits) /\ Len(c6 \o p7) = Len(c6) + Len(p7)
          /\ \A bits \in Seq(Bits) :
                LiesAt(bits, 0, c6 \o p7)
                  <=> LiesAt(bits, 0, c6) /\ LiesAt(bits, Len(c6), p7)
      BY <2>1, LiesNext, Zenon
    <2> QED
      BY <2>1, <2>2, <2>3, Zenon
  <1>10. /\ c8 \in Seq(Bits) /\ Len(c8) = 28 + d + s
        /\ \A bits \in Seq(Bits) :
              LiesAt(bits, 0, c8) <=> LiesAt(bits, 0, c7) /\ LiesAt(bits, 28 + d, p8)
    <2>1. c7 \in Seq(Bits) /\ Len(c7) = 28 + d /\ Len(p8) = s
      BY <1>1, <1>2, <1>9
    <2>2. (28 + d) + s = 28 + d + s
      BY ONLY d \in {0, 9}, s \in {0, 6}, g \in {0, 28}
    <2> HIDE DEF c7
    <2>3. /\ c7 \o p8 \in Seq(Bits) /\ Len(c7 \o p8) = Len(c7) + Len(p8)
          /\ \A bits \in Seq(Bits) :
                LiesAt(bits, 0, c7 \o p8)
                  <=> LiesAt(bits, 0, c7) /\ LiesAt(bits, Len(c7), p8)
      BY <2>1, LiesNext, Zenon
    <2> QED
      BY <2>1, <2>2, <2>3, Zenon
  <1>11. /\ c9 \in Seq(Bits) /\ Len(c9) = 28 + d + s + g
        /\ \A bits \in Seq(Bits) :
              LiesAt(bits, 0, c9) <=> LiesAt(bits, 0, c8) /\ LiesAt(bits, 28 + d + s, p9)
    <2>1. c8 \in Seq(Bits) /\ Len(c8) = 28 + d + s /\ Len(p9) = g
      BY <1>1, <1>2, <1>10
    <2>2. (28 + d + s) + g = 28 + d + s + g
      BY ONLY d \in {0, 9}, s \in {0, 6}, g \in {0, 28}
    <2> HIDE DEF c8
    <2>3. /\ c8 \o p9 \in Seq(Bits) /\ Len(c8 \o p9) = Len(c8) + Len(p9)
          /\ \A bits \in Seq(Bits) :
                LiesAt(bits, 0, c8 \o p9)
                  <=> LiesAt(bits, 0, c8) /\ LiesAt(bits, Len(c8), p9)
      BY <2>1, LiesNext, Zenon
    <2> QED
      BY <2>1, <2>2, <2>3, Zenon
  <1> HIDE DEF c2, c3, c4, c5, c6, c7, c8, c9
  <1>12. HeaderLen(h) = 28 + d + s + g
    BY <1>2 DEF HeaderLen
  <1>13. ASSUME NEW bits \in Seq(Bits) PROVE LiesAt(bits, 0, c9) <=> HeaderAt(bits, h)
    <2>1. LiesAt(bits, 0, c9) <=>
            /\ LiesAt(bits, 0, p1)
            /\ LiesAt(bits, 3, p2)
            /\ LiesAt(bits, 14, p3)
            /\ LiesAt(bits, 15, p4)
            /\ LiesAt(bits, 17, p5)
            /\ LiesAt(bits, 17 + d, p6)
            /\ LiesAt(bits, 22 + d, p7)
            /\ LiesAt(bits, 28 + d, p8)
            /\ LiesAt(bits, 28 + d + s, p9)
      BY <1>4, <1>5, <1>6, <1>7, <1>8, <1>9, <1>10, <1>11, Zenon
    <2> QED
      BY <1>1, <1>2, <2>1, Zenon DEF HeaderAt
  <1> QED
    BY <1>3, <1>11, <1>12, <1>13, Zenon

\* The header in whole bytes.
HeaderSize(h) == ByteCount(HeaderLen(h))

LEMMA PaddedHeader ==
    ASSUME NEW h, Operational(h)
    PROVE  /\ HeaderLen(h) \in 28..71 /\ HeaderSize(h) \in 4..9
           /\ HeaderLen(h) <= 8 * HeaderSize(h)
           /\ ZeroPadded(HeaderBits(h)) \in Seq(Bits)
           /\ Len(ZeroPadded(HeaderBits(h))) = 8 * HeaderSize(h)
           /\ \A bits \in Seq(Bits) :
                LiesAt(bits, 0, ZeroPadded(HeaderBits(h))) <=>
                  /\ LiesAt(bits, 0, HeaderBits(h))
                  /\ 8 * HeaderSize(h) <= Len(bits)
                  /\ \A i \in HeaderLen(h) + 1..8 * HeaderSize(h) : bits[i] = 0
  <1> DEFINE n == HeaderLen(h)
             m == HeaderSize(h)
             c == HeaderBits(h)
             zeros == [i \in 1..8 * m - n |-> 0]
  <1>1. n \in 28..71
    <2>1. PICK d \in {0, 9}, s \in {0, 6}, g \in {0, 28} :
             d = DateLen(h) /\ s = SecondsLen(h) /\ g = SegLen(h)
      BY OptionalBits
    <2>2. n = 28 + d + s + g
      BY <2>1, Zenon DEF HeaderLen
    <2>3. 28 + d + s + g \in 28..71
      BY ONLY d \in {0, 9}, s \in {0, 6}, g \in {0, 28}
    <2> QED
      BY <2>2, <2>3
  <1>2. m = (n + 7) \div 8
    BY DEF HeaderSize, ByteCount
  <1> HIDE DEF n, m
  <1>3. m \in 4..9 /\ n <= 8 * m /\ 8 * m - n \in Nat /\ n + (8 * m - n) = 8 * m
    BY ONLY <1>1, <1>2
  <1>4. c \in Seq(Bits) /\ Len(c) = n
    BY HeaderLies DEF n
  <1>5. zeros \in Seq(Bits) /\ Len(zeros) = 8 * m - n /\ \A i \in 1..8 * m - n : zeros[i] = 0
    <2> DEFINE k == 8 * m - n
    <2>1. k \in Nat
      BY <1>3
    <2> HIDE DEF k
    <2>2. [i \in 1..k |-> 0] \in Seq(Bits) /\ Len([i \in 1..k |-> 0]) = k
      BY ONLY <2>1 DEF Bits
    <2> QED
      BY <2>2 DEF k
  <1>6. ZeroPadded(c) = c \o zeros
    <2>1. ZeroPadded(c) = c \o [i \in 1..8 * ByteCount(Len(c)) - Len(c) |-> 0]
      BY DEF ZeroPadded
    <2>2. ByteCount(Len(c)) = m
      BY <1>4 DEF m, n, HeaderSize
    <2> HIDE DEF c
    <2> QED
      BY <1>4, <2>1, <2>2, Zenon
  <1> HIDE DEF c, zeros
  <1>7. /\ c \o zeros \in Seq(Bits) /\ Len(c \o zeros) = Len(c) + Len(zeros)
        /\ \A bits \in Seq(Bits) :
             LiesAt(bits, 0, c \o zeros) <=> LiesAt(bits, 0, c) /\ LiesAt(bits, Len(c), zeros)
    BY <1>4, <1>5, LiesNext, Zenon
  <1>8. ASSUME NEW bits \in Seq(Bits)
        PROVE  LiesAt(bits, n, zeros) <=>
                 8 * m <= Len(bits) /\ \A i \in n + 1..8 * m : bits[i] = 0
    <2>1. LiesAt(bits, n, zeros) <=>
            8 * m <= Len(bits) /\ \A i \in 1..8 * m - n : bits[n + i] = 0
      BY <1>3, <1>5, Zenon DEF LiesAt
    <2>2. \A i \in 1..8 * m - n : n + i \in n + 1..8 * m
      BY ONLY <1>1, <1>3
    <2>3. \A i \in n + 1..8 * m : i - n \in 1..8 * m - n /\ n + (i - n) = i
      BY ONLY <1>1, <1>3
    <2> QED
      BY <2>1, <2>2, <2>3, Zenon
  <1>9. Len(c \o zeros) = 8 * m
    BY <1>3, <1>4, <1>5, <1>7, Zenon
  <1>10. \A bits \in Seq(Bits) :
           LiesAt(bits, 0, ZeroPadded(c)) <=>
             /\ LiesAt(bits, 0, c)
             /\ 8 * m <= Len(bits)
             /\ \A i \in n + 1..8 * m : bits[i] = 0
    BY <1>4, <1>6, <1>7, <1>8, Zenon
  <1> QED
    BY <1>1, <1>3, <1>6, <1>7, <1>9, <1>10 DEF n, m, c

LEMMA EncodedHeader ==
    ASSUME NEW h, Operational(h)
    PROVE  /\ EncodeHeader(h) \in Seq(Bytes) /\ Len(EncodeHeader(h)) = HeaderSize(h)
           /\ BitsOfBytes(EncodeHeader(h)) = ZeroPadded(HeaderBits(h))
  <1> DEFINE z == ZeroPadded(HeaderBits(h))
             m == HeaderSize(h)
  <1>1. z \in Seq(Bits) /\ m \in Nat /\ Len(z) = 8 * m
    <2>1. m \in 4..9
      BY PaddedHeader
    <2> QED
      BY <2>1, PaddedHeader
  <1>2. EncodeHeader(h) = BytesOfBits(z)
    BY DEF EncodeHeader
  <1> HIDE DEF z, m
  <1>3. Len(z) \div 8 = m
    BY ONLY <1>1
  <1>4. BytesOfBits(z) \in Seq(Bytes) /\ Len(BytesOfBits(z)) = m
    BY <1>1, <1>3, BytesOfBitsType
  <1>5. BitsOfBytes(BytesOfBits(z)) = z
    BY <1>1, BitsOfThoseBytes
  <1> QED
    BY <1>2, <1>4, <1>5, Zenon DEF z, m

----------------------------------------------------------------------------
(* What the decoder makes of bits                                          *)

TimeAt(bits) == 17 + 9 * bits[16]
SegAt(bits) == TimeAt(bits) + 11 + 6 * bits[17]
EndAt(bits) == SegAt(bits) + 28 * bits[15]

Decoded(bits) ==
    [agp |-> FieldAt(bits, 0, 3), product |-> FieldAt(bits, 3, 11),
     flagged |-> bits[15] = 1, option |-> 2 * bits[16] + bits[17],
     date |-> IF bits[16] = 1
                THEN [month |-> FieldAt(bits, 17, 4), day |-> FieldAt(bits, 21, 5)]
                ELSE None,
     hours |-> FieldAt(bits, TimeAt(bits), 5), minutes |-> FieldAt(bits, TimeAt(bits) + 5, 6),
     seconds |-> IF bits[17] = 1 THEN FieldAt(bits, TimeAt(bits) + 11, 6) ELSE None,
     seg |-> IF bits[15] = 1
               THEN [file |-> FieldAt(bits, SegAt(bits), 10),
                     total |-> FieldAt(bits, SegAt(bits) + 10, 9),
                     number |-> FieldAt(bits, SegAt(bits) + 19, 9)]
               ELSE None]

Refused(bytes, bits) ==
    \/ Len(bytes) < 4
    \/ Len(bytes) < ByteCount(EndAt(bits))
    \/ \E i \in EndAt(bits) + 1..8 * ByteCount(EndAt(bits)) : bits[i] # 0
    \/ ~ Operational(Decoded(bits))

LEMMA DecodeHeaderIs ==
    ASSUME NEW bytes, NEW bits, bits = BitsOfBytes(bytes)
    PROVE  DecodeHeader(bytes) =
             IF Refused(bytes, bits) THEN Error
             ELSE [header |-> Decoded(bits), size |-> ByteCount(EndAt(bits))]
  BY ZenonT(40) DEF DecodeHeader, Refused, Decoded, EndAt, SegAt, TimeAt, FieldAt

\* The flags of a header in its bits.
LEMMA FlagsAt ==
    ASSUME NEW h, Operational(h), NEW bits, HeaderAt(bits, h)
    PROVE  bits[15] = Flag(h.flagged) /\ bits[16] = Flag(HasDate(h)) /\ bits[17] = Flag(HasSeconds(h))
  <1>1. Flagged(h)
    BY FieldsFit
  <1>2. h.option \div 2 = Flag(HasDate(h)) /\ h.option % 2 = Flag(HasSeconds(h))
    BY <1>1, Zenon DEF Flagged
  <1>3. Len(<<Flag(h.flagged)>>) = 1 /\ Len(TimeFlags(h)) = 2
    BY OptionalBits
  <1>4. bits[14 + 1] = <<Flag(h.flagged)>>[1]
    <2>1. LiesAt(bits, 14, <<Flag(h.flagged)>>) /\ 1 \in 1..1
      BY DEF HeaderAt
    <2> QED
      BY <1>3, <2>1, Zenon DEF LiesAt
  <1>5. bits[15 + 1] = TimeFlags(h)[1] /\ bits[15 + 2] = TimeFlags(h)[2]
    <2>1. LiesAt(bits, 15, TimeFlags(h)) /\ 1 \in 1..2 /\ 2 \in 1..2
      BY DEF HeaderAt
    <2> QED
      BY <1>3, <2>1, Zenon DEF LiesAt
  <1>6. TimeFlags(h)[1] = h.option \div 2 /\ TimeFlags(h)[2] = h.option % 2
    BY DEF TimeFlags
  <1>7. 14 + 1 = 15 /\ 15 + 1 = 16 /\ 15 + 2 = 17
    OBVIOUS
  <1>8. <<Flag(h.flagged)>>[1] = Flag(h.flagged)
    OBVIOUS
  <1> QED
    BY <1>2, <1>4, <1>5, <1>6, <1>7, <1>8

\* Where the optional parts begin.
LEMMA PlacesAt ==
    ASSUME NEW h, NEW bits,
           bits[15] = Flag(h.flagged), bits[16] = Flag(HasDate(h)), bits[17] = Flag(HasSeconds(h))
    PROVE  /\ TimeAt(bits) = 17 + DateLen(h) /\ TimeAt(bits) + 5 = 22 + DateLen(h)
           /\ TimeAt(bits) + 11 = 28 + DateLen(h)
           /\ SegAt(bits) = 28 + DateLen(h) + SecondsLen(h)
           /\ EndAt(bits) = HeaderLen(h)
           /\ bits[15] = 1 <=> h.flagged
           /\ bits[16] = 1 <=> HasDate(h)
           /\ bits[17] = 1 <=> HasSeconds(h)
  <1>1. PICK x \in {0, 1}, y \in {0, 1}, z \in {0, 1} :
           x = Flag(h.flagged) /\ y = Flag(HasDate(h)) /\ z = Flag(HasSeconds(h))
    BY Zenon DEF Flag
  <1>2. bits[15] = x /\ bits[16] = y /\ bits[17] = z
    BY <1>1
  <1>3. DateLen(h) = 9 * y /\ SecondsLen(h) = 6 * z /\ SegLen(h) = 28 * x
    BY <1>1, Zenon DEF DateLen, SecondsLen, SegLen
  <1>4. /\ TimeAt(bits) = 17 + 9 * y /\ SegAt(bits) = (17 + 9 * y) + 11 + 6 * z
        /\ EndAt(bits) = (17 + 9 * y) + 11 + 6 * z + 28 * x
    BY <1>2, Zenon DEF TimeAt, SegAt, EndAt
  <1>5. HeaderLen(h) = 28 + 9 * y + 6 * z + 28 * x
    BY <1>3, Zenon DEF HeaderLen
  <1>6. /\ (17 + 9 * y) + 5 = 22 + 9 * y /\ (17 + 9 * y) + 11 = 28 + 9 * y
        /\ (17 + 9 * y) + 11 + 6 * z = 28 + 9 * y + 6 * z
    OBVIOUS
  <1>7. x = 1 <=> h.flagged
    BY <1>1 DEF Flag
  <1>8. y = 1 <=> HasDate(h)
    BY <1>1 DEF Flag
  <1>9. z = 1 <=> HasSeconds(h)
    BY <1>1 DEF Flag
  <1> QED
    BY <1>2, <1>3, <1>4, <1>5, <1>6, <1>7, <1>8, <1>9, Zenon

\* Every field reads as it was written.
LEMMA FieldsReadBack ==
    ASSUME NEW h, Operational(h), NEW bits \in Seq(Bits), HeaderAt(bits, h)
    PROVE  /\ FieldAt(bits, 0, 3) = h.agp /\ FieldAt(bits, 3, 11) = h.product
           /\ FieldAt(bits, 17 + DateLen(h), 5) = h.hours
           /\ FieldAt(bits, 22 + DateLen(h), 6) = h.minutes
           /\ HasDate(h) => FieldAt(bits, 17, 4) = h.date.month /\ FieldAt(bits, 21, 5) = h.date.day
           /\ HasSeconds(h) => FieldAt(bits, 28 + DateLen(h), 6) = h.seconds
           /\ h.seg # None =>
                LET o == 28 + DateLen(h) + SecondsLen(h) IN
                  /\ FieldAt(bits, o, 10) = h.seg.file /\ FieldAt(bits, o + 10, 9) = h.seg.total
                  /\ FieldAt(bits, o + 19, 9) = h.seg.number
  <1>1. PICK pow : Doubles(pow)
    BY DoublesExists
  <1>2. /\ pow[3] = 8 /\ pow[4] = 16 /\ pow[5] = 32 /\ pow[6] = 64 /\ pow[9] = 512
        /\ pow[10] = 1024 /\ pow[11] = 2048
    BY <1>1, DoublesAre
  <1>3. Fitting(h)
    BY FieldsFit
  <1>4. PICK d \in {0, 9}, s \in {0, 6} : d = DateLen(h) /\ s = SecondsLen(h)
    BY OptionalBits
  <1>5. \A at \in Nat : \A w \in 0..16 : \A v : Below(v, pow[w]) /\ LiesAt(bits, at, BitsOf(v, w)) =>
          FieldAt(bits, at, w) = v
    BY <1>1, FieldRead DEF Below
  <1>6. /\ 3 \in 0..16 /\ 4 \in 0..16 /\ 5 \in 0..16 /\ 6 \in 0..16 /\ 9 \in 0..16
        /\ 10 \in 0..16 /\ 11 \in 0..16
        /\ 0 \in Nat /\ 3 \in Nat /\ 17 \in Nat /\ 21 \in Nat
        /\ 17 + d \in Nat /\ 22 + d \in Nat /\ 28 + d \in Nat /\ 28 + d + s \in Nat
        /\ (28 + d + s) + 10 \in Nat /\ (28 + d + s) + 19 \in Nat
    OBVIOUS
  <1>7. /\ LiesAt(bits, 0, BitsOf(h.agp, 3))
        /\ LiesAt(bits, 3, BitsOf(h.product, 11))
        /\ LiesAt(bits, 17, DateBits(h))
        /\ LiesAt(bits, 17 + d, BitsOf(h.hours, 5))
        /\ LiesAt(bits, 22 + d, BitsOf(h.minutes, 6))
        /\ LiesAt(bits, 28 + d, SecondsBits(h))
        /\ LiesAt(bits, 28 + d + s, SegBits(h))
    BY <1>4, Zenon DEF HeaderAt
  <1>8. FieldAt(bits, 0, 3) = h.agp
    <2>1. Below(h.agp, pow[3])
      BY <1>2, <1>3 DEF Fitting
    <2> QED
      BY <1>5, <1>6, <1>7, <2>1, Zenon
  <1>9. FieldAt(bits, 3, 11) = h.product
    <2>1. Below(h.product, pow[11])
      BY <1>2, <1>3 DEF Fitting
    <2> QED
      BY <1>5, <1>6, <1>7, <2>1, Zenon
  <1>10. FieldAt(bits, 17 + d, 5) = h.hours
    <2>1. Below(h.hours, pow[5])
      BY <1>2, <1>3 DEF Fitting
    <2> QED
      BY <1>5, <1>6, <1>7, <2>1, Zenon
  <1>11. FieldAt(bits, 22 + d, 6) = h.minutes
    <2>1. Below(h.minutes, pow[6])
      BY <1>2, <1>3 DEF Fitting
    <2> QED
      BY <1>5, <1>6, <1>7, <2>1, Zenon
  <1>12. ASSUME HasDate(h)
         PROVE  FieldAt(bits, 17, 4) = h.date.month /\ FieldAt(bits, 21, 5) = h.date.day
    <2>1. Below(h.date.month, pow[4]) /\ Below(h.date.day, pow[5])
      BY <1>2, <1>3, <1>12 DEF Fitting
    <2>2. PICK p \in Seq(Bits), q \in Seq(Bits) :
             p = BitsOf(h.date.month, 4) /\ q = BitsOf(h.date.day, 5) /\ Len(p) = 4
      BY <1>12, FieldsAsBits
    <2>3. LiesAt(bits, 17, p \o q)
      BY <1>7, <1>12, <2>2, Zenon DEF DateBits
    <2>4. LiesAt(bits, 17, p) /\ LiesAt(bits, 17 + Len(p), q)
      BY <1>6, <2>3, LiesAtConcat, Zenon
    <2>5. 17 + Len(p) = 21
      <3>1. 17 + 4 = 21
        OBVIOUS
      <3> QED
        BY <2>2, <3>1, Zenon
    <2> QED
      BY <1>5, <1>6, <2>1, <2>2, <2>4, <2>5, Zenon
  <1>13. ASSUME HasSeconds(h) PROVE FieldAt(bits, 28 + d, 6) = h.seconds
    <2>1. Below(h.seconds, pow[6])
      BY <1>2, <1>3, <1>13 DEF Fitting
    <2> QED
      BY <1>5, <1>6, <1>7, <1>13, <2>1, Zenon DEF SecondsBits
  <1>14. ASSUME h.seg # None
         PROVE  /\ FieldAt(bits, 28 + d + s, 10) = h.seg.file
                /\ FieldAt(bits, (28 + d + s) + 10, 9) = h.seg.total
                /\ FieldAt(bits, (28 + d + s) + 19, 9) = h.seg.number
    <2> DEFINE o == 28 + d + s
    <2>1. Below(h.seg.file, pow[10]) /\ Below(h.seg.total, pow[9]) /\ Below(h.seg.number, pow[9])
      BY <1>2, <1>3, <1>14 DEF Fitting
    <2>2. PICK p \in Seq(Bits), q \in Seq(Bits), r \in Seq(Bits) :
             /\ p = BitsOf(h.seg.file, 10) /\ q = BitsOf(h.seg.total, 9) /\ r = BitsOf(h.seg.number, 9)
             /\ Len(p) = 10 /\ Len(q) = 9
      BY <1>14, FieldsAsBits
    <2>3. o \in Nat /\ (o + 10) + 9 = o + 19 /\ o + 10 \in Nat /\ o + 19 \in Nat
      BY ONLY d \in {0, 9}, s \in {0, 6}
    <2>4. LiesAt(bits, o, (p \o q) \o r)
      BY <1>7, <1>14, <2>2, Zenon DEF SegBits
    <2> HIDE DEF o
    <2>5. p \o q \in Seq(Bits) /\ Len(p \o q) = Len(p) + Len(q)
      BY ConcatProperties, Zenon
    <2>6. LiesAt(bits, o, p \o q) /\ LiesAt(bits, o + Len(p \o q), r)
      BY <2>3, <2>4, <2>5, LiesAtConcat, Zenon
    <2>7. LiesAt(bits, o, p) /\ LiesAt(bits, o + Len(p), q)
      BY <2>3, <2>6, LiesAtConcat, Zenon
    <2>8. o + Len(p \o q) = o + 19 /\ o + Len(p) = o + 10
      <3>1. 10 + 9 = 19
        OBVIOUS
      <3> QED
        BY <2>2, <2>5, <3>1, Zenon
    <2>9. LiesAt(bits, o, p) /\ LiesAt(bits, o + 10, q) /\ LiesAt(bits, o + 19, r)
      BY <2>6, <2>7, <2>8, Zenon
    <2>10. FieldAt(bits, o, 10) = h.seg.file /\ FieldAt(bits, o + 10, 9) = h.seg.total
           /\ FieldAt(bits, o + 19, 9) = h.seg.number
      BY <1>5, <1>6, <2>1, <2>2, <2>3, <2>9, Zenon
    <2> QED
      BY <2>10 DEF o
  <1> QED
    BY <1>4, <1>8, <1>9, <1>10, <1>11, <1>12, <1>13, <1>14, Zenon

\* The decoder reads the header that the encoder wrote.
LEMMA HeaderReadBack ==
    ASSUME NEW h \in AnyHeaders, Operational(h),
           NEW bytes \in Seq(Bytes), LiesAt(bytes, 0, EncodeHeader(h))
    PROVE  DecodeHeader(bytes) = [header |-> h, size |-> HeaderSize(h)]
  <1> DEFINE bits == BitsOfBytes(bytes)
             m == HeaderSize(h)
  <1>1. bits \in Seq(Bits) /\ Len(bits) = 8 * Len(bytes) /\ Len(bytes) \in Nat
    BY BitsOfBytesType
  <1>2. /\ EncodeHeader(h) \in Seq(Bytes) /\ Len(EncodeHeader(h)) = m
        /\ BitsOfBytes(EncodeHeader(h)) = ZeroPadded(HeaderBits(h))
    BY EncodedHeader
  <1>3. LiesAt(bits, 0, ZeroPadded(HeaderBits(h)))
    <2>1. LiesAt(bits, 0, BitsOfBytes(EncodeHeader(h)))
      BY <1>2, FrontBits
    <2> QED
      BY <1>2, <2>1, Zenon
  <1> HIDE DEF bits
  <1>4. /\ LiesAt(bits, 0, HeaderBits(h))
        /\ \A i \in HeaderLen(h) + 1..8 * m : bits[i] = 0
    BY <1>1, <1>3, PaddedHeader, Zenon
  <1>5. HeaderAt(bits, h)
    BY <1>1, <1>4, HeaderLies, Zenon
  <1>6. bits[15] = Flag(h.flagged) /\ bits[16] = Flag(HasDate(h)) /\ bits[17] = Flag(HasSeconds(h))
    BY <1>5, FlagsAt, Zenon
  <1>7. /\ TimeAt(bits) = 17 + DateLen(h) /\ TimeAt(bits) + 5 = 22 + DateLen(h)
        /\ TimeAt(bits) + 11 = 28 + DateLen(h)
        /\ SegAt(bits) = 28 + DateLen(h) + SecondsLen(h)
        /\ EndAt(bits) = HeaderLen(h)
        /\ bits[15] = 1 <=> h.flagged
        /\ bits[16] = 1 <=> HasDate(h)
        /\ bits[17] = 1 <=> HasSeconds(h)
    BY <1>6, PlacesAt, Zenon
  <1>8. /\ FieldAt(bits, 0, 3) = h.agp /\ FieldAt(bits, 3, 11) = h.product
        /\ FieldAt(bits, 17 + DateLen(h), 5) = h.hours
        /\ FieldAt(bits, 22 + DateLen(h), 6) = h.minutes
        /\ HasDate(h) => FieldAt(bits, 17, 4) = h.date.month /\ FieldAt(bits, 21, 5) = h.date.day
        /\ HasSeconds(h) => FieldAt(bits, 28 + DateLen(h), 6) = h.seconds
        /\ h.seg # None =>
             /\ FieldAt(bits, 28 + DateLen(h) + SecondsLen(h), 10) = h.seg.file
             /\ FieldAt(bits, (28 + DateLen(h) + SecondsLen(h)) + 10, 9) = h.seg.total
             /\ FieldAt(bits, (28 + DateLen(h) + SecondsLen(h)) + 19, 9) = h.seg.number
    BY <1>1, <1>5, FieldsReadBack, Zenon
  <1>9. /\ h.flagged = (h.seg # None) /\ h.flagged \in BOOLEAN
        /\ h.option = 2 * Flag(HasDate(h)) + Flag(HasSeconds(h))
    BY FieldsFit DEF Flagged
  <1>10. Decoded(bits) = h
    <2> DEFINE dec == Decoded(bits)
               date == IF bits[16] = 1
                         THEN [month |-> FieldAt(bits, 17, 4), day |-> FieldAt(bits, 21, 5)]
                         ELSE None
               seconds == IF bits[17] = 1 THEN FieldAt(bits, TimeAt(bits) + 11, 6) ELSE None
               seg == IF bits[15] = 1
                        THEN [file |-> FieldAt(bits, SegAt(bits), 10),
                              total |-> FieldAt(bits, SegAt(bits) + 10, 9),
                              number |-> FieldAt(bits, SegAt(bits) + 19, 9)]
                        ELSE None
    <2>1. date = h.date
      <3>1. CASE HasDate(h)
        <4>1. h.date \in [month : Bytes, day : Bytes]
          BY <3>1 DEF AnyHeaders, HasDate
        <4>2. h.date = [month |-> h.date.month, day |-> h.date.day]
          BY <4>1
        <4> QED
          BY <1>7, <1>8, <3>1, <4>2, Zenon
      <3>2. CASE ~ HasDate(h)
        BY <1>7, <3>2, Zenon DEF HasDate
      <3> QED
        BY <3>1, <3>2
    <2>2. seconds = h.seconds
      <3>1. CASE HasSeconds(h)
        BY <1>7, <1>8, <3>1, Zenon
      <3>2. CASE ~ HasSeconds(h)
        BY <1>7, <3>2, Zenon DEF HasSeconds
      <3> QED
        BY <3>1, <3>2
    <2>3. seg = h.seg
      <3>1. CASE h.seg # None
        <4>1. h.seg \in [file : Words, total : Words, number : Words]
          BY <3>1 DEF AnyHeaders
        <4>2. h.seg = [file |-> h.seg.file, total |-> h.seg.total, number |-> h.seg.number]
          BY <4>1
        <4> QED
          BY <1>7, <1>8, <1>9, <3>1, <4>2, Zenon
      <3>2. CASE h.seg = None
        BY <1>7, <1>9, <3>2, Zenon
      <3> QED
        BY <3>1, <3>2
    <2>4. /\ FieldAt(bits, TimeAt(bits), 5) = h.hours /\ FieldAt(bits, TimeAt(bits) + 5, 6) = h.minutes
          /\ (bits[15] = 1) = h.flagged /\ 2 * bits[16] + bits[17] = h.option
      BY <1>6, <1>7, <1>8, <1>9, Zenon
    <2>5. dec = [agp |-> FieldAt(bits, 0, 3), product |-> FieldAt(bits, 3, 11),
                 flagged |-> bits[15] = 1, option |-> 2 * bits[16] + bits[17],
                 date |-> date, hours |-> FieldAt(bits, TimeAt(bits), 5),
                 minutes |-> FieldAt(bits, TimeAt(bits) + 5, 6),
                 seconds |-> seconds, seg |-> seg]
      BY Zenon DEF Decoded
    <2> HIDE DEF dec, date, seconds, seg
    <2>6. dec = [agp |-> h.agp, product |-> h.product, flagged |-> h.flagged, option |-> h.option,
                 date |-> h.date, hours |-> h.hours, minutes |-> h.minutes,
                 seconds |-> h.seconds, seg |-> h.seg]
      BY <1>8, <2>1, <2>2, <2>3, <2>4, <2>5, Zenon
    <2>7. h = [agp |-> h.agp, product |-> h.product, flagged |-> h.flagged, option |-> h.option,
               date |-> h.date, hours |-> h.hours, minutes |-> h.minutes,
               seconds |-> h.seconds, seg |-> h.seg]
      BY Zenon DEF AnyHeaders
    <2> QED
      BY <2>6, <2>7, Zenon DEF dec
  <1>11. m \in 4..9 /\ m <= Len(bytes)
    <2>1. m \in 4..9
      BY PaddedHeader
    <2>2. 0 + Len(EncodeHeader(h)) <= Len(bytes)
      BY DEF LiesAt
    <2> HIDE DEF m
    <2> QED
      BY <1>1, <1>2, <2>1, <2>2
  <1>12. ByteCount(EndAt(bits)) = m
    BY <1>7, Zenon DEF HeaderSize
  <1>13. ~ Refused(bytes, bits)
    <2>1. ~ (Len(bytes) < 4) /\ ~ (Len(bytes) < m)
      <3> HIDE DEF m
      <3> QED
        BY <1>1, <1>11
    <2> QED
      BY <1>4, <1>7, <1>10, <1>12, <2>1, Zenon DEF Refused
  <1>14. DecodeHeader(bytes) = [header |-> Decoded(bits), size |-> ByteCount(EndAt(bits))]
    BY <1>13, DecodeHeaderIs, Zenon DEF bits
  <1> QED
    BY <1>10, <1>12, <1>14, Zenon

\* A header that the decoder takes lies in the bits as it would be written.
LEMMA DecodedLies ==
    ASSUME NEW bits \in Seq(Bits), 28 <= Len(bits), EndAt(bits) <= Len(bits),
           Operational(Decoded(bits))
    PROVE  /\ HeaderAt(bits, Decoded(bits))
           /\ EndAt(bits) = HeaderLen(Decoded(bits))
  <1> DEFINE h == Decoded(bits)
  <1>1. bits[15] \in Bits /\ bits[16] \in Bits /\ bits[17] \in Bits
    <2>1. 15 \in 1..Len(bits) /\ 16 \in 1..Len(bits) /\ 17 \in 1..Len(bits)
      OBVIOUS
    <2> QED
      BY <2>1
  <1>2. Flagged(h) /\ h.agp = 0
    BY FieldsFit
  <1>3. /\ h.agp = FieldAt(bits, 0, 3) /\ h.product = FieldAt(bits, 3, 11)
        /\ h.flagged = (bits[15] = 1) /\ h.option = 2 * bits[16] + bits[17]
        /\ h.hours = FieldAt(bits, TimeAt(bits), 5)
        /\ h.minutes = FieldAt(bits, TimeAt(bits) + 5, 6)
    BY DEF Decoded
  <1>4. /\ bits[16] = 1 => /\ h.date.month = FieldAt(bits, 17, 4)
                           /\ h.date.day = FieldAt(bits, 21, 5)
        /\ bits[17] = 1 => h.seconds = FieldAt(bits, TimeAt(bits) + 11, 6)
        /\ bits[15] = 1 => /\ h.seg.file = FieldAt(bits, SegAt(bits), 10)
                           /\ h.seg.total = FieldAt(bits, SegAt(bits) + 10, 9)
                           /\ h.seg.number = FieldAt(bits, SegAt(bits) + 19, 9)
    BY DEF Decoded
  <1> HIDE DEF h
  <1>5. bits[15] = Flag(h.flagged) /\ bits[16] = Flag(HasDate(h)) /\ bits[17] = Flag(HasSeconds(h))
    <2>1. bits[15] = Flag(h.flagged)
      BY <1>1, <1>3 DEF Flag, Bits
    <2>2. PICK x \in Bits, y \in Bits : x = Flag(HasDate(h)) /\ y = Flag(HasSeconds(h))
      BY <1>2 DEF Flagged
    <2>3. h.option = 2 * x + y
      BY <1>2, <2>2, Zenon DEF Flagged
    <2>4. PICK v \in Bits, w \in Bits : v = bits[16] /\ w = bits[17]
      BY <1>1
    <2>5. 2 * v + w = 2 * x + y
      BY <1>3, <2>3, <2>4, Zenon
    <2>6. v = x /\ w = y
      BY ONLY <2>5, v \in Bits, w \in Bits, x \in Bits, y \in Bits DEF Bits
    <2> QED
      BY <2>1, <2>2, <2>4, <2>6, Zenon
  <1>6. /\ TimeAt(bits) = 17 + DateLen(h) /\ TimeAt(bits) + 5 = 22 + DateLen(h)
        /\ TimeAt(bits) + 11 = 28 + DateLen(h)
        /\ SegAt(bits) = 28 + DateLen(h) + SecondsLen(h)
        /\ EndAt(bits) = HeaderLen(h)
        /\ bits[15] = 1 <=> h.flagged
        /\ bits[16] = 1 <=> HasDate(h)
        /\ bits[17] = 1 <=> HasSeconds(h)
    BY <1>5, PlacesAt, Zenon
  <1>7. PICK d \in {0, 9}, s \in {0, 6}, g \in {0, 28} :
           d = DateLen(h) /\ s = SecondsLen(h) /\ g = SegLen(h)
    BY OptionalBits DEF h
  <1>8. HeaderLen(h) = 28 + d + s + g
    BY <1>7, Zenon DEF HeaderLen
  <1>9. PICK n \in Nat : n = Len(bits)
    OBVIOUS
  <1>10. 28 + d + s + g <= n
    BY <1>6, <1>8, <1>9
  <1>11. PICK pow : Doubles(pow)
    BY DoublesExists
  <1>12. \A at \in Nat : \A w \in 0..16 :
            at + w <= n => LiesAt(bits, at, BitsOf(FieldAt(bits, at, w), w))
    BY <1>9, <1>11, FieldAgain
  <1>13. /\ 3 \in 0..16 /\ 4 \in 0..16 /\ 5 \in 0..16 /\ 6 \in 0..16 /\ 9 \in 0..16
         /\ 10 \in 0..16 /\ 11 \in 0..16
         /\ 0 \in Nat /\ 3 \in Nat /\ 17 \in Nat /\ 21 \in Nat
         /\ 17 + d \in Nat /\ 22 + d \in Nat /\ 28 + d \in Nat /\ 28 + d + s \in Nat
         /\ (28 + d + s) + 10 \in Nat /\ (28 + d + s) + 19 \in Nat
    OBVIOUS
  <1>14. /\ 0 + 3 <= n /\ 3 + 11 <= n /\ 17 + d + 5 <= n /\ 22 + d + 6 <= n
         /\ d = 9 => 17 + 4 <= n /\ 21 + 5 <= n
         /\ s = 6 => 28 + d + 6 <= n
         /\ g = 28 => /\ 28 + d + s + 10 <= n /\ (28 + d + s) + 10 + 9 <= n
                      /\ (28 + d + s) + 19 + 9 <= n
    BY ONLY <1>9, <1>10, d \in {0, 9}, s \in {0, 6}, g \in {0, 28}
  <1>15. LiesAt(bits, 0, BitsOf(h.agp, 3)) /\ LiesAt(bits, 3, BitsOf(h.product, 11))
    BY <1>3, <1>12, <1>13, <1>14, Zenon
  <1>16. LiesAt(bits, 17 + d, BitsOf(h.hours, 5)) /\ LiesAt(bits, 22 + d, BitsOf(h.minutes, 6))
    <2>1. FieldAt(bits, 17 + d, 5) = h.hours /\ FieldAt(bits, 22 + d, 6) = h.minutes
      BY <1>3, <1>6, <1>7, Zenon
    <2>2. LiesAt(bits, 17 + d, BitsOf(FieldAt(bits, 17 + d, 5), 5))
      <3>1. 17 + d + 5 <= n
        BY <1>14
      <3> QED
        BY <1>12, <1>13, <3>1, Zenon
    <2>3. LiesAt(bits, 22 + d, BitsOf(FieldAt(bits, 22 + d, 6), 6))
      <3>1. 22 + d + 6 <= n
        BY <1>14
      <3> QED
        BY <1>12, <1>13, <3>1, Zenon
    <2> QED
      BY <2>1, <2>2, <2>3, Zenon
  <1>17. LiesAt(bits, 14, <<Flag(h.flagged)>>)
    <2>1. Len(<<Flag(h.flagged)>>) = 1 /\ <<Flag(h.flagged)>>[1] = Flag(h.flagged)
      OBVIOUS
    <2>2. 14 + 1 <= Len(bits) /\ \A i \in 1..1 : i = 1 /\ 14 + i = 15
      OBVIOUS
    <2> QED
      BY <1>5, <2>1, <2>2, Zenon DEF LiesAt
  <1>18. LiesAt(bits, 15, TimeFlags(h))
    <2>1. TimeFlags(h)[1] = bits[16] /\ TimeFlags(h)[2] = bits[17]
      <3>1. h.option \div 2 = bits[16] /\ h.option % 2 = bits[17]
        BY <1>2, <1>5, Zenon DEF Flagged
      <3> QED
        BY <3>1 DEF TimeFlags
    <2>2. Len(TimeFlags(h)) = 2
      BY DEF TimeFlags
    <2>3. 15 + 2 <= Len(bits) /\ 15 + 1 = 16 /\ 15 + 2 = 17 /\ \A i \in 1..2 : i = 1 \/ i = 2
      OBVIOUS
    <2> QED
      BY <2>1, <2>2, <2>3, Zenon DEF LiesAt
  <1>19. LiesAt(bits, 17, DateBits(h))
    <2>1. CASE HasDate(h)
      <3>1. d = 9
        BY <1>7, <2>1 DEF DateLen, Flag
      <3>2. LiesAt(bits, 17, BitsOf(h.date.month, 4)) /\ LiesAt(bits, 21, BitsOf(h.date.day, 5))
        BY <1>4, <1>6, <1>12, <1>13, <1>14, <2>1, <3>1, ZenonT(40)
      <3>3. PICK p \in Seq(Bits), q \in Seq(Bits) :
               p = BitsOf(h.date.month, 4) /\ q = BitsOf(h.date.day, 5) /\ Len(p) = 4
        BY <2>1, FieldsAsBits DEF h
      <3>4. 17 + 4 = 21
        OBVIOUS
      <3>5. LiesAt(bits, 17, p) /\ LiesAt(bits, 17 + Len(p), q)
        BY <3>2, <3>3, <3>4, Zenon
      <3>6. LiesAt(bits, 17, p \o q)
        BY <1>13, <3>5, LiesAtConcat, ZenonT(40)
      <3> QED
        BY <2>1, <3>3, <3>6, Zenon DEF DateBits
    <2>2. CASE ~ HasDate(h)
      <3>1. Len(<< >>) = 0 /\ 17 + 0 <= Len(bits) /\ \A i \in 1..0 : FALSE
        OBVIOUS
      <3> QED
        BY <2>2, <3>1, Zenon DEF DateBits, LiesAt
    <2> QED
      BY <2>1, <2>2
  <1>20. LiesAt(bits, 28 + d, SecondsBits(h))
    <2>1. CASE HasSeconds(h)
      <3>1. s = 6
        BY <1>7, <2>1 DEF SecondsLen, Flag
      <3> QED
        BY <1>4, <1>6, <1>7, <1>12, <1>13, <1>14, <2>1, <3>1, ZenonT(40) DEF SecondsBits
    <2>2. CASE ~ HasSeconds(h)
      <3>1. Len(<< >>) = 0 /\ \A i \in 1..0 : FALSE
        OBVIOUS
      <3>2. 28 + d + 0 <= n
        BY ONLY <1>9, <1>10, d \in {0, 9}, s \in {0, 6}, g \in {0, 28}
      <3> QED
        BY <1>9, <2>2, <3>1, <3>2, Zenon DEF SecondsBits, LiesAt
    <2> QED
      BY <2>1, <2>2
  <1>21. LiesAt(bits, 28 + d + s, SegBits(h))
    <2> DEFINE o == 28 + d + s
    <2>0. h.flagged = (h.seg # None)
      BY <1>2 DEF Flagged
    <2>1. CASE h.seg # None
      <3>1. g = 28 /\ bits[15] = 1
        <4>1. Flag(h.flagged) = 1
          BY <2>0, <2>1, Zenon DEF Flag
        <4>2. 28 * 1 = 28
          OBVIOUS
        <4> QED
          BY <1>5, <1>7, <4>1, <4>2, Zenon DEF SegLen
      <3>2. o \in Nat /\ (o + 10) + 9 = o + 19
        BY ONLY d \in {0, 9}, s \in {0, 6}
      <3>3. LiesAt(bits, o, BitsOf(h.seg.file, 10)) /\ LiesAt(bits, o + 10, BitsOf(h.seg.total, 9))
            /\ LiesAt(bits, o + 19, BitsOf(h.seg.number, 9))
        <4>1. SegAt(bits) = o
          BY <1>6, <1>7, Zenon
        <4>2. /\ FieldAt(bits, o, 10) = h.seg.file /\ FieldAt(bits, o + 10, 9) = h.seg.total
              /\ FieldAt(bits, o + 19, 9) = h.seg.number
          BY <1>4, <3>1, <4>1, Zenon
        <4>3. LiesAt(bits, o, BitsOf(FieldAt(bits, o, 10), 10))
          BY <1>12, <1>13, <1>14, <3>1, Zenon
        <4>4. LiesAt(bits, o + 10, BitsOf(FieldAt(bits, o + 10, 9), 9))
          BY <1>12, <1>13, <1>14, <3>1, Zenon
        <4>5. LiesAt(bits, o + 19, BitsOf(FieldAt(bits, o + 19, 9), 9))
          BY <1>12, <1>13, <1>14, <3>1, Zenon
        <4> QED
          BY <4>2, <4>3, <4>4, <4>5, Zenon
      <3>4. PICK p \in Seq(Bits), q \in Seq(Bits), r \in Seq(Bits) :
               /\ p = BitsOf(h.seg.file, 10) /\ q = BitsOf(h.seg.total, 9) /\ r = BitsOf(h.seg.number, 9)
               /\ Len(p) = 10 /\ Len(q) = 9
        BY <2>1, FieldsAsBits DEF h
      <3> HIDE DEF o
      <3>5. p \o q \in Seq(Bits) /\ Len(p \o q) = Len(p) + Len(q)
        BY ConcatProperties, ZenonT(40)
      <3>6. o + Len(p \o q) = o + 19
        <4>1. 10 + 9 = 19
          OBVIOUS
        <4> QED
          BY <3>4, <3>5, <4>1, Zenon
      <3>7. LiesAt(bits, o, p) /\ LiesAt(bits, o + Len(p), q) /\ LiesAt(bits, o + Len(p \o q), r)
        BY <3>3, <3>4, <3>6, Zenon
      <3>8. LiesAt(bits, o, p \o q)
        BY <3>2, <3>7, LiesAtConcat, Zenon
      <3>9. LiesAt(bits, o, (p \o q) \o r)
        BY <3>2, <3>5, <3>7, <3>8, LiesAtConcat, Zenon
      <3> QED
        BY <2>1, <3>4, <3>9, Zenon DEF SegBits, o
    <2>2. CASE h.seg = None
      <3>1. Len(<< >>) = 0 /\ \A i \in 1..0 : FALSE
        OBVIOUS
      <3>2. 28 + d + s + 0 <= n
        BY ONLY <1>9, <1>10, d \in {0, 9}, s \in {0, 6}, g \in {0, 28}
      <3> QED
        BY <1>9, <2>2, <3>1, <3>2, Zenon DEF SegBits, LiesAt
    <2> QED
      BY <2>1, <2>2
  <1>22. HeaderAt(bits, h)
    BY <1>7, <1>15, <1>16, <1>17, <1>18, <1>19, <1>20, <1>21, Zenon DEF HeaderAt
  <1> QED
    BY <1>6, <1>22 DEF h

LEMMA HeaderAgain ==
    ASSUME NEW bytes \in Seq(Bytes), DecodeHeader(bytes) # Error
    PROVE  \E h : /\ Operational(h)
                  /\ DecodeHeader(bytes) = [header |-> h, size |-> HeaderSize(h)]
                  /\ HeaderSize(h) \in 4..9 /\ HeaderSize(h) <= Len(bytes)
                  /\ EncodeHeader(h) \in Seq(Bytes) /\ Len(EncodeHeader(h)) = HeaderSize(h)
                  /\ LiesAt(bytes, 0, EncodeHeader(h))
  <1> DEFINE bits == BitsOfBytes(bytes)
             h == Decoded(bits)
             m == ByteCount(EndAt(bits))
  <1>1. bits \in Seq(Bits) /\ Len(bits) = 8 * Len(bytes) /\ Len(bytes) \in Nat
    BY BitsOfBytesType
  <1>2. ~ Refused(bytes, bits) /\ DecodeHeader(bytes) = [header |-> h, size |-> m]
    BY DecodeHeaderIs, Zenon
  <1> HIDE DEF bits
  <1>3. /\ ~ (Len(bytes) < 4) /\ ~ (Len(bytes) < m) /\ Operational(h)
        /\ \A i \in EndAt(bits) + 1..8 * m : bits[i] = 0
    BY <1>2, Zenon DEF Refused
  <1>4. bits[15] \in 0..1 /\ bits[16] \in 0..1 /\ bits[17] \in 0..1
    <2>1. PICK n \in Nat : n = Len(bytes)
      BY <1>1
    <2>2. Len(bits) = 8 * n /\ ~ (n < 4)
      BY <1>1, <1>3, <2>1
    <2>3. 15 \in 1..8 * n /\ 16 \in 1..8 * n /\ 17 \in 1..8 * n
      BY ONLY <2>2, n \in Nat
    <2>4. bits[15] \in Bits /\ bits[16] \in Bits /\ bits[17] \in Bits
      BY <1>1, <2>2, <2>3
    <2> QED
      BY <2>4 DEF Bits
  <1>5. EndAt(bits) \in 28..71
    <2>1. EndAt(bits) = 17 + 9 * bits[16] + 11 + 6 * bits[17] + 28 * bits[15]
      BY DEF EndAt, SegAt, TimeAt
    <2>2. PICK x \in 0..1, y \in 0..1, z \in 0..1 : x = bits[15] /\ y = bits[16] /\ z = bits[17]
      BY <1>4, Zenon
    <2>3. EndAt(bits) = 17 + 9 * y + 11 + 6 * z + 28 * x
      BY <2>1, <2>2, Zenon
    <2>4. 17 + 9 * y + 11 + 6 * z + 28 * x \in 28..71
      BY ONLY x \in 0..1, y \in 0..1, z \in 0..1
    <2> QED
      BY <2>3, <2>4, Zenon
  <1>6. m = (EndAt(bits) + 7) \div 8
    BY DEF ByteCount
  <1> HIDE DEF h, m
  <1>7. 28 <= Len(bits) /\ EndAt(bits) <= Len(bits) /\ 8 * m <= Len(bits)
    <2>1. PICK n \in Nat, e \in 28..71 : n = Len(bytes) /\ e = EndAt(bits)
      BY <1>1, <1>5
    <2>2. Len(bits) = 8 * n /\ ~ (n < 4) /\ ~ (n < m) /\ m = (e + 7) \div 8
      BY <1>1, <1>3, <1>6, <2>1
    <2>3. 28 <= 8 * n /\ e <= 8 * n /\ 8 * m <= 8 * n
      BY ONLY <2>2, n \in Nat, e \in 28..71
    <2> QED
      BY <2>1, <2>2, <2>3
  <1>8. HeaderAt(bits, h) /\ EndAt(bits) = HeaderLen(h)
    BY <1>1, <1>3, <1>7, DecodedLies DEF h
  <1>9. m = HeaderSize(h)
    BY <1>8, Zenon DEF HeaderSize, m
  <1>10. LiesAt(bits, 0, HeaderBits(h))
    BY <1>1, <1>3, <1>8, HeaderLies, Zenon
  <1>11. LiesAt(bits, 0, ZeroPadded(HeaderBits(h)))
    BY <1>1, <1>3, <1>7, <1>8, <1>9, <1>10, PaddedHeader, Zenon
  <1>12. /\ ZeroPadded(HeaderBits(h)) \in Seq(Bits) /\ Len(ZeroPadded(HeaderBits(h))) = 8 * m
         /\ m \in 4..9
    BY <1>3, <1>9, PaddedHeader
  <1>13. m <= Len(bytes) /\ m \in Nat
    BY <1>1, <1>3, <1>12
  <1>14. PICK q \in Seq(Bytes) : Len(q) = m /\ LiesAt(bytes, 0, q)
    <2>1. 0 \in Nat /\ 0 + m <= Len(bytes)
      BY <1>13
    <2> QED
      BY <1>13, <2>1, SubSeqLiesAt
  <1>15. BitsOfBytes(q) \in Seq(Bits) /\ Len(BitsOfBytes(q)) = 8 * m /\ LiesAt(bits, 0, BitsOfBytes(q))
    BY <1>14, BitsOfBytesType, FrontBits DEF bits
  <1>16. ZeroPadded(HeaderBits(h)) = BitsOfBytes(q)
    BY <1>1, <1>11, <1>12, <1>15, SameFront, Zenon
  <1>17. EncodeHeader(h) = q
    <2>1. EncodeHeader(h) = BytesOfBits(ZeroPadded(HeaderBits(h)))
      BY <1>3 DEF EncodeHeader
    <2>2. BytesOfBits(BitsOfBytes(q)) = q
      BY BytesOfThoseBits
    <2> QED
      BY <1>16, <2>1, <2>2, Zenon
  <1> QED
    BY <1>2, <1>3, <1>9, <1>12, <1>13, <1>14, <1>17

----------------------------------------------------------------------------
(* APDUs                                                                   *)

\* What an APDU encodes to holds it: header and payload are read again.
LEMMA ApduReadBack ==
    ASSUME NEW a \in AnyApdus, EncodeApdu(a) # Error
    PROVE  /\ EncodeApdu(a) \in Seq(Bytes) /\ Len(EncodeApdu(a)) \in 4..422
           /\ DecodeApdu(EncodeApdu(a)) = a
  <1>1. PICK h \in AnyHeaders, p \in Seq(Bytes) : a = [header |-> h, payload |-> p]
    BY DEF AnyApdus
  <1>2. a.header = h /\ a.payload = p
    BY <1>1
  <1>3. /\ EncodeHeader(h) # Error
        /\ ~ (Len(EncodeHeader(h)) + Len(p) > MAX_APDU_LEN)
        /\ EncodeApdu(a) = EncodeHeader(h) \o p
    BY <1>2, Zenon DEF EncodeApdu
  <1>4. Operational(h)
    BY <1>3, Zenon DEF EncodeHeader
  <1>5. PICK b \in Seq(Bytes), m \in 4..9 :
           b = EncodeHeader(h) /\ Len(b) = m /\ m = HeaderSize(h)
    BY <1>4, EncodedHeader, PaddedHeader, Zenon
  <1> DEFINE e == b \o p
             n == Len(p)
  <1>6. e \in Seq(Bytes) /\ Len(e) = m + n /\ n \in Nat
    BY <1>5, ConcatProperties
  <1>7. LiesAt(e, 0, b)
    BY LiesAtEnds, Zenon
  <1>8. SubSeq(e, m + 1, m + n) = p
    BY <1>5, ConcatParts, Zenon
  <1>9. EncodeApdu(a) = e
    BY <1>3, <1>5, Zenon
  <1> HIDE DEF e, n
  <1>10. Len(e) \in 4..422
    <2>1. ~ (m + n > 422)
      BY <1>3, <1>5 DEF MAX_APDU_LEN, n
    <2> QED
      BY <1>6, <2>1
  <1>11. DecodeHeader(e) = [header |-> h, size |-> m]
    BY <1>4, <1>5, <1>6, <1>7, HeaderReadBack, Zenon
  <1>12. DecodeHeader(e) # Error
    <2>1. [header |-> h, size |-> m] \in [header : AnyHeaders, size : Nat]
      OBVIOUS
    <2> QED
      BY <1>11, <2>1, ResultsAssumption, Zenon
  <1>13. DecodeApdu(e) = [header |-> h, payload |-> SubSeq(e, m + 1, m + n)]
    <2>1. DecodeHeader(e).header = h /\ DecodeHeader(e).size = m
      BY <1>11
    <2>2. Len(e) \in 4..MAX_APDU_LEN
      BY <1>10 DEF MAX_APDU_LEN
    <2> QED
      BY <1>6, <1>12, <2>1, <2>2, Zenon DEF DecodeApdu
  <1> QED
    BY <1>1, <1>6, <1>8, <1>9, <1>10, <1>13, Zenon

\* What the decoder takes for an APDU encodes to the same bytes.
LEMMA ApduAgain ==
    ASSUME NEW bytes \in Seq(Bytes), DecodeApdu(bytes) # Error
    PROVE  EncodeApdu(DecodeApdu(bytes)) = bytes
  <1>1. /\ Len(bytes) \in 4..422
        /\ DecodeHeader(bytes) # Error
        /\ DecodeApdu(bytes) = [header |-> DecodeHeader(bytes).header,
              payload |-> SubSeq(bytes, DecodeHeader(bytes).size + 1, Len(bytes))]
    BY ZenonT(40) DEF DecodeApdu, MAX_APDU_LEN
  <1>2. PICK h : /\ Operational(h)
                 /\ DecodeHeader(bytes) = [header |-> h, size |-> HeaderSize(h)]
                 /\ HeaderSize(h) \in 4..9 /\ HeaderSize(h) <= Len(bytes)
                 /\ EncodeHeader(h) \in Seq(Bytes) /\ Len(EncodeHeader(h)) = HeaderSize(h)
                 /\ LiesAt(bytes, 0, EncodeHeader(h))
    BY <1>1, HeaderAgain
  <1>3. PICK b \in Seq(Bytes), m \in 4..9, n \in Nat :
           /\ b = EncodeHeader(h) /\ m = HeaderSize(h) /\ Len(b) = m
           /\ m + n = Len(bytes)
    <2>1. PICK m \in 4..9, k \in 4..422 : m = HeaderSize(h) /\ k = Len(bytes)
      BY <1>1, <1>2, Zenon
    <2>2. m <= k
      BY <1>2, <2>1, Zenon
    <2>3. k - m \in Nat /\ m + (k - m) = k
      BY ONLY <2>2, m \in 4..9, k \in 4..422
    <2> QED
      BY <1>2, <2>1, <2>3, Zenon
  <1> DEFINE p == SubSeq(bytes, m + 1, m + n)
             e == b \o p
  <1>4. DecodeHeader(bytes).header = h /\ DecodeHeader(bytes).size = m
    BY <1>2, <1>3
  <1>5. DecodeApdu(bytes) = [header |-> h, payload |-> p]
    BY <1>1, <1>3, <1>4, Zenon
  <1>6. p \in Seq(Bytes) /\ Len(p) = n /\ LiesAt(bytes, m, p)
    <2>1. m \in Nat /\ m + n <= Len(bytes)
      BY <1>3
    <2> QED
      BY <2>1, SubSeqLiesAt
  <1> HIDE DEF p
  <1>7. e \in Seq(Bytes) /\ Len(e) = Len(bytes) /\ LiesAt(bytes, 0, e)
    <2>1. LiesAt(bytes, 0, b) /\ LiesAt(bytes, 0 + Len(b), p)
      <3>1. 0 + Len(b) = m
        BY <1>3
      <3> QED
        BY <1>2, <1>3, <1>6, <3>1, Zenon
    <2>2. 0 \in Nat
      OBVIOUS
    <2>3. LiesAt(bytes, 0, e)
      BY <1>6, <2>1, <2>2, LiesAtConcat, Zenon
    <2> QED
      BY <1>3, <1>6, <2>3, ConcatProperties
  <1>8. e = bytes
    BY <1>7, LiesAllOver, Zenon
  <1>9. EncodeApdu([header |-> h, payload |-> p]) = e
    <2>1. EncodeHeader(h) # Error
      BY <1>2, ResultsAssumption, Zenon
    <2>2. ~ (m + n > MAX_APDU_LEN)
      <3>1. PICK k \in 4..422 : k = Len(bytes)
        BY <1>1
      <3>2. m + n = k
        BY <1>3, <3>1, Zenon
      <3>3. ~ (m + n > 422)
        BY ONLY <3>2, k \in 4..422
      <3> QED
        BY <3>3, Zenon DEF MAX_APDU_LEN
    <2> QED
      BY <1>3, <1>6, <2>1, <2>2 DEF EncodeApdu
  <1> QED
    BY <1>5, <1>8, <1>9, Zenon

----------------------------------------------------------------------------
(* The area that a list of frames is packed into, and what is read of it.  *)

LEMMA PackedArea ==
    ASSUME NEW fs \in Seq(AnyFrames), NEW bytes, bytes = FromInformationFrames(fs), bytes # Error
    PROVE  /\ \A i \in DOMAIN fs : Sendable(fs[i])
           /\ bytes \in Seq(Bytes) /\ Len(bytes) = 424
           /\ LiesAt(bytes, 0, FlattenSeq(Pieces(fs)))
           /\ \A j \in Len(FlattenSeq(Pieces(fs))) + 1..Len(bytes) : bytes[j] = 0
  <1> DEFINE all == FlattenSeq(Pieces(fs))
  <1>1. /\ \A i \in DOMAIN fs : ValidForEncoding(fs[i]) /\ ~ (Len(fs[i].data) > MAX_FRAME_LEN)
        /\ ~ (Len(all) > APPLICATION_DATA_LEN)
        /\ bytes = all \o [i \in 1..APPLICATION_DATA_LEN - Len(all) |-> 0]
    BY Zenon DEF FromInformationFrames, Pieces
  <1>2. ASSUME NEW i \in DOMAIN fs PROVE Sendable(fs[i])
    <2>1. fs[i] \in AnyFrames
      OBVIOUS
    <2>2. PICK k \in Nat : k = Len(fs[i].data)
      BY <2>1 DEF AnyFrames
    <2>3. k <= 422
      BY <1>1, <2>2 DEF MAX_FRAME_LEN
    <2>4. Len(fs[i].data) <= MAX_FRAME_LEN
      BY <2>2, <2>3 DEF MAX_FRAME_LEN
    <2> QED
      BY <1>1, <2>1, <2>4, Zenon DEF Sendable
  <1>3. all \in Seq(Bytes)
    <2>1. Pieces(fs) \in Seq(Seq(Bytes))
      BY <1>2, PiecesType
    <2> QED
      BY <2>1, FlattenType, Zenon
  <1>4. PICK p \in Seq(Bytes), n \in Nat : p = all /\ n = Len(p)
    BY <1>3
  <1> HIDE DEF all
  <1>5. ~ (n > 424) /\ bytes = p \o [i \in 1..424 - n |-> 0]
    BY <1>1, <1>4, ZenonT(40) DEF APPLICATION_DATA_LEN
  <1>6. PICK k \in Nat : k = 424 - n
    BY ONLY <1>5, n \in Nat
  <1>7. PICK zeros \in Seq(Bytes) :
           /\ zeros = [i \in 1..424 - n |-> 0] /\ Len(zeros) = k
           /\ \A i \in 1..k : zeros[i] = 0
    <2>1. 0 \in Bytes
      BY DEF Bytes
    <2> DEFINE z == [i \in 1..k |-> 0]
    <2>2. z \in Seq(Bytes) /\ Len(z) = k /\ \A i \in 1..k : z[i] = 0
      BY <2>1
    <2> HIDE DEF z
    <2>3. z = [i \in 1..424 - n |-> 0]
      BY <1>6, Zenon DEF z
    <2> QED
      BY <2>2, <2>3, ZenonT(40)
  <1>8. bytes = p \o zeros
    BY <1>5, <1>7, Zenon
  <1>9. /\ bytes \in Seq(Bytes) /\ Len(bytes) = n + k
        /\ \A i \in 1..n + k : bytes[i] = IF i <= n THEN p[i] ELSE zeros[i - n]
    <2>1. PICK c : c = p \o zeros
      OBVIOUS
    <2>2. /\ c \in Seq(Bytes) /\ Len(c) = Len(p) + Len(zeros)
          /\ \A i \in 1..Len(p) + Len(zeros) :
               c[i] = IF i <= Len(p) THEN p[i] ELSE zeros[i - Len(p)]
      BY <2>1, ConcatProperties
    <2>3. Len(p) = n /\ Len(zeros) = k /\ bytes = c
      BY <1>4, <1>7, <1>8, <2>1, Zenon
    <2>4. /\ Len(bytes) = n + k
          /\ \A i \in 1..n + k : bytes[i] = IF i <= n THEN p[i] ELSE zeros[i - n]
      BY ONLY <2>2, <2>3, Zenon
    <2> QED
      BY <2>2, <2>3, <2>4, Zenon
  <1>10. n + k = 424
    BY ONLY <1>6, n \in Nat
  <1>11. \A j \in n + 1..424 : bytes[j] = 0
    <2>1. \A j \in n + 1..424 : j \in 1..n + k /\ ~ (j <= n) /\ j - n \in 1..k
      BY ONLY <1>6, n \in Nat
    <2> QED
      BY <1>7, <1>9, <2>1
  <1>12. LiesAt(bytes, 0, p)
    BY <1>8, LiesAtEnds, Zenon
  <1> QED
    BY <1>2, <1>4, <1>9, <1>10, <1>11, <1>12 DEF all

\* UpToEmpty, by the number of its frames.
LEMMA EmptyEnds ==
    ASSUME frames \in Seq(AnyFrames)
    PROVE  \E e : IsReadable(frames, e) /\ UpToEmpty = SubSeq(frames, 1, e)
  <1> DEFINE n == Len(frames)
             empty == { i \in DOMAIN frames : frames[i].data = << >> }
  <1>1. DOMAIN frames = 1..n /\ n \in Nat
    OBVIOUS
  <1>2. UpToEmpty = IF empty = {} THEN frames ELSE SubSeq(frames, 1, Min(empty) - 1)
    BY Zenon DEF UpToEmpty
  <1>3. CASE empty = {}
    <2>1. IsReadable(frames, n)
      BY <1>1, <1>3 DEF IsReadable
    <2>2. SubSeq(frames, 1, n) = frames
      OBVIOUS
    <2> QED
      BY <1>2, <1>3, <2>1, <2>2, Zenon
  <1>4. CASE empty # {}
    <2>1. \E x \in empty : \A y \in empty : x <= y
      <3>1. empty \in SUBSET Nat
        BY <1>1
      <3> QED
        BY <1>4, <3>1, LeastElement, Zenon
    <2>2. PICK x \in empty : x = Min(empty) /\ \A y \in empty : x <= y
      <3>1. Min(empty) \in empty /\ \A y \in empty : Min(empty) <= y
        BY <2>1, Zenon DEF Min
      <3> QED
        BY <3>1, Zenon
    <2>3. x \in 1..n /\ frames[x].data = << >>
      BY <1>1, <2>2
    <2>4. IsReadable(frames, x - 1)
      <3>1. x - 1 \in 0..n /\ x - 1 < n /\ (x - 1) + 1 = x
        BY <1>1, <2>3
      <3>2. ASSUME NEW i \in 1..x - 1 PROVE frames[i].data # << >>
        <4>1. i \in 1..n /\ ~ (x <= i)
          BY <1>1, <2>3
        <4> QED
          BY <1>1, <2>2, <4>1, Zenon
      <3> QED
        BY <2>3, <3>1, <3>2, Zenon DEF IsReadable
    <2> QED
      BY <1>2, <1>4, <2>2, <2>4, Zenon
  <1> QED
    BY <1>3, <1>4

----------------------------------------------------------------------------
(* The inductive invariant                                                 *)

\* The frames are frames, the APDUs that wait are APDUs.
TypesHold ==
    /\ frames \in Seq(AnyFrames)
    /\ queue # Error => queue \in Seq(AnyApdus)

\* The application data are the frames put together, or come from elsewhere.
AreaHolds ==
    area # None => \/ area = FromInformationFrames(frames)
                   \/ frames = << >> /\ area \in Areas

\* What was received was read from these application data.
ReadingHolds ==
    \/ received = None /\ apdus = None
    \/ /\ area \notin {None, Error}
       /\ received = InformationFrames(area)
       /\ apdus = ApdusOf(area)

\* The frame of an APDU that encodes.
FrameOf(a) == [reserved |-> 0, type |-> FisBApdu, data |-> EncodeApdu(a)]

(* Whoever sends the frames of type 0: when there are only as many as      *)
(* APDUs were wrapped, they hold these APDUs.                              *)
WrappedHold ==
    /\ sent \in Seq(AnyApdus)
    /\ \A i \in 1..Len(sent) : EncodeApdu(sent[i]) # Error
    /\ Len(sent) <= Len(FisbFrames(frames))
    /\ Len(FisbFrames(frames)) = Len(sent) =>
         \A i \in 1..Len(sent) : FisbFrames(frames)[i] = FrameOf(sent[i])

DeliveryInv == TypesHold /\ AreaHolds /\ ReadingHolds /\ WrappedHold

\* The frames of type 0 among one more.
LEMMA FisbAppend ==
    ASSUME NEW fs \in Seq(AnyFrames), NEW f \in AnyFrames
    PROVE  /\ FisbFrames(fs) \in Seq(AnyFrames)
           /\ FisbFrames(Append(fs, f)) =
                IF f.type = FisBApdu THEN Append(FisbFrames(fs), f) ELSE FisbFrames(fs)
  <1> DEFINE One(g) == IF g.type = FisBApdu THEN <<g>> ELSE << >>
             parts == [i \in DOMAIN fs |-> One(fs[i])]
             more == Append(fs, f)
             n == Len(fs)
  <1>1. /\ DOMAIN fs = 1..n /\ n \in Nat /\ \A i \in 1..n : fs[i] \in AnyFrames
        /\ DOMAIN more = 1..n + 1 /\ \A i \in 1..n : more[i] = fs[i]
        /\ more[n + 1] = f
    OBVIOUS
  <1>2. \A g \in AnyFrames : One(g) \in Seq(AnyFrames)
    OBVIOUS
  <1>3. parts \in Seq(Seq(AnyFrames)) /\ Len(parts) = n /\ \A i \in 1..n : parts[i] = One(fs[i])
    <2> HIDE DEF One
    <2> QED
      BY <1>1, <1>2
  <1>4. [i \in DOMAIN more |-> One(more[i])] = Append(parts, One(f))
    <2> DEFINE x == [i \in 1..n + 1 |-> One(more[i])]
               y == Append(parts, One(f))
    <2>1. One(f) \in Seq(AnyFrames)
      BY <1>2
    <2> HIDE DEF One, parts
    <2>2. /\ y = [i \in 1..n + 1 |-> y[i]] /\ y[n + 1] = One(f)
          /\ \A i \in 1..n : y[i] = parts[i]
      <3>1. PICK s \in Seq(Seq(AnyFrames)), e \in Seq(AnyFrames) : s = parts /\ e = One(f)
        BY <1>3, <2>1
      <3>2. n = Len(s) /\ n \in Nat
        BY <1>1, <1>3, <3>1, Zenon
      <3> DEFINE z == Append(s, e)
      <3>3. /\ z \in Seq(Seq(AnyFrames)) /\ Len(z) = Len(s) + 1 /\ z[Len(s) + 1] = e
            /\ \A i \in 1..Len(s) : z[i] = s[i]
        BY AppendProperties
      <3>30. \A v \in Seq(Seq(AnyFrames)) : v = [i \in 1..Len(v) |-> v[i]]
        OBVIOUS
      <3>31. z = [i \in 1..Len(s) + 1 |-> z[i]]
        <4> HIDE DEF z
        <4>1. z = [i \in 1..Len(z) |-> z[i]]
          BY <3>3, <3>30, Zenon
        <4> QED
          BY <3>3, <4>1, Zenon
      <3>4. z = y
        BY <3>1, Zenon
      <3> HIDE DEF z, y, n
      <3> QED
        BY <3>1, <3>2, <3>3, <3>31, <3>4, Zenon
    <2>3. ASSUME NEW i \in 1..n + 1 PROVE One(more[i]) = y[i]
      <3>1. CASE i = n + 1
        BY <1>1, <2>2, <3>1, Zenon
      <3>2. CASE i \in 1..n
        BY <1>1, <1>3, <2>2, <3>2, Zenon
      <3>3. i = n + 1 \/ i \in 1..n
        BY <1>1
      <3> QED
        BY <3>1, <3>2, <3>3
    <2> HIDE DEF y
    <2>4. x = y
      BY <2>2, <2>3, Zenon
    <2> QED
      BY <1>1, <2>4, Zenon DEF y
  <1>5. /\ FisbFrames(fs) = FlattenSeq(parts)
        /\ FisbFrames(more) = FlattenSeq([i \in DOMAIN more |-> One(more[i])])
    BY Zenon DEF FisbFrames
  <1>6. FlattenSeq(parts) \in Seq(AnyFrames)
    BY <1>3, FlattenType, Zenon
  <1>7. FisbFrames(more) = FlattenSeq(parts) \o One(f)
    <2>1. One(f) \in Seq(AnyFrames)
      BY <1>2
    <2> QED
      BY <1>3, <1>4, <1>5, <2>1, FlattenAppend, Zenon
  <1>8. PICK q \in Seq(AnyFrames) : q = FlattenSeq(parts)
    BY <1>6
  <1>9. q \o <<f>> = Append(q, f) /\ q \o << >> = q
    OBVIOUS
  <1> QED
    BY <1>5, <1>7, <1>8, <1>9, Zenon

LEMMA FisbEmpty == FisbFrames(<< >>) = << >>
  <1>1. [i \in DOMAIN << >> |-> IF << >>[i].type = FisBApdu THEN << << >>[i] >> ELSE << >>] = << >>
    OBVIOUS
  <1> QED
    BY <1>1, FlattenEmpty DEF FisbFrames

\* Nothing was read of a payload that is not complete.
LEMMA NothingRead ==
    ASSUME ReadingHolds, area = None
    PROVE  received = None /\ apdus = None
  BY Zenon DEF ReadingHolds

LEMMA WrappedFrame ==
    ASSUME NEW a \in AnyApdus, EncodeApdu(a) # Error
    PROVE  /\ FrameOf(a) \in AnyFrames /\ ValidForEncoding(FrameOf(a))
           /\ FrameOf(a).type = FisBApdu /\ FrameOf(a).data = EncodeApdu(a)
  <1>1. EncodeApdu(a) \in Seq(Bytes)
    BY ApduReadBack
  <1> QED
    BY <1>1 DEF FrameOf, AnyFrames, FisBApdu, Bytes, ValidForEncoding

LEMMA AddApduKeeps ==
    ASSUME DeliveryInv, NEW a \in AnyApdus, AddApdu(a)
    PROVE  frames' \in Seq(AnyFrames) /\ AreaHolds' /\ ReadingHolds' /\ WrappedHold'
  <1> DEFINE f == FrameOf(a)
  <1>1. /\ area = None /\ EncodeApdu(a) # Error
        /\ frames' = Append(frames, f) /\ sent' = Append(sent, a)
        /\ area' = area /\ received' = received /\ apdus' = apdus
    BY Zenon DEF AddApdu, Building, FrameOf
  <1>2. f \in AnyFrames /\ frames \in Seq(AnyFrames)
    BY <1>1, WrappedFrame DEF DeliveryInv, TypesHold
  <1>3. f.type = FisBApdu
    BY <1>1, WrappedFrame
  <1> HIDE DEF f
  <1>4. frames' \in Seq(AnyFrames)
    BY <1>1, <1>2
  <1>5. AreaHolds' /\ ReadingHolds'
    BY <1>1, NothingRead, Zenon DEF DeliveryInv, AreaHolds, ReadingHolds
  <1>6. FisbFrames(frames) \in Seq(AnyFrames) /\ FisbFrames(frames') = Append(FisbFrames(frames), f)
    BY <1>1, <1>2, <1>3, FisbAppend, Zenon
  <1>7. PICK q \in Seq(AnyFrames), s \in Seq(AnyApdus) : q = FisbFrames(frames) /\ s = sent
    BY <1>6 DEF DeliveryInv, WrappedHold
  <1>8. /\ \A i \in 1..Len(s) : EncodeApdu(s[i]) # Error
        /\ Len(s) <= Len(q)
        /\ Len(q) = Len(s) => \A i \in 1..Len(s) : q[i] = FrameOf(s[i])
    BY <1>7, Zenon DEF DeliveryInv, WrappedHold
  <1> DEFINE m == Len(s)  n == Len(q)  t == Append(s, a)  r == Append(q, f)
  <1>9. /\ m \in Nat /\ n \in Nat
        /\ t \in Seq(AnyApdus) /\ Len(t) = m + 1 /\ t[m + 1] = a
        /\ \A i \in 1..m : t[i] = s[i]
        /\ Len(r) = n + 1 /\ r[n + 1] = f /\ \A i \in 1..n : r[i] = q[i]
    BY <1>2
  <1>10. sent' = t /\ FisbFrames(frames') = r
    BY <1>1, <1>6, <1>7, Zenon
  <1> HIDE DEF t, r
  <1>11. \A i \in 1..m + 1 : i = m + 1 \/ i \in 1..m
    BY <1>9
  <1>12. \A i \in 1..m + 1 : EncodeApdu(t[i]) # Error
    BY <1>1, <1>8, <1>9, <1>11, Zenon
  <1>13. m + 1 <= n + 1 /\ (n + 1 = m + 1 => n = m)
    BY <1>8, <1>9
  <1>14. ASSUME n + 1 = m + 1 PROVE \A i \in 1..m + 1 : r[i] = FrameOf(t[i])
    <2>1. n = m
      BY <1>13, <1>14
    <2> QED
      BY <1>8, <1>9, <1>11, <2>1, Zenon DEF f
  <1>15. WrappedHold'
    BY <1>9, <1>10, <1>12, <1>13, <1>14, Zenon DEF WrappedHold
  <1> QED
    BY <1>4, <1>5, <1>15

LEMMA AddFrameKeeps ==
    ASSUME DeliveryInv, NEW f \in AnyFrames, AddFrame(f)
    PROVE  frames' \in Seq(AnyFrames) /\ AreaHolds' /\ ReadingHolds' /\ WrappedHold'
  <1>1. /\ area = None /\ frames' = Append(frames, f) /\ sent' = sent
        /\ area' = area /\ received' = received /\ apdus' = apdus
    BY Zenon DEF AddFrame, Building
  <1>2. frames \in Seq(AnyFrames) /\ frames' \in Seq(AnyFrames)
    BY <1>1 DEF DeliveryInv, TypesHold
  <1>3. AreaHolds' /\ ReadingHolds'
    BY <1>1, NothingRead, Zenon DEF DeliveryInv, AreaHolds, ReadingHolds
  <1>4. /\ FisbFrames(frames) \in Seq(AnyFrames)
        /\ FisbFrames(frames') =
             IF f.type = FisBApdu THEN Append(FisbFrames(frames), f) ELSE FisbFrames(frames)
    BY <1>1, <1>2, FisbAppend, Zenon
  <1>5. WrappedHold
    BY DEF DeliveryInv
  <1>6. ASSUME f.type # FisBApdu PROVE WrappedHold'
    BY <1>1, <1>4, <1>5, <1>6, Zenon DEF WrappedHold
  <1>7. ASSUME f.type = FisBApdu PROVE WrappedHold'
    <2>1. PICK q \in Seq(AnyFrames), n \in Nat, m \in Nat :
             q = FisbFrames(frames) /\ n = Len(q) /\ m = Len(sent)
      BY <1>4, <1>5 DEF WrappedHold
    <2>2. Len(FisbFrames(frames')) = n + 1
      <3>1. Len(Append(q, f)) = n + 1
        BY <2>1
      <3> QED
        BY <1>4, <1>7, <2>1, <3>1, Zenon
    <2>3. m <= n
      BY <1>5, <2>1, Zenon DEF WrappedHold
    <2>4. m <= n + 1 /\ n + 1 # m
      BY <2>3
    <2> QED
      BY <1>1, <1>5, <2>1, <2>2, <2>4, Zenon DEF WrappedHold
  <1> QED
    BY <1>2, <1>3, <1>6, <1>7

\* The APDUs of a list of requests.
LEMMA Published ==
    ASSUME NEW work \in Works, NEW q,
           q = Collected(FlattenSeq([i \in DOMAIN work |-> ApdusFor(work[i])])), q # Error
    PROVE  q \in Seq(AnyApdus)
  <1> DEFINE parts == [i \in DOMAIN work |-> ApdusFor(work[i])]
             T == AnyApdus \cup {Error}
  <1>1. parts \in Seq(Seq(T))
    BY WorksAssumption, Zenon
  <1> HIDE DEF parts
  <1>2. FlattenSeq(parts) \in Seq(T)
    BY <1>1, FlattenType, Zenon
  <1>3. PICK all \in Seq(T) : all = FlattenSeq(parts)
    BY <1>2
  <1>4. q = all /\ \A i \in DOMAIN all : all[i] # Error
    BY <1>3, Zenon DEF Collected, parts
  <1>5. all \in Seq(AnyApdus)
    BY <1>4
  <1> QED
    BY <1>4, <1>5

LEMMA DeliveryStep ==
    ASSUME DeliveryInv, [DeliveryNext]_<<vars, delivery>>
    PROVE  DeliveryInv'
  <1> USE DEF DeliveryInv
  <1>1. ASSUME NEW work \in Works, Publish(work) PROVE DeliveryInv'
    <2>1. UNCHANGED vars /\ queue' = Collected(FlattenSeq([i \in DOMAIN work |-> ApdusFor(work[i])]))
      BY <1>1, Zenon DEF Publish
    <2>2. queue' # Error => queue' \in Seq(AnyApdus)
      BY <2>1, Published, Zenon
    <2> QED
      BY <2>1, <2>2, Zenon DEF vars, TypesHold, AreaHolds, ReadingHolds, WrappedHold
  <1>2. ASSUME Wrap PROVE DeliveryInv'
    <2>1. queue # << >> /\ queue # Error /\ AddApdu(Head(queue)) /\ queue' = Tail(queue)
      BY <1>2, Zenon DEF Wrap
    <2>2. PICK q \in Seq(AnyApdus) : q = queue
      BY <2>1, Zenon DEF TypesHold
    <2>3. Head(q) \in AnyApdus /\ Tail(q) \in Seq(AnyApdus)
      BY <2>1, <2>2
    <2>4. PICK a \in AnyApdus : a = Head(queue)
      BY <2>2, <2>3, Zenon
    <2>5. frames' \in Seq(AnyFrames) /\ AreaHolds' /\ ReadingHolds' /\ WrappedHold'
      BY <2>1, <2>4, AddApduKeeps, Zenon
    <2>6. queue' \in Seq(AnyApdus)
      BY <2>1, <2>2, <2>3, Zenon
    <2> QED
      BY <2>5, <2>6, Zenon DEF TypesHold
  <1>3. ASSUME NEW a \in Apdus, AddForeign(a) PROVE DeliveryInv'
    <2>1. AddApdu(a) /\ queue' = queue /\ a \in AnyApdus
      BY <1>3, ApdusAssumption, Zenon DEF AddForeign, delivery
    <2>2. frames' \in Seq(AnyFrames) /\ AreaHolds' /\ ReadingHolds' /\ WrappedHold'
      BY <2>1, AddApduKeeps, Zenon
    <2> QED
      BY <2>1, <2>2, Zenon DEF TypesHold
  <1>4. ASSUME NEW f \in BareFrames, AddOther(f) PROVE DeliveryInv'
    <2>1. AddFrame(f) /\ queue' = queue /\ f \in AnyFrames
      BY <1>4, FramesAssumption, Zenon DEF AddOther, delivery
    <2>2. frames' \in Seq(AnyFrames) /\ AreaHolds' /\ ReadingHolds' /\ WrappedHold'
      BY <2>1, AddFrameKeeps, Zenon
    <2> QED
      BY <2>1, <2>2, Zenon DEF TypesHold
  <1>5. ASSUME PackPayload PROVE DeliveryInv'
    <2>1. /\ area = None /\ area' = FromInformationFrames(frames)
          /\ frames' = frames /\ sent' = sent /\ received' = received /\ apdus' = apdus
          /\ queue' = queue
      BY <1>5, Zenon DEF PackPayload, Pack, delivery
    <2>2. received = None /\ apdus = None
      BY <2>1, NothingRead, Zenon
    <2> QED
      BY <2>1, <2>2, Zenon DEF TypesHold, AreaHolds, ReadingHolds, WrappedHold
  <1>6. ASSUME NEW bytes \in Areas, OverhearPayload(bytes) PROVE DeliveryInv'
    <2>1. /\ area = None /\ frames = << >> /\ area' = bytes
          /\ frames' = frames /\ sent' = sent /\ received' = received /\ apdus' = apdus
          /\ queue' = queue
      BY <1>6, Zenon DEF OverhearPayload, Overhear, delivery
    <2>2. received = None /\ apdus = None
      BY <2>1, NothingRead, Zenon
    <2> QED
      BY <2>1, <2>2, Zenon DEF TypesHold, AreaHolds, ReadingHolds, WrappedHold
  <1>7. ASSUME ReadProducts PROVE DeliveryInv'
    <2>1. /\ area \notin {None, Error} /\ received' = InformationFrames(area)
          /\ apdus' = ApdusOf(area) /\ frames' = frames /\ sent' = sent /\ area' = area
          /\ queue' = queue
      BY <1>7, Zenon DEF ReadProducts, Read
    <2> QED
      BY <2>1, Zenon DEF TypesHold, AreaHolds, ReadingHolds, WrappedHold
  <1>8. ASSUME Proceed PROVE DeliveryInv'
    <2>1. /\ frames' = << >> /\ sent' = << >> /\ queue' = queue
          /\ area' = None /\ received' = None /\ apdus' = None
      BY <1>8, Zenon DEF Proceed
    <2>2. << >> \in Seq(AnyFrames) /\ << >> \in Seq(AnyApdus) /\ Len(<< >>) = 0 /\ 0 <= 0
          /\ \A i \in 1..0 : FALSE
      OBVIOUS
    <2>3. TypesHold' /\ AreaHolds' /\ ReadingHolds'
      BY <2>1, <2>2, Zenon DEF TypesHold, AreaHolds, ReadingHolds
    <2>4. WrappedHold'
      BY <2>1, <2>2, FisbEmpty, Zenon DEF WrappedHold
    <2> QED
      BY <2>3, <2>4
  <1>9. ASSUME UNCHANGED <<vars, delivery>> PROVE DeliveryInv'
    BY <1>9, Zenon DEF vars, delivery, TypesHold, AreaHolds, ReadingHolds, WrappedHold
  <1> QED
    BY <1>1, <1>2, <1>3, <1>4, <1>5, <1>6, <1>7, <1>8, <1>9, Zenon DEF DeliveryNext

LEMMA DeliveryStart ==
    ASSUME DeliveryInit
    PROVE  DeliveryInv
  <1>1. /\ frames = << >> /\ sent = << >> /\ queue = << >>
        /\ area = None /\ received = None /\ apdus = None
    BY Zenon DEF DeliveryInit, Init
  <1>2. << >> \in Seq(AnyFrames) /\ << >> \in Seq(AnyApdus) /\ Len(<< >>) = 0 /\ 0 <= 0
        /\ \A i \in 1..0 : FALSE
    OBVIOUS
  <1>3. WrappedHold
    BY <1>1, <1>2, FisbEmpty, Zenon DEF WrappedHold
  <1> QED
    BY <1>1, <1>2, <1>3, Zenon DEF DeliveryInv, TypesHold, AreaHolds, ReadingHolds

(* Where the frames, the application data and what is read of them come    *)
(* from, in every state of every station: DeliveryInv is inductive.        *)
THEOREM DeliveryInvariant == DeliverySpec => []DeliveryInv
  <1>1. DeliveryInit => DeliveryInv
    BY DeliveryStart
  <1>2. DeliveryInv /\ [DeliveryNext]_<<vars, delivery>> => DeliveryInv'
    BY DeliveryStep
  <1> QED
    BY <1>1, <1>2, PTL DEF DeliverySpec

----------------------------------------------------------------------------
(* What follows from it                                                    *)

\* The frames that a receiver gets of a payload put together from frames.
LEMMA ReadFrames ==
    ASSUME DeliveryInv, frames # << >>, area \notin {None, Error}
    PROVE  InformationFrames(area) = UpToEmpty
  <1>1. frames \in Seq(AnyFrames) /\ area = FromInformationFrames(frames)
    BY Zenon DEF DeliveryInv, TypesHold, AreaHolds
  <1>2. /\ \A i \in DOMAIN frames : Sendable(frames[i])
        /\ area \in Seq(Bytes)
        /\ LiesAt(area, 0, FlattenSeq(Pieces(frames)))
        /\ \A j \in Len(FlattenSeq(Pieces(frames))) + 1..Len(area) : area[j] = 0
    BY <1>1, PackedArea
  <1>3. PICK e : IsReadable(frames, e) /\ UpToEmpty = SubSeq(frames, 1, e)
    BY <1>1, EmptyEnds
  <1> QED
    BY <1>1, <1>2, <1>3, PackedReads, Zenon

(* Frames that fit into a payload, in any number and of any lengths, are   *)
(* read as they were packed, up to the first empty one.                    *)
THEOREM FramesAreReadAsPacked == DeliverySpec => []PackedFramesAreRead
  <1>1. DeliveryInv => PackedFramesAreRead
    <2> SUFFICES ASSUME DeliveryInv, frames # << >>, received # None
                 PROVE  received = UpToEmpty
      BY DEF PackedFramesAreRead
    <2>1. area \notin {None, Error} /\ received = InformationFrames(area)
      BY Zenon DEF DeliveryInv, ReadingHolds
    <2> QED
      BY <2>1, ReadFrames, Zenon
  <1> QED
    BY <1>1, DeliveryInvariant, PTL

\* The frames of type 0 hold the wrapped APDUs, so these are decoded.
LEMMA WrappedAreDecoded ==
    ASSUME DeliveryInv, InformationFrames(area) = frames,
           Len(FisbFrames(frames)) = Len(sent)
    PROVE  ApdusOf(area) = sent
  <1> DEFINE fisb == FisbFrames(frames)
             found == [i \in DOMAIN fisb |-> DecodeApdu(fisb[i].data)]
  <1>1. PICK s \in Seq(AnyApdus) : s = sent
    BY DEF DeliveryInv, WrappedHold
  <1>2. fisb \in Seq(AnyFrames) /\ Len(fisb) = Len(s)
    <2>1. frames \in Seq(AnyFrames) /\ << >> \in Seq(AnyFrames)
      BY DEF DeliveryInv, TypesHold
    <2>2. \E f : f \in AnyFrames
      <3>1. [reserved |-> 0, type |-> 0, data |-> << >>] \in AnyFrames
        BY DEF AnyFrames, Bytes
      <3> QED
        BY <3>1
    <2> QED
      BY <1>1, <2>1, <2>2, FisbAppend, Zenon
  <1>3. DOMAIN fisb = 1..Len(s) /\ s = [i \in 1..Len(s) |-> s[i]]
    BY <1>2
  <1>4. \A i \in 1..Len(s) : s[i] \in AnyApdus /\ s[i] # Error
    <2>1. \A i \in 1..Len(s) : s[i] \in AnyApdus
      OBVIOUS
    <2> QED
      BY <2>1, ResultsAssumption, Zenon
  <1>5. \A i \in 1..Len(s) : EncodeApdu(s[i]) # Error /\ fisb[i].data = EncodeApdu(s[i])
    <2>1. \A i \in 1..Len(s) : EncodeApdu(s[i]) # Error /\ fisb[i] = FrameOf(s[i])
      BY <1>1, Zenon DEF DeliveryInv, WrappedHold
    <2> QED
      BY <1>4, <2>1, WrappedFrame, Zenon
  <1>6. \A i \in 1..Len(s) : DecodeApdu(fisb[i].data) = s[i]
    BY <1>4, <1>5, ApduReadBack, Zenon
  <1> HIDE DEF fisb
  <1>7. found = s
    <2>1. found = [i \in 1..Len(s) |-> DecodeApdu(fisb[i].data)]
      BY <1>3, Zenon
    <2>2. [i \in 1..Len(s) |-> DecodeApdu(fisb[i].data)] = [i \in 1..Len(s) |-> s[i]]
      BY <1>6, Zenon
    <2> QED
      BY <1>3, <2>1, <2>2, Zenon
  <1>8. DOMAIN found = 1..Len(s)
    BY <1>3, Zenon
  <1>9. Collected(found) = s
    BY <1>4, <1>7, <1>8, Zenon DEF Collected
  <1>10. frames # Error
    BY ResultsAssumption, Zenon DEF DeliveryInv, TypesHold
  <1>11. ApdusOf(area) = Collected(found)
    BY <1>10, Zenon DEF ApdusOf, fisb
  <1> QED
    BY <1>1, <1>9, <1>11, Zenon

\* Frames that may be sent and fit into the area are packed.
LEMMA FittingFramesPack ==
    ASSUME NEW fs, \A i \in DOMAIN fs : Sendable(fs[i]),
           FlattenSeq(Pieces(fs)) \in Seq(Bytes), NEW n \in Nat, n <= APPLICATION_DATA_LEN,
           n = Len(FlattenSeq(Pieces(fs)))
    PROVE  FromInformationFrames(fs) # Error
  <1> DEFINE all == FlattenSeq(Pieces(fs))
             zeros == [i \in 1..APPLICATION_DATA_LEN - Len(all) |-> 0]
  <1>1. \A i \in DOMAIN fs : ValidForEncoding(fs[i]) /\ ~ (Len(fs[i].data) > MAX_FRAME_LEN)
    <2> SUFFICES ASSUME NEW i \in DOMAIN fs
                 PROVE  ValidForEncoding(fs[i]) /\ ~ (Len(fs[i].data) > MAX_FRAME_LEN)
      OBVIOUS
    <2>1. ValidForEncoding(fs[i]) /\ Sendable(fs[i])
      BY DEF Sendable
    <2>2. PICK k : k \in 0..422 /\ k = Len(fs[i].data)
      BY <2>1, FrameBytesFacts, Zenon
    <2>3. ~ (k > MAX_FRAME_LEN)
      <3>1. k \in 0..422
        BY <2>2, Zenon
      <3> QED
        BY ONLY <3>1 DEF MAX_FRAME_LEN
    <2> QED
      BY <2>1, <2>2, <2>3, Zenon
  <1>2. ~ (Len(all) > APPLICATION_DATA_LEN)
    <2>1. ~ (n > APPLICATION_DATA_LEN)
      BY ONLY n \in Nat, n <= APPLICATION_DATA_LEN DEF APPLICATION_DATA_LEN
    <2> QED
      BY <2>1, Zenon
  <1>3. FromInformationFrames(fs) = all \o zeros
    BY <1>1, <1>2, Zenon DEF FromInformationFrames, Pieces
  <1>4. zeros \in Seq(Bytes)
    <2>1. PICK k \in Nat : k = APPLICATION_DATA_LEN - n
      BY ONLY n \in Nat, n <= APPLICATION_DATA_LEN DEF APPLICATION_DATA_LEN
    <2>2. \A m \in Nat : [i \in 1..m |-> 0] \in Seq(Bytes)
      BY ONLY TRUE DEF Bytes
    <2> QED
      BY <2>1, <2>2, Zenon
  <1> HIDE DEF zeros
  <1>5. all \o zeros \in Seq(Bytes)
    BY <1>4, ConcatProperties, Zenon
  <1> QED
    BY <1>3, <1>5, ResultsAssumption, Zenon

\* The frame of one APDU alone fits.
LEMMA OneApduPacks ==
    ASSUME DeliveryInv, Len(frames) = 1, Len(sent) = 1
    PROVE  area # Error
  <1>1. PICK f \in AnyFrames : frames = <<f>> /\ frames[1] = f
    <2>1. frames \in Seq(AnyFrames)
      BY DEF DeliveryInv, TypesHold
    <2> QED
      BY <2>1
  <1>2. /\ FisbFrames(frames) = IF f.type = FisBApdu THEN <<f>> ELSE << >>
    <2>1. << >> \in Seq(AnyFrames) /\ Append(<< >>, f) = <<f>>
      OBVIOUS
    <2> QED
      BY <1>1, <2>1, FisbAppend, FisbEmpty, Zenon
  <1>3. PICK s \in Seq(AnyApdus) : s = sent /\ Len(s) = 1
    BY DEF DeliveryInv, WrappedHold
  <1>4. /\ 1 <= Len(FisbFrames(frames))
        /\ Len(FisbFrames(frames)) = 1 => FisbFrames(frames)[1] = FrameOf(s[1])
        /\ EncodeApdu(s[1]) # Error
    <2>1. 1 \in 1..1
      OBVIOUS
    <2> QED
      BY <1>3, <2>1, Zenon DEF DeliveryInv, WrappedHold
  <1>5. f = FrameOf(s[1])
    <2>1. Len(<< >>) = 0 /\ ~ (1 <= 0) /\ Len(<<f>>) = 1 /\ <<f>>[1] = f
      OBVIOUS
    <2> QED
      BY <1>2, <1>4, <2>1, Zenon
  <1>6. s[1] \in AnyApdus
    BY <1>3
  <1>7. ValidForEncoding(f) /\ f.data = EncodeApdu(s[1])
    BY <1>4, <1>5, <1>6, WrappedFrame, Zenon
  <1>8. PICK k \in 4..422 : k = Len(f.data)
    BY <1>4, <1>6, <1>7, ApduReadBack, Zenon
  <1>9. Sendable(f)
    <2>1. k <= 422
      OBVIOUS
    <2> QED
      BY <1>7, <1>8, <2>1 DEF Sendable, MAX_FRAME_LEN
  <1> DEFINE all == FlattenSeq(Pieces(frames))
  <1>10. all = FrameBytes(f)
    <2>1. PICK b \in Seq(Bytes) : b = FrameBytes(f)
      BY <1>9, FrameBytesFacts, Zenon
    <2>2. Pieces(frames) = <<FrameBytes(f)>>
      <3>1. [i \in DOMAIN <<f>> |-> FrameBytes(<<f>>[i])] = <<FrameBytes(f)>>
        OBVIOUS
      <3> QED
        BY <1>1, <3>1, Zenon DEF Pieces
    <2>3. << >> \in Seq(Seq(Bytes)) /\ <<b>> \o << >> = <<b>> /\ b \o << >> = b
      OBVIOUS
    <2>4. FlattenSeq(<<b>> \o << >>) = b \o << >>
      BY <2>3, FlattenFirst, FlattenEmpty, ZenonT(40)
    <2> QED
      BY <2>1, <2>2, <2>3, <2>4, Zenon
  <1>11. all \in Seq(Bytes) /\ Len(all) = k + 2
    BY <1>8, <1>9, <1>10, FrameBytesFacts, ZenonT(40)
  <1> HIDE DEF all
  <1>12. FromInformationFrames(frames) # Error
    <2>1. PICK n \in Nat : n = k + 2 /\ n <= APPLICATION_DATA_LEN
      BY ONLY k \in 4..422 DEF APPLICATION_DATA_LEN
    <2>2. \A i \in DOMAIN frames : frames[i] = f
      BY <1>1
    <2>3. \A i \in DOMAIN frames : Sendable(frames[i])
      BY <1>9, <2>2, Zenon
    <2> QED
      BY <1>11, <2>1, <2>3, FittingFramesPack, Zenon DEF all
  <1>13. frames # << >>
    BY <1>1
  <1> QED
    BY <1>12, <1>13, ResultsAssumption, Zenon DEF DeliveryInv, AreaHolds

(* An APDU that was wrapped comes out of the payload as it went in,        *)
(* whatever optional fields its header has, next to other frames; and an   *)
(* APDU alone always packs.                                                *)
THEOREM WrappedApdusSurvive == DeliverySpec => []ApdusSurvive
  <1>1. DeliveryInv => ApdusSurvive
    <2>1. ASSUME DeliveryInv, area \notin {None, Error}, apdus # None, frames # << >>,
                 UpToEmpty = frames, Len(FisbFrames(frames)) = Len(sent)
          PROVE  apdus = sent
      <3>1. apdus = ApdusOf(area)
        BY <2>1, Zenon DEF DeliveryInv, ReadingHolds
      <3>2. InformationFrames(area) = frames
        BY <2>1, ReadFrames, Zenon
      <3> QED
        BY <2>1, <3>1, <3>2, WrappedAreDecoded, Zenon
    <2> QED
      BY <2>1, OneApduPacks, Zenon DEF ApdusSurvive
  <1> QED
    BY <1>1, DeliveryInvariant, PTL

----------------------------------------------------------------------------
(* The other way: what is read would be packed as the same bytes.          *)

LEMMA HeadAgain ==
    ASSUME NEW a \in Bytes, NEW b \in Bytes, (b \div 16) % 8 = 0,
           NEW n, n = 2 * a + b \div 128, NEW t, t = b % 16
    PROVE  n \div 2 = a /\ 128 * (n % 2) + t = b
  <1>0. a \in 0..255 /\ b \in 0..255
    BY DEF Bytes
  <1>1. PICK c \in 0..1, d \in 0..127 : b = 128 * c + d /\ c = b \div 128
    <2>1. b \div 128 \in 0..1 /\ b % 128 \in 0..127 /\ b = 128 * (b \div 128) + (b % 128)
      BY <1>0
    <2> QED
      BY <2>1
  <1>2. b \div 16 = 8 * c + d \div 16 /\ d \div 16 \in 0..7 /\ b % 16 = d % 16
    BY ONLY <1>0, <1>1, c \in 0..1, d \in 0..127
  <1>3. d \div 16 = 0
    <2>1. PICK q \in 0..7 : q = d \div 16
      BY <1>2
    <2>2. b \div 16 = 8 * c + q
      BY <1>2, <2>1, Zenon
    <2>3. (8 * c + q) % 8 = 0
      BY <2>2
    <2>4. q = 0
      BY ONLY <2>3, c \in 0..1, q \in 0..7
    <2> QED
      BY <2>1, <2>4
  <1>4. d \in 0..15
    BY ONLY <1>3, d \in 0..127
  <1>5. t = d
    BY ONLY <1>2, <1>4, t = b % 16
  <1>6. n = 2 * a + c
    BY <1>1
  <1>7. n \div 2 = a /\ n % 2 = c
    BY ONLY <1>0, <1>6, c \in 0..1
  <1> QED
    BY <1>1, <1>5, <1>7

LEMMA FrameAgain ==
    ASSUME NEW bytes \in Seq(Bytes), Len(bytes) = APPLICATION_DATA_LEN, NEW o \in 0..Len(bytes),
           ~ NoFrame(bytes, o), ~ BadFrame(bytes, o)
    PROVE  /\ Sendable(FrameAt(bytes, o))
           /\ LiesAt(bytes, o, FrameBytes(FrameAt(bytes, o)))
           /\ Behind(bytes, o) = o + Len(FrameBytes(FrameAt(bytes, o)))
  <1>1. PICK f \in AnyFrames, a \in Bytes, b \in Bytes, n \in Nat :
           /\ f = FrameAt(bytes, o) /\ a = bytes[o + 1] /\ b = bytes[o + 2]
           /\ n = LengthAt(bytes, o) /\ n = Len(f.data)
    <2>1. \A k \in 1..511 : k \in Nat
      OBVIOUS
    <2> QED
      BY <2>1, HeaderRead, ZenonT(40)
  <1>2. Acceptable(f) /\ LiesAt(bytes, o + 2, f.data) /\ Behind(bytes, o) \in o + 1..Len(bytes)
    BY <1>1, HeaderRead, ZenonT(40)
  <1>3. Behind(bytes, o) = o + n + 2
    BY <1>1 DEF Behind
  <1>4. PICK at \in 0..424 : at = o
    BY DEF APPLICATION_DATA_LEN
  <1>5. n <= 422
    <2>1. PICK z : z = Behind(bytes, o)
      OBVIOUS
    <2>2. z \in at + 1..424 /\ z = at + n + 2
      BY <1>2, <1>3, <1>4, <2>1 DEF APPLICATION_DATA_LEN
    <2> QED
      BY ONLY <2>2, at \in 0..424, n \in Nat
  <1>6. Sendable(f)
    <2>1. Len(f.data) <= MAX_FRAME_LEN
      BY <1>1, <1>5 DEF MAX_FRAME_LEN
    <2> QED
      BY <1>2, <2>1, Zenon DEF Sendable, Acceptable, ValidForEncoding
  <1>7. /\ FrameHead(f) \in Seq(Bytes) /\ Len(FrameHead(f)) = 2
        /\ f.data \in Seq(Bytes)
        /\ FrameBytes(f) = FrameHead(f) \o f.data
        /\ Len(FrameBytes(f)) = n + 2
    BY <1>1, <1>6, FrameBytesFacts, ZenonT(40)
  <1>8. f.reserved = (b \div 16) % 8 /\ f.type = b % 16 /\ f.reserved = 0
    BY <1>1, <1>2 DEF FrameAt, Acceptable
  <1>9. n \div 2 = a /\ 128 * (n % 2) + f.type = b
    <2>1. n = 2 * a + b \div 128
      BY <1>1, Zenon DEF LengthAt
    <2>2. (b \div 16) % 8 = 0
      BY <1>8, Zenon
    <2> QED
      BY <1>8, <2>1, <2>2, HeadAgain
  <1>10. FrameHead(f)[1] = a /\ FrameHead(f)[2] = b
    <2>1. FrameHead(f) = <<a, b>>
      BY <1>1, <1>9, Zenon DEF FrameHead
    <2> QED
      BY <2>1
  <1>11. LiesAt(bytes, o, FrameHead(f))
    <2>1. o + 2 <= Len(bytes) /\ \A i \in 1..2 : i = 1 \/ i = 2
      BY DEF NoFrame
    <2>2. \A i \in 1..2 : bytes[o + i] = FrameHead(f)[i]
      BY <1>1, <1>10, <2>1, ZenonT(40)
    <2>3. Len(FrameHead(f)) = 2
      BY <1>7
    <2> QED
      BY <2>1, <2>2, <2>3, ZenonT(40) DEF LiesAt
  <1>12. LiesAt(bytes, o, FrameBytes(f))
    <2>1. o \in Nat
      OBVIOUS
    <2> QED
      BY <1>2, <1>7, <1>11, <2>1, LiesAtConcat, Zenon
  <1>13. o + n + 2 = o + (n + 2)
    OBVIOUS
  <1> QED
    BY <1>1, <1>3, <1>6, <1>7, <1>12, <1>13, Zenon

\* The pieces of one frame more, in front.
LEMMA PiecesFirst ==
    ASSUME NEW f \in AnyFrames, Sendable(f), NEW rest \in Seq(AnyFrames),
           \A i \in DOMAIN rest : Sendable(rest[i])
    PROVE  /\ \A i \in DOMAIN (<<f>> \o rest) : Sendable((<<f>> \o rest)[i])
           /\ FlattenSeq(Pieces(<<f>> \o rest)) = FrameBytes(f) \o FlattenSeq(Pieces(rest))
  <1> DEFINE fs == <<f>> \o rest
             n == Len(rest)
  <1>1. /\ fs \in Seq(AnyFrames) /\ Len(fs) = n + 1 /\ n \in Nat
        /\ fs[1] = f /\ \A i \in 1..n : fs[i + 1] = rest[i]
    <2>1. PICK one \in Seq(AnyFrames) : one = <<f>>
      <3>1. <<f>> \in Seq(AnyFrames)
        OBVIOUS
      <3> QED
        BY <3>1
    <2>2. Len(one) = 1 /\ one[1] = f
      BY <2>1
    <2>3. /\ one \o rest \in Seq(AnyFrames) /\ Len(one \o rest) = Len(one) + Len(rest)
          /\ \A i \in 1..Len(one) + Len(rest) :
               (one \o rest)[i] = IF i <= Len(one) THEN one[i] ELSE rest[i - Len(one)]
      BY ConcatProperties
    <2>4. PICK c \in Seq(AnyFrames) : c = one \o rest
      BY <2>3
    <2>5. /\ Len(c) = 1 + n
          /\ \A i \in 1..1 + n : c[i] = IF i <= 1 THEN one[i] ELSE rest[i - 1]
      BY <2>2, <2>3, <2>4, Zenon
    <2>6. n \in Nat
      OBVIOUS
    <2> HIDE DEF n
    <2>7. Len(c) = n + 1 /\ c[1] = f /\ \A i \in 1..n : c[i + 1] = rest[i]
      <3>1. Len(c) = n + 1 /\ c[1] = one[1]
        BY ONLY <2>5, <2>6
      <3>2. \A i \in 1..n : i + 1 \in 1..1 + n /\ ~ (i + 1 <= 1) /\ (i + 1) - 1 = i
        BY ONLY <2>6
      <3>3. \A i \in 1..n : c[i + 1] = rest[i]
        BY ONLY <2>5, <3>2
      <3> QED
        BY <2>2, <3>1, <3>3, Zenon
    <2> QED
      BY <2>1, <2>4, <2>6, <2>7, Zenon
  <1> HIDE DEF fs
  <1>2. \A i \in 1..n + 1 : i = 1 \/ (i - 1 \in 1..n /\ (i - 1) + 1 = i)
    BY <1>1
  <1>3. DOMAIN fs = 1..n + 1 /\ DOMAIN rest = 1..n
    BY <1>1
  <1>4. \A i \in DOMAIN fs : Sendable(fs[i])
    <2>1. \A k \in 1..n : Sendable(fs[k + 1])
      BY <1>1, <1>3
    <2>2. \A i \in 1..n + 1 : i # 1 => Sendable(fs[(i - 1) + 1])
      BY <1>2, <2>1, Zenon
    <2> QED
      BY <1>1, <1>2, <1>3, <2>2
  <1>5. /\ Pieces(fs) \in Seq(Seq(Bytes)) /\ Len(Pieces(fs)) = n + 1
        /\ \A i \in 1..n + 1 : Pieces(fs)[i] = FrameBytes(fs[i])
    BY <1>1, <1>4, PiecesType, Zenon
  <1>6. /\ Pieces(rest) \in Seq(Seq(Bytes)) /\ Len(Pieces(rest)) = n
        /\ \A i \in 1..n : Pieces(rest)[i] = FrameBytes(rest[i])
    BY PiecesType, Zenon
  <1>7. PICK b \in Seq(Bytes) : b = FrameBytes(f)
    BY FrameBytesFacts, Zenon
  <1>8. PICK p \in Seq(Seq(Bytes)), q \in Seq(Seq(Bytes)) : p = Pieces(fs) /\ q = Pieces(rest)
    BY <1>5, <1>6, Zenon
  <1>9. p = <<b>> \o q
    <2>1. PICK one \in Seq(Seq(Bytes)) : one = <<b>> /\ Len(one) = 1 /\ one[1] = b
      <3>1. <<b>> \in Seq(Seq(Bytes)) /\ Len(<<b>>) = 1 /\ <<b>>[1] = b
        OBVIOUS
      <3> QED
        BY <3>1, Zenon
    <2>2. PICK c \in Seq(Seq(Bytes)) : c = one \o q
      BY ConcatProperties, Zenon
    <2>3. /\ Len(c) = Len(one) + Len(q)
          /\ \A i \in 1..Len(one) + Len(q) :
               c[i] = IF i <= Len(one) THEN one[i] ELSE q[i - Len(one)]
      BY <2>2, ConcatProperties
    <2>4. /\ Len(c) = 1 + n
          /\ \A i \in 1..1 + n : c[i] = IF i <= 1 THEN one[i] ELSE q[i - 1]
      BY <1>6, <1>8, <2>1, <2>3, Zenon
    <2>5. n \in Nat
      BY <1>1
    <2> HIDE DEF n
    <2>6. Len(c) = n + 1 /\ c[1] = one[1] /\ \A i \in 1..n : c[i + 1] = q[i]
      <3>1. Len(c) = n + 1 /\ c[1] = one[1]
        BY ONLY <2>4, <2>5
      <3>2. \A i \in 1..n : i + 1 \in 1..1 + n /\ ~ (i + 1 <= 1) /\ (i + 1) - 1 = i
        BY ONLY <2>5
      <3>3. \A i \in 1..n : c[i + 1] = q[i]
        BY ONLY <2>4, <3>2
      <3> QED
        BY <3>1, <3>3, Zenon
    <2>7. ASSUME NEW i \in 1..n + 1 PROVE p[i] = c[i]
      <3>1. CASE i = 1
        BY <1>1, <1>5, <1>7, <1>8, <2>1, <2>6, <3>1, Zenon
      <3>2. ASSUME NEW k \in 1..n, i = k + 1 PROVE p[i] = c[i]
        <4>1. p[i] = FrameBytes(fs[i])
          BY <1>5, <1>8, Zenon
        <4>2. fs[i] = rest[k] /\ c[i] = q[k] /\ q[k] = FrameBytes(rest[k])
          BY <1>1, <1>6, <1>8, <2>6, <3>2, Zenon
        <4> QED
          BY <4>1, <4>2, Zenon
      <3> QED
        BY <1>2, <3>1, <3>2, Zenon
    <2>8. Len(p) = n + 1
      BY <1>5, <1>8, Zenon
    <2>9. p = c
      BY <2>6, <2>7, <2>8, SeqEqual, Zenon
    <2> QED
      BY <2>1, <2>2, <2>9, Zenon
  <1>10. FlattenSeq(<<b>> \o q) = b \o FlattenSeq(q)
    BY FlattenFirst, Zenon
  <1> QED
    BY <1>4, <1>7, <1>8, <1>9, <1>10, Zenon DEF fs

\* What information_frames() gives lies in the bytes as it would be packed.
LEMMA ReadLies ==
    ASSUME NEW bytes \in Seq(Bytes), Len(bytes) = APPLICATION_DATA_LEN,
           NEW fs, fs = InformationFrames(bytes), fs # Error
    PROVE  /\ fs \in Seq(AnyFrames) /\ \A i \in DOMAIN fs : Sendable(fs[i])
           /\ LiesAt(bytes, 0, FlattenSeq(Pieces(fs)))
  <1> DEFINE N == Len(bytes)
             Good(o, x) == /\ x \in Seq(AnyFrames) /\ \A i \in DOMAIN x : Sendable(x[i])
                           /\ LiesAt(bytes, o, FlattenSeq(Pieces(x)))
  <1>1. PICK from : Reads(bytes, from) /\ InformationFrames(bytes) = from[0]
    BY ReadsExists, ReadsFirst, Zenon
  <1> DEFINE S == { o \in 0..N : from[o] # Error => Good(o, from[o]) }
  <1>2. N \in Nat /\ \A o \in 0..N : o \in Nat
    OBVIOUS
  <1>3. ASSUME NEW o \in 0..N, \A j \in o + 1..N : j \in S PROVE o \in S
    <2> SUFFICES ASSUME from[o] # Error PROVE Good(o, from[o])
      OBVIOUS
    <2>1. CASE NoFrame(bytes, o)
      <3>1. from[o] = << >>
        BY <1>1, <2>1, ReadsStep, Zenon
      <3>2. << >> \in Seq(AnyFrames) /\ DOMAIN << >> = {}
        OBVIOUS
      <3>3. FlattenSeq(Pieces(<< >>)) = << >>
        <4>1. Pieces(<< >>) = << >>
          BY DEF Pieces
        <4> QED
          BY <4>1, FlattenEmpty, Zenon
      <3>4. LiesAt(bytes, o, << >>)
        <4>1. Len(<< >>) = 0 /\ o + 0 <= N /\ \A i \in 1..0 : FALSE
          BY <1>2
        <4> QED
          BY <4>1, Zenon DEF LiesAt
      <3> QED
        BY <3>1, <3>2, <3>3, <3>4, Zenon
    <2>2. CASE ~ NoFrame(bytes, o)
      <3>1. /\ ~ BadFrame(bytes, o)
            /\ from[Behind(bytes, o)] # Error
            /\ from[o] = <<FrameAt(bytes, o)>> \o from[Behind(bytes, o)]
        BY <1>1, <2>2, ReadsStep, Zenon
      <3>2. PICK f \in AnyFrames, at \in o + 1..N :
               f = FrameAt(bytes, o) /\ at = Behind(bytes, o)
        BY <2>2, <3>1, HeaderRead, Zenon
      <3>3. /\ Sendable(f) /\ LiesAt(bytes, o, FrameBytes(f)) /\ at = o + Len(FrameBytes(f))
        BY <2>2, <3>1, <3>2, FrameAgain, Zenon
      <3>4. Good(at, from[at])
        BY <1>3, <3>1, <3>2, Zenon
      <3>5. PICK rest \in Seq(AnyFrames) : rest = from[at] /\ \A i \in DOMAIN rest : Sendable(rest[i])
        BY <3>4, Zenon
      <3>6. /\ \A i \in DOMAIN (<<f>> \o rest) : Sendable((<<f>> \o rest)[i])
            /\ FlattenSeq(Pieces(<<f>> \o rest)) = FrameBytes(f) \o FlattenSeq(Pieces(rest))
            /\ <<f>> \o rest \in Seq(AnyFrames)
        BY <3>3, <3>5, PiecesFirst, PrefixedFrames, Zenon
      <3>7. FrameBytes(f) \in Seq(Bytes) /\ FlattenSeq(Pieces(rest)) \in Seq(Bytes)
        <4>1. Pieces(rest) \in Seq(Seq(Bytes))
          BY <3>5, PiecesType, Zenon
        <4> QED
          BY <3>3, <4>1, FrameBytesFacts, FlattenType, Zenon
      <3>8. LiesAt(bytes, o, FrameBytes(f) \o FlattenSeq(Pieces(rest)))
        <4>1. LiesAt(bytes, o + Len(FrameBytes(f)), FlattenSeq(Pieces(rest)))
          BY <3>3, <3>4, <3>5, Zenon
        <4> QED
          BY <1>2, <3>3, <3>7, <4>1, LiesAtConcat, Zenon
      <3>9. from[o] = <<f>> \o rest
        BY <3>1, <3>2, <3>5, Zenon
      <3> QED
        BY <3>6, <3>8, <3>9, Zenon
    <2> QED
      BY <2>1, <2>2
  <1> HIDE DEF S
  <1>4. 0..N \subseteq S
    BY <1>2, <1>3, DownwardInduction
  <1>5. 0 \in S
    <2>1. 0 \in 0..N
      BY <1>2
    <2> QED
      BY <1>4, <2>1
  <1>6. Good(0, from[0])
    BY <1>1, <1>5, Zenon DEF S
  <1> QED
    BY <1>1, <1>6, Zenon

\* Application data are bytes, as many as a payload has, wherever they come from.
LEMMA AreaType ==
    ASSUME DeliveryInv, area \notin {None, Error}
    PROVE  area \in Seq(Bytes) /\ Len(area) = APPLICATION_DATA_LEN
  <1>1. CASE area = FromInformationFrames(frames)
    <2>1. area \in Seq(Bytes) /\ Len(area) = 424
      BY <1>1, PackedArea DEF DeliveryInv, TypesHold
    <2> QED
      BY <2>1 DEF APPLICATION_DATA_LEN
  <1>2. CASE area \in Areas
    BY <1>2, AreasAssumption, Zenon
  <1> QED
    BY <1>1, <1>2, Zenon DEF DeliveryInv, AreaHolds

LEMMA ReadRepacks ==
    ASSUME DeliveryInv, received # None, received # Error
    PROVE  /\ SubSeq(area, 1, Len(FlattenSeq(Pieces(received)))) = FlattenSeq(Pieces(received))
           /\ FromInformationFrames(received) # Error
           /\ apdus # Error =>
                \A i \in DOMAIN apdus : EncodeApdu(apdus[i]) = FisbFrames(received)[i].data
  <1>1. /\ area \notin {None, Error} /\ received = InformationFrames(area)
        /\ apdus = ApdusOf(area)
    BY Zenon DEF DeliveryInv, ReadingHolds
  <1>2. area \in Seq(Bytes) /\ Len(area) = APPLICATION_DATA_LEN
    BY <1>1, AreaType
  <1>3. /\ received \in Seq(AnyFrames) /\ \A i \in DOMAIN received : Sendable(received[i])
        /\ LiesAt(area, 0, FlattenSeq(Pieces(received)))
    BY <1>1, <1>2, ReadLies, Zenon
  <1>4. FlattenSeq(Pieces(received)) \in Seq(Bytes)
    <2>1. Pieces(received) \in Seq(Seq(Bytes))
      BY <1>3, PiecesType
    <2> QED
      BY <2>1, FlattenType, Zenon
  <1>5. PICK p \in Seq(Bytes), n \in Nat : p = FlattenSeq(Pieces(received)) /\ n = Len(p)
    BY <1>4
  <1>6. SubSeq(area, 1, Len(p)) = p
    <2>1. SubSeq(area, 0 + 1, 0 + Len(p)) = p
      <3>1. 0 \in Nat
        OBVIOUS
      <3> QED
        BY <1>2, <1>3, <1>5, <3>1, LiesAtIsSubSeq, Zenon
    <2>2. 0 + 1 = 1 /\ 0 + Len(p) = Len(p)
      BY <1>5
    <2> QED
      BY <2>1, <2>2, Zenon
  <1>7. FromInformationFrames(received) # Error
    <2>1. 0 + n <= APPLICATION_DATA_LEN
      BY <1>2, <1>3, <1>5, Zenon DEF LiesAt
    <2>2. n <= APPLICATION_DATA_LEN
      BY ONLY <2>1, n \in Nat DEF APPLICATION_DATA_LEN
    <2> QED
      BY <1>3, <1>4, <1>5, <2>2, FittingFramesPack, Zenon
  <1>8. ASSUME apdus # Error, NEW i \in DOMAIN apdus
        PROVE  EncodeApdu(apdus[i]) = FisbFrames(received)[i].data
    <2> DEFINE fisb == FisbFrames(received)
               found == [k \in DOMAIN fisb |-> DecodeApdu(fisb[k].data)]
    <2>1. apdus = found /\ \A k \in DOMAIN found : found[k] # Error
      BY <1>1, <1>8, Zenon DEF ApdusOf, Collected
    <2>2. fisb \in Seq(AnyFrames)
      <3>1. [reserved |-> 0, type |-> 0, data |-> << >>] \in AnyFrames
        BY DEF AnyFrames, Bytes
      <3> QED
        BY <1>3, <3>1, FisbAppend, Zenon
    <2> HIDE DEF fisb
    <2>3. i \in DOMAIN fisb /\ apdus[i] = DecodeApdu(fisb[i].data) /\ DecodeApdu(fisb[i].data) # Error
      BY <1>8, <2>1, Zenon
    <2>4. fisb[i].data \in Seq(Bytes)
      <3>1. fisb[i] \in AnyFrames
        BY <2>2, <2>3
      <3> QED
        BY <3>1 DEF AnyFrames
    <2> QED
      BY <2>3, <2>4, ApduAgain, Zenon DEF fisb
  <1> QED
    BY <1>5, <1>6, <1>7, <1>8, Zenon

(* Whatever bytes arrive, what is taken for frames and for APDUs encodes   *)
(* to these bytes again: no bits of a frame or an APDU header are ignored, *)
(* and no two encodings read the same.                                     *)
THEOREM ReadPayloadsRepack == DeliverySpec => []WhatIsReadRepacks
  <1>1. DeliveryInv => WhatIsReadRepacks
    BY ReadRepacks, Zenon DEF WhatIsReadRepacks, Pieces
  <1> QED
    BY <1>1, DeliveryInvariant, PTL

----------------------------------------------------------------------------
(* The empty blocks of a bitmap                                            *)

\* The numbers below m that are in P, in their order.
PlacesIn(P, n) == [i \in 1..n |-> IF i - 1 \in P THEN <<i - 1>> ELSE << >>]

Places(t, P, m) ==
    /\ t \in Seq(Nat)
    /\ \A i \in 1..Len(t) : t[i] < m
    /\ \A i, j \in 1..Len(t) : i # j => t[i] # t[j]
    /\ \A k \in 0..m - 1 : k \in P => \E i \in 1..Len(t) : t[i] = k

LEMMA OnePlaceMore ==
    ASSUME NEW P, NEW m \in Nat, NEW t, Places(t, P, m)
    PROVE  Places(t \o (IF m \in P THEN <<m>> ELSE << >>), P, m + 1)
  <1>0. PICK s \in Seq(Nat) : s = t
    BY DEF Places
  <1>1. \A k \in 0..m : k = m \/ k \in 0..m - 1
    OBVIOUS
  <1>2. CASE m \in P
    <2> DEFINE n == Len(s)
               u == Append(s, m)
    <2>1. n \in Nat /\ u \in Seq(Nat) /\ Len(u) = n + 1 /\ u[n + 1] = m
          /\ \A i \in 1..n : u[i] = s[i]
      OBVIOUS
    <2>2. t \o <<m>> = u
      BY <1>0
    <2> HIDE DEF u, n
    <2>3. \A i \in 1..n : s[i] < m /\ s[i] \in Nat
      BY <1>0 DEF Places, n
    <2>4. \A i \in 1..n + 1 : i = n + 1 \/ i \in 1..n
      BY <2>1
    <2>5. \A i \in 1..n + 1 : u[i] < m + 1
      BY <2>1, <2>3, <2>4, SMTT(40)
    <2>6. \A i, j \in 1..n : i # j => s[i] # s[j]
      BY <1>0 DEF Places, n
    <2>7. \A i, j \in 1..n + 1 : i # j => u[i] # u[j]
      BY <2>1, <2>3, <2>4, <2>6
    <2>8. \A k \in 0..m - 1 : k \in P => \E i \in 1..n : s[i] = k
      BY <1>0 DEF Places, n
    <2>9. \A k \in 0..(m + 1) - 1 : k \in P => \E i \in 1..n + 1 : u[i] = k
      <3>1. (m + 1) - 1 = m /\ n + 1 \in 1..n + 1 /\ \A i \in 1..n : i \in 1..n + 1
        BY <2>1
      <3> QED
        BY <1>1, <2>1, <2>8, <3>1, Zenon
    <2>10. Places(u, P, m + 1)
      BY <2>1, <2>5, <2>7, <2>9, Zenon DEF Places
    <2>11. t \o (IF m \in P THEN <<m>> ELSE << >>) = u
      BY <1>2, <2>2, Zenon
    <2> QED
      BY <2>10, <2>11, Zenon
  <1>3. CASE m \notin P
    <2>1. t \o << >> = s
      BY <1>0
    <2>2. (m + 1) - 1 = m /\ \A i \in 1..Len(s) : s[i] < m => s[i] < m + 1
      OBVIOUS
    <2>3. \A i \in 1..Len(s) : s[i] < m + 1
      BY <1>0, <2>2, Zenon DEF Places
    <2>4. \A k \in 0..(m + 1) - 1 : k \in P => k \in 0..m - 1
      BY <1>1, <1>3, <2>2, Zenon
    <2>5. Places(s, P, m + 1)
      BY <1>0, <2>3, <2>4, Zenon DEF Places
    <2>6. t \o (IF m \in P THEN <<m>> ELSE << >>) = s
      BY <1>3, <2>1, Zenon
    <2> QED
      BY <2>5, <2>6, Zenon
  <1> QED
    BY <1>2, <1>3

LEMMA PlacesInOrder ==
    ASSUME NEW P, NEW n \in Nat
    PROVE  Places(FlattenSeq(PlacesIn(P, n)), P, n)
  <1> DEFINE parts == PlacesIn(P, n)
  <1>1. /\ parts \in Seq(Seq(Nat)) /\ Len(parts) = n
        /\ \A i \in 1..n : parts[i] = IF i - 1 \in P THEN <<i - 1>> ELSE << >>
    <2>1. \A i \in 1..n : (IF i - 1 \in P THEN <<i - 1>> ELSE << >>) \in Seq(Nat)
      OBVIOUS
    <2> QED
      BY <2>1 DEF PlacesIn
  <1> HIDE DEF parts
  <1>2. PICK g : Flattening(g, parts, Nat)
    BY <1>1, FlatteningExists
  <1>3. /\ g[0] = << >>
        /\ \A i \in 0..n - 1 : g[i + 1] = g[i] \o parts[i + 1]
    <2>1. parts \in Seq(Seq(Nat))
      BY <1>1
    <2>2. /\ g[0] = << >>
          /\ \A i \in 0..Len(parts) - 1 : g[i + 1] = g[i] \o parts[i + 1]
      BY ONLY <1>2, <2>1, FlatteningSteps, ZenonT(40)
    <2> QED
      BY <1>1, <2>2, Zenon
  <1> DEFINE S == { i \in 0..n : Places(g[i], P, i) }
  <1>4. 0 \in S
    <2>1. 0 \in 0..n /\ << >> \in Seq(Nat) /\ Len(<< >>) = 0
          /\ (\A i \in 1..0 : FALSE) /\ \A k \in 0..0 - 1 : FALSE
      OBVIOUS
    <2> QED
      BY <1>3, <2>1, Zenon DEF Places
  <1>5. ASSUME NEW i \in 0..n - 1, i \in S PROVE i + 1 \in S
    <2>1. i \in Nat /\ i + 1 \in 0..n /\ i + 1 \in 1..n /\ (i + 1) - 1 = i
      OBVIOUS
    <2>2. parts[i + 1] = IF i \in P THEN <<i>> ELSE << >>
      BY <1>1, <2>1, Zenon
    <2>3. Places(g[i], P, i)
      BY <1>5
    <2>4. Places(g[i] \o (IF i \in P THEN <<i>> ELSE << >>), P, i + 1)
      BY <2>1, <2>3, OnePlaceMore
    <2>5. Places(g[i + 1], P, i + 1)
      BY <1>3, <2>2, <2>4, Zenon
    <2> QED
      BY <2>1, <2>5
  <1> HIDE DEF S
  <1>6. 0..n \subseteq S
    BY <1>4, <1>5, InductionUpTo
  <1>7. n \in 0..n
    OBVIOUS
  <1>8. Places(g[n], P, n)
    BY <1>6, <1>7 DEF S
  <1>9. FlattenSeq(parts) = g[n]
    BY <1>1, <1>2, FlattenIsFlattening, Zenon
  <1> QED
    BY <1>8, <1>9 DEF parts

\* A block lies at a place of its row, and any place of the row is in the row.
Row(n, size, r) ==
    /\ size = RowSize(n) /\ size \in {225, 450}
    /\ r = RowStart(n) /\ r \in Nat
    /\ \E e \in 0..size - 1 : n = r + e
    /\ \A y \in 0..size - 1 :
         /\ RowStart(r + y) = r
         /\ Wide(r + y) <=> Wide(n)
         /\ ~ Wide(n) => /\ size = 450
                         /\ (r + y) \div 450 = n \div 450
                         /\ (r + y) % 450 = y

LEMMA PlaceInRow ==
    ASSUME NEW n \in Nat
    PROVE  \E size, r : Row(n, size, r)
  <1>0. PICK w \in Nat : w = WIDE_BLOCK_THRESHOLD /\ w = 450 * 900
    <2>1. WIDE_BLOCK_THRESHOLD \in Nat /\ WIDE_BLOCK_THRESHOLD = 450 * 900
      BY SMT DEF WIDE_BLOCK_THRESHOLD
    <2> QED
      BY <2>1, SMTT(40)
  <1>1. CASE Wide(n)
    <2>0. n >= w /\ RowSize(n) = 225
          /\ RowStart(n) = n - ((n - w) % 225)
      BY <1>0, <1>1 DEF Wide, RowSize, RowStart
    <2>1. PICK q \in Nat, e \in 0..224 : n = w + 225 * q + e /\ e = (n - w) % 225
      <3>1. PICK d \in Nat : d = n - w
        BY <2>0
      <3>2. d \div 225 \in Nat /\ d % 225 \in 0..224 /\ d = 225 * (d \div 225) + (d % 225)
        OBVIOUS
      <3> QED
        BY <3>1, <3>2
    <2>2. PICK r \in Nat : r = RowStart(n) /\ r = w + 225 * q
      BY <2>0, <2>1
    <2>3. ASSUME NEW y \in 0..224 PROVE RowStart(r + y) = r /\ Wide(r + y)
      <3>1. r + y >= w /\ (r + y) - w = 225 * q + y
        BY <2>2
      <3>2. (225 * q + y) % 225 = y
        BY ONLY q \in Nat, y \in 0..224
      <3>3. Wide(r + y)
        BY <1>0, <3>1 DEF Wide
      <3>4. RowStart(r + y) = (r + y) - (((r + y) - w) % 225)
        BY <1>0, <3>3 DEF RowStart, RowSize
      <3> QED
        BY <3>1, <3>2, <3>3, <3>4
    <2>4. n = r + e /\ 225 - 1 = 224 /\ 225 \in {225, 450}
      <3>1. n = w + 225 * q + e /\ r = w + 225 * q
        BY <2>1, <2>2, Zenon
      <3> QED
        BY ONLY <3>1, w \in Nat, q \in Nat, e \in 0..224
    <2>5. Row(n, 225, r)
      BY <1>1, <2>0, <2>2, <2>3, <2>4, ZenonT(40) DEF Row
    <2> QED
      BY <2>5
  <1>2. CASE ~ Wide(n)
    <2>0. ~ (n >= w) /\ RowSize(n) = 450 /\ RowStart(n) = n - (n % 450)
      BY <1>0, <1>2 DEF Wide, RowSize, RowStart, BLOCKS_PER_RING
    <2>1. PICK q \in Nat, e \in 0..449 : n = 450 * q + e /\ e = n % 450 /\ q = n \div 450
      <3>1. n \div 450 \in Nat /\ n % 450 \in 0..449 /\ n = 450 * (n \div 450) + (n % 450)
        OBVIOUS
      <3> QED
        BY <3>1
    <2>2. PICK r \in Nat : r = RowStart(n) /\ r = 450 * q
      BY <2>0, <2>1
    <2>3. q <= 899
      BY <1>0, <2>0, <2>1
    <2>4. PICK size \in {225, 450}, last \in Nat : size = 450 /\ last = size - 1 /\ last = 449
      BY 450 - 1 = 449
    <2>5. ASSUME NEW y \in 0..last
          PROVE  /\ RowStart(r + y) = r /\ ~ Wide(r + y)
                 /\ (r + y) \div 450 = n \div 450 /\ (r + y) % 450 = y
      <3>0. y \in 0..449
        BY <2>4
      <3>1. ~ (r + y >= w)
        BY ONLY <1>0, <2>2, <2>3, <3>0, q \in Nat
      <3>2. (450 * q + y) % 450 = y /\ (450 * q + y) \div 450 = q
        BY ONLY q \in Nat, <3>0
      <3>3. ~ Wide(r + y)
        BY <1>0, <3>1 DEF Wide
      <3>4. RowStart(r + y) = (r + y) - ((r + y) % 450)
        BY <3>3 DEF RowStart, RowSize, BLOCKS_PER_RING
      <3>5. (r + y) % 450 = y /\ (r + y) \div 450 = n \div 450
        <4>1. r = 450 * q /\ q = n \div 450
          BY <2>1, <2>2, Zenon
        <4> QED
          BY ONLY <3>2, <4>1
      <3>6. (r + y) - y = r
        BY <2>2, <3>0
      <3> QED
        BY <3>3, <3>4, <3>5, <3>6, SMTT(40)
    <2>6. Row(n, size, r)
      <3>1. \E i \in 0..last : n = r + i
        <4>1. n = 450 * q + e /\ r = 450 * q
          BY <2>1, <2>2, Zenon
        <4>2. n = r + e
          BY ONLY <4>1, q \in Nat, e \in 0..449
        <4> QED
          BY <2>4, <4>2, SMTT(40)
      <3>2. size = RowSize(n)
        BY <2>0, <2>4, Zenon
      <3> QED
        <4>1. \A y \in 0..size - 1 : /\ RowStart(r + y) = r /\ ~ Wide(r + y)
                                    /\ (r + y) \div 450 = n \div 450 /\ (r + y) % 450 = y
          <5>1. \A y \in 0..size - 1 : y \in 0..last
            BY <2>4
          <5> QED
            BY ONLY <2>5, <5>1
        <4>2. size = 450 /\ \E x \in 0..size - 1 : n = r + x
          BY <2>4, <3>1, SMTT(40)
        <4>3. r = RowStart(n)
          BY <2>2, Zenon
        <4> QED
          BY <1>2, <3>2, <4>1, <4>2, <4>3, SMTT(40) DEF Row
    <2> QED
      BY <2>6
  <1> QED
    BY <1>1, <1>2

(* The place at a distance lies in the row; at distance 0 it is the block; *)
(* at different distances, and there are at most 128, are different ones.  *)
LEMMA InRowFacts ==
    ASSUME NEW n \in Nat
    PROVE  /\ InRow(n, 0) = n
           /\ \A x \in Int : /\ InRow(n, x) \in Nat
                             /\ RowStart(InRow(n, x)) = RowStart(n)
                             /\ \E y \in 0..RowSize(n) - 1 : InRow(n, x) = RowStart(n) + y
           /\ \A x, y \in -3..124 : x # y => InRow(n, x) # InRow(n, y)
  <1>1. PICK size, r : Row(n, size, r)
    BY PlaceInRow
  <1>10. /\ size = RowSize(n) /\ size \in {225, 450} /\ r = RowStart(n) /\ r \in Nat
         /\ \A y \in 0..size - 1 : RowStart(r + y) = r
    BY <1>1, Zenon DEF Row
  <1>2. PICK e \in 0..size - 1 : n = r + e
    BY <1>1, Zenon DEF Row
  <1>3. \A x \in Int : InRow(n, x) = r + ((e + x) % size)
    <2>1. n - r = e
      BY <1>10, <1>2
    <2> QED
      BY <1>10, <2>1, Zenon DEF InRow
  <1>4. \A x \in Int : (e + x) % size \in 0..size - 1
    <2>1. CASE size = 225
      BY <2>1
    <2>2. CASE size = 450
      BY <2>2
    <2> QED
      BY <1>10, <2>1, <2>2
  <1>5. (e + 0) % size = e
    <2>1. CASE size = 225
      BY <2>1
    <2>2. CASE size = 450
      BY <2>2
    <2> QED
      BY <1>10, <2>1, <2>2
  <1>6. \A x, y \in -3..124 : x # y => (e + x) % size # (e + y) % size
    <2>1. CASE size = 225
      BY <2>1
    <2>2. CASE size = 450
      BY <2>2
    <2> QED
      BY <1>10, <2>1, <2>2, ZenonT(40)
  <1>7. InRow(n, 0) = n
    <2>1. 0 \in Int
      OBVIOUS
    <2> QED
      BY <1>2, <1>3, <1>5, <2>1, Zenon
  <1>8. ASSUME NEW x \in Int
        PROVE  /\ InRow(n, x) \in Nat
               /\ RowStart(InRow(n, x)) = RowStart(n)
               /\ \E y \in 0..RowSize(n) - 1 : InRow(n, x) = RowStart(n) + y
    <2>1. PICK y \in 0..size - 1 : y = (e + x) % size
      BY <1>4
    <2>2. InRow(n, x) = r + y
      BY <1>3, <2>1, Zenon
    <2>3. r + y \in Nat
      BY <1>10
    <2>4. RowStart(r + y) = r
      BY <1>10, Zenon
    <2> QED
      BY <1>10, <2>2, <2>3, <2>4, Zenon
  <1>9. ASSUME NEW x \in -3..124, NEW y \in -3..124, x # y
        PROVE  InRow(n, x) # InRow(n, y)
    <2>1. x \in Int /\ y \in Int
      OBVIOUS
    <2>2. PICK a \in 0..size - 1, b \in 0..size - 1 :
             a = (e + x) % size /\ b = (e + y) % size /\ a # b
      BY <1>4, <1>6, <1>9, <2>1, Zenon
    <2>3. InRow(n, x) = r + a /\ InRow(n, y) = r + b
      BY <1>3, <2>1, <2>2, Zenon
    <2>4. r + a # r + b
      BY <1>10, <2>2
    <2> QED
      BY <2>3, <2>4, Zenon
  <1> QED
    BY <1>7, <1>8, <1>9, Zenon

\* A block's reference is a record with a number.
LEMMA ReferenceRead ==
    ASSUME NEW raw \in Seq(Bytes), Len(raw) = 3
    PROVE  /\ \E D : /\ {"rle", "south", "scale", "number"} \subseteq D
                     /\ FromRaw(raw) = [x \in D |-> FromRaw(raw)[x]]
           /\ FromRaw(raw).number \in Nat
  <1> DEFINE layout == ReferenceLayout
             bits == BitsOfBytes(raw)
             Body(f) == [i \in 1..Len(layout) + 1 |-> IF i = 1 THEN 0 ELSE f[i - 1] + layout[i - 1][2]]
             at == CHOOSE f : f = Body(f)
             names == { layout[i][1] : i \in DOMAIN layout }
             Place(x) == CHOOSE i \in DOMAIN layout : layout[i][1] = x
  <1>1. /\ Len(layout) = 4 /\ DOMAIN layout = 1..4
        /\ layout[1] = <<"rle", 1>> /\ layout[2] = <<"south", 1>>
        /\ layout[3] = <<"scale", 2>> /\ layout[4] = <<"number", 20>>
    BY DEF ReferenceLayout
  <1>2. FromRaw(raw) = [x \in names |-> NumberOf(SubSeq(bits, at[Place(x)] + 1, at[Place(x) + 1]))]
    BY Zenon DEF FromRaw, Unpacked
  <1> HIDE DEF layout
  <1>3. \E f : f = Body(f)
    <2> DEFINE g == [i \in 1..5 |-> IF i = 1 THEN 0 ELSE IF i = 2 THEN 1 ELSE IF i = 3 THEN 2
                                    ELSE IF i = 4 THEN 4 ELSE 24]
    <2>1. \A i \in 1..5 : g[i] = IF i = 1 THEN 0 ELSE g[i - 1] + layout[i - 1][2]
      BY <1>1
    <2>2. 1..Len(layout) + 1 = 1..5
      BY <1>1
    <2>3. g = [i \in 1..5 |-> IF i = 1 THEN 0 ELSE g[i - 1] + layout[i - 1][2]]
      BY <2>1
    <2> HIDE DEF g
    <2> QED
      BY <2>2, <2>3, ZenonT(40)
  <1>4. at = Body(at)
    BY <1>3
  <1> HIDE DEF at
  <1>5. at[4] = 4 /\ at[5] = 24
    <2>1. \A i \in 1..5 : at[i] = IF i = 1 THEN 0 ELSE at[i - 1] + layout[i - 1][2]
      BY <1>1, <1>4
    <2>2. /\ at[1] = 0 /\ at[2] = at[1] + layout[1][2] /\ at[3] = at[2] + layout[2][2]
          /\ at[4] = at[3] + layout[3][2] /\ at[5] = at[4] + layout[4][2]
      BY <2>1
    <2> QED
      BY <1>1, <2>2
  <1>6. Place("number") = 4
    BY <1>1
  <1>7. {"rle", "south", "scale", "number"} \subseteq names
    BY <1>1
  <1>8. bits \in Seq(Bits) /\ Len(bits) = 24
    <2>1. bits \in Seq(Bits) /\ Len(bits) = 8 * Len(raw)
      BY BitsOfBytesType
    <2> QED
      BY ONLY <2>1, Len(raw) = 3
  <1> HIDE DEF bits, Place, names
  <1>9. SubSeq(bits, 4 + 1, 24) \in Seq(Bits)
    <2>1. 4 \in Nat /\ 20 \in Nat /\ 4 + 20 = 24 /\ 4 + 20 <= Len(bits)
      BY <1>8
    <2>2. SubSeq(bits, 4 + 1, 4 + 20) \in Seq(Bits)
      BY <1>8, <2>1, SubSeqLiesAt
    <2> QED
      BY <2>1, <2>2
  <1>10. NumberOf(SubSeq(bits, 4 + 1, 24)) \in Nat
    BY <1>9, BitsOfNumber
  <1>11. FromRaw(raw).number = NumberOf(SubSeq(bits, 4 + 1, 24))
    <2>1. "number" \in names /\ 4 + 1 = 5
      BY <1>7
    <2>2. FromRaw(raw).number
            = NumberOf(SubSeq(bits, at[Place("number")] + 1, at[Place("number") + 1]))
      BY <1>2, <2>1
    <2>3. FromRaw(raw).number = NumberOf(SubSeq(bits, at[4] + 1, at[4 + 1]))
      BY <1>6, <2>2
    <2> QED
      BY <1>5, <2>1, <2>3
  <1> QED
    BY <1>2, <1>7, <1>10, <1>11, Zenon

\* The bit that marks the block itself is set.
LEMMA OwnIsMarked ==
    ASSUME NEW bitmap \in Seq(Bytes), bitmap # << >>
    PROVE  Marked(bitmap, 3)
  <1>1. bitmap[1] \in 0..255 /\ Tail(bitmap) \in Seq(Bytes)
    <2>1. bitmap[1] \in Bytes /\ Tail(bitmap) \in Seq(Bytes)
      BY bitmap # << >>
    <2> QED
      BY <2>1 DEF Bytes
  <1>2. PICK h \in Nat : h = bitmap[1] \div 16
    <2>1. PICK c \in 0..255 : c = bitmap[1]
      BY <1>1
    <2>2. c \div 16 \in Nat
      OBVIOUS
    <2> QED
      BY <2>1, <2>2, Zenon
  <1> DEFINE v == 16 * h + 8
  <1>3. v \in Nat /\ Marks(bitmap) = <<v>> \o Tail(bitmap)
    BY <1>2 DEF Marks
  <1>4. Marks(bitmap)[1] = v
    BY <1>1, <1>3
  <1>5. (3 \div 8) + 1 = 1 /\ 3 % 8 = 3
    OBVIOUS
  <1> HIDE DEF v
  <1>6. PICK s \in [0..3 -> Nat] : /\ s = Shifted(v, 3)
                                   /\ s[0] = v /\ s[1] = v \div 2 /\ s[2] = s[1] \div 2
                                   /\ s[3] = s[2] \div 2
    <2>1. /\ Shifted(v, 3) \in [0..3 -> Nat] /\ Shifted(v, 3)[0] = v
          /\ \A k \in 1..3 : Shifted(v, 3)[k] = Shifted(v, 3)[k - 1] \div 2
      <3>1. 3 \in Nat
        OBVIOUS
      <3> QED
        BY <1>3, <3>1, ShiftedSteps
    <2> QED
      BY <2>1
  <1>7. s[1] = 8 * h + 4
    BY <1>6 DEF v
  <1>8. s[2] = 4 * h + 2
    BY <1>6, <1>7
  <1>9. s[3] = 2 * h + 1
    BY <1>6, <1>8
  <1>10. s[3] % 2 = 1
    BY <1>9
  <1> QED
    BY <1>4, <1>5, <1>6, <1>10, Zenon DEF Marked

(* Below 60 degrees the blocks of a ring have one northern edge, and their *)
(* western edges are as far from each other as their numbers.              *)
LEMMA EdgesInRow ==
    ASSUME NEW n \in Nat, ~ Wide(n), NEW x \in Int,
           NEW o, NEW p, o.number = n, p.number = InRow(n, x),
           p.south = o.south, p.scale = o.scale, o.scale # 3
    PROVE  /\ GeoBounds(p).north = GeoBounds(o).north
           /\ (GeoBounds(p).west - GeoBounds(o).west) % BLOCKS_PER_RING
                = (p.number - o.number) % BLOCKS_PER_RING
  <1>1. PICK size, r : Row(n, size, r)
    BY PlaceInRow
  <1>2. PICK e \in 0..size - 1, y \in 0..size - 1 : n = r + e /\ p.number = r + y
    <2>1. size = RowSize(n) /\ r = RowStart(n) /\ \E i \in 0..size - 1 : n = r + i
      BY <1>1, Zenon DEF Row
    <2>2. \E i \in 0..RowSize(n) - 1 : InRow(n, x) = RowStart(n) + i
      BY InRowFacts, ZenonT(40)
    <2> QED
      BY <2>1, <2>2, Zenon
  <1>3. size = 450 /\ r \in Nat
    BY <1>1 DEF Row
  <1>4. PICK m \in Nat, q \in Nat : m = p.number /\ q = n \div 450
    BY <1>2, <1>3
  <1>5. ~ Wide(m) /\ m \div 450 = q /\ m % 450 = y /\ n % 450 = e
    <2>1. /\ ~ Wide(r + y) /\ (r + y) \div 450 = n \div 450 /\ (r + y) % 450 = y
          /\ (r + e) % 450 = e
      BY ONLY <1>1, ~ Wide(n), e \in 0..size - 1, y \in 0..size - 1 DEF Row
    <2>2. m = r + y /\ n = r + e
      BY <1>2, <1>4
    <2> QED
      BY ONLY <1>4, <2>1, <2>2
  <1> DEFINE West(i) == IF i > 225 THEN i - 450 ELSE i
             north == IF o.south = 1 THEN - q ELSE q + 1
  <1>6. GeoBounds(o).north = north /\ GeoBounds(o).west = West(e)
    BY <1>4, <1>5 DEF GeoBounds, BLOCKS_PER_RING
  <1>7. GeoBounds(p).north = north /\ GeoBounds(p).west = West(y)
    BY <1>4, <1>5 DEF GeoBounds, BLOCKS_PER_RING
  <1>8. p.number - o.number = y - e
    BY <1>2, <1>3
  <1>9. (West(y) - West(e)) % 450 = (y - e) % 450
    <2>1. e \in 0..449 /\ y \in 0..449
      BY <1>3
    <2> QED
      BY ONLY <2>1
  <1> QED
    BY <1>6, <1>7, <1>8, <1>9 DEF BLOCKS_PER_RING

\* Empty blocks are different ones, the block itself among them, in its row.
InOneRow(b, own, all) ==
    /\ \A m, n \in DOMAIN all : m # n => all[m] # all[n]
    /\ \E n \in DOMAIN all : all[n] = own
    /\ \A n \in DOMAIN all :
         /\ RowStart(all[n].number) = RowStart(own.number)
         /\ ~ Wide(own.number) /\ own.scale # 3 =>
              /\ GeoBounds(all[n]).north = GeoBounds(own).north
              /\ (GeoBounds(all[n]).west - GeoBounds(own).west) % BLOCKS_PER_RING
                   = (all[n].number - own.number) % BLOCKS_PER_RING

LEMMA EmptyBlocks ==
    ASSUME NEW b, b.raw \in Seq(Bytes), Len(b.raw) = 3,
           b.bitmap \in Seq(Bytes), b.bitmap # << >>, Len(b.bitmap) <= 16
    PROVE  InOneRow(b, [FromRaw(b.raw) EXCEPT !.rle = 0], EmptyReferences(b))
  <1> DEFINE r == FromRaw(b.raw)
             own == [r EXCEPT !.rle = 0]
             len == 8 * Len(b.bitmap)
             P == { k \in Nat : Marked(b.bitmap, k) }
             bits == FlattenSeq([i \in 1..len |->
                       IF Marked(b.bitmap, i - 1) THEN <<i - 1>> ELSE << >>])
             Ref(k) == [r EXCEPT !.rle = 0, !.number = InRow(@, k)]
             all == EmptyReferences(b)
  <1>1. all = [i \in DOMAIN bits |-> Ref(bits[i] - 3)]
    BY Zenon DEF EmptyReferences
  <1>2. len \in 8..128
    <2>1. PICK m \in Nat : m = Len(b.bitmap) /\ m <= 16 /\ m # 0
      BY EmptySeq
    <2>2. 8 * m \in 8..128
      <3>1. m <= 16 /\ m # 0
        BY <2>1, Zenon
      <3> QED
        BY ONLY <3>1, m \in Nat
    <2> QED
      BY <2>1, <2>2, Zenon
  <1>3. Places(bits, P, len)
    <2>1. \A i \in 1..len : Marked(b.bitmap, i - 1) <=> i - 1 \in P
      <3>1. \A i \in 1..len : i - 1 \in Nat
        BY <1>2
      <3> QED
        BY <3>1
    <2> HIDE DEF P, len
    <2>2. bits = FlattenSeq(PlacesIn(P, len))
      BY <2>1, Zenon DEF PlacesIn
    <2>3. len \in Nat
      BY <1>2
    <2> QED
      BY <2>2, <2>3, PlacesInOrder
  <1> HIDE DEF len, bits
  <1>4. /\ bits \in Seq(Nat) /\ DOMAIN bits = 1..Len(bits)
        /\ \A i \in 1..Len(bits) : bits[i] \in Nat /\ bits[i] < len
        /\ \A i, j \in 1..Len(bits) : i # j => bits[i] # bits[j]
    <2>1. bits \in Seq(Nat)
      BY <1>3 DEF Places
    <2>2. DOMAIN bits = 1..Len(bits) /\ \A i \in 1..Len(bits) : bits[i] \in Nat
      BY ONLY <2>1
    <2> QED
      BY <1>3, <2>1, <2>2, Zenon DEF Places
  <1>5. PICK own3 \in 1..Len(bits) : bits[own3] = 3
    <2>1. 3 \in P /\ 3 \in 0..len - 1
      BY <1>2, OwnIsMarked
    <2> QED
      BY <1>3, <2>1, Zenon DEF Places
  <1>6. \A i \in 1..Len(bits) : bits[i] - 3 \in -3..124
    <2> SUFFICES ASSUME NEW i \in 1..Len(bits)
                 PROVE  bits[i] - 3 \in -3..124
      OBVIOUS
    <2>1. PICK v \in Nat : v = bits[i] /\ v < len
      BY <1>4
    <2>2. v - 3 \in -3..124
      <3>1. PICK z \in 8..128 : z = len
        BY <1>2
      <3>2. v < z
        BY <2>1, <3>1, Zenon
      <3> QED
        BY ONLY <3>2, v \in Nat, z \in 8..128
    <2> QED
      BY <2>1, <2>2, Zenon
  <1>7. \A i, j \in 1..Len(bits) : i # j => bits[i] - 3 # bits[j] - 3
    BY <1>4, SMTT(40)
  <1>8. PICK D : {"rle", "south", "scale", "number"} \subseteq D /\ r = [x \in D |-> r[x]]
    BY ReferenceRead
  <1>9. PICK n \in Nat : n = r.number
    BY ReferenceRead
  <1>10. ASSUME NEW k
         PROVE  /\ own.number = n /\ Ref(k).number = InRow(n, k)
                /\ Ref(k).south = own.south /\ Ref(k).scale = own.scale
                /\ InRow(n, k) = n => Ref(k) = own
    <2> DEFINE num == InRow(n, k)
               p == [r EXCEPT !.rle = 0, !.number = num]
    <2>1. Ref(k) = p
      BY <1>8, <1>9
    <2>2. PICK x : x = num
      OBVIOUS
    <2>3. /\ own.number = r.number /\ p.number = num
          /\ p.south = own.south /\ p.scale = own.scale
          /\ num = r.number => p = own
      <3> HIDE DEF num, r
      <3> QED
        BY ONLY <1>8
    <2> QED
      BY <1>9, <2>1, <2>3, Zenon
  <1> HIDE DEF r, own, Ref
  <1>11. \A i \in 1..Len(bits) : all[i] = Ref(bits[i] - 3)
    BY <1>1, <1>4, Zenon
  <1>12. DOMAIN all = 1..Len(bits)
    BY <1>1, <1>4, Zenon
  <1> HIDE DEF all
  <1>13. \A i, j \in DOMAIN all : i # j => all[i] # all[j]
    <2> SUFFICES ASSUME NEW i \in 1..Len(bits), NEW j \in 1..Len(bits), i # j
                 PROVE  all[i] # all[j]
      BY <1>12, Zenon
    <2>1. InRow(n, bits[i] - 3) # InRow(n, bits[j] - 3)
      BY <1>6, <1>7, InRowFacts, ZenonT(40)
    <2> QED
      BY <1>10, <1>11, <2>1, Zenon
  <1>14. all[own3] = own
    <2>1. 3 - 3 = 0
      OBVIOUS
    <2>2. InRow(n, 0) = n
      BY ONLY InRowFacts, n \in Nat, ZenonT(40)
    <2>3. Ref(0) = own
      BY <1>10, <2>2, Zenon
    <2>4. all[own3] = Ref(bits[own3] - 3)
      BY <1>11, Zenon
    <2> QED
      BY <1>5, <2>1, <2>3, <2>4
  <1>15. ASSUME NEW i \in DOMAIN all
         PROVE  /\ RowStart(all[i].number) = RowStart(own.number)
                /\ ~ Wide(own.number) /\ own.scale # 3 =>
                     /\ GeoBounds(all[i]).north = GeoBounds(own).north
                     /\ (GeoBounds(all[i]).west - GeoBounds(own).west) % BLOCKS_PER_RING
                          = (all[i].number - own.number) % BLOCKS_PER_RING
    <2>1. PICK k \in Int : all[i] = Ref(k)
      <3>1. bits[i] - 3 \in Int
        BY <1>4, <1>12, <1>15
      <3> QED
        BY <1>11, <1>12, <3>1, Zenon
    <2>2. /\ own.number = n /\ all[i].number = InRow(n, k)
          /\ all[i].south = own.south /\ all[i].scale = own.scale
      BY <1>10, <2>1, Zenon
    <2>3. RowStart(all[i].number) = RowStart(own.number)
      <3>1. RowStart(InRow(n, k)) = RowStart(n)
        BY ONLY InRowFacts, n \in Nat, k \in Int, ZenonT(40)
      <3> QED
        BY <2>2, <3>1, Zenon
    <2>4. ASSUME ~ Wide(own.number), own.scale # 3
          PROVE  /\ GeoBounds(all[i]).north = GeoBounds(own).north
                 /\ (GeoBounds(all[i]).west - GeoBounds(own).west) % BLOCKS_PER_RING
                      = (all[i].number - own.number) % BLOCKS_PER_RING
      <3>1. ~ Wide(n)
        BY <2>2, <2>4, Zenon
      <3> QED
        BY <2>2, <2>4, <3>1, EdgesInRow
    <2> QED
      BY <2>3, <2>4, Zenon
  <1> QED
    BY <1>5, <1>12, <1>13, <1>14, <1>15, Zenon DEF InOneRow, own, r, all

\* A block that is read as an empty one with a bitmap.
LEMMA BitmapRead ==
    ASSUME NEW payload \in Seq(Bytes), NEW b, b = FromPayload(payload),
           b # Error, b.form = "EmptyBitmap"
    PROVE  /\ b.raw \in Seq(Bytes) /\ Len(b.raw) = 3
           /\ b.bitmap \in Seq(Bytes) /\ b.bitmap # << >> /\ Len(b.bitmap) <= 16
  <1> DEFINE raw == SubSeq(payload, 1, 3)
             rest == SubSeq(payload, 4, Len(payload))
  <1>1. /\ ~ (Len(payload) < 3) /\ rest # << >>
        /\ Len(rest) = (rest[1] % 16) + 1
        /\ b = [form |-> "EmptyBitmap", raw |-> raw, bitmap |-> rest]
    <2> DEFINE runs == [i \in DOMAIN rest |-> Run(rest[i])]
    <2>1. \A x : [form |-> "Empty", raw |-> x].form # "EmptyBitmap"
      OBVIOUS
    <2>2. \A x : [form |-> "Unparsed", raw |-> x].form # "EmptyBitmap"
      OBVIOUS
    <2>3. \A x, y : [form |-> "Runs", raw |-> x, runs |-> y].form # "EmptyBitmap"
      OBVIOUS
    <2>4. b = IF Len(payload) < 3 THEN Error
              ELSE IF rest = << >> THEN [form |-> "Empty", raw |-> raw]
              ELSE IF ~ RunLengthEncoded(raw)
                THEN IF Len(rest) = (rest[1] % 16) + 1
                       THEN [form |-> "EmptyBitmap", raw |-> raw, bitmap |-> rest]
                       ELSE [form |-> "Unparsed", raw |-> payload]
              ELSE IF BinCount(runs) = BINS
                THEN [form |-> "Runs", raw |-> raw, runs |-> runs]
                ELSE [form |-> "Unparsed", raw |-> payload]
      BY Zenon DEF FromPayload
    <2> HIDE DEF rest, raw, runs
    <2> QED
      BY <2>1, <2>2, <2>3, <2>4, Zenon
  <1>2. /\ raw \in Seq(Bytes) /\ Len(raw) = 3
    <2>1. 0 \in Nat /\ 3 \in Nat /\ 0 + 3 <= Len(payload) /\ 0 + 1 = 1 /\ 0 + 3 = 3
      BY <1>1
    <2>2. SubSeq(payload, 0 + 1, 0 + 3) \in Seq(Bytes) /\ Len(SubSeq(payload, 0 + 1, 0 + 3)) = 3
      BY <2>1, SubSeqLiesAt
    <2> QED
      BY <2>1, <2>2, Zenon
  <1>3. rest \in Seq(Bytes)
    <2>1. PICK m \in Nat : m + 3 = Len(payload)
      <3>1. PICK k \in Nat : k = Len(payload)
        OBVIOUS
      <3>2. ~ (k < 3)
        BY <1>1, <3>1, Zenon
      <3>3. k - 3 \in Nat /\ (k - 3) + 3 = k
        BY ONLY <3>2, k \in Nat
      <3> QED
        BY <3>1, <3>3, Zenon
    <2>2. 3 \in Nat /\ 3 + m <= Len(payload) /\ 3 + 1 = 4 /\ 3 + m = Len(payload)
      BY <2>1
    <2>3. SubSeq(payload, 3 + 1, 3 + m) \in Seq(Bytes)
      BY <2>2, SubSeqLiesAt
    <2> QED
      BY <2>2, <2>3, Zenon
  <1>4. Len(rest) <= 16
    <2> HIDE DEF rest
    <2>1. rest[1] \in Bytes
      BY <1>1, <1>3
    <2>2. PICK c \in 0..255 : c = rest[1]
      BY <2>1 DEF Bytes
    <2>3. (c % 16) + 1 <= 16
      OBVIOUS
    <2> QED
      BY <1>1, <2>2, <2>3, Zenon
  <1> HIDE DEF raw, rest
  <1>5. b.raw = raw /\ b.bitmap = rest
    BY <1>1
  <1> QED
    BY <1>1, <1>2, <1>3, <1>4, <1>5, Zenon

\* What follows the header of an APDU that was read are bytes.
LEMMA PayloadType ==
    ASSUME NEW bytes \in Seq(Bytes), DecodeApdu(bytes) # Error
    PROVE  DecodeApdu(bytes).payload \in Seq(Bytes)
  <1>1. /\ DecodeHeader(bytes) # Error
        /\ DecodeApdu(bytes) = [header |-> DecodeHeader(bytes).header,
              payload |-> SubSeq(bytes, DecodeHeader(bytes).size + 1, Len(bytes))]
    BY ZenonT(40) DEF DecodeApdu
  <1>2. PICK m \in 4..9 : m = DecodeHeader(bytes).size /\ m <= Len(bytes)
    <2>1. PICK h : /\ DecodeHeader(bytes) = [header |-> h, size |-> HeaderSize(h)]
                   /\ HeaderSize(h) \in 4..9 /\ HeaderSize(h) <= Len(bytes)
      BY <1>1, HeaderAgain, Zenon
    <2>2. DecodeHeader(bytes).size = HeaderSize(h)
      BY <2>1
    <2> QED
      BY <2>1, <2>2, Zenon
  <1>3. PICK n \in Nat : m + n = Len(bytes)
    <2>1. PICK k \in Nat : k = Len(bytes)
      OBVIOUS
    <2>2. m <= k
      BY <1>2, <2>1, Zenon
    <2>3. k - m \in Nat /\ m + (k - m) = k
      BY ONLY <2>2, m \in 4..9, k \in Nat
    <2> QED
      BY <2>1, <2>3, Zenon
  <1>4. SubSeq(bytes, m + 1, m + n) \in Seq(Bytes)
    <2>1. m \in Nat /\ m + n <= Len(bytes)
      BY <1>3
    <2> QED
      BY <2>1, SubSeqLiesAt
  <1>5. DecodeApdu(bytes).payload = SubSeq(bytes, m + 1, m + n)
    <2>1. DecodeApdu(bytes) = [header |-> DecodeHeader(bytes).header,
                               payload |-> SubSeq(bytes, m + 1, m + n)]
      BY <1>1, <1>2, <1>3, Zenon
    <2> QED
      BY <2>1
  <1> QED
    BY <1>4, <1>5, Zenon

LEMMA ReadPayloads ==
    ASSUME DeliveryInv, area \notin {None, Error}, ApdusOf(area) # Error,
           NEW i \in DOMAIN ApdusOf(area)
    PROVE  ApdusOf(area)[i].payload \in Seq(Bytes)
  <1> DEFINE all == InformationFrames(area)
             fisb == FisbFrames(all)
             found == [k \in DOMAIN fisb |-> DecodeApdu(fisb[k].data)]
  <1>1. area \in Seq(Bytes) /\ Len(area) = APPLICATION_DATA_LEN
    BY AreaType
  <1>2. all # Error /\ ApdusOf(area) = found /\ \A k \in DOMAIN found : found[k] # Error
    BY Zenon DEF ApdusOf, Collected
  <1>3. all \in Seq(AnyFrames)
    BY <1>1, <1>2, ReadLies, Zenon
  <1>4. fisb \in Seq(AnyFrames)
    <2>1. [reserved |-> 0, type |-> 0, data |-> << >>] \in AnyFrames
      BY DEF AnyFrames, Bytes
    <2> QED
      BY <1>3, <2>1, FisbAppend, Zenon
  <1> HIDE DEF fisb
  <1>5. i \in DOMAIN fisb /\ found[i] = DecodeApdu(fisb[i].data) /\ DecodeApdu(fisb[i].data) # Error
    BY <1>2, Zenon
  <1>6. fisb[i].data \in Seq(Bytes)
    <2>1. fisb[i] \in AnyFrames
      BY <1>4, <1>5
    <2> QED
      BY <2>1 DEF AnyFrames
  <1> QED
    BY <1>2, <1>5, <1>6, PayloadType, Zenon

\* The products are those of the application data.
ProductsHold ==
    products # None => area \notin {None, Error} /\ products = FisbProducts(area)

LEMMA ProductsInvariant == DeliverySpec => []ProductsHold
  <1>1. DeliveryInit => ProductsHold
    BY Zenon DEF DeliveryInit, ProductsHold
  <1>2. ASSUME ProductsHold, [DeliveryNext]_<<vars, delivery>>
        PROVE  ProductsHold'
    <2>1. ASSUME NEW work \in Works, Publish(work) PROVE ProductsHold'
      BY <1>2, <2>1, Zenon DEF Publish, vars, ProductsHold
    <2>2. ASSUME Wrap PROVE ProductsHold'
      <3>1. area' = area /\ products' = products
        BY <2>2, Zenon DEF Wrap, AddApdu
      <3> QED
        BY <1>2, <3>1, Zenon DEF ProductsHold
    <2>3. ASSUME NEW a \in Apdus, AddForeign(a) PROVE ProductsHold'
      <3>1. area' = area /\ products' = products
        BY <2>3, Zenon DEF AddForeign, AddApdu, delivery
      <3> QED
        BY <1>2, <3>1, Zenon DEF ProductsHold
    <2>4. ASSUME NEW f \in BareFrames, AddOther(f) PROVE ProductsHold'
      <3>1. area' = area /\ products' = products
        BY <2>4, Zenon DEF AddOther, AddFrame, delivery
      <3> QED
        BY <1>2, <3>1, Zenon DEF ProductsHold
    <2>5. ASSUME PackPayload PROVE ProductsHold'
      BY <1>2, <2>5, Zenon DEF PackPayload, Pack, delivery, ProductsHold
    <2>6. ASSUME NEW bytes \in Areas, OverhearPayload(bytes) PROVE ProductsHold'
      BY <1>2, <2>6, Zenon DEF OverhearPayload, Overhear, delivery, ProductsHold
    <2>7. ASSUME ReadProducts PROVE ProductsHold'
      BY <2>7, Zenon DEF ReadProducts, Read, ProductsHold
    <2>8. ASSUME Proceed PROVE ProductsHold'
      BY <2>8, Zenon DEF Proceed, ProductsHold
    <2>9. ASSUME UNCHANGED <<vars, delivery>> PROVE ProductsHold'
      BY <1>2, <2>9, Zenon DEF vars, delivery, ProductsHold
    <2> QED
      BY <1>2, <2>1, <2>2, <2>3, <2>4, <2>5, <2>6, <2>7, <2>8, <2>9, Zenon DEF DeliveryNext
  <1> QED
    BY <1>1, <1>2, PTL DEF DeliverySpec

\* Where a radar block among the products comes from.
LEMMA NexradRead ==
    ASSUME DeliveryInv, ProductsHold, products \notin {None, Error},
           NEW i \in DOMAIN products, products[i].kind = "Nexrad"
    PROVE  \E payload \in Seq(Bytes) :
              products[i].is.block = FromPayload(payload) /\ products[i].is.block # Error
  <1> DEFINE found == ApdusOf(area)
             each == [k \in DOMAIN found |-> DecodeProduct(found[k])]
             apdu == found[i]
             n == [header |-> apdu.header, block |-> FromPayload(apdu.payload)]
  <1>1. area \notin {None, Error} /\ products = FisbProducts(area)
    BY Zenon DEF ProductsHold
  <1>2. found # Error /\ products = each /\ \A k \in DOMAIN each : each[k] # Error
    BY <1>1, Zenon DEF FisbProducts, Collected
  <1> HIDE DEF found
  <1>3. i \in DOMAIN found /\ products[i] = DecodeProduct(apdu) /\ DecodeProduct(apdu) # Error
    BY <1>2, Zenon
  <1>4. apdu.payload \in Seq(Bytes)
    BY <1>1, <1>2, <1>3, ReadPayloads, Zenon DEF found
  <1> HIDE DEF apdu
  <1>5. products[i] = [kind |-> "Nexrad", is |-> NexradFromApdu(apdu)] /\ NexradFromApdu(apdu) # Error
    <2>1. \A x : [kind |-> "GenericText", is |-> x].kind # "Nexrad"
      OBVIOUS
    <2>2. \A x : [kind |-> "Unknown", is |-> x].kind # "Nexrad"
      OBVIOUS
    <2>3. \/ DecodeProduct(apdu) = Wrapped("GenericText", TextFromApdu(apdu))
          \/ DecodeProduct(apdu) = Wrapped("Nexrad", NexradFromApdu(apdu))
          \/ DecodeProduct(apdu) = Wrapped("Unknown", apdu)
      BY <1>3 DEF DecodeProduct
    <2> QED
      BY <1>3, <2>1, <2>2, <2>3, Zenon DEF Wrapped
  <1>6. NexradFromApdu(apdu) = n /\ n.block # Error
    BY <1>5, Zenon DEF NexradFromApdu
  <1>7. products[i].is.block = FromPayload(apdu.payload)
    BY <1>5, <1>6
  <1>8. n.block = FromPayload(apdu.payload)
    OBVIOUS
  <1> QED
    BY <1>4, <1>6, <1>7, <1>8, Zenon

(* The references that a bitmap stands for are blocks of one row, each one *)
(* once and the block itself among them, whatever bitmap arrives: the      *)
(* bits left and right of the block wrap around at the ends of its row.    *)
THEOREM EmptyBlocksLieInRow == DeliverySpec => []EmptyBlocksInRow
  <1>1. DeliveryInv /\ ProductsHold => EmptyBlocksInRow
    <2> SUFFICES ASSUME DeliveryInv, ProductsHold, products \notin {None, Error},
                        NEW i \in DOMAIN products, products[i].kind = "Nexrad",
                        products[i].is.block.form = "EmptyBitmap"
                 PROVE  InOneRow(products[i].is.block,
                                 [FromRaw(products[i].is.block.raw) EXCEPT !.rle = 0],
                                 EmptyReferences(products[i].is.block))
      BY Zenon DEF EmptyBlocksInRow, InOneRow
    <2>1. PICK payload \in Seq(Bytes) :
             products[i].is.block = FromPayload(payload) /\ products[i].is.block # Error
      BY NexradRead, Zenon
    <2>2. PICK b : b = products[i].is.block
      OBVIOUS
    <2>3. /\ b.raw \in Seq(Bytes) /\ Len(b.raw) = 3
          /\ b.bitmap \in Seq(Bytes) /\ b.bitmap # << >> /\ Len(b.bitmap) <= 16
      BY <2>1, <2>2, BitmapRead, Zenon
    <2> QED
      BY <2>2, <2>3, EmptyBlocks, Zenon
  <1> QED
    BY <1>1, DeliveryInvariant, ProductsInvariant, PTL
================================================================================
