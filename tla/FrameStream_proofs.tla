--------------------------- MODULE FrameStream_proofs --------------------------
(***************************************************************************)
(* Byte stuffing, for data of any length: what unescape accepts is what    *)
(* the encoder writes, and the two are each other's inverse. And the       *)
(* incremental decoder against the frames of the whole stream, for streams *)
(* of any length over any bytes and for any check bytes.                   *)
(***************************************************************************)
EXTENDS FrameStream, SequenceFacts

Byte == 0..255

----------------------------------------------------------------------------
(* Escapes *)

(* The recursive scan exists, and so every position has its verdict.       *)
LEMMA EscapesScan ==
    ASSUME NEW data \in Seq(Byte)
    PROVE  /\ Escapes(data) \subseteq 1..Len(data)
           /\ \A i \in 1..Len(data) :
                 i \in Escapes(data) <=> data[i] = ESCAPE_BYTE /\ i - 1 \notin Escapes(data)
  <1> DEFINE n == Len(data)
             Body(f) == [i \in 0..n |-> IF i = 0 THEN FALSE
                                        ELSE data[i] = ESCAPE_BYTE /\ ~ f[i - 1]]
             esc == CHOOSE f : f = Body(f)
             Step == [ix \in (1..n) \X BOOLEAN |-> data[ix[1]] = ESCAPE_BYTE /\ ~ ix[2]]
  <1>1. n \in Nat /\ Escapes(data) = { i \in 1..n : esc[i] }
    <2>1. Escapes(data) = { i \in DOMAIN data : esc[i] }
      BY DEF Escapes
    <2> HIDE DEF esc
    <2> QED
      BY <2>1
  <1>2. \E f : f = Body(f)
    <2>1. Step \in [(1..n) \X BOOLEAN -> BOOLEAN]
      OBVIOUS
    <2>2. \A i \in 1..n, x \in BOOLEAN : Step[<<i, x>>] = (data[i] = ESCAPE_BYTE /\ ~ x)
      OBVIOUS
    <2> HIDE DEF Step, n
    <2>3. PICK g \in [0..n -> BOOLEAN] : Recurs(g, n, FALSE, Step)
      BY <1>1, <2>1, Recursion, Zenon
    <2>4. ASSUME NEW i \in 0..n
          PROVE  g[i] = IF i = 0 THEN FALSE ELSE data[i] = ESCAPE_BYTE /\ ~ g[i - 1]
      <3>1. CASE i = 0
        BY <2>3, <3>1 DEF Recurs
      <3>2. CASE i # 0
        <4>1. i \in 1..n /\ i - 1 \in 0..n
          BY <1>1, <3>2
        <4>2. g[i] = Step[<<i, g[i - 1]>>] /\ g[i - 1] \in BOOLEAN
          BY <2>3, <4>1 DEF Recurs
        <4> QED
          BY <2>2, <3>2, <4>1, <4>2, Zenon
      <3> QED
        BY <3>1, <3>2
    <2>5. g = Body(g)
      BY <2>3, <2>4
    <2> QED
      BY <2>5
  <1>3. esc = Body(esc)
    <2> HIDE DEF Body
    <2> QED
      BY <1>2
  <1>4. \A i \in 0..n : esc[i] = IF i = 0 THEN FALSE ELSE data[i] = ESCAPE_BYTE /\ ~ esc[i - 1]
    <2> HIDE DEF esc, n
    <2> QED
      BY <1>3
  <1> HIDE DEF esc, n, Body
  <1>5. ASSUME NEW i \in 1..n
        PROVE  i \in Escapes(data) <=> data[i] = ESCAPE_BYTE /\ i - 1 \notin Escapes(data)
    <2>1. i \in 0..n /\ i # 0 /\ i - 1 \in 0..n /\ 0 \in 0..n /\ (i - 1 # 0 => i - 1 \in 1..n)
      BY <1>1
    <2>2. esc[i] <=> data[i] = ESCAPE_BYTE /\ ~ esc[i - 1]
      BY <1>4, <2>1
    <2>3. esc[i - 1] <=> i - 1 \in Escapes(data)
      <3>1. CASE i - 1 = 0
        <4>1. 0 \notin 1..n
          OBVIOUS
        <4>2. esc[0] = FALSE
          BY <1>4, <2>1
        <4> QED
          BY <1>1, <3>1, <4>1, <4>2
      <3>2. CASE i - 1 # 0
        BY <1>1, <2>1, <3>2
      <3> QED
        BY <3>1, <3>2
    <2> QED
      BY <1>1, <2>2, <2>3
  <1> QED
    BY <1>1, <1>5 DEF n

(* No other set of positions answers to the scan.                          *)
LEMMA EscapesUnique ==
    ASSUME NEW data \in Seq(Byte), NEW E \in SUBSET (1..Len(data)),
           \A i \in 1..Len(data) : i \in E <=> data[i] = ESCAPE_BYTE /\ i - 1 \notin E
    PROVE  E = Escapes(data)
  <1> DEFINE n == Len(data)
             F == Escapes(data)
             S == { i \in 0..n : i \in E <=> i \in F }
  <1>1. n \in Nat /\ F \subseteq 1..n
    BY EscapesScan
  <1>2. \A i \in 1..n : i \in F <=> data[i] = ESCAPE_BYTE /\ i - 1 \notin F
    BY EscapesScan
  <1> HIDE DEF n, F
  <1>3. E \subseteq 1..n /\ \A i \in 1..n : i \in E <=> data[i] = ESCAPE_BYTE /\ i - 1 \notin E
    BY DEF n
  <1>4. 0 \in S
    <2>1. 0 \notin 1..n /\ 0 \in 0..n
      BY <1>1
    <2> QED
      BY <1>1, <1>3, <2>1
  <1>5. ASSUME NEW i \in 0..n - 1, i \in S PROVE i + 1 \in S
    <2>1. i + 1 \in 1..n /\ i + 1 \in 0..n /\ (i + 1) - 1 = i
      BY <1>1
    <2>2. i + 1 \in E <=> data[i + 1] = ESCAPE_BYTE /\ i \notin E
      BY <1>3, <2>1
    <2>3. i + 1 \in F <=> data[i + 1] = ESCAPE_BYTE /\ i \notin F
      BY <1>2, <2>1
    <2> QED
      BY <1>5, <2>1, <2>2, <2>3
  <1> HIDE DEF S
  <1>6. 0..n \subseteq S
    BY <1>1, <1>4, <1>5, InductionUpTo
  <1>7. \A i \in 1..n : i \in E <=> i \in F
    <2>1. 1..n \subseteq 0..n
      BY <1>1
    <2> QED
      BY <1>6, <2>1 DEF S
  <1> QED
    BY <1>1, <1>3, <1>7 DEF F

(* One more byte is an escape, or it is not; the ones before keep theirs.  *)
LEMMA EscapesAppend ==
    ASSUME NEW data \in Seq(Byte), NEW b \in Byte
    PROVE  Escapes(Append(data, b)) =
             Escapes(data) \cup { i \in {Len(data) + 1} :
                                    b = ESCAPE_BYTE /\ Len(data) \notin Escapes(data) }
  <1> DEFINE n == Len(data)
             x == Append(data, b)
             E == Escapes(data)
             F == E \cup { i \in {n + 1} : b = ESCAPE_BYTE /\ n \notin E }
  <1>1. /\ n \in Nat /\ x \in Seq(Byte) /\ Len(x) = n + 1
        /\ x[n + 1] = b /\ \A i \in 1..n : x[i] = data[i]
    OBVIOUS
  <1>2. E \subseteq 1..n /\ \A i \in 1..n : i \in E <=> data[i] = ESCAPE_BYTE /\ i - 1 \notin E
    BY EscapesScan
  <1> HIDE DEF n, x, E
  <1>3. F \in SUBSET (1..n + 1)
    <2>1. n + 1 \in 1..n + 1 /\ \A i \in 1..n : i \in 1..n + 1
      BY <1>1
    <2> QED
      BY <1>2, <2>1, Zenon
  <1>4. ASSUME NEW i \in 1..n + 1
        PROVE  i \in F <=> x[i] = ESCAPE_BYTE /\ i - 1 \notin F
    <2>1. CASE i = n + 1
      <3>1. n + 1 \notin E /\ i - 1 = n /\ n # n + 1
        BY <1>1, <1>2, <2>1
      <3> QED
        BY <1>1, <2>1, <3>1
    <2>2. CASE i # n + 1
      <3>1. i \in 1..n /\ i - 1 # n + 1
        BY <1>1, <2>2
      <3> QED
        BY <1>1, <1>2, <2>2, <3>1
    <2> QED
      BY <2>1, <2>2
  <1>5. F = Escapes(x)
    <2> HIDE DEF F
    <2> QED
      BY <1>1, <1>3, <1>4, EscapesUnique
  <1> QED
    BY <1>5 DEF n, x, E

----------------------------------------------------------------------------
(* One more byte to unescape *)

Pending(data) == Len(data) \in Escapes(data)

Restored(data, i) == IF i - 1 \in Escapes(data) THEN Masked(data[i]) ELSE data[i]

Illegal(data) ==
    \E i \in Escapes(data) : i < Len(data) /\ Restored(data, i + 1) \notin Special

Piece(data, i) == IF i \in Escapes(data) THEN << >> ELSE <<Restored(data, i)>>

Cleared(data) == FlattenSeq([i \in DOMAIN data |-> Piece(data, i)])

LEMMA UnescapeParts ==
    ASSUME NEW data
    PROVE  Unescape(data) = IF Illegal(data) THEN Err("InvalidEscapeByte")
                            ELSE IF Pending(data) THEN Err("DanglingEscape")
                            ELSE Ok(Cleared(data))
  BY DEF Unescape, Illegal, Pending, Cleared, Restored, Piece

LEMMA MaskedTwice ==
    ASSUME NEW b \in Byte
    PROVE  Masked(b) \in Byte /\ Masked(Masked(b)) = b
  <1>1. CASE (b \div 32) % 2 = 1
    <2>1. b - 32 \in Byte /\ ((b - 32) \div 32) % 2 # 1 /\ (b - 32) + 32 = b
      BY <1>1 DEF Byte
    <2> QED
      BY <1>1, <2>1 DEF Masked
  <1>2. CASE (b \div 32) % 2 # 1
    <2>1. b + 32 \in Byte /\ ((b + 32) \div 32) % 2 = 1 /\ (b + 32) - 32 = b
      BY <1>2 DEF Byte
    <2> QED
      BY <1>2, <2>1 DEF Masked
  <1> QED
    BY <1>1, <1>2

LEMMA EscapeIsByte == ESCAPE_BYTE \in Byte /\ ESCAPE_BYTE \in Byte \ {FLAG_BYTE}
  BY DEF ESCAPE_BYTE, FLAG_BYTE, Byte

LEMMA PieceType ==
    ASSUME NEW data \in Seq(Byte)
    PROVE  /\ [i \in DOMAIN data |-> Piece(data, i)] \in Seq(Seq(Byte))
           /\ Cleared(data) \in Seq(Byte)
  <1>1. Len(data) \in Nat /\ DOMAIN data = 1..Len(data)
    OBVIOUS
  <1>2. ASSUME NEW i \in 1..Len(data)
        PROVE  Piece(data, i) \in Seq(Byte)
    <2>1. data[i] \in Byte
      OBVIOUS
    <2>2. Restored(data, i) \in Byte
      BY <2>1, MaskedTwice DEF Restored
    <2> QED
      BY <2>2 DEF Piece
  <1>3. [i \in DOMAIN data |-> Piece(data, i)] \in Seq(Seq(Byte))
    BY <1>1, <1>2
  <1> QED
    BY <1>3, FlattenType, Zenon DEF Cleared

(* What a byte adds: it restores the escaped one, waits for one, or is     *)
(* itself.                                                                 *)
LEMMA ClearedAppend ==
    ASSUME NEW data \in Seq(Byte), NEW b \in Byte
    PROVE  LET x == Append(data, b) IN
             /\ Pending(data) =>
                   /\ ~ Pending(x)
                   /\ Cleared(x) = Append(Cleared(data), Masked(b))
                   /\ Illegal(x) <=> Illegal(data) \/ Masked(b) \notin Special
             /\ ~ Pending(data) /\ b = ESCAPE_BYTE =>
                   /\ Pending(x)
                   /\ Cleared(x) = Cleared(data)
                   /\ Illegal(x) <=> Illegal(data)
             /\ ~ Pending(data) /\ b # ESCAPE_BYTE =>
                   /\ ~ Pending(x)
                   /\ Cleared(x) = Append(Cleared(data), b)
                   /\ Illegal(x) <=> Illegal(data)
  <1> DEFINE n == Len(data)
             x == Append(data, b)
             E == Escapes(data)
             F == Escapes(x)
             last == { i \in {n + 1} : b = ESCAPE_BYTE /\ n \notin E }
             pieces == [i \in DOMAIN data |-> Piece(data, i)]
  <1>1. /\ n \in Nat /\ x \in Seq(Byte) /\ Len(x) = n + 1 /\ DOMAIN x = 1..n + 1
        /\ x[n + 1] = b /\ DOMAIN data = 1..n /\ \A i \in 1..n : x[i] = data[i]
    OBVIOUS
  <1>2. F = E \cup last
    BY EscapesAppend
  <1>3. E \subseteq 1..n
    BY EscapesScan
  <1> HIDE DEF n, x, E, F, last
  <1>4. /\ n + 1 \notin E
        /\ n + 1 \in F <=> b = ESCAPE_BYTE /\ n \notin E
        /\ \A i \in 0..n : i \in F <=> i \in E
    BY <1>1, <1>2, <1>3 DEF last
  <1>5. (Pending(data) <=> n \in E) /\ (Pending(x) <=> n + 1 \in F)
    BY <1>1 DEF Pending, n, E, F
  <1>6. \A i \in 1..n : Restored(x, i) = Restored(data, i)
    <2>1. \A i \in 1..n : i - 1 \in 0..n
      BY <1>1
    <2> QED
      BY <1>1, <1>4, <2>1, Zenon DEF Restored, E, F
  <1>7. Restored(x, n + 1) = IF n \in E THEN Masked(b) ELSE b
    <2>1. (n + 1) - 1 = n /\ n \in 0..n
      BY <1>1
    <2> QED
      BY <1>1, <1>4, <2>1 DEF Restored, F
  <1>8. \A i \in 1..n : Piece(x, i) = Piece(data, i)
    <2>1. \A i \in 1..n : i \in 0..n
      BY <1>1
    <2> QED
      BY <1>4, <1>6, <2>1 DEF Piece, E, F
  <1>9. Piece(x, n + 1) = IF n + 1 \in F THEN << >> ELSE <<Restored(x, n + 1)>>
    BY DEF Piece, F
  <1>10. Cleared(x) = Cleared(data) \o Piece(x, n + 1)
    <2>1. [i \in DOMAIN x |-> Piece(x, i)] = Append(pieces, Piece(x, n + 1))
      <3>1. pieces = [i \in 1..n |-> Piece(x, i)]
        BY <1>1, <1>8
      <3>2. Append([i \in 1..n |-> Piece(x, i)], Piece(x, n + 1)) = [i \in 1..n + 1 |-> Piece(x, i)]
        BY <1>1
      <3> QED
        BY <1>1, <3>1, <3>2
    <2>2. pieces \in Seq(Seq(Byte))
      BY PieceType
    <2>3. Piece(x, n + 1) \in Seq(Byte)
      <3>1. Restored(x, n + 1) \in Byte
        BY <1>7, MaskedTwice
      <3>2. << >> \in Seq(Byte) /\ \A r \in Byte : <<r>> \in Seq(Byte)
        OBVIOUS
      <3> QED
        BY <1>9, <3>1, <3>2, Zenon
    <2> QED
      BY <2>1, <2>2, <2>3, FlattenAppend, Zenon DEF Cleared
  <1>11. Cleared(data) \in Seq(Byte) /\ Masked(b) \in Byte
    BY PieceType, MaskedTwice
  <1>12. Illegal(x) <=> Illegal(data) \/ (n \in E /\ Masked(b) \notin Special)
    <2>1. Illegal(x) <=> \E i \in F : i < n + 1 /\ Restored(x, i + 1) \notin Special
      BY <1>1 DEF Illegal, F
    <2>2. Illegal(data) <=> \E i \in E : i < n /\ Restored(data, i + 1) \notin Special
      BY DEF Illegal, E, n
    <2>3. \A i \in F : i < n + 1 => i \in E
      <3>1. ~ (n + 1 < n + 1)
        BY <1>1
      <3> QED
        BY <1>2, <3>1 DEF last
    <2>4. \A i \in E : i \in F /\ i \in 1..n /\ i < n + 1
      BY <1>1, <1>2, <1>3
    <2>5. \A i \in E : i < n => Restored(x, i + 1) = Restored(data, i + 1)
      BY <1>1, <1>3, <1>6
    <2>6. \A i \in E : ~ (i < n) => i = n
      <3>1. \A i \in 1..n : ~ (i < n) => i = n
        BY <1>1
      <3> QED
        BY <1>3, <3>1
    <2>7. n \in E => Restored(x, n + 1) = Masked(b)
      BY <1>7
    <2>8. ASSUME Illegal(x) PROVE Illegal(data) \/ (n \in E /\ Masked(b) \notin Special)
      <3>1. PICK i \in F : i < n + 1 /\ Restored(x, i + 1) \notin Special
        BY <2>1, <2>8
      <3>2. i \in E
        BY <2>3, <3>1
      <3>3. CASE i < n
        BY <2>2, <2>5, <3>1, <3>2, <3>3
      <3>4. CASE i = n
        BY <2>7, <3>1, <3>2, <3>4
      <3> QED
        BY <2>6, <3>2, <3>3, <3>4
    <2>9. ASSUME Illegal(data) PROVE Illegal(x)
      BY <2>1, <2>2, <2>4, <2>5, <2>9
    <2>10. ASSUME n \in E, Masked(b) \notin Special PROVE Illegal(x)
      BY <2>1, <2>4, <2>7, <2>10
    <2> QED
      BY <2>8, <2>9, <2>10
  <1>13. CASE Pending(data)
    <2>1. Piece(x, n + 1) = <<Masked(b)>>
      BY <1>4, <1>5, <1>7, <1>9, <1>13
    <2>2. Cleared(x) = Append(Cleared(data), Masked(b))
      BY <1>10, <1>11, <2>1, AppendIsConcat
    <2> QED
      BY <1>4, <1>5, <1>12, <1>13, <2>2 DEF x
  <1>14. CASE ~ Pending(data) /\ b = ESCAPE_BYTE
    <2>1. Piece(x, n + 1) = << >>
      BY <1>4, <1>5, <1>9, <1>14
    <2>2. Cleared(x) = Cleared(data)
      BY <1>10, <1>11, <2>1, ConcatEmptySeq
    <2> QED
      BY <1>4, <1>5, <1>12, <1>14, <2>2 DEF x
  <1>15. CASE ~ Pending(data) /\ b # ESCAPE_BYTE
    <2>1. Piece(x, n + 1) = <<b>>
      BY <1>4, <1>5, <1>7, <1>9, <1>15
    <2>2. Cleared(x) = Append(Cleared(data), b)
      BY <1>10, <1>11, <2>1, AppendIsConcat
    <2> QED
      BY <1>4, <1>5, <1>12, <1>15, <2>2 DEF x
  <1> QED
    BY <1>13, <1>14, <1>15

----------------------------------------------------------------------------
(* Stuffing *)

Stuffing(b) == IF b \in Special THEN <<ESCAPE_BYTE, Masked(b)>> ELSE <<b>>

LEMMA NothingStuffed ==
    /\ Stuffed(<< >>) = << >>
    /\ Escapes(<< >>) = {} /\ ~ Pending(<< >>) /\ ~ Illegal(<< >>) /\ Cleared(<< >>) = << >>
  <1>1. << >> \in Seq(Byte) /\ DOMAIN << >> = {} /\ Len(<< >>) = 0
    OBVIOUS
  <1>2. Escapes(<< >>) = {}
    BY <1>1 DEF Escapes
  <1>3. \A f : DOMAIN f = {} /\ f \in [{} -> {}] => f = << >>
    OBVIOUS
  <1>4. Stuffed(<< >>) = << >>
    <2>1. [i \in DOMAIN << >> |-> IF << >>[i] \in Special
                                 THEN <<ESCAPE_BYTE, Masked(<< >>[i])>> ELSE << << >>[i]>>] = << >>
      OBVIOUS
    <2> QED
      BY <2>1, FlattenEmpty DEF Stuffed
  <1>5. Cleared(<< >>) = << >>
    <2>1. [i \in DOMAIN << >> |-> Piece(<< >>, i)] = << >>
      OBVIOUS
    <2> QED
      BY <2>1, FlattenEmpty DEF Cleared
  <1> QED
    BY <1>2, <1>4, <1>5 DEF Pending, Illegal

LEMMA StuffedType ==
    ASSUME NEW data \in Seq(Byte)
    PROVE  Stuffed(data) \in Seq(Byte)
  <1>1. [i \in DOMAIN data |-> Stuffing(data[i])] \in Seq(Seq(Byte))
    <2>1. ESCAPE_BYTE \in Byte
      BY DEF ESCAPE_BYTE, Byte
    <2>2. ASSUME NEW b \in Byte PROVE Stuffing(b) \in Seq(Byte)
      <3>1. Masked(b) \in Byte
        BY MaskedTwice
      <3>2. \A p, q \in Byte : <<p>> \in Seq(Byte) /\ <<p, q>> \in Seq(Byte)
        OBVIOUS
      <3> QED
        BY <2>1, <3>1, <3>2, Zenon DEF Stuffing
    <2>3. \A i \in DOMAIN data : Stuffing(data[i]) \in Seq(Byte)
      BY <2>2
    <2> QED
      BY <2>3
  <1> QED
    BY <1>1, FlattenType, Zenon DEF Stuffed, Stuffing

LEMMA StuffedAppend ==
    ASSUME NEW data \in Seq(Byte), NEW b \in Byte
    PROVE  /\ Stuffed(Append(data, b)) = Stuffed(data) \o Stuffing(b)
           /\ Stuffing(b) \in Seq(Byte)
  <1> DEFINE n == Len(data)
             x == Append(data, b)
             parts == [i \in DOMAIN data |-> Stuffing(data[i])]
  <1>1. /\ n \in Nat /\ DOMAIN x = 1..n + 1 /\ DOMAIN data = 1..n
        /\ x[n + 1] = b /\ \A i \in 1..n : x[i] = data[i] /\ data[i] \in Byte
    OBVIOUS
  <1>2. ASSUME NEW c \in Byte PROVE Stuffing(c) \in Seq(Byte)
    <2>1. Masked(c) \in Byte /\ ESCAPE_BYTE \in Byte
      BY MaskedTwice, EscapeIsByte, Zenon
    <2>2. \A p, q \in Byte : <<p>> \in Seq(Byte) /\ <<p, q>> \in Seq(Byte)
      OBVIOUS
    <2> QED
      BY <2>1, <2>2, Zenon DEF Stuffing
  <1> HIDE DEF n, x
  <1>3. [i \in DOMAIN x |-> Stuffing(x[i])] = Append(parts, Stuffing(b))
    <2>1. parts = [i \in 1..n |-> Stuffing(x[i])]
      BY <1>1
    <2>2. Append([i \in 1..n |-> Stuffing(x[i])], Stuffing(x[n + 1])) = [i \in 1..n + 1 |-> Stuffing(x[i])]
      BY <1>1
    <2> QED
      BY <1>1, <2>1, <2>2
  <1>4. parts \in Seq(Seq(Byte))
    BY <1>1, <1>2
  <1>5. FlattenSeq(Append(parts, Stuffing(b))) = FlattenSeq(parts) \o Stuffing(b)
    BY <1>2, <1>4, FlattenAppend, Zenon
  <1> QED
    BY <1>2, <1>3, <1>5, Zenon DEF Stuffed, Stuffing, x

\* The stuffed bytes that a partly read frame stands for.
Waiting(data) == IF Pending(data) THEN <<ESCAPE_BYTE>> ELSE << >>

(* What unescape accepts is what the encoder writes for it: stuffing the   *)
(* bytes it has restored gives the bytes it has read.                      *)
LEMMA ClearedStuffs ==
    ASSUME NEW data \in Seq(Byte \ {FLAG_BYTE}), ~ Illegal(data)
    PROVE  data = Stuffed(Cleared(data)) \o Waiting(data)
  <1> DEFINE T == Byte \ {FLAG_BYTE}
             S == { x \in Seq(T) : ~ Illegal(x) => x = Stuffed(Cleared(x)) \o Waiting(x) }
  <1>1. << >> \in S
    BY NothingStuffed DEF Waiting
  <1>2. ASSUME NEW d \in Seq(T), NEW b \in T, d \in S
        PROVE  Append(d, b) \in S
    <2> DEFINE x == Append(d, b)
    <2>1. x \in Seq(T) /\ d \in Seq(Byte) /\ b \in Byte /\ b # FLAG_BYTE
      BY SeqMonotonic
    <2>2. /\ Pending(d) =>
                /\ ~ Pending(x)
                /\ Cleared(x) = Append(Cleared(d), Masked(b))
                /\ Illegal(x) <=> Illegal(d) \/ Masked(b) \notin Special
          /\ ~ Pending(d) /\ b = ESCAPE_BYTE =>
                /\ Pending(x)
                /\ Cleared(x) = Cleared(d)
                /\ Illegal(x) <=> Illegal(d)
          /\ ~ Pending(d) /\ b # ESCAPE_BYTE =>
                /\ ~ Pending(x)
                /\ Cleared(x) = Append(Cleared(d), b)
                /\ Illegal(x) <=> Illegal(d)
      BY <2>1, ClearedAppend, Zenon
    <2>3. Cleared(d) \in Seq(Byte) /\ Stuffed(Cleared(d)) \in Seq(Byte)
      BY <2>1, PieceType, StuffedType
    <2>4. x = d \o <<b>>
      BY <2>1, AppendIsConcat
    <2> HIDE DEF x
    <2>5. SUFFICES ASSUME ~ Illegal(x) PROVE x = Stuffed(Cleared(x)) \o Waiting(x)
      BY <2>1 DEF x
    <2>6. d = Stuffed(Cleared(d)) \o Waiting(d)
      BY <1>2, <2>2, <2>5
    <2>7. ESCAPE_BYTE \in Byte /\ Masked(b) \in Byte /\ Masked(Masked(b)) = b
      BY <2>1, MaskedTwice, EscapeIsByte, Zenon
    <2>8. CASE Pending(d)
      <3>1. Masked(b) \in Special /\ Stuffing(Masked(b)) = <<ESCAPE_BYTE, b>>
        BY <2>2, <2>5, <2>7, <2>8 DEF Stuffing
      <3>2. Stuffed(Cleared(x)) = Stuffed(Cleared(d)) \o <<ESCAPE_BYTE, b>>
        BY <2>2, <2>3, <2>7, <2>8, <3>1, StuffedAppend
      <3>3. d = Stuffed(Cleared(d)) \o <<ESCAPE_BYTE>> /\ Waiting(x) = << >>
        BY <2>2, <2>6, <2>8 DEF Waiting
      <3>4. \A s \in Seq(Byte), e \in Byte : (s \o <<e>>) \o <<b>> = (s \o <<e, b>>) \o << >>
        BY <2>1, SMTT(40)
      <3>5. x = (Stuffed(Cleared(d)) \o <<ESCAPE_BYTE>>) \o <<b>>
        BY <2>4, <3>3, Zenon
      <3> QED
        BY <2>3, <2>7, <3>2, <3>3, <3>4, <3>5, Zenon
    <2>9. CASE ~ Pending(d) /\ b = ESCAPE_BYTE
      <3>1. d = Stuffed(Cleared(d)) \o << >> /\ Waiting(x) = <<b>>
        BY <2>2, <2>6, <2>9 DEF Waiting
      <3>2. d = Stuffed(Cleared(d))
        BY <2>3, <3>1, ConcatEmptySeq, Zenon
      <3> QED
        BY <2>2, <2>4, <2>9, <3>1, <3>2
    <2>10. CASE ~ Pending(d) /\ b # ESCAPE_BYTE
      <3>1. d = Stuffed(Cleared(d)) \o << >> /\ Waiting(x) = << >>
        BY <2>2, <2>6, <2>10 DEF Waiting
      <3>2. d = Stuffed(Cleared(d))
        BY <2>3, <3>1, ConcatEmptySeq, Zenon
      <3>3. Stuffing(b) = <<b>>
        BY <2>1, <2>10 DEF Stuffing, Special
      <3>4. Stuffed(Cleared(x)) = Stuffed(Cleared(d)) \o <<b>>
        BY <2>1, <2>2, <2>3, <2>10, <3>3, StuffedAppend
      <3>5. \A s \in Seq(Byte) : (s \o <<b>>) \o << >> = s \o <<b>>
        BY <2>1
      <3> QED
        BY <2>3, <2>4, <3>1, <3>2, <3>4, <3>5, Zenon
    <2> QED
      BY <2>8, <2>9, <2>10
  <1> HIDE DEF S
  <1>3. Seq(T) \subseteq S
    BY <1>1, <1>2, SequenceInduction
  <1> QED
    BY <1>3 DEF S

(* And what the encoder writes, unescape accepts and restores; it holds no *)
(* flag.                                                                   *)
LEMMA StuffedClears ==
    ASSUME NEW data \in Seq(Byte)
    PROVE  /\ ~ Illegal(Stuffed(data)) /\ ~ Pending(Stuffed(data))
           /\ Cleared(Stuffed(data)) = data
           /\ Stuffed(data) \in Seq(Byte \ {FLAG_BYTE})
  <1> DEFINE T == Byte \ {FLAG_BYTE}
             S == { d \in Seq(Byte) : /\ ~ Illegal(Stuffed(d)) /\ ~ Pending(Stuffed(d))
                                     /\ Cleared(Stuffed(d)) = d
                                     /\ Stuffed(d) \in Seq(T) }
  <1>1. << >> \in S
    <2>1. << >> \in Seq(T) /\ << >> \in Seq(Byte)
      OBVIOUS
    <2> QED
      BY <2>1, NothingStuffed
  <1>2. ASSUME NEW d \in Seq(Byte), NEW b \in Byte, d \in S
        PROVE  Append(d, b) \in S
    <2> DEFINE s == Stuffed(d)
               x == Stuffed(Append(d, b))
    <2>1. /\ s \in Seq(T) /\ s \in Seq(Byte) /\ Append(d, b) \in Seq(Byte)
          /\ ~ Illegal(s) /\ ~ Pending(s) /\ Cleared(s) = d
      BY <1>2, StuffedType
    <2>2. x = s \o Stuffing(b)
      BY StuffedAppend
    <2>3. Masked(b) \in Byte /\ Masked(Masked(b)) = b /\ ESCAPE_BYTE \in T
      BY MaskedTwice, EscapeIsByte, Zenon
    <2> HIDE DEF s, x
    <2>4. CASE b \in Special
      <3> DEFINE y == Append(s, ESCAPE_BYTE)
      <3>1. /\ y \in Seq(Byte) /\ y \in Seq(T) /\ Pending(y) /\ Cleared(y) = d /\ ~ Illegal(y)
        <4>1. y \in Seq(T) /\ y \in Seq(Byte)
          BY <2>1, <2>3, AppendProperties
        <4>2. Pending(y) /\ Cleared(y) = Cleared(s) /\ (Illegal(y) <=> Illegal(s))
          BY <2>1, <2>3, ClearedAppend, Zenon
        <4> QED
          BY <2>1, <4>1, <4>2
      <3>2. Masked(b) \in T
        BY <2>3, <2>4 DEF Special, Masked, FLAG_BYTE, ESCAPE_BYTE, Byte
      <3>3. x = Append(y, Masked(b))
        <4>1. \A q \in Seq(Byte), e, f \in Byte : q \o <<e, f>> = Append(Append(q, e), f)
          OBVIOUS
        <4>2. Stuffing(b) = <<ESCAPE_BYTE, Masked(b)>>
          BY <2>4 DEF Stuffing
        <4> QED
          BY <2>1, <2>2, <2>3, <4>1, <4>2
      <3> HIDE DEF y
      <3>4. /\ ~ Pending(x) /\ Cleared(x) = Append(Cleared(y), Masked(Masked(b)))
            /\ Illegal(x) <=> Illegal(y) \/ Masked(Masked(b)) \notin Special
        BY <2>3, <3>1, <3>3, ClearedAppend, Zenon
      <3>5. x \in Seq(T)
        BY <3>1, <3>2, <3>3, AppendProperties
      <3> QED
        BY <2>1, <2>3, <2>4, <3>1, <3>4, <3>5 DEF x
    <2>5. CASE b \notin Special
      <3>1. b \in T /\ b # ESCAPE_BYTE
        BY <2>5 DEF Special
      <3>2. x = Append(s, b)
        <4>1. Stuffing(b) = <<b>>
          BY <2>5 DEF Stuffing
        <4> QED
          BY <2>1, <2>2, <4>1, AppendIsConcat
      <3>3. ~ Pending(x) /\ Cleared(x) = Append(Cleared(s), b) /\ (Illegal(x) <=> Illegal(s))
        BY <2>1, <3>1, <3>2, ClearedAppend, Zenon
      <3>4. x \in Seq(T)
        BY <2>1, <3>1, <3>2, AppendProperties
      <3> QED
        BY <2>1, <3>3, <3>4 DEF x
    <2> QED
      BY <2>4, <2>5
  <1> HIDE DEF S
  <1>3. Seq(Byte) \subseteq S
    BY <1>1, <1>2, SequenceInduction
  <1> QED
    BY <1>3 DEF S

----------------------------------------------------------------------------
(* Whole frames *)

LEMMA OkOrErr ==
    ASSUME NEW x
    PROVE  Ok(x).ok /\ Ok(x).payload = x /\ ~ Err(x).ok
  BY DEF Ok, Err

(* The encoding of a message whose check bytes are two bytes decodes to    *)
(* the message.                                                            *)
LEMMA EncodingDecodes ==
    ASSUME NEW m \in Seq(Byte), m # << >>, Crc(m) \in Seq(Byte), Len(Crc(m)) = 2
    PROVE  /\ DecodeStuffed(Stuffed(m \o Crc(m))) = Ok(m)
           /\ Stuffed(m \o Crc(m)) \in Seq(Byte \ {FLAG_BYTE})
           /\ Len(Stuffed(m \o Crc(m))) > 0
  <1> DEFINE d == m \o Crc(m)
             n == Len(m)
  <1>1. /\ d \in Seq(Byte) /\ Len(d) = n + 2 /\ n \in Nat /\ n > 0
        /\ SubSeq(d, 1, n) = m /\ SubSeq(d, n + 1, n + 2) = Crc(m)
    <2>1. d \in Seq(Byte) /\ Len(d) = n + 2
      <3>1. d \in Seq(Byte) /\ Len(d) = n + Len(Crc(m))
        BY ConcatProperties, Zenon
      <3> HIDE DEF d, n
      <3> QED
        BY <3>1
    <2>2. n \in Nat /\ n > 0
      OBVIOUS
    <2> QED
      BY <2>1, <2>2, ConcatParts
  <1> HIDE DEF d, n
  <1>2. Unescape(Stuffed(d)) = Ok(d) /\ Stuffed(d) \in Seq(Byte \ {FLAG_BYTE})
    BY <1>1, StuffedClears, UnescapeParts
  <1>3. Len(d) - 2 = n /\ ~ (Len(d) < 3)
    BY <1>1
  <1>4. DecodeClear(d) = Ok(m)
    BY <1>1, <1>3 DEF DecodeClear
  <1>5. DecodeStuffed(Stuffed(d)) = Ok(m)
    BY <1>2, <1>4, OkOrErr DEF DecodeStuffed
  <1>6. Stuffed(d) # << >>
    <2>1. CASE Stuffed(d) = << >>
      <3>1. Cleared(<< >>) = d
        BY <1>1, <2>1, StuffedClears
      <3> QED
        BY <1>1, <3>1, NothingStuffed
    <2> QED
      BY <2>1
  <1> QED
    BY <1>2, <1>5, <1>6 DEF d

(* What decodes is an encoding: putting the payload back into a frame      *)
(* gives the bytes it came from.                                           *)
LEMMA DecodedEncodes ==
    ASSUME NEW x \in Seq(Byte \ {FLAG_BYTE}), DecodeStuffed(x).ok
    PROVE  /\ EncodeFrame(DecodeStuffed(x).payload) = <<FLAG_BYTE>> \o x \o <<FLAG_BYTE>>
           /\ DecodeStuffed(x).payload \in Seq(Byte)
           /\ DecodeStuffed(x).payload # << >>
  <1> DEFINE d == Cleared(x)
             n == Len(d) - 2
             p == SubSeq(d, 1, n)
  <1>1. x \in Seq(Byte)
    BY SeqMonotonic
  <1>2. Unescape(x).ok
    BY DEF DecodeStuffed
  <1>3. ~ Illegal(x) /\ ~ Pending(x) /\ Unescape(x) = Ok(d)
    BY <1>2, UnescapeParts, OkOrErr
  <1>4. d \in Seq(Byte) /\ x = Stuffed(d) \o << >>
    BY <1>1, <1>3, PieceType, ClearedStuffs DEF Waiting
  <1>5. Stuffed(d) = x
    BY <1>4, StuffedType, ConcatEmptySeq, Zenon
  <1>6. DecodeStuffed(x) = DecodeClear(d) /\ DecodeClear(d).ok
    BY <1>2, <1>3, OkOrErr DEF DecodeStuffed
  <1>7. /\ ~ (Len(d) < 3)
        /\ Crc(p) = SubSeq(d, n + 1, n + 2)
        /\ DecodeClear(d) = Ok(p)
    BY <1>6, OkOrErr DEF DecodeClear
  <1> HIDE DEF d
  <1>8. /\ p \in Seq(Byte) /\ p # << >>
        /\ p \o SubSeq(d, n + 1, n + 2) = d
    <2>1. Len(d) \in Nat /\ Len(d) > 2
      BY <1>4, <1>7
    <2>2. n + 2 = Len(d) /\ n \in 0..Len(d) /\ 1 \in 1..Len(d) + 1 /\ n > 0
          /\ n \in 1 - 1..Len(d) /\ Len(d) \in n..Len(d)
      BY <2>1
    <2>3. SubSeq(d, 1, n) \o SubSeq(d, n + 1, Len(d)) = SubSeq(d, 1, Len(d))
      BY <1>4, <2>2, ConcatAdjacentSubSeq
    <2>4. SubSeq(d, 1, Len(d)) = d
      BY <1>4, SubSeqFull
    <2>5. p \in Seq(Byte) /\ Len(p) = n
      BY <1>4, <2>1
    <2> HIDE DEF p, n
    <2> QED
      BY <2>2, <2>3, <2>4, <2>5, SMTT(40) DEF p
  <1>9. DecodeStuffed(x).payload = p
    BY <1>6, <1>7, OkOrErr
  <1>10. EncodeFrame(p) = <<FLAG_BYTE>> \o x \o <<FLAG_BYTE>>
    BY <1>5, <1>7, <1>8 DEF EncodeFrame
  <1> QED
    BY <1>8, <1>9, <1>10

----------------------------------------------------------------------------
(* Runs of the decoder: what state it is in after a sequence of bytes. A   *)
(* state is a record of the three variables.                               *)

State(coll, buf, res) == [coll |-> coll, buf |-> buf, res |-> res]

Resting(d) == ~ (d.coll /\ d.buf # << >>)

AfterByte(d, b) ==
    IF b = FLAG_BYTE
      THEN IF Resting(d) THEN State(TRUE, << >>, d.res)
           ELSE State(FALSE, << >>, Append(d.res, DecodeStuffed(d.buf)))
      ELSE IF d.coll THEN State(TRUE, Append(d.buf, b), d.res) ELSE d

Run(g, d, s) ==
    /\ g[0] = d
    /\ \A i \in 1..Len(s) : g[i] = AfterByte(g[i - 1], s[i])

\* From state d the bytes s lead to state e.
Leads(d, s, e) == \E g : Run(g, d, s) /\ g[Len(s)] = e

LEMMA NothingRead ==
    ASSUME NEW d
    PROVE  Leads(d, << >>, d)
  <1> DEFINE g == [i \in {0} |-> d]
  <1>1. Run(g, d, << >>) /\ g[Len(<< >>)] = d
    BY DEF Run
  <1> QED
    BY <1>1, Zenon DEF Leads

LEMMA OneMoreRead ==
    ASSUME NEW T, NEW s \in Seq(T), NEW b \in T, NEW d, NEW e, Leads(d, s, e)
    PROVE  Leads(d, Append(s, b), AfterByte(e, b))
  <1> DEFINE n == Len(s)
             x == Append(s, b)
  <1>1. PICK g : Run(g, d, s) /\ g[n] = e
    BY DEF Leads
  <1> DEFINE h == [i \in 0..n + 1 |-> IF i = n + 1 THEN AfterByte(e, b) ELSE g[i]]
  <1>2. /\ n \in Nat /\ Len(x) = n + 1 /\ x[n + 1] = b
        /\ \A i \in 1..n : x[i] = s[i]
    OBVIOUS
  <1>3. g[0] = d /\ \A i \in 1..n : g[i] = AfterByte(g[i - 1], s[i])
    BY <1>1 DEF Run
  <1> HIDE DEF n, x
  <1>4. /\ h[n + 1] = AfterByte(e, b)
        /\ \A i \in 0..n : h[i] = g[i]
        /\ 0 \in 0..n /\ n \in 0..n
    BY <1>2
  <1> HIDE DEF h
  <1>5. ASSUME NEW i \in 1..n + 1 PROVE h[i] = AfterByte(h[i - 1], x[i])
    <2>1. CASE i = n + 1
      <3>1. i - 1 = n
        BY <1>2, <2>1
      <3> QED
        BY <1>1, <1>2, <1>4, <2>1, <3>1
    <2>2. CASE i # n + 1
      <3>1. i \in 1..n /\ i \in 0..n /\ i - 1 \in 0..n
        BY <1>2, <2>2
      <3> QED
        BY <1>2, <1>3, <1>4, <3>1
    <2> QED
      BY <2>1, <2>2
  <1>6. Run(h, d, x) /\ h[Len(x)] = AfterByte(e, b)
    BY <1>2, <1>3, <1>4, <1>5 DEF Run
  <1> QED
    BY <1>6, Zenon DEF Leads, x

(* The bytes decide the state.                                             *)
LEMMA OneState ==
    ASSUME NEW T, NEW s \in Seq(T), NEW d, NEW e, NEW f, Leads(d, s, e), Leads(d, s, f)
    PROVE  e = f
  <1> DEFINE n == Len(s)
  <1>1. PICK g : Run(g, d, s) /\ g[n] = e
    BY DEF Leads
  <1>2. PICK h : Run(h, d, s) /\ h[n] = f
    BY DEF Leads
  <1>3. n \in Nat
    OBVIOUS
  <1> DEFINE S == { i \in 0..n : g[i] = h[i] }
  <1>4. /\ g[0] = d /\ \A i \in 1..n : g[i] = AfterByte(g[i - 1], s[i])
        /\ h[0] = d /\ \A i \in 1..n : h[i] = AfterByte(h[i - 1], s[i])
    BY <1>1, <1>2 DEF Run
  <1> HIDE DEF n
  <1>5. 0 \in S
    BY <1>3, <1>4
  <1>6. ASSUME NEW i \in 0..n - 1, i \in S PROVE i + 1 \in S
    <2>1. i + 1 \in 1..n /\ i + 1 \in 0..n /\ (i + 1) - 1 = i
      BY <1>3
    <2>2. g[i + 1] = AfterByte(g[i], s[i + 1]) /\ h[i + 1] = AfterByte(h[i], s[i + 1])
      BY <1>4, <2>1
    <2> QED
      BY <1>6, <2>1, <2>2
  <1>7. n \in S
    <2> HIDE DEF S
    <2>1. 0..n \subseteq S
      BY <1>3, <1>5, <1>6, InductionUpTo
    <2> QED
      BY <1>3, <2>1
  <1> QED
    BY <1>1, <1>2, <1>7

LEMMA ReadOn ==
    ASSUME NEW T, NEW s \in Seq(T), NEW t \in Seq(T), NEW d, NEW e, NEW f,
           Leads(d, s, e), Leads(e, t, f)
    PROVE  Leads(d, s \o t, f)
  <1> DEFINE m == Len(s)
             n == Len(t)
             x == s \o t
  <1>1. PICK g : Run(g, d, s) /\ g[m] = e
    BY DEF Leads
  <1>2. PICK h : Run(h, e, t) /\ h[n] = f
    BY DEF Leads
  <1>3. /\ m \in Nat /\ n \in Nat /\ Len(x) = m + n
        /\ \A i \in 1..m : x[i] = s[i]
        /\ \A i \in 1..n : x[m + i] = t[i]
    <2>1. m \in Nat /\ n \in Nat
      OBVIOUS
    <2>2. /\ Len(x) = m + n
          /\ \A i \in 1..m + n : x[i] = IF i <= m THEN s[i] ELSE t[i - m]
      BY ConcatProperties
    <2> HIDE DEF m, n, x
    <2>3. ASSUME NEW i \in 1..n PROVE x[m + i] = t[i]
      <3>1. m + i \in 1..m + n /\ ~ (m + i <= m) /\ (m + i) - m = i
        BY <2>1
      <3> QED
        BY <2>2, <3>1
    <2> QED
      BY <2>1, <2>2, <2>3
  <1>4. /\ g[0] = d /\ \A i \in 1..m : g[i] = AfterByte(g[i - 1], s[i])
        /\ h[0] = e /\ \A i \in 1..n : h[i] = AfterByte(h[i - 1], t[i])
    BY <1>1, <1>2 DEF Run
  <1> DEFINE k == [i \in 0..m + n |-> IF i <= m THEN g[i] ELSE h[i - m]]
  <1> HIDE DEF m, n, x
  <1>5. /\ \A i \in 0..m : k[i] = g[i]
        /\ \A i \in 0..n : k[m + i] = h[i]
    <2>1. \A i \in 0..m : k[i] = g[i]
      BY <1>3
    <2>2. ASSUME NEW i \in 0..n PROVE k[m + i] = h[i]
      <3>1. m + i \in 0..m + n /\ (m + i) - m = i /\ (m + i <= m <=> i = 0) /\ m + 0 = m
        BY <1>3
      <3> QED
        BY <1>1, <1>4, <3>1
    <2> QED
      BY <2>1, <2>2
  <1> HIDE DEF k
  <1>6. ASSUME NEW i \in 1..m + n PROVE k[i] = AfterByte(k[i - 1], x[i])
    <2>1. CASE i <= m
      <3>1. i \in 1..m /\ i \in 0..m /\ i - 1 \in 0..m
        BY <1>3, <2>1
      <3> QED
        BY <1>3, <1>4, <1>5, <3>1
    <2>2. CASE ~ (i <= m)
      <3> DEFINE j == i - m
      <3>1. j \in 1..n /\ j \in 0..n /\ j - 1 \in 0..n /\ m + j = i /\ m + (j - 1) = i - 1
        BY <1>3, <2>2
      <3> HIDE DEF j
      <3>2. k[m + j] = h[j] /\ k[m + (j - 1)] = h[j - 1] /\ x[m + j] = t[j]
        BY <1>3, <1>5, <3>1
      <3>3. h[j] = AfterByte(h[j - 1], t[j])
        BY <1>4, <3>1
      <3> QED
        BY <3>1, <3>2, <3>3
    <2> QED
      BY <2>1, <2>2
  <1>7. k[m + n] = f /\ k[0] = d
    BY <1>2, <1>3, <1>4, <1>5
  <1>8. Run(k, d, x) /\ k[Len(x)] = f
    BY <1>3, <1>6, <1>7 DEF Run
  <1> QED
    BY <1>8, Zenon DEF Leads, x

(* Bytes without a flag are collected, or skipped.                         *)
LEMMA NoFlagRead ==
    ASSUME NEW s \in Seq(Byte \ {FLAG_BYTE}), NEW buf \in Seq(Byte), NEW res
    PROVE  /\ Leads(State(TRUE, buf, res), s, State(TRUE, buf \o s, res))
           /\ Leads(State(FALSE, buf, res), s, State(FALSE, buf, res))
  <1> DEFINE T == Byte \ {FLAG_BYTE}
             S == { x \in Seq(T) :
                      /\ Leads(State(TRUE, buf, res), x, State(TRUE, buf \o x, res))
                      /\ Leads(State(FALSE, buf, res), x, State(FALSE, buf, res)) }
  <1>1. << >> \in S
    <2>1. << >> \in Seq(T)
      OBVIOUS
    <2>2. buf \o << >> = buf
      BY ConcatEmptySeq
    <2> QED
      BY <2>1, <2>2, NothingRead
  <1>2. ASSUME NEW x \in Seq(T), NEW b \in T, x \in S
        PROVE  Append(x, b) \in S
    <2>1. Append(x, b) \in Seq(T) /\ x \in Seq(Byte) /\ b \in Byte /\ b # FLAG_BYTE
      BY SeqMonotonic
    <2>2. AfterByte(State(TRUE, buf \o x, res), b) = State(TRUE, Append(buf \o x, b), res)
      BY <2>1 DEF AfterByte, State
    <2>3. AfterByte(State(FALSE, buf, res), b) = State(FALSE, buf, res)
      BY <2>1 DEF AfterByte, State
    <2>4. Append(buf \o x, b) = buf \o Append(x, b)
      BY <2>1, SMTT(40)
    <2>5. Leads(State(TRUE, buf, res), Append(x, b), AfterByte(State(TRUE, buf \o x, res), b))
      BY <1>2, <2>1, OneMoreRead, Zenon
    <2>6. Leads(State(FALSE, buf, res), Append(x, b), AfterByte(State(FALSE, buf, res), b))
      BY <1>2, <2>1, OneMoreRead, Zenon
    <2> QED
      BY <2>1, <2>2, <2>3, <2>4, <2>5, <2>6, Zenon
  <1> HIDE DEF S
  <1>3. Seq(T) \subseteq S
    BY <1>1, <1>2, SequenceInduction
  <1> QED
    BY <1>3 DEF S

LEMMA FlagRead ==
    ASSUME NEW d
    PROVE  Leads(d, <<FLAG_BYTE>>, AfterByte(d, FLAG_BYTE))
  <1>1. << >> \in Seq({FLAG_BYTE}) /\ Append(<< >>, FLAG_BYTE) = <<FLAG_BYTE>>
    OBVIOUS
  <1> QED
    BY <1>1, NothingRead, OneMoreRead

\* A clear message that the encoder can put into a frame.
Encodable(m) == /\ m \in Seq(Byte) /\ m # << >>
                /\ Crc(m) \in Seq(Byte) /\ Len(Crc(m)) = 2

LEMMA FrameType ==
    ASSUME NEW m, Encodable(m)
    PROVE  EncodeFrame(m) \in Seq(Byte)
  <1>1. m \o Crc(m) \in Seq(Byte)
    BY ConcatProperties, Zenon DEF Encodable
  <1>2. Stuffed(m \o Crc(m)) \in Seq(Byte)
    BY <1>1, StuffedType
  <1>3. <<FLAG_BYTE>> \in Seq(Byte)
    BY DEF FLAG_BYTE, Byte
  <1>4. <<FLAG_BYTE>> \o Stuffed(m \o Crc(m)) \in Seq(Byte)
    BY <1>2, <1>3, ConcatProperties, Zenon
  <1> QED
    BY <1>3, <1>4, ConcatProperties, Zenon DEF EncodeFrame

(* A decoder that holds nothing reads a frame and gives its message; one   *)
(* that holds a partial frame gives that one's result instead and takes    *)
(* the closing flag for an opening one.                                    *)
LEMMA FrameRead ==
    ASSUME NEW m, Encodable(m), NEW coll \in BOOLEAN, NEW buf, NEW res
    PROVE  /\ Resting(State(coll, buf, res)) =>
                Leads(State(coll, buf, res), EncodeFrame(m), State(FALSE, << >>, Append(res, Ok(m))))
           /\ ~ Resting(State(coll, buf, res)) =>
                Leads(State(coll, buf, res), EncodeFrame(m),
                      State(TRUE, << >>, Append(res, DecodeStuffed(buf))))
  <1> DEFINE y == Stuffed(m \o Crc(m))
             flag == <<FLAG_BYTE>>
             d == State(coll, buf, res)
  <1>1. /\ DecodeStuffed(y) = Ok(m)
        /\ y \in Seq(Byte \ {FLAG_BYTE}) /\ Len(y) > 0
    BY EncodingDecodes DEF Encodable
  <1>2. y \in Seq(Byte) /\ flag \in Seq(Byte) /\ << >> \in Seq(Byte) /\ y # << >>
    <2>1. FLAG_BYTE \in Byte
      BY DEF FLAG_BYTE, Byte
    <2> QED
      BY <1>1, <2>1, SeqMonotonic
  <1>3. EncodeFrame(m) = (flag \o y) \o flag
    BY DEF EncodeFrame
  <1> HIDE DEF y
  <1>4. flag \o y \in Seq(Byte)
    BY <1>2, ConcatProperties, Zenon
  <1>5. Leads(d, flag, AfterByte(d, FLAG_BYTE))
    BY FlagRead, Zenon
  <1> HIDE DEF flag
  <1>6. CASE Resting(d)
    <2>1. AfterByte(d, FLAG_BYTE) = State(TRUE, << >>, res)
      BY <1>6 DEF AfterByte, State
    <2>2. Leads(State(TRUE, << >>, res), y, State(TRUE, y, res))
      <3>1. << >> \o y = y
        BY <1>2, ConcatEmptySeq
      <3>2. Leads(State(TRUE, << >>, res), y, State(TRUE, << >> \o y, res))
        BY <1>1, <1>2, NoFlagRead, Zenon
      <3> QED
        BY <3>1, <3>2, Zenon
    <2>3. AfterByte(State(TRUE, y, res), FLAG_BYTE) = State(FALSE, << >>, Append(res, Ok(m)))
      BY <1>1, <1>2 DEF AfterByte, State, Resting
    <2>4. Leads(State(TRUE, y, res), flag, State(FALSE, << >>, Append(res, Ok(m))))
      <3>1. Leads(State(TRUE, y, res), flag, AfterByte(State(TRUE, y, res), FLAG_BYTE))
        BY FlagRead, Zenon DEF flag
      <3> QED
        BY <2>3, <3>1, Zenon
    <2>5. Leads(d, flag, State(TRUE, << >>, res))
      BY <1>5, <2>1, Zenon
    <2>6. Leads(d, flag \o y, State(TRUE, y, res))
      BY <1>2, <2>2, <2>5, ReadOn, Zenon
    <2>7. Leads(d, (flag \o y) \o flag, State(FALSE, << >>, Append(res, Ok(m))))
      BY <1>2, <1>4, <2>4, <2>6, ReadOn, Zenon
    <2> QED
      BY <1>3, <1>6, <2>7, Zenon
  <1>7. CASE ~ Resting(d)
    <2> DEFINE more == Append(res, DecodeStuffed(buf))
    <2>1. AfterByte(d, FLAG_BYTE) = State(FALSE, << >>, more)
      BY <1>7 DEF AfterByte, State
    <2>2. Leads(State(FALSE, << >>, more), y, State(FALSE, << >>, more))
      BY <1>1, <1>2, NoFlagRead, Zenon
    <2>3. AfterByte(State(FALSE, << >>, more), FLAG_BYTE) = State(TRUE, << >>, more)
      BY DEF AfterByte, State, Resting
    <2>4. Leads(State(FALSE, << >>, more), flag, State(TRUE, << >>, more))
      <3>1. Leads(State(FALSE, << >>, more), flag, AfterByte(State(FALSE, << >>, more), FLAG_BYTE))
        BY FlagRead, Zenon DEF flag
      <3> QED
        BY <2>3, <3>1, Zenon
    <2>5. Leads(d, flag, State(FALSE, << >>, more))
      BY <1>5, <2>1, Zenon
    <2>6. Leads(d, flag \o y, State(FALSE, << >>, more))
      BY <1>2, <2>2, <2>5, ReadOn, Zenon
    <2>7. Leads(d, (flag \o y) \o flag, State(TRUE, << >>, more))
      BY <1>2, <1>4, <2>4, <2>6, ReadOn, Zenon
    <2> QED
      BY <1>3, <1>7, <2>7, Zenon
  <1> QED
    BY <1>6, <1>7, Zenon

\* The frames of a sequence of messages, one after the other.
Frames(messages) == FlattenSeq([i \in DOMAIN messages |-> EncodeFrame(messages[i])])

LEMMA FramesAppend ==
    ASSUME NEW M, \A m \in M : Encodable(m), NEW s \in Seq(M), NEW m \in M
    PROVE  /\ Frames(Append(s, m)) = Frames(s) \o EncodeFrame(m)
           /\ Frames(s) \in Seq(Byte) /\ EncodeFrame(m) \in Seq(Byte)
  <1> DEFINE n == Len(s)
             x == Append(s, m)
             parts == [i \in DOMAIN s |-> EncodeFrame(s[i])]
  <1>1. /\ n \in Nat /\ DOMAIN x = 1..n + 1 /\ DOMAIN s = 1..n
        /\ x[n + 1] = m /\ \A i \in 1..n : x[i] = s[i] /\ s[i] \in M
    OBVIOUS
  <1>2. \A c \in M : EncodeFrame(c) \in Seq(Byte)
    BY FrameType, Zenon
  <1> HIDE DEF n, x
  <1>3. [i \in DOMAIN x |-> EncodeFrame(x[i])] = Append(parts, EncodeFrame(m))
    <2>1. parts = [i \in 1..n |-> EncodeFrame(x[i])]
      BY <1>1
    <2>2. Append([i \in 1..n |-> EncodeFrame(x[i])], EncodeFrame(x[n + 1])) = [i \in 1..n + 1 |-> EncodeFrame(x[i])]
      BY <1>1
    <2> QED
      BY <1>1, <2>1, <2>2
  <1>4. parts \in Seq(Seq(Byte))
    BY <1>1, <1>2
  <1>5. FlattenSeq(Append(parts, EncodeFrame(m))) = FlattenSeq(parts) \o EncodeFrame(m)
    BY <1>2, <1>4, FlattenAppend, Zenon
  <1>6. FlattenSeq(parts) \in Seq(Byte)
    BY <1>4, FlattenType, Zenon
  <1> QED
    BY <1>2, <1>3, <1>5, <1>6, Zenon DEF Frames, x

\* What a decoder that has given no result yet gives for a datagram: the
\* messages, the first one replaced when it holds a partial frame.
Heard(coll, buf, messages) ==
    [i \in 1..Len(messages) |->
        IF i = 1 /\ ~ Resting(State(coll, buf, << >>)) THEN DecodeStuffed(buf)
                                                       ELSE Ok(messages[i])]

LEMMA MessagesRead ==
    ASSUME NEW M, \A m \in M : Encodable(m), NEW messages \in Seq(M), messages # << >>,
           NEW coll \in BOOLEAN, NEW buf
    PROVE  \E c \in BOOLEAN :
              Leads(State(coll, buf, << >>), Frames(messages), State(c, << >>, Heard(coll, buf, messages)))
  <1> DEFINE d == State(coll, buf, << >>)
             H(s) == Heard(coll, buf, s)
             S == { s \in Seq(M) : \/ s = << >>
                                   \/ \E c \in BOOLEAN : Leads(d, Frames(s), State(c, << >>, H(s))) }
  <1>1. << >> \in S
    OBVIOUS
  <1>2. ASSUME NEW s \in Seq(M), NEW m \in M, s \in S
        PROVE  Append(s, m) \in S
    <2> DEFINE x == Append(s, m)
               n == Len(s)
    <2>1. /\ n \in Nat /\ x \in Seq(M) /\ Len(x) = n + 1 /\ x[n + 1] = m
          /\ \A i \in 1..n : x[i] = s[i]
      OBVIOUS
    <2>2. /\ Frames(x) = Frames(s) \o EncodeFrame(m)
          /\ Frames(s) \in Seq(Byte) /\ EncodeFrame(m) \in Seq(Byte)
      BY FramesAppend
    <2>3. CASE s = << >>
      <3>1. Frames(x) = EncodeFrame(m)
        <4>1. [i \in DOMAIN << >> |-> EncodeFrame(<< >>[i])] = << >>
          OBVIOUS
        <4>2. Frames(s) = << >>
          BY <2>3, <4>1, FlattenEmpty DEF Frames
        <4> QED
          BY <2>2, <4>2, ConcatEmptySeq, Zenon
      <3>2. H(x) = <<IF Resting(d) THEN Ok(m) ELSE DecodeStuffed(buf)>>
        <4>1. n = 0 /\ Len(x) = 1 /\ x[1] = m
          BY <2>1, <2>3
        <4>2. DOMAIN H(x) = 1..1 /\ H(x)[1] = IF Resting(d) THEN Ok(m) ELSE DecodeStuffed(buf)
          BY <4>1 DEF Heard
        <4>3. H(x) = [i \in 1..1 |-> H(x)[i]]
          BY <4>1 DEF Heard
        <4>4. \A f : [i \in 1..1 |-> f[i]] = <<f[1]>>
          OBVIOUS
        <4> HIDE DEF x, H, d
        <4>5. H(x) = <<H(x)[1]>>
          BY <4>3, <4>4
        <4> QED
          BY <4>2, <4>5
      <3>3. Append(<< >>, Ok(m)) = <<Ok(m)>> /\ Append(<< >>, DecodeStuffed(buf)) = <<DecodeStuffed(buf)>>
        OBVIOUS
      <3> HIDE DEF H
      <3>4. CASE Resting(d)
        <4>1. Leads(d, EncodeFrame(m), State(FALSE, << >>, Append(<< >>, Ok(m))))
          BY <3>4, FrameRead
        <4>2. H(x) = Append(<< >>, Ok(m))
          BY <3>2, <3>3, <3>4
        <4>3. Leads(d, Frames(x), State(FALSE, << >>, H(x)))
          BY <3>1, <4>1, <4>2, Zenon
        <4> QED
          BY <2>1, <4>3
      <3>5. CASE ~ Resting(d)
        <4>1. Leads(d, EncodeFrame(m), State(TRUE, << >>, Append(<< >>, DecodeStuffed(buf))))
          BY <3>5, FrameRead
        <4>2. H(x) = Append(<< >>, DecodeStuffed(buf))
          BY <3>2, <3>3, <3>5
        <4>3. Leads(d, Frames(x), State(TRUE, << >>, H(x)))
          BY <3>1, <4>1, <4>2, Zenon
        <4> QED
          BY <2>1, <4>3
      <3> QED
        BY <3>4, <3>5
    <2>4. CASE s # << >>
      <3>1. PICK c \in BOOLEAN : Leads(d, Frames(s), State(c, << >>, H(s)))
        BY <1>2, <2>4
      <3>2. Resting(State(c, << >>, H(s)))
        BY DEF Resting, State
      <3>3. Leads(State(c, << >>, H(s)), EncodeFrame(m), State(FALSE, << >>, Append(H(s), Ok(m))))
        BY <3>2, FrameRead, Zenon
      <3>4. Leads(d, Frames(x), State(FALSE, << >>, Append(H(s), Ok(m))))
        BY <2>2, <3>1, <3>3, ReadOn, Zenon
      <3>5. H(x) = Append(H(s), Ok(m))
        <4> DEFINE V(i) == IF i = 1 /\ ~ Resting(d) THEN DecodeStuffed(buf) ELSE Ok(x[i])
        <4>1. n # 0
          BY <2>4
        <4> HIDE DEF x, n
        <4>2. H(x) = [i \in 1..n + 1 |-> V(i)]
          BY <2>1 DEF Heard
        <4>3. H(s) = [i \in 1..n |-> V(i)]
          BY <2>1 DEF Heard, n
        <4>4. V(n + 1) = Ok(m)
          <5>1. n + 1 # 1
            BY <2>1, <4>1
          <5> QED
            BY <2>1, <5>1
        <4> HIDE DEF V, H
        <4>5. [i \in 1..n + 1 |-> V(i)] = Append([i \in 1..n |-> V(i)], V(n + 1))
          BY <2>1
        <4> QED
          BY <4>2, <4>3, <4>4, <4>5
      <3> HIDE DEF H
      <3> QED
        BY <2>1, <3>4, <3>5
    <2> QED
      BY <2>3, <2>4
  <1> HIDE DEF S
  <1>3. messages \in S
    BY <1>1, <1>2, SequenceInduction
  <1> QED
    BY <1>3 DEF S

----------------------------------------------------------------------------
(* The frames of a sequence of bytes, without the recursion of FramesFrom. *)

FlagAt(s, p) == p \in 1..Len(s) /\ s[p] = FLAG_BYTE

Stretch(s, o, c) ==
    /\ FlagAt(s, o) /\ FlagAt(s, c)
    /\ c > o + 1
    /\ \A p \in o + 1..c - 1 : ~ FlagAt(s, p)

\* Where the stretches end that lie at or after a position.
EndsFrom(s, a) == { c \in a..Len(s) : \E o \in a..c : Stretch(s, o, c) }

\* The position c, if a stretch from a on ends there.
EndAt(s, a, c) == { e \in {c} : \E o \in a..e : Stretch(s, o, e) }

Frame == [first : Nat, last : Nat]

\* The first position after the first i frames.
After(fs, i) == IF i = 0 THEN 1 ELSE fs[i].last + 2

\* The i-th frame is the first stretch after the ones before it.
NextFrame(s, fs, i) ==
    LET a == After(fs, i - 1)
        c == fs[i].last + 1 IN
      /\ fs[i] \in Frame
      /\ fs[i].first - 1 \in a..c
      /\ Stretch(s, fs[i].first - 1, c)
      /\ \A e \in EndsFrom(s, a) : c <= e

IsFrames(s, fs) ==
    /\ fs \in Seq(Frame)
    /\ \A i \in 1..Len(fs) : NextFrame(s, fs, i)
    /\ EndsFrom(s, After(fs, Len(fs))) = {}

\* A flag after the last frame that only other bytes follow.
Opener(s, fs, o) ==
    /\ o \in After(fs, Len(fs))..Len(s)
    /\ FlagAt(s, o)
    /\ \A p \in o + 1..Len(s) : ~ FlagAt(s, p)

\* What the decoder holds between two bytes.
Holds(s, fs, coll, buf) ==
    \/ /\ coll
       /\ \E o \in Int : Opener(s, fs, o) /\ buf = SubSeq(s, o + 1, Len(s))
    \/ /\ ~ coll
       /\ buf = << >>
       /\ \A p \in After(fs, Len(fs))..Len(s) : ~ FlagAt(s, p)

Open(s, fs) == \E o \in Int : Opener(s, fs, o) /\ o < Len(s)

Decodings(s, fs) ==
    [i \in 1..Len(fs) |-> DecodeStuffed(SubSeq(s, fs[i].first, fs[i].last))]

(* The invariant: there is a division of the stream into frames, and the   *)
(* decoder has decoded these and holds what follows the last one.          *)
Divided ==
    \E fs : /\ IsFrames(stream, fs)
            /\ \/ /\ ~ ended
                  /\ results = Decodings(stream, fs)
                  /\ Holds(stream, fs, collecting, buffer)
               \/ /\ ended
                  /\ results = Decodings(stream, fs)
                                 \o (IF Open(stream, fs) THEN <<Err("FrameTooShort")>>
                                                         ELSE << >>)

TypeOK ==
    /\ stream \in Seq(Bytes) /\ Len(stream) <= MaxStream
    /\ ended \in BOOLEAN
    /\ collecting \in BOOLEAN

IInv == TypeOK /\ Divided

----------------------------------------------------------------------------
(* Facts about stretches *)

LEMMA FrameBounds ==
    ASSUME NEW T, NEW s \in Seq(T), NEW fs, IsFrames(s, fs), NEW i \in 1..Len(fs)
    PROVE  /\ fs[i].first \in 2..Len(s) /\ fs[i].last \in fs[i].first..Len(s) - 1
           /\ fs[i].last \in Nat /\ fs[i].first \in Nat
  <1>1. NextFrame(s, fs, i)
    BY DEF IsFrames
  <1>2. fs[i].first \in Nat /\ fs[i].last \in Nat /\ Len(s) \in Nat
    BY <1>1 DEF NextFrame, Frame
  <1>3. /\ fs[i].first - 1 \in 1..Len(s) /\ fs[i].last + 1 \in 1..Len(s)
        /\ fs[i].last + 1 > (fs[i].first - 1) + 1
    BY <1>1 DEF NextFrame, Stretch, FlagAt
  <1> QED
    BY <1>2, <1>3, SMTT(40)

LEMMA AfterBounds ==
    ASSUME NEW T, NEW s \in Seq(T), NEW fs, IsFrames(s, fs), NEW i \in 0..Len(fs)
    PROVE  After(fs, i) \in 1..Len(s) + 1
  <1>1. CASE i = 0
    BY <1>1 DEF After
  <1>2. CASE i # 0
    <2>1. i \in 1..Len(fs)
      BY <1>2
    <2>2. fs[i].last \in Nat /\ fs[i].last \in fs[i].first..Len(s) - 1 /\ fs[i].first \in 2..Len(s)
      BY <2>1, FrameBounds
    <2> QED
      BY <1>2, <2>2 DEF After
  <1> QED
    BY <1>1, <1>2

(* A stretch has one opening flag.                                         *)
LEMMA OneOpening ==
    ASSUME NEW s, NEW o \in Int, NEW q \in Int, NEW c \in Int,
           Stretch(s, o, c), Stretch(s, q, c)
    PROVE  o = q
  <1>1. CASE o < q
    <2>1. q \in o + 1..c - 1
      BY <1>1 DEF Stretch
    <2> QED
      BY <2>1 DEF Stretch
  <1>2. CASE q < o
    <2>1. o \in q + 1..c - 1
      BY <1>2 DEF Stretch
    <2> QED
      BY <2>1 DEF Stretch
  <1> QED
    BY <1>1, <1>2

(* One more byte leaves the flags and stretches before it.                 *)
LEMMA StretchAppend ==
    ASSUME NEW T, NEW s \in Seq(T), NEW b \in T
    PROVE  LET x == Append(s, b) IN
             /\ Len(x) = Len(s) + 1
             /\ \A p \in 1..Len(s) : FlagAt(x, p) <=> FlagAt(s, p)
             /\ FlagAt(x, Len(s) + 1) <=> b = FLAG_BYTE
             /\ \A o \in Int, c \in 1..Len(s) : Stretch(x, o, c) <=> Stretch(s, o, c)
  <1> DEFINE x == Append(s, b)
             n == Len(s)
  <1>1. /\ n \in Nat /\ Len(x) = n + 1 /\ x[n + 1] = b
        /\ \A p \in 1..n : x[p] = s[p]
    OBVIOUS
  <1> HIDE DEF x, n
  <1>2. \A p \in 1..n : FlagAt(x, p) <=> FlagAt(s, p)
    BY <1>1 DEF FlagAt, n
  <1>3. FlagAt(x, n + 1) <=> b = FLAG_BYTE
    BY <1>1 DEF FlagAt
  <1>4. ASSUME NEW o \in Int, NEW c \in 1..n
        PROVE  Stretch(x, o, c) <=> Stretch(s, o, c)
    <2>1. FlagAt(x, o) \/ FlagAt(s, o) => o >= 1
      BY DEF FlagAt
    <2>2. ASSUME o >= 1, c > o + 1
          PROVE  /\ FlagAt(x, o) <=> FlagAt(s, o)
                 /\ FlagAt(x, c) <=> FlagAt(s, c)
                 /\ \A p \in o + 1..c - 1 : FlagAt(x, p) <=> FlagAt(s, p)
      <3>1. o \in 1..n /\ \A p \in o + 1..c - 1 : p \in 1..n
        BY <1>1, <2>2
      <3> QED
        BY <1>2, <3>1
    <2> QED
      BY <2>1, <2>2 DEF Stretch
  <1> QED
    BY <1>1, <1>2, <1>3, <1>4 DEF x, n

LEMMA EndsAppend ==
    ASSUME NEW T, NEW s \in Seq(T), NEW b \in T, NEW a \in Nat \ {0}
    PROVE  LET x == Append(s, b)
               n == Len(s) IN
             EndsFrom(x, a) = EndsFrom(s, a) \cup EndAt(x, a, n + 1)
  <1> DEFINE x == Append(s, b)
             n == Len(s)
             new == EndAt(x, a, n + 1)
  <1>1. /\ n \in Nat /\ Len(x) = n + 1
        /\ \A o \in Int, c \in 1..n : Stretch(x, o, c) <=> Stretch(s, o, c)
    BY StretchAppend
  <1> HIDE DEF x, n
  <1>2. EndsFrom(s, a) = { c \in a..n : \E o \in a..c : Stretch(s, o, c) }
    BY DEF EndsFrom, n
  <1>3. EndsFrom(x, a) = { c \in a..n + 1 : \E o \in a..c : Stretch(x, o, c) }
    BY <1>1 DEF EndsFrom
  <1>4. ASSUME NEW c \in a..n
        PROVE  (\E o \in a..c : Stretch(x, o, c)) <=> (\E o \in a..c : Stretch(s, o, c))
    <2>1. c \in 1..n /\ \A o \in a..c : o \in Int
      BY <1>1
    <2> QED
      BY <1>1, <2>1
  <1>5. ASSUME NEW c \in EndsFrom(x, a) PROVE c \in EndsFrom(s, a) \cup new
    <2>1. CASE c = n + 1
      BY <1>3, <1>5, <2>1 DEF EndAt
    <2>2. CASE c # n + 1
      <3>1. c \in a..n
        BY <1>1, <1>3, <1>5, <2>2
      <3> QED
        BY <1>2, <1>3, <1>4, <1>5, <3>1
    <2> QED
      BY <2>1, <2>2
  <1>6. ASSUME NEW c \in EndsFrom(s, a) PROVE c \in EndsFrom(x, a)
    <2>1. c \in a..n /\ c \in a..n + 1
      BY <1>1, <1>2
    <2> QED
      BY <1>2, <1>3, <1>4, <2>1
  <1>7. ASSUME NEW c \in new PROVE c \in EndsFrom(x, a)
    <2>1. c = n + 1 /\ \E o \in a..c : Stretch(x, o, c)
      BY DEF EndAt
    <2>2. a <= n + 1 /\ c \in a..n + 1
      BY <1>1, <2>1
    <2> QED
      BY <1>3, <2>1, <2>2
  <1> QED
    BY <1>5, <1>6, <1>7, Zenon DEF x, n

(* The frames found so far stay the frames when a byte comes.              *)
LEMMA FramesStay ==
    ASSUME NEW T, NEW s \in Seq(T), NEW b \in T, NEW fs, IsFrames(s, fs),
           NEW i \in 1..Len(fs)
    PROVE  /\ NextFrame(Append(s, b), fs, i)
           /\ SubSeq(Append(s, b), fs[i].first, fs[i].last) = SubSeq(s, fs[i].first, fs[i].last)
  <1> DEFINE x == Append(s, b)
             n == Len(s)
             a == After(fs, i - 1)
             o == fs[i].first - 1
             c == fs[i].last + 1
  <1>1. NextFrame(s, fs, i) /\ n \in Nat
    BY DEF IsFrames
  <1>2. /\ fs[i].first \in 2..n /\ fs[i].last \in fs[i].first..n - 1
        /\ fs[i].last \in Nat /\ fs[i].first \in Nat
    BY FrameBounds
  <1>3. a \in Nat \ {0}
    <2>1. i - 1 \in 0..Len(fs)
      BY DEF IsFrames
    <2>2. a \in 1..Len(s) + 1
      BY <2>1, AfterBounds
    <2> QED
      BY <2>2
  <1>4. o \in Int /\ c \in 1..n /\ c <= n
    BY <1>1, <1>2
  <1>5. Stretch(x, o, c)
    BY <1>1, <1>4, StretchAppend DEF NextFrame
  <1>6. \A e \in EndsFrom(x, a) : c <= e
    <2>1. \A e \in EndsFrom(s, a) : c <= e
      BY <1>1 DEF NextFrame
    <2>2. \A e \in EndsFrom(x, a) : e \in EndsFrom(s, a) \/ e = n + 1
      <3>1. EndsFrom(x, a) = EndsFrom(s, a) \cup EndAt(x, a, n + 1)
        BY <1>3, EndsAppend, Zenon
      <3> HIDE DEF x, n, a
      <3> QED
        BY <3>1 DEF EndAt
    <2> HIDE DEF c, a, x, n
    <2> QED
      BY <1>1, <1>4, <2>1, <2>2
  <1>7. NextFrame(x, fs, i)
    BY <1>1, <1>5, <1>6 DEF NextFrame
  <1>8. SubSeq(x, fs[i].first, fs[i].last) = SubSeq(s, fs[i].first, fs[i].last)
    <2>1. x = s \o <<b>> /\ <<b>> \in Seq(T)
      BY AppendIsConcat
    <2>2. fs[i].first \in 1..Len(s) /\ fs[i].last \in 1..Len(s)
      BY <1>1, <1>2
    <2>3. \A p, q \in 1..Len(s) : SubSeq(s \o <<b>>, p, q) = SubSeq(s, p, q)
      BY <2>1, SubSeqOfConcat1, Zenon
    <2> QED
      BY <2>1, <2>2, <2>3, Zenon
  <1> QED
    BY <1>7, <1>8

LEMMA NoNewFrame ==
    ASSUME NEW T, NEW s \in Seq(T), NEW b \in T, NEW fs, IsFrames(s, fs),
           \A o \in After(fs, Len(fs))..Len(s) + 1 : ~ Stretch(Append(s, b), o, Len(s) + 1)
    PROVE  /\ IsFrames(Append(s, b), fs)
           /\ Decodings(Append(s, b), fs) = Decodings(s, fs)
  <1> DEFINE a == After(fs, Len(fs))
  <1>1. a \in Nat \ {0}
    <2>1. Len(fs) \in 0..Len(fs)
      BY DEF IsFrames
    <2>2. a \in 1..Len(s) + 1
      BY <2>1, AfterBounds
    <2> QED
      BY <2>2
  <1>2. EndsFrom(s, a) = {}
    BY DEF IsFrames
  <1>3. EndsFrom(Append(s, b), a) = {}
    BY <1>1, <1>2, EndsAppend DEF EndAt
  <1>4. \A i \in 1..Len(fs) :
          /\ NextFrame(Append(s, b), fs, i)
          /\ SubSeq(Append(s, b), fs[i].first, fs[i].last) = SubSeq(s, fs[i].first, fs[i].last)
    BY FramesStay, ZenonT(40)
  <1> QED
    BY <1>3, <1>4 DEF IsFrames, Decodings

LEMMA NewFrame ==
    ASSUME NEW T, NEW s \in Seq(T), NEW b \in T, NEW fs, IsFrames(s, fs),
           NEW o \in After(fs, Len(fs))..Len(s),
           Stretch(Append(s, b), o, Len(s) + 1)
    PROVE  LET gs == Append(fs, [first |-> o + 1, last |-> Len(s)]) IN
             /\ IsFrames(Append(s, b), gs)
             /\ After(gs, Len(gs)) = Len(s) + 2
             /\ Decodings(Append(s, b), gs)
                  = Append(Decodings(s, fs), DecodeStuffed(SubSeq(s, o + 1, Len(s))))
  <1> DEFINE x == Append(s, b)
             n == Len(s)
             m == Len(fs)
             f == [first |-> o + 1, last |-> n]
             gs == Append(fs, f)
             a == After(fs, m)
  <1>1. n \in Nat /\ m \in Nat /\ fs \in Seq(Frame) /\ EndsFrom(s, a) = {} /\ x \in Seq(T) /\ Len(x) = n + 1
    BY DEF IsFrames
  <1>2. a \in 1..n + 1 /\ a \in Nat \ {0}
    <2>1. m \in 0..Len(fs)
      BY <1>1
    <2>2. a \in 1..Len(s) + 1
      BY <2>1, AfterBounds
    <2> QED
      BY <2>2
  <1>3. o \in Nat /\ o \in a..n /\ f \in Frame /\ f.first = o + 1 /\ f.last = n
    BY <1>1, <1>2 DEF Frame
  <1>4. /\ gs \in Seq(Frame) /\ Len(gs) = m + 1
        /\ gs[m + 1] = f /\ \A i \in 1..m : gs[i] = fs[i]
    BY <1>1, <1>3, AppendProperties
  <1>5. \A i \in 0..m : After(gs, i) = After(fs, i)
    BY <1>4 DEF After
  <1> HIDE DEF x, n, m, f, gs, a
  <1>6. ASSUME NEW i \in 1..m PROVE NextFrame(x, gs, i)
    <2>1. NextFrame(x, fs, i)
      BY FramesStay DEF x, m
    <2>2. gs[i] = fs[i] /\ After(gs, i - 1) = After(fs, i - 1)
      BY <1>1, <1>4, <1>5
    <2> QED
      BY <2>1, <2>2 DEF NextFrame
  <1>7. EndsFrom(x, a) = {n + 1}
    <2>1. EndsFrom(x, a) = EndsFrom(s, a) \cup EndAt(x, a, n + 1)
      BY <1>2, EndsAppend, Zenon DEF x, n
    <2>2. o \in a..n + 1 /\ Stretch(x, o, n + 1)
      BY <1>1, <1>2, <1>3 DEF x, n
    <2> QED
      BY <1>1, <2>1, <2>2 DEF EndAt
  <1>8. NextFrame(x, gs, m + 1)
    <2>1. After(gs, (m + 1) - 1) = a
      <3>1. (m + 1) - 1 = m /\ m \in 0..m
        BY <1>1
      <3> QED
        BY <1>5, <3>1 DEF a
    <2>2. gs[m + 1].first - 1 = o /\ gs[m + 1].last + 1 = n + 1 /\ gs[m + 1] \in Frame
      BY <1>3, <1>4
    <2>3. o \in a..n + 1 /\ Stretch(x, o, n + 1)
      BY <1>1, <1>2, <1>3 DEF x, n
    <2>4. \A e \in EndsFrom(x, a) : n + 1 <= e
      BY <1>1, <1>7
    <2> QED
      BY <2>1, <2>2, <2>3, <2>4 DEF NextFrame
  <1>9. After(gs, m + 1) = n + 2
    BY <1>1, <1>3, <1>4 DEF After
  <1>10. EndsFrom(x, n + 2) = {}
    BY <1>1 DEF EndsFrom
  <1>11. IsFrames(x, gs)
    <2>1. \A i \in 1..m + 1 : NextFrame(x, gs, i)
      <3>1. \A i \in 1..m + 1 : i \in 1..m \/ i = m + 1
        BY <1>1
      <3> QED
        BY <1>6, <1>8, <3>1
    <2> QED
      BY <1>4, <1>9, <1>10, <2>1 DEF IsFrames
  <1>12. Decodings(x, gs) = Append(Decodings(s, fs), DecodeStuffed(SubSeq(s, o + 1, n)))
    <2> DEFINE D(i) == DecodeStuffed(SubSeq(x, gs[i].first, gs[i].last))
    <2>1. \A i \in 1..m : D(i) = DecodeStuffed(SubSeq(s, fs[i].first, fs[i].last))
      <3>1. \A i \in 1..m : SubSeq(x, fs[i].first, fs[i].last) = SubSeq(s, fs[i].first, fs[i].last)
        BY FramesStay, ZenonT(40) DEF x, m
      <3> QED
        BY <1>4, <3>1
    <2>2. D(m + 1) = DecodeStuffed(SubSeq(s, o + 1, n))
      <3>1. SubSeq(x, o + 1, n) = SubSeq(s, o + 1, n)
        <4>1. x = s \o <<b>> /\ <<b>> \in Seq(T)
          BY AppendIsConcat DEF x
        <4>2. Stretch(x, o, n + 1)
          BY DEF x, n
        <4>3. o + 1 \in 1..n /\ n \in 1..n
          BY <1>1, <1>3, <4>2 DEF Stretch
        <4> QED
          BY <4>1, <4>3, SubSeqOfConcat1 DEF n
      <3> QED
        BY <1>3, <1>4, <3>1
    <2>3. Decodings(x, gs) = [i \in 1..m + 1 |-> D(i)]
      BY <1>4 DEF Decodings
    <2>4. Decodings(s, fs) = [i \in 1..m |-> D(i)]
      BY <2>1 DEF Decodings, m
    <2> HIDE DEF D
    <2>5. [i \in 1..m + 1 |-> D(i)] = Append([i \in 1..m |-> D(i)], D(m + 1))
      BY <1>1
    <2> QED
      BY <2>2, <2>3, <2>4, <2>5
  <1> QED
    BY <1>4, <1>9, <1>11, <1>12 DEF x, n, f, gs

----------------------------------------------------------------------------
(* FramesFrom *)

LEMMA MinOfSet ==
    ASSUME NEW S \in SUBSET Nat, S # {}
    PROVE  Min(S) \in S /\ \A y \in S : Min(S) <= y
  BY LeastElement DEF Min

LEMMA MinIs ==
    ASSUME NEW S \in SUBSET Nat, NEW x \in S, \A y \in S : x <= y
    PROVE  Min(S) = x
  <1>1. Min(S) \in S /\ Min(S) <= x
    BY MinOfSet
  <1>2. Min(S) \in Nat /\ x \in Nat /\ x <= Min(S)
    BY <1>1
  <1> QED
    BY <1>1, <1>2

(* The recursion finds the frames of the stream, all of them and in order. *)
LEMMA FramesFound ==
    ASSUME NEW T, stream \in Seq(T), MaxStream \in Nat, Len(stream) <= MaxStream,
           NEW fs, IsFrames(stream, fs)
    PROVE  FramesFrom = fs
  <1> DEFINE M == MaxStream + 2
             Ends(i) == { c \in i..Len(stream) : \E o \in i..c : Delimits(o, c) }
             Opens(i, c) == CHOOSE o \in i..c : Delimits(o, c)
             Rec(i) == [first |-> Opens(i, Min(Ends(i))) + 1, last |-> Min(Ends(i)) - 1]
             Value(f, i) == IF Ends(i) = {} THEN << >> ELSE <<Rec(i)>> \o f[Min(Ends(i)) + 1]
             Body(f) == [i \in 1..M |-> Value(f, i)]
             frames == CHOOSE f : f = Body(f)
  <1>1. FramesFrom = frames[1]
    BY DEF FramesFrom
  <1>2. Len(stream) \in Nat /\ M \in Nat /\ Len(stream) + 2 <= M
    OBVIOUS
  <1>3. \A o, c : Delimits(o, c) <=> Stretch(stream, o, c)
    BY DEF Delimits, Stretch, IsFlag, FlagAt
  <1>4. ASSUME NEW i \in Nat
        PROVE  Ends(i) = EndsFrom(stream, i) /\ Ends(i) \in SUBSET Nat
    BY <1>3 DEF EndsFrom
  <1> HIDE DEF M
  <1>5. \E f : f = Body(f)
    <2> DEFINE Done == { i \in 1..M : Ends(i) = {} }
               Jump == [i \in 1..M |-> Min(Ends(i)) + 1]
               first == [i \in 1..M |-> Rec(i)]
               R == { Rec(i) : i \in 1..M }
    <2>1. ASSUME NEW i \in 1..M, i \notin Done
          PROVE  Jump[i] \in i + 1..M /\ first[i] \in R
      <3>1. Ends(i) # {} /\ Ends(i) \in SUBSET Nat /\ i \in Nat
        BY <1>2, <1>4, <2>1
      <3>2. Min(Ends(i)) \in Ends(i)
        BY <3>1, MinOfSet
      <3>3. Min(Ends(i)) \in i..Len(stream)
        BY <3>2
      <3> HIDE DEF Ends, Rec
      <3> QED
        BY <1>2, <3>1, <3>3
    <2> HIDE DEF R
    <2>2. \E f \in [1..M -> Seq(R)] : Chains(f, M, Done, Jump, first)
      <3> HIDE DEF Done, Jump, first
      <3> QED
        BY <1>2, <2>1, ChainExists
    <2>3. PICK f : Chains(f, M, Done, Jump, first)
      BY <2>2
    <2>4. f = [i \in 1..M |-> IF i \in Done THEN << >> ELSE <<first[i]>> \o f[Jump[i]]]
      <3> HIDE DEF Done, Jump, first
      <3> QED
        BY <2>3 DEF Chains
    <2>5. \A i \in 1..M : (IF i \in Done THEN << >> ELSE <<first[i]>> \o f[Jump[i]]) = Value(f, i)
      <3> HIDE DEF Rec, Ends
      <3> QED
        OBVIOUS
    <2>6. f = Body(f)
      <3> HIDE DEF Value, Done, Jump, first
      <3> QED
        BY <2>4, <2>5
    <2> QED
      BY <2>6
  <1>6. frames = Body(frames)
    <2> HIDE DEF Body
    <2> QED
      BY <1>5
  <1>7. \A i \in 1..M : frames[i] = Value(frames, i)
    <2> HIDE DEF frames, Value
    <2> QED
      BY <1>6
  <1> HIDE DEF frames, Body
  <1> DEFINE n == Len(fs)
             S == { k \in 0..n : frames[After(fs, n - k)] = SubSeq(fs, n - k + 1, n) }
  <1>8. n \in Nat /\ fs \in Seq(Frame)
    BY DEF IsFrames
  <1>9. 0 \in S
    <2>1. n - 0 = n /\ 0 \in 0..n /\ n \in 0..n
      BY <1>8
    <2>2. After(fs, n) \in 1..Len(stream) + 1 /\ EndsFrom(stream, After(fs, n)) = {}
      BY <2>1, AfterBounds DEF IsFrames
    <2>3. After(fs, n) \in 1..M /\ Ends(After(fs, n)) = {}
      <3>1. After(fs, n) \in 1..M /\ After(fs, n) \in Nat
        <4> HIDE DEF n
        <4> QED
          BY <1>2, <2>2
      <3> QED
        BY <1>4, <2>2, <3>1
    <2>4. frames[After(fs, n)] = << >>
      <3> HIDE DEF Ends, n
      <3> QED
        BY <1>7, <2>3
    <2>5. SubSeq(fs, n + 1, n) = << >>
      <3> HIDE DEF n
      <3> QED
        BY <1>8, SubSeqEmpty
    <2> HIDE DEF n
    <2> QED
      BY <2>1, <2>4, <2>5
  <1>10. ASSUME NEW k \in 0..n - 1, k \in S
         PROVE  k + 1 \in S
    <2> DEFINE i == n - k
               a == After(fs, n - (k + 1))
               c == fs[i].last + 1
    <2>1. i \in 1..n /\ n - (k + 1) = i - 1 /\ i - 1 \in 0..n /\ i \in 0..n /\ k + 1 \in 0..n
      BY <1>8
    <2>2. a = After(fs, i - 1) /\ After(fs, i) = c + 1
      <3>2. fs[i].last \in Nat
        BY <2>1, FrameBounds
      <3>3. i # 0
        <4> HIDE DEF n
        <4> QED
          BY <1>8, <2>1
      <3> HIDE DEF i
      <3>1. After(fs, i) = fs[i].last + 2
        BY <3>3 DEF After
      <3> QED
        BY <2>1, <3>1, <3>2
    <2>3. NextFrame(stream, fs, i)
      BY <2>1 DEF IsFrames
    <2>4. /\ fs[i].first \in 2..Len(stream) /\ fs[i].last \in fs[i].first..Len(stream) - 1
          /\ fs[i].last \in Nat /\ fs[i].first \in Nat
      BY <2>1, FrameBounds
    <2>5. a \in 1..Len(stream) + 1
      BY <2>1, <2>2, AfterBounds
    <2> HIDE DEF i, a, n
    <2>6. a \in 1..M /\ a \in Nat
      BY <1>2, <2>5
    <2>7. /\ fs[i] \in Frame /\ fs[i].first - 1 \in a..c
          /\ Stretch(stream, fs[i].first - 1, c)
          /\ \A e \in EndsFrom(stream, a) : c <= e
      BY <2>2, <2>3 DEF NextFrame
    <2>8. c \in Nat /\ c \in a..Len(stream) /\ c \in EndsFrom(stream, a)
      <3>1. c \in a..Len(stream)
        <4>1. Len(stream) \in Nat /\ a \in Nat
          BY <1>2, <2>6
        <4>2. c \in Nat /\ c <= Len(stream)
          BY <2>4, <4>1
        <4>3. a <= c
          <5> HIDE DEF c
          <5> QED
            BY <2>4, <2>7, <4>1, <4>2
        <4> QED
          BY <4>1, <4>2, <4>3
      <3> QED
        BY <2>4, <2>7, <3>1, SMTT(40) DEF EndsFrom
    <2>9. Ends(a) # {} /\ Min(Ends(a)) = c
      <3>1. Ends(a) = EndsFrom(stream, a) /\ Ends(a) \in SUBSET Nat
        BY <1>4, <2>6
      <3> HIDE DEF Ends
      <3> QED
        BY <2>7, <2>8, <3>1, MinIs
    <2>10. Opens(a, c) = fs[i].first - 1
      <3> DEFINE o == Opens(a, c)
                 q == fs[i].first - 1
      <3>1. q \in a..c /\ Delimits(q, c)
        BY <1>3, <2>7
      <3>2. o \in a..c /\ Delimits(o, c)
        BY <3>1
      <3>3. Stretch(stream, o, c) /\ Stretch(stream, q, c) /\ o \in Int /\ q \in Int /\ c \in Int
        BY <1>3, <2>6, <2>8, <3>1, <3>2
      <3> HIDE DEF o, q, c
      <3>4. o = q
        BY <3>3, OneOpening
      <3> QED
        BY <3>4 DEF o, q
    <2>11. Rec(a) = fs[i]
      <3>1. Rec(a) = [first |-> Opens(a, c) + 1, last |-> c - 1]
        BY <2>9
      <3>2. Opens(a, c) + 1 = fs[i].first /\ c - 1 = fs[i].last
        <4> HIDE DEF Opens
        <4> QED
          BY <2>4, <2>10
      <3>3. fs[i] = [first |-> fs[i].first, last |-> fs[i].last]
        BY <2>7 DEF Frame
      <3> HIDE DEF Rec, Opens
      <3> QED
        BY <3>1, <3>2, <3>3
    <2>12. frames[a] = <<fs[i]>> \o frames[c + 1]
      <3>1. frames[a] = Value(frames, a)
        BY <1>7, <2>6
      <3> HIDE DEF Rec, Ends, Opens, c
      <3> QED
        BY <2>9, <2>11, <3>1
    <2>13. frames[c + 1] = SubSeq(fs, i + 1, n)
      BY <1>10, <2>2 DEF i
    <2>14. SubSeq(fs, i, n) = <<fs[i]>> \o SubSeq(fs, i + 1, n)
      <3>1. i \in 1..Len(fs) /\ n \in i..Len(fs) /\ fs \in Seq(Frame)
        BY <1>8, <2>1 DEF n
      <3> QED
        BY <3>1, SubSeqRecursiveFirst
    <2>15. n - (k + 1) + 1 = i
      BY <1>8 DEF i
    <2> QED
      BY <2>1, <2>12, <2>13, <2>14, <2>15 DEF a
  <1> HIDE DEF S
  <1>11. 0..n \subseteq S
    BY <1>8, <1>9, <1>10, InductionUpTo
  <1>12. frames[After(fs, 0)] = SubSeq(fs, 1, n)
    <2>1. n \in 0..n /\ n - n = 0 /\ n - n + 1 = 1
      BY <1>8
    <2> HIDE DEF n
    <2> QED
      BY <1>11, <2>1 DEF S
  <1> QED
    BY <1>1, <1>8, <1>12, SubSeqFull DEF After

----------------------------------------------------------------------------
(* The invariant *)

LEMMA InitDivided == StreamInit => IInv
  <1>1. ASSUME StreamInit PROVE Divided
    <2>1. /\ collecting = FALSE /\ buffer = << >> /\ results = << >>
          /\ stream = << >> /\ ended = FALSE
      BY <1>1 DEF StreamInit, Init
    <2>2. << >> \in Seq(Frame) /\ Len(<< >>) = 0
      OBVIOUS
    <2>3. IsFrames(<< >>, << >>)
      <3>1. EndsFrom(<< >>, 1) = {}
        BY DEF EndsFrom
      <3> QED
        BY <2>2, <3>1 DEF IsFrames, After
    <2>4. Decodings(<< >>, << >>) = << >>
      BY DEF Decodings
    <2>5. Holds(<< >>, << >>, FALSE, << >>)
      BY DEF Holds, After
    <2> QED
      BY <2>1, <2>3, <2>4, <2>5 DEF Divided
  <1>2. ASSUME StreamInit PROVE TypeOK
    <2>1. << >> \in Seq(Bytes) /\ Len(<< >>) = 0 /\ 0 <= MaxStream
      BY StreamAssumption
    <2> QED
      BY <1>2, <2>1, Zenon DEF StreamInit, Init, TypeOK
  <1> QED
    BY <1>1, <1>2 DEF IInv

(* What is held after one more byte, whatever byte it is.                  *)
LEMMA CloseDivides ==
    ASSUME NEW T, NEW s \in Seq(T), NEW b \in T, NEW fs, IsFrames(s, fs),
           NEW buf, Holds(s, fs, TRUE, buf), buf # << >>, b = FLAG_BYTE
    PROVE  \E gs : /\ IsFrames(Append(s, b), gs)
                   /\ Decodings(Append(s, b), gs) = Append(Decodings(s, fs), DecodeStuffed(buf))
                   /\ Holds(Append(s, b), gs, FALSE, << >>)
  <1> DEFINE x == Append(s, b)
             n == Len(s)
  <1>1. PICK o \in Int : Opener(s, fs, o) /\ buf = SubSeq(s, o + 1, n)
    BY DEF Holds
  <1>2. /\ n \in Nat /\ Len(x) = n + 1
        /\ \A p \in 1..n : FlagAt(x, p) <=> FlagAt(s, p)
        /\ FlagAt(x, n + 1)
    BY StretchAppend
  <1>3. /\ o \in After(fs, Len(fs))..n /\ FlagAt(s, o) /\ o \in 1..n
        /\ \A p \in o + 1..n : ~ FlagAt(s, p)
    BY <1>1 DEF Opener, FlagAt
  <1>4. o < n
    <2>1. CASE ~ (o < n)
      <3>1. n < o + 1
        BY <1>2, <1>3, <2>1
      <3>2. buf = << >>
        BY <1>1, <1>2, <3>1, SubSeqEmpty
      <3> QED
        BY <3>2
    <2> QED
      BY <2>1
  <1>5. Stretch(x, o, n + 1)
    <2>1. \A p \in o + 1..(n + 1) - 1 : ~ FlagAt(x, p)
      <3>1. \A p \in o + 1..(n + 1) - 1 : p \in o + 1..n /\ p \in 1..n
        BY <1>2, <1>3
      <3> HIDE DEF n, x
      <3> QED
        BY <1>2, <1>3, <3>1
    <2>2. n + 1 > o + 1
      BY <1>2, <1>3, <1>4
    <2>3. FlagAt(x, o)
      BY <1>2, <1>3
    <2> QED
      BY <1>2, <2>1, <2>2, <2>3 DEF Stretch
  <1> DEFINE gs == Append(fs, [first |-> o + 1, last |-> n])
  <1>6. /\ IsFrames(x, gs) /\ After(gs, Len(gs)) = n + 2
        /\ Decodings(x, gs) = Append(Decodings(s, fs), DecodeStuffed(buf))
    BY <1>1, <1>3, <1>5, NewFrame
  <1> HIDE DEF gs, x, n
  <1>7. Holds(x, gs, FALSE, << >>)
    <2>1. n + 2..n + 1 = {}
      BY <1>2
    <2> QED
      BY <1>2, <1>6, <2>1 DEF Holds
  <1> QED
    BY <1>6, <1>7 DEF x

LEMMA OpenDivides ==
    ASSUME NEW T, NEW s \in Seq(T), NEW b \in T, NEW fs, IsFrames(s, fs),
           NEW coll \in BOOLEAN, NEW buf, Holds(s, fs, coll, buf), ~ (coll /\ buf # << >>),
           b = FLAG_BYTE
    PROVE  /\ IsFrames(Append(s, b), fs)
           /\ Decodings(Append(s, b), fs) = Decodings(s, fs)
           /\ Holds(Append(s, b), fs, TRUE, << >>)
  <1> DEFINE x == Append(s, b)
             n == Len(s)
             a == After(fs, Len(fs))
  <1>1. /\ n \in Nat /\ Len(x) = n + 1 /\ x \in Seq(T)
        /\ \A p \in 1..n : FlagAt(x, p) <=> FlagAt(s, p)
        /\ FlagAt(x, n + 1)
    BY StretchAppend
  <1>2. a \in 1..n + 1
    <2>1. Len(fs) \in 0..Len(fs)
      BY DEF IsFrames
    <2> QED
      BY <2>1, AfterBounds
  <1>3. \A p \in a..n - 1 : FlagAt(s, p) => FlagAt(s, n)
    <2>1. CASE coll
      <3>1. PICK o \in Int : Opener(s, fs, o) /\ buf = SubSeq(s, o + 1, n)
        BY <2>1 DEF Holds
      <3>2. o \in a..n /\ FlagAt(s, o) /\ o \in 1..n
        BY <3>1 DEF Opener, FlagAt
      <3>3. o = n
        <4>1. CASE o # n
          <5>1. o + 1 <= n /\ \A i \in o + 1..n : i \in 1..n
            BY <1>1, <3>2, <4>1
          <5>2. Len(buf) = n - (o + 1) + 1
            <6>1. \A i \in o + 1..n : s[i] \in T
              BY <5>1
            <6>2. o + 1 \in Int /\ n \in Int
              BY <1>1
            <6> HIDE DEF n
            <6> QED
              BY <3>1, <5>1, <6>1, <6>2, SubSeqProperties
          <5>3. buf = << >>
            BY <2>1
          <5>4. n - (o + 1) + 1 # 0
            BY <1>1, <5>1
          <5> QED
            BY <5>2, <5>3, <5>4
        <4> QED
          BY <4>1
      <3> QED
        BY <3>2, <3>3
    <2>2. CASE ~ coll
      <3>1. \A p \in a..n : ~ FlagAt(s, p)
        BY <2>2 DEF Holds
      <3>2. \A p \in a..n - 1 : p \in a..n
        BY <1>1, <1>2
      <3> QED
        BY <3>1, <3>2
    <2> QED
      BY <2>1, <2>2
  <1> HIDE DEF x, n, a
  <1>4. ASSUME NEW o \in a..n + 1 PROVE ~ Stretch(x, o, n + 1)
    <2>1. SUFFICES ASSUME Stretch(x, o, n + 1) PROVE FALSE
      OBVIOUS
    <2>2. /\ FlagAt(x, o) /\ n + 1 > o + 1 /\ o \in Int
          /\ \A p \in o + 1..(n + 1) - 1 : ~ FlagAt(x, p)
      BY <1>1, <1>2, <2>1 DEF Stretch
    <2>3. o \in a..n - 1 /\ o \in 1..n /\ n \in 1..n /\ n \in o + 1..(n + 1) - 1
      BY <1>1, <1>2, <2>2
    <2>4. FlagAt(s, o)
      BY <1>1, <2>2, <2>3
    <2>5. FlagAt(s, n)
      BY <1>3, <2>3, <2>4
    <2> QED
      BY <1>1, <2>2, <2>3, <2>5
  <1>5. IsFrames(x, fs) /\ Decodings(x, fs) = Decodings(s, fs)
    BY <1>4, NoNewFrame DEF x, n, a
  <1>6. Holds(x, fs, TRUE, << >>)
    <2>1. SubSeq(x, (n + 1) + 1, Len(x)) = << >>
      BY <1>1, SubSeqEmpty
    <2>2. Opener(x, fs, n + 1)
      <3>1. n + 1 \in a..n + 1 /\ (n + 1) + 1..n + 1 = {}
        BY <1>1, <1>2
      <3> QED
        BY <1>1, <3>1 DEF Opener, a
    <2> QED
      BY <1>1, <2>1, <2>2 DEF Holds
  <1> QED
    BY <1>5, <1>6 DEF x

LEMMA ByteDivides ==
    ASSUME NEW T, NEW s \in Seq(T), NEW b \in T, NEW fs, IsFrames(s, fs),
           NEW coll \in BOOLEAN, NEW buf, Holds(s, fs, coll, buf), b # FLAG_BYTE
    PROVE  /\ IsFrames(Append(s, b), fs)
           /\ Decodings(Append(s, b), fs) = Decodings(s, fs)
           /\ Holds(Append(s, b), fs, coll, IF coll THEN Append(buf, b) ELSE buf)
  <1> DEFINE x == Append(s, b)
             n == Len(s)
             a == After(fs, Len(fs))
  <1>1. /\ n \in Nat /\ Len(x) = n + 1 /\ x \in Seq(T)
        /\ \A p \in 1..n : FlagAt(x, p) <=> FlagAt(s, p)
        /\ ~ FlagAt(x, n + 1)
    BY StretchAppend
  <1>2. a \in 1..n + 1
    <2>1. Len(fs) \in 0..Len(fs)
      BY DEF IsFrames
    <2> QED
      BY <2>1, AfterBounds
  <1>3. ASSUME NEW o \in a..n + 1 PROVE ~ Stretch(x, o, n + 1)
    BY <1>1 DEF Stretch
  <1>4. IsFrames(x, fs) /\ Decodings(x, fs) = Decodings(s, fs)
    BY <1>3, NoNewFrame
  <1> HIDE DEF a, n
  <1>5. CASE coll
    <2>1. PICK o \in Int : Opener(s, fs, o) /\ buf = SubSeq(s, o + 1, n)
      BY <1>5 DEF Holds, n
    <2>2. o \in a..n /\ FlagAt(s, o) /\ o \in 1..n /\ \A p \in o + 1..n : ~ FlagAt(s, p)
      BY <2>1 DEF Opener, FlagAt, a, n
    <2> HIDE DEF x
    <2>3. Opener(x, fs, o)
      <3>1. o \in a..n + 1 /\ \A p \in o + 1..n + 1 : p = n + 1 \/ (p \in o + 1..n /\ p \in 1..n)
        BY <1>1, <1>2, <2>2
      <3>2. \A p \in o + 1..n + 1 : ~ FlagAt(x, p)
        BY <1>1, <2>2, <3>1
      <3> QED
        BY <1>1, <2>2, <3>1, <3>2 DEF Opener, a
    <2>4. Append(buf, b) = SubSeq(x, o + 1, Len(x))
      <3>1. o + 1 \in 1..n + 1 /\ n + 1 \in o + 1..n + 1 /\ (n + 1) - 1 = n
        BY <1>1, <2>2
      <3>2. SubSeq(x, o + 1, n + 1) = SubSeq(x, o + 1, n) \o <<x[n + 1]>>
        <4>1. o + 1 \in 1..Len(x) /\ n + 1 \in o + 1..Len(x)
          BY <1>1, <3>1
        <4>2. SubSeq(x, o + 1, n + 1) = SubSeq(x, o + 1, (n + 1) - 1) \o <<x[n + 1]>>
          BY <1>1, <4>1, SubSeqRecursiveSecond
        <4> QED
          BY <3>1, <4>2
      <3>3. SubSeq(x, o + 1, n) = buf /\ buf \in Seq(T)
        <4>1. \A i \in o + 1..n : i \in 1..n
          BY <1>1, <2>2
        <4>2. \A i \in o + 1..n : x[i] = s[i] /\ s[i] \in T /\ x[i] \in T
          BY <4>1 DEF x, n
        <4>3. o + 1 \in Int /\ n \in Int
          BY <1>1
        <4>4. /\ buf \in Seq(T) /\ Len(buf) = IF o + 1 <= n THEN n - (o + 1) + 1 ELSE 0
              /\ \A i \in 1..n - (o + 1) + 1 : buf[i] = s[(o + 1) + i - 1]
          BY <2>1, <4>2, <4>3, SubSeqProperties
        <4> DEFINE c == SubSeq(x, o + 1, n)
        <4>5. /\ c \in Seq(T) /\ Len(c) = IF o + 1 <= n THEN n - (o + 1) + 1 ELSE 0
              /\ \A i \in 1..n - (o + 1) + 1 : c[i] = x[(o + 1) + i - 1]
          BY <4>2, <4>3, SubSeqProperties
        <4> HIDE DEF c
        <4>6. \A i \in 1..Len(c) : c[i] = buf[i]
          <5>1. \A i \in 1..Len(c) : i \in 1..n - (o + 1) + 1 /\ (o + 1) + i - 1 \in o + 1..n
            BY <1>1, <2>2, <4>5, SMTT(40)
          <5> QED
            BY <4>2, <4>4, <4>5, <5>1
        <4>7. c = buf
          BY <4>4, <4>5, <4>6, SeqEqual
        <4> QED
          BY <4>4, <4>7 DEF c
      <3>4. x[n + 1] = b
        BY DEF x, n
      <3> QED
        BY <1>1, <3>2, <3>3, <3>4, AppendIsConcat
    <2> QED
      BY <1>4, <1>5, <2>3, <2>4 DEF Holds, x
  <1>6. CASE ~ coll
    <2>1. buf = << >> /\ \A p \in a..n : ~ FlagAt(s, p)
      BY <1>6 DEF Holds, a, n
    <2>2. \A p \in a..n + 1 : ~ FlagAt(x, p)
      <3>1. \A p \in a..n + 1 : p = n + 1 \/ (p \in a..n /\ p \in 1..n)
        BY <1>1, <1>2
      <3> HIDE DEF x
      <3> QED
        BY <1>1, <2>1, <3>1
    <2> HIDE DEF x
    <2> QED
      BY <1>1, <1>4, <1>6, <2>1, <2>2 DEF Holds, x, a
  <1> QED
    BY <1>5, <1>6

(* finish() tells an open frame from none.                                 *)
LEMMA OpenIsHeld ==
    ASSUME NEW T, NEW s \in Seq(T), NEW fs, IsFrames(s, fs),
           NEW coll \in BOOLEAN, NEW buf, Holds(s, fs, coll, buf)
    PROVE  Open(s, fs) <=> coll /\ buf # << >>
  <1> DEFINE n == Len(s)
             a == After(fs, Len(fs))
  <1>1. n \in Nat /\ a \in 1..n + 1
    <2>1. Len(fs) \in 0..Len(fs)
      BY DEF IsFrames
    <2> QED
      BY <2>1, AfterBounds
  <1> HIDE DEF n, a
  <1>2. CASE coll
    <2>1. PICK o \in Int : Opener(s, fs, o) /\ buf = SubSeq(s, o + 1, n)
      BY <1>2 DEF Holds, n
    <2>2. o \in a..n /\ FlagAt(s, o) /\ o \in 1..n /\ \A p \in o + 1..n : ~ FlagAt(s, p)
      BY <2>1 DEF Opener, FlagAt, a, n
    <2>3. \A q \in Int : Opener(s, fs, q) /\ q < n => o < n
      <3>1. ASSUME NEW q \in Int, Opener(s, fs, q), q < n, ~ (o < n) PROVE FALSE
        <4>1. o = n /\ o \in q + 1..n
          BY <1>1, <2>2, <3>1
        <4> QED
          BY <2>2, <3>1, <4>1 DEF Opener, n
      <3> QED
        BY <3>1
    <2>4. Open(s, fs) <=> o < n
      BY <2>1, <2>3 DEF Open, n
    <2>5. buf # << >> <=> o < n
      <3>1. CASE o < n
        <4>1. o + 1 <= n /\ \A i \in o + 1..n : i \in 1..n
          BY <1>1, <2>2, <3>1
        <4>2. \A i \in o + 1..n : s[i] \in T
          BY <4>1 DEF n
        <4>3. Len(buf) = n - (o + 1) + 1
          <5>1. o + 1 \in Int /\ n \in Int
            BY <1>1
          <5> QED
            BY <2>1, <4>1, <4>2, <5>1, SubSeqProperties
        <4>4. n - (o + 1) + 1 # 0
          BY <1>1, <4>1
        <4>5. buf # << >>
          BY <4>3, <4>4
        <4> QED
          BY <3>1, <4>5
      <3>2. CASE ~ (o < n)
        <4>1. n < o + 1 /\ n \in Int /\ o + 1 \in Int
          BY <1>1, <2>2, <3>2
        <4>2. buf = << >>
          BY <2>1, <4>1, SubSeqEmpty
        <4> QED
          BY <3>2, <4>2
      <3> QED
        BY <3>1, <3>2
    <2> QED
      BY <1>2, <2>4, <2>5
  <1>3. CASE ~ coll
    <2>1. \A p \in a..n : ~ FlagAt(s, p)
      BY <1>3 DEF Holds, a, n
    <2> QED
      BY <1>3, <2>1 DEF Open, Opener, a, n
  <1> QED
    BY <1>2, <1>3

LEMMA PushDivides ==
    ASSUME IInv, NEW b \in Bytes, Push(b)
    PROVE  IInv'
  <1>1. /\ stream \in Seq(Bytes) /\ collecting \in BOOLEAN
        /\ ~ ended /\ ended' = ended /\ stream' = Append(stream, b)
        /\ Len(stream) < MaxStream /\ PushByte(b)
    BY DEF IInv, TypeOK, Push
  <1>2. PICK fs : /\ IsFrames(stream, fs)
                  /\ results = Decodings(stream, fs)
                  /\ Holds(stream, fs, collecting, buffer)
    BY <1>1 DEF IInv, Divided
  <1>3. TypeOK'
    <2>1. stream' \in Seq(Bytes) /\ Len(stream') = Len(stream) + 1 /\ Len(stream) \in Nat
      BY <1>1, AppendProperties
    <2>2. collecting' \in BOOLEAN
      BY <1>1 DEF PushByte, CloseFrame, OpenFrame, Collect, Skip
    <2>3. Len(stream') <= MaxStream
      BY <1>1, <2>1, StreamAssumption
    <2> QED
      BY <1>1, <2>1, <2>2, <2>3 DEF TypeOK, IInv
  <1>4. SUFFICES \E gs : /\ IsFrames(stream', gs)
                         /\ results' = Decodings(stream', gs)
                         /\ Holds(stream', gs, collecting', buffer')
    BY <1>1, <1>3 DEF IInv, Divided
  <1>5. CASE CloseFrame(b)
    <2>1. /\ collecting = TRUE /\ buffer # << >> /\ b = FLAG_BYTE
          /\ results' = Append(results, DecodeStuffed(buffer))
          /\ buffer' = << >> /\ collecting' = FALSE
      BY <1>1, <1>5 DEF CloseFrame, AtRest
    <2>2. Holds(stream, fs, TRUE, buffer)
      BY <1>2, <2>1
    <2>3. \E gs : /\ IsFrames(Append(stream, b), gs)
                  /\ Decodings(Append(stream, b), gs)
                       = Append(Decodings(stream, fs), DecodeStuffed(buffer))
                  /\ Holds(Append(stream, b), gs, FALSE, << >>)
      BY <1>1, <1>2, <2>1, <2>2, CloseDivides, ZenonT(40)
    <2> QED
      BY <1>1, <1>2, <2>1, <2>3, Zenon
  <1>6. CASE OpenFrame(b)
    <2>1. /\ ~ (collecting /\ buffer # << >>) /\ b = FLAG_BYTE
          /\ results' = results /\ buffer' = << >> /\ collecting' = TRUE
      BY <1>6 DEF OpenFrame, AtRest
    <2>2. /\ IsFrames(Append(stream, b), fs)
          /\ Decodings(Append(stream, b), fs) = Decodings(stream, fs)
          /\ Holds(Append(stream, b), fs, TRUE, << >>)
      BY <1>1, <1>2, <2>1, OpenDivides, Zenon
    <2> QED
      BY <1>1, <1>2, <2>1, <2>2, Zenon
  <1>7. CASE Collect(b) \/ Skip(b)
    <2>1. /\ b # FLAG_BYTE /\ results' = results /\ collecting' = collecting
          /\ buffer' = IF collecting THEN Append(buffer, b) ELSE buffer
      BY <1>7 DEF Collect, Skip
    <2>2. /\ IsFrames(Append(stream, b), fs)
          /\ Decodings(Append(stream, b), fs) = Decodings(stream, fs)
          /\ Holds(Append(stream, b), fs, collecting, IF collecting THEN Append(buffer, b) ELSE buffer)
      BY <1>1, <1>2, <2>1, ByteDivides, Zenon
    <2> QED
      BY <1>1, <1>2, <2>1, <2>2, Zenon
  <1> QED
    BY <1>1, <1>5, <1>6, <1>7 DEF PushByte

LEMMA EndDivides ==
    ASSUME IInv, End
    PROVE  IInv'
  <1>1. /\ collecting \in BOOLEAN /\ stream \in Seq(Bytes) /\ Len(stream) <= MaxStream
        /\ ~ ended /\ ended' = TRUE /\ stream' = stream
        /\ collecting' = FALSE
        /\ results' = IF AtRest THEN results ELSE Append(results, Err("FrameTooShort"))
    BY DEF IInv, TypeOK, End, Finish
  <1>2. PICK fs : /\ IsFrames(stream, fs)
                  /\ results = Decodings(stream, fs)
                  /\ Holds(stream, fs, collecting, buffer)
    BY <1>1 DEF IInv, Divided
  <1>3. Open(stream, fs) <=> ~ AtRest
    BY <1>1, <1>2, OpenIsHeld DEF AtRest
  <1>4. results' = Decodings(stream, fs)
                     \o (IF Open(stream, fs) THEN <<Err("FrameTooShort")>> ELSE << >>)
    <2>1. Len(fs) \in Nat
      BY <1>2 DEF IsFrames
    <2>2. Decodings(stream, fs) = [i \in 1..Len(fs) |-> Decodings(stream, fs)[i]]
      BY DEF Decodings
    <2> DEFINE D == Decodings(stream, fs)
               e == Err("FrameTooShort")
    <2>4. D \o <<e>> = Append(D, e) /\ D \o << >> = D
      BY <2>1, <2>2, AnyValues, Zenon
    <2> HIDE DEF D, e
    <2>5. results' = IF AtRest THEN D ELSE Append(D, e)
      BY <1>1, <1>2 DEF D, e
    <2>6. results' = D \o (IF Open(stream, fs) THEN <<e>> ELSE << >>)
      <3>1. CASE AtRest
        BY <1>3, <2>4, <2>5, <3>1, Zenon
      <3>2. CASE ~ AtRest
        BY <1>3, <2>4, <2>5, <3>2, Zenon
      <3> QED
        BY <3>1, <3>2, Zenon
    <2> QED
      BY <2>6 DEF D, e
  <1>5. TypeOK'
    BY <1>1 DEF TypeOK
  <1> QED
    BY <1>1, <1>2, <1>4, <1>5 DEF IInv, Divided

LEMMA RestartDivides == Restart => IInv'
  <1>1. ASSUME Restart PROVE StreamInit'
    BY <1>1 DEF Restart, StreamInit, Init
  <1>2. StreamInit' => IInv'
    BY InitDivided, PTL
  <1> QED
    BY <1>1, <1>2

LEMMA NextDivided == IInv /\ [Next]_vars => IInv'
  <1>1. ASSUME IInv, UNCHANGED vars PROVE IInv'
    BY <1>1 DEF vars, decoder, IInv, TypeOK, Divided
  <1> QED
    BY <1>1, PushDivides, EndDivides, RestartDivides DEF Next

----------------------------------------------------------------------------
(* The theorems *)

(* The stream is divided into frames, and the decoder has decoded these    *)
(* and holds what follows, whatever bytes come.                            *)
THEOREM StreamIsDivided == Spec => []IInv
  BY InitDivided, NextDivided, PTL DEF Spec

(* The results of a stream, in the words of FramesFrom.                    *)
LEMMA ResultsFound ==
    ASSUME IInv
    PROVE  /\ IsFrames(stream, FramesFrom)
           /\ \/ /\ ~ ended
                 /\ results = Decodings(stream, FramesFrom)
              \/ /\ ended
                 /\ results = Decodings(stream, FramesFrom)
                                \o (IF Open(stream, FramesFrom)
                                      THEN <<Err("FrameTooShort")>> ELSE << >>)
  <1>1. \A fs : IsFrames(stream, fs) => FramesFrom = fs
    BY StreamAssumption, FramesFound DEF IInv, TypeOK
  <1> QED
    BY <1>1, Zenon DEF IInv, Divided

LEMMA OpenAtEndIsOpen ==
    ASSUME IInv
    PROVE  OpenAtEnd <=> Open(stream, FramesFrom)
  <1> DEFINE fs == FramesFrom
             n == Len(stream)
             done == IF fs = << >> THEN 0 ELSE Last(fs).last + 1
  <1>1. IsFrames(stream, fs) /\ n \in Nat /\ fs \in Seq(Frame)
    BY ResultsFound DEF IInv, TypeOK, IsFrames
  <1> HIDE DEF fs
  <1>2. done + 1 = After(fs, Len(fs)) /\ done + 1 \in 1..n + 1
    <2>1. CASE fs = << >>
      BY <1>1, <2>1 DEF After
    <2>2. CASE fs # << >>
      <3>1. Len(fs) # 0 /\ Len(fs) \in 1..Len(fs)
        BY <1>1, <2>2
      <3>2. fs[Len(fs)].last \in Nat
        <4>1. stream \in Seq(Bytes)
          BY DEF IInv, TypeOK
        <4> QED
          BY <1>1, <3>1, <4>1, FrameBounds
      <3>3. done + 1 = After(fs, Len(fs))
        BY <2>2, <3>1, <3>2 DEF After, Last
      <3>4. After(fs, Len(fs)) \in 1..n + 1
        <4>1. Len(fs) \in 0..Len(fs)
          BY <1>1
        <4> QED
          BY <1>1, <4>1, AfterBounds DEF IInv, TypeOK
      <3> QED
        BY <3>3, <3>4
    <2> QED
      BY <2>1, <2>2
  <1>3. \A p \in Int : IsFlag(p) <=> FlagAt(stream, p)
    BY DEF IsFlag, FlagAt, IInv, TypeOK
  <1>4. OpenAtEnd <=> \E o \in done + 1..n - 1 : IsFlag(o) /\ \A p \in o + 1..n : ~ IsFlag(p)
    BY DEF OpenAtEnd, fs
  <1> HIDE DEF done, n
  <1>5. \A o \in Int : o \in done + 1..n - 1 <=> o \in done + 1..n /\ o < n
    BY <1>1, <1>2
  <1> QED
    BY <1>2, <1>3, <1>4, <1>5 DEF Open, Opener, n, fs

(* The results are those of the frames the stream has, in order, and the   *)
(* error of finish() if and only if a frame is open then.                  *)
THEOREM StreamResults == Spec => []ResultsAreTheFrames
  <1>1. ASSUME IInv PROVE ResultsAreTheFrames
    <2> DEFINE fs == FramesFrom
    <2>1. IsFrames(stream, fs)
      BY <1>1, ResultsFound
    <2>2. DOMAIN fs = 1..Len(fs) /\ Len(fs) \in Nat
      BY <2>1 DEF IsFrames
    <2>3. Decodings(stream, fs) = [i \in DOMAIN fs |-> DecodeStuffed(Between(fs[i]))]
      <3> HIDE DEF fs
      <3> QED
        BY <2>2 DEF Decodings, Between
    <2>4. Decodings(stream, fs) \o << >> = Decodings(stream, fs)
      <3>1. Decodings(stream, fs) = [i \in 1..Len(fs) |-> Decodings(stream, fs)[i]]
        BY DEF Decodings
      <3> QED
        BY <2>2, <3>1, AnyValues, Zenon
    <2>5. OpenAtEnd <=> Open(stream, fs)
      BY <1>1, OpenAtEndIsOpen
    <2>6. \/ ~ ended /\ results = Decodings(stream, fs)
          \/ /\ ended
             /\ results = Decodings(stream, fs)
                            \o (IF Open(stream, fs) THEN <<Err("FrameTooShort")>> ELSE << >>)
      BY <1>1, ResultsFound
    <2>7. results = Decodings(stream, fs)
                      \o (IF ended /\ OpenAtEnd THEN <<Err("FrameTooShort")>> ELSE << >>)
      <3> HIDE DEF fs
      <3>1. CASE ~ ended
        BY <2>4, <2>6, <3>1, Zenon
      <3>2. CASE ended /\ OpenAtEnd
        BY <2>5, <2>6, <3>2, Zenon
      <3>3. CASE ended /\ ~ OpenAtEnd
        BY <2>5, <2>6, <3>3, Zenon
      <3> QED
        BY <3>1, <3>2, <3>3, Zenon
    <2> QED
      BY <2>3, <2>7, Zenon DEF ResultsAreTheFrames
  <1> QED
    BY StreamIsDivided, <1>1, PTL

(* Every accepted frame is the encoding of its payload, byte for byte, and *)
(* every encoding of a message is accepted.                                *)
THEOREM AcceptedAreEncodings == Spec => []AcceptedFramesAreEncodings
  <1>1. ASSUME IInv PROVE AcceptedFramesAreEncodings
    <2> DEFINE fs == FramesFrom
    <2>1. IsFrames(stream, fs) /\ stream \in Seq(Bytes)
      BY <1>1, ResultsFound DEF IInv, TypeOK
    <2>2. DOMAIN fs = 1..Len(fs) /\ Len(fs) \in Nat
      BY <2>1 DEF IsFrames
    <2> HIDE DEF fs
    <2>3. ASSUME NEW i \in 1..Len(fs)
          PROVE  LET f == fs[i]
                     frame == SubSeq(stream, f.first - 1, f.last + 1) IN
                   /\ results[i].ok => EncodeFrame(results[i].payload) = frame
                   /\ frame \in Encodings => results[i].ok
      <3> DEFINE f == fs[i]
                 p == f.first
                 q == f.last
                 x == SubSeq(stream, p, q)
                 frame == SubSeq(stream, p - 1, q + 1)
                 n == Len(stream)
      <3>1. p \in 2..n /\ q \in p..n - 1 /\ n \in Nat /\ p \in Nat /\ q \in Nat
        BY <2>1, FrameBounds
      <3>2. Stretch(stream, p - 1, q + 1)
        BY <2>1 DEF IsFrames, NextFrame
      <3> HIDE DEF p, q
      <3>3. x \in Seq(Byte \ {FLAG_BYTE}) /\ Len(x) = q - p + 1
        <4>1. ASSUME NEW j \in p..q PROVE stream[j] \in Byte \ {FLAG_BYTE}
          <5>1. j \in 1..n /\ j \in (p - 1) + 1..(q + 1) - 1
            BY <3>1
          <5>2. ~ FlagAt(stream, j)
            BY <3>2, <5>1 DEF Stretch
          <5>3. stream[j] \in Bytes
            BY <2>1, <5>1
          <5> QED
            BY <5>1, <5>2, <5>3, BytesAssumption DEF FlagAt, Byte
        <4>2. p \in Int /\ q \in Int /\ p <= q
          BY <3>1
        <4> HIDE DEF n
        <4> QED
          BY <4>1, <4>2, SubSeqProperties
      <3>4. frame = <<FLAG_BYTE>> \o x \o <<FLAG_BYTE>>
        <4>1. /\ p - 1 \in 1..n /\ q + 1 \in p - 1..n /\ p \in 1..n /\ q + 1 \in p..n
              /\ (p - 1) + 1 = p /\ (q + 1) - 1 = q
          BY <3>1
        <4>2. SubSeq(stream, p - 1, q + 1) = <<stream[p - 1]>> \o SubSeq(stream, (p - 1) + 1, q + 1)
          BY <2>1, <4>1, SubSeqRecursiveFirst
        <4>3. SubSeq(stream, p, q + 1) = SubSeq(stream, p, (q + 1) - 1) \o <<stream[q + 1]>>
          BY <2>1, <4>1, SubSeqRecursiveSecond
        <4>4. stream[p - 1] = FLAG_BYTE /\ stream[q + 1] = FLAG_BYTE
          BY <3>2 DEF Stretch, FlagAt
        <4>5. frame = <<FLAG_BYTE>> \o (x \o <<FLAG_BYTE>>)
          <5> HIDE DEF n
          <5> QED
            BY <4>1, <4>2, <4>3, <4>4
        <4>6. FLAG_BYTE \in Byte
          BY DEF FLAG_BYTE, Byte
        <4>7. <<FLAG_BYTE>> \in Seq(Byte) /\ x \in Seq(Byte)
          BY <3>3, <4>6, SeqMonotonic
        <4> HIDE DEF x, frame
        <4>8. (<<FLAG_BYTE>> \o x) \o <<FLAG_BYTE>> = <<FLAG_BYTE>> \o (x \o <<FLAG_BYTE>>)
          BY <4>7, ConcatAssociative
        <4> QED
          BY <4>5, <4>8
      <3>5. results[i] = DecodeStuffed(x)
        <4>1. Decodings(stream, fs)[i] = DecodeStuffed(x)
          BY <2>2 DEF Decodings, p, q
        <4> DEFINE D == Decodings(stream, fs)
                   e == Err("FrameTooShort")
        <4>3. D = [j \in 1..Len(fs) |-> D[j]]
          BY DEF Decodings
        <4> HIDE DEF D, e
        <4>4. (D \o <<e>>)[i] = D[i] /\ (D \o << >>)[i] = D[i]
          <5>1. D \o << >> = D
            BY <2>2, <4>3, AnyValues
          <5>2. \A j \in 1..Len(fs) : (D \o <<e>>)[j] = D[j]
            BY <2>2, <4>3, AnyValues
          <5> QED
            BY <5>1, <5>2, Zenon
        <4>5. results = D \/ results = D \o <<e>> \/ results = D \o << >>
          <5>1. \/ results = D
                \/ results = D \o (IF Open(stream, fs) THEN <<e>> ELSE << >>)
            BY <1>1, ResultsFound, Zenon DEF fs, D, e
          <5> QED
            BY <5>1, Zenon
        <4> QED
          BY <4>1, <4>4, <4>5, Zenon DEF D
      <3> HIDE DEF x, frame, n
      <3>6. results[i].ok => EncodeFrame(results[i].payload) = frame
        BY <3>3, <3>4, <3>5, DecodedEncodes
      <3>7. ASSUME frame \in Encodings PROVE results[i].ok
        <4>1. PICK m \in Messages : frame = EncodeFrame(m)
          BY <3>7 DEF Encodings
        <4>2. m \in Seq(Byte) /\ m # << >> /\ Crc(m) \in Seq(Byte) /\ Len(Crc(m)) = 2
          BY MessagesAssumption DEF Byte
        <4> DEFINE y == Stuffed(m \o Crc(m))
        <4>3. DecodeStuffed(y) = Ok(m) /\ y \in Seq(Byte \ {FLAG_BYTE})
          BY <4>2, EncodingDecodes
        <4>4. <<FLAG_BYTE>> \o x \o <<FLAG_BYTE>> = <<FLAG_BYTE>> \o y \o <<FLAG_BYTE>>
          BY <3>4, <4>1 DEF EncodeFrame
        <4> HIDE DEF y
        <4>5. x = y
          <5>1. FLAG_BYTE \in Byte
            BY DEF FLAG_BYTE, Byte
          <5>2. x \in Seq(Byte) /\ y \in Seq(Byte) /\ <<FLAG_BYTE>> \in Seq(Byte)
            BY <3>3, <4>3, <5>1, SeqMonotonic
          <5> QED
            BY <4>4, <5>2, EqualMiddles, Zenon
        <4> QED
          BY <3>5, <4>3, <4>5, OkOrErr
      <3> QED
        BY <3>6, <3>7 DEF frame, p, q
    <2> QED
      BY <2>2, <2>3 DEF AcceptedFramesAreEncodings, fs
  <1> QED
    BY StreamIsDivided, <1>1, PTL

(* decode_frame gives for a single frame what the incremental decoder has  *)
(* given for it.                                                           *)
THEOREM OneShot == Spec => []OneShotAgrees
  <1>1. ASSUME IInv, ~ ended, Len(stream) > 3, Delimits(1, Len(stream))
        PROVE  results = <<DecodeFrame(stream)>>
    <2> DEFINE fs == FramesFrom
               n == Len(stream)
    <2>1. IsFrames(stream, fs) /\ stream \in Seq(Bytes) /\ n \in Nat
      BY <1>1, ResultsFound DEF IInv, TypeOK
    <2>2. Len(fs) \in Nat /\ fs \in Seq(Frame)
      BY <2>1 DEF IsFrames
    <2>3. results = Decodings(stream, fs)
      BY <1>1, ResultsFound
    <2>4. Stretch(stream, 1, n)
      BY <1>1 DEF Delimits, Stretch, IsFlag, FlagAt
    <2> HIDE DEF fs, n
    <2>5. /\ stream[1] = FLAG_BYTE /\ stream[n] = FLAG_BYTE /\ n > 3
          /\ \A j \in 2..n - 1 : ~ FlagAt(stream, j)
      <3>1. \A j \in 2..n - 1 : j \in 1 + 1..n - 1
        OBVIOUS
      <3> QED
        BY <1>1, <2>4, <3>1 DEF Stretch, FlagAt, n
    <2>6. Len(fs) # 0
      <3>1. CASE Len(fs) = 0
        <4>1. EndsFrom(stream, 1) = {}
          BY <2>1, <3>1 DEF IsFrames, After
        <4>2. n \in EndsFrom(stream, 1)
          <5>1. n \in 1..n /\ 1 \in 1..n
            BY <2>1, <2>5
          <5> QED
            BY <2>4, <5>1 DEF EndsFrom, n
        <4> QED
          BY <4>1, <4>2
      <3> QED
        BY <3>1
    <2>7. ASSUME NEW i \in 1..Len(fs)
          PROVE  fs[i].first = 2 /\ fs[i].last = n - 1 /\ i = 1
      <3>1. /\ fs[i].first \in 2..n /\ fs[i].last \in fs[i].first..n - 1
            /\ fs[i].first \in Nat /\ fs[i].last \in Nat
        BY <2>1, FrameBounds DEF n
      <3>2. NextFrame(stream, fs, i)
        BY <2>1 DEF IsFrames
      <3> DEFINE o == fs[i].first - 1
                 c == fs[i].last + 1
      <3>3. FlagAt(stream, o) /\ FlagAt(stream, c)
        BY <3>2 DEF NextFrame, Stretch
      <3>4. o \in 1..n - 1 /\ c \in 3..n
        <4>1. ASSUME NEW p \in 2..n, NEW q \in p..n - 1, p \in Nat, q \in Nat
              PROVE  p - 1 \in 1..n - 1 /\ q + 1 \in 3..n
          BY <2>1
        <4> QED
          BY <3>1, <4>1
      <3> HIDE DEF o, c
      <3>5. o = 1 /\ c = n
        <4>1. o # 1 => o \in 2..n - 1
          BY <2>1, <3>4
        <4>2. c # n => c \in 2..n - 1
          BY <2>1, <3>4
        <4> QED
          BY <2>5, <3>3, <4>1, <4>2
      <3>6. fs[i].first = 2 /\ fs[i].last = n - 1
        <4>1. ASSUME NEW p \in Nat, NEW q \in Nat, p - 1 = 1, q + 1 = n
              PROVE  p = 2 /\ q = n - 1
          BY <2>1, <4>1
        <4> QED
          BY <3>1, <3>5, <4>1 DEF o, c
      <3>7. CASE i # 1
        <4>1. i - 1 \in 1..Len(fs) /\ i - 1 \in 0..Len(fs) /\ i - 1 # 0
          BY <2>2, <3>7
        <4>2. o \in After(fs, i - 1)..c
          BY <3>2 DEF NextFrame, o, c
        <4>3. After(fs, i - 1) = fs[i - 1].last + 2 /\ fs[i - 1].last \in Nat
          BY <2>1, <4>1, FrameBounds DEF After
        <4> QED
          BY <3>5, <4>2, <4>3
      <3> QED
        BY <3>6, <3>7
    <2>8. Len(fs) = 1
      <3>1. Len(fs) \in 1..Len(fs)
        BY <2>2, <2>6
      <3> QED
        BY <2>7, <3>1
    <2>9. results = <<DecodeStuffed(SubSeq(stream, 2, n - 1))>>
      <3>1. 1 \in 1..Len(fs)
        BY <2>8
      <3>2. fs[1].first = 2 /\ fs[1].last = n - 1
        BY <2>7, <3>1
      <3>3. results = [i \in 1..1 |-> DecodeStuffed(SubSeq(stream, fs[i].first, fs[i].last))]
        BY <2>3, <2>8 DEF Decodings
      <3>4. \A f : [i \in 1..1 |-> f[i]] = <<f[1]>>
        OBVIOUS
      <3> DEFINE g == [i \in 1..1 |-> DecodeStuffed(SubSeq(stream, fs[i].first, fs[i].last))]
      <3>5. g = [i \in 1..1 |-> g[i]] /\ g[1] = DecodeStuffed(SubSeq(stream, 2, n - 1))
        BY <3>2
      <3> HIDE DEF g
      <3>6. g = <<g[1]>>
        BY <3>4, <3>5
      <3> QED
        BY <3>3, <3>5, <3>6 DEF g
    <2>10. DecodeFrame(stream) = DecodeStuffed(SubSeq(stream, 2, n - 1))
      <3>1. ~ (Len(stream) < 4)
        BY <2>1, <2>5 DEF n
      <3> QED
        BY <2>5, <3>1 DEF DecodeFrame, n
    <2> QED
      BY <2>9, <2>10
  <1>2. IInv => OneShotAgrees
    BY <1>1 DEF OneShotAgrees
  <1> QED
    BY StreamIsDivided, <1>2, PTL
================================================================================
