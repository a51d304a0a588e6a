------------------------------ MODULE Session_proofs ---------------------------
(***************************************************************************)
(* Recorded sessions. The session file: its lines are the writes that      *)
(* began one, wherever a write stopped, and a line reads as its datagram.  *)
(* The two passes over a session keep their types and their sums and give  *)
(* one verdict, and the report that implements them tells the same story   *)
(* in its third pass: on every session, of any length.                     *)
(***************************************************************************)
EXTENDS SessionReport, SessionFile, SequenceFacts, FunctionTheorems

----------------------------------------------------------------------------
(* The session file. Its lines are found character by character.           *)

Texts == Seq(Characters)
Splits == [lines : Seq(Texts), rest : Texts]

NoLines == [lines |-> << >>, rest |-> << >>]

AfterChar(split, c) ==
    IF c = LineEnd THEN [lines |-> Append(split.lines, split.rest), rest |-> << >>]
    ELSE [split EXCEPT !.rest = Append(@, c)]

Reads(read, text) ==
    /\ read[0] = NoLines
    /\ \A i \in 1..Len(text) : read[i] = AfterChar(read[i - 1], text[i])

LEMMA AfterCharType ==
    ASSUME NEW split \in Splits, NEW c \in Characters
    PROVE  AfterChar(split, c) \in Splits
  <1>1. split.lines \in Seq(Texts) /\ split.rest \in Texts /\ << >> \in Texts
    BY DEF Splits, Texts
  <1>2. Append(split.lines, split.rest) \in Seq(Texts)
    BY <1>1
  <1>3. Append(split.rest, c) \in Texts
    BY <1>1 DEF Texts
  <1>4. CASE c = LineEnd
    BY <1>1, <1>2, <1>4 DEF AfterChar, Splits
  <1>5. CASE c # LineEnd
    BY <1>1, <1>3, <1>5 DEF AfterChar, Splits
  <1> QED
    BY <1>4, <1>5

LEMMA SplitReads ==
    ASSUME NEW text \in Texts
    PROVE  \E read \in [0..Len(text) -> Splits] :
              Reads(read, text) /\ Split(text) = read[Len(text)]
  <1> DEFINE n == Len(text)
             Body(f) == [i \in 0..n |->
                           IF i = 0 THEN NoLines ELSE AfterChar(f[i - 1], text[i])]
             read == CHOOSE f : f = Body(f)
             Step == [ix \in (1..n) \X Splits |-> AfterChar(ix[2], text[ix[1]])]
  <1>1. n \in Nat /\ \A i \in 1..n : text[i] \in Characters
    BY DEF Texts
  <1>2. Split(text) = read[n]
    BY DEF Split, AfterChar, NoLines
  <1>3. NoLines \in Splits
    BY DEF NoLines, Splits, Texts
  <1>4. PICK g \in [0..n -> Splits] : Recurs(g, n, NoLines, Step)
    <2>1. Step \in [(1..n) \X Splits -> Splits]
      BY <1>1, AfterCharType
    <2> HIDE DEF Step, n
    <2> QED
      BY <1>1, <1>3, <2>1, Recursion, Zenon
  <1>5. Reads(g, text)
    <2>1. ASSUME NEW i \in 1..n PROVE g[i] = AfterChar(g[i - 1], text[i])
      <3>1. i - 1 \in 0..n
        BY <1>1
      <3>2. g[i] = Step[<<i, g[i - 1]>>] /\ g[i - 1] \in Splits
        BY <1>4, <3>1 DEF Recurs
      <3> QED
        BY <3>2
    <2> QED
      BY <1>4, <2>1 DEF Recurs, Reads
  <1>6. g = Body(g)
    <2>1. ASSUME NEW i \in 0..n
          PROVE  g[i] = IF i = 0 THEN NoLines ELSE AfterChar(g[i - 1], text[i])
      <3>1. CASE i = 0
        BY <1>5, <3>1 DEF Reads
      <3>2. CASE i # 0
        <4>1. i \in 1..n
          BY <1>1, <3>2
        <4> QED
          BY <1>5, <3>2, <4>1 DEF Reads
      <3> QED
        BY <3>1, <3>2
    <2> HIDE DEF n
    <2> QED
      BY <1>4, <2>1
  <1>7. read = Body(read)
    <2> HIDE DEF Body
    <2> QED
      BY <1>6
  <1>8. \A i \in 0..n : read[i] = IF i = 0 THEN NoLines ELSE AfterChar(read[i - 1], text[i])
    <2> HIDE DEF read, n
    <2> QED
      BY <1>7
  <1> HIDE DEF read, n, Body, Step
  <1>9. Reads(read, text)
    <2>1. 0 \in 0..n /\ \A i \in 1..n : i \in 0..n /\ i # 0
      BY <1>1
    <2> QED
      BY <1>8, <2>1 DEF Reads, n
  <1>10. read \in [0..n -> Splits]
    <2> DEFINE S == { i \in 0..n : read[i] = g[i] }
    <2>1. 0 \in S
      BY <1>1, <1>5, <1>9 DEF Reads
    <2>2. ASSUME NEW i \in 0..n - 1, i \in S PROVE i + 1 \in S
      <3>1. i + 1 \in 1..n /\ (i + 1) - 1 = i /\ i + 1 \in 0..n
        BY <1>1
      <3>2. read[i + 1] = AfterChar(read[i], text[i + 1])
        BY <1>9, <3>1 DEF Reads, n
      <3>3. g[i + 1] = AfterChar(g[i], text[i + 1])
        BY <1>5, <3>1 DEF Reads, n
      <3> QED
        BY <2>2, <3>1, <3>2, <3>3
    <2>3. 0..n \subseteq S
      <3> HIDE DEF S
      <3> QED
        BY <1>1, <2>1, <2>2, InductionUpTo
    <2>4. \A i \in 0..n : read[i] \in Splits
      BY <1>4, <2>3
    <2>5. read = [i \in 0..n |-> read[i]]
      <3>1. PICK x : x = Body(read)
        OBVIOUS
      <3>2. x = [i \in 0..n |-> x[i]]
        BY <3>1 DEF Body
      <3> QED
        BY <1>7, <3>1, <3>2
    <2> QED
      BY <2>4, <2>5
  <1> QED
    BY <1>2, <1>9, <1>10 DEF n

LEMMA SplitEmpty == Split(<< >>) = NoLines
  <1>1. << >> \in Texts /\ Len(<< >>) = 0
    BY DEF Texts
  <1> QED
    BY <1>1, SplitReads DEF Reads

(* One more character. *)
LEMMA SplitAppend ==
    ASSUME NEW text \in Texts, NEW c \in Characters
    PROVE  /\ Split(text) \in Splits
           /\ Split(Append(text, c)) = AfterChar(Split(text), c)
  <1> DEFINE n == Len(text)
             more == Append(text, c)
  <1>1. /\ n \in Nat /\ more \in Texts /\ Len(more) = n + 1
        /\ more[n + 1] = c /\ \A i \in 1..n : more[i] = text[i]
    BY DEF Texts
  <1>2. PICK f \in [0..n -> Splits] : Reads(f, text) /\ Split(text) = f[n]
    BY SplitReads
  <1>3. PICK g \in [0..n + 1 -> Splits] : Reads(g, more) /\ Split(more) = g[n + 1]
    <2> HIDE DEF more
    <2> QED
      BY <1>1, SplitReads
  <1> DEFINE S == { i \in 0..n : f[i] = g[i] }
  <1> HIDE DEF n, more
  <1>4. 0 \in S
    BY <1>1, <1>2, <1>3 DEF Reads
  <1>5. ASSUME NEW i \in 0..n - 1, i \in S PROVE i + 1 \in S
    <2>1. /\ i + 1 \in 1..n /\ i + 1 \in 1..n + 1 /\ (i + 1) - 1 = i /\ i + 1 \in 0..n
      BY <1>1
    <2>2. f[i + 1] = AfterChar(f[i], text[i + 1])
      BY <1>2, <2>1 DEF Reads, n
    <2>3. g[i + 1] = AfterChar(g[i], more[i + 1])
      BY <1>1, <1>3, <2>1 DEF Reads
    <2> QED
      BY <1>1, <1>5, <2>1, <2>2, <2>3
  <1>6. 0..n \subseteq S
    <2> HIDE DEF S
    <2> QED
      BY <1>1, <1>4, <1>5, InductionUpTo
  <1>7. f[n] = g[n] /\ n \in 0..n
    BY <1>1, <1>6
  <1>8. g[n + 1] = AfterChar(g[n], c)
    <2>1. n + 1 \in 1..n + 1 /\ (n + 1) - 1 = n
      BY <1>1
    <2> QED
      BY <1>1, <1>3, <2>1 DEF Reads
  <1> QED
    BY <1>2, <1>3, <1>7, <1>8 DEF more

----------------------------------------------------------------------------
(* Text without line ends goes on with the line it comes to.               *)

Plain == Characters \ {LineEnd}

LEMMA PlainTexts ==
    /\ Seq(Plain) \subseteq Texts /\ Seq(Digits) \subseteq Seq(Plain)
    /\ LineEnd \in Characters /\ At \in Plain /\ Blank \in Plain
  <1>1. Plain \subseteq Characters /\ Digits \subseteq Plain
    BY DigitsAssumption DEF Plain, Marks, Characters
  <1>2. LineEnd \in Characters /\ At \in Characters /\ Blank \in Characters
    BY DEF Characters, Marks
  <1>3. At # LineEnd /\ Blank # LineEnd
    BY DEF LineEnd, At, Blank
  <1>4. Seq(Plain) \subseteq Seq(Characters) /\ Seq(Digits) \subseteq Seq(Plain)
    BY <1>1, SeqMonotonic, Zenon
  <1> QED
    BY <1>2, <1>3, <1>4 DEF Texts, Plain

LEMMA SplitGoesOn ==
    ASSUME NEW s \in Texts, NEW t \in Seq(Plain)
    PROVE  Split(s \o t) = [lines |-> Split(s).lines, rest |-> Split(s).rest \o t]
  <1> DEFINE Goal(u) == [lines |-> Split(s).lines, rest |-> Split(s).rest \o u]
             S == { u \in Seq(Plain) : Split(s \o u) = Goal(u) }
  <1>1. Split(s) \in Splits /\ Split(s).rest \in Texts
    <2>1. LineEnd \in Characters
      BY PlainTexts
    <2>2. Split(s) \in Splits
      BY <2>1, SplitAppend
    <2> QED
      BY <2>2 DEF Splits
  <1>2. << >> \in S
    <2>1. s \o << >> = s /\ Split(s).rest \o << >> = Split(s).rest
      BY <1>1 DEF Texts
    <2>2. Split(s) = [lines |-> Split(s).lines, rest |-> Split(s).rest]
      BY <1>1 DEF Splits
    <2>3. Split(s \o << >>) = Goal(<< >>)
      BY <2>1, <2>2, Zenon
    <2>4. << >> \in Seq(Plain)
      BY EmptySeq, Zenon
    <2> QED
      BY <2>3, <2>4
  <1>3. ASSUME NEW u \in Seq(Plain), NEW c \in Plain, u \in S
        PROVE  Append(u, c) \in S
    <2>1. c # LineEnd /\ c \in Characters /\ u \in Texts
      BY PlainTexts DEF Plain
    <2>2. s \o u \in Texts /\ s \o Append(u, c) = Append(s \o u, c)
      BY <2>1 DEF Texts
    <2>3. Split(Append(s \o u, c)) = AfterChar(Split(s \o u), c)
      BY <2>1, <2>2, SplitAppend
    <2>4. Split(s).rest \o Append(u, c) = Append(Split(s).rest \o u, c)
      <3> PICK r : r = Split(s).rest
        OBVIOUS
      <3>1. r \in Seq(Characters) /\ u \in Seq(Characters)
        BY <1>1, <2>1 DEF Texts
      <3>2. r \o Append(u, c) = Append(r \o u, c)
        BY ONLY <2>1, <3>1
      <3> QED
        BY <3>2
    <2>5. Split(s \o u) = Goal(u)
      BY <1>3
    <2>6. AfterChar(Goal(u), c) = Goal(Append(u, c))
      BY <2>1, <2>4 DEF AfterChar
    <2>7. Append(u, c) \in Seq(Plain)
      OBVIOUS
    <2> QED
      BY <2>2, <2>3, <2>5, <2>6, <2>7
  <1>4. Seq(Plain) \subseteq S
    <2> HIDE DEF S
    <2> QED
      BY <1>2, <1>3, SequenceInduction
  <1> QED
    BY <1>4

(* A line written to its end. *)
LEMMA SplitLine ==
    ASSUME NEW s \in Texts, NEW t \in Seq(Plain)
    PROVE  Split(s \o (t \o <<LineEnd>>)) =
             [lines |-> Append(Split(s).lines, Split(s).rest \o t), rest |-> << >>]
  <1>1. t \in Texts /\ LineEnd \in Characters
    BY PlainTexts
  <1>2. s \o t \in Texts /\ s \o (t \o <<LineEnd>>) = Append(s \o t, LineEnd)
    <2> PICK e : e = LineEnd
      OBVIOUS
    <2>1. s \in Seq(Characters) /\ t \in Seq(Characters) /\ e \in Characters
      BY <1>1 DEF Texts
    <2>2. s \o t \in Seq(Characters) /\ s \o (t \o <<e>>) = Append(s \o t, e)
      BY ONLY <2>1, ConcatSimplifications
    <2> QED
      BY <2>2 DEF Texts
  <1>3. Split(Append(s \o t, LineEnd)) = AfterChar(Split(s \o t), LineEnd)
    BY <1>1, <1>2, SplitAppend
  <1>4. AfterChar(Split(s \o t), LineEnd) =
          [lines |-> Append(Split(s \o t).lines, Split(s \o t).rest), rest |-> << >>]
    BY Zenon DEF AfterChar
  <1>5. Split(s \o t) = [lines |-> Split(s).lines, rest |-> Split(s).rest \o t]
    BY SplitGoesOn
  <1>6. Split(s \o t).lines = Split(s).lines /\ Split(s \o t).rest = Split(s).rest \o t
    BY <1>5
  <1> QED
    BY <1>2, <1>3, <1>4, <1>6, Zenon

----------------------------------------------------------------------------
(* Hex digits *)

LEMMA HexIsDigits ==
    ASSUME NEW b \in DOMAIN Hex
    PROVE  Hex[b] \in Seq(Digits) /\ Len(Hex[b]) = 2
  BY HexAssumption

LEMMA HexNone == HexOf(<< >>) = << >>
  BY FlattenEmpty DEF HexOf

LEMMA HexAppend ==
    ASSUME NEW bytes \in Seq(DOMAIN Hex), NEW b \in DOMAIN Hex
    PROVE  /\ HexOf(bytes) \in Seq(Digits)
           /\ HexOf(Append(bytes, b)) = HexOf(bytes) \o Hex[b]
  <1> DEFINE n == Len(bytes)
             old == [i \in 1..n |-> Hex[bytes[i]]]
             more == Append(bytes, b)
             new == [i \in 1..n + 1 |-> Hex[more[i]]]
  <1>1. /\ n \in Nat /\ DOMAIN bytes = 1..n /\ DOMAIN more = 1..n + 1
        /\ \A i \in 1..n : bytes[i] \in DOMAIN Hex /\ more[i] = bytes[i]
        /\ more[n + 1] = b
    OBVIOUS
  <1> HIDE DEF n, more
  <1>2. old \in Seq(Seq(Digits)) /\ Len(old) = n
    BY <1>1, HexIsDigits
  <1>3. new = Append(old, Hex[b])
    <2>1. Append(old, Hex[b]) = [i \in 1..n + 1 |-> IF i = n + 1 THEN Hex[b] ELSE old[i]]
      BY <1>1, <1>2, HexIsDigits
    <2>2. \A i \in 1..n + 1 : Hex[more[i]] = IF i = n + 1 THEN Hex[b] ELSE old[i]
      BY <1>1
    <2> HIDE DEF old
    <2> QED
      BY <2>1, <2>2
  <1>4. HexOf(bytes) = FlattenSeq(old) /\ HexOf(more) = FlattenSeq(new)
    BY <1>1 DEF HexOf
  <1> HIDE DEF old, new
  <1> QED
    BY <1>2, <1>3, <1>4, HexIsDigits, FlattenType, FlattenAppend DEF more

(* Two digits for each byte, in order. *)
HexPairs(hex, bytes) ==
    /\ hex \in Seq(Digits) /\ Len(hex) = 2 * Len(bytes)
    /\ \A i \in 1..Len(bytes) : <<hex[2 * i - 1], hex[2 * i]>> = Hex[bytes[i]]

LEMMA PairIs ==
    ASSUME NEW pair \in Seq(Digits), Len(pair) = 2
    PROVE  <<pair[1], pair[2]>> = pair
  OBVIOUS

LEMMA AfterPair ==
    ASSUME NEW s \in Seq(Digits), NEW t \in Seq(Digits), NEW m \in Nat,
           Len(s) = m, Len(t) = 2
    PROVE  /\ s \o t \in Seq(Digits) /\ Len(s \o t) = m + 2
           /\ \A j \in 1..m : (s \o t)[j] = s[j]
           /\ (s \o t)[m + 1] = t[1] /\ (s \o t)[m + 2] = t[2]
  <1>1. /\ s \o t \in Seq(Digits) /\ Len(s \o t) = Len(s) + Len(t)
        /\ \A i \in 1..Len(s) + Len(t) :
             (s \o t)[i] = IF i <= Len(s) THEN s[i] ELSE t[i - Len(s)]
    BY ONLY s \in Seq(Digits), t \in Seq(Digits), ConcatProperties
  <1> QED
    BY <1>1

LEMMA HexGrows ==
    ASSUME NEW bytes \in Seq(DOMAIN Hex), NEW b \in DOMAIN Hex,
           NEW hex, HexPairs(hex, bytes)
    PROVE  HexPairs(hex \o Hex[b], Append(bytes, b))
  <1> DEFINE n == Len(bytes)
             pair == Hex[b]
             longer == hex \o pair
             more == Append(bytes, b)
  <1>1. /\ n \in Nat /\ Len(more) = n + 1 /\ more[n + 1] = b
        /\ \A i \in 1..n : more[i] = bytes[i]
    OBVIOUS
  <1>2. pair \in Seq(Digits) /\ Len(pair) = 2 /\ <<pair[1], pair[2]>> = pair
    BY HexIsDigits, PairIs
  <1>3. hex \in Seq(Digits) /\ Len(hex) = 2 * n
    BY DEF HexPairs
  <1>4. /\ longer \in Seq(Digits) /\ Len(longer) = 2 * n + 2
        /\ \A j \in 1..2 * n : longer[j] = hex[j]
        /\ longer[2 * n + 1] = pair[1] /\ longer[2 * n + 2] = pair[2]
    <2>1. 2 * n \in Nat
      BY <1>1
    <2> HIDE DEF n, pair
    <2> QED
      BY <1>2, <1>3, <2>1, AfterPair
  <1>5. ASSUME NEW i \in 1..n + 1
        PROVE  <<longer[2 * i - 1], longer[2 * i]>> = Hex[more[i]]
    <2> HIDE DEF n, pair, longer, more
    <2>1. CASE i = n + 1
      <3>1. 2 * i - 1 = 2 * n + 1 /\ 2 * i = 2 * n + 2
        BY <1>1, <2>1
      <3> QED
        BY <1>1, <1>2, <1>4, <2>1, <3>1, Zenon DEF pair
    <2>2. CASE i # n + 1
      <3>1. i \in 1..n /\ 2 * i - 1 \in 1..2 * n /\ 2 * i \in 1..2 * n
        BY <1>1, <2>2
      <3>2. longer[2 * i - 1] = hex[2 * i - 1] /\ longer[2 * i] = hex[2 * i]
        BY <1>4, <3>1, Zenon
      <3>3. <<hex[2 * i - 1], hex[2 * i]>> = Hex[bytes[i]]
        BY <3>1 DEF HexPairs, n
      <3> QED
        BY <1>1, <3>1, <3>2, <3>3, Zenon
    <2> QED
      BY <2>1, <2>2
  <1>6. 2 * n + 2 = 2 * (n + 1)
    BY <1>1
  <1> QED
    BY <1>1, <1>4, <1>5, <1>6 DEF HexPairs

LEMMA HexShape ==
    ASSUME NEW bytes \in Seq(DOMAIN Hex)
    PROVE  HexPairs(HexOf(bytes), bytes)
  <1> DEFINE S == { s \in Seq(DOMAIN Hex) : HexPairs(HexOf(s), s) }
  <1>1. << >> \in S
    <2>1. HexPairs(<< >>, << >>)
      BY DEF HexPairs
    <2> QED
      BY <2>1, HexNone
  <1>2. ASSUME NEW s \in Seq(DOMAIN Hex), NEW b \in DOMAIN Hex, s \in S
        PROVE  Append(s, b) \in S
    <2>1. HexPairs(HexOf(s) \o Hex[b], Append(s, b))
      BY <1>2, HexGrows
    <2>2. HexOf(Append(s, b)) = HexOf(s) \o Hex[b]
      BY HexAppend
    <2>3. Append(s, b) \in Seq(DOMAIN Hex)
      BY ONLY <1>2
    <2> QED
      BY <2>1, <2>2, <2>3
  <1>3. Seq(DOMAIN Hex) \subseteq S
    <2> HIDE DEF S
    <2> QED
      BY <1>1, <1>2, SequenceInduction
  <1> QED
    BY <1>3

(* No blank is taken out of digits. *)
LEMMA WithoutBlanksSame ==
    ASSUME NEW text \in Seq(Digits)
    PROVE  WithoutBlanks(text) = text
  <1> DEFINE n == Len(text)
             Body(f) == [i \in 0..n |->
                           IF i = 0 THEN << >>
                           ELSE IF text[i] = Blank THEN f[i - 1]
                                ELSE Append(f[i - 1], text[i])]
             kept == CHOOSE f : f = Body(f)
             g == [i \in 0..n |-> SubSeq(text, 1, i)]
  <1>1. n \in Nat /\ \A i \in 1..n : text[i] \in Digits /\ text[i] # Blank
    BY DigitsAssumption DEF Marks
  <1>2. WithoutBlanks(text) = kept[n]
    BY DEF WithoutBlanks
  <1>3. ASSUME NEW i \in 0..n
        PROVE  g[i] = IF i = 0 THEN << >>
                      ELSE IF text[i] = Blank THEN g[i - 1] ELSE Append(g[i - 1], text[i])
    <2>1. CASE i = 0
      BY <2>1
    <2>2. CASE i # 0
      <3>1. i \in 1..n /\ i - 1 \in 0..n
        BY <1>1, <2>2
      <3>2. SubSeq(text, 1, i) = Append(SubSeq(text, 1, i - 1), text[i])
        BY <1>1, <3>1
      <3> QED
        BY <1>1, <2>2, <3>1, <3>2
    <2> QED
      BY <2>1, <2>2
  <1>4. g = Body(g)
    <2>1. g = [i \in 0..n |-> g[i]]
      OBVIOUS
    <2> HIDE DEF g, n
    <2> QED
      BY <1>3, <2>1
  <1>5. kept = Body(kept)
    <2> HIDE DEF Body, g
    <2> QED
      BY <1>4
  <1>6. \A i \in 0..n : kept[i] = IF i = 0 THEN << >>
                      ELSE IF text[i] = Blank THEN kept[i - 1] ELSE Append(kept[i - 1], text[i])
    <2> HIDE DEF kept, n
    <2> QED
      BY <1>5
  <1> DEFINE S == { i \in 0..n : kept[i] = g[i] }
  <1> HIDE DEF kept, g, n, Body
  <1>7. 0 \in S
    BY <1>1, <1>3, <1>6
  <1>8. ASSUME NEW i \in 0..n - 1, i \in S PROVE i + 1 \in S
    <2>1. i + 1 \in 0..n /\ i + 1 # 0 /\ (i + 1) - 1 = i /\ i + 1 \in 1..n
      BY <1>1
    <2>2. kept[i + 1] = Append(kept[i], text[i + 1])
      BY <1>1, <1>6, <2>1
    <2>3. g[i + 1] = Append(g[i], text[i + 1])
      BY <1>1, <1>3, <2>1
    <2> QED
      BY <1>8, <2>1, <2>2, <2>3
  <1>9. 0..n \subseteq S
    <2> HIDE DEF S
    <2> QED
      BY <1>1, <1>7, <1>8, InductionUpTo
  <1>10. kept[n] = g[n]
    BY <1>1, <1>9
  <1>11. g[n] = text
    BY <1>1 DEF g, n
  <1> QED
    BY <1>2, <1>10, <1>11

LEMMA DecodeHexOf ==
    ASSUME NEW bytes \in Seq(DOMAIN Hex), bytes # << >>
    PROVE  DecodeHex(HexOf(bytes)) = Ok(bytes)
  <1> DEFINE n == Len(bytes)
             hex == HexOf(bytes)
  <1>1. /\ n \in Nat /\ n # 0
        /\ \A i \in 1..n : bytes[i] \in DOMAIN Hex
        /\ bytes = [i \in 1..n |-> bytes[i]]
    OBVIOUS
  <1>2. /\ hex \in Seq(Digits) /\ Len(hex) = 2 * n
        /\ \A i \in 1..n : <<hex[2 * i - 1], hex[2 * i]>> = Hex[bytes[i]]
    BY HexShape DEF HexPairs
  <1>3. WithoutBlanks(hex) = hex
    BY <1>2, WithoutBlanksSame
  <1> DEFINE Decoded(digits, k) ==
        IF digits = << >> \/ Len(digits) % 2 # 0 THEN Error
        ELSE IF \E i \in 1..k : \A b \in DOMAIN Hex :
                    Hex[b] # <<digits[2 * i - 1], digits[2 * i]>> THEN Error
        ELSE Ok([i \in 1..k |-> CHOOSE b \in DOMAIN Hex :
                                   Hex[b] = <<digits[2 * i - 1], digits[2 * i]>>])
  <1> HIDE DEF n, hex
  <1>4. hex # << >> /\ (2 * n) % 2 = 0 /\ (2 * n) \div 2 = n
    <2>1. (2 * n) % 2 = 0 /\ (2 * n) \div 2 = n /\ 2 * n # 0
      BY ONLY <1>1
    <2>2. hex # << >>
      BY <1>2, <2>1
    <2> QED
      BY <2>1, <2>2
  <1>5. \A i \in 1..n : (CHOOSE b \in DOMAIN Hex : Hex[b] = <<hex[2 * i - 1], hex[2 * i]>>) = bytes[i]
    <2> TAKE i \in 1..n
    <2>1. bytes[i] \in DOMAIN Hex /\ Hex[bytes[i]] = <<hex[2 * i - 1], hex[2 * i]>>
      BY <1>1, <1>2
    <2> DEFINE c == CHOOSE b \in DOMAIN Hex : Hex[b] = <<hex[2 * i - 1], hex[2 * i]>>
    <2>2. c \in DOMAIN Hex /\ Hex[c] = <<hex[2 * i - 1], hex[2 * i]>>
      BY <2>1, Zenon
    <2> QED
      BY <2>1, <2>2, HexAssumption, Zenon
  <1>6. ~ \E i \in 1..n : \A b \in DOMAIN Hex : Hex[b] # <<hex[2 * i - 1], hex[2 * i]>>
    BY <1>1, <1>2, Zenon
  <1>7. DecodeHex(hex) =
          Ok([i \in 1..n |-> CHOOSE b \in DOMAIN Hex :
                                 Hex[b] = <<hex[2 * i - 1], hex[2 * i]>>])
    <2>1. DecodeHex(hex) = Decoded(WithoutBlanks(hex), Len(WithoutBlanks(hex)) \div 2)
      BY Zenon DEF DecodeHex
    <2>2. Decoded(WithoutBlanks(hex), Len(WithoutBlanks(hex)) \div 2) = Decoded(hex, n)
      <3> HIDE DEF Decoded
      <3> QED
        BY <1>2, <1>3, <1>4, Zenon
    <2>3. Len(hex) % 2 = 0
      BY <1>2, <1>4, Zenon
    <2>4. Decoded(hex, n) =
            Ok([i \in 1..n |-> CHOOSE b \in DOMAIN Hex :
                                   Hex[b] = <<hex[2 * i - 1], hex[2 * i]>>])
      BY <1>4, <1>6, <2>3, SMT
    <2> HIDE DEF Decoded
    <2> QED
      BY <2>1, <2>2, <2>4, Zenon
  <1>8. [i \in 1..n |-> CHOOSE b \in DOMAIN Hex : Hex[b] = <<hex[2 * i - 1], hex[2 * i]>>]
          = [i \in 1..n |-> bytes[i]]
    BY <1>5, Zenon
  <1> QED
    BY <1>1, <1>7, <1>8 DEF hex

(* A text with no blank at its ends is not trimmed. *)
LEMMA TrimSame ==
    ASSUME NEW text \in Texts, text # << >>,
           text[1] # Blank, text[Len(text)] # Blank
    PROVE  Trim(text) = text
  <1> DEFINE n == Len(text)
             kept == { i \in DOMAIN text : text[i] # Blank }
  <1>1. n \in Nat /\ n # 0 /\ DOMAIN text = 1..n /\ SubSeq(text, 1, n) = text
    BY DEF Texts
  <1>2. 1 \in kept /\ n \in kept /\ \A i \in kept : i \in Int /\ 1 <= i /\ i <= n
    BY <1>1
  <1>3. Min(kept) = 1 /\ Max(kept) = n
    <2> HIDE DEF kept, n
    <2>1. \A x \in kept : (\A y \in kept : x <= y) => x = 1
      BY <1>1, <1>2
    <2>2. \A x \in kept : (\A y \in kept : x >= y) => x = n
      BY <1>1, <1>2
    <2>3. \E x \in kept : \A y \in kept : x <= y
      BY <1>1, <1>2
    <2>4. \E x \in kept : \A y \in kept : x >= y
      BY <1>1, <1>2
    <2> QED
      BY <2>1, <2>2, <2>3, <2>4, Zenon DEF Min, Max
  <1>4. kept # {}
    BY <1>2
  <1> QED
    BY <1>1, <1>3, <1>4, Zenon DEF Trim

(* Where digits stand in a line with a delay. *)
InPlace(text, dec, hex) ==
    /\ text \in Texts /\ Len(text) = Len(dec) + Len(hex) + 2
    /\ text[1] = At /\ text[Len(dec) + 2] = Blank
    /\ \A i \in 1..Len(dec) : text[i + 1] = dec[i]
    /\ \A i \in 1..Len(hex) : text[i + (Len(dec) + 2)] = hex[i]

LEMMA DelayedLine ==
    ASSUME NEW dec \in Seq(Digits), NEW hex \in Seq(Digits)
    PROVE  InPlace((<<At>> \o dec \o <<Blank>>) \o hex, dec, hex)
  <1> PICK m \in Nat, n \in Nat : Len(dec) = m /\ Len(hex) = n
    OBVIOUS
  <1> PICK text : text = (<<At>> \o dec \o <<Blank>>) \o hex
    OBVIOUS
  <1>1. Digits \subseteq Characters /\ At \in Characters /\ Blank \in Characters
    BY DEF Characters, Marks
  <1>2. dec \in Texts /\ hex \in Texts
    BY <1>1, SeqMonotonic, Zenon DEF Texts
  <1> DEFINE one == <<At>> \o dec
             two == one \o <<Blank>>
  <1>3. /\ one \in Texts /\ Len(one) = m + 1 /\ one[1] = At
        /\ \A i \in 1..m : one[i + 1] = dec[i]
    <2> PICK e : e = At
      OBVIOUS
    <2>1. e \in Characters /\ dec \in Seq(Characters) /\ Len(dec) = m /\ m \in Nat
      BY <1>1, <1>2 DEF Texts
    <2>2. /\ <<e>> \o dec \in Seq(Characters) /\ Len(<<e>> \o dec) = m + 1
          /\ (<<e>> \o dec)[1] = e /\ \A i \in 1..m : (<<e>> \o dec)[i + 1] = dec[i]
      BY ONLY <2>1
    <2> QED
      BY <2>2 DEF Texts
  <1> HIDE DEF one
  <1>4. /\ two \in Texts /\ Len(two) = m + 2 /\ two[m + 2] = Blank
        /\ \A i \in 1..m + 1 : two[i] = one[i]
    <2> PICK e : e = Blank
      OBVIOUS
    <2>1. e \in Characters /\ one \in Seq(Characters) /\ Len(one) = m + 1 /\ m \in Nat
      BY <1>1, <1>3 DEF Texts
    <2>2. /\ one \o <<e>> \in Seq(Characters) /\ Len(one \o <<e>>) = m + 2
          /\ (one \o <<e>>)[m + 2] = e /\ \A i \in 1..m + 1 : (one \o <<e>>)[i] = one[i]
      BY ONLY <2>1
    <2> QED
      BY <2>2 DEF Texts
  <1>5. text = two \o hex
    BY DEF one
  <1> HIDE DEF two
  <1>6. /\ text \in Texts /\ Len(text) = m + 2 + n
        /\ \A i \in 1..m + 2 : text[i] = two[i]
        /\ \A i \in 1..n : text[i + (m + 2)] = hex[i]
    <2> PICK k \in Nat : k = m + 2
      OBVIOUS
    <2>1. two \in Seq(Characters) /\ hex \in Seq(Characters) /\ Len(two) = k /\ k \in Nat
      BY <1>2, <1>4 DEF Texts
    <2>2. /\ two \o hex \in Seq(Characters) /\ Len(two \o hex) = k + n
          /\ \A i \in 1..k : (two \o hex)[i] = two[i]
          /\ \A i \in 1..n : (two \o hex)[i + k] = hex[i]
      BY ONLY <2>1, n \in Nat, Len(hex) = n
    <2> QED
      BY <1>5, <2>2 DEF Texts
  <1>7. Len(text) = m + n + 2 /\ text[1] = At /\ text[m + 2] = Blank
    <2>1. 1 \in 1..m + 2 /\ 1 \in 1..m + 1 /\ m + 2 \in 1..m + 2 /\ m + 2 + n = m + n + 2
      OBVIOUS
    <2> QED
      BY <1>3, <1>4, <1>6, <2>1, Zenon
  <1>8. \A i \in 1..m : text[i + 1] = dec[i]
    <2> TAKE i \in 1..m
    <2>1. i + 1 \in 1..m + 1 /\ i + 1 \in 1..m + 2
      OBVIOUS
    <2> QED
      BY <1>3, <1>4, <1>6, <2>1, Zenon
  <1> QED
    BY <1>6, <1>7, <1>8 DEF InPlace

LEMMA EqualSequences ==
    ASSUME NEW s \in Seq(Digits), NEW n \in Nat, Len(s) = n, NEW t \in Texts, NEW k \in Nat,
           k + n <= Len(t), \A i \in 1..n : t[i + k] = s[i]
    PROVE  SubSeq(t, k + 1, k + n) = s
  <1>1. t \in Seq(Characters)
    BY DEF Texts
  <1>2. s = [i \in 1..n |-> s[i]]
    OBVIOUS
  <1>3. SubSeq(t, k + 1, k + n) = [i \in 1..n |-> t[i + k]]
    <2>1. (k + n) - (k + 1) + 1 = n /\ \A i \in 1..n : i + (k + 1) - 1 = i + k
      OBVIOUS
    <2> QED
      BY <1>1, <2>1
  <1> QED
    BY <1>2, <1>3

RecordOf(delay, hex) ==
    IF delay.ok /\ DecodeHex(hex).ok
      THEN Ok(<<[delay |-> delay.value, bytes |-> DecodeHex(hex).value]>>)
      ELSE Error

LEMMA RecordIs ==
    ASSUME NEW v, NEW bytes \in Seq(DOMAIN Hex), bytes # << >>
    PROVE  RecordOf(Ok(v), HexOf(bytes)) = Ok(<<[delay |-> v, bytes |-> bytes]>>)
  <1>1. DecodeHex(HexOf(bytes)) = Ok(bytes)
    BY DecodeHexOf
  <1>2. /\ Ok(v).ok /\ Ok(v).value = v
        /\ DecodeHex(HexOf(bytes)).ok /\ DecodeHex(HexOf(bytes)).value = bytes
    BY <1>1 DEF Ok
  <1> QED
    BY <1>2, Zenon DEF RecordOf

LEMMA ParseUndelayed ==
    ASSUME NEW line, Trim(line) # << >>, Trim(line)[1] # At
    PROVE  ParseLine(line) = RecordOf(Ok(Undelayed), Trim(line))
  <1> PICK text : text = Trim(line)
    OBVIOUS
  <1> QED
    BY Zenon DEF ParseLine, RecordOf

LEMMA ParseDelayed ==
    ASSUME NEW line, NEW k \in Nat, Trim(line) # << >>, Trim(line)[1] = At,
           { i \in DOMAIN Trim(line) : Trim(line)[i] = Blank } = {k}
    PROVE  ParseLine(line) = RecordOf(DelayOf(SubSeq(Trim(line), 2, k - 1)),
                                      SubSeq(Trim(line), k + 1, Len(Trim(line))))
  <1>1. Min({k}) = k
    <2>1. \A x : x \in {k} <=> x = k
      OBVIOUS
    <2>2. k <= k
      OBVIOUS
    <2> QED
      BY <2>1, <2>2, Zenon DEF Min
  <1> DEFINE Parsed(text, blanks) ==
        IF text = << >> THEN Nothing
        ELSE IF text[1] # At THEN RecordOf(Ok(Undelayed), text)
        ELSE IF blanks = {} THEN Error
        ELSE RecordOf(DelayOf(SubSeq(text, 2, Min(blanks) - 1)),
                      SubSeq(text, Min(blanks) + 1, Len(text)))
  <1>2. ParseLine(line) =
          Parsed(Trim(line), { i \in DOMAIN Trim(line) : Trim(line)[i] = Blank })
    BY Zenon DEF ParseLine, RecordOf
  <1>3. Parsed(Trim(line), { i \in DOMAIN Trim(line) : Trim(line)[i] = Blank })
          = Parsed(Trim(line), {k})
    <2> HIDE DEF Parsed
    <2> QED
      BY Zenon
  <1>4. {k} # {}
    OBVIOUS
  <1>5. Parsed(Trim(line), {k}) =
          RecordOf(DelayOf(SubSeq(Trim(line), 2, k - 1)),
                   SubSeq(Trim(line), k + 1, Len(Trim(line))))
    BY <1>1, <1>4, Zenon
  <1> HIDE DEF Parsed
  <1> QED
    BY <1>2, <1>3, <1>5, Zenon

LEMMA DelayRead ==
    ASSUME NEW d \in DOMAIN Decimal
    PROVE  DelayOf(Decimal[d]) = Ok(d)
  <1>1. (CHOOSE c \in DOMAIN Decimal : Decimal[c] = Decimal[d]) = d
    BY DecimalAssumption, Zenon
  <1> QED
    BY <1>1, Zenon DEF DelayOf

LEMMA HexTexts ==
    ASSUME NEW bytes \in Seq(DOMAIN Hex), bytes # << >>
    PROVE  /\ HexOf(bytes) \in Seq(Digits) /\ HexOf(bytes) \in Texts
           /\ HexOf(bytes) # << >> /\ Len(HexOf(bytes)) \in Nat \ {0}
  <1>1. HexOf(bytes) \in Seq(Digits) /\ Len(HexOf(bytes)) = 2 * Len(bytes)
    BY HexShape DEF HexPairs
  <1>2. Len(bytes) \in Nat /\ Len(bytes) # 0
    OBVIOUS
  <1>3. Len(HexOf(bytes)) \in Nat \ {0}
    BY ONLY <1>1, <1>2
  <1>4. HexOf(bytes) \in Texts
    BY <1>1, PlainTexts, Zenon
  <1>5. HexOf(bytes) # << >>
    BY <1>1, <1>3
  <1> QED
    BY <1>1, <1>3, <1>4, <1>5

LEMMA DigitIsNoMark ==
    ASSUME NEW s \in Seq(Digits), NEW i \in 1..Len(s)
    PROVE  s[i] # At /\ s[i] # Blank /\ s[i] # LineEnd
  BY DigitsAssumption DEF Marks

(* A datagram's line is read as the datagram. *)
LEMMA LineParses ==
    ASSUME NEW d \in Datagrams, Stored(d)
    PROVE  ParseLine(ToLine(d)) = Ok(<<d>>)
  <1> DEFINE hex == HexOf(d.bytes)
             n == Len(hex)
  <1>1. /\ d.bytes \in Seq(DOMAIN Hex) /\ d.bytes # << >>
        /\ d.delay \in DOMAIN Decimal \cup {Undelayed}
        /\ d = [delay |-> d.delay, bytes |-> d.bytes]
    BY DatagramsAssumption DEF Stored
  <1>2. hex \in Seq(Digits) /\ hex \in Texts /\ hex # << >> /\ n \in Nat \ {0}
    BY <1>1, HexTexts
  <1>3. RecordOf(Ok(d.delay), hex) = Ok(<<d>>)
    BY <1>1, RecordIs, Zenon
  <1> HIDE DEF hex
  <1>4. CASE d.delay = Undelayed
    <2>1. ToLine(d) = hex
      BY <1>2, <1>4 DEF ToLine, hex
    <2>2. 1 \in 1..Len(hex) /\ Len(hex) \in 1..Len(hex)
      BY <1>2
    <2>3. Trim(hex) = hex /\ hex[1] # At
      BY <1>2, <2>2, DigitIsNoMark, TrimSame
    <2>4. ParseLine(hex) = RecordOf(Ok(Undelayed), hex)
      BY <1>2, <2>3, ParseUndelayed
    <2> QED
      BY <1>3, <1>4, <2>1, <2>4
  <1>5. CASE d.delay \in DOMAIN Decimal
    <2> DEFINE dec == Decimal[d.delay]
               m == Len(dec)
    <2>1. dec \in Seq(Digits) /\ m \in Nat
      BY <1>5, DecimalAssumption
    <2>2. d.delay # Undelayed
      BY <1>5, DecimalAssumption
    <2> HIDE DEF dec
    <2> PICK text : text = ToLine(d)
      OBVIOUS
    <2>3. text = (<<At>> \o dec \o <<Blank>>) \o hex
      BY <2>2, Zenon DEF ToLine, hex, dec
    <2>4. /\ text \in Texts /\ Len(text) = m + n + 2
          /\ text[1] = At /\ text[m + 2] = Blank
          /\ \A i \in 1..m : text[i + 1] = dec[i]
          /\ \A i \in 1..n : text[i + (m + 2)] = hex[i]
      <3>1. InPlace((<<At>> \o dec \o <<Blank>>) \o hex, dec, hex)
        BY <1>2, <2>1, DelayedLine, Zenon
      <3> QED
        BY <2>3, <3>1 DEF InPlace
    <2>5. /\ text # << >> /\ DOMAIN text = 1..m + n + 2
      BY <1>2, <2>1, <2>4 DEF Texts
    <2>6. Trim(text) = text
      <3>1. At # Blank
        BY DEF At, Blank
      <3>2. n \in 1..n /\ n + (m + 2) = m + n + 2
        BY <1>2, <2>1
      <3>3. text[Len(text)] = hex[n]
        BY <2>4, <3>2
      <3>4. hex[n] # Blank
        BY <1>2, <3>2, DigitIsNoMark
      <3> QED
        BY <2>4, <2>5, <3>1, <3>3, <3>4, TrimSame
    <2>7. { i \in DOMAIN text : text[i] = Blank } = {m + 2}
      <3>1. At # Blank
        BY DEF At, Blank
      <3>2. ASSUME NEW i \in 1..m + n + 2, text[i] = Blank, i # m + 2 PROVE FALSE
        <4>1. CASE i = 1
          BY <2>4, <3>1, <3>2, <4>1
        <4>2. CASE i - 1 \in 1..m
          <5>1. text[(i - 1) + 1] = dec[i - 1] /\ (i - 1) + 1 = i
            BY <2>4, <4>2
          <5> QED
            BY <2>1, <3>2, <4>2, <5>1, DigitIsNoMark
        <4>3. CASE i - (m + 2) \in 1..n
          <5>1. text[(i - (m + 2)) + (m + 2)] = hex[i - (m + 2)] /\ (i - (m + 2)) + (m + 2) = i
            BY <2>1, <2>4, <4>3
          <5> QED
            BY <1>2, <3>2, <4>3, <5>1, DigitIsNoMark
        <4> QED
          BY <1>2, <2>1, <3>2, <4>1, <4>2, <4>3
      <3>3. m + 2 \in 1..m + n + 2
        BY <1>2, <2>1
      <3> QED
        BY <2>4, <2>5, <3>2, <3>3
    <2>8. SubSeq(text, 2, (m + 2) - 1) = dec
      <3>1. SubSeq(text, 1 + 1, 1 + m) = dec
        <4>1. 1 + m <= Len(text)
          BY <1>2, <2>1, <2>4
        <4> QED
          BY <2>1, <2>4, <4>1, EqualSequences
      <3>2. (m + 2) - 1 = 1 + m /\ 1 + 1 = 2
        BY <2>1
      <3> QED
        BY <3>1, <3>2
    <2>9. SubSeq(text, (m + 2) + 1, Len(text)) = hex
      <3>1. (m + 2) + n <= Len(text) /\ (m + 2) + n = Len(text) /\ m + 2 \in Nat
        BY <1>2, <2>1, <2>4
      <3>2. SubSeq(text, (m + 2) + 1, (m + 2) + n) = hex
        BY <1>2, <2>4, <3>1, EqualSequences
      <3> QED
        BY <3>1, <3>2
    <2>10. ParseLine(text) = RecordOf(DelayOf(dec), hex)
      <3>1. m + 2 \in Nat
        BY <2>1
      <3> QED
        BY <2>4, <2>5, <2>6, <2>7, <2>8, <2>9, <3>1, ParseDelayed
    <2>11. DelayOf(dec) = Ok(d.delay)
      BY <1>5, DelayRead DEF dec
    <2> QED
      BY <1>3, <2>10, <2>11
  <1> QED
    BY <1>1, <1>4, <1>5

LEMMA FlattenSingles ==
    ASSUME NEW T, NEW s \in Seq(T)
    PROVE  FlattenSeq([i \in DOMAIN s |-> <<s[i]>>]) = s
  <1> DEFINE Singles(t) == [i \in DOMAIN t |-> <<t[i]>>]
             S == { t \in Seq(T) : FlattenSeq(Singles(t)) = t }
  <1>1. << >> \in S
    <2>1. Singles(<< >>) = << >> /\ << >> \in Seq(T)
      OBVIOUS
    <2> QED
      BY <2>1, FlattenEmpty
  <1>2. ASSUME NEW t \in Seq(T), NEW e \in T, t \in S
        PROVE  Append(t, e) \in S
    <2>1. Singles(t) \in Seq(Seq(T)) /\ <<e>> \in Seq(T) /\ Append(t, e) \in Seq(T)
      <3>1. \A i \in 1..Len(t) : <<t[i]>> \in Seq(T)
        OBVIOUS
      <3>2. Singles(t) \in [1..Len(t) -> Seq(T)] /\ Len(t) \in Nat
        BY <3>1
      <3>3. Singles(t) \in Seq(Seq(T))
        <4> HIDE DEF Singles
        <4> QED
          BY <3>2
      <3>4. <<e>> \in Seq(T) /\ Append(t, e) \in Seq(T)
        OBVIOUS
      <3> QED
        BY <3>3, <3>4
    <2>2. Singles(Append(t, e)) = Append(Singles(t), <<e>>)
      OBVIOUS
    <2>3. FlattenSeq(Append(Singles(t), <<e>>)) = FlattenSeq(Singles(t)) \o <<e>>
      <3> HIDE DEF Singles
      <3> QED
        BY <2>1, FlattenAppend
    <2>4. t \o <<e>> = Append(t, e)
      OBVIOUS
    <2> QED
      BY <1>2, <2>1, <2>2, <2>3, <2>4
  <1>3. Seq(T) \subseteq S
    <2> HIDE DEF S
    <2> QED
      BY <1>1, <1>2, SequenceInduction
  <1> QED
    BY <1>3

----------------------------------------------------------------------------
(* What the file says of the log. The writes that begin a line are its      *)
(* lines; the last line is open if the last write stopped.                  *)

Entries == [datagram : Datagrams, whole : BOOLEAN]
StartsOf(lg) == { i \in DOMAIN lg : i > 1 => lg[i - 1].whole }
LineOf(lg, i) == Cardinality({ j \in StartsOf(lg) : j <= i })
OpenAfter(lg) == Len(lg) > 0 /\ ~ lg[Len(lg)].whole

Tells(text, lg) ==
    /\ text \in Texts /\ lg \in Seq(Entries)
    /\ Split(text).rest # << >> <=> OpenAfter(lg)
    /\ Cardinality(StartsOf(lg)) =
         Len(Split(text).lines) + (IF OpenAfter(lg) THEN 1 ELSE 0)
    /\ \A i \in StartsOf(lg) :
         lg[i].whole =>
           /\ LineOf(lg, i) \in 1..Len(Split(text).lines)
           /\ Split(text).lines[LineOf(lg, i)] = ToLine(lg[i].datagram)

LEMMA NothingTells == Tells(<< >>, << >>)
  <1>1. StartsOf(<< >>) = {} /\ ~ OpenAfter(<< >>)
    BY DEF StartsOf, OpenAfter
  <1>2. Cardinality(StartsOf(<< >>)) = 0
    BY <1>1, FS_EmptySet
  <1>3. << >> \in Texts /\ << >> \in Seq(Entries)
    BY DEF Texts
  <1> QED
    BY <1>1, <1>2, <1>3, SplitEmpty DEF Tells, NoLines

(* One more write. *)
LEMMA StartsGrow ==
    ASSUME NEW lg \in Seq(Entries), NEW e \in Entries
    PROVE  LET n == Len(lg)
               more == Append(lg, e)
           IN  /\ StartsOf(more) =
                    StartsOf(lg) \cup (IF OpenAfter(lg) THEN {} ELSE {n + 1})
               /\ Cardinality(StartsOf(lg)) \in Nat
               /\ Cardinality(StartsOf(more)) =
                    Cardinality(StartsOf(lg)) + (IF OpenAfter(lg) THEN 0 ELSE 1)
               /\ \A i \in StartsOf(lg) :
                    i \in 1..n /\ more[i] = lg[i] /\ LineOf(more, i) = LineOf(lg, i)
               /\ LineOf(more, n + 1) = Cardinality(StartsOf(more))
               /\ more \in Seq(Entries) /\ more[n + 1] = e
               /\ OpenAfter(more) <=> ~ e.whole
  <1> DEFINE n == Len(lg)
             more == Append(lg, e)
             old == StartsOf(lg)
             new == StartsOf(more)
  <1>1. /\ n \in Nat /\ DOMAIN lg = 1..n /\ DOMAIN more = 1..n + 1 /\ Len(more) = n + 1
        /\ more[n + 1] = e /\ more \in Seq(Entries)
        /\ \A i \in 1..n : more[i] = lg[i]
    OBVIOUS
  <1>2. OpenAfter(lg) <=> n > 0 /\ ~ lg[n].whole
    BY DEF OpenAfter
  <1>3. OpenAfter(more) <=> ~ e.whole
    BY <1>1 DEF OpenAfter
  <1> HIDE DEF n, more
  <1>4. old = { i \in 1..n : i > 1 => lg[i - 1].whole }
    BY <1>1 DEF StartsOf
  <1>5. new = { i \in 1..n + 1 : i > 1 => more[i - 1].whole }
    BY <1>1 DEF StartsOf
  <1> HIDE DEF old, new
  <1>6. \A i \in 1..n : i \in new <=> i \in old
    <2> TAKE i \in 1..n
    <2>1. i > 1 => more[i - 1] = lg[i - 1]
      BY <1>1
    <2> QED
      BY <1>1, <1>4, <1>5, <2>1
  <1>7. n + 1 \in new <=> ~ OpenAfter(lg)
    <2>1. n + 1 \in 1..n + 1 /\ (n + 1) - 1 = n /\ (n + 1 > 1 <=> n > 0)
      BY <1>1
    <2>2. n > 0 => more[n] = lg[n]
      BY <1>1
    <2> QED
      BY <1>1, <1>2, <1>5, <2>1, <2>2
  <1>8. new = old \cup (IF OpenAfter(lg) THEN {} ELSE {n + 1})
    <2>1. \A i \in 1..n + 1 : i \in 1..n \/ i = n + 1
      BY <1>1
    <2>2. old \subseteq 1..n /\ new \subseteq 1..n + 1 /\ n + 1 \notin 1..n
      BY <1>1, <1>4, <1>5
    <2> QED
      BY <1>6, <1>7, <2>1, <2>2
  <1>9. IsFiniteSet(old) /\ Cardinality(old) \in Nat
    <2>1. IsFiniteSet(1..n) /\ old \subseteq 1..n
      BY <1>1, <1>4, FS_Interval
    <2> QED
      BY <2>1, FS_Subset, FS_CardinalityType
  <1>10. Cardinality(new) = Cardinality(old) + (IF OpenAfter(lg) THEN 0 ELSE 1)
    <2>1. n + 1 \notin old
      BY <1>1, <1>4
    <2>2. CASE OpenAfter(lg)
      <3>1. new = old
        BY <1>8, <2>2
      <3> QED
        BY <1>9, <2>2, <3>1
    <2>3. CASE ~ OpenAfter(lg)
      <3>1. new = old \cup {n + 1}
        BY <1>8, <2>3
      <3>2. Cardinality(old \cup {n + 1}) = Cardinality(old) + 1
        BY <1>9, <2>1, FS_AddElement
      <3> QED
        BY <2>3, <3>1, <3>2
    <2> QED
      BY <2>2, <2>3
  <1>11. \A i \in old : i \in 1..n /\ more[i] = lg[i] /\ LineOf(more, i) = LineOf(lg, i)
    <2> TAKE i \in old
    <2>1. i \in 1..n
      BY <1>4
    <2>2. { j \in new : j <= i } = { j \in old : j <= i }
      BY <1>1, <1>4, <1>8, <2>1
    <2> QED
      BY <1>1, <2>1, <2>2 DEF LineOf, old, new
  <1>12. LineOf(more, n + 1) = Cardinality(new)
    <2>1. { j \in new : j <= n + 1 } = new
      BY <1>1, <1>5
    <2> QED
      BY <2>1 DEF LineOf, new
  <1> QED
    BY <1>1, <1>3, <1>8, <1>9, <1>10, <1>11, <1>12 DEF n, more, old, new

LEMMA LineIsPlain ==
    ASSUME NEW d \in Datagrams
    PROVE  ToLine(d) \in Seq(Plain)
  <1> DEFINE hex == HexOf(d.bytes)
             dec == Decimal[d.delay]
  <1>1. d.bytes \in Seq(DOMAIN Hex) /\ d.delay \in DOMAIN Decimal \cup {Undelayed}
    BY DatagramsAssumption
  <1>2. hex \in Seq(Digits)
    BY <1>1, HexShape DEF HexPairs
  <1>3. hex \in Seq(Plain) /\ At \in Plain /\ Blank \in Plain
    BY <1>2, PlainTexts, Zenon
  <1>4. ASSUME d.delay # Undelayed PROVE dec \in Seq(Plain)
    <2>1. dec \in Seq(Digits)
      BY <1>1, <1>4, DecimalAssumption
    <2> QED
      BY <2>1, PlainTexts, Zenon
  <1> HIDE DEF hex, dec
  <1>5. CASE d.delay = Undelayed
    <2>1. ToLine(d) = << >> \o hex
      BY <1>5, Zenon DEF ToLine, hex
    <2>2. << >> \o hex = hex
      BY ONLY <1>3
    <2> QED
      BY <1>3, <2>1, <2>2
  <1>6. CASE d.delay # Undelayed
    <2>1. ToLine(d) = (<<At>> \o dec \o <<Blank>>) \o hex
      BY <1>6, Zenon DEF ToLine, hex, dec
    <2>2. (<<At>> \o dec \o <<Blank>>) \o hex \in Seq(Plain)
      BY ONLY <1>3, <1>4, <1>6
    <2> QED
      BY <2>1, <2>2
  <1> QED
    BY <1>5, <1>6

LEMMA WholeTells ==
    ASSUME NEW text, NEW lg, Tells(text, lg), NEW d \in Datagrams
    PROVE  Tells(text \o Written(d), Append(lg, Whole(d)))
  <1> DEFINE line == ToLine(d)
             n == Len(lg)
             more == Append(lg, Whole(d))
             next == text \o Written(d)
             lines == Split(text).lines
             rest == Split(text).rest
             k == Len(lines)
  <1>1. /\ text \in Texts /\ lg \in Seq(Entries)
        /\ (rest # << >> <=> OpenAfter(lg))
        /\ Cardinality(StartsOf(lg)) = k + (IF OpenAfter(lg) THEN 1 ELSE 0)
        /\ \A i \in StartsOf(lg) :
             lg[i].whole => LineOf(lg, i) \in 1..k /\ lines[LineOf(lg, i)] = ToLine(lg[i].datagram)
    BY DEF Tells
  <1>2. /\ line \in Seq(Plain) /\ line \in Texts
        /\ lines \in Seq(Texts) /\ rest \in Texts /\ LineEnd \in Characters
    <2>1. LineEnd \in Characters
      BY PlainTexts
    <2>2. Split(text) \in Splits
      BY <1>1, <2>1, SplitAppend
    <2>3. line \in Seq(Plain)
      BY LineIsPlain
    <2>4. line \in Texts
      BY <2>3, PlainTexts, Zenon
    <2> QED
      BY <2>1, <2>2, <2>3, <2>4 DEF Splits
  <1>3. Whole(d) \in Entries /\ Whole(d).whole /\ Whole(d).datagram = d
    BY DEF Whole, Entries
  <1>4. Split(next) = [lines |-> Append(lines, rest \o line), rest |-> << >>]
    BY <1>1, <1>2, SplitLine DEF Written
  <1>5. next \in Texts
    <2>1. Written(d) \in Seq(Characters) /\ text \in Seq(Characters)
      BY <1>1, <1>2 DEF Written, Texts
    <2> QED
      BY <2>1 DEF Texts
  <1>6. rest \o line \in Texts
    BY <1>2 DEF Texts
  <1> HIDE DEF line, next, lines, rest
  <1>7. /\ k \in Nat /\ Len(Split(next).lines) = k + 1 /\ Split(next).rest = << >>
        /\ \A j \in 1..k : Split(next).lines[j] = lines[j]
        /\ Split(next).lines[k + 1] = rest \o line
    <2>1. /\ k \in Nat /\ Len(Append(lines, rest \o line)) = k + 1
          /\ \A j \in 1..k : Append(lines, rest \o line)[j] = lines[j]
          /\ Append(lines, rest \o line)[k + 1] = rest \o line
      BY ONLY <1>2, <1>6
    <2>2. Split(next).lines = Append(lines, rest \o line) /\ Split(next).rest = << >>
      BY <1>4
    <2> QED
      BY <2>1, <2>2
  <1> HIDE DEF k
  <1>8. /\ StartsOf(more) = StartsOf(lg) \cup (IF OpenAfter(lg) THEN {} ELSE {n + 1})
        /\ Cardinality(StartsOf(more)) =
             Cardinality(StartsOf(lg)) + (IF OpenAfter(lg) THEN 0 ELSE 1)
        /\ \A i \in StartsOf(lg) :
             i \in 1..n /\ more[i] = lg[i] /\ LineOf(more, i) = LineOf(lg, i)
        /\ LineOf(more, n + 1) = Cardinality(StartsOf(more))
        /\ more \in Seq(Entries) /\ more[n + 1] = Whole(d)
        /\ (OpenAfter(more) <=> ~ Whole(d).whole)
    BY <1>1, <1>3, StartsGrow
  <1> HIDE DEF more, n
  <1>9. ~ OpenAfter(more) /\ Cardinality(StartsOf(more)) = k + 1
    BY <1>1, <1>3, <1>7, <1>8
  <1>10. ASSUME NEW i \in StartsOf(more), more[i].whole
         PROVE  /\ LineOf(more, i) \in 1..k + 1
                /\ Split(next).lines[LineOf(more, i)] = ToLine(more[i].datagram)
    <2>1. CASE i \in StartsOf(lg)
      <3>1. LineOf(more, i) \in 1..k /\ lines[LineOf(more, i)] = ToLine(more[i].datagram)
        BY <1>1, <1>8, <1>10, <2>1
      <3>2. LineOf(more, i) \in 1..k + 1
        BY <1>7, <3>1
      <3> QED
        BY <1>7, <3>1, <3>2
    <2>2. CASE i \notin StartsOf(lg)
      <3>1. ~ OpenAfter(lg) /\ i = n + 1
        BY <1>8, <1>10, <2>2
      <3>2. LineOf(more, i) = k + 1 /\ k + 1 \in 1..k + 1
        BY <1>7, <1>8, <1>9, <3>1
      <3>3. rest = << >>
        BY <1>1, <3>1
      <3>4. rest \o line = line
        BY ONLY <1>2, <3>3
      <3>5. more[i].datagram = d
        BY <1>3, <1>8, <3>1
      <3> QED
        BY <1>7, <3>2, <3>4, <3>5 DEF line
    <2> QED
      BY <2>1, <2>2
  <1>11. Tells(next, more)
    <2>1. more \in Seq(Entries)
      BY <1>8
    <2>2. Split(next).rest # << >> <=> OpenAfter(more)
      BY <1>7, <1>9
    <2>3. Cardinality(StartsOf(more)) =
            Len(Split(next).lines) + (IF OpenAfter(more) THEN 1 ELSE 0)
      <3>1. (k + 1) + 0 = k + 1
        BY <1>7
      <3> QED
        BY <1>7, <1>9, <3>1, Zenon
    <2>4. \A i \in StartsOf(more) :
            more[i].whole =>
              /\ LineOf(more, i) \in 1..Len(Split(next).lines)
              /\ Split(next).lines[LineOf(more, i)] = ToLine(more[i].datagram)
      BY <1>7, <1>10, Zenon
    <2> QED
      BY <1>5, <2>1, <2>2, <2>3, <2>4, Zenon DEF Tells
  <1> QED
    BY <1>11 DEF next, more

LEMMA TornIsPlain ==
    ASSUME NEW d \in Datagrams, NEW m \in 1..Len(ToLine(d))
    PROVE  /\ SubSeq(Written(d), 1, m) \in Seq(Plain)
           /\ SubSeq(Written(d), 1, m) # << >>
  <1> PICK line : line = ToLine(d)
    OBVIOUS
  <1>1. line \in Seq(Plain)
    BY LineIsPlain
  <1>2. SubSeq(line \o <<LineEnd>>, 1, m) = SubSeq(line, 1, m)
    <2> PICK e : e = LineEnd
      OBVIOUS
    <2>1. m \in 1..Len(line)
      OBVIOUS
    <2>2. SubSeq(line \o <<e>>, 1, m) = SubSeq(line, 1, m)
      BY ONLY <1>1, <2>1
    <2> QED
      BY <2>2
  <1>3. m \in 1..Len(line)
    OBVIOUS
  <1>4. SubSeq(line, 1, m) \in Seq(Plain) /\ SubSeq(line, 1, m) # << >>
    BY ONLY <1>1, <1>3
  <1> QED
    BY <1>2, <1>4 DEF Written

LEMMA TornTells ==
    ASSUME NEW text, NEW lg, Tells(text, lg), NEW d \in Datagrams,
           NEW m \in 1..Len(ToLine(d))
    PROVE  Tells(text \o SubSeq(Written(d), 1, m), Append(lg, Torn(d)))
  <1> DEFINE part == SubSeq(Written(d), 1, m)
             n == Len(lg)
             more == Append(lg, Torn(d))
             next == text \o part
             lines == Split(text).lines
             rest == Split(text).rest
             k == Len(lines)
  <1>1. /\ text \in Texts /\ lg \in Seq(Entries)
        /\ (rest # << >> <=> OpenAfter(lg))
        /\ Cardinality(StartsOf(lg)) = k + (IF OpenAfter(lg) THEN 1 ELSE 0)
        /\ \A i \in StartsOf(lg) :
             lg[i].whole => LineOf(lg, i) \in 1..k /\ lines[LineOf(lg, i)] = ToLine(lg[i].datagram)
    BY DEF Tells
  <1>2. part \in Seq(Plain) /\ part # << >> /\ part \in Texts
    <2>1. part \in Seq(Plain) /\ part # << >>
      BY TornIsPlain
    <2> QED
      BY <2>1, PlainTexts, Zenon
  <1>3. lines \in Seq(Texts) /\ rest \in Texts
    <2>1. LineEnd \in Characters
      BY PlainTexts
    <2>2. Split(text) \in Splits
      BY <1>1, <2>1, SplitAppend
    <2> QED
      BY <2>2 DEF Splits
  <1>4. Torn(d) \in Entries /\ ~ Torn(d).whole
    BY DEF Torn, Entries
  <1> HIDE DEF part
  <1>5. Split(next) = [lines |-> lines, rest |-> rest \o part]
    BY <1>1, <1>2, SplitGoesOn
  <1>6. next \in Texts /\ rest \o part # << >>
    BY <1>1, <1>2, <1>3 DEF Texts
  <1> HIDE DEF next, lines, rest
  <1>7. k \in Nat /\ Split(next).lines = lines /\ Split(next).rest # << >>
    BY <1>3, <1>5, <1>6
  <1> HIDE DEF k
  <1>8. /\ StartsOf(more) = StartsOf(lg) \cup (IF OpenAfter(lg) THEN {} ELSE {n + 1})
        /\ Cardinality(StartsOf(more)) =
             Cardinality(StartsOf(lg)) + (IF OpenAfter(lg) THEN 0 ELSE 1)
        /\ \A i \in StartsOf(lg) :
             i \in 1..n /\ more[i] = lg[i] /\ LineOf(more, i) = LineOf(lg, i)
        /\ more \in Seq(Entries) /\ more[n + 1] = Torn(d)
        /\ (OpenAfter(more) <=> ~ Torn(d).whole)
    BY <1>1, <1>4, StartsGrow
  <1> HIDE DEF more, n
  <1>9. OpenAfter(more) /\ Cardinality(StartsOf(more)) = k + 1
    BY <1>1, <1>4, <1>7, <1>8
  <1>10. ASSUME NEW i \in StartsOf(more), more[i].whole
         PROVE  /\ LineOf(more, i) \in 1..k
                /\ lines[LineOf(more, i)] = ToLine(more[i].datagram)
    <2>1. i \in StartsOf(lg)
      BY <1>4, <1>8, <1>10
    <2> QED
      BY <1>1, <1>8, <1>10, <2>1
  <1>11. Tells(next, more)
    BY <1>6, <1>7, <1>8, <1>9, <1>10 DEF Tells, k
  <1> QED
    BY <1>11 DEF next, more, part

LEMMA RewriteTells ==
    ASSUME NEW ds \in Seq(Datagrams)
    PROVE  Tells(FlattenSeq([i \in DOMAIN ds |-> Written(ds[i])]),
                 [i \in DOMAIN ds |-> Whole(ds[i])])
  <1> DEFINE Parts(s) == [i \in DOMAIN s |-> Written(s[i])]
             Wholes(s) == [i \in DOMAIN s |-> Whole(s[i])]
             S == { s \in Seq(Datagrams) : Tells(FlattenSeq(Parts(s)), Wholes(s)) }
  <1>1. << >> \in S
    <2>1. Parts(<< >>) = << >> /\ Wholes(<< >>) = << >> /\ << >> \in Seq(Datagrams)
      OBVIOUS
    <2> QED
      BY <2>1, FlattenEmpty, NothingTells
  <1>2. ASSUME NEW s \in Seq(Datagrams), NEW d \in Datagrams, s \in S
        PROVE  Append(s, d) \in S
    <2>1. \A c \in Datagrams : Written(c) \in Texts
      <3> TAKE c \in Datagrams
      <3>1. ToLine(c) \in Texts /\ LineEnd \in Characters
        BY LineIsPlain, PlainTexts, Zenon
      <3> QED
        BY <3>1 DEF Written, Texts
    <2>2. Append(s, d) \in Seq(Datagrams)
      OBVIOUS
    <2>3. Parts(s) \in Seq(Texts)
      <3>1. Parts(s) \in [1..Len(s) -> Texts] /\ Len(s) \in Nat
        BY <2>1
      <3> HIDE DEF Parts
      <3> QED
        BY <3>1
    <2>4. Parts(Append(s, d)) = Append(Parts(s), Written(d))
      OBVIOUS
    <2>5. Wholes(Append(s, d)) = Append(Wholes(s), Whole(d))
      OBVIOUS
    <2>6. FlattenSeq(Append(Parts(s), Written(d))) = FlattenSeq(Parts(s)) \o Written(d)
      <3>1. Written(d) \in Seq(Characters) /\ Parts(s) \in Seq(Seq(Characters))
        BY <2>1, <2>3 DEF Texts
      <3> HIDE DEF Parts
      <3> QED
        BY <3>1, FlattenAppend
    <2>7. Tells(FlattenSeq(Parts(s)) \o Written(d), Append(Wholes(s), Whole(d)))
      <3>1. Tells(FlattenSeq(Parts(s)), Wholes(s))
        BY <1>2
      <3> HIDE DEF Parts, Wholes
      <3> QED
        BY <3>1, WholeTells
    <2> QED
      BY <2>2, <2>4, <2>5, <2>6, <2>7
  <1>3. Seq(Datagrams) \subseteq S
    <2> HIDE DEF S
    <2> QED
      BY <1>1, <1>2, SequenceInduction
  <1> QED
    BY <1>3

LEMMA StopTells ==
    ASSUME NEW ds \in Seq(Datagrams), NEW k \in DOMAIN ds, NEW n \in 0..Len(ToLine(ds[k])),
           NEW before, before = SubSeq(ds, 1, k - 1)
    PROVE  Tells(FlattenSeq([i \in DOMAIN before |-> Written(before[i])])
                   \o SubSeq(Written(ds[k]), 1, n),
                 [i \in DOMAIN before |-> Whole(before[i])]
                   \o (IF n = 0 THEN << >> ELSE <<Torn(ds[k])>>))
  <1> DEFINE text == FlattenSeq([i \in DOMAIN before |-> Written(before[i])])
             lg == [i \in DOMAIN before |-> Whole(before[i])]
  <1>1. before \in Seq(Datagrams) /\ ds[k] \in Datagrams
    OBVIOUS
  <1>2. Tells(text, lg)
    BY <1>1, RewriteTells
  <1> HIDE DEF text, lg
  <1>3. text \in Texts /\ lg \in Seq(Entries)
    BY <1>2 DEF Tells
  <1>4. CASE n = 0
    <2>1. Written(ds[k]) \in Texts
      <3>1. ToLine(ds[k]) \in Texts /\ LineEnd \in Characters
        BY <1>1, LineIsPlain, PlainTexts, Zenon
      <3> QED
        BY <3>1 DEF Written, Texts
    <2>2. SubSeq(Written(ds[k]), 1, 0) = << >>
      BY <2>1 DEF Texts
    <2>3. text \o << >> = text /\ lg \o << >> = lg
      BY <1>3 DEF Texts
    <2> QED
      BY <1>2, <1>4, <2>2, <2>3 DEF text, lg
  <1>5. CASE n # 0
    <2>1. n \in 1..Len(ToLine(ds[k]))
      <3>1. Len(ToLine(ds[k])) \in Nat
        BY <1>1, LineIsPlain
      <3> QED
        BY <1>5, <3>1
    <2>2. Tells(text \o SubSeq(Written(ds[k]), 1, n), Append(lg, Torn(ds[k])))
      BY <1>1, <1>2, <2>1, TornTells
    <2>3. Append(lg, Torn(ds[k])) = lg \o <<Torn(ds[k])>>
      <3>1. Torn(ds[k]) \in Entries
        BY <1>1 DEF Torn, Entries
      <3> QED
        BY <1>3, <3>1
    <2> QED
      BY <1>5, <2>2, <2>3 DEF text, lg
  <1> QED
    BY <1>4, <1>5

----------------------------------------------------------------------------
(* The invariant and the theorems.                                         *)

FileTells == Tells(file, log)

LEMMA FileTellsKept == FileTells /\ [FileNext]_fileVars => FileTells'
  <1> SUFFICES ASSUME FileTells, [FileNext]_fileVars
               PROVE  FileTells'
    OBVIOUS
  <1>1. ASSUME NEW d \in Datagrams, AppendDatagram(d)
        PROVE  FileTells'
    BY <1>1, WholeTells DEF AppendDatagram, FileTells
  <1>2. ASSUME NEW d \in Datagrams, AppendStops(d)
        PROVE  FileTells'
    BY <1>2, TornTells DEF AppendStops, FileTells
  <1>3. Rewrites \subseteq Seq(Datagrams)
    <2>1. ASSUME NEW n \in 0..MaxRewrite, NEW ds \in [1..n -> Datagrams]
          PROVE  ds \in Seq(Datagrams)
      OBVIOUS
    <2> QED
      BY <2>1, Zenon DEF Rewrites
  <1>4. ASSUME NEW ds \in Rewrites, WriteDatagramFile(ds)
        PROVE  FileTells'
    BY <1>3, <1>4, RewriteTells DEF WriteDatagramFile, FileTells
  <1>5. ASSUME NEW ds \in Rewrites, WriteStops(ds)
        PROVE  FileTells'
    <2>1. ds \in Seq(Datagrams)
      BY <1>3
    <2>2. PICK k \in DOMAIN ds : \E n \in 0..Len(ToLine(ds[k])) :
            LET before == SubSeq(ds, 1, k - 1) IN
              /\ file' = FlattenSeq([i \in DOMAIN before |-> Written(before[i])])
                           \o SubSeq(Written(ds[k]), 1, n)
              /\ log' = [i \in DOMAIN before |-> Whole(before[i])]
                          \o (IF n = 0 THEN << >> ELSE <<Torn(ds[k])>>)
      BY <1>5 DEF WriteStops
    <2>3. PICK n \in 0..Len(ToLine(ds[k])) :
            LET before == SubSeq(ds, 1, k - 1) IN
              /\ file' = FlattenSeq([i \in DOMAIN before |-> Written(before[i])])
                           \o SubSeq(Written(ds[k]), 1, n)
              /\ log' = [i \in DOMAIN before |-> Whole(before[i])]
                          \o (IF n = 0 THEN << >> ELSE <<Torn(ds[k])>>)
      BY <2>2
    <2> PICK before : before = SubSeq(ds, 1, k - 1)
      OBVIOUS
    <2> QED
      BY <2>1, <2>3, StopTells DEF FileTells
  <1>6. CASE UNCHANGED fileVars
    BY <1>6 DEF fileVars, FileTells
  <1> QED
    BY <1>1, <1>2, <1>4, <1>5, <1>6 DEF FileNext

(* Whatever is written, and wherever it stops, the file's lines are the     *)
(* writes that began one (append_datagram, write_datagram_file).            *)
THEOREM FileIsTold == FileSpec => []FileTells
  <1>1. FileInit => FileTells
    BY NothingTells DEF FileInit, FileTells
  <1> QED
    BY <1>1, FileTellsKept, PTL DEF FileSpec

LEMMA LinesTold ==
    ASSUME FileTells
    PROVE  /\ Len(Lines(file)) = Cardinality(LineStarts)
           /\ \A i \in LineStarts :
                log[i].whole =>
                  Lines(file)[Cardinality({ j \in LineStarts : j <= i })] =
                    ToLine(log[i].datagram)
  <1> DEFINE lines == Split(file).lines
             rest == Split(file).rest
             k == Len(lines)
  <1>1. /\ file \in Texts /\ log \in Seq(Entries)
        /\ (rest # << >> <=> OpenAfter(log))
        /\ Cardinality(StartsOf(log)) = k + (IF OpenAfter(log) THEN 1 ELSE 0)
        /\ \A i \in StartsOf(log) :
             log[i].whole => LineOf(log, i) \in 1..k
                             /\ lines[LineOf(log, i)] = ToLine(log[i].datagram)
    BY DEF Tells, FileTells
  <1>2. lines \in Seq(Texts) /\ rest \in Texts
    <2>1. LineEnd \in Characters
      BY PlainTexts
    <2>2. Split(file) \in Splits
      BY <1>1, <2>1, SplitAppend
    <2> QED
      BY <2>2 DEF Splits
  <1>3. Lines(file) = IF rest = << >> THEN lines ELSE Append(lines, rest)
    BY DEF Lines
  <1>4. LineStarts = StartsOf(log) /\ \A i : LineOf(log, i) = Cardinality({ j \in LineStarts : j <= i })
    BY DEF LineStarts, StartsOf, LineOf
  <1> HIDE DEF lines, rest
  <1>5. k \in Nat /\ Len(Append(lines, rest)) = k + 1 /\ \A j \in 1..k : Append(lines, rest)[j] = lines[j]
    BY ONLY <1>2
  <1>6. Len(Lines(file)) = Cardinality(LineStarts)
    BY <1>1, <1>3, <1>4, <1>5
  <1>7. ASSUME NEW i \in LineStarts, log[i].whole
        PROVE  Lines(file)[LineOf(log, i)] = ToLine(log[i].datagram)
    <2>1. LineOf(log, i) \in 1..k /\ lines[LineOf(log, i)] = ToLine(log[i].datagram)
      BY <1>1, <1>4, <1>7
    <2>2. Lines(file)[LineOf(log, i)] = lines[LineOf(log, i)]
      BY <1>3, <1>5, <2>1
    <2> QED
      BY <2>1, <2>2
  <1> QED
    BY <1>4, <1>6, <1>7

LEMMA EntryTypes ==
    ASSUME FileTells
    PROVE  /\ Len(log) \in Nat /\ DOMAIN log = 1..Len(log)
           /\ \A i \in DOMAIN log : log[i].datagram \in Datagrams
  <1>1. log \in Seq(Entries)
    BY DEF FileTells, Tells
  <1>2. Len(log) \in Nat /\ DOMAIN log = 1..Len(log) /\ \A i \in DOMAIN log : log[i] \in Entries
    BY ONLY <1>1
  <1>3. \A e \in Entries : e.datagram \in Datagrams
    BY DEF Entries
  <1> QED
    BY <1>2, <1>3, Zenon

LEMMA LocalIfTold == FileTells => DamageIsLocal
  <1> SUFFICES ASSUME FileTells PROVE DamageIsLocal
    OBVIOUS
  <1>1. Len(Lines(file)) = Cardinality(LineStarts)
    BY LinesTold
  <1>2. ASSUME NEW i \in LineStarts, log[i].whole, Stored(log[i].datagram)
        PROVE  ParseLine(Lines(file)[Cardinality({ j \in LineStarts : j <= i })]) =
                 Ok(<<log[i].datagram>>)
    <2>1. log[i].datagram \in Datagrams
      BY EntryTypes DEF LineStarts
    <2>2. Lines(file)[Cardinality({ j \in LineStarts : j <= i })] = ToLine(log[i].datagram)
      BY <1>2, LinesTold
    <2> QED
      BY <1>2, <2>1, <2>2, LineParses, Zenon
  <1> QED
    BY <1>1, <1>2 DEF DamageIsLocal

(* A write that stopped damages its own line and the one that goes on with  *)
(* it, and no other: DamageIsLocal (append_datagram, read_datagram_file).   *)
THEOREM DamageStays == FileSpec => []DamageIsLocal
  BY FileIsTold, LocalIfTold, PTL

LEMMA ReadIfTold == FileTells => SessionsReadBack
  <1> SUFFICES ASSUME FileTells,
                      \A i \in DOMAIN log : log[i].whole /\ Stored(log[i].datagram)
               PROVE  ReadDatagramFile(file) = Ok([i \in DOMAIN log |-> log[i].datagram])
    BY DEF SessionsReadBack
  <1> DEFINE n == Len(log)
             datagrams == [i \in DOMAIN log |-> log[i].datagram]
             parsed == [i \in DOMAIN Lines(file) |-> ParseLine(Lines(file)[i])]
  <1>1. n \in Nat /\ DOMAIN log = 1..n /\ \A i \in 1..n : log[i].datagram \in Datagrams
    BY EntryTypes
  <1>2. LineStarts = 1..n
    <2>1. \A i \in 1..n : i > 1 => i - 1 \in 1..n
      BY <1>1
    <2> QED
      BY <1>1, <2>1 DEF LineStarts
  <1>3. ASSUME NEW i \in 1..n PROVE Cardinality({ j \in LineStarts : j <= i }) = i
    <2>1. { j \in LineStarts : j <= i } = 1..i
      BY <1>1, <1>2
    <2>2. i \in Nat /\ Cardinality(1..i) = i
      BY FS_Interval
    <2> QED
      BY <2>1, <2>2
  <1>4. Cardinality(LineStarts) = n
    <2>1. Cardinality(1..n) = IF 1 > n THEN 0 ELSE n - 1 + 1
      BY <1>1, FS_Interval
    <2> HIDE DEF n
    <2> QED
      BY <1>1, <1>2, <2>1
  <1>5. DOMAIN Lines(file) = 1..n
    <2>1. Lines(file) \in Seq(Texts)
      <3>1. file \in Texts /\ LineEnd \in Characters
        BY PlainTexts DEF FileTells, Tells
      <3>2. Split(file) \in Splits
        BY <3>1, SplitAppend
      <3> QED
        BY <3>2 DEF Lines, Splits
    <2>2. Len(Lines(file)) = n
      BY <1>4, LinesTold
    <2> QED
      BY <2>1, <2>2
  <1>6. \A i \in 1..n : parsed[i] = Ok(<<datagrams[i]>>)
    <2> TAKE i \in 1..n
    <2>1. Lines(file)[i] = ToLine(log[i].datagram)
      BY <1>1, <1>2, <1>3, LinesTold
    <2>2. ParseLine(ToLine(log[i].datagram)) = Ok(<<log[i].datagram>>)
      BY <1>1, LineParses, Zenon
    <2> QED
      BY <1>1, <1>5, <2>1, <2>2
  <1>7. /\ DOMAIN parsed = 1..n /\ DOMAIN datagrams = 1..n
        /\ datagrams \in Seq(Datagrams)
    BY <1>1, <1>5
  <1>8. ReadDatagramFile(file) =
          IF \E i \in DOMAIN parsed : ~ parsed[i].ok THEN Error
          ELSE Ok(FlattenSeq([i \in DOMAIN parsed |-> parsed[i].value]))
    BY Zenon DEF ReadDatagramFile
  <1> HIDE DEF parsed, datagrams, n
  <1>9. \A i \in 1..n : parsed[i].ok /\ parsed[i].value = <<datagrams[i]>>
    <2>1. \A v : Ok(v).ok /\ Ok(v).value = v
      BY DEF Ok
    <2> QED
      BY <1>6, <2>1, Zenon
  <1>10. [i \in DOMAIN parsed |-> parsed[i].value] = [i \in DOMAIN datagrams |-> <<datagrams[i]>>]
    BY <1>7, <1>9
  <1>11. FlattenSeq([i \in DOMAIN datagrams |-> <<datagrams[i]>>]) = datagrams
    BY <1>7, FlattenSingles
  <1>12. ReadDatagramFile(file) = Ok(datagrams)
    BY <1>7, <1>8, <1>9, <1>10, <1>11, Zenon
  <1> QED
    BY <1>12 DEF datagrams

(* What was written without a stop reads back as it was: SessionsReadBack   *)
(* (append_datagram, write_datagram_file, read_datagram_file).              *)
THEOREM SessionsAreRead == FileSpec => []SessionsReadBack
  BY FileIsTold, ReadIfTold, PTL

----------------------------------------------------------------------------
(* The verdict *)

GoodUpTo(k) == \A i \in 1..k : Good(session[i])

(* Each pass knows of the datagrams it has been through whether all of     *)
(* them are good, each in its own way.                                     *)
AnalysisKnows ==
    /\ analyzed \in 0..Len(session)
    /\ analysis.errors \in Nat /\ analysis.empty \in Nat
    /\ IsClean <=> GoodUpTo(analyzed)

ValidationKnows ==
    /\ validated \in 0..Len(session)
    /\ validation.valid \in 0..validated
    /\ validation.issues \in Seq(Nat)
    /\ validation.valid = validated <=> GoodUpTo(validated)
    /\ validation.issues = << >> <=> GoodUpTo(validated)

Datagram ==
    [size : Nat, delay : 0..DelayLimit - 1 \cup {NoDelay},
     decoded : Seq(Kinds \cup {Failed})]

IInv ==
    /\ session \in Seq(Datagram)
    /\ AnalysisKnows
    /\ ValidationKnows

LEMMA ErrorsCount ==
    ASSUME NEW d \in Datagram
    PROVE  /\ Cardinality(Errors(d)) \in Nat
           /\ Cardinality(Errors(d)) = 0 <=> Errors(d) = {}
  <1>1. d.decoded \in Seq(Kinds \cup {Failed})
    BY DEF Datagram
  <1>2. DOMAIN d.decoded = 1..Len(d.decoded) /\ Len(d.decoded) \in Nat
    BY <1>1
  <1>3. IsFiniteSet(1..Len(d.decoded))
    BY <1>2, FS_Interval
  <1>4. Errors(d) \subseteq 1..Len(d.decoded)
    BY <1>2 DEF Errors
  <1>5. IsFiniteSet(Errors(d))
    BY <1>3, <1>4, FS_Subset, Zenon
  <1> QED
    BY <1>5, FS_CardinalityType, FS_EmptySet

LEMMA GoodUpToNext ==
    ASSUME NEW k \in Nat
    PROVE  GoodUpTo(k + 1) <=> GoodUpTo(k) /\ Good(session[k + 1])
  <1>1. 1..k + 1 = 1..k \cup {k + 1}
    OBVIOUS
  <1> QED
    BY <1>1 DEF GoodUpTo

LEMMA InitEstablishes == Init => IInv
  <1> SUFFICES ASSUME Init PROVE IInv
    OBVIOUS
  <1>1. session \in Seq(Datagram)
    BY SessionsAssumption DEF Init, Datagram
  <1>2. GoodUpTo(0)
    BY DEF GoodUpTo
  <1> QED
    BY <1>1, <1>2 DEF Init, IInv, AnalysisKnows, ValidationKnows, IsClean

LEMMA AnalyzeKeeps ==
    ASSUME IInv, AnalyzeDatagram
    PROVE  AnalysisKnows'
  <1> DEFINE d == session[analyzed + 1]
  <1>1. /\ analyzed \in Nat /\ analyzed + 1 \in 1..Len(session)
        /\ analyzed' = analyzed + 1 /\ session' = session
        /\ d \in Datagram
    BY DEF IInv, AnalysisKnows, AnalyzeDatagram
  <1>2. /\ analysis'.errors = analysis.errors + Cardinality(Errors(d))
        /\ analysis'.empty = analysis.empty + (IF d.decoded = << >> THEN 1 ELSE 0)
    BY DEF AnalyzeDatagram, Analyzed
  <1>3. analysis.errors \in Nat /\ analysis.empty \in Nat
    BY DEF IInv, AnalysisKnows
  <1> HIDE DEF d
  <1>4. analysis'.errors \in Nat /\ analysis'.empty \in Nat
    BY <1>1, <1>2, <1>3, ErrorsCount
  <1>5. IsClean' <=> IsClean /\ Good(d)
    <2> DEFINE c == Cardinality(Errors(d))
    <2>1. c \in Nat /\ (c = 0 <=> Errors(d) = {})
      BY <1>1, ErrorsCount
    <2>2. analysis'.errors = analysis.errors + c
      BY <1>2
    <2> HIDE DEF c
    <2>3. analysis'.errors = 0 <=> analysis.errors = 0 /\ Errors(d) = {}
      BY <1>3, <2>1, <2>2
    <2>4. analysis'.empty = 0 <=> analysis.empty = 0 /\ d.decoded # << >>
      <3>1. CASE d.decoded = << >>
        <4>1. analysis'.empty = analysis.empty + 1
          BY <1>2, <3>1
        <4> QED
          BY <1>3, <3>1, <4>1
      <3>2. CASE d.decoded # << >>
        <4>1. analysis'.empty = analysis.empty + 0
          BY <1>2, <3>2
        <4> QED
          BY <1>3, <3>2, <4>1
      <3> QED
        BY <3>1, <3>2
    <2> QED
      BY <2>3, <2>4 DEF IsClean, Good
  <1>6. IsClean' <=> GoodUpTo(analyzed + 1)
    BY <1>1, <1>5, GoodUpToNext DEF IInv, AnalysisKnows, d
  <1>7. GoodUpTo(analyzed)' <=> GoodUpTo(analyzed + 1)
    BY <1>1 DEF GoodUpTo, Good, Errors
  <1> QED
    BY <1>1, <1>4, <1>6, <1>7 DEF AnalysisKnows

LEMMA ValidateKeeps ==
    ASSUME IInv, ValidateDatagram
    PROVE  ValidationKnows'
  <1> DEFINE d == session[validated + 1]
             new == Issues(d, validated + 1)
  <1>1. /\ validated \in Nat /\ validated + 1 \in 1..Len(session)
        /\ validated' = validated + 1 /\ session' = session
        /\ d \in Datagram
    BY DEF IInv, ValidationKnows, ValidateDatagram
  <1>2. /\ validation'.valid = validation.valid + (IF Good(d) THEN 1 ELSE 0)
        /\ validation'.issues = validation.issues \o new
    BY DEF ValidateDatagram
  <1>3. new \in Seq(Nat) /\ (new = << >> <=> Good(d))
    <2>1. CASE d.decoded = << >>
      BY <1>1, <2>1 DEF Issues, Good
    <2>2. CASE d.decoded # << >>
      <3> DEFINE n == Cardinality(Errors(d))
      <3>1. n \in Nat /\ (n = 0 <=> Errors(d) = {})
        BY <1>1, ErrorsCount
      <3>2. new = [i \in 1..n |-> validated + 1]
        BY <2>2 DEF Issues
      <3> HIDE DEF n, d
      <3>3. new \in Seq(Nat) /\ Len(new) = n
        BY <1>1, <3>1, <3>2
      <3> HIDE DEF new
      <3>4. new = << >> <=> n = 0
        BY <3>1, <3>3
      <3> QED
        BY <2>2, <3>1, <3>3, <3>4 DEF Good
    <2> QED
      BY <2>1, <2>2
  <1>4. /\ validation.valid \in 0..validated
        /\ validation.issues \in Seq(Nat)
        /\ validation.valid = validated <=> GoodUpTo(validated)
        /\ validation.issues = << >> <=> GoodUpTo(validated)
    BY DEF IInv, ValidationKnows
  <1> HIDE DEF d, new
  <1>5. GoodUpTo(validated + 1) <=> GoodUpTo(validated) /\ Good(d)
    BY <1>1, GoodUpToNext DEF d
  <1>6. GoodUpTo(validated)' <=> GoodUpTo(validated + 1)
    BY <1>1 DEF GoodUpTo, Good, Errors
  <1>7. validation'.valid \in 0..validated + 1
    BY <1>1, <1>2, <1>4
  <1>8. validation'.valid = validated + 1 <=> GoodUpTo(validated + 1)
    BY <1>1, <1>2, <1>4, <1>5
  <1>9. validation'.issues \in Seq(Nat)
    BY <1>2, <1>3, <1>4
  <1>10. validation'.issues = << >> <=> validation.issues = << >> /\ new = << >>
    BY <1>2, <1>3, <1>4
  <1> QED
    BY <1>1, <1>3, <1>4, <1>5, <1>6, <1>7, <1>8, <1>9, <1>10 DEF ValidationKnows

LEMMA NextKeeps == IInv /\ [Next]_vars => IInv'
  <1> SUFFICES ASSUME IInv, [Next]_vars PROVE IInv'
    OBVIOUS
  <1>1. session' = session
    BY DEF Next, AnalysisPanics, AnalyzeDatagram, ValidateDatagram, vars
  <1>2. CASE AnalyzeDatagram
    <2>1. ValidationKnows'
      BY <1>2 DEF IInv, AnalyzeDatagram, ValidationKnows, GoodUpTo, Good, Errors
    <2> QED
      BY <1>1, <1>2, <2>1, AnalyzeKeeps DEF IInv
  <1>3. CASE ValidateDatagram
    <2>1. AnalysisKnows'
      BY <1>3 DEF IInv, ValidateDatagram, AnalysisKnows, IsClean, GoodUpTo, Good, Errors
    <2> QED
      BY <1>1, <1>3, <2>1, ValidateKeeps DEF IInv
  <1>4. CASE AnalysisPanics \/ UNCHANGED vars
    BY <1>4 DEF AnalysisPanics, vars, IInv, AnalysisKnows, ValidationKnows, IsClean,
                GoodUpTo, Good, Errors
  <1> QED
    BY <1>2, <1>3, <1>4 DEF Next

LEMMA OneVerdict == IInv => CleanIffValid
  <1> SUFFICES ASSUME IInv, Finished
               PROVE  /\ IsClean <=> IsValid
                      /\ IsValid <=> validation.issues = << >>
    BY DEF CleanIffValid
  <1>1. Len(session) \in Nat /\ analyzed = Len(session) /\ validated = Len(session)
    BY DEF IInv, Finished
  <1>2. IsClean <=> GoodUpTo(Len(session))
    BY <1>1 DEF IInv, AnalysisKnows
  <1>3. IsValid <=> validation.valid = Len(session)
    BY <1>1 DEF IInv, ValidationKnows, IsValid, InvalidCount
  <1> QED
    BY <1>1, <1>2, <1>3 DEF IInv, ValidationKnows

(* A session is clean exactly when it is valid, and valid exactly when     *)
(* there is no issue, whatever the recording holds.                        *)
THEOREM VerdictsAgree == Spec => []CleanIffValid
  BY InitEstablishes, NextKeeps, OneVerdict, PTL DEF Spec

----------------------------------------------------------------------------
(* Types *)

LEMMA ResultsCount ==
    ASSUME NEW d \in Datagram
    PROVE  /\ Len(d.decoded) \in Nat
           /\ Cardinality(Messages(d)) \in Nat
           /\ \A kind \in Kinds : Cardinality(OfKind(d, kind)) \in Nat
  <1>1. d.decoded \in Seq(Kinds \cup {Failed})
    BY DEF Datagram
  <1>2. DOMAIN d.decoded = 1..Len(d.decoded) /\ Len(d.decoded) \in Nat
    BY <1>1
  <1>3. IsFiniteSet(1..Len(d.decoded))
    BY <1>2, FS_Interval
  <1>4. \A s \in SUBSET (1..Len(d.decoded)) : Cardinality(s) \in Nat
    BY <1>3, FS_Subset, FS_CardinalityType, Zenon
  <1>5. /\ Messages(d) \in SUBSET (1..Len(d.decoded))
        /\ \A kind \in Kinds : OfKind(d, kind) \in SUBSET (1..Len(d.decoded))
    BY <1>2 DEF Messages, OfKind
  <1> QED
    BY <1>2, <1>4, <1>5

LEMMA DelaysAdd ==
    ASSUME NEW d \in Datagram, NEW total \in 0..DelayLimit - 1
    PROVE  (total + Delay(d)) % DelayLimit \in 0..DelayLimit - 1
  <1>1. Delay(d) \in Nat /\ DelayLimit \in Nat \ {0}
    BY DelayAssumption DEF Delay, Datagram
  <1> QED
    BY <1>1

LEMMA TypesHoldInitially == Init => TypeOK
  <1> SUFFICES ASSUME Init PROVE TypeOK
    OBVIOUS
  <1>1. Len(session) \in Nat
    BY SessionsAssumption DEF Init
  <1>2. analysis \in Analyses
    BY DelayAssumption DEF Init, Analyses
  <1>3. validation \in [valid : Nat, issues : Seq(Nat)] /\ validation.valid = 0
    BY DEF Init
  <1>4. /\ session \in Sessions /\ checked \in BOOLEAN /\ panicked \in BOOLEAN
        /\ analyzed = 0 /\ validated = 0
    BY DEF Init
  <1> QED
    BY <1>1, <1>2, <1>3, <1>4 DEF TypeOK

LEMMA AnalysisTyped ==
    ASSUME TypeOK, IInv, AnalyzeDatagram
    PROVE  analysis' \in Analyses
  <1> DEFINE d == session[analyzed + 1]
  <1>1. d \in Datagram
    BY DEF IInv, AnalysisKnows, AnalyzeDatagram
  <1>2. /\ analysis.bytes \in Nat /\ analysis.delayed \in Nat
        /\ analysis.totalDelay \in 0..DelayLimit - 1 /\ analysis.messages \in Nat
        /\ analysis.errors \in Nat /\ analysis.empty \in Nat
        /\ analysis.largest \in Nat /\ analysis.counts \in [Kinds -> Nat]
    BY DEF TypeOK, Analyses
  <1>3. analysis' = Analyzed(analysis, d)
    BY DEF AnalyzeDatagram
  <1> HIDE DEF d
  <1>4. d.size \in Nat
    BY <1>1 DEF Datagram
  <1>5. [kind \in Kinds |-> analysis.counts[kind] + Cardinality(OfKind(d, kind))]
          \in [Kinds -> Nat]
    BY <1>1, <1>2, ResultsCount
  <1>6. TotalDelay(analysis, d) \in 0..DelayLimit - 1
    BY <1>1, <1>2, DelaysAdd DEF TotalDelay
  <1>7. /\ analysis.messages + Cardinality(Messages(d)) \in Nat
        /\ analysis.errors + Cardinality(Errors(d)) \in Nat
        /\ Larger(analysis.largest, Len(d.decoded)) \in Nat
    BY <1>1, <1>2, ResultsCount, ErrorsCount DEF Larger
  <1>8. /\ analysis.bytes + d.size \in Nat
        /\ analysis.delayed + (IF d.delay = NoDelay THEN 0 ELSE 1) \in Nat
        /\ analysis.empty + (IF d.decoded = << >> THEN 1 ELSE 0) \in Nat
    BY <1>2, <1>4
  <1> QED
    BY <1>3, <1>5, <1>6, <1>7, <1>8, Zenon DEF Analyzed, Analyses

LEMMA TypesKept == TypeOK /\ IInv /\ [Next]_vars => TypeOK'
  <1> SUFFICES ASSUME TypeOK, IInv, [Next]_vars PROVE TypeOK'
    OBVIOUS
  <1>1. Len(session) \in Nat
    BY DEF IInv
  <1>2. CASE AnalyzeDatagram
    BY <1>1, <1>2, AnalysisTyped DEF AnalyzeDatagram, TypeOK
  <1>3. CASE ValidateDatagram
    <2>1. ValidationKnows'
      BY <1>3, ValidateKeeps
    <2>2. validation' \in [valid : Nat, issues : Seq(Nat)]
      <3>1. validation' = [valid |-> validation'.valid, issues |-> validation'.issues]
        BY <1>3 DEF ValidateDatagram
      <3> QED
        BY <2>1, <3>1 DEF ValidationKnows
    <2> QED
      BY <1>3, <2>1, <2>2 DEF ValidateDatagram, ValidationKnows, TypeOK
  <1>4. CASE AnalysisPanics \/ UNCHANGED vars
    BY <1>4 DEF AnalysisPanics, vars, TypeOK
  <1> QED
    BY <1>2, <1>3, <1>4 DEF Next

(* Both passes stay within the session and keep their types, the wrapped   *)
(* sum of the delays its 64 bits, and no more datagrams are found valid    *)
(* than were looked at.                                                    *)
THEOREM TypeCorrect == Spec => []TypeOK
  BY InitEstablishes, NextKeeps, TypesHoldInitially, TypesKept, PTL DEF Spec

----------------------------------------------------------------------------
(* The report *)

(* A report is first the analysis and then the validation of               *)
(* SessionAnalysis, and then leaves both alone.                            *)
THEOREM ReportRunsThePasses == ReportSpec => Spec
  <1>1. ReportInit => Init
    BY DEF ReportInit
  <1>2. [ReportNext]_<<vars, report>> => [Next]_vars
    BY DEF ReportNext, Analyze, AnalyzePanics, Validate, ReportDatagram, SummaryPanics,
           report, Next
  <1> QED
    BY <1>1, <1>2, PTL DEF ReportSpec, Spec

(* The verdicts in a report agree, whatever the session.                   *)
THEOREM ReportVerdictsAgree == ReportSpec => []CleanIffValid
  BY ReportRunsThePasses, VerdictsAgree, PTL

----------------------------------------------------------------------------
(* The places of a session where a result is found, among its first n      *)
(* datagrams.                                                              *)

ResultsOf(d, what) == { i \in DOMAIN d.decoded : d.decoded[i] = what }

Seen(what, n) ==
    { f \in (1..n) \X Nat : f[2] \in ResultsOf(session[f[1]], what) }

Flawed(d) == d.decoded = << >> \/ \E i \in DOMAIN d.decoded : d.decoded[i] = Failed

CountsKnow ==
    /\ \A what \in Kinds \cup {Failed} : IsFiniteSet(Seen(what, analyzed))
    /\ \A kind \in Kinds : analysis.counts[kind] = Cardinality(Seen(kind, analyzed))
    /\ analysis.errors = Cardinality(Seen(Failed, analyzed))

IssuesKnow ==
    { validation.issues[n] : n \in DOMAIN validation.issues }
      = { k \in 1..validated : Flawed(session[k]) }

ReportsKnow ==
    /\ reports \in Seq(Seq(Kinds \cup {Failed}))
    /\ Len(reports) <= Len(session)
    /\ \A k \in DOMAIN reports : reports[k] = session[k].decoded
    /\ reports # << >> => Finished

RInv == IInv /\ TypeOK /\ CountsKnow /\ IssuesKnow /\ ReportsKnow

----------------------------------------------------------------------------
(* One datagram adds its results to those seen before.                     *)

LEMMA ResultsFinite ==
    ASSUME NEW d \in Datagram, NEW what
    PROVE  /\ IsFiniteSet(ResultsOf(d, what))
           /\ ResultsOf(d, what) \subseteq Nat
  <1>1. d.decoded \in Seq(Kinds \cup {Failed})
    BY DEF Datagram
  <1>2. DOMAIN d.decoded = 1..Len(d.decoded) /\ Len(d.decoded) \in Nat
    BY <1>1
  <1>3. IsFiniteSet(1..Len(d.decoded))
    BY <1>2, FS_Interval
  <1>4. ResultsOf(d, what) \in SUBSET (1..Len(d.decoded))
    BY <1>2 DEF ResultsOf
  <1>5. IsFiniteSet(ResultsOf(d, what))
    BY <1>3, <1>4, FS_Subset, Zenon
  <1> QED
    BY <1>2, <1>4, <1>5

LEMMA Placed ==
    ASSUME NEW k \in Nat, NEW S \in SUBSET Nat, IsFiniteSet(S)
    PROVE  /\ IsFiniteSet({k} \X S)
           /\ Cardinality({k} \X S) = Cardinality(S)
  <1> DEFINE f == [i \in S |-> <<k, i>>]
  <1>1. f \in [S -> {k} \X S]
    OBVIOUS
  <1>2. \A a, b \in S : f[a] = f[b] => a = b
    OBVIOUS
  <1>3. \A t \in {k} \X S : \E s \in S : f[s] = t
    <2> SUFFICES ASSUME NEW t \in {k} \X S PROVE \E s \in S : f[s] = t
      OBVIOUS
    <2>1. t[2] \in S /\ t = <<k, t[2]>>
      OBVIOUS
    <2>2. f[t[2]] = t
      BY <2>1
    <2> QED
      BY <2>1, <2>2
  <1> HIDE DEF f
  <1>4. f \in Bijection(S, {k} \X S)
    BY <1>1, <1>2, <1>3, Fun_IsBij, Zenon
  <1>5. ExistsBijection(S, {k} \X S)
    BY <1>4 DEF ExistsBijection
  <1> QED
    BY <1>5, FS_Bijection, Zenon

LEMMA SeenNext ==
    ASSUME NEW n \in Nat, NEW what, session[n + 1] \in Datagram,
           IsFiniteSet(Seen(what, n))
    PROVE  /\ IsFiniteSet(Seen(what, n + 1))
           /\ Cardinality(Seen(what, n + 1))
                = Cardinality(Seen(what, n)) + Cardinality(ResultsOf(session[n + 1], what))
  <1> DEFINE new == {n + 1} \X ResultsOf(session[n + 1], what)
  <1>1. /\ IsFiniteSet(ResultsOf(session[n + 1], what))
        /\ ResultsOf(session[n + 1], what) \in SUBSET Nat
    BY ResultsFinite
  <1>2. /\ IsFiniteSet(new)
        /\ Cardinality(new) = Cardinality(ResultsOf(session[n + 1], what))
    BY <1>1, Placed
  <1>3. Seen(what, n + 1) = Seen(what, n) \cup new
    <2>1. 1..n + 1 = 1..n \cup {n + 1}
      OBVIOUS
    <2> QED
      BY <1>1, <2>1 DEF Seen
  <1>4. Seen(what, n) \cap new = {}
    BY DEF Seen
  <1> HIDE DEF new
  <1>5. /\ IsFiniteSet(Seen(what, n) \cup new)
        /\ Cardinality(Seen(what, n) \cup new)
             = Cardinality(Seen(what, n)) + Cardinality(new) - 0
    BY <1>2, <1>4, FS_Union, FS_EmptySet
  <1>6. Cardinality(Seen(what, n)) \in Nat /\ Cardinality(new) \in Nat
    BY <1>2, FS_CardinalityType
  <1>7. Cardinality(Seen(what, n) \cup new) = Cardinality(Seen(what, n)) + Cardinality(new)
    BY <1>5, <1>6
  <1> QED
    BY <1>2, <1>3, <1>5, <1>7, Zenon

----------------------------------------------------------------------------
(* The invariant *)

LEMMA ReportInitEstablishes == ReportInit => RInv
  <1> SUFFICES ASSUME ReportInit PROVE RInv
    OBVIOUS
  <1>1. IInv /\ TypeOK
    BY InitEstablishes, TypesHoldInitially DEF ReportInit
  <1>2. /\ analyzed = 0 /\ validated = 0 /\ reports = << >>
        /\ analysis.errors = 0 /\ analysis.counts = [kind \in Kinds |-> 0]
        /\ validation.issues = << >>
    BY DEF ReportInit, Init
  <1>3. \A what : Seen(what, 0) = {}
    BY DEF Seen
  <1>4. CountsKnow
    BY <1>2, <1>3, FS_EmptySet DEF CountsKnow
  <1>5. IssuesKnow
    BY <1>2 DEF IssuesKnow
  <1>6. ReportsKnow
    BY <1>1, <1>2 DEF ReportsKnow, IInv
  <1> QED
    BY <1>1, <1>4, <1>5, <1>6 DEF RInv

LEMMA AnalyzeCounts ==
    ASSUME RInv, AnalyzeDatagram
    PROVE  CountsKnow'
  <1> DEFINE d == session[analyzed + 1]
             n == analyzed
  <1>1. /\ n \in Nat /\ d \in Datagram
        /\ analyzed' = n + 1 /\ session' = session
    BY DEF RInv, IInv, AnalysisKnows, AnalyzeDatagram
  <1>2. analysis' = Analyzed(analysis, d)
    BY DEF AnalyzeDatagram
  <1>4. \A what \in Kinds \cup {Failed} :
          /\ IsFiniteSet(Seen(what, n + 1))
          /\ Cardinality(Seen(what, n + 1))
               = Cardinality(Seen(what, n)) + Cardinality(ResultsOf(d, what))
    BY <1>1, SeenNext DEF RInv, CountsKnow
  <1>5. /\ \A kind \in Kinds : OfKind(d, kind) = ResultsOf(d, kind)
        /\ Errors(d) = ResultsOf(d, Failed)
    BY DEF OfKind, Errors, ResultsOf
  <1>6. /\ \A kind \in Kinds : analysis'.counts[kind]
             = analysis.counts[kind] + Cardinality(OfKind(d, kind))
        /\ analysis'.errors = analysis.errors + Cardinality(Errors(d))
    BY <1>2 DEF Analyzed
  <1>7. \A what \in Kinds \cup {Failed} : Seen(what, analyzed)' = Seen(what, n + 1)
    BY <1>1 DEF Seen, ResultsOf
  <1>8. /\ \A kind \in Kinds : analysis'.counts[kind] = Cardinality(Seen(kind, n + 1))
        /\ analysis'.errors = Cardinality(Seen(Failed, n + 1))
    BY <1>4, <1>5, <1>6 DEF RInv, CountsKnow
  <1> HIDE DEF d, n
  <1> QED
    BY <1>4, <1>7, <1>8 DEF CountsKnow

LEMMA ValidateIssues ==
    ASSUME RInv, ValidateDatagram
    PROVE  IssuesKnow'
  <1> DEFINE d == session[validated + 1]
             n == validated
             new == Issues(d, n + 1)
             Of(s) == { s[i] : i \in DOMAIN s }
  <1>1. /\ n \in Nat /\ d \in Datagram
        /\ validated' = n + 1 /\ session' = session
        /\ validation.issues \in Seq(Nat)
    BY DEF RInv, IInv, ValidationKnows, ValidateDatagram
  <1>8. validation'.issues = validation.issues \o new
    BY DEF ValidateDatagram
  <1>2. new \in Seq(Nat) /\ Of(new) = IF Flawed(d) THEN {n + 1} ELSE {}
    <2>1. CASE d.decoded = << >>
      <3>1. new = <<n + 1>> /\ Flawed(d)
        BY <2>1 DEF Issues, Flawed
      <3> HIDE DEF new, n
      <3>2. new \in Seq(Nat) /\ DOMAIN new = 1..1 /\ new[1] = n + 1
        BY <1>1, <3>1
      <3>3. Of(new) = {n + 1}
        BY <3>2
      <3> QED
        BY <3>1, <3>2, <3>3
    <2>2. CASE d.decoded # << >>
      <3> DEFINE c == Cardinality(Errors(d))
      <3>1. c \in Nat /\ (c = 0 <=> Errors(d) = {})
        BY <1>1, ErrorsCount
      <3>2. new = [i \in 1..c |-> n + 1]
        BY <2>2 DEF Issues
      <3>3. Flawed(d) <=> c # 0
        BY <2>2, <3>1 DEF Flawed, Errors
      <3> HIDE DEF c, d, n
      <3>4. new \in Seq(Nat) /\ DOMAIN new = 1..c
        BY <1>1, <3>1, <3>2
      <3>5. c # 0 => 1 \in 1..c
        BY <3>1
      <3>6. c = 0 => 1..c = {}
        BY <3>1
      <3>7. \A i \in 1..c : new[i] = n + 1
        BY <3>2
      <3> HIDE DEF new
      <3>8. Of(new) = IF c # 0 THEN {n + 1} ELSE {}
        BY <3>4, <3>5, <3>6, <3>7
      <3> QED
        BY <3>3, <3>4, <3>8
    <2> QED
      BY <2>1, <2>2
  <1> HIDE DEF new
  <1>3. Of(validation.issues \o new) = Of(validation.issues) \cup Of(new)
    <2> DEFINE s == validation.issues
    <2>1. s \in Seq(Nat) /\ new \in Seq(Nat)
      BY <1>1, <1>2
    <2> HIDE DEF s
    <2>2. /\ DOMAIN (s \o new) = 1..Len(s) + Len(new)
          /\ DOMAIN s = 1..Len(s) /\ DOMAIN new = 1..Len(new)
          /\ Len(s) \in Nat /\ Len(new) \in Nat
      BY <2>1
    <2>3. \A i \in DOMAIN s : i \in DOMAIN (s \o new) /\ (s \o new)[i] = s[i]
      BY <2>1, <2>2
    <2>4. \A i \in DOMAIN new :
            i + Len(s) \in DOMAIN (s \o new) /\ (s \o new)[i + Len(s)] = new[i]
      BY <2>1, <2>2
    <2>5. \A i \in DOMAIN (s \o new) :
            \/ i \in DOMAIN s
            \/ \E j \in DOMAIN new : i = j + Len(s)
      <3> SUFFICES ASSUME NEW i \in DOMAIN (s \o new), i \notin DOMAIN s
                   PROVE  i - Len(s) \in DOMAIN new /\ i = (i - Len(s)) + Len(s)
        OBVIOUS
      <3> QED
        BY <2>2
    <2>6. Of(s \o new) = Of(s) \cup Of(new)
      BY <2>3, <2>4, <2>5
    <2> QED
      BY <2>6 DEF s
  <1>4. { k \in 1..n + 1 : Flawed(session[k]) }
          = { k \in 1..n : Flawed(session[k]) } \cup (IF Flawed(d) THEN {n + 1} ELSE {})
    <2>1. 1..n + 1 = 1..n \cup {n + 1}
      BY <1>1
    <2> QED
      BY <2>1
  <1>5. { k \in 1..validated : Flawed(session[k]) }'
          = { k \in 1..n + 1 : Flawed(session[k]) }
    BY <1>1 DEF Flawed
  <1>6. Of(validation.issues) = { k \in 1..n : Flawed(session[k]) }
    BY DEF RInv, IssuesKnow
  <1>7. Of(validation'.issues) = { k \in 1..n + 1 : Flawed(session[k]) }
    <2>1. Of(validation'.issues) = Of(validation.issues) \cup Of(new)
      BY <1>3, <1>8
    <2> HIDE DEF Of, d, n
    <2> QED
      BY <2>1, <1>2, <1>4, <1>6
  <1> QED
    BY <1>5, <1>7 DEF IssuesKnow

LEMMA CountsStay ==
    ASSUME CountsKnow, UNCHANGED <<session, analyzed, analysis>>
    PROVE  CountsKnow'
  <1>1. \A what : Seen(what, analyzed)' = Seen(what, analyzed)
    BY DEF Seen, ResultsOf
  <1> QED
    BY <1>1 DEF CountsKnow

LEMMA IssuesStay ==
    ASSUME IssuesKnow, UNCHANGED <<session, validated, validation>>
    PROVE  IssuesKnow'
  BY DEF IssuesKnow, Flawed

LEMMA ReportNextKeeps == RInv /\ [ReportNext]_<<vars, report>> => RInv'
  <1> SUFFICES ASSUME RInv, [ReportNext]_<<vars, report>> PROVE RInv'
    OBVIOUS
  <1>1. IInv' /\ TypeOK'
    <2>1. [Next]_vars
      BY DEF ReportNext, Analyze, AnalyzePanics, Validate, ReportDatagram, SummaryPanics,
             report, Next
    <2> QED
      BY <2>1, NextKeeps, TypesKept DEF RInv
  <1>2. CASE Analyze
    <2>1. CountsKnow'
      BY <1>2, AnalyzeCounts DEF Analyze
    <2>2. IssuesKnow'
      BY <1>2, IssuesStay DEF Analyze, AnalyzeDatagram, RInv
    <2>3. ReportsKnow'
      BY <1>2 DEF Analyze, AnalyzeDatagram, RInv, ReportsKnow, Finished, report, IInv
    <2> QED
      BY <1>1, <2>1, <2>2, <2>3 DEF RInv
  <1>3. CASE Validate
    <2>1. CountsKnow'
      BY <1>3, CountsStay DEF Validate, ValidateDatagram, RInv
    <2>2. IssuesKnow'
      BY <1>3, ValidateIssues DEF Validate
    <2>3. ReportsKnow'
      BY <1>3 DEF Validate, ValidateDatagram, RInv, ReportsKnow, Finished, report, IInv
    <2> QED
      BY <1>1, <2>1, <2>2, <2>3 DEF RInv
  <1>4. CASE ReportDatagram
    <2> DEFINE k == Len(reports) + 1
    <2>1. /\ Finished /\ Len(reports) < Len(session)
          /\ reports' = Append(reports, session[k].decoded)
          /\ UNCHANGED vars
      BY <1>4 DEF ReportDatagram, Reporting, Frames
    <2>2. /\ session \in Seq(Datagram) /\ reports \in Seq(Seq(Kinds \cup {Failed}))
          /\ \A j \in DOMAIN reports : reports[j] = session[j].decoded
      BY DEF RInv, IInv, ReportsKnow
    <2>3. k \in 1..Len(session) /\ session[k] \in Datagram
      BY <2>1, <2>2
    <2>4. session[k].decoded \in Seq(Kinds \cup {Failed})
      BY <2>3 DEF Datagram
    <2>5. /\ reports' \in Seq(Seq(Kinds \cup {Failed}))
          /\ Len(reports') = k
          /\ \A j \in DOMAIN reports' : reports'[j] = session[j].decoded
      BY <2>1, <2>2, <2>4
    <2>6. ReportsKnow'
      BY <2>1, <2>3, <2>5 DEF ReportsKnow, Finished, vars
    <2>7. CountsKnow' /\ IssuesKnow'
      BY <2>1, CountsStay, IssuesStay DEF vars, RInv
    <2> QED
      BY <1>1, <2>6, <2>7 DEF RInv
  <1>5. CASE AnalyzePanics \/ SummaryPanics \/ UNCHANGED <<vars, report>>
    <2>1. CountsKnow' /\ IssuesKnow'
      BY <1>5, CountsStay, IssuesStay
         DEF AnalyzePanics, AnalysisPanics, SummaryPanics, vars, RInv
    <2>2. ReportsKnow'
      BY <1>5 DEF AnalyzePanics, AnalysisPanics, SummaryPanics, vars, report, RInv,
                  ReportsKnow, Finished
    <2> QED
      BY <1>1, <2>1, <2>2 DEF RInv
  <1> QED
    BY <1>2, <1>3, <1>4, <1>5 DEF ReportNext

----------------------------------------------------------------------------

LEMMA ReportsTellTheSame == RInv => ReportAgrees
  <1> SUFFICES ASSUME RInv, Len(reports) = Len(session) PROVE ReportAgrees
    BY DEF ReportAgrees
  <1> DEFINE N == Len(session)
             all == UNION { { <<k, i>> : i \in DOMAIN reports[k] } : k \in DOMAIN reports }
             Shown(what) == { f \in all : reports[f[1]][f[2]] = what }
  <1>1. /\ session \in Seq(Datagram) /\ reports \in Seq(Seq(Kinds \cup {Failed}))
        /\ analyzed \in 0..N /\ validated \in 0..N
        /\ \A k \in DOMAIN reports : reports[k] = session[k].decoded
    BY DEF RInv, IInv, AnalysisKnows, ValidationKnows, ReportsKnow
  <1>0. N \in Nat /\ DOMAIN reports = 1..N
    BY <1>1
  <1>2. Finished
    <2>1. CASE reports = << >>
      <3>1. N = 0
        BY <1>1, <2>1
      <3> QED
        BY <1>1, <1>0, <3>1 DEF Finished
    <2>2. CASE reports # << >>
      BY <2>2 DEF RInv, ReportsKnow
    <2> QED
      BY <2>1, <2>2
  <1>3. \A k \in 1..N : \A i \in DOMAIN reports[k] : i \in Nat
    <2> SUFFICES ASSUME NEW k \in 1..N, NEW i \in DOMAIN reports[k] PROVE i \in Nat
      OBVIOUS
    <2>1. reports[k] \in Seq(Kinds \cup {Failed})
      BY <1>0, <1>1
    <2> QED
      BY <2>1
  <1>4. ASSUME NEW what PROVE Shown(what) = Seen(what, N)
    <2>1. all = { f \in (1..N) \X Nat : f[2] \in DOMAIN reports[f[1]] }
      BY <1>0, <1>3
    <2> HIDE DEF all
    <2>2. Shown(what) = { f \in (1..N) \X Nat :
                            /\ f[2] \in DOMAIN reports[f[1]]
                            /\ reports[f[1]][f[2]] = what }
      BY <2>1
    <2>3. \A f \in (1..N) \X Nat : reports[f[1]] = session[f[1]].decoded
      BY <1>0, <1>1
    <2> QED
      BY <2>2, <2>3 DEF Seen, ResultsOf
  <1>5. /\ \A kind \in Kinds : Cardinality(Shown(kind)) = analysis.counts[kind]
        /\ Cardinality(Shown(Failed)) = analysis.errors
    BY <1>2, <1>4 DEF RInv, CountsKnow, Finished
  <1>6. { k \in DOMAIN reports :
            reports[k] = << >> \/ \E i \in DOMAIN reports[k] : reports[k][i] = Failed }
          = { validation.issues[n] : n \in DOMAIN validation.issues }
    BY <1>0, <1>1, <1>2 DEF RInv, IssuesKnow, Finished, Flawed
  <1> QED
    BY <1>2, <1>5, <1>6 DEF ReportAgrees

(* The frames a report shows are those that were counted and validated.    *)
THEOREM ReportIsConsistent == ReportSpec => []ReportAgrees
  BY ReportInitEstablishes, ReportNextKeeps, ReportsTellTheSame, PTL DEF ReportSpec

(* The types of the passes hold while a report is made.                    *)
THEOREM ReportTypeCorrect == ReportSpec => []TypeOK
  BY ReportRunsThePasses, TypeCorrect, PTL

----------------------------------------------------------------------------
(* The sums. Each is a sum over the datagrams that a pass has been through. *)

Delays(k) == [i \in 1..k |-> Delay(session[i])]
Lengths(k) == [i \in 1..k |-> Len(session[i].decoded)]

\* The errors of a datagram, and one if it is empty.
FlawCount(d) == Cardinality(Errors(d)) + (IF d.decoded = << >> THEN 1 ELSE 0)
Flaws(k) == [i \in 1..k |-> FlawCount(session[i])]

DelaysKnow ==
    LET sum == SumOver(1..analyzed, Delays(analyzed)) IN
      /\ analysis.totalDelay = sum % DelayLimit
      /\ checked => analysis.totalDelay = sum
      /\ panicked => SumOver(1..analyzed + 1, Delays(analyzed + 1)) >= DelayLimit

ResultsKnow ==
    /\ analysis.messages + analysis.errors = SumOver(1..analyzed, Lengths(analyzed))
    /\ analysis.messages = SumOver(Kinds, analysis.counts)
    /\ \A i \in 1..analyzed : Len(session[i].decoded) <= analysis.largest
    /\ analysis.errors + analysis.empty = SumOver(1..analyzed, Flaws(analyzed))

IssuesCounted == Len(validation.issues) = SumOver(1..validated, Flaws(validated))

SumsKnow == DelaysKnow /\ ResultsKnow /\ IssuesCounted

LEMMA SumsNext ==
    ASSUME NEW k \in Nat, k + 1 \in 1..Len(session), session \in Seq(Datagram)
    PROVE  /\ SumOver(1..k + 1, Delays(k + 1)) = SumOver(1..k, Delays(k)) + Delay(session[k + 1])
           /\ SumOver(1..k + 1, Lengths(k + 1)) = SumOver(1..k, Lengths(k)) + Len(session[k + 1].decoded)
           /\ SumOver(1..k + 1, Flaws(k + 1)) = SumOver(1..k, Flaws(k)) + FlawCount(session[k + 1])
           /\ SumOver(1..k, Delays(k)) \in Nat /\ SumOver(1..k, Lengths(k)) \in Nat
           /\ SumOver(1..k, Flaws(k)) \in Nat
  <1>1. ASSUME NEW i \in 1..k + 1
        PROVE  /\ Delay(session[i]) \in Nat /\ Len(session[i].decoded) \in Nat
               /\ FlawCount(session[i]) \in Nat
    <2>1. session[i] \in Datagram
      OBVIOUS
    <2>2. Cardinality(Errors(session[i])) \in Nat /\ Len(session[i].decoded) \in Nat
      BY <2>1, ErrorsCount, ResultsCount
    <2>3. Delay(session[i]) \in Nat
      BY <2>1, DelayAssumption DEF Delay, Datagram
    <2> QED
      BY <2>2, <2>3 DEF FlawCount
  <1>2. k + 1 \in 1..k + 1 /\ \A i \in 1..k : i \in 1..k + 1
    OBVIOUS
  <1>3. /\ \A i \in 1..k : Delays(k)[i] \in Nat /\ Delays(k)[i] = Delays(k + 1)[i]
        /\ Delays(k + 1)[k + 1] = Delay(session[k + 1]) /\ Delays(k + 1)[k + 1] \in Nat
    BY ONLY <1>1, <1>2 DEF Delays
  <1>4. /\ \A i \in 1..k : Lengths(k)[i] \in Nat /\ Lengths(k)[i] = Lengths(k + 1)[i]
        /\ Lengths(k + 1)[k + 1] = Len(session[k + 1].decoded) /\ Lengths(k + 1)[k + 1] \in Nat
    BY ONLY <1>1, <1>2 DEF Lengths
  <1>5. /\ \A i \in 1..k : Flaws(k)[i] \in Nat /\ Flaws(k)[i] = Flaws(k + 1)[i]
        /\ Flaws(k + 1)[k + 1] = FlawCount(session[k + 1]) /\ Flaws(k + 1)[k + 1] \in Nat
    BY ONLY <1>1, <1>2 DEF Flaws
  <1>6. /\ SumOver(1..k + 1, Delays(k + 1)) = SumOver(1..k, Delays(k)) + Delays(k + 1)[k + 1]
        /\ SumOver(1..k, Delays(k)) \in Nat
    BY <1>3, NextTerm
  <1>7. /\ SumOver(1..k + 1, Lengths(k + 1)) = SumOver(1..k, Lengths(k)) + Lengths(k + 1)[k + 1]
        /\ SumOver(1..k, Lengths(k)) \in Nat
    BY <1>4, NextTerm
  <1>8. /\ SumOver(1..k + 1, Flaws(k + 1)) = SumOver(1..k, Flaws(k)) + Flaws(k + 1)[k + 1]
        /\ SumOver(1..k, Flaws(k)) \in Nat
    BY <1>5, NextTerm
  <1> QED
    BY ONLY <1>3, <1>4, <1>5, <1>6, <1>7, <1>8

(* Wrapping after each addition wraps the sum.                             *)
LEMMA RemainderUnique ==
    ASSUME NEW L \in Nat \ {0}, NEW a \in Nat, NEW q \in Int, NEW r \in 0..L - 1, a = L * q + r
    PROVE  r = a % L
  <1> DEFINE p == a \div L
             s == a % L
  <1>1. p \in Int /\ s \in 0..L - 1 /\ a = L * p + s
    OBVIOUS
  <1> HIDE DEF p, s
  <1>2. L * (q - p) = s - r
    BY <1>1
  <1>3. q - p >= 1 => L * (q - p) >= L
    BY <1>1
  <1>4. q - p <= 0 - 1 => L * (q - p) <= 0 - L
    BY <1>1
  <1>5. q - p = 0
    BY <1>1, <1>2, <1>3, <1>4
  <1>6. L * (q - p) = 0
    BY <1>5
  <1>7. r = s
    BY <1>1, <1>2, <1>6
  <1> QED
    BY <1>7 DEF s

LEMMA WrapsOnce ==
    ASSUME NEW L \in Nat \ {0}, NEW a \in Nat, NEW b \in Nat
    PROVE  ((a % L) + b) % L = (a + b) % L
  <1> DEFINE p == a \div L
             s == a % L
             c == s + b
             q == c \div L
             r == c % L
  <1>1. p \in Int /\ s \in 0..L - 1 /\ a = L * p + s
    OBVIOUS
  <1> HIDE DEF p, s
  <1>2. c \in Nat
    BY <1>1
  <1>3. q \in Int /\ r \in 0..L - 1 /\ c = L * q + r
    <2> HIDE DEF c
    <2> QED
      BY <1>2
  <1>4. c = s + b
    OBVIOUS
  <1> HIDE DEF c, q, r
  <1>5. a + b = L * (p + q) + r
    BY <1>1, <1>2, <1>3, <1>4
  <1>6. a + b \in Nat /\ p + q \in Int
    BY <1>1, <1>3
  <1>7. r = (a + b) % L
    BY <1>3, <1>5, <1>6, RemainderUnique
  <1> QED
    BY <1>7 DEF r, c, s

(* Every result of a datagram is an error or a message, and every message  *)
(* is of one kind.                                                         *)
LEMMA DisjointCount ==
    ASSUME NEW S, IsFiniteSet(S), NEW T, IsFiniteSet(T), S \cap T = {}
    PROVE  /\ Cardinality(S \cup T) = Cardinality(S) + Cardinality(T)
           /\ Cardinality(S) \in Nat /\ Cardinality(T) \in Nat
  <1>1. Cardinality(S \cup T) = Cardinality(S) + Cardinality(T) - 0
    BY FS_Union, FS_EmptySet
  <1>2. Cardinality(S) \in Nat /\ Cardinality(T) \in Nat
    BY FS_CardinalityType
  <1> QED
    BY <1>1, <1>2

LEMMA ResultsSplit ==
    ASSUME NEW d \in Datagram
    PROVE  Cardinality(Messages(d)) + Cardinality(Errors(d)) = Len(d.decoded)
  <1>1. d.decoded \in Seq(Kinds \cup {Failed})
    BY DEF Datagram
  <1>2. DOMAIN d.decoded = 1..Len(d.decoded) /\ Len(d.decoded) \in Nat
    BY <1>1
  <1>3. IsFiniteSet(1..Len(d.decoded)) /\ Cardinality(1..Len(d.decoded)) = Len(d.decoded)
    <2>1. Cardinality(1..Len(d.decoded)) = Len(d.decoded) - 1 + 1 \/ Len(d.decoded) < 1
      BY <1>2, FS_Interval
    <2>2. Len(d.decoded) < 1 => Len(d.decoded) = 0 /\ 1..Len(d.decoded) = {}
      BY <1>2
    <2> QED
      BY <1>2, <2>1, <2>2, FS_Interval, FS_EmptySet
  <1>4. Messages(d) \in SUBSET (1..Len(d.decoded)) /\ Errors(d) \in SUBSET (1..Len(d.decoded))
    BY <1>2 DEF Messages, Errors
  <1>5. IsFiniteSet(Messages(d)) /\ IsFiniteSet(Errors(d))
    BY <1>3, <1>4, FS_Subset, Zenon
  <1>6. Messages(d) \cap Errors(d) = {} /\ Messages(d) \cup Errors(d) = 1..Len(d.decoded)
    BY <1>2, <1>4 DEF Messages
  <1>7. Cardinality(Messages(d) \cup Errors(d)) = Cardinality(Messages(d)) + Cardinality(Errors(d))
    BY <1>5, <1>6, DisjointCount
  <1> QED
    BY <1>3, <1>6, <1>7

PerKind(d) == [kind \in Kinds |-> Cardinality(OfKind(d, kind))]

LEMMA KindsSplit ==
    ASSUME NEW d \in Datagram
    PROVE  SumOver(Kinds, PerKind(d)) = Cardinality(Messages(d))
  <1> DEFINE Of(K) == { i \in DOMAIN d.decoded : d.decoded[i] \in K }
  <1> PICK w : w = PerKind(d)
    OBVIOUS
  <1>1. d.decoded \in Seq(Kinds \cup {Failed})
    BY DEF Datagram
  <1>2. DOMAIN d.decoded = 1..Len(d.decoded) /\ Len(d.decoded) \in Nat
    BY <1>1
  <1>3. IsFiniteSet(1..Len(d.decoded))
    BY <1>2, FS_Interval
  <1>4. ASSUME NEW K PROVE IsFiniteSet(Of(K))
    <2>1. Of(K) \in SUBSET (1..Len(d.decoded))
      BY <1>2
    <2> HIDE DEF Of
    <2> QED
      BY <1>3, <2>1, FS_Subset, Zenon
  <1>5. \A x \in Kinds : w[x] \in Nat /\ w[x] = Cardinality(Of({x}))
    <2>1. \A x \in Kinds : Of({x}) = OfKind(d, x)
      BY DEF OfKind
    <2> HIDE DEF Of
    <2> QED
      BY <2>1, ResultsCount DEF PerKind
  <1>6. Messages(d) = Of(Kinds)
    BY <1>1, FailedAssumption DEF Messages, Errors
  <1> DEFINE P == { K \in SUBSET Kinds : SumOver(K, w) = Cardinality(Of(K)) }
  <1>7. ASSUME NEW K \in SUBSET Kinds, \A x \in K : K \ {x} \in P PROVE K \in P
    <2>1. CASE K = {}
      <3>1. Of(K) = {}
        BY <2>1
      <3> HIDE DEF Of
      <3> QED
        BY <2>1, <3>1, SumOfNone, FS_EmptySet
    <2>2. CASE K # {}
      <3>1. PICK x : x \in K
        BY <2>2
      <3> PICK R : R = K \ {x}
        OBVIOUS
      <3>2. /\ R \in SUBSET Kinds /\ SumOver(R, w) = Cardinality(Of(R))
            /\ x \notin R /\ R \cup {x} = K /\ x \in Kinds
        BY <1>7, <3>1
      <3>3. Of(K) = Of(R) \cup Of({x}) /\ Of(R) \cap Of({x}) = {}
        BY <3>1
      <3> HIDE DEF Of
      <3>4. Cardinality(Of(K)) = Cardinality(Of(R)) + Cardinality(Of({x}))
        BY <1>4, <3>3, DisjointCount
      <3>5. IsFiniteSet(R)
        BY <3>2, KindsAssumption, FS_Subset, Zenon
      <3>6. \A y \in R : w[y] \in Nat /\ w[y] = w[y]
        BY <1>5, <3>2
      <3>7. SumOver(R \cup {x}, w) = SumOver(R, w) + w[x]
        <4>1. x \notin R /\ w[x] \in Nat
          BY <1>5, <3>2
        <4>2. PICK v : v = w
          OBVIOUS
        <4>3. \A y \in R : v[y] \in Nat /\ v[y] = w[y]
          BY <3>6, <4>2
        <4>4. SumOver(R \cup {x}, w) = SumOver(R, v) + w[x]
          BY ONLY <3>5, <4>1, <4>3, SumAdds
        <4> QED
          BY <4>2, <4>4
      <3>8. SumOver(K, w) = Cardinality(Of(K))
        BY <1>5, <3>2, <3>4, <3>7
      <3> QED
        BY <3>8
    <2> QED
      BY <2>1, <2>2
  <1> HIDE DEF P
  <1>8. SUBSET Kinds \subseteq P
    BY <1>7, KindsAssumption, SubsetInduction
  <1>9. Kinds \in P
    BY <1>8
  <1> QED
    BY <1>6, <1>9 DEF P

LEMMA SumOfZeros ==
    ASSUME NEW S, IsFiniteSet(S), NEW w, \A x \in S : w[x] = 0
    PROVE  SumOver(S, w) = 0
  <1>1. PICK u, v : u = w /\ v = w
    OBVIOUS
  <1>2. \A x \in S : u[x] \in Nat /\ v[x] \in Nat /\ w[x] = u[x] + v[x]
    BY <1>1
  <1>3. SumOver(S, w) = SumOver(S, u) + SumOver(S, v)
    BY <1>2, SumOfSums
  <1>4. SumOver(S, u) \in Nat
    BY <1>2, SumType
  <1>5. SumOver(S, u) = SumOver(S, w) /\ SumOver(S, v) = SumOver(S, w)
    BY ONLY <1>1, Zenon
  <1> DEFINE total == SumOver(S, w)
  <1>6. total = total + total /\ total \in Nat
    BY ONLY <1>3, <1>4, <1>5, Zenon
  <1> HIDE DEF total
  <1>7. total = 0
    BY <1>6
  <1> QED
    BY <1>7 DEF total

(* The sums after the steps of the two passes. *)
LEMMA SumsHoldInitially == Init => SumsKnow
  <1> SUFFICES ASSUME Init PROVE SumsKnow
    OBVIOUS
  <1>1. /\ analyzed = 0 /\ validated = 0 /\ panicked = FALSE
        /\ analysis.totalDelay = 0 /\ analysis.messages = 0 /\ analysis.errors = 0
        /\ analysis.empty = 0 /\ analysis.counts = [kind \in Kinds |-> 0]
        /\ validation.issues = << >>
    BY DEF Init
  <1>2. 1..0 = {}
    OBVIOUS
  <1>3. /\ SumOver(1..0, Delays(0)) = 0 /\ SumOver(1..0, Lengths(0)) = 0
        /\ SumOver(1..0, Flaws(0)) = 0
    BY <1>2, SumOfNone
  <1>4. SumOver(Kinds, analysis.counts) = 0
    <2>1. PICK w : w = analysis.counts
      OBVIOUS
    <2>2. \A kind \in Kinds : w[kind] = 0
      BY <1>1, <2>1
    <2>3. SumOver(Kinds, w) = 0
      BY <2>2, KindsAssumption, SumOfZeros
    <2> QED
      BY <2>1, <2>3
  <1>5. 0 % DelayLimit = 0
    BY DelayAssumption
  <1>6. DelaysKnow
    BY <1>1, <1>3, <1>5 DEF DelaysKnow
  <1>7. ResultsKnow
    BY <1>1, <1>3, <1>4 DEF ResultsKnow
  <1>8. IssuesCounted
    BY <1>1, <1>3 DEF IssuesCounted
  <1> QED
    BY <1>6, <1>7, <1>8 DEF SumsKnow


LEMMA AnalyzeSumsDelays ==
    ASSUME IInv, TypeOK, DelaysKnow, AnalyzeDatagram
    PROVE  DelaysKnow'
  <1> PICK n, d : n = analyzed /\ d = session[n + 1]
    OBVIOUS
  <1>1. /\ n \in Nat /\ n + 1 \in 1..Len(session) /\ session \in Seq(Datagram)
        /\ d \in Datagram /\ analyzed' = n + 1 /\ session' = session
    BY DEF IInv, AnalysisKnows, AnalyzeDatagram
  <1>2. /\ analysis'.totalDelay = (analysis.totalDelay + Delay(d)) % DelayLimit
        /\ ~ panicked /\ panicked' = panicked /\ checked' = checked
        /\ checked => ~ (analysis.totalDelay + Delay(d) >= DelayLimit)
    BY DEF AnalyzeDatagram, Analyzed, TotalDelay, Overflow
  <1> PICK before, after : /\ before = SumOver(1..n, Delays(n))
                           /\ after = SumOver(1..n + 1, Delays(n + 1))
    OBVIOUS
  <1>3. after = before + Delay(d) /\ before \in Nat
    BY <1>1, SumsNext
  <1>4. /\ analysis.totalDelay = before % DelayLimit
        /\ checked => analysis.totalDelay = before
    BY DEF DelaysKnow
  <1>5. Delay(d) \in Nat /\ DelayLimit \in Nat \ {0}
    BY <1>1, DelayAssumption DEF Delay, Datagram
  <1>6. analysis'.totalDelay = after % DelayLimit
    BY ONLY <1>2, <1>3, <1>4, <1>5, WrapsOnce
  <1>7. checked => analysis'.totalDelay = after
    <2> SUFFICES ASSUME checked PROVE analysis'.totalDelay = after
      OBVIOUS
    <2>1. after < DelayLimit
      BY ONLY <1>2, <1>3, <1>4, <1>5, checked
    <2> QED
      BY ONLY <1>3, <1>5, <1>6, <2>1
  <1>8. SumOver(1..analyzed, Delays(analyzed))' = after
    BY <1>1 DEF Delays, Delay
  <1> QED
    BY <1>2, <1>6, <1>7, <1>8 DEF DelaysKnow

LEMMA AnalyzeSumsResults ==
    ASSUME IInv, TypeOK, ResultsKnow, AnalyzeDatagram
    PROVE  ResultsKnow'
  <1> PICK n, d : n = analyzed /\ d = session[n + 1]
    OBVIOUS
  <1>1. /\ n \in Nat /\ n + 1 \in 1..Len(session) /\ session \in Seq(Datagram)
        /\ d \in Datagram /\ analyzed' = n + 1 /\ session' = session
    BY DEF IInv, AnalysisKnows, AnalyzeDatagram
  <1>2. analysis' = Analyzed(analysis, d) /\ analysis \in Analyses
    BY DEF AnalyzeDatagram, TypeOK
  <1> PICK errors, messages, flaw :
         /\ errors = Cardinality(Errors(d)) /\ messages = Cardinality(Messages(d))
         /\ flaw = IF d.decoded = << >> THEN 1 ELSE 0
    OBVIOUS
  <1>3. /\ errors \in Nat /\ messages \in Nat /\ flaw \in Nat
        /\ messages + errors = Len(d.decoded) /\ FlawCount(d) = errors + flaw
        /\ Len(d.decoded) \in Nat
    BY <1>1, ErrorsCount, ResultsCount, ResultsSplit DEF FlawCount
  <1>4. /\ analysis'.messages = analysis.messages + messages
        /\ analysis'.errors = analysis.errors + errors
        /\ analysis'.empty = analysis.empty + flaw
        /\ analysis'.largest = Larger(analysis.largest, Len(d.decoded))
        /\ analysis'.counts = [kind \in Kinds |-> analysis.counts[kind] + PerKind(d)[kind]]
    BY <1>2 DEF Analyzed, PerKind
  <1>5. /\ analysis.messages \in Nat /\ analysis.errors \in Nat /\ analysis.empty \in Nat
        /\ analysis.largest \in Nat /\ analysis.counts \in [Kinds -> Nat]
    BY <1>2 DEF Analyses
  <1>6. /\ SumOver(1..n + 1, Lengths(n + 1)) = SumOver(1..n, Lengths(n)) + Len(d.decoded)
        /\ SumOver(1..n + 1, Flaws(n + 1)) = SumOver(1..n, Flaws(n)) + FlawCount(d)
        /\ SumOver(1..n, Lengths(n)) \in Nat /\ SumOver(1..n, Flaws(n)) \in Nat
    BY <1>1, SumsNext
  <1>7. /\ SumOver(1..analyzed, Lengths(analyzed))' = SumOver(1..n + 1, Lengths(n + 1))
        /\ SumOver(1..analyzed, Flaws(analyzed))' = SumOver(1..n + 1, Flaws(n + 1))
    BY <1>1 DEF Lengths, Flaws, FlawCount, Errors
  <1>8. /\ analysis.messages + analysis.errors = SumOver(1..n, Lengths(n))
        /\ analysis.messages = SumOver(Kinds, analysis.counts)
        /\ \A i \in 1..n : Len(session[i].decoded) <= analysis.largest
        /\ analysis.errors + analysis.empty = SumOver(1..n, Flaws(n))
    BY DEF ResultsKnow
  <1>9. analysis'.messages + analysis'.errors = SumOver(1..n + 1, Lengths(n + 1))
    <2>1. (analysis.messages + messages) + (analysis.errors + errors)
            = SumOver(1..n, Lengths(n)) + (messages + errors)
      <3>1. PICK a \in Nat, b \in Nat, s \in Nat :
               a = analysis.messages /\ b = analysis.errors /\ s = SumOver(1..n, Lengths(n))
        BY <1>5, <1>6, Zenon
      <3>2. a + b = s
        BY <1>8, <3>1, Zenon
      <3>3. (a + messages) + (b + errors) = s + (messages + errors)
        BY ONLY <1>3, <3>2, a \in Nat, b \in Nat, s \in Nat
      <3> QED
        BY <3>1, <3>3, Zenon
    <2>2. /\ analysis'.messages = analysis.messages + messages
          /\ analysis'.errors = analysis.errors + errors
          /\ SumOver(1..n + 1, Lengths(n + 1)) = SumOver(1..n, Lengths(n)) + (messages + errors)
      BY <1>3, <1>4, <1>6, Zenon
    <2> QED
      BY ONLY <2>1, <2>2, Zenon
  <1>10. analysis'.errors + analysis'.empty = SumOver(1..n + 1, Flaws(n + 1))
    <2>1. (analysis.errors + errors) + (analysis.empty + flaw)
            = SumOver(1..n, Flaws(n)) + (errors + flaw)
      <3>1. PICK a \in Nat, b \in Nat, s \in Nat :
               a = analysis.errors /\ b = analysis.empty /\ s = SumOver(1..n, Flaws(n))
        BY <1>5, <1>6, Zenon
      <3>2. a + b = s
        BY <1>8, <3>1, Zenon
      <3>3. (a + errors) + (b + flaw) = s + (errors + flaw)
        BY ONLY <1>3, <3>2, a \in Nat, b \in Nat, s \in Nat
      <3> QED
        BY <3>1, <3>3, Zenon
    <2>2. /\ analysis'.errors = analysis.errors + errors
          /\ analysis'.empty = analysis.empty + flaw
          /\ SumOver(1..n + 1, Flaws(n + 1)) = SumOver(1..n, Flaws(n)) + (errors + flaw)
      BY <1>3, <1>4, <1>6, Zenon
    <2> QED
      BY ONLY <2>1, <2>2, Zenon
  <1>11. analysis'.messages = SumOver(Kinds, analysis'.counts)
    <2> PICK u, v, w : u = analysis.counts /\ v = PerKind(d) /\ w = analysis'.counts
      OBVIOUS
    <2>1. \A x \in Kinds : u[x] \in Nat /\ v[x] \in Nat /\ w[x] = u[x] + v[x]
      BY <1>1, <1>4, <1>5, ResultsCount DEF PerKind
    <2>2. SumOver(Kinds, w) = SumOver(Kinds, u) + SumOver(Kinds, v)
      BY <2>1, KindsAssumption, SumOfSums
    <2>3. SumOver(Kinds, v) = messages
      BY <1>1, KindsSplit
    <2>4. SumOver(Kinds, u) = analysis.messages
      BY <1>8
    <2> QED
      BY <1>4, <2>2, <2>3, <2>4
  <1>12. \A i \in 1..n + 1 : Len(session[i].decoded) <= analysis'.largest
    <2> SUFFICES ASSUME NEW i \in 1..n + 1
                 PROVE  Len(session[i].decoded) <= analysis'.largest
      OBVIOUS
    <2>1. Len(session[i].decoded) \in Nat
      BY <1>1, ResultsCount
    <2>2. i = n + 1 \/ Len(session[i].decoded) <= analysis.largest
      BY <1>1, <1>8
    <2>3. i = n + 1 => session[i] = d
      OBVIOUS
    <2> QED
      BY ONLY <1>3, <1>4, <1>5, <2>1, <2>2, <2>3 DEF Larger
  <1> QED
    BY <1>1, <1>7, <1>9, <1>10, <1>11, <1>12 DEF ResultsKnow

LEMMA ValidateSums ==
    ASSUME IInv, TypeOK, IssuesCounted, ValidateDatagram
    PROVE  IssuesCounted'
  <1> PICK n, d : n = validated /\ d = session[n + 1]
    OBVIOUS
  <1>1. /\ n \in Nat /\ n + 1 \in 1..Len(session) /\ session \in Seq(Datagram)
        /\ d \in Datagram /\ validated' = n + 1 /\ session' = session
    BY DEF IInv, ValidationKnows, ValidateDatagram
  <1>2. /\ validation'.issues = validation.issues \o Issues(d, n + 1)
        /\ validation.issues \in Seq(Nat)
    BY DEF ValidateDatagram, IInv, ValidationKnows
  <1>3. Issues(d, n + 1) \in Seq(Nat) /\ Len(Issues(d, n + 1)) = FlawCount(d)
    <2>1. Cardinality(Errors(d)) \in Nat
      BY <1>1, ErrorsCount
    <2>2. CASE d.decoded = << >>
      <3>1. Errors(d) = {}
        BY <2>2 DEF Errors
      <3>2. FlawCount(d) = 1
        <4>1. FlawCount(d) = 0 + 1
          BY <2>2, <3>1, FS_EmptySet DEF FlawCount
        <4> QED
          BY <4>1
      <3>3. Issues(d, n + 1) = <<n + 1>>
        BY <2>2 DEF Issues
      <3>4. <<n + 1>> \in Seq(Nat) /\ Len(<<n + 1>>) = 1
        BY <1>1
      <3> QED
        BY ONLY <3>2, <3>3, <3>4, Zenon
    <2>3. CASE d.decoded # << >>
      <3> PICK c : c = Cardinality(Errors(d))
        OBVIOUS
      <3>1. FlawCount(d) = c + 0
        BY <2>3 DEF FlawCount
      <3>2. Issues(d, n + 1) = [i \in 1..c |-> n + 1]
        BY <2>3 DEF Issues
      <3> QED
        BY <1>1, <2>1, <3>1, <3>2
    <2> QED
      BY <2>2, <2>3
  <1>4. Len(validation'.issues) = Len(validation.issues) + FlawCount(d)
    <2> PICK old, new : old = validation.issues /\ new = Issues(d, n + 1)
      OBVIOUS
    <2>1. old \in Seq(Nat) /\ new \in Seq(Nat) /\ validation'.issues = old \o new
      BY <1>2, <1>3
    <2>2. Len(old \o new) = Len(old) + Len(new)
      BY ONLY <2>1
    <2> QED
      BY <1>3, <2>1, <2>2
  <1>5. SumOver(1..n + 1, Flaws(n + 1)) = SumOver(1..n, Flaws(n)) + FlawCount(d)
    BY <1>1, SumsNext
  <1>6. SumOver(1..validated, Flaws(validated))' = SumOver(1..n + 1, Flaws(n + 1))
    BY <1>1 DEF Flaws, FlawCount, Errors
  <1>7. Len(validation.issues) = SumOver(1..n, Flaws(n))
    BY DEF IssuesCounted
  <1> QED
    BY <1>4, <1>5, <1>6, <1>7 DEF IssuesCounted

LEMMA SumsStay ==
    ASSUME session' = session
    PROVE  /\ analyzed' = analyzed /\ analysis' = analysis /\ ResultsKnow => ResultsKnow'
           /\ /\ analyzed' = analyzed /\ analysis' = analysis /\ panicked' = panicked
              /\ checked' = checked /\ DelaysKnow
              => DelaysKnow'
           /\ validated' = validated /\ validation' = validation /\ IssuesCounted
              => IssuesCounted'
  <1>1. analyzed' = analyzed =>
          /\ SumOver(1..analyzed, Delays(analyzed))' = SumOver(1..analyzed, Delays(analyzed))
          /\ SumOver(1..analyzed + 1, Delays(analyzed + 1))'
               = SumOver(1..analyzed + 1, Delays(analyzed + 1))
          /\ SumOver(1..analyzed, Lengths(analyzed))' = SumOver(1..analyzed, Lengths(analyzed))
          /\ SumOver(1..analyzed, Flaws(analyzed))' = SumOver(1..analyzed, Flaws(analyzed))
    BY DEF Delays, Delay, Lengths, Flaws, FlawCount, Errors
  <1>2. validated' = validated =>
          SumOver(1..validated, Flaws(validated))' = SumOver(1..validated, Flaws(validated))
    BY DEF Flaws, FlawCount, Errors
  <1> QED
    BY <1>1, <1>2 DEF ResultsKnow, DelaysKnow, IssuesCounted

LEMMA SumsKept == SumsKnow /\ IInv /\ TypeOK /\ [Next]_vars => SumsKnow'
  <1> SUFFICES ASSUME SumsKnow, IInv, TypeOK, [Next]_vars PROVE SumsKnow'
    OBVIOUS
  <1>1. DelaysKnow /\ ResultsKnow /\ IssuesCounted
    BY DEF SumsKnow
  <1>2. CASE AnalysisPanics
    <2>1. /\ session' = session /\ analyzed' = analyzed /\ analysis' = analysis
          /\ validated' = validated /\ validation' = validation
      BY <1>2 DEF AnalysisPanics
    <2>2. ResultsKnow' /\ IssuesCounted'
      BY <1>1, <2>1, SumsStay
    <2> PICK n, d : n = analyzed /\ d = session[n + 1]
      OBVIOUS
    <2>3. /\ n \in Nat /\ n + 1 \in 1..Len(session) /\ session \in Seq(Datagram)
          /\ checked /\ analysis.totalDelay + Delay(d) >= DelayLimit /\ checked' = checked
      BY <1>2 DEF IInv, AnalysisKnows, AnalysisPanics, Overflow
    <2>4. SumOver(1..n + 1, Delays(n + 1)) = SumOver(1..n, Delays(n)) + Delay(d)
      BY <2>3, SumsNext
    <2>5. /\ analysis.totalDelay = SumOver(1..n, Delays(n))
          /\ analysis.totalDelay = SumOver(1..n, Delays(n)) % DelayLimit
      BY <1>1, <2>3 DEF DelaysKnow
    <2>6. SumOver(1..n + 1, Delays(n + 1)) >= DelayLimit
      BY <2>3, <2>4, <2>5, Zenon
    <2>7. /\ SumOver(1..analyzed, Delays(analyzed))' = SumOver(1..n, Delays(n))
          /\ SumOver(1..analyzed + 1, Delays(analyzed + 1))' = SumOver(1..n + 1, Delays(n + 1))
      BY <2>1 DEF Delays, Delay
    <2>8. DelaysKnow'
      BY <2>1, <2>3, <2>5, <2>6, <2>7, Zenon DEF DelaysKnow
    <2> QED
      BY <2>2, <2>8 DEF SumsKnow
  <1>3. CASE AnalyzeDatagram
    <2>1. session' = session /\ validated' = validated /\ validation' = validation
      BY <1>3 DEF AnalyzeDatagram
    <2> QED
      BY <1>1, <1>3, <2>1, AnalyzeSumsDelays, AnalyzeSumsResults, SumsStay DEF SumsKnow
  <1>4. CASE ValidateDatagram
    <2>1. /\ session' = session /\ analyzed' = analyzed /\ analysis' = analysis
          /\ panicked' = panicked /\ checked' = checked
      BY <1>4 DEF ValidateDatagram
    <2> QED
      BY <1>1, <1>4, <2>1, ValidateSums, SumsStay DEF SumsKnow
  <1>5. CASE UNCHANGED vars
    <2>1. /\ session' = session /\ analyzed' = analyzed /\ analysis' = analysis
          /\ panicked' = panicked /\ checked' = checked
          /\ validated' = validated /\ validation' = validation
      BY <1>5 DEF vars
    <2> QED
      BY <1>1, <2>1, SumsStay DEF SumsKnow
  <1> QED
    BY <1>2, <1>3, <1>4, <1>5 DEF Next

LEMMA SumsDecideDelay == SumsKnow => DelayIsTheSum
  <1> SUFFICES ASSUME SumsKnow PROVE DelayIsTheSum
    OBVIOUS
  <1>1. \A k : /\ DOMAIN [i \in 1..k |-> Delay(session[i])] = 1..k
               /\ [i \in 1..k |-> Delay(session[i])] = Delays(k)
    BY DEF Delays
  <1>2. \A k : FoldFunction(+, 0, [i \in 1..k |-> Delay(session[i])]) = SumOver(1..k, Delays(k))
    BY <1>1 DEF FoldFunction, SumOver
  <1> QED
    BY <1>2 DEF SumsKnow, DelaysKnow, DelayIsTheSum

LEMMA SumsDecideCounts == SumsKnow /\ IInv /\ TypeOK => CountsAgree
  <1> SUFFICES ASSUME SumsKnow, IInv, TypeOK PROVE CountsAgree
    OBVIOUS
  <1>1. /\ FoldFunction(+, 0, Lengths(analyzed)) = SumOver(1..analyzed, Lengths(analyzed))
        /\ DOMAIN Lengths(analyzed) = 1..analyzed
    BY DEF FoldFunction, SumOver, Lengths
  <1>2. FoldFunction(+, 0, analysis.counts) = SumOver(Kinds, analysis.counts)
    <2>1. DOMAIN analysis.counts = Kinds
      BY DEF TypeOK, Analyses
    <2> QED
      BY <2>1 DEF FoldFunction, SumOver
  <1>3. Finished => Len(validation.issues) = analysis.errors + analysis.empty
    BY DEF Finished, SumsKnow, ResultsKnow, IssuesCounted
  <1>4. \A i \in 1..analyzed : Lengths(analyzed)[i] <= analysis.largest
    BY DEF SumsKnow, ResultsKnow, Lengths
  <1> QED
    BY <1>1, <1>2, <1>3, <1>4 DEF SumsKnow, ResultsKnow, CountsAgree, Lengths

LEMMA SumsInvariant == Spec => [](SumsKnow /\ IInv /\ TypeOK)
  <1>1. Init => SumsKnow /\ IInv /\ TypeOK
    BY SumsHoldInitially, InitEstablishes, TypesHoldInitially
  <1>2. SumsKnow /\ IInv /\ TypeOK /\ [Next]_vars => (SumsKnow /\ IInv /\ TypeOK)'
    BY SumsKept, NextKeeps, TypesKept
  <1> QED
    BY <1>1, <1>2, PTL DEF Spec

(* The total delay that analyze_datagrams gives is the sum of the declared *)
(* delays modulo 2^64, the sum itself where the build checks arithmetic,   *)
(* and where it panics the sum did not fit in a u64.                       *)
THEOREM DelaysAreSummed == Spec => []DelayIsTheSum
  BY SumsInvariant, SumsDecideDelay, PTL

(* The counters of the two passes agree: results are messages and errors,  *)
(* messages are counted once by kind, no datagram is larger than the       *)
(* largest, and at the end there is an issue for each error and each empty *)
(* datagram.                                                               *)
THEOREM CountersAgree == Spec => []CountsAgree
  BY SumsInvariant, SumsDecideCounts, PTL

(* Both hold of the two passes that a report begins with.                  *)
THEOREM ReportSums == ReportSpec => [](DelayIsTheSum /\ CountsAgree)
  BY ReportRunsThePasses, DelaysAreSummed, CountersAgree, PTL
================================================================================
