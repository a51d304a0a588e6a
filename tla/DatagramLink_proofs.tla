--------------------------- MODULE DatagramLink_proofs -------------------------
(***************************************************************************)
(* The receiver's decoder, which outlives the datagrams, and the           *)
(* recording's, which does not: for any messages, check bytes, buffer      *)
(* sizes and foreign datagrams of any length.                              *)
(***************************************************************************)
EXTENDS DatagramLink, SequenceFacts

\* What holds of bytes, frames and the decoder, whatever the stream.
D == INSTANCE FrameStream_proofs WITH
    collecting <- liveCollecting, buffer <- liveBuffer, results <- liveResults,
    Bytes <- 0..255, MaxStream <- 0, stream <- << >>, ended <- FALSE

(* FrameStream's assumptions on its constants hold here.                   *)
LEMMA StreamFits ==
    /\ 0..255 \subseteq 0..255
    /\ 0 \in Nat
    /\ \A m \in Messages : /\ m \in Seq(0..255) /\ m # << >>
                          /\ Crc(m) \in Seq(0..255) /\ Len(Crc(m)) = 2
  BY MessagesAssumption

(* Nothing of the datagram is read yet: it begins with a flag, and neither *)
(* decoder holds a partial frame.                                          *)
BothFresh ==
    /\ input # << >> /\ Head(input) = FLAG
    /\ Live!AtRest /\ File!AtRest
    /\ liveResults = << >> /\ fileResults = << >>

\* From the flag on the two decoders are in the same state.
BothEqual ==
    /\ liveCollecting = fileCollecting
    /\ liveBuffer = fileBuffer
    /\ liveResults = fileResults

Replayed ==
    fileResults = IF Live!AtRest THEN liveResults
                  ELSE Append(liveResults, Live!Err("FrameTooShort"))

InStep ==
    opened /\ ~ heldOver =>
        \/ closing /\ BothFresh
        \/ closing /\ BothEqual
        \/ ~ closing /\ input = << >> /\ Replayed

\* A flag empties the receiver's buffer, and only ReadByte fills it.
SettledByFlag == lastByte = FLAG => liveBuffer = << >>

IInv == InStep /\ SettledByFlag

----------------------------------------------------------------------------
(* One byte in a decoder *)

LEMMA FlagOpens ==
    ASSUME input # << >>, Head(input) = FLAG, ReadByte
    PROVE  /\ liveBuffer' = << >>
           /\ Live!AtRest => liveCollecting' = TRUE /\ liveResults' = liveResults
           /\ File!AtRest => /\ fileCollecting' = TRUE /\ fileResults' = fileResults
                             /\ fileBuffer' = << >>
  <1>1. Live!PushByte(FLAG) /\ File!PushByte(FLAG)
    BY DEF ReadByte
  <1>2. FLAG = Live!FLAG_BYTE /\ FLAG = File!FLAG_BYTE
    BY DEF FLAG, Live!FLAG_BYTE, File!FLAG_BYTE
  <1>3. Live!CloseFrame(FLAG) \/ Live!OpenFrame(FLAG)
    BY <1>1, <1>2 DEF Live!PushByte, Live!Collect, Live!Skip
  <1>4. File!CloseFrame(FLAG) \/ File!OpenFrame(FLAG)
    BY <1>1, <1>2 DEF File!PushByte, File!Collect, File!Skip
  <1> QED
    BY <1>3, <1>4 DEF Live!CloseFrame, Live!OpenFrame, File!CloseFrame, File!OpenFrame

(* The two decoders are instances of one.                                  *)
LEMMA OneDecoding ==
    ASSUME NEW data
    PROVE  Live!DecodeStuffed(data) = File!DecodeStuffed(data)
  <1>1. ASSUME NEW d PROVE Live!Escapes(d) = File!Escapes(d)
    BY DEF Live!Escapes, File!Escapes, Live!ESCAPE_BYTE, File!ESCAPE_BYTE
  <1>2. /\ Live!Special = File!Special
        /\ \A b : Live!Masked(b) = File!Masked(b)
        /\ \A x : Live!Ok(x) = File!Ok(x) /\ Live!Err(x) = File!Err(x)
    BY DEF Live!Special, File!Special, Live!Masked, File!Masked, Live!Ok, File!Ok,
           Live!Err, File!Err, Live!FLAG_BYTE, File!FLAG_BYTE, Live!ESCAPE_BYTE, File!ESCAPE_BYTE
  <1>3. ASSUME NEW q PROVE Live!FlattenSeq(q) = File!FlattenSeq(q)
    BY DEF Live!FlattenSeq, File!FlattenSeq
  <1>4. ASSUME NEW d PROVE Live!Unescape(d) = File!Unescape(d)
    BY <1>1, <1>2, <1>3 DEF Live!Unescape, File!Unescape
  <1>5. ASSUME NEW d PROVE Live!DecodeClear(d) = File!DecodeClear(d)
    BY <1>2 DEF Live!DecodeClear, File!DecodeClear
  <1> QED
    BY <1>4, <1>5 DEF Live!DecodeStuffed, File!DecodeStuffed

(* Decoders in the same state read a byte alike.                           *)
LEMMA EqualRead ==
    ASSUME BothEqual, ReadByte
    PROVE  BothEqual'
  <1> DEFINE b == Head(input)
  <1>1. Live!PushByte(b) /\ File!PushByte(b)
    BY DEF ReadByte
  <1>2. /\ Live!FLAG_BYTE = File!FLAG_BYTE
        /\ Live!AtRest <=> File!AtRest
        /\ Live!DecodeStuffed(liveBuffer) = File!DecodeStuffed(fileBuffer)
    BY OneDecoding DEF BothEqual, Live!FLAG_BYTE, File!FLAG_BYTE, Live!AtRest, File!AtRest
  <1> HIDE DEF b
  <1> QED
    BY <1>1, <1>2
       DEF BothEqual, Live!PushByte, Live!CloseFrame, Live!OpenFrame, Live!Collect, Live!Skip,
           File!PushByte, File!CloseFrame, File!OpenFrame, File!Collect, File!Skip

----------------------------------------------------------------------------
(* The invariant *)

LEMMA InitInStep == Init => IInv
  BY DEF Init, IInv, InStep, SettledByFlag, FLAG, None, Live!Init, Live!FLAG_BYTE

LEMMA TakeKeeps ==
    ASSUME NEW bytes, Take(bytes)
    PROVE  IInv'
  <1>1. /\ closing' = TRUE /\ lastByte' = None
        /\ opened' => input' # << >> /\ Head(input') = FLAG
        /\ heldOver' = ~ Live!AtRest
        /\ liveResults' = << >> /\ fileResults' = << >>
        /\ fileCollecting' = FALSE
        /\ liveCollecting' = liveCollecting /\ liveBuffer' = liveBuffer
    BY DEF Take
  <1>2. ~ heldOver' => Live!AtRest'
    BY <1>1 DEF Live!AtRest
  <1>3. File!AtRest'
    BY <1>1 DEF File!AtRest
  <1>4. InStep'
    BY <1>1, <1>2, <1>3 DEF InStep, BothFresh, FLAG
  <1>5. SettledByFlag'
    BY <1>1 DEF SettledByFlag, FLAG, None, Live!FLAG_BYTE
  <1> QED
    BY <1>4, <1>5 DEF IInv

LEMMA ReadKeeps ==
    ASSUME IInv, ReadByte
    PROVE  IInv'
  <1>1. /\ input # << >> /\ closing' = closing /\ lastByte' = Head(input)
        /\ opened' = opened /\ heldOver' = heldOver
    BY DEF ReadByte, datagram
  <1>2. SettledByFlag'
    <2>1. Head(input) = FLAG => liveBuffer' = << >>
      BY <1>1, FlagOpens
    <2> QED
      BY <1>1, <2>1 DEF SettledByFlag, FLAG
  <1>3. ASSUME opened, ~ heldOver
        PROVE  closing' /\ BothEqual'
    <2>1. closing /\ (BothFresh \/ BothEqual)
      BY <1>1, <1>3 DEF IInv, InStep
    <2>2. CASE BothFresh
      BY <1>1, <2>1, <2>2, FlagOpens DEF BothFresh, BothEqual
    <2>3. CASE BothEqual
      BY <1>1, <2>1, <2>3, EqualRead
    <2> QED
      BY <2>1, <2>2, <2>3
  <1> QED
    BY <1>1, <1>2, <1>3 DEF IInv, InStep

LEMMA FinishKeeps ==
    ASSUME IInv, FinishFile
    PROVE  IInv'
  <1>1. /\ input = << >> /\ closing /\ closing' = FALSE /\ input' = input
        /\ File!Finish
        /\ UNCHANGED <<opened, heldOver, lastByte, liveCollecting, liveBuffer, liveResults>>
    BY DEF FinishFile, datagram, liveDecoder
  <1>2. SettledByFlag'
    BY <1>1 DEF IInv, SettledByFlag, FLAG
  <1>3. ASSUME opened, ~ heldOver
        PROVE  Replayed'
    <2>1. BothEqual
      BY <1>1, <1>3 DEF IInv, InStep, BothFresh
    <2>2. /\ File!AtRest <=> Live!AtRest
          /\ File!Err("FrameTooShort") = Live!Err("FrameTooShort")
          /\ Live!Err("FrameTooShort")' = Live!Err("FrameTooShort")
          /\ Live!AtRest' <=> Live!AtRest
      BY <1>1, <2>1 DEF BothEqual, File!AtRest, Live!AtRest, File!Err, Live!Err
    <2>3. fileResults' = IF File!AtRest THEN fileResults
                         ELSE Append(fileResults, File!Err("FrameTooShort"))
      BY <1>1 DEF File!Finish
    <2> QED
      BY <1>1, <2>1, <2>2, <2>3 DEF BothEqual, Replayed
  <1> QED
    BY <1>1, <1>2, <1>3 DEF IInv, InStep

LEMMA NextInStep ==
    ASSUME IInv, [Next]_vars
    PROVE  IInv'
  <1>1. CASE \E n \in Sizes : SetMaxDatagramSize(n)
    BY <1>1 DEF SetMaxDatagramSize, datagram, liveDecoder, fileDecoder, IInv, InStep,
                SettledByFlag, BothFresh, BothEqual, Replayed, FLAG, Live!AtRest, File!AtRest
  <1>2. CASE ReceiveSent \/ ReceiveForeign
    BY <1>2, TakeKeeps DEF ReceiveSent, ReceiveForeign
  <1>3. CASE ReadByte
    BY <1>3, ReadKeeps
  <1>4. CASE FinishFile
    BY <1>4, FinishKeeps
  <1>5. CASE UNCHANGED vars
    BY <1>5 DEF vars, datagram, liveDecoder, fileDecoder, IInv, InStep,
                SettledByFlag, BothFresh, BothEqual, Replayed, FLAG, Live!AtRest, File!AtRest
  <1> QED
    BY <1>1, <1>2, <1>3, <1>4, <1>5 DEF Next

----------------------------------------------------------------------------
(* The theorems *)

(* The invariant holds between any two bytes of any datagrams.             *)
THEOREM Invariance == Spec => []IInv
  BY InitInStep, NextInStep, PTL DEF Spec

(* A recorded datagram that begins with a flag decodes to what the         *)
(* receiver gave for it when it came, if no partial frame was held then.   *)
THEOREM RecordingsReplay == Spec => []RecordingAgrees
  <1>1. IInv => RecordingAgrees
    BY DEF IInv, InStep, Idle, RecordingAgrees, Replayed
  <1> QED
    BY Invariance, <1>1, PTL

(* After a datagram that ends with a flag the receiver holds nothing.      *)
THEOREM FlagsSettle == Spec => []AFlagSettles
  <1>1. IInv => AFlagSettles
    BY DEF IInv, SettledByFlag, AFlagSettles, Live!AtRest
  <1> QED
    BY Invariance, <1>1, PTL
----------------------------------------------------------------------------
(* Whole datagrams. The lemmas about a decoder that reads bytes are those  *)
(* of FrameDecoder_proofs, whose instance has the same definitions.        *)

LEMMA SameDecoder ==
    /\ \A x : D!DecodeStuffed(x) = Live!DecodeStuffed(x)
    /\ \A x : D!DecodeStuffed(x) = File!DecodeStuffed(x)
    /\ \A x : D!EncodeFrame(x) = Live!EncodeFrame(x)
    /\ \A x : D!Ok(x) = Live!Ok(x)
    /\ \A q : D!FlattenSeq(q) = FlattenSeq(q)
  <1>3. ASSUME NEW q PROVE Live!FlattenSeq(q) = D!FlattenSeq(q) /\ D!FlattenSeq(q) = FlattenSeq(q)
    BY DEF Live!FlattenSeq, D!FlattenSeq, FlattenSeq
  <1>1. ASSUME NEW d PROVE Live!Escapes(d) = D!Escapes(d)
    BY DEF Live!Escapes, D!Escapes, Live!ESCAPE_BYTE, D!ESCAPE_BYTE
  <1>2. /\ Live!Special = D!Special
        /\ \A b : Live!Masked(b) = D!Masked(b)
        /\ \A x : Live!Ok(x) = D!Ok(x) /\ Live!Err(x) = D!Err(x)
    BY DEF Live!Special, D!Special, Live!Masked, D!Masked, Live!Ok, D!Ok,
           Live!Err, D!Err, Live!FLAG_BYTE, D!FLAG_BYTE, Live!ESCAPE_BYTE, D!ESCAPE_BYTE
  <1>4. ASSUME NEW d PROVE Live!Unescape(d) = D!Unescape(d)
    BY <1>1, <1>2, <1>3 DEF Live!Unescape, D!Unescape
  <1>5. ASSUME NEW d PROVE Live!DecodeClear(d) = D!DecodeClear(d)
    BY <1>2 DEF Live!DecodeClear, D!DecodeClear
  <1>6. ASSUME NEW x PROVE Live!DecodeStuffed(x) = D!DecodeStuffed(x)
    BY <1>4, <1>5 DEF Live!DecodeStuffed, D!DecodeStuffed
  <1>7. ASSUME NEW x PROVE Live!Stuffed(x) = D!Stuffed(x)
    BY <1>2, <1>3 DEF Live!Stuffed, D!Stuffed, Live!ESCAPE_BYTE, D!ESCAPE_BYTE
  <1>8. ASSUME NEW x PROVE D!EncodeFrame(x) = Live!EncodeFrame(x)
    BY <1>7 DEF Live!EncodeFrame, D!EncodeFrame, Live!FLAG_BYTE, D!FLAG_BYTE
  <1> QED
    BY <1>2, <1>3, <1>6, <1>8, OneDecoding

LEMMA SentAreFrames ==
    ASSUME NEW messages
    PROVE  SentBytes(messages) = D!Frames(messages)
  BY SameDecoder DEF SentBytes, D!Frames

\* The states of the two decoders, as records.
LiveState == D!State(liveCollecting, liveBuffer, liveResults)
FileState == D!State(fileCollecting, fileBuffer, fileResults)
Fresh == D!State(FALSE, << >>, << >>)

LEMMA ReadByteIsAfterByte ==
    ASSUME ReadByte, liveCollecting \in BOOLEAN, fileCollecting \in BOOLEAN
    PROVE  /\ LiveState' = D!AfterByte(LiveState, Head(input))
           /\ FileState' = D!AfterByte(FileState, Head(input))
           /\ liveCollecting' \in BOOLEAN /\ fileCollecting' \in BOOLEAN
  <1> DEFINE b == Head(input)
  <1>1. Live!PushByte(b) /\ File!PushByte(b)
    BY DEF ReadByte
  <1>2. /\ \A x : D!DecodeStuffed(x) = Live!DecodeStuffed(x)
        /\ \A x : D!DecodeStuffed(x) = File!DecodeStuffed(x)
    BY SameDecoder
  <1> HIDE DEF b
  <1>3. LiveState' = D!AfterByte(LiveState, b) /\ liveCollecting' \in BOOLEAN
    BY <1>1, <1>2, ZenonT(40)
       DEF LiveState, D!State, D!AfterByte, D!Resting, D!FLAG_BYTE, Live!FLAG_BYTE, Live!AtRest,
           Live!PushByte, Live!CloseFrame, Live!OpenFrame, Live!Collect, Live!Skip
  <1>4. FileState' = D!AfterByte(FileState, b) /\ fileCollecting' \in BOOLEAN
    BY <1>1, <1>2
       DEF FileState, D!State, D!AfterByte, D!Resting, D!FLAG_BYTE, File!FLAG_BYTE, File!AtRest,
           File!PushByte, File!CloseFrame, File!OpenFrame, File!Collect, File!Skip
  <1> QED
    BY <1>3, <1>4 DEF b

LEMMA BatchesType == Batches \subseteq Seq(Messages)
  BY DEF Batches

LEMMA MessagesEncodable == \A m \in Messages : D!Encodable(m)
  BY MessagesAssumption DEF D!Encodable, D!Byte

LEMMA SentType ==
    ASSUME NEW messages \in Seq(Messages)
    PROVE  SentBytes(messages) \in Seq(D!Byte)
  <1>1. CASE messages = << >>
    <2>1. D!Frames(messages) = << >>
      BY <1>1, StreamFits, D!FlattenEmpty DEF D!Frames
    <2>2. << >> \in Seq(D!Byte)
      OBVIOUS
    <2> QED
      BY <2>1, <2>2, SentAreFrames, Zenon
  <1>2. CASE messages # << >>
    <2>1. messages[1] \in Messages
      BY <1>2
    <2> QED
      BY <2>1, SentAreFrames, MessagesEncodable, StreamFits, D!FramesAppend, ZenonT(40)
  <1> QED
    BY <1>1, <1>2

(* What a decoder that read a whole datagram has given, and that it holds  *)
(* no partial frame if it held none before.                                *)
LEMMA DatagramRead ==
    ASSUME NEW messages \in Seq(Messages), NEW coll \in BOOLEAN, NEW buf, NEW e,
           D!Leads(D!State(coll, buf, << >>), SentBytes(messages), e)
    PROVE  /\ e.res = D!Heard(coll, buf, messages)
           /\ buf = << >> => e.buf = << >>
  <1> DEFINE d == D!State(coll, buf, << >>)
             sent == SentBytes(messages)
  <1>1. sent = D!Frames(messages)
    BY SentAreFrames
  <1>2. CASE messages = << >>
    <2>1. sent = << >>
      BY <1>1, <1>2, StreamFits, D!FlattenEmpty DEF D!Frames
    <2>2. D!Leads(d, << >>, d)
      BY StreamFits, D!NothingRead
    <2>3. e = d
      <3>1. D!Leads(d, << >>, e) /\ << >> \in Seq(D!Byte)
        BY <2>1
      <3> QED
        BY <2>2, <3>1, StreamFits, D!OneState, ZenonT(40)
    <2>4. D!Heard(coll, buf, messages) = << >>
      BY <1>2 DEF D!Heard
    <2> QED
      BY <2>3, <2>4 DEF D!State
  <1>3. CASE messages # << >>
    <2>1. PICK c \in BOOLEAN :
              D!Leads(d, D!Frames(messages), D!State(c, << >>, D!Heard(coll, buf, messages)))
      BY <1>3, MessagesEncodable, StreamFits, D!MessagesRead
    <2>2. sent \in Seq(D!Byte)
      BY SentType
    <2>3. e = D!State(c, << >>, D!Heard(coll, buf, messages))
      <3>1. D!Leads(d, sent, D!State(c, << >>, D!Heard(coll, buf, messages)))
        BY <1>1, <2>1, Zenon
      <3> QED
        BY <2>2, <3>1, StreamFits, D!OneState, ZenonT(40)
    <2> QED
      BY <2>3 DEF D!State
  <1> QED
    BY <1>2, <1>3

----------------------------------------------------------------------------
(* While the sender's whole datagram is read, what the decoders have read  *)
(* and what they have still to read make up its frames, and the bytes read *)
(* lead from the states the decoders had before it to those they have now. *)

ReadSoFar(read) ==
    /\ input \in Seq(D!Byte)
    /\ SentBytes(batch) = read \o input
    /\ \E coll \in BOOLEAN : \E buf :
          /\ heldOver = ~ D!Resting(D!State(coll, buf, << >>))
          /\ D!Leads(D!State(coll, buf, << >>), read, LiveState)
    /\ closing => D!Leads(Fresh, read, FileState)
    /\ ~ closing => input = << >> /\ fileResults = Oks(batch)

WholeIsRead ==
    /\ maxSize \in Nat
    /\ liveCollecting \in BOOLEAN /\ fileCollecting \in BOOLEAN
    /\ batch \in Seq(Messages)
    /\ intact => \E read \in Seq(D!Byte) : ReadSoFar(read)

LEMMA LargerOfTwo ==
    ASSUME NEW n \in Nat
    PROVE  Max({n, 1}) \in Nat
  <1>1. \E x \in {n, 1} : \A y \in {n, 1} : x >= y
    OBVIOUS
  <1>2. Max({n, 1}) \in {n, 1}
    BY <1>1 DEF Max
  <1> QED
    BY <1>2

LEMMA InitWhole == Init => WholeIsRead
  <1> SUFFICES ASSUME Init PROVE WholeIsRead
    OBVIOUS
  <1>1. maxSize \in Nat
    BY SizesAssumption, LargerOfTwo DEF Init
  <1>2. batch \in Seq(Messages)
    BY DEF Init
  <1> QED
    BY <1>1, <1>2 DEF Init, WholeIsRead, Live!Init, File!Init

LEMMA TakeTakesAll ==
    ASSUME NEW bytes \in Seq(D!Byte), Take(bytes), maxSize \in Nat, Len(bytes) <= maxSize
    PROVE  input' = bytes
  <1>1. \E x \in {Len(bytes), maxSize} : \A y \in {Len(bytes), maxSize} : x =< y
    OBVIOUS
  <1>2. Min({Len(bytes), maxSize}) = Len(bytes)
    BY <1>1 DEF Min
  <1>3. SubSeq(bytes, 1, Len(bytes)) = bytes
    OBVIOUS
  <1> QED
    BY <1>2, <1>3 DEF Take

LEMMA ReceiveSentWhole ==
    ASSUME WholeIsRead, ReceiveSent
    PROVE  WholeIsRead'
  <1>1. PICK messages \in Batches :
            /\ Take(SentBytes(messages))
            /\ batch' = messages
            /\ intact' = (Len(SentBytes(messages)) <= maxSize)
    BY DEF ReceiveSent
  <1> DEFINE sent == SentBytes(messages)
  <1>2. messages \in Seq(Messages) /\ sent \in Seq(D!Byte)
    BY BatchesType, SentType
  <1>3. /\ maxSize' = maxSize /\ closing' = TRUE
        /\ heldOver' = ~ Live!AtRest
        /\ liveCollecting' = liveCollecting /\ liveBuffer' = liveBuffer /\ liveResults' = << >>
        /\ fileCollecting' = FALSE /\ fileBuffer' = << >> /\ fileResults' = << >>
    BY <1>1 DEF Take
  <1>4. /\ LiveState' = D!State(liveCollecting, liveBuffer, << >>)
        /\ FileState' = Fresh
    BY <1>3 DEF LiveState, FileState, Fresh
  <1>5. heldOver' = ~ D!Resting(D!State(liveCollecting, liveBuffer, << >>))
    BY <1>3 DEF Live!AtRest, D!Resting, D!State
  <1>6. /\ D!Leads(D!State(liveCollecting, liveBuffer, << >>), << >>, LiveState')
        /\ D!Leads(Fresh, << >>, FileState')
    BY <1>4, StreamFits, D!NothingRead, ZenonT(40)
  <1>7. ASSUME intact'
        PROVE  ReadSoFar(<< >>)'
    <2>1. input' = sent
      BY <1>1, <1>2, <1>7, TakeTakesAll DEF WholeIsRead
    <2>2. SentBytes(batch)' = << >> \o input'
      BY <1>1, <1>2, <2>1, ConcatEmptySeq DEF SentBytes
    <2> QED
      BY <1>2, <1>3, <1>5, <1>6, <2>1, <2>2 DEF WholeIsRead, ReadSoFar
  <1>8. intact' => \E read \in Seq(D!Byte) : ReadSoFar(read)'
    <2>1. << >> \in Seq(D!Byte)
      OBVIOUS
    <2> QED
      BY <1>7, <2>1, Zenon
  <1> QED
    BY <1>1, <1>2, <1>3, <1>8 DEF WholeIsRead, D!Byte

LEMMA ReceiveForeignWhole ==
    ASSUME WholeIsRead, ReceiveForeign
    PROVE  WholeIsRead'
  <1>1. PICK bytes \in Foreign : Take(bytes) /\ batch' = << >> /\ intact' = FALSE
    BY DEF ReceiveForeign
  <1>2. maxSize' = maxSize /\ liveCollecting' = liveCollecting /\ fileCollecting' = FALSE
    BY <1>1 DEF Take
  <1>3. batch' \in Seq(Messages)
    BY <1>1
  <1> QED
    BY <1>1, <1>2, <1>3 DEF WholeIsRead

LEMMA ReadByteWhole ==
    ASSUME WholeIsRead, ReadByte
    PROVE  WholeIsRead'
  <1> DEFINE b == Head(input)
  <1>1. /\ input # << >> /\ input' = Tail(input)
        /\ UNCHANGED <<maxSize, batch, intact, heldOver, closing>>
    BY DEF ReadByte, datagram
  <1>2. /\ LiveState' = D!AfterByte(LiveState, b)
        /\ FileState' = D!AfterByte(FileState, b)
        /\ liveCollecting' \in BOOLEAN /\ fileCollecting' \in BOOLEAN
    BY ReadByteIsAfterByte DEF WholeIsRead
  <1>3. ASSUME intact
        PROVE  \E read \in Seq(D!Byte) : ReadSoFar(read)'
    <2>1. PICK read \in Seq(D!Byte) : ReadSoFar(read)
      BY <1>3 DEF WholeIsRead
    <2> PICK coll \in BOOLEAN : \E buf :
              /\ heldOver = ~ D!Resting(D!State(coll, buf, << >>))
              /\ D!Leads(D!State(coll, buf, << >>), read, LiveState)
      BY <2>1 DEF ReadSoFar
    <2>2. PICK buf :
              /\ heldOver = ~ D!Resting(D!State(coll, buf, << >>))
              /\ D!Leads(D!State(coll, buf, << >>), read, LiveState)
      OBVIOUS
    <2>3. input \in Seq(D!Byte)
      BY <2>1 DEF ReadSoFar
    <2>4. b \in D!Byte /\ Tail(input) \in Seq(D!Byte) /\ input = <<b>> \o Tail(input)
      BY <1>1, <2>3
    <2>5. Append(read, b) \in Seq(D!Byte) /\ read \o input = Append(read, b) \o Tail(input)
      <3> DEFINE rest == Tail(input)
      <3>1. b \in D!Byte /\ rest \in Seq(D!Byte)
        BY <2>4
      <3>2. input = <<b>> \o rest
        BY <2>4
      <3> HIDE DEF b, rest
      <3>3. read \o (<<b>> \o rest) = Append(read, b) \o rest
        BY <3>1, ConcatSimplifications
      <3>4. Append(read, b) \in Seq(D!Byte)
        BY <3>1
      <3> QED
        BY <3>2, <3>3, <3>4, Zenon DEF rest
    <2>6. closing
      BY <1>1, <2>1 DEF ReadSoFar
    <2> HIDE DEF b
    <2>7. D!Leads(D!State(coll, buf, << >>), Append(read, b), LiveState')
      <3>1. D!Leads(D!State(coll, buf, << >>), Append(read, b), D!AfterByte(LiveState, b))
        BY <2>2, <2>4, StreamFits, D!OneMoreRead, ZenonT(40)
      <3> QED
        BY <1>2, <3>1, Zenon
    <2>8. D!Leads(Fresh, Append(read, b), FileState')
      <3>1. D!Leads(Fresh, read, FileState)
        BY <2>1, <2>6 DEF ReadSoFar
      <3>2. D!Leads(Fresh, Append(read, b), D!AfterByte(FileState, b))
        BY <2>4, <3>1, StreamFits, D!OneMoreRead, ZenonT(40)
      <3> QED
        BY <1>2, <3>2, Zenon
    <2>9. PICK r \in Seq(D!Byte) : r = Append(read, b)
      BY <2>5
    <2>10. SentBytes(batch)' = r \o input'
      <3>1. SentBytes(batch)' = SentBytes(batch)
        BY <1>1 DEF SentBytes
      <3> QED
        BY <1>1, <2>1, <2>5, <2>9, <3>1 DEF ReadSoFar
    <2>11. ReadSoFar(r)'
      BY <1>1, <2>2, <2>4, <2>6, <2>7, <2>8, <2>9, <2>10 DEF ReadSoFar, D!Byte
    <2> QED
      BY <2>9, <2>11
  <1> QED
    BY <1>1, <1>2, <1>3 DEF WholeIsRead, D!Byte

LEMMA FinishFileWhole ==
    ASSUME WholeIsRead, FinishFile
    PROVE  WholeIsRead'
  <1>1. /\ input = << >> /\ closing /\ closing' = FALSE
        /\ fileCollecting' = FALSE
        /\ fileResults' = IF File!AtRest THEN fileResults
                          ELSE Append(fileResults, File!Err("FrameTooShort"))
        /\ UNCHANGED <<maxSize, batch, intact, heldOver, input,
                       liveCollecting, liveBuffer, liveResults>>
    BY DEF FinishFile, File!Finish, datagram, liveDecoder
  <1>2. ASSUME intact
        PROVE  \E read \in Seq(D!Byte) : ReadSoFar(read)'
    <2>1. PICK read \in Seq(D!Byte) : ReadSoFar(read)
      BY <1>2 DEF WholeIsRead
    <2>2. read = SentBytes(batch)
      BY <1>1, <2>1, ConcatEmptySeq DEF ReadSoFar
    <2>3. D!Leads(Fresh, SentBytes(batch), FileState)
      BY <1>1, <2>1, <2>2 DEF ReadSoFar
    <2>4. /\ FileState.res = D!Heard(FALSE, << >>, batch)
          /\ FileState.buf = << >>
      BY <2>3, DatagramRead DEF WholeIsRead, Fresh
    <2>5. fileResults' = D!Heard(FALSE, << >>, batch)
      BY <1>1, <2>4 DEF FileState, D!State, File!AtRest
    <2>6. D!Heard(FALSE, << >>, batch) = Oks(batch)
      <3>1. DOMAIN batch = 1..Len(batch)
        BY DEF WholeIsRead
      <3> QED
        BY <3>1, SameDecoder DEF D!Heard, D!Resting, D!State, Oks
    <2>7. /\ Oks(batch)' = Oks(batch)
          /\ SentBytes(batch)' = SentBytes(batch)
          /\ LiveState' = LiveState
      BY <1>1 DEF Oks, SentBytes, LiveState
    <2>8. ReadSoFar(read)'
      BY <1>1, <2>1, <2>5, <2>6, <2>7 DEF ReadSoFar, D!Byte
    <2> QED
      BY <2>8
  <1> QED
    BY <1>1, <1>2 DEF WholeIsRead, D!Byte

LEMMA UnchangedWhole ==
    ASSUME WholeIsRead, maxSize' \in Nat,
           UNCHANGED <<datagram, input, closing, liveDecoder, fileDecoder>>
    PROVE  WholeIsRead'
  <1>1. UNCHANGED <<batch, intact, heldOver, input, closing, liveCollecting, liveBuffer,
                    liveResults, fileCollecting, fileBuffer, fileResults>>
    BY DEF datagram, liveDecoder, fileDecoder
  <1>2. /\ Oks(batch)' = Oks(batch)
        /\ SentBytes(batch)' = SentBytes(batch)
        /\ LiveState' = LiveState
        /\ FileState' = FileState
    BY <1>1 DEF Oks, SentBytes, LiveState, FileState
  <1>3. ASSUME NEW read, ReadSoFar(read) PROVE ReadSoFar(read)'
    BY <1>1, <1>2, <1>3 DEF ReadSoFar, D!Byte
  <1> QED
    BY <1>1, <1>3 DEF WholeIsRead, D!Byte

LEMMA NextWhole ==
    ASSUME WholeIsRead, [Next]_vars
    PROVE  WholeIsRead'
  <1>1. CASE \E n \in Sizes : SetMaxDatagramSize(n)
    <2>1. PICK n \in Sizes : SetMaxDatagramSize(n)
      BY <1>1
    <2>2. maxSize' \in Nat
      BY <2>1, SizesAssumption, LargerOfTwo DEF SetMaxDatagramSize
    <2> QED
      BY <2>1, <2>2, UnchangedWhole DEF SetMaxDatagramSize
  <1>2. CASE UNCHANGED vars
    BY <1>2, UnchangedWhole DEF vars, WholeIsRead
  <1> QED
    BY <1>1, <1>2, ReceiveSentWhole, ReceiveForeignWhole, ReadByteWhole, FinishFileWhole DEF Next

(* The sender's messages are none of those Message::decode refuses.        *)
LEMMA DecodedOks ==
    ASSUME NEW results, NEW messages \in Seq(Messages), NEW i \in DOMAIN results,
           i \in 1..Len(messages), results[i] = D!Ok(messages[i])
    PROVE  DecodedAll(results)[i] = Oks(messages)[i]
  <1>1. messages[i] \in Messages /\ messages[i] \notin Unreadable /\ i \in DOMAIN messages
    BY UnreadableAssumption
  <1>2. Decoded(D!Ok(messages[i])) = D!Ok(messages[i])
    BY <1>1 DEF Decoded, D!Ok
  <1>3. DecodedAll(results)[i] = D!Ok(messages[i])
    BY <1>2 DEF DecodedAll
  <1>4. Oks(messages)[i] = D!Ok(messages[i])
    BY <1>1, SameDecoder DEF Oks
  <1> QED
    BY <1>3, <1>4

(* What an intact datagram has given when the decoders are through with it. *)
LEMMA WholeGives ==
    ASSUME WholeIsRead, Idle, intact
    PROVE  /\ fileResults = Oks(batch)
           /\ \E coll \in BOOLEAN : \E buf :
                 /\ heldOver = ~ D!Resting(D!State(coll, buf, << >>))
                 /\ liveResults = D!Heard(coll, buf, batch)
  <1>1. PICK read \in Seq(D!Byte) : ReadSoFar(read)
    BY DEF WholeIsRead
  <1>2. read = SentBytes(batch) /\ fileResults = Oks(batch)
    BY <1>1, ConcatEmptySeq DEF ReadSoFar, Idle
  <1> PICK coll \in BOOLEAN : \E buf :
            /\ heldOver = ~ D!Resting(D!State(coll, buf, << >>))
            /\ D!Leads(D!State(coll, buf, << >>), SentBytes(batch), LiveState)
    BY <1>1, <1>2 DEF ReadSoFar
  <1>3. PICK buf :
            /\ heldOver = ~ D!Resting(D!State(coll, buf, << >>))
            /\ D!Leads(D!State(coll, buf, << >>), SentBytes(batch), LiveState)
    OBVIOUS
  <1>4. LiveState.res = D!Heard(coll, buf, batch)
    BY <1>3, DatagramRead DEF WholeIsRead
  <1>5. liveResults = D!Heard(coll, buf, batch)
    BY <1>4 DEF LiveState, D!State
  <1> QED
    BY <1>2, <1>3, <1>5

LEMMA DecodedHeard ==
    ASSUME NEW messages \in Seq(Messages), NEW coll \in BOOLEAN, NEW buf
    PROVE  LET heard == DecodedAll(D!Heard(coll, buf, messages))
           IN  /\ Len(heard) = Len(messages) /\ heard = [i \in 1..Len(messages) |-> heard[i]]
               /\ \A i \in 1..Len(messages) :
                     i # 1 \/ D!Resting(D!State(coll, buf, << >>)) => heard[i] = Oks(messages)[i]
  <1> DEFINE results == D!Heard(coll, buf, messages)
             heard == DecodedAll(results)
  <1>1. DOMAIN results = 1..Len(messages)
    BY DEF D!Heard
  <1>2. heard = [i \in 1..Len(messages) |-> Decoded(results[i])]
    BY <1>1 DEF DecodedAll
  <1>3. Len(heard) = Len(messages) /\ heard = [i \in 1..Len(messages) |-> heard[i]]
    BY <1>2
  <1>4. ASSUME NEW i \in 1..Len(messages), i # 1 \/ D!Resting(D!State(coll, buf, << >>))
        PROVE  heard[i] = Oks(messages)[i]
    <2>1. results[i] = D!Ok(messages[i])
      BY <1>4 DEF D!Heard
    <2> QED
      BY <1>1, <1>4, <2>1, DecodedOks
  <1> QED
    BY <1>3, <1>4

LEMMA OksType ==
    ASSUME NEW messages \in Seq(Messages)
    PROVE  Oks(messages) = [i \in 1..Len(messages) |-> Oks(messages)[i]]
  <1>1. DOMAIN messages = 1..Len(messages)
    OBVIOUS
  <1> QED
    BY <1>1 DEF Oks

(* The invariant holds between any two bytes of a whole datagram.          *)
THEOREM DatagramsAreRead == Spec => []WholeIsRead
  BY InitWhole, NextWhole, PTL DEF Spec

(* A datagram that comes whole to a receiver with no partial frame gives   *)
(* exactly its messages, and so does its recording, whatever datagrams     *)
(* came before: WholeDatagramsDecode.                                      *)
THEOREM WholeDatagrams == Spec => []WholeDatagramsDecode
  <1>1. WholeIsRead => WholeDatagramsDecode
    <2> SUFFICES ASSUME WholeIsRead, Idle, intact
                 PROVE  /\ DecodedAll(fileResults) = Oks(batch)
                        /\ ~ heldOver => DecodedAll(liveResults) = Oks(batch)
      BY DEF WholeDatagramsDecode
    <2> DEFINE n == Len(batch)
    <2>1. batch \in Seq(Messages)
      BY DEF WholeIsRead
    <2>2. ASSUME NEW coll \in BOOLEAN, NEW buf, D!Resting(D!State(coll, buf, << >>))
          PROVE  DecodedAll(D!Heard(coll, buf, batch)) = Oks(batch)
      <3> DEFINE heard == DecodedAll(D!Heard(coll, buf, batch))
      <3>1. /\ heard = [i \in 1..n |-> heard[i]]
            /\ \A i \in 1..n : heard[i] = Oks(batch)[i]
        BY <2>1, <2>2, DecodedHeard
      <3>2. Oks(batch) = [i \in 1..n |-> Oks(batch)[i]]
        BY <2>1, OksType
      <3> HIDE DEF heard, n
      <3> QED
        BY <3>1, <3>2 DEF heard
    <2>3. fileResults = Oks(batch)
      BY WholeGives
    <2>4. Oks(batch) = D!Heard(FALSE, << >>, batch) /\ D!Resting(D!State(FALSE, << >>, << >>))
      <3>1. DOMAIN batch = 1..n
        BY <2>1
      <3> QED
        BY <3>1, SameDecoder DEF D!Heard, D!Resting, D!State, Oks
    <2> PICK coll \in BOOLEAN : \E buf :
              /\ heldOver = ~ D!Resting(D!State(coll, buf, << >>))
              /\ liveResults = D!Heard(coll, buf, batch)
      BY WholeGives
    <2>5. PICK buf :
              /\ heldOver = ~ D!Resting(D!State(coll, buf, << >>))
              /\ liveResults = D!Heard(coll, buf, batch)
      OBVIOUS
    <2> QED
      BY <2>2, <2>3, <2>4, <2>5
  <1> QED
    BY DatagramsAreRead, <1>1, PTL

(* A partial frame held over from an earlier datagram costs a whole        *)
(* datagram its first message and no other: HeldOverCostsOneMessage.       *)
THEOREM OneMessageIsLost == Spec => []HeldOverCostsOneMessage
  <1>1. WholeIsRead => HeldOverCostsOneMessage
    <2> SUFFICES ASSUME WholeIsRead, Idle, intact, heldOver, batch # << >>
                 PROVE  /\ Len(liveResults) = Len(batch)
                        /\ Tail(DecodedAll(liveResults)) = Tail(Oks(batch))
      BY DEF HeldOverCostsOneMessage
    <2> DEFINE n == Len(batch)
               heard == DecodedAll(liveResults)
               oks == Oks(batch)
    <2>1. batch \in Seq(Messages) /\ n \in Nat /\ n # 0
      BY DEF WholeIsRead
    <2> PICK coll \in BOOLEAN : \E buf : liveResults = D!Heard(coll, buf, batch)
      BY WholeGives
    <2>2. PICK buf : liveResults = D!Heard(coll, buf, batch)
      OBVIOUS
    <2>3. Len(liveResults) = n
      BY <2>1, <2>2 DEF D!Heard
    <2>4. /\ Len(heard) = n /\ heard = [i \in 1..n |-> heard[i]]
          /\ \A i \in 1..n : i # 1 => heard[i] = oks[i]
      BY <2>1, <2>2, DecodedHeard
    <2>5. oks = [i \in 1..n |-> oks[i]]
      BY <2>1, OksType
    <2> HIDE DEF heard, oks, n
    <2>6. Tail(heard) = [i \in 1..(n - 1) |-> heard[i + 1]]
      BY <2>1, <2>4, TailOfAny
    <2>7. Tail(oks) = [i \in 1..(n - 1) |-> oks[i + 1]]
      BY <2>1, <2>5, TailOfAny
    <2>8. \A i \in 1..(n - 1) : heard[i + 1] = oks[i + 1]
      BY <2>1, <2>4
    <2> QED
      BY <2>3, <2>6, <2>7, <2>8 DEF heard, oks, n
  <1> QED
    BY DatagramsAreRead, <1>1, PTL
================================================================================
