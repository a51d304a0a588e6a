------------------------------ MODULE DatagramLink -----------------------------
(***************************************************************************)
(* GDL90 over UDP: a sender concatenates the frames of its messages into   *)
(* one datagram, the network delivers any datagrams in any order, and the  *)
(* receiver of src/transport.rs cuts each one to its buffer and runs it    *)
(* through the one decoder it keeps for all of them. The capture command   *)
(* stores the same bytes, and decode_messages of src/session.rs later      *)
(* decodes each recorded datagram with a decoder of its own.               *)
(***************************************************************************)
EXTENDS Naturals, Sequences, SequencesExt, FiniteSets

CONSTANTS
    Crc(_),      \* see FrameDecoder
    Messages,    \* the clear messages the sender encodes
    Unreadable,  \* clear messages that Message::decode refuses
    Foreign,     \* datagrams of other programs on the same port
    MaxBatch,    \* bound on the messages of a datagram
    Sizes,       \* the arguments of set_max_datagram_size
    MaxHeld      \* bound on the partial frame a receiver holds

ASSUME SizesAssumption == Sizes \subseteq Nat
ASSUME UnreadableAssumption == Messages \cap Unreadable = {}
\* A message has its id, a byte is a u8, and crc16 gives two bytes.
ASSUME MessagesAssumption ==
    \A m \in Messages : /\ m \in Seq(0..255) /\ m # << >>
                        /\ Crc(m) \in Seq(0..255) /\ Len(Crc(m)) = 2

VARIABLES
    maxSize,       \* max_datagram_size of the receiver
    batch,         \* the messages of the datagram being received
    intact,        \* the sender's datagram came whole
    input,         \* what the decoders have still to read of it
    heldOver,      \* the receiver held a partial frame when it came
    opened,        \* what was received of it begins with a flag
    closing,       \* decode_messages is still to call finish()
    lastByte,      \* the last byte the decoders have read of the datagram
    liveCollecting, liveBuffer, liveResults,   \* the receiver's decoder
    fileCollecting, fileBuffer, fileResults    \* the recording's decoder

Live == INSTANCE FrameDecoder WITH
    collecting <- liveCollecting, buffer <- liveBuffer, results <- liveResults

File == INSTANCE FrameDecoder WITH
    collecting <- fileCollecting, buffer <- fileBuffer, results <- fileResults

liveDecoder == <<liveCollecting, liveBuffer, liveResults>>
fileDecoder == <<fileCollecting, fileBuffer, fileResults>>
datagram == <<batch, intact, heldOver, opened>>
vars == <<maxSize, datagram, input, closing, lastByte,
          liveDecoder, fileDecoder>>

None == 256   \* no byte
FLAG == Live!FLAG_BYTE

----------------------------------------------------------------------------
(* Sending *)

Batches == UNION { [1..n -> Messages] : n \in 0..MaxBatch }

\* send_messages: the frames of the messages, one after the other.
SentBytes(messages) ==
    FlattenSeq([i \in DOMAIN messages |-> Live!EncodeFrame(messages[i])])

\* FrameMessageDecoder: a frame's payload is decoded as a message.
Decoded(result) ==
    IF result.ok /\ result.payload \in Unreadable
      THEN Live!Err("message") ELSE result

DecodedAll(results) == [i \in DOMAIN results |-> Decoded(results[i])]

----------------------------------------------------------------------------
(* Receiving *)

Idle == input = << >> /\ ~ closing

Bounded == Len(liveBuffer) <= MaxHeld

Init ==
    /\ maxSize \in { Max({n, 1}) : n \in Sizes }
    /\ batch = << >> /\ intact = FALSE /\ heldOver = FALSE /\ opened = FALSE
    /\ input = << >> /\ closing = FALSE /\ lastByte = None
    /\ Live!Init
    /\ File!Init

SetMaxDatagramSize(n) ==
    /\ Idle
    /\ maxSize' = Max({n, 1})
    /\ UNCHANGED <<datagram, input, closing, lastByte, liveDecoder, fileDecoder>>

(* recv_from writes at most the buffer's length and the rest is lost. The  *)
(* receiver's decoder goes on from where the previous datagram left it,    *)
(* the recording's decoder is new.                                         *)
\* Mutant: the recording's decoder is the receiver's.
MutantTake(bytes) ==
    /\ Idle /\ Bounded
    /\ input' = SubSeq(bytes, 1, Min({Len(bytes), maxSize}))
    /\ heldOver' = ~ Live!AtRest
    /\ opened' = (input' # << >> /\ Head(input') = FLAG)
    /\ closing' = TRUE
    /\ lastByte' = None
    /\ liveResults' = << >>
    /\ fileCollecting' = liveCollecting
    /\ fileBuffer' = liveBuffer
    /\ fileResults' = << >>
    /\ UNCHANGED <<maxSize, liveCollecting, liveBuffer>>

Take(bytes) ==
    /\ Idle /\ Bounded
    /\ input' = SubSeq(bytes, 1, Min({Len(bytes), maxSize}))
    /\ heldOver' = ~ Live!AtRest
    /\ opened' = (input' # << >> /\ Head(input') = FLAG)
    /\ closing' = TRUE
    /\ lastByte' = None
    /\ liveResults' = << >>
    /\ fileCollecting' = FALSE
    /\ fileBuffer' = << >>
    /\ fileResults' = << >>
    /\ UNCHANGED <<maxSize, liveCollecting, liveBuffer>>

\* A datagram of the sender, whichever the network delivers next.
ReceiveSent ==
    \E messages \in Batches :
        /\ Take(SentBytes(messages))
        /\ batch' = messages
        /\ intact' = (Len(SentBytes(messages)) <= maxSize)

ReceiveForeign ==
    \E bytes \in Foreign :
        /\ Take(bytes)
        /\ batch' = << >>
        /\ intact' = FALSE

ReadByte ==
    /\ input # << >>
    /\ Live!PushByte(Head(input))
    /\ File!PushByte(Head(input))
    /\ input' = Tail(input)
    /\ lastByte' = Head(input)
    /\ UNCHANGED <<maxSize, datagram, closing>>

\* Mutant: decode_messages leaves out finish().
MutantFinishFile ==
    /\ input = << >>
    /\ closing
    /\ closing' = FALSE
    /\ UNCHANGED <<maxSize, datagram, input, lastByte, liveDecoder, fileDecoder>>

FinishFile ==
    /\ input = << >>
    /\ closing
    /\ File!Finish
    /\ closing' = FALSE
    /\ UNCHANGED <<maxSize, datagram, input, lastByte, liveDecoder>>

Next ==
    \/ \E n \in Sizes : SetMaxDatagramSize(n)
    \/ ReceiveSent
    \/ ReceiveForeign
    \/ ReadByte
    \/ FinishFile

Spec == Init /\ [][Next]_vars

----------------------------------------------------------------------------
(* Properties. Between two datagrams liveResults is what receive() gave    *)
(* for the last one and fileResults what decode_messages gives for it.     *)

Oks(messages) == [i \in DOMAIN messages |-> Live!Ok(messages[i])]

(* A datagram that comes whole to a receiver with no partial frame gives   *)
(* exactly its messages, live and in the recording, whatever came before:  *)
(* truncated datagrams, other programs' bytes, flags with nothing between. *)
WholeDatagramsDecode ==
    Idle /\ intact =>
        /\ DecodedAll(fileResults) = Oks(batch)
        /\ ~ heldOver => DecodedAll(liveResults) = Oks(batch)

(* A partial frame held over from an earlier datagram costs a whole        *)
(* datagram its first message, which one result of the earlier frame       *)
(* replaces, and no other one.                                             *)
HeldOverCostsOneMessage ==
    Idle /\ intact /\ heldOver /\ batch # << >> =>
        /\ Len(liveResults) = Len(batch)
        /\ Tail(DecodedAll(liveResults)) = Tail(Oks(batch))

(* The receiver is in step again as soon as a datagram ends with a flag,   *)
(* as every whole one does: a loss never outlives the next datagram.       *)
AFlagSettles == Idle /\ lastByte = FLAG => Live!AtRest

(* A recording replays what was heard: of a datagram that begins with a    *)
(* flag, whole, cut or of another program, and comes to a receiver with no *)
(* partial frame, decode_messages gives the results receive() gave, and    *)
(* then the error of finish() if and only if the receiver is left with a   *)
(* partial frame, which it tells nobody of.                                *)
RecordingAgrees ==
    Idle /\ opened /\ ~ heldOver =>
        fileResults = IF Live!AtRest THEN liveResults
                      ELSE Append(liveResults, Live!Err("FrameTooShort"))

(* No mix of truncated, foreign and repeated datagrams makes the receiver  *)
(* or the recording hand out a message that nobody sent. The sixteen check *)
(* bits are all that keeps torn frames out, so Foreign holds no bytes that *)
(* complete a torn frame with matching ones.                               *)
NothingInvented ==
    \A i \in DOMAIN liveResults \cup DOMAIN fileResults :
        \A results \in {DecodedAll(liveResults), DecodedAll(fileResults)} :
            i \in DOMAIN results /\ results[i].ok
                => results[i].payload \in Messages
================================================================================
