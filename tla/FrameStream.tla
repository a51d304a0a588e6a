------------------------------- MODULE FrameStream -----------------------------
(***************************************************************************)
(* The FrameDecoder on every byte stream up to a bound, next to what the   *)
(* stream as a whole says: which stretches of it lie between an opening    *)
(* and a closing flag.                                                     *)
(***************************************************************************)
EXTENDS FrameDecoder

CONSTANTS
    Bytes,      \* the bytes of the streams
    MaxStream,  \* bound on the length of a stream
    Messages    \* clear messages whose encodings fit in a stream

\* A byte is a u8, a message has its id, and crc16 gives two bytes.
ASSUME BytesAssumption == Bytes \subseteq 0..255
ASSUME StreamAssumption == MaxStream \in Nat
ASSUME MessagesAssumption ==
    \A m \in Messages : /\ m \in Seq(0..255) /\ m # << >>
                        /\ Crc(m) \in Seq(0..255) /\ Len(Crc(m)) = 2

VARIABLES
    stream,     \* the bytes pushed since the decoder was new or reset
    ended       \* finish() was called

vars == <<decoder, stream, ended>>

StreamInit == Init /\ stream = << >> /\ ended = FALSE

Push(b) ==
    /\ ~ ended
    /\ Len(stream) < MaxStream
    /\ PushByte(b)
    /\ stream' = Append(stream, b)
    /\ UNCHANGED ended

End ==
    /\ ~ ended
    /\ Finish
    /\ ended' = TRUE
    /\ UNCHANGED stream

\* A new stream, after finish() or reset(), in the middle of a frame or not.
Restart ==
    /\ collecting' = FALSE
    /\ buffer' = << >>
    /\ results' = << >>
    /\ stream' = << >>
    /\ ended' = FALSE

Next == (\E b \in Bytes : Push(b)) \/ End \/ Restart

Spec == StreamInit /\ [][Next]_vars

----------------------------------------------------------------------------
(* The frames of a stream *)

IsFlag(p) == p \in DOMAIN stream /\ stream[p] = FLAG_BYTE

\* Flags o and c with bytes between them and no flag among those.
Delimits(o, c) ==
    /\ IsFlag(o) /\ IsFlag(c)
    /\ c > o + 1
    /\ \A p \in o + 1..c - 1 : ~ IsFlag(p)

(* Frames are read off from the left: the next frame is the first stretch  *)
(* between two flags that both lie after the previous frame.               *)
FramesFrom ==
    LET frames[start \in 1..MaxStream + 2] ==
          LET ends == { c \in start..Len(stream) :
                          \E o \in start..c : Delimits(o, c) } IN
            IF ends = {} THEN << >>
            ELSE LET c == Min(ends)
                     o == CHOOSE o \in start..c : Delimits(o, c)
                 IN <<[first |-> o + 1, last |-> c - 1]>> \o frames[c + 1]
    IN frames[1]

Between(f) == SubSeq(stream, f.first, f.last)

(* A frame is open at the end when a flag after the last frame is followed *)
(* by bytes.                                                               *)
OpenAtEnd ==
    LET done == IF FramesFrom = << >> THEN 0 ELSE Last(FramesFrom).last + 1
    IN \E o \in done + 1..Len(stream) - 1 : IsFlag(o)
         /\ \A p \in o + 1..Len(stream) : ~ IsFlag(p)

Encodings == { EncodeFrame(m) : m \in Messages }

----------------------------------------------------------------------------
(* Properties *)

(* Whatever bytes come, in runs of flags, garbage between frames, damaged  *)
(* escapes or unfinished frames, the decoder has reported one result for   *)
(* each frame of the stream, in order, and an error for an open end when   *)
(* finish() was called (FrameDecoder::push and finish).                    *)
ResultsAreTheFrames ==
    results = [i \in DOMAIN FramesFrom |-> DecodeStuffed(Between(FramesFrom[i]))]
                \o (IF ended /\ OpenAtEnd THEN <<Err("FrameTooShort")>>
                                          ELSE << >>)

(* What the decoder accepts is exactly what encode_frame would have sent:  *)
(* the bytes from flag to flag are the one encoding of the payload handed  *)
(* out, and no encoding of a message is refused.                           *)
AcceptedFramesAreEncodings ==
    \A i \in DOMAIN FramesFrom :
        LET f == FramesFrom[i]
            frame == SubSeq(stream, f.first - 1, f.last + 1) IN
          /\ results[i].ok => EncodeFrame(results[i].payload) = frame
          /\ frame \in Encodings => results[i].ok

(* decode_frame and the incremental decoder agree on every stream that is  *)
(* a single frame: its two flags and at least two bytes, none of them a    *)
(* flag, in between. On one byte both give an error, but not the same one: *)
(* decode_frame looks at the length first.                                 *)
OneShotAgrees ==
    ~ ended /\ Len(stream) > 3 /\ Delimits(1, Len(stream))
        => results = <<DecodeFrame(stream)>>
================================================================================
