------------------------------ MODULE FrameDecoder -----------------------------
(***************************************************************************)
(* GDL90 framing: byte stuffing, the frame check sequence, and the         *)
(* incremental FrameDecoder of src/frame.rs, one action per kind of byte.  *)
(* Bytes are the code's own values; the CRC is a parameter, which the      *)
(* instances take from module Crc16.                                       *)
(***************************************************************************)
EXTENDS Naturals, Sequences, SequencesExt

CONSTANT Crc(_)    \* the two check bytes of a clear message, low byte first

FLAG_BYTE == 126
ESCAPE_BYTE == 125

Special == {FLAG_BYTE, ESCAPE_BYTE}

\* Exclusive or with ESCAPE_MASK, 0x20.
Masked(b) == IF (b \div 32) % 2 = 1 THEN b - 32 ELSE b + 32

----------------------------------------------------------------------------
(* Encoding *)

Stuffed(data) ==
    FlattenSeq([i \in DOMAIN data |->
        IF data[i] \in Special THEN <<ESCAPE_BYTE, Masked(data[i])>>
                               ELSE <<data[i]>>])

EncodeFrame(message) ==
    <<FLAG_BYTE>> \o Stuffed(message \o Crc(message)) \o <<FLAG_BYTE>>

----------------------------------------------------------------------------
(* Decoding the bytes between two flags *)

Ok(payload) == [ok |-> TRUE, payload |-> payload]
Err(error) == [ok |-> FALSE, error |-> error]

(* The bytes that escape another one: the scan alternates, so a byte is an *)
(* escape when it is ESCAPE_BYTE and is not itself escaped.                *)
Escapes(data) ==
    LET esc[i \in 0..Len(data)] ==
          IF i = 0 THEN FALSE ELSE data[i] = ESCAPE_BYTE /\ ~ esc[i - 1]
    IN { i \in DOMAIN data : esc[i] }

\* Mutant: any byte may be escaped.
MutantUnescape(data) ==
    LET escapes == Escapes(data) IN
      IF Len(data) \in escapes THEN Err("DanglingEscape")
      ELSE Ok(FlattenSeq([i \in DOMAIN data |->
                 IF i \in escapes THEN << >>
                 ELSE IF i - 1 \in escapes THEN <<Masked(data[i])>>
                 ELSE <<data[i]>>]))

(* unescape: the first illegal escaped byte is an error, then a trailing   *)
(* escape; otherwise escape bytes go and escaped bytes are restored.       *)
Unescape(data) ==
    LET escapes == Escapes(data)
        Restored(i) == IF i - 1 \in escapes THEN Masked(data[i]) ELSE data[i]
    IN  IF \E i \in escapes : i < Len(data) /\ Restored(i + 1) \notin Special
          THEN Err("InvalidEscapeByte")
        ELSE IF Len(data) \in escapes
          THEN Err("DanglingEscape")
        ELSE Ok(FlattenSeq([i \in DOMAIN data |->
                   IF i \in escapes THEN << >> ELSE <<Restored(i)>>]))

\* Mutant: the check bytes are not compared.
MutantDecodeClear(data) ==
    LET n == Len(data) - 2 IN
      IF Len(data) < 3 THEN Err("FrameTooShort") ELSE Ok(SubSeq(data, 1, n))

DecodeClear(data) ==
    LET n == Len(data) - 2 IN
      IF Len(data) < 3 THEN Err("FrameTooShort")
      ELSE IF Crc(SubSeq(data, 1, n)) # SubSeq(data, n + 1, n + 2)
        THEN Err("CrcMismatch")
      ELSE Ok(SubSeq(data, 1, n))

DecodeStuffed(data) ==
    IF Unescape(data).ok THEN DecodeClear(Unescape(data).payload)
                         ELSE Unescape(data)

\* Mutant: the closing flag is decoded with the payload.
MutantDecodeFrame(frame) ==
    IF Len(frame) < 4 THEN Err("FrameTooShort")
    ELSE IF frame[1] # FLAG_BYTE \/ frame[Len(frame)] # FLAG_BYTE
      THEN Err("MissingFrameFlag")
    ELSE DecodeStuffed(SubSeq(frame, 2, Len(frame)))

\* decode_frame: one frame with both of its flags, in one piece.
DecodeFrame(frame) ==
    IF Len(frame) < 4 THEN Err("FrameTooShort")
    ELSE IF frame[1] # FLAG_BYTE \/ frame[Len(frame)] # FLAG_BYTE
      THEN Err("MissingFrameFlag")
    ELSE DecodeStuffed(SubSeq(frame, 2, Len(frame) - 1))

----------------------------------------------------------------------------
VARIABLES
    collecting,  \* an opening flag was seen
    buffer,      \* the stuffed bytes since then
    results      \* the results of the bytes pushed so far, in order

decoder == <<collecting, buffer, results>>

AtRest == ~ (collecting /\ buffer # << >>)

Init ==
    /\ collecting = FALSE
    /\ buffer = << >>
    /\ results = << >>

\* Mutant: a flag that ends a frame also opens the next one.
MutantCloseFrame(b) ==
    /\ b = FLAG_BYTE
    /\ ~ AtRest
    /\ results' = Append(results, DecodeStuffed(buffer))
    /\ buffer' = << >>
    /\ collecting' = TRUE

\* Mutant: a frame that cannot be unescaped is not taken out of the buffer.
MutantKeepBadFrame(b) ==
    /\ b = FLAG_BYTE
    /\ ~ AtRest
    /\ results' = Append(results, DecodeStuffed(buffer))
    /\ buffer' = IF Unescape(buffer).ok THEN << >> ELSE buffer
    /\ collecting' = ~ Unescape(buffer).ok

\* A flag with bytes before it ends the frame; it opens no other one.
CloseFrame(b) ==
    /\ b = FLAG_BYTE
    /\ ~ AtRest
    /\ results' = Append(results, DecodeStuffed(buffer))
    /\ buffer' = << >>
    /\ collecting' = FALSE

OpenFrame(b) ==
    /\ b = FLAG_BYTE
    /\ AtRest
    /\ buffer' = << >>
    /\ collecting' = TRUE
    /\ UNCHANGED results

Collect(b) ==
    /\ b # FLAG_BYTE
    /\ collecting
    /\ buffer' = Append(buffer, b)
    /\ UNCHANGED <<collecting, results>>

Skip(b) ==
    /\ b # FLAG_BYTE
    /\ ~ collecting
    /\ UNCHANGED <<collecting, buffer, results>>

PushByte(b) == CloseFrame(b) \/ OpenFrame(b) \/ Collect(b) \/ Skip(b)

\* finish(): an unfinished frame is an error; the decoder is fresh again.
Finish ==
    /\ results' = IF AtRest THEN results
                            ELSE Append(results, Err("FrameTooShort"))
    /\ collecting' = FALSE
    /\ buffer' = << >>
================================================================================
