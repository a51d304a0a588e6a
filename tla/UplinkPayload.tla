------------------------------ MODULE UplinkPayload ----------------------------
(***************************************************************************)
(* The application data of a UAT uplink payload: a ground station wraps    *)
(* APDUs in information frames and packs these into 424 bytes, a receiver  *)
(* splits the bytes again (src/uplink.rs: UatUplinkPayload,                *)
(* InformationFrame, Apdu). Lengths and bytes are the code's own.          *)
(***************************************************************************)
EXTENDS ApduHeader

CONSTANTS
    Apdus,       \* the APDUs that stations build
    BareFrames,  \* information frames built without an APDU
    Areas,       \* application data of other origins
    MaxFrames    \* bound on the frames of a payload

APPLICATION_DATA_LEN == 424
MAX_APDU_LEN == 422
MAX_FRAME_LEN == 422

(* What the types of the fields hold, valid or not.                        *)
Bytes == 0..255
Words == 0..65535
AnyHeaders ==
    [agp : 0..7, product : Words, flagged : BOOLEAN, option : Bytes,
     date : {None} \cup [month : Bytes, day : Bytes],
     hours : Bytes, minutes : Bytes, seconds : {None} \cup Bytes,
     seg : {None} \cup [file : Words, total : Words, number : Words]]
AnyApdus == [header : AnyHeaders, payload : Seq(Bytes)]
AnyFrames == [reserved : Bytes, type : 0..15, data : Seq(Bytes)]

ASSUME ApdusAssumption == Apdus \subseteq AnyApdus
ASSUME FramesAssumption == BareFrames \subseteq AnyFrames
ASSUME AreasAssumption ==
    \A bytes \in Areas : bytes \in Seq(Bytes) /\ Len(bytes) = APPLICATION_DATA_LEN

\* Neither an error nor a missing value is a value.
ASSUME ResultsAssumption ==
    /\ None # Error
    /\ None \notin Seq(Bytes) /\ Error \notin Seq(Bytes)
    /\ Error \notin Seq(AnyFrames)
    /\ Error \notin AnyApdus /\ Error \notin Seq(AnyApdus)
    /\ Error \notin [header : AnyHeaders, size : Nat]

----------------------------------------------------------------------------
(* APDUs *)

EncodeApdu(a) ==
    LET header == EncodeHeader(a.header) IN
      IF header = Error \/ Len(header) + Len(a.payload) > MAX_APDU_LEN
        THEN Error
        ELSE header \o a.payload

\* Mutant: the payload begins after the shortest header.
MutantDecodeApdu(bytes) ==
    LET decoded == DecodeHeader(bytes) IN
      IF Len(bytes) \notin 4..MAX_APDU_LEN \/ decoded = Error THEN Error
      ELSE [header |-> decoded.header,
            payload |-> SubSeq(bytes, 5, Len(bytes))]

DecodeApdu(bytes) ==
    LET decoded == DecodeHeader(bytes) IN
      IF Len(bytes) \notin 4..MAX_APDU_LEN \/ decoded = Error THEN Error
      ELSE [header |-> decoded.header,
            payload |-> SubSeq(bytes, decoded.size + 1, Len(bytes))]

----------------------------------------------------------------------------
(* Information frames. Types 0 and 15 are FIS-B and developmental, the     *)
(* others are reserved.                                                    *)

FisBApdu == 0
Developmental == 15

ValidForEncoding(f) == f.reserved = 0 /\ f.type \in {FisBApdu, Developmental}

\* Mutant: the low bit of the length is not written.
MutantFrameBytes(f) ==
    <<Len(f.data) \div 2, 16 * f.reserved + f.type>> \o f.data

\* The nine bits of the length, three reserved bits, four bits of type.
FrameBytes(f) ==
    <<Len(f.data) \div 2, 128 * (Len(f.data) % 2) + 16 * f.reserved + f.type>>
      \o f.data

FromInformationFrames(frames) ==
    LET packed == FlattenSeq([i \in DOMAIN frames |-> FrameBytes(frames[i])])
    IN  IF \/ \E i \in DOMAIN frames : ~ ValidForEncoding(frames[i])
           \/ \E i \in DOMAIN frames : Len(frames[i].data) > MAX_FRAME_LEN
           \/ Len(packed) > APPLICATION_DATA_LEN
          THEN Error
          ELSE packed \o [i \in 1..APPLICATION_DATA_LEN - Len(packed) |-> 0]

Acceptable(f) == f.reserved = 0 /\ f.type \in {FisBApdu, Developmental}

(* From an offset on: a frame of length zero ends the list, and so does    *)
(* the end of the area, one byte earlier or later; a frame that overruns   *)
(* the area, or has reserved bits or a reserved type, fails it all.        *)
InformationFrames(area) ==
    LET N == Len(area)
        LengthAt(o) == 2 * area[o + 1] + area[o + 2] \div 128
        FrameAt(o) == [reserved |-> (area[o + 2] \div 16) % 8,
                       type |-> area[o + 2] % 16,
                       data |-> SubSeq(area, o + 3, o + 2 + LengthAt(o))]
        from[o \in 0..N] ==
          IF o + 2 > N \/ LengthAt(o) = 0 THEN << >>
          ELSE IF \/ o + LengthAt(o) + 2 > N
                  \/ ~ Acceptable(FrameAt(o))
                  \/ from[o + LengthAt(o) + 2] = Error
            THEN Error
            ELSE <<FrameAt(o)>> \o from[o + LengthAt(o) + 2]
    IN  from[0]

FisbFrames(frames) ==
    FlattenSeq([i \in DOMAIN frames |->
                  IF frames[i].type = FisBApdu THEN <<frames[i]>> ELSE << >>])

\* apdus(): the first FIS-B frame that is no APDU fails the payload.
ApdusOf(area) ==
    LET frames == InformationFrames(area)
        fisb == FisbFrames(frames)
    IN  IF frames = Error THEN Error
        ELSE Collected([i \in DOMAIN fisb |-> DecodeApdu(fisb[i].data)])

----------------------------------------------------------------------------
VARIABLES
    frames,   \* the frames a station has put together
    sent,     \* the APDUs among them
    area,     \* the application data of the payload; None before
    received, \* what information_frames() gives for it; None before
    apdus     \* and apdus()

vars == <<frames, sent, area, received, apdus>>

Init ==
    /\ frames = << >> /\ sent = << >>
    /\ area = None /\ received = None /\ apdus = None

Building == area = None /\ Len(frames) < MaxFrames

\* InformationFrame::from_apdu, which fails when the APDU does not encode.
AddApdu(a) ==
    /\ Building
    /\ EncodeApdu(a) # Error
    /\ frames' = Append(frames, [reserved |-> 0, type |-> FisBApdu,
                                 data |-> EncodeApdu(a)])
    /\ sent' = Append(sent, a)
    /\ UNCHANGED <<area, received, apdus>>

AddFrame(f) ==
    /\ Building
    /\ frames' = Append(frames, f)
    /\ UNCHANGED <<sent, area, received, apdus>>

Pack ==
    /\ area = None
    /\ area' = FromInformationFrames(frames)
    /\ UNCHANGED <<frames, sent, received, apdus>>

Overhear(bytes) ==
    /\ area = None /\ frames = << >>
    /\ area' = bytes
    /\ UNCHANGED <<frames, sent, received, apdus>>

Read ==
    /\ area \notin {None, Error}
    /\ received = None
    /\ received' = InformationFrames(area)
    /\ apdus' = ApdusOf(area)
    /\ UNCHANGED <<frames, sent, area>>

Next ==
    \/ \E a \in Apdus : AddApdu(a)
    \/ \E f \in BareFrames : AddFrame(f)
    \/ Pack
    \/ \E bytes \in Areas : Overhear(bytes)
    \/ Read

Spec == Init /\ [][Next]_vars

----------------------------------------------------------------------------
(* Properties *)

(* The frames in front of the first empty one.                             *)
UpToEmpty ==
    LET empty == { i \in DOMAIN frames : frames[i].data = << >> }
    IN  IF empty = {} THEN frames ELSE SubSeq(frames, 1, Min(empty) - 1)

(* from_information_frames accepts empty frames, which information_frames  *)
(* takes for the end of the list: a receiver gets exactly the frames in    *)
(* front of the first empty one, unchanged, however they fill the area,    *)
(* and never an error.                                                     *)
PackedFramesAreRead ==
    frames # << >> /\ received # None => received = UpToEmpty

(* Every APDU a station could wrap comes out of the payload as it went in, *)
(* whatever optional header fields it has, next to any other frames, when  *)
(* all the FIS-B frames come from APDUs and none is empty. An APDU never   *)
(* outgrows its frame: alone in a payload it always packs.                 *)
ApdusSurvive ==
    /\ (/\ area \notin {None, Error} /\ apdus # None /\ frames # << >>
        /\ UpToEmpty = frames
        /\ Len(FisbFrames(frames)) = Len(sent))
          => apdus = sent
    /\ Len(frames) = 1 /\ Len(sent) = 1 => area # Error

(* Whatever the origin of the bytes, what a receiver takes for frames and  *)
(* APDUs is what a station would have packed: encoding them again gives    *)
(* the same bytes, up to what lies behind the last frame. No two encodings *)
(* of a header are accepted as the same one.                               *)
WhatIsReadRepacks ==
    received \notin {None, Error} =>
        LET packed == FlattenSeq([i \in DOMAIN received |->
                                     FrameBytes(received[i])])
            fisb == FisbFrames(received)
        IN  /\ SubSeq(area, 1, Len(packed)) = packed
            /\ FromInformationFrames(received) # Error
            /\ apdus # Error =>
                 \A i \in DOMAIN apdus : EncodeApdu(apdus[i]) = fisb[i].data
================================================================================
