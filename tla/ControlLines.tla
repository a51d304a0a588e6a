------------------------------ MODULE ControlLines -----------------------------
(***************************************************************************)
(* The lines of the control-panel interface (src/control.rs). A line is a  *)
(* head, fields of a fixed width, two hexadecimal digits of the sum of     *)
(* what precedes them, and a carriage return.                              *)
(***************************************************************************)
EXTENDS Fields

CALL_SIGN == <<94, 67, 83, 32>>  \* "^CS "
MODE == <<94, 77, 68, 32>>       \* "^MD "
VFR_CODE == <<94, 86, 67, 32>>   \* "^VC "
CR == 13
COMMA == 44

\* The letters of the modes standby, A and C and of the ident states.
Modes == {79, 65, 67}
Idents == {73, 45}
Emergencies == 48..54
HEALTHY == 49

Sealed(bytes) == bytes \o HexChecksum(bytes) \o <<CR>>

EncodeLine(m) ==
    CASE m.kind = "CallSign" ->
           IF EncodeCallSign(m.call_sign) = Error THEN Error
           ELSE Sealed(CALL_SIGN \o EncodeCallSign(m.call_sign))
      [] m.kind = "Mode" ->
           IF Digits(m.squawk, 4) = Error THEN Error
           ELSE Sealed(MODE \o <<m.mode, COMMA, m.ident, COMMA>> \o m.squawk
                         \o <<m.emergency, HEALTHY>>)
      [] m.kind = "VfrCode" ->
           IF Digits(m.vfr_code, 4) = Error THEN Error
           ELSE Sealed(VFR_CODE \o m.vfr_code)

----------------------------------------------------------------------------
(* Decoding *)

\* Mutant: the digits are only parsed.
MutantSealAgrees(line) ==
    ParseHexByte(SubSeq(line, Len(line) - 2, Len(line) - 1)) # Error

\* verify_checksum: of the three bytes that seal a line, the first two.
SealAgrees(line) ==
    ParseHexByte(SubSeq(line, Len(line) - 2, Len(line) - 1))
      = ByteSum(SubSeq(line, 1, Len(line) - 3))

\* Unlike in a target report, spaces only follow the call sign.
DecodeControlCallSign(bytes) ==
    LET callSign == TrimEnd(bytes, SPACE) IN
      IF ~ InCallSign(bytes) \/ \E i \in DOMAIN callSign : callSign[i] = SPACE
        THEN Error ELSE callSign

DecodeCallSignLine(line) ==
    LET callSign == DecodeControlCallSign(SubSeq(line, 5, 12)) IN
      IF Len(line) # 15 \/ ~ SealAgrees(line) \/ callSign = Error THEN Error
      ELSE [kind |-> "CallSign", call_sign |-> callSign]

DecodeModeLine(line) ==
    LET m == [kind |-> "Mode", mode |-> line[5], ident |-> line[7],
              squawk |-> SubSeq(line, 9, 12), emergency |-> line[13]]
    IN  IF Len(line) # 17 \/ ~ SealAgrees(line) THEN Error
        ELSE IF /\ line[6] = COMMA /\ line[8] = COMMA
                /\ m.mode \in Modes /\ m.ident \in Idents
                /\ Digits(m.squawk, 4) # Error
                /\ m.emergency \in Emergencies /\ line[14] = HEALTHY
          THEN m ELSE Error

DecodeVfrCodeLine(line) ==
    IF Len(line) # 11 \/ ~ SealAgrees(line) THEN Error
    ELSE IF Digits(SubSeq(line, 5, 8), 4) = Error THEN Error
    ELSE [kind |-> "VfrCode", vfr_code |-> SubSeq(line, 5, 8)]

DecodeLine(line) ==
    LET head == SubSeq(line, 1, 4) IN
      IF Len(line) < 6 THEN Error
      ELSE IF line[Len(line)] # CR THEN Error
      ELSE CASE head = CALL_SIGN -> DecodeCallSignLine(line)
             [] head = MODE -> DecodeModeLine(line)
             [] head = VFR_CODE -> DecodeVfrCodeLine(line)
             [] OTHER -> Error
================================================================================
