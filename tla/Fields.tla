--------------------------------- MODULE Fields --------------------------------
(***************************************************************************)
(* The field conversions that the message and control codecs share         *)
(* (src/util.rs). A string is the sequence of its bytes.                   *)
(*                                                                         *)
(* An angle is a whole number of half units of the 24-bit code that        *)
(* carries it: 2^24 halves are 180 degrees. Codes are the even numbers, so *)
(* the halves show the code's rounding; at every such angle the code's     *)
(* f64 arithmetic is exact.                                                *)
(***************************************************************************)
EXTENDS Wire, FiniteSetsExt

----------------------------------------------------------------------------
(* Text *)

SPACE == 32
DIGITS == 48..57
UPPER == 65..90

TrimEnd(s, byte) == SubSeq(s, 1, Max({0} \cup { i \in DOMAIN s : s[i] # byte }))

InCallSign(s) == \A i \in DOMAIN s : s[i] \in DIGITS \cup UPPER \cup {SPACE, 45}

EncodeCallSign(s) ==
    IF Len(s) > 8 \/ ~ InCallSign(UpperText(s)) THEN Error
    ELSE Padded(UpperText(s), 8, SPACE)

DecodeCallSign(bytes) ==
    IF InCallSign(bytes) THEN TrimEnd(bytes, SPACE) ELSE Error

\* encode_ascii_digits, decode_ascii_digits
Digits(s, width) ==
    IF Len(s) = width /\ \A i \in DOMAIN s : s[i] \in DIGITS THEN s ELSE Error

EncodeUtf8(s, n) == IF Len(s) > n THEN Error ELSE Padded(s, n, 0)

UpToZero(s) == SubSeq(s, 1, Min({Len(s)} \cup { i - 1 : i \in { j \in DOMAIN s : s[j] = 0 } }))

\* A byte above 127 among ASCII ones is no UTF-8.
DecodeUtf8(bytes) ==
    IF \E i \in DOMAIN UpToZero(bytes) : bytes[i] > 127 THEN Error ELSE UpToZero(bytes)

ByteSum(bytes) == FoldLeft(LAMBDA n, byte : (n + byte) % 256, 0, bytes)

HexDigit(n) == IF n < 10 THEN 48 + n ELSE 55 + n

HexChecksum(bytes) ==
    <<HexDigit(ByteSum(bytes) \div 16), HexDigit(ByteSum(bytes) % 16)>>

HexNibble(byte) ==
    CASE byte \in DIGITS -> byte - 48
      [] byte \in 65..70 -> byte - 55
      [] byte \in 97..102 -> byte - 87
      [] OTHER -> Error

ParseHexByte(pair) ==
    IF Error \in { HexNibble(pair[1]), HexNibble(pair[2]) } THEN Error
    ELSE 16 * HexNibble(pair[1]) + HexNibble(pair[2])

----------------------------------------------------------------------------
(* Angles *)

QUARTER == 2 ^ 23   \* 90 degrees
HALF == 2 ^ 24      \* 180 degrees

\* f64::round: halves away from zero.
Rounded(halves) ==
    IF halves < 0 THEN - ((1 - halves) \div 2) ELSE (halves + 1) \div 2

DegreesToLatLon(halves, min, max) ==
    IF halves \in min..max THEN Rounded(halves) ELSE Error

LatLonToDegrees(code) == 2 * Signed(code, 24)

EncodeUatAngle(halves, limit, turn) ==
    IF halves \notin -limit..limit THEN Error
    ELSE Rounded(IF halves < 0 THEN halves + turn ELSE halves) % 2 ^ 24

DecodeUatAngle(code, limit, turn) ==
    IF 2 * code > limit THEN 2 * code - turn ELSE 2 * code

EncodeUatLatitude(halves) == EncodeUatAngle(halves, QUARTER, HALF)
DecodeUatLatitude(code) == DecodeUatAngle(code, QUARTER, HALF)
EncodeUatLongitude(halves) == EncodeUatAngle(halves, HALF, 2 * HALF)
DecodeUatLongitude(code) == DecodeUatAngle(code, HALF, 2 * HALF)
================================================================================
