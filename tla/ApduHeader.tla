------------------------------- MODULE ApduHeader ------------------------------
(***************************************************************************)
(* The variable-length header of a FIS-B APDU, bit by bit (src/uplink.rs:  *)
(* ApduHeader, BitReader, BitWriter). Every error is the one value Error.  *)
(*                                                                         *)
(* A header is a record: `agp` holds the three reserved flags as a number, *)
(* `flagged` is segmentation_flag, `option` is time_option; date, seconds  *)
(* and seg may be None.                                                    *)
(***************************************************************************)
EXTENDS Wire

ByteCount(bits) == (bits + 7) \div 8

----------------------------------------------------------------------------
(* Validation *)

HasDate(h) == h.date # None
HasSeconds(h) == h.seconds # None

(* At most one of the two optional time fields, and the bits that say so.  *)
TimeOptionAgrees(h) ==
    /\ ~ (HasDate(h) /\ HasSeconds(h))
    /\ h.option = 2 * Flag(HasDate(h)) + Flag(HasSeconds(h))

Valid(h) ==
    /\ h.product \in 0..2047
    /\ h.hours \in 0..23
    /\ h.minutes \in 0..59
    /\ HasDate(h) => h.date.month \in 1..12 /\ h.date.day \in 1..31
    /\ HasSeconds(h) => h.seconds \in 0..59
    /\ h.seg # None => /\ h.seg.file \in 0..1023
                       /\ h.seg.total \in 1..511
                       /\ h.seg.number \in 1..h.seg.total
    /\ TimeOptionAgrees(h)
    /\ h.flagged = (h.seg # None)

\* validate_operational_uat: the reserved flags are zero besides.
Operational(h) == Valid(h) /\ h.agp = 0

\* validate_minimal_uat
Minimal(h) == Operational(h) /\ h.option = 0 /\ ~ h.flagged

----------------------------------------------------------------------------
(* Encoding *)

\* Mutant: the two time flags are written in the other order.
MutantTimeFlags(h) == <<h.option % 2, h.option \div 2>>

TimeFlags(h) == <<h.option \div 2, h.option % 2>>

HeaderBits(h) ==
    BitsOf(h.agp, 3) \o BitsOf(h.product, 11) \o <<Flag(h.flagged)>>
      \o TimeFlags(h)
      \o (IF HasDate(h) THEN BitsOf(h.date.month, 4) \o BitsOf(h.date.day, 5)
                        ELSE << >>)
      \o BitsOf(h.hours, 5) \o BitsOf(h.minutes, 6)
      \o (IF HasSeconds(h) THEN BitsOf(h.seconds, 6) ELSE << >>)
      \o (IF h.seg # None THEN BitsOf(h.seg.file, 10) \o BitsOf(h.seg.total, 9)
                                 \o BitsOf(h.seg.number, 9)
                          ELSE << >>)

\* BitWriter: the last byte is filled up with zeros.
ZeroPadded(bits) ==
    bits \o [i \in 1..8 * ByteCount(Len(bits)) - Len(bits) |-> 0]

EncodeHeader(h) ==
    IF Operational(h) THEN BytesOfBits(ZeroPadded(HeaderBits(h))) ELSE Error

----------------------------------------------------------------------------
(* Decoding *)

(* Which optional fields there are is read off the flags in bits 15 to 17; *)
(* they shift the fields after them. The result is the header and the      *)
(* number of its bytes.                                                    *)
DecodeHeader(bytes) ==
    LET bits == BitsOfBytes(bytes)
        Field(at, width) == NumberOf(SubSeq(bits, at + 1, at + width))
        time == 17 + 9 * bits[16]
        seg == time + 11 + 6 * bits[17]
        end == seg + 28 * bits[15]
        header == [agp |-> Field(0, 3), product |-> Field(3, 11),
            flagged |-> bits[15] = 1, option |-> 2 * bits[16] + bits[17],
            date |-> IF bits[16] = 1
                       THEN [month |-> Field(17, 4), day |-> Field(21, 5)]
                       ELSE None,
            hours |-> Field(time, 5), minutes |-> Field(time + 5, 6),
            seconds |-> IF bits[17] = 1 THEN Field(time + 11, 6) ELSE None,
            seg |-> IF bits[15] = 1
                      THEN [file |-> Field(seg, 10), total |-> Field(seg + 10, 9),
                            number |-> Field(seg + 19, 9)]
                      ELSE None]
    IN  IF \/ Len(bytes) < 4
           \/ Len(bytes) < ByteCount(end)
           \/ \E i \in end + 1..8 * ByteCount(end) : bits[i] # 0
           \/ ~ Operational(header)
          THEN Error
          ELSE [header |-> header, size |-> ByteCount(end)]
================================================================================
