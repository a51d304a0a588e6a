------------------------------- MODULE UatReports ------------------------------
(***************************************************************************)
(* What Basic and Long Reports carry: the UAT ADS-B payloads and the       *)
(* decoders of their state vector, mode status and auxiliary state vector  *)
(* (src/message.rs). Bytes count from 1 here, from 0 in the code. The      *)
(* direction of a moving aircraft (an arctangent) is left out.             *)
(***************************************************************************)
EXTENDS Fields

CONSTANT Panic  \* an unwind, whichever

\* Bits of a byte, with the weight of the lowest of them.
Bits(byte, weight, width) == (byte \div weight) % 2 ^ width

----------------------------------------------------------------------------
(* UatAdsbPayloadHeader, BasicUatPayload, LongUatPayload *)

DecodeAdsbHeader(bytes) ==
    [payload_type_code |-> bytes[1] \div 8, address_qualifier |-> bytes[1] % 8,
     address |-> 65536 * bytes[2] + 256 * bytes[3] + bytes[4]]

EncodeAdsbHeader(h) ==
    IF \/ h.payload_type_code > 31 \/ h.address_qualifier > 7
       \/ h.address >= 2 ^ 24
      THEN Error
      ELSE <<8 * h.payload_type_code + h.address_qualifier>>
             \o BytesOfBits(BitsOf(h.address, 24))

DecodeBasicPayload(bytes) ==
    LET header == DecodeAdsbHeader(bytes) IN
      IF Len(bytes) # 18 THEN Error
      ELSE IF header.payload_type_code # 0 THEN Error
      ELSE [kind |-> "BasicPayload", header |-> header,
            state_vector |-> SubSeq(bytes, 5, 17), reserved |-> bytes[18]]

DecodeLongPayload(bytes) ==
    LET header == DecodeAdsbHeader(bytes) IN
      IF Len(bytes) # 34 THEN Error
      ELSE IF header.payload_type_code # 1 THEN Error
      ELSE [kind |-> "LongPayload", header |-> header,
            state_vector |-> SubSeq(bytes, 5, 17),
            mode_status |-> SubSeq(bytes, 18, 29),
            auxiliary |-> SubSeq(bytes, 30, 34)]

EncodeBasicPayload(p) ==
    IF EncodeAdsbHeader(p.header) = Error THEN Error
    ELSE EncodeAdsbHeader(p.header) \o p.state_vector \o <<p.reserved>>

EncodeLongPayload(p) ==
    IF EncodeAdsbHeader(p.header) = Error THEN Error
    ELSE EncodeAdsbHeader(p.header) \o p.state_vector \o p.mode_status
           \o p.auxiliary

----------------------------------------------------------------------------
(* The state vector *)

Subsonic == 0
Supersonic == 1
Ground == 2

Geometric == 1
Barometric == 0

\* In steps of 25 feet from -1000, where 0 means that there is none.
UatAltitude(raw, type) ==
    IF raw = 0 THEN None
    ELSE [feet |-> 25 * (raw - 1) - 1000, type |-> type]

Position(sv) ==
    LET lat == 32768 * sv[1] + 128 * sv[2] + sv[3] \div 2
        lon == 2 ^ 23 * (sv[3] % 2) + 32768 * sv[4] + 128 * sv[5] + sv[6] \div 2
    IN  IF sv[8] % 16 = 0 /\ lat = 0 /\ lon = 0 THEN None
        ELSE [latitude |-> DecodeUatLatitude(lat),
              longitude |-> DecodeUatLongitude(lon)]

\* The eleven bits of each of the three rates, in two or three bytes.
FirstRate(sv) == 64 * Bits(sv[9], 1, 5) + sv[10] \div 4
SecondRate(sv) == 512 * (sv[10] % 4) + 2 * sv[11] + sv[12] \div 128
ThirdRate(sv) == 16 * (sv[12] % 128) + sv[13] \div 16

\* Ten bits of knots, from 1, under a sign.
Velocity(raw, state) ==
    LET scale == IF state = Supersonic THEN 4 ELSE 1
        sign == IF raw >= 1024 THEN -1 ELSE 1
    IN  IF raw % 1024 = 0 THEN None ELSE scale * sign * ((raw % 1024) - 1)

\* The square root as an unsigned integer: rounded down.
Root(n, atMost) == CHOOSE r \in 0..atMost : r * r <= n /\ n < (r + 1) * (r + 1)

Magnitude(n) == IF n < 0 THEN -n ELSE n

Speed(ns, ew) ==
    IF None \in {ns, ew} THEN None
    ELSE Root(ns * ns + ew * ew, Magnitude(ns) + Magnitude(ew))

\* Mutant: the two signs of the vertical rate are taken for each other.
MutantVerticalRate(raw) ==
    IF raw % 512 = 0 THEN None
    ELSE [fpm |-> IF raw >= 1024 THEN -64 * ((raw % 512) - 1)
                  ELSE 64 * ((raw % 512) - 1),
          source |-> IF Bits(raw, 512, 1) = 1 THEN Barometric ELSE Geometric]

\* Here a set bit means barometric, in the altitudes it means geometric.
VerticalRate(raw) ==
    IF raw % 512 = 0 THEN None
    ELSE [fpm |-> IF Bits(raw, 512, 1) = 1 THEN -64 * ((raw % 512) - 1)
                  ELSE 64 * ((raw % 512) - 1),
          source |-> IF raw >= 1024 THEN Barometric ELSE Geometric]

\* What a vehicle on the ground tells instead of its velocities.
UAT_DIMENSIONS_WIDTHS_DECIMETERS ==
    <<115, 230, 285, 340, 330, 380, 395, 450,
      450, 520, 595, 670, 725, 800, 800, 900>>

(* Two computations on the ground can leave the u16: ten zero bits of      *)
(* speed under a set eleventh one, and the product of a track from 129     *)
(* degrees on. A debug build unwinds, which is what is modelled; a release *)
(* build shows 65535 knots, or a track that lost 128 degrees or twice that.*)
GroundSpeed(raw) ==
    IF raw = 0 THEN None
    ELSE IF raw % 1024 = 0 THEN Panic
    ELSE (raw % 1024) - 1

GroundTrack(raw) ==
    IF raw \div 512 = 0 THEN None
    ELSE IF (raw % 512) * 360 >= 2 ^ 16 THEN Panic
    ELSE [kind |-> raw \div 512, degrees |-> ((raw % 512) * 360) \div 512]

Dimensions(sv) ==
    [length |-> 15 + 10 * Bits(sv[12], 8, 3),
     width |-> UAT_DIMENSIONS_WIDTHS_DECIMETERS[Bits(sv[12], 8, 4) + 1],
     offset_applied |-> Bits(sv[12], 4, 1)]

DecodeStateVector(header, sv) ==
    LET state == sv[9] \div 64
        moves == state \in {Subsonic, Supersonic}
        ns == IF moves THEN Velocity(FirstRate(sv), state) ELSE None
        ew == IF moves THEN Velocity(SecondRate(sv), state) ELSE None
        speed == IF state = Ground THEN GroundSpeed(FirstRate(sv)) ELSE Speed(ns, ew)
        track == IF state = Ground THEN GroundTrack(SecondRate(sv)) ELSE None
        tisb == header.address_qualifier \in {2, 3}
    IN  IF Panic \in {speed, track} THEN Panic ELSE
        [nic |-> sv[8] % 16,
         position |-> Position(sv),
         altitude |-> UatAltitude(16 * sv[7] + sv[8] \div 16, sv[6] % 2),
         air_ground_state |-> state,
         north_south |-> ns, east_west |-> ew,
         speed |-> speed, track |-> track,
         vertical_rate |-> IF moves THEN VerticalRate(ThirdRate(sv)) ELSE None,
         dimensions |-> IF state = Ground THEN Dimensions(sv) ELSE None,
         utc_coupled |-> IF tisb THEN 0 ELSE Bits(sv[13], 8, 1),
         tisb_site_id |-> IF tisb THEN sv[13] % 16 ELSE 0]

----------------------------------------------------------------------------
(* The mode status and the auxiliary state vector *)

UAT_BASE40_ALPHABET ==
    [i \in 1..10 |-> 47 + i] \o [i \in 1..26 |-> 64 + i] \o <<32, 46, 46, 46>>

\* A word is three digits to base 40; the very first one is the category.
Base40(word) ==
    <<(word \div 1600) % 40, (word \div 40) % 40, word % 40>>

DecodeModeStatus(ms) ==
    LET words == [i \in 1..3 |-> 256 * ms[2 * i - 1] + ms[2 * i]]
        digits == FlattenSeq([i \in 1..3 |-> Base40(words[i])])
        callSign == TrimEnd([i \in 1..8 |-> UAT_BASE40_ALPHABET[digits[i + 1] + 1]],
                            SPACE)
        named == callSign # << >>
    IN  [emitter_category |-> digits[1],
         call_sign |-> IF named THEN callSign ELSE None,
         call_sign_type |-> IF ~ named THEN None
                            ELSE IF Bits(ms[10], 2, 1) = 1 THEN "CallSign"
                            ELSE "Squawk",
         emergency_status |-> ms[7] \div 32, uat_version |-> Bits(ms[7], 4, 3),
         sil |-> ms[7] % 4, transmit_mso |-> ms[8] \div 4,
         nac_p |-> ms[9] \div 16, nac_v |-> Bits(ms[9], 2, 3),
         nic_baro |-> ms[9] % 2, has_cdti |-> ms[10] \div 128,
         has_acas |-> Bits(ms[10], 64, 1), acas_ra_active |-> Bits(ms[10], 32, 1),
         ident_active |-> Bits(ms[10], 16, 1), atc_services |-> Bits(ms[10], 8, 1),
         magnetic_heading |-> Bits(ms[10], 4, 1)]

\* The second altitude is of the type that the first one is not.
SecondaryAltitude(sv, aux) ==
    UatAltitude(16 * aux[1] + aux[2] \div 16, 1 - (sv[6] % 2))

----------------------------------------------------------------------------
(* BasicReport::basic_payload, LongReport::long_payload: a payload of the  *)
(* other type is not expected, and unwinds.                                *)

InspectBasic(payload) ==
    LET p == DecodeBasicPayload(payload)
        state == DecodeStateVector(p.header, p.state_vector)
    IN  IF p = Error THEN Panic
        ELSE IF state = Panic THEN Panic ELSE [state |-> state]

InspectLong(payload) ==
    LET p == DecodeLongPayload(payload)
        state == DecodeStateVector(p.header, p.state_vector)
    IN  IF p = Error THEN Panic
        ELSE IF state = Panic THEN Panic
        ELSE [state |-> state, mode |-> DecodeModeStatus(p.mode_status),
              secondary |-> SecondaryAltitude(p.state_vector, p.auxiliary)]
================================================================================
