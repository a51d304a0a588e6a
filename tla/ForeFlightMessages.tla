---------------------------- MODULE ForeFlightMessages -------------------------
(***************************************************************************)
(* The two ForeFlight messages (src/foreflight.rs) and the dispatch of all *)
(* messages by their first bytes (src/message.rs: Message). A serial       *)
(* number and the reserved capability bits are byte sequences, since they  *)
(* are wider than a number here.                                           *)
(***************************************************************************)
EXTENDS Gdl90Messages

FOREFLIGHT_MESSAGE_ID == 101
ID_SUB_ID == 0
AHRS_SUB_ID == 1

----------------------------------------------------------------------------
(* The ID message *)

NO_SERIAL == Fill(8, 255)

\* ForeFlightIdMessage::validate: version 1, a policy in use, no other bits.
ValidId(m) ==
    /\ m.version = 1
    /\ m.internet_policy <= 2
    /\ m.reserved_bits = <<0, 0, 0, 0>>

\* The lowest bit of the last byte is the datum, the next two the policy.
DecodeId(payload) ==
    LET capabilities == SubSeq(payload, 36, 39)
        m == [kind |-> "ForeFlightId", version |-> payload[3],
              serial |-> Option(SubSeq(payload, 4, 11), NO_SERIAL),
              device_name |-> DecodeUtf8(SubSeq(payload, 12, 19)),
              device_long_name |-> DecodeUtf8(SubSeq(payload, 20, 35)),
              geometric_altitude_datum |-> capabilities[4] % 2,
              internet_policy |-> (capabilities[4] \div 2) % 4,
              reserved_bits |->
                  [capabilities EXCEPT ![4] = 8 * (capabilities[4] \div 8)]]
    IN  IF Len(payload) # 39 THEN Error
        ELSE IF Error \in {m.device_name, m.device_long_name} \/ ~ ValidId(m)
          THEN Error ELSE m

EncodeId(m) ==
    LET name == EncodeUtf8(m.device_name, 8)
        longName == EncodeUtf8(m.device_long_name, 16)
    IN  IF ~ ValidId(m) \/ Error \in {name, longName} THEN Error
        ELSE <<FOREFLIGHT_MESSAGE_ID, ID_SUB_ID, m.version>>
               \o Or(m.serial, NO_SERIAL) \o name \o longName
               \o [m.reserved_bits EXCEPT
                     ![4] = m.geometric_altitude_datum + 2 * m.internet_policy]

----------------------------------------------------------------------------
(* The AHRS message *)

NO_ANGLE == 32767
NO_HEADING == 65535
NO_AIRSPEED == 65535

InRange(tenths) == tenths = None \/ tenths \in -1800..1800

\* A heading's uppermost bit says that it is magnetic.
MAGNETIC == 32768

HeadingOf(raw) ==
    IF raw = NO_HEADING THEN None
    ELSE [magnetic |-> raw \div MAGNETIC, tenths |-> raw % MAGNETIC]

InCircle(heading) == heading = None \/ heading.tenths \in 0..3600

DecodeAhrs(payload) ==
    LET m == [kind |-> "ForeFlightAhrs",
              roll |-> Option(Signed(WordAt(payload, 3), 16), NO_ANGLE),
              pitch |-> Option(Signed(WordAt(payload, 5), 16), NO_ANGLE),
              heading |-> HeadingOf(WordAt(payload, 7)),
              indicated_airspeed |-> Option(WordAt(payload, 9), NO_AIRSPEED),
              true_airspeed |-> Option(WordAt(payload, 11), NO_AIRSPEED)]
    IN  IF Len(payload) # 12 THEN Error
        ELSE IF InRange(m.roll) /\ InRange(m.pitch) /\ InCircle(m.heading)
          THEN m ELSE Error

EncodeAhrs(m) ==
    IF ~ (InRange(m.roll) /\ InRange(m.pitch) /\ InCircle(m.heading)) THEN Error
    ELSE <<FOREFLIGHT_MESSAGE_ID, AHRS_SUB_ID>>
           \o TwoBytes(Or(m.roll, NO_ANGLE)) \o TwoBytes(Or(m.pitch, NO_ANGLE))
           \o TwoBytes(IF m.heading = None THEN NO_HEADING
                       ELSE MAGNETIC * m.heading.magnetic + m.heading.tenths)
           \o TwoBytes(Or(m.indicated_airspeed, NO_AIRSPEED))
           \o TwoBytes(Or(m.true_airspeed, NO_AIRSPEED))

----------------------------------------------------------------------------
(* Message::decode and Message::encode *)

DecodeUnknown(payload) ==
    [kind |-> "Unknown", id |-> payload[1], data |-> Tail(payload)]

DecodeMessage(payload) ==
    IF payload = << >> \/ Head(payload) > 127 THEN Error
    ELSE LET id == Head(payload) IN
      CASE id = 0 -> DecodeHeartbeat(payload)
        [] id = 2 -> DecodeInitialization(payload)
        [] id = 7 -> DecodeUplinkData(payload)
        [] id = 9 -> DecodeHeightAboveTerrain(payload)
        [] id = 10 -> DecodeTarget("OwnshipReport", payload)
        [] id = 11 -> DecodeGeometricAltitude(payload)
        [] id = 20 -> DecodeTarget("TrafficReport", payload)
        [] id = 30 -> DecodePassThrough("BasicReport", 18, payload)
        [] id = 31 -> DecodePassThrough("LongReport", 34, payload)
        [] OTHER ->
             IF IsPrefix(<<FOREFLIGHT_MESSAGE_ID, ID_SUB_ID>>, payload)
               THEN DecodeId(payload)
             ELSE IF IsPrefix(<<FOREFLIGHT_MESSAGE_ID, AHRS_SUB_ID>>, payload)
               THEN DecodeAhrs(payload)
             ELSE DecodeUnknown(payload)

EncodeMessage(m) ==
    CASE m.kind = "Heartbeat" -> EncodeHeartbeat(m)
      [] m.kind = "Initialization" -> EncodeInitialization(m)
      [] m.kind = "UplinkData" -> EncodeUplinkData(m)
      [] m.kind = "HeightAboveTerrain" -> EncodeHeightAboveTerrain(m)
      [] m.kind = "OwnshipReport" -> EncodeTarget(10, m)
      [] m.kind = "OwnshipGeometricAltitude" -> EncodeGeometricAltitude(m)
      [] m.kind = "TrafficReport" -> EncodeTarget(20, m)
      [] m.kind = "BasicReport" -> EncodePassThrough(30, m)
      [] m.kind = "LongReport" -> EncodePassThrough(31, m)
      [] m.kind = "ForeFlightId" -> EncodeId(m)
      [] m.kind = "ForeFlightAhrs" -> EncodeAhrs(m)
      [] m.kind = "Unknown" -> IF m.id > 127 THEN Error ELSE <<m.id>> \o m.data
================================================================================
