------------------------------- MODULE Gdl90Messages ---------------------------
(***************************************************************************)
(* The encoders and decoders of the GDL 90 messages (src/message.rs). A    *)
(* message is a record whose `kind` names the variant; its payload is the  *)
(* bytes between the flags, without the CRC.                               *)
(***************************************************************************)
EXTENDS UplinkStructures

CONSTANT ApplicationDataLen  \* bytes of an uplink after its header: 424

----------------------------------------------------------------------------
(* Heartbeat *)

HeartbeatLayout ==
    << <<"id", 8>>,
       <<"gps_position_valid", 1>>, <<"maintenance_required", 1>>,
       <<"ident", 1>>, <<"address_type_talkback", 1>>,
       <<"gps_battery_low", 1>>, <<"ratcs", 1>>, <<"reserved1", 1>>,
       <<"uat_initialized", 1>>,
       <<"time16", 1>>, <<"csa_requested", 1>>, <<"csa_not_available", 1>>,
       <<"reserved2", 4>>, <<"utc_ok", 1>>,
       <<"time0", 8>>, <<"time8", 8>>,
       <<"uplink_count", 5>>, <<"reserved5", 1>>, <<"counts", 10>> >>

HeartbeatFields ==
    {"gps_position_valid", "maintenance_required", "ident",
     "address_type_talkback", "gps_battery_low", "ratcs", "uat_initialized",
     "csa_requested", "csa_not_available", "utc_ok", "uplink_count"}

DecodeHeartbeat(payload) ==
    LET raw == Unpacked(HeartbeatLayout, payload)
        timestamp == 65536 * raw.time16 + 256 * raw.time8 + raw.time0
    IN  IF Len(payload) # 7 THEN Error
        ELSE IF \/ raw.reserved1 + raw.reserved2 + raw.reserved5 # 0
                \/ raw.uat_initialized = 0
                \/ timestamp >= 86400
          THEN Error
          ELSE [kind |-> "Heartbeat", timestamp |-> timestamp,
                basic_and_long_count |-> raw.counts]
                 @@ Only(raw, HeartbeatFields)

\* Mutant: the count of reports wraps around.
MutantSaturated(count) == count % 1024

Saturated(count) == Min({count, 1023})

\* The count of reports stops at its largest value, that of uplinks fails.
EncodeHeartbeat(m) ==
    IF m.timestamp >= 86400 \/ m.uplink_count > 31 \/ m.uat_initialized = 0
      THEN Error
      ELSE Packed(HeartbeatLayout,
               [id |-> 0, reserved1 |-> 0, reserved2 |-> 0, reserved5 |-> 0,
                time16 |-> m.timestamp \div 65536,
                time8 |-> (m.timestamp \div 256) % 256,
                time0 |-> m.timestamp % 256,
                counts |-> Saturated(m.basic_and_long_count)] @@ m)

----------------------------------------------------------------------------
(* Initialization *)

InitializationLayout ==
    << <<"id", 8>>, <<"reserved7", 1>>, <<"audio_test", 1>>,
       <<"reserved2", 4>>, <<"audio_inhibit", 1>>, <<"cdti_ok", 1>>,
       <<"reserved10", 6>>, <<"csa_audio_disable", 1>>, <<"csa_disable", 1>> >>

DecodeInitialization(payload) ==
    LET raw == Unpacked(InitializationLayout, payload) IN
      IF Len(payload) # 3 THEN Error
      ELSE IF raw.reserved7 + raw.reserved2 + raw.reserved10 # 0 THEN Error
      ELSE [kind |-> "Initialization"]
             @@ Only(raw, {"audio_test", "audio_inhibit", "cdti_ok",
                           "csa_audio_disable", "csa_disable"})

EncodeInitialization(m) ==
    Packed(InitializationLayout,
           [id |-> 2, reserved7 |-> 0, reserved2 |-> 0, reserved10 |-> 0] @@ m)

----------------------------------------------------------------------------
(* Time of reception, in units of 80 ns: little-endian, unlike the rest.   *)

MAX_TIME_OF_RECEPTION_TICKS == 12499999
NO_TIME == 16777215

InTime(tor) == tor = None \/ tor \in 0..MAX_TIME_OF_RECEPTION_TICKS

TorBytes(tor) ==
    LET n == Or(tor, NO_TIME) IN <<n % 256, (n \div 256) % 256, n \div 65536>>

TorOf(payload) ==
    Option(payload[2] + 256 * payload[3] + 65536 * payload[4], NO_TIME)

\* The payload after the time is kept as it is, whatever it says.
DecodePassThrough(kind, size, payload) ==
    IF Len(payload) # size + 4 THEN Error
    ELSE IF ~ InTime(TorOf(payload)) THEN Error
    ELSE [kind |-> kind, time_of_reception |-> TorOf(payload),
          payload |-> SubSeq(payload, 5, Len(payload))]

EncodePassThrough(id, m) ==
    IF ~ InTime(m.time_of_reception) THEN Error
    ELSE <<id>> \o TorBytes(m.time_of_reception) \o m.payload

\* Uplink Data carries a payload whose header says that it has data.
HasApplicationData(header) ==
    /\ DecodeUplinkHeader(header) # Error
    /\ DecodeUplinkHeader(header).application_data_valid = 1

DecodeUplinkData(payload) ==
    LET m == DecodePassThrough("UplinkData", 8 + ApplicationDataLen, payload) IN
      IF m = Error THEN Error
      ELSE IF HasApplicationData(SubSeq(m.payload, 1, 8)) THEN m ELSE Error

EncodeUplinkData(m) ==
    IF HasApplicationData(SubSeq(m.payload, 1, 8)) THEN EncodePassThrough(7, m)
    ELSE Error

----------------------------------------------------------------------------
(* Target reports *)

TargetLayout ==
    << <<"id", 8>>, <<"alert_status", 4>>, <<"address_type", 4>>,
       <<"address", 24>>, <<"lat", 24>>, <<"lon", 24>>, <<"altitude", 12>>,
       <<"airborne", 1>>, <<"extrapolated", 1>>, <<"track_type", 2>>,
       <<"nic", 4>>, <<"nacp", 4>>, <<"horizontal", 12>>, <<"vertical", 12>>,
       <<"track", 8>>, <<"emitter_category", 8>> >>

TargetFields ==
    {"alert_status", "address_type", "address", "airborne", "extrapolated",
     "track_type", "nic", "nacp", "emitter_category"}

NotValid == 0  \* TrackType

EncodeAltitude(feet) ==
    IF feet = None THEN 4095
    ELSE IF (feet + 1000) % 25 = 0 /\ (feet + 1000) \div 25 \in 0..4094
      THEN (feet + 1000) \div 25 ELSE Error

DecodeAltitude(raw) == IF raw = 4095 THEN None ELSE 25 * raw - 1000

\* Steps of 64 feet per minute, held at 510 of them either way.
EncodeVerticalVelocity(fpm) ==
    IF fpm = None THEN 2048
    ELSE IF fpm % 64 # 0 THEN Error
    ELSE Max({-510, Min({fpm \div 64, 510})}) % 4096

\* Mutant: the unused codes between the limits are accepted.
MutantDecodeVerticalVelocity(raw) ==
    IF raw = 2048 THEN None ELSE 64 * Signed(raw, 12)

DecodeVerticalVelocity(raw) ==
    CASE raw = 2048 -> None
      [] raw \in 0..510 \cup 3586..4095 -> 64 * Signed(raw, 12)
      [] OTHER -> Error

\* Values that a report may have, encoded or decoded.
TransmittedTarget(t) ==
    /\ t.alert_status <= 1 /\ t.address_type <= 5
    /\ t.nic <= 11 /\ t.nacp <= 11
    /\ t.emitter_category < 22
    /\ t.emergency_priority_code <= 6
    /\ t.spare = 0

DecodeTarget(kind, payload) ==
    LET raw == Unpacked(TargetLayout, SubSeq(payload, 1, 19))
        latitude == LatLonToDegrees(raw.lat)
        target ==
          [kind |-> kind, latitude |-> latitude,
           longitude |-> LatLonToDegrees(raw.lon),
           pressure_altitude |-> DecodeAltitude(raw.altitude),
           horizontal_velocity |-> Option(raw.horizontal, 4095),
           vertical_velocity |-> DecodeVerticalVelocity(raw.vertical),
           track_heading |-> IF raw.track_type = NotValid THEN None ELSE raw.track,
           call_sign |-> DecodeCallSign(SubSeq(payload, 20, 27)),
           emergency_priority_code |-> payload[28] \div 16,
           spare |-> payload[28] % 16]
             @@ Only(raw, TargetFields)
    IN  IF Len(payload) # 28 THEN Error
        ELSE IF \/ ~ TransmittedTarget(target)
                \/ latitude \notin -QUARTER..QUARTER
                \/ Error \in {target.vertical_velocity, target.call_sign}
          THEN Error ELSE target

EncodeTarget(id, t) ==
    LET lat == DegreesToLatLon(t.latitude, -QUARTER, QUARTER)
        lon == DegreesToLatLon(t.longitude, -HALF, HALF - 2)
        altitude == EncodeAltitude(t.pressure_altitude)
        vertical == EncodeVerticalVelocity(t.vertical_velocity)
        callSign == EncodeCallSign(t.call_sign)
    IN  IF \/ ~ TransmittedTarget(t)
           \/ t.address >= 2 ^ 24
           \/ (t.track_type = NotValid) # (t.track_heading = None)
           \/ Error \in {lat, lon, altitude, vertical, callSign}
          THEN Error
          ELSE Packed(TargetLayout,
                   [id |-> id, lat |-> lat, lon |-> lon, altitude |-> altitude,
                    horizontal |-> IF t.horizontal_velocity = None THEN 4095
                                   ELSE Min({t.horizontal_velocity, 4094}),
                    vertical |-> vertical,
                    track |-> Or(t.track_heading, 0)] @@ t)
                 \o callSign \o <<16 * t.emergency_priority_code + t.spare>>

----------------------------------------------------------------------------
(* Altitudes: two bytes, the upper one first. *)

TwoBytes(n) == BytesOfBits(BitsOf(n, 16))
WordAt(payload, i) == 256 * payload[i] + payload[i + 1]

DecodeHeightAboveTerrain(payload) ==
    IF Len(payload) # 3 THEN Error
    ELSE [kind |-> "HeightAboveTerrain",
          feet |-> Option(Signed(WordAt(payload, 2), 16), -32768)]

EncodeHeightAboveTerrain(m) == <<9>> \o TwoBytes(Or(m.feet, -32768))

\* The figure of merit is in metres, or one of two strings.
NOT_AVAILABLE == 32767
GREATER_THAN == 32766

DecodeGeometricAltitude(payload) ==
    LET metrics == WordAt(payload, 4) % 32768 IN
      IF Len(payload) # 5 THEN Error
      ELSE [kind |-> "OwnshipGeometricAltitude",
            altitude_feet |-> 5 * Signed(WordAt(payload, 2), 16),
            vertical_warning |-> payload[4] \div 128,
            figure_of_merit |->
                CASE metrics = NOT_AVAILABLE -> <<"NotAvailable">>
                  [] metrics = GREATER_THAN -> <<"GreaterThan32766">>
                  [] OTHER -> <<"Meters", metrics>>]

EncodeGeometricAltitude(m) ==
    LET units == m.altitude_feet \div 5
        metrics == CASE m.figure_of_merit[1] = "NotAvailable" -> NOT_AVAILABLE
                     [] m.figure_of_merit[1] = "GreaterThan32766" -> GREATER_THAN
                     [] OTHER -> Min({m.figure_of_merit[2], GREATER_THAN})
    IN  IF m.altitude_feet % 5 # 0 \/ units \notin -32768..32767 THEN Error
        ELSE <<11>> \o TwoBytes(units)
               \o TwoBytes(32768 * m.vertical_warning + metrics)
================================================================================
