-------------------------------- MODULE Aircraft -------------------------------
(***************************************************************************)
(* The transmitters that Basic and Long Reports come from: what a UAT      *)
(* aircraft or vehicle puts on the air. No code of the crate writes these  *)
(* payloads; the layout is what src/message.rs reads, told as fields, and  *)
(* the receiver's arithmetic on bytes is checked against it.               *)
(*                                                                         *)
(* An aircraft is a record; `lat` and `lon` are codes (two half units),    *)
(* `long` is None or the mode status and secondary altitude of a Long      *)
(* Report.                                                                 *)
(***************************************************************************)
EXTENDS UatReports

StateVectorLayout ==
    << <<"lat", 23>>, <<"lon", 24>>, <<"geometric", 1>>, <<"altitude", 12>>,
       <<"nic", 4>>, <<"state", 2>>, <<"unused", 1>>, <<"first", 11>>,
       <<"second", 11>>, <<"third", 11>>, <<"last", 4>> >>

ModeStatusLayout ==
    << <<"word1", 16>>, <<"word2", 16>>, <<"word3", 16>>,
       <<"emergency_status", 3>>, <<"uat_version", 3>>, <<"sil", 2>>,
       <<"transmit_mso", 6>>, <<"unused", 2>>,
       <<"nac_p", 4>>, <<"nac_v", 3>>, <<"nic_baro", 1>>,
       <<"has_cdti", 1>>, <<"has_acas", 1>>, <<"acas_ra_active", 1>>,
       <<"ident_active", 1>>, <<"atc_services", 1>>, <<"magnetic_heading", 1>>,
       <<"named", 1>>, <<"unused", 1>>, <<"reserved", 16>> >>

\* A quantity from its zero on, in steps, under a sign; 0 for none.
Sign(v, weight) == IF v < 0 THEN weight ELSE 0
Coded(v, step, weight) ==
    IF v = None THEN 0 ELSE Sign(v, weight) + (Magnitude(v) \div step) + 1

AltitudeCode(feet) == IF feet = None THEN 0 ELSE (feet + 1000) \div 25 + 1

OnGround(a) == a.state = Ground
KnotsPerStep(a) == IF a.state = Supersonic THEN 4 ELSE 1
Tisb(a) == a.qualifier \in {2, 3}

StateVector(a) ==
    Packed(StateVectorLayout,
        [lat |-> a.lat, lon |-> a.lon, geometric |-> a.geometric,
         altitude |-> AltitudeCode(a.feet), nic |-> a.nic, state |-> a.state,
         unused |-> 0,
         first |-> IF OnGround(a) THEN Coded(a.speed, 1, 0)
                   ELSE Coded(a.ns, KnotsPerStep(a), 1024),
         second |-> IF OnGround(a) THEN 512 * a.track_kind + a.track
                    ELSE Coded(a.ew, KnotsPerStep(a), 1024),
         third |-> IF OnGround(a) THEN 16 * (8 * a.size + 4 * a.offset_applied)
                   ELSE IF a.fpm = None THEN 0
                   ELSE Coded(a.fpm, 64, 512) + 1024 * (1 - a.rate_geometric),
         last |-> IF Tisb(a) THEN a.site ELSE 8 * a.utc_coupled])

AlphabetIndex(byte) ==
    (CHOOSE i \in 1..40 : UAT_BASE40_ALPHABET[i] = byte) - 1

ModeStatus(m) ==
    LET digits == <<m.emitter_category>>
          \o [i \in 1..8 |-> AlphabetIndex(Padded(m.call_sign, 8, SPACE)[i])]
        Word(i) == 1600 * digits[i] + 40 * digits[i + 1] + digits[i + 2]
    IN  Packed(ModeStatusLayout,
            [word1 |-> Word(1), word2 |-> Word(4), word3 |-> Word(7),
             named |-> 1 - m.squawk, unused |-> 0, reserved |-> 0] @@ m)

Transmitted(a) ==
    LET vector == BytesOfBits(BitsOf(IF a.long = None THEN 0 ELSE 1, 5)
                                \o BitsOf(a.qualifier, 3)
                                \o BitsOf(a.address, 24)) \o StateVector(a)
    IN  IF a.long = None THEN vector \o <<0>>
        ELSE vector \o ModeStatus(a.long.mode)
               \o BytesOfBits(BitsOf(AltitudeCode(a.long.feet), 12) \o Fill(28, 0))

----------------------------------------------------------------------------
(* What a receiver should make of it. *)

\* -90 and -180 degrees have the codes of the other end.
SeenAngle(code, limit) == IF 2 * code = -limit THEN limit ELSE 2 * code

SeenAltitude(feet, type) ==
    IF feet = None THEN None ELSE [feet |-> feet, type |-> type]

SeenVector(a) ==
    LET Flying(v) == IF OnGround(a) THEN None ELSE v
        Standing(v) == IF OnGround(a) THEN v ELSE None
    IN  [nic |-> a.nic,
         position |-> IF a.nic = 0 /\ a.lat = 0 /\ a.lon = 0 THEN None
                      ELSE [latitude |-> SeenAngle(a.lat, QUARTER),
                            longitude |-> SeenAngle(a.lon, HALF)],
         altitude |-> SeenAltitude(a.feet, a.geometric),
         air_ground_state |-> a.state,
         north_south |-> Flying(a.ns), east_west |-> Flying(a.ew),
         speed |-> IF OnGround(a) THEN a.speed ELSE Speed(a.ns, a.ew),
         track |-> Standing(IF a.track_kind = 0 THEN None
                            ELSE [kind |-> a.track_kind,
                                  degrees |-> (a.track * 360) \div 512]),
         vertical_rate |-> Flying(IF a.fpm = None THEN None
                                  ELSE [fpm |-> a.fpm, source |-> a.rate_geometric]),
         dimensions |-> Standing([length |-> 15 + 10 * (a.size % 8),
             width |-> UAT_DIMENSIONS_WIDTHS_DECIMETERS[a.size + 1],
             offset_applied |-> a.offset_applied]),
         utc_coupled |-> IF Tisb(a) THEN 0 ELSE a.utc_coupled,
         tisb_site_id |-> IF Tisb(a) THEN a.site ELSE 0]

SeenMode(m) ==
    [call_sign |-> IF m.call_sign = << >> THEN None ELSE m.call_sign,
     call_sign_type |-> IF m.call_sign = << >> THEN None
                        ELSE IF m.squawk = 1 THEN "Squawk" ELSE "CallSign"]
      @@ Only(m, DOMAIN m \ {"squawk"})

Seen(a) ==
    IF a.long = None THEN [state |-> SeenVector(a)]
    ELSE [state |-> SeenVector(a), mode |-> SeenMode(a.long.mode),
          secondary |-> SeenAltitude(a.long.feet, 1 - a.geometric)]
================================================================================
