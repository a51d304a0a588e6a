------------------------------ MODULE MCCodecRelay -----------------------------
(***************************************************************************)
(* One value of each kind and its variations, a field at a time, at the    *)
(* limits of the ranges, of the codes and of the marks for missing values, *)
(* and one step beyond; the encodings of the base values with each byte    *)
(* replaced, and of other lengths; aircraft and vehicles in both report    *)
(* types; and lines to the panel with each byte disturbed.                 *)
(***************************************************************************)
EXTENDS CodecRelay

Vary(base, field, values) == { [base EXCEPT ![field] = v] : v \in values }

Bit == {0, 1}

----------------------------------------------------------------------------
BaseHeartbeat ==
    [kind |-> "Heartbeat", gps_position_valid |-> 1, maintenance_required |-> 0,
     ident |-> 0, address_type_talkback |-> 0, gps_battery_low |-> 0, ratcs |-> 0,
     uat_initialized |-> 1, csa_requested |-> 0, csa_not_available |-> 0,
     utc_ok |-> 1, timestamp |-> 65537, uplink_count |-> 1,
     basic_and_long_count |-> 513]

Heartbeats ==
    UNION { Vary(BaseHeartbeat, f, Bit) : f \in HeartbeatFields \ {"uat_initialized", "uplink_count"} }
      \cup Vary(BaseHeartbeat, "timestamp", {0, 255, 256, 65535, 65536, 86399})
      \cup Vary(BaseHeartbeat, "uplink_count", {0, 31})
      \cup Vary(BaseHeartbeat, "basic_and_long_count", {0, 255, 1023, 1024, 65535})
NoHeartbeats ==
    Vary(BaseHeartbeat, "timestamp", {86400}) \cup Vary(BaseHeartbeat, "uplink_count", {32})
      \cup Vary(BaseHeartbeat, "uat_initialized", {0})

Initializations ==
    [kind : {"Initialization"}, audio_test : Bit, audio_inhibit : Bit,
     cdti_ok : Bit, csa_audio_disable : Bit, csa_disable : Bit]

BaseTarget ==
    [kind |-> "TrafficReport", alert_status |-> 0, address_type |-> 1,
     address |-> 11259375, latitude |-> 3, longitude |-> -7000001,
     pressure_altitude |-> 5000, airborne |-> 1, extrapolated |-> 0,
     track_type |-> 1, nic |-> 10, nacp |-> 9, horizontal_velocity |-> 123,
     vertical_velocity |-> 64, track_heading |-> 32, emitter_category |-> 1,
     call_sign |-> <<78, 56, 50>>, emergency_priority_code |-> 0, spare |-> 0]

Targets ==
    Vary(BaseTarget, "kind", {"OwnshipReport"})
      \cup Vary(BaseTarget, "alert_status", Bit) \cup Vary(BaseTarget, "address_type", {0, 5})
      \cup Vary(BaseTarget, "address", {0, 16777215})
      \cup Vary(BaseTarget, "latitude", {-QUARTER, -QUARTER + 1, -1, 0, 1, QUARTER - 1, QUARTER})
      \cup Vary(BaseTarget, "longitude", {-HALF, -HALF + 1, -1, 1, HALF - 3, HALF - 2})
      \cup Vary(BaseTarget, "pressure_altitude", {None, -1000, -975, 101350})
      \cup Vary(BaseTarget, "airborne", Bit) \cup Vary(BaseTarget, "extrapolated", Bit)
      \cup Vary(BaseTarget, "track_type", {2, 3})
      \cup { [BaseTarget EXCEPT !.track_type = 0, !.track_heading = None] }
      \cup Vary(BaseTarget, "nic", {0, 11}) \cup Vary(BaseTarget, "nacp", {0, 11})
      \cup Vary(BaseTarget, "horizontal_velocity", {None, 0, 4093, 4094, 4095, 4096, 65535})
      \cup Vary(BaseTarget, "vertical_velocity",
                {None, 0, -64, 32576, 32640, 32704, -32576, -32640, -32704, -32768})
      \cup Vary(BaseTarget, "track_heading", {0, 255})
      \cup Vary(BaseTarget, "emitter_category", {0, 21})
      \cup Vary(BaseTarget, "call_sign",
                {<< >>, <<110, 45, 57, 90>>, <<65, 32, 66>>, <<32, 48>>, <<65, 32>>,
                 <<65, 66, 67, 68, 69, 70, 71, 72>>})
      \cup Vary(BaseTarget, "emergency_priority_code", {6})
NoTargets ==
    Vary(BaseTarget, "alert_status", {2}) \cup Vary(BaseTarget, "address_type", {6})
      \cup Vary(BaseTarget, "address", {16777216})
      \cup Vary(BaseTarget, "latitude", {QUARTER + 1, -QUARTER - 1})
      \cup Vary(BaseTarget, "longitude", {-HALF - 1, HALF - 1, HALF})
      \cup Vary(BaseTarget, "pressure_altitude", {-1025, -999, 101375})
      \cup Vary(BaseTarget, "track_type", {0}) \cup Vary(BaseTarget, "track_heading", {None})
      \cup Vary(BaseTarget, "nic", {12}) \cup Vary(BaseTarget, "nacp", {12})
      \cup Vary(BaseTarget, "vertical_velocity", {1, -32, 32767})
      \cup Vary(BaseTarget, "emitter_category", {22, 40})
      \cup Vary(BaseTarget, "call_sign", {<<65, 46>>, Fill(9, 65)})
      \cup Vary(BaseTarget, "emergency_priority_code", {7}) \cup Vary(BaseTarget, "spare", {1})

----------------------------------------------------------------------------
BaseUplinkHeader ==
    [kind |-> "UplinkHeader", latitude |-> 6000001, longitude |-> -13000002,
     position_valid |-> 1, utc_coupled |-> 0, application_data_valid |-> 1,
     slot_id |-> 21, tisb_site_id |-> 10]

UplinkHeaders ==
    Vary(BaseUplinkHeader, "latitude", {-QUARTER, -QUARTER + 1, -2, -1, 0, 1, QUARTER})
      \cup Vary(BaseUplinkHeader, "longitude", {-HALF, -HALF + 1, -2, -1, 0, 1, HALF})
      \cup UNION { Vary(BaseUplinkHeader, f, Bit) :
                     f \in {"position_valid", "utc_coupled", "application_data_valid"} }
      \cup Vary(BaseUplinkHeader, "slot_id", {0, 31})
      \cup Vary(BaseUplinkHeader, "tisb_site_id", {0, 15})
NoUplinkHeaders ==
    Vary(BaseUplinkHeader, "latitude", {QUARTER + 1, -QUARTER - 1})
      \cup Vary(BaseUplinkHeader, "longitude", {HALF + 1, -HALF - 1})
      \cup Vary(BaseUplinkHeader, "slot_id", {32})
      \cup Vary(BaseUplinkHeader, "tisb_site_id", {16})

Tors == {None, 0, 255, 256, 65536, MAX_TIME_OF_RECEPTION_TICKS}
NoTors == {MAX_TIME_OF_RECEPTION_TICKS + 1, NO_TIME}

Uplink(tor, header) ==
    [kind |-> "UplinkData", time_of_reception |-> tor,
     payload |-> EncodeUplinkHeader(header) \o Fill(ApplicationDataLen, 126)]
Uplinks == { Uplink(tor, BaseUplinkHeader) : tor \in Tors }
NoUplinks ==
    { Uplink(tor, BaseUplinkHeader) : tor \in NoTors }
      \cup { Uplink(0, [BaseUplinkHeader EXCEPT !.application_data_valid = 0]) }

Adsb(type) == [payload_type_code |-> type, address_qualifier |-> 3, address |-> 11259375]
BaseBasic ==
    [kind |-> "BasicPayload", header |-> Adsb(0),
     state_vector |-> [i \in 1..13 |-> 16 + i], reserved |-> 200]
BaseLong ==
    [kind |-> "LongPayload", header |-> Adsb(1),
     state_vector |-> [i \in 1..13 |-> 16 + i],
     mode_status |-> [i \in 1..12 |-> 32 + i],
     auxiliary |-> <<1, 2, 3, 4, 5>>]
NoPayloads ==
    { [p EXCEPT !.header.payload_type_code = 32] : p \in {BaseBasic, BaseLong} }
      \cup { [BaseBasic EXCEPT !.header.address_qualifier = 8],
             [BaseBasic EXCEPT !.header.address = 16777216] }

Report(kind, tor, n) ==
    [kind |-> kind, time_of_reception |-> tor, payload |-> Fill(n, 8)]
Reports ==
    { Report("BasicReport", tor, 18) : tor \in Tors }
      \cup { Report("LongReport", tor, 34) : tor \in Tors }
NoReports == { Report("BasicReport", tor, 18) : tor \in NoTors }

Altitudes ==
    { [kind |-> "HeightAboveTerrain", feet |-> f] : f \in {None, -32768, -32767, -1, 0, 32767} }
      \cup { [kind |-> "OwnshipGeometricAltitude", altitude_feet |-> a,
              vertical_warning |-> w, figure_of_merit |-> v] :
               a \in {-163840, -5, 0, 163835}, w \in Bit,
               v \in { <<"NotAvailable">>, <<"GreaterThan32766">>, <<"Meters", 0>>,
                       <<"Meters", 32765>>, <<"Meters", 32766>>, <<"Meters", 65535>> } }
NoAltitudes ==
    { [kind |-> "OwnshipGeometricAltitude", altitude_feet |-> a, vertical_warning |-> 0,
       figure_of_merit |-> <<"NotAvailable">>] : a \in {-163845, 3, 163840} }

----------------------------------------------------------------------------
BaseId ==
    [kind |-> "ForeFlightId", version |-> 1, serial |-> <<1, 2, 3, 4, 5, 6, 7, 8>>,
     device_name |-> <<82, 120>>, device_long_name |-> <<76, 111, 110, 103>>,
     geometric_altitude_datum |-> 0, internet_policy |-> 0,
     reserved_bits |-> <<0, 0, 0, 0>>]
Ids ==
    Vary(BaseId, "serial", {None, Fill(8, 0), Fill(8, 255)})
      \cup Vary(BaseId, "device_name", {<< >>, Fill(8, 65), <<65, 0, 66>>, <<0>>})
      \cup Vary(BaseId, "device_long_name", {Fill(16, 66), <<66, 0>>})
      \cup Vary(BaseId, "geometric_altitude_datum", Bit)
      \cup Vary(BaseId, "internet_policy", {1, 2})
NoIds ==
    Vary(BaseId, "version", {0, 2}) \cup Vary(BaseId, "device_name", {Fill(9, 65)})
      \cup Vary(BaseId, "device_long_name", {Fill(17, 65)})
      \cup Vary(BaseId, "internet_policy", {3})
      \cup Vary(BaseId, "reserved_bits", {<<0, 0, 0, 8>>, <<128, 0, 0, 0>>})

BaseAhrs ==
    [kind |-> "ForeFlightAhrs", roll |-> -15, pitch |-> 20,
     heading |-> [magnetic |-> 1, tenths |-> 900],
     indicated_airspeed |-> 100, true_airspeed |-> 110]
AhrsMessages ==
    UNION { Vary(BaseAhrs, f, {None, -1800, 0, 1800}) : f \in {"roll", "pitch"} }
      \cup Vary(BaseAhrs, "heading",
                {None} \cup [magnetic : Bit, tenths : {0, 3600}])
      \cup UNION { Vary(BaseAhrs, f, {None, 0, 65534, 65535}) :
                     f \in {"indicated_airspeed", "true_airspeed"} }
NoAhrsMessages ==
    UNION { Vary(BaseAhrs, f, {-1801, 1801, 32767}) : f \in {"roll", "pitch"} }
      \cup Vary(BaseAhrs, "heading", [magnetic : Bit, tenths : {-1, 3601, 32767}])

Unknowns ==
    { [kind |-> "Unknown", id |-> id, data |-> d] :
         id \in {1, 40, 127}, d \in {<< >>, <<126, 0>>} }
      \cup { [kind |-> "Unknown", id |-> FOREFLIGHT_MESSAGE_ID, data |-> d] :
               d \in {<< >>, <<2>>, <<255, 1>>} }
NoUnknowns == { [kind |-> "Unknown", id |-> 128, data |-> << >>] }

----------------------------------------------------------------------------
BaseStatus == [kind |-> "ServiceStatus", address_qualifier |-> 5, address |-> 66051]
Statuses ==
    Vary(BaseStatus, "address_qualifier", {0, 7}) \cup Vary(BaseStatus, "address", {0, 16777215})
NoStatuses ==
    Vary(BaseStatus, "address_qualifier", {8}) \cup Vary(BaseStatus, "address", {16777216})

Item(month, number) ==
    [month_or_year |-> month, text |-> 1, graphic |-> 0, number |-> number]
BaseList ==
    [kind |-> "ReportList", product_id |-> 13, tfr_notam |-> 0, overflow |-> 0,
     range_nm |-> 100, location_id |-> None, reports |-> <<Item(1, 2), Item(127, 16383)>>]
Lists ==
    { [l EXCEPT !.location_id = where] :
        l \in Vary(BaseList, "product_id", {0, 2047}) \cup Vary(BaseList, "tfr_notam", Bit)
                \cup Vary(BaseList, "overflow", Bit) \cup Vary(BaseList, "range_nm", {0, 1275})
                \cup Vary(BaseList, "reports", {<< >>, Fill(138, Item(12, 257))}),
        where \in {None, <<75, 74, 70>>, <<0, 1, 0>>} }
NoLists ==
    Vary(BaseList, "product_id", {2048}) \cup Vary(BaseList, "range_nm", {7, 1280})
      \cup Vary(BaseList, "reports",
                {Fill(139, Item(12, 257)), <<Item(128, 0)>>, <<Item(0, 16384)>>})

----------------------------------------------------------------------------
CallSigns ==
    { [kind |-> "CallSign", call_sign |-> s] :
         s \in {<< >>, <<78, 49, 45>>, <<110, 57, 122>>, <<65, 32>>, <<65, 32, 66>>,
                <<32, 65>>, <<65, 66, 67, 68, 69, 70, 71, 72>>} }
NoCallSigns ==
    { [kind |-> "CallSign", call_sign |-> s] : s \in {Fill(9, 65), <<65, 46>>} }
Lines ==
    [kind : {"Mode"}, mode : Modes, ident : Idents, squawk : {<<49, 50, 48, 48>>},
     emergency : {48, 54}]
      \cup { [kind |-> "VfrCode", vfr_code |-> c] :
               c \in {<<49, 50, 48, 48>>, <<57, 57, 57, 57>>} }
NoLines ==
    { [kind |-> "VfrCode", vfr_code |-> c] : c \in {<<49, 50>>, <<49, 50, 65, 48>>} }
      \cup { [kind |-> "Mode", mode |-> 79, ident |-> 73, squawk |-> << >>, emergency |-> 48] }

----------------------------------------------------------------------------
BaseAircraft ==
    [qualifier |-> 0, address |-> 11259375, lat |-> 2000001, lon |-> -4000001,
     geometric |-> 0, feet |-> 4500, nic |-> 8, state |-> Subsonic,
     ns |-> 120, ew |-> -35, fpm |-> -640, rate_geometric |-> 1,
     speed |-> 12, track_kind |-> 1, track |-> 150, size |-> 5, offset_applied |-> 1,
     utc_coupled |-> 1, site |-> 9, long |-> None]

BaseMode ==
    [emitter_category |-> 3, call_sign |-> <<78, 49, 50, 65>>, squawk |-> 0,
     emergency_status |-> 5, uat_version |-> 2, sil |-> 1, transmit_mso |-> 42,
     nac_p |-> 9, nac_v |-> 5, nic_baro |-> 1, has_cdti |-> 1, has_acas |-> 0,
     acas_ra_active |-> 1, ident_active |-> 0, atc_services |-> 1,
     magnetic_heading |-> 0]
Long(mode, feet) == [mode |-> mode, feet |-> feet]

Airborne ==
    Vary(BaseAircraft, "qualifier", 0..7)
      \cup Vary(BaseAircraft, "lat", {-4194304, -4194303, -1, 0, 1, 4194304})
      \cup Vary(BaseAircraft, "lon", {-8388608, -8388607, -1, 0, 1, 8388607})
      \cup { [BaseAircraft EXCEPT !.lat = 0, !.lon = 0, !.nic = n] : n \in {0, 1} }
      \cup { [BaseAircraft EXCEPT !.feet = f, !.geometric = g] :
               f \in {None, -1000, 0, 101325}, g \in Bit }
      \cup { [BaseAircraft EXCEPT !.ns = v, !.ew = w] :
               v \in {None, 0, 1022, -1022}, w \in {None, 0, 1, -1, 500} }
      \cup { [BaseAircraft EXCEPT !.state = s, !.ns = 4 * v, !.ew = 4 * w] :
               s \in {Supersonic}, v \in {0, 1022}, w \in {-1022, -1, 5} }
      \cup { [BaseAircraft EXCEPT !.fpm = f, !.rate_geometric = g] :
               f \in {None, 64, -64, 32640, -32640}, g \in Bit }
Standing ==
    LET ground == [BaseAircraft EXCEPT !.state = Ground] IN
      Vary(ground, "speed", {None, 0, 1, 1022}) \cup Vary(ground, "size", 0..15)
        \cup Vary(ground, "offset_applied", Bit)
        \cup { [ground EXCEPT !.track_kind = k, !.track = t] : k \in 0..3, t \in {0, 182, 183, 257, 511} }
WithMode ==
    { [BaseAircraft EXCEPT !.geometric = g, !.long = Long(m, 25000)] : g \in Bit,
        m \in Vary(BaseMode, "emitter_category", {0, 39})
                \cup Vary(BaseMode, "call_sign", {<< >>, Fill(8, 90), <<48>>, <<65, 32, 46>>})
                \cup Vary(BaseMode, "squawk", Bit)
                \cup Vary(BaseMode, "emergency_status", {0, 7})
                \cup Vary(BaseMode, "transmit_mso", {0, 63})
                \cup Vary(BaseMode, "magnetic_heading", Bit) \cup Vary(BaseMode, "sil", {2}) }
      \cup { [BaseAircraft EXCEPT !.long = Long(BaseMode, f)] : f \in {None, -1000, 101325} }

MCFleet == Airborne \cup Standing \cup WithMode

----------------------------------------------------------------------------
MCMessages ==
    Heartbeats \cup Initializations \cup Targets \cup Uplinks \cup Reports \cup Altitudes
      \cup Ids \cup AhrsMessages \cup Unknowns \cup UplinkHeaders
      \cup {BaseBasic, BaseLong} \cup Statuses \cup Lists \cup CallSigns \cup Lines

MCOverreaching ==
    NoHeartbeats \cup NoTargets \cup NoUplinks \cup NoReports \cup NoAltitudes \cup NoIds
      \cup NoAhrsMessages \cup NoUnknowns \cup NoUplinkHeaders \cup NoPayloads
      \cup NoStatuses \cup NoLists \cup NoCallSigns \cup NoLines

\* The encodings whose bytes are replaced, each by a few others.
Originals ==
    { <<ChannelOf(m), Encode(m)>> :
        m \in {BaseHeartbeat, BaseTarget, BaseUplinkHeader, BaseBasic, BaseId, BaseAhrs,
               BaseStatus, BaseList, [BaseList EXCEPT !.location_id = <<75, 74, 70>>]}
                \cup {Uplink(0, BaseUplinkHeader), Report("BasicReport", 0, 18)}
                \cup Altitudes \cup { x \in Initializations : x.cdti_ok = 1 } }

MCForeign ==
    { <<o[1], [o[2] EXCEPT ![i] = b]>> : <<o, i, b>> \in
        { t \in Originals \X (1..39) \X {0, 1, 2, 3, 6, 8, 15, 16, 32, 64, 126, 127, 128, 254, 255} :
            t[2] \in DOMAIN t[1][2] } }
      \cup { <<o[1], SubSeq(o[2], 1, n)>> : o \in Originals, n \in 0..3 }
      \cup { <<o[1], o[2] \o <<0>> >> : o \in Originals }
      \cup { <<"Gdl90", Fill(n, b)>> : n \in {1, 22, 38, 28}, b \in {10, 20, 30, 31, 101} }

MCNoise == {0, 13, 32, 44, 45, 46, 48, 49, 54, 55, 57, 65, 67, 70, 73, 79, 90, 94, 97, 98,
            99, 100, 101, 102, 103, 126, 255}
================================================================================
