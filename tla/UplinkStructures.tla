----------------------------- MODULE UplinkStructures --------------------------
(***************************************************************************)
(* The fixed structures of a UAT uplink next to the APDUs: the payload's   *)
(* own header, the TIS-B / ADS-R service status signal and the current     *)
(* report list (src/uplink.rs). Flags are 0 and 1, angles half units as in *)
(* Fields.                                                                 *)
(***************************************************************************)
EXTENDS Fields

----------------------------------------------------------------------------
(* UatUplinkHeader *)

UplinkHeaderLayout ==
    << <<"lat", 23>>, <<"lon", 24>>, <<"position_valid", 1>>,
       <<"utc_coupled", 1>>, <<"reserved6", 1>>,
       <<"application_data_valid", 1>>, <<"slot_id", 5>>,
       <<"tisb_site_id", 4>>, <<"reserved7", 4>> >>

UplinkHeaderFields ==
    {"position_valid", "utc_coupled", "application_data_valid", "slot_id",
     "tisb_site_id"}

DecodeUplinkHeader(bytes) ==
    LET raw == Unpacked(UplinkHeaderLayout, bytes) IN
      IF Len(bytes) # 8 THEN Error
      ELSE IF raw.reserved6 # 0 \/ raw.reserved7 # 0 THEN Error
      ELSE [kind |-> "UplinkHeader",
            latitude |-> DecodeUatLatitude(raw.lat),
            longitude |-> DecodeUatLongitude(raw.lon)]
             @@ Only(raw, UplinkHeaderFields)

\* Only the low 23 bits of the 24-bit latitude code are written.
EncodeUplinkHeader(h) ==
    LET lat == EncodeUatLatitude(h.latitude)
        lon == EncodeUatLongitude(h.longitude)
    IN  IF h.slot_id > 31 \/ h.tisb_site_id > 15 \/ Error \in {lat, lon} THEN Error
        ELSE Packed(UplinkHeaderLayout,
                    [lat |-> lat, lon |-> lon, reserved6 |-> 0, reserved7 |-> 0]
                      @@ h)

----------------------------------------------------------------------------
(* ServiceStatusSignal *)

ServiceStatusLayout ==
    << <<"reserved", 4>>, <<"signal", 1>>, <<"address_qualifier", 3>>,
       <<"address", 24>> >>

DecodeServiceStatus(bytes) ==
    LET raw == Unpacked(ServiceStatusLayout, bytes) IN
      IF Len(bytes) # 4 THEN Error
      ELSE IF raw.reserved # 0 \/ raw.signal = 0 THEN Error
      ELSE [kind |-> "ServiceStatus",
            address_qualifier |-> raw.address_qualifier,
            address |-> raw.address]

EncodeServiceStatus(s) ==
    IF s.address_qualifier > 7 \/ s.address >= 2 ^ 24 THEN Error
    ELSE Packed(ServiceStatusLayout, [reserved |-> 0, signal |-> 1] @@ s)

----------------------------------------------------------------------------
(* CurrentReportList *)

MAX_CRL_REPORTS == 138

CrlLayout ==
    << <<"product_id", 11>>, <<"tfr_notam", 1>>, <<"reserved", 2>>,
       <<"overflow", 1>>, <<"located", 1>>, <<"range", 8>> >>

CrlItemLayout ==
    << <<"reserved", 1>>, <<"month_or_year", 7>>, <<"text", 1>>,
       <<"graphic", 1>>, <<"number", 14>> >>

ValidCrlItem(item) == item.month_or_year <= 127 /\ item.number < 2 ^ 14

ValidCrl(l) ==
    /\ l.product_id < 2 ^ 11
    /\ l.range_nm <= 1275 /\ l.range_nm % 5 = 0
    /\ Len(l.reports) <= MAX_CRL_REPORTS
    /\ \A i \in DOMAIN l.reports : ValidCrlItem(l.reports[i])

EncodeCrl(l) ==
    IF ~ ValidCrl(l) THEN Error
    ELSE Packed(CrlLayout, [reserved |-> 0, range |-> l.range_nm \div 5,
                            located |-> Flag(l.location_id # None)] @@ l)
           \o (IF l.location_id = None THEN << >> ELSE l.location_id)
           \o <<Len(l.reports)>>
           \o FlattenSeq([i \in DOMAIN l.reports |->
                  Packed(CrlItemLayout, [reserved |-> 0] @@ l.reports[i])])

(* The three bytes of a location come between the head and the count.      *)
DecodeCrl(bytes) ==
    LET raw == Unpacked(CrlLayout, SubSeq(bytes, 1, 3))
        at == 4 + 3 * raw.located
        count == bytes[at]
        Item(i) == Unpacked(CrlItemLayout,
                            SubSeq(bytes, at + 3 * i - 2, at + 3 * i))
        list == [kind |-> "ReportList", range_nm |-> 5 * raw.range,
                 location_id |->
                     IF raw.located = 1 THEN SubSeq(bytes, 4, 6) ELSE None,
                 reports |-> [i \in 1..count |->
                     Only(Item(i), {"month_or_year", "text", "graphic", "number"})]]
                  @@ Only(raw, {"product_id", "tfr_notam", "overflow"})
    IN  IF Len(bytes) < 4 THEN Error
        ELSE IF raw.reserved # 0 \/ Len(bytes) < at THEN Error
        ELSE IF Len(bytes) # at + 3 * count THEN Error
        ELSE IF \E i \in 1..count : Item(i).reserved # 0 THEN Error
        ELSE IF ~ ValidCrl(list) THEN Error ELSE list
================================================================================
