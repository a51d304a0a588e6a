------------------------------- MODULE CodecRelay ------------------------------
(***************************************************************************)
(* Values on their way through the encoders and decoders: a sender encodes *)
(* one, a receiver decodes it and a gateway encodes what it heard again,   *)
(* several times in a row. The bytes may also come from elsewhere: another *)
(* device, an aircraft, or a noisy serial line to the control panel.       *)
(* Compares what is heard with what was said (src/message.rs,              *)
(* src/foreflight.rs, src/control.rs, src/uplink.rs).                      *)
(***************************************************************************)
EXTENDS ForeFlightMessages, ControlLines, Aircraft

CONSTANTS
    Messages,      \* values within their documented ranges
    Overreaching,  \* values that have a field out of range
    Foreign,       \* <<channel, bytes>> of other origins
    Fleet,         \* aircraft whose reports are passed on
    Noise,         \* bytes that a disturbed line may show
    MaxHops        \* bound on the gateways in a row

VARIABLES
    channel,  \* what the bytes are decoded as
    said,     \* the value that was encoded first, or the aircraft; or None
    sent,     \* the first bytes, Error when the encoder refused; None before
    bytes,    \* the bytes on their way now
    heard,    \* the value last decoded, or Error; None before
    first,    \* the value decoded first
    hops,     \* how often it was encoded again
    view      \* what an inspection of a report shows; None before

vars == <<channel, said, sent, bytes, heard, first, hops, view>>

----------------------------------------------------------------------------
(* Each structure with an encoder and a decoder of its own is a channel.   *)

Panel == {"CallSign", "Mode", "VfrCode"}
Structures ==
    {"UplinkHeader", "ServiceStatus", "ReportList", "BasicPayload", "LongPayload"}

ChannelOf(m) ==
    IF m.kind \in Panel THEN "Panel"
    ELSE IF m.kind \in Structures THEN m.kind ELSE "Gdl90"

Encode(m) ==
    CASE m.kind \in Panel -> EncodeLine(m)
      [] m.kind = "UplinkHeader" -> EncodeUplinkHeader(m)
      [] m.kind = "ServiceStatus" -> EncodeServiceStatus(m)
      [] m.kind = "ReportList" -> EncodeCrl(m)
      [] m.kind = "BasicPayload" -> EncodeBasicPayload(m)
      [] m.kind = "LongPayload" -> EncodeLongPayload(m)
      [] OTHER -> EncodeMessage(m)

Decode(c, b) ==
    CASE c = "Panel" -> DecodeLine(b)
      [] c = "UplinkHeader" -> DecodeUplinkHeader(b)
      [] c = "ServiceStatus" -> DecodeServiceStatus(b)
      [] c = "ReportList" -> DecodeCrl(b)
      [] c = "BasicPayload" -> DecodeBasicPayload(b)
      [] c = "LongPayload" -> DecodeLongPayload(b)
      [] c = "Gdl90" -> DecodeMessage(b)

----------------------------------------------------------------------------
Init ==
    /\ channel = None /\ said = None /\ sent = None /\ bytes = None
    /\ heard = None /\ first = None /\ hops = 0 /\ view = None

Starts(c, m, b) ==
    /\ sent = None
    /\ channel' = c /\ said' = m /\ sent' = b /\ bytes' = b
    /\ UNCHANGED <<heard, first, hops, view>>

Compose(m) == Starts(ChannelOf(m), m, Encode(m))

Overhear(f) == Starts(f[1], None, f[2])

\* A receiver station passes on the report of an aircraft.
Squitter(a) ==
    Starts("Gdl90", a,
           EncodeMessage([kind |-> IF a.long = None THEN "BasicReport"
                                   ELSE "LongReport",
                          time_of_reception |-> None,
                          payload |-> Transmitted(a)]))

\* The length of the longest control line.
MAX_LINE == 17

\* One byte of a control line changes on its way.
Disturb(i, byte) ==
    /\ channel = "Panel" /\ sent # Error /\ said # None
    /\ heard = None /\ hops = 0 /\ bytes = sent
    /\ i \in DOMAIN bytes
    /\ bytes' = [bytes EXCEPT ![i] = byte]
    /\ UNCHANGED <<channel, said, sent, heard, first, hops, view>>

Hear ==
    /\ bytes \notin {None, Error}
    /\ heard = None
    /\ heard' = Decode(channel, bytes)
    /\ first' = IF hops = 0 THEN heard' ELSE first
    /\ UNCHANGED <<channel, said, sent, bytes, hops, view>>

Relay ==
    /\ heard \notin {None, Error}
    /\ hops < MaxHops
    /\ bytes' = Encode(heard)
    /\ heard' = None
    /\ hops' = hops + 1
    /\ UNCHANGED <<channel, said, sent, first, view>>

Inspect ==
    /\ heard \notin {None, Error}
    /\ channel = "Gdl90"
    /\ heard.kind \in {"BasicReport", "LongReport"}
    /\ view = None
    /\ view' = IF heard.kind = "BasicReport" THEN InspectBasic(heard.payload)
                                             ELSE InspectLong(heard.payload)
    /\ UNCHANGED <<channel, said, sent, bytes, heard, first, hops>>

Next ==
    \/ \E m \in Messages \cup Overreaching : Compose(m)
    \/ \E f \in Foreign : Overhear(f)
    \/ \E a \in Fleet : Squitter(a)
    \/ \E i \in 1..MAX_LINE, byte \in Noise : Disturb(i, byte)
    \/ Hear
    \/ Relay
    \/ Inspect

Spec == Init /\ [][Next]_vars

----------------------------------------------------------------------------
(* What a value turns into on its way: the encodings have fewer values     *)
(* than the types of the fields.                                           *)

Ceiling(option, top) == IF option = None THEN None ELSE Min({option, top})

OnAir(m) ==
    CASE m.kind = "Heartbeat" ->
           [m EXCEPT !.basic_and_long_count = Min({@, 1023})]
      [] m.kind \in {"OwnshipReport", "TrafficReport"} ->
           [m EXCEPT !.horizontal_velocity = Ceiling(@, 4094),
                     !.vertical_velocity =
                         IF @ = None THEN None ELSE Max({-32640, Min({@, 32640})}),
                     !.call_sign = TrimEnd(UpperText(@), SPACE)]
      [] m.kind = "HeightAboveTerrain" -> [m EXCEPT !.feet = Option(@, -32768)]
      [] m.kind = "OwnshipGeometricAltitude" ->
           [m EXCEPT !.figure_of_merit =
                IF @[1] = "Meters" /\ @[2] >= 32766 THEN <<"GreaterThan32766">>
                ELSE @]
      [] m.kind = "ForeFlightId" ->
           [m EXCEPT !.serial = Option(@, NO_SERIAL),
                     !.device_name = UpToZero(@),
                     !.device_long_name = UpToZero(@)]
      [] m.kind = "ForeFlightAhrs" ->
           [m EXCEPT !.indicated_airspeed = Option(@, 65535),
                     !.true_airspeed = Option(@, 65535)]
      [] m.kind = "CallSign" -> [m EXCEPT !.call_sign = TrimEnd(UpperText(@), SPACE)]
      [] OTHER -> m

Angles == {"latitude", "longitude"}

(* Half a code away, or at the other end of an uplink header's scale, where *)
(* the code of -90 (-180) degrees is that of 90 (180).                      *)
NearAngle(m, angle, is) ==
    \/ is - m[angle] \in -1..1
    \/ /\ m.kind = "UplinkHeader"
       /\ m[angle] = - (IF angle = "latitude" THEN QUARTER ELSE HALF)
       /\ is = - m[angle]

InnerSpace(s) == \E i, j \in DOMAIN s : i < j /\ s[i] = SPACE /\ s[j] # SPACE

HeardAs(m, is) ==
    IF m.kind = "CallSign" /\ InnerSpace(m.call_sign) THEN is = Error
    ELSE /\ is # Error
         /\ DOMAIN is = DOMAIN m
         /\ \A f \in DOMAIN m :
              IF f \in Angles THEN NearAngle(m, f, is[f])
              ELSE is[f] = OnAir(m)[f]

----------------------------------------------------------------------------
(* Properties *)

(* Every value within its range is encoded, every other one refused, and   *)
(* what is encoded is heard as it was said, up to what README.md and the   *)
(* formats allow: counts and speeds stop at the largest code, texts lose   *)
(* case and padding, angles half a code, and a value that looks like the   *)
(* mark of a missing one is heard as missing. Two exceptions are what the  *)
(* code does, and the property describes them rather than catch them: an   *)
(* uplink header's -90 degrees of latitude (-180 of longitude) may be      *)
(* heard as 90 (180), the other end of the scale, and a call sign with a   *)
(* space inside is written to the panel's line and then not understood.    *)
HeardAsSaid ==
    /\ said \in Messages /\ sent # None => sent # Error
    /\ said \in Overreaching => sent = Error
    /\ said \in Messages /\ bytes = sent /\ heard # None => HeardAs(said, heard)

(* Whatever the origin of the bytes: what a decoder accepts its encoder    *)
(* writes again, and any number of gateways in a row agree on the value.   *)
(* Saturation, rounding and case happen at most once.                      *)
RelaysAgree ==
    first \notin {None, Error} =>
        bytes # Error /\ (heard # None => heard = first)

(* A control line of which one byte has changed is refused, unless only    *)
(* the case of a checksum digit has: no disturbance of a byte turns one    *)
(* valid line into another.                                                *)
DamagedLinesAreRefused ==
    channel = "Panel" /\ bytes # sent /\ hops = 0 =>
        heard \in {None, Error, OnAir(said)}

\* The last track is at 182 of the 512 steps of a circle.
TrackFits(a) == a.state = Ground /\ a.track_kind # 0 => a.track <= 182

(* An application that inspects the report of an aircraft sees what the    *)
(* aircraft told: the shifts and masks over thirteen, twelve and five      *)
(* bytes agree with the fields, signs and scales of the transmitter, on    *)
(* the ground and in the air, and the second altitude is of the other      *)
(* type. Two exceptions are described as the code has them: the last code  *)
(* of each angle changes ends, and a vehicle on the ground that heads      *)
(* beyond 128 degrees is not seen, for a debug build unwinds on its track  *)
(* (InspectionsAnswer says that no inspection may).                        *)
AircraftAreSeen ==
    view # None /\ said \in Fleet =>
        view = IF TrackFits(said) THEN Seen(said) ELSE Panic

(* README.md:21 promises the inner fields of Basic and Long Reports, and   *)
(* message.rs:1322 that a fixed-size payload should decode: an inspection  *)
(* of whatever report was decoded gives an answer.                         *)
InspectionsAnswer == view # Panic
================================================================================
