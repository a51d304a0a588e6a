# A verification development for gdl90

The repository is a Rust library (and a command-line tool) for GDL 90, the
interface of aviation traffic and weather receivers: byte-stuffed frames with a
CRC, messages in frames, FIS-B uplink payloads in messages, product files in
segments spread over many payloads, a UDP transport, session recordings, and a
scheduler that fits one second's messages into the bandwidth of a serial line.

This directory holds TLA+ modules translated from its source, TLC runs that
check them on small instances, and TLAPS proofs of what matters most for every
value of the constants. `PROJECT.json` maps every definition to the lines it
stands for; in it the crate's files are `src/src/<file>`, its documentation is
`src/README.md`; comments in the modules say `src/<file>` and `README.md`.

- [How to run](#how-to-run)
- [The system](#the-system): components, state, hard behaviours
- [The modules](#the-modules): how they correspond to the code
- [The runs](#the-runs): what each shows, bounds, fairness
- [Disagreements with the documentation](#disagreements-with-the-documentation)
- [The proofs](#the-proofs)
- [What is not modelled](#what-is-not-modelled)
- [Plan](#plan)

## How to run

    tlc -workers 2 -config MCApduReassembler.cfg MCApduReassembler.tla
    tlapm ApduReassembler_proofs.tla

Each `.cfg` names its bounds in a comment on its first line; the module it
belongs to is in the table of runs.

## The system

Everything is synchronous and single-threaded: no tasks, no locks, no
callbacks. What makes the library hard is state that outlives a call (a partial
frame, a half-received file, a half-written recording) while the outside world
loses, repeats, reorders, truncates and stops.

    station -> [information frames -> 424-byte area] -> uplink message -> frame
                                                                           |
       serial line / UDP datagram   <- byte stuffing, CRC  <---------------+
              |
       FrameDecoder (kept by the receiver) -> Message -> UatUplinkPayload
              |                                                  |
       session file (lines of hex) -> analysis,                  +-> fisb_products()
                          validation, report                     |      -> text, NEXRAD
                                                                 +-> reassembly_updates()
                                                                        -> ApduReassembler
                                                                        -> product files

| Component (source) | State it keeps | Operations | What is hard | What makes it correct |
|---|---|---|---|---|
| Product-file reassembly (`uplink.rs`, `ApduReassembler`) | a map from keys to slots | `push`, `discard`, `clear` | order, repeats and conflicts of segments; the length fixed by whichever came first; assembly that fails after the last segment is stored | accepted segments stay; a file is handed out exactly when it is whole and consistent; only unassemblable files are left full |
| Uplink delivery (`uplink.rs`, `reassembly_updates`) | the caller's reassembler | one call per payload | an error on one APDU ends the call; a file id is reused while old segments are about | what completes is one version of the file; what keeps being broadcast arrives |
| Uplink payload, APDU headers (`uplink.rs`) | none | pack, unpack | optional fields that shift all bits after them; a length-zero frame that ends the list; exact fits | what is packed is read; what is read repacks to the same bytes |
| FIS-B products (`uplink.rs`: text, NEXRAD, CRL, service status) | none | encode, decode, `pack_records`, `fisb_products` | six-bit text with padding and runs of spaces; records without marks at the ends of their fields; run lengths; bitmap rows that wrap around the globe; an APDU limit | products arrive as given, packed whole and without waste; what is read encodes again |
| Framing (`frame.rs`) | `FrameDecoder`: collecting, buffer | `push`, `finish`, `reset`; `encode_frame`, `decode_frame` | a flag ends one frame and begins the next; alternating escapes; open ends | one result per stretch between flags; accepted = an encoding |
| Message codec (`message.rs`, `util.rs`) | `FrameMessageDecoder` wraps the decoder | encode, decode, inspection of UAT reports | sentinels, saturation, reserved bits, sign extension, the ends of angle scales; inner payloads decoded a second time | what is said is heard; gateways agree; reports show what the aircraft told |
| UDP transport (`transport.rs`) | the receiver's decoder and buffer size | `send_messages`, `receive`, `set_max_datagram_size` | silent truncation; a partial frame kept between datagrams; other programs' datagrams | a loss costs at most one message of the next datagram; nothing is invented |
| Session recording (`session.rs`) | the file | write, append, read | writes that stop anywhere; blank lines; one bad line refuses the file | what was written reads back; damage stays on its line; a damaged file is refused or read to its end |
| Session analysis (`analysis.rs`) | two passes' counters | analyze, validate | two passes, two sets of counters; a u64 sum that overflows | one verdict; counts that add up |
| Bandwidth (`bandwidth.rs`) | a configuration | `schedule` | skip-and-go-on at the exact budget; three sorts and a filter; encode errors and a division by zero half-way | the budget; nothing dropped in vain; documented order; every candidate accounted for |
| ForeFlight profile (`foreflight.rs`) | none | encode, decode | fixed-width names, serial numbers with a mark of absence | round trips |
| Control panel (`control.rs`) | none | encode, decode | fixed columns, a checksum of one byte | a damaged line is refused |
| Session report (`report.rs`) | a third pass | `build_session_report` | repeats what analysis counts, frame by frame, and inspects each message | it agrees with the two passes |
| Support tables, errors, command line (`support.rs`, `error.rs`, `lib.rs`, `bin/gdl90.rs`) | none of their own | tables, loops over the above | | |

Interactions: the transport owns a message decoder, which owns a frame decoder;
`capture` appends what `receive` returns to a session file, and analysis later
decodes each recorded datagram with a *fresh* decoder, so the live and the
recorded view of the same bytes can differ; an uplink payload borrows the
application's reassembler for the duration of one call.

The hazards list of `PROJECT.json` names, line by line, what can go wrong in
these components and the property that would notice.

## The modules

`MutantX` operators are faulty versions of the operator X that follows them,
kept for mutation: replacing X by MutantX must break a property. They are no
part of the model.

**ApduReassembler** – the state machine of `ApduReassembler`. `pending` is the
map of the code: a file is its number of slots and the slots, each an APDU or
`None`. `Push(a)` is one call of `push`, split into its seven outcomes, in
the order of the code's early returns: `RejectHeader`, `PassThrough` (no
segmentation), `RejectTotal`, `RejectConflict`, `Progress` (pending or
duplicate), `CompleteFile`, `FailAssembly`. `assemble_product_file` is
`Assembles` and `Assembled`. `Discard` and `Clear` are the other operations.
An APDU is abstracted to its key, its segmentation block, one `stamp` for all
other header fields (they only take part in validation and equality) and its
payload cut after six bytes, where TWGO products repeat a header.

**ProductFiles** – the promise, without map, slots or counting: a set of held
segments; a segment is accepted unless it contradicts a held one; the file is
handed out when it is whole and consistent. `KeepsThePromise` in
ApduReassembler is the refinement mapping (`INSTANCE ... WITH held <-
HeldSegments, product <- HandedOut`).

**UplinkReassembly** – composes the reassembler with the code that feeds it
and with its environment. A call of `reassembly_updates` is `Call` followed by
one `PushOk` or `PushErr` per APDU; `PushErr` ends the call and drops the
statuses collected so far, as the `collect` into a `Result` does. The station
(`Publish`, `Fade`), the channel (`Receivable`: any segment of a version still
on the air, any number of times, in any order) and the application's receive
window (`Expire`, which README.md:218 leaves to the application) are external.
The application acts only between calls: the reassembler is borrowed mutably.

**Wire, Fields, ApduHeader** – shared parts. Wire has bytes, bits and
*layouts*: a structure of the code is a list of fields with their widths,
`Packed` and `Unpacked` are its masks and shifts. Fields has the conversions of
`util.rs`: call signs, digits, checksums, signed codes, angles. An angle is a
whole number of half units of its 24-bit code, at which the code's f64
arithmetic is exact and its rounding of ties shows. ApduHeader has the bits of
the APDU header with its optional date, seconds and segmentation fields.

**UplinkPayload** – information frames with the code's own lengths (424 bytes
of application data, frames and APDUs of at most 422). A station adds frames
(`AddApdu`, `AddFrame`), packs them (`Pack`), a receiver reads (`Read`) these
or somebody else's bytes (`Overhear`).

**TextRecords, NexradBlocks, FisbDelivery** – products. TextRecords has text
records, their lines, `pack_records` and the DLAC code; NexradBlocks has block
references, runs, bitmaps and bounds. FisbDelivery extends UplinkPayload by
products: a station publishes reports and radar bins (`Publish` encodes them
into a queue of APDUs), puts them into payloads next to developmental frames
(`Wrap`, `AddOther`), as many payloads as they need (`Proceed`), and the
receiver makes products of each (`ReadProducts`, the code's `fisb_products`).
`FaithfulRecord` names the texts the format cannot carry: it has no
marks for where a field ends, so a text that begins with a word like a
qualifier, or a location with a space, reads as something else, and no check of
the encoder refuses it.

**Gdl90Messages, ForeFlightMessages, ControlLines, UplinkStructures,
UatReports** – the encoders and decoders of every message, control line and
uplink structure, byte by byte, as layouts and conversions, with the errors of
both directions. UatReports has what the inspection of a Basic or Long Report
computes; `Panic` stands for an unwind. **Aircraft** is external: the
transmitters, as fields of a layout, against which the receiver's arithmetic on
bytes is checked.

**CodecRelay** – composes them: a value is encoded (`Compose`), the bytes are
heard and encoded again by gateways (`Hear`, `Relay`), a control line may lose
a byte to noise (`Disturb`), bytes may come from elsewhere (`Overhear`,
`Squitter`), a report is inspected (`Inspect`). `OnAir` and `HeardAs` say what
the encodings lose: counts and velocities stop at the largest code, texts lose
case and padding, a value that equals the mark of a missing one is heard as
missing, and in an uplink header -90 degrees has the code of +90 (-180 that of
180). A call sign with a space inside can be written to the control panel and
is then not understood. `HeardAsSaid` and `AircraftAreSeen` take these two as
what the code does: they describe them, and a fix or a change of either would
break the properties, but they do not judge them.

**Crc16, FrameDecoder, FrameStream** – framing on real byte values. Crc16
computes the table and the checksum with 16-bit arithmetic. FrameDecoder has
`push` byte by byte, `finish`, `reset`, and `EncodeFrame`/`DecodeFrame`;
FrameStream drives it over a byte stream and states what it should have said
about the whole stream. `decode_frame` is not the inverse of splitting: it
accepts an unescaped flag inside its argument, which the incremental decoder
can never see, and on one byte of content it gives another error;
`OneShotAgrees` says exactly where the two agree.

**DatagramLink** – two instances of FrameDecoder over the same bytes: the one
the receiver keeps for all datagrams and the fresh one of
`session::decode_messages`. Datagrams are any of the sender's, in any order
(loss, repetition and reordering of UDP), or another program's, cut to the
receiver's buffer. `opened` and `heldOver` remember how a datagram began: with
a flag or not, on top of a partial frame or not.

**SessionFile** – the recording as a sequence of characters, with appends and
rewrites that may stop at any character, and the line parser. Datagrams have
upper-case digits, and no line begins with a comment's mark; `:` and `-` inside
a payload, which only a hand could have put there, are left out.

**SessionAnalysis, SessionReport** – the two passes of analysis and
validation, one datagram per step, for debug (`checked`) and release builds;
and the report, a third pass frame by frame, which unwinds where a summary does
(`SummaryPanics`).

**BandwidthScheduler** – one call of `schedule`: the heartbeat and the
ownship report, then each candidate in the order of stage, range and, for
uplinks, time slot. The code drops range and slot with the candidate; the model
keeps them beside each message, so that the order of the output can be stated.
Rust's stable sort is the set of all stable arrangements, so nothing rests on how it
is computed. `PanicOnBudget` is the division by zero, `failed` an encode error.

The modules named `..._proofs` hold the theorems, **SequenceFacts** the lemmas
about sequences they share; the modules named `MC...` are the instances for TLC.

## The runs

| Run | Module | Shows | Bounds |
|---|---|---|---|
| apdu_reassembler | MCApduReassembler | the slot map implements the promise (`KeepsThePromise`); accepted segments stay; segments are filed under their own key, number and length; only unassemblable files are full, and those only ever fail | a TWGO file of 3 segments with any of two headers or too short a payload; two text files, under lengths 1, 2 and 2, 3; 8 malformed or unsegmented APDUs |
| uplink_reassembly | MCUplinkReassembly | what completes is one version, whole and in order, unless the id was reused too early; a TWGO file is never a mix, even then; every file the station settles on reaches the application | two files of 2 segments, either one replaced once; payloads of up to 2 APDUs |
| uplink_feeds_all | MCUplinkReassembly | violation: see below | as uplink_reassembly |
| frame_stream | MCFrameStream | one result per stretch between flags; accepted = an encoding; agreement with `decode_frame` | every stream of up to 7 bytes over flag, escape, both escaped bytes and 0 |
| datagram_link | MCDatagramLink | whole datagrams decode; a held partial frame costs one message; a closing flag settles the receiver; the recording replays what was heard; nothing is invented | 2 messages, up to 2 per datagram; 9 buffer sizes; 6 foreign datagrams; partial frames of up to 4 bytes when a datagram is taken |
| bandwidth_scheduler | MCBandwidthScheduler | the budget; the running total; nothing dropped in vain; every candidate accounted for; the documented order of stages, ranges and slots | up to 2 alerts, 2 uplinks and 1 proximate target; budgets around the sizes, the default one, and the division by zero |
| session_file | MCSessionFile | sessions read back; damage is local to the torn line and the one that continues it; a file with damage is refused or gives every undamaged datagram at its place | up to 3 datagrams of at most 2 bytes, with and without delays; rewrites of at most 2 datagrams over at most 1 |
| session_empty | MCSessionFile | violation: see below | as session_file |
| session_report | MCSessionReport | counts agree; the delay is the sum, up to wrap or panic; the report's frames are those counted | every session of up to 2 datagrams with up to 2 results, some of 3; 16 stands for 2^64 |
| fisb_delivery | MCFisbDelivery | packed frames are read up to the first empty one; APDUs survive; what is read repacks to the same bytes; products arrive, packed without waste; products relay; the empty blocks of a bitmap lie in their row | payloads of up to 3 frames, up to 2 beside products; the code's lengths; bytes of frame headers, APDU headers, texts and blocks enumerated |
| codec_relay | MCCodecRelay | what is said is heard; gateways agree; damaged control lines are refused; reports show what the aircraft told | every field at its limits and just beyond; single bytes replaced; 2 gateways; application data of 2 bytes |
| report_panics | MCCodecRelay | violation: see below | as codec_relay |

Why the bounds are enough to meet the interesting cases:

- *Reassembly*: three segments are the least with a first, a middle and a
  last one, so that a conflict, a wedged file and a duplicate of each can
  interleave; two files with one id under different products, and two ids
  under one product, tell the parts of the key apart.
- *Uplink*: with two versions of a file a mix, a premature reuse and a wedged
  mix all occur; with two APDUs in a payload an error can come first, last, or
  after a completion.
- *Products*: runs of 1 to 130 spaces pass every multiple of 63 the code can
  emit at once, and end on each position of the six-bit padding; one list of
  reports needs two APDUs; runs of bins around 32; block numbers on both sides
  of a row's end, of the globe's (449, 450), and of the 60 degree line (404999
  to 405225).
- *Codecs*: every decoder is straight-line code over fields, so each field is
  taken to both ends, its mark of absence, and one beyond, the others at rest;
  each byte of a few messages is replaced by several others, so that every
  guard of a decoder refuses something. The second hop would show a value that
  keeps changing. The application data of an uplink are copied; two bytes stand
  for 424.
- *Frames*: the shortest valid frame has five bytes, so seven hold garbage or
  a second flag around one, and frames whose CRC or payload has escapes.
- *Datagrams*: the sizes cut a frame behind its flag, in its payload, in its CRC and
  before its closing flag; a foreign datagram is a lone escape byte. The bound on the partial
  frame (`MaxHeld`) only stops foreign bytes without a flag from growing it
  forever, which the code does not bound.
- *Sessions*: three writes are a torn line, the one that continues it and the
  one that must not be affected. Datagrams with no bytes and with a delay alone
  make a file refused without any stop.
- *Scheduler*: the sizes include exact fits, candidates one byte too large, and
  a small candidate behind one that does not fit; two stations of one range
  have different slots, in either order, and the limit of uplinks can fall
  between them.

Deadlock is checked in the runs over ApduReassembler, UplinkReassembly,
FrameStream and DatagramLink. It is off where the program really stops:
`schedule` returns, the passes over a session end, a payload is packed and
read once, a value has passed its last gateway; the session file stops at its
bound on writes.

### Fairness

Only `uplink_reassembly` needs any, and states it in `Fairness`:

- weak fairness of the steps of a call in progress: `reassembly_updates` is a
  loop with no waiting in it;
- strong fairness of receiving each segment of the newest version alone in a
  payload, while it is on the air. This is the environment's part: FIS-B
  stations repeat their products (a carousel), and the channel is not so bad
  that a segment is lost every time. *Alone* matters: a segment that always
  comes behind one that conflicts would never be fed (see the first
  disagreement below);
- strong fairness of `Expire`: the application has a receive window, as
  README.md:218 says it should. Without it a pending file of an old version
  refuses the new one forever, and the property is false.

`SettledFilesArrive` then says: if the station settles on a version of each
file, the application gets and keeps each of them.

## Disagreements with the documentation

- **uplink_feeds_all**. `reassembly_updates` says it "Feeds all FIS-B APDUs in
  this UAT payload into a stateful product-file reassembler"
  (`src/src/uplink.rs:372`). It stops at the first APDU that `push` refuses;
  the APDUs behind it are never fed, and the statuses of those in front of it,
  a completed and already removed file included, are lost.
- **session_empty**. "each line stores a full UDP datagram" (README.md:197).
  An empty datagram is written as a blank line, which reading skips; with a
  delay its line is `@<ms> `, which reading refuses together with the file.
  That blank lines are ignored is documented too (README.md:195), but not that
  a datagram may be one.
- **report_panics**. README.md:21 promises decoding of the inner fields of
  Basic and Long Reports, and the code itself expects every payload of the
  right size to decode. `Message::decode` takes a Basic Report with the type
  code of a Long one; `basic_payload()` then panics, and with it
  `Message::summary` and the session report, on a session that validation calls
  valid. Two more inspections of valid bytes overflow: a ground track from 183
  steps of 512 on (`message.rs:1171`, a u16 product) and a ground speed field
  of 0x400 (`message.rs:1161`, one subtracted from zero): a debug build panics,
  a release build shows a wrong value.

None breaks the properties of the passing runs, which say what does hold:
`SettledFilesArrive` allows for the dropped results, `SessionsReadBack` and
`DamageIsLocal` are about datagrams that are not empty, `RefusedOrComplete`
lets an empty one refuse a file as a torn line does, `ReportAgrees` holds of
the frames up to where a report unwinds, and `AircraftAreSeen` says which
aircraft's reports have an inspection that answers.

## The proofs

All theorems hold for every value of the constants that satisfies the named
assumptions of their module; TLC evaluates these assumptions in each run. They
only state types: that the TWGO products are among the products, that lengths
are positive, that `None` is no segment, that the arguments of `push` have the
types of its parameters (`InputsAssumption`: the numeric fields may be out of
range), that budgets, sizes and delays are natural numbers, that bytes are
bytes, a message has at least its id and its CRC two bytes (`BytesAssumption`,
`MessagesAssumption`), that messages are of finitely many kinds
(`KindsAssumption`), that digits are no marks and tell bytes and delays apart
(`DigitsAssumption`, `HexAssumption`, `DecimalAssumption`), that APDUs, frames
and application data have the types of their fields, valid or not
(`ApdusAssumption`, `FramesAssumption`, `AreasAssumption`), that encoding a
request gives APDUs or errors (`WorksAssumption`), and that neither an error nor
an absent value is a value (`ResultsAssumption`).

**SequenceFacts** has what the other proofs need of sequences and of functions
defined by recursion on their length. The library's induction theorems take an
operator as their parameter, which the installed provers cannot instantiate; a
*set* of numbers can be a constant of a lemma, so induction is stated of sets
(`Induction`, from the least element of a non-empty set of naturals, and
`SequenceInduction`), and each inductive proof defines the set of the lengths or
sequences for which its claim holds.
From it follow that a function satisfies the recursion that defines it
(`Recursion`), what `FlattenSeq` makes of an appended sequence
(`FlattenAppend`, `FlattenParts`), how a sum over a set grows by one element
(`SumAdds`), and what it means that one sequence lies in another at a place
(`LiesAt`).

**FrameStream_proofs.** First, byte stuffing for data of any length: what the
encoder stuffs, unescaping restores (`StuffedClears`), and what unescaping accepts is
what the encoder would have written (`ClearedStuffs`); with the check bytes,
`EncodingDecodes` and `DecodedEncodes`. `FrameRead` and `MessagesRead` say what
`push` does over a whole frame and over the frames of several messages, with
and without a partial frame held before.

Then `StreamIsDivided`: the decoder's state after n bytes is
what the stream's first n bytes say: whether a flag has been seen and what
stands behind the last one. It is the inductive invariant; from it follow
`StreamResults` (one result per non-empty stretch between flags, of that
stretch: `ResultsAreTheFrames`), `AcceptedAreEncodings` and `OneShot`
(`decode_frame` and the incremental decoder agree but for the named cases).

**DatagramLink_proofs.** `RecordingsReplay`: a datagram that begins with a flag,
taken by a receiver that holds nothing, decodes from its recording as it did
live. Its invariant `InStep` is that both decoders are at rest until the first
flag and equal after it, so that `finish()` accounts for the one result more.
`FlagsSettle`: after a closing flag nothing is held (`SettledByFlag`).
`DatagramsAreRead`, and with it `WholeDatagrams` and `OneMessageIsLost`: what is
heard of a datagram follows from its bytes and from what was held before it: a
whole datagram of the sender is read message by message, and on top of a partial
frame only its first message can be lost, because its second flag settles the
decoder.

**ApduReassembler_proofs.** The inductive invariant is `IInv`, file by file
(`FileInv`): well-typed, every segment under its own key, number and length,
at least one segment, and *if it is full it cannot be assembled*. The last
part is why typing alone is not inductive: `WedgedFilesOnlyFail` needs that a
push into a full file can only be an identical copy (`WedgedTakesDuplicates`),
which leaves the file as it is and fails as it failed before. The step lemma
has one case per branch of `push`; `UpdatedFacts` collects what storing a
segment does. Counting slots is exact (`CompleteMeansFilled`) by the cardinality
of a subset of 1..t. Proved: `TypeCorrect`, `SegmentsAreFiled`,
`FullFilesFailed`, and the action properties `SegmentsStay` and
`WedgedFilesFail`.

The same module has the refinement, `PromiseIsKept`: Spec => KeepsThePromise.
The held segments of one key are those in its slots (`HeldOfFile`); storing adds
one segment to the held set, removing drops one file (`StoreAdds`,
`RemoveDrops`); and for a segment that `push` takes, the three tests agree: slot
free or equal is compatible (`TakesIsCompatible`), the count is full exactly
when the held segments are whole (`FinishesIsWhole`), comparing each head with
the first is consistency (`AssemblesIsConsistent`); what is handed out is each
segment's contribution in its place (`PiecesArePayload`). Then each branch maps
to one abstract action: both progress and a failed assembly are `Accept`,
completion is `HandOut`, the rejections are `Refuse`, `Discard` and `Clear` are
`GiveUp`.

**UplinkReassembly_proofs.** That a completed file is one version does not
follow from itself: the invariant has to say it of everything on the way.
`OneVersion` does, for files whose id was not reused too early: only the newest
version is on the air, in the rest of the payload, and in the map. A TWGO mix is
excluded by the headers that `push` compares. Proved: `TypeCorrect`,
`CompletionsAreVersions`, `TwgoIsNeverMixed`.

**BandwidthScheduler_proofs.** `IInv` adds to the checked properties what is
known while candidates remain: which stages are done (`Progress`), that the two
mandatory messages come first (`MandatoryFirst`), and that queue and output
together are still in order (`StillOrdered`). The last follows from what any
stable sort guarantees, so the lemmas about queues say nothing about a sorting
algorithm. Proved: `TypeCorrect`, `BudgetIsKept`, `NothingIsDroppedInVain`,
`OutputIsInOrder`; `UsedBytesAreTheTotal`, that the running count is the sum of
the sizes of what was chosen, by the sum of an appended sequence; and
`EveryCandidateIsCounted`. The invariant of the last, `Accounted`, says, stage
by stage, that the chosen, the dropped and the queued add up to what was given;
the stages after the current one are untouched. A number of chosen messages is
the size of a set of places in the output, which grows by one place per step.
The limit of uplinks and the filter of those without valid data enter as counts
of what they let through. The order of uplinks rests on one fact of a pair of
them: if the second is not before the first, the first is no later (`NotBefore`).

**Session_proofs** has the theorems of SessionFile, SessionAnalysis and
SessionReport.

*The file.* `FileIsTold` is the inductive invariant: read character by
character, the file's closed lines and its open one say what the log of writes
says. The number of lines is the number of writes that began one, the k-th line
is what the k-th of these wrote (if it was whole), and the last line is open
exactly when the last write stopped. `SplitGoesOn` and `SplitLine` extend a
file by part of a line and by a line; `WholeTells` and `TornTells` extend the
invariant by a write, `RewriteTells` by as many as a rewrite has. That a line
reads as its datagram (`LineParses`) is arithmetic on places: no digit is a mark,
two digits stand for each byte, the delay ends at the one blank. From both
follow `DamageStays` (`DamageIsLocal`) and `SessionsAreRead` (`SessionsReadBack`).

*The passes.* `TypeCorrect` and `VerdictsAgree` (`CleanIffValid`, which is proved
and needs no run: the two passes are pure functions of the session): the
invariant says what each pass's counters know of the datagrams it has been
through (no error and none empty so far; as many valid as seen), and the two
meet when both are done.
`CountersAgree`: each counter of each pass is a count of results in the prefix
it has been through. `DelaysAreSummed`: the total delay is the sum over the same
prefix, modulo the width in a release build, and a panic of a debug build is one
whose sum does not fit.

*The report.* Its behaviours are behaviours of the two passes
(`ReportRunsThePasses`), so what is proved of these holds of it
(`ReportVerdictsAgree`, `ReportSums`). `ReportIsConsistent` compares counts of
places: after each datagram, the frames in the reports are, kind by kind, what
the first pass counts on the same prefix.

**FisbDelivery_proofs** has the theorems of payloads, with the code's own
lengths and bit layouts.

*Reading.* `information_frames()` is a recursion over offsets. `ReadsExists`
shows that a function satisfies it and `ReadsFirst` that the code's result is
its value at 0, so that induction from the end of the area can speak of it.
`PackedReads` is that induction for an area that holds the bytes of a list of
frames; `ReadLies` is the one for any 424 bytes: what is read there lies there.

*Headers.* A number of w bits is the last term of a chain of doublings, and
writing and reading a field are inverse (`BitsOfNumber`, `NumberOfBits`,
`BytesOfThoseBits`, `BitsOfThoseBytes`). The places of the fields depend on three
flags (`PlacesAt`); field by field the decoder reads what the encoder wrote
(`HeaderReadBack`), and a header that the decoder takes is one the encoder would
have written on the same bits, padding included (`HeaderAgain`).

*The invariant.* `DeliveryInvariant`: the application data are the frames packed
or come from elsewhere, what was received was read from these data, and the
frames of type 0 hold the wrapped APDUs whenever there are as many of both (any
frame of type 0 that is no APDU tips the balance for good). That data, not only
types, are part of it is what the three properties need: none of them says where
the bytes come from. `FramesAreReadAsPacked`, `WrappedApdusSurvive` and
`ReadPayloadsRepack` follow.

*Empty blocks.* `EmptyBlocksLieInRow` is about whatever bitmap arrives:
`NexradRead` and `BitmapRead` follow a radar block back to the bytes it was read
from, `PlacesInOrder` says that the marked bits are taken once each and the
block's own bit among them (`OwnIsMarked`), and `InRowFacts` and `EdgesInRow` are
the arithmetic of a row of 450 or 225 blocks that closes around the globe. It
holds because a bitmap has at most 128 bits and a row more blocks than that.

Model-checked only:

- `SettledFilesArrive` (liveness under fairness is out of the prover's reach,
  as is ENABLED);
- `NothingInvented`, which depends on the bytes of the foreign datagrams and
  their CRC: that no frame is invented is false of some bytes, as of any CRC;
- `ProductsArrive`, `RecordsArePackedWhole` and `ProductsRelay` (`fisb_delivery`)
  and the properties of the message codec (`codec_relay`). They are about some
  fifty layouts, DLAC texts and runs; each would be a proof as long as the one
  for the APDU header.

No module with a theorem uses a RECURSIVE operator.

## What is not modelled

- The direction of a moving aircraft (an arctangent of its velocities), degrees
  that are no half unit of their code (rounding of the f64 library), and all
  wording: summaries, names of products and of weather intensities, the layouts
  of reports. `decode_rows` only cuts what `decode_bins` returns.
- The values a release build computes where a debug build panics, in
  inspections: `Panic` stands for both, and the disagreement above names them.
- Sockets: binding, address resolution, errors and read time-outs change no
  state of the receiver. The one-shot discovery keeps no state; its JSON is
  parsed by hand-written pure code.
- The ForeFlight cadence constants and the two checks of a sender's message set
  and datagram size, which change nothing.
- Two processes that append to one session file: the library has one recorder.
- What a rewrite destroys. `write_datagram_file` truncates the file first, and a
  stop after that leaves part of the new session and nothing of the old one.
  `WriteStops` does this, but nothing in the repository promises otherwise, so
  the log of writes starts anew with the file and no property asks for the old
  session.
- `support.rs` is constant tables; `error.rs` and `lib.rs` hold no behaviour;
  `bin/gdl90.rs` parses arguments and drives what is modelled.
- Resource use: the reassembler's map and the decoder's buffer have no bound
  in the code, and the models' bounds say nothing about that.

## Plan

The modules were written in the order of where tests reach least: state that
outlives a call first (reassembly, framing, datagrams, recordings), then the
scheduler and the passes, then products and codecs, whose inputs are many but
whose code is straight. The proofs follow the same order; what could follow:

1. **Products.** `RecordsArePackedWhole` (the packing loop under its limit).
2. **Control lines.** `DamagedLinesAreRefused`: one byte of a sum changed.
3. **Layouts.** The lemmas on fields in bits that the APDU header rests on hold
   of any layout; `HeardAsSaid` needs them for each message.
4. **Discovery.** The first datagram of any program within the time-out decides
   a call: a model of the caller's retries, should the library take them over.
