------------------------------ MODULE NexradBlocks -----------------------------
(***************************************************************************)
(* NEXRAD products (src/uplink.rs): one block of 128 bins, or the empty    *)
(* blocks around one, as an APDU payload. Bounds are in whole heights and  *)
(* widths of a block, 4 and 48 minutes of arc.                             *)
(***************************************************************************)
EXTENDS ApduHeader

NEXRAD_PRODUCT_ID == 63
BINS == 128
MAX_RUN == 32

----------------------------------------------------------------------------
(* Block references. A set bit means south. *)

ReferenceLayout ==
    << <<"rle", 1>>, <<"south", 1>>, <<"scale", 2>>, <<"number", 20>> >>

FromRaw(raw) == Unpacked(ReferenceLayout, raw)
ToRaw(reference) == Packed(ReferenceLayout, reference)

WIDE_BLOCK_THRESHOLD == 405000
BLOCKS_PER_RING == 450

Wide(number) == number >= WIDE_BLOCK_THRESHOLD

\* From 60 degrees on, two numbers are one block of twice the width.
GeoBounds(reference) ==
    LET scale == <<1, 5, 9>>[reference.scale + 1]
        number == IF Wide(reference.number)
                    THEN reference.number - (reference.number % 2)
                    ELSE reference.number
        ring == number \div BLOCKS_PER_RING
        north == IF reference.south = 1 THEN -ring ELSE ring + 1
        east == number % BLOCKS_PER_RING
        west == IF east > 225 THEN east - 450 ELSE east
    IN  IF reference.scale = 3 THEN None
        ELSE [north |-> north, south |-> north - scale, west |-> west,
              east |-> west + scale * (IF Wide(number) THEN 2 ELSE 1)]

----------------------------------------------------------------------------
(* NexradBlock *)

RunLengthEncoded(raw) == raw[1] >= 128

Run(byte) == [count |-> (byte \div 8) + 1, intensity |-> byte % 8]

BinCount(runs) ==
    LET upTo[i \in 0..Len(runs)] == IF i = 0 THEN 0 ELSE upTo[i - 1] + runs[i].count
    IN  upTo[Len(runs)]

FromPayload(payload) ==
    LET raw == SubSeq(payload, 1, 3)
        rest == SubSeq(payload, 4, Len(payload))
        runs == [i \in DOMAIN rest |-> Run(rest[i])]
        unparsed == [form |-> "Unparsed", raw |-> payload]
    IN  IF Len(payload) < 3 THEN Error
        ELSE IF rest = << >> THEN [form |-> "Empty", raw |-> raw]
        ELSE IF ~ RunLengthEncoded(raw)
          THEN IF Len(rest) = (rest[1] % 16) + 1
                 THEN [form |-> "EmptyBitmap", raw |-> raw, bitmap |-> rest]
                 ELSE unparsed
        ELSE IF BinCount(runs) = BINS
          THEN [form |-> "Runs", raw |-> raw, runs |-> runs]
          ELSE unparsed

ToPayload(b) ==
    CASE b.form = "EmptyBitmap" -> b.raw \o b.bitmap
      [] b.form = "Runs" ->
           b.raw \o [i \in DOMAIN b.runs |->
                       8 * (b.runs[i].count - 1) + (b.runs[i].intensity % 8)]
      [] OTHER -> b.raw

ValidBlock(b) ==
    CASE b.form = "Empty" -> TRUE
      [] b.form = "EmptyBitmap" ->
           b.bitmap # << >> /\ Len(b.bitmap) = (b.bitmap[1] % 16) + 1
      [] b.form = "Runs" ->
           /\ BinCount(b.runs) = BINS
           /\ \A i \in DOMAIN b.runs :
                b.runs[i].count \in 1..MAX_RUN /\ b.runs[i].intensity <= 7
      [] b.form = "Unparsed" -> Len(b.raw) >= 3

\* decode_bins: a bitmap has none, and what was not parsed neither.
DecodeBins(b) ==
    CASE b.form = "Empty" -> Fill(BINS, 0)
      [] b.form = "Runs" ->
           FlattenSeq([i \in DOMAIN b.runs |->
                         Fill(b.runs[i].count, b.runs[i].intensity)])
      [] OTHER -> << >>

\* A stretch of n equal bins as runs.
RunLengths(n) ==
    Fill(n \div MAX_RUN, MAX_RUN)
      \o (IF n % MAX_RUN = 0 THEN << >> ELSE <<n % MAX_RUN>>)

FromBins(raw, bins) ==
    LET Runs(part) ==
          [i \in DOMAIN RunLengths(part.length) |->
              [count |-> RunLengths(part.length)[i], intensity |-> part.of]]
        parts == Stretches(bins)
    IN  IF \A i \in DOMAIN bins : bins[i] = 0
          THEN [form |-> "Empty", raw |-> raw]
          ELSE [form |-> "Runs", raw |-> raw,
                runs |-> Joined([k \in DOMAIN parts |-> Runs(parts[k])])]

----------------------------------------------------------------------------
(* Empty blocks. A bitmap is about a row: a ring, or half of a wide one.   *)

RowSize(number) == IF Wide(number) THEN 225 ELSE BLOCKS_PER_RING

RowStart(number) ==
    IF Wide(number)
      THEN number - ((number - WIDE_BLOCK_THRESHOLD) % RowSize(number))
      ELSE number - (number % RowSize(number))

\* Mutant: blocks past the end of the row are those of the next one.
MutantInRow(number, x) == number + x

InRow(number, x) ==
    RowStart(number) + ((number - RowStart(number) + x) % RowSize(number))

\* Instead of a length, the lower half of the first byte marks the block itself.
Marks(bitmap) == <<16 * (bitmap[1] \div 16) + 8>> \o Tail(bitmap)

Marked(bitmap, k) ==
    Shifted(Marks(bitmap)[(k \div 8) + 1], k % 8)[k % 8] % 2 = 1

EmptyReferences(b) ==
    LET bits == FlattenSeq([i \in 1..8 * Len(b.bitmap) |->
                              IF Marked(b.bitmap, i - 1) THEN <<i - 1>> ELSE << >>])
    IN  [i \in DOMAIN bits |->
            [FromRaw(b.raw) EXCEPT !.rle = 0,
                                   !.number = InRow(@, bits[i] - 3)]]

----------------------------------------------------------------------------
(* NexradApdu *)

ValidNexrad(n) ==
    n.header.product = NEXRAD_PRODUCT_ID /\ Minimal(n.header) /\ ValidBlock(n.block)

NexradFromApdu(apdu) ==
    LET n == [header |-> apdu.header, block |-> FromPayload(apdu.payload)] IN
      IF n.block = Error THEN Error ELSE IF ValidNexrad(n) THEN n ELSE Error

\* The length of an APDU is checked against the real header's.
NexradToApdu(n) ==
    IF ~ ValidNexrad(n) THEN Error
    ELSE IF Len(ToPayload(n.block)) > 418 THEN Error
    ELSE [header |-> n.header, payload |-> ToPayload(n.block)]
================================================================================
