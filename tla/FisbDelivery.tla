------------------------------ MODULE FisbDelivery -----------------------------
(***************************************************************************)
(* FIS-B products on their way: a station turns reports and radar blocks   *)
(* into APDUs, puts them into one payload after another, and the receiver  *)
(* reads products again (src/uplink.rs: GenericTextApdu, NexradApdu,       *)
(* FisbProduct, UatUplinkPayload::fisb_products). Payloads of other        *)
(* stations are read too.                                                  *)
(***************************************************************************)
EXTENDS UplinkPayload, TextRecords, NexradBlocks

CONSTANTS
    Works,     \* what stations publish: sequences of requests
    MaxMixed   \* bound on the frames of a payload that carries products

VARIABLES
    given,     \* what was published: records and blocks in their order
    queue,     \* APDUs of these in no payload yet, or Error: one was refused
    arrived,   \* the products of the payloads read before
    products   \* what fisb_products() gives for this one; None before

delivery == <<given, queue, arrived, products>>

----------------------------------------------------------------------------
(* Products *)

Wrapped(kind, p) == IF p = Error THEN Error ELSE [kind |-> kind, is |-> p]

DecodeProduct(apdu) ==
    IF apdu.header.flagged THEN Error
    ELSE CASE apdu.header.product = GENERIC_TEXT_PRODUCT_ID ->
                Wrapped("GenericText", TextFromApdu(apdu))
           [] apdu.header.product = NEXRAD_PRODUCT_ID ->
                Wrapped("Nexrad", NexradFromApdu(apdu))
           [] OTHER -> Wrapped("Unknown", apdu)

EncodeProduct(p) ==
    CASE p.kind = "GenericText" -> TextToApdu(p.is)
      [] p.kind = "Nexrad" -> NexradToApdu(p.is)
      [] p.kind = "Unknown" -> p.is

\* One that is segmented or does not decode fails the whole payload.
FisbProducts(bytes) ==
    LET found == ApdusOf(bytes) IN
      IF found = Error THEN Error
      ELSE Collected([i \in DOMAIN found |-> DecodeProduct(found[i])])

----------------------------------------------------------------------------
(* A request is a list of records for pack_records or the bins of a block. *)

TextsToApdus(texts) ==
    IF texts = Error THEN <<Error>>
    ELSE [i \in DOMAIN texts |-> TextToApdu(texts[i])]

ApdusFor(request) ==
    IF request.kind = "Records"
      THEN TextsToApdus(PackRecords(request.header, request.records))
      ELSE <<NexradToApdu([header |-> request.header,
                           block |-> FromBins(request.raw, request.bins)])>>

ItemsOf(request) ==
    IF request.kind = "Records"
      THEN [i \in DOMAIN request.records |-> <<"record", request.records[i]>>]
      ELSE << <<"bins", request.raw, request.bins>> >>

\* What the receiver makes of a product.
ItemsIn(p) ==
    CASE p.kind = "GenericText" ->
           [i \in DOMAIN p.is.records |-> <<"record", p.is.records[i]>>]
      [] p.kind = "Nexrad" -> << <<"bins", p.is.block.raw, DecodeBins(p.is.block)>> >>
      [] p.kind = "Unknown" -> << <<"apdu", p.is>> >>

(* What pack_records and to_apdu give for a request are APDUs, or errors.  *)
ASSUME WorksAssumption ==
    \A work \in Works :
        [i \in DOMAIN work |-> ApdusFor(work[i])] \in Seq(Seq(AnyApdus \cup {Error}))

----------------------------------------------------------------------------
DeliveryInit ==
    /\ Init
    /\ given = << >> /\ queue = << >> /\ arrived = << >> /\ products = None

Publish(work) ==
    /\ area = None /\ frames = << >> /\ given = << >>
    /\ given' = FlattenSeq([i \in DOMAIN work |-> ItemsOf(work[i])])
    /\ queue' = Collected(FlattenSeq([i \in DOMAIN work |-> ApdusFor(work[i])]))
    /\ UNCHANGED <<vars, arrived, products>>

MixedBound == given = << >> \/ Len(frames) < MaxMixed

Wrap ==
    /\ queue \notin {<< >>, Error} /\ MixedBound
    /\ AddApdu(Head(queue))
    /\ queue' = Tail(queue)
    /\ UNCHANGED <<given, arrived, products>>

(* Next to products, a station puts developmental frames that hold         *)
(* something: an empty frame would end the list for every receiver.        *)
AddOther(f) ==
    /\ MixedBound
    /\ given # << >> => /\ f.data # << >> /\ f.type = Developmental
                       /\ ValidForEncoding(f)
    /\ AddFrame(f)
    /\ UNCHANGED delivery

AddForeign(a) == given = << >> /\ AddApdu(a) /\ UNCHANGED delivery

PackPayload == Pack /\ UNCHANGED delivery

OverhearPayload(bytes) == given = << >> /\ Overhear(bytes) /\ UNCHANGED delivery

ReadProducts ==
    /\ Read
    /\ products' = FisbProducts(area)
    /\ UNCHANGED <<given, queue, arrived>>

\* The next payload of the station.
Proceed ==
    /\ queue \notin {<< >>, Error}
    /\ products \notin {None, Error}
    /\ arrived' = arrived \o products
    /\ frames' = << >> /\ sent' = << >>
    /\ area' = None /\ received' = None /\ apdus' = None /\ products' = None
    /\ UNCHANGED <<given, queue>>

DeliveryNext ==
    \/ \E work \in Works : Publish(work)
    \/ Wrap
    \/ \E a \in Apdus : AddForeign(a)
    \/ \E f \in BareFrames : AddOther(f)
    \/ PackPayload
    \/ \E bytes \in Areas : OverhearPayload(bytes)
    \/ ReadProducts
    \/ Proceed

DeliverySpec == DeliveryInit /\ [][DeliveryNext]_<<vars, delivery>>

----------------------------------------------------------------------------
(* What the formats cannot carry: they have no marks for where a field     *)
(* ends, so some texts read as something else. None of the checks of the   *)
(* encoder refuses these.                                                  *)

Word(s) == s # << >> /\ \A i \in DOMAIN s : s[i] \notin {BLANK, RECORD_SEPARATOR, END_OF_TEXT, SUBSTITUTE}

FirstWord(text) == Split(text, {BLANK}, 2)[1]

FaithfulRecord(r) ==
    /\ r.kind = KindOf(UpperText(r.record_type))
    /\ \A f \in {r.record_type, r.location, r.record_time} : f = None \/ Word(f)
    /\ \A f \in {r.location, r.record_time} : f # None => UpperText(f) # NIL
    /\ \A i \in DOMAIN r.text : r.text[i] \notin {RECORD_SEPARATOR, END_OF_TEXT, SUBSTITUTE, 0}
    /\ r.qualifier = None => UpperText(FirstWord(r.text)) \notin {SP, AM}

Faithful(item) ==
    CASE item[1] = "record" -> FaithfulRecord(item[2])
      [] item[1] = "bins" ->
           RunLengthEncoded(item[2]) \/ \A i \in DOMAIN item[3] : item[3][i] = 0

OnAir(item) ==
    IF item[1] = "record"
      THEN <<"record",
             [item[2] EXCEPT !.record_type = UpperText(@), !.text = UpperText(@),
                !.location = IF @ = None THEN None ELSE UpperText(@),
                !.record_time = IF @ = None THEN None ELSE UpperText(@)]>>
      ELSE item

----------------------------------------------------------------------------
(* Properties *)

Delivered == arrived \o products

\* What the encoder must take: any bins, and any record it finds valid alone.
Encodable(item) == item[1] = "record" => ValidRecord(item[2])

(* README.md:38 promises whole-record packing and exact DLAC. Reports that *)
(* are valid one by one can be published together, and so can any bins;    *)
(* and they come out as they went in and in their order, up to the case of *)
(* letters, over any number of payloads, next to developmental frames,     *)
(* whatever runs of spaces or bins they have: all but what the formats     *)
(* cannot carry.                                                           *)
ProductsArrive ==
    /\ queue = Error => \E i \in DOMAIN given : ~ Encodable(given[i])
    /\ (/\ given # << >> /\ queue # Error /\ products # None
        /\ \A i \in DOMAIN given : Faithful(given[i]))
         => /\ products # Error
            /\ LET items == FlattenSeq([i \in DOMAIN Delivered |-> ItemsIn(Delivered[i])])
                   all == [i \in DOMAIN given |-> OnAir(given[i])]
               IN  IF queue = << >> THEN items = all ELSE IsPrefix(items, all)

(* pack_records wastes no APDU: of two in a row, the records of the first  *)
(* leave no room for the first one of the second.                          *)
RecordsArePackedWhole ==
    given # << >> /\ products \notin {None, Error} =>
        \A i \in 1..Len(Delivered) - 1 :
            LET p == Delivered[i]  q == Delivered[i + 1] IN
              p.kind = "GenericText" /\ q.kind = "GenericText" =>
                ~ FitsApdu(Append(p.is.records, Head(q.is.records)))

(* A product that was read, whoever sent it, is encoded again by a gateway *)
(* and reads the same there: the records of a text, the runs and bitmaps   *)
(* of a block, and all that this crate does not parse.                     *)
ProductsRelay ==
    products \notin {None, Error} =>
        \A i \in DOMAIN products :
            LET apdu == EncodeProduct(products[i]) IN
              apdu # Error /\ DecodeProduct(apdu) = products[i]

(* The blocks that a bitmap calls empty are different ones, the block of   *)
(* the reference among them, all in its row: they lie in its ring, around  *)
(* the globe if need be, and below 60 degrees next to each other as their  *)
(* bits do.                                                                *)
EmptyBlocksInRow ==
    products \notin {None, Error} =>
        \A i \in { j \in DOMAIN products : products[j].kind = "Nexrad" } :
          LET b == products[i].is.block
              own == [FromRaw(b.raw) EXCEPT !.rle = 0]
              all == EmptyReferences(b)
          IN  b.form = "EmptyBitmap" =>
                /\ \A m, n \in DOMAIN all : m # n => all[m] # all[n]
                /\ \E n \in DOMAIN all : all[n] = own
                /\ \A n \in DOMAIN all :
                     /\ RowStart(all[n].number) = RowStart(own.number)
                     /\ ~ Wide(own.number) /\ own.scale # 3 =>
                          /\ GeoBounds(all[n]).north = GeoBounds(own).north
                          /\ (GeoBounds(all[n]).west - GeoBounds(own).west)
                               % BLOCKS_PER_RING
                               = (all[n].number - own.number) % BLOCKS_PER_RING
================================================================================
