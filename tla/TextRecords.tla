------------------------------- MODULE TextRecords -----------------------------
(***************************************************************************)
(* Generic text products (src/uplink.rs): reports as records, their text   *)
(* lines, and the six-bit DLAC code with its runs of spaces. A text is the *)
(* sequence of its ASCII codes.                                            *)
(***************************************************************************)
EXTENDS ApduHeader

----------------------------------------------------------------------------
(* DLAC characters. Code 28 announces a run of spaces. *)

END_OF_TEXT == 3
LINE_FEED == 10
SUBSTITUTE == 26
RECORD_SEPARATOR == 30
BAR == 124
BLANK == 32
TAB_CODE == 28

EncodeDlacChar(ch) ==
    CASE ch \in {END_OF_TEXT, 0} -> 0
      [] ch \in 65..90 -> ch - 64
      [] ch \in 97..122 -> ch - 96
      [] ch = SUBSTITUTE -> 27
      [] ch = RECORD_SEPARATOR -> 29
      [] ch = LINE_FEED -> 30
      [] ch \in {BAR, 31} -> 31
      [] ch \in 32..63 -> ch
      [] OTHER -> Error

DecodeDlacChar(code) ==
    CASE code = 0 -> END_OF_TEXT
      [] code \in 1..26 -> code + 64
      [] code = 27 -> SUBSTITUTE
      [] code = 29 -> RECORD_SEPARATOR
      [] code = 30 -> LINE_FEED
      [] code = 31 -> BAR
      [] code \in 32..63 -> code

----------------------------------------------------------------------------
(* Texts. Four codes make three bytes. *)

\* Mutant: what is left of a long run is announced as the whole of it.
MutantRunCodes(n) ==
    Joined(Fill(n \div 63, <<TAB_CODE, 63>>)) \o
      (IF n < 2 THEN Fill(n, BLANK) ELSE <<TAB_CODE, n % 64>>)

\* A run of n spaces: 63 at a time, a single one as itself.
RunCodes(n) ==
    Joined(Fill(n \div 63, <<TAB_CODE, 63>>)) \o
      (IF n % 63 < 2 THEN Fill(n % 63, BLANK) ELSE <<TAB_CODE, n % 63>>)

Codes(text) ==
    LET parts == Stretches(text) IN
      Joined([k \in DOMAIN parts |->
                IF parts[k].of = BLANK THEN RunCodes(parts[k].length)
                ELSE Fill(parts[k].length, EncodeDlacChar(parts[k].of))])

EncodeDlac(text) ==
    LET codes == Codes(text)
        full == codes \o Fill((-Len(codes)) % 4, 0)
        Word(i) == 2 ^ 18 * full[i] + 4096 * full[i + 1] + 64 * full[i + 2] + full[i + 3]
    IN  IF Error \in { codes[i] : i \in DOMAIN codes } THEN Error
        ELSE [k \in 1..3 * (Len(full) \div 4) |->
                (Word(4 * ((k - 1) \div 3) + 1) \div 256 ^ (2 - ((k - 1) % 3))) % 256]

\* Bits that do not make a whole code are left over.
SixBits(bytes) ==
    [i \in 1..(8 * Len(bytes)) \div 6 |->
        LET o == 6 * (i - 1)
            at == (o \div 8) + 1
            next == IF at < Len(bytes) THEN bytes[at + 1] ELSE 0
        IN  ((256 * bytes[at] + next) \div 2 ^ (10 - (o % 8))) % 64]

DecodeDlac(bytes) ==
    LET codes == SixBits(bytes)
        pending[i \in 0..Len(codes)] ==
            i > 0 /\ codes[i] = TAB_CODE /\ ~ pending[i - 1]
    IN  IF pending[Len(codes)] THEN Error
        ELSE Joined([i \in DOMAIN codes |->
                           IF pending[i - 1] THEN Fill(codes[i], BLANK)
                           ELSE IF pending[i] THEN << >>
                           ELSE <<DecodeDlacChar(codes[i])>>])

----------------------------------------------------------------------------
(* Records: a type, a location, a time, perhaps a qualifier, and the text, *)
(* with a space in between. A location or time of None is written "NIL=".  *)

SP == <<83, 80>>
AM == <<65, 77>>
METAR == <<77, 69, 84, 65, 82>>
TAF == <<84, 65, 70>>
NIL == <<78, 73, 76, 61>>

KindOf(type) ==
    CASE type = METAR -> "Metar" [] type = TAF -> "Taf" [] OTHER -> "Other"

\* The pieces of a text between separators, n at the most.
Split(text, separators, n) ==
    LET all == SelectSeq([i \in DOMAIN text |-> i], LAMBDA i : text[i] \in separators)
        cuts == <<0>> \o SubSeq(all, 1, Min({Len(all), n - 1})) \o <<Len(text) + 1>>
    IN  [k \in 1..Len(cuts) - 1 |-> SubSeq(text, cuts[k] + 1, cuts[k + 1] - 1)]

FromParts(parts) ==
    LET rest == IF Len(parts) = 5 THEN parts[5] ELSE << >>
        qualified == parts[4] \in {SP, AM}
    IN  IF Len(parts) < 4 THEN Error
        ELSE IF << >> \in {parts[1], parts[2], parts[3]} THEN Error
        ELSE [kind |-> KindOf(parts[1]), record_type |-> parts[1],
              location |-> Option(parts[2], NIL),
              record_time |-> Option(parts[3], NIL),
              qualifier |-> IF qualified THEN parts[4] ELSE None,
              text |-> IF qualified THEN rest
                       ELSE IF Len(parts) = 5 THEN parts[4] \o <<BLANK>> \o rest
                       ELSE parts[4]]

Parse(raw) == FromParts(Split(raw, {BLANK}, 5))

\* Mutant: no space in front of an empty text.
MutantRender(r) ==
    r.record_type \o <<BLANK>> \o Or(r.location, NIL)
      \o <<BLANK>> \o Or(r.record_time, NIL)
      \o (IF r.qualifier = None THEN << >> ELSE <<BLANK>> \o r.qualifier)
      \o (IF r.text = << >> THEN << >> ELSE <<BLANK>> \o r.text)

Render(r) ==
    r.record_type \o <<BLANK>> \o Or(r.location, NIL)
      \o <<BLANK>> \o Or(r.record_time, NIL)
      \o (IF r.qualifier = None THEN << >> ELSE <<BLANK>> \o r.qualifier)
      \o <<BLANK>> \o r.text

EncodeRecords(records) ==
    EncodeDlac(Joined([i \in DOMAIN records |->
                              Append(Render(records[i]), RECORD_SEPARATOR)]))

MAX_APDU_PAYLOAD_LEN == 418

FitsApdu(records) ==
    LET encoded == EncodeRecords(records) IN
      encoded # Error /\ Len(encoded) <= MAX_APDU_PAYLOAD_LEN

Token(field) ==
    field = None \/ (field # << >> /\ \A i \in DOMAIN field : field[i] # BLANK)

\* validate_metar_taf_composition
ValidRecord(r) ==
    /\ FitsApdu(<<r>>)
    /\ r.kind # "Other" =>
         /\ r.text # << >>
         /\ \A i \in DOMAIN r.text : r.text[i] # RECORD_SEPARATOR
         /\ r.qualifier \in {None, IF r.kind = "Metar" THEN SP ELSE AM}
         /\ Token(r.location) /\ Token(r.record_time)

----------------------------------------------------------------------------
(* GenericTextApdu *)

GENERIC_TEXT_PRODUCT_ID == 413

ValidText(t) ==
    /\ Minimal(t.header) /\ t.header.product = GENERIC_TEXT_PRODUCT_ID
    /\ t.records # << >>
    /\ \A i \in DOMAIN t.records : ValidRecord(t.records[i])
    /\ FitsApdu(t.records)

CheckedText(t) == IF ValidText(t) THEN t ELSE Error

TextToApdu(t) ==
    IF ValidText(t) THEN [header |-> t.header, payload |-> EncodeRecords(t.records)]
    ELSE Error

TextFromApdu(apdu) ==
    LET text == DecodeDlac(apdu.payload)
        pieces == Split(text, {RECORD_SEPARATOR, END_OF_TEXT}, Len(text) + 1)
        Normalized(piece) == SelectSeq(piece, LAMBDA ch : ch # SUBSTITUTE)
        InUse(piece) == \E i \in DOMAIN piece : piece[i] \notin {BLANK, LINE_FEED}
        raws == SelectSeq([i \in DOMAIN pieces |-> Normalized(pieces[i])], InUse)
        records == Collected([i \in DOMAIN raws |-> Parse(raws[i])])
    IN  IF text = Error \/ records = Error THEN Error
        ELSE CheckedText([header |-> apdu.header, records |-> records])

\* Mutant: the lengths of the records are added up, each with its padding.
MutantJoins(group, r) ==
    group = << >> \/ Len(EncodeRecords(group)) + Len(EncodeRecords(<<r>>))
                       <= MAX_APDU_PAYLOAD_LEN

Joins(group, r) == group = << >> \/ FitsApdu(Append(group, r))

(* pack_records: each record joins the APDU before it if it still fits.    *)
PackRecords(header, records) ==
    LET Step(groups, r) ==
          IF Joins(groups[Len(groups)], r)
            THEN [groups EXCEPT ![Len(groups)] = Append(@, r)]
            ELSE Append(groups, <<r>>)
        groups == FoldLeft(Step, << << >> >>, records)
    IN  IF \E i \in DOMAIN records : ~ ValidRecord(records[i]) THEN Error
        ELSE Collected([i \in DOMAIN groups |->
               CheckedText([header |-> header, records |-> groups[i]])])
================================================================================
