------------------------------ MODULE SessionFile ------------------------------
(***************************************************************************)
(* The session files of src/session.rs, one text line for a datagram: the  *)
(* capture command appends to the file, write_datagram_file replaces it,   *)
(* either can stop in the middle of its output (a crash, a full disk), and *)
(* read_datagram_file reads back what is there. Characters are strings of  *)
(* length one.                                                             *)
(***************************************************************************)
EXTENDS Naturals, Sequences, SequencesExt, FiniteSets

CONSTANTS
    Datagrams,   \* the datagrams recorded: [delay, bytes]
    Undelayed,   \* delay_ms is None
    Digits,      \* hex and decimal digits
    Hex,         \* the two hex digits of each byte
    Decimal,     \* the decimal digits of each delay
    MaxRecords,  \* bound on the datagrams written to the file
    MaxRewrite,  \* bound on the datagrams of write_datagram_file
    MaxOld       \* bound on the datagrams of a file it replaces

Blank == " "
At == "@"
LineEnd == "\n"
Marks == {Blank, At, LineEnd}
Characters == Digits \cup Marks

ASSUME DigitsAssumption == Digits \cap Marks = {}
ASSUME HexAssumption ==
    /\ \A b \in DOMAIN Hex : Hex[b] \in Seq(Digits) /\ Len(Hex[b]) = 2
    /\ \A a, b \in DOMAIN Hex : Hex[a] = Hex[b] => a = b
ASSUME DecimalAssumption ==
    /\ Undelayed \notin DOMAIN Decimal
    /\ \A d \in DOMAIN Decimal : Decimal[d] \in Seq(Digits)
    /\ \A c, d \in DOMAIN Decimal : Decimal[c] = Decimal[d] => c = d
ASSUME DatagramsAssumption ==
    Datagrams \subseteq [delay : DOMAIN Decimal \cup {Undelayed}, bytes : Seq(DOMAIN Hex)]

VARIABLES
    file,   \* the characters of the file
    log     \* the datagrams written to it, in order: [datagram, whole]

fileVars == <<file, log>>

Ok(value) == [ok |-> TRUE, value |-> value]
Error == [ok |-> FALSE]

----------------------------------------------------------------------------
(* Writing *)

\* encode_hex
HexOf(bytes) == FlattenSeq([i \in DOMAIN bytes |-> Hex[bytes[i]]])

\* Mutant: the delay is not separated from the payload.
MutantToLine(d) ==
    (IF d.delay = Undelayed THEN << >> ELSE <<At>> \o Decimal[d.delay])
        \o HexOf(d.bytes)

ToLine(d) ==
    (IF d.delay = Undelayed THEN << >> ELSE <<At>> \o Decimal[d.delay] \o <<Blank>>)
        \o HexOf(d.bytes)

Written(d) == ToLine(d) \o <<LineEnd>>

FileInit == file = << >> /\ log = << >>

Whole(d) == [datagram |-> d, whole |-> TRUE]
Torn(d) == [datagram |-> d, whole |-> FALSE]

\* Mutant: a datagram replaces the file.
MutantAppendDatagram(d) ==
    /\ Len(log) < MaxRecords
    /\ file' = Written(d)
    /\ log' = Append(log, Whole(d))

\* append_datagram
AppendDatagram(d) ==
    /\ Len(log) < MaxRecords
    /\ file' = file \o Written(d)
    /\ log' = Append(log, Whole(d))

\* append_datagram stops in the middle of the line, or before its end.
AppendStops(d) ==
    /\ Len(log) < MaxRecords
    /\ \E n \in 1..Len(ToLine(d)) : file' = file \o SubSeq(Written(d), 1, n)
    /\ log' = Append(log, Torn(d))

(* write_datagram_file: the file is cut to nothing first; a stop leaves a  *)
(* prefix of the lines.                                                    *)
WriteDatagramFile(ds) ==
    /\ Len(log) <= MaxOld
    /\ file' = FlattenSeq([i \in DOMAIN ds |-> Written(ds[i])])
    /\ log' = [i \in DOMAIN ds |-> Whole(ds[i])]

WriteStops(ds) ==
    /\ Len(log) <= MaxOld
    /\ \E k \in DOMAIN ds : \E n \in 0..Len(ToLine(ds[k])) :
        LET before == SubSeq(ds, 1, k - 1) IN
          /\ file' = FlattenSeq([i \in DOMAIN before |-> Written(before[i])])
                       \o SubSeq(Written(ds[k]), 1, n)
          /\ log' = [i \in DOMAIN before |-> Whole(before[i])]
                      \o (IF n = 0 THEN << >> ELSE <<Torn(ds[k])>>)

Rewrites == UNION { [1..n -> Datagrams] : n \in 0..MaxRewrite }

FileNext ==
    \/ \E d \in Datagrams : AppendDatagram(d) \/ AppendStops(d)
    \/ \E ds \in Rewrites : WriteDatagramFile(ds) \/ WriteStops(ds)

FileSpec == FileInit /\ [][FileNext]_fileVars

----------------------------------------------------------------------------
(* Reading *)

(* BufRead::lines: a line end closes a line, and what follows the last one *)
(* is a line if it is not empty.                                           *)
Split(text) ==
    LET read[n \in 0..Len(text)] ==
          IF n = 0 THEN [lines |-> << >>, rest |-> << >>]
          ELSE LET before == read[n - 1] IN
                 IF text[n] = LineEnd
                   THEN [lines |-> Append(before.lines, before.rest), rest |-> << >>]
                   ELSE [before EXCEPT !.rest = Append(@, text[n])]
    IN  read[Len(text)]

Lines(text) ==
    LET split == Split(text)
    IN  IF split.rest = << >> THEN split.lines ELSE Append(split.lines, split.rest)

Trim(text) ==
    LET kept == { i \in DOMAIN text : text[i] # Blank }
    IN IF kept = {} THEN << >> ELSE SubSeq(text, Min(kept), Max(kept))

\* ':' and '-' are skipped too in the code; no line of the model holds one.
WithoutBlanks(text) ==
    LET kept[n \in 0..Len(text)] ==
          IF n = 0 THEN << >>
          ELSE LET before == kept[n - 1] IN
                 IF text[n] = Blank THEN before ELSE Append(before, text[n])
    IN  kept[Len(text)]

\* decode_hex: blanks are skipped, the digits pair up to bytes.
DecodeHex(text) ==
    LET digits == WithoutBlanks(text)
        Pair(i) == <<digits[2 * i - 1], digits[2 * i]>>
        ByteOf(i) == CHOOSE b \in DOMAIN Hex : Hex[b] = Pair(i)
        pairs == 1..(Len(digits) \div 2)
    IN  IF digits = << >> \/ Len(digits) % 2 # 0 THEN Error
        ELSE IF \E i \in pairs : \A b \in DOMAIN Hex : Hex[b] # Pair(i) THEN Error
        ELSE Ok([i \in pairs |-> ByteOf(i)])

(* The code parses any u64. The delay of a line ends at a blank, and only a*)
(* write with a delay has one: what is before the first blank is a delay   *)
(* that was written, or holds a second At.                                 *)
DelayOf(text) ==
    IF \E d \in DOMAIN Decimal : Decimal[d] = text
      THEN Ok(CHOOSE d \in DOMAIN Decimal : Decimal[d] = text) ELSE Error

(* A line with no datagram. A comment is one too in the code, but no line  *)
(* that was written begins with its mark.                                  *)
Nothing == Ok(<< >>)

(* parse_datagram_line: the delay ends at the first blank and needs a      *)
(* payload after it.                                                       *)
ParseLine(line) ==
    LET text == Trim(line)
        blanks == { i \in DOMAIN text : text[i] = Blank }
        Record(delay, hex) ==
          IF delay.ok /\ DecodeHex(hex).ok
            THEN Ok(<<[delay |-> delay.value, bytes |-> DecodeHex(hex).value]>>)
            ELSE Error
    IN  IF text = << >> THEN Nothing
        ELSE IF text[1] # At THEN Record(Ok(Undelayed), text)
        ELSE IF blanks = {} THEN Error
        ELSE Record(DelayOf(SubSeq(text, 2, Min(blanks) - 1)),
                    SubSeq(text, Min(blanks) + 1, Len(text)))

\* Mutant: reading ends at the first line in error and keeps those before it.
MutantReadDatagramFile(text) ==
    LET parsed == [i \in DOMAIN Lines(text) |-> ParseLine(Lines(text)[i])]
        good == { n \in 0..Len(parsed) : \A i \in 1..n : parsed[i].ok }
    IN Ok(FlattenSeq([i \in 1..Max(good) |-> parsed[i].value]))

\* read_datagram_file: one line in error refuses the whole file.
ReadDatagramFile(text) ==
    LET parsed == [i \in DOMAIN Lines(text) |-> ParseLine(Lines(text)[i])]
    IN IF \E i \in DOMAIN parsed : ~ parsed[i].ok THEN Error
       ELSE Ok(FlattenSeq([i \in DOMAIN parsed |-> parsed[i].value]))

----------------------------------------------------------------------------
(* Properties *)

Stored(d) == d.bytes # << >>

(* What was written without a stop reads back as it was, in order, as long *)
(* as no datagram was empty (append_datagram, write_datagram_file and      *)
(* read_datagram_file).                                                    *)
SessionsReadBack ==
    (\A i \in DOMAIN log : log[i].whole /\ Stored(log[i].datagram)) =>
        ReadDatagramFile(file) = Ok([i \in DOMAIN log |-> log[i].datagram])

\* The writes that begin a line of the file: the others go on with a torn one.
LineStarts == { i \in DOMAIN log : i > 1 => log[i - 1].whole }

(* A write that stopped damages its own line and takes the next write with *)
(* it, and no other line: every datagram written whole on a line of its    *)
(* own still parses as itself, so a capture that is run again after a      *)
(* crash loses at most the two once the torn line is edited out. Until     *)
(* then read_datagram_file may refuse the whole file (RefusedOrComplete).  *)
DamageIsLocal ==
    /\ Len(Lines(file)) = Cardinality(LineStarts)
    /\ \A i \in LineStarts :
         log[i].whole /\ Stored(log[i].datagram) =>
           LET line == Lines(file)[Cardinality({ j \in LineStarts : j <= i })]
           IN ParseLine(line) = Ok(<<log[i].datagram>>)

(* read_datagram_file gives all that a session still holds or nothing: it  *)
(* refuses a file only when a write stopped or a datagram was empty, and a *)
(* session it accepts, with torn lines in it or not, has each datagram     *)
(* written whole on a line of its own at the place of its line. It is      *)
(* never cut off at the damage.                                            *)
RefusedOrComplete ==
    LET read == ReadDatagramFile(file)
        Sound(i) == log[i].whole /\ Stored(log[i].datagram)
        LineOf(i) == Cardinality({ j \in LineStarts : j <= i })
        \* Blank lines give no datagram.
        PlaceOf(i) == Cardinality({ m \in 1..LineOf(i) : Trim(Lines(file)[m]) # << >> })
    IN  IF read.ok
          THEN \A i \in LineStarts : Sound(i) =>
                 /\ PlaceOf(i) \in DOMAIN read.value
                 /\ read.value[PlaceOf(i)] = log[i].datagram
          ELSE \E i \in DOMAIN log : ~ Sound(i)

(* The documented format: each line stores a full datagram (README.md:197).*)
EveryDatagramIsStored ==
    (\A i \in DOMAIN log : log[i].whole) =>
        ReadDatagramFile(file) = Ok([i \in DOMAIN log |-> log[i].datagram])
================================================================================
