----------------------------- MODULE MCFisbDelivery ----------------------------
(***************************************************************************)
(* Payloads of up to three frames with the real lengths: APDUs with each   *)
(* kind of header, at the limits of their fields and just beyond, with     *)
(* payloads that fill the area exactly, alone or in pairs, or exceed it;   *)
(* empty, reserved and developmental frames; application data whose frame  *)
(* headers and APDU headers are enumerated. And products: reports with     *)
(* runs of spaces around the limits, lists of reports that need two APDUs, *)
(* radar blocks with runs around the limit, texts and blocks of others.    *)
(***************************************************************************)
EXTENDS FisbDelivery

Plain == [agp |-> 0, product |-> 999, flagged |-> FALSE, option |-> 0,
          date |-> None, hours |-> 23, minutes |-> 59, seconds |-> None,
          seg |-> None]
Dated == [Plain EXCEPT !.option = 2, !.date = [month |-> 12, day |-> 31]]
Timed == [Plain EXCEPT !.option = 1, !.seconds = 59]
Part(h, n, of) == [h EXCEPT !.flagged = TRUE, !.product = 2047,
                     !.seg = [file |-> 1023, total |-> of, number |-> n]]

ValidHeaders ==
    {Plain, Dated, Timed, Part(Plain, 511, 511), Part(Dated, 1, 2),
     Part(Timed, 1, 1)}
InvalidHeaders ==
    {[Plain EXCEPT !.hours = 24], [Plain EXCEPT !.agp = 1],
     [Plain EXCEPT !.option = 2], [Plain EXCEPT !.flagged = TRUE],
     [Dated EXCEPT !.option = 3, !.seconds = 0],
     [Dated EXCEPT !.date.month = 13], Part(Plain, 2, 1)}

MCApdus ==
    { [header |-> h, payload |-> << >>] : h \in InvalidHeaders }
      \cup { [header |-> h, payload |-> Fill(n, 170)] :
                h \in ValidHeaders, n \in {0, 413} }
      \cup { [header |-> Plain, payload |-> Fill(n, 85)] :
                n \in {1, 206, 418, 419} }

MCBareFrames ==
    { [reserved |-> 0, type |-> t, data |-> Fill(n, 0)] :
         t \in {0, 15}, n \in {0, 3, 210} }
      \cup { [reserved |-> r, type |-> t, data |-> <<1>>] :
                r \in {1, 0}, t \in {7, 15} }
      \cup { [reserved |-> 0, type |-> 15, data |-> Fill(423, 9)] }

Area(bytes) == SubSeq(bytes \o Fill(424, 0), 1, 424)

\* Two frame headers, each in front of as many bytes as it declares.
FrameHeaders == {0, 1, 105, 211, 212, 255} \X {0, 128, 15, 16, 1}
Declared(p) == 2 * p[1] + p[2] \div 128
AreasOfFrames ==
    { Area(p \o Fill(Declared(p), 48) \o q \o Fill(300, 5)) :
         p \in FrameHeaders, q \in FrameHeaders }

\* One frame of nine bytes that holds an APDU header.
AreasOfHeaders ==
    { Area(<<4, 128, a, b, c, d>> \o Fill(5, r)) :
         a \in {0, 6, 32}, b \in {0, 1, 2, 3, 252},
         c \in {0, 5, 88, 127, 128, 185}, d \in {0, 8, 16, 176, 251},
         r \in {0, 1, 4, 16, 36} }

----------------------------------------------------------------------------
(* Products *)

TextHeader == [Plain EXCEPT !.product = 413]
RadarHeader == [Plain EXCEPT !.product = 63]

A == 65
Report(kind, type, location, time, qualifier, text) ==
    [kind |-> kind, record_type |-> type, location |-> location,
     record_time |-> time, qualifier |-> qualifier, text |-> text]
Other(text) == Report("Other", <<A>>, <<A>>, <<A>>, None, text)

BlankRuns == {1, 2, 62, 63, 64, 65, 126, 127, 130}

Reports ==
    { Other(<<A>> \o Fill(n, BLANK) \o <<A>>) : n \in BlankRuns }
      \cup { Other(Fill(n, BLANK) \o t) : n \in {0, 1, 2, 64}, t \in {<< >>, <<A>>} }
      \cup { Report("Metar", METAR, l, t, q, <<107, 10, 124>>) :
                l \in {None, <<75, 98>>}, t \in {None, <<49>>}, q \in {None, SP} }
      \cup { Report("Taf", TAF, <<A>>, <<A>>, AM, <<63, BLANK, BLANK>>) }
      \cup { Report("Other", <<A>>, None, <<49>>, q, << >>) : q \in {SP, AM} }

\* What reads as something else.
Ambiguous ==
    { Other(SP), Other(AM \o <<BLANK, A>>), Other(<<A, SUBSTITUTE>>),
      Other(<<A, RECORD_SEPARATOR>> \o <<A, BLANK, A, BLANK, A, BLANK, A>>),
      Report("Other", <<A>>, NIL, <<A>>, None, <<A>>),
      Report("Other", <<A>>, <<A, BLANK, A>>, <<A>>, None, <<A>>),
      Report("Other", TAF, <<A>>, <<A>>, None, <<A>>) }

\* A record of n codes with its separator.
Long(n) == Other(Fill(n - 7, A))

Lists ==
    { << Long(277), Long(279) >>, << Long(278), Long(279) >>,
      << Long(200), Long(200), Long(200) >>, << Long(556), Long(8) >>,
      << Long(8), Long(8) >> }

Records(list) == [kind |-> "Records", header |-> TextHeader, records |-> list]

Number(n, rle) == ToRaw([rle |-> rle, south |-> 0, scale |-> 0, number |-> n])
Block(rle, bins) ==
    [kind |-> "Bins", header |-> RadarHeader, raw |-> Number(1000, rle), bins |-> bins]
Bins(n, m) == Fill(n, 7) \o Fill(m, 0) \o Fill(128 - n - m, 3)

Blocks ==
    { Block(1, Bins(n, m)) : n \in {0, 1, 31, 32, 33}, m \in {0, 1, 32, 64, 65} }
      \cup { Block(r, Fill(128, 0)) : r \in {0, 1} }
      \cup { Block(0, Bins(n, 0)) : n \in {1, 128} }
      \cup { Block(1, [i \in 1..128 |-> i % 8]) }

MCWorks ==
    { <<Records(<<r>>)>> : r \in Reports \cup Ambiguous }
      \cup { <<Records(list)>> : list \in Lists }
      \cup { <<Records(<< r, Other(<<A>>) >>)>> :
                r \in {Long(557), Report("Metar", METAR, <<A>>, <<A>>, AM, <<A>>)} }
      \cup { <<b>> : b \in Blocks }
      \cup { <<Records(list), Block(1, Bins(33, 1))>> :
                list \in { << Long(8), Long(8) >>, << Long(277), Long(279) >> } }
      \cup { <<Block(1, Bins(32, 65)), Records(<< Other(<<A>>) >>)>> }

Carrying(header, payload) ==
    Area(FrameBytes([reserved |-> 0, type |-> FisBApdu,
                     data |-> EncodeApdu([header |-> header, payload |-> payload])]))

(* Texts of other stations: with fields, separators, empty texts, runs cut *)
(* by the end, characters no encoder of the crate writes there.            *)
Pieces ==
    { << >>, <<BLANK>>, <<A, BLANK, A, BLANK, A, BLANK>>,
      <<A, BLANK, A, BLANK, A>>, <<BLANK, A, BLANK, A, BLANK, A>>,
      <<A, BLANK>> \o NIL \o <<BLANK>> \o NIL \o <<BLANK>> \o SP,
      TAF \o <<BLANK, A, BLANK, A, BLANK>> \o SP \o <<BLANK, A>>,
      METAR \o <<BLANK, A, BLANK, A, BLANK>> \o SP \o <<BLANK, A, SUBSTITUTE>>,
      TAF \o <<BLANK, A, BLANK, A, BLANK>> }

AreasOfTexts ==
    { Carrying(TextHeader, EncodeDlac(p \o <<end>> \o q)) :
         p \in Pieces, q \in Pieces, end \in {RECORD_SEPARATOR, END_OF_TEXT} }
      \cup { Carrying(TextHeader, bytes) :
                bytes \in {<<4, 24, 4, 28>>, <<112>>, <<113, 192>>, Fill(418, 4),
                           EncodeDlac(Render(Other(<<A>>))) \o <<255>>} }

\* Blocks at the ends of rows, on the last ring of narrow ones and beyond.
Numbers == {0, 2, 449, 450, 404999, 405000, 405224, 405225, 1048575}
Bitmaps == { << 16 * h + Len(t) >> \o t : h \in {0, 1, 15}, t \in {<< >>, <<129>>, Fill(15, 255)} }

AreasOfBlocks ==
    { Carrying(RadarHeader, ToRaw([rle |-> 0, south |-> s, scale |-> c, number |-> n]) \o m) :
         s \in {0, 1}, c \in {0, 2, 3}, n \in Numbers, m \in Bitmaps }
      \cup { Carrying(RadarHeader, Number(7, r) \o bytes) :
                r \in {0, 1},
                bytes \in { << >>, <<0>>, <<1>>, Fill(4, 248), Fill(4, 255), Fill(5, 248),
                            Fill(128, 5), Fill(127, 5) \o <<15>> } }
      \cup { Carrying(RadarHeader, <<128, 0>>),
             Carrying([Dated EXCEPT !.product = 63], Number(7, 1)) }

MCAreas == AreasOfFrames \cup AreasOfHeaders \cup AreasOfTexts \cup AreasOfBlocks
================================================================================
