--------------------------- MODULE MCApduReassembler ---------------------------
(***************************************************************************)
(* Instances of ApduReassembler for TLC: one TWGO file and one or two      *)
(* concatenated files, up to three segments, two versions of each segment. *)
(***************************************************************************)
EXTENDS ApduReassembler

CONSTANTS p_twgo, p_text, p_bad, f1, f2, t1, t_bad, h1, h2, d1, d2

MCProducts == {p_twgo, p_text}
MCTwgoProducts == {p_twgo}
MCFileIds == {f1, f2}
MCStamps == {t1}
MCHeads == {h1, h2}
MCTails == {d1, d2}

Apdu(p, f, t, n, h, d) ==
    [product |-> p, stamp |-> t1, flagged |-> TRUE,
     seg |-> [file |-> f, total |-> t, number |-> n], head |-> h, tail |-> d]

\* The TWGO file: three segments, any of the heads, or too short a payload.
TwgoInputs ==
    { Apdu(p_twgo, f1, 3, n, h, d1) : n \in 1..3, h \in {h1, h2, Short} }

\* Two files of another product, each under two different lengths.
TextInputs ==
    { Apdu(p_text, f1, 2, n, h1, d) : n \in 1..2, d \in {d1, d2} }
        \cup { Apdu(p_text, f1, 1, 1, h1, d1), Apdu(p_text, f2, 2, 1, h1, d1),
               Apdu(p_text, f2, 3, 2, h1, d1) }

\* Headers that validation refuses, and an APDU without segmentation.
OtherInputs ==
    LET a == Apdu(p_text, f1, 2, 1, h1, d1) IN
      { [a EXCEPT !.stamp = t_bad], [a EXCEPT !.product = p_bad],
        [a EXCEPT !.flagged = FALSE], [a EXCEPT !.seg = None],
        [a EXCEPT !.seg.number = 3], [a EXCEPT !.seg.number = 0],
        [a EXCEPT !.seg.total = 0],
        [a EXCEPT !.flagged = FALSE, !.seg = None] }

MCInputs == TwgoInputs \cup TextInputs \cup OtherInputs
================================================================================
