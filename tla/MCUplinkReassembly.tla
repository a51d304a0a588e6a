--------------------------- MODULE MCUplinkReassembly --------------------------
(***************************************************************************)
(* One TWGO file and one text file of two segments; one of them is         *)
(* replaced by a second version, the other is not.                         *)
(***************************************************************************)
EXTENDS UplinkReassembly

CONSTANTS p_twgo, p_text, f1, t1

MCProducts == {p_twgo, p_text}
MCTwgoProducts == {p_twgo}
MCFileIds == {f1}
MCStamps == {t1}

TwgoFile == [product |-> p_twgo, file |-> f1]
TextFile == [product |-> p_text, file |-> f1]

MCPublished == {TwgoFile, TextFile}
MCSchedules ==
    { [k \in MCPublished |-> IF k = j THEN 2 ELSE 1] : j \in MCPublished }
MCLength == [k \in MCPublished |-> 2]
================================================================================
