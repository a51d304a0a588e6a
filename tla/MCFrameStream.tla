------------------------------ MODULE MCFrameStream ----------------------------
(***************************************************************************)
(* Every stream of at most seven bytes over the flag, the escape, the two  *)
(* legal escaped bytes and 0, with the real CRC: 7E 00 00 00 7E is the     *)
(* shortest valid frame.                                                   *)
(***************************************************************************)
EXTENDS FrameStream

C == INSTANCE Crc16
MCCrc(data) == C!CrcBytes(data)

MCBytes == {126, 125, 94, 93, 0}
MCMessages == { <<b>> : b \in MCBytes } \cup { <<b, c>> : b, c \in MCBytes }

\* The examples of the unit test byte_stuffing_examples_match_public_icd_examples.
ASSUME SubSeq(EncodeFrame(<<2, 126>>), 1, 4) = <<126, 2, 125, 94>>
ASSUME SubSeq(EncodeFrame(<<3, 125>>), 1, 4) = <<126, 3, 125, 93>>
ASSUME EncodeFrame(<<126, 125>>)
         = <<126, 125, 94, 125, 93, 125, 93, 125, 94, 126>>
ASSUME \A m \in {<<2, 126>>, <<3, 125>>, <<126, 125>>, <<0, 129, 65, 219>>} :
         LET frame == EncodeFrame(m) IN
           DecodeStuffed(SubSeq(frame, 2, Len(frame) - 1)) = Ok(m)
================================================================================
