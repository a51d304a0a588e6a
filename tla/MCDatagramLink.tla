----------------------------- MODULE MCDatagramLink ----------------------------
(***************************************************************************)
(* Datagrams of up to two one- or two-byte messages, one of which needs    *)
(* escapes, buffers that cut them in several places, and the bytes of     *)
(* other programs: empty datagrams, lone flags, half frames, and a valid   *)
(* frame that is no message.                                               *)
(***************************************************************************)
EXTENDS DatagramLink

C == INSTANCE Crc16
MCCrc(data) == C!CrcBytes(data)

MCMessages == { <<0>>, <<126, 1>> }
MCUnreadable == { <<9>> }
MCForeign ==
    { << >>, <<126>>, <<125>>, <<125, 126>>, <<126, 126, 7>>,
      Live!EncodeFrame(<<9>>) }
MCSizes == { 0, 3, 4, 5, 6, 9, 11, 12, 40 }
================================================================================
