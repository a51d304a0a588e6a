---------------------------------- MODULE Crc16 --------------------------------
(***************************************************************************)
(* crc16_ccitt of src/frame.rs, on 16-bit words.                           *)
(***************************************************************************)
EXTENDS Naturals, Sequences, Bitwise

Word == 65536

\* Eight shifts of the byte in the high half, with the CCITT polynomial.
Shifted(index) ==
    LET crc[n \in 0..8] ==
          IF n = 0 THEN index * 256
          ELSE IF crc[n - 1] >= 32768
            THEN ((crc[n - 1] * 2) % Word) ^^ 4129
            ELSE crc[n - 1] * 2
    IN crc[8]

Table == [index \in 0..255 |-> Shifted(index)]

Crc16Ccitt(data) ==
    LET crc[n \in 0..Len(data)] ==
          IF n = 0 THEN 0
          ELSE (Table[crc[n - 1] \div 256] ^^ ((crc[n - 1] * 256) % Word))
                  ^^ data[n]
    IN crc[Len(data)]

\* The check bytes as they are sent: the low byte first.
CrcBytes(data) == <<Crc16Ccitt(data) % 256, Crc16Ccitt(data) \div 256>>
================================================================================
