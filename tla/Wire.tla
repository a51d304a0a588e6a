---------------------------------- MODULE Wire ---------------------------------
(***************************************************************************)
(* Bytes, bits and layouts: what the encoders and decoders of the crate    *)
(* have in common. A byte is a number, a bit 0 or 1, the most significant  *)
(* one first. A layout is a sequence of <<name, width>> fields that fill   *)
(* whole bytes; the masks and shifts of the code read and write them.      *)
(***************************************************************************)
EXTENDS Integers, Sequences, SequencesExt, TLC

CONSTANTS
    None,  \* an absent Option
    Error  \* a Result that is an Err, whichever

\* A value shifted right by 0 to n bits.
Shifted(value, n) ==
    LET by[k \in 0..n] == IF k = 0 THEN value ELSE by[k - 1] \div 2 IN by

BitsOf(value, width) ==
    [i \in 1..width |-> Shifted(value, width)[width - i] % 2]

NumberOf(bits) ==
    LET upTo[i \in 0..Len(bits)] == IF i = 0 THEN 0 ELSE 2 * upTo[i - 1] + bits[i]
    IN  upTo[Len(bits)]

BitsOfBytes(bytes) ==
    [i \in 1..8 * Len(bytes) |->
        BitsOf(bytes[((i - 1) \div 8) + 1], 8)[((i - 1) % 8) + 1]]

BytesOfBits(bits) ==
    [i \in 1..Len(bits) \div 8 |-> NumberOf(SubSeq(bits, 8 * i - 7, 8 * i))]

\* FlattenSeq by halves: the sequences of a payload are too many for a recursion.
Joined(seqs) ==
    LET n == Len(seqs)
        from[a \in 1..n, b \in 1..n] ==
            IF a = b THEN seqs[a]
            ELSE from[a, (a + b) \div 2] \o from[((a + b) \div 2) + 1, b]
    IN  IF n = 0 THEN << >> ELSE from[1, n]

\* The stretches of equal elements that a sequence is made of.
Stretches(s) ==
    LET starts == SelectSeq([i \in DOMAIN s |-> i], LAMBDA i : i = 1 \/ s[i] # s[i - 1])
        EndOf(k) == IF k < Len(starts) THEN starts[k + 1] ELSE Len(s) + 1
    IN  [k \in DOMAIN starts |->
            [of |-> s[starts[k]], length |-> EndOf(k) - starts[k]]]

Flag(b) == IF b THEN 1 ELSE 0

Fill(n, byte) == [i \in 1..n |-> byte]

\* Filled up with a byte to n bytes.
Padded(bytes, n, byte) == bytes \o Fill(n - Len(bytes), byte)

UpperText(s) == [i \in DOMAIN s |-> IF s[i] \in 97..122 THEN s[i] - 32 ELSE s[i]]

\* What collecting results gives: the first error, or all the values.
Collected(results) ==
    IF \E i \in DOMAIN results : results[i] = Error THEN Error ELSE results

\* The value of an option, or what stands for None on the wire.
Or(option, sentinel) == IF option = None THEN sentinel ELSE option
Option(raw, sentinel) == IF raw = sentinel THEN None ELSE raw

\* The signed number that a field of some width stands for.
Signed(n, width) == IF n >= 2 ^ (width - 1) THEN n - 2 ^ width ELSE n

----------------------------------------------------------------------------
(* Layouts. A value too wide for its field loses its upper bits, a         *)
(* negative one is written in two's complement.                            *)

Packed(layout, raw) ==
    BytesOfBits(FlattenSeq([i \in DOMAIN layout |->
                              BitsOf(raw[layout[i][1]], layout[i][2])]))

Unpacked(layout, bytes) ==
    LET bits == BitsOfBytes(bytes)
        at[i \in 1..Len(layout) + 1] ==
            IF i = 1 THEN 0 ELSE at[i - 1] + layout[i - 1][2]
        Field(i) == NumberOf(SubSeq(bits, at[i] + 1, at[i + 1]))
    IN  [name \in { layout[i][1] : i \in DOMAIN layout } |->
            Field(CHOOSE i \in DOMAIN layout : layout[i][1] = name)]

\* The fields of a record that a value keeps.
Only(raw, names) == [name \in names |-> raw[name]]
================================================================================
