------------------------------ MODULE ProductFiles -----------------------------
(***************************************************************************)
(* What the reassembler of product files promises, with no map, no slots   *)
(* and no counting: a set of held segments.  "Segments may arrive out of   *)
(* order and identical retransmissions are accepted.  A conflicting        *)
(* retransmission is rejected without replacing the previously accepted    *)
(* segment." (src/uplink.rs:906-909, the documentation of ApduReassembler) *)
(***************************************************************************)
EXTENDS Naturals

CONSTANTS
    Segments,          \* everything that can be held
    KeyOf(_),          \* the product file a segment belongs to,
    NumberOf(_),       \* its place in that file,
    TotalOf(_),        \* the number of segments of the file
    Contribution(_),   \* and what it adds to the file's payload
    Consistent(_),     \* whether the segments of a whole file fit together
    Nothing            \* no file

VARIABLES
    held,     \* the segments accepted and not yet handed out or given up
    product   \* the file the last call handed out, or Nothing

OfFile(k) == { s \in held : KeyOf(s) = k }

(* A segment is accepted unless it contradicts one that is held: another   *)
(* length for the file, or another segment in the same place.              *)
Compatible(s) ==
    \A t \in OfFile(KeyOf(s)) :
        /\ TotalOf(t) = TotalOf(s)
        /\ NumberOf(t) = NumberOf(s) => t = s

With(s) == OfFile(KeyOf(s)) \cup {s}

Places(S) == { NumberOf(t) : t \in S }

WholeWith(s) == Places(With(s)) = 1..TotalOf(s)

(* The payload of a whole file: what each place contributes.               *)
InPlace(S, i) == CHOOSE t \in S : NumberOf(t) = i

Payload(S) == [i \in Places(S) |-> Contribution(InPlace(S, i))]

Init == held = {} /\ product = Nothing

Accept(s) ==
    /\ Compatible(s)
    /\ ~ (WholeWith(s) /\ Consistent(With(s)))
    /\ held' = held \cup {s}
    /\ product' = Nothing

HandOut(s) ==
    /\ Compatible(s)
    /\ WholeWith(s)
    /\ Consistent(With(s))
    /\ held' = held \ OfFile(KeyOf(s))
    /\ product' = Payload(With(s))

Refuse == UNCHANGED held /\ product' = Nothing

GiveUp(K) ==
    /\ held' = { s \in held : KeyOf(s) \notin K }
    /\ product' = Nothing

Next ==
    \/ \E s \in Segments : Accept(s) \/ HandOut(s)
    \/ Refuse
    \/ \E K \in SUBSET { KeyOf(s) : s \in held } : GiveUp(K)

Spec == Init /\ [][Next]_<<held, product>>
================================================================================
