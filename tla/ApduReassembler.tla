---------------------------- MODULE ApduReassembler ----------------------------
(***************************************************************************)
(* The stateful reassembler of segmented FIS-B product files               *)
(* (src/uplink.rs: ApduReassembler and assemble_product_file).         *)
(*                                                                         *)
(* The state is the map `pending` from product-file keys to the segments   *)
(* accepted so far.  A key is the pair of an 11-bit product id and a       *)
(* 10-bit product file id; a file has as many slots as its first segment   *)
(* declared.  Push is one call of push(): each of its branches is an       *)
(* action below, and their guards are disjoint.                            *)
(*                                                                         *)
(* Data abstraction.  `stamp` stands for every header field other than the *)
(* product id and the segmentation block (flags and times), which only     *)
(* take part in validation and in the equality of two APDUs.  A payload is *)
(* cut where a TWGO product cuts it: `head` is its first six bytes (or     *)
(* Short, when there are fewer), `tail` the rest.                          *)
(*                                                                         *)
(* Operators named Mutant... are no part of the model: each is a faulty    *)
(* version of the operator that follows it, for mutation runs.             *)
(***************************************************************************)
EXTENDS Naturals, FiniteSets

CONSTANTS
    Products,      \* product ids that pass validation (11 bits in the code)
    TwgoProducts,  \* the products whose segments repeat a six-byte header
    FileIds,       \* product file ids that pass validation (10 bits)
    MaxTotal,      \* largest product file length (511: 9 bits)
    Stamps,        \* values of the other header fields that pass validation
    Heads,         \* values of the first six payload bytes
    Short,         \* the head of a payload of fewer than six bytes
    Tails,         \* values of the payload bytes after the head
    None,          \* Rust's None
    Inputs         \* the APDUs that callers push, malformed ones included

----------------------------------------------------------------------------
(* APDUs *)

Keys == [product : Products, file : FileIds]

Segmentations == [file : FileIds, total : 1..MaxTotal, number : 1..MaxTotal]

\* The APDUs with a segmentation block whose header passes validation.
Segments ==
    { a \in [product : Products, stamp : Stamps, flagged : {TRUE},
             seg : Segmentations, head : Heads \cup {Short}, tail : Tails] :
          a.seg.number <= a.seg.total }

ValidSegmentation(s) ==
    /\ s.file \in FileIds
    /\ s.total \in 1..MaxTotal
    /\ s.number \in 1..s.total

\* Mutant: the fields other than the segmentation block go unchecked.
MutantValidHeader(a) ==
    /\ a.seg # None => ValidSegmentation(a.seg)
    /\ a.flagged = (a.seg # None)

(* Each field is in its range, and the segmentation flag is set exactly    *)
(* when the segmentation block is there.                                   *)
ValidHeader(a) ==
    /\ a.product \in Products
    /\ a.stamp \in Stamps
    /\ a.seg # None => ValidSegmentation(a.seg)
    /\ a.flagged = (a.seg # None)

\* Mutant: the product is left out of the key.
MutantKeyOf(a) == [product |-> CHOOSE p \in Products : TRUE, file |-> a.seg.file]

KeyOf(a) == [product |-> a.product, file |-> a.seg.file]

----------------------------------------------------------------------------
(* Assembling a file from its segments, in segment order *)

Twgo(k) == k.product \in TwgoProducts

Strategy(k) == IF Twgo(k) THEN "TwgoRepeatedHeader" ELSE "Concatenate"

\* Mutant: the repeated headers are not compared.
MutantAssembles(k, segments) ==
    /\ Twgo(k) => \A i \in DOMAIN segments : segments[i].head # Short
    /\ ValidHeader([segments[1] EXCEPT !.flagged = FALSE, !.seg = None])

(* A TWGO file is refused when a segment is too short to hold the repeated *)
(* header or when its header differs from the first segment's.  The header *)
(* of the result is validated again with the segmentation cleared.         *)
Assembles(k, segments) ==
    /\ Twgo(k) => /\ segments[1].head # Short
                  /\ \A i \in DOMAIN segments :
                        segments[i].head = segments[1].head
    /\ ValidHeader([segments[1] EXCEPT !.flagged = FALSE, !.seg = None])

WholePayload(a) == IF a.head = Short THEN <<a.tail>> ELSE <<a.head, a.tail>>

\* Mutant: the first segment loses its header like the others.
MutantPieces(k, segments) ==
    [i \in DOMAIN segments |->
        IF Twgo(k) THEN <<segments[i].tail>> ELSE WholePayload(segments[i])]

(* The payload of the result, as the list of what each segment adds to it. *)
Pieces(k, segments) ==
    [i \in DOMAIN segments |->
        IF Twgo(k) /\ i # 1
          THEN <<segments[i].tail>>
          ELSE WholePayload(segments[i])]

Assembled(k, segments) ==
    [key |-> k, stamp |-> segments[1].stamp, payload |-> Pieces(k, segments),
     count |-> Cardinality(DOMAIN segments), strategy |-> Strategy(k)]

----------------------------------------------------------------------------
VARIABLES
    pending,  \* the map from keys to [total, segments]
    status    \* what the last call returned

vars == <<pending, status>>

Files(t) == [total : {t}, segments : [1..t -> Segments \cup {None}]]

Init ==
    /\ pending = [k \in {} |-> None]
    /\ status = [kind |-> "new"]

(* entry(key).or_insert_with(...): a new file has every slot empty.        *)
Entry(k, total) ==
    IF k \in DOMAIN pending
      THEN pending[k]
      ELSE [total |-> total, segments |-> [i \in 1..total |-> None]]

Filled(file) == { i \in DOMAIN file.segments : file.segments[i] # None }

Received(file) == Cardinality(Filled(file))

Complete(file) == Received(file) = file.total

Insert(k, file) ==
    [j \in DOMAIN pending \cup {k} |-> IF j = k THEN file ELSE pending[j]]

\* Mutant: the file is taken out of its entry, and the entry stays.
MutantRemove(k) == [pending EXCEPT ![k] = [total |-> 0, segments |-> << >>]]

Remove(k) == [j \in DOMAIN pending \ {k} |-> pending[j]]

----------------------------------------------------------------------------
(* push(a): the file and the slot the APDU goes to *)

Segmented(a) == ValidHeader(a) /\ a.flagged

FileOf(a) == Entry(KeyOf(a), a.seg.total)

\* Mutant: the length is not compared with that of the pending file.
MutantTotalAgrees(a) == TRUE

TotalAgrees(a) == FileOf(a).total = a.seg.total

\* Mutant: a conflicting retransmission replaces the accepted segment.
MutantFitsSlot(a) == TRUE

(* The slot is free, or holds an identical APDU: the header's times and    *)
(* the whole payload take part in the comparison.                          *)
FitsSlot(a) == FileOf(a).segments[a.seg.number] \in {None, a}

Updated(a) == [FileOf(a) EXCEPT !.segments[a.seg.number] = a]

Duplicate(a) == FileOf(a).segments[a.seg.number] = a

\* Mutant: a duplicate is reported before the file is looked at again.
MutantFinishes(a) == ~ Duplicate(a) /\ Complete(Updated(a))

Finishes(a) == Complete(Updated(a))

----------------------------------------------------------------------------
(* The branches of push *)

RejectHeader(a) ==
    /\ ~ ValidHeader(a)
    /\ status' = [kind |-> "error", cause |-> "header"]
    /\ UNCHANGED pending

PassThrough(a) ==
    /\ ValidHeader(a)
    /\ ~ a.flagged
    /\ status' = [kind |-> "unsegmented", apdu |-> a]
    /\ UNCHANGED pending

RejectTotal(a) ==
    /\ Segmented(a)
    /\ ~ TotalAgrees(a)
    /\ status' = [kind |-> "error", cause |-> "total", key |-> KeyOf(a)]
    /\ UNCHANGED pending

RejectConflict(a) ==
    /\ Segmented(a)
    /\ TotalAgrees(a)
    /\ ~ FitsSlot(a)
    /\ status' = [kind |-> "error", cause |-> "conflict", key |-> KeyOf(a)]
    /\ UNCHANGED pending

Takes(a) == Segmented(a) /\ TotalAgrees(a) /\ FitsSlot(a)

Progress(a) ==
    /\ Takes(a)
    /\ ~ Finishes(a)
    /\ pending' = Insert(KeyOf(a), Updated(a))
    /\ status' = [kind |-> IF Duplicate(a) THEN "duplicate" ELSE "pending",
                  key |-> KeyOf(a), received |-> Received(Updated(a)),
                  total |-> a.seg.total]

CompleteFile(a) ==
    /\ Takes(a)
    /\ Finishes(a)
    /\ Assembles(KeyOf(a), Updated(a).segments)
    /\ pending' = Remove(KeyOf(a))
    /\ status' = [kind |-> "complete", key |-> KeyOf(a),
                  file |-> Assembled(KeyOf(a), Updated(a).segments)]

(* assemble_product_file(...)? returns before the file is removed: the     *)
(* full file stays, and each later identical segment fails again.          *)
FailAssembly(a) ==
    /\ Takes(a)
    /\ Finishes(a)
    /\ ~ Assembles(KeyOf(a), Updated(a).segments)
    /\ pending' = Insert(KeyOf(a), Updated(a))
    /\ status' = [kind |-> "error", cause |-> "assembly", key |-> KeyOf(a)]

Push(a) ==
    \/ RejectHeader(a)
    \/ PassThrough(a)
    \/ RejectTotal(a)
    \/ RejectConflict(a)
    \/ Progress(a)
    \/ CompleteFile(a)
    \/ FailAssembly(a)

----------------------------------------------------------------------------
(* The other operations *)

Discard(k) ==
    /\ pending' = Remove(k)
    /\ status' = [kind |-> "discard", key |-> k, removed |-> k \in DOMAIN pending]

Clear ==
    /\ pending' = [k \in {} |-> None]
    /\ status' = [kind |-> "clear"]

Next ==
    \/ \E a \in Inputs : Push(a)
    \/ \E k \in Keys : Discard(k)
    \/ Clear

Spec == Init /\ [][Next]_vars

----------------------------------------------------------------------------
(* Assumptions on the constants *)

ASSUME TwgoAssumption == TwgoProducts \subseteq Products

ASSUME MaxTotalAssumption == MaxTotal \in Nat \ {0}

ASSUME NoneAssumption == None \notin Segments /\ None \notin Segmentations

(* The type of push's argument: the numeric header fields may be out of    *)
(* range, since they are public, and everything else is typed.             *)
ASSUME InputsAssumption ==
    \A a \in Inputs :
        /\ a.flagged \in BOOLEAN
        /\ (/\ a.product \in Products
            /\ a.stamp \in Stamps
            /\ a.flagged
            /\ a.seg # None
            /\ ValidSegmentation(a.seg)) => a \in Segments

----------------------------------------------------------------------------
(* Properties *)

(* The map holds files keyed by valid keys, each with exactly as many      *)
(* slots as it declares and only validated segments in them (the types of  *)
(* `pending`, which push relies on when it indexes segments[number - 1]).  *)
TypeOK ==
    /\ DOMAIN pending \subseteq Keys
    /\ \A k \in DOMAIN pending :
          \E t \in 1..MaxTotal : pending[k] \in Files(t)

(* Whatever the order of segments, discards and errors, an accepted        *)
(* segment sits in the file of its own key, in the slot of its own number, *)
(* in a file of the length it declares.                                    *)
FiledUnderOwnNumber ==
    \A k \in DOMAIN pending :
        \A i \in Filled(pending[k]) :
            LET a == pending[k].segments[i] IN
              /\ KeyOf(a) = k
              /\ a.seg.number = i
              /\ a.seg.total = pending[k].total

(* A file exists in the map only once it holds a segment (no rejected APDU *)
(* leaves an empty entry behind), and a file with every segment is left in *)
(* the map only when assembling it failed.                                 *)
OnlyUnassemblableFilesAreFull ==
    \A k \in DOMAIN pending :
        /\ Filled(pending[k]) # {}
        /\ Complete(pending[k]) => ~ Assembles(k, pending[k].segments)

(* "A conflicting retransmission is rejected without replacing the         *)
(* previously accepted segment" (uplink.rs:907-909), and no failing push loses *)
(* one either: a segment leaves the map only with its whole file, when the *)
(* file is handed out or the caller asks for it to go.                     *)
AcceptedSegmentsStay ==
    [][\A k \in DOMAIN pending :
         \/ /\ k \in DOMAIN pending'
            /\ \A i \in Filled(pending[k]) :
                  pending'[k].segments[i] = pending[k].segments[i]
         \/ status'.kind \in {"complete", "discard"} /\ status'.key = k
         \/ status'.kind = "clear"]_vars

Wedged(k) == k \in DOMAIN pending /\ Complete(pending[k])

(* A file that failed to assemble answers every later push for its key     *)
(* with an error, as it is, until the caller discards it: it never reports *)
(* progress, a duplicate or a completion again.                            *)
WedgedFilesOnlyFail ==
    [][\A k \in Keys :
         Wedged(k) =>
           /\ ~ (status'.kind \in {"pending", "duplicate", "complete"}
                 /\ status'.key = k)
           /\ \/ k \in DOMAIN pending' /\ pending'[k] = pending[k]
              \/ status'.kind \in {"discard", "clear"}]_vars

----------------------------------------------------------------------------
(* The promise the reassembler implements *)

HeldSegments ==
    UNION { { pending[k].segments[i] : i \in Filled(pending[k]) } :
              k \in DOMAIN pending }

HandedOut == IF status.kind = "complete" THEN status.file.payload ELSE None

NumberOf(a) == a.seg.number

TotalOf(a) == a.seg.total

(* What a segment adds to its file: a TWGO file keeps one copy of the      *)
(* six-byte header, the one in its first segment.                          *)
Contribution(a) ==
    IF a.product \in TwgoProducts /\ a.seg.number > 1
      THEN <<a.tail>>
      ELSE WholePayload(a)

(* TWGO segments fit together when they all have the same six bytes.       *)
Consistent(S) ==
    \A a, b \in S : a.product \in TwgoProducts => /\ a.head = b.head
                                                  /\ a.head # Short

Promise == INSTANCE ProductFiles WITH
               Segments <- { a \in Inputs : Segmented(a) },
               held <- HeldSegments, product <- HandedOut, Nothing <- None

(* Keeping slots, counting and looking a file up by its key implement the  *)
(* promise: whatever the order of arrival, a file is handed out exactly    *)
(* when a push makes the held segments whole and consistent, with each     *)
(* segment's contribution in its place.                                    *)
KeepsThePromise == Promise!Spec
================================================================================
