------------------------- MODULE ApduReassembler_proofs ------------------------
(***************************************************************************)
(* Safety of the reassembler, for every set of products, file ids, file    *)
(* lengths, payloads and pushed APDUs.                                     *)
(***************************************************************************)
EXTENDS ApduReassembler, FiniteSetTheorems, TLAPS

(* The keys a validated segment names.                                     *)
LEMMA KeyOfSegment ==
    ASSUME NEW a \in Segments
    PROVE  KeyOf(a) \in Keys
  BY DEF KeyOf, Keys, Segments, Segmentations

LEMMA SegmentedIsSegment ==
    ASSUME NEW a \in Inputs, Segmented(a)
    PROVE  /\ a \in Segments
           /\ a # None
           /\ a.seg.total \in 1..MaxTotal
           /\ a.seg.number \in 1..a.seg.total
  <1>1. a \in Segments
    BY InputsAssumption DEF Segmented, ValidHeader
  <1>2. a # None
    BY <1>1, NoneAssumption
  <1>3. a.seg.total \in 1..MaxTotal /\ a.seg.number \in 1..a.seg.total
    BY <1>1, MaxTotalAssumption DEF Segments, Segmentations
  <1> QED
    BY <1>1, <1>2, <1>3

----------------------------------------------------------------------------
(* The inductive invariant, file by file *)

FileInv(k, f) ==
    /\ \E t \in 1..MaxTotal : f \in Files(t)
    /\ \A i \in Filled(f) : /\ KeyOf(f.segments[i]) = k
                            /\ f.segments[i].seg.number = i
                            /\ f.segments[i].seg.total = f.total
    /\ Filled(f) # {}
    /\ Complete(f) => ~ Assembles(k, f.segments)

IInv ==
    /\ DOMAIN pending \subseteq Keys
    /\ \A k \in DOMAIN pending : FileInv(k, pending[k])

(* The invariant implies the three state properties of the component.      *)
LEMMA IInvImplies ==
    ASSUME IInv
    PROVE  TypeOK /\ FiledUnderOwnNumber /\ OnlyUnassemblableFilesAreFull
  <1>1. TypeOK
    BY DEF IInv, FileInv, TypeOK
  <1>2. FiledUnderOwnNumber
    BY DEF IInv, FileInv, FiledUnderOwnNumber
  <1>3. OnlyUnassemblableFilesAreFull
    BY DEF IInv, FileInv, OnlyUnassemblableFilesAreFull
  <1> QED
    BY <1>1, <1>2, <1>3

LEMMA InsertKeeps ==
    ASSUME IInv, NEW k \in Keys, NEW f, FileInv(k, f),
           pending' = Insert(k, f)
    PROVE  IInv'
  <1>1. DOMAIN pending' = DOMAIN pending \cup {k}
    BY DEF Insert
  <1>2. ASSUME NEW j \in DOMAIN pending'
        PROVE  FileInv(j, pending'[j])
    <2>1. pending'[j] = IF j = k THEN f ELSE pending[j]
      BY <1>1 DEF Insert
    <2>2. CASE j = k
      BY <2>1, <2>2
    <2>3. CASE j # k
      BY <1>1, <2>1, <2>3 DEF IInv
    <2> QED
      BY <2>2, <2>3
  <1> QED
    BY <1>1, <1>2 DEF IInv

LEMMA RemoveKeeps ==
    ASSUME IInv, NEW k, pending' = Remove(k)
    PROVE  IInv'
  <1>1. /\ DOMAIN pending' \subseteq DOMAIN pending
        /\ \A j \in DOMAIN pending' : pending'[j] = pending[j]
    BY DEF Remove
  <1>2. \A j \in DOMAIN pending' : FileInv(j, pending'[j])
    BY <1>1 DEF IInv
  <1> QED
    BY <1>1, <1>2 DEF IInv

----------------------------------------------------------------------------
(* The file a segment goes to *)

(* A file that push takes a segment into has the declared length, and is   *)
(* either new and empty or the pending one.                                *)
LEMMA FileOfFacts ==
    ASSUME IInv, NEW a \in Inputs, Takes(a)
    PROVE  /\ FileOf(a) \in Files(a.seg.total)
           /\ \A i \in Filled(FileOf(a)) :
                 /\ KeyOf(a) \in DOMAIN pending
                 /\ KeyOf(FileOf(a).segments[i]) = KeyOf(a)
                 /\ FileOf(a).segments[i].seg.number = i
                 /\ FileOf(a).segments[i].seg.total = a.seg.total
  <1> DEFINE k == KeyOf(a)
  <1>1. /\ a \in Segments
        /\ a.seg.total \in 1..MaxTotal
        /\ FileOf(a).total = a.seg.total
    BY SegmentedIsSegment DEF Takes, TotalAgrees
  <1>2. CASE k \in DOMAIN pending
    <2>1. FileOf(a) = pending[k]
      BY <1>2 DEF FileOf, Entry
    <2>2. FileInv(k, pending[k])
      BY <1>2 DEF IInv
    <2>3. FileOf(a) \in Files(a.seg.total)
      BY <1>1, <2>1, <2>2 DEF FileInv, Files
    <2>4. \A i \in Filled(FileOf(a)) :
             /\ KeyOf(FileOf(a).segments[i]) = k
             /\ FileOf(a).segments[i].seg.number = i
             /\ FileOf(a).segments[i].seg.total = a.seg.total
      BY <1>1, <2>1, <2>2 DEF FileInv
    <2> QED
      BY <1>2, <2>3, <2>4
  <1>3. CASE k \notin DOMAIN pending
    <2>1. FileOf(a) = [total |-> a.seg.total,
                       segments |-> [i \in 1..a.seg.total |-> None]]
      BY <1>3 DEF FileOf, Entry
    <2>2. FileOf(a) \in Files(a.seg.total)
      BY <2>1 DEF Files
    <2>3. Filled(FileOf(a)) = {}
      BY <2>1 DEF Filled
    <2> QED
      BY <2>2, <2>3
  <1> QED
    BY <1>2, <1>3

(* Once the segment is in its slot the file satisfies every part of the    *)
(* invariant but the last, which depends on the branch taken.              *)
LEMMA UpdatedFacts ==
    ASSUME IInv, NEW a \in Inputs, Takes(a)
    PROVE  /\ Updated(a) \in Files(a.seg.total)
           /\ Updated(a).total = a.seg.total
           /\ Updated(a).segments
                = [FileOf(a).segments EXCEPT ![a.seg.number] = a]
           /\ Filled(Updated(a)) = Filled(FileOf(a)) \cup {a.seg.number}
           /\ \A i \in Filled(Updated(a)) :
                 /\ KeyOf(Updated(a).segments[i]) = KeyOf(a)
                 /\ Updated(a).segments[i].seg.number = i
                 /\ Updated(a).segments[i].seg.total = a.seg.total
  <1> DEFINE f == FileOf(a)
             n == a.seg.number
             t == a.seg.total
             g == [f.segments EXCEPT ![n] = a]
  <1>1. /\ a \in Segments
        /\ a # None
        /\ t \in 1..MaxTotal
        /\ n \in 1..t
    BY SegmentedIsSegment DEF Takes
  <1>2. f \in Files(t)
    BY FileOfFacts
  <1>3. f = [total |-> t, segments |-> f.segments]
        /\ f.segments \in [1..t -> Segments \cup {None}]
    BY <1>2 DEF Files
  <1>4. Updated(a) = [total |-> t, segments |-> g]
    BY <1>3 DEF Updated
  <1>5. g \in [1..t -> Segments \cup {None}]
    BY <1>1, <1>3
  <1>6. Updated(a) \in Files(t)
    BY <1>4, <1>5 DEF Files
  <1>7. /\ Updated(a).total = t
        /\ Updated(a).segments = g
    BY <1>4
  <1>8. \A i \in 1..t : g[i] = IF i = n THEN a ELSE f.segments[i]
    BY <1>3
  <1>9. Filled(Updated(a)) = Filled(f) \cup {n}
    BY <1>1, <1>3, <1>5, <1>7, <1>8 DEF Filled
  <1>10. ASSUME NEW i \in Filled(Updated(a))
         PROVE  /\ KeyOf(g[i]) = KeyOf(a)
                /\ g[i].seg.number = i
                /\ g[i].seg.total = t
    <2>1. CASE i = n
      BY <1>1, <1>8, <2>1
    <2>2. CASE i # n
      <3>1. i \in Filled(f) /\ i \in 1..t
        BY <1>3, <1>9, <1>10, <2>2 DEF Filled
      <3> QED
        BY <1>8, <2>2, <3>1, FileOfFacts
    <2> QED
      BY <2>1, <2>2
  <1> QED
    BY <1>6, <1>7, <1>9, <1>10

----------------------------------------------------------------------------
(* Safety *)

LEMMA StoreKeeps ==
    ASSUME IInv, NEW a \in Inputs, Takes(a),
           pending' = Insert(KeyOf(a), Updated(a)),
           Finishes(a) => ~ Assembles(KeyOf(a), Updated(a).segments)
    PROVE  IInv'
  <1>1. KeyOf(a) \in Keys
    BY SegmentedIsSegment, KeyOfSegment DEF Takes
  <1>2. a.seg.total \in 1..MaxTotal
    BY SegmentedIsSegment DEF Takes
  <1>3. FileInv(KeyOf(a), Updated(a))
    BY <1>2, UpdatedFacts DEF FileInv, Finishes
  <1> QED
    BY <1>1, <1>3, InsertKeeps

LEMMA PushKeeps ==
    ASSUME IInv, NEW a \in Inputs, Push(a)
    PROVE  IInv'
  <1>1. CASE RejectHeader(a)
    BY <1>1 DEF RejectHeader, IInv
  <1>2. CASE PassThrough(a)
    BY <1>2 DEF PassThrough, IInv
  <1>3. CASE RejectTotal(a)
    BY <1>3 DEF RejectTotal, IInv
  <1>4. CASE RejectConflict(a)
    BY <1>4 DEF RejectConflict, IInv
  <1>5. CASE Progress(a)
    BY <1>5, StoreKeeps DEF Progress
  <1>6. CASE CompleteFile(a)
    BY <1>6, RemoveKeeps DEF CompleteFile
  <1>7. CASE FailAssembly(a)
    BY <1>7, StoreKeeps DEF FailAssembly
  <1> QED
    BY <1>1, <1>2, <1>3, <1>4, <1>5, <1>6, <1>7 DEF Push

LEMMA StepKeeps ==
    ASSUME IInv, [Next]_vars
    PROVE  IInv'
  <1>1. ASSUME NEW a \in Inputs, Push(a)
        PROVE  IInv'
    BY <1>1, PushKeeps
  <1>2. ASSUME NEW k \in Keys, Discard(k)
        PROVE  IInv'
    BY <1>2, RemoveKeeps DEF Discard
  <1>3. CASE Clear
    BY <1>3 DEF Clear, IInv
  <1>4. CASE UNCHANGED vars
    BY <1>4 DEF vars, IInv
  <1> QED
    BY <1>1, <1>2, <1>3, <1>4 DEF Next

(* The strengthened invariant holds in every reachable state.              *)
THEOREM Invariance == Spec => []IInv
  <1>1. Init => IInv
    BY DEF Init, IInv
  <1>2. IInv /\ [Next]_vars => IInv'
    BY StepKeeps
  <1> QED
    BY <1>1, <1>2, PTL DEF Spec

(* The map always holds well-formed files under valid keys, so every slot  *)
(* push indexes exists.                                                    *)
THEOREM TypeCorrect == Spec => []TypeOK
  BY Invariance, IInvImplies, PTL

(* Every accepted segment sits under its own key and number, in a file of  *)
(* the length it declares.                                                 *)
THEOREM SegmentsAreFiled == Spec => []FiledUnderOwnNumber
  BY Invariance, IInvImplies, PTL

(* No entry is empty, and a full file stays only if it cannot be assembled. *)
THEOREM FullFilesFailed == Spec => []OnlyUnassemblableFilesAreFull
  BY Invariance, IInvImplies, PTL

----------------------------------------------------------------------------
(* What a step may never do *)

SegmentStays(k) ==
    \/ /\ k \in DOMAIN pending'
       /\ \A i \in Filled(pending[k]) :
             pending'[k].segments[i] = pending[k].segments[i]
    \/ status'.kind \in {"complete", "discard"} /\ status'.key = k
    \/ status'.kind = "clear"

(* Storing a segment changes no other file and no filled slot of its own.  *)
LEMMA StoreIsConservative ==
    ASSUME IInv, NEW a \in Inputs, Takes(a),
           pending' = Insert(KeyOf(a), Updated(a)),
           NEW k \in DOMAIN pending
    PROVE  SegmentStays(k)
  <1>1. k \in DOMAIN pending'
    BY DEF Insert
  <1>2. CASE k # KeyOf(a)
    <2>1. pending'[k] = pending[k]
      BY <1>2 DEF Insert
    <2> QED
      BY <1>1, <2>1 DEF SegmentStays
  <1>3. CASE k = KeyOf(a)
    <2>1. pending'[k] = Updated(a) /\ FileOf(a) = pending[k]
      BY <1>3 DEF Insert, FileOf, Entry
    <2>2. ASSUME NEW i \in Filled(pending[k])
          PROVE  Updated(a).segments[i] = pending[k].segments[i]
      <3>1. i \in DOMAIN FileOf(a).segments /\ FileOf(a).segments[i] # None
        BY <2>1, <2>2 DEF Filled
      <3>2. Updated(a).segments[i]
              = IF i = a.seg.number THEN a ELSE FileOf(a).segments[i]
        BY <3>1, UpdatedFacts
      <3>3. i = a.seg.number => FileOf(a).segments[i] = a
        BY <3>1 DEF Takes, FitsSlot
      <3> QED
        BY <2>1, <3>2, <3>3
    <2> QED
      BY <1>1, <2>1, <2>2 DEF SegmentStays
  <1> QED
    BY <1>2, <1>3

LEMMA RemovingIsReported ==
    ASSUME NEW j, pending' = Remove(j), NEW k \in DOMAIN pending, k # j
    PROVE  SegmentStays(k)
  BY DEF Remove, SegmentStays

LEMMA StepIsConservative ==
    ASSUME IInv, [Next]_vars, NEW k \in DOMAIN pending
    PROVE  SegmentStays(k)
  <1>1. ASSUME UNCHANGED pending
        PROVE  SegmentStays(k)
    BY <1>1 DEF SegmentStays
  <1>2. ASSUME NEW a \in Inputs, Push(a)
        PROVE  SegmentStays(k)
    <2>1. CASE RejectHeader(a) \/ PassThrough(a)
      BY <1>1, <2>1 DEF RejectHeader, PassThrough
    <2>2. CASE RejectTotal(a) \/ RejectConflict(a)
      BY <1>1, <2>2 DEF RejectTotal, RejectConflict
    <2>3. CASE Progress(a) \/ FailAssembly(a)
      BY <2>3, StoreIsConservative DEF Progress, FailAssembly
    <2>4. CASE CompleteFile(a)
      <3>1. k = KeyOf(a) => SegmentStays(k)
        BY <2>4 DEF CompleteFile, SegmentStays
      <3> QED
        BY <2>4, <3>1, RemovingIsReported DEF CompleteFile
    <2> QED
      BY <1>2, <2>1, <2>2, <2>3, <2>4 DEF Push
  <1>3. ASSUME NEW j \in Keys, Discard(j)
        PROVE  SegmentStays(k)
    <2>1. k = j => SegmentStays(k)
      BY <1>3 DEF Discard, SegmentStays
    <2> QED
      BY <1>3, <2>1, RemovingIsReported DEF Discard
  <1>4. CASE Clear
    BY <1>4 DEF Clear, SegmentStays
  <1>5. CASE UNCHANGED vars
    BY <1>1, <1>5 DEF vars
  <1> QED
    BY <1>2, <1>3, <1>4, <1>5 DEF Next

(* No push ever replaces an accepted segment, and a segment leaves the map *)
(* only with its whole file, handed out, discarded or cleared.             *)
THEOREM SegmentsStay == Spec => AcceptedSegmentsStay
  <1>1. IInv /\ [Next]_vars => [\A k \in DOMAIN pending : SegmentStays(k)]_vars
    BY StepIsConservative
  <1>2. [\A k \in DOMAIN pending : SegmentStays(k)]_vars
          <=> [\A k \in DOMAIN pending :
                 \/ /\ k \in DOMAIN pending'
                    /\ \A i \in Filled(pending[k]) :
                          pending'[k].segments[i] = pending[k].segments[i]
                 \/ status'.kind \in {"complete", "discard"} /\ status'.key = k
                 \/ status'.kind = "clear"]_vars
    BY DEF SegmentStays
  <1> QED
    BY <1>1, <1>2, Invariance, PTL DEF Spec, AcceptedSegmentsStay

----------------------------------------------------------------------------
(* Files that cannot be assembled *)

(* Counting is exact: a file counts as complete just when no slot is free. *)
LEMMA CompleteMeansFilled ==
    ASSUME NEW t \in 1..MaxTotal, NEW f \in Files(t)
    PROVE  Complete(f) <=> Filled(f) = 1..t
  <1>1. /\ f.total = t
        /\ DOMAIN f.segments = 1..t
    BY DEF Files
  <1>2. t \in Nat /\ t > 0
    BY MaxTotalAssumption
  <1>3. /\ IsFiniteSet(1..t)
        /\ Cardinality(1..t) = t
    BY <1>2, FS_Interval
  <1>4. Filled(f) \in SUBSET (1..t)
    BY <1>1 DEF Filled
  <1>5. Cardinality(1..t) = Cardinality(Filled(f)) => 1..t = Filled(f)
    BY <1>3, <1>4, FS_Subset
  <1> QED
    BY <1>1, <1>3, <1>5 DEF Complete, Received

(* A segment that push takes into a wedged file is one the file holds, and *)
(* leaves the file as it is.                                               *)
LEMMA WedgedTakesDuplicates ==
    ASSUME IInv, NEW a \in Inputs, Takes(a), Wedged(KeyOf(a))
    PROVE  /\ Updated(a) = pending[KeyOf(a)]
           /\ Finishes(a)
           /\ ~ Assembles(KeyOf(a), Updated(a).segments)
  <1> DEFINE k == KeyOf(a)
             f == pending[k]
             n == a.seg.number
             t == a.seg.total
  <1>1. /\ a # None
        /\ t \in 1..MaxTotal
        /\ n \in 1..t
    BY SegmentedIsSegment DEF Takes
  <1>2. FileOf(a) = f
    BY DEF Wedged, FileOf, Entry
  <1>3. f \in Files(t)
    BY <1>2, FileOfFacts
  <1>4. Filled(f) = 1..t
    BY <1>1, <1>3, CompleteMeansFilled DEF Wedged
  <1>5. f.segments[n] = a
    BY <1>1, <1>2, <1>4 DEF Takes, FitsSlot, Filled
  <1>6. f = [total |-> t, segments |-> f.segments]
        /\ f.segments \in [1..t -> Segments \cup {None}]
    BY <1>3 DEF Files
  <1>7. [f.segments EXCEPT ![n] = a] = f.segments
    BY <1>5, <1>6
  <1>8. Updated(a) = [total |-> t, segments |-> [f.segments EXCEPT ![n] = a]]
    BY <1>2, <1>6 DEF Updated
  <1>9. Updated(a) = f
    BY <1>6, <1>7, <1>8
  <1>10. Finishes(a)
    BY <1>9 DEF Finishes, Wedged
  <1>11. ~ Assembles(k, f.segments)
    BY DEF IInv, FileInv, Wedged
  <1> QED
    BY <1>9, <1>10, <1>11

OnlyFails(k) ==
    /\ ~ (status'.kind \in {"pending", "duplicate", "complete"}
          /\ status'.key = k)
    /\ \/ k \in DOMAIN pending' /\ pending'[k] = pending[k]
       \/ status'.kind \in {"discard", "clear"}

LEMMA WedgedPush ==
    ASSUME IInv, NEW k \in Keys, Wedged(k), NEW a \in Inputs, Push(a)
    PROVE  OnlyFails(k)
  <1> k \in DOMAIN pending
    BY DEF Wedged
  <1>1. CASE RejectHeader(a)
    BY <1>1 DEF RejectHeader, OnlyFails
  <1>2. CASE PassThrough(a)
    BY <1>2 DEF PassThrough, OnlyFails
  <1>3. CASE RejectTotal(a)
    BY <1>3 DEF RejectTotal, OnlyFails
  <1>4. CASE RejectConflict(a)
    BY <1>4 DEF RejectConflict, OnlyFails
  <1>5. CASE Progress(a)
    <2>1. KeyOf(a) # k
      BY <1>5, WedgedTakesDuplicates DEF Progress
    <2>2. status'.key = KeyOf(a) /\ pending' = Insert(KeyOf(a), Updated(a))
      BY <1>5 DEF Progress
    <2>3. k \in DOMAIN pending' /\ pending'[k] = pending[k]
      BY <2>1, <2>2 DEF Insert
    <2> QED
      BY <2>1, <2>2, <2>3 DEF OnlyFails
  <1>6. CASE CompleteFile(a)
    <2>1. KeyOf(a) # k
      BY <1>6, WedgedTakesDuplicates DEF CompleteFile
    <2>2. status'.key = KeyOf(a) /\ pending' = Remove(KeyOf(a))
      BY <1>6 DEF CompleteFile
    <2>3. k \in DOMAIN pending' /\ pending'[k] = pending[k]
      BY <2>1, <2>2 DEF Remove
    <2> QED
      BY <2>1, <2>2, <2>3 DEF OnlyFails
  <1>7. CASE FailAssembly(a)
    <2>1. /\ status'.kind = "error"
          /\ pending' = Insert(KeyOf(a), Updated(a))
          /\ Takes(a)
      BY <1>7 DEF FailAssembly
    <2>2. KeyOf(a) = k => Updated(a) = pending[k]
      BY <2>1, WedgedTakesDuplicates
    <2>3. k \in DOMAIN pending' /\ pending'[k] = pending[k]
      BY <2>1, <2>2 DEF Insert
    <2> QED
      BY <2>1, <2>3 DEF OnlyFails
  <1> QED
    BY <1>1, <1>2, <1>3, <1>4, <1>5, <1>6, <1>7 DEF Push

LEMMA WedgedStep ==
    ASSUME IInv, NEW k \in Keys, Wedged(k), Next
    PROVE  OnlyFails(k)
  <1>1. ASSUME NEW a \in Inputs, Push(a)
        PROVE  OnlyFails(k)
    BY <1>1, WedgedPush
  <1>2. ASSUME NEW j \in Keys, Discard(j)
        PROVE  OnlyFails(k)
    BY <1>2 DEF Discard, OnlyFails
  <1>3. CASE Clear
    BY <1>3 DEF Clear, OnlyFails
  <1> QED
    BY <1>1, <1>2, <1>3 DEF Next

(* A file that failed to assemble stays as it is and only ever answers     *)
(* with an error, until the caller discards it or clears the reassembler.  *)
THEOREM WedgedFilesFail == Spec => WedgedFilesOnlyFail
  <1>1. IInv /\ [Next]_vars
          => [\A k \in Keys : Wedged(k) => OnlyFails(k)]_vars
    BY WedgedStep
  <1>2. [\A k \in Keys : Wedged(k) => OnlyFails(k)]_vars
          <=> [\A k \in Keys :
                 Wedged(k) =>
                   /\ ~ (status'.kind \in {"pending", "duplicate", "complete"}
                         /\ status'.key = k)
                   /\ \/ k \in DOMAIN pending' /\ pending'[k] = pending[k]
                      \/ status'.kind \in {"discard", "clear"}]_vars
    BY DEF OnlyFails
  <1> QED
    BY <1>1, <1>2, Invariance, PTL DEF Spec, WedgedFilesOnlyFail

----------------------------------------------------------------------------
(* The refinement: the reassembler implements the promise of ProductFiles. *)
(* Every step of the slot map is a step of the held set, or leaves it as   *)
(* it is.                                                                  *)


(* The segments in the slots of a file.                                    *)
SlotsOf(f) == { f.segments[i] : i \in Filled(f) }

(* The held segments of one file are those in its slots.                   *)
LEMMA HeldOfFile ==
    ASSUME IInv, NEW k
    PROVE  Promise!OfFile(k)
             = IF k \in DOMAIN pending THEN SlotsOf(pending[k]) ELSE {}
  <1>1. \A j \in DOMAIN pending : \A s \in SlotsOf(pending[j]) : KeyOf(s) = j
    BY DEF IInv, FileInv, SlotsOf
  <1>2. HeldSegments = UNION { SlotsOf(pending[j]) : j \in DOMAIN pending }
    BY DEF HeldSegments, SlotsOf
  <1>3. \A s : s \in HeldSegments
                 <=> \E j \in DOMAIN pending : s \in SlotsOf(pending[j])
    BY <1>2
  <1>4. \A s : s \in Promise!OfFile(k) <=> s \in HeldSegments /\ KeyOf(s) = k
    BY DEF Promise!OfFile
  <1>5. CASE k \in DOMAIN pending
    <2>1. \A s : s \in Promise!OfFile(k) <=> s \in SlotsOf(pending[k])
      BY <1>1, <1>3, <1>4, <1>5
    <2> QED
      BY <1>5, <2>1
  <1>6. CASE k \notin DOMAIN pending
    <2>1. \A s : s \notin Promise!OfFile(k)
      BY <1>1, <1>3, <1>4, <1>6
    <2> QED
      BY <1>6, <2>1
  <1> QED
    BY <1>5, <1>6

(* Storing a segment in its slot adds it to its file, and nothing else.    *)
LEMMA SlotsOfUpdated ==
    ASSUME IInv, NEW a \in Inputs, Takes(a)
    PROVE  /\ SlotsOf(Updated(a)) = SlotsOf(FileOf(a)) \cup {a}
           /\ SlotsOf(Updated(a)) = Promise!With(a)
           /\ \A s \in SlotsOf(Updated(a)) : KeyOf(s) = KeyOf(a)
  <1> DEFINE f == FileOf(a)
             n == a.seg.number
             t == a.seg.total
  <1>1. a # None /\ n \in 1..t
    BY SegmentedIsSegment DEF Takes
  <1>2. DOMAIN f.segments = 1..t
    BY FileOfFacts DEF Files
  <1>3. \A i \in 1..t :
           Updated(a).segments[i] = IF i = n THEN a ELSE f.segments[i]
    BY <1>2, UpdatedFacts
  <1>4. Filled(f) \subseteq 1..t
    BY <1>2 DEF Filled
  <1>5. Filled(Updated(a)) = Filled(f) \cup {n}
    BY UpdatedFacts
  <1>6. n \in Filled(f) => f.segments[n] = a
    BY DEF Takes, FitsSlot, Filled
  <1>7. ASSUME NEW s \in SlotsOf(Updated(a))
        PROVE  s \in SlotsOf(f) \cup {a}
    BY <1>1, <1>3, <1>4, <1>5, <1>7 DEF SlotsOf
  <1>8. ASSUME NEW s \in SlotsOf(f) \cup {a}
        PROVE  s \in SlotsOf(Updated(a))
    <2>1. CASE s = a
      BY <1>1, <1>3, <1>5, <2>1 DEF SlotsOf
    <2>2. CASE s \in SlotsOf(f)
      <3>1. PICK i \in Filled(f) : s = f.segments[i]
        BY <2>2 DEF SlotsOf
      <3>2. Updated(a).segments[i] = s
        BY <1>3, <1>4, <1>6, <3>1
      <3> QED
        BY <1>5, <3>2 DEF SlotsOf
    <2> QED
      BY <1>8, <2>1, <2>2
  <1>9. SlotsOf(Updated(a)) = SlotsOf(f) \cup {a}
    BY <1>7, <1>8
  <1>10. SlotsOf(f) = Promise!OfFile(KeyOf(a))
    <2>1. CASE KeyOf(a) \in DOMAIN pending
      BY <2>1, HeldOfFile DEF FileOf, Entry
    <2>2. CASE KeyOf(a) \notin DOMAIN pending
      <3>1. SlotsOf(f) = {}
        BY <2>2, FileOfFacts DEF SlotsOf
      <3> QED
        BY <2>2, <3>1, HeldOfFile
    <2> QED
      BY <2>1, <2>2
  <1>11. \A i \in Filled(Updated(a)) : KeyOf(Updated(a).segments[i]) = KeyOf(a)
    BY UpdatedFacts
  <1>12. \A s \in SlotsOf(Updated(a)) : KeyOf(s) = KeyOf(a)
    BY <1>11 DEF SlotsOf
  <1> QED
    BY <1>9, <1>10, <1>12 DEF Promise!With

(* A segment that push takes contradicts none that is held.                *)
LEMMA TakesIsCompatible ==
    ASSUME IInv, NEW a \in Inputs, Takes(a)
    PROVE  Promise!Compatible(a)
  <1>1. ASSUME NEW s \in Promise!OfFile(KeyOf(a))
        PROVE  /\ TotalOf(s) = TotalOf(a)
               /\ NumberOf(s) = NumberOf(a) => s = a
    <2>1. s \in SlotsOf(Updated(a))
      BY <1>1, SlotsOfUpdated DEF Promise!With
    <2>2. PICK i \in Filled(Updated(a)) : s = Updated(a).segments[i]
      BY <2>1 DEF SlotsOf
    <2>3. s.seg.number = i /\ s.seg.total = a.seg.total
      BY <2>2, UpdatedFacts
    <2>4. /\ a.seg.number \in DOMAIN FileOf(a).segments
          /\ Updated(a).segments = [FileOf(a).segments EXCEPT ![a.seg.number] = a]
      BY SegmentedIsSegment, FileOfFacts, UpdatedFacts DEF Takes, Files
    <2>5. i = a.seg.number => s = a
      BY <2>2, <2>4
    <2> QED
      BY <2>3, <2>5 DEF TotalOf, NumberOf
  <1> QED
    BY <1>1 DEF Promise!Compatible

(* Counting slots tells whether the held segments make the file whole.     *)
LEMMA FinishesIsWhole ==
    ASSUME IInv, NEW a \in Inputs, Takes(a)
    PROVE  Finishes(a) <=> Promise!WholeWith(a)
  <1> DEFINE g == Updated(a)
             t == a.seg.total
  <1>1. t \in 1..MaxTotal /\ g \in Files(t)
    BY SegmentedIsSegment, UpdatedFacts DEF Takes
  <1>2. Finishes(a) <=> Filled(g) = 1..t
    BY <1>1, CompleteMeansFilled DEF Finishes
  <1>3. \A i \in Filled(g) : NumberOf(g.segments[i]) = i
    BY UpdatedFacts DEF NumberOf
  <1>4. { NumberOf(s) : s \in SlotsOf(g) } = Filled(g)
    <2>1. \A i : i \in { NumberOf(s) : s \in SlotsOf(g) } => i \in Filled(g)
      BY <1>3 DEF SlotsOf
    <2>2. \A i \in Filled(g) : i \in { NumberOf(s) : s \in SlotsOf(g) }
      BY <1>3 DEF SlotsOf
    <2> QED
      BY <2>1, <2>2
  <1>5. Promise!WholeWith(a) <=> Filled(g) = 1..t
    BY <1>4, SlotsOfUpdated DEF Promise!WholeWith, Promise!Places, TotalOf
  <1> QED
    BY <1>2, <1>5

(* The slots of a finished file: one segment of the file in each place.    *)
LEMMA FinishedSlots ==
    ASSUME IInv, NEW a \in Inputs, Takes(a), Finishes(a)
    PROVE  LET g == Updated(a)
           IN  /\ Filled(g) = 1..a.seg.total
               /\ DOMAIN g.segments = 1..a.seg.total
               /\ 1 \in 1..a.seg.total
               /\ SlotsOf(g) = { g.segments[i] : i \in 1..a.seg.total }
               /\ \A i \in 1..a.seg.total :
                     /\ g.segments[i] \in Segments
                     /\ g.segments[i].seg.number = i
                     /\ g.segments[i].product = KeyOf(a).product
  <1> DEFINE g == Updated(a)
             t == a.seg.total
  <1>1. t \in 1..MaxTotal /\ g \in Files(t)
    BY SegmentedIsSegment, UpdatedFacts DEF Takes
  <1>2. Filled(g) = 1..t
    BY <1>1, CompleteMeansFilled DEF Finishes
  <1>3. DOMAIN g.segments = 1..t /\ 1 \in 1..t
    BY <1>1, MaxTotalAssumption DEF Files
  <1>4. \A i \in 1..t : g.segments[i] \in Segments
    BY <1>1, <1>2 DEF Files, Filled
  <1>5. \A i \in 1..t : /\ g.segments[i].seg.number = i
                        /\ KeyOf(g.segments[i]) = KeyOf(a)
    BY <1>2, UpdatedFacts
  <1>6. \A i \in 1..t : g.segments[i].product = KeyOf(a).product
    BY <1>5 DEF KeyOf
  <1> QED
    BY <1>2, <1>3, <1>4, <1>5, <1>6 DEF SlotsOf

(* Comparing every head with the first one is comparing them all.          *)
LEMMA AssemblesIsConsistent ==
    ASSUME IInv, NEW a \in Inputs, Takes(a), Finishes(a)
    PROVE  Assembles(KeyOf(a), Updated(a).segments)
             <=> Consistent(Promise!With(a))
  <1> DEFINE g == Updated(a).segments
             t == a.seg.total
             k == KeyOf(a)
  <1>1. /\ DOMAIN g = 1..t
        /\ 1 \in 1..t
        /\ \A i \in 1..t : g[i] \in Segments /\ g[i].product = k.product
    BY FinishedSlots
  <1>2. Promise!With(a) = { g[i] : i \in 1..t }
    BY FinishedSlots, SlotsOfUpdated
  <1>3. ValidHeader([g[1] EXCEPT !.flagged = FALSE, !.seg = None])
    BY <1>1 DEF ValidHeader, Segments
  <1>4. Assembles(k, g)
          <=> (Twgo(k) => \A i \in 1..t : /\ g[1].head # Short
                                          /\ g[i].head = g[1].head)
    BY <1>1, <1>3 DEF Assembles
  <1>5. Consistent(Promise!With(a))
          <=> \A i, j \in 1..t :
                 Twgo(k) => /\ g[i].head = g[j].head
                            /\ g[i].head # Short
    BY <1>1, <1>2 DEF Consistent, Twgo
  <1> QED
    BY <1>1, <1>4, <1>5

(* The payload of the result is what the segments contribute, in order.    *)
LEMMA PiecesArePayload ==
    ASSUME IInv, NEW a \in Inputs, Takes(a), Finishes(a)
    PROVE  Pieces(KeyOf(a), Updated(a).segments)
             = Promise!Payload(Promise!With(a))
  <1> DEFINE g == Updated(a).segments
             t == a.seg.total
             S == Promise!With(a)
  <1>1. /\ DOMAIN g = 1..t
        /\ \A i \in 1..t : /\ g[i].seg.number = i
                           /\ g[i].product = KeyOf(a).product
    BY FinishedSlots
  <1>2. S = { g[i] : i \in 1..t }
    BY FinishedSlots, SlotsOfUpdated
  <1>3. Promise!Places(S) = 1..t
    BY FinishesIsWhole DEF Promise!WholeWith, TotalOf
  <1>4. ASSUME NEW i \in 1..t
        PROVE  Promise!InPlace(S, i) = g[i]
    <2>1. g[i] \in S /\ NumberOf(g[i]) = i
      BY <1>1, <1>2 DEF NumberOf
    <2>2. \A s \in S : NumberOf(s) = i => s = g[i]
      BY <1>1, <1>2 DEF NumberOf
    <2> QED
      BY <2>1, <2>2 DEF Promise!InPlace
  <1>5. \A i \in 1..t : Contribution(g[i])
                          = IF Twgo(KeyOf(a)) /\ i # 1
                              THEN <<g[i].tail>>
                              ELSE WholePayload(g[i])
    BY <1>1 DEF Contribution, Twgo
  <1>6. Promise!Payload(S) = [i \in 1..t |-> Contribution(g[i])]
    BY <1>3, <1>4 DEF Promise!Payload
  <1>7. Pieces(KeyOf(a), g) = [i \in 1..t |-> Contribution(g[i])]
    BY <1>1, <1>5 DEF Pieces
  <1> QED
    BY <1>6, <1>7

----------------------------------------------------------------------------
(* How the held set changes *)

LEMMA HeldBySlots ==
    /\ HeldSegments = UNION { SlotsOf(pending[j]) : j \in DOMAIN pending }
    /\ HeldSegments' = UNION { SlotsOf(pending'[j]) : j \in DOMAIN pending' }
  BY DEF HeldSegments, SlotsOf, Filled

LEMMA StoreAdds ==
    ASSUME IInv, NEW a \in Inputs, Takes(a),
           pending' = Insert(KeyOf(a), Updated(a))
    PROVE  HeldSegments' = HeldSegments \cup {a}
  <1> DEFINE k == KeyOf(a)
  <1>1. /\ DOMAIN pending' = DOMAIN pending \cup {k}
        /\ pending'[k] = Updated(a)
        /\ \A j \in DOMAIN pending : j # k => pending'[j] = pending[j]
    BY DEF Insert
  <1>2. SlotsOf(Updated(a)) = SlotsOf(FileOf(a)) \cup {a}
    BY SlotsOfUpdated
  <1>3. CASE k \in DOMAIN pending
    <2>1. FileOf(a) = pending[k]
      BY <1>3 DEF FileOf, Entry
    <2>2. \A s : s \in HeldSegments' <=> s \in HeldSegments \/ s = a
      BY <1>1, <1>2, <1>3, <2>1, HeldBySlots
    <2> QED
      BY <2>2
  <1>4. CASE k \notin DOMAIN pending
    <2>1. SlotsOf(FileOf(a)) = {}
      BY <1>4, FileOfFacts DEF SlotsOf
    <2>2. \A s : s \in HeldSegments' <=> s \in HeldSegments \/ s = a
      BY <1>1, <1>2, <1>4, <2>1, HeldBySlots
    <2> QED
      BY <2>2
  <1> QED
    BY <1>3, <1>4

LEMMA RemoveDrops ==
    ASSUME IInv, NEW k, pending' = Remove(k)
    PROVE  HeldSegments' = { s \in HeldSegments : KeyOf(s) # k }
  <1>1. /\ DOMAIN pending' = DOMAIN pending \ {k}
        /\ \A j \in DOMAIN pending' : pending'[j] = pending[j]
    BY DEF Remove
  <1>2. \A j \in DOMAIN pending : \A s \in SlotsOf(pending[j]) : KeyOf(s) = j
    BY DEF IInv, FileInv, SlotsOf
  <1>3. \A s : s \in HeldSegments'
                 <=> s \in HeldSegments /\ KeyOf(s) # k
    BY <1>1, <1>2, HeldBySlots
  <1> QED
    BY <1>3

----------------------------------------------------------------------------
(* The refinement *)

LEMMA PushRefines ==
    ASSUME IInv, NEW a \in Inputs, Push(a)
    PROVE  Promise!Next
  <1>1. CASE RejectHeader(a) \/ PassThrough(a)
    <2>1. HeldSegments' = HeldSegments /\ HandedOut' = None
      BY <1>1 DEF RejectHeader, PassThrough, HeldSegments, HandedOut, Filled
    <2> QED
      BY <2>1 DEF Promise!Next, Promise!Refuse
  <1>2. CASE RejectTotal(a) \/ RejectConflict(a)
    <2>1. HeldSegments' = HeldSegments /\ HandedOut' = None
      BY <1>2 DEF RejectTotal, RejectConflict, HeldSegments, HandedOut, Filled
    <2> QED
      BY <2>1 DEF Promise!Next, Promise!Refuse
  <1>3. CASE Progress(a)
    <2>1. Takes(a) /\ ~ Finishes(a) /\ pending' = Insert(KeyOf(a), Updated(a))
      BY <1>3 DEF Progress
    <2>2. HandedOut' = None
      BY <1>3 DEF Progress, HandedOut
    <2>3. Promise!Accept(a)
      BY <2>1, <2>2, StoreAdds, TakesIsCompatible, FinishesIsWhole
         DEF Promise!Accept
    <2> QED
      BY <2>1, <2>3 DEF Promise!Next, Takes
  <1>4. CASE FailAssembly(a)
    <2>1. /\ Takes(a) /\ Finishes(a)
          /\ ~ Assembles(KeyOf(a), Updated(a).segments)
          /\ pending' = Insert(KeyOf(a), Updated(a))
      BY <1>4 DEF FailAssembly
    <2>2. HandedOut' = None
      BY <1>4 DEF FailAssembly, HandedOut
    <2>3. Promise!Accept(a)
      BY <2>1, <2>2, StoreAdds, TakesIsCompatible, AssemblesIsConsistent
         DEF Promise!Accept
    <2> QED
      BY <2>1, <2>3 DEF Promise!Next, Takes
  <1>5. CASE CompleteFile(a)
    <2>1. /\ Takes(a) /\ Finishes(a)
          /\ Assembles(KeyOf(a), Updated(a).segments)
          /\ pending' = Remove(KeyOf(a))
      BY <1>5 DEF CompleteFile
    <2>2. HandedOut' = Pieces(KeyOf(a), Updated(a).segments)
      BY <1>5 DEF CompleteFile, HandedOut, Assembled
    <2>3. HeldSegments' = HeldSegments \ Promise!OfFile(KeyOf(a))
      BY <2>1, RemoveDrops DEF Promise!OfFile
    <2>4. Promise!HandOut(a)
      BY <2>1, <2>2, <2>3, TakesIsCompatible, FinishesIsWhole,
         AssemblesIsConsistent, PiecesArePayload DEF Promise!HandOut
    <2> QED
      BY <2>1, <2>4 DEF Promise!Next, Takes
  <1> QED
    BY <1>1, <1>2, <1>3, <1>4, <1>5 DEF Push

LEMMA StepRefines ==
    ASSUME IInv, [Next]_vars
    PROVE  [Promise!Next]_<<HeldSegments, HandedOut>>
  <1>1. ASSUME NEW a \in Inputs, Push(a)
        PROVE  Promise!Next
    BY <1>1, PushRefines
  <1>2. ASSUME NEW k \in Keys, Discard(k)
        PROVE  Promise!Next
    <2> DEFINE K == { KeyOf(s) : s \in HeldSegments } \cap {k}
    <2>1. HeldSegments' = { s \in HeldSegments : KeyOf(s) # k }
      BY <1>2, RemoveDrops DEF Discard
    <2>2. HeldSegments' = { s \in HeldSegments : KeyOf(s) \notin K }
      BY <2>1
    <2>3. HandedOut' = None
      BY <1>2 DEF Discard, HandedOut
    <2>4. K \in SUBSET { KeyOf(s) : s \in HeldSegments } /\ Promise!GiveUp(K)
      BY <2>2, <2>3 DEF Promise!GiveUp
    <2> QED
      BY <2>4 DEF Promise!Next
  <1>3. CASE Clear
    <2> DEFINE K == { KeyOf(s) : s \in HeldSegments }
    <2>1. HeldSegments' = {}
      BY <1>3, HeldBySlots DEF Clear
    <2>2. HandedOut' = None
      BY <1>3 DEF Clear, HandedOut
    <2>3. K \in SUBSET K /\ Promise!GiveUp(K)
      BY <2>1, <2>2 DEF Promise!GiveUp
    <2> QED
      BY <2>3 DEF Promise!Next
  <1>4. CASE UNCHANGED vars
    BY <1>4 DEF vars, HeldSegments, HandedOut, Filled
  <1> QED
    BY <1>1, <1>2, <1>3, <1>4 DEF Next

(* The reassembler implements the promise, for all products, file ids,     *)
(* file lengths, payloads and pushed APDUs: it hands a file out exactly    *)
(* when a push makes the held segments whole and consistent, with each     *)
(* contribution in its place, and otherwise keeps all that it accepted.    *)
THEOREM PromiseIsKept == Spec => KeepsThePromise
  <1>1. Init => Promise!Init
    BY DEF Init, Promise!Init, HeldSegments, HandedOut
  <1>2. IInv /\ [Next]_vars => [Promise!Next]_<<HeldSegments, HandedOut>>
    BY StepRefines
  <1> QED
    BY <1>1, <1>2, Invariance, PTL DEF Spec, KeepsThePromise, Promise!Spec
================================================================================
