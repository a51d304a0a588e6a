------------------------ MODULE UplinkReassembly_proofs ------------------------
(***************************************************************************)
(* What completes at the end of a lossy channel, for any products, file    *)
(* ids, lengths, schedules and payloads: a file is one version unless its  *)
(* id was reused too early, and a TWGO file is one version in any case.    *)
(***************************************************************************)
EXTENDS UplinkReassembly, FiniteSetTheorems, TLAPS

VersionOf(a) == a.tail[2]

----------------------------------------------------------------------------
(* The inductive invariant *)

StationInv ==
    /\ schedule \in Schedules
    /\ newest \in [Published -> Versions]
    /\ oldest \in [Published -> 1..MaxVersion + 1]
    /\ reused \subseteq Published
    /\ have \subseteq Published
    /\ \A k \in Published : oldest[k] <= newest[k] + 1

(* A file holds segments of its own key, each in the slot of its number.   *)
FileInv(k, f) ==
    /\ f \in R!Files(Length[k])
    /\ \A i \in 1..Length[k] :
          f.segments[i] # None =>
            /\ VersionOf(f.segments[i]) \in Versions
            /\ f.segments[i] = SegmentOf(k, VersionOf(f.segments[i]), i)

PendingInv ==
    /\ DOMAIN pending \subseteq Published
    /\ \A k \in DOMAIN pending : FileInv(k, pending[k])

FeedInv == feed \in Seq(AllSegments) /\ Len(feed) <= MaxApdus

(* As long as an id is not reused too early, only its newest version is on *)
(* the air, in the payload being pushed, and under reassembly.             *)
OneVersion(k) ==
    /\ newest[k] <= oldest[k]
    /\ \A j \in 1..Len(feed) :
          R!KeyOf(feed[j]) = k => VersionOf(feed[j]) = newest[k]
    /\ k \in DOMAIN pending =>
          \A i \in 1..Length[k] :
             pending[k].segments[i] # None =>
               VersionOf(pending[k].segments[i]) = newest[k]

IInv ==
    /\ StationInv
    /\ PendingInv
    /\ FeedInv
    /\ \A k \in Published \ reused : OneVersion(k)
    /\ CompletedFilesAreVersions
    /\ TwgoNeverMixed

----------------------------------------------------------------------------
(* Segments *)

LEMMA SegmentFacts ==
    ASSUME NEW k \in Published, NEW v \in Versions, NEW i \in 1..Length[k]
    PROVE  LET a == SegmentOf(k, v, i) IN
             /\ a \in AllSegments
             /\ a # None
             /\ R!KeyOf(a) = k
             /\ VersionOf(a) = v
             /\ a.seg.number = i
             /\ a.seg.total = Length[k]
             /\ a.head = <<k.product, v>>
             /\ a.tail = <<k.product, v>>
             /\ a.head # Short
             /\ a.flagged
  <1> DEFINE a == SegmentOf(k, v, i)
  <1>1. a \in AllSegments
    BY DEF AllSegments, SegmentsOf
  <1>2. a # None
    BY <1>1, DataAssumption
  <1>3. k \in [product : Products, file : FileIds]
    BY PublishedAssumption
  <1>4. R!KeyOf(a) = k
    BY <1>3 DEF SegmentOf, R!KeyOf
  <1>5. /\ VersionOf(a) = v
        /\ a.seg.number = i
        /\ a.seg.total = Length[k]
        /\ a.head = <<k.product, v>>
        /\ a.tail = <<k.product, v>>
        /\ a.flagged
    BY DEF SegmentOf, VersionOf, Content
  <1>6. a.head # Short
    BY <1>3, <1>5, DataAssumption
  <1> QED
    BY <1>1, <1>2, <1>4, <1>5, <1>6

LEMMA SegmentExists ==
    ASSUME NEW a \in AllSegments
    PROVE  \E k \in Published, v \in Versions :
              \E i \in 1..Length[k] : a = SegmentOf(k, v, i)
  BY DEF AllSegments, SegmentsOf

----------------------------------------------------------------------------
(* One push *)

LEMMA TakenSegment ==
    ASSUME IInv, NEW a \in AllSegments, R!Takes(a)
    PROVE  /\ R!KeyOf(a) \in Published
           /\ FileInv(R!KeyOf(a), R!Updated(a))
           /\ \A i \in 1..Length[R!KeyOf(a)] :
                 R!Updated(a).segments[i] # None =>
                    \/ R!Updated(a).segments[i] = a
                    \/ /\ R!KeyOf(a) \in DOMAIN pending
                       /\ R!Updated(a).segments[i] = pending[R!KeyOf(a)].segments[i]
  <1>0. PICK k \in Published, v \in Versions :
            \E i \in 1..Length[k] : a = SegmentOf(k, v, i)
    BY SegmentExists
  <1>1. PICK n \in 1..Length[k] : a = SegmentOf(k, v, n)
    BY <1>0
  <1>2. /\ a # None
        /\ R!KeyOf(a) = k
        /\ VersionOf(a) = v
        /\ a.seg.number = n
        /\ a.seg.total = Length[k]
    BY <1>1, SegmentFacts
  <1>3. a \in R!Segments
    <2>1. k \in [product : Products, file : FileIds]
      BY PublishedAssumption
    <2>2. /\ a.stamp \in Stamps
      BY DEF R!Takes, R!Segmented, R!ValidHeader
    <2>3. Length[k] \in 1..MaxTotal /\ n \in 1..MaxTotal /\ n <= Length[k]
      BY PublishedAssumption
    <2> QED
      BY <1>1, <2>1, <2>2, <2>3 DEF SegmentOf, Content, R!Segments, R!Segmentations
  <1> DEFINE f == R!FileOf(a)
  <1>4. /\ f \in R!Files(Length[k])
        /\ \A i \in 1..Length[k] :
              f.segments[i] # None =>
                /\ k \in DOMAIN pending
                /\ f.segments[i] = pending[k].segments[i]
                /\ VersionOf(f.segments[i]) \in Versions
                /\ f.segments[i] = SegmentOf(k, VersionOf(f.segments[i]), i)
    <2>1. CASE k \in DOMAIN pending
      <3>1. f = pending[k]
        BY <1>2, <2>1 DEF R!FileOf, R!Entry
      <3> QED
        BY <2>1, <3>1 DEF IInv, PendingInv, FileInv
    <2>2. CASE k \notin DOMAIN pending
      <3>1. f = [total |-> Length[k], segments |-> [i \in 1..Length[k] |-> None]]
        BY <1>2, <2>2 DEF R!FileOf, R!Entry
      <3> QED
        BY <3>1 DEF R!Files
    <2> QED
      BY <2>1, <2>2
  <1>5. f = [total |-> Length[k], segments |-> f.segments]
        /\ f.segments \in [1..Length[k] -> R!Segments \cup {None}]
    BY <1>4 DEF R!Files
  <1> DEFINE g == [f.segments EXCEPT ![n] = a]
  <1>6. R!Updated(a) = [total |-> Length[k], segments |-> g]
    BY <1>2, <1>5 DEF R!Updated
  <1>7. g \in [1..Length[k] -> R!Segments \cup {None}]
    BY <1>3, <1>5
  <1>8. \A i \in 1..Length[k] : g[i] = IF i = n THEN a ELSE f.segments[i]
    BY <1>5
  <1>9. R!Updated(a) \in R!Files(Length[k])
    BY <1>6, <1>7 DEF R!Files
  <1>10. R!Updated(a).segments = g
    BY <1>6
  <1>11. \A i \in 1..Length[k] :
            g[i] # None => /\ VersionOf(g[i]) \in Versions
                           /\ g[i] = SegmentOf(k, VersionOf(g[i]), i)
    BY <1>1, <1>2, <1>4, <1>8
  <1>12. FileInv(k, R!Updated(a))
    BY <1>9, <1>10, <1>11 DEF FileInv
  <1>13. \A i \in 1..Length[k] :
            g[i] # None => \/ g[i] = a
                           \/ k \in DOMAIN pending /\ g[i] = pending[k].segments[i]
    BY <1>4, <1>8
  <1> QED
    BY <1>2, <1>10, <1>12, <1>13

\* The instance has a copy of its own.
LEMMA SameCardinality == \A S : R!Cardinality(S) = Cardinality(S)
  BY DEF R!Cardinality, Cardinality

(* A file that is complete has a segment in every slot.                    *)
LEMMA FullFile ==
    ASSUME IInv, NEW a \in AllSegments, R!Takes(a), R!Finishes(a)
    PROVE  LET k == R!KeyOf(a) IN
             /\ DOMAIN R!Updated(a).segments = 1..Length[k]
             /\ Cardinality(1..Length[k]) = Length[k]
             /\ \A i \in 1..Length[k] : R!Updated(a).segments[i] # None
  <1> DEFINE k == R!KeyOf(a)
             u == R!Updated(a)
             s == u.segments
  <1>1. k \in Published /\ FileInv(k, u)
    BY TakenSegment
  <1>2. Length[k] \in Nat
    BY <1>1, PublishedAssumption
  <1>3. u.total = Length[k] /\ DOMAIN s = 1..Length[k]
    BY <1>1 DEF FileInv, R!Files
  <1>4. R!Filled(u) \subseteq 1..Length[k]
    BY <1>3 DEF R!Filled
  <1>5. IsFiniteSet(1..Length[k]) /\ Cardinality(1..Length[k]) = Length[k]
    <2>1. 1 \in Int /\ Length[k] \in Int
      BY <1>2
    <2>2. /\ IsFiniteSet(1..Length[k])
          /\ Cardinality(1..Length[k])
               = IF 1 > Length[k] THEN 0 ELSE Length[k] - 1 + 1
      BY <2>1, FS_Interval
    <2> QED
      BY <1>2, <2>2
  <1>6. R!Filled(u) = 1..Length[k]
    <2>1. Cardinality(R!Filled(u)) = Length[k]
      BY <1>3, SameCardinality DEF R!Finishes, R!Complete, R!Received
    <2> QED
      BY <1>4, <1>5, <2>1, FS_Subset
  <1>7. \A i \in 1..Length[k] : s[i] # None
    BY <1>6 DEF R!Filled
  <1> QED
    BY <1>3, <1>5, <1>7

(* What push hands out is the contributions of all segments.               *)
LEMMA HandedOut ==
    ASSUME IInv, NEW a \in AllSegments, R!Takes(a), R!Finishes(a),
           NEW file,
           file = R!Assembled(R!KeyOf(a), R!Updated(a).segments)
    PROVE  LET k == R!KeyOf(a)
               s == R!Updated(a).segments
           IN  /\ file.key = k
               /\ file.count = Length[k]
               /\ \A i \in 1..Length[k] :
                     /\ VersionOf(s[i]) \in Versions
                     /\ s[i].head = Content(k, VersionOf(s[i]))
                     /\ file.payload[i] =
                          LET c == Content(k, VersionOf(s[i])) IN
                            IF R!Twgo(k) /\ i > 1 THEN <<c>> ELSE <<c, c>>
  <1> DEFINE k == R!KeyOf(a)
             u == R!Updated(a)
             s == u.segments
  <1>1. k \in Published /\ FileInv(k, u)
    BY TakenSegment
  <1>3. Length[k] \in Nat /\ DOMAIN s = 1..Length[k]
    BY <1>1, PublishedAssumption, FullFile
  <1>5. Cardinality(1..Length[k]) = Length[k]
    BY FullFile
  <1>7. \A i \in 1..Length[k] : s[i] # None
    BY FullFile
  <1>8. \A i \in 1..Length[k] :
           /\ VersionOf(s[i]) \in Versions
           /\ s[i] = SegmentOf(k, VersionOf(s[i]), i)
    BY <1>1, <1>7 DEF FileInv
  <1>9. file.key = k /\ file.count = Length[k] /\ file.payload = R!Pieces(k, s)
    BY <1>3, <1>5, SameCardinality DEF R!Assembled
  <1>10. ASSUME NEW i \in 1..Length[k]
         PROVE  /\ s[i].head = Content(k, VersionOf(s[i]))
                /\ file.payload[i] =
                     LET c == Content(k, VersionOf(s[i])) IN
                       IF R!Twgo(k) /\ i > 1 THEN <<c>> ELSE <<c, c>>
    <2> DEFINE c == Content(k, VersionOf(s[i]))
    <2>1. /\ s[i].head = c /\ s[i].tail = c /\ s[i].head # Short
      BY <1>1, <1>8, SegmentFacts DEF Content
    <2>2. R!WholePayload(s[i]) = <<c, c>>
      BY <2>1 DEF R!WholePayload
    <2>3. file.payload[i] = IF R!Twgo(k) /\ i # 1 THEN <<s[i].tail>>
                            ELSE R!WholePayload(s[i])
      BY <1>3, <1>9 DEF R!Pieces
    <2>4. i # 1 <=> i > 1
      BY <1>3
    <2> QED
      BY <2>1, <2>2, <2>3, <2>4
  <1> QED
    BY <1>8, <1>9, <1>10

(* What a taken segment leaves in its file is of one version if its id is  *)
(* not reused.                                                             *)
LEMMA UpdatedIsOneVersion ==
    ASSUME IInv, NEW j \in 1..Len(feed), R!Takes(feed[j]),
           R!KeyOf(feed[j]) \notin reused
    PROVE  LET k == R!KeyOf(feed[j]) IN
             \A i \in 1..Length[k] :
                R!Updated(feed[j]).segments[i] # None =>
                   VersionOf(R!Updated(feed[j]).segments[i]) = newest[k]
  <1> DEFINE a == feed[j]
             k == R!KeyOf(a)
  <1>1. a \in AllSegments
    BY DEF IInv, FeedInv
  <1>2. k \in Published
    BY <1>1, TakenSegment
  <1>3. OneVersion(k)
    BY <1>2 DEF IInv
  <1> QED
    BY <1>1, <1>3, TakenSegment DEF OneVersion

LEMMA StoreKeeps ==
    ASSUME IInv, NEW a \in AllSegments, R!Takes(a),
           pending' = R!Insert(R!KeyOf(a), R!Updated(a))
    PROVE  PendingInv'
  <1> DEFINE k == R!KeyOf(a)
  <1>1. k \in Published /\ FileInv(k, R!Updated(a))
    BY TakenSegment
  <1>2. /\ DOMAIN pending' = DOMAIN pending \cup {k}
        /\ \A x \in DOMAIN pending' :
              pending'[x] = IF x = k THEN R!Updated(a) ELSE pending[x]
    BY DEF R!Insert
  <1>3. DOMAIN pending' \subseteq Published
    BY <1>1, <1>2 DEF IInv, PendingInv
  <1>4. \A x \in DOMAIN pending' : FileInv(x, pending'[x])
    BY <1>1, <1>2 DEF IInv, PendingInv
  <1> QED
    BY <1>3, <1>4 DEF PendingInv, FileInv

LEMMA RemoveKeeps ==
    ASSUME PendingInv, NEW k, pending' = R!Remove(k)
    PROVE  /\ PendingInv'
           /\ DOMAIN pending' \subseteq DOMAIN pending
           /\ \A x \in DOMAIN pending' : pending'[x] = pending[x]
  <1>1. /\ DOMAIN pending' = DOMAIN pending \ {k}
        /\ \A x \in DOMAIN pending' : pending'[x] = pending[x]
    BY DEF R!Remove
  <1>2. \A x \in DOMAIN pending' : FileInv(x, pending'[x])
    BY <1>1 DEF PendingInv
  <1> QED
    BY <1>1, <1>2 DEF PendingInv, FileInv

(* What push hands out is one version of the file.                         *)
LEMMA CompletionIsOneVersion ==
    ASSUME IInv, NEW j \in 1..Len(feed), R!CompleteFile(feed[j])
    PROVE  /\ status'.kind = "complete"
           /\ status'.key = R!KeyOf(feed[j])
           /\ R!KeyOf(feed[j]) \notin reused \/ R!Twgo(R!KeyOf(feed[j])) =>
                \E v \in Versions : IsVersion(status'.file, v)
  <1> DEFINE a == feed[j]
             k == R!KeyOf(a)
             t == R!Updated(a).segments
             file == R!Assembled(k, t)
  <1>1. a \in AllSegments
    BY DEF IInv, FeedInv
  <1>2. /\ R!Takes(a) /\ R!Finishes(a) /\ R!Assembles(k, t)
        /\ status' = [kind |-> "complete", key |-> k, file |-> file]
    BY DEF R!CompleteFile
  <1>3. status'.kind = "complete" /\ status'.key = k /\ status'.file = file
    BY <1>2
  <1>4. /\ file.key = k
        /\ file.count = Length[k]
        /\ \A i \in 1..Length[k] :
              /\ VersionOf(t[i]) \in Versions
              /\ t[i].head = Content(k, VersionOf(t[i]))
              /\ file.payload[i] =
                   LET c == Content(k, VersionOf(t[i])) IN
                     IF R!Twgo(k) /\ i > 1 THEN <<c>> ELSE <<c, c>>
    BY <1>1, <1>2, HandedOut
  <1>5. k \in Published /\ FileInv(k, R!Updated(a))
    BY <1>1, <1>2, TakenSegment
  <1>6. 1 \in 1..Length[k] /\ DOMAIN t = 1..Length[k]
    BY <1>5, PublishedAssumption DEF FileInv, R!Files
  <1>7. ASSUME NEW v \in Versions,
               \A i \in 1..Length[k] : VersionOf(t[i]) = v
        PROVE  IsVersion(file, v)
    BY <1>4, <1>7 DEF IsVersion
  <1>8. CASE k \notin reused
    <2>1. \A i \in 1..Length[k] : t[i] # None => VersionOf(t[i]) = newest[k]
      BY <1>2, <1>8, UpdatedIsOneVersion
    <2>2. \A i \in 1..Length[k] : t[i] # None
      BY <1>1, <1>2, FullFile
    <2>3. newest[k] \in Versions
      BY <1>5 DEF IInv, StationInv
    <2> QED
      BY <1>3, <1>7, <2>1, <2>2, <2>3
  <1>9. CASE R!Twgo(k)
    <2>1. \A i \in 1..Length[k] : t[i].head = t[1].head
      BY <1>2, <1>6, <1>9 DEF R!Assembles
    <2>2. \A i \in 1..Length[k] : VersionOf(t[i]) = VersionOf(t[1])
      <3>1. \A i \in 1..Length[k] :
               Content(k, VersionOf(t[i])) = Content(k, VersionOf(t[1]))
        BY <1>4, <1>6, <2>1
      <3>2. \A v, w \in Versions : Content(k, v) = Content(k, w) => v = w
        BY DEF Content
      <3>3. \A i \in 1..Length[k] : VersionOf(t[i]) \in Versions
        BY <1>4
      <3> HIDE DEF t
      <3> QED
        BY <1>6, <3>1, <3>2, <3>3
    <2>3. VersionOf(t[1]) \in Versions
      BY <1>4, <1>6
    <2>4. IsVersion(file, VersionOf(t[1]))
      BY <1>7, <2>2, <2>3
    <2> QED
      BY <1>3, <2>3, <2>4
  <1> QED
    BY <1>3, <1>8, <1>9

(* One push keeps the invariant, as long as what is left of the payload    *)
(* was there before.                                                       *)
LEMMA PushKeeps ==
    ASSUME IInv, NEW j \in 1..Len(feed), R!Push(feed[j]), UNCHANGED station,
           FeedInv', have' \subseteq Published,
           \A n \in 1..Len(feed') : \E m \in 1..Len(feed) : feed'[n] = feed[m]
    PROVE  IInv'
  <1> DEFINE a == feed[j]
             k == R!KeyOf(a)
  <1>1. a \in AllSegments
    BY DEF IInv, FeedInv
  <1>2. StationInv'
    BY DEF IInv, StationInv, station
  <1>3. CASE UNCHANGED pending /\ status'.kind # "complete"
    <2>1. PendingInv'
      BY <1>3 DEF IInv, PendingInv, FileInv
    <2>2. \A x \in Published \ reused' : OneVersion(x)'
      BY <1>3 DEF IInv, OneVersion, station
    <2>3. CompletedFilesAreVersions' /\ TwgoNeverMixed'
      BY <1>3 DEF CompletedFilesAreVersions, TwgoNeverMixed
    <2> QED
      BY <1>2, <2>1, <2>2, <2>3 DEF IInv
  <1>4. CASE /\ R!Takes(a)
             /\ pending' = R!Insert(k, R!Updated(a))
             /\ status'.kind # "complete"
    <2>1. PendingInv'
      BY <1>1, <1>4, StoreKeeps
    <2>2. ASSUME NEW x \in Published \ reused'
          PROVE  OneVersion(x)'
      <3>1. /\ x \in Published \ reused
            /\ newest' = newest /\ oldest' = oldest /\ reused' = reused
        BY <2>2 DEF station
      <3>2. OneVersion(x)
        BY <3>1 DEF IInv
      <3>3. x = k => pending'[x] = R!Updated(a)
        BY <1>4 DEF R!Insert
      <3>4. CASE x = k
        <4>1. \A i \in 1..Length[x] :
                 pending'[x].segments[i] # None =>
                    VersionOf(pending'[x].segments[i]) = newest[x]
          BY <1>4, <3>1, <3>3, <3>4, UpdatedIsOneVersion
        <4> QED
          BY <3>1, <3>2, <4>1 DEF OneVersion
      <3>5. CASE x # k
        <4>1. x \in DOMAIN pending' => x \in DOMAIN pending
          BY <1>4, <3>5 DEF R!Insert
        <4>2. x \in DOMAIN pending' => pending'[x] = pending[x]
          BY <1>4, <3>5 DEF R!Insert
        <4> QED
          BY <3>1, <3>2, <4>1, <4>2 DEF OneVersion
      <3> QED
        BY <3>4, <3>5
    <2>3. CompletedFilesAreVersions' /\ TwgoNeverMixed'
      BY <1>4 DEF CompletedFilesAreVersions, TwgoNeverMixed
    <2> QED
      BY <1>2, <2>1, <2>2, <2>3 DEF IInv
  <1>5. CASE R!CompleteFile(a)
    <2>1. /\ PendingInv'
          /\ DOMAIN pending' \subseteq DOMAIN pending
          /\ \A x \in DOMAIN pending' : pending'[x] = pending[x]
      BY <1>5, RemoveKeeps DEF IInv, R!CompleteFile
    <2>2. \A x \in Published \ reused' : OneVersion(x)'
      BY <2>1 DEF IInv, OneVersion, station
    <2>3. /\ status'.kind = "complete"
          /\ status'.key = k
          /\ k \notin reused \/ R!Twgo(k) =>
               \E v \in Versions : IsVersion(status'.file, v)
      BY <1>5, CompletionIsOneVersion
    <2>4. reused' = reused
      BY DEF station
    <2>5. CompletedFilesAreVersions' /\ TwgoNeverMixed'
      BY <2>3, <2>4 DEF CompletedFilesAreVersions, TwgoNeverMixed, IsVersion
    <2> QED
      BY <1>2, <2>1, <2>2, <2>5 DEF IInv
  <1>6. CASE R!RejectHeader(a)
    BY <1>3, <1>6 DEF R!RejectHeader
  <1>7. CASE R!PassThrough(a)
    BY <1>3, <1>7 DEF R!PassThrough
  <1>8. CASE R!RejectTotal(a)
    BY <1>3, <1>8 DEF R!RejectTotal
  <1>9. CASE R!RejectConflict(a)
    BY <1>3, <1>9 DEF R!RejectConflict
  <1>10. CASE R!Progress(a)
    BY <1>4, <1>10 DEF R!Progress
  <1>11. CASE R!FailAssembly(a)
    BY <1>4, <1>11 DEF R!FailAssembly
  <1> QED
    BY <1>5, <1>6, <1>7, <1>8, <1>9, <1>10, <1>11 DEF R!Push

----------------------------------------------------------------------------
(* The steps *)

LEMMA InitEstablishes == Init => IInv
  <1> SUFFICES ASSUME Init PROVE IInv
    OBVIOUS
  <1>1. pending = [k \in {} |-> None] /\ status = [kind |-> "new"]
    BY DEF Init, R!Init
  <1>2. \A k \in Published : schedule[k] \in 1..MaxVersion
    BY PublishedAssumption DEF Init
  <1>3. StationInv
    BY <1>2, DataAssumption, PublishedAssumption DEF Init, StationInv, Versions
  <1>4. PendingInv
    BY <1>1 DEF PendingInv
  <1>5. FeedInv
    BY PublishedAssumption DEF Init, FeedInv
  <1>6. \A k \in Published : OneVersion(k)
    BY <1>1 DEF Init, OneVersion
  <1>7. CompletedFilesAreVersions /\ TwgoNeverMixed
    BY <1>1 DEF CompletedFilesAreVersions, TwgoNeverMixed
  <1> QED
    BY <1>3, <1>4, <1>5, <1>6, <1>7 DEF IInv

LEMMA FadeKeeps ==
    ASSUME IInv, NEW k \in Published, Fade(k)
    PROVE  IInv'
  <1>1. /\ oldest' = [oldest EXCEPT ![k] = @ + 1]
        /\ oldest[k] <= newest[k]
        /\ UNCHANGED <<pending, status, schedule, newest, reused, feed, have>>
    BY DEF Fade, OnAir, call
  <1>2. newest[k] \in 1..MaxVersion /\ oldest[k] \in 1..MaxVersion + 1
    BY DEF IInv, StationInv, Versions
  <1>3. oldest[k] + 1 \in 1..MaxVersion + 1
    BY <1>1, <1>2, PublishedAssumption
  <1>4. \A x \in Published : /\ oldest[x] <= oldest'[x]
                             /\ oldest'[x] <= newest[x] + 1
    BY <1>1, <1>2, PublishedAssumption DEF IInv, StationInv, Versions
  <1>5. StationInv'
    BY <1>1, <1>3, <1>4 DEF IInv, StationInv
  <1>6. PendingInv' /\ FeedInv'
    BY <1>1 DEF IInv, PendingInv, FileInv, FeedInv
  <1>7. ASSUME NEW x \in Published \ reused'
        PROVE  OneVersion(x)'
    <2>1. OneVersion(x)
      BY <1>1 DEF IInv
    <2>2. newest[x] <= oldest'[x]
      <3>1. newest[x] \in Int /\ oldest[x] \in Int /\ oldest'[x] \in Int
        BY <1>1, <1>5, PublishedAssumption DEF IInv, StationInv, Versions
      <3> QED
        BY <1>4, <2>1, <3>1 DEF OneVersion
    <2> QED
      BY <1>1, <2>1, <2>2 DEF OneVersion
  <1>8. CompletedFilesAreVersions' /\ TwgoNeverMixed'
    BY <1>1 DEF IInv, CompletedFilesAreVersions, TwgoNeverMixed
  <1> QED
    BY <1>5, <1>6, <1>7, <1>8 DEF IInv

LEMMA PublishKeeps ==
    ASSUME IInv, NEW k \in Published, Publish(k)
    PROVE  IInv'
  <1>1. /\ newest[k] < schedule[k]
        /\ newest' = [newest EXCEPT ![k] = @ + 1]
        /\ reused' = IF OnAir(k) \/ Underway(k) THEN reused \cup {k} ELSE reused
        /\ have' = have \ {k}
        /\ UNCHANGED <<pending, status, schedule, oldest, feed>>
    BY DEF Publish, call
  <1>2. /\ newest[k] \in 1..MaxVersion /\ schedule[k] \in 1..MaxVersion
        /\ MaxVersion \in Nat
    BY PublishedAssumption DEF IInv, StationInv, Versions
  <1>3. newest[k] + 1 \in Versions
    BY <1>1, <1>2 DEF Versions
  <1>4. \A x \in Published : newest[x] <= newest'[x]
    BY <1>1, <1>2 DEF IInv, StationInv, Versions
  <1>5. StationInv'
    <2>1. newest' \in [Published -> Versions]
      BY <1>1, <1>3 DEF IInv, StationInv
    <2>2. \A x \in Published : oldest'[x] <= newest'[x] + 1
      <3>1. \A x \in Published : /\ newest[x] \in Int /\ newest'[x] \in Int
                                 /\ oldest[x] \in Int
        BY <2>1, PublishedAssumption DEF IInv, StationInv, Versions
      <3>2. \A x \in Published : oldest[x] <= newest[x] + 1
        BY DEF IInv, StationInv
      <3> QED
        BY <1>1, <1>4, <3>1, <3>2
    <2> QED
      BY <1>1, <2>1, <2>2 DEF IInv, StationInv
  <1>6. PendingInv' /\ FeedInv'
    BY <1>1 DEF IInv, PendingInv, FileInv, FeedInv
  <1>7. ASSUME NEW x \in Published \ reused'
        PROVE  OneVersion(x)'
    <2>1. x \notin reused /\ OneVersion(x)
      BY <1>1 DEF IInv
    <2>2. CASE x # k
      <3>1. newest'[x] = newest[x]
        BY <1>1, <2>2 DEF IInv, StationInv
      <3> QED
        BY <1>1, <2>1, <3>1 DEF OneVersion
    <2>3. CASE x = k
      <3>1. ~ OnAir(k) /\ ~ Underway(k)
        BY <1>1, <1>7, <2>3
      <3>2. newest'[k] <= oldest[k]
        <4>1. newest'[k] = newest[k] + 1 /\ ~ (oldest[k] <= newest[k])
          BY <1>1, <3>1 DEF OnAir, IInv, StationInv
        <4>2. newest[k] \in Int /\ oldest[k] \in Int
          BY <1>2, PublishedAssumption DEF IInv, StationInv
        <4> QED
          BY <4>1, <4>2
      <3>3. k \notin DOMAIN pending
        BY <3>1 DEF Underway
      <3>4. \A j \in 1..Len(feed) : R!KeyOf(feed[j]) # k
        <4>1. DOMAIN feed = 1..Len(feed)
          BY DEF IInv, FeedInv
        <4> QED
          BY <3>1, <4>1 DEF Underway
      <3> QED
        BY <1>1, <2>3, <3>2, <3>3, <3>4 DEF OneVersion
    <2> QED
      BY <2>2, <2>3
  <1>8. CompletedFilesAreVersions' /\ TwgoNeverMixed'
    <2>1. reused \subseteq reused' /\ status' = status
      BY <1>1
    <2> QED
      BY <2>1 DEF IInv, CompletedFilesAreVersions, TwgoNeverMixed
  <1> QED
    BY <1>5, <1>6, <1>7, <1>8 DEF IInv

LEMMA ExpireKeeps ==
    ASSUME IInv, NEW k \in Published, Expire(k)
    PROVE  IInv'
  <1>1. /\ pending' = R!Remove(k)
        /\ status'.kind # "complete"
        /\ UNCHANGED <<schedule, newest, oldest, reused, feed, have>>
    BY DEF Expire, R!Discard, station, call
  <1>2. /\ PendingInv'
        /\ DOMAIN pending' \subseteq DOMAIN pending
        /\ \A x \in DOMAIN pending' : pending'[x] = pending[x]
    BY <1>1, RemoveKeeps DEF IInv
  <1>3. StationInv' /\ FeedInv'
    BY <1>1 DEF IInv, StationInv, FeedInv
  <1>4. \A x \in Published \ reused' : OneVersion(x)'
    BY <1>1, <1>2 DEF IInv, OneVersion
  <1>5. CompletedFilesAreVersions' /\ TwgoNeverMixed'
    BY <1>1 DEF CompletedFilesAreVersions, TwgoNeverMixed
  <1> QED
    BY <1>2, <1>3, <1>4, <1>5 DEF IInv

LEMMA CallKeeps ==
    ASSUME IInv, NEW payload \in Payloads, Call(payload)
    PROVE  IInv'
  <1>1. /\ feed' = payload
        /\ UNCHANGED <<pending, status, schedule, newest, oldest, reused, have>>
    BY DEF Call, station
  <1>2. PICK n \in 1..MaxApdus : payload \in [1..n -> Receivable]
    BY DEF Payloads
  <1>3. Len(payload) = n /\ payload \in Seq(Receivable)
    BY <1>2, PublishedAssumption
  <1>4. ASSUME NEW j \in 1..n
        PROVE  /\ payload[j] \in AllSegments
               /\ R!KeyOf(payload[j]) \notin reused =>
                    VersionOf(payload[j]) = newest[R!KeyOf(payload[j])]
    <2>1. payload[j] \in Receivable
      BY <1>2
    <2>2. PICK k \in Published : payload[j] \in SegmentsOf(k, oldest[k]..newest[k])
      BY <2>1 DEF Receivable
    <2>3. PICK v \in oldest[k]..newest[k] :
              \E i \in 1..Length[k] : payload[j] = SegmentOf(k, v, i)
      BY <2>2 DEF SegmentsOf
    <2>4. PICK i \in 1..Length[k] : payload[j] = SegmentOf(k, v, i)
      BY <2>3
    <2>5. /\ newest[k] \in 1..MaxVersion
          /\ oldest[k] \in 1..MaxVersion + 1
          /\ MaxVersion \in Nat
      BY PublishedAssumption DEF IInv, StationInv, Versions
    <2>6. v \in Versions
      BY <2>5 DEF Versions
    <2>7. /\ payload[j] \in AllSegments
          /\ R!KeyOf(payload[j]) = k
          /\ VersionOf(payload[j]) = v
      BY <2>4, <2>6, SegmentFacts
    <2>8. k \notin reused => newest[k] <= oldest[k]
      BY DEF IInv, OneVersion
    <2> QED
      BY <2>5, <2>7, <2>8
  <1>5. FeedInv'
    <2>1. payload \in Seq(AllSegments)
      BY <1>3, <1>4
    <2> QED
      BY <1>1, <1>2, <1>3, <2>1, PublishedAssumption DEF FeedInv
  <1>6. StationInv' /\ PendingInv'
    BY <1>1 DEF IInv, StationInv, PendingInv, FileInv
  <1>7. \A x \in Published \ reused' : OneVersion(x)'
    BY <1>1, <1>3, <1>4 DEF IInv, OneVersion
  <1>8. CompletedFilesAreVersions' /\ TwgoNeverMixed'
    BY <1>1 DEF IInv, CompletedFilesAreVersions, TwgoNeverMixed
  <1> QED
    BY <1>5, <1>6, <1>7, <1>8 DEF IInv

LEMMA PushOkKeeps ==
    ASSUME IInv, PushOk
    PROVE  IInv'
  <1>1. /\ feed # << >>
        /\ R!Push(Head(feed))
        /\ feed' = Tail(feed)
        /\ UNCHANGED station
    BY DEF PushOk
  <1>2. feed \in Seq(AllSegments) /\ Len(feed) <= MaxApdus
    BY DEF IInv, FeedInv
  <1>3. 1 \in 1..Len(feed) /\ Head(feed) = feed[1]
    BY <1>1, <1>2
  <1>4. FeedInv'
    <2>1. Tail(feed) \in Seq(AllSegments) /\ Len(Tail(feed)) = Len(feed) - 1
      BY <1>1, <1>2
    <2> QED
      BY <1>1, <1>2, <2>1, PublishedAssumption DEF FeedInv
  <1>5. \A n \in 1..Len(feed') : \E m \in 1..Len(feed) : feed'[n] = feed[m]
    <2>1. \A n \in 1..Len(feed') : n + 1 \in 1..Len(feed) /\ feed'[n] = feed[n + 1]
      BY <1>1, <1>2
    <2> QED
      BY <2>1
  <1>6. have' \subseteq Published
    <2>1. have' \in {have, have \cup Handed(done \cup Completions)}
      BY DEF PushOk
    <2> QED
      BY <2>1 DEF IInv, StationInv, Handed
  <1> QED
    BY <1>1, <1>3, <1>4, <1>5, <1>6, PushKeeps

LEMMA PushErrKeeps ==
    ASSUME IInv, PushErr
    PROVE  IInv'
  <1>1. /\ feed # << >>
        /\ R!Push(Head(feed))
        /\ feed' = << >>
        /\ UNCHANGED <<station, have>>
    BY DEF PushErr
  <1>2. feed \in Seq(AllSegments)
    BY DEF IInv, FeedInv
  <1>3. 1 \in 1..Len(feed) /\ Head(feed) = feed[1]
    BY <1>1, <1>2
  <1>4. FeedInv'
    BY <1>1, PublishedAssumption DEF FeedInv
  <1>5. \A n \in 1..Len(feed') : \E m \in 1..Len(feed) : feed'[n] = feed[m]
    BY <1>1
  <1>6. have' \subseteq Published
    BY <1>1 DEF IInv, StationInv
  <1> QED
    BY <1>1, <1>3, <1>4, <1>5, <1>6, PushKeeps

LEMMA StepKeeps == IInv /\ [Next]_vars => IInv'
  <1> SUFFICES ASSUME IInv, [Next]_vars PROVE IInv'
    OBVIOUS
  <1>1. CASE UNCHANGED vars
    BY <1>1 DEF vars, station, call, IInv, StationInv, PendingInv, FileInv,
                FeedInv, OneVersion, CompletedFilesAreVersions, TwgoNeverMixed
  <1>2. CASE Next
    BY <1>2, FadeKeeps, PublishKeeps, ExpireKeeps, CallKeeps, PushOkKeeps,
       PushErrKeeps DEF Next
  <1> QED
    BY <1>1, <1>2

(* The strengthened invariant holds in every reachable state.              *)
THEOREM Invariance == Spec => []IInv
  BY InitEstablishes, StepKeeps, PTL DEF Spec

(* A completed file is one version of the file, whole and in order, unless *)
(* the station reused its id too early, whatever the channel loses,        *)
(* repeats or reorders.                                                    *)
THEOREM CompletionsAreVersions == Spec => []CompletedFilesAreVersions
  <1>1. IInv => CompletedFilesAreVersions
    BY DEF IInv
  <1> QED
    BY <1>1, Invariance, PTL

(* A TWGO file that completes is one version, however its id is reused.    *)
THEOREM TwgoIsNeverMixed == Spec => []TwgoNeverMixed
  <1>1. IInv => TwgoNeverMixed
    BY DEF IInv
  <1> QED
    BY <1>1, Invariance, PTL

(* The reassembler, the station and the payload in hand keep their types.  *)
THEOREM TypeCorrect == Spec => []TypeOK
  <1>1. ASSUME IInv PROVE R!TypeOK
    <2>1. DOMAIN pending \subseteq R!Keys
      BY <1>1, PublishedAssumption DEF IInv, PendingInv, R!Keys
    <2>2. \A k \in DOMAIN pending : \E t \in 1..MaxTotal : pending[k] \in R!Files(t)
      BY <1>1, PublishedAssumption DEF IInv, PendingInv, FileInv
    <2> QED
      BY <2>1, <2>2 DEF R!TypeOK
  <1>2. IInv => TypeOK
    BY <1>1 DEF IInv, StationInv, FeedInv, TypeOK
  <1> QED
    BY <1>2, Invariance, PTL
================================================================================
