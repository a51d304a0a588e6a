---------------------------- MODULE UplinkReassembly ---------------------------
(***************************************************************************)
(* A ground station's product files on their way to the application:       *)
(* broadcast segment by segment over a channel that loses, repeats and     *)
(* reorders, received in UAT uplink payloads of several APDUs, fed to one  *)
(* ApduReassembler by UatUplinkPayload::reassembly_updates, and given up   *)
(* by the application under its receive-window policy.                     *)
(*                                                                         *)
(* The station and the application are environment: the repository names   *)
(* them (README.md:218 leaves the discarding of incomplete files to the    *)
(* application) and holds no code of theirs.  A call of reassembly_updates *)
(* is the step Call and then one step per APDU it pushes; the application  *)
(* acts only between calls, since the reassembler is borrowed mutably for  *)
(* the duration of one.                                                    *)
(***************************************************************************)
EXTENDS Naturals, Sequences, FiniteSets

CONSTANTS
    Products, TwgoProducts, FileIds, MaxTotal, Stamps, Short, None,
    Published,    \* the keys under which the station broadcasts files
    MaxVersion,   \* bound on the versions of a file
    Schedules,    \* how many versions of each file the station broadcasts
    Length,       \* the number of segments of each file
    MaxApdus      \* bound on the APDUs of one uplink payload

Versions == 1..MaxVersion

ASSUME PublishedAssumption ==
    /\ Published \subseteq [product : Products, file : FileIds]
    /\ Length \in [Published -> 1..MaxTotal]
    /\ Schedules \subseteq [Published -> 1..MaxVersion]
    /\ MaxTotal \in Nat /\ MaxVersion \in Nat /\ MaxApdus \in Nat

(* Segment number i of version v.  Two files, and two versions of one,     *)
(* differ in every segment, and in the six-byte header of a TWGO file.     *)
Content(k, v) == <<k.product, v>>

SegmentOf(k, v, i) ==
    [product |-> k.product, stamp |-> CHOOSE s \in Stamps : TRUE,
     flagged |-> TRUE,
     seg |-> [file |-> k.file, total |-> Length[k], number |-> i],
     head |-> Content(k, v), tail |-> Content(k, v)]

SegmentsOf(k, V) == { SegmentOf(k, v, i) : v \in V, i \in 1..Length[k] }

AllSegments == UNION { SegmentsOf(k, Versions) : k \in Published }

ASSUME DataAssumption ==
    /\ None \notin AllSegments
    /\ Short \notin Products \X Versions

VARIABLES
    pending, status,  \* the reassembler
    schedule,         \* the number of versions to come, fixed at the start
    newest,           \* the version of each file broadcast last
    oldest,           \* the oldest version that can still be received
    reused,           \* files whose id was reused too early (see Publish)
    feed,             \* the APDUs of the current payload not yet pushed
    done,             \* files completed in the current call
    have              \* files of which the application got the newest version

R == INSTANCE ApduReassembler WITH
         Heads <- Products \X Versions, Tails <- Products \X Versions, Inputs <- AllSegments

station == <<schedule, newest, oldest, reused>>
call == <<feed, done>>
vars == <<pending, status, station, call, have>>

Init ==
    /\ R!Init
    /\ schedule \in Schedules
    /\ newest = [k \in Published |-> 1]
    /\ oldest = [k \in Published |-> 1]
    /\ reused = {}
    /\ feed = << >>
    /\ done = {}
    /\ have = {}

----------------------------------------------------------------------------
(* The station and the channel *)

OnAir(k) == oldest[k] <= newest[k]

(* What can be received now: any segment of a version still on the air,    *)
(* again and in any order.  What is never received is lost.                *)
Receivable == UNION { SegmentsOf(k, oldest[k]..newest[k]) : k \in Published }

(* The last copy of the oldest version has passed.                         *)
Fade(k) ==
    /\ OnAir(k)
    /\ newest[k] < schedule[k] \/ oldest[k] < newest[k]
    /\ oldest' = [oldest EXCEPT ![k] = @ + 1]
    /\ UNCHANGED <<pending, status, schedule, newest, reused, call, have>>

Underway(k) ==
    \/ k \in DOMAIN pending
    \/ \E i \in DOMAIN feed : R!KeyOf(feed[i]) = k

(* The station replaces a file and keeps its id.  It is too early when the *)
(* old version is still on the air or under reassembly.                    *)
Publish(k) ==
    /\ newest[k] < schedule[k]
    /\ newest' = [newest EXCEPT ![k] = @ + 1]
    /\ reused' = IF OnAir(k) \/ Underway(k) THEN reused \cup {k} ELSE reused
    /\ have' = have \ {k}
    /\ UNCHANGED <<pending, status, schedule, oldest, call>>

----------------------------------------------------------------------------
(* The application *)

Idle == feed = << >>

(* The receive window of a file is over: it holds a segment of a version   *)
(* that is not broadcast any more, or was replaced.                        *)
Outdated(k) ==
    /\ k \in DOMAIN pending
    /\ \E i \in R!Filled(pending[k]) :
          LET v == pending[k].segments[i].tail[2] IN v < newest[k] \/ v < oldest[k]

Expire(k) ==
    /\ Idle
    /\ Outdated(k)
    /\ R!Discard(k)
    /\ UNCHANGED <<station, call, have>>

(* One uplink payload, handed to reassembly_updates.  A payload that does  *)
(* not decode (apdus()? fails) pushes nothing: it is one more lost payload. *)
Call(payload) ==
    /\ Idle
    /\ feed' = payload
    /\ done' = {}
    /\ UNCHANGED <<pending, status, station, have>>

\* Files handed to the application: those completed with the newest version.
IsVersion(file, v) ==
    /\ file.count = Length[file.key]
    /\ \A i \in 1..file.count :
          LET c == Content(file.key, v) IN
            file.payload[i] = IF R!Twgo(file.key) /\ i > 1 THEN <<c>> ELSE <<c, c>>

Handed(files) ==
    { k \in Published : \E f \in files : f.key = k /\ IsVersion(f, newest[k]) }

Completions == IF status'.kind = "complete" THEN {status'.file} ELSE {}

(* One APDU is pushed.  collect() stops at the first error: the rest of    *)
(* the payload is not pushed, and what this call completed is dropped.     *)
PushOk ==
    /\ feed # << >>
    /\ R!Push(Head(feed))
    /\ status'.kind # "error"
    /\ feed' = Tail(feed)
    /\ IF Len(feed) > 1
         THEN /\ done' = done \cup Completions
              /\ UNCHANGED have
         ELSE /\ done' = {}
              /\ have' = have \cup Handed(done \cup Completions)
    /\ UNCHANGED station

PushErr ==
    /\ feed # << >>
    /\ R!Push(Head(feed))
    /\ status'.kind = "error"
    /\ feed' = << >>
    /\ done' = {}
    /\ UNCHANGED <<station, have>>

Payloads == UNION { [1..n -> Receivable] : n \in 1..MaxApdus }

Next ==
    \/ \E k \in Published : Fade(k) \/ Publish(k) \/ Expire(k)
    \/ \E payload \in Payloads : Call(payload)
    \/ PushOk
    \/ PushErr

Spec == Init /\ [][Next]_vars

(* Fairness.  The call in progress goes on.  The station repeats its files *)
(* (a carousel), so each segment of a version that stays on the air is     *)
(* received again and again in a payload of its own.  The application's    *)
(* receive window for an outdated file ends.                               *)
Fairness ==
    /\ WF_vars(PushOk \/ PushErr)
    /\ \A k \in Published : \A i \in 1..Length[k] :
          SF_vars(OnAir(k) /\ Call(<<SegmentOf(k, newest[k], i)>>))
    /\ \A k \in Published : SF_vars(Expire(k))

FairSpec == Spec /\ Fairness

----------------------------------------------------------------------------
(* Properties *)

TypeOK ==
    /\ R!TypeOK
    /\ schedule \in Schedules
    /\ newest \in [Published -> Versions]
    /\ oldest \in [Published -> 1..MaxVersion + 1]
    /\ reused \subseteq Published
    /\ feed \in Seq(AllSegments) /\ Len(feed) <= MaxApdus
    /\ have \subseteq Published

(* A completed file is one version of the file, whole and in order,        *)
(* whatever was lost, repeated or reordered on the way, unless the station *)
(* reused the id while the old version could still be received or was      *)
(* still under reassembly: push has no other means to tell versions apart. *)
CompletedFilesAreVersions ==
    status.kind = "complete" =>
        \/ \E v \in Versions : IsVersion(status.file, v)
        \/ status.key \in reused

(* A TWGO file never completes from segments of two versions, reuse or     *)
(* not, as long as the versions differ in their six-byte headers.          *)
TwgoNeverMixed ==
    status.kind = "complete" /\ R!Twgo(status.key) =>
        \E v \in Versions : IsVersion(status.file, v)

Settled == \A k \in Published : oldest[k] = newest[k]

(* Once the station settles on one version of each file, the application   *)
(* gets each: no conflict, wedged file, or error that drops the results of *)
(* a payload keeps a file away forever, given that outdated files expire.  *)
SettledFilesArrive == <>[]Settled => <>[](Published \subseteq have)

(* "Feeds all FIS-B APDUs in this UAT payload into a stateful product-file *)
(* reassembler" (uplink.rs:372): every step of a call takes one APDU and   *)
(* leaves the following ones to be fed.                                    *)
FeedsAll == [][feed # << >> => feed' \in {feed, Tail(feed)}]_vars
================================================================================
