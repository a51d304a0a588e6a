---------------------------- MODULE SessionAnalysis ----------------------------
(***************************************************************************)
(* The two passes over a recorded session, analyze_datagrams and           *)
(* validate_datagrams of src/analysis.rs, one datagram a step. A datagram  *)
(* is what decode_messages gives for it: a sequence of message kinds and   *)
(* errors, with its size and its declared delay.                           *)
(***************************************************************************)
EXTENDS Naturals, Sequences, SequencesExt, FiniteSets

CONSTANTS
    Sessions,       \* the recorded sessions: sequences of datagrams
    Kinds,          \* the kind names of messages
    Failed,         \* a frame or a message that did not decode
    NoDelay,        \* delay_ms is None
    DelayLimit      \* 2^64: the delays are added up in a u64

ASSUME KindsAssumption == IsFiniteSet(Kinds)
ASSUME FailedAssumption == Failed \notin Kinds
ASSUME DelayAssumption == NoDelay \notin Nat /\ DelayLimit \in Nat \ {0}
ASSUME SessionsAssumption ==
    Sessions \subseteq
        Seq([size : Nat, delay : 0..DelayLimit - 1 \cup {NoDelay},
             decoded : Seq(Kinds \cup {Failed})])

VARIABLES
    session,     \* the datagrams
    checked,     \* the build checks arithmetic for overflow, as debug builds do
    analyzed,    \* how many analyze_datagrams has been through
    analysis,    \* the SessionAnalysis so far
    panicked,    \* analyze_datagrams panicked
    validated,   \* how many validate_datagrams has been through
    validation   \* the SessionValidation so far

vars == <<session, checked, analyzed, analysis, panicked, validated, validation>>

Errors(d) == { i \in DOMAIN d.decoded : d.decoded[i] = Failed }
OfKind(d, kind) == { i \in DOMAIN d.decoded : d.decoded[i] = kind }
\* Mutant: errors are counted as messages too.
MutantMessages(d) == DOMAIN d.decoded

Messages(d) == DOMAIN d.decoded \ Errors(d)

Larger(a, b) == IF a < b THEN b ELSE a

Init ==
    /\ session \in Sessions
    /\ checked \in BOOLEAN
    /\ analyzed = 0
    /\ analysis = [bytes |-> 0, delayed |-> 0, totalDelay |-> 0, messages |-> 0,
                   errors |-> 0, empty |-> 0, largest |-> 0,
                   counts |-> [kind \in Kinds |-> 0]]
    /\ panicked = FALSE
    /\ validated = 0
    /\ validation = [valid |-> 0, issues |-> << >>]

----------------------------------------------------------------------------
(* analyze_datagrams *)

Delay(d) == IF d.delay = NoDelay THEN 0 ELSE d.delay

Overflow(d) == analysis.totalDelay + Delay(d) >= DelayLimit

AnalysisPanics ==
    /\ analyzed < Len(session)
    /\ ~ panicked
    /\ checked /\ Overflow(session[analyzed + 1])
    /\ panicked' = TRUE
    /\ UNCHANGED <<session, checked, analyzed, analysis, validated, validation>>

\* Mutant: a delay replaces the sum.
MutantLastDelay(a, d) == Delay(d)

TotalDelay(a, d) == (a.totalDelay + Delay(d)) % DelayLimit

Analyzed(a, d) ==
    [bytes |-> a.bytes + d.size,
     delayed |-> a.delayed + (IF d.delay = NoDelay THEN 0 ELSE 1),
     totalDelay |-> TotalDelay(a, d),
     messages |-> a.messages + Cardinality(Messages(d)),
     errors |-> a.errors + Cardinality(Errors(d)),
     empty |-> a.empty + (IF d.decoded = << >> THEN 1 ELSE 0),
     largest |-> Larger(a.largest, Len(d.decoded)),
     counts |-> [kind \in Kinds |-> a.counts[kind] + Cardinality(OfKind(d, kind))]]

AnalyzeDatagram ==
    /\ analyzed < Len(session)
    /\ ~ panicked
    /\ ~ (checked /\ Overflow(session[analyzed + 1]))
    /\ analysis' = Analyzed(analysis, session[analyzed + 1])
    /\ analyzed' = analyzed + 1
    /\ UNCHANGED <<session, checked, panicked, validated, validation>>

IsClean == analysis.errors = 0 /\ analysis.empty = 0

----------------------------------------------------------------------------
(* validate_datagrams *)

\* One issue for an empty datagram, else one for each error.
Issues(d, index) ==
    IF d.decoded = << >> THEN <<index>>
    ELSE [i \in 1..Cardinality(Errors(d)) |-> index]

Good(d) == d.decoded # << >> /\ Errors(d) = {}

ValidateDatagram ==
    /\ validated < Len(session)
    /\ LET d == session[validated + 1] IN
         validation' =
           [valid |-> validation.valid + (IF Good(d) THEN 1 ELSE 0),
            issues |-> validation.issues \o Issues(d, validated + 1)]
    /\ validated' = validated + 1
    /\ UNCHANGED <<session, checked, analyzed, analysis, panicked>>

\* saturating_sub: never below zero.
InvalidCount ==
    IF validation.valid < Len(session) THEN Len(session) - validation.valid ELSE 0

IsValid == InvalidCount = 0

Next == AnalysisPanics \/ AnalyzeDatagram \/ ValidateDatagram

Spec == Init /\ [][Next]_vars

----------------------------------------------------------------------------
(* Properties *)

Analyses ==
    [bytes : Nat, delayed : Nat, totalDelay : 0..DelayLimit - 1, messages : Nat,
     errors : Nat, empty : Nat, largest : Nat, counts : [Kinds -> Nat]]

TypeOK ==
    /\ session \in Sessions
    /\ checked \in BOOLEAN
    /\ analyzed \in 0..Len(session)
    /\ analysis \in Analyses
    /\ panicked \in BOOLEAN
    /\ validated \in 0..Len(session)
    /\ validation \in [valid : Nat, issues : Seq(Nat)]
    /\ validation.valid <= validated

Finished == analyzed = Len(session) /\ validated = Len(session)

(* The two passes give one verdict: analyze-file calls a session clean     *)
(* exactly when validate-file calls it valid, which it does exactly when   *)
(* it has no issue to show.                                                *)
CleanIffValid ==
    Finished => /\ IsClean <=> IsValid
                /\ IsValid <=> validation.issues = << >>

(* The counts agree with each other: each result is an error or a message  *)
(* of some kind, the issues are the errors and the empty datagrams, and    *)
(* none is invented for a valid datagram.                                  *)
CountsAgree ==
    LET Sum(counts) == FoldFunction(+, 0, counts)
        results == [i \in 1..analyzed |-> Len(session[i].decoded)]
    IN  /\ analysis.messages + analysis.errors = Sum(results)
        /\ analysis.messages = Sum(analysis.counts)
        /\ \A i \in DOMAIN results : results[i] <= analysis.largest
        /\ Finished => Len(validation.issues) = analysis.errors + analysis.empty

(* The declared delay is the sum of the delays, unless it was too large    *)
(* for a u64: then a release build wraps, and a debug build panics.        *)
DelayIsTheSum ==
    LET Sum(k) == FoldFunction(+, 0, [i \in 1..k |-> Delay(session[i])]) IN
      /\ analysis.totalDelay = Sum(analyzed) % DelayLimit
      /\ checked => analysis.totalDelay = Sum(analyzed)
      /\ panicked => Sum(analyzed + 1) >= DelayLimit
================================================================================
