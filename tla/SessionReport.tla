------------------------------ MODULE SessionReport ----------------------------
(***************************************************************************)
(* build_session_report of src/report.rs: after the two passes over the    *)
(* session a third one, frame by frame, that also summarizes each message. *)
(* A summary of a Basic or Long Report unwinds when the payload carries    *)
(* the type code of the other; the code is not part of the session here,   *)
(* so that either may happen (CodecRelay has it bit by bit).               *)
(***************************************************************************)
EXTENDS SessionAnalysis

CONSTANT UatKinds  \* the kinds of messages that carry a UAT report

ASSUME UatKindsAssumption == UatKinds \subseteq Kinds

VARIABLES
    reports,   \* the DatagramReports so far
    unwound    \* a summary panicked

report == <<reports, unwound>>

ReportInit == Init /\ reports = << >> /\ unwound = FALSE

\* The two passes, in their order.
Analyze == AnalyzeDatagram /\ UNCHANGED report
AnalyzePanics == AnalysisPanics /\ UNCHANGED report
Validate == analyzed = Len(session) /\ ValidateDatagram /\ UNCHANGED report

Reporting == Finished /\ ~ unwound /\ Len(reports) < Len(session)

\* Mutant: the report stops at the first frame in error.
MutantFrames(d) ==
    LET good == { n \in 0..Len(d.decoded) : \A i \in 1..n : d.decoded[i] # Failed }
    IN  SubSeq(d.decoded, 1, CHOOSE n \in good : \A m \in good : m <= n)

\* One FrameReport for each result, the kind of its message or an error.
Frames(d) == d.decoded

ReportDatagram ==
    /\ Reporting
    /\ reports' = Append(reports, Frames(session[Len(reports) + 1]))
    /\ UNCHANGED <<vars, unwound>>

SummaryPanics ==
    /\ Reporting
    /\ \E i \in DOMAIN session[Len(reports) + 1].decoded :
          session[Len(reports) + 1].decoded[i] \in UatKinds
    /\ unwound' = TRUE
    /\ UNCHANGED <<vars, reports>>

ReportNext ==
    \/ Analyze \/ AnalyzePanics \/ Validate
    \/ ReportDatagram \/ SummaryPanics

ReportSpec == ReportInit /\ [][ReportNext]_<<vars, report>>

----------------------------------------------------------------------------
(* Properties *)

(* The three parts of a report tell the same story, though each decodes    *)
(* the session again: its frames are the messages and errors counted, kind *)
(* by kind, and the datagrams it shows with an error or without frames are *)
(* those that the validation has issues about.                             *)
ReportAgrees ==
    Len(reports) = Len(session) =>
        LET all == UNION { { <<k, i>> : i \in DOMAIN reports[k] } : k \in DOMAIN reports }
            Shown(what) == { f \in all : reports[f[1]][f[2]] = what }
        IN  /\ Finished
            /\ \A kind \in Kinds : Cardinality(Shown(kind)) = analysis.counts[kind]
            /\ Cardinality(Shown(Failed)) = analysis.errors
            /\ { k \in DOMAIN reports :
                   reports[k] = << >> \/ \E i \in DOMAIN reports[k] : reports[k][i] = Failed }
                 = { validation.issues[n] : n \in DOMAIN validation.issues }
================================================================================
