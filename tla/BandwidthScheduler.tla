--------------------------- MODULE BandwidthScheduler --------------------------
(***************************************************************************)
(* BandwidthManager::schedule of src/bandwidth.rs: one second's messages   *)
(* are chosen under a byte budget, the two mandatory ones first and then   *)
(* each candidate in turn, in the order of its stage, its range and, for   *)
(* an uplink, the time slot of its station, which the code drops with the  *)
(* candidate and the model keeps to speak of the order. A                  *)
(* message is its size on the line, and the size Unencodable stands for    *)
(* one that encode_frame refuses.                                          *)
(***************************************************************************)
EXTENDS Naturals, Sequences, SequencesExt, FiniteSets

CONSTANTS
    Configs,   \* the BandwidthConfigs of the managers
    Inputs,    \* the ScheduleInputs of the calls
    NoOverride \* byte_budget_override is None

Unencodable == 0

SizeOfMessage == Nat
Traffic == [range : Nat, size : SizeOfMessage]
Uplink == [range : Nat, slot : Nat, valid : BOOLEAN, size : SizeOfMessage]

ASSUME NoOverrideAssumption == NoOverride \notin Nat
ASSUME ConfigsAssumption ==
    Configs \subseteq
        [override : Nat \cup {NoOverride}, baud : Nat, numerator : Nat,
         denominator : Nat, perSecond : Nat]
ASSUME InputsAssumption ==
    Inputs \subseteq
        [heartbeat : SizeOfMessage, ownship : SizeOfMessage,
         alert : Seq(Traffic), uplinks : Seq(Uplink), proximate : Seq(Traffic)]

VARIABLES
    config,     \* the manager's configuration
    inputs,     \* the inputs of the call
    status,     \* where the call is, and how it ended
    queue,      \* the candidates to come, each with its stage
    used,       \* used_bytes
    selected,   \* the messages chosen so far, each with its stage
    refused     \* the candidates dropped so far, with the number of
                \* messages chosen at that time

vars == <<config, inputs, status, queue, used, selected, refused>>

----------------------------------------------------------------------------
(* The budget and the order of the candidates *)

DividesByZero(c) == c.override = NoOverride /\ c.denominator = 0

\* byte_budget_per_second: ten bits on the line for a byte.
ByteBudget(c) ==
    IF c.override # NoOverride THEN c.override
    ELSE (c.baud * c.numerator) \div (10 * c.denominator)

(* sort_by keeps equal keys in order: the one arrangement of the chosen    *)
(* positions of seq in which no element is less than an earlier one and    *)
(* neither of two equal ones has overtaken the other.                      *)
StableSorts(seq, chosen, Less(_, _)) ==
    LET n == Cardinality(chosen)
        InOrder(p) ==
          \A i, j \in 1..n : i < j =>
              /\ p[i] # p[j]
              /\ ~ Less(seq[p[j]], seq[p[i]])
              /\ Less(seq[p[i]], seq[p[j]]) \/ p[i] < p[j]
    IN { [k \in 1..n |-> seq[p[k]]] : p \in { p \in [1..n -> chosen] : InOrder(p) } }

Nearer(a, b) == a.range < b.range

\* Mutant: the stations of one range are left as the caller gave them.
MutantUplinkBefore(a, b) == a.range < b.range

UplinkBefore(a, b) ==
    \/ a.range < b.range
    \/ a.range = b.range /\ a.slot < b.slot

EligibleUplinks(in) ==
    StableSorts(in.uplinks, { i \in DOMAIN in.uplinks : in.uplinks[i].valid },
                UplinkBefore)

SortedTraffic(group) == StableSorts(group, DOMAIN group, Nearer)

\* A message that has no time slot has slot 0.
TrafficStage(name, group) ==
    [i \in DOMAIN group |->
        [stage |-> name, range |-> group[i].range, slot |-> 0, size |-> group[i].size]]

UplinkStage(name, group) ==
    [i \in DOMAIN group |->
        [stage |-> name, range |-> group[i].range, slot |-> group[i].slot,
         size |-> group[i].size]]

\* The uplinks of the first stage.
PrimaryLimit(c, eligible) ==
    IF c.perSecond < Len(eligible) THEN c.perSecond ELSE Len(eligible)

(* Alert traffic, the nearest uplinks up to the limit, proximate traffic,  *)
(* and then the other uplinks.                                             *)
Ordered(c, in) ==
    { LET limit == PrimaryLimit(c, e) IN
            TrafficStage("alert", a)
         \o UplinkStage("primary", SubSeq(e, 1, limit))
         \o TrafficStage("proximate", p)
         \o UplinkStage("secondary", SubSeq(e, limit + 1, Len(e))) :
      a \in SortedTraffic(in.alert), e \in EligibleUplinks(in),
      p \in SortedTraffic(in.proximate) }

----------------------------------------------------------------------------
(* The call *)

Init ==
    /\ config \in Configs
    /\ inputs \in Inputs
    /\ status = "called"
    /\ queue = << >>
    /\ used = 0
    /\ selected = << >>
    /\ refused = << >>

\* A denominator of zero panics in the division.
PanicOnBudget ==
    /\ status = "called"
    /\ DividesByZero(config)
    /\ status' = "panicked"
    /\ UNCHANGED <<config, inputs, queue, used, selected, refused>>

\* Mutant: the ownship report's size replaces the heartbeat's.
MutantPushMandatory(name, size, from, to) ==
    /\ status = from
    /\ from = "called" => ~ DividesByZero(config)
    /\ size # Unencodable
    /\ used' = size
    /\ selected' = Append(selected,
                        [stage |-> name, range |-> 0, slot |-> 0, size |-> size])
    /\ status' = to
    /\ UNCHANGED <<config, inputs, queue, refused>>

\* push_mandatory, for the heartbeat and then for the ownship report.
PushMandatory(name, size, from, to) ==
    /\ status = from
    /\ from = "called" => ~ DividesByZero(config)
    /\ size # Unencodable
    /\ used' = used + size
    /\ selected' = Append(selected,
                        [stage |-> name, range |-> 0, slot |-> 0, size |-> size])
    /\ status' = to
    /\ UNCHANGED <<config, inputs, queue, refused>>

FailMandatory(size, from) ==
    /\ status = from
    /\ from = "called" => ~ DividesByZero(config)
    /\ size = Unencodable
    /\ status' = "failed"
    /\ UNCHANGED <<config, inputs, queue, used, selected, refused>>

PushHeartbeat == PushMandatory("heartbeat", inputs.heartbeat, "called", "heartbeat")
PushOwnship == PushMandatory("ownship", inputs.ownship, "heartbeat", "ownship")

MandatoryFails ==
    \/ FailMandatory(inputs.heartbeat, "called")
    \/ FailMandatory(inputs.ownship, "heartbeat")

Order ==
    /\ status = "ownship"
    /\ queue' \in Ordered(config, inputs)
    /\ status' = "choosing"
    /\ UNCHANGED <<config, inputs, used, selected, refused>>

\* Mutant: the budget is compared before the candidate's size is added.
MutantFits(size) == used < ByteBudget(config)

\* Mutant: a message that would use the budget up is dropped.
MutantFitsExactly(size) == used + size < ByteBudget(config)

Fits(size) == used + size <= ByteBudget(config)

\* Mutant: a message that cannot be encoded is chosen all the same.
MutantSelect ==
    /\ status = "choosing"
    /\ queue # << >>
    /\ Fits(Head(queue).size)
    /\ used' = used + Head(queue).size
    /\ selected' = Append(selected, Head(queue))
    /\ queue' = Tail(queue)
    /\ UNCHANGED <<config, inputs, status, refused>>

Select ==
    /\ status = "choosing"
    /\ queue # << >>
    /\ Head(queue).size # Unencodable
    /\ Fits(Head(queue).size)
    /\ used' = used + Head(queue).size
    /\ selected' = Append(selected, Head(queue))
    /\ queue' = Tail(queue)
    /\ UNCHANGED <<config, inputs, status, refused>>

\* Mutant: the first candidate that does not fit ends the choice.
MutantDrop ==
    /\ status = "choosing"
    /\ queue # << >>
    /\ Head(queue).size # Unencodable
    /\ ~ Fits(Head(queue).size)
    /\ refused' = Append(refused, [candidate |-> Head(queue), after |-> Len(selected)])
    /\ queue' = << >>
    /\ UNCHANGED <<config, inputs, status, used, selected>>

Drop ==
    /\ status = "choosing"
    /\ queue # << >>
    /\ Head(queue).size # Unencodable
    /\ ~ Fits(Head(queue).size)
    /\ refused' = Append(refused, [candidate |-> Head(queue), after |-> Len(selected)])
    /\ queue' = Tail(queue)
    /\ UNCHANGED <<config, inputs, status, used, selected>>

\* One candidate that cannot be encoded fails the whole call.
CandidateFails ==
    /\ status = "choosing"
    /\ queue # << >>
    /\ Head(queue).size = Unencodable
    /\ status' = "failed"
    /\ UNCHANGED <<config, inputs, queue, used, selected, refused>>

Return ==
    /\ status = "choosing"
    /\ queue = << >>
    /\ status' = "returned"
    /\ UNCHANGED <<config, inputs, queue, used, selected, refused>>

Next ==
    \/ PanicOnBudget
    \/ PushHeartbeat
    \/ PushOwnship
    \/ MandatoryFails
    \/ Order
    \/ Select
    \/ Drop
    \/ CandidateFails
    \/ Return

Spec == Init /\ [][Next]_vars

----------------------------------------------------------------------------
(* Properties *)

Statuses == {"called", "panicked", "failed", "heartbeat", "ownship",
             "choosing", "returned"}
Stages == {"heartbeat", "ownship", "alert", "primary", "proximate", "secondary"}
Candidates == [stage : Stages, range : Nat, slot : Nat, size : SizeOfMessage]
Encoded == { c \in Candidates : c.size # Unencodable }
Refusals == [candidate : Encoded, after : Nat]

TypeOK ==
    /\ config \in Configs
    /\ inputs \in Inputs
    /\ status \in Statuses
    /\ queue \in Seq(Candidates)
    /\ used \in Nat
    /\ selected \in Seq(Encoded)
    /\ refused \in Seq(Refusals)

Mandatory == inputs.heartbeat + inputs.ownship

(* The budget is only ever exceeded by the two mandatory messages, and     *)
(* then nothing else is sent, so the flag over_budget_due_to_mandatory_    *)
(* messages, computed before the first candidate, is still right when the  *)
(* call returns.                                                           *)
WithinBudget ==
    status \in {"choosing", "returned"} =>
        /\ used > ByteBudget(config) => Mandatory > ByteBudget(config)
        /\ Mandatory > ByteBudget(config) => used = Mandatory /\ Len(selected) = 2

\* used_bytes is what the messages handed out take on the line.
Total(messages) == FoldSeq(LAMBDA m, sum : m.size + sum, 0, messages)
UsedIsTheTotal == used = Total(selected)

(* What was dropped would not fit on top of what was chosen, not only when *)
(* it was dropped but when the call returns, and everything chosen after   *)
(* it is smaller: no candidate makes way for a later one of its size or    *)
(* more (schedule_traffic_group and schedule_uplink_group skip and go on). *)
DroppedForWantOfRoom ==
    \A k \in DOMAIN refused :
        /\ used + refused[k].candidate.size > ByteBudget(config)
        /\ \A i \in DOMAIN selected :
              i > refused[k].after => selected[i].size < refused[k].candidate.size

InStage(messages, stage) ==
    { i \in DOMAIN messages : messages[i].stage = stage }

Dropped(stage) ==
    Cardinality({ k \in DOMAIN refused : refused[k].candidate.stage = stage })

(* A call that returns has decided on every candidate: what a stage sent   *)
(* and what it dropped add up to what the caller gave, less the uplinks    *)
(* without valid data, of which the nearest perSecond make the first stage.*)
EveryCandidateCounts ==
    status = "returned" =>
        LET Decided(stage) == Cardinality(InStage(selected, stage)) + Dropped(stage)
            valid == Cardinality({ i \in DOMAIN inputs.uplinks : inputs.uplinks[i].valid })
        IN  /\ Decided("alert") = Len(inputs.alert)
            /\ Decided("proximate") = Len(inputs.proximate)
            /\ Decided("primary") + Decided("secondary") = valid
            /\ Decided("primary") = IF config.perSecond < valid THEN config.perSecond
                                    ELSE valid

StageNumber ==
    [heartbeat |-> 1, ownship |-> 2, alert |-> 3,
     primary |-> 4, proximate |-> 5, secondary |-> 6]

\* From near to far, and the messages of one range by time slot.
NoLater(a, b) == a.range < b.range \/ (a.range = b.range /\ a.slot <= b.slot)

(* The output is in the documented order: by stage, within a stage from    *)
(* near to far with the uplinks of one range by time slot, and no uplink   *)
(* of the second stage comes from a station nearer than one of the first,  *)
(* or as near and of an earlier slot. It is so whatever was dropped in     *)
(* between.                                                                *)
DocumentedOrder ==
    \A i, j \in DOMAIN selected :
        LET a == selected[i]  b == selected[j] IN
          /\ i < j => StageNumber[a.stage] <= StageNumber[b.stage]
          /\ i < j /\ a.stage = b.stage => NoLater(a, b)
          /\ a.stage = "primary" /\ b.stage = "secondary" => NoLater(a, b)
================================================================================
