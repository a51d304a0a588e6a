-------------------------- MODULE MCBandwidthScheduler -------------------------
(***************************************************************************)
(* Every call with at most two candidates of each traffic kind and three   *)
(* uplinks over a few ranges and sizes, under budgets from none at all to  *)
(* one that fits nearly everything; one budget is computed from the line   *)
(* rate, one divides by zero, and one call meets a message that cannot be  *)
(* encoded.                                                                *)
(***************************************************************************)
EXTENDS BandwidthScheduler

AtMost(n, S) == UNION { [1..k -> S] : k \in 0..n }

Config(override, perSecond) ==
    [override |-> override, baud |-> 300, numerator |-> 1, denominator |-> 2,
     perSecond |-> perSecond]

MCConfigs ==
    { Config(budget, n) : budget \in {0, 12, 16, 22, NoOverride}, n \in {0, 1, 4} }
      \cup { [Config(NoOverride, 1) EXCEPT !.denominator = 0] }

Near == [range : {1, 2}, size : {5, 7}]
Far == [range : {3}, size : {2, 5}]
Stations == { [range |-> r, slot |-> t, valid |-> v, size |-> 4] :
                r \in {1, 2}, t \in {1}, v \in {TRUE} }
            \cup { [range |-> 1, slot |-> 0, valid |-> v, size |-> 3] : v \in BOOLEAN }

MCInputs ==
    [heartbeat : {6}, ownship : {5}, alert : AtMost(2, Near),
     uplinks : AtMost(2, Stations), proximate : AtMost(1, Far)]
    \cup
    [heartbeat : {Unencodable, 6}, ownship : {Unencodable, 5},
     alert : { <<[range |-> 1, size |-> Unencodable]>> }, uplinks : { << >> },
     proximate : { << >> }]
================================================================================
