------------------------ MODULE BandwidthScheduler_proofs ----------------------
(***************************************************************************)
(* The byte budget, the output order and the count of the candidates, for  *)
(* every configuration and every set of candidates.                        *)
(***************************************************************************)
EXTENDS BandwidthScheduler, SequenceFacts, FunctionTheorems

(* Two candidates may follow each other in the output.                     *)
Follows(a, b) ==
    /\ StageNumber[a.stage] <= StageNumber[b.stage]
    /\ a.stage = b.stage => NoLater(a, b)
    /\ a.stage = "primary" /\ b.stage = "secondary" => NoLater(a, b)

IsOrdered(s) == \A i, j \in DOMAIN s : i < j => Follows(s[i], s[j])

(* What stable sorting gives: sequences of the same elements, sorted.      *)
LEMMA TrafficSorted ==
    ASSUME NEW g \in Seq(Traffic), NEW s \in SortedTraffic(g)
    PROVE  /\ s \in Seq(Traffic)
           /\ \A i, j \in DOMAIN s : i < j => s[i].range <= s[j].range
  <1> DEFINE n == Cardinality(DOMAIN g)
  <1>1. n \in Nat
    <2>1. DOMAIN g = 1..Len(g) /\ Len(g) \in Nat
      OBVIOUS
    <2> QED
      BY <2>1, FS_Interval, FS_CardinalityType
  <1>2. PICK p \in [1..n -> DOMAIN g] :
          /\ s = [k \in 1..n |-> g[p[k]]]
          /\ \A i, j \in 1..n : i < j => ~ (g[p[j]].range < g[p[i]].range)
    BY DEF SortedTraffic, StableSorts, Nearer
  <1>3. \A k \in 1..n : g[p[k]] \in Traffic
    OBVIOUS
  <1>4. s \in Seq(Traffic) /\ DOMAIN s = 1..n
    BY <1>1, <1>2, <1>3, IsASeq
  <1>5. ASSUME NEW i \in DOMAIN s, NEW j \in DOMAIN s, i < j
        PROVE  s[i].range <= s[j].range
    <2>1. g[p[i]].range \in Nat /\ g[p[j]].range \in Nat
      BY <1>3, <1>4, <1>5 DEF Traffic
    <2> QED
      BY <1>2, <1>4, <1>5, <2>1
  <1> QED
    BY <1>4, <1>5

LEMMA NotBefore ==
    ASSUME NEW a \in Uplink, NEW b \in Uplink, ~ UplinkBefore(b, a)
    PROVE  NoLater(a, b)
  BY DEF Uplink, UplinkBefore, NoLater

LEMMA UplinksSorted ==
    ASSUME NEW g \in Seq(Uplink),
           NEW chosen \in SUBSET DOMAIN g,
           NEW s \in StableSorts(g, chosen, UplinkBefore)
    PROVE  /\ s \in Seq(Uplink)
           /\ \A i, j \in DOMAIN s : i < j => NoLater(s[i], s[j])
  <1> DEFINE n == Cardinality(chosen)
  <1>1. n \in Nat
    <2>1. DOMAIN g = 1..Len(g) /\ Len(g) \in Nat
      OBVIOUS
    <2>2. IsFiniteSet(1..Len(g))
      BY <2>1, FS_Interval
    <2>3. IsFiniteSet(chosen)
      BY <2>1, <2>2, FS_Subset, Zenon
    <2> QED
      BY <2>3, FS_CardinalityType
  <1>2. PICK p \in [1..n -> chosen] :
          /\ s = [k \in 1..n |-> g[p[k]]]
          /\ \A i, j \in 1..n : i < j => ~ UplinkBefore(g[p[j]], g[p[i]])
    BY DEF StableSorts
  <1>3. \A k \in 1..n : g[p[k]] \in Uplink
    OBVIOUS
  <1>4. s \in Seq(Uplink) /\ DOMAIN s = 1..n
    BY <1>1, <1>2, <1>3, IsASeq
  <1>5. ASSUME NEW i \in DOMAIN s, NEW j \in DOMAIN s, i < j
        PROVE  NoLater(s[i], s[j])
    <2>1. s[i] = g[p[i]] /\ s[j] = g[p[j]] /\ s[i] \in Uplink /\ s[j] \in Uplink
      BY <1>2, <1>3, <1>4, <1>5
    <2>2. ~ UplinkBefore(g[p[j]], g[p[i]])
      BY <1>2, <1>4, <1>5
    <2>3. ~ UplinkBefore(s[j], s[i])
      BY <2>1, <2>2
    <2> HIDE DEF n
    <2> QED
      BY <2>1, <2>3, NotBefore
  <1> QED
    BY <1>4, <1>5

----------------------------------------------------------------------------
(* The queue is in output order *)

LEMMA ConcatOrdered ==
    ASSUME NEW s \in Seq(Candidates), NEW t \in Seq(Candidates),
           IsOrdered(s), IsOrdered(t),
           \A a \in Range(s), b \in Range(t) : Follows(a, b)
    PROVE  /\ s \o t \in Seq(Candidates)
           /\ IsOrdered(s \o t)
           /\ Range(s \o t) \subseteq Range(s) \cup Range(t)
  <1>1. /\ s \o t \in Seq(Candidates)
        /\ DOMAIN (s \o t) = 1..Len(s) + Len(t)
        /\ DOMAIN s = 1..Len(s) /\ DOMAIN t = 1..Len(t)
        /\ Len(s) \in Nat /\ Len(t) \in Nat
    OBVIOUS
  <1>2. ASSUME NEW i \in DOMAIN (s \o t)
        PROVE  \/ i \in DOMAIN s /\ (s \o t)[i] = s[i]
               \/ i > Len(s) /\ i - Len(s) \in DOMAIN t /\ (s \o t)[i] = t[i - Len(s)]
    BY <1>1, <1>2
  <1>3. Range(s \o t) \subseteq Range(s) \cup Range(t)
    BY <1>2 DEF Range
  <1>4. ASSUME NEW i \in DOMAIN (s \o t), NEW j \in DOMAIN (s \o t), i < j
        PROVE  Follows((s \o t)[i], (s \o t)[j])
    <2>1. CASE j \in DOMAIN s
      <3>1. i \in DOMAIN s /\ (s \o t)[i] = s[i] /\ (s \o t)[j] = s[j]
        BY <1>1, <1>4, <2>1
      <3> QED
        BY <3>1, <1>4, <2>1 DEF IsOrdered
    <2>2. CASE i \in DOMAIN s /\ j \notin DOMAIN s
      <3>1. (s \o t)[i] \in Range(s) /\ (s \o t)[j] \in Range(t)
        BY <1>2, <2>2 DEF Range
      <3> QED
        BY <3>1
    <2>3. CASE i \notin DOMAIN s /\ j \notin DOMAIN s
      <3>1. /\ i - Len(s) \in DOMAIN t /\ (s \o t)[i] = t[i - Len(s)]
            /\ j - Len(s) \in DOMAIN t /\ (s \o t)[j] = t[j - Len(s)]
        BY <1>2, <2>3
      <3>2. i - Len(s) < j - Len(s)
        BY <1>1, <1>4
      <3> QED
        BY <3>1, <3>2 DEF IsOrdered
    <2>4. i \notin DOMAIN s => j \notin DOMAIN s
      BY <1>1, <1>4
    <2> QED
      BY <2>1, <2>2, <2>3, <2>4
  <1> QED
    BY <1>1, <1>3, <1>4 DEF IsOrdered

(* The candidates of one stage, sorted.                                    *)
LEMMA StageOrdered ==
    ASSUME NEW name \in Stages, NEW s \in Seq(Candidates),
           \A i \in DOMAIN s : s[i].stage = name,
           \A i, j \in DOMAIN s : i < j => NoLater(s[i], s[j])
    PROVE  IsOrdered(s) /\ \A a \in Range(s) : a.stage = name
  <1>1. StageNumber[name] <= StageNumber[name]
    BY DEF Stages, StageNumber
  <1> QED
    BY <1>1 DEF IsOrdered, Follows, Range

LEMMA TrafficStaged ==
    ASSUME NEW name \in Stages, NEW g \in Seq(Traffic)
    PROVE  /\ TrafficStage(name, g) \in Seq(Candidates)
           /\ DOMAIN TrafficStage(name, g) = DOMAIN g
           /\ \A i \in DOMAIN g :
                 /\ TrafficStage(name, g)[i].stage = name
                 /\ TrafficStage(name, g)[i].range = g[i].range
                 /\ TrafficStage(name, g)[i].slot = 0
  <1>1. DOMAIN g = 1..Len(g) /\ Len(g) \in Nat /\ \A i \in DOMAIN g : g[i] \in Traffic
    OBVIOUS
  <1>2. DOMAIN TrafficStage(name, g) = DOMAIN g
    BY DEF TrafficStage
  <1>3. ASSUME NEW i \in DOMAIN g
        PROVE  /\ TrafficStage(name, g)[i] \in Candidates
               /\ TrafficStage(name, g)[i].stage = name
               /\ TrafficStage(name, g)[i].range = g[i].range
               /\ TrafficStage(name, g)[i].slot = 0
    BY <1>1, <1>3 DEF TrafficStage, Candidates, Traffic, SizeOfMessage
  <1>4. TrafficStage(name, g) \in Seq(Candidates)
    BY <1>1, <1>3, IsASeq DEF TrafficStage
  <1> QED
    BY <1>2, <1>3, <1>4

LEMMA UplinksStaged ==
    ASSUME NEW name \in Stages, NEW g \in Seq(Uplink)
    PROVE  /\ UplinkStage(name, g) \in Seq(Candidates)
           /\ DOMAIN UplinkStage(name, g) = DOMAIN g
           /\ \A i \in DOMAIN g :
                 /\ UplinkStage(name, g)[i].stage = name
                 /\ UplinkStage(name, g)[i].range = g[i].range
                 /\ UplinkStage(name, g)[i].slot = g[i].slot
  <1>1. DOMAIN g = 1..Len(g) /\ Len(g) \in Nat /\ \A i \in DOMAIN g : g[i] \in Uplink
    OBVIOUS
  <1>2. DOMAIN UplinkStage(name, g) = DOMAIN g
    BY DEF UplinkStage
  <1>3. ASSUME NEW i \in DOMAIN g
        PROVE  /\ UplinkStage(name, g)[i] \in Candidates
               /\ UplinkStage(name, g)[i].stage = name
               /\ UplinkStage(name, g)[i].range = g[i].range
               /\ UplinkStage(name, g)[i].slot = g[i].slot
    BY <1>1, <1>3 DEF UplinkStage, Candidates, Uplink, SizeOfMessage
  <1>4. UplinkStage(name, g) \in Seq(Candidates)
    BY <1>1, <1>3, IsASeq DEF UplinkStage
  <1> QED
    BY <1>2, <1>3, <1>4

(* Whatever the candidates, the queue is a sequence of candidates in       *)
(* output order, none of them of a mandatory stage.                        *)
LEMMA QueueOrdered ==
    ASSUME NEW c \in Configs, NEW in \in Inputs, NEW q \in Ordered(c, in)
    PROVE  /\ q \in Seq(Candidates)
           /\ IsOrdered(q)
           /\ \A a \in Range(q) : a.stage \notin {"heartbeat", "ownship"}
  <1>1. /\ c.perSecond \in Nat
        /\ in.alert \in Seq(Traffic)
        /\ in.uplinks \in Seq(Uplink)
        /\ in.proximate \in Seq(Traffic)
    BY ConfigsAssumption, InputsAssumption
  <1>2. PICK al \in SortedTraffic(in.alert), e \in EligibleUplinks(in),
             pr \in SortedTraffic(in.proximate) :
          q = TrafficStage("alert", al)
                \o UplinkStage("primary", SubSeq(e, 1, PrimaryLimit(c, e)))
                \o TrafficStage("proximate", pr)
                \o UplinkStage("secondary", SubSeq(e, PrimaryLimit(c, e) + 1, Len(e)))
    BY DEF Ordered
  <1> DEFINE m == PrimaryLimit(c, e)
             e1 == SubSeq(e, 1, m)
             e2 == SubSeq(e, m + 1, Len(e))
             A == TrafficStage("alert", al)
             P == UplinkStage("primary", e1)
             X == TrafficStage("proximate", pr)
             S == UplinkStage("secondary", e2)
  <1>3. /\ al \in Seq(Traffic)
        /\ \A i, j \in DOMAIN al : i < j => al[i].range <= al[j].range
    BY <1>1, TrafficSorted
  <1>4. /\ pr \in Seq(Traffic)
        /\ \A i, j \in DOMAIN pr : i < j => pr[i].range <= pr[j].range
    BY <1>1, TrafficSorted
  <1>5. /\ e \in Seq(Uplink)
        /\ \A i, j \in DOMAIN e : i < j => NoLater(e[i], e[j])
    <2>1. { i \in DOMAIN in.uplinks : in.uplinks[i].valid } \in SUBSET DOMAIN in.uplinks
      OBVIOUS
    <2> QED
      BY <1>1, <2>1, UplinksSorted DEF EligibleUplinks
  <1>6. m \in 0..Len(e) /\ Len(e) \in Nat
    BY <1>1, <1>5 DEF PrimaryLimit
  <1> HIDE DEF m
  <1>7. /\ e1 \in Seq(Uplink) /\ DOMAIN e1 = 1..m /\ DOMAIN e = 1..Len(e)
        /\ \A i \in DOMAIN e1 : i \in DOMAIN e /\ i <= m /\ e1[i] = e[i]
        /\ \A i \in DOMAIN e1 : e1[i] \in Uplink
    BY <1>5, <1>6
  <1>8. /\ e2 \in Seq(Uplink) /\ DOMAIN e2 = 1..Len(e) - m
        /\ \A i \in DOMAIN e2 : i + m \in DOMAIN e /\ i + m > m /\ e2[i] = e[i + m]
        /\ \A i \in DOMAIN e2 : e2[i] \in Uplink
    BY <1>5, <1>6
  <1> HIDE DEF e1, e2
  <1>9. \A i, j \in DOMAIN e1 : i < j => NoLater(e1[i], e1[j])
    BY <1>5, <1>6, <1>7
  <1>10. \A i, j \in DOMAIN e2 : i < j => NoLater(e2[i], e2[j])
    <2> SUFFICES ASSUME NEW i \in DOMAIN e2, NEW j \in DOMAIN e2, i < j
                 PROVE  NoLater(e2[i], e2[j])
      OBVIOUS
    <2>1. i + m \in DOMAIN e /\ j + m \in DOMAIN e /\ i + m < j + m
      BY <1>6, <1>8
    <2> QED
      BY <1>5, <1>8, <2>1
  <1>11. \A i \in DOMAIN e1, j \in DOMAIN e2 : NoLater(e1[i], e2[j])
    <2> SUFFICES ASSUME NEW i \in DOMAIN e1, NEW j \in DOMAIN e2
                 PROVE  NoLater(e1[i], e2[j])
      OBVIOUS
    <2>1. i \in DOMAIN e /\ j + m \in DOMAIN e /\ i < j + m
      BY <1>6, <1>7, <1>8
    <2> QED
      BY <1>5, <1>7, <1>8, <2>1
  <1>12. {"alert", "primary", "proximate", "secondary"} \subseteq Stages
    BY DEF Stages
  <1>13. /\ A \in Seq(Candidates) /\ IsOrdered(A)
         /\ \A a \in Range(A) : a.stage = "alert"
    <2>1. /\ A \in Seq(Candidates) /\ DOMAIN A = DOMAIN al
          /\ \A i \in DOMAIN al :
                A[i].stage = "alert" /\ A[i].range = al[i].range /\ A[i].slot = 0
      BY <1>3, <1>12, TrafficStaged
    <2> HIDE DEF A
    <2>2. ASSUME NEW i \in DOMAIN A, NEW j \in DOMAIN A, i < j
          PROVE  NoLater(A[i], A[j])
      <3>1. i \in DOMAIN al /\ j \in DOMAIN al
        BY <2>1, <2>2
      <3>2. al[i] \in Traffic /\ al[j] \in Traffic
        BY <1>3, <3>1
      <3>3. A[i].range \in Nat /\ A[j].range \in Nat /\ A[i].range <= A[j].range
        BY <1>3, <2>1, <2>2, <3>1, <3>2 DEF Traffic
      <3>4. A[i].slot = 0 /\ A[j].slot = 0
        BY <2>1, <3>1
      <3> QED
        BY <3>3, <3>4 DEF NoLater
    <2>3. \A i \in DOMAIN A : A[i].stage = "alert"
      BY <2>1
    <2>4. "alert" \in Stages
      BY <1>12
    <2>5. \A i, j \in DOMAIN A : i < j => NoLater(A[i], A[j])
      BY <2>2
    <2> QED
      BY <2>1, <2>3, <2>4, <2>5, StageOrdered
  <1>14. /\ P \in Seq(Candidates) /\ IsOrdered(P) /\ DOMAIN P = DOMAIN e1
         /\ \A a \in Range(P) : a.stage = "primary"
         /\ \A i \in DOMAIN P : P[i].range = e1[i].range /\ P[i].slot = e1[i].slot
    <2>0. e1 \in Seq(Uplink) /\ "primary" \in Stages
      BY <1>7, <1>12
    <2>1. /\ P \in Seq(Candidates) /\ DOMAIN P = DOMAIN e1
          /\ \A i \in DOMAIN e1 :
                P[i].stage = "primary" /\ P[i].range = e1[i].range /\ P[i].slot = e1[i].slot
      BY <2>0, UplinksStaged
    <2> HIDE DEF P
    <2>2. \A i, j \in DOMAIN P : i < j => NoLater(P[i], P[j])
      BY <1>9, <2>1 DEF NoLater
    <2> QED
      BY <1>12, <2>1, <2>2, StageOrdered
  <1>15. /\ X \in Seq(Candidates) /\ IsOrdered(X)
         /\ \A a \in Range(X) : a.stage = "proximate"
    <2>1. /\ X \in Seq(Candidates) /\ DOMAIN X = DOMAIN pr
          /\ \A i \in DOMAIN pr :
                X[i].stage = "proximate" /\ X[i].range = pr[i].range /\ X[i].slot = 0
      BY <1>4, <1>12, TrafficStaged
    <2> HIDE DEF X
    <2>2. ASSUME NEW i \in DOMAIN X, NEW j \in DOMAIN X, i < j
          PROVE  NoLater(X[i], X[j])
      <3>1. i \in DOMAIN pr /\ j \in DOMAIN pr
        BY <2>1, <2>2
      <3>2. pr[i] \in Traffic /\ pr[j] \in Traffic
        BY <1>4, <3>1
      <3>3. X[i].range \in Nat /\ X[j].range \in Nat /\ X[i].range <= X[j].range
        BY <1>4, <2>1, <2>2, <3>1, <3>2 DEF Traffic
      <3>4. X[i].slot = 0 /\ X[j].slot = 0
        BY <2>1, <3>1
      <3> QED
        BY <3>3, <3>4 DEF NoLater
    <2>3. \A i \in DOMAIN X : X[i].stage = "proximate"
      BY <2>1
    <2>4. "proximate" \in Stages
      BY <1>12
    <2>5. \A i, j \in DOMAIN X : i < j => NoLater(X[i], X[j])
      BY <2>2
    <2> QED
      BY <2>1, <2>3, <2>4, <2>5, StageOrdered
  <1>16. /\ S \in Seq(Candidates) /\ IsOrdered(S) /\ DOMAIN S = DOMAIN e2
         /\ \A a \in Range(S) : a.stage = "secondary"
         /\ \A i \in DOMAIN S : S[i].range = e2[i].range /\ S[i].slot = e2[i].slot
    <2>0. e2 \in Seq(Uplink) /\ "secondary" \in Stages
      BY <1>8, <1>12
    <2>1. /\ S \in Seq(Candidates) /\ DOMAIN S = DOMAIN e2
          /\ \A i \in DOMAIN e2 :
                S[i].stage = "secondary" /\ S[i].range = e2[i].range /\ S[i].slot = e2[i].slot
      BY <2>0, UplinksStaged
    <2> HIDE DEF S
    <2>2. \A i, j \in DOMAIN S : i < j => NoLater(S[i], S[j])
      BY <1>10, <2>1 DEF NoLater
    <2> QED
      BY <1>12, <2>1, <2>2, StageOrdered
  <1> HIDE DEF A, P, X, S
  <1>17. \A a \in Range(P), b \in Range(S) : NoLater(a, b)
    <2> SUFFICES ASSUME NEW i \in DOMAIN P, NEW j \in DOMAIN S
                 PROVE  NoLater(P[i], S[j])
      BY DEF Range
    <2>1. NoLater(e1[i], e2[j])
      BY <1>11, <1>14, <1>16
    <2> QED
      BY <1>14, <1>16, <2>1 DEF NoLater
  <1>18. /\ A \o P \in Seq(Candidates) /\ IsOrdered(A \o P)
         /\ Range(A \o P) \subseteq Range(A) \cup Range(P)
    <2>1. \A a \in Range(A), b \in Range(P) : Follows(a, b)
      BY <1>13, <1>14 DEF Follows, StageNumber
    <2> QED
      BY <1>13, <1>14, <2>1, ConcatOrdered
  <1>19. /\ A \o P \o X \in Seq(Candidates) /\ IsOrdered(A \o P \o X)
         /\ Range(A \o P \o X) \subseteq Range(A) \cup Range(P) \cup Range(X)
    <2>1. \A a \in Range(A \o P), b \in Range(X) : Follows(a, b)
      BY <1>13, <1>14, <1>15, <1>18 DEF Follows, StageNumber
    <2> QED
      BY <1>15, <1>18, <2>1, ConcatOrdered
  <1>20. /\ A \o P \o X \o S \in Seq(Candidates) /\ IsOrdered(A \o P \o X \o S)
         /\ Range(A \o P \o X \o S)
              \subseteq Range(A) \cup Range(P) \cup Range(X) \cup Range(S)
    <2>1. \A a \in Range(A \o P \o X), b \in Range(S) : Follows(a, b)
      BY <1>13, <1>14, <1>15, <1>16, <1>17, <1>19 DEF Follows, StageNumber
    <2> QED
      BY <1>16, <1>19, <2>1, ConcatOrdered
  <1>21. q = A \o P \o X \o S
    BY <1>2 DEF m, e1, e2, A, P, X, S
  <1> QED
    BY <1>13, <1>14, <1>15, <1>16, <1>20, <1>21

----------------------------------------------------------------------------
(* The inductive invariant *)

Early == {"called", "panicked", "heartbeat", "ownship"}

(* Once the mandatory messages are out, the configuration has a budget;    *)
(* before that nothing is refused and the queue is still empty.            *)
Progress ==
    /\ status \in {"heartbeat", "ownship", "choosing", "returned"}
          => ~ DividesByZero(config)
    /\ status \in Early => queue = << >>
    /\ refused # << >> => ~ DividesByZero(config)
    /\ status \in Early => refused = << >>

MandatoryFirst ==
    /\ status \in {"called", "panicked"} => used = 0 /\ selected = << >>
    /\ status = "heartbeat" =>
          /\ used = inputs.heartbeat
          /\ Len(selected) = 1 /\ selected[1].stage = "heartbeat"
    /\ status = "ownship" =>
          /\ used = Mandatory
          /\ Len(selected) = 2
          /\ selected[1].stage = "heartbeat" /\ selected[2].stage = "ownship"

(* What is chosen and what is to come, one after the other, are in output  *)
(* order.                                                                  *)
StillOrdered ==
    /\ IsOrdered(selected)
    /\ IsOrdered(queue)
    /\ \A i \in DOMAIN selected, j \in DOMAIN queue : Follows(selected[i], queue[j])

IInv ==
    /\ TypeOK
    /\ Progress
    /\ MandatoryFirst
    /\ StillOrdered
    /\ WithinBudget
    /\ DroppedForWantOfRoom

LEMMA BudgetIsNat ==
    ASSUME NEW c \in Configs, ~ DividesByZero(c)
    PROVE  ByteBudget(c) \in Nat
  <1>1. /\ c.override \in Nat \cup {NoOverride}
        /\ c.baud \in Nat /\ c.numerator \in Nat /\ c.denominator \in Nat
    BY ConfigsAssumption
  <1>2. CASE c.override # NoOverride
    BY <1>1, <1>2 DEF ByteBudget
  <1>3. CASE c.override = NoOverride
    <2>1. c.denominator # 0
      BY <1>3 DEF DividesByZero
    <2>2. /\ c.baud * c.numerator \in Nat
          /\ 10 * c.denominator \in Nat \ {0}
      BY <1>1, <2>1
    <2>3. \A x \in Nat, y \in Nat \ {0} : x \div y \in Nat
      OBVIOUS
    <2> QED
      BY <1>3, <2>2, <2>3 DEF ByteBudget
  <1> QED
    BY <1>2, <1>3

LEMMA InitEstablishes == Init => IInv
  <1> SUFFICES ASSUME Init PROVE IInv
    OBVIOUS
  <1> USE DEF Init
  <1>1. TypeOK
    BY DEF TypeOK, Statuses, Encoded, Candidates
  <1>2. Progress /\ MandatoryFirst
    BY DEF Progress, MandatoryFirst, Early
  <1>3. StillOrdered
    BY DEF StillOrdered, IsOrdered
  <1>4. WithinBudget /\ DroppedForWantOfRoom
    BY DEF WithinBudget, DroppedForWantOfRoom
  <1> QED
    BY <1>1, <1>2, <1>3, <1>4 DEF IInv

LEMMA AppendFacts ==
    ASSUME NEW S, NEW s \in Seq(S), NEW m \in S
    PROVE  /\ Append(s, m) \in Seq(S)
           /\ Len(Append(s, m)) = Len(s) + 1
           /\ DOMAIN Append(s, m) = 1..Len(s) + 1 /\ DOMAIN s = 1..Len(s)
           /\ \A i \in DOMAIN s : Append(s, m)[i] = s[i]
           /\ Append(s, m)[Len(s) + 1] = m
  OBVIOUS

LEMMA MandatoryTypes ==
    ASSUME inputs \in Inputs
    PROVE  inputs.heartbeat \in Nat /\ inputs.ownship \in Nat
  BY InputsAssumption DEF SizeOfMessage

(* push_mandatory keeps the invariant.                                     *)
LEMMA PushMandatoryKeeps ==
    ASSUME IInv, PushHeartbeat \/ PushOwnship
    PROVE  IInv'
  <1> USE DEF IInv
  <1>1. CASE PushHeartbeat
    <2> USE <1>1 DEF PushHeartbeat, PushMandatory
    <2> DEFINE msg == [stage |-> "heartbeat", range |-> 0, slot |-> 0, size |-> inputs.heartbeat]
    <2>1. /\ status = "called" /\ status' = "heartbeat" /\ ~ DividesByZero(config)
          /\ selected = << >> /\ used = 0 /\ queue = << >> /\ refused = << >>
          /\ inputs.heartbeat \in Nat
      BY MandatoryTypes DEF Progress, MandatoryFirst, TypeOK, Early
    <2>2. msg \in Encoded
      BY <2>1 DEF Encoded, Candidates, Stages, SizeOfMessage
    <2>3. selected' = <<msg>>
      BY <2>1
    <2>4. TypeOK'
      <3>1. selected' \in Seq(Encoded)
        <4> HIDE DEF msg
        <4>1. <<msg>> \in Seq(Encoded)
          BY ONLY <2>2
        <4> QED
          BY ONLY <2>3, <4>1
      <3> QED
        BY <2>1, <3>1 DEF TypeOK, Statuses
    <2>5. Progress' /\ MandatoryFirst'
      BY <2>1, <2>3 DEF Progress, MandatoryFirst, Early
    <2>6. StillOrdered'
      BY <2>1, <2>3 DEF StillOrdered, IsOrdered
    <2>7. WithinBudget' /\ DroppedForWantOfRoom'
      BY <2>1 DEF WithinBudget, DroppedForWantOfRoom
    <2> QED
      BY <2>4, <2>5, <2>6, <2>7
  <1>2. CASE PushOwnship
    <2> USE <1>2 DEF PushOwnship, PushMandatory
    <2> DEFINE msg == [stage |-> "ownship", range |-> 0, slot |-> 0, size |-> inputs.ownship]
    <2>1. /\ status = "heartbeat" /\ status' = "ownship" /\ ~ DividesByZero(config)
          /\ Len(selected) = 1 /\ used = inputs.heartbeat
          /\ selected \in Seq(Encoded) /\ selected[1].stage = "heartbeat"
          /\ queue = << >> /\ refused = << >>
          /\ inputs.heartbeat \in Nat /\ inputs.ownship \in Nat
      BY MandatoryTypes DEF Progress, MandatoryFirst, TypeOK, Early
    <2>2. msg \in Encoded
      BY <2>1 DEF Encoded, Candidates, Stages, SizeOfMessage
    <2>3. /\ selected' \in Seq(Encoded) /\ Len(selected') = 2
          /\ selected'[1] = selected[1] /\ selected'[2] = msg
      <3>1. selected' = Append(selected, msg)
        BY <2>1
      <3> HIDE DEF msg
      <3> QED
        BY <2>1, <2>2, <3>1, AppendFacts
    <2>4. TypeOK'
      BY <2>1, <2>3 DEF TypeOK, Statuses
    <2>5. Progress' /\ MandatoryFirst'
      BY <2>1, <2>3 DEF Progress, MandatoryFirst, Early, Mandatory
    <2>6. StillOrdered'
      <3>1. Follows(selected'[1], selected'[2])
        BY <2>1, <2>3 DEF Follows, StageNumber
      <3> QED
        BY <2>1, <2>3, <3>1 DEF StillOrdered, IsOrdered
    <2>7. WithinBudget' /\ DroppedForWantOfRoom'
      BY <2>1 DEF WithinBudget, DroppedForWantOfRoom
    <2> QED
      BY <2>4, <2>5, <2>6, <2>7
  <1> QED
    BY <1>1, <1>2

(* The steps that only say how the call goes on or ends.                   *)
LEMMA EndingKeeps ==
    ASSUME IInv, PanicOnBudget \/ MandatoryFails \/ CandidateFails \/ Return
    PROVE  IInv'
  <1>1. /\ UNCHANGED <<config, inputs, queue, used, selected, refused>>
        /\ \/ status = "called" /\ status' = "panicked"
           \/ status' = "failed"
           \/ status = "choosing" /\ status' = "returned"
    BY DEF PanicOnBudget, MandatoryFails, FailMandatory, CandidateFails, Return
  <1>2. TypeOK'
    BY <1>1 DEF IInv, TypeOK, Statuses
  <1>3. Progress' /\ MandatoryFirst'
    BY <1>1 DEF IInv, Progress, MandatoryFirst, Early
  <1>4. StillOrdered'
    BY <1>1 DEF IInv, StillOrdered, IsOrdered
  <1>5. WithinBudget'
    BY <1>1 DEF IInv, WithinBudget, Mandatory
  <1>6. DroppedForWantOfRoom'
    BY <1>1 DEF IInv, DroppedForWantOfRoom
  <1> QED
    BY <1>2, <1>3, <1>4, <1>5, <1>6 DEF IInv

LEMMA OrderKeeps ==
    ASSUME IInv, Order
    PROVE  IInv'
  <1>1. /\ status = "ownship" /\ status' = "choosing"
        /\ queue' \in Ordered(config, inputs)
        /\ UNCHANGED <<config, inputs, used, selected, refused>>
    BY DEF Order
  <1>2. /\ refused = << >> /\ ~ DividesByZero(config)
        /\ used = Mandatory /\ Len(selected) = 2
        /\ selected \in Seq(Encoded)
        /\ selected[1].stage = "heartbeat" /\ selected[2].stage = "ownship"
        /\ config \in Configs /\ inputs \in Inputs
    BY <1>1 DEF IInv, Progress, MandatoryFirst, TypeOK, Early
  <1>3. /\ queue' \in Seq(Candidates)
        /\ IsOrdered(queue')
        /\ \A a \in Range(queue') : a.stage \notin {"heartbeat", "ownship"}
    BY <1>1, <1>2, QueueOrdered
  <1>4. TypeOK'
    BY <1>1, <1>3 DEF IInv, TypeOK, Statuses
  <1>5. Progress' /\ MandatoryFirst'
    BY <1>1, <1>2 DEF Progress, MandatoryFirst, Early
  <1>6. StillOrdered'
    <2>1. ASSUME NEW i \in DOMAIN selected, NEW j \in DOMAIN queue'
          PROVE  Follows(selected[i], queue'[j])
      <3>1. queue'[j] \in Candidates /\ queue'[j] \in Range(queue')
        BY <1>3, <2>1 DEF Range
      <3>2. selected[i].stage \in {"heartbeat", "ownship"}
        BY <1>2, <2>1
      <3> QED
        BY <1>3, <3>1, <3>2 DEF Follows, StageNumber, Candidates, Stages
    <2> QED
      BY <1>1, <1>3, <2>1 DEF IInv, StillOrdered, IsOrdered
  <1>7. WithinBudget'
    BY <1>1, <1>2 DEF WithinBudget, Mandatory
  <1>8. DroppedForWantOfRoom'
    BY <1>1, <1>2 DEF DroppedForWantOfRoom
  <1> QED
    BY <1>4, <1>5, <1>6, <1>7, <1>8 DEF IInv

LEMMA QueueFacts ==
    ASSUME IInv, queue # << >>
    PROVE  /\ Head(queue) \in Candidates /\ Head(queue) = queue[1]
           /\ Tail(queue) \in Seq(Candidates)
           /\ \A i \in DOMAIN Tail(queue) :
                 i + 1 \in DOMAIN queue /\ 1 < i + 1 /\ Tail(queue)[i] = queue[i + 1]
           /\ 1 \in DOMAIN queue
           /\ DOMAIN Tail(queue) \subseteq Nat
           /\ IsOrdered(Tail(queue))
           /\ \A j \in DOMAIN Tail(queue) : Follows(Head(queue), Tail(queue)[j])
  <1>1. queue \in Seq(Candidates)
    BY DEF IInv, TypeOK
  <1>2. /\ Head(queue) \in Candidates /\ Head(queue) = queue[1]
        /\ Tail(queue) \in Seq(Candidates)
        /\ \A i \in DOMAIN Tail(queue) :
              i + 1 \in DOMAIN queue /\ 1 < i + 1 /\ Tail(queue)[i] = queue[i + 1]
        /\ 1 \in DOMAIN queue
        /\ DOMAIN Tail(queue) \subseteq Nat
    BY <1>1
  <1>3. IsOrdered(queue)
    BY DEF IInv, StillOrdered
  <1>4. ASSUME NEW i \in DOMAIN Tail(queue), NEW j \in DOMAIN Tail(queue), i < j
        PROVE  Follows(Tail(queue)[i], Tail(queue)[j])
    <2>1. i + 1 \in DOMAIN queue /\ j + 1 \in DOMAIN queue /\ i + 1 < j + 1
      BY <1>2, <1>4
    <2> QED
      BY <1>2, <1>3, <2>1 DEF IsOrdered
  <1>5. \A j \in DOMAIN Tail(queue) : Follows(Head(queue), Tail(queue)[j])
    BY <1>2, <1>3 DEF IsOrdered
  <1> QED
    BY <1>2, <1>4, <1>5 DEF IsOrdered

LEMMA SelectKeeps ==
    ASSUME IInv, Select
    PROVE  IInv'
  <1> DEFINE m == Head(queue)
  <1>1. /\ status = "choosing" /\ queue # << >> /\ m.size # Unencodable
        /\ used + m.size <= ByteBudget(config)
        /\ used' = used + m.size /\ selected' = Append(selected, m)
        /\ queue' = Tail(queue)
        /\ UNCHANGED <<config, inputs, status, refused>>
    BY DEF Select, Fits
  <1>2. /\ used \in Nat /\ m \in Encoded /\ m.size \in Nat
        /\ selected \in Seq(Encoded) /\ ByteBudget(config) \in Nat
    <2>1. m \in Candidates
      BY <1>1, QueueFacts
    <2>2. ~ DividesByZero(config) /\ config \in Configs
      BY <1>1 DEF IInv, Progress, TypeOK
    <2> QED
      BY <1>1, <2>1, <2>2, BudgetIsNat DEF IInv, TypeOK, Encoded, Candidates, SizeOfMessage
  <1> HIDE DEF m
  <1>3. /\ selected' \in Seq(Encoded)
        /\ Len(selected') = Len(selected) + 1 /\ Len(selected) \in Nat
        /\ DOMAIN selected' = 1..Len(selected) + 1 /\ DOMAIN selected = 1..Len(selected)
        /\ \A i \in DOMAIN selected : selected'[i] = selected[i]
        /\ selected'[Len(selected) + 1] = m
    BY <1>1, <1>2, AppendFacts
  <1>4. TypeOK'
    BY <1>1, <1>2, <1>3, QueueFacts DEF IInv, TypeOK
  <1>5. Progress' /\ MandatoryFirst'
    BY <1>1 DEF IInv, Progress, MandatoryFirst, Early
  <1>6. StillOrdered'
    <2>1. \A i \in DOMAIN selected : Follows(selected[i], m)
      BY <1>1, QueueFacts DEF IInv, StillOrdered, m
    <2>2. ASSUME NEW i \in DOMAIN selected', NEW j \in DOMAIN selected', i < j
          PROVE  Follows(selected'[i], selected'[j])
      <3>1. CASE j \in DOMAIN selected
        <4>1. i \in DOMAIN selected
          BY <1>3, <2>2, <3>1
        <4> QED
          BY <1>3, <2>2, <3>1, <4>1 DEF IInv, StillOrdered, IsOrdered
      <3>2. CASE j = Len(selected) + 1
        <4>1. i \in DOMAIN selected
          BY <1>3, <2>2, <3>2
        <4> QED
          BY <1>3, <2>1, <3>2, <4>1
      <3> QED
        BY <1>3, <2>2, <3>1, <3>2
    <2>3. ASSUME NEW i \in DOMAIN selected', NEW j \in DOMAIN queue'
          PROVE  Follows(selected'[i], queue'[j])
      <3>1. CASE i \in DOMAIN selected
        BY <1>1, <1>3, <2>3, <3>1, QueueFacts DEF IInv, StillOrdered
      <3>2. CASE i = Len(selected) + 1
        BY <1>1, <1>3, <2>3, <3>2, QueueFacts DEF m
      <3> QED
        BY <1>3, <2>3, <3>1, <3>2
    <2>4. IsOrdered(queue')
      BY <1>1, QueueFacts
    <2> QED
      BY <2>2, <2>3, <2>4 DEF StillOrdered, IsOrdered
  <1>7. WithinBudget'
    <2>1. ~ (Mandatory > ByteBudget(config))
      BY <1>1, <1>2 DEF IInv, WithinBudget
    <2>2. ~ (used' > ByteBudget(config))
      BY <1>1, <1>2
    <2>3. Mandatory' = Mandatory /\ ByteBudget(config)' = ByteBudget(config)
      BY <1>1 DEF Mandatory, ByteBudget
    <2> QED
      BY <2>1, <2>2, <2>3 DEF WithinBudget
  <1>8. DroppedForWantOfRoom'
    <2> SUFFICES ASSUME NEW k \in DOMAIN refused
                 PROVE  /\ used' + refused[k].candidate.size > ByteBudget(config)
                        /\ \A i \in DOMAIN selected' : i > refused[k].after
                              => selected'[i].size < refused[k].candidate.size
      BY <1>1 DEF DroppedForWantOfRoom
    <2> DEFINE size == refused[k].candidate.size
    <2>1. size \in Nat
      <3>0. refused \in Seq(Refusals)
        BY DEF IInv, TypeOK
      <3>1. refused[k] \in Refusals
        BY <3>0
      <3>2. refused[k].candidate \in Encoded
        BY <3>1 DEF Refusals
      <3> QED
        BY <3>2 DEF Encoded, Candidates, SizeOfMessage
    <2>2. /\ used + size > ByteBudget(config)
          /\ \A i \in DOMAIN selected : i > refused[k].after => selected[i].size < size
      BY DEF IInv, DroppedForWantOfRoom
    <2> HIDE DEF size
    <2>3. used' + size > ByteBudget(config) /\ m.size < size
      BY <1>1, <1>2, <2>1, <2>2
    <2>4. \A i \in DOMAIN selected' : i > refused[k].after => selected'[i].size < size
      BY <1>3, <2>2, <2>3
    <2> QED
      BY <2>3, <2>4 DEF size
  <1> QED
    BY <1>4, <1>5, <1>6, <1>7, <1>8 DEF IInv

LEMMA DropKeeps ==
    ASSUME IInv, Drop
    PROVE  IInv'
  <1> DEFINE r == [candidate |-> Head(queue), after |-> Len(selected)]
  <1>1. /\ status = "choosing" /\ queue # << >>
        /\ Head(queue).size # Unencodable
        /\ ~ (used + Head(queue).size <= ByteBudget(config))
        /\ refused' = Append(refused, r)
        /\ queue' = Tail(queue)
        /\ UNCHANGED <<config, inputs, status, used, selected>>
    BY DEF Drop, Fits
  <1>2. /\ used \in Nat /\ Head(queue) \in Encoded /\ Head(queue).size \in Nat
        /\ ByteBudget(config) \in Nat /\ ~ DividesByZero(config)
    <2>1. Head(queue) \in Candidates
      BY <1>1, QueueFacts
    <2>2. ~ DividesByZero(config) /\ config \in Configs
      BY <1>1 DEF IInv, Progress, TypeOK
    <2> QED
      BY <1>1, <2>1, <2>2, BudgetIsNat DEF IInv, TypeOK, Encoded, Candidates, SizeOfMessage
  <1>3. /\ r \in Refusals
        /\ r.candidate = Head(queue) /\ r.after = Len(selected)
        /\ DOMAIN selected = 1..Len(selected) /\ Len(selected) \in Nat
    BY <1>2 DEF IInv, TypeOK, Refusals
  <1> HIDE DEF r
  <1>4. /\ refused' \in Seq(Refusals)
        /\ DOMAIN refused' = 1..Len(refused) + 1 /\ DOMAIN refused = 1..Len(refused)
        /\ \A k \in DOMAIN refused : refused'[k] = refused[k]
        /\ refused'[Len(refused) + 1] = r
        /\ Len(refused) \in Nat
    BY <1>1, <1>3, AppendFacts DEF IInv, TypeOK
  <1>5. TypeOK'
    BY <1>1, <1>4, QueueFacts DEF IInv, TypeOK
  <1>6. Progress' /\ MandatoryFirst'
    BY <1>1, <1>2 DEF IInv, Progress, MandatoryFirst, Early, DividesByZero
  <1>7. StillOrdered'
    <2>1. \A i \in DOMAIN selected, j \in DOMAIN Tail(queue) :
            Follows(selected[i], Tail(queue)[j])
      BY <1>1, QueueFacts DEF IInv, StillOrdered
    <2>2. IsOrdered(Tail(queue))
      BY <1>1, QueueFacts
    <2> QED
      BY <1>1, <2>1, <2>2 DEF IInv, StillOrdered, IsOrdered
  <1>8. WithinBudget'
    BY <1>1 DEF IInv, WithinBudget, Mandatory, ByteBudget
  <1>9. DroppedForWantOfRoom'
    <2> SUFFICES ASSUME NEW k \in DOMAIN refused'
                 PROVE  /\ used + refused'[k].candidate.size > ByteBudget(config)
                        /\ \A i \in DOMAIN selected : i > refused'[k].after
                              => selected[i].size < refused'[k].candidate.size
      BY <1>1 DEF DroppedForWantOfRoom
    <2>1. CASE k \in DOMAIN refused
      BY <1>4, <2>1 DEF IInv, DroppedForWantOfRoom
    <2>2. CASE k = Len(refused) + 1
      BY <1>1, <1>2, <1>3, <1>4, <2>2
    <2> QED
      BY <1>4, <2>1, <2>2
  <1> QED
    BY <1>5, <1>6, <1>7, <1>8, <1>9 DEF IInv

LEMMA NextKeeps == IInv /\ [Next]_vars => IInv'
  <1> SUFFICES ASSUME IInv, [Next]_vars PROVE IInv'
    OBVIOUS
  <1>1. CASE PanicOnBudget \/ MandatoryFails \/ CandidateFails \/ Return
    BY <1>1, EndingKeeps
  <1>2. CASE PushHeartbeat \/ PushOwnship
    BY <1>2, PushMandatoryKeeps
  <1>3. CASE Order
    BY <1>3, OrderKeeps
  <1>4. CASE Select
    BY <1>4, SelectKeeps
  <1>5. CASE Drop
    BY <1>5, DropKeeps
  <1>6. CASE UNCHANGED vars
    BY <1>6 DEF vars, IInv, TypeOK, Progress, MandatoryFirst, Early, StillOrdered,
                IsOrdered, WithinBudget, Mandatory, DroppedForWantOfRoom
  <1> QED
    BY <1>1, <1>2, <1>3, <1>4, <1>5, <1>6 DEF Next

LEMMA OrderedOutput ==
    ASSUME IInv
    PROVE  DocumentedOrder
  <1> SUFFICES ASSUME NEW i \in DOMAIN selected, NEW j \in DOMAIN selected
               PROVE  LET a == selected[i]  b == selected[j] IN
                        /\ i < j => StageNumber[a.stage] <= StageNumber[b.stage]
                        /\ i < j /\ a.stage = b.stage => NoLater(a, b)
                        /\ a.stage = "primary" /\ b.stage = "secondary" => NoLater(a, b)
    BY DEF DocumentedOrder
  <1>1. i < j => Follows(selected[i], selected[j])
    BY DEF IInv, StillOrdered, IsOrdered
  <1>2. j < i => Follows(selected[j], selected[i])
    BY DEF IInv, StillOrdered, IsOrdered
  <1>3. i \in Nat /\ j \in Nat
    BY DEF IInv, TypeOK
  <1>4. i < j \/ j < i \/ i = j
    BY <1>3
  <1> QED
    BY <1>1, <1>2, <1>4 DEF Follows, StageNumber

----------------------------------------------------------------------------
(* The theorems *)

(* The invariant holds in every state of every call.                       *)
THEOREM Invariance == Spec => []IInv
  BY InitEstablishes, NextKeeps, PTL DEF Spec

(* The state of the call has its types: in particular nothing that cannot  *)
(* be encoded is ever chosen or counted as dropped.                        *)
THEOREM TypeCorrect == Spec => []TypeOK
  <1>1. IInv => TypeOK
    BY DEF IInv
  <1> QED
    BY Invariance, <1>1, PTL

(* Only the mandatory messages can exceed the budget, and then alone.      *)
THEOREM BudgetIsKept == Spec => []WithinBudget
  <1>1. IInv => WithinBudget
    BY DEF IInv
  <1> QED
    BY Invariance, <1>1, PTL

(* Nothing is dropped that would still fit at the end, or that makes way   *)
(* for a message of its size.                                              *)
THEOREM NothingIsDroppedInVain == Spec => []DroppedForWantOfRoom
  <1>1. IInv => DroppedForWantOfRoom
    BY DEF IInv
  <1> QED
    BY Invariance, <1>1, PTL

(* The output comes in the documented order of stages and ranges.          *)
THEOREM OutputIsInOrder == Spec => []DocumentedOrder
  BY Invariance, OrderedOutput, PTL
----------------------------------------------------------------------------
(* Counting: a call that returns has decided on every candidate, and none  *)
(* is lost between the sorted groups, the queue and the output.            *)

(* The positions of a sequence that hold an element of T.                  *)
Places(s, T) == { i \in DOMAIN s : s[i] \in T }

LEMMA PlacesFinite ==
    ASSUME NEW S, NEW s \in Seq(S), NEW T
    PROVE  /\ IsFiniteSet(Places(s, T))
           /\ Places(s, T) \subseteq 1..Len(s)
           /\ Cardinality(Places(s, T)) \in Nat
  <1>1. DOMAIN s = 1..Len(s) /\ Len(s) \in Nat
    OBVIOUS
  <1>2. IsFiniteSet(1..Len(s))
    BY <1>1, FS_Interval
  <1>3. Places(s, T) \in SUBSET (1..Len(s))
    BY <1>1 DEF Places
  <1>4. IsFiniteSet(Places(s, T))
    BY <1>2, <1>3, FS_Subset, Zenon
  <1> QED
    BY <1>3, <1>4, FS_CardinalityType

(* Moving positions on by k does not change their number.                  *)
LEMMA Shifted ==
    ASSUME NEW k \in Nat, NEW S \in SUBSET Nat, IsFiniteSet(S)
    PROVE  /\ IsFiniteSet({ i + k : i \in S })
           /\ Cardinality({ i + k : i \in S }) = Cardinality(S)
  <1> DEFINE f == [i \in S |-> i + k]
             to == { i + k : i \in S }
  <1>1. f \in [S -> to]
    OBVIOUS
  <1>2. \A a, b \in S : f[a] = f[b] => a = b
    OBVIOUS
  <1>3. \A t \in to : \E s \in S : f[s] = t
    OBVIOUS
  <1> HIDE DEF f, to
  <1>4. f \in Bijection(S, to)
    BY <1>1, <1>2, <1>3, Fun_IsBij, Zenon
  <1>5. ExistsBijection(S, to)
    BY <1>4 DEF ExistsBijection
  <1>6. IsFiniteSet(to) /\ Cardinality(to) = Cardinality(S)
    BY <1>5, FS_Bijection, Zenon
  <1> QED
    BY <1>6 DEF to

(* Places of two sequences, one after the other.                           *)
LEMMA PlacesConcat ==
    ASSUME NEW S, NEW s \in Seq(S), NEW t \in Seq(S), NEW T
    PROVE  Cardinality(Places(s \o t, T))
             = Cardinality(Places(s, T)) + Cardinality(Places(t, T))
  <1> DEFINE n == Len(s)
             moved == { i + n : i \in Places(t, T) }
  <1>1. /\ n \in Nat /\ Len(t) \in Nat
        /\ DOMAIN s = 1..n /\ DOMAIN t = 1..Len(t) /\ DOMAIN (s \o t) = 1..n + Len(t)
        /\ \A i \in 1..n : (s \o t)[i] = s[i]
        /\ \A i \in 1..Len(t) : (s \o t)[i + n] = t[i]
    OBVIOUS
  <1>2. /\ IsFiniteSet(Places(s, T)) /\ IsFiniteSet(Places(t, T))
        /\ Cardinality(Places(s, T)) \in Nat /\ Cardinality(Places(t, T)) \in Nat
        /\ Places(t, T) \in SUBSET Nat
    BY <1>1, PlacesFinite
  <1>3. IsFiniteSet(moved) /\ Cardinality(moved) = Cardinality(Places(t, T))
    BY <1>1, <1>2, Shifted
  <1>4. Places(s \o t, T) = Places(s, T) \cup moved
    <2> HIDE DEF n
    <2>1. \A i \in Places(s \o t, T) : i \in Places(s, T) \cup moved
      <3> SUFFICES ASSUME NEW i \in Places(s \o t, T), i \notin Places(s, T)
                   PROVE  i - n \in Places(t, T) /\ i = (i - n) + n
        OBVIOUS
      <3>1. i \in 1..n + Len(t) /\ (s \o t)[i] \in T
        BY <1>1 DEF Places
      <3>2. i \notin 1..n
        BY <1>1, <3>1 DEF Places
      <3>3. i - n \in 1..Len(t) /\ i = (i - n) + n
        BY <1>1, <3>1, <3>2
      <3>4. t[i - n] = (s \o t)[i]
        BY <1>1, <3>3
      <3> QED
        BY <1>1, <3>1, <3>3, <3>4 DEF Places
    <2>2. \A i \in Places(s, T) : i \in Places(s \o t, T)
      BY <1>1 DEF Places
    <2>3. \A i \in Places(t, T) : i + n \in Places(s \o t, T)
      BY <1>1 DEF Places
    <2> QED
      BY <2>1, <2>2, <2>3
  <1>5. Places(s, T) \cap moved = {}
    BY <1>1 DEF Places
  <1> HIDE DEF moved, n
  <1>6. Cardinality(Places(s, T) \cup moved)
          = Cardinality(Places(s, T)) + Cardinality(moved) - 0
    BY <1>2, <1>3, <1>5, FS_Union, FS_EmptySet
  <1> QED
    BY <1>2, <1>3, <1>4, <1>6

LEMMA PlacesOfOne ==
    ASSUME NEW S, NEW m \in S, NEW T
    PROVE  /\ <<m>> \in Seq(S)
           /\ Cardinality(Places(<<m>>, T)) = IF m \in T THEN 1 ELSE 0
  <1> DEFINE s == <<m>>
  <1>1. s \in Seq(S) /\ DOMAIN s = 1..1 /\ s[1] = m
    OBVIOUS
  <1> HIDE DEF s
  <1>2. CASE m \in T
    <2>1. Places(s, T) = {1}
      BY <1>1, <1>2 DEF Places
    <2> QED
      BY <1>1, <1>2, <2>1, FS_Singleton DEF s
  <1>3. CASE m \notin T
    <2>1. Places(s, T) = {}
      BY <1>1, <1>3 DEF Places
    <2> QED
      BY <1>1, <1>3, <2>1, FS_EmptySet DEF s
  <1> QED
    BY <1>2, <1>3

LEMMA PlacesAppend ==
    ASSUME NEW S, NEW s \in Seq(S), NEW m \in S, NEW T
    PROVE  Cardinality(Places(Append(s, m), T))
             = Cardinality(Places(s, T)) + (IF m \in T THEN 1 ELSE 0)
  <1>1. Append(s, m) = s \o <<m>>
    OBVIOUS
  <1>2. <<m>> \in Seq(S) /\ Cardinality(Places(<<m>>, T)) = IF m \in T THEN 1 ELSE 0
    BY PlacesOfOne
  <1>3. Cardinality(Places(s \o <<m>>, T))
          = Cardinality(Places(s, T)) + Cardinality(Places(<<m>>, T))
    <2> DEFINE t == <<m>>
    <2>1. t \in Seq(S)
      BY <1>2
    <2> HIDE DEF t
    <2>2. Cardinality(Places(s \o t, T)) = Cardinality(Places(s, T)) + Cardinality(Places(t, T))
      BY <2>1, PlacesConcat
    <2> QED
      BY <2>2 DEF t
  <1> QED
    BY <1>1, <1>2, <1>3, Zenon

LEMMA PlacesTail ==
    ASSUME NEW S, NEW s \in Seq(S), s # << >>, NEW T
    PROVE  Cardinality(Places(s, T))
             = (IF Head(s) \in T THEN 1 ELSE 0) + Cardinality(Places(Tail(s), T))
  <1>1. /\ s = <<Head(s)>> \o Tail(s)
        /\ Head(s) \in S /\ Tail(s) \in Seq(S)
    OBVIOUS
  <1>2. /\ <<Head(s)>> \in Seq(S)
        /\ Cardinality(Places(<<Head(s)>>, T)) = IF Head(s) \in T THEN 1 ELSE 0
    BY <1>1, PlacesOfOne
  <1>3. Cardinality(Places(<<Head(s)>> \o Tail(s), T))
          = Cardinality(Places(<<Head(s)>>, T)) + Cardinality(Places(Tail(s), T))
    <2> DEFINE h == <<Head(s)>>
               t == Tail(s)
    <2>1. h \in Seq(S) /\ t \in Seq(S)
      BY <1>1, <1>2
    <2> HIDE DEF h, t
    <2>2. Cardinality(Places(h \o t, T)) = Cardinality(Places(h, T)) + Cardinality(Places(t, T))
      BY <2>1, PlacesConcat
    <2> QED
      BY <2>2 DEF h, t
  <1> QED
    BY <1>1, <1>2, <1>3, Zenon

----------------------------------------------------------------------------
(* The candidates of a stage *)

Of(stage) == { c \in Candidates : c.stage = stage }
RefusedOf(stage) == { r \in Refusals : r.candidate.stage = stage }

LEMMA InStageIsPlaces ==
    ASSUME NEW s \in Seq(Candidates), NEW stage
    PROVE  InStage(s, stage) = Places(s, Of(stage))
  <1>1. \A i \in DOMAIN s : s[i] \in Candidates
    OBVIOUS
  <1> QED
    BY <1>1 DEF InStage, Places, Of

LEMMA DroppedIsPlaces ==
    ASSUME refused \in Seq(Refusals), NEW stage
    PROVE  Dropped(stage) = Cardinality(Places(refused, RefusedOf(stage)))
  <1>1. \A i \in DOMAIN refused : refused[i] \in Refusals
    OBVIOUS
  <1>2. { k \in DOMAIN refused : refused[k].candidate.stage = stage }
          = Places(refused, RefusedOf(stage))
    BY <1>1 DEF Places, RefusedOf
  <1> QED
    BY <1>2 DEF Dropped

(* A stage of the queue holds a candidate for each member of its group.    *)
LEMMA StageCounts ==
    ASSUME NEW name, NEW s \in Seq(Candidates), NEW n \in Nat, DOMAIN s = 1..n,
           \A i \in 1..n : s[i].stage = name, NEW stage
    PROVE  Cardinality(Places(s, Of(stage))) = IF stage = name THEN n ELSE 0
  <1>1. \A i \in 1..n : s[i] \in Candidates
    OBVIOUS
  <1>2. CASE stage = name
    <2>1. Places(s, Of(stage)) = 1..n
      BY <1>1, <1>2 DEF Places, Of
    <2> QED
      BY <1>2, <2>1, FS_Interval
  <1>3. CASE stage # name
    <2>1. Places(s, Of(stage)) = {}
      BY <1>1, <1>3 DEF Places, Of
    <2> QED
      BY <1>3, <2>1, FS_EmptySet
  <1> QED
    BY <1>2, <1>3

----------------------------------------------------------------------------
(* What each stage is given *)

ValidUplinks(in) == Cardinality({ i \in DOMAIN in.uplinks : in.uplinks[i].valid })

Primaries(c, in) ==
    IF c.perSecond < ValidUplinks(in) THEN c.perSecond ELSE ValidUplinks(in)

Given(c, in, stage) ==
    CASE stage = "alert" -> Len(in.alert)
      [] stage = "proximate" -> Len(in.proximate)
      [] stage = "primary" -> Primaries(c, in)
      [] stage = "secondary" -> ValidUplinks(in) - Primaries(c, in)

Optional == {"alert", "primary", "proximate", "secondary"}

(* Sorting loses nothing and doubles nothing.                              *)
LEMMA TrafficCount ==
    ASSUME NEW g \in Seq(Traffic), NEW s \in SortedTraffic(g)
    PROVE  s \in Seq(Traffic) /\ DOMAIN s = 1..Len(g) /\ Len(g) \in Nat
  <1>1. DOMAIN g = 1..Len(g) /\ Len(g) \in Nat
    OBVIOUS
  <1>2. Cardinality(DOMAIN g) = Len(g)
    BY <1>1, FS_Interval
  <1>3. DOMAIN s = 1..Cardinality(DOMAIN g)
    BY DEF SortedTraffic, StableSorts
  <1> QED
    BY <1>1, <1>2, <1>3, TrafficSorted

LEMMA UplinkCount ==
    ASSUME NEW in, in.uplinks \in Seq(Uplink), NEW e \in EligibleUplinks(in)
    PROVE  e \in Seq(Uplink) /\ Len(e) = ValidUplinks(in) /\ ValidUplinks(in) \in Nat
  <1> DEFINE chosen == { i \in DOMAIN in.uplinks : in.uplinks[i].valid }
  <1>1. chosen \in SUBSET DOMAIN in.uplinks
    OBVIOUS
  <1>2. Cardinality(chosen) \in Nat
    <2>1. DOMAIN in.uplinks = 1..Len(in.uplinks) /\ Len(in.uplinks) \in Nat
      OBVIOUS
    <2>2. IsFiniteSet(1..Len(in.uplinks))
      BY <2>1, FS_Interval
    <2>3. IsFiniteSet(chosen)
      BY <1>1, <2>1, <2>2, FS_Subset, Zenon
    <2> QED
      BY <2>3, FS_CardinalityType
  <1>3. e \in StableSorts(in.uplinks, chosen, UplinkBefore)
    BY DEF EligibleUplinks
  <1>4. e \in Seq(Uplink)
    BY <1>1, <1>3, UplinksSorted
  <1>5. DOMAIN e = 1..Cardinality(chosen)
    BY <1>3 DEF StableSorts
  <1> QED
    BY <1>2, <1>4, <1>5 DEF ValidUplinks

LEMMA QueueCounts ==
    ASSUME NEW c \in Configs, NEW in \in Inputs, NEW q \in Ordered(c, in),
           NEW stage \in Optional
    PROVE  Cardinality(Places(q, Of(stage))) = Given(c, in, stage)
  <1>1. /\ c.perSecond \in Nat
        /\ in.alert \in Seq(Traffic)
        /\ in.uplinks \in Seq(Uplink)
        /\ in.proximate \in Seq(Traffic)
    BY ConfigsAssumption, InputsAssumption
  <1>2. PICK al \in SortedTraffic(in.alert), e \in EligibleUplinks(in),
             pr \in SortedTraffic(in.proximate) :
          q = TrafficStage("alert", al)
                \o UplinkStage("primary", SubSeq(e, 1, PrimaryLimit(c, e)))
                \o TrafficStage("proximate", pr)
                \o UplinkStage("secondary", SubSeq(e, PrimaryLimit(c, e) + 1, Len(e)))
    BY DEF Ordered
  <1> DEFINE v == ValidUplinks(in)
             m == PrimaryLimit(c, e)
             e1 == SubSeq(e, 1, m)
             e2 == SubSeq(e, m + 1, Len(e))
             A == TrafficStage("alert", al)
             P == UplinkStage("primary", e1)
             X == TrafficStage("proximate", pr)
             S == UplinkStage("secondary", e2)
  <1>3. al \in Seq(Traffic) /\ DOMAIN al = 1..Len(in.alert) /\ Len(in.alert) \in Nat
    BY <1>1, TrafficCount
  <1>4. pr \in Seq(Traffic) /\ DOMAIN pr = 1..Len(in.proximate) /\ Len(in.proximate) \in Nat
    BY <1>1, TrafficCount
  <1>5. e \in Seq(Uplink) /\ Len(e) = v /\ v \in Nat
    BY <1>1, UplinkCount
  <1>6. m = Primaries(c, in) /\ m \in Nat /\ v - m \in Nat /\ m <= v
    BY <1>1, <1>5 DEF PrimaryLimit, Primaries
  <1> HIDE DEF m, v
  <1>7. e1 \in Seq(Uplink) /\ DOMAIN e1 = 1..m
    BY <1>5, <1>6
  <1>8. e2 \in Seq(Uplink) /\ DOMAIN e2 = 1..v - m
    BY <1>5, <1>6
  <1> HIDE DEF e1, e2
  <1>9. Optional \subseteq Stages
    BY DEF Stages, Optional
  <1>10. /\ A \in Seq(Candidates)
         /\ Cardinality(Places(A, Of(stage)))
              = IF stage = "alert" THEN Len(in.alert) ELSE 0
    <2>1. /\ A \in Seq(Candidates) /\ DOMAIN A = DOMAIN al
          /\ \A i \in DOMAIN al : A[i].stage = "alert"
      BY <1>3, <1>9, TrafficStaged DEF Optional
    <2> HIDE DEF A
    <2>2. DOMAIN A = 1..Len(in.alert) /\ \A i \in 1..Len(in.alert) : A[i].stage = "alert"
      BY <1>3, <2>1
    <2> QED
      BY <1>3, <2>1, <2>2, StageCounts
  <1>11. /\ P \in Seq(Candidates)
         /\ Cardinality(Places(P, Of(stage)))
              = IF stage = "primary" THEN m ELSE 0
    <2>0. e1 \in Seq(Uplink) /\ "primary" \in Stages
      BY <1>7, <1>9 DEF Optional
    <2>1. /\ P \in Seq(Candidates) /\ DOMAIN P = DOMAIN e1
          /\ \A i \in DOMAIN e1 : P[i].stage = "primary"
      BY <2>0, UplinksStaged
    <2> HIDE DEF P
    <2>2. DOMAIN P = 1..m /\ \A i \in 1..m : P[i].stage = "primary"
      BY <1>6, <1>7, <2>1
    <2> QED
      BY <1>6, <1>7, <2>1, <2>2, StageCounts
  <1>12. /\ X \in Seq(Candidates)
         /\ Cardinality(Places(X, Of(stage)))
              = IF stage = "proximate" THEN Len(in.proximate) ELSE 0
    <2>1. /\ X \in Seq(Candidates) /\ DOMAIN X = DOMAIN pr
          /\ \A i \in DOMAIN pr : X[i].stage = "proximate"
      BY <1>4, <1>9, TrafficStaged DEF Optional
    <2> HIDE DEF X
    <2>2. DOMAIN X = 1..Len(in.proximate) /\ \A i \in 1..Len(in.proximate) : X[i].stage = "proximate"
      BY <1>4, <2>1
    <2> QED
      BY <1>4, <2>1, <2>2, StageCounts
  <1>13. /\ S \in Seq(Candidates)
         /\ Cardinality(Places(S, Of(stage)))
              = IF stage = "secondary" THEN v - m ELSE 0
    <2>0. e2 \in Seq(Uplink) /\ "secondary" \in Stages
      BY <1>8, <1>9 DEF Optional
    <2>1. /\ S \in Seq(Candidates) /\ DOMAIN S = DOMAIN e2
          /\ \A i \in DOMAIN e2 : S[i].stage = "secondary"
      BY <2>0, UplinksStaged
    <2> HIDE DEF S
    <2>2. DOMAIN S = 1..(v - m) /\ \A i \in 1..(v - m) : S[i].stage = "secondary"
      BY <1>6, <1>8, <2>1
    <2> QED
      BY <1>6, <1>8, <2>1, <2>2, StageCounts
  <1>14. q = A \o P \o X \o S
    BY <1>2 DEF m, e1, e2, A, P, X, S
  <1> HIDE DEF A, P, X, S
  <1>15. A \o P \in Seq(Candidates) /\ A \o P \o X \in Seq(Candidates)
    BY <1>10, <1>11, <1>12
  <1>16. Cardinality(Places(A \o P, Of(stage)))
           = Cardinality(Places(A, Of(stage))) + Cardinality(Places(P, Of(stage)))
    BY <1>10, <1>11, PlacesConcat
  <1>17. Cardinality(Places(A \o P \o X, Of(stage)))
           = Cardinality(Places(A \o P, Of(stage))) + Cardinality(Places(X, Of(stage)))
    BY <1>12, <1>15, PlacesConcat
  <1>18. Cardinality(Places(q, Of(stage)))
           = Cardinality(Places(A \o P \o X, Of(stage))) + Cardinality(Places(S, Of(stage)))
    BY <1>13, <1>14, <1>15, PlacesConcat
  <1>19. /\ Given(c, in, "alert") = Len(in.alert)
         /\ Given(c, in, "proximate") = Len(in.proximate)
         /\ Given(c, in, "primary") = m
         /\ Given(c, in, "secondary") = v - m
    BY <1>6 DEF Given, v
  <1> QED
    BY <1>3, <1>4, <1>5, <1>6, <1>10, <1>11, <1>12, <1>13, <1>16, <1>17, <1>18, <1>19
       DEF Optional

----------------------------------------------------------------------------
(* The counts, an invariant *)

(* Chosen, dropped or still to come: every candidate is in one place.      *)
DecidedOrQueued(stage) ==
    Cardinality(Places(selected, Of(stage)))
      + Cardinality(Places(refused, RefusedOf(stage)))
      + Cardinality(Places(queue, Of(stage)))

Accounted ==
    /\ status \in {"choosing", "returned"} =>
          \A stage \in Optional : DecidedOrQueued(stage) = Given(config, inputs, stage)
    /\ status = "returned" => queue = << >>

LEMMA Counted ==
    ASSUME TypeOK, NEW stage
    PROVE  /\ selected \in Seq(Candidates)
           /\ queue \in Seq(Candidates)
           /\ refused \in Seq(Refusals)
           /\ Cardinality(Places(selected, Of(stage))) \in Nat
           /\ Cardinality(Places(refused, RefusedOf(stage))) \in Nat
           /\ Cardinality(Places(queue, Of(stage))) \in Nat
  <1>1. selected \in Seq(Encoded) /\ Encoded \subseteq Candidates
    BY DEF TypeOK, Encoded
  <1>2. selected \in Seq(Candidates)
    BY <1>1
  <1>3. queue \in Seq(Candidates) /\ refused \in Seq(Refusals)
    BY DEF TypeOK
  <1> QED
    BY <1>2, <1>3, PlacesFinite

LEMMA PlacesOfNone ==
    ASSUME NEW T PROVE Cardinality(Places(<< >>, T)) = 0
  <1>1. Places(<< >>, T) = {}
    BY DEF Places
  <1> QED
    BY <1>1, FS_EmptySet

LEMMA OrderAccounts ==
    ASSUME IInv, Order
    PROVE  Accounted'
  <1>1. /\ status = "ownship" /\ status' = "choosing"
        /\ queue' \in Ordered(config, inputs)
        /\ UNCHANGED <<config, inputs, selected, refused>>
    BY DEF Order
  <1>2. /\ config \in Configs /\ inputs \in Inputs
        /\ refused = << >>
        /\ DOMAIN selected = 1..2
        /\ selected[1].stage = "heartbeat" /\ selected[2].stage = "ownship"
    BY <1>1 DEF IInv, TypeOK, Progress, MandatoryFirst, Early
  <1>3. ASSUME NEW stage \in Optional
        PROVE  DecidedOrQueued(stage)' = Given(config', inputs', stage)
    <2>1. Cardinality(Places(queue', Of(stage))) = Given(config, inputs, stage)
      BY <1>1, <1>2, QueueCounts
    <2>2. Places(selected, Of(stage)) = {}
      BY <1>2 DEF Places, Of, Optional
    <2>3. Cardinality(Places(selected, Of(stage))) = 0
      BY <2>2, FS_EmptySet
    <2>4. Cardinality(Places(refused, RefusedOf(stage))) = 0
      BY <1>2, PlacesOfNone
    <2>5. Cardinality(Places(queue', Of(stage))) \in Nat
      <3>1. queue' \in Seq(Candidates)
        BY <1>1, <1>2, QueueOrdered
      <3> QED
        BY <3>1, PlacesFinite
    <2> QED
      BY <1>1, <2>1, <2>3, <2>4, <2>5 DEF DecidedOrQueued
  <1> QED
    BY <1>1, <1>3 DEF Accounted

LEMMA ChoiceAccounts ==
    ASSUME IInv, Accounted, Select \/ Drop
    PROVE  Accounted'
  <1> DEFINE m == Head(queue)
  <1>1. /\ status = "choosing" /\ status' = "choosing" /\ queue # << >>
        /\ m.size # Unencodable
        /\ queue' = Tail(queue)
        /\ UNCHANGED <<config, inputs>>
        /\ \/ selected' = Append(selected, m) /\ refused' = refused
           \/ /\ refused' = Append(refused, [candidate |-> m, after |-> Len(selected)])
              /\ selected' = selected
    BY DEF Select, Drop
  <1>2. TypeOK /\ queue \in Seq(Candidates) /\ m \in Candidates
    BY <1>1 DEF IInv, TypeOK
  <1> HIDE DEF m
  <1>3. ASSUME NEW stage \in Optional
        PROVE  DecidedOrQueued(stage)' = Given(config', inputs', stage)
    <2> DEFINE one == IF m \in Of(stage) THEN 1 ELSE 0
    <2>1. /\ selected \in Seq(Candidates) /\ refused \in Seq(Refusals)
          /\ Cardinality(Places(selected, Of(stage))) \in Nat
          /\ Cardinality(Places(refused, RefusedOf(stage))) \in Nat
      BY <1>2, Counted
    <2>2. Cardinality(Places(queue, Of(stage)))
            = one + Cardinality(Places(queue', Of(stage)))
      BY <1>1, <1>2, PlacesTail DEF m
    <2>3. Cardinality(Places(queue', Of(stage))) \in Nat
      <3>1. queue' \in Seq(Candidates)
        BY <1>1, <1>2
      <3> QED
        BY <3>1, PlacesFinite
    <2>4. one \in Nat
      OBVIOUS
    <2>5. Given(config, inputs, stage)
            = Cardinality(Places(selected, Of(stage)))
                + Cardinality(Places(refused, RefusedOf(stage)))
                + Cardinality(Places(queue, Of(stage)))
      BY <1>1 DEF Accounted, DecidedOrQueued
    <2>6. CASE selected' = Append(selected, m) /\ refused' = refused
      <3>1. Cardinality(Places(selected', Of(stage)))
              = Cardinality(Places(selected, Of(stage))) + one
        BY <1>2, <2>1, <2>6, PlacesAppend
      <3> HIDE DEF one
      <3> QED
        BY <1>1, <2>1, <2>2, <2>3, <2>4, <2>5, <2>6, <3>1 DEF DecidedOrQueued
    <2>7. CASE /\ refused' = Append(refused, [candidate |-> m, after |-> Len(selected)])
               /\ selected' = selected
      <3> DEFINE r == [candidate |-> m, after |-> Len(selected)]
      <3>1. r \in Refusals /\ (r \in RefusedOf(stage) <=> m \in Of(stage))
        BY <1>1, <1>2, <2>1 DEF Refusals, RefusedOf, Encoded, Of, m
      <3>2. Cardinality(Places(refused', RefusedOf(stage)))
              = Cardinality(Places(refused, RefusedOf(stage)))
                  + (IF r \in RefusedOf(stage) THEN 1 ELSE 0)
        BY <2>1, <2>7, <3>1, PlacesAppend
      <3>3. Cardinality(Places(refused', RefusedOf(stage)))
              = Cardinality(Places(refused, RefusedOf(stage))) + one
        BY <3>1, <3>2
      <3> HIDE DEF one
      <3> QED
        BY <1>1, <2>1, <2>2, <2>3, <2>4, <2>5, <2>7, <3>3 DEF DecidedOrQueued
    <2> QED
      BY <1>1, <2>6, <2>7
  <1> QED
    BY <1>1, <1>3 DEF Accounted

LEMMA AccountedKept ==
    ASSUME IInv, Accounted, [Next]_vars
    PROVE  Accounted'
  <1>1. CASE PanicOnBudget \/ PushHeartbeat \/ PushOwnship \/ MandatoryFails \/ CandidateFails
    BY <1>1 DEF PanicOnBudget, PushHeartbeat, PushOwnship, PushMandatory, MandatoryFails,
                FailMandatory, CandidateFails, Accounted
  <1>2. CASE Order
    BY <1>2, OrderAccounts
  <1>3. CASE Select \/ Drop
    BY <1>3, ChoiceAccounts
  <1>4. CASE Return
    BY <1>4 DEF Return, Accounted, DecidedOrQueued
  <1>5. CASE UNCHANGED vars
    BY <1>5 DEF vars, Accounted, DecidedOrQueued
  <1> QED
    BY <1>1, <1>2, <1>3, <1>4, <1>5 DEF Next

LEMMA AllDecided ==
    ASSUME IInv, Accounted
    PROVE  EveryCandidateCounts
  <1> SUFFICES ASSUME status = "returned"
               PROVE  EveryCandidateCounts
    BY DEF EveryCandidateCounts
  <1> DEFINE Decided(stage) == Cardinality(InStage(selected, stage)) + Dropped(stage)
  <1>1. TypeOK /\ config \in Configs /\ inputs \in Inputs
    BY DEF IInv, TypeOK
  <1>2. ASSUME NEW stage \in Optional
        PROVE  Decided(stage) = Given(config, inputs, stage)
    <2>1. /\ selected \in Seq(Candidates) /\ refused \in Seq(Refusals)
          /\ Cardinality(Places(selected, Of(stage))) \in Nat
          /\ Cardinality(Places(refused, RefusedOf(stage))) \in Nat
      BY <1>1, Counted
    <2>2. Cardinality(InStage(selected, stage)) = Cardinality(Places(selected, Of(stage)))
      BY <2>1, InStageIsPlaces
    <2>3. Dropped(stage) = Cardinality(Places(refused, RefusedOf(stage)))
      BY <2>1, DroppedIsPlaces
    <2>4. Cardinality(Places(queue, Of(stage))) = 0
      BY PlacesOfNone DEF Accounted
    <2> QED
      BY <2>1, <2>2, <2>3, <2>4 DEF Accounted, DecidedOrQueued
  <1> HIDE DEF Decided
  <1>3. /\ Decided("alert") = Len(inputs.alert)
        /\ Decided("proximate") = Len(inputs.proximate)
        /\ Decided("primary") = Primaries(config, inputs)
        /\ Decided("secondary") = ValidUplinks(inputs) - Primaries(config, inputs)
    <2>1. {"alert", "proximate", "primary", "secondary"} \subseteq Optional
      BY DEF Optional
    <2> QED
      BY <1>2, <2>1 DEF Given
  <1>4. config.perSecond \in Nat /\ ValidUplinks(inputs) \in Nat
    <2>1. config.perSecond \in Nat /\ inputs.uplinks \in Seq(Uplink)
      BY <1>1, ConfigsAssumption, InputsAssumption
    <2>2. /\ DOMAIN inputs.uplinks = 1..Len(inputs.uplinks)
          /\ Len(inputs.uplinks) \in Nat
      BY <2>1
    <2>3. IsFiniteSet(1..Len(inputs.uplinks))
      BY <2>2, FS_Interval
    <2>4. { i \in DOMAIN inputs.uplinks : inputs.uplinks[i].valid }
            \in SUBSET (1..Len(inputs.uplinks))
      BY <2>2
    <2>5. IsFiniteSet({ i \in DOMAIN inputs.uplinks : inputs.uplinks[i].valid })
      BY <2>3, <2>4, FS_Subset, Zenon
    <2> QED
      BY <2>1, <2>5, FS_CardinalityType DEF ValidUplinks
  <1>5. Decided("primary") + Decided("secondary") = ValidUplinks(inputs)
    BY <1>3, <1>4 DEF Primaries
  <1> QED
    BY <1>3, <1>5 DEF EveryCandidateCounts, Decided, Primaries, ValidUplinks

(* A call that returns has chosen or dropped every candidate it was given, *)
(* each under its stage, and the nearest uplinks up to the limit make the  *)
(* first stage of uplinks.                                                 *)
THEOREM EveryCandidateIsCounted == Spec => []EveryCandidateCounts
  <1>1. Init => Accounted
    BY DEF Init, Accounted
  <1>2. IInv /\ Accounted /\ [Next]_vars => Accounted'
    BY AccountedKept
  <1>3. IInv /\ Accounted => EveryCandidateCounts
    BY AllDecided
  <1> QED
    BY Invariance, <1>1, <1>2, <1>3, PTL DEF Spec

----------------------------------------------------------------------------
(* The total *)

LEMMA TotalIsASum ==
    ASSUME NEW messages \in Seq(Candidates)
    PROVE  /\ \A i \in DOMAIN messages : messages[i].size \in Nat
           /\ IsFiniteSet(DOMAIN messages)
           /\ Total(messages) = SumOver(DOMAIN messages, [i \in DOMAIN messages |-> messages[i].size])
  <1> DEFINE S == DOMAIN messages
             w == [i \in S |-> messages[i].size]
             iter == CHOOSE f : f = [s \in SUBSET S |->
                        IF s = {} THEN 0
                        ELSE messages[CHOOSE x \in s : TRUE].size + f[s \ {CHOOSE x \in s : TRUE}]]
             Sizes(f) == [s \in SUBSET S |->
                            IF s = {} THEN 0 ELSE messages[Some(s)].size + f[s \ {Some(s)}]]
  <1>1. Total(messages) = iter[S]
    BY DEF Total, FoldSeq, FoldFunction, FoldFunctionOnSet, MapThenFoldSet
  <1>2. iter = CHOOSE f : f = Sizes(f)
    BY DEF Some
  <1> HIDE DEF iter
  <1>3. IsFiniteSet(S) /\ \A i \in S : messages[i].size \in Nat
    <2>1. S = 1..Len(messages) /\ Len(messages) \in Nat
      OBVIOUS
    <2>2. \A i \in S : messages[i] \in Candidates
      OBVIOUS
    <2> QED
      BY <2>1, <2>2, FS_Interval DEF Candidates, SizeOfMessage
  <1>4. \A f : Sizes(f) = Added(f, S, w)
    <2> SUFFICES ASSUME NEW f PROVE Sizes(f) = Added(f, S, w)
      OBVIOUS
    <2>1. ASSUME NEW s \in SUBSET S, s # {} PROVE messages[Some(s)].size = w[Some(s)]
      BY <2>1 DEF Some
    <2> HIDE DEF w
    <2> QED
      BY <2>1 DEF Added
  <1>5. \A i \in S : w[i] \in Nat
    BY <1>3
  <1> HIDE DEF S, w, Sizes
  <1>6. iter = Sizes(iter)
    <2>1. PICK g : g = Added(g, S, w)
      BY <1>3, <1>5, AddingExists
    <2> QED
      BY <1>2, <1>4, <2>1
  <1>7. Summing(iter, S, w)
    BY <1>3, <1>4, <1>5, <1>6, AddingIsSumming
  <1>8. PICK f : Summing(f, S, w) /\ SumOver(S, w) = f[S]
    BY <1>3, <1>5, SumIsSumming
  <1>9. iter[S] = f[S]
    BY <1>3, <1>7, <1>8, OneSum
  <1> QED
    BY <1>1, <1>3, <1>8, <1>9 DEF S, w

LEMMA TotalOfNone == Total(<< >>) = 0
  <1> DEFINE none == << >>
  <1>1. none \in Seq(Candidates) /\ DOMAIN none = {}
    OBVIOUS
  <1> HIDE DEF none
  <1>2. Total(none) = SumOver({}, [i \in DOMAIN none |-> none[i].size])
    BY <1>1, TotalIsASum
  <1> QED
    BY <1>2, SumOfNone DEF none

LEMMA TotalAppend ==
    ASSUME NEW messages \in Seq(Candidates), NEW m \in Candidates
    PROVE  Total(Append(messages, m)) = Total(messages) + m.size
  <1> DEFINE n == Len(messages)
             more == Append(messages, m)
             v == [i \in DOMAIN messages |-> messages[i].size]
             w == [i \in DOMAIN more |-> more[i].size]
  <1>1. /\ n \in Nat /\ DOMAIN messages = 1..n /\ DOMAIN more = 1..n + 1
        /\ more \in Seq(Candidates) /\ more[n + 1] = m
        /\ \A i \in 1..n : more[i] = messages[i]
    OBVIOUS
  <1> HIDE DEF n, more
  <1>2. /\ \A i \in 1..n : v[i] \in Nat /\ v[i] = w[i]
        /\ w[n + 1] = m.size /\ m.size \in Nat
    <2>1. m.size \in Nat
      BY DEF Candidates, SizeOfMessage
    <2>2. \A i \in 1..n : messages[i].size \in Nat
      BY <1>1, TotalIsASum
    <2>3. \A i \in 1..n : i \in 1..n + 1
      BY <1>1
    <2> QED
      BY ONLY <1>1, <2>1, <2>2, <2>3 DEF v, w
  <1> HIDE DEF v, w
  <1>3. SumOver(1..n + 1, w) = SumOver(1..n, v) + w[n + 1]
    BY <1>1, <1>2, NextTerm
  <1>4. Total(messages) = SumOver(1..n, v) /\ Total(more) = SumOver(1..n + 1, w)
    BY <1>1, TotalIsASum DEF v, w
  <1> QED
    BY <1>2, <1>3, <1>4 DEF more

LEMMA TotalKept ==
    ASSUME IInv, UsedIsTheTotal, [Next]_vars
    PROVE  UsedIsTheTotal'
  <1>1. selected \in Seq(Candidates) /\ TypeOK
    BY DEF IInv, TypeOK, Encoded
  <1>2. ASSUME NEW m \in Candidates, used' = used + m.size, selected' = Append(selected, m)
        PROVE  UsedIsTheTotal'
    BY <1>1, <1>2, TotalAppend DEF UsedIsTheTotal
  <1>3. CASE UNCHANGED <<used, selected>>
    BY <1>3 DEF UsedIsTheTotal
  <1>4. CASE PushHeartbeat
    <2> DEFINE m == [stage |-> "heartbeat", range |-> 0, slot |-> 0, size |-> inputs.heartbeat]
    <2>1. m \in Candidates /\ m.size = inputs.heartbeat
      BY <1>1, MandatoryTypes DEF TypeOK, Candidates, Stages, SizeOfMessage
    <2>2. used' = used + inputs.heartbeat /\ selected' = Append(selected, m)
      BY <1>4 DEF PushHeartbeat, PushMandatory
    <2> HIDE DEF m
    <2> QED
      BY <1>2, <2>1, <2>2
  <1>5. CASE PushOwnship
    <2> DEFINE m == [stage |-> "ownship", range |-> 0, slot |-> 0, size |-> inputs.ownship]
    <2>1. m \in Candidates /\ m.size = inputs.ownship
      BY <1>1, MandatoryTypes DEF TypeOK, Candidates, Stages, SizeOfMessage
    <2>2. used' = used + inputs.ownship /\ selected' = Append(selected, m)
      BY <1>5 DEF PushOwnship, PushMandatory
    <2> HIDE DEF m
    <2> QED
      BY <1>2, <2>1, <2>2
  <1>6. CASE Select
    BY <1>2, <1>6, QueueFacts DEF Select
  <1> QED
    BY <1>3, <1>4, <1>5, <1>6
       DEF Next, PanicOnBudget, MandatoryFails, FailMandatory, Order, Drop, CandidateFails,
           Return, vars

(* used_bytes is what the messages handed out take on the line, at every   *)
(* point of every call.                                                    *)
THEOREM UsedBytesAreTheTotal == Spec => []UsedIsTheTotal
  <1>1. Init => UsedIsTheTotal
    BY TotalOfNone DEF Init, UsedIsTheTotal
  <1>2. IInv /\ UsedIsTheTotal /\ [Next]_vars => UsedIsTheTotal'
    BY TotalKept
  <1> QED
    BY Invariance, <1>1, <1>2, PTL DEF Spec
================================================================================
