----------------------------- MODULE SequenceFacts -----------------------------
(***************************************************************************)
(* Induction over data, in a form that needs no operator parameter, and    *)
(* what follows from it about the recursive functions that the modules of  *)
(* this directory and the community modules are built from.                *)
(***************************************************************************)
EXTENDS Integers, SequencesExt, SequenceTheorems, FiniteSetTheorems, TLAPS

----------------------------------------------------------------------------
(* Induction *)

(* A nonempty set of natural numbers has a least element.                  *)
LEMMA LeastElement ==
    ASSUME NEW S \in SUBSET Nat, S # {}
    PROVE  \E x \in S : \A y \in S : x <= y
  <1> DEFINE R == {ss \in Nat \X Nat : ss[1] < ss[2]}
  <1>1. IsWellFoundedOn(R, Nat)
    BY NatLessThanWellFounded DEF OpToRel
  <1> HIDE DEF R
  <1>2. PICK x \in S : \A y \in S : ~ (<<y, x>> \in R)
    BY <1>1, WFMin
  <1>3. \A y \in S : ~ (y < x)
    BY <1>2 DEF R
  <1> QED
    BY <1>2, <1>3

(* A set with 0 that is closed under successors holds every number.        *)
LEMMA Induction ==
    ASSUME NEW S, 0 \in S, \A n \in Nat : n \in S => n + 1 \in S
    PROVE  Nat \subseteq S
  <1> DEFINE B == Nat \ S
  <1>1. SUFFICES ASSUME B # {} PROVE FALSE
    OBVIOUS
  <1>2. PICK x \in B : \A y \in B : x <= y
    BY <1>1, LeastElement
  <1>3. x # 0 /\ x - 1 \in Nat
    BY <1>2
  <1>4. x - 1 \notin B
    BY <1>2, <1>3
  <1>5. (x - 1) + 1 \in S
    BY <1>3, <1>4
  <1> QED
    BY <1>2, <1>3, <1>5

(* The same up to a bound.                                                 *)
LEMMA InductionUpTo ==
    ASSUME NEW n \in Nat, NEW S,
           0 \in S, \A i \in 0..n - 1 : i \in S => i + 1 \in S
    PROVE  0..n \subseteq S
  <1> DEFINE T == { i \in Nat : i <= n => i \in S }
  <1>1. 0 \in T /\ \A i \in Nat : i \in T => i + 1 \in T
    OBVIOUS
  <1>2. Nat \subseteq T
    <2> HIDE DEF T
    <2> QED BY <1>1, Induction
  <1> QED
    BY <1>2

----------------------------------------------------------------------------
(* Recursion. A step is a function of the index and the value before.      *)

Recurs(g, n, base, Step) ==
    g[0] = base /\ \A i \in 1..n : g[i] = Step[<<i, g[i - 1]>>]

LEMMA Recursion ==
    ASSUME NEW n \in Nat, NEW D, NEW base \in D, NEW Step \in [(1..n) \X D -> D]
    PROVE  \E g \in [0..n -> D] : Recurs(g, n, base, Step)
  <1> DEFINE S == { k \in 0..n : \E g \in [0..k -> D] : Recurs(g, k, base, Step) }
  <1>1. 0 \in S
    <2> DEFINE g == [i \in 0..0 |-> base]
    <2>1. g \in [0..0 -> D] /\ Recurs(g, 0, base, Step)
      BY DEF Recurs
    <2> QED
      BY <2>1
  <1>2. ASSUME NEW k \in 0..n - 1, k \in S
        PROVE  k + 1 \in S
    <2>1. PICK g \in [0..k -> D] : Recurs(g, k, base, Step)
      BY <1>2
    <2> DEFINE x == Step[<<k + 1, g[k]>>]
               h == [i \in 0..k + 1 |-> IF i = k + 1 THEN x ELSE g[i]]
    <2>2. k + 1 \in 1..n /\ k \in 0..k /\ x \in D
      OBVIOUS
    <2> HIDE DEF x
    <2>3. h \in [0..k + 1 -> D]
      BY <2>2
    <2>4. h[0] = base
      BY <2>1, <2>2 DEF Recurs
    <2>5. ASSUME NEW i \in 1..k + 1 PROVE h[i] = Step[<<i, h[i - 1]>>]
      <3>1. h[i - 1] = g[i - 1] /\ h[k + 1] = x
        OBVIOUS
      <3> HIDE DEF h
      <3>2. CASE i = k + 1
        BY <3>1, <3>2 DEF x
      <3>3. CASE i # k + 1
        BY <2>1, <3>1, <3>3 DEF Recurs, h
      <3> QED
        BY <3>2, <3>3
    <2>6. Recurs(h, k + 1, base, Step)
      <3> HIDE DEF h
      <3> QED
        BY <2>4, <2>5 DEF Recurs
    <2> HIDE DEF h
    <2> QED
      BY <2>3, <2>6
  <1>3. 0..n \subseteq S
    <2> HIDE DEF S
    <2> QED
      BY <1>1, <1>2, InductionUpTo
  <1> QED
    BY <1>3

----------------------------------------------------------------------------
(* FlattenSeq *)

Flattening(g, s, T) ==
    /\ g \in [0..Len(s) -> Seq(T)]
    /\ g[0] = << >>
    /\ \A i \in 1..Len(s) : g[i] = g[i - 1] \o s[i]

LEMMA FlatteningExists ==
    ASSUME NEW T, NEW s \in Seq(Seq(T))
    PROVE  \E g : Flattening(g, s, T)
  <1> DEFINE n == Len(s)
             D == Seq(T)
             Step == [ix \in (1..n) \X D |-> ix[2] \o s[ix[1]]]
  <1>1. n \in Nat /\ << >> \in D /\ \A i \in 1..n : s[i] \in D
    OBVIOUS
  <1>2. Step \in [(1..n) \X D -> D]
    <2>1. \A ix \in (1..n) \X D : ix[2] \o s[ix[1]] \in D
      BY <1>1
    <2> QED
      BY <2>1
  <1>3. \A i \in 1..n, x \in D : Step[<<i, x>>] = x \o s[i]
    OBVIOUS
  <1> HIDE DEF n, D, Step
  <1>4. PICK g \in [0..n -> D] : Recurs(g, n, << >>, Step)
    BY <1>1, <1>2, Recursion, Zenon
  <1>5. \A i \in 1..n : g[i] = g[i - 1] \o s[i]
    <2>1. \A i \in 1..n : i - 1 \in 0..n
      BY <1>1
    <2> QED
      BY <1>3, <1>4, <2>1 DEF Recurs
  <1> QED
    BY <1>4, <1>5 DEF Flattening, Recurs, n, D

(* A flattening starts with the first part and goes on part by part.       *)
LEMMA FlatteningSteps ==
    ASSUME NEW T, NEW s \in Seq(Seq(T)), NEW g, Flattening(g, s, T)
    PROVE  /\ Len(s) \in Nat
           /\ \A i \in 1..Len(s) : s[i] \in Seq(T)
           /\ \A i \in 0..Len(s) : g[i] \in Seq(T)
           /\ g[0] = << >>
           /\ \A i \in 0..Len(s) - 1 : g[i + 1] = g[i] \o s[i + 1]
           /\ Len(s) > 0 => g[1] = s[1]
  <1>1. Len(s) \in Nat /\ \A i \in 1..Len(s) : s[i] \in Seq(T)
    OBVIOUS
  <1>2. g[0] = << >> /\ g \in [0..Len(s) -> Seq(T)]
    BY DEF Flattening
  <1>3. ASSUME NEW i \in 0..Len(s) - 1
        PROVE  g[i + 1] = g[i] \o s[i + 1]
    <2>1. i + 1 \in 1..Len(s) /\ (i + 1) - 1 = i
      BY <1>1
    <2> QED
      BY <2>1 DEF Flattening
  <1>4. ASSUME Len(s) > 0 PROVE g[1] = s[1]
    <2>1. 0 \in 0..Len(s) - 1 /\ 1 \in 1..Len(s) /\ 0 + 1 = 1
      BY <1>1, <1>4
    <2>2. g[1] = << >> \o s[1]
      BY <1>2, <1>3, <2>1
    <2>3. s[1] \in Seq(T)
      BY <1>1, <2>1
    <2> QED
      BY <2>2, <2>3, ConcatEmptySeq
  <1> QED
    BY <1>1, <1>2, <1>3, <1>4

LEMMA FlattenIsFlattening ==
    ASSUME NEW T, NEW s \in Seq(Seq(T)), NEW g, Flattening(g, s, T)
    PROVE  FlattenSeq(s) = g[Len(s)]
  <1> DEFINE n == Len(s)
             Body(f) == [i \in 1..n |-> IF i = 1 THEN s[i] ELSE f[i - 1] \o s[i]]
             flatten == CHOOSE f : f = Body(f)
             h == [i \in 1..n |-> g[i]]
  <1>1. FlattenSeq(s) = IF n = 0 THEN s ELSE flatten[n]
    BY DEF FlattenSeq
  <1>2. /\ n \in Nat /\ g[0] = << >>
        /\ \A i \in 0..n - 1 : g[i + 1] = g[i] \o s[i + 1]
        /\ n > 0 => g[1] = s[1]
        /\ n = 0 => s = << >>
    <2>1. n = 0 => s = << >>
      OBVIOUS
    <2>2. /\ Len(s) \in Nat /\ g[0] = << >>
          /\ \A i \in 0..Len(s) - 1 : g[i + 1] = g[i] \o s[i + 1]
          /\ Len(s) > 0 => g[1] = s[1]
      BY FlatteningSteps, Zenon
    <2> QED
      BY <2>1, <2>2, Zenon
  <1>3. \E f : f = Body(f)
    <2>1. ASSUME NEW i \in 1..n
          PROVE  h[i] = IF i = 1 THEN s[i] ELSE h[i - 1] \o s[i]
      <3>1. CASE i = 1
        BY <3>1, <1>2
      <3>2. CASE i # 1
        <4>1. i - 1 \in 0..n - 1 /\ i - 1 \in 1..n /\ (i - 1) + 1 = i
          BY <3>2, <1>2
        <4>2. g[i] = g[i - 1] \o s[i]
          BY <4>1, <1>2
        <4> QED
          BY <3>2, <4>1, <4>2
      <3> QED
        BY <3>1, <3>2
    <2>2. h = Body(h)
      BY <2>1
    <2> QED
      BY <2>2
  <1>4. flatten = Body(flatten)
    <2> HIDE DEF Body
    <2> QED
      BY <1>3
  <1>5. \A i \in 1..n : flatten[i] = IF i = 1 THEN s[i] ELSE flatten[i - 1] \o s[i]
    <2> HIDE DEF flatten
    <2> QED
      BY <1>4
  <1> HIDE DEF flatten, h, Body, n
  <1>6. ASSUME n > 0
        PROVE  0..n - 1 \subseteq { i \in 0..n - 1 : flatten[i + 1] = g[i + 1] }
    <2> DEFINE S == { i \in 0..n - 1 : flatten[i + 1] = g[i + 1] }
    <2>1. 0 \in S
      <3>1. 0 \in 0..n - 1 /\ 0 + 1 = 1 /\ 1 \in 1..n
        BY <1>2, <1>6
      <3> QED
        BY <1>2, <1>5, <1>6, <3>1
    <2>2. ASSUME NEW i \in 0..(n - 1) - 1, i \in S
          PROVE  i + 1 \in S
      <3>1. /\ i + 1 \in 0..n - 1 /\ (i + 1) + 1 \in 1..n
            /\ (i + 1) + 1 # 1 /\ ((i + 1) + 1) - 1 = i + 1
        BY <1>2
      <3>2. flatten[(i + 1) + 1] = flatten[i + 1] \o s[(i + 1) + 1]
        BY <1>5, <3>1
      <3>3. g[(i + 1) + 1] = g[i + 1] \o s[(i + 1) + 1]
        BY <1>2, <3>1
      <3> QED
        BY <2>2, <3>1, <3>2, <3>3
    <2>3. n - 1 \in Nat
      BY <1>2, <1>6
    <2> HIDE DEF S
    <2>4. 0..n - 1 \subseteq S
      BY <2>1, <2>2, <2>3, InductionUpTo
    <2> QED
      BY <2>4 DEF S
  <1>7. CASE n = 0
    BY <1>1, <1>2, <1>7 DEF n
  <1>8. CASE n # 0
    <2>1. n > 0 /\ n - 1 \in 0..n - 1 /\ (n - 1) + 1 = n
      BY <1>2, <1>8
    <2>2. flatten[n] = g[n]
      BY <1>6, <2>1
    <2> QED
      BY <1>1, <1>8, <2>2 DEF n
  <1> QED
    BY <1>7, <1>8

LEMMA FlattenEmpty == FlattenSeq(<< >>) = << >>
  BY DEF FlattenSeq

LEMMA FlattenType ==
    ASSUME NEW T, NEW s \in Seq(Seq(T))
    PROVE  FlattenSeq(s) \in Seq(T)
  <1>1. PICK g : Flattening(g, s, T)
    BY FlatteningExists
  <1>2. Len(s) \in 0..Len(s)
    OBVIOUS
  <1>3. g[Len(s)] \in Seq(T)
    BY <1>1, <1>2, FlatteningSteps, Zenon
  <1> QED
    BY <1>1, <1>3, FlattenIsFlattening, Zenon

LEMMA FlattenAppend ==
    ASSUME NEW T, NEW s \in Seq(Seq(T)), NEW x \in Seq(T)
    PROVE  FlattenSeq(Append(s, x)) = FlattenSeq(s) \o x
  <1>1. PICK g : Flattening(g, s, T)
    BY FlatteningExists
  <1> DEFINE n == Len(s)
             t == Append(s, x)
             h == [i \in 0..n + 1 |-> IF i = n + 1 THEN g[n] \o x ELSE g[i]]
  <1>2. /\ t \in Seq(Seq(T)) /\ Len(t) = n + 1
        /\ t[n + 1] = x /\ \A i \in 1..n : t[i] = s[i]
    OBVIOUS
  <1>3. /\ n \in Nat /\ g[0] = << >> /\ \A i \in 0..n : g[i] \in Seq(T)
        /\ \A i \in 0..n - 1 : g[i + 1] = g[i] \o s[i + 1]
    BY <1>1, FlatteningSteps
  <1>4. g[n] \in Seq(T) /\ g[n] \o x \in Seq(T)
    <2>1. n \in 0..n
      BY <1>3
    <2>2. g[n] \in Seq(T)
      BY <1>3, <2>1
    <2> HIDE DEF n
    <2> QED
      BY <2>2
  <1>5. h \in [0..n + 1 -> Seq(T)]
    <2> HIDE DEF n
    <2> QED BY <1>3, <1>4
  <1>6. h[n + 1] = g[n] \o x /\ \A i \in 0..n : h[i] = g[i]
    <2> HIDE DEF n
    <2> QED BY <1>3
  <1> HIDE DEF h, t, n
  <1>7. ASSUME NEW i \in 1..n + 1 PROVE h[i] = h[i - 1] \o t[i]
    <2>1. CASE i = n + 1
      <3>0. n \in Nat
        BY <1>3
      <3>1. i - 1 = n /\ n \in 0..n
        BY <3>0, <2>1
      <3> QED
        BY <1>2, <1>6, <2>1, <3>1
    <2>2. CASE i # n + 1
      <3>1. i - 1 \in 0..n - 1 /\ i - 1 \in 0..n /\ i \in 1..n /\ i \in 0..n /\ (i - 1) + 1 = i
        BY <1>3, <2>2
      <3>2. g[i] = g[i - 1] \o s[i]
        BY <1>3, <3>1
      <3> QED
        BY <1>2, <1>6, <3>1, <3>2
    <2> QED
      BY <2>1, <2>2
  <1>8. h[0] = << >>
    BY <1>3, <1>6
  <1>9. Flattening(h, t, T)
    BY <1>2, <1>5, <1>7, <1>8 DEF Flattening
  <1>10. FlattenSeq(t) = h[n + 1]
    BY <1>2, <1>9, FlattenIsFlattening
  <1>11. FlattenSeq(s) = g[n]
    BY <1>1, FlattenIsFlattening DEF n
  <1> QED
    BY <1>6, <1>10, <1>11 DEF t

(* A set of sequences with the empty one that is closed under Append holds *)
(* every sequence.                                                         *)
LEMMA SequenceInduction ==
    ASSUME NEW T, NEW S, << >> \in S,
           \A s \in Seq(T), e \in T : s \in S => Append(s, e) \in S
    PROVE  Seq(T) \subseteq S
  <1> DEFINE N == { n \in Nat : \A s \in Seq(T) : Len(s) = n => s \in S }
  <1>1. 0 \in N
    OBVIOUS
  <1>2. ASSUME NEW n \in Nat, n \in N PROVE n + 1 \in N
    <2>1. ASSUME NEW s \in Seq(T), Len(s) = n + 1 PROVE s \in S
      <3>1. s # << >>
        BY <1>2, <2>1
      <3>2. PICK f \in Seq(T), e \in T : s = Append(f, e)
        BY <3>1, SequenceEmptyOrAppend, Zenon
      <3>3. Len(f) = n
        BY <2>1, <3>2
      <3>4. f \in S
        BY <1>2, <3>3
      <3> QED
        BY <3>2, <3>4
    <2> QED
      BY <2>1
  <1> HIDE DEF N
  <1>3. Nat \subseteq N
    BY <1>1, <1>2, Induction
  <1> QED
    BY <1>3 DEF N

(* The two parts of a concatenation.                                       *)
LEMMA ConcatParts ==
    ASSUME NEW T, NEW s \in Seq(T), NEW t \in Seq(T)
    PROVE  /\ SubSeq(s \o t, 1, Len(s)) = s
           /\ SubSeq(s \o t, Len(s) + 1, Len(s) + Len(t)) = t
  <1> DEFINE m == Len(s)
             n == Len(t)
             c == s \o t
             p == SubSeq(c, 1, m)
             q == SubSeq(c, m + 1, m + n)
  <1>1. m \in Nat /\ n \in Nat
    OBVIOUS
  <1>2. /\ c \in Seq(T) /\ Len(c) = m + n
        /\ \A i \in 1..m + n : c[i] = IF i <= m THEN s[i] ELSE t[i - m]
    BY ConcatProperties
  <1> HIDE DEF m, n, c
  <1>3. p = s
    <2>1. \A i \in 1..m : c[i] = s[i] /\ c[i] \in T
      BY <1>1, <1>2 DEF m
    <2>2. p \in Seq(T) /\ Len(p) = m /\ \A i \in 1..m : p[i] = c[1 + i - 1]
      BY <1>1, <2>1, SubSeqProperties
    <2>3. \A i \in 1..m : p[i] = s[i]
      <3>1. \A i \in 1..m : 1 + i - 1 = i
        BY <1>1
      <3> HIDE DEF p
      <3> QED
        BY <2>1, <2>2, <3>1
    <2> HIDE DEF p
    <2> QED
      BY <2>2, <2>3, SeqEqual DEF m
  <1>4. q = t
    <2>1. \A i \in m + 1..m + n : c[i] = t[i - m] /\ c[i] \in T
      BY <1>1, <1>2 DEF n
    <2>2. /\ q \in Seq(T) /\ Len(q) = n
          /\ \A i \in 1..(m + n) - (m + 1) + 1 : q[i] = c[(m + 1) + i - 1]
      BY <1>1, <2>1, SubSeqProperties
    <2>3. \A i \in 1..n : q[i] = t[i]
      <3>1. \A i \in 1..n : /\ i \in 1..(m + n) - (m + 1) + 1
                          /\ (m + 1) + i - 1 \in m + 1..m + n
                          /\ ((m + 1) + i - 1) - m = i
        BY <1>1
      <3> HIDE DEF q
      <3> QED
        BY <2>1, <2>2, <3>1
    <2> HIDE DEF q
    <2> QED
      BY <2>2, <2>3, SeqEqual DEF n
  <1> QED
    BY <1>3, <1>4 DEF m, n, c

(* A function of 1..m is a sequence, whatever its values.                  *)
LEMMA AnyValues ==
    ASSUME NEW m \in Nat, NEW f, f = [i \in 1..m |-> f[i]], NEW e
    PROVE  /\ \E T : f \in Seq(T) /\ e \in T
           /\ Len(f) = m
           /\ f \o <<e>> = Append(f, e) /\ f \o << >> = f
           /\ \A i \in 1..m : (f \o <<e>>)[i] = f[i]
  <1> DEFINE T == { f[i] : i \in 1..m } \cup {e}
  <1>1. f \in Seq(T) /\ e \in T /\ <<e>> \in Seq(T)
    <2>1. \A i \in 1..m : f[i] \in T
      OBVIOUS
    <2>2. e \in T
      OBVIOUS
    <2> HIDE DEF T
    <2>3. f \in Seq(T)
      <3>1. [i \in 1..m |-> f[i]] \in Seq(T)
        BY <2>1
      <3> QED
        BY <3>1
    <2> QED
      BY <2>2, <2>3
  <1> HIDE DEF T
  <1>2. Len(f) = m
    <2>1. DOMAIN f = 1..m
      <3>1. DOMAIN [i \in 1..m |-> f[i]] = 1..m
        OBVIOUS
      <3> QED
        BY <3>1, Zenon
    <2> QED
      BY <1>1, <2>1
  <1>3. f \o <<e>> = Append(f, e) /\ f \o << >> = f
    BY <1>1, AppendIsConcat, ConcatEmptySeq, Zenon
  <1>4. \A i \in 1..m : Append(f, e)[i] = f[i]
    BY <1>1, <1>2, AppendProperties
  <1> QED
    BY <1>1, <1>2, <1>3, <1>4, Zenon

(* Between the same ends, equal sequences come from equal middles.         *)
LEMMA EqualMiddles ==
    ASSUME NEW T, NEW a \in Seq(T), NEW x \in Seq(T), NEW y \in Seq(T), NEW b \in Seq(T),
           a \o x \o b = a \o y \o b
    PROVE  x = y
  <1>1. a \o x \in Seq(T) /\ a \o y \in Seq(T)
    BY ConcatProperties, Zenon
  <1>2. a \o x = a \o y
    BY <1>1, ConcatSimplifications
  <1> QED
    BY <1>2, ConcatSimplifications

----------------------------------------------------------------------------
(* A recursive function that jumps ahead, until it is done.                *)

Chains(f, M, Done, Jump, first) ==
    f = [i \in 1..M |-> IF i \in Done THEN << >> ELSE <<first[i]>> \o f[Jump[i]]]

LEMMA ChainExists ==
    ASSUME NEW M \in Nat, NEW T, NEW Done, NEW Jump, NEW first,
           \A i \in 1..M : i \notin Done => /\ Jump[i] \in i + 1..M
                                         /\ first[i] \in T
    PROVE  \E f \in [1..M -> Seq(T)] : Chains(f, M, Done, Jump, first)
  <1> DEFINE Value(f, i) == IF i \in Done THEN << >> ELSE <<first[i]>> \o f[Jump[i]]
             Good(f, k) == \A i \in M - k + 1..M : f[i] = Value(f, i)
             S == { k \in 0..M : \E f \in [1..M -> Seq(T)] : Good(f, k) }
  <1>1. 0 \in S
    <2> DEFINE e == [i \in 1..M |-> << >>]
    <2>1. e \in [1..M -> Seq(T)] /\ 0 \in 0..M /\ M - 0 + 1..M = {}
      OBVIOUS
    <2> HIDE DEF e, Value
    <2>2. Good(e, 0)
      BY <2>1
    <2> HIDE DEF Good
    <2> QED
      BY <2>1, <2>2
  <1>2. ASSUME NEW k \in 0..M - 1, k \in S
        PROVE  k + 1 \in S
    <2>1. PICK f \in [1..M -> Seq(T)] : Good(f, k)
      BY <1>2
    <2> DEFINE j == M - k
               g == [f EXCEPT ![j] = Value(f, j)]
    <2>2. j \in 1..M /\ M - (k + 1) + 1 = j
      OBVIOUS
    <2>3. Value(f, j) \in Seq(T)
      <3> HIDE DEF j
      <3>1. CASE j \in Done
        BY <3>1
      <3>2. CASE j \notin Done
        <4>1. Jump[j] \in 1..M /\ first[j] \in T
          BY <2>2, <3>2
        <4>2. f[Jump[j]] \in Seq(T) /\ <<first[j]>> \in Seq(T)
          BY <4>1
        <4> QED
          BY <3>2, <4>2, ConcatProperties
      <3> QED
        BY <3>1, <3>2
    <2>4. g \in [1..M -> Seq(T)]
      <3> HIDE DEF Value, j
      <3> QED
        BY <2>2, <2>3
    <2>5. ASSUME NEW i \in j..M PROVE g[i] = Value(g, i)
      <3>1. i \in 1..M /\ (i # j => i \in M - k + 1..M)
        BY <2>2
      <3>2. i \notin Done => Jump[i] \in 1..M /\ Jump[i] # j
        BY <2>2, <3>1
      <3>3. Value(g, i) = Value(f, i)
        <4>1. i \notin Done => g[Jump[i]] = f[Jump[i]]
          <5> HIDE DEF Value, j
          <5> QED
            BY <3>2
        <4> HIDE DEF g
        <4> QED
          BY <4>1
      <3>4. CASE i = j
        <4> HIDE DEF Value, j
        <4> QED
          BY <2>2, <3>3, <3>4
      <3>5. CASE i # j
        <4>1. f[i] = Value(f, i)
          BY <2>1, <3>1, <3>5
        <4> HIDE DEF Value, j
        <4> QED
          BY <2>2, <3>1, <3>3, <3>5, <4>1
      <3> QED
        BY <3>4, <3>5
    <2>6. Good(g, k + 1)
      <3> HIDE DEF g, Value
      <3> QED
        BY <2>2, <2>5
    <2>7. k + 1 \in 0..M
      OBVIOUS
    <2> HIDE DEF g, Good
    <2> QED
      BY <2>4, <2>6, <2>7
  <1>3. 0..M \subseteq S
    <2> HIDE DEF S
    <2> QED
      BY <1>1, <1>2, InductionUpTo
  <1>4. PICK f \in [1..M -> Seq(T)] : Good(f, M)
    <2>1. M \in 0..M
      OBVIOUS
    <2> HIDE DEF Good
    <2> QED
      BY <1>3, <2>1
  <1>5. \A i \in 1..M : f[i] = Value(f, i)
    <2>1. M - M + 1 = 1
      OBVIOUS
    <2> HIDE DEF Value
    <2> QED
      BY <1>4, <2>1
  <1>6. f = [i \in 1..M |-> Value(f, i)]
    <2> HIDE DEF Value
    <2> QED
      BY <1>5
  <1> QED
    BY <1>6 DEF Chains

(* The tail of a function of 1..m, whatever its values.                    *)
LEMMA TailOfAny ==
    ASSUME NEW m \in Nat, m # 0, NEW f, f = [i \in 1..m |-> f[i]]
    PROVE  Tail(f) = [i \in 1..(m - 1) |-> f[i + 1]]
  <1>1. PICK T : f \in Seq(T) /\ Len(f) = m
    BY AnyValues
  <1>2. f # << >>
    BY <1>1
  <1>3. /\ Tail(f) \in Seq(T) /\ Len(Tail(f)) = m - 1
        /\ \A i \in 1..(m - 1) : Tail(f)[i] = f[i + 1]
    BY <1>1, <1>2, HeadTailProperties
  <1>4. Tail(f) = [i \in 1..(m - 1) |-> Tail(f)[i]]
    BY <1>3
  <1> QED
    BY <1>3, <1>4

----------------------------------------------------------------------------
(* Sums. The folds of the community modules take the elements of a finite  *)
(* set one by one, in the order of CHOOSE; a sum does not depend on it.    *)

(* A set of subsets that has every subset of which it has those with one   *)
(* element less has them all.                                              *)
LEMMA SubsetInduction ==
    ASSUME NEW S, IsFiniteSet(S), NEW P,
           \A s \in SUBSET S : (\A x \in s : s \ {x} \in P) => s \in P
    PROVE  SUBSET S \subseteq P
  <1> DEFINE N == { n \in Nat : \A s \in SUBSET S : Cardinality(s) = n => s \in P }
  <1>1. \A s \in SUBSET S : IsFiniteSet(s) /\ Cardinality(s) \in Nat
    BY FS_Subset, FS_CardinalityType, Zenon
  <1>2. 0 \in N
    <2>1. ASSUME NEW s \in SUBSET S, Cardinality(s) = 0 PROVE s \in P
      <3>1. s = {}
        BY <1>1, <2>1, FS_EmptySet
      <3> QED
        BY <3>1
    <2> QED
      BY <2>1
  <1>3. ASSUME NEW n \in Nat, n \in N PROVE n + 1 \in N
    <2>1. ASSUME NEW s \in SUBSET S, Cardinality(s) = n + 1 PROVE s \in P
      <3>1. ASSUME NEW x \in s PROVE s \ {x} \in P
        <4>1. Cardinality(s \ {x}) = Cardinality(s) - 1
          BY <1>1, <3>1, FS_RemoveElement
        <4>2. Cardinality(s \ {x}) = n /\ s \ {x} \in SUBSET S
          BY <2>1, <4>1
        <4> QED
          BY <1>3, <4>2
      <3> QED
        BY <3>1
    <2> QED
      BY <2>1
  <1> HIDE DEF N
  <1>4. Nat \subseteq N
    BY <1>2, <1>3, Induction
  <1> QED
    BY <1>1, <1>4 DEF N

Some(s) == CHOOSE x \in s : TRUE

\* f gives the sums of the weights w over the subsets of S.
Summing(f, S, w) ==
    /\ f \in [SUBSET S -> Nat]
    /\ f[{}] = 0
    /\ \A s \in SUBSET S : s # {} => f[s] = w[Some(s)] + f[s \ {Some(s)}]

LEMMA SummingExists ==
    ASSUME NEW S, IsFiniteSet(S), NEW w, \A x \in S : w[x] \in Nat
    PROVE  \E f : Summing(f, S, w)
  <1> DEFINE n == Cardinality(S)
             D == [SUBSET S -> Nat]
             More(h) == [s \in SUBSET S |-> IF s = {} THEN 0 ELSE w[Some(s)] + h[s \ {Some(s)}]]
             Step == [ih \in (1..n) \X D |-> More(ih[2])]
             zero == [s \in SUBSET S |-> 0]
  <1>1. n \in Nat /\ \A s \in SUBSET S : IsFiniteSet(s) /\ Cardinality(s) \in 0..n
    BY FS_Subset, FS_CardinalityType, SMT
  <1>2. \A s \in SUBSET S : s # {} => Some(s) \in s
    BY DEF Some
  <1>3. \A h \in D : More(h) \in D
    BY <1>2
  <1>4. zero \in D /\ Step \in [(1..n) \X D -> D]
    BY <1>3
  <1>5. \A i \in 1..n, h \in D : Step[<<i, h>>] = More(h)
    OBVIOUS
  <1> HIDE DEF Step
  <1>6. PICK g \in [0..n -> D] : Recurs(g, n, zero, Step)
    BY <1>1, <1>4, Recursion, Zenon
  <1>7. \A i \in 0..n - 1 : g[i] \in D /\ g[i + 1] = More(g[i])
    <2>1. ASSUME NEW i \in 0..n - 1 PROVE g[i] \in D /\ g[i + 1] = More(g[i])
      <3>1. i + 1 \in 1..n /\ (i + 1) - 1 = i /\ i \in 0..n
        BY <1>1
      <3>2. g[i] \in D
        BY <1>6, <3>1
      <3> HIDE DEF More, D
      <3> QED
        BY <1>5, <1>6, <3>1, <3>2 DEF Recurs
    <2> QED
      BY <2>1
  <1> DEFINE K == { k \in 0..n : \A s \in SUBSET S : Cardinality(s) <= k => More(g[k])[s] = g[k][s] }
  <1>8. 0 \in K
    <2>1. g[0] = zero
      BY <1>6 DEF Recurs
    <2>2. ASSUME NEW s \in SUBSET S, Cardinality(s) <= 0 PROVE s = {}
      <3>1. Cardinality(s) = 0
        BY <1>1, <2>2
      <3> QED
        BY <1>1, <3>1, FS_EmptySet
    <2>3. \A s \in SUBSET S : Cardinality(s) <= 0 => More(g[0])[s] = g[0][s]
      BY <2>1, <2>2
    <2> HIDE DEF More, n
    <2> QED
      BY <1>1, <2>3
  <1>9. ASSUME NEW k \in 0..n - 1, k \in K PROVE k + 1 \in K
    <2>1. g[k + 1] = More(g[k]) /\ g[k] \in D
      BY <1>7
    <2>2. ASSUME NEW s \in SUBSET S, Cardinality(s) <= k + 1
          PROVE  More(g[k + 1])[s] = g[k + 1][s]
      <3>1. CASE s = {}
        BY <2>1, <3>1
      <3>2. CASE s # {}
        <4> DEFINE x == Some(s)
        <4>1. x \in s /\ s \ {x} \in SUBSET S
          BY <1>2, <3>2
        <4> HIDE DEF x
        <4>2. Cardinality(s \ {x}) = Cardinality(s) - 1
          BY <1>1, <4>1, FS_RemoveElement
        <4>3. Cardinality(s \ {x}) <= k
          BY <1>1, <2>2, <4>2
        <4>4. More(g[k])[s \ {x}] = g[k][s \ {x}]
          BY <1>9, <4>1, <4>3
        <4>5. \A h : More(h)[s] = w[x] + h[s \ {x}]
          BY <3>2 DEF x
        <4> HIDE DEF More
        <4> QED
          BY <2>1, <4>4, <4>5
      <3> QED
        BY <3>1, <3>2
    <2>3. k + 1 \in 0..n
      BY <1>1
    <2> HIDE DEF More
    <2> QED
      BY <2>2, <2>3
  <1> HIDE DEF K
  <1>10. 0..n \subseteq K
    BY <1>1, <1>8, <1>9, InductionUpTo
  <1>11. \A s \in SUBSET S : More(g[n])[s] = g[n][s]
    <2>1. n \in K /\ \A s \in SUBSET S : Cardinality(s) <= n
      BY <1>1, <1>10
    <2> HIDE DEF More, n
    <2> QED
      BY <2>1 DEF K
  <1>12. g[n] \in D
    BY <1>1, <1>6
  <1>13. Summing(g[n], S, w)
    BY <1>11, <1>12 DEF Summing
  <1> QED
    BY <1>13

(* Two such functions agree where their weights do.                        *)
LEMMA OneSum ==
    ASSUME NEW S, IsFiniteSet(S), NEW T, S \subseteq T, NEW v, NEW w,
           \A x \in S : v[x] = w[x],
           NEW f, Summing(f, S, v), NEW g, Summing(g, T, w)
    PROVE  \A s \in SUBSET S : f[s] = g[s]
  <1> DEFINE P == { s \in SUBSET S : f[s] = g[s] }
  <1>1. ASSUME NEW s \in SUBSET S, \A x \in s : s \ {x} \in P PROVE s \in P
    <2>1. CASE s = {}
      BY <2>1 DEF Summing
    <2>2. CASE s # {}
      <3>1. Some(s) \in s
        BY <2>2 DEF Some
      <3>2. f[s \ {Some(s)}] = g[s \ {Some(s)}]
        BY <1>1, <3>1
      <3>3. f[s] = v[Some(s)] + f[s \ {Some(s)}] /\ g[s] = w[Some(s)] + g[s \ {Some(s)}]
        BY <2>2 DEF Summing
      <3>4. v[Some(s)] = w[Some(s)]
        BY <3>1
      <3> QED
        BY <3>2, <3>3, <3>4
    <2> QED
      BY <2>1, <2>2
  <1> HIDE DEF P
  <1>2. SUBSET S \subseteq P
    BY <1>1, SubsetInduction
  <1> QED
    BY <1>2 DEF P

(* Any element may be taken first.                                         *)
LEMMA AnyFirst ==
    ASSUME NEW S, IsFiniteSet(S), NEW w, \A x \in S : w[x] \in Nat, NEW f, Summing(f, S, w)
    PROVE  \A s \in SUBSET S : \A y \in s : f[s] = w[y] + f[s \ {y}]
  <1> DEFINE P == { s \in SUBSET S : \A y \in s : f[s] = w[y] + f[s \ {y}] }
  <1>1. ASSUME NEW s \in SUBSET S, \A x \in s : s \ {x} \in P PROVE s \in P
    <2>1. ASSUME NEW y \in s PROVE f[s] = w[y] + f[s \ {y}]
      <3> DEFINE x == Some(s)
      <3>1. x \in s
        BY DEF Some
      <3>2. f[s] = w[x] + f[s \ {x}]
        BY <3>1 DEF Summing
      <3> HIDE DEF x
      <3>3. CASE x = y
        BY <3>2, <3>3
      <3>4. CASE x # y
        <4>1. y \in s \ {x} /\ x \in s \ {y} /\ (s \ {x}) \ {y} = (s \ {y}) \ {x}
          BY <3>1, <3>4
        <4>2. f[s \ {x}] = w[y] + f[(s \ {x}) \ {y}]
          BY <1>1, <3>1, <4>1
        <4>3. f[s \ {y}] = w[x] + f[(s \ {x}) \ {y}]
          BY <1>1, <4>1
        <4>4. f[(s \ {x}) \ {y}] \in Nat
          <5>1. (s \ {x}) \ {y} \in SUBSET S
            OBVIOUS
          <5> QED
            BY <5>1 DEF Summing
        <4>5. w[x] \in Nat /\ w[y] \in Nat
          BY <3>1
        <4> QED
          BY <3>2, <4>2, <4>3, <4>4, <4>5
      <3> QED
        BY <3>3, <3>4
    <2> QED
      BY <2>1
  <1> HIDE DEF P
  <1>2. SUBSET S \subseteq P
    BY <1>1, SubsetInduction
  <1> QED
    BY <1>2 DEF P

\* The sum of the weights w over a finite set.
SumOver(S, w) == FoldFunctionOnSet(+, 0, w, S)

\* One element of each set added to what g has for the rest of it.
Added(g, S, w) == [s \in SUBSET S |-> IF s = {} THEN 0 ELSE w[Some(s)] + g[s \ {Some(s)}]]

(* A function that adds the weights up in that order.                      *)
LEMMA AddingIsSumming ==
    ASSUME NEW S, IsFiniteSet(S), NEW w, \A x \in S : w[x] \in Nat,
           NEW g, g = Added(g, S, w)
    PROVE  Summing(g, S, w)
  <1>1. /\ g[{}] = 0
        /\ \A s \in SUBSET S : s # {} => g[s] = w[Some(s)] + g[s \ {Some(s)}]
    <2>1. {} \in SUBSET S
      OBVIOUS
    <2> QED
      BY <2>1 DEF Added
  <1>2. SUBSET S \subseteq { s \in SUBSET S : g[s] \in Nat }
    <2> DEFINE P == { s \in SUBSET S : g[s] \in Nat }
    <2>1. ASSUME NEW s \in SUBSET S, \A x \in s : s \ {x} \in P PROVE s \in P
      <3>1. CASE s = {}
        BY <1>1, <3>1
      <3>2. CASE s # {}
        <4>1. Some(s) \in s
          BY <3>2 DEF Some
        <4>2. w[Some(s)] \in Nat /\ g[s \ {Some(s)}] \in Nat
          BY <2>1, <4>1
        <4>3. g[s] = w[Some(s)] + g[s \ {Some(s)}]
          BY <1>1, <3>2
        <4>4. g[s] \in Nat
          BY <4>2, <4>3
        <4> QED
          BY <4>4
      <3> QED
        BY <3>1, <3>2
    <2> HIDE DEF P
    <2>2. SUBSET S \subseteq P
      BY <2>1, SubsetInduction
    <2> QED
      BY <2>2 DEF P
  <1>3. g = [s \in SUBSET S |-> g[s]]
    BY DEF Added
  <1>4. g \in [SUBSET S -> Nat]
    BY <1>2, <1>3
  <1> QED
    BY <1>1, <1>4 DEF Summing

LEMMA AddingExists ==
    ASSUME NEW S, IsFiniteSet(S), NEW w, \A x \in S : w[x] \in Nat
    PROVE  \E g : g = Added(g, S, w)
  <1>1. PICK g : Summing(g, S, w)
    BY SummingExists
  <1>2. g = [s \in SUBSET S |-> g[s]]
    BY <1>1 DEF Summing
  <1>3. \A s \in SUBSET S : g[s] = IF s = {} THEN 0 ELSE w[Some(s)] + g[s \ {Some(s)}]
    BY <1>1 DEF Summing
  <1>4. g = Added(g, S, w)
    BY <1>2, <1>3 DEF Added
  <1> QED
    BY <1>4

LEMMA SumIsSumming ==
    ASSUME NEW S, IsFiniteSet(S), NEW w, \A x \in S : w[x] \in Nat
    PROVE  \E f : Summing(f, S, w) /\ SumOver(S, w) = f[S]
  <1> DEFINE iter == CHOOSE f : f = Added(f, S, w)
  <1>1. SumOver(S, w) = iter[S]
    BY DEF SumOver, FoldFunctionOnSet, MapThenFoldSet, Some, Added
  <1>2. \E f : f = Added(f, S, w)
    BY AddingExists
  <1>3. iter = Added(iter, S, w)
    BY <1>2
  <1> HIDE DEF iter
  <1>4. Summing(iter, S, w)
    BY <1>3, AddingIsSumming
  <1> QED
    BY <1>1, <1>4

LEMMA SumOfNone == ASSUME NEW w PROVE SumOver({}, w) = 0
  <1>1. PICK f : Summing(f, {}, w) /\ SumOver({}, w) = f[{}]
    BY SumIsSumming, FS_EmptySet
  <1> QED
    BY <1>1 DEF Summing

LEMMA SumType ==
    ASSUME NEW S, IsFiniteSet(S), NEW w, \A x \in S : w[x] \in Nat
    PROVE  SumOver(S, w) \in Nat
  <1>1. PICK f : Summing(f, S, w) /\ SumOver(S, w) = f[S]
    BY SumIsSumming
  <1> QED
    BY <1>1 DEF Summing

(* Equal weights, equal sums.                                              *)
LEMMA SumAgrees ==
    ASSUME NEW S, IsFiniteSet(S), NEW v, NEW w, \A x \in S : v[x] \in Nat /\ v[x] = w[x]
    PROVE  SumOver(S, v) = SumOver(S, w)
  <1>1. PICK f : Summing(f, S, v) /\ SumOver(S, v) = f[S]
    BY SumIsSumming
  <1>2. PICK g : Summing(g, S, w) /\ SumOver(S, w) = g[S]
    <2>1. \A x \in S : w[x] \in Nat
      OBVIOUS
    <2> QED
      BY <2>1, SumIsSumming
  <1>3. \A s \in SUBSET S : f[s] = g[s]
    BY <1>1, <1>2, OneSum
  <1> QED
    BY <1>1, <1>2, <1>3

(* One element more.                                                       *)
LEMMA SumAdds ==
    ASSUME NEW S, IsFiniteSet(S), NEW y, y \notin S,
           NEW v, NEW w, \A x \in S : v[x] \in Nat /\ v[x] = w[x], w[y] \in Nat
    PROVE  SumOver(S \cup {y}, w) = SumOver(S, v) + w[y]
  <1> DEFINE T == S \cup {y}
  <1>1. IsFiniteSet(T) /\ \A x \in T : w[x] \in Nat
    BY FS_AddElement
  <1>2. PICK f : Summing(f, S, v) /\ SumOver(S, v) = f[S]
    BY SumIsSumming
  <1>3. PICK g : Summing(g, T, w) /\ SumOver(T, w) = g[T]
    BY <1>1, SumIsSumming
  <1>4. f[S] = g[S]
    <2>1. \A s \in SUBSET S : f[s] = g[s]
      <3>1. S \subseteq T
        OBVIOUS
      <3> QED
        BY <1>2, <1>3, <3>1, OneSum
    <2> QED
      BY <2>1
  <1>5. g[T] = w[y] + g[S]
    <2>1. T \ {y} = S /\ y \in T
      OBVIOUS
    <2>2. g[T] = w[y] + g[T \ {y}]
      <3> HIDE DEF T
      <3> QED
        BY <1>1, <1>3, <2>1, AnyFirst
    <2> QED
      BY <2>1, <2>2
  <1>6. f[S] \in Nat
    BY <1>2 DEF Summing
  <1> QED
    BY <1>2, <1>3, <1>4, <1>5, <1>6

(* Sums of two weights add up.                                             *)
LEMMA SumOfSums ==
    ASSUME NEW S, IsFiniteSet(S), NEW u, NEW v, NEW w,
           \A x \in S : u[x] \in Nat /\ v[x] \in Nat /\ w[x] = u[x] + v[x]
    PROVE  SumOver(S, w) = SumOver(S, u) + SumOver(S, v)
  <1>1. PICK f : Summing(f, S, u) /\ SumOver(S, u) = f[S]
    BY SumIsSumming
  <1>2. PICK g : Summing(g, S, v) /\ SumOver(S, v) = g[S]
    BY SumIsSumming
  <1>3. PICK h : Summing(h, S, w) /\ SumOver(S, w) = h[S]
    <2>1. \A x \in S : w[x] \in Nat
      OBVIOUS
    <2> QED
      BY <2>1, SumIsSumming
  <1> DEFINE P == { s \in SUBSET S : h[s] = f[s] + g[s] }
  <1>4. ASSUME NEW s \in SUBSET S, \A x \in s : s \ {x} \in P PROVE s \in P
    <2>1. CASE s = {}
      BY <1>1, <1>2, <1>3, <2>1 DEF Summing
    <2>2. CASE s # {}
      <3> DEFINE x == Some(s)
                 r == s \ {x}
      <3>1. x \in s
        BY <2>2 DEF Some
      <3>2. f[s] = u[x] + f[r] /\ g[s] = v[x] + g[r] /\ h[s] = w[x] + h[r]
        BY <1>1, <1>2, <1>3, <2>2 DEF Summing
      <3>3. r \in SUBSET S /\ h[r] = f[r] + g[r]
        BY <1>4, <3>1
      <3>4. f[r] \in Nat /\ g[r] \in Nat /\ u[x] \in Nat /\ v[x] \in Nat /\ w[x] = u[x] + v[x]
        BY <1>1, <1>2, <3>1, <3>3 DEF Summing
      <3> HIDE DEF x, r
      <3> QED
        BY <3>2, <3>3, <3>4
    <2> QED
      BY <2>1, <2>2
  <1> HIDE DEF P
  <1>5. SUBSET S \subseteq P
    BY <1>4, SubsetInduction
  <1>6. S \in P
    BY <1>5
  <1> QED
    BY <1>1, <1>2, <1>3, <1>6 DEF P

(* The next term of a sum of numbered terms.                               *)
LEMMA NextTerm ==
    ASSUME NEW n \in Nat, NEW v, NEW w,
           \A i \in 1..n : v[i] \in Nat /\ v[i] = w[i], w[n + 1] \in Nat
    PROVE  /\ SumOver(1..n + 1, w) = SumOver(1..n, v) + w[n + 1]
           /\ SumOver(1..n, v) \in Nat
  <1>1. 1..n + 1 = 1..n \cup {n + 1} /\ n + 1 \notin 1..n
    OBVIOUS
  <1>2. IsFiniteSet(1..n)
    BY FS_Interval
  <1>3. ASSUME NEW S, S = 1..n, NEW y, y = n + 1
        PROVE  SumOver(S \cup {y}, w) = SumOver(S, v) + w[y] /\ SumOver(S, v) \in Nat
    <2>1. IsFiniteSet(S)
      BY <1>2, <1>3
    <2>2. y \notin S
      BY <1>1, <1>3
    <2>3. w[y] \in Nat
      BY <1>3
    <2>4. \A x \in S : v[x] \in Nat /\ v[x] = w[x]
      BY <1>3
    <2>5. \A x \in S : v[x] \in Nat
      BY <2>4
    <2> QED
      BY ONLY <2>1, <2>2, <2>3, <2>4, <2>5, SumAdds, SumType
  <1> QED
    BY <1>1, <1>3

----------------------------------------------------------------------------
(* Functions of 0..N that look ahead.                                      *)

LEMMA DownwardInduction ==
    ASSUME NEW N \in Nat, NEW S,
           \A i \in 0..N : (\A j \in i + 1..N : j \in S) => i \in S
    PROVE  0..N \subseteq S
  <1> DEFINE P == { k \in 0..N : \A i \in N - k..N : i \in S }
  <1>1. 0 \in P
    <2>1. \A j \in N + 1..N : j \in S
      OBVIOUS
    <2>2. N \in S
      BY <2>1
    <2>3. \A i \in N - 0..N : i = N
      OBVIOUS
    <2> QED
      BY <2>2, <2>3
  <1>2. ASSUME NEW k \in 0..N - 1, k \in P PROVE k + 1 \in P
    <2> DEFINE i == N - (k + 1)
    <2>1. i \in 0..N /\ i + 1 = N - k
      OBVIOUS
    <2>2. \A j \in i + 1..N : j \in S
      BY <1>2, <2>1
    <2> HIDE DEF i
    <2>3. i \in S
      BY <2>1, <2>2
    <2>4. \A j \in i..N : j = i \/ j \in i + 1..N
      BY <2>1
    <2>5. \A j \in i..N : j \in S
      BY <2>2, <2>3, <2>4
    <2> QED
      BY <2>5 DEF i
  <1> HIDE DEF P
  <1>3. 0..N \subseteq P
    BY <1>1, <1>2, InductionUpTo
  <1>4. N \in P
    BY <1>3
  <1>5. \A i \in N - N..N : i \in S
    BY <1>4 DEF P
  <1> QED
    BY <1>5

\* At some indices a value is given, at the others one that lies ahead counts.
Jumps(f, N, Done, base, Jump, Step) ==
    \A i \in 0..N : f[i] = IF i \in Done THEN base[i] ELSE Step[<<i, f[Jump[i]]>>]

JumpsAhead(N, D, Done, base, Jump, Step) ==
    \A i \in 0..N :
        IF i \in Done THEN base[i] \in D
        ELSE Jump[i] \in i + 1..N /\ \A x \in D : Step[<<i, x>>] \in D

LEMMA JumpingExists ==
    ASSUME NEW N \in Nat, NEW D, NEW d \in D, NEW Done, NEW base, NEW Jump, NEW Step,
           JumpsAhead(N, D, Done, base, Jump, Step)
    PROVE  \E f \in [0..N -> D] : Jumps(f, N, Done, base, Jump, Step)
  <1>0. /\ \A i \in 0..N : i \in Done => base[i] \in D
        /\ \A i \in 0..N : i \notin Done =>
             Jump[i] \in i + 1..N /\ \A x \in D : Step[<<i, x>>] \in D
    BY DEF JumpsAhead
  <1> DEFINE Value(f, i) == IF i \in Done THEN base[i] ELSE Step[<<i, f[Jump[i]]>>]
             Good(f, k) == \A i \in k..N : f[i] = Value(f, i)
             S == { k \in 0..N : \E f \in [0..N -> D] : Good(f, k) }
  <1>1. ASSUME NEW k \in 0..N, \A j \in k + 1..N : j \in S
        PROVE  k \in S
    <2>1. PICK f \in [0..N -> D] : Good(f, k + 1)
      <3>1. CASE k = N
        <4> DEFINE e == [i \in 0..N |-> d]
        <4>1. e \in [0..N -> D] /\ \A i \in k + 1..N : FALSE
          BY <3>1
        <4> HIDE DEF e, Value
        <4> QED
          BY <4>1
      <3>2. CASE k # N
        <4>1. k + 1 \in k + 1..N
          BY <3>2
        <4>2. k + 1 \in S
          BY <1>1, <4>1, Zenon
        <4> HIDE DEF Good
        <4> QED
          BY <4>2
      <3> QED
        BY <3>1, <3>2
    <2>2. Value(f, k) \in D
      <3>1. CASE k \in Done
        BY <1>0, <3>1
      <3>2. CASE k \notin Done
        <4>1. Jump[k] \in 0..N /\ \A x \in D : Step[<<k, x>>] \in D
          BY <1>0, <3>2
        <4>2. f[Jump[k]] \in D
          BY <4>1
        <4> QED
          BY <3>2, <4>1, <4>2
      <3> QED
        BY <3>1, <3>2
    <2> DEFINE g == [f EXCEPT ![k] = Value(f, k)]
    <2>3. g \in [0..N -> D] /\ g[k] = Value(f, k) /\ \A i \in k + 1..N : g[i] = f[i]
      <3> HIDE DEF Value
      <3> QED
        BY <2>2
    <2> HIDE DEF g
    <2>4. ASSUME NEW i \in k..N PROVE g[i] = Value(g, i)
      <3>1. i \notin Done => Jump[i] \in k + 1..N
        <4>1. i \in 0..N
          OBVIOUS
        <4>2. i \notin Done => Jump[i] \in i + 1..N
          BY <1>0, <4>1
        <4> QED
          BY <4>2
      <3>2. Value(g, i) = Value(f, i)
        BY <2>3, <3>1
      <3>3. g[i] = Value(f, i)
        <4>1. i = k \/ i \in k + 1..N
          OBVIOUS
        <4> HIDE DEF Value
        <4> QED
          BY <2>1, <2>3, <4>1
      <3> QED
        BY <3>2, <3>3
    <2>5. Good(g, k)
      <3> HIDE DEF Value
      <3> QED
        BY <2>4
    <2> HIDE DEF Good
    <2> QED
      BY <2>3, <2>5
  <1>2. 0..N \subseteq S
    <2> HIDE DEF S
    <2> QED
      BY <1>1, DownwardInduction
  <1>3. 0 \in S
    <2>1. 0 \in 0..N
      OBVIOUS
    <2> HIDE DEF S
    <2> QED
      BY <1>2, <2>1
  <1> QED
    BY <1>3 DEF Jumps

----------------------------------------------------------------------------
(* Where a sequence lies in another one.                                   *)

\* p is in s, behind the first o elements.
LiesAt(s, o, p) ==
    /\ o + Len(p) <= Len(s)
    /\ \A i \in 1..Len(p) : s[o + i] = p[i]

LEMMA LiesAtIsSubSeq ==
    ASSUME NEW T, NEW s \in Seq(T), NEW p \in Seq(T), NEW o \in Nat, LiesAt(s, o, p)
    PROVE  SubSeq(s, o + 1, o + Len(p)) = p
  <1> DEFINE n == Len(p)
             q == SubSeq(s, o + 1, o + n)
  <1>1. n \in Nat /\ o + n <= Len(s) /\ \A i \in 1..n : s[o + i] = p[i]
    BY DEF LiesAt
  <1>2. \A i \in o + 1..o + n : s[i] \in T
    <2>1. Len(s) \in Nat /\ \A i \in 1..Len(s) : s[i] \in T
      OBVIOUS
    <2> HIDE DEF n
    <2> QED
      BY <1>1, <2>1
  <1> HIDE DEF n
  <1>3. /\ q \in Seq(T) /\ Len(q) = n
        /\ \A i \in 1..n : q[i] = s[o + i]
    <2>1. (o + n) - (o + 1) + 1 = n /\ \A i \in 1..n : (o + 1) + i - 1 = o + i
      BY <1>1
    <2>2. o + 1 \in Int /\ o + n \in Int /\ o + 1 <= o + n + 1
      BY <1>1
    <2>3. /\ q \in Seq(T)
          /\ Len(q) = IF o + 1 <= o + n THEN (o + n) - (o + 1) + 1 ELSE 0
          /\ \A i \in 1..(o + n) - (o + 1) + 1 : q[i] = s[(o + 1) + i - 1]
      BY <1>2, <2>2, SubSeqProperties
    <2>4. Len(q) = n
      BY <1>1, <2>1, <2>3
    <2> HIDE DEF q
    <2> QED
      BY <2>1, <2>3, <2>4
  <1> HIDE DEF q
  <1>4. q = p
    <2>1. Len(q) = Len(p) /\ \A i \in 1..Len(q) : q[i] = p[i]
      BY <1>1, <1>3 DEF n
    <2> QED
      BY <1>3, <2>1, SeqEqual
  <1> QED
    BY <1>4 DEF q, n

LEMMA SubSeqLiesAt ==
    ASSUME NEW T, NEW s \in Seq(T), NEW o \in Nat, NEW n \in Nat, o + n <= Len(s)
    PROVE  /\ SubSeq(s, o + 1, o + n) \in Seq(T)
           /\ Len(SubSeq(s, o + 1, o + n)) = n
           /\ LiesAt(s, o, SubSeq(s, o + 1, o + n))
  <1> DEFINE q == SubSeq(s, o + 1, o + n)
  <1>1. \A i \in o + 1..o + n : s[i] \in T
    <2>1. Len(s) \in Nat /\ \A i \in 1..Len(s) : s[i] \in T
      OBVIOUS
    <2> QED
      BY <2>1
  <1>2. (o + n) - (o + 1) + 1 = n /\ \A i \in 1..n : (o + 1) + i - 1 = o + i
    OBVIOUS
  <1>3. o + 1 \in Int /\ o + n \in Int /\ o + 1 <= o + n + 1
    OBVIOUS
  <1>4. /\ q \in Seq(T)
        /\ Len(q) = IF o + 1 <= o + n THEN (o + n) - (o + 1) + 1 ELSE 0
        /\ \A i \in 1..(o + n) - (o + 1) + 1 : q[i] = s[(o + 1) + i - 1]
    BY <1>1, <1>3, SubSeqProperties
  <1>5. Len(q) = n
    BY <1>2, <1>4
  <1> HIDE DEF q
  <1>6. LiesAt(s, o, q)
    BY <1>2, <1>4, <1>5 DEF LiesAt
  <1> QED
    BY <1>4, <1>5, <1>6 DEF q

LEMMA LiesAtConcat ==
    ASSUME NEW T, NEW s \in Seq(T), NEW o \in Nat, NEW p \in Seq(T), NEW q \in Seq(T)
    PROVE  LiesAt(s, o, p \o q) <=> LiesAt(s, o, p) /\ LiesAt(s, o + Len(p), q)
  <1> DEFINE m == Len(p)  n == Len(q)  c == p \o q
  <1>1. m \in Nat /\ n \in Nat /\ Len(s) \in Nat
    OBVIOUS
  <1>2. /\ Len(c) = m + n
        /\ \A i \in 1..m : c[i] = p[i]
        /\ \A i \in 1..n : c[m + i] = q[i]
    <2>1. /\ Len(c) = m + n
          /\ \A i \in 1..m + n : c[i] = IF i <= m THEN p[i] ELSE q[i - m]
      BY ConcatProperties
    <2>2. \A i \in 1..n : m + i \in 1..m + n /\ ~ (m + i <= m) /\ (m + i) - m = i
      BY <1>1
    <2>3. \A i \in 1..m : i \in 1..m + n /\ i <= m
      BY <1>1
    <2> HIDE DEF c, m, n
    <2> QED
      BY <2>1, <2>2, <2>3
  <1> HIDE DEF c, m, n
  <1>3. ASSUME LiesAt(s, o, c) PROVE LiesAt(s, o, p) /\ LiesAt(s, o + m, q)
    <2>1. o + (m + n) <= Len(s) /\ \A i \in 1..m + n : s[o + i] = c[i]
      BY <1>2, <1>3 DEF LiesAt
    <2>2. \A i \in 1..m : s[o + i] = p[i]
      BY <1>1, <1>2, <2>1
    <2>3. \A i \in 1..n : s[(o + m) + i] = q[i]
      <3>1. \A i \in 1..n : m + i \in 1..m + n /\ o + (m + i) = (o + m) + i
        BY <1>1
      <3> QED
        BY <1>2, <2>1, <3>1
    <2> QED
      BY <1>1, <2>1, <2>2, <2>3 DEF LiesAt, m, n
  <1>4. ASSUME LiesAt(s, o, p), LiesAt(s, o + m, q) PROVE LiesAt(s, o, c)
    <2>1. /\ (o + m) + n <= Len(s)
          /\ \A i \in 1..m : s[o + i] = p[i]
          /\ \A i \in 1..n : s[(o + m) + i] = q[i]
      BY <1>4 DEF LiesAt, m, n
    <2>2. ASSUME NEW i \in 1..m + n PROVE s[o + i] = c[i]
      <3>1. CASE i <= m
        BY <1>1, <1>2, <2>1, <3>1
      <3>2. CASE ~ (i <= m)
        <4>1. i - m \in 1..n /\ (o + m) + (i - m) = o + i /\ m + (i - m) = i
          BY <1>1, <3>2
        <4>2. s[(o + m) + (i - m)] = q[i - m] /\ c[m + (i - m)] = q[i - m]
          BY <1>2, <2>1, <4>1
        <4> QED
          BY <4>1, <4>2
      <3> QED
        BY <3>1, <3>2
    <2>3. o + (m + n) <= Len(s)
      BY <1>1, <2>1
    <2> QED
      BY <1>2, <2>2, <2>3 DEF LiesAt
  <1> QED
    BY <1>3, <1>4 DEF c, m

LEMMA LiesAtItself ==
    ASSUME NEW T, NEW p \in Seq(T)
    PROVE  LiesAt(p, 0, p)
  <1>1. Len(p) \in Nat
    OBVIOUS
  <1>2. 0 + Len(p) <= Len(p) /\ \A i \in 1..Len(p) : 0 + i = i
    BY <1>1
  <1> QED
    BY <1>2 DEF LiesAt

\* The ends of a concatenation.
LEMMA LiesAtEnds ==
    ASSUME NEW T, NEW p \in Seq(T), NEW q \in Seq(T)
    PROVE  LiesAt(p \o q, 0, p) /\ LiesAt(p \o q, Len(p), q)
  <1>1. p \o q \in Seq(T) /\ 0 \in Nat /\ Len(p) \in Nat
    BY ConcatProperties
  <1>2. LiesAt(p \o q, 0, p \o q)
    BY <1>1, LiesAtItself, Zenon
  <1>3. LiesAt(p \o q, 0, p) /\ LiesAt(p \o q, 0 + Len(p), q)
    BY <1>1, <1>2, LiesAtConcat, Zenon
  <1>4. 0 + Len(p) = Len(p)
    BY <1>1
  <1> QED
    BY <1>3, <1>4, Zenon

\* What lies in the front part lies in the whole.
LEMMA LiesInFront ==
    ASSUME NEW T, NEW s \in Seq(T), NEW t \in Seq(T), NEW o \in Nat, NEW p \in Seq(T),
           LiesAt(s, o, p)
    PROVE  LiesAt(s \o t, o, p)
  <1> DEFINE c == s \o t  m == Len(s)  n == Len(t)  k == Len(p)
  <1>1. m \in Nat /\ n \in Nat /\ k \in Nat
    OBVIOUS
  <1>2. /\ Len(c) = m + n
        /\ \A i \in 1..m + n : c[i] = IF i <= m THEN s[i] ELSE t[i - m]
    BY ConcatProperties
  <1>3. o + k <= m /\ \A i \in 1..k : s[o + i] = p[i]
    BY DEF LiesAt
  <1> HIDE DEF c, m, n, k
  <1>4. \A i \in 1..k : o + i \in 1..m + n /\ o + i <= m
    BY <1>1, <1>3
  <1>5. \A i \in 1..k : c[o + i] = p[i]
    BY <1>2, <1>3, <1>4
  <1>6. o + k <= Len(c)
    BY <1>1, <1>2, <1>3
  <1>7. LiesAt(c, o, p)
    BY <1>5, <1>6 DEF LiesAt, k
  <1> QED
    BY <1>7 DEF c

\* What lies at the front, and is as long, is the whole.
LEMMA LiesAllOver ==
    ASSUME NEW T, NEW s \in Seq(T), NEW p \in Seq(T), LiesAt(s, 0, p), Len(p) = Len(s)
    PROVE  s = p
  <1>1. Len(s) \in Nat
    OBVIOUS
  <1>2. \A i \in 1..Len(s) : 0 + i = i
    BY <1>1
  <1>3. \A i \in 1..Len(s) : s[i] = p[i]
    BY <1>2 DEF LiesAt
  <1> QED
    BY <1>3, SeqEqual

----------------------------------------------------------------------------
(* The pieces of a flattened sequence *)

LEMMA AppendBehind ==
    ASSUME NEW U, NEW a \in Seq(U), NEW b \in Seq(U), NEW e \in U
    PROVE  a \o Append(b, e) = Append(a \o b, e)
  <1>1. PICK E \in Seq(U) : E = <<e>>
    <2>1. <<e>> \in Seq(U)
      OBVIOUS
    <2> QED
      BY <2>1
  <1>2. Append(b, e) = b \o E
    BY <1>1, AppendIsConcat, Zenon
  <1>3. a \o b \in Seq(U)
    BY ConcatProperties, Zenon
  <1>4. Append(a \o b, e) = (a \o b) \o E
    BY <1>1, <1>3, AppendIsConcat, Zenon
  <1>5. (a \o b) \o E = a \o (b \o E)
    BY ConcatAssociative
  <1> QED
    BY <1>2, <1>4, <1>5, Zenon

LEMMA FlattenFirst ==
    ASSUME NEW T, NEW f \in Seq(T), NEW s \in Seq(Seq(T))
    PROVE  FlattenSeq(<<f>> \o s) = f \o FlattenSeq(s)
  <1> DEFINE S == { x \in Seq(Seq(T)) : FlattenSeq(<<f>> \o x) = f \o FlattenSeq(x) }
  <1>1. << >> \in S
    <2>1. <<f>> = Append(<< >>, f) /\ << >> \in Seq(Seq(T)) /\ << >> \in Seq(T)
      OBVIOUS
    <2>2. FlattenSeq(Append(<< >>, f)) = FlattenSeq(<< >>) \o f
      BY <2>1, FlattenAppend, Zenon
    <2>3. << >> \o f = f /\ f \o << >> = f
      BY ConcatEmptySeq
    <2>4. <<f>> \in Seq(Seq(T))
      OBVIOUS
    <2>5. <<f>> \o << >> = <<f>>
      BY <2>4, ConcatEmptySeq, Zenon
    <2> QED
      BY <2>1, <2>2, <2>3, <2>5, FlattenEmpty, Zenon
  <1>2. ASSUME NEW x \in Seq(Seq(T)), NEW e \in Seq(T), x \in S PROVE Append(x, e) \in S
    <2>0. <<f>> \in Seq(Seq(T))
      OBVIOUS
    <2>1. <<f>> \o x \in Seq(Seq(T)) /\ FlattenSeq(x) \in Seq(T) /\ Append(x, e) \in Seq(Seq(T))
      <3>1. <<f>> \o x \in Seq(Seq(T))
        BY <2>0, ConcatProperties, Zenon
      <3>2. FlattenSeq(x) \in Seq(T)
        BY FlattenType, Zenon
      <3>3. Append(x, e) \in Seq(Seq(T))
        BY AppendProperties, Zenon
      <3> QED
        BY <3>1, <3>2, <3>3
    <2>2. <<f>> \o Append(x, e) = Append(<<f>> \o x, e)
      <3>1. PICK F \in Seq(Seq(T)) : F = <<f>>
        BY <2>0
      <3>2. PICK U : U = Seq(T)
        OBVIOUS
      <3>3. F \in Seq(U) /\ x \in Seq(U) /\ e \in U
        BY <3>2
      <3>4. F \o Append(x, e) = Append(F \o x, e)
        BY ONLY <3>3, AppendBehind
      <3> QED
        BY <3>1, <3>4, Zenon
    <2>3. FlattenSeq(Append(<<f>> \o x, e)) = FlattenSeq(<<f>> \o x) \o e
      BY <2>1, FlattenAppend, Zenon
    <2>4. FlattenSeq(Append(x, e)) = FlattenSeq(x) \o e
      BY FlattenAppend, Zenon
    <2>5. FlattenSeq(<<f>> \o x) = f \o FlattenSeq(x)
      BY <1>2
    <2>6. (f \o FlattenSeq(x)) \o e = f \o (FlattenSeq(x) \o e)
      BY <2>1, ConcatAssociative
    <2>7. FlattenSeq(<<f>> \o Append(x, e)) = f \o FlattenSeq(Append(x, e))
      BY <2>2, <2>3, <2>4, <2>5, <2>6, Zenon
    <2> QED
      BY <2>1, <2>7
  <1> HIDE DEF S
  <1>3. Seq(Seq(T)) \subseteq S
    BY <1>1, <1>2, SequenceInduction
  <1>4. s \in S
    BY <1>3
  <1> QED
    BY <1>4 DEF S

\* Each piece lies where the ones before it end.
LEMMA FlattenParts ==
    ASSUME NEW T, NEW s \in Seq(Seq(T))
    PROVE  \E off \in [0..Len(s) -> Nat] :
             /\ off[0] = 0 /\ off[Len(s)] = Len(FlattenSeq(s))
             /\ \A k \in 1..Len(s) : /\ off[k] = off[k - 1] + Len(s[k])
                                     /\ LiesAt(FlattenSeq(s), off[k - 1], s[k])
  <1> DEFINE P(x, off) ==
               /\ off \in [0..Len(x) -> Nat]
               /\ off[0] = 0 /\ off[Len(x)] = Len(FlattenSeq(x))
               /\ \A k \in 1..Len(x) : /\ off[k] = off[k - 1] + Len(x[k])
                                       /\ LiesAt(FlattenSeq(x), off[k - 1], x[k])
             S == { x \in Seq(Seq(T)) : \E off : P(x, off) }
  <1>1. << >> \in S
    <2> DEFINE e == << >>
               z == [i \in 0..0 |-> 0]
    <2>1. e \in Seq(Seq(T)) /\ Len(e) = 0
      OBVIOUS
    <2>2. FlattenSeq(e) = << >>
      BY FlattenEmpty
    <2>3. z \in [0..0 -> Nat] /\ z[0] = 0 /\ 1..0 = {} /\ Len(<< >>) = 0
      OBVIOUS
    <2> HIDE DEF e, z
    <2>4. P(e, z)
      BY <2>1, <2>2, <2>3
    <2> HIDE DEF P
    <2>5. e \in S
      BY <2>1, <2>4
    <2> HIDE DEF S
    <2> QED
      BY <2>5 DEF e
  <1>2. ASSUME NEW x \in Seq(Seq(T)), NEW e \in Seq(T), x \in S PROVE Append(x, e) \in S
    <2>1. PICK off : P(x, off)
      BY <1>2
    <2> DEFINE n == Len(x)
               y == Append(x, e)
               F == FlattenSeq(x)
               G == F \o e
               new == [i \in 0..n + 1 |-> IF i = n + 1 THEN Len(G) ELSE off[i]]
    <2>2. F \in Seq(T)
      BY FlattenType
    <2>3. FlattenSeq(y) = G
      BY FlattenAppend
    <2>4. n \in Nat /\ y \in Seq(Seq(T)) /\ Len(y) = n + 1 /\ y[n + 1] = e
          /\ \A k \in 1..n : y[k] = x[k] /\ x[k] \in Seq(T)
      OBVIOUS
    <2>5. /\ off \in [0..n -> Nat] /\ off[0] = 0 /\ off[n] = Len(F)
          /\ \A k \in 1..n : off[k] = off[k - 1] + Len(x[k]) /\ LiesAt(F, off[k - 1], x[k])
      BY <2>1
    <2> HIDE DEF F
    <2>6. /\ G \in Seq(T) /\ Len(G) = Len(F) + Len(e) /\ Len(G) \in Nat
          /\ LiesAt(G, Len(F), e)
      BY <2>2, LiesAtEnds, ConcatProperties
    <2> HIDE DEF n, y, G, P
    <2>7. new \in [0..n + 1 -> Nat] /\ new[n + 1] = Len(G) /\ \A i \in 0..n : new[i] = off[i]
      BY <2>4, <2>5, <2>6
    <2> HIDE DEF new
    <2>8. ASSUME NEW k \in 1..n + 1
          PROVE  new[k] = new[k - 1] + Len(y[k]) /\ LiesAt(G, new[k - 1], y[k])
      <3>1. CASE k = n + 1
        <4>1. k - 1 = n /\ n \in 0..n
          BY <2>4, <3>1
        <4>2. new[k - 1] = Len(F)
          BY <2>5, <2>7, <4>1
        <4> QED
          BY <2>4, <2>6, <2>7, <3>1, <4>2
      <3>2. CASE k # n + 1
        <4>1. k \in 1..n /\ k \in 0..n /\ k - 1 \in 0..n
          BY <2>4, <3>2
        <4>2. off[k] = off[k - 1] + Len(x[k]) /\ LiesAt(F, off[k - 1], x[k])
          BY <2>5, <4>1
        <4>3. off[k - 1] \in Nat
          BY <2>5, <4>1
        <4>4. x[k] \in Seq(T) /\ y[k] = x[k]
          BY <2>4, <4>1
        <4>5. LiesAt(G, off[k - 1], x[k])
          BY <2>2, <4>2, <4>3, <4>4, LiesInFront DEF G
        <4> QED
          BY <2>7, <4>1, <4>2, <4>4, <4>5
      <3> QED
        BY <3>1, <3>2
    <2>9. new[0] = 0
      <3>1. 0 \in 0..n
        BY <2>4
      <3> QED
        BY <2>5, <2>7, <3>1
    <2>10. P(y, new)
      BY <2>3, <2>4, <2>7, <2>8, <2>9 DEF P
    <2>11. y \in S
      BY <2>4, <2>10
    <2> QED
      BY <2>11 DEF y
  <1> HIDE DEF S
  <1>3. Seq(Seq(T)) \subseteq S
    BY <1>1, <1>2, SequenceInduction
  <1>4. s \in S
    BY <1>3
  <1> QED
    BY <1>4 DEF S

\* A stretch of a sequence begins with its first element.
LEMMA SubSeqFirst ==
    ASSUME NEW T, NEW s \in Seq(T), NEW k \in Nat, NEW e \in Nat, k < e, e <= Len(s)
    PROVE  /\ s[k + 1] \in T
           /\ SubSeq(s, k + 2, e) \in Seq(T)
           /\ SubSeq(s, k + 1, e) = <<s[k + 1]>> \o SubSeq(s, k + 2, e)
  <1>1. Len(s) \in Nat /\ \A i \in 1..Len(s) : s[i] \in T
    OBVIOUS
  <1>2. PICK a \in T : a = s[k + 1]
    BY <1>1
  <1>3. \A i \in k + 1..e : s[i] \in T
    BY <1>1
  <1> DEFINE x == SubSeq(s, k + 1, e)
             rest == SubSeq(s, k + 2, e)
             one == <<a>>
             y == one \o rest
  <1>4. x \in Seq(T) /\ Len(x) = e - k /\ \A i \in 1..e - k : x[i] = s[k + i]
    <2>1. k + 1 \in Int /\ e \in Int /\ k + 1 <= e + 1
      OBVIOUS
    <2>2. /\ x \in Seq(T)
          /\ Len(x) = IF k + 1 <= e THEN e - (k + 1) + 1 ELSE 0
          /\ \A i \in 1..e - (k + 1) + 1 : x[i] = s[(k + 1) + i - 1]
      BY <1>3, <2>1, SubSeqProperties
    <2>3. /\ k + 1 <= e /\ e - (k + 1) + 1 = e - k
          /\ \A i \in 1..e - k : (k + 1) + i - 1 = k + i
      OBVIOUS
    <2> HIDE DEF x
    <2> QED
      BY <2>2, <2>3, Zenon
  <1>5. rest \in Seq(T) /\ Len(rest) = e - k - 1 /\ \A i \in 1..e - k - 1 : rest[i] = s[k + 1 + i]
    <2>1. k + 2 \in Int /\ e \in Int /\ k + 2 <= e + 1 /\ \A i \in k + 2..e : s[i] \in T
      BY <1>3
    <2>2. /\ rest \in Seq(T)
          /\ Len(rest) = IF k + 2 <= e THEN e - (k + 2) + 1 ELSE 0
          /\ \A i \in 1..e - (k + 2) + 1 : rest[i] = s[(k + 2) + i - 1]
      BY <2>1, SubSeqProperties
    <2>3. /\ e - (k + 2) + 1 = e - k - 1 /\ (~ (k + 2 <= e) => e - k - 1 = 0)
          /\ \A i \in 1..e - k - 1 : (k + 2) + i - 1 = k + 1 + i
      OBVIOUS
    <2> HIDE DEF rest
    <2> QED
      BY <2>2, <2>3, Zenon
  <1>6. one \in Seq(T) /\ Len(one) = 1 /\ one[1] = a
    OBVIOUS
  <1> HIDE DEF one, rest, x
  <1>7. /\ y \in Seq(T) /\ Len(y) = e - k
        /\ \A i \in 1..e - k : y[i] = IF i <= 1 THEN one[i] ELSE rest[i - 1]
    <2>1. /\ y \in Seq(T) /\ Len(y) = Len(one) + Len(rest)
          /\ \A i \in 1..Len(one) + Len(rest) : y[i] = IF i <= Len(one) THEN one[i] ELSE rest[i - Len(one)]
      BY <1>5, <1>6, ConcatProperties
    <2>2. 1 + (e - k - 1) = e - k
      OBVIOUS
    <2> HIDE DEF y
    <2> QED
      BY <1>5, <1>6, <2>1, <2>2, Zenon
  <1> HIDE DEF y
  <1>8. ASSUME NEW i \in 1..e - k PROVE x[i] = y[i]
    <2>1. CASE i = 1
      <3>1. y[1] = one[1] /\ x[1] = s[k + 1]
        BY <1>4, <1>7, <2>1
      <3> QED
        BY <1>2, <1>6, <2>1, <3>1, Zenon
    <2>2. CASE i # 1
      <3>1. i - 1 \in 1..e - k - 1 /\ ~ (i <= 1) /\ k + 1 + (i - 1) = k + i
        BY <2>2
      <3>2. y[i] = rest[i - 1] /\ rest[i - 1] = s[k + 1 + (i - 1)]
        BY <1>5, <1>7, <3>1, Zenon
      <3> QED
        BY <1>4, <3>1, <3>2, Zenon
    <2> QED
      BY <2>1, <2>2
  <1>9. x = y
    <2>1. \A i \in 1..Len(x) : x[i] = y[i]
      BY <1>4, <1>8
    <2> QED
      BY <1>4, <1>7, <2>1, SeqEqual
  <1> QED
    BY <1>1, <1>2, <1>5, <1>9 DEF x, y, one, rest

LEMMA LiesWithin ==
    ASSUME NEW T, NEW s \in Seq(T), NEW c \in Seq(T), NEW o \in Nat, NEW p \in Seq(T),
           LiesAt(s, 0, c), LiesAt(c, o, p)
    PROVE  LiesAt(s, o, p)
  <1> DEFINE n == Len(s)  m == Len(c)  k == Len(p)
  <1>1. n \in Nat /\ m \in Nat /\ k \in Nat
    OBVIOUS
  <1>2. 0 + m <= n /\ \A i \in 1..m : s[0 + i] = c[i]
    BY Zenon DEF LiesAt
  <1>3. o + k <= m /\ \A i \in 1..k : c[o + i] = p[i]
    BY Zenon DEF LiesAt
  <1> HIDE DEF n, m, k
  <1>4. o + k <= n /\ \A i \in 1..k : o + i \in 1..m /\ 0 + (o + i) = o + i
    <2>1. 0 + m <= n /\ o + k <= m
      BY <1>2, <1>3
    <2> QED
      BY ONLY <1>1, <2>1, o \in Nat
  <1>5. \A i \in 1..k : s[o + i] = p[i]
    BY <1>2, <1>3, <1>4, Zenon
  <1> QED
    BY <1>4, <1>5, Zenon DEF LiesAt, n, k

\* Two sequences as long as each other at one place are the same.
LEMMA SameFront ==
    ASSUME NEW T, NEW s \in Seq(T), NEW p \in Seq(T), NEW q \in Seq(T),
           LiesAt(s, 0, p), LiesAt(s, 0, q), Len(p) = Len(q)
    PROVE  p = q
  <1>1. 0 \in Nat
    OBVIOUS
  <1>2. SubSeq(s, 0 + 1, 0 + Len(p)) = p
    BY <1>1, LiesAtIsSubSeq, Zenon
  <1>3. SubSeq(s, 0 + 1, 0 + Len(q)) = q
    BY <1>1, LiesAtIsSubSeq, Zenon
  <1> QED
    BY <1>2, <1>3, Zenon
================================================================================
