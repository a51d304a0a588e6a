---------------------------- MODULE MCSessionReport ----------------------------
(***************************************************************************)
(* Sessions of up to two datagrams of at most two results each, with       *)
(* delays that together reach the limit, and some of three.                *)
(***************************************************************************)
EXTENDS SessionReport

Decoded == UNION { [1..n -> Kinds \cup {Failed}] : n \in 0..2 }
Datagrams == [size : {3}, delay : {NoDelay, 5, DelayLimit - 1}, decoded : Decoded]
Delayed == { d \in Datagrams : d.delay # NoDelay /\ Len(d.decoded) < 2 }

MCSessions ==
    UNION { [1..n -> Datagrams] : n \in 0..2 } \cup [1..3 -> Delayed]
================================================================================
