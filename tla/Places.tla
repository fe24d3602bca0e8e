-------------------------------- MODULE Places --------------------------------
(***************************************************************************)
(* Parts of a sequence: what stands at some places of it, and its          *)
(* beginning.                                                              *)
(***************************************************************************)
EXTENDS Integers, Sequences, FiniteSets

\* The elements at these places in their order: the k-th of the places has k - 1 before it.
Those(s, places) ==
    [k \in 1..Cardinality(places) |->
        s[CHOOSE i \in places : Cardinality({j \in places : j < i}) = k - 1]]

FirstOf(s, n) == SubSeq(s, 1, IF Len(s) < n THEN Len(s) ELSE n)
=============================================================================
