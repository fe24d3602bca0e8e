------------------------------ MODULE RankFusion ------------------------------
(***************************************************************************)
(* Two rankings made one: reciprocal rank fusion, over a common            *)
(* denominator.  A ranking is a sequence of what it ranks, each once.      *)
(***************************************************************************)
EXTENDS Integers, Sequences, SequencesExt

\* 1 / (RRF + rank) in either order.
Rrf == 60
Position(order, x) == IF x \in ToSet(order) THEN CHOOSE i \in DOMAIN order : order[i] = x ELSE 0
Score(a, b, x) ==
    LET weight(p) == IF p = 0 THEN 0 ELSE Rrf + p IN
    IF Position(a, x) = 0 \/ Position(b, x) = 0
    THEN [num |-> 1, den |-> weight(Position(a, x)) + weight(Position(b, x))]
    ELSE [num |-> weight(Position(a, x)) + weight(Position(b, x)),
          den |-> weight(Position(a, x)) * weight(Position(b, x))]
Best(a, b, x) ==
    LET p == Position(a, x) q == Position(b, x) IN
    IF p = 0 THEN q ELSE IF q = 0 \/ p < q THEN p ELSE q

\* By score, then by the better rank; what is equal in both is left to its id.
Ahead(a, b, x, y) ==
    LET s == Score(a, b, x)
        t == Score(a, b, y) IN
    \/ s.num * t.den > t.num * s.den
    \/ s.num * t.den = t.num * s.den /\ Best(a, b, x) < Best(a, b, y)
Even(a, b, x, y) == ~Ahead(a, b, x, y) /\ ~Ahead(a, b, y, x)
=============================================================================
