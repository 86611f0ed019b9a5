------------------------------ MODULE Selection ------------------------------
(***************************************************************************)
(* Array.filter of the source, for a set of places.  SelectSeq is the same *)
(* on sequences, but it is a built-in of TLC that the prover has no        *)
(* meaning for.                                                            *)
(***************************************************************************)
EXTENDS Naturals, FiniteSets

Rank(I, i) == Cardinality({j \in I : j <= i})

\* The place in I that has k - 1 places of I before it.
Nth(I, k) == CHOOSE i \in I : Rank(I, i) = k

\* The elements of s at the places in I, in their order.
Selected(s, I) == [k \in 1..Cardinality(I) |-> s[Nth(I, k)]]
==============================================================================
