------------------------------ MODULE Positions ------------------------------
(***************************************************************************)
(* Sequences cut at places that are known by their numbers: what Console    *)
(* says of lines and Monitor of words.                                      *)
(***************************************************************************)
EXTENDS Integers, FiniteSets

\* The k-th smallest element of a set of numbers.
Nth(E, k) == CHOOSE i \in E : Cardinality({j \in E : j <= i}) = k

=============================================================================
