------------------------------- MODULE Ranking -------------------------------
(***************************************************************************)
(* Sequences given by the rank of what is in them: a finite set in an      *)
(* order, and what is left of a sequence at some of its positions.  They   *)
(* are SortSeq and SelectSeq of the standard modules, which a proof knows  *)
(* nothing about.                                                          *)
(***************************************************************************)
EXTENDS Naturals, FiniteSets

(* The elements of S, the first one in the strict order R first.             *)
SortedBy(S, R) == [k \in 1..Cardinality(S) |-> CHOOSE c \in S : Cardinality({d \in S : <<d, c>> \in R}) = k - 1]

OnlyAt(s, I) ==
    LET places == SortedBy(I, {x \in I \X I : x[1] < x[2]})
    IN  [k \in DOMAIN places |-> s[places[k]]]
=============================================================================
