------------------------------- MODULE Filter -------------------------------
(***************************************************************************)
(* The elements of a sequence at some of its places, in order: what a loop *)
(* of the code that looks at a list and takes what it is after, computes.  *)
(* Unlike SelectSeq it is not recursive, so that it can be reasoned about. *)
(***************************************************************************)
EXTENDS Integers, FiniteSets

\* The k-th of the places.
Nth(at, k) == CHOOSE i \in at : Cardinality({j \in at : j <= i}) = k

Filtered(s, at) == [k \in 1 .. Cardinality(at) |-> s[Nth(at, k)]]
=============================================================================
