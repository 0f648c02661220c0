------------------------------- MODULE Sublists -------------------------------
(***************************************************************************)
(* A list filtered by position.  SelectSeq says the same by recursion; the *)
(* closed form below is the one the proofs can reason about.               *)
(***************************************************************************)
EXTENDS Integers, FiniteSets, Sequences

(* How many positions of K there are up to i.                              *)
Rank(K, i) == Cardinality({k \in K : k <= i})

(* The entries of s at the positions K, in their order.                    *)
KeepAt(s, K) ==
  [n \in 1 .. Cardinality(K) |-> s[CHOOSE i \in K : Rank(K, i) = n]]
===============================================================================
