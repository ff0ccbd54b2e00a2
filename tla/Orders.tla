-------------------------------- MODULE Orders --------------------------------
(***************************************************************************)
(* Sorting and filtering as the code does them with sorted() and list      *)
(* comprehensions.  The order of a sort is a set of pairs, strict and      *)
(* total on what is sorted, so that what holds of Ordered for any order    *)
(* can be stated and proved once (FoldTheorems).                           *)
(***************************************************************************)
EXTENDS Integers, Sequences, FiniteSets

(* The elements of a finite set in order: the n-th is the one that n - 1   *)
(* come before.                                                            *)
Ordered(S, before) ==
  [n \in 1..Cardinality(S) |->
     CHOOSE x \in S : Cardinality({y \in S : <<y, x>> \in before}) = n - 1]

Ascending(S) == {p \in S \X S : p[1] < p[2]}

(* Tuples in order, the first place that differs deciding; places in the   *)
(* order of their keys, and as they come where the keys are the same.      *)
Less(a, b) == \E i \in DOMAIN a : a[i] < b[i] /\ \A j \in 1..(i - 1) : a[j] = b[j]

ByKey(key) ==
  {p \in (DOMAIN key) \X (DOMAIN key) : Less(Append(key[p[1]], p[1]), Append(key[p[2]], p[2]))}

(* What stands at some places of a sequence, in the order of keys and in   *)
(* the order of the sequence.                                              *)
Arranged(seq, places, key) ==
  LET order == Ordered(places, ByKey(key))
  IN [k \in DOMAIN order |-> seq[order[k]]]

AtPlaces(seq, places) ==
  LET order == Ordered(places, Ascending(places))
  IN [k \in DOMAIN order |-> seq[order[k]]]
=============================================================================
