------------------------------- MODULE Pareto -------------------------------
(***************************************************************************)
(* The dominance order of the router and the bags it keeps.                *)
(*                                                                         *)
(* An entry is a record with at least the fields arr (arrival second),     *)
(* price (lower bound in ore) and dep (second at which the journey first   *)
(* boards a vehicle).  A bag is a set of entries.  The code keeps a bag as *)
(* a list of tuples; the order of the list only decides which of two       *)
(* equal entries was there first, and an equal newcomer is refused.        *)
(***************************************************************************)
EXTENDS Integers

(* a is no later, no dearer and leaves no earlier than b.                  *)
NoWorse(a, b) == a.arr <= b.arr /\ a.price <= b.price /\ a.dep >= b.dep

Dominated(bag, e) == \E x \in bag : NoWorse(x, e)

(* Mutants of BagInsert: dominated entries stay; departure is forgotten.    *)
BagInsertKeeping(bag, e) == IF Dominated(bag, e) THEN bag ELSE bag \cup {e}
BagInsertTimeless(bag, e) ==
  IF Dominated(bag, e) THEN bag
  ELSE {x \in bag : ~ (e.arr <= x.arr /\ e.price <= x.price)} \cup {e}

(* A dominated entry is refused; otherwise the entries it dominates go.    *)
BagInsert(bag, e) ==
  IF Dominated(bag, e) THEN bag ELSE {x \in bag : ~ NoWorse(e, x)} \cup {e}

(* No entry of the bag makes another one pointless.                        *)
IsFrontier(bag) == \A x, y \in bag : NoWorse(x, y) => x = y

(* Whatever is in the old bag is matched by something in the new one.      *)
Covers(new, old) == \A x \in old : Dominated(new, x)
=============================================================================
