--------------------------- MODULE McRaptorProofs ---------------------------
(***************************************************************************)
(* What holds of the journey search for every network and every query.     *)
(***************************************************************************)
EXTENDS McRaptor, TLAPS

(***************************************************************************)
(* Bags.  What inserting preserves, for bags of any entries with integer   *)
(* arrival, price and departure.                                           *)
(***************************************************************************)
IsTriple(e) == e.arr \in Int /\ e.price \in Int /\ e.dep \in Int
IsBag(bag) == \A x \in bag : IsTriple(x)

(* Dominance is a preorder on entries.                                     *)
LEMMA NoWorseReflexive ==
  ASSUME NEW a, IsTriple(a)
  PROVE  NoWorse(a, a)
BY DEF IsTriple, NoWorse

(* What is no worse than something no worse is no worse.                   *)
LEMMA NoWorseTransitive ==
  ASSUME NEW a, NEW b, NEW c, IsTriple(a), IsTriple(b), IsTriple(c),
         NoWorse(a, b), NoWorse(b, c)
  PROVE  NoWorse(a, c)
BY DEF IsTriple, NoWorse

(* What dominates an entry of a covered bag has a match in the covering    *)
(* one.                                                                    *)
LEMMA DominatedByCover ==
  ASSUME NEW new, NEW old, NEW e, IsBag(new), IsBag(old), IsTriple(e),
         Covers(new, old), Dominated(old, e)
  PROVE  Dominated(new, e)
<1>1. PICK x \in old : NoWorse(x, e)
  BY DEF Dominated
<1>2. PICK y \in new : NoWorse(y, x)
  BY DEF Covers, Dominated
<1>3. NoWorse(y, e)
  BY <1>1, <1>2, NoWorseTransitive DEF IsBag
<1>4. QED
  BY <1>3 DEF Dominated

(* A bag covers itself.                                                    *)
LEMMA CoversReflexive ==
  ASSUME NEW bag, IsBag(bag)
  PROVE  Covers(bag, bag)
BY NoWorseReflexive DEF Covers, Dominated, IsBag

(* A bag covers what the bags it covers cover.                             *)
LEMMA CoversTransitive ==
  ASSUME NEW a, NEW b, NEW c, IsBag(a), IsBag(b), IsBag(c),
         Covers(a, b), Covers(b, c)
  PROVE  Covers(a, c)
<1>1. ASSUME NEW x \in c PROVE Dominated(a, x)
  <2>1. Dominated(b, x)
    BY DEF Covers
  <2>2. QED
    BY <2>1, DominatedByCover DEF IsBag
<1>2. QED
  BY <1>1 DEF Covers

(* An insertion leaves a bag of entries that holds a match for the         *)
(* newcomer and for everything that was there.                             *)
LEMMA InsertIsBag ==
  ASSUME NEW bag, NEW e, IsBag(bag), IsTriple(e)
  PROVE  IsBag(BagInsert(bag, e))
BY DEF IsBag, BagInsert

(* After an insertion the entry is matched by something in the bag.        *)
LEMMA InsertMatches ==
  ASSUME NEW bag, NEW e, IsBag(bag), IsTriple(e)
  PROVE  Dominated(BagInsert(bag, e), e)
BY NoWorseReflexive DEF BagInsert, Dominated

(* An insertion drops only what it covers.                                 *)
LEMMA InsertCovers ==
  ASSUME NEW bag, NEW e, IsBag(bag), IsTriple(e)
  PROVE  Covers(BagInsert(bag, e), bag)
<1>1. CASE Dominated(bag, e)
  BY <1>1, CoversReflexive DEF BagInsert
<1>2. CASE ~ Dominated(bag, e)
  <2>1. ASSUME NEW x \in bag PROVE Dominated(BagInsert(bag, e), x)
    <3>1. CASE NoWorse(e, x)
      BY <1>2, <3>1 DEF BagInsert, Dominated
    <3>2. CASE ~ NoWorse(e, x)
      BY <1>2, <3>2, NoWorseReflexive DEF BagInsert, Dominated, IsBag
    <3>3. QED
      BY <3>1, <3>2
  <2>2. QED
    BY <2>1 DEF Covers
<1>3. QED
  BY <1>1, <1>2

(* A frontier stays a frontier.                                            *)
LEMMA InsertKeepsFrontier ==
  ASSUME NEW bag, NEW e, IsTriple(e), IsFrontier(bag)
  PROVE  IsFrontier(BagInsert(bag, e))
BY DEF IsFrontier, BagInsert, Dominated
-----------------------------------------------------------------------------
(***************************************************************************)
(* The search.                                                             *)
(***************************************************************************)

(* The part of the type invariant Reach and TargetInsert can disturb.      *)
BagsOK ==
  /\ curr \in [Stops -> SUBSET Entries]
  /\ best \in [Stops -> SUBSET Entries]
  /\ target \subseteq Entries
  /\ guard \in [arr : Nat, price : Int, dep : Int]
  /\ marked \subseteq Stops

(* The three criteria of an entry are integers.                            *)
LEMMA EntriesAreTriples ==
  ASSUME NEW e \in Entries
  PROVE  IsTriple(e)
BY DEF Entries, IsTriple

(* Sets of entries are bags.                                               *)
LEMMA EntrySetsAreBags ==
  ASSUME NEW S \in SUBSET Entries
  PROVE  IsBag(S)
BY EntriesAreTriples DEF IsBag

(* A node at the end of a label makes an entry.                            *)
LEMMA EntryOfType ==
  ASSUME NEW node \in Nodes, NEW ready \in Nat, NEW parents \in Seq(Nodes)
  PROVE  EntryOf(node, ready, parents) \in Entries
<1>1. Append(parents, node) \in Seq(Nodes)
  OBVIOUS
<1>2. node.arr \in Nat /\ node.price \in Int /\ node.dep \in Nat
  BY DEF Nodes
<1>3. QED
  BY <1>1, <1>2 DEF EntryOf, Entries

(* Insertion keeps bags sets of entries.                                   *)
LEMMA InsertType ==
  ASSUME NEW bag \in SUBSET Entries, NEW e \in Entries
  PROVE  BagInsert(bag, e) \in SUBSET Entries
BY DEF BagInsert

(* An entry at a target keeps the types of the target bag and the guards.  *)
LEMMA TargetInsertType ==
  ASSUME NEW e \in Entries, target \subseteq Entries,
         guard \in [arr : Nat, price : Int, dep : Int],
         TargetInsert(e)
  PROVE  /\ target' \subseteq Entries
         /\ guard' \in [arr : Nat, price : Int, dep : Int]
<1>1. target' \subseteq Entries
  BY InsertType DEF TargetInsert
<1>2. e.arr \in Nat /\ e.price \in Int /\ e.dep \in Int
  BY DEF Entries
<1>3. guard' \in [arr : Nat, price : Int, dep : Int]
  BY <1>2 DEF TargetInsert
<1>4. QED
  BY <1>1, <1>3

(* Reaching a stop keeps the types of the bags.                            *)
LEMMA ReachType ==
  ASSUME NEW s \in Stops, NEW e \in Entries, BagsOK, Reach(s, e)
  PROVE  BagsOK'
<1>1. CASE UNCHANGED bags
  BY <1>1 DEF BagsOK, bags
<1>2. CASE /\ best' = [best EXCEPT ![s] = BagInsert(@, e)]
           /\ curr' = [curr EXCEPT ![s] = BagInsert(@, e)]
           /\ marked' = marked \cup {s}
           /\ IF s \in query.targets THEN TargetInsert(e)
              ELSE UNCHANGED <<target, guard>>
  <2>1. BagInsert(best[s], e) \in SUBSET Entries /\ BagInsert(curr[s], e) \in SUBSET Entries
    BY InsertType DEF BagsOK
  <2>2. best' \in [Stops -> SUBSET Entries] /\ curr' \in [Stops -> SUBSET Entries]
    BY <1>2, <2>1 DEF BagsOK
  <2>3. /\ target' \subseteq Entries
        /\ guard' \in [arr : Nat, price : Int, dep : Int]
    BY <1>2, TargetInsertType DEF BagsOK
  <2>4. marked' \subseteq Stops
    BY <1>2 DEF BagsOK
  <2>5. QED
    BY <2>2, <2>3, <2>4 DEF BagsOK
<1>3. QED
  BY <1>1, <1>2 DEF Reach

(* The network and the query are the ones the assumptions are about.       *)
LEMMA InstanceFacts ==
  ASSUME TypeOK
  PROVE  IsNetwork(net) /\ IsQuery(query)
BY NetworkAssumption, QueryAssumption DEF TypeOK

(* The route being scanned, and what a passenger meets at its position.    *)
LEMMA ScannedFacts ==
  ASSUME TypeOK, scan \in RouteStarts
  PROVE  /\ IsRoute(Scanned)
         /\ scan.pos \in 1..Len(Scanned.stops)
         /\ ScannedStop \in Stops
         /\ Scanned.cum[scan.pos] \in Nat
         /\ \A t \in 1..Len(Scanned.trips) :
              /\ IsTrip(Scanned.trips[t], Len(Scanned.stops))
              /\ Scanned.trips[t].arr[scan.pos] \in Nat
              /\ Scanned.trips[t].dep[scan.pos] \in Nat
              /\ Scanned.trips[t].fare \in Int
<1>1. scan.route \in 1..Len(net.routes) /\ scan.pos \in 1..Len(Scanned.stops)
  BY DEF RouteStarts, Scanned
<1>2. IsRoute(Scanned)
  BY <1>1, InstanceFacts DEF IsNetwork, Scanned
<1>3. ScannedStop \in Stops
  BY <1>1, <1>2 DEF IsRoute, ScannedStop
<1>4. Scanned.cum[scan.pos] \in Nat
  BY <1>1, <1>2 DEF IsRoute
<1>5. ASSUME NEW t \in 1..Len(Scanned.trips)
      PROVE  /\ IsTrip(Scanned.trips[t], Len(Scanned.stops))
             /\ Scanned.trips[t].arr[scan.pos] \in Nat
             /\ Scanned.trips[t].dep[scan.pos] \in Nat
             /\ Scanned.trips[t].fare \in Int
  <2>1. IsTrip(Scanned.trips[t], Len(Scanned.stops))
    BY <1>2 DEF IsRoute
  <2>2. /\ Scanned.trips[t].arr[scan.pos] \in Nat
        /\ Scanned.trips[t].dep[scan.pos] \in Nat
    BY <1>1, <2>1 DEF IsTrip
  <2>3. Scanned.trips[t].fare \in Int
    BY <2>1 DEF IsTrip, NoFare
  <2>4. QED
    BY <2>1, <2>2, <2>3
<1>6. QED
  BY <1>1, <1>2, <1>3, <1>4, <1>5

(* The entries of the three ways to reach a stop are well typed.           *)
WalkedOf(item) ==
  LET e == item[1]  w == item[2]
      node == [stop |-> w.to, arr |-> e.arr + w.secs, price |-> e.price,
               dep |-> e.dep, via |-> [kind |-> "walk", secs |-> w.secs]]
  IN EntryOf(node, e.arr + w.secs, e.label)

(* A walk from a stop leads to a stop, with an entry.                      *)
LEMMA WalkedEntry ==
  ASSUME TypeOK, NEW item \in work, Walk(item)
  PROVE  item[2].to \in Stops /\ WalkedOf(item) \in Entries
<1> DEFINE e == item[1]
           w == item[2]
           node == [stop |-> w.to, arr |-> e.arr + w.secs, price |-> e.price,
                    dep |-> e.dep, via |-> [kind |-> "walk", secs |-> w.secs]]
<1>1. e \in Entries /\ w \in [from : Stops, to : Stops, secs : Nat]
  BY InstanceFacts DEF Walk, TypeOK, IsNetwork
<1>2. e.arr + w.secs \in Nat /\ e.label \in Seq(Nodes) /\ w.to \in Stops
  BY <1>1 DEF Entries
<1>3. node \in Nodes
  BY <1>1, <1>2 DEF Nodes, Vias, Entries
<1>4. QED
  BY <1>2, <1>3, EntryOfType DEF WalkedOf

AlightedNode(ride) ==
  [stop |-> ScannedStop, arr |-> Scanned.trips[ride.trip].arr[scan.pos],
   price |-> ride.base + Scanned.cum[scan.pos], dep |-> ride.dep,
   via |-> [kind |-> "ride", route |-> scan.route, trip |-> ride.trip,
            board |-> ride.board, alight |-> scan.pos]]
AlightedEntry(ride) ==
  EntryOf(AlightedNode(ride),
          Scanned.trips[ride.trip].arr[scan.pos] + query.minTransfer, ride.parents)

(* Setting down happens at a stop, with an entry.                          *)
LEMMA AlightedEntryType ==
  ASSUME TypeOK, NEW ride \in rides, Alight(ride)
  PROVE  ScannedStop \in Stops /\ AlightedEntry(ride) \in Entries
<1>1. scan \in RouteStarts /\ ride \in Rides
  BY DEF Alight, TypeOK
<1>2. /\ ScannedStop \in Stops /\ Scanned.trips[ride.trip].arr[scan.pos] \in Nat
      /\ Scanned.cum[scan.pos] \in Nat /\ scan.pos \in Nat
  BY <1>1, ScannedFacts DEF Rides, RouteStarts
<1>3. /\ ride.trip \in Nat /\ ride.board \in Nat /\ ride.base \in Int
      /\ ride.dep \in Nat /\ scan.route \in Nat /\ ride.parents \in Seq(Nodes)
  BY <1>1, <1>2, InstanceFacts, ScannedFacts DEF Rides, RouteStarts, IsRoute, IsNetwork
<1>4. AlightedNode(ride) \in Nodes
  BY <1>2, <1>3 DEF Nodes, Vias, AlightedNode
<1>5. query.minTransfer \in Nat
  BY InstanceFacts DEF IsQuery
<1>6. Scanned.trips[ride.trip].arr[scan.pos] + query.minTransfer \in Nat
  BY <1>2, <1>5
<1>7. ride.parents \in Seq(Nodes)
  BY <1>3
<1>8. AlightedEntry(ride) \in Entries
  BY <1>4, <1>6, <1>7, EntryOfType DEF AlightedEntry
<1>9. QED
  BY <1>2, <1>8

(* The search starts well typed.                                           *)
LEMMA TypeInit == Init => TypeOK
<1> SUFFICES ASSUME Init PROVE TypeOK
  OBVIOUS
<1>1. IsQuery(query)
  BY QueryAssumption DEF Init
<1>2. guard \in [arr : Nat, price : Int, dep : Int]
  BY InfinityAssumption DEF Init
<1>3. round \in 0..query.maxRounds
  BY <1>1 DEF Init, IsQuery
<1>4. QED
  BY <1>2, <1>3 DEF Init, TypeOK

(* Steps that leave the bags alone or replace them by empty ones only have *)
(* to hand the loops items of the right kind.                              *)
LEMMA TypeStep ==
  ASSUME TypeOK, [Next]_vars
  PROVE  TypeOK'
<1> USE DEF bags, instance
<1>bags. BagsOK
  BY DEF TypeOK, BagsOK
<1>inst. IsNetwork(net) /\ IsQuery(query)
  BY InstanceFacts
<1>1. ASSUME NEW o \in query.origins, SeedOrigin(o) PROVE TypeOK'
  <2> DEFINE node == [stop |-> o.stop, arr |-> o.at, price |-> 0,
                      dep |-> Infinity, via |-> [kind |-> "start"]]
             e == EntryOf(node, o.at, <<>>)
  <2>1. o.stop \in Stops /\ o.at \in Nat
    BY <1>inst DEF IsQuery
  <2>2. e \in Entries
    <3>1. node \in Nodes
      BY <2>1, InfinityAssumption DEF Nodes, Vias
    <3>2. <<>> \in Seq(Nodes)
      OBVIOUS
    <3>3. QED
      BY <2>1, <3>1, <3>2, EntryOfType
  <2>3. BagsOK'
    <3>1. CASE UNCHANGED bags
      BY <1>bags, <3>1 DEF BagsOK
    <3>2. CASE /\ curr' = [curr EXCEPT ![o.stop] = BagInsert(@, e)]
               /\ best' = [best EXCEPT ![o.stop] = BagInsert(@, e)]
               /\ marked' = marked \cup {o.stop}
               /\ UNCHANGED <<target, guard>>
      <4>1. /\ BagInsert(curr[o.stop], e) \in SUBSET Entries
            /\ BagInsert(best[o.stop], e) \in SUBSET Entries
        BY <1>bags, <2>1, <2>2, InsertType DEF BagsOK
      <4>2. QED
        BY <1>bags, <2>1, <3>2, <4>1 DEF BagsOK
    <3>3. QED
      BY <1>1, <3>1, <3>2 DEF SeedOrigin
  <2>4. QED
    BY <1>1, <2>3 DEF SeedOrigin, TypeOK, BagsOK
<1>2. CASE EndOrigins
  BY <1>2 DEF EndOrigins, StartRelax, TypeOK
<1>3. ASSUME NEW s \in Stops, OpenStop(s) PROVE TypeOK'
  BY <1>3 DEF OpenStop, TypeOK
<1>4. ASSUME NEW item \in work, Walk(item) PROVE TypeOK'
  <2>1. item[2].to \in Stops /\ WalkedOf(item) \in Entries
    BY <1>4, WalkedEntry
  <2>2. Reach(item[2].to, WalkedOf(item))
    BY <1>4 DEF Walk, WalkedOf
  <2>3. BagsOK'
    BY <1>bags, <2>1, <2>2, ReachType
  <2>4. QED
    BY <1>4, <2>3 DEF Walk, TypeOK, BagsOK
<1>5. CASE EndRelax
  <2>1. UNION {best[t] : t \in query.targets} \subseteq Entries
    BY <1>inst DEF TypeOK, IsQuery
  <2>2. QED
    BY <1>5, <2>1 DEF EndRelax, TypeOK
<1>6. ASSUME NEW e \in work, SeedTarget(e) PROVE TypeOK'
  <2>1. e \in Entries
    BY <1>6 DEF SeedTarget, TypeOK
  <2>2. /\ target' \subseteq Entries
        /\ guard' \in [arr : Nat, price : Int, dep : Int]
    BY <1>6, <1>bags, <2>1, TargetInsertType DEF SeedTarget, BagsOK
  <2>3. QED
    BY <1>6, <2>2 DEF SeedTarget, TypeOK
<1>7. CASE BeginRound
  <2>1. RouteEntries \subseteq RouteStarts
    BY DEF RouteEntries, RouteStarts, MarkedPositions
  <2>2. RouteStarts' = RouteStarts
    BY <1>7 DEF BeginRound, RouteStarts
  <2>3. round' \in 0..query'.maxRounds
    BY <1>7, <1>inst DEF BeginRound, TypeOK, IsQuery
  <2>4. QED
    BY <1>7, <2>1, <2>2, <2>3 DEF BeginRound, TypeOK
<1>8. CASE Finish
  BY <1>8 DEF Finish, TypeOK
<1>9. ASSUME NEW a \in agenda, BeginRoute(a) PROVE TypeOK'
  <2>1. a \in RouteStarts /\ RouteStarts' = RouteStarts
    BY <1>9 DEF BeginRoute, TypeOK, RouteStarts
  <2>2. work' \subseteq prev'[ScannedStop']
    BY <1>9 DEF BeginRoute, ScannedStop, Scanned
  <2>3. QED
    BY <1>9, <2>1, <2>2 DEF BeginRoute, TypeOK
<1>10. ASSUME NEW ride \in rides, Alight(ride) PROVE TypeOK'
  <2>1. ScannedStop \in Stops /\ AlightedEntry(ride) \in Entries
    BY <1>10, AlightedEntryType
  <2>2. BagsOK'
    <3>1. CASE UNCHANGED bags
      BY <1>bags, <3>1 DEF BagsOK
    <3>2. CASE Reach(ScannedStop, AlightedEntry(ride))
      BY <1>bags, <2>1, <3>2, ReachType
    <3>3. QED
      BY <1>10, <3>1, <3>2 DEF Alight, AlightedEntry, AlightedNode
  <2>3. RouteStarts' = RouteStarts /\ Rides' = Rides
    BY <1>10 DEF Alight, RouteStarts, Rides, Scanned
  <2>4. QED
    BY <1>10, <2>2, <2>3 DEF Alight, TypeOK, BagsOK
<1>11. CASE EndAlight
  <2>1. RouteStarts' = RouteStarts /\ Rides' = Rides /\ ScannedStop' = ScannedStop
    BY <1>11 DEF EndAlight, RouteStarts, Rides, Scanned, ScannedStop
  <2>2. QED
    BY <1>11, <2>1 DEF EndAlight, TypeOK
<1>12. ASSUME NEW e \in work, Board(e) PROVE TypeOK'
  <2>1. RouteStarts' = RouteStarts /\ Rides' = Rides /\ ScannedStop' = ScannedStop
    BY <1>12 DEF Board, RouteStarts, Rides, Scanned, ScannedStop
  <2>2. rides' \subseteq Rides
    <3>1. scan \in RouteStarts /\ e \in Entries
      BY <1>12, ScannedFacts DEF Board, TypeOK
    <3>2. ASSUME NEW t \in 1..Len(Scanned.trips) PROVE RideOf(e, t) \in Rides
      <4>1. /\ e.price \in Int /\ e.dep \in Nat /\ e.label \in Seq(Nodes)
        BY <3>1 DEF Entries
      <4>2. /\ Scanned.cum[scan.pos] \in Nat /\ Scanned.base \in Nat
            /\ Scanned.trips[t].fare \in Int /\ Scanned.trips[t].dep[scan.pos] \in Nat
            /\ scan.pos \in 1..scan.pos
        BY <3>1, ScannedFacts DEF IsRoute
      <4>3. QED
        BY <4>1, <4>2 DEF RideOf, Rides
    <3>3. ASSUME NEW first \in BisectResults(Scanned, scan.pos, e.ready)
          PROVE  BoardableTrips(Scanned, scan.pos, e.ready, e.dep = Infinity, first)
                   \subseteq 1..Len(Scanned.trips)
      <4>1. first \in Nat \ {0}
        BY DEF BisectResults
      <4>2. QED
        BY <4>1 DEF BoardableTrips, Sampled
    <3>4. QED
      BY <1>12, <3>2, <3>3 DEF Board, TypeOK
  <2>3. QED
    BY <1>12, <2>1, <2>2 DEF Board, TypeOK
<1>13. CASE NextStop
  <2>1. scan \in RouteStarts
    BY <1>13 DEF NextStop, TypeOK
  <2>2. CASE /\ scan.pos < Len(Scanned.stops)
             /\ scan' = [scan EXCEPT !.pos = @ + 1]
             /\ work' = rides
             /\ phase' = "alight"
             /\ UNCHANGED rides
    <3>1. RouteStarts' = RouteStarts
      BY <1>13 DEF NextStop, RouteStarts
    <3>2. scan' \in RouteStarts /\ scan'.route = scan.route /\ scan'.pos = scan.pos + 1
      BY <2>1, <2>2, ScannedFacts DEF RouteStarts, Scanned
    <3>3. Rides \subseteq Rides'
      BY <1>13, <2>1, <3>2 DEF NextStop, Rides, Scanned, RouteStarts
    <3>4. QED
      BY <1>13, <2>2, <3>1, <3>2, <3>3 DEF NextStop, TypeOK
  <2>3. CASE phase' = "scan" /\ rides' = {} /\ UNCHANGED <<scan, work>>
    <3>1. RouteStarts' = RouteStarts
      BY <1>13 DEF NextStop, RouteStarts
    <3>2. QED
      BY <1>13, <2>3, <3>1 DEF NextStop, TypeOK
  <2>4. QED
    BY <1>13, <2>2, <2>3 DEF NextStop
<1>14. CASE EndRoutes
  BY <1>14 DEF EndRoutes, StartRelax, TypeOK
<1>15. CASE Terminated \/ UNCHANGED vars
  BY <1>15 DEF Terminated, vars, TypeOK, RouteStarts, Rides, Scanned, ScannedStop
<1>16. QED
  BY <1>1, <1>2, <1>3, <1>4, <1>5, <1>6, <1>7, <1>8, <1>9, <1>10, <1>11, <1>12,
     <1>13, <1>14, <1>15 DEF Next

(* Every variable stays within its type in every search.                   *)
THEOREM TypeCorrect == Spec => []TypeOK
BY TypeInit, TypeStep, PTL DEF Spec
-----------------------------------------------------------------------------
(***************************************************************************)
(* The frontiers.  Inserting is the only way an entry enters a bag, so the *)
(* bags stay frontiers.  That best covers prev and curr is inductive only  *)
(* together with the fact that best never loses what it could match: the   *)
(* step facts below are stated for both.                                   *)
(***************************************************************************)
BagsKept ==
  /\ \A s \in Stops : IsFrontier(curr[s]) /\ IsFrontier(best[s])
  /\ IsFrontier(target)
  /\ \A s \in Stops : Covers(best[s], curr[s])
  /\ GuardsBoundTarget

BagsImprove ==
  /\ \A s \in Stops : Covers(best'[s], best[s])
  /\ Covers(target', target)

(* An entry at a target keeps the target bag a frontier that covers what   *)
(* it held, and the guards as tight as it.                                 *)
LEMMA TargetInsertKeeps ==
  ASSUME BagsOK, IsFrontier(target), GuardsBoundTarget, NEW e \in Entries,
         TargetInsert(e)
  PROVE  IsFrontier(target') /\ Covers(target', target) /\ GuardsBoundTarget'
<1>1. IsBag(target) /\ IsTriple(e)
  BY EntrySetsAreBags, EntriesAreTriples DEF BagsOK
<1>2. IsFrontier(target') /\ Covers(target', target)
  BY <1>1, InsertKeepsFrontier, InsertCovers DEF TargetInsert
<1>3. GuardsBoundTarget'
  <2>1. CASE Dominated(target, e)
    BY <2>1 DEF TargetInsert, BagInsert, GuardsBoundTarget
  <2>2. CASE ~ Dominated(target, e)
    <3>1. target' \subseteq target \cup {e}
      BY <2>2 DEF TargetInsert, BagInsert
    <3>2. /\ guard'.arr = IF e.arr < guard.arr THEN e.arr ELSE guard.arr
          /\ guard'.price = IF e.price < guard.price THEN e.price ELSE guard.price
          /\ guard'.dep = IF e.dep > guard.dep THEN e.dep ELSE guard.dep
      BY <2>2 DEF TargetInsert
    <3>3. guard.arr \in Int /\ guard.price \in Int /\ guard.dep \in Int
      BY DEF BagsOK
    <3>4. ASSUME NEW x \in target'
          PROVE  guard'.arr <= x.arr /\ guard'.price <= x.price /\ x.dep <= guard'.dep
      <4>1. x \in target => IsTriple(x)
        BY <1>1 DEF IsBag
      <4>2. QED
        BY <1>1, <3>1, <3>2, <3>3, <4>1 DEF GuardsBoundTarget, IsTriple
    <3>5. QED
      BY <3>4 DEF GuardsBoundTarget
  <2>3. QED
    BY <2>1, <2>2
<1>4. QED
  BY <1>2, <1>3

(* The entry goes to both bags of one stop.                                *)
LEMMA DoubleInsertKeeps ==
  ASSUME BagsOK, BagsKept, NEW s \in Stops, NEW e \in Entries,
         best' = [best EXCEPT ![s] = BagInsert(@, e)],
         curr' = [curr EXCEPT ![s] = BagInsert(@, e)]
  PROVE  /\ \A t \in Stops : IsFrontier(curr'[t]) /\ IsFrontier(best'[t])
         /\ \A t \in Stops : Covers(best'[t], best[t]) /\ Covers(best'[t], curr'[t])
<1>1. ASSUME NEW t \in Stops
      PROVE  /\ IsFrontier(curr'[t]) /\ IsFrontier(best'[t])
             /\ Covers(best'[t], best[t]) /\ Covers(best'[t], curr'[t])
  <2>1. IsBag(best[t]) /\ IsBag(curr[t]) /\ IsTriple(e)
    BY EntrySetsAreBags, EntriesAreTriples DEF BagsOK
  <2>2. CASE t # s
    <3>1. best'[t] = best[t] /\ curr'[t] = curr[t]
      BY <2>2 DEF BagsOK
    <3>2. QED
      BY <2>1, <3>1, CoversReflexive DEF BagsKept
  <2>3. CASE t = s
    <3>1. best'[t] = BagInsert(best[t], e) /\ curr'[t] = BagInsert(curr[t], e)
      BY <2>3 DEF BagsOK
    <3>2. IsFrontier(curr'[t]) /\ IsFrontier(best'[t])
      BY <2>1, <3>1, InsertKeepsFrontier DEF BagsKept
    <3>3. IsBag(best'[t]) /\ Covers(best'[t], best[t]) /\ Dominated(best'[t], e)
      BY <2>1, <3>1, InsertIsBag, InsertCovers, InsertMatches
    <3>4. Covers(best'[t], curr[t])
      BY <2>1, <3>3, CoversTransitive DEF BagsKept
    <3>5. curr'[t] \subseteq curr[t] \cup {e}
      BY <3>1 DEF BagInsert
    <3>6. Covers(best'[t], curr'[t])
      BY <3>3, <3>4, <3>5 DEF Covers
    <3>7. QED
      BY <3>2, <3>3, <3>6
  <2>4. QED
    BY <2>2, <2>3
<1>2. QED
  BY <1>1

(* A step that leaves the bags alone keeps what is said of them.           *)
LEMMA BagsUnchanged ==
  ASSUME BagsOK, BagsKept, UNCHANGED bags
  PROVE  BagsKept' /\ BagsImprove
<1>1. IsBag(target) /\ \A s \in Stops : IsBag(best[s])
  BY EntrySetsAreBags DEF BagsOK
<1>2. BagsImprove
  BY <1>1, CoversReflexive DEF bags, BagsImprove
<1>3. QED
  BY <1>2 DEF bags, BagsKept, GuardsBoundTarget

(* Reaching a stop, on foot or by vehicle, keeps the bags frontiers and    *)
(* loses nothing.                                                          *)
LEMMA ReachKeeps ==
  ASSUME BagsOK, BagsKept, NEW s \in Stops, NEW e \in Entries, Reach(s, e)
  PROVE  BagsKept' /\ BagsImprove
<1>1. CASE UNCHANGED bags
  BY <1>1, BagsUnchanged
<1>2. CASE /\ best' = [best EXCEPT ![s] = BagInsert(@, e)]
           /\ curr' = [curr EXCEPT ![s] = BagInsert(@, e)]
           /\ IF s \in query.targets THEN TargetInsert(e)
              ELSE UNCHANGED <<target, guard>>
  <2>1. IsFrontier(target') /\ Covers(target', target) /\ GuardsBoundTarget'
    <3>1. CASE TargetInsert(e)
      BY <3>1, TargetInsertKeeps DEF BagsKept
    <3>2. CASE UNCHANGED <<target, guard>>
      BY <3>2, EntrySetsAreBags, CoversReflexive DEF BagsOK, BagsKept, GuardsBoundTarget
    <3>3. QED
      BY <1>2, <3>1, <3>2
  <2>2. QED
    BY <1>2, <2>1, DoubleInsertKeeps DEF BagsKept, BagsImprove
<1>3. QED
  BY <1>1, <1>2 DEF Reach

(* The inductive invariant of the frontiers.                               *)
FrontierInv ==
  /\ TypeOK
  /\ BagsAreFrontiers
  /\ BestCoversRounds
  /\ GuardsBoundTarget

(* Empty bags are frontiers.                                               *)
LEMMA FrontierInit == Init => FrontierInv
BY TypeInit DEF Init, FrontierInv, BagsAreFrontiers, BestCoversRounds, IsFrontier,
                Covers, GuardsBoundTarget

(* Every step keeps the bags frontiers, the guards sound, and loses        *)
(* nothing.                                                                *)
LEMMA FrontierStep ==
  ASSUME FrontierInv, [Next]_vars
  PROVE  FrontierInv' /\ BagsImprove
<1>bags. BagsOK /\ BagsKept
  BY DEF FrontierInv, TypeOK, BagsOK, BagsKept, BagsAreFrontiers, BestCoversRounds
<1>inst. IsQuery(query)
  BY InstanceFacts DEF FrontierInv
<1>type. TypeOK'
  BY TypeStep DEF FrontierInv
<1>prev. ASSUME BagsKept', BagsImprove, UNCHANGED prev
         PROVE  FrontierInv' /\ BagsImprove
  <2>1. ASSUME NEW s \in Stops PROVE Covers(best'[s], prev[s])
    <3>1. IsBag(best'[s]) /\ IsBag(best[s]) /\ IsBag(prev[s])
      BY <1>type, EntrySetsAreBags DEF FrontierInv, TypeOK
    <3>2. Covers(best'[s], best[s]) /\ Covers(best[s], prev[s])
      BY <1>prev DEF BagsImprove, FrontierInv, BestCoversRounds
    <3>3. QED
      BY <3>1, <3>2, CoversTransitive
  <2>2. QED
    BY <1>prev, <1>type, <2>1
    DEF FrontierInv, BagsKept, BagsAreFrontiers, BestCoversRounds
<1>1. ASSUME NEW o \in query.origins, SeedOrigin(o) PROVE FrontierInv' /\ BagsImprove
  <2> DEFINE node == [stop |-> o.stop, arr |-> o.at, price |-> 0,
                      dep |-> Infinity, via |-> [kind |-> "start"]]
             e == EntryOf(node, o.at, <<>>)
  <2>1. o.stop \in Stops /\ o.at \in Nat
    BY <1>inst DEF IsQuery
  <2>2. e \in Entries
    <3>1. node \in Nodes
      BY <2>1, InfinityAssumption DEF Nodes, Vias
    <3>2. <<>> \in Seq(Nodes)
      OBVIOUS
    <3>3. QED
      BY <2>1, <3>1, <3>2, EntryOfType
  <2>3. CASE UNCHANGED bags
    BY <1>1, <1>bags, <1>prev, <2>3, BagsUnchanged DEF SeedOrigin
  <2>4. CASE /\ curr' = [curr EXCEPT ![o.stop] = BagInsert(@, e)]
             /\ best' = [best EXCEPT ![o.stop] = BagInsert(@, e)]
             /\ UNCHANGED <<target, guard>>
    <3>1. BagsKept' /\ BagsImprove
      BY <1>bags, <2>1, <2>2, <2>4, DoubleInsertKeeps, EntrySetsAreBags, CoversReflexive
      DEF BagsOK, BagsKept, BagsImprove, GuardsBoundTarget
    <3>2. QED
      BY <1>1, <1>prev, <3>1 DEF SeedOrigin
  <2>5. QED
    BY <1>1, <2>3, <2>4 DEF SeedOrigin
<1>2. ASSUME NEW item \in work, Walk(item) PROVE FrontierInv' /\ BagsImprove
  <2>1. item[2].to \in Stops /\ WalkedOf(item) \in Entries
    BY <1>2, WalkedEntry DEF FrontierInv
  <2>2. Reach(item[2].to, WalkedOf(item)) /\ UNCHANGED prev
    BY <1>2 DEF Walk, WalkedOf
  <2>3. QED
    BY <1>bags, <1>prev, <2>1, <2>2, ReachKeeps
<1>3. ASSUME NEW ride \in rides, Alight(ride) PROVE FrontierInv' /\ BagsImprove
  <2>1. CASE UNCHANGED bags
    BY <1>3, <1>bags, <1>prev, <2>1, BagsUnchanged DEF Alight
  <2>2. CASE Reach(ScannedStop, AlightedEntry(ride))
    <3>1. ScannedStop \in Stops /\ AlightedEntry(ride) \in Entries
      BY <1>3, AlightedEntryType DEF FrontierInv
    <3>2. QED
      BY <1>3, <1>bags, <1>prev, <2>2, <3>1, ReachKeeps DEF Alight
  <2>3. QED
    BY <1>3, <2>1, <2>2 DEF Alight, AlightedEntry, AlightedNode
<1>4. ASSUME NEW e \in work, SeedTarget(e) PROVE FrontierInv' /\ BagsImprove
  <2>1. e \in Entries
    BY <1>4 DEF SeedTarget, FrontierInv, TypeOK
  <2>2. IsFrontier(target') /\ Covers(target', target) /\ GuardsBoundTarget'
    BY <1>4, <1>bags, <2>1, TargetInsertKeeps DEF SeedTarget, BagsKept
  <2>3. BagsKept' /\ BagsImprove
    BY <1>4, <1>bags, <2>2, EntrySetsAreBags, CoversReflexive
    DEF SeedTarget, BagsOK, BagsKept, BagsImprove
  <2>4. QED
    BY <1>4, <1>prev, <2>3 DEF SeedTarget
<1>5. CASE EndRelax
  <2>1. BagsKept' /\ BagsImprove
    BY <1>5, <1>bags, BagsUnchanged DEF EndRelax
  <2>2. prev' = curr'
    BY <1>5 DEF EndRelax, bags
  <2>3. QED
    BY <1>type, <2>1, <2>2
    DEF FrontierInv, BagsKept, BagsAreFrontiers, BestCoversRounds
<1>6. CASE BeginRound
  <2>1. BagsKept' /\ BagsImprove
    BY <1>6, <1>bags, EntrySetsAreBags, CoversReflexive
    DEF BeginRound, BagsOK, BagsKept, BagsImprove, IsFrontier, Covers, GuardsBoundTarget
  <2>2. QED
    BY <1>6, <1>prev, <2>1 DEF BeginRound
<1>7. CASE \/ EndOrigins \/ (\E s \in Stops : OpenStop(s)) \/ Finish
           \/ (\E a \in agenda : BeginRoute(a)) \/ EndAlight
           \/ (\E e \in work : Board(e)) \/ NextStop \/ EndRoutes
           \/ Terminated \/ UNCHANGED vars
  <2>1. UNCHANGED bags /\ UNCHANGED prev
    BY <1>7 DEF EndOrigins, OpenStop, Finish, BeginRoute, EndAlight, Board, NextStop,
                EndRoutes, Terminated, vars, bags
  <2>2. QED
    BY <1>bags, <1>prev, <2>1, BagsUnchanged
<1>8. QED
  BY <1>1, <1>2, <1>3, <1>4, <1>5, <1>6, <1>7 DEF Next

(* No bag of any search ever holds a pointless entry, and what a round     *)
(* boards from or has reached is always matched by the frontier of its     *)
(* stop: bag_insert and its inlined forms in run_mcraptor.                 *)
THEOREM FrontiersAreKept == Spec => [](BagsAreFrontiers /\ BestCoversRounds)
<1>1. Spec => []FrontierInv
  BY FrontierInit, FrontierStep, PTL DEF Spec
<1>2. FrontierInv => BagsAreFrontiers /\ BestCoversRounds
  BY DEF FrontierInv
<1>3. QED
  BY <1>1, <1>2, PTL

(* The scalar guards bound every entry of the target bag.                  *)
THEOREM GuardsAreSound == Spec => []GuardsBoundTarget
<1>1. Spec => []FrontierInv
  BY FrontierInit, FrontierStep, PTL DEF Spec
<1>2. FrontierInv => GuardsBoundTarget
  BY DEF FrontierInv
<1>3. QED
  BY <1>1, <1>2, PTL

(* What a stop or the target could offer once, it can match ever after:    *)
(* pruning never takes a better journey away.                              *)
THEOREM PruningNeverLoses == Spec => FrontiersOnlyImprove
<1>1. Spec => []FrontierInv
  BY FrontierInit, FrontierStep, PTL DEF Spec
<1>2. FrontierInv /\ [Next]_vars =>
        [ /\ \A s \in Stops : Covers(best'[s], best[s])
          /\ Covers(target', target) ]_vars
  BY FrontierStep DEF BagsImprove
<1>3. QED
  BY <1>1, <1>2, PTL DEF Spec, FrontiersOnlyImprove
-----------------------------------------------------------------------------
(***************************************************************************)
(* Journeys.  A label is the chain of its parents, so that what a label    *)
(* says of itself is only as true as what was true of them when it was     *)
(* made: the invariant follows every entry from the bags through the loop  *)
(* that carries it on, on foot or aboard a trip, and back.                 *)
(***************************************************************************)
Reached(e, s) == IsJourney(e.label) /\ Describes(e, s)

BagsAreReached ==
  /\ \A s \in Stops : \A e \in curr[s] \cup best[s] : Reached(e, s)
  /\ \A e \in target : \E s \in query.targets : Reached(e, s)

(* A ride on board, before its passenger alights.                          *)
Aboard(ride) ==
  LET trip == Scanned.trips[ride.trip]
      a == LastOf(ride.parents)
  IN /\ IsJourney(ride.parents)
     /\ Scanned.stops[ride.board] = a.stop
     /\ trip.dep[ride.board] >= ReadyAt(a)
     /\ ride.board \notin trip.noBoard
     /\ ride.base = a.price + (IF trip.fare # NoFare THEN trip.fare ELSE Scanned.base)
                      - Scanned.cum[ride.board]
     /\ ride.dep = IF a.dep = Infinity THEN trip.dep[ride.board] ELSE a.dep

JourneyInv ==
  /\ TypeOK
  /\ LabelsAreJourneys
  /\ phase = "relax" =>
       \A item \in work : Reached(item[1], item[2].from) /\ ~ OnFoot(item[1])
  /\ phase = "round" => \A e \in work : \E s \in query.targets : Reached(e, s)
  /\ phase \in {"alight", "board"} => \A ride \in rides : Aboard(ride)
  /\ phase = "alight" => \A ride \in rides : ride.board < scan.pos

(* What makes a journey does not depend on the state of the search.        *)
LEMMA JourneyStable ==
  ASSUME UNCHANGED <<net, query>>, NEW label
  PROVE  IsJourney(label)' <=> IsJourney(label)
BY DEF IsJourney, StartsAtOrigin, FollowsOnFoot, FollowsByRide, ReadyAt

(* Whether an entry's label is a journey depends on the network and the    *)
(* query alone.                                                            *)
LEMMA ReachedStable ==
  ASSUME UNCHANGED <<net, query>>, NEW e, NEW s
  PROVE  Reached(e, s)' <=> Reached(e, s)
BY JourneyStable DEF Reached, Describes, ReadyAt

(* A node that follows the last one of a journey makes a longer journey.   *)
LEMMA JourneyExtends ==
  ASSUME NEW label \in Seq(Nodes), IsJourney(label), NEW node \in Nodes,
         FollowsOnFoot(LastOf(label), node) \/ FollowsByRide(LastOf(label), node)
  PROVE  IsJourney(Append(label, node)) /\ LastOf(Append(label, node)) = node
<1> DEFINE longer == Append(label, node)
<1>1. Len(label) \in Nat /\ Len(label) >= 1 /\ Len(longer) = Len(label) + 1
  BY DEF IsJourney
<1>2. longer[Len(label) + 1] = node /\ \A i \in 1..Len(label) : longer[i] = label[i]
  OBVIOUS
<1>3. StartsAtOrigin(longer[1])
  BY <1>1, <1>2 DEF IsJourney
<1>4. ASSUME NEW i \in 1..(Len(longer) - 1)
      PROVE  FollowsOnFoot(longer[i], longer[i+1]) \/ FollowsByRide(longer[i], longer[i+1])
  <2>1. CASE i = Len(label)
    <3>1. longer[i] = LastOf(label) /\ longer[i+1] = node
      BY <1>1, <1>2, <2>1 DEF LastOf
    <3>2. QED
      BY <3>1
  <2>2. CASE i # Len(label)
    <3>1. i \in 1..(Len(label) - 1) /\ longer[i] = label[i] /\ longer[i+1] = label[i+1]
      BY <1>1, <1>2, <2>2
    <3>2. QED
      BY <3>1 DEF IsJourney
  <2>3. QED
    BY <2>1, <2>2
<1>5. LastOf(longer) = node
  BY <1>1, <1>2 DEF LastOf
<1>6. QED
  BY <1>1, <1>3, <1>4, <1>5 DEF IsJourney

(* A journey with one more walk or ride at its end is a journey.           *)
LEMMA EntryReached ==
  ASSUME NEW label \in Seq(Nodes), IsJourney(label), NEW node \in Nodes,
         FollowsOnFoot(LastOf(label), node) \/ FollowsByRide(LastOf(label), node)
  PROVE  Reached(EntryOf(node, ReadyAt(node), label), node.stop)
<1> DEFINE e == EntryOf(node, ReadyAt(node), label)
<1>1. e.label = Append(label, node) /\ e.ready = ReadyAt(node)
      /\ e.arr = node.arr /\ e.price = node.price /\ e.dep = node.dep
  BY DEF EntryOf
<1>2. IsJourney(e.label) /\ LastOf(e.label) = node
  BY <1>1, JourneyExtends
<1>3. QED
  BY <1>1, <1>2 DEF Reached, Describes

(* The bags hold what was in them and what was inserted.                   *)
LEMMA InsertedAreReached ==
  ASSUME BagsOK, BagsAreReached, UNCHANGED <<net, query>>,
         NEW s \in Stops, NEW e, Reached(e, s),
         best' = [best EXCEPT ![s] = BagInsert(@, e)],
         curr' = [curr EXCEPT ![s] = BagInsert(@, e)]
  PROVE  \A t \in Stops : \A x \in curr'[t] \cup best'[t] : Reached(x, t)
<1>1. ASSUME NEW t \in Stops
      PROVE  /\ t # s => best'[t] = best[t] /\ curr'[t] = curr[t]
             /\ t = s => best'[t] \subseteq best[t] \cup {e} /\ curr'[t] \subseteq curr[t] \cup {e}
  BY DEF BagsOK, BagInsert
<1>2. QED
  BY <1>1 DEF BagsAreReached

(* What enters the target bag is a journey to a target.                    *)
LEMMA TargetIsReached ==
  ASSUME BagsAreReached, NEW e, TargetInsert(e), \E s \in query.targets : Reached(e, s)
  PROVE  \A x \in target' : \E s \in query.targets : Reached(x, s)
<1>1. target' \subseteq target \cup {e}
  BY DEF TargetInsert, BagInsert
<1>2. QED
  BY <1>1 DEF BagsAreReached

(* A step that leaves the instance alone is judged by the unprimed words.  *)
LEMMA BagsReachedNext ==
  ASSUME UNCHANGED <<net, query>>,
         \A t \in Stops : \A x \in curr'[t] \cup best'[t] : Reached(x, t),
         \A x \in target' : \E s \in query.targets : Reached(x, s)
  PROVE  BagsAreReached'
BY ReachedStable DEF BagsAreReached

(* Reaching a stop by a journey keeps the bags full of journeys.           *)
LEMMA ReachReached ==
  ASSUME BagsOK, BagsAreReached, UNCHANGED <<net, query>>,
         NEW s \in Stops, NEW e, Reached(e, s), Reach(s, e)
  PROVE  BagsAreReached'
<1>1. CASE UNCHANGED bags
  BY <1>1, BagsReachedNext DEF bags, BagsAreReached
<1>2. CASE /\ best' = [best EXCEPT ![s] = BagInsert(@, e)]
           /\ curr' = [curr EXCEPT ![s] = BagInsert(@, e)]
           /\ IF s \in query.targets THEN TargetInsert(e)
              ELSE UNCHANGED <<target, guard>>
  <2>1. \A t \in Stops : \A x \in curr'[t] \cup best'[t] : Reached(x, t)
    BY <1>2, InsertedAreReached
  <2>2. \A x \in target' : \E t \in query.targets : Reached(x, t)
    <3>1. CASE s \in query.targets
      BY <1>2, <3>1, TargetIsReached
    <3>2. CASE s \notin query.targets
      BY <1>2, <3>2 DEF BagsAreReached
    <3>3. QED
      BY <3>1, <3>2
  <2>3. QED
    BY <2>1, <2>2, BagsReachedNext
<1>3. QED
  BY <1>1, <1>2 DEF Reach

(* Who is on board is on board while the route is scanned.                 *)
LEMMA AboardStable ==
  ASSUME UNCHANGED <<net, query>>, scan'.route = scan.route, NEW ride
  PROVE  Aboard(ride)' <=> Aboard(ride)
BY JourneyStable DEF Aboard, Scanned, ReadyAt

(* Walking on from a label that did not just walk.                         *)
LEMMA WalkedIsReached ==
  ASSUME JourneyInv, NEW item \in work, Walk(item)
  PROVE  item[2].to \in Stops /\ Reached(WalkedOf(item), item[2].to)
<1> DEFINE e == item[1]
           w == item[2]
           node == [stop |-> w.to, arr |-> e.arr + w.secs, price |-> e.price,
                    dep |-> e.dep, via |-> [kind |-> "walk", secs |-> w.secs]]
<1>1. /\ e \in Entries /\ w \in net.walks /\ w \in [from : Stops, to : Stops, secs : Nat]
      /\ Reached(e, w.from) /\ ~ OnFoot(e)
  BY InstanceFacts DEF Walk, JourneyInv, TypeOK, IsNetwork
<1>2. e.label \in Seq(Nodes) /\ e.arr \in Nat /\ e.arr + w.secs \in Nat
  BY <1>1 DEF Entries
<1>3. node \in Nodes
  BY <1>1, <1>2 DEF Nodes, Vias, Entries
<1>4. w = [from |-> w.from, to |-> w.to, secs |-> w.secs]
  BY <1>1
<1>5. FollowsOnFoot(LastOf(e.label), node)
  BY <1>1, <1>4 DEF FollowsOnFoot, Reached, Describes, OnFoot
<1>6. ReadyAt(node) = e.arr + w.secs
  BY <1>2 DEF ReadyAt
<1>7. Reached(EntryOf(node, ReadyAt(node), e.label), node.stop)
  BY <1>1, <1>2, <1>3, <1>5, EntryReached DEF Reached
<1>8. QED
  BY <1>1, <1>6, <1>7 DEF WalkedOf

(* Getting off a trip boarded in time.                                     *)
LEMMA AlightedIsReached ==
  ASSUME JourneyInv, NEW ride \in rides, Alight(ride),
         scan.pos \notin Scanned.trips[ride.trip].noAlight
  PROVE  ScannedStop \in Stops /\ Reached(AlightedEntry(ride), ScannedStop)
<1> DEFINE node == AlightedNode(ride)
           a == LastOf(ride.parents)
<1>1. /\ TypeOK /\ scan \in RouteStarts /\ ride \in Rides
      /\ Aboard(ride) /\ ride.board < scan.pos
  BY DEF Alight, JourneyInv, TypeOK
<1>2. /\ ScannedStop \in Stops /\ Scanned.trips[ride.trip].arr[scan.pos] \in Nat
      /\ IsRoute(Scanned) /\ scan.pos \in 1..Len(Scanned.stops)
      /\ Scanned.trips[ride.trip].fare \in Int
  BY <1>1, ScannedFacts DEF Rides
<1>3. /\ ride.trip \in 1..Len(Scanned.trips) /\ ride.board \in 1..scan.pos /\ ride.base \in Int
      /\ ride.dep \in Nat /\ scan.route \in 1..Len(net.routes) /\ ride.parents \in Seq(Nodes)
  BY <1>1 DEF Rides, RouteStarts
<1>4. Len(Scanned.trips) \in Nat /\ Len(net.routes) \in Nat /\ Len(Scanned.stops) \in Nat
  BY <1>1, <1>2, InstanceFacts DEF IsRoute, IsNetwork
<1>5. /\ ride.board \in 1..Len(Scanned.stops)
      /\ Scanned.cum[scan.pos] \in Int /\ Scanned.cum[ride.board] \in Int
  <2>1. ride.board \in 1..Len(Scanned.stops)
    BY <1>2, <1>3, <1>4
  <2>2. Scanned.cum \in [1..Len(Scanned.stops) -> Nat]
    BY <1>2 DEF IsRoute
  <2>3. QED
    BY <1>2, <2>1, <2>2
<1>6. node \in Nodes
  <2>1. ride.base + Scanned.cum[scan.pos] \in Int
    BY <1>3, <1>5
  <2>2. scan.route \in Nat /\ scan.pos \in Nat
    BY <1>2, <1>3, <1>4
  <2>3. ride.trip \in Nat /\ ride.board \in Nat
    BY <1>2, <1>3, <1>4
  <2>4. QED
    BY <1>2, <1>3, <2>1, <2>2, <2>3 DEF Nodes, Vias, AlightedNode
<1>7. IsJourney(ride.parents) /\ a \in Nodes
  <2>1. IsJourney(ride.parents) /\ Len(ride.parents) \in 1..Len(ride.parents)
    BY <1>1, <1>3 DEF Aboard, IsJourney
  <2>2. QED
    BY <1>3, <2>1 DEF LastOf
<1>8. FollowsByRide(a, node)
  <2>1. /\ node.via.kind = "ride" /\ node.via.route = scan.route /\ node.via.trip = ride.trip
        /\ node.via.board = ride.board /\ node.via.alight = scan.pos
        /\ node.stop = ScannedStop /\ node.arr = Scanned.trips[ride.trip].arr[scan.pos]
        /\ node.price = ride.base + Scanned.cum[scan.pos] /\ node.dep = ride.dep
    BY DEF AlightedNode
  <2>2. node.price = a.price + (IF Scanned.trips[ride.trip].fare # NoFare
                                THEN Scanned.trips[ride.trip].fare ELSE Scanned.base)
                       + Scanned.cum[scan.pos] - Scanned.cum[ride.board]
    <3>1. ride.base = a.price + (IF Scanned.trips[ride.trip].fare # NoFare
                                 THEN Scanned.trips[ride.trip].fare ELSE Scanned.base)
                        - Scanned.cum[ride.board]
      BY <1>1 DEF Aboard
    <3>2. Scanned.base \in Int /\ a.price \in Int
      BY <1>2, <1>7 DEF IsRoute, Nodes
    <3> DEFINE due == IF Scanned.trips[ride.trip].fare # NoFare
                      THEN Scanned.trips[ride.trip].fare ELSE Scanned.base
    <3>3. due \in Int /\ ride.base = a.price + due - Scanned.cum[ride.board]
      BY <1>2, <3>1, <3>2
    <3>4. node.price = ride.base + Scanned.cum[scan.pos]
      BY <2>1
    <3> HIDE DEF due, node, a
    <3>5. node.price = a.price + due + Scanned.cum[scan.pos] - Scanned.cum[ride.board]
      BY <1>5, <3>2, <3>3, <3>4
    <3>6. QED
      BY <3>5 DEF due
  <2>3. QED
    BY <1>1, <1>2, <1>3, <1>5, <2>1, <2>2 DEF FollowsByRide, Aboard, Scanned, ScannedStop
<1>9. ReadyAt(node) = Scanned.trips[ride.trip].arr[scan.pos] + query.minTransfer
  BY DEF ReadyAt, AlightedNode
<1>10. Reached(EntryOf(node, ReadyAt(node), ride.parents), node.stop)
  BY <1>3, <1>6, <1>7, <1>8, EntryReached
<1>11. QED
  BY <1>2, <1>9, <1>10 DEF AlightedEntry, AlightedNode

(* Where departures are sorted, every trip from the one the binary search  *)
(* ends at is still to come.                                               *)
LEMMA InTimeToBoard ==
  ASSUME TypeOK, scan \in RouteStarts, DeparturesSorted(net), NEW ready \in Nat,
         NEW first \in BisectResults(Scanned, scan.pos, ready), NEW unboarded,
         NEW t \in BoardableTrips(Scanned, scan.pos, ready, unboarded, first)
  PROVE  /\ t \in 1..Len(Scanned.trips)
         /\ scan.pos \notin Scanned.trips[t].noBoard
         /\ Scanned.trips[t].dep[scan.pos] >= ready
<1>1. /\ first \in Nat \ {0} /\ Len(Scanned.trips) \in Nat
      /\ first <= Len(Scanned.trips) => Scanned.trips[first].dep[scan.pos] >= ready
  BY ScannedFacts DEF BisectResults, IsRoute
<1>2. t \in first..Len(Scanned.trips) /\ scan.pos \notin Scanned.trips[t].noBoard
  BY DEF BoardableTrips, Sampled
<1>3. /\ t \in 1..Len(Scanned.trips) /\ first \in 1..Len(Scanned.trips) /\ first <= t
  BY <1>1, <1>2
<1>4. /\ Scanned.trips[t].dep[scan.pos] \in Nat /\ Scanned.trips[first].dep[scan.pos] \in Nat
  BY <1>3, ScannedFacts
<1>5. Scanned.trips[first].dep[scan.pos] <= Scanned.trips[t].dep[scan.pos]
  BY <1>3 DEF DeparturesSorted, RouteStarts, Scanned
<1>6. QED
  BY <1>1, <1>2, <1>3, <1>4, <1>5

(* Whoever boards is in time and carries the price so far.                 *)
LEMMA BoardedIsAboard ==
  ASSUME JourneyInv, DeparturesSorted(net), NEW e \in work, phase = "board",
         NEW first \in BisectResults(Scanned, scan.pos, e.ready), NEW unboarded,
         NEW t \in BoardableTrips(Scanned, scan.pos, e.ready, unboarded, first)
  PROVE  Aboard(RideOf(e, t))
<1>1. scan \in RouteStarts /\ TypeOK /\ ScannedStop \in Stops
  BY ScannedFacts DEF JourneyInv, TypeOK
<1>2. e \in prev[ScannedStop] /\ e \in Entries
  BY <1>1 DEF TypeOK
<1>3. IsJourney(e.label) /\ Describes(e, ScannedStop)
  BY <1>1, <1>2 DEF JourneyInv, LabelsAreJourneys
<1>4. e.ready \in Nat
  BY <1>2 DEF Entries
<1>5. /\ t \in 1..Len(Scanned.trips)
      /\ scan.pos \notin Scanned.trips[t].noBoard
      /\ Scanned.trips[t].dep[scan.pos] >= e.ready
  BY <1>1, <1>4, InTimeToBoard DEF JourneyInv
<1>6. QED
  BY <1>3, <1>5 DEF Aboard, RideOf, Describes, ScannedStop

(* The empty bags hold nothing but journeys.                               *)
LEMMA JourneyInit == Init => JourneyInv
BY TypeInit DEF Init, JourneyInv, LabelsAreJourneys

(* Every step keeps the bags full of journeys and the riders on rides      *)
(* they could catch.                                                       *)
LEMMA JourneyStep ==
  ASSUME \A n \in Networks : DeparturesSorted(n), JourneyInv, [Next]_vars
  PROVE  JourneyInv'
<1> USE DEF instance
<1>inst. /\ BagsOK /\ BagsAreReached /\ IsQuery(query) /\ DeparturesSorted(net)
         /\ \A s \in Stops : \A e \in prev[s] : Reached(e, s)
  BY InstanceFacts DEF JourneyInv, TypeOK, BagsOK, LabelsAreJourneys, BagsAreReached, Reached
<1>type. TypeOK'
  BY TypeStep DEF JourneyInv
<1>labels. ASSUME UNCHANGED <<net, query>>, BagsAreReached',
                  \A s \in Stops : \A e \in prev'[s] : Reached(e, s)
           PROVE  LabelsAreJourneys'
  <2>1. \A s \in Stops : \A e \in prev'[s] : Reached(e, s)'
    BY <1>labels, ReachedStable
  <2>2. QED
    BY <1>labels, <2>1 DEF LabelsAreJourneys, BagsAreReached, Reached
<1>same. ASSUME UNCHANGED <<net, query, bags, prev>> PROVE LabelsAreJourneys'
  <2>1. BagsAreReached'
    BY <1>inst, <1>same, BagsReachedNext DEF bags, BagsAreReached
  <2>2. QED
    BY <1>inst, <1>same, <1>labels, <2>1
<1>1. ASSUME NEW o \in query.origins, SeedOrigin(o) PROVE JourneyInv'
  <2> DEFINE node == [stop |-> o.stop, arr |-> o.at, price |-> 0,
                      dep |-> Infinity, via |-> [kind |-> "start"]]
             e == EntryOf(node, o.at, <<>>)
  <2>1. o.stop \in Stops /\ o.at \in Nat /\ o = [stop |-> o.stop, at |-> o.at]
    BY <1>inst DEF IsQuery
  <2>2. Reached(e, o.stop)
    <3>1. e.label = <<node>> /\ LastOf(e.label) = node
      BY DEF EntryOf, LastOf
    <3>2. StartsAtOrigin(node)
      BY <2>1 DEF StartsAtOrigin
    <3>3. IsJourney(e.label)
      BY <3>1, <3>2 DEF IsJourney
    <3>4. Describes(e, o.stop)
      BY <2>1, <3>1 DEF Describes, EntryOf, ReadyAt
    <3>5. QED
      BY <3>3, <3>4 DEF Reached
  <2>3. UNCHANGED <<net, query, prev, phase>>
    BY <1>1 DEF SeedOrigin
  <2>4. CASE UNCHANGED bags
    BY <1>1, <1>type, <1>same, <2>3, <2>4 DEF SeedOrigin, JourneyInv
  <2>5. CASE /\ curr' = [curr EXCEPT ![o.stop] = BagInsert(@, e)]
             /\ best' = [best EXCEPT ![o.stop] = BagInsert(@, e)]
             /\ UNCHANGED <<target, guard>>
    <3>1. \A t \in Stops : \A x \in curr'[t] \cup best'[t] : Reached(x, t)
      BY <1>inst, <2>1, <2>2, <2>3, <2>5, InsertedAreReached
    <3>2. BagsAreReached'
      BY <1>inst, <2>3, <2>5, <3>1, BagsReachedNext DEF BagsAreReached
    <3>3. LabelsAreJourneys'
      BY <1>inst, <1>labels, <2>3, <3>2
    <3>4. QED
      BY <1>1, <1>type, <2>3, <3>3 DEF SeedOrigin, JourneyInv
  <2>6. QED
    BY <1>1, <2>4, <2>5 DEF SeedOrigin
<1>2. CASE EndOrigins
  BY <1>2, <1>type, <1>same DEF EndOrigins, StartRelax, JourneyInv
<1>3. ASSUME NEW s \in Stops, OpenStop(s) PROVE JourneyInv'
  <2>1. UNCHANGED <<net, query, bags, prev>> /\ phase' = "relax"
        /\ work' = {e \in curr[s] : ~ OnFoot(e)} \X {w \in net.walks : w.from = s}
    BY <1>3 DEF OpenStop
  <2>2. ASSUME NEW item \in work'
        PROVE  Reached(item[1], item[2].from)' /\ ~ OnFoot(item[1])'
    <3>1. item[1] \in curr[s] /\ ~ OnFoot(item[1]) /\ item[2].from = s
      BY <2>1
    <3>2. Reached(item[1], item[2].from)
      BY <1>inst, <3>1 DEF BagsAreReached
    <3>3. QED
      BY <2>1, <3>1, <3>2, ReachedStable DEF OnFoot, LastOf
  <2>3. QED
    BY <1>type, <1>same, <2>1, <2>2 DEF JourneyInv
<1>4. ASSUME NEW item \in work, Walk(item) PROVE JourneyInv'
  <2>1. item[2].to \in Stops /\ Reached(WalkedOf(item), item[2].to)
    BY <1>4, WalkedIsReached
  <2>2. /\ Reach(item[2].to, WalkedOf(item)) /\ UNCHANGED <<net, query, prev, phase>>
        /\ phase = "relax" /\ work' \subseteq work
    BY <1>4 DEF Walk, WalkedOf
  <2>3. BagsAreReached'
    BY <1>inst, <2>1, <2>2, ReachReached
  <2>4. LabelsAreJourneys'
    BY <1>inst, <1>labels, <2>2, <2>3
  <2>5. ASSUME NEW i \in work' PROVE Reached(i[1], i[2].from)' /\ ~ OnFoot(i[1])'
    BY <2>2, ReachedStable DEF JourneyInv, OnFoot, LastOf
  <2>6. QED
    BY <1>type, <2>2, <2>4, <2>5 DEF JourneyInv
<1>5. CASE EndRelax
  <2>1. UNCHANGED <<net, query, bags>> /\ prev' = curr /\ phase' = "round"
        /\ work' \subseteq UNION {best[t] : t \in query.targets}
    BY <1>5 DEF EndRelax
  <2>2. BagsAreReached'
    BY <1>inst, <2>1, BagsReachedNext DEF bags, BagsAreReached
  <2>3. LabelsAreJourneys'
    BY <1>inst, <1>labels, <2>1, <2>2 DEF BagsAreReached
  <2>4. ASSUME NEW e \in work' PROVE (\E s \in query.targets : Reached(e, s))'
    <3>1. PICK s \in query.targets : e \in best[s]
      BY <2>1
    <3>2. s \in Stops /\ Reached(e, s)
      BY <1>inst, <3>1 DEF IsQuery, BagsAreReached
    <3>3. QED
      BY <2>1, <3>2, ReachedStable
  <2>5. QED
    BY <1>type, <2>1, <2>3, <2>4 DEF JourneyInv
<1>6. ASSUME NEW e \in work, SeedTarget(e) PROVE JourneyInv'
  <2>1. UNCHANGED <<net, query, prev, curr, best, phase>> /\ phase = "round"
        /\ TargetInsert(e) /\ work' \subseteq work
    BY <1>6 DEF SeedTarget
  <2>2. \E s \in query.targets : Reached(e, s)
    BY <2>1 DEF JourneyInv
  <2>3. BagsAreReached'
    BY <1>inst, <2>1, <2>2, TargetIsReached, BagsReachedNext DEF BagsAreReached
  <2>4. LabelsAreJourneys'
    BY <1>inst, <1>labels, <2>1, <2>3
  <2>5. ASSUME NEW x \in work' PROVE (\E s \in query.targets : Reached(x, s))'
    BY <2>1, ReachedStable DEF JourneyInv
  <2>6. QED
    BY <1>type, <2>1, <2>4, <2>5 DEF JourneyInv
<1>7. CASE BeginRound
  <2>1. UNCHANGED <<net, query, prev, best, target>> /\ phase' = "scan"
        /\ curr' = [s \in Stops |-> {}]
    BY <1>7 DEF BeginRound
  <2>2. BagsAreReached'
    BY <1>inst, <2>1, BagsReachedNext DEF BagsAreReached
  <2>3. QED
    BY <1>inst, <1>type, <1>labels, <2>1, <2>2 DEF JourneyInv
<1>8. CASE Finish
  BY <1>8, <1>type, <1>same DEF Finish, JourneyInv
<1>9. ASSUME NEW a \in agenda, BeginRoute(a) PROVE JourneyInv'
  BY <1>9, <1>type, <1>same DEF BeginRoute, JourneyInv
<1>aboard. ASSUME UNCHANGED <<net, query>>, scan'.route = scan.route, NEW ride, Aboard(ride)
           PROVE  Aboard(ride)'
  BY <1>aboard, AboardStable
<1>10. ASSUME NEW ride \in rides, Alight(ride) PROVE JourneyInv'
  <2>1. UNCHANGED <<net, query, prev, phase, scan, rides>> /\ phase = "alight"
    BY <1>10 DEF Alight
  <2>2. BagsAreReached'
    <3>1. CASE scan.pos \in Scanned.trips[ride.trip].noAlight
      <4>1. UNCHANGED bags
        BY <1>10, <3>1 DEF Alight
      <4>2. QED
        BY <1>inst, <2>1, <4>1, BagsReachedNext DEF bags, BagsAreReached
    <3>2. CASE scan.pos \notin Scanned.trips[ride.trip].noAlight
      <4>1. ScannedStop \in Stops /\ Reached(AlightedEntry(ride), ScannedStop)
        BY <1>10, <3>2, AlightedIsReached
      <4>2. Reach(ScannedStop, AlightedEntry(ride))
        BY <1>10, <3>2 DEF Alight, AlightedEntry, AlightedNode
      <4>3. QED
        BY <1>inst, <2>1, <4>1, <4>2, ReachReached
    <3>3. QED
      BY <3>1, <3>2
  <2>3. LabelsAreJourneys'
    BY <1>inst, <1>labels, <2>1, <2>2
  <2>4. ASSUME NEW r \in rides' PROVE Aboard(r)' /\ r.board < scan'.pos
    BY <1>aboard, <2>1 DEF JourneyInv
  <2>5. QED
    BY <1>type, <2>1, <2>3, <2>4 DEF JourneyInv
<1>11. CASE EndAlight
  <2>1. UNCHANGED <<net, query, bags, prev, scan, rides>> /\ phase = "alight" /\ phase' = "board"
    BY <1>11 DEF EndAlight
  <2>2. ASSUME NEW r \in rides' PROVE Aboard(r)'
    BY <1>aboard, <2>1 DEF JourneyInv
  <2>3. QED
    BY <1>type, <1>same, <2>1, <2>2 DEF JourneyInv
<1>12. ASSUME NEW e \in work, Board(e) PROVE JourneyInv'
  <2>1. UNCHANGED <<net, query, bags, prev, scan, phase>> /\ phase = "board"
    BY <1>12 DEF Board
  <2>2. ASSUME NEW r \in rides' PROVE Aboard(r)
    <3>1. CASE r \in rides
      BY <2>1, <3>1 DEF JourneyInv
    <3>2. CASE r \notin rides
      <4>1. PICK first \in BisectResults(Scanned, scan.pos, e.ready) :
              r \in {RideOf(e, t) : t \in BoardableTrips(Scanned, scan.pos, e.ready,
                                                         e.dep = Infinity, first)}
        BY <1>12, <3>2 DEF Board
      <4>2. QED
        BY <1>inst, <2>1, <4>1, BoardedIsAboard
    <3>3. QED
      BY <3>1, <3>2
  <2>3. ASSUME NEW r \in rides' PROVE Aboard(r)'
    BY <1>aboard, <2>1, <2>2
  <2>4. QED
    BY <1>type, <1>same, <2>1, <2>3 DEF JourneyInv
<1>13. CASE NextStop
  <2>1. UNCHANGED <<net, query, bags, prev>> /\ phase = "board"
    BY <1>13 DEF NextStop
  <2>2. CASE phase' = "scan"
    BY <1>type, <1>same, <2>1, <2>2 DEF JourneyInv
  <2>3. CASE /\ scan' = [scan EXCEPT !.pos = @ + 1]
             /\ phase' = "alight" /\ UNCHANGED rides
    <3>1. scan \in RouteStarts /\ rides \subseteq Rides
      BY <2>1 DEF JourneyInv, TypeOK
    <3>2. scan'.route = scan.route /\ scan'.pos = scan.pos + 1 /\ scan.pos \in Nat
      BY <2>3, <3>1 DEF RouteStarts
    <3>3. ASSUME NEW r \in rides' PROVE Aboard(r)' /\ r.board < scan'.pos
      <4>1. Aboard(r) /\ r.board \in 1..scan.pos
        BY <2>1, <2>3, <3>1 DEF JourneyInv, Rides
      <4>2. QED
        BY <1>aboard, <2>1, <3>2, <4>1
    <3>4. QED
      BY <1>type, <1>same, <2>1, <2>3, <3>3 DEF JourneyInv
  <2>4. QED
    BY <1>13, <2>2, <2>3 DEF NextStop
<1>14. CASE EndRoutes
  BY <1>14, <1>type, <1>same DEF EndRoutes, StartRelax, JourneyInv
<1>15. CASE Terminated \/ UNCHANGED vars
  <2>1. UNCHANGED vars
    BY <1>15 DEF Terminated
  <2>2. UNCHANGED <<net, query, bags, prev, phase, work, scan, rides>>
    BY <2>1 DEF vars, bags
  <2>3. phase = "relax" => \A i \in work' : Reached(i[1], i[2].from)' /\ ~ OnFoot(i[1])'
    BY <2>2, ReachedStable DEF JourneyInv, OnFoot, LastOf
  <2>4. phase = "round" => \A e \in work' : (\E s \in query.targets : Reached(e, s))'
    BY <2>2, ReachedStable DEF JourneyInv
  <2>5. phase \in {"alight", "board"} => \A r \in rides' : Aboard(r)'
    BY <1>aboard, <2>2 DEF JourneyInv
  <2>6. QED
    BY <1>type, <1>same, <2>2, <2>3, <2>4, <2>5 DEF JourneyInv
<1>16. QED
  BY <1>1, <1>2, <1>3, <1>4, <1>5, <1>6, <1>7, <1>8, <1>9, <1>10, <1>11, <1>12,
     <1>13, <1>14, <1>15 DEF Next

(* Where the trips of every route depart in the order of their index, each *)
(* label the search keeps is a journey a passenger can make, in time for   *)
(* every vehicle and at the price and departure the label says.            *)
THEOREM LabelsAreTravelled ==
  ASSUME \A n \in Networks : DeparturesSorted(n)
  PROVE  Spec => []LabelsAreJourneys
<1>1. Spec => []JourneyInv
  BY JourneyInit, JourneyStep, PTL DEF Spec
<1>2. JourneyInv => LabelsAreJourneys
  BY DEF JourneyInv
<1>3. QED
  BY <1>1, <1>2, PTL
=============================================================================
