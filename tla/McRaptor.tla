------------------------------ MODULE McRaptor ------------------------------
(***************************************************************************)
(* The journey search of routing/mcraptor.py: a multi-criteria RAPTOR over *)
(* arrival time, price floor and departure time.                           *)
(*                                                                         *)
(* The search is sequential, but it walks Python sets and dictionaries     *)
(* (the marked stops, the routes they touch, the bags), so which element   *)
(* comes first is left open here: every order is a behaviour.  One action  *)
(* is one turn of a loop of run_mcraptor or _relax_transfers, and phase    *)
(* says which loop is running.                                             *)
(*                                                                         *)
(* A label carries its chain of parents as a sequence of nodes, the origin *)
(* first.  The unbounded mode is modelled (max_bag_size = None, the only   *)
(* one the planner uses); the counters in stats are left out.              *)
(***************************************************************************)
EXTENDS Pareto, Sequences, FiniteSets

CONSTANTS
  Stops,      \* the stop indices
  Networks,   \* the timetables to search
  Queries,    \* the queries to answer
  Infinity    \* later than any second of any timetable

(***************************************************************************)
(* A network: routes is a sequence of routes, walks a set of footpaths.    *)
(* cum[p] is the distance floor from the first stop to position p, base    *)
(* the boarding floor of the operator, and a trip's fare is NoFare or its  *)
(* precomputed fare.                                                       *)
(***************************************************************************)
NoFare == -1

IsTrip(t, n) ==
  /\ t.arr \in [1..n -> Nat] /\ t.dep \in [1..n -> Nat]
  /\ \A p \in 1..n : t.dep[p] < Infinity
  /\ t.fare \in Nat \cup {NoFare}
  /\ t.noBoard \subseteq 1..n /\ t.noAlight \subseteq 1..n

IsRoute(r) ==
  /\ r.stops \in Seq(Stops) /\ Len(r.stops) >= 2
  /\ r.mode \in STRING
  /\ r.base \in Nat
  /\ r.cum \in [1..Len(r.stops) -> Nat]
  /\ \A p, q \in 1..Len(r.stops) : p <= q => r.cum[p] <= r.cum[q]
  /\ Len(r.trips) \in Nat /\ DOMAIN r.trips = 1..Len(r.trips)
  /\ \A t \in 1..Len(r.trips) : IsTrip(r.trips[t], Len(r.stops))

IsNetwork(n) ==
  /\ Len(n.routes) \in Nat /\ DOMAIN n.routes = 1..Len(n.routes)
  /\ \A r \in 1..Len(n.routes) : IsRoute(n.routes[r])
  /\ n.walks \subseteq [from : Stops, to : Stops, secs : Nat]

IsQuery(q) ==
  /\ q.origins \subseteq [stop : Stops, at : Nat]
  /\ q.targets \subseteq Stops
  /\ q.maxRounds \in Nat
  /\ q.minTransfer \in Nat
  /\ q.walking \in BOOLEAN /\ q.profile \in BOOLEAN /\ q.potentials \in BOOLEAN
  /\ q.latest \in Nat

ASSUME InfinityAssumption == Infinity \in Nat
ASSUME NetworkAssumption == \A n \in Networks : IsNetwork(n)
ASSUME QueryAssumption == \A q \in Queries : IsQuery(q)

(* Trips of a route depart in the order of their index at every stop.      *)
DeparturesSorted(n) ==
  \A r \in 1..Len(n.routes) :
    LET route == n.routes[r] IN
    \A p \in 1..Len(route.stops), t, u \in 1..Len(route.trips) :
      t <= u => route.trips[t].dep[p] <= route.trips[u].dep[p]
-----------------------------------------------------------------------------
VARIABLES
  net, query, \* the instance: chosen initially, never changed
  rem,        \* rem[s]: lower bound on the seconds from s to a target
  phase,      \* the loop that is running
  round,      \* rounds_run
  prev,       \* prev_bag: labels boarded from in this round
  curr,       \* curr_bag: labels reached in this round
  best,       \* best_bag: the frontier of every label reached so far
  target,     \* target_bag
  guard,      \* tguard: the scalar guards over target_bag
  marked,     \* stops improved in this round
  agenda,     \* what the outer loop still has to visit
  work,       \* what the inner loop still has to visit
  scan,       \* the route being scanned and the position reached
  rides       \* the rides on board of the scanned route

instance == <<net, query, rem>>
bags == <<curr, best, target, guard, marked>>
vars == <<net, query, rem, phase, round, prev, curr, best, target, guard,
          marked, agenda, work, scan, rides>>
-----------------------------------------------------------------------------
(***************************************************************************)
(* Potentials.  A backward shortest path over the least in-vehicle time of *)
(* each segment and the footpaths, waiting and change times left out.      *)
(***************************************************************************)
MinOf(S) == CHOOSE x \in S : \A y \in S : x <= y

Segments(n, q) ==
  UNION { LET route == n.routes[r]
              ride(i) == {route.trips[t].arr[i+1] - route.trips[t].dep[i] :
                            t \in 1..Len(route.trips)}
          IN { [from |-> route.stops[i], to |-> route.stops[i+1],
                secs |-> IF MinOf(ride(i)) < 0 THEN 0 ELSE MinOf(ride(i))] :
               i \in 1..(Len(route.stops) - 1) } :
          r \in {x \in 1..Len(n.routes) : n.routes[x].mode \in q.modes} }
  \cup (IF q.walking THEN n.walks ELSE {})

Potentials(n, q) ==
  LET edges == Segments(n, q)
      within[k \in 0..Cardinality(Stops)] ==
        IF k = 0 THEN [s \in Stops |-> IF s \in q.targets THEN 0 ELSE Infinity]
        ELSE LET before == within[k-1]
             IN [s \in Stops |->
                  MinOf({before[s]} \cup
                        {before[e.to] + e.secs : e \in
                          {x \in edges : x.from = s /\ before[x.to] < Infinity}})]
  IN IF q.potentials THEN within[Cardinality(Stops)] ELSE [s \in Stops |-> 0]

(* Even the optimistic completion arrives too late or is dominated by a    *)
(* finished journey.  guard only saves the scan of target.                 *)
FutureDead(stop, arr, price, dep) ==
  LET best_case == [arr |-> arr + rem[stop], price |-> price, dep |-> dep]
  IN \/ best_case.arr > query.latest
     \/ /\ ~ (best_case.arr < guard.arr \/ price < guard.price \/ dep > guard.dep)
        /\ Dominated(target, best_case)
-----------------------------------------------------------------------------
(***************************************************************************)
(* Labels and the bags they go to.                                         *)
(***************************************************************************)
LastOf(label) == label[Len(label)]

(* Label.ready_at: only a passenger who got off a vehicle needs time.      *)
ReadyAt(node) ==
  node.arr + (IF node.via.kind = "ride" THEN query.minTransfer ELSE 0)

EntryOf(node, ready, parents) ==
  [arr |-> node.arr, price |-> node.price, dep |-> node.dep, ready |-> ready,
   label |-> Append(parents, node)]

OnFoot(e) == LastOf(e.label).via.kind = "walk"

(* Mutant of TargetInsert: the departure guard is never raised.            *)
TargetInsertTimeless(e) ==
  /\ target' = BagInsert(target, e)
  /\ guard' = IF Dominated(target, e) THEN guard
              ELSE [guard EXCEPT !.arr = IF e.arr < @ THEN e.arr ELSE @,
                                 !.price = IF e.price < @ THEN e.price ELSE @]

TargetInsert(e) ==
  /\ target' = BagInsert(target, e)
  /\ guard' = IF Dominated(target, e) THEN guard
              ELSE [arr   |-> IF e.arr < guard.arr THEN e.arr ELSE guard.arr,
                    price |-> IF e.price < guard.price THEN e.price ELSE guard.price,
                    dep   |-> IF e.dep > guard.dep THEN e.dep ELSE guard.dep]

(* A label reached at stop s in this round: dropped when it can lead to    *)
(* nothing new, else put in both bags, s marked, and offered to the target.*)
Reach(s, e) ==
  IF \/ e.arr > query.latest
     \/ FutureDead(s, e.arr, e.price, e.dep)
     \/ Dominated(best[s], e)
  THEN UNCHANGED bags
  ELSE /\ best' = [best EXCEPT ![s] = BagInsert(@, e)]
       /\ curr' = [curr EXCEPT ![s] = BagInsert(@, e)]
       /\ marked' = marked \cup {s}
       /\ IF s \in query.targets THEN TargetInsert(e)
          ELSE UNCHANGED <<target, guard>>

Init ==
  /\ net \in Networks
  /\ query \in Queries
  /\ rem = Potentials(net, query)
  /\ phase = "origins"
  /\ round = 0
  /\ prev = [s \in Stops |-> {}]
  /\ curr = [s \in Stops |-> {}]
  /\ best = [s \in Stops |-> {}]
  /\ target = {}
  /\ guard = [arr |-> Infinity, price |-> Infinity, dep |-> -1]
  /\ marked = {}
  /\ agenda = {}
  /\ work = query.origins
  /\ scan = [route |-> 0, pos |-> 0]
  /\ rides = {}

(* One origin: a label that has boarded nothing and may leave at any time. *)
SeedOrigin(o) ==
  LET e == EntryOf([stop |-> o.stop, arr |-> o.at, price |-> 0,
                    dep |-> Infinity, via |-> [kind |-> "start"]], o.at, <<>>)
  IN /\ phase = "origins" /\ o \in work
     /\ work' = work \ {o}
     /\ IF \/ FutureDead(o.stop, o.at, 0, Infinity)
           \/ Dominated(curr[o.stop], e)
        THEN UNCHANGED bags
        ELSE /\ curr' = [curr EXCEPT ![o.stop] = BagInsert(@, e)]
             /\ best' = [best EXCEPT ![o.stop] = BagInsert(@, e)]
             /\ marked' = marked \cup {o.stop}
             /\ UNCHANGED <<target, guard>>
     /\ UNCHANGED <<instance, phase, round, prev, agenda, scan, rides>>

StartRelax ==
  /\ phase' = "relax"
  /\ agenda' = IF query.walking THEN marked ELSE {}
  /\ work' = {}

EndOrigins ==
  /\ phase = "origins" /\ work = {}
  /\ StartRelax
  /\ UNCHANGED <<instance, round, prev, bags, scan, rides>>
-----------------------------------------------------------------------------
(***************************************************************************)
(* Footpaths, relaxed once per round; a label that walked does not walk on.*)
(***************************************************************************)
OpenStop(s) ==
  /\ phase = "relax" /\ work = {} /\ s \in agenda
  /\ agenda' = agenda \ {s}
  /\ work' = {e \in curr[s] : ~ OnFoot(e)} \X {w \in net.walks : w.from = s}
  /\ UNCHANGED <<instance, phase, round, prev, bags, scan, rides>>

Walk(item) ==
  LET e == item[1]  w == item[2]
      arrival == e.arr + w.secs
      node == [stop |-> w.to, arr |-> arrival, price |-> e.price, dep |-> e.dep,
               via |-> [kind |-> "walk", secs |-> w.secs]]
  IN /\ phase = "relax" /\ item \in work
     /\ work' = work \ {item}
     /\ Reach(w.to, EntryOf(node, arrival, e.label))
     /\ UNCHANGED <<instance, phase, round, prev, agenda, scan, rides>>

(* The round is over.  After the origins, what already stands at a target  *)
(* is offered to the target bag.                                           *)
EndRelax ==
  /\ phase = "relax" /\ work = {} /\ agenda = {}
  /\ phase' = "round"
  /\ prev' = curr
  /\ work' = IF round = 0 THEN UNION {best[t] : t \in query.targets} ELSE {}
  /\ UNCHANGED <<instance, round, bags, agenda, scan, rides>>

SeedTarget(e) ==
  /\ phase = "round" /\ e \in work
  /\ work' = work \ {e}
  /\ TargetInsert(e)
  /\ UNCHANGED <<instance, phase, round, prev, curr, best, marked, agenda, scan, rides>>
-----------------------------------------------------------------------------
(***************************************************************************)
(* A round: the routes touched by the marked stops, each from the earliest *)
(* position a marked stop has on it.                                       *)
(***************************************************************************)
MarkedPositions(r) ==
  {p \in 1..Len(net.routes[r].stops) : net.routes[r].stops[p] \in marked}

RouteEntries ==
  {a \in UNION {[route : {r}, pos : MarkedPositions(r)] :
                  r \in {x \in 1..Len(net.routes) : net.routes[x].mode \in query.modes}} :
     \A p \in MarkedPositions(a.route) : a.pos <= p}

(* Mutant of BeginRound: one round too many.                               *)
BeginRoundOnceMore ==
  /\ phase = "round" /\ work = {}
  /\ marked # {} /\ round <= query.maxRounds
  /\ round' = round + 1
  /\ curr' = [s \in Stops |-> {}]
  /\ agenda' = RouteEntries
  /\ marked' = {}
  /\ phase' = "scan"
  /\ UNCHANGED <<instance, prev, best, target, guard, work, scan, rides>>

BeginRound ==
  /\ phase = "round" /\ work = {}
  /\ marked # {} /\ round < query.maxRounds
  /\ round' = round + 1
  /\ curr' = [s \in Stops |-> {}]
  /\ agenda' = RouteEntries
  /\ marked' = {}
  /\ phase' = "scan"
  /\ UNCHANGED <<instance, prev, best, target, guard, work, scan, rides>>

Finish ==
  /\ phase = "round" /\ work = {}
  /\ marked = {} \/ round = query.maxRounds
  /\ phase' = "done"
  /\ UNCHANGED <<instance, round, prev, bags, agenda, work, scan, rides>>

Scanned == net.routes[scan.route]
ScannedStop == Scanned.stops[scan.pos]

BeginRoute(a) ==
  /\ phase = "scan" /\ a \in agenda
  /\ agenda' = agenda \ {a}
  /\ scan' = a
  /\ rides' = {}
  /\ phase' = "board"
  /\ work' = prev[net.routes[a.route].stops[a.pos]]
  /\ UNCHANGED <<instance, round, prev, bags>>

(* A ride keeps base, its price less the distance floor up to the stop     *)
(* where it was boarded, so its price at position p is base + cum[p].      *)
RideNoWorse(a, b) == a.trip <= b.trip /\ a.base <= b.base /\ a.dep >= b.dep

Alight(ride) ==
  LET trip == Scanned.trips[ride.trip]
      node == [stop |-> ScannedStop, arr |-> trip.arr[scan.pos],
               price |-> ride.base + Scanned.cum[scan.pos], dep |-> ride.dep,
               via |-> [kind |-> "ride", route |-> scan.route,
                        trip |-> ride.trip, board |-> ride.board,
                        alight |-> scan.pos]]
  IN /\ phase = "alight" /\ ride \in work
     /\ work' = work \ {ride}
     /\ IF scan.pos \in trip.noAlight THEN UNCHANGED bags
        ELSE Reach(ScannedStop,
                   EntryOf(node, trip.arr[scan.pos] + query.minTransfer, ride.parents))
     /\ UNCHANGED <<instance, phase, round, prev, agenda, scan, rides>>

EndAlight ==
  /\ phase = "alight" /\ work = {}
  /\ phase' = "board"
  /\ work' = prev[ScannedStop]
  /\ UNCHANGED <<instance, round, prev, bags, agenda, scan, rides>>
-----------------------------------------------------------------------------
(***************************************************************************)
(* Boarding.  The binary search ends at an index whose trip departs at or  *)
(* after ready while the one before it departs earlier: the only such      *)
(* index when departures are sorted, one of several when they are not.     *)
(***************************************************************************)
BisectResults(route, p, ready) ==
  LET n == Len(route.trips)
  IN {i \in 1..(n + 1) : /\ i <= n => route.trips[i].dep[p] >= ready
                         /\ i > 1 => route.trips[i-1].dep[p] < ready}

(* Mutant of FaresVary: every route takes the earliest-trip shortcut.      *)
FaresVaryNever(route) == FALSE

FaresVary(route) ==
  Cardinality({route.trips[t].fare : t \in 1..Len(route.trips)}) > 1

(* round(a / b), ties to even.                                             *)
RoundDiv(a, b) ==
  LET q == a \div b  r == a % b
  IN IF 2 * r < b \/ (2 * r = b /\ q % 2 = 0) THEN q ELSE q + 1

(* Mutant of Sampled: cap steps instead of cap - 1, so the end is missed.  *)
SampledShort(trips, cap) ==
  LET n == Cardinality(trips)
      picks == {RoundDiv(i * (n - 1), cap) : i \in 0..(cap - 1)}
  IN {t \in trips : Cardinality({u \in trips : u < t}) \in picks}

(* cap of the trips, spread over the set with both ends kept.              *)
Sampled(trips, cap) ==
  LET n == Cardinality(trips)
      picks == {RoundDiv(i * (n - 1), cap - 1) : i \in 0..(cap - 1)}
  IN {t \in trips : Cardinality({u \in trips : u < t}) \in picks}

CapOf(route) ==
  IF route.mode \in {"TRAIN", "BUS"} THEN query.capIntercity ELSE query.cap

BoardableTrips(route, p, ready, unboarded, first) ==
  LET sold == {t \in first..Len(route.trips) : p \notin route.trips[t].noBoard}
      horizon == ready + query.window
      inWindow == {t \in sold : \A u \in first..t : route.trips[u].dep[p] <= horizon}
  IN IF ~ FaresVary(route) /\ ~ (unboarded /\ query.profile)
     THEN {t \in sold : \A u \in sold : t <= u}
     ELSE IF FaresVary(route) \/ Cardinality(inWindow) <= CapOf(route)
          THEN inWindow
          ELSE Sampled(inWindow, CapOf(route))

(* Mutant of RideOf: every boarding, not only the first, sets departure.   *)
RideOfLast(e, t) ==
  LET trip == Scanned.trips[t]
  IN [trip |-> t,
      base |-> e.price + (IF trip.fare # NoFare THEN trip.fare ELSE Scanned.base)
                 - Scanned.cum[scan.pos],
      board |-> scan.pos, dep |-> trip.dep[scan.pos], parents |-> e.label]

(* The ride entry e would take on trip t from the stop being scanned.      *)
RideOf(e, t) ==
  LET trip == Scanned.trips[t]
  IN [trip |-> t,
      base |-> e.price + (IF trip.fare # NoFare THEN trip.fare ELSE Scanned.base)
                 - Scanned.cum[scan.pos],
      board |-> scan.pos,
      dep |-> IF e.dep = Infinity THEN trip.dep[scan.pos] ELSE e.dep,
      parents |-> e.label]

(* Entry e boards; of the rides on board and the new ones only those no    *)
(* other makes pointless stay, the older one of two equals.                *)
Board(e) ==
  /\ phase = "board" /\ e \in work
  /\ work' = work \ {e}
  /\ \E first \in BisectResults(Scanned, scan.pos, e.ready) :
       LET new == {RideOf(e, t) : t \in BoardableTrips(Scanned, scan.pos, e.ready,
                                                       e.dep = Infinity, first)}
           worth == {x \in new : ~ \E y \in rides \cup (new \ {x}) : RideNoWorse(y, x)}
       IN rides' = {r \in rides : ~ \E x \in worth : RideNoWorse(x, r)} \cup worth
  /\ UNCHANGED <<instance, phase, round, prev, bags, agenda, scan>>

NextStop ==
  /\ phase = "board" /\ work = {}
  /\ IF scan.pos < Len(Scanned.stops)
     THEN /\ scan' = [scan EXCEPT !.pos = @ + 1]
          /\ work' = rides
          /\ phase' = "alight"
          /\ UNCHANGED rides
     ELSE /\ phase' = "scan"
          /\ rides' = {}
          /\ UNCHANGED <<scan, work>>
  /\ UNCHANGED <<instance, round, prev, bags, agenda>>

EndRoutes ==
  /\ phase = "scan" /\ agenda = {}
  /\ StartRelax
  /\ UNCHANGED <<instance, round, prev, bags, scan, rides>>

Terminated == phase = "done" /\ UNCHANGED vars

Next ==
  \/ \E o \in query.origins : SeedOrigin(o)
  \/ EndOrigins
  \/ \E s \in Stops : OpenStop(s)
  \/ \E item \in work : Walk(item)
  \/ EndRelax
  \/ \E e \in work : SeedTarget(e)
  \/ BeginRound
  \/ Finish
  \/ \E a \in agenda : BeginRoute(a)
  \/ \E ride \in rides : Alight(ride)
  \/ EndAlight
  \/ \E e \in work : Board(e)
  \/ NextStop
  \/ EndRoutes
  \/ Terminated

Spec == Init /\ [][Next]_vars
-----------------------------------------------------------------------------
(***************************************************************************)
(* Properties.                                                             *)
(***************************************************************************)

(* Every variable stays within its type.  What the loops still have to     *)
(* visit depends on which loop runs: origins, stops and walks, entries for *)
(* the target, routes with a valid entry position, rides on board, entries *)
(* waiting to board.                                                       *)
Vias == [kind : {"start"}] \cup [kind : {"walk"}, secs : Nat] \cup
        [kind : {"ride"}, route : Nat, trip : Nat, board : Nat, alight : Nat]
Nodes == [stop : Stops, arr : Nat, price : Int, dep : Nat, via : Vias]
Entries == [arr : Nat, price : Int, dep : Nat, ready : Nat, label : Seq(Nodes)]
RouteStarts ==
  {a \in [route : 1..Len(net.routes), pos : Nat] :
     a.pos \in 1..Len(net.routes[a.route].stops)}
Rides ==
  [trip : 1..Len(Scanned.trips), base : Int, board : 1..scan.pos, dep : Nat,
   parents : Seq(Nodes)]

TypeOK ==
  /\ net \in Networks /\ query \in Queries
  /\ round \in 0..query.maxRounds
  /\ prev \in [Stops -> SUBSET Entries]
  /\ curr \in [Stops -> SUBSET Entries]
  /\ best \in [Stops -> SUBSET Entries]
  /\ target \subseteq Entries
  /\ guard \in [arr : Nat, price : Int, dep : Int]
  /\ marked \subseteq Stops
  /\ phase \in {"origins", "relax", "round", "scan", "alight", "board", "done"}
  /\ phase = "origins" => work \subseteq query.origins
  /\ phase = "relax" => agenda \subseteq Stops /\ work \subseteq Entries \X net.walks
  /\ phase = "round" => work \subseteq Entries
  /\ phase \in {"scan", "alight", "board"} => agenda \subseteq RouteStarts
  /\ phase \in {"alight", "board"} => scan \in RouteStarts /\ rides \subseteq Rides
  /\ phase = "alight" => work \subseteq rides
  /\ phase = "board" => work \subseteq prev[ScannedStop]

(* No bag ever holds an entry that another one of it makes pointless       *)
(* (bag_insert and the insertions inlined in the alighting and walking     *)
(* loops), so the answer of the search is a frontier.                      *)
BagsAreFrontiers ==
  /\ \A s \in Stops : IsFrontier(prev[s]) /\ IsFrontier(curr[s]) /\ IsFrontier(best[s])
  /\ IsFrontier(target)

(* Whatever a round boards from or has reached is matched by the frontier  *)
(* of its stop: a label the search dropped is not still being extended     *)
(* while nothing as good is kept.                                          *)
BestCoversRounds ==
  \A s \in Stops : Covers(best[s], prev[s]) /\ Covers(best[s], curr[s])

(* "A candidate beating any of these minima/maximum cannot be dominated, so *)
(* the linear scan is skipped": the scalar guards bound the whole target   *)
(* bag, so skipping its scan never keeps a label alive that it would drop. *)
GuardsBoundTarget ==
  \A e \in target : guard.arr <= e.arr /\ guard.price <= e.price /\ e.dep <= guard.dep

(* A frontier only improves: what a stop, or the target, could offer after *)
(* one step it can match after every later one.                            *)
FrontiersOnlyImprove ==
  [][ /\ \A s \in Stops : Covers(best'[s], best[s])
      /\ Covers(target', target) ]_vars
-----------------------------------------------------------------------------
(***************************************************************************)
(* Journeys.  A chain of nodes is a journey of the network when it starts  *)
(* at an origin and each node follows from the one before it by a footpath *)
(* or by a ride the passenger is in time for, with the price and departure *)
(* the rides add up to.                                                    *)
(***************************************************************************)
StartsAtOrigin(node) ==
  /\ node.via.kind = "start"
  /\ [stop |-> node.stop, at |-> node.arr] \in query.origins
  /\ node.price = 0 /\ node.dep = Infinity

FollowsOnFoot(a, b) ==
  /\ b.via.kind = "walk"
  /\ a.via.kind # "walk"
  /\ [from |-> a.stop, to |-> b.stop, secs |-> b.via.secs] \in net.walks
  /\ b.arr = a.arr + b.via.secs
  /\ b.price = a.price /\ b.dep = a.dep

FollowsByRide(a, b) ==
  /\ b.via.kind = "ride"
  /\ b.via.route \in 1..Len(net.routes)
  /\ LET route == net.routes[b.via.route]
         p == b.via.board  q == b.via.alight
     IN /\ b.via.trip \in 1..Len(route.trips)
        /\ p \in 1..Len(route.stops) /\ q \in 1..Len(route.stops) /\ p < q
        /\ route.stops[p] = a.stop /\ route.stops[q] = b.stop
        /\ LET trip == route.trips[b.via.trip]
           IN /\ trip.dep[p] >= ReadyAt(a)
              /\ p \notin trip.noBoard /\ q \notin trip.noAlight
              /\ b.arr = trip.arr[q]
              /\ b.price = a.price + (IF trip.fare # NoFare THEN trip.fare ELSE route.base)
                             + route.cum[q] - route.cum[p]
              /\ b.dep = IF a.dep = Infinity THEN trip.dep[p] ELSE a.dep

IsJourney(label) ==
  /\ Len(label) >= 1
  /\ StartsAtOrigin(label[1])
  /\ \A i \in 1..(Len(label) - 1) :
       FollowsOnFoot(label[i], label[i+1]) \/ FollowsByRide(label[i], label[i+1])

Describes(e, s) ==
  LET last == LastOf(e.label)
  IN /\ last.stop = s /\ last.arr = e.arr /\ last.price = e.price
     /\ last.dep = e.dep /\ e.ready = ReadyAt(last)

(* Every label the search keeps is a journey a passenger can make: in time *)
(* for every vehicle with the change time due, boarding and alighting      *)
(* where it is allowed, and its arrival, price floor and departure are     *)
(* those of that journey.                                                  *)
LabelsAreJourneys ==
  /\ \A s \in Stops : \A e \in prev[s] \cup curr[s] \cup best[s] :
       IsJourney(e.label) /\ Describes(e, s)
  /\ \A e \in target : \E s \in query.targets : IsJourney(e.label) /\ Describes(e, s)

=============================================================================
