----------------------------- MODULE MCMcRaptor -----------------------------
(***************************************************************************)
(* Small networks for McRaptor, and the reference the search is checked    *)
(* against: every journey of at most maxRounds vehicles, enumerated.       *)
(***************************************************************************)
EXTENDS McRaptor, TLC, Functions

CONSTANTS A, B, C, D

MCStops == {A, B, C, D}
MCInfinity == 99
MaxCalls == 5

Trip(arr, dep, fare) ==
  [arr |-> arr, dep |-> dep, fare |-> fare, noBoard |-> {}, noAlight |-> {}]
Restricted(trip, noBoard, noAlight) ==
  [trip EXCEPT !.noBoard = noBoard, !.noAlight = noAlight]
Route(mode, stops, base, cum, trips) ==
  [mode |-> mode, stops |-> stops, base |-> base, cum |-> cum, trips |-> trips]
BothWays(W) == {[from |-> w[1], to |-> w[2], secs |-> w[3]] : w \in W} \cup
               {[from |-> w[2], to |-> w[1], secs |-> w[3]] : w \in W}

(* A train along A, B, C whose second run may be late, and a coach from B  *)
(* that may be missed.                                                     *)
LineAndCoach(late, leaves) ==
  [routes |-> << Route("TRAIN", <<A, B, C>>, 2, <<0, 1, 3>>,
                   << Trip(<<1, 3, 8>>, <<1, 4, 8>>, NoFare),
                      Trip(<<5, 7 + late, 12>>, <<5, 8 + late, 12>>, NoFare) >>),
                 Route("BUS", <<B, C>>, 1, <<0, 1>>,
                   << Trip(<<leaves, leaves + 4>>, <<leaves, leaves + 4>>, NoFare),
                      Trip(<<9, 13>>, <<9, 13>>, NoFare) >>) >>,
   walks |-> {}]

(* Two flights with fares of their own behind a feeder, and a walk from B  *)
(* to the airport D.                                                       *)
Airport(fare, walk) ==
  [routes |-> << Route("TRAIN", <<A, B>>, 2, <<0, 1>>,
                   << Trip(<<1, 3>>, <<1, 3>>, NoFare) >>),
                 Route("FLIGHT", <<D, C>>, 0, <<0, 0>>,
                   << Trip(<<4, 6>>, <<4, 6>>, 9),
                      Trip(<<5, 8>>, <<5, 8>>, fare),
                      Trip(<<7, 9>>, <<7, 9>>, 4) >>),
                 Route("BUS", <<B, D, C>>, 1, <<0, 1, 2>>,
                   << Trip(<<3, 5, 9>>, <<3, 5, 9>>, NoFare) >>) >>,
   walks |-> BothWays({<<B, D, walk>>})]

(* A line that calls at B twice, sets down only at the first call, and two *)
(* stopping trains that do not pick up at D.                               *)
Circle(late) ==
  [routes |-> << Route("BUS", <<A, B, D, B, C>>, 1, <<0, 1, 2, 3, 4>>,
                   << Restricted(Trip(<<0, 2, 4, 6, 9>>, <<1, 2, 4, 6, 9>>, NoFare), {2}, {}),
                      Restricted(Trip(<<2, 4, 6, 8, 11>>, <<3, 4, 6, 8, 11>>, NoFare), {2}, {}) >>),
                 Route("TRAIN", <<B, D, C>>, 2, <<0, 0, 1>>,
                   << Restricted(Trip(<<3, 4, 5>>, <<3, 4, 5>>, NoFare), {2}, {}),
                      Restricted(Trip(<<6 + late, 7 + late, 8 + late>>,
                                      <<6 + late, 7 + late, 8 + late>>, NoFare), {2}, {}) >>) >>,
   walks |-> {}]

(* A loop through B and D with closed footpaths among B, C and D, and a    *)
(* local line without a distance floor.                                    *)
Town(walk, out) ==
  [routes |-> << Route("TRAIN", <<A, B, D>>, 1, <<0, 2, 3>>,
                   << Trip(<<0, 2, 3>>, <<0, 2, 3>>, NoFare),
                      Trip(<<2, 4, 6>>, <<2, 4, 6>>, NoFare) >>),
                 Route("LOCAL_TRANSIT", <<D, B, C>>, 1, <<0, 0, 0>>,
                   << Trip(<<out, out + 1, out + 2>>, <<out, out + 1, out + 2>>, NoFare),
                      Trip(<<out + 2, out + 3, out + 4>>, <<out + 2, out + 3, out + 4>>, NoFare) >>) >>,
   walks |-> BothWays({<<B, D, walk>>, <<D, C, walk + 1>>, <<B, C, walk + 2>>})]

(* n runs of a metro line with a train to catch at B: more departures than *)
(* the cap lets through.                                                   *)
Busy(n) ==
  [routes |-> << Route("LOCAL_TRANSIT", <<A, B>>, 1, <<0, 1>>,
                   [i \in 1..n |-> Trip(<<2 * i, 2 * i + 3>>, <<2 * i, 2 * i + 3>>, NoFare)]),
                 Route("TRAIN", <<B, C>>, 2, <<0, 1>>,
                   [i \in 1..n |-> Trip(<<3 * i, 3 * i + 5>>, <<3 * i, 3 * i + 5>>, NoFare)]) >>,
   walks |-> BothWays({<<A, D, 1>>})]

Query(origins, targets, latest, minTransfer, walking, profile, potentials) ==
  [origins |-> origins, targets |-> targets, maxRounds |-> 2,
   minTransfer |-> minTransfer, walking |-> walking, profile |-> profile,
   potentials |-> potentials, latest |-> latest,
   modes |-> {"TRAIN", "BUS", "FLIGHT", "LOCAL_TRANSIT"},
   window |-> 40, cap |-> 3, capIntercity |-> 8]

FromA == [stop |-> A, at |-> 0]

ExactNetworks ==
  {LineAndCoach(late, leaves) : late \in 0..2, leaves \in 3..6}
  \cup {Airport(fare, walk) : fare \in {2, 4, 9}, walk \in 1..2}
  \cup {Circle(late) : late \in 0..2}
  \cup {Town(walk, out) : walk \in 1..2, out \in 3..5}
  \cup {Busy(n) : n \in 4..6}

(* With footpaths the change time is zero: with both the search is not     *)
(* exact.                                                                  *)
ExactQueries ==
  {Query({FromA}, {C}, 30, 0, TRUE, TRUE, TRUE),
   Query({FromA, [stop |-> B, at |-> 2]}, {C, D}, 12, 0, TRUE, TRUE, TRUE),
   Query({FromA}, {C}, 12, 0, TRUE, TRUE, FALSE),
   Query({FromA}, {C}, 17, 0, TRUE, TRUE, TRUE),
   Query({FromA, [stop |-> B, at |-> 3]}, {C, D}, 30, 2, FALSE, TRUE, TRUE)}

(* What _strip_overtaking leaves of most feeds; the search steps over      *)
(* trips where it fails (BisectResults).                                   *)
ASSUME SortedAssumption == \A n \in ExactNetworks : DeparturesSorted(n)
-----------------------------------------------------------------------------
(***************************************************************************)
(* The reference: labels reached with k vehicles, by every footpath and    *)
(* every ride a passenger can take, nothing pruned.                        *)
(***************************************************************************)
Walked(S) ==
  S \cup {[stop |-> w.to, arr |-> x.arr + w.secs, price |-> x.price,
           dep |-> x.dep, ready |-> x.arr + w.secs] :
            <<x, w>> \in {y \in S \X net.walks : query.walking /\ y[1].stop = y[2].from}}

RidesFrom(x) ==
  UNION { LET route == net.routes[r]
          IN { [stop |-> route.stops[y[3]], arr |-> route.trips[y[1]].arr[y[3]],
                price |-> x.price
                          + (IF route.trips[y[1]].fare # NoFare
                             THEN route.trips[y[1]].fare ELSE route.base)
                          + route.cum[y[3]] - route.cum[y[2]],
                dep |-> IF x.dep = Infinity THEN route.trips[y[1]].dep[y[2]] ELSE x.dep,
                ready |-> route.trips[y[1]].arr[y[3]] + query.minTransfer] :
               y \in {z \in (1..Len(route.trips)) \X (1..Len(route.stops)) \X (1..Len(route.stops)) :
                        /\ z[2] < z[3]
                        /\ route.stops[z[2]] = x.stop
                        /\ route.trips[z[1]].dep[z[2]] >= x.ready
                        /\ z[2] \notin route.trips[z[1]].noBoard
                        /\ z[3] \notin route.trips[z[1]].noAlight} } :
          r \in {i \in 1..Len(net.routes) : net.routes[i].mode \in query.modes} }

Journeys ==
  LET start == {[stop |-> o.stop, arr |-> o.at, price |-> 0, dep |-> Infinity,
                 ready |-> o.at] : o \in query.origins}
      with[k \in 0..query.maxRounds] ==
        IF k = 0 THEN Walked(start)
        ELSE LET before == with[k-1] IN Walked(UNION {RidesFrom(x) : x \in before})
  IN UNION {with[k] : k \in 0..query.maxRounds}

Value(e) == [arr |-> e.arr, price |-> e.price, dep |-> e.dep]

Frontier ==
  LET at == {Value(x) : x \in {y \in Journeys : y.stop \in query.targets
                                                /\ y.arr <= query.latest}}
  IN {v \in at : \A u \in at : NoWorse(u, v) => u = v}

(* The cap may hide a departure of this network.                           *)
Capped == \E r \in 1..Len(net.routes) : Len(net.routes[r].trips) > CapOf(net.routes[r])

(* "Exact multi-criteria RAPTOR. Returns the Pareto frontier over the      *)
(* target stops": pruning by frontier, target, potential, earliest trip    *)
(* and ride drops no journey of the frontier and adds none, where the cap  *)
(* on departures lets all of them through.                                 *)
ExactFrontier ==
  phase = "done" /\ ~ Capped => {Value(e) : e \in target} = Frontier

(* When one may board, straight from an origin or a footpath away, a run   *)
(* that is neither the first nor the last within the window.               *)
BetweenEnds ==
  LET places == {y \in Walked({[stop |-> o.stop, arr |-> o.at, price |-> 0,
                                dep |-> Infinity, ready |-> o.at] : o \in query.origins})
                       \X (1..Len(net.routes)) \X (1..MaxCalls) :
                   /\ y[3] \in DOMAIN net.routes[y[2]].stops
                   /\ net.routes[y[2]].stops[y[3]] = y[1].stop}
      leaves(y) == {trip.dep[y[3]] :
                      trip \in {t \in Range(net.routes[y[2]].trips) :
                                  /\ y[3] \notin t.noBoard
                                  /\ t.dep[y[3]] \in y[1].ready..(y[1].ready + query.window)}}
  IN UNION {{d \in leaves(y) : (\E a \in leaves(y) : a < d) /\ (\E b \in leaves(y) : b > d)} :
              y \in places}

(* "Spread the sample evenly over the window instead, keeping BOTH the     *)
(* earliest and the latest departure": however few departures the cap      *)
(* lets through, there is a journey as fast and as cheap as each of the    *)
(* frontier, and those that leave with the first or the last run of a      *)
(* window are all found.  (A later departure within the window may be      *)
(* lost, and with it the latest journey that still arrives in time.)       *)
SamplingKeepsEnds ==
  phase = "done" =>
    \A v \in Frontier :
      /\ \E e \in target : e.arr <= v.arr /\ e.price <= v.price
      /\ v.dep \notin BetweenEnds => v \in {Value(e) : e \in target}
=============================================================================
