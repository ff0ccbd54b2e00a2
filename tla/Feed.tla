--------------------------------- MODULE Feed ---------------------------------
(***************************************************************************)
(* Reading a GTFS feed for one date (ingest/gtfs.py) and building the      *)
(* network the router scans (TimetableBuilder in routing/timetable.py):    *)
(* the calendar, today's runs and what is left of yesterday's, platforms   *)
(* merged into stations, and the footpaths.                                *)
(*                                                                         *)
(* Trips and transfer rows are taken in every order, as no order of the    *)
(* files is promised.  Times are small numbers, Day is 24:00.  A feed is a *)
(* record: weekly, added and removed are the pairs of a service and a day  *)
(* of calendar.txt and calendar_dates.txt; routes gives a route_type and   *)
(* an agency; trips a route and a service; stops a location_type and a     *)
(* parent; calls the rows of stop_times.txt; links those of transfers.txt. *)
(***************************************************************************)
EXTENDS Orders, SequencesExt, FiniteSetsExt

CONSTANTS
  Feeds,            \* the feeds one may have downloaded
  Wanted,           \* modes GtfsConfig.wants
  Agencies,         \* GtfsConfig.agencies; none stands for all
  Collapse,         \* collapse_parent_stations
  Near,             \* pairs of stations, with seconds, within synth_walk_max_meters
  ServiceDate,      \* the date that is loaded
  Day,              \* _DAY_SECONDS
  MaxTransfer       \* max_transfer_seconds

(* Stops, rows and links are finitely many, times count from a midnight,   *)
(* and stop_sequence orders the rows of a trip.                            *)
IsFeed(f) ==
  /\ IsFiniteSet(DOMAIN f.stops)
  /\ \A l \in f.links : l.seconds \in Nat
  /\ \A t \in DOMAIN f.trips :
       /\ t \in DOMAIN f.calls /\ IsFiniteSet(f.calls[t])
       /\ \A r \in f.calls[t] :
            /\ {r.sequence, r.arrival, r.departure} \subseteq Nat
            /\ {r.noBoard, r.noAlight} \subseteq BOOLEAN
       /\ \A x, y \in f.calls[t] : x.sequence = y.sequence => x = y

ASSUME FeedAssumption == \A f \in Feeds : IsFeed(f)
ASSUME DayAssumption == Day \in Nat \ {0} /\ ServiceDate \in Int /\ MaxTransfer \in Nat
ASSUME NearAssumption == \A n \in Near : n.from # n.to /\ n.seconds \in 1..MaxTransfer

VARIABLES
  feed,        \* the feed
  at,          \* calendar, trips, links, near, close, build, ready
  services,    \* services: the service ids that run on the date
  previous,    \* services_prev: those that ran the day before
  left,        \* trips, then transfer rows, that are not read yet
  runs,        \* emissions: the runs to add, in order
  foot,        \* seconds of the footpaths, by pair of stations
  network      \* the runs a route keeps

vars == <<feed, at, services, previous, left, runs, foot, network>>

Init ==
  /\ feed \in Feeds
  /\ at = "calendar" /\ services = {} /\ previous = {} /\ left = {}
  /\ runs = <<>> /\ foot = << >> /\ network = {}
-----------------------------------------------------------------------------
(***************************************************************************)
(* The calendar, the routes, the stops and the trips.                      *)
(***************************************************************************)
Trips == DOMAIN feed.trips

(* mode_for_route_type.                                                    *)
Mode(type) ==
  CASE type = 2 \/ type \in 100..117 \ {109} -> "train"
    [] type = 3 \/ type \in 200..209 \/ type \in (702..714) \ {704} -> "bus"
    [] type = 4 \/ type \in 1000..1021 \/ type \in 1200..1299 -> "ferry"
    [] type = 1100 -> "flight"
    [] OTHER -> "local"

Kept == {r \in DOMAIN feed.routes :
           /\ Mode(feed.routes[r].type) \in Wanted
           /\ Agencies = {} \/ feed.routes[r].agency \in Agencies}

(* _load_stops: a platform stands for its parent, if that is a station.    *)
Routable == {p \in DOMAIN feed.stops : feed.stops[p].kind \in {0, 1}}
StationOf(p) ==
  LET parent == feed.stops[p].parent
  IN IF Collapse /\ p \in Routable /\ parent \in DOMAIN feed.stops /\ feed.stops[parent].kind = 1
     THEN parent ELSE p
Stations == {StationOf(p) : p \in Routable}

AllServices == {feed.trips[t].service : t \in Trips}

(* Mutant of ActiveServices: the exceptions are read before the calendar.  *)
ActiveServicesEarly(day) ==
  {s \in AllServices : <<s, day>> \in (feed.added \ feed.removed) \cup feed.weekly}

ActiveServices(day) ==
  {s \in AllServices : <<s, day>> \in (feed.weekly \cup feed.added) \ feed.removed}

(* _dedupe_consecutive: calls at platforms of one station become one, with *)
(* the first arrival and the last departure.                               *)
Merge(calls, c) ==
  IF calls # <<>> /\ Last(calls).station = c.station
  THEN Front(calls) \o <<[Last(calls) EXCEPT !.departure = c.departure,
                                             !.noBoard = c.noBoard]>>
  ELSE Append(calls, c)

(* A row as the loop over stop_times.txt keeps it.                         *)
Entry(row) ==
  [sequence |-> row.sequence, station |-> StationOf(row.stop), arrival |-> row.arrival,
   departure |-> row.departure, noBoard |-> row.noBoard, noAlight |-> row.noAlight]

Entries(t) == {Entry(row) : row \in {r \in feed.calls[t] : r.stop \in Routable}}
BySequence(t) == {p \in Entries(t) \X Entries(t) : p[1].sequence < p[2].sequence}
Calls(t) == FoldLeft(Merge, <<>>, Ordered(Entries(t), BySequence(t)))

Run(t, day, calls) == [trip |-> t, day |-> day, route |-> feed.trips[t].route, calls |-> calls]

(* Mutant of Overnight: only calls that arrive after midnight are left.    *)
OvernightArrived(calls) ==
  LET late == AtPlaces(calls, {i \in DOMAIN calls : calls[i].arrival >= Day})
  IN [i \in DOMAIN late |->
        [late[i] EXCEPT !.arrival = @ - Day, !.departure = @ - Day]]

(* What is left of yesterday's run: the calls that depart after midnight,  *)
(* where one that arrived before can only be boarded.                      *)
Overnight(calls) ==
  LET late == AtPlaces(calls, {i \in DOMAIN calls : calls[i].departure >= Day})
  IN [i \in DOMAIN late |->
        [late[i] EXCEPT !.arrival = Max({0, @ - Day}),
                        !.departure = @ - Day,
                        !.noAlight = @ \/ late[i].arrival < Day]]

RunsOf(t) ==
  LET calls == Calls(t)
      today == feed.trips[t].service \in services
      before == feed.trips[t].service \in previous
  IN IF Len(calls) < 2 THEN <<>>
     ELSE (IF today THEN <<Run(t, ServiceDate, calls)>> ELSE <<>>)
       \o (IF before /\ Len(Overnight(calls)) >= 2
             THEN <<Run(t, ServiceDate - 1, Overnight(calls))>> ELSE <<>>)

UsedStops == UNION {{runs[i].calls[k].station : k \in DOMAIN runs[i].calls} : i \in DOMAIN runs}
-----------------------------------------------------------------------------
(***************************************************************************)
(* Footpaths.                                                              *)
(***************************************************************************)
(* The faster of what is known for a pair and what is offered for it.      *)
Linked(paths, pairs, seconds) ==
  [p \in DOMAIN paths \cup pairs |->
     IF p \notin pairs THEN paths[p]
     ELSE IF p \notin DOMAIN paths THEN seconds
     ELSE Min({seconds, paths[p]})]

BothWays(a, b) == {<<a, b>>, <<b, a>>}

(* One round of the closure: the footpaths by way of k.                    *)
Via(paths, k) ==
  LET short == {p \in Stations \X Stations :
                  /\ p[1] # p[2] /\ {<<p[1], k>>, <<k, p[2]>>} \subseteq DOMAIN paths
                  /\ paths[<<p[1], k>>] + paths[<<k, p[2]>>] <= MaxTransfer}
      by(p) == paths[<<p[1], k>>] + paths[<<k, p[2]>>]
  IN [p \in DOMAIN paths \cup short |->
        IF p \notin short THEN paths[p]
        ELSE IF p \notin DOMAIN paths THEN by(p)
        ELSE Min({by(p), paths[p]})]

(* Mutant of Closed: footpaths of two links only.                          *)
ClosedOnce(paths) ==
  [p \in UNION {DOMAIN Via(paths, k) : k \in Stations} |->
     Min({Via(paths, k)[p] : k \in {j \in Stations : p \in DOMAIN Via(paths, j)}})]

(* close_transfers.                                                        *)
Closed(paths) == FoldLeft(Via, paths, SetToSeq(Stations))
-----------------------------------------------------------------------------
(***************************************************************************)
(* The routes: runs of one route with the same stations.                   *)
(***************************************************************************)
Monotonic(run) ==
  LET c == run.calls
  IN /\ \A i \in DOMAIN c : c[i].arrival <= c[i].departure
     /\ \A i \in 1..(Len(c) - 1) : c[i].departure <= c[i + 1].arrival

Pattern(run) == <<run.route, [i \in DOMAIN run.calls |-> run.calls[i].station]>>

Overtakes(late, early) == \E i \in DOMAIN early.calls : late.calls[i].arrival < early.calls[i].arrival

(* _strip_overtaking: the next run stays unless it overtakes the last kept.*)
Strip(kept, run) == IF kept # <<>> /\ Overtakes(run, Last(kept)) THEN kept ELSE Append(kept, run)

(* The runs of one pattern by their first departure, then as they came.    *)
KeptRuns(pattern) ==
  LET own == {i \in DOMAIN runs : Monotonic(runs[i]) /\ Pattern(runs[i]) = pattern}
      first(i) == runs[i].calls[1].departure
      sooner(i, j) == first(i) < first(j) \/ (first(i) = first(j) /\ i < j)
      order == Ordered(own, {p \in own \X own : sooner(p[1], p[2])})
  IN Range(FoldLeft(Strip, <<>>, [i \in DOMAIN order |-> runs[order[i]]]))
-----------------------------------------------------------------------------
ReadCalendar ==
  /\ at = "calendar" /\ at' = "trips"
  /\ services' = ActiveServices(ServiceDate) /\ previous' = ActiveServices(ServiceDate - 1)
  /\ left' = Trips
  /\ UNCHANGED <<feed, runs, foot, network>>

ReadTrip(t) ==
  /\ at = "trips" /\ t \in left
  /\ left' = left \ {t}
  /\ runs' = IF feed.trips[t].route \in Kept THEN runs \o RunsOf(t) ELSE runs
  /\ UNCHANGED <<feed, at, services, previous, foot, network>>

EndOfTrips ==
  /\ at = "trips" /\ left = {}
  /\ at' = "links" /\ left' = feed.links
  /\ UNCHANGED <<feed, services, previous, runs, foot, network>>

(* A row counts unless it links a station to itself or to one no run uses, *)
(* forbids the change or takes too long; it counts in both directions.     *)
ReadLink(row) ==
  LET a == StationOf(row.from)
      b == StationOf(row.to)
  IN /\ at = "links" /\ row \in left
     /\ left' = left \ {row}
     /\ foot' = IF a # b /\ {a, b} \subseteq UsedStops /\ row.type # 3
                   /\ row.seconds <= MaxTransfer
                THEN Linked(foot, BothWays(a, b), row.seconds) ELSE foot
     /\ UNCHANGED <<feed, at, services, previous, runs, network>>

EndOfLinks ==
  /\ at = "links" /\ left = {} /\ at' = "near"
  /\ UNCHANGED <<feed, services, previous, left, runs, foot, network>>

(* A walk for every near pair of which the rows left nothing.              *)
Synthesize ==
  /\ at = "near" /\ at' = "close"
  /\ foot' = LET near == {n \in Near : /\ {n.from, n.to} \subseteq UsedStops
                                       /\ BothWays(n.from, n.to) \cap DOMAIN foot = {}}
                 between(p) == {n \in near : p \in BothWays(n.from, n.to)}
             IN [p \in DOMAIN foot \cup {q \in Stations \X Stations : between(q) # {}} |->
                   IF p \in DOMAIN foot THEN foot[p] ELSE Min({n.seconds : n \in between(p)})]
  /\ UNCHANGED <<feed, services, previous, left, runs, network>>

Close ==
  /\ at = "close" /\ at' = "build"
  /\ foot' = Closed(foot)
  /\ UNCHANGED <<feed, services, previous, left, runs, network>>

Build ==
  /\ at = "build" /\ at' = "ready"
  /\ network' = UNION {KeptRuns(Pattern(runs[i])) : i \in DOMAIN runs}
  /\ UNCHANGED <<feed, services, previous, left, runs, foot>>

Next ==
  \/ ReadCalendar \/ EndOfTrips \/ EndOfLinks \/ Synthesize \/ Close \/ Build
  \/ \E t \in Trips : ReadTrip(t)
  \/ \E row \in feed.links : ReadLink(row)

Spec == Init /\ [][Next]_vars
-----------------------------------------------------------------------------
(***************************************************************************)
(* Properties.                                                             *)
(***************************************************************************)

RunsOn(t, day) ==
  \/ <<feed.trips[t].service, day>> \in feed.added \ feed.removed
  \/ <<feed.trips[t].service, day>> \in feed.weekly \ feed.removed

(* A ride of a vehicle on a day: to board by one row of its trip and to    *)
(* alight by a later one.                                                  *)
Shift(day) == IF day = ServiceDate THEN 0 ELSE Day
Ride(t, day, x, y) ==
  [trip |-> t, day |-> day, from |-> StationOf(x.stop), to |-> StationOf(y.stop),
   departure |-> x.departure - Shift(day), arrival |-> y.arrival - Shift(day)]
Possible(t, day, x, y) ==
  /\ feed.trips[t].route \in Kept /\ RunsOn(t, day) /\ {x.stop, y.stop} \subseteq Routable
  /\ x.sequence < y.sequence /\ ~ x.noBoard /\ ~ y.noAlight
  /\ x.departure >= Shift(day)

OfferedRides ==
  UNION {UNION {{[trip |-> r.trip, day |-> r.day, from |-> r.calls[i].station,
                  to |-> r.calls[j].station,
                  departure |-> r.calls[i].departure, arrival |-> r.calls[j].arrival] :
                   j \in {k \in DOMAIN r.calls : k > i /\ ~ r.calls[k].noAlight}}
                : i \in {k \in DOMAIN r.calls : ~ r.calls[k].noBoard}}
         : r \in network}

(* What the network offers on a date is what vehicles really do after its  *)
(* midnight: a run of that date or of the one before, from a stop where it *)
(* can be boarded to a later one where it can be left.                     *)
RidesAreReal ==
  \A ride \in OfferedRides :
    \E x, y \in feed.calls[ride.trip] :
      /\ ride = Ride(ride.trip, ride.day, x, y) /\ Possible(ride.trip, ride.day, x, y)
      /\ ride.departure <= ride.arrival

(* The row a traveller boards by, and the one to alight by, where a        *)
(* vehicle calls at a station by several.                                  *)
LastThere(t, x) ==
  \A r \in feed.calls[t] : StationOf(r.stop) = StationOf(x.stop) => r.sequence <= x.sequence
FirstThere(t, y) ==
  \A r \in feed.calls[t] : StationOf(r.stop) = StationOf(y.stop) => r.sequence >= y.sequence

(* No vehicle is lost: a ride after midnight on a run of either day is     *)
(* offered, unless its rows contradict each other (a later one is before   *)
(* midnight, or the run as it is read goes back in time) or its run        *)
(* overtakes another one, which is on offer, of the same route.            *)
RidesAreOffered ==
  at = "ready" =>
    \A t \in Trips, d \in {ServiceDate - 1, ServiceDate} :
      \A x, y \in feed.calls[t] :
        Possible(t, d, x, y) /\ LastThere(t, x) /\ FirstThere(t, y) =>
          \/ Ride(t, d, x, y) \in OfferedRides
          \/ \E z \in feed.calls[t] : /\ z.sequence > x.sequence
                                      /\ z.arrival < Shift(d) \/ z.departure < Shift(d)
          \/ \E i \in DOMAIN runs :
               /\ runs[i].trip = t /\ runs[i].day = d
               /\ \/ ~ Monotonic(runs[i])
                  \/ \E r \in network : /\ Pattern(r) = Pattern(runs[i])
                                        /\ Overtakes(runs[i], r)

(* The seconds of a chain of stations along the links a feed and the map   *)
(* give.                                                                   *)
Links ==
  {l \in {[from |-> StationOf(r.from), to |-> StationOf(r.to), seconds |-> r.seconds] :
            r \in {x \in feed.links : x.type # 3}} :
     l.from # l.to /\ {l.from, l.to} \subseteq UsedStops /\ l.seconds <= MaxTransfer}

Listed(a, b) == {l.seconds : l \in {x \in Links : {x.from, x.to} = {a, b}}}
Walked(a, b) ==
  IF Listed(a, b) # {} THEN Listed(a, b)
  ELSE {n.seconds : n \in {x \in Near : {x.from, x.to} = {a, b} /\ {a, b} \subseteq UsedStops}}

Chains == UNION {{c \in [1..n -> Stations] : IsInjective(c)} : n \in 2..Cardinality(Stations)}
Walkable(c) == \A i \in 1..(Len(c) - 1) : Walked(c[i], c[i + 1]) # {}
Seconds(c) == MapThenSumSet(LAMBDA i : Min(Walked(c[i], c[i + 1])), 1..(Len(c) - 1))

(* A footpath takes the time of the fastest chain of links, in both        *)
(* directions, a link of the feed coming before the straight line, and     *)
(* every chain within the cap is there: the router walks only once.        *)
FootpathsAreShortest ==
  at \in {"build", "ready"} =>
    \A a, b \in Stations :
      LET times == {Seconds(c) : c \in {x \in Chains : /\ x[1] = a /\ x[Len(x)] = b
                                                       /\ Walkable(x)}}
          within == {s \in times : s <= MaxTransfer}
      IN IF within = {} THEN <<a, b>> \notin DOMAIN foot
         ELSE <<a, b>> \in DOMAIN foot /\ foot[<<a, b>>] = Min(within)

=============================================================================
