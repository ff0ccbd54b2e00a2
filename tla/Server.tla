------------------------------- MODULE Server -------------------------------
(***************************************************************************)
(* The life of the server (api/app.py): it warms up behind an open socket, *)
(* builds the pricing adapters once, maintains itself on a schedule and    *)
(* may go down at any time.  What survives is the database: the fares that *)
(* searches logged, the floors fitted to them and the results of the       *)
(* canaries of monitoring.py.                                              *)
(*                                                                         *)
(* The event loop runs everything but the first step of the warm-up, which *)
(* runs in a thread; an action is what happens between two awaits.         *)
(***************************************************************************)
EXTENDS PriceFloors

CONSTANTS
  Fares,       \* what a leg may cost: records [op, who, km, fare]
  Honored,     \* operators a travel card frees
  Canaries,    \* the probes of run_canaries
  MaxFares,    \* bound of the fares that are logged
  MaxDowns     \* bound of crashes and shutdowns

ASSUME FareAssumption ==
  Fares \subseteq [op : Operators, who : Categories, km : Nat \ {0}, fare : Nat \ {0}]
ASSUME HonoredAssumption == Honored \subseteq Operators
ASSUME BoundAssumption == MaxFares \in Nat /\ MaxDowns \in Nat

Nobody == "none"
Idle == [who |-> Nobody, floors |-> << >>]
Unbuilt == << >>

VARIABLES
  log,      \* reprice_delta: what was logged, with the floor that was used
  table,    \* operator_floor
  rows,     \* adapter_health of each canary: absent, fresh, stale
  feed,     \* is there a GTFS feed?
  boot,     \* where the warm-up is
  failed,   \* did a step of it fail?
  loaded,   \* is a timetable in memory?
  floors,   \* the floors of the orchestrator, if there is one
  sched,    \* where the scheduler is
  search,   \* the search under way: who travels, the floors it is routed with
  missed,   \* history: fares below the floor the router used
  tabled,   \* history: how many fares the table was fitted to
  swapped,  \* history: how many the orchestrator's floors were fitted to
  downs     \* how often the server went down

database == <<log, table, rows, tabled>>
booting == <<boot, failed, loaded>>
vars == <<database, feed, booting, floors, sched, search, missed, swapped, downs>>

Init ==
  /\ log = <<>> /\ table = << >> /\ rows \in [Canaries -> {"absent", "fresh", "stale"}]
  /\ feed \in BOOLEAN
  /\ boot = "down" /\ failed = FALSE /\ loaded = FALSE /\ floors = Unbuilt
  /\ sched = "off" /\ search = Idle
  /\ missed = {} /\ tabled = 0 /\ swapped = 0 /\ downs = 0

Built == floors # Unbuilt
Up == boot # "down"

(* load_calibrated_floors, into the orchestrator.                          *)
LoadFloors == floors' = FloorsFromRows(table, Adult) /\ swapped' = tabled
-----------------------------------------------------------------------------
(***************************************************************************)
(* Warming up.                                                             *)
(***************************************************************************)
Start ==
  /\ boot = "down" /\ boot' = "loading"
  /\ UNCHANGED <<database, feed, failed, loaded, floors, sched, search, missed, swapped, downs>>

(* The thread has the timetable and looks for an orchestrator.             *)
TimetableLoaded ==
  /\ boot = "loading" /\ feed
  /\ loaded' = TRUE
  /\ boot' = IF Built THEN "opening" ELSE "building"
  /\ UNCHANGED <<database, feed, failed, floors, sched, search, missed, swapped, downs>>

(* It has found none: a request may have built one in the meantime.        *)
Assembled ==
  /\ boot = "building" /\ boot' = "opening"
  /\ LoadFloors
  /\ UNCHANGED <<database, feed, failed, loaded, sched, search, missed, downs>>

FeedMissing ==
  /\ boot = "loading" /\ ~ feed
  /\ boot' = "opening" /\ failed' = TRUE
  /\ UNCHANGED <<database, feed, loaded, floors, sched, search, missed, swapped, downs>>

(* The cars, the fare connections, and start_polling.                      *)
WarmedUp ==
  /\ boot = "opening" /\ boot' = "ready" /\ sched' = "starting"
  /\ UNCHANGED <<database, feed, failed, loaded, floors, search, missed, swapped, downs>>

(* Mutant of BootRaises: what raised is logged, and that is all.           *)
BootRaisesQuietly ==
  /\ boot \in {"loading", "building", "opening"}
  /\ boot' = "ready"
  /\ UNCHANGED <<database, feed, failed, loaded, floors, sched, search, missed, swapped, downs>>

(* Whatever a step raises ends the warm-up: nothing is polled then.        *)
BootRaises ==
  /\ boot \in {"loading", "building", "opening"}
  /\ boot' = "ready" /\ failed' = TRUE
  /\ UNCHANGED <<database, feed, loaded, floors, sched, search, missed, swapped, downs>>

(* A crash or a shutdown; the database and the feed are still there.       *)
Down ==
  /\ Up /\ downs < MaxDowns /\ downs' = downs + 1
  /\ boot' = "down" /\ failed' = FALSE /\ loaded' = FALSE /\ floors' = Unbuilt /\ swapped' = 0
  /\ sched' = "off" /\ search' = Idle
  /\ UNCHANGED <<database, feed, missed>>

(* tripps fetch-gtfs.                                                      *)
FetchFeed ==
  /\ ~ feed /\ feed' = TRUE
  /\ UNCHANGED <<database, booting, floors, sched, search, missed, swapped, downs>>

(* What the index page shows.                                              *)
ShowsForm == boot = "ready" /\ ~ failed
-----------------------------------------------------------------------------
(***************************************************************************)
(* Searches.                                                               *)
(***************************************************************************)
(* An adult is routed with the floors of the orchestrator, other           *)
(* travellers with what the table holds for them; a held card zeroes what  *)
(* it honors.                                                              *)
RoutingFloors(shared, who, ops) ==
  WithOperatorsZeroed(IF who = Adult THEN shared ELSE FloorsFromRows(table, who), ops)

(* planner_for and the first half of Planner.search.                       *)
SearchStarts(who, ops) ==
  /\ Up /\ search = Idle
  /\ loaded \/ feed
  /\ loaded' = TRUE
  /\ IF Built THEN UNCHANGED <<floors, swapped>> ELSE LoadFloors
  /\ search' = [who |-> who, floors |-> RoutingFloors(floors', who, ops)]
  /\ UNCHANGED <<database, feed, boot, failed, sched, missed, downs>>

(* Mutant of Audited: what the orchestrator holds by now.                  *)
AuditedLate == floors

(* The floors a fare is checked against and logged with.                   *)
Audited == search.floors

(* A row of reprice_delta.                                                 *)
Delta(o, floor) == [op |-> o.op, who |-> o.who, km |-> o.km, fare |-> o.fare, floor |-> floor]

(* A quote of a paid source: _check_floor and _record_delta.               *)
PriceLeg(o) ==
  /\ search # Idle /\ o.who = search.who /\ Len(log) < MaxFares
  /\ log' = Append(log, Delta(o, FloorOf(Audited[o.op], o.km)))
  /\ missed' = IF FloorOf(search.floors[o.op], o.km) > o.fare THEN missed \cup {Len(log')} ELSE missed
  /\ UNCHANGED <<table, rows, tabled, feed, booting, floors, sched, search, swapped, downs>>

SearchEnds ==
  /\ search # Idle /\ search' = Idle
  /\ UNCHANGED <<database, feed, booting, floors, sched, missed, swapped, downs>>
-----------------------------------------------------------------------------
(***************************************************************************)
(* The scheduler.                                                          *)
(***************************************************************************)
(* Mutant of Stale: one fresh row vouches for the others.                  *)
StaleByNewest == \A c \in Canaries : rows[c] # "fresh"

(* is_stale(oldest_canary_age_hours()).                                    *)
Stale == (\A c \in Canaries : rows[c] = "absent") \/ \E c \in Canaries : rows[c] = "stale"

(* Results outlive their threshold.                                        *)
TimePasses(c) ==
  /\ rows[c] = "fresh" /\ rows' = [rows EXCEPT ![c] = "stale"]
  /\ UNCHANGED <<log, table, tabled, feed, booting, floors, sched, search, missed, swapped, downs>>

CatchUp ==
  /\ sched = "starting"
  /\ sched' = IF Stale THEN "catching" ELSE "waiting"
  /\ UNCHANGED <<database, feed, booting, floors, search, missed, swapped, downs>>

(* A probe yields a result whatever happens to it.                         *)
Results == Canaries

(* persist_canaries: a row for each, one after the other.                  *)
Persist(cs) == rows' = [c \in Canaries |-> IF c \in cs THEN "fresh" ELSE rows[c]]

(* A probe never raises, the database may.                                 *)
CaughtUp ==
  /\ sched = "catching" /\ sched' = "waiting"
  /\ \E cs \in SUBSET Results : Persist(cs)
  /\ UNCHANGED <<log, table, tabled, feed, booting, floors, search, missed, swapped, downs>>

WakeUp ==
  /\ sched = "waiting" /\ sched' = "probing"
  /\ UNCHANGED <<database, feed, booting, floors, search, missed, swapped, downs>>

(* "A true replace, not an upsert".                                        *)
PutOperatorFloors(fitted) == table' = fitted /\ tabled' = Len(log)

(* run_calibration: nothing is written when nothing could be fitted.       *)
Calibrate ==
  IF Fitted(log) = {} THEN UNCHANGED <<table, tabled>> ELSE PutOperatorFloors(Calibrated(log))

(* Mutant of Maintain: the orchestrator keeps its floors.                  *)
MaintainTable ==
  /\ sched = "probing" /\ sched' = "waiting"
  /\ Persist(Results) /\ Calibrate
  /\ UNCHANGED <<log, feed, booting, floors, search, missed, swapped, downs>>

(* The scheduled pass, once the probes are back.                           *)
Maintain ==
  /\ sched = "probing" /\ sched' = "waiting"
  /\ Persist(Results) /\ Calibrate
  /\ IF Built THEN floors' = FloorsFromRows(table', Adult) /\ swapped' = tabled'
     ELSE UNCHANGED <<floors, swapped>>
  /\ UNCHANGED <<log, feed, booting, search, missed, downs>>

(* It may raise at any point and is then retried at the next interval.     *)
MaintainRaises ==
  /\ sched = "probing" /\ sched' = "waiting"
  /\ \/ (\E cs \in SUBSET Results : Persist(cs)) /\ UNCHANGED <<table, tabled>>
     \/ Persist(Results) /\ Calibrate
  /\ UNCHANGED <<log, feed, booting, floors, search, missed, swapped, downs>>

(* tripps canary and api_canary; tripps calibrate.                         *)
ProbeByHand ==
  /\ \E cs \in SUBSET Results : cs # {} /\ Persist(cs)
  /\ UNCHANGED <<log, table, tabled, feed, booting, floors, sched, search, missed, swapped, downs>>

CalibrateByHand ==
  /\ Calibrate
  /\ UNCHANGED <<log, rows, feed, booting, floors, sched, search, missed, swapped, downs>>
-----------------------------------------------------------------------------
Warming ==
  TimetableLoaded \/ Assembled \/ FeedMissing \/ WarmedUp \/ BootRaises
Maintenance == CatchUp \/ CaughtUp \/ WakeUp \/ Maintain \/ MaintainRaises

Next ==
  \/ Start \/ Warming \/ Down \/ FetchFeed
  \/ \E who \in Categories, ops \in {{}, Honored} : SearchStarts(who, ops)
  \/ \E o \in Fares : PriceLeg(o)
  \/ SearchEnds
  \/ Maintenance \/ \E c \in Canaries : TimePasses(c)
  \/ ProbeByHand \/ CalibrateByHand

Spec == Init /\ [][Next]_vars

(* The scheduler's task runs on, and maintenance does not fail for ever:   *)
(* what raises is a lock of the database, held for a moment.  The last     *)
(* conjunct is SF_vars(Maintain), which is enabled just when it is probing.*)
Fairness ==
  /\ WF_vars(CatchUp \/ CaughtUp) /\ WF_vars(WakeUp)
  /\ []<>(sched = "probing") => []<><<Maintain>>_vars
FairSpec == Spec /\ Fairness
-----------------------------------------------------------------------------
(***************************************************************************)
(* Properties.                                                             *)
(***************************************************************************)
Early(n) == SubSeq(log, 1, n)

(* The floor contract, on everything the fit has seen: no floor in use is  *)
(* above a fare it was fitted to, for the category that paid it.  A        *)
(* traveller whose category has no fit of its own gets floors a discount   *)
(* of half the fare does not slip under.                                   *)
FloorsUnderFares ==
  /\ Built => \A op \in Operators \ ExactFares :
       LET seen == Samples(Early(swapped), op, Adult)
       IN Enough(seen) => \A o \in Elements(seen) : FloorOf(floors[op], o.km) <= o.fare
  /\ \A op \in Operators \ ExactFares, who \in Discounted :
       LET own == Samples(Early(tabled), op, who)
           adult == Samples(Early(tabled), op, Adult)
           floor == FloorsFromRows(table, who)[op]
       IN IF Enough(own) THEN \A o \in Elements(own) : FloorOf(floor, o.km) <= o.fare
          ELSE Enough(adult) => \A o \in Elements(adult) : 2 * FloorOf(floor, o.km) <= o.fare

(* The fit is the best there is, on everything it is compared on: the set  *)
(* is fixed, so that one state is enough to look at it in.                 *)
FitIsBest == boot = "down" /\ downs = 0 /\ feed => \A points \in Clouds : BestFit(points)

(* The violations the status page counts are those of the router: a floor  *)
(* that changes while a search is priced neither hides nor invents one.    *)
DetectorIsExact == {i \in DOMAIN log : log[i].floor > log[i].fare} = missed

(* Where the search form is shown a search can be routed and priced.       *)
FormMeansRoutable == ShowsForm => loaded /\ Built

(* The catch-up decides by what the status page marks as stale: a row that *)
(* is stale when the server starts is probed before the scheduler first    *)
(* waits.                                                                  *)
StaleIsProbed ==
  [][sched = "starting" /\ sched' = "waiting" => \A c \in Canaries : rows[c] # "stale"]_vars

(* A floor above a fare does not stay in use: once there are fares enough  *)
(* to fit, the searches that follow are routed below it.                   *)
Overshot(op) ==
  /\ Enough(Samples(log, op, Adult))
  /\ \E o \in Elements(Samples(log, op, Adult)) : FloorOf(floors[op], o.km) > o.fare
FloorsHeal ==
  \A op \in Operators \ ExactFares :
    (sched # "off" /\ Built /\ Overshot(op)) ~> (sched = "off" \/ ~ Overshot(op))
=============================================================================
