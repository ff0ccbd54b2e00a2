# tripps in TLA+

tripps plans journeys across Sweden by train, coach, flight and free relocation
cars (Freerider). A search has two phases. Phase 1 runs a multi-criteria RAPTOR over a
day's timetable with *price floors*, lower bounds on the fares. Phase 2 asks real
price sources for the journeys that survive and ranks them by what they cost. A
web server answers searches concurrently on one event loop, and maintains itself
in the background.

This directory models the parts of tripps whose correctness is not visible from a
line of code, checks them with TLC on small instances, and proves nearly all of the
invariants with TLAPS for every instance. Source paths below are relative to
`src/src/tripps/`.

## 1. The system

| Part | Source | State it keeps | Operations | Hard behaviours | What makes it correct |
|---|---|---|---|---|---|
| Journey search | `routing/mcraptor.py` | bags of the last and this round, best bags, target bag, scalar guards, marked stops, rides on board | `run_mcraptor`, `_relax_transfers`, `_boardable_trips`, `target_potentials` | dominance over three criteria, four kinds of pruning, iteration over sets in any order | the answer is the Pareto frontier of all journeys; every label is a journey; rounds count vehicles |
| Timetable | `routing/timetable.py`, `routing/synthetic.py` | stops, routes, trips, footpaths | `build`, `overlay_timetable`, `_strip_overtaking`, `close_transfers`, `validate` | overlays on a shared base; what the router assumes of its input | trips of a route do not overtake; footpaths are closed |
| Journey assembly | `routing/journey.py` | none | label to itinerary, `collapse_equivalent`, `spread_by_departure` | which of several equals is kept | nothing cheaper is dropped |
| Price floors | `routing/floors.py`, `calibration.py` | floors per operator and category | `calibrate`, `floors_from_rows` | rounding, hull edges, the swap under a running search | a floor is never above a fare it was fitted to, and one that proves too high is replaced |
| Planner | `search.py` | timetable, orchestrator, floors | `search`, `round_trip`, `cheapest_over_window` | loads offers and cards into adapters that other searches share | a search sees the offers it was routed with |
| Pricing | `pricing/orchestrator.py`, `pricing/base.py` | a context per search; on each adapter the attached budget and a rate limiter | `price`, `_quote_leg`, `_apply_split_tickets`, `CallBudget.consume`, `set_budget` | tasks interleave at every await; a deadline cancels them; refusals, failures | each call keeps to its own allowance; totals are honest |
| Price sources | `pricing/flixbus.py`, `sj.py`, `tora.py`, `freerider.py`, `flights.py` | memoized responses with a lock each, offers, keys, health | `quote_leg`, `search`, `_day_offers`, `load` | many legs want one response; the source is down; the key rotates | one request per lifetime; no leg waits for ever |
| Train scan | `pricing/deepsplit.py`, `split.py` | the budget it found | `scan_train`, `best_chain` | runs beside searches on a shared adapter | pays for its own requests; the chain is the cheapest |
| Database | `db.py` | quote cache, watches and hits, floors, health, rentals | `get_quote`, `put_quote`, `purge_quotes`, `record_hit`, ... | rows age; failures are stored too; retention | a label bounds the age of a number; an exception does not hide a stale number |
| Watcher | `watcher.py`, `api/app.py` | watches, hits | `check_watches`, `notify_webhook` | announces after recording; runs from two places | a car is announced, and once |
| Cards and rentals | `passes.py`, `surcharges.py` | held cards, coverage per timetable | `prepare`, `covering_card`, the rental coupon | coverage cached by object identity; one price over several legs | a rental is charged once, and only if it pays |
| Web application | `api/app.py` | orchestrator, timetable cache, inventory, boot progress | handlers, `_warm_up`, `_poll_loop`, `_scheduler_loop`, `stop` | boot in a thread beside requests; loops that must survive failures | one orchestrator; maintenance goes on |
| GTFS ingest | `ingest/gtfs.py`, `routing/timetable.py` | the builder's routes, trips and links | `load_timetable`, `_load_transfers`, `build` | nights that belong to two dates, rows in any order, platforms of one station | the network offers what vehicles do on the date, all of it and nothing else |
| Offer ingest, road matrix, airports | `ingest/`, `routing/roadmatrix.py` | snapshots | parsers and clients | formats and I/O | a refresh that fails leaves what there was |
| Monitoring | `monitoring.py` | health rows | `run_canaries`, `persist_canaries` | results that outlive a process | what is stale is probed again |
| Command line, validation, tables | `cli.py`, `validation.py`, `pricing/operators.py`, `models.py`, `config.py` | none of their own | one command after another | little | they change what a server reads |

How they interact: a handler of `api/app.py` gets a `Planner` for the date, whose
`search` overlays the day's offers on the timetable, loads them into the shared
adapters, runs the journey search, and awaits `PricingOrchestrator.price`. That
attaches a `CallBudget` to every adapter and prices all legs in one `gather`; each leg
goes to the quote cache, then to the first adapter that supports it, which consumes
the attached budget for each request it sends. The scheduler purges the cache and
replaces the floors; the poller replaces the car inventory. What is shared, the
adapters and the database, is where searches meet.

## 2. The modules

| Module | Models | Depends on |
|---|---|---|
| `Pareto` | dominance and `bag_insert` | |
| `McRaptor` | the journey search, loop turn by loop turn | `Pareto` |
| `MCMcRaptor` | networks, queries, and the reference: all journeys, enumerated | `McRaptor` |
| `McRaptorProofs` | theorems about the search, and the lemmas about frontiers they rest on | `McRaptor` |
| `Orders` | `sorted` and list comprehensions, by the order that sorts | |
| `Feed` | a GTFS feed becomes the network of a date | `Orders` |
| `CallAllowance` | what a `CallBudget` promises, abstractly | |
| `SharedPricing` | phase 2, split passes and scans on shared adapters; refines `CallAllowance` | |
| `PricingProofs` | theorems about phase 2 and the two caches of prices | `SharedPricing`, `QuoteCache` |
| `QuoteCache` | the cache table, the memo with its lock, failures and retention | |
| `Ranking` | labels become itineraries, are chosen, priced, ranked and paged; the refined pass | `Orders` |
| `Cards` | travel cards, rentals, the station fee and round trips | |
| `Tickets` | the split hint of a search and the scan of a train | |
| `PriceFloors` | the fit of floors and what a search makes of the table | |
| `Server` | warm-up, searches, scheduler, canaries, restarts | `PriceFloors` |
| `Watcher` | the car inventory, watches, hits and webhooks | |
| `FoldTheorems` | facts about sums, folds, sorting, ranks, least and greatest elements | `Orders`, the library |
| `ServerProofs` | theorems about the server and the watcher | `Server` with `PriceFloors`, `Watcher`, `FoldTheorems` |
| `FeedProofs`, `RankingProofs`, `CardsProofs`, `TicketsProofs` | theorems about the component | the component, `FoldTheorems` |
| `MCxxx` | an instance of module `xxx` for TLC | `xxx` |

The modules meet where the components do. A `Feed` network, restricted to what `IsNetwork` says, is
what `McRaptor` routes on; its labels are what `Ranking` starts from. `Ranking` lets each
itinerary get any price or none: which calls still go out is in `SharedPricing`, what a leg
is told in `QuoteCache`, what cards make of it in `Cards`. The floors `Server` puts into a
search are the ones `McRaptor` prunes with (its route fares `base` and `cum`).

Definitions marked *Mutant of X* are what `X` would be with a plausible bug. No
specification uses them; substituted for `X`, each makes a property fail, which is how
we know the property depends on the code.

### 2.1 `McRaptor`

A bag entry is `[arr, price, dep, ready, label]`, as in the code; a label is its chain
of parents written out as a sequence. `best`, `prev`, `curr`, `target`, `guard`,
`marked`, `round` are the variables of `run_mcraptor`; `phase` says which of its loops is
running, and `agenda`, `work`, `scan`, `rides` hold what that loop has left. Python
iterates over sets there, so the model takes elements in any order, and what holds does
not depend on the order. One action is one turn of a loop:
`SeedOrigin`, `OpenStop` and `Walk` (`_relax_transfers`), `SeedTarget`, `BeginRound`,
`BeginRoute`, `Alight`, `Board` (with `_boardable_trips`), `NextStop`, `EndRoutes`,
`EndRelax`, `Finish`. The binary search over departures is modelled by all it can
return on a list that may not be sorted (`BisectResults`).

Left out: the bounded mode (`max_bag_size`, which the planner never sets), `stats`,
and `relabel_prices`.

### 2.2 `SharedPricing` and `CallAllowance`

All calls run on one event loop, so an action is what a coroutine does between two
awaits. `attached` is `_budget` of the adapters, `used` the charges of each budget, and
`bound` the search whose offers were loaded last; all calls share them. `sent` is a
history variable: on whose behalf a request left. `StartSearch` is all that happens from
loading the offers to creating the tasks, with no await in between; `AskLeg`,
`RefuseLeg`, `Answer`, `CacheHit`, `PriceCar`, `CloseItinerary` price one leg or
itinerary; `FinishPricing` and `Expire` leave the `gather`, in time or not; the split pass
probes the rail legs of what is shown that have a price (`Splittable`), also in itineraries that lack one; that
pass and the scan ask one probe at a time between `StartScan` (or `FinishPricing`) and
`EndPass`.

The constant `Concurrent` says whether calls overlap: they do not on the command line,
they do in the server. Two sources stand for all: one over HTTP, one that prices from
loaded offers. `CallAllowance` states the promise of `pricing/base.py`: a pass begins
once, sends only while it is under way, and never more than it was allowed.

### 2.3 `QuoteCache`

`rows` is the table, with the time at which the number really left the source as a
history field (`seen`) beside `fetched_at` (`at`). `memo`, `holder` and `queue` are one
adapter's memoized response and its `asyncio.Lock`. `Label` is `get_quote`. A task runs
`_quote_leg` or, if it is in `Probing`, `_price_sub_leg`. The specification is `CacheSpec`. Sources may answer, be down
(the adapter returns `unavailable`), raise, or be refused by the budget; the deadline may
cancel a task anywhere; the scheduler may purge at any time; the clock ticks in between.

### 2.4 `Feed`

`load_timetable` and `TimetableBuilder.build` for one date. `at` is the part that runs:
the calendar (`ReadCalendar`), trips one by one (`ReadTrip`), transfer rows one by one
(`ReadLink`), synthesized walks, the closure, the routes. Rows are read in any order. A
trip of a service that runs today is a run of today; one whose service ran yesterday leaves
the calls that depart after midnight (`Overnight`). Calls at platforms of one station are
merged first (`Merge`). `KeptRuns` sorts the runs of one pattern and drops those that
overtake (`Strip`); `Closed` is the closure by all stations. Times are small numbers and a
day has four ticks, so that trips run over midnight after a stop or two.

What is sorted is written with `Orders!Ordered`: the n-th element is the one that n - 1
come before. The relation `before` is the key of the code's `sort`, with the place in the
list last where the sort is stable. `IsFeed` is what the ingest takes for granted of a feed (finite
tables, times from midnight on, a `stop_sequence` per row); `NearAssumption` that 400 m can
be walked within `max_transfer_seconds`.

`RidesAreOffered` has two exceptions that come from the code. A run whose times go back is
not built (`Monotonic`, the check of `build`), and one that overtakes is stripped, for the one it
overtakes. And where a row after boarding is before midnight although the boarding is after
it, the rows contradict each other and there is no ride to offer.

Left out: CSV, zip and the pickled cache; `overlay_timetable` and the synthetic trips.

### 2.5 `Ranking`

`Planner.search` after the journey search, and `PricingOrchestrator.price` without its
calls. A label has a shape (its sequence of patterns), the vehicles it rides, times and a
floor. `Route` makes itineraries (`Candidates`: tightened first walks, one per set of
vehicles), `Filter` applies constraints and drops what no source can price, `Sample` is
`spread_by_departure` and `_select_to_price`, `AskPrices` gives each a price or none, or
`TimeOut` gives none to any, `Rank` collapses, sorts, hides, covers modes and cuts.
`Refine` runs the same query again with a larger page. Of the fares of the first pass, the cache
serves those in `kept`: some of the `Servable` ones, which have a price and no stale leg. The choice is
free because rows expire in between, and because what is charged beyond a card's border
is never stored (`orchestrator.py:285-303`). All others are asked again and may come out
cheaper, dearer or without a price.

Samples and turns are written by place, not by loop. `Group` is the itineraries of a shape, `Earlier`
those of them that depart before one; how many there are is its slot in the day. `Spread`
keeps the slots in `Picks`. `Depth` is the place `_extremes_first` gives a slot (0 for the first
of the day, 1 for the last, 2 for the second, and so on inward), and the round robin of
`_select_to_price` is a sort by depth, then by the cheapest floor of the shape. The fold over
the ways of travel (`Covering`) is a loop in the code too.

Of the constants it is assumed that labels of a shape have the same modes (`IsLabels`: the
modes are part of `pattern_key`), that prices are natural numbers, and that pages, calls and
samples are not empty (at least two departures of a shape, as configured). `Ranks` are places in
`_CONFIDENCE_RANK`; the run has a cached and a stale one, the theorems any. Both passes route
the same labels: offers and floors do not change between them.

### 2.6 `Cards`

`card` and `rental` are the two tables, `region` the stops each card covers, as derived
from the feed. A request reads both tables once (`Request`) and prices a journey out and
one back (`Search`), each leg with any answer its chain of adapters may give (`Answers`), the
card boundary (`Bounded`), the rental coupon (`Coupon`) and the station fee (`WithFee`).
`asked` keeps the quotes before the coupon, as history. Deriving regions from agencies,
and the coverage that is cached under `id(timetable)`, are left out.

### 2.7 `Tickets`

One train between a traveller's boarding and alighting calls (`DirectRuns`). The operator
has a tariff nobody knows in advance; `tariff` holds what has been learned of it. A search
may show the ride and try breaks at hubs near the middle (`Show`, `Probe`, `Advise`:
`_best_split_hint` with `sub_legs`); a scan asks for each pair of its points (`Scan`,
`Ask`) and solves (`Solve`). `probes` and `pairs` are sets of what is left to ask, and the least goes
next; `Settle` is one turn of the outer loop of `best_chain`, `BestChain` the fold of those turns.
Any lookup may fail. The traveller is an adult
(see section 3.2 for others).

### 2.8 `PriceFloors` and `Server`

`PriceFloors` is arithmetic: `FitLine` over the cheapest fare of each distance (`Envelope`, by rank)
with its hull in exact fractions, margin and truncation (`Scaled`), the fallbacks of `floors_from_rows`,
floors zeroed for held cards.

`Server` is the process around it. `boot` is the warm-up: its first step runs in a thread
and looks for an orchestrator (`TimetableLoaded`) before it builds one (`Assembled`), while
requests on the event loop may build theirs (`SearchStarts`). `sched` is the scheduler
with its one catch-up (`CatchUp`, `CaughtUp`) and its passes (`WakeUp`, `Maintain`), which
may raise between any two steps. `table`, `log` and `rows` are the database and survive
`Down`. `missed`, `tabled`, `swapped` are history: what the router overlooked, and how many
fares the table and the orchestrator's floors were fitted to.

### 2.9 `Watcher`

`listed` is what Hertz offers and `offers` what the server has in memory; `watch`, `hits`,
`snapshot`, `health` are tables and survive `GoDown`. `check_watches` runs for the refresh
(the boot step, then the poller) and for every request that creates a watch; `todo[a]` is
what the check of `a` has left and `posting[a]` the webhook it awaits. Between two webhooks
everything is one step (`Announce`), as nothing else is awaited. The specification is `WatcherSpec`; like
the cache's it has names of its own, so that the proofs of two components can share a module.

## 3. What is checked

### 3.1 Properties that hold

| Run | Question | Bounds |
|---|---|---|
| `raptor` | Is the answer exactly the Pareto frontier of all journeys? Are bags frontiers, labels journeys, guards sound, and does nothing get worse? Where the cap on departures samples, is there a journey as fast and as cheap as each that it hides, and is every journey kept that leaves with the first or last run of a window? | 30 networks (a line with a coach to miss or catch; flights behind a feeder; a route that calls twice; closed footpaths; a metro of 4 to 6 runs under a cap of 3) and 5 queries, 2 rounds |
| `feed` | Does the network offer the rides of the date, all and only those? Are footpaths the shortest walks? | 96 feeds: 3 calendars, 4 variants of 5 trips, 8 choices among 6 transfer rows; every order of reading |
| `pricing_sequential` | One call at a time: allowances, charges, own offers, and the refinement of `CallAllowance` | two searches (one refined) and a scan, two itineraries with three legs, two requests a leg |
| `pricing_concurrent` | Overlapping searches: does each end? | two searches of one leg with split passes of two probes |
| `cache` | Ages, labels, one request per lifetime; does every waiting leg get its answer? | two departures, a leg and a probe, three ticks, row TTL 1, memo TTL 2 |
| `ranking` | Are scarce calls spread, is nothing cheaper or of a wanted mode withheld, does looking again keep what the cache has? | 4 label lists of up to 7, 3 requests, two prices, 4 calls, pages of 1 and 2 |
| `cards` | Is every stretch that is not charged one where held cards are valid, a rental taken only when it pays and paid once, every freed operator routed with no floor? | 3 cards, 2 rentals, 3 feeds, 5 legs, two fares |
| `tickets` | Are the tickets the cheapest, and no dearer than what a search advised? | 4 runs under limits of 1, 3 and 4 points, two fares or none, failures |
| `server` | Are floors below the fares they were fitted to, the fit optimal, the detector exact, stale sources probed, the form shown only when it works, and does a floor that overshoots go away? | two operators, two fares logged, two canaries, one restart; every cloud of up to four points at three distances |
| `watcher` | Is a car announced once, logged always, and does a server that stays up keep polling? | two watches, two cars, one restart |

Why that is enough. Two rounds are the least in which a label of one round is extended in
the next and can be dominated across rounds; three stops and a fourth for detours give each
pruning rule something to prune. Two searches are the least that interfere, and a refine
pass has twice the allowance so that a mix-up shows. A number is at most row TTL + memo
TTL - 1 ticks old while it counts as current, so three ticks reach that age and the one
after. Footpaths are closed over chains of three links. Seven labels of one or two
shapes exceed the samples per shape and the calls. Two cards are the least that combine or
leave a gap, two rentals the least that compete on a leg. Four points have two interior
breaks, and a run of five calls leaves one out. One logged fare is enough to overshoot the
default floor and one more to spoil a fit; the hull needs three points to take one back
and four to take back two. Two checks, and a third from creating the other watch, overlap in
every way.

Deadlock is checked except where the modelled work ends by itself (`feed`, `ranking`,
`tickets`). The searches end in an explicit stuttering action (`Terminated`, `Finished`);
in `QuoteCache` the clock stops at `MaxTime` and tasks go on.

`raptor` uses a change time of zero where it has footpaths, footpaths that are closed,
uniform restrictions on a route and sorted departures (`SortedAssumption`). `FitIsBest` is
about a constant set and is looked at in the first states only.

**Fairness.** The safety properties need none. `EveryCallEnds` assumes that what a started call
can do is eventually done: the event loop runs every ready task, every HTTP client has a
timeout (`base.py`, `http_timeout_seconds`), and phase 2 has a deadline. No call need
start. `EveryLegAnswered` assumes that the lock wakes its next waiter (`asyncio.Lock`)
and that a request is answered or fails, not that it succeeds. `CarsGetLogged` and
`PollingStarts` assume that the loop runs what is ready, that the operator restarts what is
down, that a webhook ends within its ten seconds, and that Hertz answers now and then (strong
fairness of `Refreshed`). `FloorsHeal` assumes that the scheduler's task runs on, and
that a pass which is tried again and again succeeds in the end: what may raise there is a lock
of the database.

### 3.2 Where the code does not do what its text says

Two of these are runs that TLC must find violated:

| Run | The text | What happens |
|---|---|---|
| `pricing_shared_budget` | a per-search budget bounds the requests of a query (`base.py:7`) | another search's budget, or none, is attached when they are sent |
| `watcher_bad_hook` | `notify_webhook` "never raises" (`watcher.py:90`) | a URL no request can be made from raises something else than `httpx.HTTPError`; in the boot it keeps poller and scheduler from starting |

Others were met while modelling. They have no run of their own; the models either contain
them or state the scope they would leave:

- `mcraptor.py:210` calls the search exact. Dominance (`:359`) ignores `ready`: where there is a
  change time, a rider who must wait it out displaces a walker who need not.
- `mcraptor.py:511` says footpaths are transitively closed. Overlays and the cap leave them
  open; the walked label then displaces the ridden one that could walk on (`:521`).
- `mcraptor.py:436` says only the earliest catchable trip can help. Not when it does not set
  down where a later one does (`:474`).
- `_boardable_trips` searches departures, while `_strip_overtaking` and `validate` compare
  arrivals: a trip that dwells can leave the departures at a stop out of order, and the
  binary search then steps over a trip (`BisectResults`).
- `pricing/freerider.py:33` prices from "the snapshot the router was built with": in the
  server, from the last one loaded by any search (`search.py:348`; `PricedFromOwnSnapshot`
  holds without `Concurrent`).
- `db.py:4`: "an expired entry is still served" when the source is down. The adapters report
  a failure as a quote, which `_quote_leg` stores over the entry (`orchestrator.py:256`);
  Tora reports even a refusal by the budget that way (`tora.py:340`). Only `Fallback` (an exception
  or a refusal that reaches `_quote_leg`) looks for a stale number, so no property says that
  one is preferred to none.
- `orchestrator.py:259`: "charge only the stretch a held card does not reach". The rest beyond a card's
  border is quoted like a leg of its own (`:289`), and another card that is valid at both ends of it
  makes it free. With cards valid at {4} and at {1, 3}, a ride 1, 2, 3, 4 costs nothing, although neither is
  valid at 2 and `passes.py:17` prefers to charge. `HonestZero` is false of such a ride; the run and the theorem assume `LinesLeaveOnce`.
- `search.py:299`: a refined pass has "every fare the first pass fetched ... served from the quote
  cache". Not the fare of the rest beyond a card's border: it is asked for anew each time
  (`orchestrator.py:289`) and spends the new allowance.
- The sample of departures "keeps both the earliest and the latest" of the window
  (`mcraptor.py:492`), which is not the latest that arrives in time: where the
  bound on the arrival falls inside the window, the last journey in time may be one the cap hides.
- `app.py:418` says the purge never removes what could be served. Stale rows are served at any
  age and deleted at three days (`:420`).
- `db.py:455`: the "last-good inventory" is the last snapshot that had cars (`:454`); an answer
  with no cars leaves no row, and the one before it comes back after a failed restart.
- `gtfs.py:710` says dropping a forbidden transfer before mirroring keeps the veto effective. A
  row in the other direction, a straight line between near stations (`Synthesize`) or the
  closure may allow it again (`:732`).
- At the deadline "some itineraries are shown with incomplete prices": those priced in
  full by then are shown with none (`orchestrator.py:727`).
- A scan "runs on its own `CallBudget`" until a search that starts meanwhile attaches its own.
- A quote made from a memoized response is stamped as fetched now, so a number may be older by
  the memo's lifetime than its row says; `LabelsBoundAge` bounds the sum.
- `app.py:175` says rebuilding adapters would throw their state away. The boot thread and a request
  may both find no orchestrator (`:180`) and the later one wins (`Assembled`).
- The timetables in memory are keyed by the date alone (`app.py:252`), those on disk by the
  feed's age too: a feed fetched while the server runs is not read for dates it holds.
- The split hint prices both halves for an adult (`_price_sub_leg` passes no passenger) and
  compares them with the fare of the actual traveller; and it calls a saving worthwhile
  from 500 öre, the scan from 2000.
- A rental that starts after midnight: the floors are zeroed for what is active on the date searched
  for (`search.py:412`), while the rental prices a leg by the leg's own date (`passes.py:565`). A leg of
  the next day may then be freed and have kept its floor (`DepartsOnTheDay`).
- A region is said to charge rather than wrongly zero (`passes.py:16`). `covers` looks at both ends of a
  ride (`passes.py:259`), or of the rest of one: a line that leaves a region and comes back rides
  free throughout (`LinesLeaveOnce`).
- The status page computes staleness from an age rounded to a tenth of an hour, the catch-up
  from the exact one.

## 4. What is proved

Each theorem is about every value of the constants that satisfies the named assumptions of the
component's module (`IsNetwork` and `IsQuery` for the search; `IsFeed` and `IsLabels`; lifetimes,
prices and fares that are natural numbers; a positive margin of at most one), so for any number of
searches, tasks, cars, cards, trains, feeds, labels or fares, and for every interleaving.

`McRaptorProofs`, for any order of iteration:

- `TypeCorrect`: `Spec => []TypeOK`. `TypeOK` is inductive as it stands. It carries which
  values `work` and `agenda` can hold in each phase, which is what makes it so.
- `FrontiersAreKept`: `Spec => [](BagsAreFrontiers /\ BestCoversRounds)`.
- `GuardsAreSound`: `Spec => []GuardsBoundTarget`.
- `PruningNeverLoses`: `Spec => FrontiersOnlyImprove`.
- `LabelsAreTravelled`: `Spec => []LabelsAreJourneys`, where departures are sorted at every stop
  (`DeparturesSorted`, which overtaking by a trip that dwells may break: section 3.2).

The middle three follow from one inductive invariant, `FrontierInv`: the type invariant,
*bags are frontiers*, *best covers the rounds*, and *the guards bound the target*. The
conjuncts need one another. A bag stays a frontier on insertion only if what it
drops is dominated by what it gets; the current round's bag may be inserted into without
a test of its own because what passed the test of the best bag is not dominated by
anything the best bag covers; and that in turn needs *covers* to survive each insertion.
`ReachKeeps` is the one step common to walking and alighting; `FrontierStep` goes through
the actions. `JourneyInv` adds that each rider on board (`Aboard`) is on a trip that
the label it came with could catch; sortedness is what makes the trip found by the binary
search one that has not left.

`PricingProofs`, for any sets of searches, scans, itineraries, legs and offers, any
ceilings and any number of requests per leg:

- `PricingTypes`: `Spec => []TypeOK`, however the calls overlap. It needs one conjunct
  more than the types, `LegsHaveRequests`: a leg without a quote still has a request to
  make, and only a rail leg waits for an answer.
- With `~ Concurrent`: `PassesWithinAllowance` (`[]WithinAllowance`), `RequestsChargedToOwner`
  (`[]ChargedToOwner`), `NoBudgetLeftBehind` (`[]QuietMeansNoBudget`) and
  `CarsPricedFromSnapshot` (`[]PricedFromOwnSnapshot`).
- `SequentialRefines`: with `~ Concurrent`, `Spec => KeepsAllowances`, the promise of
  `CallAllowance` under the mapping `Open`, `Over`, `sent`.

`~ Concurrent` says that no call starts while another runs: true of the command line,
not of the server, where `pricing_shared_budget` shows what is lost. These
five rest on `SequentialInv` (`SequentialAlways`): at most one call runs (`AtMostOne`); while it does, the
budget attached and the offers loaded are its own (`OwnBudget`, `OwnOffers`); when none
does no budget is attached, so what a scan finds and puts back is no budget
(`NothingSaved`); hence whatever is charged is charged to the sender and refused at its
ceiling (`Ledger`), and a car is looked up among the offers it came from. None of the
properties is inductive alone: a scan that put back a stale budget would break
`QuietMeansNoBudget` one call later and `ChargedToOwner` one request after that.

Also `PricingProofs`, about `QuoteCache`, for any keys, tasks and lifetimes:

- `LabelsAreHonest`: `CacheSpec => []LabelsBoundAge`. Neither cache knows of the other; `CacheInv` says what
  they owe each other: a row took its number from a response that was fresh (`RowsWereFresh`), and the
  memo is from the past.
- `NoRequestTwice`: `CacheSpec => OneRequestPerLifetime`.

`ServerProofs`, for any operators, fares, canaries and restarts:

- `FormIsRoutable`: `Spec => []FormMeansRoutable`, from `WarmUpInv`: what each phase of the boot has
  already made, although a search may have made it first.
- `ViolationsAreExact`: `Spec => []DetectorIsExact`; `DetectorInv` adds that the log only grows.
- `StaleRowsAreProbed`: `Spec => StaleIsProbed`.
- `FloorsStayUnderFares`: `Spec => []FloorsUnderFares`. `FloorsInv` says that the table is what `Calibrated`
  makes of the first `tabled` fares of the log and the floors in use what it makes of the first
  `swapped`; the rest is arithmetic of the margin and the fallbacks, and `FitIsFloor`.
- `FitsAreTight`: `Spec => []FitIsBest`, for any finite clouds of positive distances and fares. The claim
  is about geometry. The hull turns left at each point (`TurnsLeft`); so whatever the stack takes back, and what
  lies between two of its points, is on or above it (`IsHullOf`, kept by `ExtendedStaysBelow`); so each
  edge, extended, is under every fare (`FitIsFloor`); and a line that is under every
  fare and touches two of them is an edge (`TightLineIsEdge`), up to a common factor, which
  does not change its mass (`ProportionalLines`). Hence the choice among edges loses nothing.

Also `ServerProofs`, about `Watcher`, for any watches, cars, overlapping checks and restarts:

- `NoCarAnnouncedTwice`: `WatcherSpec => []AnnouncedOnce`, from `AnnouncedInv`: what was asked of a webhook is in the
  log. It holds because the row is written in the step that starts the request.
- `CarsReachTheLog`: `WatcherSpec => []LiveCarsAreLogged`, where every webhook URL can be asked (`Unusable = {}`;
  `watcher_bad_hook` shows the other case). `LiveCarsAreLogged` is inductive with the types.

`CardsProofs`, for any cards, rentals, journeys and fares:

- `FreedIsRouted`: `Spec => []FreedHaveNoFloor`, where every leg departs on the day searched for
  (`DepartsOnTheDay`), and `FreeWhereValid`: `Spec => []HonestZero`, where a line leaves a region
  once (`LinesLeaveOnce`, about any two calls, so that it speaks of the rest of a leg too). What is
  charged is said hop by hop; where the rest of a leg was itself zeroed by a card, the two stretches
  together run between stops where cards are valid (`ReachedIsAllowed`, `SupportedIsAllowed`). Both hypotheses are where the code stops short of its text (section
  3.2); TLC checks that the instance of the run satisfies them. `CausedInv` says that each quote shown has the
  cause its label names: a card that is held, a rental that was read.
- `RentalsSaveMoney`: `Spec => []RentalOnlyWhenBetter`, and `TripsPayOnce`: `Spec => []TripPaysOnce`. `PricedInv`
  adds that what is shown is what the coupon and the fee make of what was asked, and that the price of a rental
  stands at one leg of its group (`ChargedOnce`); totals are then regrouped by rental.

`TicketsProofs`, for any trains, hubs, fares and limits:

- `TicketsAreOptimal`: `Spec => []TicketsAreCheapest`. `PassIsBest` is the argument of dynamic programming: after
  each turn of `best_chain` every point reached has a chain that no other chain to it beats (`Settled`).
- `ScanIsNoWorse`: `Spec => []ScanBeatsHint`, from `TicketsInv`: a price advised and a price found
  for the same ride are the same entry of the tariff (`HintInv`, `ScanInv`), and the two halves of what was advised are a chain
  of the scan unless a lookup failed or the limit on points left the break out.

`FeedProofs`, for any feeds, dates and settings, and in whatever order rows are read:

- `OffersAreReal`: `Spec => []RidesAreReal`, and `RidesAreKept`: `Spec => []RidesAreOffered`. `FeedInv` says
  that the runs collected are runs of trips that have been read, on a day of their service
  (`RealRuns`), that every run of a trip read is among them (`AllRead`), and that the network is what
  sorting and stripping leaves (`KeptRuns`). The rest is about one trip. Its rows in
  sequence fall into groups, each a stay at a station (`InGroups`); a merged call arrives with the
  first row of its group and departs with the last, so a ride between calls is one between
  rows, and the last row at a station and the first at a later one are those a traveller uses.
  `LeftOvernight` is the same for what is left after midnight; `StripKeeps` says that a run is
  kept or overtakes one that is.
- `FootpathsAreFastest`: `Spec => []FootpathsAreShortest`. The closure goes through the stations as Floyd
  and Warshall do, with a cap. Its invariant is `AsFastAs`: after the rounds of some stations a
  footpath is no slower than any chain by way of these within the cap, and no faster than
  one. A chain by way of one station more has it once, so it is two chains without it (`WayParts`); two
  chains that meet again are shortened to one that visits nothing twice, which takes no longer.
  `FootInv` says, phase by phase, which rows and walks the footpaths account for so far.

`RankingProofs`, for any labels, requests, prices and page sizes:

- `PricedIsShown`: `Spec => []NothingIsWithheld`. The ranking holds each offer once, by its earliest
  arrival, in the order of prices (`CollapsedIs`, `SortedIs`); the page is where it begins. So what is
  priced and not on the page comes after `PageSize` distinct offers that cost no more (`BestWillShow`), and
  a way of travel is on the page or is added (`ModesWillShow`), the fold over the modes never dropping
  anything (`CoveringUnfolds`).
- `LookingAgainLosesNothing`: `Spec => []ShownStaysShown`. What is asked in the end depends on the labels
  and the request alone (`Final`, `WantedStays`), so both passes ask about the same itineraries, and all
  that the first has shown is among them (`Remembered`); what the cache serves is what the first
  pass had (`Served`). The invariant includes the property about one pass, which then says that each of
  these is on the page or the page is full.
- `CallsAreShared`: `Spec => []CallsAreSpread`. Each departure of a shape has a slot (`SlotsAre`) and a depth
  (`DepthsAre`), each once. Sampling keeps the first and the last (`PicksAre`) and leaves as many as there may
  be (`KeptAre`); selection takes whole depths before it begins the next (`SelectedAre`). A shape with two
  calls then has depths 0 and 1, the ends of its day (`TwoOfAShape`), and depths differ by one at
  most (`NoneIsFavoured`). `RoundDivIs` is about Python's `round`, which takes a half to the even neighbour.

`FoldTheorems` holds what `ServerProofs` and the last four need of the community modules and of `Orders`: least and greatest
elements, ranks, sums, folds, and that `Ordered` sorts (`OrderedIsSorted`) whenever the relation is an
order (`IsOrder`), as that of keys is (`KeysOrder`). The library's theorems on induction take the property as a parameter,
which the provers cannot instantiate. Where a fold is about a sum or about one pass over
points, it is unfolded instead: the recursive function is shown to exist
(`SumExists`, `FoldExists`), and induction is over the least number that is a
counterexample (`AllNaturals`).

Model-checked only:

- `ExactFrontier` and `SamplingKeepsEnds`. That the answer holds *every* Pareto journey is about a
  reference that enumerates journeys round by round, and about the potentials, which are computed over
  stops. `LabelsAreTravelled` with `FrontiersAreKept` is the half that needs no reference:
  what is returned is journeys, none dominating another.
- Liveness (`EveryCallEnds`, `EveryLegAnswered`, `CarsGetLogged`, `PollingStarts`,
  `FloorsHeal`): the provers do not reason about fairness and `ENABLED`.

## 5. Plan

What is left to prove is about `McRaptor`:

1. The half of `ExactFrontier` that says nothing returned is outside the reference.
2. The other half: whatever journey there is, the answer dominates it. It needs that a round
   leaves at each stop the frontier of what so many rides reach, which the code only maintains
   for what the guards and the potentials let through; and that potentials are lower bounds.
3. `SamplingKeepsEnds`, for networks where the cap on departures takes effect.

## 6. Not modelled

- `overlay_timetable` and the synthetic trips of cars and flights; the road matrix, which gives
  their distances; the flight client. They turn offers into trips; `McRaptor` has routes with a
  fare per departure and `SharedPricing` has the offers.
- The bounded mode of the search, which the planner never turns on.
- SJ's key and `RateLimiter`: a key dropped too often costs a request, and spacing is real time.
- The coverage cached under `id(timetable)`: object identity of Python.
- Timetables in memory and on disk, beyond *loaded*: a miss means parsing again, and two misses
  parsing twice (into one temporary file; `gtfs.py:616`).
- Requests cancelled by a client that disconnects.
- Parsers, HTTP clients, templates, texts, tables of names, the offline validation report, and the
  commands that print what modelled functions return.
