---------------------------- MODULE SharedPricing ----------------------------
(***************************************************************************)
(* Phase 2 of a search, pricing/orchestrator.py price, with everything     *)
(* that runs on the same adapters at the same time: the split-ticket pass  *)
(* that follows it and the train scan of pricing/deepsplit.py.             *)
(*                                                                         *)
(* All calls share one event loop and one set of adapters.  An action is   *)
(* what a coroutine does between two awaits.  The adapters keep, for       *)
(* everyone, the budget a request is charged to and the offers that were   *)
(* loaded last: one source that answers over HTTP ("rail") and one that    *)
(* answers from the loaded offers ("car") stand for all of them.           *)
(***************************************************************************)
EXTENDS Integers, FiniteSets

CONSTANTS
  Searches,        \* calls of Planner.search
  Scans,           \* calls of scan_train
  Itineraries,     \* the candidates each search prices
  Legs,            \* their legs: records [itin, kind]
  Requests,        \* requests a rail leg takes one after the other
  Limit,           \* Limit[s]: max_calls_per_source_per_search, doubled by refine
  ScanLimit,       \* max_calls of a scan
  Probes,          \* the most a split pass or a scan asks for
  Cars,            \* offers of the car source
  Snapshot,        \* Snapshot[s]: the offers search s was routed with
  CarOf,           \* CarOf[s]: the offer the car legs of s ride
  SamePlaces,      \* pairs of offers between the same two stations
  Concurrent       \* does a call start while another is running?

ASSUME CallAssumption == Searches \cap Scans = {}
ASSUME LegAssumption == Legs \subseteq [itin : Itineraries, kind : {"rail", "car"}]
ASSUME BoundAssumption ==
  /\ Requests \in Nat \ {0} /\ Limit \in [Searches -> Nat]
  /\ ScanLimit \in Nat /\ Probes \in Nat
ASSUME OfferAssumption ==
  /\ Snapshot \in [Searches -> SUBSET Cars]
  /\ CarOf \in [Searches -> Cars]
  /\ \A s \in Searches : CarOf[s] \in Snapshot[s]
  /\ SamePlaces \subseteq Cars \X Cars
ASSUME ConcurrentAssumption == Concurrent \in BOOLEAN

Calls == Searches \cup Scans

(* A pass is what a CallBudget is made for.                                *)
Pass(c, kind) == [call |-> c, kind |-> kind]
Passes == [call : Searches, kind : {"price", "split"}] \cup [call : Scans, kind : {"scan"}]
NoBudget == [call |-> "none", kind |-> "none"]
LimitOf(p) == IF p.kind = "scan" THEN ScanLimit ELSE Limit[p.call]

NoSearch == "none"
NoCar == "none"

ASSUME NameAssumption == NoSearch \notin Searches /\ NoCar \notin Cars
-----------------------------------------------------------------------------
VARIABLES
  stage,    \* where each call is: idle, price, split, scan, done
  attached, \* _budget of the shared adapters
  saved,    \* previous_budget of each scan
  used,     \* used[p]: what has been charged to the budget of p
  sent,     \* sent[p]: the requests that left on behalf of p
  bound,    \* the search whose offers were loaded last
  leg,      \* leg[s][l]: where the quote of leg l is
  left,     \* left[s][l]: requests the leg still has to make
  car,      \* car[s][l]: the offer leg l was priced by
  warned,   \* warned[s]: itineraries told that their car is gone
  closed,   \* closed[s]: itineraries whose quotes have all come in
  result,   \* result[s]: itineraries shown with a full price
  probes,   \* probes[c]: quotes the pass still asks for
  asking    \* calls whose pass waits for an answer

quotes == <<leg, left, car, warned, closed, result>>
passing == <<probes, asking, saved>>
vars == <<stage, attached, saved, used, sent, bound, leg, left, car, warned,
          closed, result, probes, asking>>

Init ==
  /\ stage = [c \in Calls |-> "idle"]
  /\ attached = NoBudget
  /\ saved = [c \in Scans |-> NoBudget]
  /\ used = [p \in Passes |-> 0]
  /\ sent = [p \in Passes |-> 0]
  /\ bound = NoSearch
  /\ leg = [s \in Searches |-> [l \in Legs |-> "ready"]]
  /\ left = [s \in Searches |-> [l \in Legs |-> Requests]]
  /\ car = [s \in Searches |-> [l \in Legs |-> NoCar]]
  /\ warned = [s \in Searches |-> {}]
  /\ closed = [s \in Searches |-> {}]
  /\ result = [s \in Searches |-> {}]
  /\ probes = [c \in Calls |-> 0]
  /\ asking = {}

Running == {c \in Calls : stage[c] \notin {"idle", "done"}}
MayStart(c) == stage[c] = "idle" /\ (Concurrent \/ Running = {})
-----------------------------------------------------------------------------
(***************************************************************************)
(* Requests.  get_json charges whatever budget is attached and then waits, *)
(* for the rate limiter and for the answer: from there on it counts as     *)
(* sent.                                                                   *)
(***************************************************************************)
(* Mutant of Refused: one request too many.                                *)
RefusedLate == attached # NoBudget /\ used[attached] > LimitOf(attached)

Refused == attached # NoBudget /\ used[attached] >= LimitOf(attached)

Send(p) ==
  /\ ~ Refused
  /\ used' = IF attached = NoBudget THEN used ELSE [used EXCEPT ![attached] = @ + 1]
  /\ sent' = [sent EXCEPT ![p] = @ + 1]

(* Mutant of StartSearch: the offers are loaded once per process.          *)
StartSearchLoaded(s) ==
  /\ MayStart(s)
  /\ stage' = [stage EXCEPT ![s] = "price"]
  /\ bound' = IF bound = NoSearch THEN s ELSE bound
  /\ attached' = Pass(s, "price")
  /\ UNCHANGED <<used, sent, quotes, passing>>

(* The adapters are loaded with this search's offers, its budget is        *)
(* attached, and one task per leg is created: no await in between.         *)
StartSearch(s) ==
  /\ MayStart(s)
  /\ stage' = [stage EXCEPT ![s] = "price"]
  /\ bound' = s
  /\ attached' = Pass(s, "price")
  /\ UNCHANGED <<used, sent, quotes, passing>>

(* A quote within its lifetime comes from the cache.                       *)
CacheHit(s, l) ==
  /\ stage[s] = "price" /\ leg[s][l] = "ready"
  /\ leg' = [leg EXCEPT ![s][l] = "priced"]
  /\ UNCHANGED <<stage, attached, used, sent, bound, left, car, warned, closed,
                 result, passing>>

AskLeg(s, l) ==
  /\ stage[s] = "price" /\ leg[s][l] = "ready" /\ l.kind = "rail"
  /\ Send(Pass(s, "price"))
  /\ leg' = [leg EXCEPT ![s][l] = "asking"]
  /\ UNCHANGED <<stage, attached, bound, left, car, warned, closed, result, passing>>

(* BudgetExceeded: a priced cache entry of any age, or no price.           *)
RefuseLeg(s, l) ==
  /\ stage[s] = "price" /\ leg[s][l] = "ready" /\ l.kind = "rail"
  /\ Refused
  /\ \E outcome \in {"priced", "unpriced"} : leg' = [leg EXCEPT ![s][l] = outcome]
  /\ UNCHANGED <<stage, attached, used, sent, bound, left, car, warned, closed,
                 result, passing>>

(* Mutant of Answer: the deadline does not cancel what is in flight.       *)
AnswerUncancelled(s, l) ==
  /\ stage[s] # "idle" /\ leg[s][l] = "asking"
  /\ left' = [left EXCEPT ![s][l] = @ - 1]
  /\ IF left[s][l] > 1
     THEN Send(Pass(s, "price")) /\ UNCHANGED leg
     ELSE leg' = [leg EXCEPT ![s][l] = "priced"] /\ UNCHANGED <<used, sent>>
  /\ UNCHANGED <<stage, attached, bound, car, warned, closed, result, passing>>

(* An answer.  The adapter goes on to its next request, which is charged   *)
(* like the first, or has its quote.                                       *)
Answer(s, l) ==
  /\ stage[s] = "price" /\ leg[s][l] = "asking"
  /\ left' = [left EXCEPT ![s][l] = @ - 1]
  /\ \/ \E outcome \in {"priced", "unpriced"} :
          /\ left[s][l] = 1 \/ outcome = "unpriced" \/ Refused
          /\ leg' = [leg EXCEPT ![s][l] = outcome]
          /\ UNCHANGED <<used, sent>>
     \/ /\ left[s][l] > 1
        /\ Send(Pass(s, "price"))
        /\ UNCHANGED leg
  /\ UNCHANGED <<stage, attached, bound, car, warned, closed, result, passing>>

(* FreeriderAdapter looks the offer up among those loaded: by its route,   *)
(* else any between the same stations.                                     *)
Matches(s) ==
  IF CarOf[s] \in Snapshot[bound] THEN {CarOf[s]}
  ELSE {o \in Snapshot[bound] : <<o, CarOf[s]>> \in SamePlaces}

PriceCar(s, l) ==
  /\ stage[s] = "price" /\ leg[s][l] = "ready" /\ l.kind = "car"
  /\ IF Matches(s) = {}
     THEN /\ leg' = [leg EXCEPT ![s][l] = "unpriced"]
          /\ UNCHANGED car
     ELSE /\ leg' = [leg EXCEPT ![s][l] = "priced"]
          /\ \E o \in Matches(s) : car' = [car EXCEPT ![s][l] = o]
  /\ UNCHANGED <<stage, attached, used, sent, bound, left, warned, closed,
                 result, passing>>

(* The last quote of an itinerary is in; its warnings look the car up once *)
(* more.                                                                   *)
CloseItinerary(s, i) ==
  LET mine == {l \in Legs : l.itin = i}
  IN /\ stage[s] = "price" /\ i \notin closed[s]
     /\ \A l \in mine : leg[s][l] \in {"priced", "unpriced"}
     /\ closed' = [closed EXCEPT ![s] = @ \cup {i}]
     /\ warned' = IF (\E l \in mine : l.kind = "car") /\ Matches(s) = {}
                  THEN [warned EXCEPT ![s] = @ \cup {i}] ELSE warned
     /\ UNCHANGED <<stage, attached, used, sent, bound, leg, left, car, result, passing>>

FullyPriced(s) == {i \in closed[s] : \A l \in Legs : l.itin = i => leg[s][l] = "priced"}

(* _splittable, of the legs that are shown: with no itinerary fully priced *)
(* (require_priced is the default) those with unpriced legs are.           *)
Splittable(s) ==
  {l \in Legs : /\ l.kind = "rail" /\ leg[s][l] = "priced"
                /\ FullyPriced(s) = {} \/ l.itin \in FullyPriced(s)}

(* Every itinerary is priced: the budget is taken off, the result ranked,  *)
(* and the split pass attaches its own; with nothing to split it detaches  *)
(* it again at once.                                                       *)
FinishPricing(s) ==
  /\ stage[s] = "price" /\ closed[s] = Itineraries
  /\ result' = [result EXCEPT ![s] = FullyPriced(s)]
  /\ \E n \in 0..Probes :
       /\ Splittable(s) = {} => n = 0
       /\ probes' = [probes EXCEPT ![s] = n]
       /\ stage' = [stage EXCEPT ![s] = IF n = 0 THEN "done" ELSE "split"]
       /\ attached' = IF n = 0 THEN NoBudget ELSE Pass(s, "split")
  /\ UNCHANGED <<used, sent, bound, leg, left, car, warned, closed, asking, saved>>

(* Mutant of Expire: the early exit forgets to take the budget off.        *)
ExpireAttached(s) ==
  /\ stage[s] = "price"
  /\ stage' = [stage EXCEPT ![s] = "done"]
  /\ result' = [result EXCEPT ![s] = {}]
  /\ UNCHANGED <<attached, used, sent, bound, leg, left, car, warned, closed, passing>>

(* The deadline of phase 2 passes: the tasks are cancelled and the         *)
(* candidates are shown as they came, without their quotes.                *)
Expire(s) ==
  /\ stage[s] = "price"
  /\ stage' = [stage EXCEPT ![s] = "done"]
  /\ attached' = NoBudget
  /\ result' = [result EXCEPT ![s] = {}]
  /\ UNCHANGED <<used, sent, bound, leg, left, car, warned, closed, passing>>
-----------------------------------------------------------------------------
(***************************************************************************)
(* The passes that ask one quote at a time.                                *)
(***************************************************************************)
(* Mutant of StartScan: the scan attaches no budget of its own.            *)
StartScanBare(c) ==
  /\ MayStart(c)
  /\ stage' = [stage EXCEPT ![c] = "scan"]
  /\ saved' = [saved EXCEPT ![c] = attached]
  /\ \E n \in 1..Probes : probes' = [probes EXCEPT ![c] = n]
  /\ UNCHANGED <<attached, used, sent, bound, quotes, asking>>

StartScan(c) ==
  /\ MayStart(c)
  /\ stage' = [stage EXCEPT ![c] = "scan"]
  /\ saved' = [saved EXCEPT ![c] = attached]
  /\ attached' = Pass(c, "scan")
  /\ \E n \in 1..Probes : probes' = [probes EXCEPT ![c] = n]
  /\ UNCHANGED <<used, sent, bound, quotes, asking>>

InPass(c) == stage[c] \in {"split", "scan"}

AskProbe(c) ==
  /\ InPass(c) /\ c \notin asking /\ probes[c] > 0
  /\ Send(Pass(c, stage[c]))
  /\ asking' = asking \cup {c}
  /\ UNCHANGED <<stage, attached, bound, quotes, probes, saved>>

(* Mutant of SkipProbe: a refused probe is tried again.                    *)
SkipProbeAgain(c) ==
  /\ InPass(c) /\ c \notin asking /\ probes[c] > 0
  /\ Refused
  /\ UNCHANGED vars

(* A refused or failed probe, or one the cache answers, is passed over.    *)
SkipProbe(c) ==
  /\ InPass(c) /\ c \notin asking /\ probes[c] > 0
  /\ Refused \/ stage[c] = "split"
  /\ probes' = [probes EXCEPT ![c] = @ - 1]
  /\ UNCHANGED <<stage, attached, used, sent, bound, quotes, asking, saved>>

(* Mutant of AnswerProbe: the pass does not stop waiting.                  *)
AnswerProbeWaiting(c) ==
  /\ c \in asking
  /\ probes' = [probes EXCEPT ![c] = @ - 1]
  /\ UNCHANGED <<stage, attached, used, sent, bound, quotes, asking, saved>>

AnswerProbe(c) ==
  /\ c \in asking
  /\ asking' = asking \ {c}
  /\ probes' = [probes EXCEPT ![c] = @ - 1]
  /\ UNCHANGED <<stage, attached, used, sent, bound, quotes, saved>>

(* A split pass detaches its budget; a scan puts back what it found.       *)
EndPass(c) ==
  /\ InPass(c) /\ c \notin asking /\ probes[c] = 0
  /\ stage' = [stage EXCEPT ![c] = "done"]
  /\ attached' = IF stage[c] = "split" THEN NoBudget ELSE saved[c]
  /\ UNCHANGED <<used, sent, bound, quotes, passing>>

Finished == Running = {} /\ (\A c \in Calls : stage[c] = "done") /\ UNCHANGED vars

(* What a call that has started does.                                      *)
Proceed ==
  \/ \E s \in Searches :
       \/ \E l \in Legs : \/ CacheHit(s, l) \/ AskLeg(s, l) \/ RefuseLeg(s, l)
                          \/ Answer(s, l) \/ PriceCar(s, l)
       \/ \E i \in Itineraries : CloseItinerary(s, i)
       \/ FinishPricing(s)
       \/ Expire(s)
  \/ \E c \in Calls : AskProbe(c) \/ SkipProbe(c) \/ AnswerProbe(c) \/ EndPass(c)

Next ==
  \/ \E s \in Searches : StartSearch(s)
  \/ \E c \in Scans : StartScan(c)
  \/ Proceed
  \/ Finished

Spec == Init /\ [][Next]_vars

(* The event loop runs every ready task, and a request is answered or      *)
(* fails within the client's timeout.  Nobody has to start a call.         *)
FairSpec == Spec /\ WF_vars(Proceed)
-----------------------------------------------------------------------------
(***************************************************************************)
(* Properties.                                                             *)
(***************************************************************************)

(* Every variable stays within its type; only a call that has started has  *)
(* anything going on.                                                      *)
TypeOK ==
  /\ stage \in [Calls -> {"idle", "price", "split", "scan", "done"}]
  /\ \A c \in Calls : stage[c] = "scan" => c \in Scans
  /\ \A c \in Calls : stage[c] \in {"price", "split"} => c \in Searches
  /\ attached \in Passes \cup {NoBudget}
  /\ saved \in [Scans -> Passes \cup {NoBudget}]
  /\ used \in [Passes -> Nat] /\ sent \in [Passes -> Nat]
  /\ bound \in Searches \cup {NoSearch}
  /\ \A s \in Searches : stage[s] # "idle" => bound # NoSearch
  /\ leg \in [Searches -> [Legs -> {"ready", "asking", "priced", "unpriced"}]]
  /\ left \in [Searches -> [Legs -> 0..Requests]]
  /\ car \in [Searches -> [Legs -> Cars \cup {NoCar}]]
  /\ warned \in [Searches -> SUBSET Itineraries]
  /\ closed \in [Searches -> SUBSET Itineraries]
  /\ result \in [Searches -> SUBSET Itineraries]
  /\ probes \in [Calls -> 0..Probes]
  /\ asking \subseteq {c \in Calls : InPass(c) /\ probes[c] > 0}

(* "A per-search call budget mean one user query cannot fan out into a     *)
(* hundred requests": no pass sends more requests than its own ceiling.    *)
WithinAllowance == \A p \in Passes : sent[p] <= LimitOf(p)

(* Every request is charged to the budget of the pass that sent it:        *)
(* calls_made is what the search really spent, and no one runs out because *)
(* of somebody else.                                                       *)
ChargedToOwner == \A p \in Passes : used[p] = sent[p]

(* When nothing runs no budget is left on the adapters, for a canary or    *)
(* the next scan to be refused by.                                         *)
QuietMeansNoBudget == Running = {} => attached = NoBudget

(* "Prices Freerider legs from the in-memory offer snapshot the router was *)
(* built with": the offer a search was routed over is there when it is     *)
(* priced and when its warnings are written.                               *)
PricedFromOwnSnapshot ==
  \A s \in Searches :
    /\ warned[s] = {}
    /\ \A l \in Legs : l.kind = "car" =>
         leg[s][l] # "unpriced" /\ car[s][l] \in {NoCar, CarOf[s]}

(* The calls keep the promise of CallBudget.  A split pass that was not    *)
(* needed counts as over with the search it would have followed.           *)
Open == {p \in Passes : stage[p.call] = p.kind}
Over == {p \in Passes :
           stage[p.call] = "done" \/ (stage[p.call] = "split" /\ p.kind = "price")}
Allowances ==
  INSTANCE CallAllowance WITH Allowance <- [p \in Passes |-> LimitOf(p)],
                              open <- Open, over <- Over, spent <- sent
KeepsAllowances == Allowances!Spec

(* Every call that starts ends, whatever the others do to its budget.      *)
EveryCallEnds == \A c \in Calls : stage[c] # "idle" ~> stage[c] = "done"
=============================================================================
