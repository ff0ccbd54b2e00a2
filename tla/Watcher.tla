------------------------------- MODULE Watcher -------------------------------
(***************************************************************************)
(* Watches on free cars: watcher.py, the inventory part of api/app.py      *)
(* (refresh_freerider, check_watches, the boot step that runs them first,  *)
(* the poller) and the tables of db.py that outlive the process.           *)
(*                                                                         *)
(* check_watches runs in two places at once: after every refresh, and in   *)
(* the request that creates a watch.  An action is what one of them does   *)
(* between two awaits; the only await of a check is the webhook.  Formulas *)
(* of the whole carry the name of the module, as the process that runs     *)
(* them has others of its own (Server).                                    *)
(***************************************************************************)
EXTENDS Integers, FiniteSets

CONSTANTS
  Cars,        \* routes Hertz may list
  Swedish,     \* those that start and end in Sweden
  Drifting,    \* those whose mileage allowance is not what it should be
  Watches,     \* watches a user may create
  Hooked,      \* those with a webhook
  Unusable,    \* those whose webhook URL no request can be made from
  Route,       \* the pairs of a watch and a car on its route
  MaxCrashes   \* bound of crashes and shutdowns

ASSUME CarAssumption == Swedish \subseteq Cars /\ Drifting \subseteq Cars
ASSUME WatchAssumption ==
  Hooked \subseteq Watches /\ Unusable \subseteq Hooked /\ Route \subseteq Watches \X Cars
ASSUME DownAssumption == MaxCrashes \in Nat

Refresh == "refresh"
Checks == Watches \cup {Refresh}    \* whoever may run check_watches
Nothing == <<"none", "none">>

VARIABLES
  listed,    \* what Hertz lists
  watch,     \* table freerider_watch: absent, active, inactive
  hits,      \* table freerider_hit
  snapshot,  \* table freerider_offer: the last snapshot that has rows
  health,    \* adapter_health of freerider-inventory
  offers,    \* freerider_offers: the inventory in memory
  main,      \* where the boot task or the poller is
  polling,   \* has start_polling been called?
  todo,      \* todo[a]: the pairs the check of a has left
  posting,   \* posting[a]: the hit whose webhook it awaits
  live,      \* history: is the inventory in memory an answer of Hertz?
  posts,     \* history: webhook requests made for a hit
  told,      \* history: hits a webhook has received
  crashes    \* how often the process went down

tables == <<watch, hits, snapshot, health>>
watcherVars == <<listed, tables, offers, main, polling, todo, posting, live, posts, told, crashes>>

Matching(ws, cs) == (ws \X cs) \cap Route
Active == {w \in Watches : watch[w] = "active"}

WatcherInit ==
  /\ listed \in SUBSET Cars
  /\ watch = [w \in Watches |-> "absent"]
  /\ hits = {} /\ snapshot = {} /\ health = "none"
  /\ offers = {} /\ main = "down" /\ polling = FALSE
  /\ todo = [a \in Checks |-> {}]
  /\ posting = [a \in Checks |-> Nothing]
  /\ live = FALSE
  /\ posts = [p \in Route |-> 0] /\ told = {}
  /\ crashes = 0
-----------------------------------------------------------------------------
(***************************************************************************)
(* check_watches.                                                          *)
(***************************************************************************)
(* What the caller of a check does when it returns or raises: the poller   *)
(* swallows what is raised, the boot task gives up.                        *)
Return(a, raised) ==
  IF a # Refresh THEN UNCHANGED main
  ELSE main' = IF polling THEN "sleeping" ELSE IF raised THEN "stopped" ELSE "warming"

(* Mutant of Fresh: a hit is recorded only once it has been announced.     *)
FreshUntold(p) == p \notin told

(* record_hit returns True only the first time.                            *)
Fresh(p) == p \notin hits

(* From the pairs T up to the next webhook, in the order in which the      *)
(* tables and the inventory happen to list them: what is not new, and what *)
(* has no webhook, is recorded on the way.                                 *)
Announce(a, T) ==
  LET calls == {p \in T : Fresh(p) /\ p[1] \in Hooked}
  IN \/ /\ calls = {}
        /\ hits' = hits \cup T
        /\ todo' = [todo EXCEPT ![a] = {}]
        /\ posting' = [posting EXCEPT ![a] = Nothing]
        /\ UNCHANGED posts
        /\ Return(a, FALSE)
     \/ \E p \in calls, quiet \in SUBSET (T \ calls) :
          LET raised == p[1] \in Unusable
          IN /\ hits' = hits \cup quiet \cup {p}
             /\ todo' = [todo EXCEPT ![a] = IF raised THEN {} ELSE T \ (quiet \cup {p})]
             /\ posting' = [posting EXCEPT ![a] = IF raised THEN Nothing ELSE p]
             /\ posts' = IF raised THEN posts ELSE [posts EXCEPT ![p] = @ + 1]
             /\ IF a = Refresh /\ ~ raised THEN main' = "checking" ELSE Return(a, raised)

(* The webhook answers, refuses or times out; nothing is tried again.      *)
Answered(a) ==
  /\ posting[a] # Nothing
  /\ told' \in {told, told \cup {posting[a]}}
  /\ Announce(a, todo[a])
  /\ UNCHANGED <<listed, watch, snapshot, health, offers, polling, live, crashes>>

(* Mutant of CreateWatch: the new watch waits for the next refresh.        *)
CreateWatchLater(w) ==
  /\ main # "down" /\ watch[w] = "absent"
  /\ watch' = [watch EXCEPT ![w] = "active"]
  /\ Announce(w, {})
  /\ UNCHANGED <<listed, snapshot, health, offers, polling, live, told, crashes>>

(* api_watch_create: the check that follows is of every active watch.      *)
CreateWatch(w) ==
  /\ main # "down" /\ watch[w] = "absent"
  /\ watch' = [watch EXCEPT ![w] = "active"]
  /\ Announce(w, Matching(Active \cup {w}, offers))
  /\ UNCHANGED <<listed, snapshot, health, offers, polling, live, told, crashes>>

(* api_watch_delete: a check under way goes on with what it has collected. *)
DeleteWatch(w) ==
  /\ main # "down" /\ watch[w] = "active"
  /\ watch' = [watch EXCEPT ![w] = "inactive"]
  /\ UNCHANGED <<listed, hits, snapshot, health, offers, main, polling, todo, posting,
                 live, posts, told, crashes>>
-----------------------------------------------------------------------------
(***************************************************************************)
(* refresh_freerider, from the boot task and then from the poller.         *)
(***************************************************************************)
AskHertz(from) ==
  /\ main = from
  /\ main' = "asking"
  /\ UNCHANGED <<listed, tables, offers, polling, todo, posting, live, posts, told, crashes>>

Boot == AskHertz("down")
Poll == AskHertz("sleeping")

(* parse_offers and only_within.                                           *)
Kept == listed \cap Swedish

(* The last snapshot once cars are logged, a row for each of them.         *)
Logged(cars) == IF cars = {} THEN snapshot ELSE cars

(* The answer replaces the inventory, is logged and checked.               *)
Refreshed ==
  /\ main = "asking"
  /\ health' = IF Kept \cap Drifting # {} THEN "degraded" ELSE "ok"
  /\ offers' = Kept /\ live' = TRUE
  /\ snapshot' = Logged(Kept)
  /\ Announce(Refresh, Matching(Active, Kept))
  /\ UNCHANGED <<listed, watch, polling, told, crashes>>

(* Mutant of Failed: a failed refresh ends the loop.                       *)
FailedForGood ==
  /\ main = "asking"
  /\ main' = "stopped"
  /\ UNCHANGED <<listed, tables, offers, polling, todo, posting, live, posts, told,
                 crashes>>

(* No answer: the inventory stays, or is the logged one if there is none.  *)
Failed ==
  /\ main = "asking"
  /\ health' = "down"
  /\ offers' = IF offers = {} THEN snapshot ELSE offers
  /\ live' = (live /\ offers' = offers)
  /\ Return(Refresh, FALSE)
  /\ UNCHANGED <<listed, watch, hits, snapshot, polling, todo, posting, posts,
                 told, crashes>>

(* The rest of the boot: warm_sj_key, which raises nothing, start_polling. *)
StartPolling ==
  /\ main = "warming"
  /\ main' = "sleeping" /\ polling' = TRUE
  /\ UNCHANGED <<listed, tables, offers, todo, posting, live, posts, told, crashes>>

(* A crash, or stop(): what is not in a table is lost, and a webhook under *)
(* way may or may not have arrived.                                        *)
GoDown ==
  /\ main # "down" /\ crashes < MaxCrashes
  /\ crashes' = crashes + 1
  /\ main' = "down" /\ polling' = FALSE /\ offers' = {} /\ live' = FALSE
  /\ todo' = [a \in Checks |-> {}]
  /\ posting' = [a \in Checks |-> Nothing]
  /\ \E S \in SUBSET ({posting[a] : a \in Checks} \ {Nothing}) : told' = told \cup S
  /\ UNCHANGED <<listed, tables, posts>>

(* Cars come and go.                                                       *)
Relist ==
  /\ \E c \in Cars : listed' \in {listed \cup {c}, listed \ {c}}
  /\ listed' # listed
  /\ UNCHANGED <<tables, offers, main, polling, todo, posting, live, posts, told, crashes>>

WatcherNext ==
  \/ Boot \/ Poll \/ Refreshed \/ Failed \/ StartPolling \/ GoDown \/ Relist
  \/ \E a \in Checks : Answered(a)
  \/ \E w \in Watches : CreateWatch(w) \/ DeleteWatch(w)

WatcherSpec == WatcherInit /\ [][WatcherNext]_watcherVars

(* The event loop runs what is ready, the operator restarts what is down,  *)
(* a webhook is given ten seconds, and Hertz answers now and then.         *)
WatcherFairness ==
  /\ WF_watcherVars(Boot) /\ WF_watcherVars(Poll) /\ WF_watcherVars(StartPolling)
  /\ \A a \in Checks : WF_watcherVars(Answered(a))
  /\ WF_watcherVars(Refreshed \/ Failed) /\ SF_watcherVars(Refreshed)

FairWatcherSpec == WatcherSpec /\ WatcherFairness
-----------------------------------------------------------------------------
(***************************************************************************)
(* Properties.                                                             *)
(***************************************************************************)

(* "One row per (watch, car) so a car is announced once, not on every      *)
(* poll": whatever checks overlap and whenever the process restarts, no    *)
(* webhook is asked twice for one car.                                     *)
AnnouncedOnce == \A p \in Route : posts[p] <= 1

(* "Always into the hit log": every car of the inventory on the route of   *)
(* an active watch is in the log, or a check still has it to do, however   *)
(* refreshes and new watches overlap.  (A logged inventory that stands in  *)
(* for an answer is not checked.)                                          *)
LiveCarsAreLogged ==
  live => Matching(Active, offers) \subseteq hits \cup UNION {todo[a] : a \in Checks}

(* A car that stays on the route of a watch gets into its log, even if     *)
(* Hertz fails now and then and webhooks do not answer.                    *)
CarsGetLogged ==
  \A p \in Route :
    <>[](polling /\ watch[p[1]] = "active" /\ p[2] \in listed \cap Swedish) => <>(p \in hits)

(* A process that stays up polls, again and again: "notify_webhook never   *)
(* raises", so no watch can end the boot before start_polling, after a     *)
(* restart as little as before it, and no failure ends the loop.           *)
PollingStarts ==
  <>[](main # "down") => <>[]polling /\ []<>(main = "asking")
=============================================================================
