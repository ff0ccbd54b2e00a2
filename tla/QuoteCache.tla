----------------------------- MODULE QuoteCache -----------------------------
(***************************************************************************)
(* The two caches between a leg and its price: the quote_cache table of    *)
(* db.py, and the responses an adapter memoizes for a day's departures     *)
(* (pricing/flixbus.py search, pricing/tora.py _day_offers).               *)
(*                                                                         *)
(* A task is one run of _quote_leg, or of _price_sub_leg when it probes a  *)
(* split, for one of the Keys: departures of the same day between the same *)
(* places, on the same source, so that one response prices them all.  A    *)
(* number is known by the time at which it left the source.  An action is  *)
(* what a task does between two awaits; time passes between actions.       *)
(***************************************************************************)
EXTENDS Integers, SequencesExt

CONSTANTS
  Keys,        \* cache keys
  Tasks,       \* runs of _quote_leg and _price_sub_leg
  Probing,     \* the tasks that are _price_sub_leg
  TTL,         \* ttl_seconds of a row
  MemoTTL,     \* search_cache_ttl, day_cache_ttl
  FailureTTL,  \* the 60 seconds a failure is remembered
  PurgeAge,    \* the age at which purge_quotes deletes a row
  MaxTime      \* bound of the clock

ASSUME KeyAssumption == Keys # {}
ASSUME TaskAssumption == Probing \subseteq Tasks
ASSUME TimeAssumption ==
  TTL \in Nat /\ MemoTTL \in Nat \ {0} /\ FailureTTL \in Nat /\ PurgeAge \in Nat /\ MaxTime \in Nat

Never == -1
Outcomes == {"exact", "estimated", "unavailable"}

VARIABLES
  clock,
  rows,    \* rows[k]: [conf, at, seen]: confidence, fetched_at, age of the number
  memo,    \* the memoized response: when it came, what it says of each key
  holder,  \* the task that holds the lock of the memo and waits for the source
  queue,   \* the tasks waiting for that lock
  task,    \* task[t]: [state, key]
  answer   \* answer[t]: what the last run of t returned

cacheVars == <<clock, rows, memo, holder, queue, task, answer>>

NoRow == [conf |-> "none", at |-> Never, seen |-> Never]
NoMemo == [at |-> Never, sells |-> [k \in Keys |-> "unavailable"]]
NoTask == "none"
NoAnswer == [label |-> "none", age |-> 0]

CacheInit ==
  /\ clock = 0
  /\ rows = [k \in Keys |-> NoRow]
  /\ memo = NoMemo
  /\ holder = NoTask /\ queue = <<>>
  /\ task = [t \in Tasks |-> [state |-> "idle", key |-> CHOOSE k \in Keys : TRUE]]
  /\ answer = [t \in Tasks |-> NoAnswer]
-----------------------------------------------------------------------------
(***************************************************************************)
(* Database.get_quote: the label under which the row of k is served now.   *)
(***************************************************************************)
(* Mutant of Label: an estimate never goes stale.                          *)
LabelEternal(k) ==
  LET row == rows[k]  age == clock - row.at
  IN IF row.conf = "none" \/ (row.conf = "unavailable" /\ age > FailureTTL) THEN "none"
     ELSE IF row.conf \in {"unavailable", "estimated"} THEN row.conf
     ELSE IF age > TTL THEN "stale" ELSE "cached"

Label(k) ==
  LET row == rows[k]  age == clock - row.at
  IN IF row.conf = "none" \/ (row.conf = "unavailable" /\ age > FailureTTL) THEN "none"
     ELSE IF row.conf = "unavailable" THEN "unavailable"
     ELSE IF age > TTL THEN "stale"
     ELSE IF row.conf = "estimated" THEN "estimated" ELSE "cached"

Priced(label) == label \notin {"none", "unavailable"}

MemoFresh == memo.at # Never /\ clock - memo.at < MemoTTL

AnswerWith(t, label, age) == answer' = [answer EXCEPT ![t] = [label |-> label, age |-> age]]

(* The adapter's quote for a response that came at seen, stamped with the  *)
(* present; put_quote stores it, for a probe only when it has a price.     *)
Deliver(t, k, outcome, seen) ==
  /\ rows' = IF t \in Probing /\ outcome = "unavailable" THEN rows
             ELSE [rows EXCEPT ![k] = [conf |-> outcome, at |-> clock, seen |-> seen]]
  /\ AnswerWith(t, outcome, clock - seen)

(* BudgetExceeded or an exception out of the adapter: a priced row of any  *)
(* age beats no number, except for a probe.                                *)
Fallback(t, k) ==
  /\ IF t \notin Probing /\ Priced(Label(k))
     THEN AnswerWith(t, Label(k), clock - rows[k].seen)
     ELSE AnswerWith(t, "unavailable", 0)
  /\ UNCHANGED rows

Become(t, state, k) == task' = [task EXCEPT ![t] = [state |-> state, key |-> k]]
-----------------------------------------------------------------------------
Serve(t, k) ==
  /\ task[t].state = "idle"
  /\ Label(k) \in {"cached", "estimated"}
  /\ Become(t, "done", k)
  /\ AnswerWith(t, Label(k), clock - rows[k].seen)
  /\ UNCHANGED <<clock, rows, memo, holder, queue>>

(* No fresh row: the adapter is asked, and its memo may know.              *)
FromMemo(t, k) ==
  /\ task[t].state = "idle"
  /\ Label(k) \notin {"cached", "estimated"}
  /\ MemoFresh
  /\ Become(t, "done", k)
  /\ Deliver(t, k, memo.sells[k], memo.at)
  /\ UNCHANGED <<clock, memo, holder, queue>>

LockFree == holder = NoTask /\ queue = <<>>

(* The call budget refuses the request: FlixBus lets the refusal through,  *)
(* Tora makes it a quote that says unavailable.                            *)
Refuse(t, k) ==
  /\ Become(t, "done", k)
  /\ Fallback(t, k) \/ Deliver(t, k, "unavailable", clock)
  /\ UNCHANGED holder

(* The lock is free: the request is sent, or refused.                      *)
Ask(t, k) ==
  /\ task[t].state = "idle"
  /\ Label(k) \notin {"cached", "estimated"}
  /\ ~ MemoFresh /\ LockFree
  /\ \/ /\ Become(t, "asking", k)
        /\ holder' = t
        /\ UNCHANGED <<rows, answer>>
     \/ Refuse(t, k)
  /\ UNCHANGED <<clock, memo, queue>>

Wait(t, k) ==
  /\ task[t].state = "idle"
  /\ Label(k) \notin {"cached", "estimated"}
  /\ ~ MemoFresh /\ ~ LockFree
  /\ Become(t, "waiting", k)
  /\ queue' = Append(queue, t)
  /\ UNCHANGED <<clock, rows, memo, holder, answer>>

(* Mutant of Resume: the memo is not looked at again.                      *)
ResumeBlind(t) ==
  /\ holder = NoTask /\ queue # <<>> /\ t = Head(queue)
  /\ queue' = Tail(queue)
  /\ Become(t, "asking", task[t].key)
  /\ holder' = t
  /\ UNCHANGED <<clock, rows, memo, answer>>

(* The lock is handed over in the order of arrival.  The memo is looked at *)
(* again: the one before may have filled it.                               *)
Resume(t) ==
  LET k == task[t].key
  IN /\ holder = NoTask /\ queue # <<>> /\ t = Head(queue)
     /\ queue' = Tail(queue)
     /\ IF MemoFresh
        THEN Become(t, "done", k) /\ Deliver(t, k, memo.sells[k], memo.at) /\ UNCHANGED holder
        ELSE \/ /\ Become(t, "asking", k)
                /\ holder' = t
                /\ UNCHANGED <<rows, answer>>
             \/ Refuse(t, k)
     /\ UNCHANGED <<clock, memo>>

(* The source answers for the whole day.                                   *)
Respond(t) ==
  /\ task[t].state = "asking"
  /\ Become(t, "done", task[t].key)
  /\ \E sells \in [Keys -> Outcomes] :
       /\ memo' = [at |-> clock, sells |-> sells]
       /\ Deliver(t, task[t].key, sells[task[t].key], clock)
  /\ holder' = NoTask
  /\ UNCHANGED <<clock, queue>>

(* The source is down: the adapter never raises, it returns a quote that   *)
(* says unavailable, and that is stored like any other.                    *)
Fail(t) ==
  LET k == task[t].key
  IN /\ task[t].state = "asking"
     /\ Become(t, "done", k)
     /\ Deliver(t, k, "unavailable", clock)
     /\ holder' = NoTask
     /\ UNCHANGED <<clock, memo, queue>>

(* Mutant of Raise: the exception leaves the lock held.                    *)
RaiseHolding(t) ==
  /\ task[t].state = "asking"
  /\ Become(t, "done", task[t].key)
  /\ Fallback(t, task[t].key)
  /\ UNCHANGED <<clock, memo, holder, queue>>

(* An exception the adapter does not expect.                               *)
Raise(t) ==
  /\ task[t].state = "asking"
  /\ Become(t, "done", task[t].key)
  /\ Fallback(t, task[t].key)
  /\ holder' = NoTask
  /\ UNCHANGED <<clock, memo, queue>>

(* The deadline of phase 2 cancels the task, which lets go of the lock or  *)
(* of its place in the queue.                                              *)
Cancel(t) ==
  /\ \/ /\ task[t].state = "asking"
        /\ holder' = IF holder = t THEN NoTask ELSE holder
        /\ UNCHANGED queue
     \/ /\ task[t].state = "waiting"
        /\ \E i \in DOMAIN queue : queue[i] = t /\ queue' = RemoveAt(queue, i)
        /\ UNCHANGED holder
  /\ Become(t, "done", task[t].key)
  /\ UNCHANGED <<clock, rows, memo, answer>>

(* The task's next run.                                                    *)
Again(t) ==
  /\ task[t].state = "done"
  /\ task' = [task EXCEPT ![t].state = "idle"]
  /\ answer' = [answer EXCEPT ![t] = NoAnswer]
  /\ UNCHANGED <<clock, rows, memo, holder, queue>>

Purge ==
  /\ rows' = [k \in Keys |-> IF rows[k].at < clock - PurgeAge THEN NoRow ELSE rows[k]]
  /\ UNCHANGED <<clock, memo, holder, queue, task, answer>>

Tick ==
  /\ clock < MaxTime
  /\ clock' = clock + 1
  /\ UNCHANGED <<rows, memo, holder, queue, task, answer>>

CacheNext ==
  \/ \E t \in Tasks :
       \/ \E k \in Keys : Serve(t, k) \/ FromMemo(t, k) \/ Ask(t, k) \/ Wait(t, k)
       \/ Resume(t) \/ Respond(t) \/ Fail(t) \/ Raise(t) \/ Cancel(t) \/ Again(t)
  \/ Purge
  \/ Tick

CacheSpec == CacheInit /\ [][CacheNext]_cacheVars

(* The event loop wakes the next waiter of a free lock, and the client's   *)
(* timeout makes every request answer or fail.                             *)
FairCacheSpec ==
  CacheSpec /\ \A t \in Tasks : WF_cacheVars(Resume(t)) /\ WF_cacheVars(Respond(t) \/ Fail(t) \/ Raise(t))
-----------------------------------------------------------------------------
(***************************************************************************)
(* Properties.                                                             *)
(***************************************************************************)

(* How old a number can be under each label, both caches counted: what is  *)
(* called stale is past its lifetime, and what is not is within the        *)
(* lifetimes of the row and of the response it was taken from.             *)
LabelsBoundAge ==
  \A t \in Tasks :
    /\ answer[t].label = "exact" => answer[t].age < MemoTTL
    /\ answer[t].label \in {"cached", "estimated"} => answer[t].age < TTL + MemoTTL
    /\ answer[t].label = "stale" => answer[t].age > TTL

(* "Without this lock they would all miss the memo at once and each send   *)
(* the same search": a request leaves only when no response of this        *)
(* lifetime is known.                                                      *)
OneRequestPerLifetime == [][holder' # holder /\ holder' # NoTask => ~ MemoFresh]_cacheVars

(* A leg that waits, for the lock or for the source, does not wait for     *)
(* ever: it gets its answer, or was cancelled.                             *)
EveryLegAnswered ==
  \A t \in Tasks : task[t].state \in {"waiting", "asking"} ~> task[t].state = "done"
=============================================================================
