------------------------------- MODULE Tickets -------------------------------
(***************************************************************************)
(* Paying for one train with several tickets.  A search tries one break of *)
(* a leg it shows, at a junction (pricing/split.py, _best_split_hint); the *)
(* scan of a train tries every break it can (pricing/deepsplit.py).        *)
(*                                                                         *)
(* Who pays for the requests is the subject of SharedPricing.  Here the    *)
(* operator sells a ticket between two calls or does not, and its tariff   *)
(* does not change while somebody looks; any lookup may fail.  The         *)
(* traveller is one adult, so both parts ask for the same fares.           *)
(***************************************************************************)
EXTENDS Integers, Sequences, SequencesExt, FiniteSetsExt

CONSTANTS
  Trains,        \* records [scanned, calls]: is it a train of SJ, and where does it call?
  Origins,       \* stops the traveller may start from
  Destinations,
  Hubs,          \* SPLIT_STATIONS
  MaxSplits,     \* MAX_SPLITS_PER_LEG
  Limits,        \* what --max-points may be
  Fares,
  HintSaving     \* _SPLIT_MIN_SAVING_ORE

ASSUME TrainsAssumption == \A t \in Trains : t.calls \in Seq(ToSet(t.calls))
ASSUME FaresAssumption == Fares \subseteq Nat \ {0}
ASSUME LimitsAssumption == Limits \subseteq Nat /\ MaxSplits \in Nat

NotSold == 0
Failed == -1
NoHint == [total |-> 0, at |-> 0]

VARIABLES
  run,        \* the calls from where the traveller boards to where he alights
  maxPoints,
  tariff,     \* what is known of it: fares of pairs of calls, or NotSold
  at,         \* train, hint, scan, done
  probes,     \* the hubs the search still tries
  hint,       \* the best break of the search so far, then the one it shows
  pairs,      \* the pairs the scan has left
  prices,     \* what the scan has found, by the numbers of its points
  failed,     \* did a lookup of the scan fail?
  tickets     \* the answer of the scan: pairs of points

vars == <<run, maxPoints, tariff, at, probes, hint, pairs, prices, failed, tickets>>
-----------------------------------------------------------------------------
(***************************************************************************)
(* The train and its points.                                               *)
(***************************************************************************)
(* direct_runs: from the first call at an origin to the last at a          *)
(* destination.                                                            *)
DirectRuns ==
  LET boards(t) == {i \in DOMAIN t.calls : t.calls[i].stop \in Origins}
      alights(t) == {i \in DOMAIN t.calls : i > Min(boards(t)) /\ t.calls[i].stop \in Destinations}
  IN {SubSeq(t.calls, Min(boards(t)), Max(alights(t))) :
        t \in {u \in Trains : u.scanned /\ boards(u) # {} /\ alights(u) # {}}}

End == Len(run)

Usable == {i \in 2..(End - 1) : run[i].board /\ run[i].alight}

InOrder(S) ==
  [k \in 1..Cardinality(S) |-> CHOOSE i \in S : Cardinality({j \in S : j < i}) = k - 1]

(* choose_points: the ends, and breaks thinned evenly.                     *)
Points ==
  LET usable == InOrder(Usable)
      room == Max({maxPoints - 2, 0})
      kept == IF Len(usable) <= room THEN usable
              ELSE [k \in 1..room |-> usable[((k - 1) * Len(usable)) \div room + 1]]
  IN <<1>> \o kept \o <<End>>

Rides == {p \in (DOMAIN Points) \X (DOMAIN Points) : p[1] < p[2]}

(* _pick_indices: the hubs nearest to the middle of the ride.              *)
HubsToTry ==
  LET inner == {i \in 2..(End - 1) : run[i].stop \in Hubs}
      off(i) == LET d == 2 * i - (End + 1) IN IF d < 0 THEN - d ELSE d
      nearer(i, j) == off(i) < off(j) \/ (off(i) = off(j) /\ i < j)
  IN {i \in inner : Cardinality({j \in inner : nearer(j, i)}) < MaxSplits}
-----------------------------------------------------------------------------
(***************************************************************************)
(* The optimisation.                                                       *)
(***************************************************************************)
Cost(chain) == SumFunction([k \in DOMAIN chain |-> prices[chain[k]]])

(* Mutant of Through: the cheapest last ticket, whatever leads up to it.   *)
ThroughLast(best, i, j) == prices[<<i, j>>]

(* What node j costs when node i is the last break.                        *)
Through(best, i, j) == Cost(best[i].tickets) + prices[<<i, j>>]

(* One more node is settled, as every ticket leads forward; the first of   *)
(* equals is kept.                                                         *)
Settle(best, j) ==
  LET from == {i \in DOMAIN best : best[i].reached /\ <<i, j>> \in DOMAIN prices}
      cost(i) == Through(best, i, j)
      i == Min({k \in from : \A l \in from : cost(k) <= cost(l)})
  IN Append(best, IF from = {} THEN [reached |-> FALSE, tickets |-> <<>>]
                  ELSE [reached |-> TRUE, tickets |-> Append(best[i].tickets, <<i, j>>)])

(* best_chain: one pass over the nodes.                                    *)
BestChain(n) ==
  LET start == <<[reached |-> TRUE, tickets |-> <<>>]>>
  IN FoldLeft(Settle, start, [k \in 1..(n - 1) |-> k + 1])[n].tickets
-----------------------------------------------------------------------------
Init ==
  /\ run \in DirectRuns /\ maxPoints \in Limits
  /\ tariff = << >> /\ at = "train"
  /\ probes = {} /\ hint = NoHint
  /\ pairs = {} /\ prices = << >> /\ failed = FALSE /\ tickets = <<>>

(* What a lookup of a ticket may yield.                                    *)
Outcomes(p) == {Failed} \cup (IF p \in DOMAIN tariff THEN {tariff[p]} ELSE Fares \cup {NotSold})
Sold(o) == o \notin {Failed, NotSold}
Learned(known, p, o) ==
  IF o = Failed \/ p \in DOMAIN known THEN known ELSE [q \in DOMAIN known \cup {p} |->
                                                        IF q = p THEN o ELSE known[q]]

(* A search shows the whole ride with a firm fare: _splittable.            *)
Show ==
  /\ at = "train" /\ tariff = << >> /\ run[1].board /\ run[End].alight
  /\ at' = "hint" /\ probes' = HubsToTry
  /\ \E fare \in Fares : tariff' = Learned(tariff, <<1, End>>, fare)
  /\ UNCHANGED <<run, maxPoints, hint, pairs, prices, failed, tickets>>

(* Both halves of a break, the second only if the first has a fare.        *)
Probe ==
  /\ at = "hint" /\ probes # {}
  /\ LET h == Min(probes)
     IN \E o \in Outcomes(<<1, h>>) :
          LET known == Learned(tariff, <<1, h>>, o)
          IN \/ ~ Sold(o) /\ tariff' = known /\ UNCHANGED hint
             \/ /\ Sold(o)
                /\ \E o2 \in Outcomes(<<h, End>>) :
                     /\ tariff' = Learned(known, <<h, End>>, o2)
                     /\ hint' = IF Sold(o2) /\ (hint = NoHint \/ o + o2 < hint.total)
                                THEN [total |-> o + o2, at |-> h] ELSE hint
  /\ probes' = probes \ {Min(probes)}
  /\ UNCHANGED <<run, maxPoints, at, pairs, prices, failed, tickets>>

(* A break that saves too little is not mentioned.                         *)
Advise ==
  /\ at = "hint" /\ probes = {} /\ at' = "train"
  /\ hint' = IF hint # NoHint /\ tariff[<<1, End>>] - hint.total < HintSaving THEN NoHint
             ELSE hint
  /\ UNCHANGED <<run, maxPoints, tariff, probes, pairs, prices, failed, tickets>>

(* Mutant of MayBeSold: the restrictions of the two calls are mixed up.    *)
MayBeSoldMixed(i, j) == run[i].alight /\ run[j].board
MayBeSold(i, j) == run[i].board /\ run[j].alight

(* scan_train: the pairs of points.                                        *)
Scan ==
  /\ at = "train" /\ at' = "scan"
  /\ pairs' = {p \in Rides : MayBeSold(Points[p[1]], Points[p[2]])}
  /\ UNCHANGED <<run, maxPoints, tariff, probes, hint, prices, failed, tickets>>

(* One pair, the first of those that are left; a lookup that fails, a      *)
(* refused request for instance, does not end the scan.                    *)
Ask(p) ==
  /\ at = "scan" /\ p \in pairs
  /\ \A q \in pairs : p[1] < q[1] \/ (p[1] = q[1] /\ p[2] <= q[2])
  /\ LET ride == <<Points[p[1]], Points[p[2]]>>
     IN \E o \in Outcomes(ride) :
          /\ tariff' = Learned(tariff, ride, o)
          /\ prices' = IF Sold(o) THEN Learned(prices, p, o) ELSE prices
          /\ failed' = (failed \/ o = Failed)
  /\ pairs' = pairs \ {p}
  /\ UNCHANGED <<run, maxPoints, at, probes, hint, tickets>>

Solve ==
  /\ at = "scan" /\ pairs = {} /\ at' = "done"
  /\ tickets' = BestChain(Len(Points))
  /\ UNCHANGED <<run, maxPoints, tariff, probes, hint, pairs, prices, failed>>

Next ==
  \/ Show \/ Probe \/ Advise \/ Scan \/ Solve
  \/ \E p \in Rides : Ask(p)

Spec == Init /\ [][Next]_vars
-----------------------------------------------------------------------------
(***************************************************************************)
(* Properties.                                                             *)
(***************************************************************************)

(* All ways to cover the train with tickets the scan has found.            *)
Leads(chain, j) ==
  /\ chain[1][1] = 1 /\ chain[Len(chain)][2] = j
  /\ \A k \in 1..(Len(chain) - 1) : chain[k][2] = chain[k + 1][1]
Chains ==
  LET n == Len(Points)
  IN {c \in SeqOf(DOMAIN prices, n - 1) : c # <<>> /\ Leads(c, n)}

(* "The true optimum over every number of breaks": the tickets cover the   *)
(* train, each from a call where passengers may board to one where they    *)
(* may alight, and no tickets that were found do so for less; there are    *)
(* none only if no tickets do.                                             *)
TicketsAreCheapest ==
  at = "done" =>
    IF Chains = {} THEN tickets = <<>>
    ELSE /\ tickets \in Chains /\ \A c \in Chains : Cost(tickets) <= Cost(c)
         /\ \A t \in ToSet(tickets) : run[Points[t[1]]].board /\ run[Points[t[2]]].alight

(* The expensive question is answered no worse than the cheap one: if the  *)
(* search has advised a break and the scan covers it, unless a lookup of   *)
(* the scan failed, it finds tickets that cost no more.                    *)
ScanBeatsHint ==
  at = "done" /\ hint # NoHint /\ ~ failed /\ hint.at \in ToSet(Points) =>
    tickets # <<>> /\ Cost(tickets) <= hint.total
=============================================================================
