------------------------------- MODULE Ranking -------------------------------
(***************************************************************************)
(* What happens to the labels of a search: they become itineraries         *)
(* (routing/journey.py), the promising ones are chosen and priced, and the *)
(* priced ones are ranked and cut down to a page (pricing/orchestrator.py  *)
(* and Planner.search).  A second, refined pass may follow on a larger     *)
(* allowance of calls.                                                     *)
(*                                                                         *)
(* What a call to a price source answers, and which calls the allowance    *)
(* still lets through, is the subject of SharedPricing and QuoteCache:     *)
(* here each itinerary gets any price or none.  Of the fares of the first  *)
(* pass the second finds in the quote cache those that are neither stale,  *)
(* nor expired since, nor the rest beyond a card's border, which is never  *)
(* stored; all others are asked again.  What is on sale and the floors are *)
(* those of the first pass.                                                *)
(***************************************************************************)
EXTENDS Orders, SequencesExt, FiniteSetsExt

CONSTANTS
  LabelLists,    \* the labels a search may return, in order
  Constraints,   \* what a traveller may ask for
  Totals,        \* what an itinerary may cost
  Ranks,         \* how firm a price may be, by _CONFIDENCE_RANK
  PerShape,      \* max_departures_per_pattern
  ToPrice,       \* max_candidates_to_price
  PageSize,      \* max_results of the first and of the refined pass
  TravelModes    \* _TRAVEL_MODES, in order

IsSequence(s) == Len(s) \in Nat /\ s = [i \in 1..Len(s) |-> s[i]]

(* A label is what the router found.  Its shape names the mode of each     *)
(* vehicle (pattern_key), so labels of one shape have the same modes.      *)
IsLabels(ls) ==
  /\ IsSequence(ls)
  /\ \A i \in 1..Len(ls) :
       {ls[i].start, ls[i].walk, ls[i].board, ls[i].arrival, ls[i].floor, ls[i].transfers} \subseteq Int
  /\ \A i, j \in 1..Len(ls) : ls[i].shape = ls[j].shape => ls[i].modes = ls[j].modes

ASSUME LabelsAssumption == \A ls \in LabelLists : IsLabels(ls)
ASSUME PriceAssumption == Totals \subseteq Nat
ASSUME RankAssumption == Ranks \subseteq 0..3 /\ 1 \in Ranks
ASSUME PageAssumption == \A p \in 1..2 : PageSize[p] \in Nat \ {0}
ASSUME ModesAssumption == IsSequence(TravelModes)
ASSUME SampleAssumption == PerShape \in Nat /\ PerShape >= 2 /\ ToPrice \in Nat \ {0}

Unpriced == [priced |-> FALSE, total |-> 0, rank |-> 4]
Quotes == {Unpriced} \cup [priced : {TRUE}, total : Totals, rank : Ranks]

VARIABLES
  labels,     \* the labels of the search
  asked,      \* the constraints of the request
  pass,       \* 1, and 2 when refined
  at,         \* route, permit, sample, price, rank, done
  list,       \* candidates, then feasible, then to_price
  quotes,     \* the price of each itinerary that is priced, by its id
  served,     \* what the quote cache answered, by the ids it answered for
  timedOut,   \* phase2_timeout_seconds ran out
  shown,      \* the itineraries of the answer, for each pass
  hidden      \* hidden_options, for each pass

vars == <<labels, asked, pass, at, list, quotes, served, timedOut, shown, hidden>>

Init ==
  /\ labels \in LabelLists /\ asked \in Constraints
  /\ pass = 1 /\ at = "route" /\ list = <<>> /\ timedOut = FALSE
  /\ quotes = << >> /\ served = << >>
  /\ shown = [p \in 1..2 |-> <<>>] /\ hidden = [p \in 1..2 |-> 0]
-----------------------------------------------------------------------------
(***************************************************************************)
(* Sequences by what their elements have in common.                        *)
(***************************************************************************)
(* [x for x in seq if P(x)], and sorted(seq, key=Key).                     *)
Where(seq, P(_)) == AtPlaces(seq, {i \in DOMAIN seq : P(seq[i])})
SortedBy(seq, Key(_)) == Arranged(seq, DOMAIN seq, [i \in DOMAIN seq |-> Key(seq[i])])

(* The places of the same shape, and those of them that depart before.     *)
Group(seq, i) == {j \in DOMAIN seq : seq[j].shape = seq[i].shape}
Earlier(seq, i) ==
  {j \in Group(seq, i) : <<j, i>> \in ByKey([k \in DOMAIN seq |-> <<seq[k].departure>>])}
-----------------------------------------------------------------------------
(***************************************************************************)
(* From labels to itineraries.                                             *)
(***************************************************************************)
(* _tighten_leading_walks: the walk to the first vehicle starts so that it *)
(* ends at its departure, but not before the traveller may set out.        *)
Tightened(l) == IF l.walk = 0 THEN l.board ELSE Max({l.start, l.board - l.walk})

Itinerary(l, id) ==
  [id |-> id, shape |-> l.shape, vehicles |-> l.vehicles, modes |-> l.modes,
   departure |-> Tightened(l), arrival |-> l.arrival, floor |-> l.floor,
   transfers |-> l.transfers, priceable |-> l.priceable]

Vehicles(x) == <<x.shape, x.vehicles>>

(* dedupe_itineraries: the first of those that ride the same vehicles.     *)
Candidates ==
  LET all == [i \in DOMAIN labels |-> Itinerary(labels[i], i)]
  IN AtPlaces(all, {i \in DOMAIN all : \A j \in 1..(i - 1) : Vehicles(all[j]) # Vehicles(all[i])})

Permits(x) ==
  /\ x.departure >= asked.departAt /\ x.arrival <= asked.latest
  /\ x.arrival - x.departure <= asked.maxDuration
  /\ x.transfers <= asked.maxTransfers
  /\ x.modes \subseteq asked.modes

(* With require_priced, shapes no source can price are left out, unless    *)
(* there are no others.                                                    *)
Priceable(seq) ==
  LET ready == Where(seq, LAMBDA x : x.priceable)
  IN IF asked.requirePriced /\ ready # <<>> THEN ready ELSE seq

(* round(a / b): a half goes to the even neighbour.                        *)
RoundDiv(a, b) ==
  LET low == a \div b
      rest == 2 * (a % b)
  IN IF rest > b \/ (rest = b /\ low % 2 = 1) THEN low + 1 ELSE low

(* Which of n departures are sampled, evenly from the first to the last.   *)
Picks(n) == {RoundDiv(i * (n - 1), PerShape - 1) : i \in 0..(PerShape - 1)}

(* spread_by_departure: shape by shape, a sample of each that has too many.*)
Spread(seq) ==
  LET kept == {i \in DOMAIN seq :
                 \/ Cardinality(Group(seq, i)) <= PerShape
                 \/ Cardinality(Earlier(seq, i)) \in Picks(Cardinality(Group(seq, i)))}
  IN Arranged(seq, kept, [i \in DOMAIN seq |-> <<Min(Group(seq, i)), seq[i].departure>>])

FloorKey(x) == <<x.floor, x.arrival, x.transfers>>

(* Mutant of Depth: departures are tried from the head of the day.         *)
DepthFromHead(seq, i) == Cardinality(Earlier(seq, i))

(* _extremes_first: earliest, latest, then inward.                         *)
Depth(seq, i) ==
  LET n == Cardinality(Group(seq, i))
      r == Cardinality(Earlier(seq, i))
  IN IF 2 * r < n THEN 2 * r ELSE 2 * (n - 1 - r) + 1

(* _select_to_price: one of each shape in turn, cheap floors first.        *)
Selected(seq) ==
  LET floors == [i \in DOMAIN seq |-> FloorKey(seq[i])]
      cheapest(i) == Head(Arranged(seq, Group(seq, i), floors))
      turns == [i \in DOMAIN seq |->
                  <<Depth(seq, i), cheapest(i).floor, cheapest(i).arrival,
                    cheapest(i).transfers, Min(Group(seq, i))>>]
  IN IF Len(seq) <= ToPrice THEN Arranged(seq, DOMAIN seq, floors)
     ELSE SubSeq(Arranged(seq, DOMAIN seq, turns), 1, ToPrice)
-----------------------------------------------------------------------------
(***************************************************************************)
(* From prices to the page.                                                *)
(***************************************************************************)
QuoteOf(x) == IF timedOut THEN Unpriced ELSE quotes[x.id]

(* collapse_equivalent: of one shape at one price, the earliest to arrive. *)
Offer(x) == <<x.shape, QuoteOf(x).priced, QuoteOf(x).total>>
SameOffer(seq, i) == {j \in DOMAIN seq : Offer(seq[j]) = Offer(seq[i])}
Collapsed(seq) ==
  LET arrivals == [i \in DOMAIN seq |-> <<seq[i].arrival>>]
      best == {i \in DOMAIN seq : \A j \in SameOffer(seq, i) : <<j, i>> \notin ByKey(arrivals)}
  IN Arranged(seq, best, [i \in DOMAIN seq |-> <<Min(SameOffer(seq, i))>>])

(* Mutant of PriceKey: a missing price counts as nothing.                  *)
PriceKeyHole(x) ==
  <<QuoteOf(x).total, QuoteOf(x).rank, x.arrival - x.departure, x.transfers>>

PriceKey(x) ==
  <<IF QuoteOf(x).priced THEN 0 ELSE 1, QuoteOf(x).total, QuoteOf(x).rank,
    x.arrival - x.departure, x.transfers>>

Ranked == SortedBy(Collapsed(list), PriceKey)
Fully(seq) == Where(seq, LAMBDA x : QuoteOf(x).priced)

(* _ensure_mode_coverage: the cheapest priced itinerary of each mode the   *)
(* page misses is added.                                                   *)
Using(ranked, mode) == Where(Fully(ranked), LAMBDA x : mode \in x.modes)
Added(ranked, seq, mode) ==
  IF \/ mode \notin asked.modes \/ Using(ranked, mode) = <<>>
     \/ \E i \in DOMAIN seq : mode \in seq[i].modes
  THEN seq ELSE Append(seq, Head(Using(ranked, mode)))
Covering(ranked, page) == FoldLeft(LAMBDA seq, mode : Added(ranked, seq, mode), page, TravelModes)

Page(ranked) == SubSeq(ranked, 1, Min({PageSize[pass], Len(ranked)}))
-----------------------------------------------------------------------------
Route ==
  /\ at = "route" /\ at' = "permit"
  /\ list' = Where(Candidates, LAMBDA x : x.departure >= asked.departAt)
  /\ UNCHANGED <<labels, asked, pass, quotes, served, timedOut, shown, hidden>>

(* The constraints, then what no source can price; nothing may be left.    *)
Filter ==
  /\ at = "permit"
  /\ list' = Priceable(Where(list, Permits))
  /\ at' = IF list' = <<>> THEN "done" ELSE "sample"
  /\ UNCHANGED <<labels, asked, pass, quotes, served, timedOut, shown, hidden>>

Sample ==
  /\ at = "sample" /\ at' = "price"
  /\ list' = Selected(Spread(list))
  /\ UNCHANGED <<labels, asked, pass, quotes, served, timedOut, shown, hidden>>

(* What get_quote returns for a row within its lifetime: an exact fare     *)
(* comes back as a cached one, an estimate as it is.                       *)
Recalled(q) ==
  [priced |-> TRUE, total |-> q.total, rank |-> IF q.rank = 0 THEN 1 ELSE q.rank]

(* An itinerary with a stale fare is asked again, like one without a price.*)
Servable == {id \in DOMAIN quotes : quotes[id].priced /\ quotes[id].rank # 2}

(* Mutant of AskPrices: the sources are asked whatever the cache has.      *)
AskPricesAnew ==
  /\ at = "price" /\ at' = "rank" /\ timedOut' = FALSE
  /\ LET ids == {list[i].id : i \in DOMAIN list}
     IN \E kept \in SUBSET (ids \cap Servable) :
          /\ served' = [id \in kept |-> Recalled(quotes[id])]
          /\ quotes' \in [ids -> Quotes]
  /\ UNCHANGED <<labels, asked, pass, list, shown, hidden>>

(* Some fares are served from the cache, and any others are asked.         *)
AskPrices ==
  /\ at = "price" /\ at' = "rank" /\ timedOut' = FALSE
  /\ LET ids == {list[i].id : i \in DOMAIN list}
     IN \E kept \in SUBSET (ids \cap Servable) :
          /\ served' = [id \in kept |-> Recalled(quotes[id])]
          /\ \E new \in [ids \ kept -> Quotes] :
               quotes' = [id \in ids |-> IF id \in kept THEN Recalled(quotes[id]) ELSE new[id]]
  /\ \A i \in DOMAIN list : ~ list[i].priceable => ~ quotes'[list[i].id].priced
  /\ UNCHANGED <<labels, asked, pass, list, shown, hidden>>

(* Out of time, the itineraries are ranked without any price.              *)
TimeOut ==
  /\ at = "price" /\ at' = "rank" /\ timedOut' = TRUE
  /\ UNCHANGED <<labels, asked, pass, list, quotes, served, shown, hidden>>

Rank ==
  /\ at = "rank" /\ at' = "done"
  /\ LET fully == Fully(Ranked)
         kept == IF asked.requirePriced /\ fully # <<>> THEN fully ELSE Ranked
     IN /\ shown' = [shown EXCEPT ![pass] = SortedBy(Covering(kept, Page(kept)), PriceKey)]
        /\ hidden' = [hidden EXCEPT ![pass] = Len(Ranked) - Len(kept)]
  /\ UNCHANGED <<labels, asked, pass, list, quotes, served, timedOut>>

(* Asked to look again: the same query on a larger allowance.              *)
Refine ==
  /\ at = "done" /\ pass = 1 /\ hidden[1] > 0
  /\ pass' = 2 /\ at' = "route" /\ list' = <<>>
  /\ UNCHANGED <<labels, asked, quotes, served, timedOut, shown, hidden>>

Next == Route \/ Filter \/ Sample \/ AskPrices \/ TimeOut \/ Rank \/ Refine

Spec == Init /\ [][Next]_vars
-----------------------------------------------------------------------------
(***************************************************************************)
(* Properties.                                                             *)
(***************************************************************************)

Elements(seq) == {seq[i] : i \in DOMAIN seq}
Feasible == Elements(Priceable(Where(Candidates, Permits)))
Of(S, shape) == {x \in S : x.shape = shape}

(* The scarce calls go where the cheapest fare may be: no shape gets a     *)
(* second call before each has one, and a shape that gets two has both     *)
(* ends of its day priced, whatever lies between.                          *)
CallsAreSpread ==
  at = "price" =>
    LET chosen == Elements(list)
        shapes == {x.shape : x \in Feasible}
        all(s) == Of(Feasible, s)
    IN \A s \in shapes :
         /\ Cardinality(Of(chosen, s)) >= 2 =>
              /\ \E x \in Of(chosen, s) : \A y \in all(s) : x.departure <= y.departure
              /\ \E x \in Of(chosen, s) : \A y \in all(s) : x.departure >= y.departure
              /\ \A r \in shapes : Of(chosen, r) # {}
         /\ \A r \in shapes : Of(chosen, s) # all(s) /\ Len(list) = ToPrice =>
              \/ Cardinality(Of(chosen, r)) <= Cardinality(Of(chosen, s)) + 1
              \/ Cardinality(Of(chosen, s)) = PerShape

(* Nothing cheaper is withheld: whatever has been priced is on the page,   *)
(* itself or as a ride of the same shape and price that arrives no later,  *)
(* or the page is full of itineraries that cost no more.                   *)
BestIsShown ==
  at = "done" /\ ~ timedOut =>
    \A x \in {y \in Elements(list) : QuoteOf(y).priced} :
      LET page == {y \in Elements(shown[pass]) :
                     QuoteOf(y).priced /\ QuoteOf(y).total <= QuoteOf(x).total}
      IN \/ \E y \in page : Offer(y) = Offer(x) /\ y.arrival <= x.arrival
         \/ Cardinality(page) >= PageSize[pass]

(* Each way of travel the traveller asked for is on the page if it can be  *)
(* had at a known price.                                                   *)
ModesAreShown ==
  at = "done" /\ ~ timedOut =>
    \A m \in asked.modes \cap Elements(TravelModes) :
      (\E x \in Elements(list) : m \in x.modes /\ QuoteOf(x).priced) =>
        \E y \in Elements(shown[pass]) : m \in y.modes

(* What the traveller may want to see is neither cut off nor outranked.    *)
NothingIsWithheld == BestIsShown /\ ModesAreShown

(* Looking again loses nothing the cache still has: unless the refined     *)
(* pass runs out of time, whatever the first one showed at a price that    *)
(* the cache still serves is shown again, itself or as a ride of the same  *)
(* shape and price that arrives no later, or the page is full of           *)
(* itineraries that cost no more.                                          *)
ShownStaysShown ==
  at = "done" /\ pass = 2 /\ ~ timedOut =>
    \A x \in {z \in Elements(shown[1]) : z.id \in DOMAIN served} :
      LET fare == served[x.id].total
          page == {y \in Elements(shown[2]) : QuoteOf(y).priced /\ QuoteOf(y).total <= fare}
      IN \/ \E y \in page :
              y.shape = x.shape /\ QuoteOf(y).total = fare /\ y.arrival <= x.arrival
         \/ Cardinality(page) >= PageSize[2]
=============================================================================
