-------------------------------- MODULE Cards --------------------------------
(***************************************************************************)
(* Period tickets: the cards a traveller holds, the rentals registered     *)
(* from tickital, what both do to the price of a journey (passes.py, the   *)
(* card boundary, the rental coupon and the station fee of                 *)
(* pricing/orchestrator.py and surcharges.py) and to a round trip          *)
(* (search.py), and their tables in db.py.                                 *)
(*                                                                         *)
(* A request reads the tables once and prices one journey in each          *)
(* direction.  Requests do not overlap here: that they bind their cards to *)
(* adapters all requests share is the subject of SharedPricing.            *)
(***************************************************************************)
EXTENDS Integers, Sequences, FiniteSetsExt

CONSTANTS
  Cards,         \* travel cards of the registry
  Stops,         \* stations
  Honors,        \* pairs of a card and an operator whose vehicles it is valid on
  Excluded,      \* GLOBAL_EXCLUSIONS: operators no card frees
  LocalOnly,     \* cards whose coverage_model is operator-only
  Gated,         \* cards that are variant_gated
  Denied,        \* denied_stops of a card
  Border,        \* border_stops of a card
  Regions,       \* the stops of each card, for each feed that may be loaded
  Rentals,       \* rentals one may register, as list_tickital_rentals orders them
  Journeys,      \* the legs of the journey out and of the journey back
  ServiceDate,   \* the day each of them is searched for
  Fares,         \* what a single ticket may cost
  FeeStop,       \* ARLANDA_C_STOP_ID
  FeeExempt,     \* operators whose fare includes the passage
  Fee            \* ARLANDA_C_PASSAGE_FEE_ORE

Directions == {"out", "back"}
RentalIds == DOMAIN Rentals
NoRental == 0

ASSUME RentalAssumption ==
  /\ RentalIds \subseteq Nat \ {NoRental}
  /\ \A r \in RentalIds : Rentals[r].price \in Nat
ASSUME JourneyAssumption ==
  \A d \in Directions :
    /\ Len(Journeys[d]) \in Nat /\ DOMAIN Journeys[d] = 1..Len(Journeys[d])
    /\ \A i \in DOMAIN Journeys[d] :
         /\ {"op", "path", "sold"} \subseteq DOMAIN Journeys[d][i]
         /\ Journeys[d][i].path \in Seq(Stops) /\ Journeys[d][i].path # <<>>
ASSUME FareAssumption == Fares \subseteq Nat /\ Fee \in Nat /\ Fee > 0

Sources == {"none", "card", "single", "rental"}
Confidences == {"firm", "soft", "unavailable"}
Quotes == [source : Sources, amount : Nat, confidence : Confidences, rest : BOOLEAN,
           rental : RentalIds \cup {NoRental}, fee : {0, Fee}]

VARIABLES
  region,   \* the stops of each card, as derived from the feed
  card,     \* table travel_card: none, partial or full
  rental,   \* table tickital_rental
  at,       \* what the request does next: idle, out, back, total
  held,     \* held_cards the request has read
  rented,   \* tickital_rentals it has read
  asked,    \* history: the quotes of each journey before it is reconciled
  priced    \* the journeys as they are shown

vars == <<region, card, rental, at, held, rented, asked, priced>>

Init ==
  /\ region \in Regions
  /\ card = [c \in Cards |-> "none"] /\ rental = {}
  /\ at = "idle" /\ held = {} /\ rented = {}
  /\ asked = [d \in Directions |-> <<>>]
  /\ priced = [d \in Directions |-> <<>>]
-----------------------------------------------------------------------------
(***************************************************************************)
(* Coverage.                                                               *)
(***************************************************************************)
From(leg) == Head(leg.path)
To(leg) == leg.path[Len(leg.path)]

Honored(c, op) == <<c, op>> \in Honors /\ op \notin Excluded /\ c \notin Gated

(* A denied end rules a card out; otherwise both ends lie in the region,   *)
(* or one does and the other is a border stop of the card.                 *)
Covers(c, leg) ==
  /\ Honored(c, leg.op)
  /\ {From(leg), To(leg)} \cap Denied[c] = {}
  /\ \/ c \in LocalOnly
     \/ {From(leg), To(leg)} \subseteq region[c]
     \/ From(leg) \in region[c] /\ To(leg) \in Border[c]
     \/ To(leg) \in region[c] /\ From(leg) \in Border[c]

(* The held cards that may be put together on this leg, and the stops each *)
(* of them adds.                                                           *)
Honoring(leg) == {c \in held : Honored(c, leg.op) /\ c \notin LocalOnly}

(* Mutant of CoveredBy: border stops are pooled with the region.           *)
CoveredByBorder(c) == (region[c] \cup Border[c]) \ Denied[c]

CoveredBy(c) == region[c] \ Denied[c]
Reached(leg) == UNION {CoveredBy(c) : c \in Honoring(leg)}

Calls(leg) == {leg.path[i] : i \in DOMAIN leg.path}

(* combined_cover: two cards or more that contribute.                      *)
Combined(leg) ==
  /\ Calls(leg) \subseteq Reached(leg)
  /\ Cardinality({c \in Honoring(leg) : CoveredBy(c) \cap Calls(leg) # {}}) >= 2

PassSupports(leg) == (\E c \in held : Covers(c, leg)) \/ Combined(leg)

(* The stretch the held cards leave over, with the last stop they reach on *)
(* either side; none unless it is one stretch and shorter than the ride.   *)
PaidSpan(leg) ==
  LET n == Len(leg.path)
      uncovered == {i \in 1..n : leg.path[i] \notin Reached(leg)}
      first == Max({1, Min(uncovered) - 1})
      last == Min({n, Max(uncovered) + 1})
  IN IF \/ uncovered \in {{}, 1..n}
        \/ uncovered # Min(uncovered)..Max(uncovered)
        \/ <<first, last>> = <<1, n>>
     THEN <<>>
     ELSE <<first, last>>

Segment(leg, span) == [leg EXCEPT !.path = SubSeq(leg.path, span[1], span[2])]

Active(r, day) == Rentals[r].from <= day /\ day <= Rentals[r].to

(* Mutant of RentalFor: the window of the rental is not looked at.         *)
RentalForEver(leg) ==
  LET fit == {r \in rented : Covers(Rentals[r].card, leg)}
  IN IF fit = {} THEN NoRental ELSE Min(fit)

(* rental_for: the first rental active on the day the leg departs.         *)
RentalFor(leg) ==
  LET fit == {r \in rented : Active(r, leg.day) /\ Covers(Rentals[r].card, leg)}
  IN IF fit = {} THEN NoRental ELSE Min(fit)
-----------------------------------------------------------------------------
(***************************************************************************)
(* One leg: the first adapter that supports it answers, then the card      *)
(* takes its part.                                                         *)
(***************************************************************************)
Quote(source, amount, confidence) ==
  [source |-> source, amount |-> amount, confidence |-> confidence, rest |-> FALSE,
   rental |-> NoRental, fee |-> 0]

Unavailable == Quote("none", 0, "unavailable")
IsPriced(q) == q.confidence # "unavailable"
RentalQuote(r, amount) == [Quote("rental", amount, "firm") EXCEPT !.rental = r]

(* What the chain of adapters may answer: PassAdapter, a source that sells *)
(* tickets of the operator, TickitalAdapter, a booking link.               *)
Answers(leg) ==
  IF PassSupports(leg) THEN {Quote("card", 0, "firm")}
  ELSE IF leg.sold
    THEN {Unavailable} \cup {Quote("single", f, c) : f \in Fares, c \in {"firm", "soft"}}
  ELSE IF RentalFor(leg) # NoRental
    THEN {RentalQuote(RentalFor(leg), Rentals[RentalFor(leg)].price)}
  ELSE {Unavailable}

(* _apply_card_boundary: the rest of the ride, if it is priced and cheaper.*)
Bounded(leg, q) ==
  IF ~ IsPriced(q) \/ PaidSpan(leg) = <<>> THEN {q}
  ELSE {q} \cup {[r EXCEPT !.rest = TRUE] :
                   r \in {a \in Answers(Segment(leg, PaidSpan(leg))) :
                            IsPriced(a) /\ a.amount < q.amount}}

LegQuotes(leg) == UNION {Bounded(leg, q) : q \in Answers(leg)}
-----------------------------------------------------------------------------
(***************************************************************************)
(* One journey: the rental coupon, then the station fee.                   *)
(***************************************************************************)
Amounts(qs) == [i \in DOMAIN qs |-> qs[i].amount]
RentalPrices == [r \in RentalIds |-> Rentals[r].price]

Group(legs, qs, r) ==
  {i \in DOMAIN legs : qs[i].source # "card" /\ RentalFor(legs[i]) = r}

Singles(legs, qs, r) ==
  {i \in Group(legs, qs, r) : IsPriced(qs[i]) /\ qs[i].source # "rental"}

(* Mutant of Worth: a rental that covers every leg is always taken.        *)
WorthAlways(legs, qs, r) == Group(legs, qs, r) # {}

(* A leg of the group has no single, or all are firm and cost more.        *)
Worth(legs, qs, r) ==
  LET singles == Singles(legs, qs, r)
  IN \/ singles # Group(legs, qs, r)
     \/ /\ \A i \in singles : qs[i].confidence = "firm"
        /\ Rentals[r].price < SumFunctionOnSet(Amounts(qs), singles)

(* The rental is charged on the first leg of its group.                    *)
Coupon(legs, qs) ==
  [i \in DOMAIN legs |->
     LET r == RentalFor(legs[i])
     IN IF r = NoRental \/ qs[i].source = "card" \/ ~ Worth(legs, qs, r) THEN qs[i]
        ELSE RentalQuote(r, IF i = Min(Group(legs, qs, r)) THEN Rentals[r].price ELSE 0)]

(* apply_arlanda_fee: once, on the first priced leg that owes it.          *)
WithFee(legs, qs) ==
  LET owing == {i \in DOMAIN legs : /\ FeeStop \in {From(legs[i]), To(legs[i])}
                                    /\ legs[i].op \notin FeeExempt
                                    /\ IsPriced(qs[i])}
  IN IF owing = {} THEN qs ELSE [qs EXCEPT ![Min(owing)].fee = Fee]

FullyPriced(qs) == \A i \in DOMAIN qs : IsPriced(qs[i])
TotalPrice(qs) == SumFunction([i \in DOMAIN qs |-> qs[i].amount + qs[i].fee])

(* honored_operators: the operators whose floor a search sets to zero.     *)
ZeroedOperators(d) ==
  LET ids == held \cup {Rentals[r].card : r \in {x \in rented : Active(x, ServiceDate[d])}}
  IN {h[2] : h \in {x \in Honors : x[1] \in ids \ Gated}} \ Excluded

ChargedRentals(qs) ==
  {r \in rented : \E i \in DOMAIN qs : qs[i].rental = r /\ qs[i].amount = Rentals[r].price}

(* Mutant of RoundTripPrice: the two totals are added.                     *)
RoundTripSum == TotalPrice(priced["out"]) + TotalPrice(priced["back"])

(* RoundTrip.total_price_ore: a rental charged both ways counts once.      *)
RoundTripPrice ==
  TotalPrice(priced["out"]) + TotalPrice(priced["back"])
    - SumFunctionOnSet(RentalPrices,
                       ChargedRentals(priced["out"]) \cap ChargedRentals(priced["back"]))
-----------------------------------------------------------------------------
(***************************************************************************)
(* The registers and the request.                                          *)
(***************************************************************************)
(* A request reads each table once, at its start: what is registered while *)
(* it runs reaches only the next one, so the registers change in between.  *)
Register == at = "idle" /\ UNCHANGED <<region, at, held, rented, asked, priced>>

AddCard(c, kind) ==
  /\ card[c] # kind
  /\ card' = [card EXCEPT ![c] = kind]
  /\ UNCHANGED rental /\ Register

RemoveCard(c) ==
  /\ card[c] # "none"
  /\ card' = [card EXCEPT ![c] = "none"]
  /\ UNCHANGED rental /\ Register

AddRental(r) ==
  /\ r \notin rental
  /\ rental' = rental \cup {r}
  /\ UNCHANGED card /\ Register

RemoveRental(r) ==
  /\ r \in rental
  /\ rental' = rental \ {r}
  /\ UNCHANGED card /\ Register

(* list_cards reads the cards that are valid in all zones.                 *)
Request ==
  /\ at = "idle"
  /\ at' = "out"
  /\ held' = {c \in Cards : card[c] = "full"} /\ rented' = rental
  /\ UNCHANGED <<region, card, rental, asked, priced>>

(* _price_itinerary, for the one journey of a direction.                   *)
Search(d) ==
  /\ at = d
  /\ at' = IF d = "out" THEN "back" ELSE "total"
  /\ \E qs \in {f \in [DOMAIN Journeys[d] -> UNION {LegQuotes(Journeys[d][i]) :
                                                      i \in DOMAIN Journeys[d]}] :
                  \A i \in DOMAIN f : f[i] \in LegQuotes(Journeys[d][i])} :
       /\ asked' = [asked EXCEPT ![d] = qs]
       /\ priced' = [priced EXCEPT ![d] = WithFee(Journeys[d], Coupon(Journeys[d], qs))]
  /\ UNCHANGED <<region, card, rental, held, rented>>

Answer ==
  /\ at = "total"
  /\ at' = "idle" /\ held' = {} /\ rented' = {}
  /\ asked' = [d \in Directions |-> <<>>]
  /\ priced' = [d \in Directions |-> <<>>]
  /\ UNCHANGED <<region, card, rental>>

Next ==
  \/ \E c \in Cards, kind \in {"partial", "full"} : AddCard(c, kind)
  \/ \E c \in Cards : RemoveCard(c)
  \/ \E r \in RentalIds : AddRental(r) \/ RemoveRental(r)
  \/ Request \/ Answer
  \/ \E d \in Directions : Search(d)

Spec == Init /\ [][Next]_vars
-----------------------------------------------------------------------------
(***************************************************************************)
(* Properties.                                                             *)
(***************************************************************************)

Shown(d) == DOMAIN priced[d]

(* A traveller is sent to a rental, whose resale may get the ticket        *)
(* blocked, only for a reason: a journey whose legs all had a firm price   *)
(* of their own never becomes dearer by it, and becomes cheaper where it   *)
(* is used.                                                                *)
RentalOnlyWhenBetter ==
  \A d \in Directions :
    LET own == {i \in Shown(d) : asked[d][i].source # "rental"}
        cost(qs) == SumFunctionOnSet(Amounts(qs), Shown(d))
    IN Shown(d) # {} /\ own = Shown(d) /\ (\A i \in own : asked[d][i].confidence = "firm")
       => \/ priced[d] = WithFee(Journeys[d], asked[d])
          \/ cost(priced[d]) < cost(asked[d])

(* Out and back together pay every ticket and fee, and every rental they   *)
(* use once, however many legs it covers and in whichever direction.       *)
TripPaysOnce ==
  at = "total" /\ (\A d \in Directions : FullyPriced(priced[d])) =>
    LET tickets(d) == SumFunction(
          [i \in Shown(d) |->
             priced[d][i].fee
               + (IF priced[d][i].source = "rental" THEN 0 ELSE priced[d][i].amount)])
        used == {r \in RentalIds : \E d \in Directions : \E i \in Shown(d) :
                                     priced[d][i].rental = r}
    IN RoundTripPrice = tickets("out") + tickets("back")
                          + SumFunctionOnSet(RentalPrices, used)

(* What makes a leg cheaper than its single has already set the router's   *)
(* floor of the operator to zero, so that no journey that uses it was      *)
(* pruned before it was priced.                                            *)
FreedHaveNoFloor ==
  \A d \in Directions : \A i \in Shown(d) :
    priced[d][i].rest \/ priced[d][i].source \in {"card", "rental"}
      => Journeys[d][i].op \in ZeroedOperators(d)

(* A stop a card is valid at: in its region, or on any line of its         *)
(* operators where that is how it is sold, and not one of its denied stops.*)
ValidAt(c, stops, s) == s \notin Denied[c] /\ (c \in LocalOnly \/ s \in stops[c])

(* A stop of this leg that can be reached on a held card: one it is valid  *)
(* at, or a border stop of it that is an end of the leg.                   *)
Allowed(leg, s) ==
  \E c \in held :
    /\ Honored(c, leg.op)
    /\ \/ ValidAt(c, region, s)
       \/ s \in {From(leg), To(leg)} /\ s \in Border[c] \ Denied[c]

(* What is not charged, of a whole leg or of one of which the rest is      *)
(* paid, runs between stops that held cards are valid at, a border stop at *)
(* the end of a leg included: a stretch left over between cards is paid    *)
(* for, also when some card is valid at both ends of it.                   *)
HonestZero ==
  \A d \in Directions : \A i \in Shown(d) :
    LET leg == Journeys[d][i]
        charged(h) == /\ priced[d][i].source # "card"
                      /\ priced[d][i].rest => /\ PaidSpan(leg)[1] <= h
                                              /\ h + 1 <= PaidSpan(leg)[2]
    IN \A h \in 1..(Len(leg.path) - 1) :
         charged(h) \/ (Allowed(leg, leg.path[h]) /\ Allowed(leg, leg.path[h + 1]))
-----------------------------------------------------------------------------
(***************************************************************************)
(* What FreedHaveNoFloor and HonestZero need of the journeys.              *)
(***************************************************************************)

(* Every leg departs on the day its journey was searched for.  One after   *)
(* midnight departs a day later, and may be paid by a rental that begins   *)
(* then: the floors were zeroed for the first day's rentals.               *)
DepartsOnTheDay ==
  \A d \in Directions : \A i \in DOMAIN Journeys[d] : Journeys[d][i].day = ServiceDate[d]

(* A line leaves a card's area once: of two calls of which the card is     *)
(* valid at one, and valid at the other or has it as a border stop, the    *)
(* card is valid at every call in between.  Covers, like the code, looks   *)
(* at the two ends of a leg alone, and of the rest of one.                 *)
LinesLeaveOnce ==
  \A R \in Regions : \A c \in Cards : \A d \in Directions : \A k \in DOMAIN Journeys[d] :
    LET p == Journeys[d][k].path
        valid(i) == ValidAt(c, R, p[i])
        near(i) == valid(i) \/ p[i] \in Border[c] \ Denied[c]
    IN \A i, j \in DOMAIN p :
         near(i) /\ near(j) /\ (valid(i) \/ valid(j)) => \A m \in (i + 1)..(j - 1) : valid(m)
=============================================================================
