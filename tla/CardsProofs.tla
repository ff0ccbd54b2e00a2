----------------------------- MODULE CardsProofs -----------------------------
(***************************************************************************)
(* What holds of travel cards and rentals for any registry, any journeys   *)
(* and any fares.                                                          *)
(*                                                                         *)
(* Both theorems rest on one inductive invariant: whatever made a leg      *)
(* cheaper than its single, its cause can still be found in the cards and  *)
(* rentals the request has read (Caused), through the rest of the ride,    *)
(* the coupon and the fee.                                                 *)
(***************************************************************************)
EXTENDS Cards, FoldTheorems

(***************************************************************************)
(* Least and greatest elements.                                            *)
(***************************************************************************)

(* Max and Min of two numbers.                                             *)
LEMMA ExtremesOfTwo ==
  ASSUME NEW a \in Int, NEW b \in Int
  PROVE  /\ Max({a, b}) \in {a, b} /\ Max({a, b}) >= a /\ Max({a, b}) >= b
         /\ Min({a, b}) \in {a, b} /\ Min({a, b}) <= a /\ Min({a, b}) <= b
<1>1. \E x \in {a, b} : \A y \in {a, b} : x >= y
  OBVIOUS
<1>2. \E x \in {a, b} : \A y \in {a, b} : x <= y
  OBVIOUS
<1>3. QED
  BY <1>1, <1>2 DEF Max, Min
-----------------------------------------------------------------------------
(***************************************************************************)
(* Why a leg costs what it costs.                                          *)
(***************************************************************************)

(* The rest of a ride is paid only where cards leave one stretch over, a   *)
(* card answers only for a leg, or such a stretch, that held cards         *)
(* support, and a rental only for a leg it fits.                           *)
Caused(leg, q) ==
  /\ q \in Quotes
  /\ q.rest => PaidSpan(leg) # <<>>
  /\ q.source = "card" =>
       PassSupports(IF q.rest THEN Segment(leg, PaidSpan(leg)) ELSE leg)
  /\ q.source = "rental" => RentalFor(leg) # NoRental
  /\ q.source # "rental" => q.rental = NoRental

CausedInv ==
  /\ region \in Regions
  /\ held \subseteq Cards
  /\ rental \subseteq RentalIds /\ rented \subseteq RentalIds
  /\ priced = [d \in Directions |-> priced[d]]
  /\ at = "idle" => \A d \in Directions : priced[d] = <<>>
  /\ \A d \in Directions : \A i \in Shown(d) :
       i \in DOMAIN Journeys[d] /\ Caused(Journeys[d][i], priced[d][i])

(* The rental of a leg is one the request has read, active and valid.      *)
LEMMA RentalFits ==
  ASSUME rented \subseteq RentalIds, NEW leg, RentalFor(leg) # NoRental
  PROVE  /\ RentalFor(leg) \in rented
         /\ Active(RentalFor(leg), leg.day)
         /\ Covers(Rentals[RentalFor(leg)].card, leg)
<1> DEFINE fit == {r \in rented : Active(r, leg.day) /\ Covers(Rentals[r].card, leg)}
<1>1. fit # {} /\ RentalFor(leg) = Min(fit)
  BY DEF RentalFor
<1>2. fit \in SUBSET Nat
  BY RentalAssumption
<1>3. RentalFor(leg) \in fit
  BY <1>1, <1>2, MinIsLeast
<1>4. QED
  BY <1>3

(* What the chain of adapters answers has its cause; a rental answers only *)
(* for a leg no source sells, and only a card or a rental can price it.    *)
Answered(leg, q) ==
  /\ Caused(leg, q) /\ ~ q.rest
  /\ q.source = "rental" => ~ leg.sold
  /\ IsPriced(q) /\ ~ leg.sold => q.source = "rental" \/ q.amount = 0

(* Every answer the adapters and the card boundary may give has a cause:   *)
(* a fare, a rental that is held, or a card.                               *)
LEMMA AnswersCaused ==
  ASSUME rented \subseteq RentalIds, NEW leg, NEW q \in Answers(leg)
  PROVE  Answered(leg, q)
<1>1. CASE PassSupports(leg)
  <2>1. q = Quote("card", 0, "firm")
    BY <1>1 DEF Answers
  <2>2. QED
    BY <1>1, <2>1, FareAssumption
       DEF Answered, Caused, Quote, Quotes, Sources, Confidences
<1>2. ASSUME q = Unavailable PROVE Answered(leg, q)
  BY <1>2, FareAssumption
     DEF Answered, Unavailable, Caused, Quote, Quotes, Sources, Confidences, IsPriced
<1>3. ASSUME leg.sold, NEW f \in Fares, NEW c \in {"firm", "soft"},
             q = Quote("single", f, c)
      PROVE  Answered(leg, q)
  BY <1>3, FareAssumption DEF Answered, Caused, Quote, Quotes, Sources, Confidences
<1>4. ASSUME ~ leg.sold, RentalFor(leg) # NoRental,
             q = RentalQuote(RentalFor(leg), Rentals[RentalFor(leg)].price)
      PROVE  Answered(leg, q)
  <2>1. RentalFor(leg) \in RentalIds /\ Rentals[RentalFor(leg)].price \in Nat
    BY <1>4, RentalFits, RentalAssumption
  <2>2. QED
    BY <1>4, <2>1, FareAssumption
       DEF Answered, RentalQuote, Caused, Quote, Quotes, Sources, Confidences
<1>5. QED
  BY <1>1, <1>2, <1>3, <1>4 DEF Answers

(* So has what the card boundary makes of it: a rest is priced only where  *)
(* there is one, and by a rental only where a rental fits the whole ride.  *)
LEMMA LegQuotesCaused ==
  ASSUME rented \subseteq RentalIds, NEW leg, "sold" \in DOMAIN leg, NEW q \in LegQuotes(leg)
  PROVE  Caused(leg, q)
<1>1. PICK a \in Answers(leg) : q \in Bounded(leg, a)
  BY DEF LegQuotes
<1>2. Answered(leg, a)
  BY <1>1, AnswersCaused
<1>3. CASE q = a
  BY <1>2, <1>3 DEF Answered
<1>4. CASE q # a
  <2> DEFINE rest == Segment(leg, PaidSpan(leg))
  <2>1. PaidSpan(leg) # <<>> /\ IsPriced(a)
    BY <1>1, <1>4 DEF Bounded
  <2>2. PICK r \in Answers(rest) : r.amount < a.amount /\ q = [r EXCEPT !.rest = TRUE]
    BY <1>1, <1>4 DEF Bounded
  <2>3. Answered(rest, r) /\ r \in Quotes
    BY <2>2, AnswersCaused DEF Answered, Caused
  <2>4. q \in Quotes /\ q.rest /\ q.source = r.source /\ q.rental = r.rental
    BY <2>2, <2>3 DEF Quotes
  <2>5. ASSUME r.source = "rental" PROVE RentalFor(leg) # NoRental
    <3>1. ~ leg.sold
      BY <2>3, <2>5 DEF Answered, Segment
    <3>2. r.amount \in Nat /\ a.amount \in Nat
      BY <1>2, <2>3 DEF Answered, Caused, Quotes
    <3>3. a.source = "rental"
      BY <1>2, <2>1, <2>2, <3>1, <3>2 DEF Answered
    <3>4. QED
      BY <1>2, <3>3 DEF Answered, Caused
  <2>6. r.source # "rental" => r.rental = NoRental
    BY <2>3 DEF Answered, Caused
  <2>7. r.source = "card" => PassSupports(rest)
    BY <2>3 DEF Answered, Caused
  <2>8. QED
    BY <2>1, <2>4, <2>5, <2>6, <2>7 DEF Caused
<1>5. QED
  BY <1>3, <1>4

(* The rental coupon leaves every leg its cause.                           *)
LEMMA CouponCaused ==
  ASSUME rented \subseteq RentalIds, NEW legs, NEW qs, NEW i \in DOMAIN legs,
         Caused(legs[i], qs[i])
  PROVE  Caused(legs[i], Coupon(legs, qs)[i])
<1> DEFINE cs == Coupon(legs, qs)
           r == RentalFor(legs[i])
           amount == IF i = Min(Group(legs, qs, r)) THEN Rentals[r].price ELSE 0
<1>1. CASE cs[i] = qs[i]
  BY <1>1
<1>2. CASE cs[i] # qs[i]
  <2>1. r # NoRental /\ cs[i] = RentalQuote(r, amount)
    BY <1>2 DEF Coupon
  <2>2. r \in RentalIds /\ amount \in Nat
    BY <2>1, RentalFits, RentalAssumption
  <2>3. cs[i] \in Quotes /\ ~ cs[i].rest /\ cs[i].source = "rental"
    BY <2>1, <2>2, FareAssumption DEF RentalQuote, Quote, Quotes, Sources, Confidences
  <2>4. QED
    BY <2>1, <2>3 DEF Caused
<1>3. QED
  BY <1>1, <1>2

(* So does the station fee.                                                *)
LEMMA ShownCaused ==
  ASSUME rented \subseteq RentalIds, NEW legs, NEW qs,
         \A i \in DOMAIN legs : Caused(legs[i], qs[i])
  PROVE  /\ DOMAIN WithFee(legs, Coupon(legs, qs)) = DOMAIN legs
         /\ \A i \in DOMAIN legs : Caused(legs[i], WithFee(legs, Coupon(legs, qs))[i])
<1> DEFINE cs == Coupon(legs, qs)
           ws == WithFee(legs, cs)
<1>1. DOMAIN cs = DOMAIN legs /\ DOMAIN ws = DOMAIN legs
  BY DEF Coupon, WithFee
<1>2. ASSUME NEW i \in DOMAIN legs PROVE Caused(legs[i], ws[i])
  <2>1. ws[i] = cs[i] \/ ws[i] = [cs[i] EXCEPT !.fee = Fee]
    BY <1>1 DEF WithFee
  <2>2. Caused(legs[i], cs[i])
    BY CouponCaused
  <2>3. CASE ws[i] = [cs[i] EXCEPT !.fee = Fee]
    <3>1. /\ ws[i] \in Quotes /\ ws[i].rest = cs[i].rest
          /\ ws[i].source = cs[i].source /\ ws[i].rental = cs[i].rental
      BY <2>2, <2>3, FareAssumption DEF Caused, Quotes
    <3>2. QED
      BY <2>2, <3>1 DEF Caused
  <2>4. QED
    BY <2>1, <2>2, <2>3
<1>3. QED
  BY <1>1, <1>2
-----------------------------------------------------------------------------
(***************************************************************************)
(* The invariant.                                                          *)
(***************************************************************************)
LEMMA CausedInit ==
  ASSUME Init
  PROVE  CausedInv
BY DEF Init, CausedInv, Shown

(* Nothing but the cards and rentals read, and the feed, decides the       *)
(* cause of a quote.                                                       *)
LEMMA CausedStable ==
  ASSUME UNCHANGED <<region, held, rented>>, NEW leg, NEW q
  PROVE  Caused(leg, q)' <=> Caused(leg, q)
<1>1. \A c, ride : Covers(c, ride)' <=> Covers(c, ride)
  BY DEF Covers
<1>2. \A ride : Reached(ride)' = Reached(ride)
  BY DEF Reached, CoveredBy, Honoring
<1>3. \A ride : Combined(ride)' <=> Combined(ride)
  BY <1>2 DEF Combined, CoveredBy, Honoring
<1>4. \A ride : PassSupports(ride)' <=> PassSupports(ride)
  BY <1>1, <1>3 DEF PassSupports
<1>5. PaidSpan(leg)' = PaidSpan(leg)
  BY <1>2 DEF PaidSpan
<1>6. RentalFor(leg)' = RentalFor(leg)
  BY <1>1 DEF RentalFor
<1> DEFINE ride == IF q.rest THEN Segment(leg, PaidSpan(leg)) ELSE leg
<1>7. PassSupports(ride)' <=> PassSupports(ride)
  BY <1>4, <1>5 DEF Segment
<1>8. QED
  BY <1>5, <1>6, <1>7 DEF Caused

(* Every step keeps what is quoted caused.                                 *)
LEMMA CausedStep ==
  ASSUME CausedInv, [Next]_vars
  PROVE  CausedInv'
<1>1. CASE \/ \E c \in Cards, kind \in {"partial", "full"} : AddCard(c, kind)
           \/ \E c \in Cards : RemoveCard(c)
           \/ \E r \in RentalIds : AddRental(r) \/ RemoveRental(r)
           \/ Request
  <2>1. \A d \in Directions : priced[d] = <<>>
    BY <1>1 DEF AddCard, RemoveCard, AddRental, RemoveRental, Request, Register, CausedInv
  <2>2. region' = region /\ priced' = priced /\ rented' \in {rented, rental}
    BY <1>1 DEF AddCard, RemoveCard, AddRental, RemoveRental, Request, Register
  <2>. held' \subseteq Cards
    BY <1>1 DEF AddCard, RemoveCard, AddRental, RemoveRental, Request, Register, CausedInv
  <2>3. rental' \subseteq RentalIds
    BY <1>1 DEF AddCard, RemoveCard, AddRental, RemoveRental, Request, Register, CausedInv
  <2>4. QED
    BY <2>1, <2>2, <2>3 DEF CausedInv, Shown
<1>2. CASE Answer
  BY <1>2 DEF Answer, CausedInv, Shown
<1>3. ASSUME NEW d \in Directions, Search(d) PROVE CausedInv'
  <2> DEFINE legs == Journeys[d]
  <2>1. UNCHANGED <<region, rental, rented, held>> /\ at' # "idle"
    BY <1>3 DEF Search, Directions
  <2>2. PICK qs : /\ \A i \in DOMAIN legs : qs[i] \in LegQuotes(legs[i])
                  /\ priced' = [priced EXCEPT ![d] = WithFee(legs, Coupon(legs, qs))]
    BY <1>3 DEF Search
  <2>3. \A i \in DOMAIN legs : Caused(legs[i], qs[i])
    BY <2>2, LegQuotesCaused, JourneyAssumption DEF CausedInv
  <2>4. /\ DOMAIN WithFee(legs, Coupon(legs, qs)) = DOMAIN legs
        /\ \A i \in DOMAIN legs : Caused(legs[i], WithFee(legs, Coupon(legs, qs))[i])
    BY <2>3, ShownCaused DEF CausedInv
  <2>5. /\ DOMAIN priced = Directions /\ DOMAIN priced' = Directions
        /\ priced' = [e \in Directions |-> priced'[e]]
        /\ priced'[d] = WithFee(legs, Coupon(legs, qs))
        /\ \A e \in Directions \ {d} : priced'[e] = priced[e]
    BY <2>2 DEF CausedInv
  <2>6. ASSUME NEW e \in Directions, NEW i \in DOMAIN priced'[e]
        PROVE  i \in DOMAIN Journeys[e] /\ Caused(Journeys[e][i], priced'[e][i])
    BY <2>4, <2>5 DEF CausedInv, Shown
  <2>7. \A e \in Directions : \A i \in DOMAIN priced'[e] :
          i \in DOMAIN Journeys[e] /\ Caused(Journeys[e][i], priced[e][i])'
    BY <2>1, <2>6, CausedStable
  <2>8. QED
    BY <2>1, <2>5, <2>7 DEF CausedInv, Shown
<1>4. CASE UNCHANGED vars
  <2>1. \A d \in Directions : \A i \in Shown(d) :
          Caused(Journeys[d][i], priced[d][i])' <=> Caused(Journeys[d][i], priced[d][i])
    BY <1>4, CausedStable DEF vars
  <2>2. QED
    BY <1>4, <2>1 DEF CausedInv, Shown, vars
<1>5. QED
  BY <1>1, <1>2, <1>3, <1>4 DEF Next

(* What is quoted is always caused.                                        *)
LEMMA CausedAlways == Spec => []CausedInv
<1>1. Init => CausedInv
  BY CausedInit
<1>2. CausedInv /\ [Next]_vars => CausedInv'
  BY CausedStep
<1>3. QED
  BY <1>1, <1>2, PTL DEF Spec
-----------------------------------------------------------------------------
(***************************************************************************)
(* The floors.                                                             *)
(***************************************************************************)

(* A card in hand, or a rental active on the day, zeroes its operators.    *)
LEMMA HonoredIsZeroed ==
  ASSUME NEW d, NEW c, NEW op, Honored(c, op),
         \/ c \in held
         \/ \E r \in rented : Active(r, ServiceDate[d]) /\ c = Rentals[r].card
  PROVE  op \in ZeroedOperators(d)
<1> DEFINE ids == held \cup {Rentals[r].card : r \in {x \in rented : Active(x, ServiceDate[d])}}
<1>1. c \in ids \ Gated
  BY DEF Honored
<1>2. <<c, op>> \in {x \in Honors : x[1] \in ids \ Gated} /\ op \notin Excluded
  BY <1>1 DEF Honored
<1>3. op \in {h[2] : h \in {x \in Honors : x[1] \in ids \ Gated}}
  BY <1>2
<1>4. QED
  BY <1>2, <1>3 DEF ZeroedOperators

(* What a held card supports, alone or with others, some held card honors. *)
LEMMA SupportIsHonored ==
  ASSUME NEW leg, PassSupports(leg)
  PROVE  \E c \in held : Honored(c, leg.op)
<1>1. CASE \E c \in held : Covers(c, leg)
  BY <1>1 DEF Covers
<1>2. CASE Combined(leg)
  <2>1. {c \in Honoring(leg) : CoveredBy(c) \cap Calls(leg) # {}} # {}
    BY <1>2, FS_EmptySet DEF Combined
  <2>2. QED
    BY <2>1 DEF Honoring
<1>3. QED
  BY <1>1, <1>2 DEF PassSupports

(* The stretch left over is the rest of a ride that some card reaches.     *)
LEMMA RestIsHonored ==
  ASSUME NEW leg, PaidSpan(leg) # <<>>
  PROVE  \E c \in held : Honored(c, leg.op)
<1>1. PICK i \in 1..Len(leg.path) : leg.path[i] \in Reached(leg)
  BY DEF PaidSpan
<1>2. QED
  BY <1>1 DEF Reached, Honoring

(* FreedHaveNoFloor of Cards: when every leg departs on the day of the     *)
(* search, whatever a card or a rental makes cheaper was routed with its   *)
(* operator's floor at zero (search.py, honored_operators), whatever the   *)
(* registry, the journeys and the fares.                                   *)
THEOREM FreedIsRouted ==
  ASSUME DepartsOnTheDay
  PROVE  Spec => []FreedHaveNoFloor
<1>1. CausedInv => FreedHaveNoFloor
  <2> SUFFICES ASSUME CausedInv, NEW d \in Directions, NEW i \in Shown(d),
                      priced[d][i].rest \/ priced[d][i].source \in {"card", "rental"}
               PROVE  Journeys[d][i].op \in ZeroedOperators(d)
    BY DEF FreedHaveNoFloor
  <2> DEFINE leg == Journeys[d][i]
             q == priced[d][i]
  <2>1. Caused(leg, q) /\ leg.day = ServiceDate[d]
    BY DEF CausedInv, DepartsOnTheDay
  <2>2. CASE PaidSpan(leg) # <<>> \/ PassSupports(leg)
    BY <2>2, RestIsHonored, SupportIsHonored, HonoredIsZeroed
  <2>3. CASE RentalFor(leg) # NoRental
    BY <2>1, <2>3, RentalFits, HonoredIsZeroed DEF CausedInv, Covers
  <2>4. QED
    BY <2>1, <2>2, <2>3 DEF Caused
<1>2. QED
  BY <1>1, CausedAlways, PTL
-----------------------------------------------------------------------------
(***************************************************************************)
(* Free rides.                                                             *)
(***************************************************************************)

(* What is not in the stretch a ticket is bought for, held cards reach.    *)
LEMMA SpanHoldsTheRest ==
  ASSUME NEW leg, leg.path \in Seq(Stops), PaidSpan(leg) # <<>>,
         NEW h \in 1..(Len(leg.path) - 1),
         leg.path[h] \notin Reached(leg) \/ leg.path[h + 1] \notin Reached(leg)
  PROVE  PaidSpan(leg)[1] <= h /\ h + 1 <= PaidSpan(leg)[2]
<1> DEFINE n == Len(leg.path)
           uncovered == {i \in 1..n : leg.path[i] \notin Reached(leg)}
           first == Max({1, Min(uncovered) - 1})
           last == Min({n, Max(uncovered) + 1})
<1>1. n \in Nat /\ n \in Int /\ 1 \in Int /\ h \in Nat /\ 1 <= h /\ h + 1 <= n
  OBVIOUS
<1>2. PICK u \in uncovered : h <= u /\ u <= h + 1 /\ u \in Nat
  BY <1>1
<1>3. uncovered \in SUBSET Nat /\ uncovered \in SUBSET (0..n)
  BY <1>1
<1> HIDE DEF uncovered
<1>4. Min(uncovered) \in Nat /\ Min(uncovered) <= u
  BY <1>2, <1>3, MinIsLeast
<1>5. Max(uncovered) \in Nat /\ Max(uncovered) >= u
  BY <1>1, <1>2, <1>3, MaxIsGreatest
<1>6. first <= h
  <2>1. \A b \in Int : Max({1, b}) \in {1, b}
    BY <1>1, ExtremesOfTwo, Zenon
  <2>2. Min(uncovered) - 1 \in Int
    BY <1>4
  <2>3. first \in {1, Min(uncovered) - 1}
    BY ONLY <2>1, <2>2
  <2>4. QED
    BY <1>1, <1>2, <1>4, <2>3
<1>7. h + 1 <= last
  <2>1. \A b \in Int : Min({n, b}) \in {n, b}
    BY <1>1, ExtremesOfTwo, Zenon
  <2>2. Max(uncovered) + 1 \in Int
    BY <1>5
  <2>3. last \in {n, Max(uncovered) + 1}
    BY ONLY <2>1, <2>2
  <2>4. QED
    BY <1>1, <1>2, <1>5, <2>3
<1>8. PaidSpan(leg) = <<first, last>>
  BY DEF PaidSpan, uncovered
<1>9. QED
  BY <1>6, <1>7, <1>8

(* The stretch starts and ends at stops of the leg, and where it does not  *)
(* start or end with the leg, at one that held cards reach.                *)
LEMMA SpanEnds ==
  ASSUME NEW leg, leg.path \in Seq(Stops), PaidSpan(leg) # <<>>
  PROVE  LET a == PaidSpan(leg)[1]
             b == PaidSpan(leg)[2]
             n == Len(leg.path)
         IN /\ a \in 1..n /\ b \in 1..n /\ a <= b
            /\ a = 1 \/ leg.path[a] \in Reached(leg)
            /\ b = n \/ leg.path[b] \in Reached(leg)
<1> DEFINE n == Len(leg.path)
           uncovered == {i \in 1..n : leg.path[i] \notin Reached(leg)}
           low == Min(uncovered)
           high == Max(uncovered)
           first == Max({1, low - 1})
           last == Min({n, high + 1})
<1>1. n \in Nat
  OBVIOUS
<1>2. uncovered \in SUBSET Nat /\ uncovered \in SUBSET (0..n)
      /\ \A u \in uncovered : 1 <= u /\ u <= n /\ u \in Nat
  BY <1>1
<1>3. \A i \in 1..n : i \in uncovered \/ leg.path[i] \in Reached(leg)
  OBVIOUS
<1> HIDE DEF uncovered
<1>12. uncovered # {} /\ PaidSpan(leg) = <<first, last>>
  BY DEF PaidSpan, uncovered
<1>4. low \in uncovered /\ \A u \in uncovered : low <= u
  BY <1>2, <1>12, MinIsLeast
<1>5. high \in uncovered /\ \A u \in uncovered : u <= high
  BY <1>1, <1>2, <1>12, MaxIsGreatest
<1>6. /\ low \in Nat /\ 1 <= low /\ low <= high
      /\ high \in Nat /\ high <= n
  BY <1>2, <1>4, <1>5
<1>7. first \in {1, low - 1} /\ first >= 1 /\ first >= low - 1
  <2>1. 1 \in Int /\ low - 1 \in Int
    BY <1>6
  <2>2. QED
    BY <2>1, ExtremesOfTwo, Zenon
<1>8. last \in {n, high + 1} /\ last <= n /\ last <= high + 1
  <2>1. n \in Int /\ high + 1 \in Int
    BY <1>1, <1>6
  <2>2. QED
    BY <2>1, ExtremesOfTwo, Zenon
<1> HIDE DEF low, high, first, last
<1>9. first \in 1..n /\ last \in 1..n /\ first <= last
  BY <1>1, <1>6, <1>7, <1>8
<1>10. first = 1 \/ leg.path[first] \in Reached(leg)
  <2>1. first # 1 => first < low
    BY <1>6, <1>7
  <2>2. first # 1 => first \notin uncovered
    BY <1>4, <1>6, <1>9, <2>1
  <2>3. QED
    BY <1>3, <1>9, <2>2
<1>11. last = n \/ leg.path[last] \in Reached(leg)
  <2>1. last # n => last > high
    BY <1>6, <1>8
  <2>2. last # n => last \notin uncovered
    BY <1>5, <1>6, <1>9, <2>1
  <2>3. QED
    BY <1>3, <1>9, <2>2
<1>13. QED
  BY <1>9, <1>10, <1>11, <1>12

(* The ends of a segment and its calls.                                    *)
LEMMA SegmentCalls ==
  ASSUME NEW leg, {"op", "path"} \subseteq DOMAIN leg, leg.path \in Seq(Stops),
         NEW span, span[1] \in 1..Len(leg.path), span[2] \in span[1]..Len(leg.path)
  PROVE  LET ride == Segment(leg, span)
         IN /\ ride.op = leg.op
            /\ From(ride) = leg.path[span[1]] /\ To(ride) = leg.path[span[2]]
            /\ Calls(ride) = {leg.path[i] : i \in span[1]..span[2]}
<1> DEFINE ride == Segment(leg, span)
           s == ride.path
           p == leg.path
           a == span[1]
           b == span[2]
<1>1. a \in Nat /\ b \in Nat /\ a <= b /\ b <= Len(p) /\ 1 <= a /\ Len(p) \in Nat
  OBVIOUS
<1>2. \A i \in a..b : p[i] \in Stops
  BY <1>1
<1>3. ride.op = leg.op /\ s = [i \in 1..(b - a + 1) |-> p[a + i - 1]]
  BY DEF Segment, SubSeq
<1>4. s \in Seq(Stops)
  <2>1. \A i \in 1..(b - a + 1) : a + i - 1 \in a..b
    BY <1>1
  <2>2. b - a + 1 \in Nat
    BY <1>1
  <2>3. \A i \in 1..(b - a + 1) : p[a + i - 1] \in Stops
    BY <1>2, <2>1
  <2> DEFINE k == b - a + 1
  <2> HIDE DEF k
  <2>4. s \in [1..k -> Stops] /\ k \in Nat
    BY <1>3, <2>2, <2>3 DEF k
  <2>5. QED
    BY ONLY <2>4
<1> HIDE DEF ride, a, b, p
<1>5. Len(s) = b - a + 1 /\ DOMAIN s = 1..(b - a + 1)
  BY <1>1, <1>3, <1>4
<1>6. \A i \in a..b : i - a + 1 \in DOMAIN s /\ s[i - a + 1] = p[i]
  BY <1>1, <1>3, <1>5
<1>7. \A i \in DOMAIN s : a + i - 1 \in a..b /\ s[i] = p[a + i - 1]
  BY <1>1, <1>3, <1>5
<1>8. Head(s) = s[1] /\ 1 \in DOMAIN s /\ Len(s) \in DOMAIN s
  BY <1>1, <1>4, <1>5
<1>9. a + 1 - 1 = a /\ a + Len(s) - 1 = b
  BY <1>1, <1>5
<1>10. From(ride) = p[a] /\ To(ride) = p[b]
  BY <1>7, <1>8, <1>9 DEF From, To
<1>11. Calls(ride) = {p[i] : i \in a..b}
  <2>1. \A x : (\E i \in a..b : x = p[i]) <=> \E i \in DOMAIN s : x = s[i]
    BY ONLY <1>6, <1>7
  <2>2. Calls(ride) = {s[i] : i \in DOMAIN s}
    BY DEF Calls
  <2>3. QED
    BY ONLY <2>1, <2>2
<1>12. QED
  BY <1>3, <1>10, <1>11 DEF ride, a, b, p

(* What held cards reach, they are valid at.                               *)
LEMMA ReachedIsAllowed ==
  ASSUME NEW leg, NEW s \in Reached(leg)
  PROVE  Allowed(leg, s)
BY DEF Reached, CoveredBy, Honoring, Allowed, ValidAt

(* The calls a to b of a leg that held cards support as a ride of its own: *)
(* where lines leave a card's area once, they are all allowed.             *)
LEMMA SupportedIsAllowed ==
  ASSUME CausedInv, LinesLeaveOnce, NEW d \in Directions, NEW k \in DOMAIN Journeys[d],
         NEW a \in 1..Len(Journeys[d][k].path), NEW b \in a..Len(Journeys[d][k].path),
         NEW ride, PassSupports(ride),
         ride.op = Journeys[d][k].op,
         From(ride) = Journeys[d][k].path[a], To(ride) = Journeys[d][k].path[b],
         Calls(ride) = {Journeys[d][k].path[m] : m \in a..b},
         \/ a = 1 \/ Journeys[d][k].path[a] \in Reached(Journeys[d][k]),
         \/ b = Len(Journeys[d][k].path)
         \/ Journeys[d][k].path[b] \in Reached(Journeys[d][k]),
         NEW m \in a..b
  PROVE  Allowed(Journeys[d][k], Journeys[d][k].path[m])
<1> DEFINE leg == Journeys[d][k]
           p == leg.path
           n == Len(p)
<1>1. p \in Seq(Stops) /\ p # <<>>
  BY JourneyAssumption
<1>2. From(leg) = p[1] /\ To(leg) = p[n] /\ n \in Nat /\ DOMAIN p = 1..n
  BY <1>1 DEF From, To
<1>3. CASE Combined(ride)
  <2>1. Reached(ride) = Reached(leg)
    BY DEF Reached, Honoring
  <2>2. p[m] \in Reached(leg)
    BY <1>3, <2>1 DEF Combined
  <2>3. QED
    BY <2>2, ReachedIsAllowed
<1>4. ASSUME NEW c \in held, Covers(c, ride) PROVE Allowed(leg, p[m])
  <2> DEFINE valid(i) == ValidAt(c, region, p[i])
             near(i) == valid(i) \/ p[i] \in Border[c] \ Denied[c]
  <2>1. Honored(c, leg.op) /\ near(a) /\ near(b) /\ (valid(a) \/ valid(b))
    BY <1>4 DEF Covers, ValidAt
  <2>2. \A i \in (a + 1)..(b - 1) : valid(i)
    <3>1. c \in Cards /\ region \in Regions
      BY DEF CausedInv
    <3>2. a \in DOMAIN p /\ b \in DOMAIN p
      BY <1>2
    <3>3. \A i, j \in DOMAIN p :
            near(i) /\ near(j) /\ (valid(i) \/ valid(j))
              => \A l \in (i + 1)..(j - 1) : valid(l)
      BY <3>1 DEF LinesLeaveOnce
    <3>4. QED
      BY <2>1, <3>2, <3>3
  <2>3. CASE m # a /\ m # b
    <3>1. valid(m)
      BY <1>2, <2>2, <2>3
    <3>2. QED
      BY <2>1, <3>1 DEF Allowed
  <2>4. CASE m = a
    <3>1. CASE a = 1
      BY <1>2, <2>1, <2>4, <3>1 DEF Allowed
    <3>2. CASE p[a] \in Reached(leg)
      BY <2>4, <3>2, ReachedIsAllowed
    <3>3. QED
      BY <3>1, <3>2
  <2>5. CASE m = b
    <3>1. CASE b = n
      BY <1>2, <2>1, <2>5, <3>1 DEF Allowed
    <3>2. CASE p[b] \in Reached(leg)
      BY <2>5, <3>2, ReachedIsAllowed
    <3>3. QED
      BY <3>1, <3>2
  <2>6. QED
    BY <2>3, <2>4, <2>5
<1>5. QED
  BY <1>3, <1>4 DEF PassSupports

(* HonestZero of Cards: where lines leave a card's area once, nothing      *)
(* rides free, not even what covers and combined_cover say of the rest of  *)
(* a ride (paid_span), between stops at which no held card is valid,       *)
(* whatever the cards and the journeys.                                    *)
THEOREM FreeWhereValid ==
  ASSUME LinesLeaveOnce
  PROVE  Spec => []HonestZero
<1>1. CausedInv => HonestZero
  <2> SUFFICES ASSUME CausedInv, NEW d \in Directions, NEW k \in Shown(d),
                      NEW h \in 1..(Len(Journeys[d][k].path) - 1),
                      \/ priced[d][k].source = "card"
                      \/ /\ priced[d][k].rest
                         /\ ~ (/\ PaidSpan(Journeys[d][k])[1] <= h
                               /\ h + 1 <= PaidSpan(Journeys[d][k])[2]),
                      NEW m \in {h, h + 1}
               PROVE  Allowed(Journeys[d][k], Journeys[d][k].path[m])
    BY DEF HonestZero
  <2> DEFINE leg == Journeys[d][k]
             q == priced[d][k]
             p == leg.path
             n == Len(p)
  <2>1. k \in DOMAIN Journeys[d] /\ Caused(leg, q)
    BY DEF CausedInv
  <2>2. p \in Seq(Stops) /\ p # <<>> /\ n \in Nat /\ m \in 1..n /\ 1 <= n
    BY <2>1, JourneyAssumption
  <2>3. CASE q.rest /\ ~ (PaidSpan(leg)[1] <= h /\ h + 1 <= PaidSpan(leg)[2])
    <3>1. PaidSpan(leg) # <<>>
      BY <2>1, <2>3 DEF Caused
    <3>2. p[h] \in Reached(leg) /\ p[h + 1] \in Reached(leg)
      BY <2>2, <2>3, <3>1, SpanHoldsTheRest
    <3>3. QED
      BY <3>2, ReachedIsAllowed
  <2>4. CASE q.rest /\ q.source = "card" /\ PaidSpan(leg)[1] <= h /\ h + 1 <= PaidSpan(leg)[2]
    <3> DEFINE a == PaidSpan(leg)[1]
               b == PaidSpan(leg)[2]
               ride == Segment(leg, PaidSpan(leg))
    <3>1. PaidSpan(leg) # <<>> /\ PassSupports(ride)
      BY <2>1, <2>4 DEF Caused
    <3>2. /\ a \in 1..n /\ b \in 1..n /\ a <= b
          /\ a = 1 \/ p[a] \in Reached(leg)
          /\ b = n \/ p[b] \in Reached(leg)
      BY <2>2, <3>1, SpanEnds
    <3>3. b \in a..n
      BY <2>2, <3>2
    <3>4. /\ ride.op = leg.op /\ From(ride) = p[a] /\ To(ride) = p[b]
          /\ Calls(ride) = {p[i] : i \in a..b}
      <4>1. {"op", "path"} \subseteq DOMAIN leg
        BY <2>1, JourneyAssumption
      <4>2. QED
        BY <2>2, <3>2, <3>3, <4>1, SegmentCalls
    <3> HIDE DEF a, b, ride
    <3>5. m \in a..b
      BY <2>4, <3>2 DEF a, b
    <3>6. QED
      BY <2>1, <3>1, <3>2, <3>3, <3>4, <3>5, SupportedIsAllowed
  <2>5. CASE ~ q.rest /\ q.source = "card"
    <3>1. PassSupports(leg)
      BY <2>1, <2>5 DEF Caused
    <3>2. From(leg) = p[1] /\ To(leg) = p[n] /\ Calls(leg) = {p[i] : i \in 1..n}
      BY <2>2 DEF From, To, Calls
    <3>3. 1 \in 1..n /\ n \in 1..n
      BY <2>2
    <3>4. QED
      BY <2>1, <2>2, <3>1, <3>2, <3>3, SupportedIsAllowed
  <2>6. QED
    BY <2>3, <2>4, <2>5
<1>2. QED
  BY <1>1, CausedAlways, PTL
-----------------------------------------------------------------------------
(***************************************************************************)
(* What a rental costs.                                                    *)
(***************************************************************************)

UsedRentals(qs) == {r \in RentalIds : \E i \in DOMAIN qs : qs[i].rental = r}

(* A journey pays each rental it uses on one leg, and nothing for it on    *)
(* the others.                                                             *)
ChargedOnce(qs) ==
  /\ IsFiniteSet(DOMAIN qs)
  /\ \A i \in DOMAIN qs : /\ qs[i].amount \in Int /\ qs[i].fee \in Int
                          /\ qs[i].source # "rental" => qs[i].rental = NoRental
  /\ \A i \in DOMAIN qs : qs[i].source = "rental" =>
       /\ qs[i].rental \in rented
       /\ \E f \in DOMAIN qs :
            /\ qs[f].rental = qs[i].rental /\ qs[f].amount = Rentals[qs[i].rental].price
            /\ \A j \in DOMAIN qs \ {f} : qs[j].rental = qs[i].rental => qs[j].amount = 0

(* The coupon replaces the quotes of exactly the legs of the groups that   *)
(* are worth their rental.                                                 *)
Replaced(legs, qs, i) ==
  /\ RentalFor(legs[i]) # NoRental /\ qs[i].source # "card"
  /\ Worth(legs, qs, RentalFor(legs[i]))

(* The coupon replaces the quotes of a whole group or leaves a quote       *)
(* alone, and a rental's price stands at the first leg of its group.       *)
LEMMA CouponGroups ==
  ASSUME rented \subseteq RentalIds, NEW legs, DOMAIN legs \subseteq Nat, NEW qs,
         NEW i \in DOMAIN legs
  PROVE  LET r == RentalFor(legs[i])
             g == Group(legs, qs, r)
         IN /\ ~ Replaced(legs, qs, i) => Coupon(legs, qs)[i] = qs[i]
            /\ Replaced(legs, qs, i) =>
                 /\ r \in rented /\ i \in g /\ Min(g) \in g
                 /\ \A j \in g : /\ Replaced(legs, qs, j) /\ RentalFor(legs[j]) = r
                                 /\ Coupon(legs, qs)[j]
                                      = RentalQuote(r, IF j = Min(g) THEN Rentals[r].price ELSE 0)
<1> DEFINE r == RentalFor(legs[i])
           g == Group(legs, qs, r)
<1>1. ~ Replaced(legs, qs, i) => Coupon(legs, qs)[i] = qs[i]
  BY DEF Coupon, Replaced
<1>2. ASSUME Replaced(legs, qs, i)
      PROVE  /\ r \in rented /\ i \in g /\ Min(g) \in g
             /\ \A j \in g : /\ Replaced(legs, qs, j) /\ RentalFor(legs[j]) = r
                             /\ Coupon(legs, qs)[j]
                                  = RentalQuote(r, IF j = Min(g) THEN Rentals[r].price ELSE 0)
  <2>1. r \in rented
    BY <1>2, RentalFits DEF Replaced
  <2>2. i \in g /\ g \in SUBSET Nat
    BY <1>2 DEF Group, Replaced
  <2>3. Min(g) \in g
    <3> HIDE DEF g
    <3>1. QED
      BY <2>2, MinIsLeast
  <2>4. ASSUME NEW j \in g
        PROVE  /\ Replaced(legs, qs, j) /\ RentalFor(legs[j]) = r
               /\ Coupon(legs, qs)[j]
                    = RentalQuote(r, IF j = Min(g) THEN Rentals[r].price ELSE 0)
    <3>1. j \in DOMAIN legs /\ RentalFor(legs[j]) = r /\ qs[j].source # "card"
      BY DEF Group
    <3>2. r # NoRental /\ Worth(legs, qs, r)
      BY <1>2 DEF Replaced
    <3>3. QED
      BY <3>1, <3>2 DEF Coupon, Replaced
  <2>5. QED
    BY <2>1, <2>2, <2>3, <2>4
<1>3. QED
  BY <1>1, <1>2

(* The coupon charges each rental it uses once, and the fee changes no     *)
(* amount.                                                                 *)
LEMMA CouponChargesOnce ==
  ASSUME rented \subseteq RentalIds, NEW n \in Nat, NEW legs, DOMAIN legs = 1..n, NEW qs,
         \A i \in DOMAIN legs : Caused(legs[i], qs[i])
  PROVE  ChargedOnce(WithFee(legs, Coupon(legs, qs)))
<1> DEFINE cs == Coupon(legs, qs)
           ws == WithFee(legs, cs)
<1>0. DOMAIN cs = DOMAIN legs /\ DOMAIN ws = DOMAIN legs
  BY DEF Coupon, WithFee
<1>1. /\ DOMAIN cs = DOMAIN legs /\ DOMAIN ws = DOMAIN legs
      /\ DOMAIN legs \subseteq Nat
  BY <1>0
<1>2. IsFiniteSet(DOMAIN legs)
  BY FS_Interval
<1>3. \A i \in DOMAIN legs : Caused(legs[i], ws[i]) /\ Caused(legs[i], cs[i])
  <2>1. \A i \in DOMAIN legs : Caused(legs[i], ws[i])
    BY ShownCaused
  <2>2. QED
    BY <2>1, CouponCaused
<1>4. \A i \in DOMAIN legs : /\ ws[i].amount = cs[i].amount /\ ws[i].source = cs[i].source
                             /\ ws[i].rental = cs[i].rental
  BY <1>1, <1>3 DEF WithFee, Caused, Quotes
<1>5. \A i \in DOMAIN legs : cs[i].amount \in Int /\ ws[i].fee \in Int
  BY <1>3, FareAssumption DEF Caused, Quotes
<1>6. ASSUME NEW i \in DOMAIN legs, cs[i].source = "rental"
      PROVE  /\ cs[i].rental \in rented
             /\ \E f \in DOMAIN legs :
                  /\ cs[f].rental = cs[i].rental /\ cs[f].amount = Rentals[cs[i].rental].price
                  /\ \A j \in DOMAIN legs \ {f} :
                       cs[j].rental = cs[i].rental => cs[j].amount = 0
  <2> DEFINE r == RentalFor(legs[i])
             g == Group(legs, qs, r)
  <2>1. ASSUME NEW j \in DOMAIN legs, cs[j].rental # NoRental \/ cs[j].source = "rental"
        PROVE  Replaced(legs, qs, j)
    <3>1. cs[j].source = "rental"
      BY <1>3, <2>1 DEF Caused
    <3>2. CASE cs[j] = qs[j]
      <4> DEFINE t == RentalFor(legs[j])
      <4>1. t # NoRental /\ j \in Group(legs, qs, t) /\ j \notin Singles(legs, qs, t)
        BY <3>1, <3>2 DEF Caused, Group, Singles
      <4>2. QED
        BY <3>1, <3>2, <4>1 DEF Replaced, Worth
    <3>3. CASE cs[j] # qs[j]
      BY <1>1, <3>3, CouponGroups
    <3>4. QED
      BY <3>2, <3>3
  <2>2. /\ r \in rented /\ Min(g) \in g
        /\ \A j \in g : cs[j] = RentalQuote(r, IF j = Min(g) THEN Rentals[r].price ELSE 0)
        /\ i \in g
    BY <1>1, <1>6, <2>1, CouponGroups
  <2>3. \A j \in g : cs[j].rental = r
    BY <2>2 DEF RentalQuote, Quote
  <2>4. Min(g) \in DOMAIN legs /\ cs[Min(g)].amount = Rentals[r].price
    BY <2>2 DEF RentalQuote, Quote, Group
  <2>5. ASSUME NEW j \in DOMAIN legs \ {Min(g)}, cs[j].rental = r PROVE cs[j].amount = 0
    <3>1. r # NoRental
      BY <2>2, RentalAssumption
    <3>2. Replaced(legs, qs, j)
      BY <2>1, <2>5, <3>1
    <3>3. cs[j].rental = RentalFor(legs[j])
      <4> DEFINE q == RentalFor(legs[j])
                 a == IF j = Min(Group(legs, qs, q)) THEN Rentals[q].price ELSE 0
      <4>1. cs[j] = RentalQuote(q, a)
        BY <3>2 DEF Coupon, Replaced
      <4>2. QED
        BY <4>1 DEF RentalQuote, Quote
    <3>4. j \in g
      BY <2>5, <3>2, <3>3 DEF Group, Replaced
    <3>5. QED
      BY <2>2, <2>5, <3>4 DEF RentalQuote, Quote
  <2>6. QED
    BY <2>2, <2>3, <2>4, <2>5
<1>7. \A i \in DOMAIN legs : ws[i].source # "rental" => ws[i].rental = NoRental
  BY <1>3 DEF Caused
<1> HIDE DEF cs, ws
<1>8. ChargedOnce(ws)
  <2>1. ASSUME NEW i \in DOMAIN ws, ws[i].source = "rental"
        PROVE  /\ ws[i].rental \in rented
               /\ \E f \in DOMAIN ws :
                    /\ ws[f].rental = ws[i].rental
                    /\ ws[f].amount = Rentals[ws[i].rental].price
                    /\ \A j \in DOMAIN ws \ {f} :
                         ws[j].rental = ws[i].rental => ws[j].amount = 0
    <3>1. i \in DOMAIN legs /\ cs[i].source = "rental" /\ ws[i].rental = cs[i].rental
      BY <1>1, <1>4, <2>1
    <3>2. PICK f \in DOMAIN legs :
            /\ cs[f].rental = cs[i].rental /\ cs[f].amount = Rentals[cs[i].rental].price
            /\ \A j \in DOMAIN legs \ {f} : cs[j].rental = cs[i].rental => cs[j].amount = 0
      BY <1>6, <3>1
    <3>3. QED
      BY <1>1, <1>4, <1>6, <3>1, <3>2
  <2>2. \A i \in DOMAIN ws : /\ ws[i].amount \in Int /\ ws[i].fee \in Int
                             /\ ws[i].source # "rental" => ws[i].rental = NoRental
    BY <1>1, <1>4, <1>5, <1>7
  <2>3. IsFiniteSet(DOMAIN ws)
    BY <1>1, <1>2
  <2>4. QED
    BY <2>1, <2>2, <2>3 DEF ChargedOnce
<1>9. QED
  BY <1>8 DEF ws, cs

(* The total of a journey is its tickets and fees, and every rental it     *)
(* uses once; _charged_rentals finds the rentals it uses.                  *)
TicketsOf(qs) ==
  [i \in DOMAIN qs |->
     qs[i].fee + (IF qs[i].source = "rental" THEN 0 ELSE qs[i].amount)]

(* A total is the tickets bought plus, once each, the rentals used.        *)
LEMMA TotalSplits ==
  ASSUME rented \subseteq RentalIds, NEW qs, ChargedOnce(qs)
  PROVE  /\ ChargedRentals(qs) = UsedRentals(qs)
         /\ IsFiniteSet(UsedRentals(qs)) /\ SumFunction(TicketsOf(qs)) \in Int
         /\ TotalPrice(qs) = SumFunction(TicketsOf(qs))
                              + SumFunctionOnSet(RentalPrices, UsedRentals(qs))
<1> DEFINE D == DOMAIN qs
           U == UsedRentals(qs)
           R == U \cup {NoRental}
           tickets == TicketsOf(qs)
           charge == [i \in D |-> IF qs[i].source = "rental" THEN qs[i].amount ELSE 0]
           whole == [i \in D |-> qs[i].amount + qs[i].fee]
           of == [i \in D |-> qs[i].rental]
           total == [r \in R |-> SumFunctionOnSet(charge, {i \in D : of[i] = r})]
<1>1. IsFiniteSet(D) /\ \A i \in D : qs[i].amount \in Int /\ qs[i].fee \in Int
  BY DEF ChargedOnce
<1>2. ASSUME NEW i \in D, qs[i].rental # NoRental
      PROVE  qs[i].source = "rental" /\ qs[i].rental \in U /\ qs[i].rental \in rented
  BY <1>2 DEF ChargedOnce, UsedRentals
<1>3. ASSUME NEW r \in U
      PROVE  /\ r \in rented /\ r # NoRental
             /\ \E f \in D : /\ qs[f].rental = r /\ qs[f].amount = Rentals[r].price
                             /\ \A j \in D \ {f} : qs[j].rental = r => qs[j].amount = 0
  <2>1. PICK i \in D : qs[i].rental = r
    BY DEF UsedRentals
  <2>2. r # NoRental
    BY RentalAssumption DEF UsedRentals
  <2>3. QED
    BY <1>2, <2>1, <2>2 DEF ChargedOnce
<1>4. ChargedRentals(qs) = U
  <2>1. ChargedRentals(qs) \subseteq U
    BY DEF ChargedRentals, UsedRentals
  <2>2. U \subseteq ChargedRentals(qs)
    BY <1>3 DEF ChargedRentals
  <2>3. QED
    BY <2>1, <2>2
<1>5. IsFiniteSet(U)
  <2>1. DOMAIN of = D /\ U \subseteq {of[i] : i \in D}
    BY DEF UsedRentals
  <2> HIDE DEF of, U, D
  <2>2. IsFiniteSet({of[i] : i \in D})
    BY <1>1, <2>1, ImageIsFinite
  <2>3. QED
    BY <2>1, <2>2, FS_Subset
<1>6. IsFiniteSet(R) /\ \A i \in D : of[i] \in R
  <2>1. IsFiniteSet(R)
    BY <1>5, FS_AddElement
  <2>2. QED
    BY <1>2, <2>1
<1>7. /\ \A i \in D : tickets[i] \in Int /\ charge[i] \in Int
                     /\ whole[i] = tickets[i] + charge[i]
      /\ DOMAIN tickets = D /\ DOMAIN whole = D
  BY <1>1 DEF TicketsOf
<1>8. ASSUME NEW r \in U PROVE total[r] = RentalPrices[r]
  <2> DEFINE g == {i \in D : of[i] = r}
  <2>1. PICK f \in D : /\ qs[f].rental = r /\ qs[f].amount = Rentals[r].price
                       /\ \A j \in D \ {f} : qs[j].rental = r => qs[j].amount = 0
    BY <1>3
  <2>2. f \in g /\ charge[f] = RentalPrices[r] /\ RentalPrices[r] \in Int
    <3>1. qs[f].source = "rental"
      BY <1>2, <1>3, <2>1
    <3>2. QED
      BY <2>1, <3>1, RentalAssumption DEF RentalPrices, UsedRentals
  <2>3. \A j \in g \ {f} : charge[j] = 0
    BY <2>1
  <2>4. /\ IsFiniteSet(g) /\ IsFiniteSet(g \ {f})
        /\ \A j \in g : charge[j] \in Int
    BY <1>1, <1>7, FS_Subset
  <2> HIDE DEF g, charge
  <2>5. SumFunctionOnSet(charge, g) = charge[f] + SumFunctionOnSet(charge, g \ {f})
    BY <2>2, <2>4, SumRemove
  <2>6. SumFunctionOnSet(charge, g \ {f}) = 0
    BY <2>3, <2>4, SumZero
  <2>7. SumFunctionOnSet(charge, g) = RentalPrices[r]
    BY <2>2, <2>5, <2>6
  <2>8. QED
    BY <2>7 DEF g
<1>9. total[NoRental] = 0
  <2> DEFINE g == {i \in D : of[i] = NoRental}
  <2>1. IsFiniteSet(g)
    BY <1>1, FS_Subset
  <2>2. \A i \in g : charge[i] = 0
    BY RentalAssumption DEF ChargedOnce
  <2> HIDE DEF g, charge
  <2>3. SumFunctionOnSet(charge, g) = 0
    BY <2>1, <2>2, SumZero
  <2>4. QED
    BY <2>3 DEF g
<1>10. NoRental \notin U /\ R \ {NoRental} = U
  BY <1>3
<1>11. \A r \in U : RentalPrices[r] \in Int
  BY RentalAssumption DEF RentalPrices, UsedRentals
<1>12. /\ \A r \in R : total[r] = SumFunctionOnSet(charge, {i \in D : of[i] = r})
       /\ \A r \in R : total[r] \in Int
  <2> HIDE DEF charge, of
  <2>1. \A r \in R : total[r] = SumFunctionOnSet(charge, {i \in D : of[i] = r})
    OBVIOUS
  <2> HIDE DEF total
  <2>2. \A r \in R : total[r] \in Int
    BY <1>8, <1>9, <1>11
  <2>3. QED
    BY <2>1, <2>2
<1> HIDE DEF charge, whole, of, total, U, R, tickets, D
<1>13. SumFunctionOnSet(whole, D)
         = SumFunctionOnSet(tickets, D) + SumFunctionOnSet(charge, D)
  BY <1>1, <1>7, SumAdds
<1>14. SumFunctionOnSet(charge, D) = SumFunctionOnSet(total, R)
  <2>1. IsFiniteSet(D) /\ IsFiniteSet(R)
    BY <1>1, <1>6
  <2>2. \A i \in D : charge[i] \in Int
    BY <1>7
  <2>3. \A i \in D : of[i] \in R
    BY <1>6
  <2>4. \A r \in R : total[r] = SumFunctionOnSet(charge, {i \in D : of[i] = r})
    BY <1>12
  <2>5. Groups(D, charge, R, of, total)
    BY <2>1, <2>2, <2>3, <2>4 DEF Groups
  <2>6. QED
    BY <2>5, SumByGroup
<1>15. SumFunctionOnSet(total, R) = SumFunctionOnSet(RentalPrices, U)
  <2>1. NoRental \in R
    BY DEF R
  <2>2. SumFunctionOnSet(total, R) = total[NoRental] + SumFunctionOnSet(total, R \ {NoRental})
    BY <1>6, <1>12, <2>1, SumRemove
  <2>3. SumFunctionOnSet(total, U) = SumFunctionOnSet(RentalPrices, U)
    BY <1>5, <1>8, <1>11, SumAgrees
  <2>4. SumFunctionOnSet(RentalPrices, U) \in Int
    BY <1>5, <1>11, SumRemove
  <2>5. QED
    BY <1>9, <1>10, <2>2, <2>3, <2>4
<1>16. SumFunctionOnSet(tickets, D) \in Int
  BY <1>1, <1>7, SumRemove
<1>17. TotalPrice(qs) = SumFunctionOnSet(whole, D) /\ SumFunction(tickets) = SumFunctionOnSet(tickets, D)
  BY <1>7 DEF TotalPrice, SumFunction, whole, D
<1>18. QED
  BY <1>4, <1>5, <1>13, <1>14, <1>15, <1>16, <1>17 DEF U, tickets

(* Where every leg has a firm single, the coupon replaces whole groups,    *)
(* each by a rental that costs less than its singles together.             *)
LEMMA CouponPays ==
  ASSUME rented \subseteq RentalIds, NEW n \in Nat, NEW legs, DOMAIN legs = 1..n, NEW qs,
         DOMAIN qs = DOMAIN legs,
         \A i \in DOMAIN legs : /\ qs[i] \in Quotes /\ qs[i].source # "rental"
                                /\ qs[i].confidence = "firm",
         NEW e \in DOMAIN legs, Replaced(legs, qs, e)
  PROVE  SumFunctionOnSet(Amounts(Coupon(legs, qs)), DOMAIN legs)
           < SumFunctionOnSet(Amounts(qs), DOMAIN legs)
<1> DEFINE D == DOMAIN legs
           cs == Coupon(legs, qs)
           own == Amounts(qs)
           shown == Amounts(cs)
           of == [i \in D |-> IF Replaced(legs, qs, i) THEN RentalFor(legs[i]) ELSE NoRental]
           R == {of[i] : i \in D}
           before == [r \in R |-> SumFunctionOnSet(own, {i \in D : of[i] = r})]
           after == [r \in R |-> SumFunctionOnSet(shown, {i \in D : of[i] = r})]
<1>0. DOMAIN cs = D
  BY DEF Coupon
<1>1. IsFiniteSet(D) /\ D \in SUBSET Nat
  BY FS_Interval
<1>2. IsFiniteSet(R)
  <2>1. DOMAIN of = D
    OBVIOUS
  <2> HIDE DEF of, D
  <2>2. QED
    BY <1>1, <2>1, ImageIsFinite
<1>3. ASSUME NEW i \in D
      PROVE  /\ own[i] = qs[i].amount /\ own[i] \in Int /\ shown[i] = cs[i].amount
             /\ ~ Replaced(legs, qs, i) => shown[i] = own[i]
             /\ Replaced(legs, qs, i) => of[i] = RentalFor(legs[i]) /\ of[i] # NoRental
  <2>1. own[i] = qs[i].amount /\ own[i] \in Int
    BY DEF Amounts, Quotes
  <2>2. shown[i] = cs[i].amount
    BY <1>0 DEF Amounts
  <2>3. ~ Replaced(legs, qs, i) => cs[i] = qs[i]
    BY DEF Coupon, Replaced
  <2>4. QED
    BY <2>1, <2>2, <2>3 DEF Replaced
<1>4. ASSUME NEW r \in R, r # NoRental
      PROVE  /\ before[r] \in Int /\ after[r] \in Int /\ after[r] < before[r]
             /\ \A i \in D : of[i] = r => shown[i] \in Int
  <2> DEFINE g == Group(legs, qs, r)
  <2>1. PICK i \in D : of[i] = r
    OBVIOUS
  <2>2. Replaced(legs, qs, i) /\ RentalFor(legs[i]) = r
    BY <1>4, <2>1
  <2>3. /\ r \in rented /\ Min(g) \in g
        /\ \A j \in g : /\ Replaced(legs, qs, j) /\ RentalFor(legs[j]) = r
                        /\ cs[j] = RentalQuote(r, IF j = Min(g) THEN Rentals[r].price ELSE 0)
    BY <1>1, <2>2, CouponGroups
  <2>4. {j \in D : of[j] = r} = g
    <3>1. \A j \in g : j \in D
      BY DEF Group
    <3>2. \A j \in D : of[j] = r => j \in g
      BY <1>4 DEF Group, Replaced
    <3>3. QED
      BY <2>3, <3>1, <3>2
  <2>5. \A j \in g : shown[j] = IF j = Min(g) THEN Rentals[r].price ELSE 0
    BY <1>3, <2>3, <2>4 DEF RentalQuote, Quote
  <2>6. Rentals[r].price \in Int
    BY <2>3, RentalAssumption
  <2>7. IsFiniteSet(g) /\ IsFiniteSet(g \ {Min(g)}) /\ g \in SUBSET D
    BY <1>1, <2>4, FS_Subset
  <2>8. Singles(legs, qs, r) = g
    BY <2>7 DEF Singles, IsPriced
  <2>9. Rentals[r].price < SumFunctionOnSet(own, g)
    BY <2>2, <2>8 DEF Replaced, Worth
  <2>10. \A j \in g : own[j] \in Int
    BY <1>3, <2>7
  <2> DEFINE m == Min(g)
  <2> HIDE DEF g, own, shown, m
  <2>11. SumFunctionOnSet(own, g) \in Int
    BY <2>7, <2>10, SumRemove
  <2>12. SumFunctionOnSet(shown, g) = Rentals[r].price
    <3>1. \A j \in g : shown[j] \in Int
      BY <2>5, <2>6
    <3>2. SumFunctionOnSet(shown, g) = shown[m] + SumFunctionOnSet(shown, g \ {m})
      BY <2>3, <2>7, <3>1, SumRemove DEF m
    <3>3. SumFunctionOnSet(shown, g \ {m}) = 0
      BY <2>5, <2>7, SumZero DEF m
    <3>4. shown[m] = Rentals[r].price
      BY <2>3, <2>5 DEF m
    <3>5. QED
      BY <2>6, <3>2, <3>3, <3>4
  <2>13. before[r] = SumFunctionOnSet(own, g) /\ after[r] = SumFunctionOnSet(shown, g)
    BY <2>4
  <2> HIDE DEF before, after
  <2>14. \A j \in g : shown[j] \in Int
    BY <2>5, <2>6
  <2>15. QED
    BY <2>4, <2>6, <2>9, <2>11, <2>12, <2>13, <2>14
<1>5. \A i \in D : shown[i] \in Int
  <2> SUFFICES ASSUME NEW i \in D PROVE shown[i] \in Int
    OBVIOUS
  <2>1. CASE Replaced(legs, qs, i)
    BY <1>3, <1>4, <2>1
  <2>2. CASE ~ Replaced(legs, qs, i)
    BY <1>3, <2>2
  <2>3. QED
    BY <2>1, <2>2
<1>6. ASSUME NEW r \in R, r = NoRental
      PROVE  before[r] \in Int /\ after[r] = before[r]
  <2> DEFINE g == {i \in D : of[i] = r}
  <2>1. IsFiniteSet(g)
    BY <1>1, FS_Subset
  <2>2. \A i \in g : shown[i] = own[i] /\ own[i] \in Int
    BY <1>3, <1>6
  <2>3. before[r] = SumFunctionOnSet(own, g) /\ after[r] = SumFunctionOnSet(shown, g)
    OBVIOUS
  <2> HIDE DEF g, own, shown, before, after
  <2>4. QED
    BY <2>1, <2>2, <2>3, SumAgrees, SumRemove
<1>7. of[e] \in R /\ of[e] # NoRental
  BY <1>3
<1>8. /\ \A r \in R : before[r] = SumFunctionOnSet(own, {i \in D : of[i] = r})
      /\ \A r \in R : after[r] = SumFunctionOnSet(shown, {i \in D : of[i] = r})
      /\ \A i \in D : of[i] \in R
  OBVIOUS
<1> HIDE DEF own, shown, of, R, before, after, D
<1>9. Groups(D, own, R, of, before)
  BY <1>1, <1>2, <1>3, <1>8 DEF Groups
<1>10. Groups(D, shown, R, of, after)
  BY <1>1, <1>2, <1>5, <1>8 DEF Groups
<1>11. SumFunctionOnSet(after, R) < SumFunctionOnSet(before, R)
  <2>1. \A r \in R : after[r] \in Int /\ before[r] \in Int /\ after[r] <= before[r]
    BY <1>4, <1>6
  <2>2. after[of[e]] < before[of[e]]
    BY <1>4, <1>7
  <2>3. QED
    BY <1>2, <1>7, <2>1, <2>2, SumAtMost
<1>12. SumFunctionOnSet(shown, D) < SumFunctionOnSet(own, D)
  BY <1>9, <1>10, <1>11, SumByGroup
<1>13. QED
  BY <1>12 DEF shown, own, D
-----------------------------------------------------------------------------
(***************************************************************************)
(* The invariant of the prices: what is shown of a direction is what the   *)
(* coupon and the fee make of what was asked, and charges each rental once.*)
(***************************************************************************)
Reconciled(d) ==
  /\ DOMAIN asked[d] = DOMAIN Journeys[d]
  /\ asked[d] = [i \in DOMAIN Journeys[d] |-> asked[d][i]]
  /\ \A i \in DOMAIN Journeys[d] : Caused(Journeys[d][i], asked[d][i])
  /\ priced[d] = WithFee(Journeys[d], Coupon(Journeys[d], asked[d]))

PricedInv ==
  /\ CausedInv
  /\ asked = [d \in Directions |-> asked[d]]
  /\ \A d \in Directions : ChargedOnce(priced[d]) /\ (priced[d] = <<>> \/ Reconciled(d))

(* No legs, no rentals to charge.                                          *)
LEMMA NothingCharged == ChargedOnce(<<>>)
BY FS_EmptySet DEF ChargedOnce

(* Nothing but the cards and rentals read, and the feed, decides what the  *)
(* coupon does.                                                            *)
LEMMA CouponStable ==
  ASSUME UNCHANGED <<region, held, rented>>, NEW legs, NEW qs
  PROVE  Coupon(legs, qs)' = Coupon(legs, qs)
<1>1. ASSUME NEW leg PROVE RentalFor(leg)' = RentalFor(leg)
  <2>1. \A c : Covers(c, leg)' <=> Covers(c, leg)
    BY DEF Covers
  <2>2. QED
    BY <2>1 DEF RentalFor
<1>2. ASSUME NEW r PROVE Group(legs, qs, r)' = Group(legs, qs, r)
  BY <1>1 DEF Group
<1>3. ASSUME NEW r PROVE Worth(legs, qs, r)' <=> Worth(legs, qs, r)
  BY <1>2 DEF Worth, Singles
<1>4. QED
  BY <1>1, <1>2, <1>3 DEF Coupon

(* At the start nothing is priced.                                         *)
LEMMA PricedInit ==
  ASSUME Init
  PROVE  PricedInv
BY CausedInit, NothingCharged DEF Init, PricedInv

(* Every step keeps what is priced charged once and reconciled with the    *)
(* quotes before the coupon.                                               *)
LEMMA PricedStep ==
  ASSUME PricedInv, [Next]_vars
  PROVE  PricedInv'
<1>0. CausedInv /\ CausedInv'
  BY CausedStep DEF PricedInv
<1>1. ASSUME \A d \in Directions : priced'[d] = <<>>,
             asked' = [d \in Directions |-> asked'[d]]
      PROVE  PricedInv'
  <2>1. ChargedOnce(<<>>)'
    BY FS_EmptySet DEF ChargedOnce
  <2>2. \A d \in Directions : ChargedOnce(priced[d])'
    BY <1>1, <2>1
  <2>3. QED
    BY <1>0, <1>1, <2>2 DEF PricedInv
<1>2. CASE \/ \E c \in Cards, kind \in {"partial", "full"} : AddCard(c, kind)
           \/ \E c \in Cards : RemoveCard(c)
           \/ \E r \in RentalIds : AddRental(r) \/ RemoveRental(r)
           \/ Request
  <2>1. at = "idle" /\ asked' = asked /\ priced' = priced
    BY <1>2 DEF AddCard, RemoveCard, AddRental, RemoveRental, Request, Register
  <2>2. QED
    BY <1>0, <1>1, <2>1 DEF PricedInv, CausedInv
<1>3. CASE Answer
  BY <1>1, <1>3 DEF Answer
<1>4. ASSUME UNCHANGED <<region, held, rented>>, NEW e \in Directions,
             asked'[e] = asked[e], priced'[e] = priced[e]
      PROVE  ChargedOnce(priced[e])' /\ (priced'[e] = <<>> \/ Reconciled(e)')
  <2>1. ChargedOnce(priced[e])'
    BY <1>4 DEF ChargedOnce, PricedInv
  <2>2. ASSUME Reconciled(e) PROVE Reconciled(e)'
    <3>1. Coupon(Journeys[e], asked[e])' = Coupon(Journeys[e], asked[e])
      BY <1>4, CouponStable
    <3>2. \A i \in DOMAIN Journeys[e] : Caused(Journeys[e][i], asked[e][i])'
      BY <1>4, <2>2, CausedStable DEF Reconciled
    <3>3. QED
      BY <1>4, <2>2, <3>1, <3>2 DEF Reconciled
  <2>3. QED
    BY <1>4, <2>1, <2>2 DEF PricedInv
<1>5. ASSUME NEW d \in Directions, Search(d) PROVE PricedInv'
  <2> DEFINE legs == Journeys[d]
  <2>1. UNCHANGED <<region, rental, rented, held>>
    BY <1>5 DEF Search
  <2>2. PICK qs \in [DOMAIN legs -> UNION {LegQuotes(legs[i]) : i \in DOMAIN legs}] :
               /\ \A i \in DOMAIN legs : qs[i] \in LegQuotes(legs[i])
               /\ asked' = [asked EXCEPT ![d] = qs]
               /\ priced' = [priced EXCEPT ![d] = WithFee(legs, Coupon(legs, qs))]
    BY <1>5 DEF Search
  <2>3. \A i \in DOMAIN legs : Caused(legs[i], qs[i])
    BY <1>0, <2>2, LegQuotesCaused, JourneyAssumption DEF CausedInv
  <2>4. ChargedOnce(WithFee(legs, Coupon(legs, qs)))
    BY <1>0, <2>3, CouponChargesOnce, JourneyAssumption DEF CausedInv
  <2>5. /\ asked' = [e \in Directions |-> asked'[e]]
        /\ asked'[d] = qs /\ priced'[d] = WithFee(legs, Coupon(legs, qs))
        /\ \A e \in Directions \ {d} : asked'[e] = asked[e] /\ priced'[e] = priced[e]
    BY <1>0, <2>2 DEF CausedInv, PricedInv
  <2>6. ChargedOnce(priced[d])'
    BY <2>1, <2>4, <2>5 DEF ChargedOnce
  <2>7. Reconciled(d)'
    <3>1. Coupon(legs, asked[d])' = Coupon(legs, qs)
      BY <2>1, <2>5, CouponStable
    <3>2. \A i \in DOMAIN legs : Caused(legs[i], asked[d][i])'
      BY <2>1, <2>3, <2>5, CausedStable
    <3>3. DOMAIN qs = DOMAIN legs /\ qs = [i \in DOMAIN legs |-> qs[i]]
      BY <2>2
    <3>4. QED
      BY <2>5, <3>1, <3>2, <3>3 DEF Reconciled
  <2>8. \A e \in Directions : ChargedOnce(priced[e])' /\ (priced'[e] = <<>> \/ Reconciled(e)')
    BY <1>4, <2>1, <2>5, <2>6, <2>7
  <2>9. QED
    BY <1>0, <2>5, <2>8 DEF PricedInv
<1>6. CASE UNCHANGED vars
  BY <1>0, <1>4, <1>6 DEF vars, PricedInv
<1>7. QED
  BY <1>2, <1>3, <1>5, <1>6 DEF Next

(* What is priced is always charged once and reconciled.                   *)
LEMMA PricedAlways == Spec => []PricedInv
<1>1. Init => PricedInv
  BY PricedInit
<1>2. PricedInv /\ [Next]_vars => PricedInv'
  BY PricedStep
<1>3. QED
  BY <1>1, <1>2, PTL DEF Spec

(* RentalOnlyWhenBetter of Cards: the coupon (_apply_rental_coupon) sends  *)
(* no traveller to a rental for a journey whose firm singles are together  *)
(* no dearer, whatever the rentals, the journeys and the fares.            *)
THEOREM RentalsSaveMoney == Spec => []RentalOnlyWhenBetter
<1>1. PricedInv => RentalOnlyWhenBetter
  <2> SUFFICES ASSUME PricedInv, NEW d \in Directions, Shown(d) # {},
                      {i \in Shown(d) : asked[d][i].source # "rental"} = Shown(d),
                      \A i \in {j \in Shown(d) : asked[d][j].source # "rental"} :
                        asked[d][i].confidence = "firm",
                      priced[d] # WithFee(Journeys[d], asked[d])
               PROVE  SumFunctionOnSet(Amounts(priced[d]), Shown(d))
                        < SumFunctionOnSet(Amounts(asked[d]), Shown(d))
    BY DEF RentalOnlyWhenBetter
  <2> DEFINE legs == Journeys[d]
             qs == asked[d]
             cs == Coupon(legs, qs)
             ws == priced[d]
             D == DOMAIN legs
  <2>1. Reconciled(d)
    BY DEF PricedInv, Shown
  <2>2. ws = WithFee(legs, cs) /\ DOMAIN ws = D /\ Shown(d) = D /\ DOMAIN cs = D
        /\ DOMAIN qs = D
    BY <2>1 DEF Reconciled, Shown, WithFee, Coupon
  <2>3. rented \subseteq RentalIds /\ Len(legs) \in Nat /\ D = 1..Len(legs)
    BY JourneyAssumption DEF PricedInv, CausedInv
  <2>4. \A i \in D : Caused(legs[i], qs[i]) /\ Caused(legs[i], cs[i])
    BY <2>1, <2>3, CouponCaused DEF Reconciled
  <2>5. \A i \in D : /\ qs[i] \in Quotes /\ qs[i].source # "rental"
                     /\ qs[i].confidence = "firm"
    BY <2>2, <2>4 DEF Caused
  <2>6. ASSUME NEW i \in D PROVE ws[i].amount = cs[i].amount /\ cs[i].amount \in Int
    <3>1. cs[i] \in Quotes
      BY <2>4 DEF Caused
    <3>2. ws[i] = cs[i] \/ ws[i] = [cs[i] EXCEPT !.fee = Fee]
      BY <2>2 DEF WithFee
    <3> HIDE DEF ws, cs
    <3>3. QED
      BY <3>1, <3>2 DEF Quotes
  <2>7. PICK e \in D : Replaced(legs, qs, e)
    <3>1. cs # qs
      BY <2>2
    <3>2. qs = [i \in D |-> qs[i]] /\ cs = [i \in D |-> cs[i]]
      BY <2>1 DEF Reconciled, Coupon
    <3>3. \E i \in D : cs[i] # qs[i]
      BY <3>1, <3>2
    <3>4. QED
      BY <3>3 DEF Coupon, Replaced
  <2>8. SumFunctionOnSet(Amounts(cs), D) < SumFunctionOnSet(Amounts(qs), D)
    BY <2>2, <2>3, <2>5, <2>7, CouponPays
  <2>9. SumFunctionOnSet(Amounts(ws), D) = SumFunctionOnSet(Amounts(cs), D)
    <3>1. IsFiniteSet(D)
      BY <2>3, FS_Interval
    <3>2. \A i \in D : Amounts(cs)[i] \in Int /\ Amounts(ws)[i] = Amounts(cs)[i]
      BY <2>2, <2>6 DEF Amounts
    <3>3. QED
      BY <3>1, <3>2, SumAgrees
  <2>10. QED
    BY <2>2, <2>8, <2>9
<1>2. QED
  BY <1>1, PricedAlways, PTL

(* TripPaysOnce of Cards: RoundTrip.total_price_ore is every ticket and    *)
(* fee of both directions and every rental once, however many legs and     *)
(* directions use it and however the prices compare.                       *)
THEOREM TripsPayOnce == Spec => []TripPaysOnce
<1>1. PricedInv => TripPaysOnce
  <2> SUFFICES ASSUME PricedInv
               PROVE  RoundTripPrice =
                        SumFunction(TicketsOf(priced["out"])) + SumFunction(TicketsOf(priced["back"]))
                          + SumFunctionOnSet(RentalPrices,
                              {r \in RentalIds : \E d \in Directions : \E i \in Shown(d) :
                                                   priced[d][i].rental = r})
    BY DEF TripPaysOnce, TicketsOf, Shown
  <2> DEFINE U == UsedRentals(priced["out"])
             V == UsedRentals(priced["back"])
             t == SumFunction(TicketsOf(priced["out"]))
             u == SumFunction(TicketsOf(priced["back"]))
             sum(s) == SumFunctionOnSet(RentalPrices, s)
  <2>1. rented \subseteq RentalIds /\ "out" \in Directions /\ "back" \in Directions
    BY DEF PricedInv, CausedInv, Directions
  <2>2. /\ ChargedRentals(priced["out"]) = U /\ IsFiniteSet(U) /\ t \in Int
        /\ TotalPrice(priced["out"]) = t + sum(U)
    BY <2>1, TotalSplits DEF PricedInv
  <2>3. /\ ChargedRentals(priced["back"]) = V /\ IsFiniteSet(V) /\ u \in Int
        /\ TotalPrice(priced["back"]) = u + sum(V)
    BY <2>1, TotalSplits DEF PricedInv
  <2>4. {r \in RentalIds : \E d \in Directions : \E i \in Shown(d) : priced[d][i].rental = r}
          = U \cup V
    BY DEF UsedRentals, Directions, Shown
  <2>5. \A r \in U \cup V : RentalPrices[r] \in Int
    BY RentalAssumption DEF RentalPrices, UsedRentals
  <2>6. RoundTripPrice = t + sum(U) + (u + sum(V)) - sum(U \cap V)
    BY <2>2, <2>3 DEF RoundTripPrice
  <2> HIDE DEF U, V, t, u
  <2>7. sum(U) \in Int /\ sum(V) \in Int
    BY <2>2, <2>3, <2>5, SumRemove
  <2>8. sum(U \cap V) \in Int
    <3>1. IsFiniteSet(U \cap V)
      BY <2>2, FS_Intersection
    <3>2. QED
      BY <2>5, <3>1, SumRemove
  <2>9. sum(U) + sum(V) - sum(U \cap V) = sum(U \cup V)
    BY <2>2, <2>3, <2>5, SumOfUnion
  <2> HIDE DEF sum
  <2>10. RoundTripPrice = t + u + sum(U \cup V)
    BY <2>2, <2>3, <2>6, <2>7, <2>8, <2>9
  <2>11. QED
    BY <2>4, <2>10 DEF sum, t, u
<1>2. QED
  BY <1>1, PricedAlways, PTL
=============================================================================
