----------------------------- MODULE PriceFloors -----------------------------
(***************************************************************************)
(* The lower bounds on fares the router searches with (routing/floors.py)  *)
(* and how they are fitted to the fares that searches have logged          *)
(* (calibration.py).  A floor is a base for each boarding and a rate for   *)
(* each kilometre ridden, both whole öre.                                  *)
(*                                                                         *)
(* A line that is fitted has the height (base + slope * km) / over, so     *)
(* that all of it is computed exactly.                                     *)
(***************************************************************************)
EXTENDS Integers, Sequences, SequencesExt, FiniteSetsExt

CONSTANTS
  Operators,
  ExactFares,     \* operators whose trips carry their exact fare
  Discounted,     \* passenger categories other than adult
  DefaultFloor,   \* DefaultFloor[op]: the floor of its mode
  MinSamples,     \* MIN_SAMPLES
  Margin,         \* SAFETY_MARGIN, as a pair <<numerator, denominator>>
  Clouds          \* distances and fares the fit is compared on

Adult == "adult"
Categories == {Adult} \cup Discounted
Floors == [base : Nat, rate : Nat]
NoFloor == [base |-> 0, rate |-> 0]

ASSUME OperatorAssumption == Operators # {}
ASSUME ExactAssumption == ExactFares \subseteq Operators
ASSUME CategoryAssumption == Adult \notin Discounted
ASSUME DefaultAssumption ==
  DefaultFloor \in [Operators -> Floors] /\ \A op \in ExactFares : DefaultFloor[op] = NoFloor
ASSUME MarginAssumption ==
  MinSamples \in Nat \ {0} /\ Margin[2] \in Nat /\ Margin[1] \in 1..Margin[2]

FloorOf(floor, km) == floor.base + floor.rate * km
-----------------------------------------------------------------------------
(***************************************************************************)
(* The fit.  points is a function to records with a distance and a fare.   *)
(***************************************************************************)
Elements(points) == {points[i] : i \in DOMAIN points}

(* The cheapest fare at each distance, by distance.                        *)
Envelope(points) ==
  LET kms == {p.km : p \in Elements(points)}
      nth(i) == CHOOSE km \in kms : Cardinality({k \in kms : k < km}) = i - 1
      fares(km) == {p.fare : p \in {q \in Elements(points) : q.km = km}}
  IN [i \in 1..Cardinality(kms) |-> [km |-> nth(i), fare |-> Min(fares(nth(i)))]]

Cross(p, q, r) == (q.km - p.km) * (r.fare - p.fare) - (q.fare - p.fare) * (r.km - p.km)

(* Mutant of Extended: no point is taken back.                             *)
ExtendedOnly(hull, p) == Append(hull, p)

(* Points that are not below the chord to p are taken back.                *)
Extended(hull, p) ==
  LET keep == {n \in DOMAIN hull : n = 1 \/ Cross(hull[n - 1], hull[n], p) > 0}
  IN Append(SubSeq(hull, 1, Max({0} \cup keep)), p)

LowerHull(points) == FoldLeft(Extended, <<>>, Envelope(points))

Line(p, q) ==
  [over |-> q.km - p.km, slope |-> q.fare - p.fare,
   base |-> p.fare * (q.km - p.km) - (q.fare - p.fare) * p.km]

(* The line through the origin that no fare lies below.                    *)
RatioLine(points) ==
  LET p == CHOOSE p \in Elements(points) :
             \A q \in Elements(points) : p.fare * q.km <= q.fare * p.km
  IN [over |-> p.km, slope |-> p.fare, base |-> 0]

Under(line, points) ==
  \A p \in Elements(points) : line.base + line.slope * p.km <= p.fare * line.over

(* The sum of its heights over all points.                                 *)
Mass(line, points) ==
  SumFunction([i \in DOMAIN points |-> line.base + line.slope * points[i].km])
NoTighter(l, m, points) == Mass(l, points) * m.over <= Mass(m, points) * l.over

(* Line 0 is the one through the origin, the others are the hull's edges.  *)
FitLine(points) ==
  LET hull == LowerHull(points)
      line(i) == IF i = 0 THEN RatioLine(points) ELSE Line(hull[i], hull[i + 1])
      safe == {0} \cup {i \in 1..(Len(hull) - 1) :
                          /\ line(i).slope >= 0 /\ line(i).base > 0
                          /\ Under(line(i), points)}
  IN line(Min({i \in safe : \A j \in safe : NoTighter(line(j), line(i), points)}))

Scaled(line) ==
  [base |-> (line.base * Margin[1]) \div (line.over * Margin[2]),
   rate |-> (line.slope * Margin[1]) \div (line.over * Margin[2])]
-----------------------------------------------------------------------------
(***************************************************************************)
(* The table of floors and what a search makes of it.                      *)
(***************************************************************************)
Samples(log, op, who) ==
  [i \in {k \in DOMAIN log : log[k].op = op /\ log[k].who = who} |-> log[i]]

Enough(points) == Cardinality(DOMAIN points) >= MinSamples

(* The operators and categories there are enough fares of.                 *)
Fitted(log) ==
  {k \in (Operators \ ExactFares) \X Categories : Enough(Samples(log, k[1], k[2]))}

(* calibrate.                                                              *)
Calibrated(log) == [k \in Fitted(log) |-> Scaled(FitLine(Samples(log, k[1], k[2])))]

(* Mutant of Halved: the adult floor itself.                               *)
HalvedNot(floor) == floor
Halved(floor) == [base |-> floor.base \div 2, rate |-> floor.rate \div 2]

(* floors_from_rows: a category without a fit of its own has half of what  *)
(* an adult has.                                                           *)
FloorsFromRows(table, who) ==
  [op \in Operators |->
     IF <<op, who>> \in DOMAIN table THEN table[<<op, who>>]
     ELSE IF <<op, Adult>> \in DOMAIN table THEN Halved(table[<<op, Adult>>])
     ELSE DefaultFloor[op]]

WithOperatorsZeroed(floors, ops) ==
  [op \in Operators |-> IF op \in ops THEN NoFloor ELSE floors[op]]
-----------------------------------------------------------------------------
(* "The safest-tight line under every observation": of all lines with no   *)
(* negative part that pass under every fare, through the origin or through *)
(* two of them, the hull finds one of the greatest mass.                   *)
BestFit(points) ==
  LET pairs == {r \in Elements(points) \X Elements(points) : r[1].km < r[2].km}
  IN /\ Under(FitLine(points), points)
     /\ \A l \in {Line(r[1], r[2]) : r \in pairs} :
          l.slope >= 0 /\ l.base > 0 /\ Under(l, points) => NoTighter(l, FitLine(points), points)
=============================================================================
