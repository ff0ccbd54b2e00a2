------------------------------- MODULE MCCards -------------------------------
(***************************************************************************)
(* An instance of Cards: a line of five stops, two regional cards whose    *)
(* regions meet or leave a gap, a city card that is valid on whole lines,  *)
(* two rentals with windows of their own, two legs out on the first day    *)
(* and three back on the second.                                           *)
(***************************************************************************)
EXTENDS Cards

CONSTANTS north, south, city, train, coach, express

ThreeCards == {north, south, city}
FiveStops == 1..5
HonorsOf == {<<north, train>>, <<south, train>>, <<south, coach>>, <<city, train>>,
             <<city, coach>>, <<north, express>>}
ExpressOnly == {express}
CityOnly == {city}
NoCard == {}
DeniedAt == [c \in ThreeCards |-> IF c = city THEN {5} ELSE {}]
BorderOf == [c \in ThreeCards |-> CASE c = north -> {4} [] c = south -> {5} [] c = city -> {}]
ThreeFeeds == {[c \in ThreeCards |-> CASE c = north -> 1..3
                                       [] c = south -> stops
                                       [] c = city -> {}] : stops \in {3..5, {4}, {5}}}
TwoRentals == <<[card |-> north, price |-> 3, from |-> 1, to |-> 2],
                [card |-> city, price |-> 2, from |-> 2, to |-> 3]>>
Leg(op, path, day, sold) == [op |-> op, path |-> path, day |-> day, sold |-> sold]
OutAndBack ==
  [d \in Directions |->
     IF d = "out"
       THEN <<Leg(train, <<1, 2>>, 1, TRUE), Leg(train, <<2, 3, 4, 5>>, 1, TRUE)>>
       ELSE <<Leg(train, <<5, 4>>, 2, TRUE), Leg(coach, <<4, 3>>, 2, TRUE),
              Leg(train, <<3, 2, 1>>, 2, FALSE)>>]
Dates == [d \in Directions |-> IF d = "out" THEN 1 ELSE 2]
TwoFares == {1, 4}
NoOperator == {}

ASSUME LinesAssumption == LinesLeaveOnce
ASSUME DayAssumption == DepartsOnTheDay
=============================================================================
