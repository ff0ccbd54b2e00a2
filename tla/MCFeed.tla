------------------------------- MODULE MCFeed --------------------------------
(***************************************************************************)
(* Instances of Feed: a night train that may dwell over midnight at two    *)
(* platforms of one station, a faster and a slower train of its route and  *)
(* a coach, a calendar with exceptions on two days, and transfer rows      *)
(* between four stations of which some are near each other.  A day has     *)
(* four ticks.                                                             *)
(***************************************************************************)
EXTENDS Feed

Places ==
  [p \in {"a", "b", "b1", "b2", "c", "d", "door"} |->
     [kind |-> CASE p = "b" -> 1 [] p = "door" -> 2 [] OTHER -> 0,
      parent |-> IF p \in {"b1", "b2", "door"} THEN "b" ELSE "none"]]

RoutesOf == [r \in {"rail", "bus", "tram"} |->
               [type |-> CASE r = "rail" -> 101 [] r = "bus" -> 703 [] r = "tram" -> 704,
                agency |-> "national"]]

Row(n, p, arr, dep) ==
  [sequence |-> n, stop |-> p, arrival |-> arr, departure |-> dep,
   noBoard |-> FALSE, noAlight |-> FALSE]

TripsOf == [t \in {"night", "fast", "slow", "coach", "tram"} |->
              [route |-> IF t = "coach" THEN "bus" ELSE IF t = "tram" THEN "tram" ELSE "rail",
               service |-> IF t = "night" THEN "daily" ELSE "extra"]]

Night(stands) ==
  IF stands THEN {Row(1, "a", 1, 2), Row(2, "b1", 3, 3), Row(3, "b2", 3, 5), Row(4, "c", 6, 6)}
  ELSE {Row(1, "a", 4, 4), [Row(2, "b1", 5, 5) EXCEPT !.noAlight = TRUE],
        [Row(3, "b2", 6, 6) EXCEPT !.noBoard = TRUE], Row(4, "c", 7, 7)}

CallsOf(stands, late) ==
  [t \in DOMAIN TripsOf |->
     CASE t = "night" -> Night(stands)
       [] t = "fast" -> {Row(1, "a", 1, 1), Row(5, "b1", 2, 2), Row(7, "c", late, late)}
       [] t = "slow" -> {Row(1, "a", 0, 0), Row(2, "b2", 2, 2), Row(3, "c", 3, 3)}
       [] t = "tram" -> {Row(1, "a", 5, 5), Row(2, "d", 6, 6)}
       [] t = "coach" -> {Row(1, "c", 5, 5), [Row(2, "d", 6, 6) EXCEPT !.noBoard = TRUE]}]

Calendar(weekly, added, removed) == [weekly |-> weekly, added |-> added, removed |-> removed]
Calendars ==
  {Calendar({<<"daily", 0>>, <<"daily", 1>>, <<"extra", 1>>}, {}, {}),
   Calendar({<<"daily", 0>>, <<"daily", 1>>}, {<<"extra", 0>>, <<"extra", 1>>}, {<<"daily", 1>>}),
   Calendar({<<"extra", 0>>}, {<<"daily", 0>>}, {<<"extra", 0>>})}

Link(a, b, type, seconds) == [from |-> a, to |-> b, type |-> type, seconds |-> seconds]
Allowed == {Link("a", "b1", 2, 2), Link("b2", "a", 2, 1), Link("c", "d", 2, 2),
            Link("a", "c", 2, 9), Link("b1", "b2", 2, 1)}
Forbidden == {Link("b1", "c", 3, 0)}

FeedsWith(rows) ==
  {[weekly |-> c.weekly, added |-> c.added, removed |-> c.removed, trips |-> TripsOf,
    routes |-> RoutesOf, stops |-> Places, calls |-> CallsOf(x[1], x[2]), links |-> l] :
     c \in Calendars, x \in {<<TRUE, 1>>, <<TRUE, 4>>, <<FALSE, 2>>, <<FALSE, 4>>}, l \in rows}

ManyFeeds == FeedsWith({x \in SUBSET (Allowed \cup Forbidden) : Cardinality(x) \in {0, 5, 6}})
NearStations == {[from |-> "b", to |-> "c", seconds |-> 1], [from |-> "a", to |-> "b", seconds |-> 1]}
Intercity == {"train", "bus", "ferry", "flight"}
AnyAgency == {}
=============================================================================
