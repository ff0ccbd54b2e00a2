------------------------------ MODULE MCServer ------------------------------
(***************************************************************************)
(* An instance of Server: a railway, whose fares undercut its default      *)
(* floor at one distance, and an airline with exact fares.                 *)
(***************************************************************************)
EXTENDS Server

CONSTANTS c1, c2

Companies == {"rail", "air"}
Airline == {"air"}
Railway == {"rail"}
Students == {"student"}
Defaults == [op \in Companies |-> IF op = "rail" THEN [base |-> 9, rate |-> 1] ELSE NoFloor]
ThreeQuarters == <<3, 4>>
TwoCanaries == {c1, c2}

Fare(op, who, km, fare) == [op |-> op, who |-> who, km |-> km, fare |-> fare]
SomeFares ==
  {Fare("rail", Adult, 1, 8), Fare("rail", Adult, 3, 36), Fare("rail", "student", 1, 6),
   Fare("air", Adult, 2, 5)}

(* Up to four fares at three distances.                                    *)
Points == [km : 1..3, fare : {4, 6, 9, 13}]
UpToFour == UNION {{SetToSeq(S) : S \in kSubset(n, Points)} : n \in 1..4}
=============================================================================
