--------------------------- MODULE MCSharedPricing ---------------------------
(***************************************************************************)
(* Instances of SharedPricing: two searches, of which the second may be a  *)
(* refine pass, and a scan.                                                *)
(***************************************************************************)
EXTENDS SharedPricing

CONSTANTS s1, s2, scan, direct, viaCar, c1, c2, c3

TwoSearches == {s1, s2}
NoCalls == {}
OneScan == {scan}

(* A train, and a train to a Freerider car.                                *)
TrainAndCar == {direct, viaCar}
TrainAndCarLegs == {[itin |-> direct, kind |-> "rail"],
                    [itin |-> viaCar, kind |-> "rail"],
                    [itin |-> viaCar, kind |-> "car"]}

(* A train alone.                                                          *)
TrainOnly == {direct}
TrainOnlyLegs == {[itin |-> direct, kind |-> "rail"]}

(* The second search doubles the allowance of the first.                   *)
Refined == [s \in Searches |-> IF s = s1 THEN 1 ELSE 2]
EvenLimit == [s \in Searches |-> 1]

(* c2 stands where c1 did; c3 runs elsewhere.                              *)
MCCars == {c1, c2, c3}
Snapshots == [s \in Searches |-> IF s = s1 THEN {c1, c3} ELSE {c2}]
Rides == [s \in Searches |-> IF s = s1 THEN c1 ELSE c2]
Near == {<<c1, c2>>, <<c2, c1>>}
=============================================================================
