------------------------------ MODULE MCWatcher ------------------------------
(***************************************************************************)
(* Instances of Watcher: two watches of which one has a webhook, and two   *)
(* cars.                                                                   *)
(***************************************************************************)
EXTENDS Watcher

CONSTANTS c1, c2, w1, w2

TwoCars == {c1, c2}
OneCar == {c1}
TwoWatches == {w1, w2}
OneWatch == {w1}
NoWatch == {}
ThreePairs == {<<w1, c1>>, <<w1, c2>>, <<w2, c1>>}
OnePair == {<<w1, c1>>}
=============================================================================
