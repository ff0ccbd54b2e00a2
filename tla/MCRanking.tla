------------------------------ MODULE MCRanking ------------------------------
(***************************************************************************)
(* An instance of Ranking: a train and a coach, each at several times of   *)
(* the day, a car one has to walk to and a ferry no source can price; one  *)
(* label describes a journey twice.                                        *)
(***************************************************************************)
EXTENDS Ranking

Label(shape, modes, n, walk, board, arrival, floor) ==
  [shape |-> shape, modes |-> modes, vehicles |-> n, start |-> 0, walk |-> walk,
   board |-> board, arrival |-> arrival, floor |-> floor,
   transfers |-> Cardinality(modes) - 1, priceable |-> shape # "ferry"]

Train(n) == Label("train", {"TRAIN"}, n, 0, n, n + 2, 3)
Coach(n) == Label("coach", {"BUS"}, n, 1, n, n + 3, 1)
Car(n) == Label("car", {"FREERIDER", "BUS"}, n, 2, n, n + 4, 2)
Ferry(n) == Label("ferry", {"FERRY"}, n, 0, n, n + 5, 0)

LabelSets ==
  {<<Train(1), Train(5), Train(3), Train(5), Coach(2), Coach(9), Ferry(1)>>,
   <<Coach(7), Coach(2), Coach(4), Coach(9), Coach(1), Car(3)>>,
   <<Car(6), Coach(5), Train(1), Car(3), Train(8), Ferry(1)>>,
   <<Ferry(1), Ferry(4)>>}

AllModes == {"TRAIN", "BUS", "FERRY", "FREERIDER"}
Ask(modes, from, transfers, must) ==
  [departAt |-> from, latest |-> 20, maxDuration |-> 7, maxTransfers |-> transfers,
   modes |-> modes, requirePriced |-> must]
Requests ==
  {Ask(AllModes, 0, 1, TRUE), Ask(AllModes, 2, 1, FALSE), Ask(AllModes \ {"FREERIDER"}, 0, 0, TRUE)}
Pages == <<1, 2>>
TwoTotals == {1, 2}
TwoRanks == {1, 2}
ModeOrder == <<"TRAIN", "BUS", "FERRY", "FREERIDER">>
=============================================================================
