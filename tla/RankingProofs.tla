----------------------------- MODULE RankingProofs -----------------------------
(***************************************************************************)
(* What holds of the ranking for any labels, prices, constraints and page  *)
(* sizes.                                                                  *)
(***************************************************************************)
EXTENDS Ranking, FoldTheorems

(* The first n numbers are n.                                              *)
LEMMA UpTo ==
  ASSUME NEW n \in Nat
  PROVE  IsFiniteSet(1..n) /\ Cardinality(1..n) = n
<1>1. /\ IsFiniteSet(1..n)
      /\ Cardinality(1..n) = IF 1 > n THEN 0 ELSE n - 1 + 1
  BY FS_Interval
<1>2. QED
  BY <1>1

(***************************************************************************)
(* Sequences made from places of a sequence.                               *)
(***************************************************************************)
(* out has what stands at the places of s, and at each once.               *)
Takes(out, s, places, order) ==
  /\ Len(out) = Cardinality(places) /\ Cardinality(places) \in Nat
  /\ DOMAIN out = 1..Len(out)
  /\ \A k \in 1..Len(out) : order[k] \in places /\ out[k] = s[order[k]]
  /\ \A i \in places : \E k \in 1..Len(out) : order[k] = i
  /\ \A k, m \in 1..Len(out) : order[k] = order[m] => k = m

(* What is taken out of a sequence is again one of the same things.        *)
LEMMA TakenAre ==
  ASSUME NEW S, NEW s \in Seq(S), NEW places \in SUBSET (1..Len(s)), NEW out,
         \E order : Takes(out, s, places, order), out = [k \in 1..Len(out) |-> out[k]]
  PROVE  /\ out \in Seq(S) /\ Len(out) = Cardinality(places)
         /\ \A k \in 1..Len(out) : \E i \in places : out[k] = s[i]
         /\ \A i \in places : \E k \in 1..Len(out) : out[k] = s[i]
         /\ (out = <<>> <=> places = {})
<1>1. PICK order : Takes(out, s, places, order)
  OBVIOUS
<1>2. /\ Len(out) \in Nat /\ Len(out) = Cardinality(places)
      /\ \A k \in 1..Len(out) : order[k] \in places /\ out[k] = s[order[k]]
      /\ \A i \in places : \E k \in 1..Len(out) : order[k] = i
  BY <1>1 DEF Takes
<1>3. \A i \in places : s[i] \in S
  OBVIOUS
<1>4. out \in Seq(S)
  BY <1>2, <1>3
<1>5. out = <<>> <=> places = {}
  <2>1. ASSUME out = <<>>, places # {} PROVE FALSE
    <3>1. 1..Len(out) = {}
      BY <2>1
    <3>2. QED
      BY <1>2, <2>1, <3>1
  <2>2. ASSUME places = {} PROVE out = <<>>
    <3>1. 1..Len(out) = {}
      BY <1>2, <2>2
    <3>2. Len(out) = 0
      BY <1>2, <3>1
    <3>3. QED
      BY <1>4, <3>2
  <2>3. QED
    BY <2>1, <2>2
<1>6. \A k \in 1..Len(out) : \E i \in places : out[k] = s[i]
  BY <1>2
<1>7. ASSUME NEW i \in places PROVE \E k \in 1..Len(out) : out[k] = s[i]
  <2>1. PICK k \in 1..Len(out) : order[k] = i
    BY <1>2
  <2>2. out[k] = s[i]
    BY <1>2, <2>1
  <2>3. QED
    BY <2>2
<1>8. Len(out) = Cardinality(places)
  BY <1>2
<1>9. QED
  BY <1>4, <1>5, <1>6, <1>7, <1>8

(* A filter takes its places in order.                                     *)
LEMMA FilterTakes ==
  ASSUME NEW S, NEW s \in Seq(S), NEW places \in SUBSET (1..Len(s))
  PROVE  /\ AtPlaces(s, places) = [k \in 1..Len(AtPlaces(s, places)) |-> AtPlaces(s, places)[k]]
         /\ \E order : /\ Takes(AtPlaces(s, places), s, places, order)
                       /\ \A k, m \in 1..Len(AtPlaces(s, places)) : k < m => order[k] < order[m]
<1> DEFINE out == AtPlaces(s, places)
           c == Cardinality(places)
<1>0. Len(s) \in Nat /\ \A i \in places : i \in Nat
  OBVIOUS
<1>1. PICK order : Filters(order, s, places)
  BY <1>0, FilteredInOrder
<1>2. /\ c \in Nat /\ order \in [1..c -> places]
      /\ \A x \in places : \E i \in 1..c : order[i] = x
      /\ \A i, j \in 1..c : i < j => order[i] < order[j]
      /\ DOMAIN out = 1..c /\ \A k \in 1..c : out[k] = s[order[k]]
  BY <1>1 DEF Filters
<1>3. out = [k \in 1..c |-> out[k]]
  BY <1>2 DEF AtPlaces
<1> HIDE DEF out, c
<1>4. Len(out) = c
  BY <1>2, <1>3
<1>5. ASSUME NEW i \in 1..c, NEW j \in 1..c, order[i] = order[j] PROVE i = j
  <2>1. order[i] \in Nat /\ order[j] \in Nat
    BY <1>0, <1>2
  <2>2. ~ (i < j) /\ ~ (j < i)
    BY <1>2, <1>5, <2>1
  <2>3. QED
    BY <1>2, <2>2
<1>6. Takes(out, s, places, order)
  BY <1>2, <1>4, <1>5 DEF Takes, c
<1>7. QED
  BY <1>2, <1>3, <1>4, <1>6 DEF out

(* An arrangement takes its places by key and, among equals, as they       *)
(* stand.                                                                  *)
LEMMA ArrangementTakes ==
  ASSUME NEW S, NEW s \in Seq(S), NEW places \in SUBSET (1..Len(s)),
         NEW key, Keyed(key, Len(s))
  PROVE  /\ Arranged(s, places, key) = [k \in 1..Len(Arranged(s, places, key)) |-> Arranged(s, places, key)[k]]
         /\ \E order : /\ Takes(Arranged(s, places, key), s, places, order)
                       /\ \A i, j \in 1..Len(Arranged(s, places, key)) :
                            i < j => Less(KeyOf(key, order[i]), KeyOf(key, order[j]))
<1> DEFINE out == Arranged(s, places, key)
           c == Cardinality(places)
<1>0. Len(s) \in Nat
  OBVIOUS
<1>1. PICK order : Arranges(order, s, places, key)
  BY <1>0, ArrangedInOrder
<1>2. /\ c \in Nat /\ order \in [1..c -> places]
      /\ \A x \in places : \E i \in 1..c : order[i] = x
      /\ \A i, j \in 1..c : order[i] = order[j] => i = j
      /\ \A i, j \in 1..c : i < j => Less(KeyOf(key, order[i]), KeyOf(key, order[j]))
      /\ out = [k \in 1..c |-> s[order[k]]]
  BY <1>1 DEF Arranges
<1> HIDE DEF out, c
<1>3. Len(out) = c /\ DOMAIN out = 1..c /\ \A k \in 1..c : out[k] = s[order[k]]
  BY <1>2
<1>4. out = [k \in 1..Len(out) |-> out[k]]
  BY <1>2, <1>3
<1>5. Takes(out, s, places, order)
  BY <1>2, <1>3 DEF Takes, c
<1>6. QED
  BY <1>2, <1>3, <1>4, <1>5 DEF out

(* The order of a key of one number.                                       *)
LEMMA KeyOfOne ==
  ASSUME NEW key, NEW i \in Int, NEW j \in Int, NEW x \in Int, NEW y \in Int,
         key[i] = <<x>>, key[j] = <<y>>
  PROVE  Less(KeyOf(key, i), KeyOf(key, j)) <=> (x < y \/ (x = y /\ i < j))
<1> DEFINE a == KeyOf(key, i)
           b == KeyOf(key, j)
<1>1. /\ a \in Seq(Int) /\ Len(a) = 2 /\ a[1] = x /\ a[2] = i
      /\ b \in Seq(Int) /\ Len(b) = 2 /\ b[1] = y /\ b[2] = j
  <2>1. <<x>> \in Seq(Int) /\ Len(<<x>>) = 1 /\ <<y>> \in Seq(Int) /\ Len(<<y>>) = 1
    OBVIOUS
  <2>2. key[i] \in Seq(Int) /\ Len(key[i]) = 1 /\ key[i][1] = x
    BY <2>1
  <2>3. key[j] \in Seq(Int) /\ Len(key[j]) = 1 /\ key[j][1] = y
    BY <2>1
  <2>4. /\ a \in Seq(Int) /\ Len(a) = 2 /\ a[1] = x /\ a[2] = i
    BY <2>2 DEF KeyOf
  <2>5. /\ b \in Seq(Int) /\ Len(b) = 2 /\ b[1] = y /\ b[2] = j
    BY <2>3 DEF KeyOf
  <2>6. QED
    BY <2>4, <2>5
<1> HIDE DEF a, b
<1>2. \A k : k \in DOMAIN a <=> k = 1 \/ k = 2
  BY <1>1
<1>3. /\ \A k \in 1..(1 - 1) : FALSE
      /\ \A k \in 1..(2 - 1) : k = 1
      /\ 1 \in 1..(2 - 1)
  OBVIOUS
<1>4. Less(a, b) => (x < y \/ (x = y /\ i < j))
  <2> SUFFICES ASSUME Less(a, b) PROVE x < y \/ (x = y /\ i < j)
    OBVIOUS
  <2>1. PICK k \in DOMAIN a : a[k] < b[k] /\ \A m \in 1..(k - 1) : a[m] = b[m]
    BY DEF Less
  <2>2. CASE k = 1
    BY <1>1, <2>1, <2>2
  <2>3. CASE k = 2
    <3>1. a[1] = b[1]
      BY <1>3, <2>1, <2>3
    <3>2. QED
      BY <1>1, <2>1, <2>3, <3>1
  <2>4. QED
    BY <1>2, <2>1, <2>2, <2>3
<1>5. (x < y \/ (x = y /\ i < j)) => Less(a, b)
  <2>1. ASSUME x < y PROVE Less(a, b)
    <3>1. 1 \in DOMAIN a /\ a[1] < b[1] /\ \A m \in 1..(1 - 1) : a[m] = b[m]
      BY <1>1, <1>2, <1>3, <2>1
    <3>2. QED
      BY <3>1 DEF Less
  <2>2. ASSUME x = y, i < j PROVE Less(a, b)
    <3>1. 2 \in DOMAIN a /\ a[2] < b[2] /\ \A m \in 1..(2 - 1) : a[m] = b[m]
      BY <1>1, <1>2, <1>3, <2>2
    <3>2. QED
      BY <3>1 DEF Less
  <2>3. QED
    BY <2>1, <2>2
<1>6. QED
  BY <1>4, <1>5 DEF a, b

(* Of some places one comes first.                                         *)
LEMMA FirstExists ==
  ASSUME NEW n \in Nat, NEW places \in SUBSET (1..n), places # {},
         NEW key, Keyed(key, n)
  PROVE  \E i \in places : \A j \in places : <<j, i>> \notin ByKey(key)
<1>1. PICK order : Arranges(order, key, places, key)
  BY ArrangedInOrder
<1>2. /\ IsOrder(places, ByKey(key))
      /\ \A i, j \in 1..n : <<i, j>> \in ByKey(key) <=> Less(KeyOf(key, i), KeyOf(key, j))
  BY KeysOrder
<1> DEFINE c == Cardinality(places)
<1>3. /\ c \in Nat /\ order \in [1..c -> places]
      /\ \A x \in places : \E i \in 1..c : order[i] = x
      /\ \A i, j \in 1..c : i < j => Less(KeyOf(key, order[i]), KeyOf(key, order[j]))
  BY <1>1 DEF Arranges
<1> HIDE DEF c
<1>4. 1 \in 1..c
  <2>1. PICK i \in 1..c : TRUE
    BY <1>3
  <2>2. QED
    BY <1>3, <2>1
<1>5. ASSUME NEW j \in places PROVE <<j, order[1]>> \notin ByKey(key)
  <2>1. PICK k \in 1..c : order[k] = j
    BY <1>3
  <2>2. order[1] \in places /\ order[1] \in 1..n /\ j \in 1..n
    BY <1>3, <1>4
  <2>3. CASE k = 1
    BY <1>2, <2>1, <2>2, <2>3 DEF IsOrder
  <2>4. CASE k # 1
    <3>1. 1 < k
      BY <1>3, <2>1, <2>4
    <3>2. <<order[1], j>> \in ByKey(key)
      BY <1>2, <1>3, <1>4, <2>1, <2>2, <3>1
    <3>3. QED
      BY <1>2, <2>2, <3>2 DEF IsOrder
  <2>5. QED
    BY <2>3, <2>4
<1>6. QED
  BY <1>3, <1>4, <1>5

(* What is left of a sequence by a filter, and what an arrangement has.    *)
PlacesOf(s, places) == places \in SUBSET (1..Len(s))

(* What a filter leaves.                                                   *)
LEMMA Filtered ==
  ASSUME NEW S, NEW s \in Seq(S), NEW places, PlacesOf(s, places)
  PROVE  LET out == AtPlaces(s, places)
         IN /\ out \in Seq(S)
            /\ \A k \in 1..Len(out) : \E i \in places : out[k] = s[i]
            /\ \A i \in places : \E k \in 1..Len(out) : out[k] = s[i]
            /\ (out = <<>> <=> places = {})
<1> DEFINE out == AtPlaces(s, places)
<1>1. out = [k \in 1..Len(out) |-> out[k]] /\ \E order : Takes(out, s, places, order)
  BY FilterTakes DEF PlacesOf
<1> HIDE DEF out
<1>2. /\ out \in Seq(S)
      /\ \A k \in 1..Len(out) : \E i \in places : out[k] = s[i]
      /\ \A i \in places : \E k \in 1..Len(out) : out[k] = s[i]
      /\ (out = <<>> <=> places = {})
  BY <1>1, TakenAre DEF PlacesOf
<1>3. QED
  BY <1>2 DEF out

(* What an arrangement has.                                                *)
LEMMA ArrangedAre ==
  ASSUME NEW S, NEW s \in Seq(S), NEW places, PlacesOf(s, places),
         NEW key, Keyed(key, Len(s))
  PROVE  LET out == Arranged(s, places, key)
         IN /\ out \in Seq(S) /\ Len(out) = Cardinality(places)
            /\ \A k \in 1..Len(out) : \E i \in places : out[k] = s[i]
            /\ \A i \in places : \E k \in 1..Len(out) : out[k] = s[i]
            /\ (out = <<>> <=> places = {})
<1> DEFINE out == Arranged(s, places, key)
<1>1. out = [k \in 1..Len(out) |-> out[k]] /\ \E order : Takes(out, s, places, order)
  BY ArrangementTakes DEF PlacesOf
<1> HIDE DEF out
<1>2. /\ out \in Seq(S) /\ Len(out) = Cardinality(places)
      /\ \A k \in 1..Len(out) : \E i \in places : out[k] = s[i]
      /\ \A i \in places : \E k \in 1..Len(out) : out[k] = s[i]
      /\ (out = <<>> <=> places = {})
  BY <1>1, TakenAre DEF PlacesOf
<1>3. QED
  BY <1>2 DEF out
-----------------------------------------------------------------------------
(***************************************************************************)
(* From labels to what is priced.                                          *)
(***************************************************************************)
Journeys == {Itinerary(labels[k], k) : k \in 1..Len(labels)}

(* What is needed of an itinerary.                                         *)
LEMMA JourneysAre ==
  ASSUME labels \in LabelLists
  PROVE  /\ \A x \in Journeys : /\ x.departure \in Int /\ x.arrival \in Int
                                /\ x.floor \in Int /\ x.transfers \in Int
         /\ \A x, y \in Journeys : x.shape = y.shape => x.modes = y.modes
<1>1. /\ Len(labels) \in Nat /\ DOMAIN labels = 1..Len(labels)
      /\ \A i \in 1..Len(labels) :
           /\ labels[i].start \in Int /\ labels[i].walk \in Int /\ labels[i].board \in Int
           /\ labels[i].arrival \in Int /\ labels[i].floor \in Int /\ labels[i].transfers \in Int
      /\ \A i, j \in 1..Len(labels) : labels[i].shape = labels[j].shape => labels[i].modes = labels[j].modes
  BY LabelsAssumption DEF IsLabels, IsSequence
<1>2. ASSUME NEW a \in Int, NEW b \in Int PROVE Max({a, b}) \in Int
  <2>1. \E x \in {a, b} : \A y \in {a, b} : x >= y
    <3>1. a >= b \/ b >= a
      OBVIOUS
    <3>2. QED
      BY <3>1
  <2>2. Max({a, b}) \in {a, b}
    BY <2>1 DEF Max
  <2>3. QED
    BY <2>2
<1>3. ASSUME NEW k \in 1..Len(labels) PROVE Tightened(labels[k]) \in Int
  <2>1. labels[k].board - labels[k].walk \in Int /\ labels[k].start \in Int /\ labels[k].board \in Int
    BY <1>1
  <2>2. QED
    BY <1>2, <2>1 DEF Tightened
<1>4. ASSUME NEW k \in 1..Len(labels)
      PROVE  LET x == Itinerary(labels[k], k)
             IN /\ x.departure = Tightened(labels[k]) /\ x.arrival = labels[k].arrival
                /\ x.floor = labels[k].floor /\ x.transfers = labels[k].transfers
                /\ x.shape = labels[k].shape /\ x.modes = labels[k].modes
  BY DEF Itinerary
<1>5. ASSUME NEW x \in Journeys
      PROVE  \E k \in 1..Len(labels) :
               /\ x.departure \in Int /\ x.arrival = labels[k].arrival
               /\ x.floor = labels[k].floor /\ x.transfers = labels[k].transfers
               /\ x.shape = labels[k].shape /\ x.modes = labels[k].modes
  <2>1. PICK k \in 1..Len(labels) : x = Itinerary(labels[k], k)
    BY DEF Journeys
  <2>2. QED
    BY <1>3, <1>4, <2>1
<1>6. ASSUME NEW x \in Journeys, NEW y \in Journeys, x.shape = y.shape PROVE x.modes = y.modes
  <2>1. PICK k \in 1..Len(labels) : x.shape = labels[k].shape /\ x.modes = labels[k].modes
    BY <1>5
  <2>2. PICK m \in 1..Len(labels) : y.shape = labels[m].shape /\ y.modes = labels[m].modes
    BY <1>5
  <2>3. QED
    BY <1>1, <1>6, <2>1, <2>2
<1>7. ASSUME NEW x \in Journeys
      PROVE  x.departure \in Int /\ x.arrival \in Int /\ x.floor \in Int /\ x.transfers \in Int
  BY <1>1, <1>5
<1>8. QED
  BY <1>6, <1>7

Routed == Where(Candidates, LAMBDA x : x.departure >= asked.departAt)
Wanted == Priceable(Where(Routed, Permits))
Final == IF Wanted = <<>> THEN <<>> ELSE Selected(Spread(Wanted))

(* What is priced are itineraries of the labels.                           *)
LEMMA WantedAre ==
  ASSUME labels \in LabelLists
  PROVE  Candidates \in Seq(Journeys) /\ Routed \in Seq(Journeys) /\ Wanted \in Seq(Journeys)
<1> DEFINE all == [i \in DOMAIN labels |-> Itinerary(labels[i], i)]
<1>1. all \in Seq(Journeys)
  <2>1. Len(labels) \in Nat /\ DOMAIN labels = 1..Len(labels)
    BY LabelsAssumption DEF IsLabels, IsSequence
  <2>2. QED
    BY <2>1 DEF Journeys
<1>2. Candidates \in Seq(Journeys)
  <2> DEFINE firsts == {i \in DOMAIN all : \A j \in 1..(i - 1) : Vehicles(all[j]) # Vehicles(all[i])}
  <2>1. Candidates = AtPlaces(all, firsts)
    BY DEF Candidates
  <2>2. PlacesOf(all, firsts)
    BY <1>1 DEF PlacesOf
  <2> HIDE DEF all, firsts
  <2>3. QED
    BY <1>1, <2>1, <2>2, Filtered
<1>3. \A s \in Seq(Journeys) : Where(s, Permits) \in Seq(Journeys)
  BY Filtered DEF Where, PlacesOf
<1>4. Routed \in Seq(Journeys)
  <2> DEFINE late == {i \in DOMAIN Candidates : Candidates[i].departure >= asked.departAt}
  <2>1. Routed = AtPlaces(Candidates, late)
    BY DEF Routed, Where
  <2>2. PlacesOf(Candidates, late)
    BY <1>2 DEF PlacesOf
  <2> HIDE DEF late
  <2>3. QED
    BY <1>2, <2>1, <2>2, Filtered
<1>5. \A s \in Seq(Journeys) : Priceable(s) \in Seq(Journeys)
  BY Filtered DEF Where, Priceable, PlacesOf
<1>6. QED
  BY <1>2, <1>3, <1>4, <1>5 DEF Wanted

(* The keys of the arrangements are tuples of numbers.                     *)
LEMMA GroupsAre ==
  ASSUME labels \in LabelLists, NEW s \in Seq(Journeys), NEW i \in 1..Len(s)
  PROVE  /\ i \in Group(s, i) /\ PlacesOf(s, Group(s, i)) /\ IsFiniteSet(Group(s, i))
         /\ Min(Group(s, i)) \in Group(s, i) /\ Cardinality(Group(s, i)) \in Nat
         /\ Earlier(s, i) \in SUBSET Group(s, i) /\ Cardinality(Earlier(s, i)) \in Nat
         /\ Depth(s, i) \in Int
<1>1. i \in Group(s, i) /\ Group(s, i) \in SUBSET (1..Len(s)) /\ Earlier(s, i) \in SUBSET Group(s, i)
  BY DEF Group, Earlier
<1>2. IsFiniteSet(Group(s, i)) /\ IsFiniteSet(Earlier(s, i))
  <2>1. IsFiniteSet(1..Len(s))
    BY FS_Interval
  <2>2. IsFiniteSet(Group(s, i))
    BY <1>1, <2>1, FS_Subset
  <2>3. QED
    BY <1>1, <2>2, FS_Subset
<1>3. Cardinality(Group(s, i)) \in Nat /\ Cardinality(Earlier(s, i)) \in Nat
  BY <1>2, FS_CardinalityType
<1>4. Min(Group(s, i)) \in Group(s, i)
  <2>1. Group(s, i) \in SUBSET Nat /\ Group(s, i) # {}
    BY <1>1
  <2>2. QED
    BY <2>1, MinIsLeast
<1>5. Depth(s, i) \in Int
  BY <1>3 DEF Depth
<1>6. QED
  BY <1>1, <1>2, <1>3, <1>4, <1>5 DEF PlacesOf

Floors(s) == [i \in DOMAIN s |-> FloorKey(s[i])]
Departures(s) == [i \in DOMAIN s |-> <<s[i].departure>>]
Days(s) == [i \in DOMAIN s |-> <<Min(Group(s, i)), s[i].departure>>]
Cheapest(s, i) == Head(Arranged(s, Group(s, i), Floors(s)))
Turns(s) ==
  [i \in DOMAIN s |-> <<Depth(s, i), Cheapest(s, i).floor, Cheapest(s, i).arrival,
                        Cheapest(s, i).transfers, Min(Group(s, i))>>]

(* The sort keys of the code are tuples of integers, of one length.        *)
LEMMA KeysAre ==
  ASSUME labels \in LabelLists, NEW s \in Seq(Journeys)
  PROVE  /\ Keyed(Floors(s), Len(s)) /\ Keyed(Departures(s), Len(s))
         /\ Keyed(Days(s), Len(s)) /\ Keyed(Turns(s), Len(s))
<1>1. \A i \in 1..Len(s) : /\ s[i].departure \in Int /\ s[i].arrival \in Int
                           /\ s[i].floor \in Int /\ s[i].transfers \in Int
  BY JourneysAre
<1>2. Keyed(Floors(s), Len(s))
  <2>1. /\ Floors(s) = [i \in 1..Len(s) |-> Floors(s)[i]]
        /\ \A i \in 1..Len(s) : Floors(s)[i] \in Seq(Int) /\ Len(Floors(s)[i]) = 3
    BY <1>1 DEF Floors, FloorKey
  <2>2. QED
    BY <2>1 DEF Keyed
<1>3. Keyed(Departures(s), Len(s))
  <2>1. /\ Departures(s) = [i \in 1..Len(s) |-> Departures(s)[i]]
        /\ \A i \in 1..Len(s) : Departures(s)[i] \in Seq(Int) /\ Len(Departures(s)[i]) = 1
    BY <1>1 DEF Departures
  <2>2. QED
    BY <2>1 DEF Keyed
<1>4. \A i \in 1..Len(s) : Min(Group(s, i)) \in Int /\ Depth(s, i) \in Int
  <2> SUFFICES ASSUME NEW i \in 1..Len(s) PROVE Min(Group(s, i)) \in Int /\ Depth(s, i) \in Int
    OBVIOUS
  <2>1. Min(Group(s, i)) \in 1..Len(s)
    BY GroupsAre DEF PlacesOf
  <2>2. QED
    BY <2>1, GroupsAre
<1>5. Keyed(Days(s), Len(s))
  <2>1. /\ Days(s) = [i \in 1..Len(s) |-> Days(s)[i]]
        /\ \A i \in 1..Len(s) : Days(s)[i] \in Seq(Int) /\ Len(Days(s)[i]) = 2
    BY <1>1, <1>4 DEF Days
  <2>2. QED
    BY <2>1 DEF Keyed
<1>6. ASSUME NEW i \in 1..Len(s)
      PROVE  /\ Cheapest(s, i).floor \in Int /\ Cheapest(s, i).arrival \in Int
             /\ Cheapest(s, i).transfers \in Int
  <2> DEFINE out == Arranged(s, Group(s, i), Floors(s))
  <2>1. PlacesOf(s, Group(s, i)) /\ Group(s, i) # {}
    BY GroupsAre
  <2>2. out \in Seq(Journeys) /\ out # <<>>
    BY <1>2, <2>1, ArrangedAre
  <2>3. Cheapest(s, i) \in Journeys
    BY <2>2 DEF Cheapest
  <2>4. QED
    BY <2>3, JourneysAre
<1>7. Keyed(Turns(s), Len(s))
  <2>1. /\ Turns(s) = [i \in 1..Len(s) |-> Turns(s)[i]]
        /\ \A i \in 1..Len(s) : Turns(s)[i] \in Seq(Int) /\ Len(Turns(s)[i]) = 5
    BY <1>4, <1>6 DEF Turns
  <2>2. QED
    BY <2>1 DEF Keyed
<1>8. QED
  BY <1>2, <1>3, <1>5, <1>7

(* What Spread and Selected arrange.                                       *)
Kept(s) ==
  {i \in DOMAIN s : \/ Cardinality(Group(s, i)) <= PerShape
                    \/ Cardinality(Earlier(s, i)) \in Picks(Cardinality(Group(s, i)))}

(* Spreading and selecting arrange itineraries and add none.               *)
LEMMA SpreadIs ==
  ASSUME labels \in LabelLists, NEW s \in Seq(Journeys)
  PROVE  /\ Spread(s) = Arranged(s, Kept(s), Days(s)) /\ PlacesOf(s, Kept(s))
         /\ Spread(s) \in Seq(Journeys)
         /\ Selected(s) = IF Len(s) <= ToPrice THEN Arranged(s, 1..Len(s), Floors(s))
                          ELSE SubSeq(Arranged(s, 1..Len(s), Turns(s)), 1, ToPrice)
         /\ Selected(s) \in Seq(Journeys)
<1>1. Spread(s) = Arranged(s, Kept(s), Days(s))
  BY DEF Spread, Kept, Days
<1>2. PlacesOf(s, Kept(s)) /\ PlacesOf(s, 1..Len(s))
  BY DEF Kept, PlacesOf
<1>3. Spread(s) \in Seq(Journeys)
  <2>1. Keyed(Days(s), Len(s))
    BY KeysAre
  <2>2. QED
    BY <1>1, <1>2, <2>1, ArrangedAre
<1>4. Selected(s) = IF Len(s) <= ToPrice THEN Arranged(s, 1..Len(s), Floors(s))
                    ELSE SubSeq(Arranged(s, 1..Len(s), Turns(s)), 1, ToPrice)
  <2>1. DOMAIN s = 1..Len(s)
    OBVIOUS
  <2>2. QED
    BY <2>1 DEF Selected, Floors, Turns, Cheapest
<1>5. /\ Arranged(s, 1..Len(s), Floors(s)) \in Seq(Journeys)
      /\ Arranged(s, 1..Len(s), Turns(s)) \in Seq(Journeys)
      /\ Len(Arranged(s, 1..Len(s), Turns(s))) = Len(s)
  <2>1. Keyed(Floors(s), Len(s)) /\ Keyed(Turns(s), Len(s))
    BY KeysAre
  <2>2. Len(s) \in Nat
    OBVIOUS
  <2>3. Cardinality(1..Len(s)) = Len(s)
    <3> PICK n \in Nat : n = Len(s)
      BY <2>2
    <3>1. Cardinality(1..n) = n
      BY UpTo
    <3>2. QED
      BY <3>1
  <2>4. QED
    BY <1>2, <2>1, <2>3, ArrangedAre
<1>6. Selected(s) \in Seq(Journeys)
  <2>1. CASE Len(s) <= ToPrice
    BY <1>4, <1>5, <2>1
  <2>2. CASE ~ (Len(s) <= ToPrice)
    <3> DEFINE A == Arranged(s, 1..Len(s), Turns(s))
    <3>1. A \in Seq(Journeys) /\ ToPrice \in Nat /\ ToPrice <= Len(A) /\ Selected(s) = SubSeq(A, 1, ToPrice)
      BY <1>4, <1>5, <2>2, SampleAssumption
    <3> HIDE DEF A
    <3>2. QED
      BY <3>1
  <2>3. QED
    BY <2>1, <2>2
<1>7. QED
  BY <1>1, <1>2, <1>3, <1>4, <1>6

(* So what is priced in the end are itineraries.                           *)
LEMMA FinalIs ==
  ASSUME labels \in LabelLists
  PROVE  Final \in Seq(Journeys)
<1>1. Wanted \in Seq(Journeys)
  BY WantedAre
<1>2. Spread(Wanted) \in Seq(Journeys)
  BY <1>1, SpreadIs
<1>3. Selected(Spread(Wanted)) \in Seq(Journeys)
  BY <1>2, SpreadIs
<1>4. QED
  BY <1>3 DEF Final

-----------------------------------------------------------------------------
(***************************************************************************)
(* From prices to the page.                                                *)
(***************************************************************************)
Known == {x \in Journeys : QuoteOf(x) \in Quotes}

(* What the price of an itinerary may be, and its place in the ranking.    *)
LEMMA KnownAre ==
  ASSUME labels \in LabelLists, NEW x \in Known
  PROVE  /\ QuoteOf(x).priced \in BOOLEAN /\ QuoteOf(x).total \in Nat /\ x.arrival \in Int
         /\ (~ QuoteOf(x).priced => QuoteOf(x).total = 0)
         /\ PriceKey(x) \in Seq(Int) /\ Len(PriceKey(x)) = 5
         /\ PriceKey(x)[1] = (IF QuoteOf(x).priced THEN 0 ELSE 1)
         /\ PriceKey(x)[2] = QuoteOf(x).total
<1>1. x.departure \in Int /\ x.arrival \in Int /\ x.transfers \in Int
  BY JourneysAre DEF Known
<1>2. QuoteOf(x) \in Quotes
  BY DEF Known
<1> DEFINE q == QuoteOf(x)
<1> HIDE DEF q
<1>3. q \in Quotes
  BY <1>2 DEF q
<1>4. /\ q.priced \in BOOLEAN /\ q.total \in Nat /\ q.rank \in Int
      /\ (~ q.priced => q.total = 0)
  <2>1. CASE q = Unpriced
    BY <2>1 DEF Unpriced
  <2>2. CASE q \in [priced : {TRUE}, total : Totals, rank : Ranks]
    <3>1. q.priced = TRUE /\ q.total \in Totals /\ q.rank \in Ranks
      BY <2>2
    <3>2. q.total \in Nat
      BY <3>1, PriceAssumption
    <3>3. q.rank \in Int
      <4>1. \A n \in Ranks : n \in Int
        BY RankAssumption
      <4>2. QED
        BY <3>1, <4>1
    <3>4. QED
      BY <3>1, <3>2, <3>3
  <2>3. QED
    BY <1>3, <2>1, <2>2 DEF Quotes
<1>5. PriceKey(x) = <<IF q.priced THEN 0 ELSE 1, q.total, q.rank, x.arrival - x.departure, x.transfers>>
  BY DEF PriceKey, q
<1>6. /\ PriceKey(x) \in Seq(Int) /\ Len(PriceKey(x)) = 5
      /\ PriceKey(x)[1] = (IF q.priced THEN 0 ELSE 1) /\ PriceKey(x)[2] = q.total
  BY <1>1, <1>4, <1>5
<1>7. QED
  BY <1>1, <1>4, <1>6 DEF q

(* No two entries make the same offer, and what is priced comes first, the *)
(* cheapest before the rest.                                               *)
Distinct(s) == \A k, m \in 1..Len(s) : Offer(s[k]) = Offer(s[m]) => k = m
NoDearer(x, y) == QuoteOf(y).priced => QuoteOf(x).priced /\ QuoteOf(x).total <= QuoteOf(y).total
InOrder(s) == \A k, m \in 1..Len(s) : k < m => NoDearer(s[k], s[m])

(* Every offer is represented by its earliest arrival, once.               *)
Represents(c, s) ==
  /\ \A k \in 1..Len(c) : \E i \in 1..Len(s) : c[k] = s[i]
  /\ \A i \in 1..Len(s) : \E k \in 1..Len(c) : Offer(c[k]) = Offer(s[i]) /\ c[k].arrival <= s[i].arrival

(* collapse_equivalent leaves one itinerary of each offer, the earliest.   *)
LEMMA CollapsedIs ==
  ASSUME labels \in LabelLists, NEW s \in Seq(Known)
  PROVE  Collapsed(s) \in Seq(Known) /\ Distinct(Collapsed(s)) /\ Represents(Collapsed(s), s)
<1> DEFINE arrivals == [i \in DOMAIN s |-> <<s[i].arrival>>]
           best == {i \in DOMAIN s : \A j \in SameOffer(s, i) : <<j, i>> \notin ByKey(arrivals)}
           firsts == [i \in DOMAIN s |-> <<Min(SameOffer(s, i))>>]
           c == Collapsed(s)
           n == Len(s)
<1>0. n \in Nat /\ DOMAIN s = 1..n /\ \A i \in 1..n : s[i] \in Known
  OBVIOUS
<1>1. c = Arranged(s, best, firsts)
  BY DEF Collapsed
<1>2. Keyed(arrivals, n)
  <2>1. \A i \in 1..n : s[i].arrival \in Int
    BY <1>0, KnownAre
  <2>2. \A i \in 1..n : arrivals[i] \in Seq(Int) /\ Len(arrivals[i]) = 1
    BY <1>0, <2>1
  <2>3. arrivals \in [1..n -> Seq(Int)]
    BY <1>0, <2>2
  <2> HIDE DEF arrivals, n
  <2>4. QED
    BY <2>2, <2>3 DEF Keyed
<1>3. ASSUME NEW i \in 1..n
      PROVE  i \in SameOffer(s, i) /\ SameOffer(s, i) \in SUBSET (1..n)
  BY <1>0 DEF SameOffer
<1>4. Keyed(firsts, n)
  <2>1. ASSUME NEW i \in 1..n PROVE Min(SameOffer(s, i)) \in Int
    <3>1. SameOffer(s, i) \in SUBSET Nat /\ SameOffer(s, i) # {}
      BY <1>3
    <3>2. QED
      BY <1>3, <3>1, MinIsLeast
  <2>2. \A i \in 1..n : firsts[i] \in Seq(Int) /\ Len(firsts[i]) = 1
    BY <1>0, <2>1
  <2>3. firsts \in [1..n -> Seq(Int)]
    BY <1>0, <2>2
  <2> HIDE DEF firsts, n
  <2>4. QED
    BY <2>2, <2>3 DEF Keyed
<1>5. best \in SUBSET (1..n)
  BY <1>0
<1>6. /\ \A p \in SUBSET (1..n) : IsOrder(p, ByKey(arrivals))
      /\ \A i, j \in 1..n : <<i, j>> \in ByKey(arrivals) <=> Less(KeyOf(arrivals, i), KeyOf(arrivals, j))
  <2> HIDE DEF arrivals, n
  <2>1. ASSUME NEW p \in SUBSET (1..n)
        PROVE  /\ IsOrder(p, ByKey(arrivals))
               /\ \A i, j \in 1..n : <<i, j>> \in ByKey(arrivals) <=> Less(KeyOf(arrivals, i), KeyOf(arrivals, j))
    BY <1>0, <1>2, KeysOrder
  <2>2. {} \in SUBSET (1..n)
    OBVIOUS
  <2>3. QED
    BY <2>1, <2>2
<1>7. /\ c = [k \in 1..Len(c) |-> c[k]]
      /\ \E order : Takes(c, s, best, order)
  <2> HIDE DEF best, firsts
  <2>1. best \in SUBSET (1..Len(s)) /\ Keyed(firsts, Len(s))
    BY <1>4, <1>5
  <2> HIDE DEF n, c
  <2>2. QED
    BY <1>1, <2>1, ArrangementTakes
<1>8. PICK order : Takes(c, s, best, order)
  BY <1>7
<1> HIDE DEF c
<1>9. /\ Len(c) \in Nat /\ DOMAIN c = 1..Len(c)
      /\ \A k \in 1..Len(c) : order[k] \in best /\ c[k] = s[order[k]]
      /\ \A i \in best : \E k \in 1..Len(c) : order[k] = i
      /\ \A k, m \in 1..Len(c) : order[k] = order[m] => k = m
  BY <1>8 DEF Takes
<1>10. c \in Seq(Known)
  <2>1. \A k \in 1..Len(c) : c[k] \in Known
    BY <1>0, <1>5, <1>9
  <2>2. QED
    BY <1>7, <1>9, <2>1
<1>11. Distinct(c)
  <2> SUFFICES ASSUME NEW k \in 1..Len(c), NEW m \in 1..Len(c), Offer(c[k]) = Offer(c[m])
               PROVE  k = m
    BY DEF Distinct
  <2> DEFINE i == order[k]
             j == order[m]
  <2>1. i \in best /\ j \in best /\ i \in 1..n /\ j \in 1..n /\ Offer(s[i]) = Offer(s[j])
    BY <1>5, <1>9
  <2>2. i \in SameOffer(s, j) /\ j \in SameOffer(s, i)
    BY <1>0, <2>1 DEF SameOffer
  <2>3. <<i, j>> \notin ByKey(arrivals) /\ <<j, i>> \notin ByKey(arrivals)
    BY <2>1, <2>2
  <2>4. IsOrder(1..n, ByKey(arrivals))
    BY <1>6
  <2> HIDE DEF arrivals, i, j, best
  <2>5. i = j
    BY <2>1, <2>3, <2>4 DEF IsOrder
  <2>6. QED
    BY <1>9, <2>5 DEF i, j
<1>12. ASSUME NEW i \in 1..n
       PROVE  \E k \in 1..Len(c) : Offer(c[k]) = Offer(s[i]) /\ c[k].arrival <= s[i].arrival
  <2> DEFINE same == SameOffer(s, i)
  <2>1. same \in SUBSET (1..n) /\ same # {}
    BY <1>3
  <2>2. PICK b \in same : \A j \in same : <<j, b>> \notin ByKey(arrivals)
    <3> HIDE DEF same, arrivals, n
    <3>1. QED
      BY <1>0, <1>2, <2>1, FirstExists
  <2>3. b \in 1..n /\ Offer(s[b]) = Offer(s[i]) /\ SameOffer(s, b) = same
    BY <1>0, <2>1, <2>2 DEF SameOffer
  <2>4. b \in best
    BY <1>0, <2>2, <2>3
  <2>5. s[b].arrival <= s[i].arrival
    <3>1. <<i, b>> \notin ByKey(arrivals)
      BY <1>3, <2>2
    <3>2. ~ Less(KeyOf(arrivals, i), KeyOf(arrivals, b))
      <4> HIDE DEF arrivals
      <4>1. QED
        BY <1>6, <2>3, <3>1
    <3>3. s[i].arrival \in Int /\ s[b].arrival \in Int
      BY <1>0, <2>3, KnownAre
    <3>4. ~ (s[i].arrival < s[b].arrival)
      <4>1. arrivals[i] = <<s[i].arrival>> /\ arrivals[b] = <<s[b].arrival>> /\ i \in Int /\ b \in Int
        BY <1>0, <2>3
      <4> HIDE DEF arrivals
      <4>2. QED
        BY <3>2, <3>3, <4>1, KeyOfOne
    <3>5. QED
      BY <3>3, <3>4
  <2>6. PICK k \in 1..Len(c) : order[k] = b
    BY <1>9, <2>4
  <2>7. QED
    BY <1>9, <2>3, <2>5, <2>6
<1>13. \A k \in 1..Len(c) : \E i \in 1..n : c[k] = s[i]
  BY <1>5, <1>9
<1>14. Represents(c, s)
  BY <1>12, <1>13 DEF Represents
<1>15. QED
  BY <1>10, <1>11, <1>14 DEF c

(* One more number.                                                        *)
LEMMA AppendIs ==
  ASSUME NEW e \in Seq(Int), NEW i \in Int
  PROVE  DOMAIN Append(e, i) = 1..(Len(e) + 1) /\ \A k \in 1..Len(e) : Append(e, i)[k] = e[k]
OBVIOUS

(* What the order by price says of two itineraries.                        *)
LEMMA PriceOrder ==
  ASSUME labels \in LabelLists, NEW x \in Known, NEW y \in Known, NEW i \in Int, NEW j \in Int,
         NEW key, key[i] = PriceKey(x), key[j] = PriceKey(y),
         Less(KeyOf(key, i), KeyOf(key, j))
  PROVE  NoDearer(x, y)
<1> DEFINE a == KeyOf(key, i)
           b == KeyOf(key, j)
<1>1. /\ QuoteOf(x).priced \in BOOLEAN /\ QuoteOf(x).total \in Nat
      /\ QuoteOf(y).priced \in BOOLEAN /\ QuoteOf(y).total \in Nat
      /\ PriceKey(x) \in Seq(Int) /\ Len(PriceKey(x)) = 5
      /\ PriceKey(x)[1] = (IF QuoteOf(x).priced THEN 0 ELSE 1)
      /\ PriceKey(x)[2] = QuoteOf(x).total
      /\ PriceKey(y) \in Seq(Int) /\ Len(PriceKey(y)) = 5
      /\ PriceKey(y)[1] = (IF QuoteOf(y).priced THEN 0 ELSE 1)
      /\ PriceKey(y)[2] = QuoteOf(y).total
  BY KnownAre
<1>2. /\ DOMAIN a = 1..6 /\ a[1] = (IF QuoteOf(x).priced THEN 0 ELSE 1)
      /\ a[2] = QuoteOf(x).total
  <2>1. key[i] \in Seq(Int) /\ Len(key[i]) = 5
    BY <1>1
  <2>2. PICK e \in Seq(Int) : e = key[i] /\ a = Append(e, i)
    BY <2>1 DEF KeyOf
  <2> HIDE DEF a
  <2>3. /\ DOMAIN a = 1..(Len(e) + 1) /\ Len(e) = 5
        /\ \A k \in 1..Len(e) : a[k] = e[k]
    BY <2>1, <2>2, AppendIs
  <2>4. DOMAIN a = 1..6 /\ a[1] = e[1] /\ a[2] = e[2]
    BY <2>3
  <2>5. QED
    BY <1>1, <2>2, <2>4
<1>3. b[1] = (IF QuoteOf(y).priced THEN 0 ELSE 1) /\ b[2] = QuoteOf(y).total
  <2>1. key[j] \in Seq(Int) /\ Len(key[j]) = 5
    BY <1>1
  <2>2. PICK e \in Seq(Int) : e = key[j] /\ b = Append(e, j)
    BY <2>1 DEF KeyOf
  <2> HIDE DEF b
  <2>3. /\ DOMAIN b = 1..(Len(e) + 1) /\ Len(e) = 5
        /\ \A k \in 1..Len(e) : b[k] = e[k]
    BY <2>1, <2>2, AppendIs
  <2>4. b[1] = e[1] /\ b[2] = e[2]
    BY <2>3
  <2>5. QED
    BY <1>1, <2>2, <2>4
<1> HIDE DEF a, b
<1>4. Less(a, b)
  BY DEF a, b
<1>5. PICK k \in 1..6 : a[k] < b[k] /\ \A m \in 1..(k - 1) : a[m] = b[m]
  BY <1>2, <1>4 DEF Less
<1>6. CASE k = 1
  BY <1>1, <1>2, <1>3, <1>5, <1>6 DEF NoDearer
<1>7. CASE k = 2
  <2>1. 1 \in 1..(k - 1)
    BY <1>7
  <2>2. a[1] = b[1] /\ a[2] < b[2]
    BY <1>5, <1>7, <2>1
  <2>3. QED
    BY <1>1, <1>2, <1>3, <2>2 DEF NoDearer
<1>8. CASE k > 2
  <2>1. 1 \in 1..(k - 1) /\ 2 \in 1..(k - 1)
    BY <1>8
  <2>2. a[1] = b[1] /\ a[2] = b[2]
    BY <1>5, <2>1
  <2>3. QED
    BY <1>1, <1>2, <1>3, <2>2 DEF NoDearer
<1>9. QED
  BY <1>6, <1>7, <1>8

(* What is in one sequence is in the other.                                *)
SameOf(t, s) ==
  /\ \A k \in 1..Len(t) : \E i \in 1..Len(s) : t[k] = s[i]
  /\ \A i \in 1..Len(s) : \E k \in 1..Len(t) : t[k] = s[i]

(* Sorting by price changes the order alone.                               *)
LEMMA SortedIs ==
  ASSUME labels \in LabelLists, NEW s \in Seq(Known)
  PROVE  LET t == SortedBy(s, PriceKey)
         IN t \in Seq(Known) /\ InOrder(t) /\ SameOf(t, s) /\ (Distinct(s) => Distinct(t))
<1> DEFINE t == SortedBy(s, PriceKey)
           key == [i \in DOMAIN s |-> PriceKey(s[i])]
           all == DOMAIN s
<1>0. Len(s) \in Nat /\ all = 1..Len(s) /\ \A i \in 1..Len(s) : s[i] \in Known
  OBVIOUS
<1>1. t = Arranged(s, all, key)
  BY DEF SortedBy
<1>2. Keyed(key, Len(s))
  <2>1. \A i \in 1..Len(s) : key[i] \in Seq(Int) /\ Len(key[i]) = 5
    BY <1>0, KnownAre
  <2>2. key \in [1..Len(s) -> Seq(Int)]
    BY <1>0, <2>1
  <2> HIDE DEF key
  <2>3. QED
    BY <2>1, <2>2 DEF Keyed
<1>3. \A i \in 1..Len(s) : key[i] = PriceKey(s[i])
  BY <1>0
<1> HIDE DEF t, key, all
<1>4. PICK order : /\ Takes(t, s, all, order)
                   /\ \A i, j \in 1..Len(t) : i < j => Less(KeyOf(key, order[i]), KeyOf(key, order[j]))
  <2>1. all \in SUBSET (1..Len(s))
    BY <1>0
  <2>2. QED
    BY <1>1, <1>2, <2>1, ArrangementTakes
<1>5. /\ Len(t) \in Nat /\ DOMAIN t = 1..Len(t)
      /\ \A k \in 1..Len(t) : order[k] \in 1..Len(s) /\ t[k] = s[order[k]]
      /\ \A i \in 1..Len(s) : \E k \in 1..Len(t) : order[k] = i
      /\ \A k, m \in 1..Len(t) : order[k] = order[m] => k = m
  BY <1>0, <1>4 DEF Takes
<1>6. t \in Seq(Known) /\ SameOf(t, s)
  <2>1. all \in SUBSET (1..Len(s)) /\ PlacesOf(s, all)
    BY <1>0 DEF PlacesOf
  <2>2. t \in Seq(Known)
    BY <1>1, <1>2, <2>1, ArrangedAre
  <2>3. ASSUME NEW i \in 1..Len(s) PROVE \E k \in 1..Len(t) : t[k] = s[i]
    <3>1. PICK k \in 1..Len(t) : order[k] = i
      BY <1>5
    <3>2. t[k] = s[i]
      BY <1>5, <3>1
    <3>3. QED
      BY <3>2
  <2>4. ASSUME NEW k \in 1..Len(t) PROVE \E i \in 1..Len(s) : t[k] = s[i]
    BY <1>5
  <2>5. SameOf(t, s)
    BY <2>3, <2>4 DEF SameOf
  <2>6. QED
    BY <2>2, <2>5
<1>7. ASSUME NEW k \in 1..Len(t), NEW m \in 1..Len(t), k < m PROVE NoDearer(t[k], t[m])
  <2> DEFINE i == order[k]
             j == order[m]
  <2>1. i \in Int /\ j \in Int /\ t[k] = s[i] /\ t[m] = s[j] /\ s[i] \in Known /\ s[j] \in Known
    BY <1>0, <1>5
  <2>2. key[i] = PriceKey(s[i]) /\ key[j] = PriceKey(s[j])
    BY <1>3, <1>5
  <2>3. Less(KeyOf(key, i), KeyOf(key, j))
    BY <1>4, <1>7
  <2> HIDE DEF i, j
  <2>4. NoDearer(s[i], s[j])
    BY <2>1, <2>2, <2>3, PriceOrder
  <2>5. QED
    BY <2>1, <2>4
<1>8. ASSUME Distinct(s) PROVE Distinct(t)
  <2> SUFFICES ASSUME NEW k \in 1..Len(t), NEW m \in 1..Len(t), Offer(t[k]) = Offer(t[m])
               PROVE  k = m
    BY DEF Distinct
  <2>1. order[k] \in 1..Len(s) /\ order[m] \in 1..Len(s) /\ t[k] = s[order[k]] /\ t[m] = s[order[m]]
    BY <1>5
  <2>2. Offer(s[order[k]]) = Offer(s[order[m]])
    BY <2>1
  <2>3. order[k] = order[m]
    BY <1>8, <2>1, <2>2 DEF Distinct
  <2>4. QED
    BY <1>5, <2>3
<1>9. QED
  BY <1>6, <1>7, <1>8 DEF InOrder, t

(* A filter leaves the order as it is.                                     *)
LEMMA FilterKeepsOrder ==
  ASSUME NEW s \in Seq(Known), NEW places, PlacesOf(s, places)
  PROVE  LET t == AtPlaces(s, places)
         IN (InOrder(s) => InOrder(t)) /\ (Distinct(s) => Distinct(t))
<1> DEFINE t == AtPlaces(s, places)
<1>1. PICK order : /\ Takes(t, s, places, order)
                   /\ \A k, m \in 1..Len(t) : k < m => order[k] < order[m]
  BY FilterTakes DEF PlacesOf
<1> HIDE DEF t
<1>2. /\ \A k \in 1..Len(t) : order[k] \in 1..Len(s) /\ t[k] = s[order[k]]
      /\ \A k, m \in 1..Len(t) : order[k] = order[m] => k = m
  BY <1>1 DEF Takes, PlacesOf
<1>3. InOrder(s) => InOrder(t)
  BY <1>1, <1>2 DEF InOrder
<1>4. Distinct(s) => Distinct(t)
  BY <1>2 DEF Distinct
<1>5. QED
  BY <1>3, <1>4 DEF t

(* What is priced among itineraries in order, and what is kept.            *)
Survivors(s) == IF asked.requirePriced /\ Fully(s) # <<>> THEN Fully(s) ELSE s

(* The fully priced ones, in the order they had.                           *)
LEMMA FullyIs ==
  ASSUME NEW s \in Seq(Known)
  PROVE  LET t == Fully(s)
         IN /\ t \in Seq(Known) /\ (InOrder(s) => InOrder(t)) /\ (Distinct(s) => Distinct(t))
            /\ \A k \in 1..Len(t) : QuoteOf(t[k]).priced /\ \E i \in 1..Len(s) : t[k] = s[i]
            /\ \A i \in 1..Len(s) : QuoteOf(s[i]).priced => \E k \in 1..Len(t) : t[k] = s[i]
<1> DEFINE t == Fully(s)
           places == {i \in DOMAIN s : QuoteOf(s[i]).priced}
<1>1. t = AtPlaces(s, places) /\ PlacesOf(s, places)
  BY DEF Fully, Where, PlacesOf
<1>2. /\ \A i \in places : i \in 1..Len(s) /\ QuoteOf(s[i]).priced
      /\ \A i \in 1..Len(s) : QuoteOf(s[i]).priced => i \in places
  OBVIOUS
<1> HIDE DEF t, places
<1>3. t \in Seq(Known)
  BY <1>1, Filtered
<1>4. /\ \A k \in 1..Len(t) : \E i \in places : t[k] = s[i]
      /\ \A i \in places : \E k \in 1..Len(t) : t[k] = s[i]
  <2>1. PICK order : Takes(t, s, places, order)
    BY <1>1, FilterTakes DEF PlacesOf
  <2>2. QED
    BY <2>1 DEF Takes
<1>5. (InOrder(s) => InOrder(t)) /\ (Distinct(s) => Distinct(t))
  BY <1>1, FilterKeepsOrder
<1>6. QED
  BY <1>2, <1>3, <1>4, <1>5 DEF t

-----------------------------------------------------------------------------
(***************************************************************************)
(* The page.                                                               *)
(***************************************************************************)
(* All of s is in r, and what s shows of a way of travel.                  *)
Among(s, r) == \A k \in 1..Len(s) : \E i \in 1..Len(r) : s[k] = r[i]
Seen(s, mode) == \E k \in 1..Len(s) : mode \in s[k].modes
Priced(r, mode) == \E i \in 1..Len(r) : QuoteOf(r[i]).priced /\ mode \in r[i].modes

(* What is among the members of a sequence is among those of a larger one. *)
LEMMA AmongThrough ==
  ASSUME NEW s, NEW t, NEW r, Among(s, t), Among(t, r)
  PROVE  Among(s, r)
<1> SUFFICES ASSUME NEW k \in 1..Len(s) PROVE \E i \in 1..Len(r) : s[k] = r[i]
  BY DEF Among
<1>1. PICK j \in 1..Len(t) : s[k] = t[j]
  BY DEF Among
<1>2. PICK i \in 1..Len(r) : t[j] = r[i]
  BY DEF Among
<1>3. QED
  BY <1>1, <1>2

(* The page is a beginning of the ranking.                                 *)
LEMMA PageIs ==
  ASSUME pass \in 1..2, NEW r \in Seq(Known)
  PROVE  /\ Page(r) \in Seq(Known)
         /\ Len(Page(r)) = PageSize[pass] \/ Len(Page(r)) = Len(r)
         /\ Len(Page(r)) <= Len(r) /\ Len(Page(r)) \in Nat
         /\ \A k \in 1..Len(Page(r)) : Page(r)[k] = r[k]
<1>1. PICK a \in Nat : a = PageSize[pass]
  BY PageAssumption
<1>2. PICK n \in Nat : n = Len(r)
  OBVIOUS
<1>3. Min({a, n}) \in {a, n} /\ Min({a, n}) <= n
  BY MinIsLeast
<1>4. PICK m \in Nat : m = Min({a, n})
  BY <1>3
<1>5. Page(r) = SubSeq(r, 1, m)
  BY <1>1, <1>2, <1>4 DEF Page
<1>6. m <= Len(r) /\ (m = PageSize[pass] \/ m = Len(r))
  BY <1>1, <1>2, <1>3, <1>4
<1>7. SubSeq(r, 1, m) \in Seq(Known) /\ Len(SubSeq(r, 1, m)) = m
  BY <1>6
<1>8. \A k \in 1..m : SubSeq(r, 1, m)[k] = r[k]
  BY <1>6
<1>9. QED
  BY <1>5, <1>6, <1>7, <1>8

(* What Added adds is priced, and goes by the mode that was missed.        *)
LEMMA AddedIs ==
  ASSUME NEW r \in Seq(Known), NEW s \in Seq(Known), Among(s, r), NEW mode
  PROVE  /\ Added(r, s, mode) \in Seq(Known)
         /\ Among(Added(r, s, mode), r) /\ Among(s, Added(r, s, mode))
         /\ mode \in asked.modes /\ Priced(r, mode) => Seen(Added(r, s, mode), mode)
<1> DEFINE f == Fully(r)
           u == Using(r, mode)
           t == Added(r, s, mode)
           places == {i \in DOMAIN f : mode \in f[i].modes}
<1>1. /\ f \in Seq(Known)
      /\ \A k \in 1..Len(f) : \E i \in 1..Len(r) : f[k] = r[i]
      /\ \A i \in 1..Len(r) : QuoteOf(r[i]).priced => \E k \in 1..Len(f) : f[k] = r[i]
  BY FullyIs
<1>2. u = AtPlaces(f, places) /\ PlacesOf(f, places)
  BY <1>1 DEF Using, Where, PlacesOf
<1>3. /\ \A i \in places : i \in 1..Len(f) /\ mode \in f[i].modes
      /\ \A i \in 1..Len(f) : mode \in f[i].modes => i \in places
  BY <1>1
<1> HIDE DEF f, u, places
<1>4. u \in Seq(Known) /\ (u = <<>> <=> places = {})
  BY <1>1, <1>2, Filtered
<1>5. \A k \in 1..Len(u) : \E i \in places : u[k] = f[i]
  <2>1. PICK order : Takes(u, f, places, order)
    BY <1>1, <1>2, FilterTakes DEF PlacesOf
  <2>2. QED
    BY <2>1 DEF Takes
<1>6. ASSUME u # <<>>
      PROVE  Head(u) \in Known /\ mode \in Head(u).modes /\ \E i \in 1..Len(r) : Head(u) = r[i]
  <2>1. 1 \in 1..Len(u) /\ Head(u) = u[1] /\ Head(u) \in Known
    BY <1>4, <1>6
  <2>2. PICK i \in places : Head(u) = f[i]
    BY <1>5, <2>1
  <2>3. QED
    BY <1>1, <1>3, <2>1, <2>2
<1>7. ASSUME Priced(r, mode) PROVE u # <<>>
  <2>1. PICK i \in 1..Len(r) : QuoteOf(r[i]).priced /\ mode \in r[i].modes
    BY <1>7 DEF Priced
  <2>2. PICK k \in 1..Len(f) : f[k] = r[i]
    BY <1>1, <2>1
  <2>3. k \in places
    BY <1>3, <2>1, <2>2
  <2>4. QED
    BY <1>4, <2>3
<1>8. CASE t = s
  <2>1. Among(s, s)
    BY DEF Among
  <2>2. ASSUME mode \in asked.modes, Priced(r, mode) PROVE Seen(s, mode)
    <3>1. mode \in asked.modes /\ u # <<>>
      BY <1>7, <2>2
    <3>2. ASSUME ~ \E i \in DOMAIN s : mode \in s[i].modes PROVE FALSE
      <4>1. t = Append(s, Head(u))
        BY <3>1, <3>2 DEF Added, u
      <4>2. Len(Append(s, Head(u))) = Len(s) + 1 /\ Len(s) \in Nat
        BY <1>6, <3>1
      <4>3. QED
        BY <1>8, <4>1, <4>2
    <3>3. QED
      BY <3>2 DEF Seen
  <2>3. QED
    BY <1>8, <2>1, <2>2
<1>9. CASE t # s
  <2>1. u # <<>> /\ t = Append(s, Head(u))
    BY <1>9 DEF Added, u
  <2> DEFINE x == Head(u)
  <2>2. x \in Known /\ mode \in x.modes /\ \E i \in 1..Len(r) : x = r[i]
    BY <1>6, <2>1
  <2> HIDE DEF x, t
  <2>3. /\ t \in Seq(Known) /\ Len(t) = Len(s) + 1 /\ Len(s) \in Nat
        /\ \A k \in 1..Len(s) : t[k] = s[k]
        /\ t[Len(s) + 1] = x
    BY <2>1, <2>2 DEF x
  <2>4. Seen(t, mode)
    BY <2>2, <2>3 DEF Seen
  <2>5. Among(s, t)
    BY <2>3 DEF Among
  <2>6. Among(t, r)
    <3> SUFFICES ASSUME NEW k \in 1..Len(t) PROVE \E i \in 1..Len(r) : t[k] = r[i]
      BY DEF Among
    <3>1. CASE k \in 1..Len(s)
      BY <2>3, <3>1 DEF Among
    <3>2. CASE k \notin 1..Len(s)
      <4>1. k = Len(s) + 1
        BY <2>3, <3>2
      <4>2. QED
        BY <2>2, <2>3, <4>1
    <3>3. QED
      BY <3>1, <3>2
  <2>7. QED
    BY <2>3, <2>4, <2>5, <2>6 DEF t
<1>10. QED
  BY <1>8, <1>9

(* A fold of Added over the ways of travel, one at a time.                 *)
Additions(h, r, page, n) ==
  /\ Covering(r, page) = h[1..n]
  /\ h[1..0] = page
  /\ \A k \in Nat : k < n => h[1..(k + 1)] = Added(r, h[1..k], TravelModes[k + 1])

(* What may stand on a page.                                               *)
From(r) == {s \in Seq(Known) : Among(s, r)}

(* _ensure_mode_coverage goes through the ways of travel one at a time.    *)
LEMMA CoveringUnfolds ==
  ASSUME NEW r \in Seq(Known), NEW page \in From(r)
  PROVE  \E h : Additions(h, r, page, Len(TravelModes))
<1> DEFINE n == Len(TravelModes)
           V == From(r)
           st == [q \in V \X (1..n) |-> Added(r, q[1], TravelModes[q[2]])]
<1>0. n \in Nat /\ DOMAIN TravelModes = 1..n
  BY ModesAssumption DEF IsSequence
<1>1. \A v \in V : \A i \in 1..n : st[<<v, i>>] = Added(r, v, TravelModes[i]) /\ st[<<v, i>>] \in V
  BY AddedIs DEF From
<1> HIDE DEF st, V, n
<1>2. page \in V
  BY DEF V
<1>3. PICK f : IsFold(f, n, page, st) /\ \A s \in SUBSET (1..n) : f[s] \in V
  BY <1>0, <1>1, <1>2, FoldExists
<1> DEFINE IsPass(h) ==
             h = [s \in SUBSET (1..n) |->
                    IF s = {} THEN page ELSE Added(r, h[s \ {Max(s)}], TravelModes[Max(s)])]
<1>4. ASSUME NEW s \in SUBSET (1..n), s # {}
      PROVE  Max(s) \in 1..n /\ s \ {Max(s)} \in SUBSET (1..n)
  <2>1. s \in SUBSET (0..n)
    BY <1>0
  <2>2. Max(s) \in s
    BY <1>0, <1>4, <2>1, MaxIsGreatest
  <2>3. QED
    BY <2>2
<1>5. IsPass(f)
  <2>1. \A s \in SUBSET (1..n) :
          s # {} => st[<<f[s \ {Max(s)}], Max(s)>>] = Added(r, f[s \ {Max(s)}], TravelModes[Max(s)])
    BY <1>1, <1>3, <1>4
  <2>2. QED
    BY <1>3, <2>1 DEF IsFold
<1>6. PICK h : IsPass(h) /\ Covering(r, page) = h[1..n]
  BY <1>0, <1>5 DEF Covering, FoldLeft, MapThenFoldSet
<1>7. \A s \in SUBSET (1..n) :
        h[s] = IF s = {} THEN page ELSE Added(r, h[s \ {Max(s)}], TravelModes[Max(s)])
  BY <1>6
<1>8. h[1..0] = page
  <2>1. 1..0 = {} /\ {} \in SUBSET (1..n)
    OBVIOUS
  <2>2. QED
    BY <1>7, <2>1
<1>9. ASSUME NEW k \in Nat, k < n PROVE h[1..(k + 1)] = Added(r, h[1..k], TravelModes[k + 1])
  <2>1. 1..(k + 1) \in SUBSET (1..n) /\ 1..(k + 1) # {}
    <3>1. k + 1 \in 1..(k + 1) /\ \A i \in 1..(k + 1) : i \in 1..n
      BY <1>0, <1>9
    <3>2. QED
      BY <3>1
  <2>2. Max(1..(k + 1)) = k + 1 /\ (1..(k + 1)) \ {k + 1} = 1..k
    BY LastOfFirst
  <2>3. QED
    BY <1>7, <2>1, <2>2
<1>10. Additions(h, r, page, n)
  BY <1>6, <1>8, <1>9 DEF Additions
<1>11. QED
  BY <1>10 DEF n

(* The covered page keeps the page, and shows every way of travel that is  *)
(* asked for and can be had at a price.                                    *)
LEMMA CoveringIs ==
  ASSUME NEW r \in Seq(Known), NEW page \in Seq(Known), Among(page, r)
  PROVE  /\ Covering(r, page) \in Seq(Known) /\ Among(Covering(r, page), r)
         /\ Among(page, Covering(r, page))
         /\ \A m \in asked.modes \cap Elements(TravelModes) :
              Priced(r, m) => Seen(Covering(r, page), m)
<1> DEFINE n == Len(TravelModes)
           C == Covering(r, page)
<1>0. n \in Nat /\ DOMAIN TravelModes = 1..n
  BY ModesAssumption DEF IsSequence
<1>1. page \in From(r)
  BY DEF From
<1>2. PICK h : Additions(h, r, page, n)
  BY <1>1, CoveringUnfolds
<1>3. /\ C = h[1..n] /\ h[1..0] = page
      /\ \A k \in Nat : k < n => h[1..(k + 1)] = Added(r, h[1..k], TravelModes[k + 1])
  BY <1>2 DEF Additions
<1> DEFINE Done(k) ==
             /\ h[1..k] \in Seq(Known) /\ Among(h[1..k], r) /\ Among(page, h[1..k])
             /\ \A j \in 1..k : TravelModes[j] \in asked.modes /\ Priced(r, TravelModes[j]) => Seen(h[1..k], TravelModes[j])
           T == {k \in Nat : k <= n => Done(k)}
<1> HIDE DEF n, C
<1>4. Done(0)
  BY <1>3 DEF Among
<1>5. ASSUME NEW k \in Nat, k + 1 <= n, Done(k) PROVE Done(k + 1)
  <2> DEFINE s == h[1..k]
             m == TravelModes[k + 1]
             t == Added(r, s, m)
  <2>1. h[1..(k + 1)] = t
    BY <1>0, <1>3, <1>5
  <2>2. /\ t \in Seq(Known) /\ Among(t, r) /\ Among(s, t)
        /\ m \in asked.modes /\ Priced(r, m) => Seen(t, m)
    BY <1>5, AddedIs
  <2> HIDE DEF t
  <2>3. Among(page, t)
    BY <1>5, <2>2, AmongThrough
  <2>4. ASSUME NEW j \in 1..k, TravelModes[j] \in asked.modes, Priced(r, TravelModes[j])
        PROVE  Seen(t, TravelModes[j])
    <3>1. PICK i \in 1..Len(s) : TravelModes[j] \in s[i].modes
      BY <1>5, <2>4 DEF Seen
    <3>2. PICK l \in 1..Len(t) : s[i] = t[l]
      BY <2>2 DEF Among
    <3>3. QED
      BY <3>1, <3>2 DEF Seen
  <2>5. \A j \in 1..(k + 1) : j \in 1..k \/ j = k + 1
    OBVIOUS
  <2> HIDE DEF s
  <2>6. ASSUME NEW j \in 1..(k + 1), TravelModes[j] \in asked.modes, Priced(r, TravelModes[j])
        PROVE  Seen(t, TravelModes[j])
    BY <2>2, <2>4, <2>5, <2>6
  <2>7. QED
    BY <2>1, <2>2, <2>3, <2>6
<1>6. Done(n)
  <2> HIDE DEF Done
  <2>1. 0 \in T
    BY <1>4
  <2>2. ASSUME NEW k \in T PROVE k + 1 \in T
    <3>1. k \in Nat /\ k + 1 \in Nat
      OBVIOUS
    <3>2. CASE k + 1 <= n
      <4>1. Done(k)
        BY <1>0, <3>1, <3>2
      <4>2. QED
        BY <1>5, <3>1, <3>2, <4>1
    <3>3. CASE ~ (k + 1 <= n)
      BY <3>1, <3>3
    <3>4. QED
      BY <3>2, <3>3
  <2>3. T \in SUBSET Nat
    OBVIOUS
  <2> HIDE DEF T
  <2>4. T = Nat
    BY <2>1, <2>2, <2>3, AllNaturals
  <2>5. QED
    BY <1>0, <2>4 DEF T
<1>7. ASSUME NEW m \in asked.modes \cap Elements(TravelModes), Priced(r, m)
      PROVE  Seen(C, m)
  <2>1. PICK j \in 1..n : m = TravelModes[j]
    BY <1>0 DEF Elements
  <2>2. QED
    BY <1>3, <1>6, <1>7, <2>1
<1>8. QED
  BY <1>3, <1>6, <1>7 DEF C

-----------------------------------------------------------------------------
(***************************************************************************)
(* The steps.                                                              *)
(***************************************************************************)
(* What is wanted goes by the labels and the request alone.                *)
LEMMA WantedStays ==
  ASSUME labels' = labels, asked' = asked
  PROVE  Journeys' = Journeys /\ Routed' = Routed /\ Wanted' = Wanted /\ Final' = Final
<1>1. Candidates' = Candidates
  BY DEF Candidates, Itinerary, Tightened, Vehicles
<1>2. Routed' = Routed
  BY <1>1 DEF Routed, Where
<1>3. Wanted' = Wanted
  BY <1>2 DEF Wanted, Where, Priceable, Permits
<1>4. Final' = Final
  BY <1>3 DEF Final
<1>5. Journeys' = Journeys
  BY DEF Journeys, Itinerary, Tightened
<1>6. QED
  BY <1>2, <1>3, <1>4, <1>5

(* A sequence of different things has at least as many places.             *)
LEMMA AtLeastAsMany ==
  ASSUME NEW n \in Nat, NEW T, IsFiniteSet(T), NEW f \in [1..n -> T],
         \A i, j \in 1..n : f[i] = f[j] => i = j
  PROVE  n <= Cardinality(T)
<1>1. f \in Injection(1..n, T)
  BY DEF Injection, IsInjective
<1>2. Cardinality(1..n) = n /\ IsFiniteSet(1..n)
  BY UpTo
<1>3. Cardinality(1..n) <= Cardinality(T)
  BY <1>1, FS_Injection
<1>4. QED
  BY <1>2, <1>3

(* What is in a sequence is finitely much.                                 *)
LEMMA ElementsAreFinite ==
  ASSUME NEW S, NEW s \in Seq(S)
  PROVE  IsFiniteSet(Elements(s)) /\ \A x : x \in Elements(s) <=> \E k \in 1..Len(s) : x = s[k]
<1>1. Len(s) \in Nat /\ DOMAIN s = 1..Len(s)
  OBVIOUS
<1>2. Elements(s) = {s[i] : i \in 1..Len(s)}
  BY <1>1 DEF Elements
<1>3. IsFiniteSet(1..Len(s))
  BY <1>1, FS_Interval
<1>4. IsFiniteSet({s[i] : i \in 1..Len(s)})
  BY <1>3, ImageIsFinite
<1>5. QED
  BY <1>2, <1>4

(* Offers of the same shape and price.                                     *)
LEMMA OffersAre ==
  ASSUME NEW x, NEW y
  PROVE  Offer(x) = Offer(y) <=>
           x.shape = y.shape /\ QuoteOf(x).priced = QuoteOf(y).priced /\ QuoteOf(x).total = QuoteOf(y).total
BY DEF Offer

(* The ranking has each offer once, in order of price.                     *)
LEMMA RankedIs ==
  ASSUME labels \in LabelLists, list \in Seq(Known)
  PROVE  /\ Ranked \in Seq(Known) /\ InOrder(Ranked) /\ Distinct(Ranked) /\ Represents(Ranked, list)
<1> DEFINE c == Collapsed(list)
<1>1. c \in Seq(Known) /\ Distinct(c) /\ Represents(c, list)
  BY CollapsedIs
<1>2. Ranked = SortedBy(c, PriceKey)
  BY DEF Ranked
<1> HIDE DEF c
<1>3. Ranked \in Seq(Known) /\ InOrder(Ranked) /\ SameOf(Ranked, c) /\ Distinct(Ranked)
  BY <1>1, <1>2, SortedIs
<1>4. ASSUME NEW k \in 1..Len(Ranked) PROVE \E i \in 1..Len(list) : Ranked[k] = list[i]
  <2>1. PICK m \in 1..Len(c) : Ranked[k] = c[m]
    BY <1>3 DEF SameOf
  <2>2. QED
    BY <1>1, <2>1 DEF Represents
<1>5. ASSUME NEW i \in 1..Len(list)
      PROVE  \E k \in 1..Len(Ranked) : Offer(Ranked[k]) = Offer(list[i]) /\ Ranked[k].arrival <= list[i].arrival
  <2>1. PICK m \in 1..Len(c) : Offer(c[m]) = Offer(list[i]) /\ c[m].arrival <= list[i].arrival
    BY <1>1 DEF Represents
  <2>2. PICK k \in 1..Len(Ranked) : Ranked[k] = c[m]
    BY <1>3 DEF SameOf
  <2>3. QED
    BY <2>1, <2>2
<1>6. QED
  BY <1>3, <1>4, <1>5 DEF Represents

(* What is kept of the ranking.                                            *)
LEMMA SurvivorsAre ==
  ASSUME NEW r \in Seq(Known), InOrder(r), Distinct(r)
  PROVE  /\ Survivors(r) \in Seq(Known) /\ InOrder(Survivors(r)) /\ Distinct(Survivors(r))
         /\ Among(Survivors(r), r)
         /\ \A i \in 1..Len(r) : QuoteOf(r[i]).priced => \E k \in 1..Len(Survivors(r)) : Survivors(r)[k] = r[i]
         /\ \/ Survivors(r) = r
            \/ /\ Survivors(r) = Fully(r)
               /\ \A k \in 1..Len(Survivors(r)) : QuoteOf(Survivors(r)[k]).priced
<1>1. CASE Survivors(r) = r
  BY <1>1 DEF Among
<1>2. CASE Survivors(r) # r
  <2>1. Survivors(r) = Fully(r)
    BY <1>2 DEF Survivors
  <2> DEFINE t == Fully(r)
  <2>2. /\ t \in Seq(Known) /\ (InOrder(r) => InOrder(t)) /\ (Distinct(r) => Distinct(t))
        /\ \A k \in 1..Len(t) : QuoteOf(t[k]).priced /\ \E i \in 1..Len(r) : t[k] = r[i]
        /\ \A i \in 1..Len(r) : QuoteOf(r[i]).priced => \E k \in 1..Len(t) : t[k] = r[i]
    BY FullyIs
  <2> HIDE DEF t
  <2>3. Among(t, r)
    BY <2>2 DEF Among
  <2>4. Survivors(r) = t
    BY <2>1 DEF t
  <2>5. QED
    BY <2>1, <2>2, <2>3, <2>4
<1>3. QED
  BY <1>1, <1>2

(* What is shown: the page, covered, by price.                             *)
ShownOf(r) == SortedBy(Covering(r, Page(r)), PriceKey)

(* The answer keeps the page and has every way of travel with a known      *)
(* price.                                                                  *)
LEMMA ShownIs ==
  ASSUME labels \in LabelLists, pass \in 1..2, NEW r \in Seq(Known)
  PROVE  /\ ShownOf(r) \in Seq(Known) /\ Among(ShownOf(r), r) /\ Among(Page(r), ShownOf(r))
         /\ \A m \in asked.modes \cap Elements(TravelModes) : Priced(r, m) => Seen(ShownOf(r), m)
<1> DEFINE p == Page(r)
           c == Covering(r, p)
           t == ShownOf(r)
<1>1. p \in Seq(Known) /\ Among(p, r)
  BY PageIs DEF Among
<1> HIDE DEF p
<1>2. /\ c \in Seq(Known) /\ Among(c, r) /\ Among(p, c)
      /\ \A m \in asked.modes \cap Elements(TravelModes) : Priced(r, m) => Seen(c, m)
  BY <1>1, CoveringIs
<1>3. t = SortedBy(c, PriceKey)
  BY DEF ShownOf, p
<1> HIDE DEF c, t
<1>4. t \in Seq(Known) /\ SameOf(t, c)
  BY <1>2, <1>3, SortedIs
<1>5. Among(t, c) /\ Among(c, t)
  <2>1. Among(t, c)
    BY <1>4 DEF SameOf, Among
  <2>2. ASSUME NEW i \in 1..Len(c) PROVE \E k \in 1..Len(t) : c[i] = t[k]
    <3>1. PICK k \in 1..Len(t) : t[k] = c[i]
      BY <1>4 DEF SameOf
    <3>2. QED
      BY <3>1
  <2>3. QED
    BY <2>1, <2>2 DEF Among
<1>6. Among(t, r) /\ Among(p, t)
  BY <1>2, <1>5, AmongThrough
<1>7. ASSUME NEW m, Seen(c, m) PROVE Seen(t, m)
  <2>1. PICK k \in 1..Len(c) : m \in c[k].modes
    BY <1>7 DEF Seen
  <2>2. PICK j \in 1..Len(t) : c[k] = t[j]
    BY <1>5 DEF Among
  <2>3. QED
    BY <2>1, <2>2 DEF Seen
<1>8. QED
  BY <1>2, <1>4, <1>6, <1>7 DEF p, t

(* What a page shows of the offers that are known, and of the ways of      *)
(* travel.                                                                 *)
NoDearerOn(s, x) == {y \in Elements(s) : QuoteOf(y).priced /\ QuoteOf(y).total <= QuoteOf(x).total}
Best(s, x) ==
  \/ \E y \in NoDearerOn(s, x) : Offer(y) = Offer(x) /\ y.arrival <= x.arrival
  \/ Cardinality(NoDearerOn(s, x)) >= PageSize[pass]
ShowsBest(s) == \A x \in Elements(list) : QuoteOf(x).priced => Best(s, x)
ShowsModes(s) ==
  \A m \in asked.modes \cap Elements(TravelModes) :
    (\E x \in Elements(list) : m \in x.modes /\ QuoteOf(x).priced) =>
      \E y \in Elements(s) : m \in y.modes

(* Whatever is priced is on the page, or the page is full of what costs no *)
(* more: the places of the page before it are as many distinct offers.     *)
LEMMA BestWillShow ==
  ASSUME labels \in LabelLists, pass \in 1..2, list \in Seq(Known)
  PROVE  ShowsBest(ShownOf(Survivors(Ranked)))
<1> DEFINE r == Ranked
           k == Survivors(r)
           p == Page(k)
           s == ShownOf(k)
<1>1. r \in Seq(Known) /\ InOrder(r) /\ Distinct(r) /\ Represents(r, list)
  BY RankedIs
<1> HIDE DEF r
<1>2. /\ k \in Seq(Known) /\ InOrder(k) /\ Distinct(k)
      /\ \A i \in 1..Len(r) : QuoteOf(r[i]).priced => \E j \in 1..Len(k) : k[j] = r[i]
  BY <1>1, SurvivorsAre
<1> HIDE DEF k
<1>3. /\ p \in Seq(Known) /\ (Len(p) = PageSize[pass] \/ Len(p) = Len(k))
      /\ Len(p) <= Len(k) /\ Len(p) \in Nat
      /\ \A i \in 1..Len(p) : p[i] = k[i]
  BY <1>2, PageIs
<1>4. s \in Seq(Known) /\ Among(p, s)
  BY <1>2, ShownIs
<1> HIDE DEF p, s
<1>5. SUFFICES ASSUME NEW x \in Elements(list), QuoteOf(x).priced PROVE Best(s, x)
  BY DEF ShowsBest, s, k, r
<1>6. PICK i \in 1..Len(list) : x = list[i]
  BY <1>5, ElementsAreFinite
<1>7. PICK m \in 1..Len(r) : Offer(r[m]) = Offer(x) /\ r[m].arrival <= x.arrival
  BY <1>1, <1>6 DEF Represents
<1>8. QuoteOf(r[m]).priced /\ QuoteOf(r[m]).total = QuoteOf(x).total
  BY <1>5, <1>7, OffersAre
<1>9. PICK j \in 1..Len(k) : k[j] = r[m]
  BY <1>2, <1>8
<1>10. x \in Known /\ QuoteOf(x).total \in Nat
  BY <1>6, KnownAre
<1>11. \A y : y \in NoDearerOn(s, x) <=>
               /\ \E l \in 1..Len(s) : y = s[l]
               /\ QuoteOf(y).priced /\ QuoteOf(y).total <= QuoteOf(x).total
  BY <1>4, ElementsAreFinite DEF NoDearerOn
<1>12. CASE j <= Len(p)
  <2>1. j \in 1..Len(p)
    BY <1>3, <1>12
  <2>2. PICK l \in 1..Len(s) : p[j] = s[l]
    BY <1>4, <2>1 DEF Among
  <2>3. s[l] = r[m]
    BY <1>3, <1>9, <2>1, <2>2
  <2>4. r[m] \in NoDearerOn(s, x)
    BY <1>8, <1>10, <1>11, <2>3
  <2>5. QED
    BY <1>7, <2>4 DEF Best
<1>13. CASE ~ (j <= Len(p))
  <2>1. Len(p) = PageSize[pass]
    BY <1>2, <1>3, <1>13
  <2> DEFINE n == Len(p)
             f == [i1 \in 1..n |-> p[i1]]
  <2>2. ASSUME NEW i1 \in 1..n PROVE f[i1] \in NoDearerOn(s, x)
    <3>1. i1 \in 1..Len(k) /\ i1 < j /\ f[i1] = k[i1] /\ p[i1] = k[i1]
      BY <1>2, <1>3, <1>13
    <3>2. NoDearer(k[i1], k[j])
      BY <1>2, <3>1 DEF InOrder
    <3>3. QuoteOf(k[i1]).priced /\ QuoteOf(k[i1]).total <= QuoteOf(x).total
      BY <1>8, <1>9, <3>2 DEF NoDearer
    <3>4. PICK l \in 1..Len(s) : p[i1] = s[l]
      BY <1>4 DEF Among
    <3>5. QED
      BY <1>11, <3>1, <3>3, <3>4
  <2>3. ASSUME NEW i1 \in 1..n, NEW i2 \in 1..n, f[i1] = f[i2] PROVE i1 = i2
    <3>1. i1 \in 1..Len(k) /\ i2 \in 1..Len(k) /\ k[i1] = k[i2]
      BY <1>2, <1>3, <2>3
    <3>2. QED
      BY <1>2, <3>1 DEF Distinct
  <2>4. IsFiniteSet(NoDearerOn(s, x))
    <3>1. IsFiniteSet(Elements(s))
      BY <1>4, ElementsAreFinite
    <3>2. NoDearerOn(s, x) \in SUBSET Elements(s)
      BY DEF NoDearerOn
    <3>3. QED
      BY <3>1, <3>2, FS_Subset
  <2>5. n \in Nat /\ f \in [1..n -> NoDearerOn(s, x)]
    BY <1>3, <2>2
  <2> HIDE DEF n, f
  <2>6. n <= Cardinality(NoDearerOn(s, x))
    BY <2>3, <2>4, <2>5, AtLeastAsMany
  <2>7. Cardinality(NoDearerOn(s, x)) \in Nat
    BY <2>4, FS_CardinalityType
  <2>8. QED
    BY <2>1, <2>5, <2>6, <2>7 DEF Best, n
<1>14. QED
  BY <1>12, <1>13

(* A way of travel that has a price is on the page, or is added to it.     *)
LEMMA ModesWillShow ==
  ASSUME labels \in LabelLists, pass \in 1..2, list \in Seq(Known)
  PROVE  ShowsModes(ShownOf(Survivors(Ranked)))
<1> DEFINE r == Ranked
           k == Survivors(r)
           s == ShownOf(k)
<1>1. r \in Seq(Known) /\ InOrder(r) /\ Distinct(r) /\ Represents(r, list)
  BY RankedIs
<1> HIDE DEF r
<1>2. /\ k \in Seq(Known)
      /\ \A i \in 1..Len(r) : QuoteOf(r[i]).priced => \E j \in 1..Len(k) : k[j] = r[i]
  BY <1>1, SurvivorsAre
<1> HIDE DEF k
<1>3. /\ s \in Seq(Known)
      /\ \A m \in asked.modes \cap Elements(TravelModes) : Priced(k, m) => Seen(s, m)
  BY <1>2, ShownIs
<1> HIDE DEF s
<1> SUFFICES ASSUME NEW m \in asked.modes \cap Elements(TravelModes),
                    NEW x \in Elements(list), m \in x.modes, QuoteOf(x).priced
             PROVE  \E y \in Elements(s) : m \in y.modes
  BY DEF ShowsModes, s, k, r
<1>4. PICK i \in 1..Len(list) : x = list[i]
  BY ElementsAreFinite
<1>5. PICK l \in 1..Len(r) : Offer(r[l]) = Offer(x)
  BY <1>1, <1>4 DEF Represents
<1>6. QuoteOf(r[l]).priced /\ r[l].shape = x.shape
  BY <1>5, OffersAre
<1>7. r[l].modes = x.modes
  <2>1. r[l] \in Journeys /\ x \in Journeys
    BY <1>1, <1>4 DEF Known
  <2>2. QED
    BY <1>6, <2>1, JourneysAre
<1>8. PICK j \in 1..Len(k) : k[j] = r[l]
  BY <1>2, <1>6
<1>9. Priced(k, m)
  BY <1>6, <1>7, <1>8 DEF Priced
<1>10. PICK q \in 1..Len(s) : m \in s[q].modes
  BY <1>3, <1>9 DEF Seen
<1>11. s[q] \in Elements(s)
  BY <1>3, ElementsAreFinite
<1>12. QED
  BY <1>10, <1>11

(* The properties of an answer as relations between what was to be priced, *)
(* what is shown and the prices.                                           *)
SameQuote(x, y, q) ==
  x.shape = y.shape /\ q[x.id].priced = q[y.id].priced /\ q[x.id].total = q[y.id].total
Cheap(s, q, x) == {y \in Elements(s) : q[y.id].priced /\ q[y.id].total <= q[x.id].total}
BestOf(l, s, q, n) ==
  \A x \in Elements(l) : q[x.id].priced =>
    \/ \E y \in Cheap(s, q, x) : SameQuote(y, x, q) /\ y.arrival <= x.arrival
    \/ Cardinality(Cheap(s, q, x)) >= n
ModesOf(l, s, q, a) ==
  \A m \in a.modes \cap Elements(TravelModes) :
    (\E x \in Elements(l) : m \in x.modes /\ q[x.id].priced) =>
      \E y \in Elements(s) : m \in y.modes
(* Those of an answer that cost no more than a fare.                       *)
Within(s, q, fare) == {y \in Elements(s) : q[y.id].priced /\ q[y.id].total <= fare}
StaysOf(before, after, q, old, n) ==
  \A x \in {z \in Elements(before) : z.id \in DOMAIN old} :
    \/ \E y \in Within(after, q, old[x.id].total) :
         y.shape = x.shape /\ q[y.id].total = old[x.id].total /\ y.arrival <= x.arrival
    \/ Cardinality(Within(after, q, old[x.id].total)) >= n

Meaning ==
  /\ NothingIsWithheld <=>
       (at = "done" /\ ~ timedOut =>
          BestOf(list, shown[pass], quotes, PageSize[pass]) /\ ModesOf(list, shown[pass], quotes, asked))
  /\ ShownStaysShown <=>
       (at = "done" /\ pass = 2 /\ ~ timedOut =>
          StaysOf(shown[1], shown[2], quotes, served, PageSize[2]))

(* What the two properties say, without the operators that read the state. *)
LEMMA PropertiesAre == Meaning
<1>1. CASE timedOut
  BY <1>1 DEF NothingIsWithheld, BestIsShown, ModesAreShown, ShownStaysShown, Meaning
<1>2. CASE ~ timedOut
  <2>1. \A x : QuoteOf(x) = quotes[x.id]
    BY <1>2 DEF QuoteOf
  <2>2. \A x, y : Offer(x) = Offer(y) <=> SameQuote(x, y, quotes)
    BY <2>1 DEF Offer, SameQuote
  <2>3. \A s, x : {y \in Elements(s) : QuoteOf(y).priced /\ QuoteOf(y).total <= QuoteOf(x).total}
                    = Cheap(s, quotes, x)
    BY <2>1 DEF Cheap
  <2>4. BestIsShown <=> (at = "done" => BestOf(list, shown[pass], quotes, PageSize[pass]))
    BY <1>2, <2>1, <2>2, <2>3 DEF BestIsShown, BestOf
  <2>5. ModesAreShown <=> (at = "done" => ModesOf(list, shown[pass], quotes, asked))
    BY <1>2, <2>1 DEF ModesAreShown, ModesOf
  <2>6. ShownStaysShown <=>
          (at = "done" /\ pass = 2 => StaysOf(shown[1], shown[2], quotes, served, PageSize[2]))
    <3>1. \A s, fare : {y \in Elements(s) : QuoteOf(y).priced /\ QuoteOf(y).total <= fare}
                         = Within(s, quotes, fare)
      BY <2>1 DEF Within
    <3>2. QED
      BY <1>2, <2>1, <3>1 DEF ShownStaysShown, StaysOf
  <2>7. QED
    BY <1>2, <2>4, <2>5, <2>6 DEF NothingIsWithheld, Meaning
<1>3. QED
  BY <1>1, <1>2

(* And what they say of the next state.                                    *)
LEMMA PropertiesWillBe ==
  /\ NothingIsWithheld' <=>
       (at' = "done" /\ ~ timedOut' =>
          BestOf(list', shown'[pass'], quotes', PageSize[pass']) /\ ModesOf(list', shown'[pass'], quotes', asked'))
  /\ ShownStaysShown' <=>
       (at' = "done" /\ pass' = 2 /\ ~ timedOut' =>
          StaysOf(shown'[1], shown'[2], quotes', served', PageSize[2]))
<1>1. Meaning'
  BY PropertiesAre, PTL
<1>2. QED
  BY <1>1 DEF Meaning

(* What the last answer was made from.                                     *)
LEMMA AnswerIs ==
  ASSUME ~ timedOut, NEW s
  PROVE  /\ ShowsBest(s) => BestOf(list, s, quotes, PageSize[pass])
         /\ ShowsModes(s) => ModesOf(list, s, quotes, asked)
<1>1. \A x : QuoteOf(x) = quotes[x.id]
  BY DEF QuoteOf
<1>2. \A x, y : Offer(x) = Offer(y) <=> SameQuote(x, y, quotes)
  BY <1>1 DEF Offer, SameQuote
<1>3. \A x : NoDearerOn(s, x) = Cheap(s, quotes, x)
  BY <1>1 DEF Cheap, NoDearerOn
<1>4. ShowsBest(s) => BestOf(list, s, quotes, PageSize[pass])
  BY <1>1, <1>2, <1>3 DEF ShowsBest, Best, BestOf
<1>5. ShowsModes(s) => ModesOf(list, s, quotes, asked)
  BY <1>1 DEF ShowsModes, ModesOf
<1>6. QED
  BY <1>4, <1>5

(* The strengthened invariant.  What is to be priced goes by the labels    *)
(* and the request alone, so a refined pass prices the same itineraries;   *)
(* their prices are all known once a ranking is not out of time.  All that *)
(* the first pass has shown is among them, and what the cache has served   *)
(* is their price.                                                         *)
Fares == quotes \in [{Final[i].id : i \in 1..Len(Final)} -> Quotes]

Remembered ==
  \A k \in 1..Len(shown[1]) : \E i \in 1..Len(Final) : shown[1][k] = Final[i]

Served == \A id \in DOMAIN served : quotes[id] = served[id] /\ served[id].priced

RankTypes ==
  /\ labels \in LabelLists /\ pass \in 1..2
  /\ at \in {"route", "permit", "sample", "price", "rank", "done"}
  /\ shown \in [1..2 -> Seq(Journeys)]

RankInv ==
  /\ RankTypes
  /\ at = "permit" => list = Routed
  /\ at = "sample" => list = Wanted /\ Wanted # <<>>
  /\ at \in {"price", "rank", "done"} => list = Final
  /\ at = "rank" /\ ~ timedOut => Fares
  /\ quotes = << >> \/ Fares
  /\ Remembered /\ Served
  /\ NothingIsWithheld /\ ShownStaysShown

(* Once it is known what can be, every itinerary of the list has a quote.  *)
LEMMA AllQuoted ==
  ASSUME labels \in LabelLists, list = Final, timedOut \/ Fares
  PROVE  list \in Seq(Known)
<1>1. list \in Seq(Journeys)
  BY FinalIs
<1>2. ASSUME NEW i \in 1..Len(list) PROVE list[i] \in Known
  <2>1. list[i] \in Journeys
    BY <1>1
  <2>2. CASE timedOut
    <3>1. QuoteOf(list[i]) = Unpriced
      BY <2>2 DEF QuoteOf
    <3>2. QuoteOf(list[i]) \in Quotes
      BY <3>1 DEF Quotes
    <3>3. QED
      BY <2>1, <3>2 DEF Known
  <2>3. CASE ~ timedOut
    <3>1. list[i].id \in {Final[j].id : j \in 1..Len(Final)}
      OBVIOUS
    <3>2. quotes[list[i].id] \in Quotes
      BY <2>3, <3>1 DEF Fares
    <3>3. QuoteOf(list[i]) \in Quotes
      BY <2>3, <3>2 DEF QuoteOf
    <3>4. QED
      BY <2>1, <3>3 DEF Known
  <2>4. QED
    BY <2>2, <2>3
<1>3. QED
  BY <1>1, <1>2

(* A search starts with nothing listed, priced or shown.                   *)
LEMMA RankingInit ==
  ASSUME Init
  PROVE  RankInv
<1>1. labels \in LabelLists /\ pass = 1 /\ at = "route" /\ quotes = << >> /\ served = << >>
  BY DEF Init
<1>2. shown \in [1..2 -> Seq(Journeys)] /\ shown[1] = <<>>
  <2>1. <<>> \in Seq(Journeys)
    OBVIOUS
  <2>2. QED
    BY <2>1 DEF Init
<1>3. NothingIsWithheld /\ ShownStaysShown
  BY <1>1 DEF NothingIsWithheld, BestIsShown, ModesAreShown, ShownStaysShown
<1>4. Remembered
  BY <1>2 DEF Remembered
<1>5. Served
  BY <1>1 DEF Served
<1>6. QED
  BY <1>1, <1>2, <1>3, <1>4, <1>5 DEF RankInv, RankTypes

(* A step that leaves the prices and the pages alone keeps what is         *)
(* remembered of them.                                                     *)
LEMMA MemoryStays ==
  ASSUME RankInv, labels' = labels, asked' = asked, quotes' = quotes, served' = served, shown' = shown
  PROVE  /\ quotes' = << >> \/ Fares'
         /\ (Fares => Fares') /\ Remembered' /\ Served'
<1>1. Final' = Final
  BY WantedStays
<1>2. (Fares => Fares') /\ (quotes' = << >> \/ Fares')
  BY <1>1 DEF Fares, RankInv
<1>3. Remembered'
  BY <1>1 DEF Remembered, RankInv
<1>4. Served'
  BY DEF Served, RankInv
<1>5. QED
  BY <1>2, <1>3, <1>4

(* The steps up to the prices leave the fares and the pages alone.         *)
LEMMA RouteStep ==
  ASSUME RankInv, Route
  PROVE  RankInv'
<1>1. /\ labels' = labels /\ asked' = asked /\ pass' = pass /\ quotes' = quotes
      /\ served' = served /\ shown' = shown
      /\ at = "route" /\ at' = "permit" /\ list' = Routed
  BY DEF Route, Routed
<1>2. Journeys' = Journeys /\ Routed' = Routed
  BY <1>1, WantedStays
<1>3. RankTypes'
  BY <1>1, <1>2 DEF RankInv, RankTypes
<1>4. (quotes' = << >> \/ Fares') /\ Remembered' /\ Served'
  BY <1>1, MemoryStays
<1>5. NothingIsWithheld' /\ ShownStaysShown'
  BY <1>1, PropertiesWillBe
<1>6. QED
  BY <1>1, <1>2, <1>3, <1>4, <1>5 DEF RankInv

(* The constraints of the request, and what no source can price.           *)
LEMMA FilterStep ==
  ASSUME RankInv, Filter
  PROVE  RankInv'
<1>1. /\ labels' = labels /\ asked' = asked /\ pass' = pass /\ quotes' = quotes
      /\ served' = served /\ timedOut' = timedOut /\ shown' = shown
      /\ at = "permit" /\ at' = (IF list' = <<>> THEN "done" ELSE "sample") /\ list' = Wanted
  BY DEF Filter, RankInv, Wanted
<1>2. Journeys' = Journeys /\ Routed' = Routed /\ Wanted' = Wanted /\ Final' = Final
  BY <1>1, WantedStays
<1>3. RankTypes'
  BY <1>1, <1>2 DEF RankInv, RankTypes
<1>4. (quotes' = << >> \/ Fares') /\ Remembered' /\ Served'
  BY <1>1, MemoryStays
<1>5. at' = "done" => list' = <<>> /\ list' = Final'
  BY <1>1, <1>2 DEF Final
<1>6. NothingIsWithheld' /\ ShownStaysShown'
  <2>1. CASE at' = "done"
    <3>1. Elements(list') = {}
      BY <1>5, <2>1 DEF Elements
    <3>2. /\ \A s, n : BestOf(list', s, quotes', n)
          /\ \A s, a : ModesOf(list', s, quotes', a)
      BY <3>1 DEF BestOf, ModesOf
    <3>3. StaysOf(shown[1], shown[2], quotes, served, PageSize[2])
      <4>1. Len(Final) = 0
        BY <1>2, <1>5, <2>1
      <4>2. \A k \in 1..Len(shown[1]) : \E i \in 1..Len(Final) : shown[1][k] = Final[i]
        BY DEF RankInv, Remembered
      <4>3. shown[1] \in Seq(Journeys)
        BY DEF RankInv, RankTypes
      <4>4. \A x : x \notin Elements(shown[1])
        BY <4>1, <4>2, <4>3, ElementsAreFinite
      <4>5. QED
        BY <4>4 DEF StaysOf
    <3>4. QED
      BY <1>1, <3>2, <3>3, PropertiesWillBe
  <2>2. CASE at' # "done"
    BY <2>2, PropertiesWillBe
  <2>3. QED
    BY <2>1, <2>2
<1>7. QED
  BY <1>1, <1>2, <1>3, <1>4, <1>5, <1>6 DEF RankInv

(* The sample depends on the labels and the request alone.                 *)
LEMMA SampleStep ==
  ASSUME RankInv, Sample
  PROVE  RankInv'
<1>1. /\ labels' = labels /\ asked' = asked /\ pass' = pass /\ quotes' = quotes
      /\ served' = served /\ shown' = shown
      /\ at = "sample" /\ at' = "price" /\ list' = Selected(Spread(list))
  BY DEF Sample
<1>2. Journeys' = Journeys /\ Final' = Final
  BY <1>1, WantedStays
<1>3. RankTypes'
  BY <1>1, <1>2 DEF RankInv, RankTypes
<1>4. (quotes' = << >> \/ Fares') /\ Remembered' /\ Served'
  BY <1>1, MemoryStays
<1>5. list' = Final'
  BY <1>1, <1>2 DEF RankInv, Final
<1>6. NothingIsWithheld' /\ ShownStaysShown'
  BY <1>1, PropertiesWillBe
<1>7. QED
  BY <1>1, <1>3, <1>4, <1>5, <1>6 DEF RankInv

(* What the cache returns for a fare is a fare of the same amount.         *)
LEMMA RecalledIs ==
  ASSUME NEW q \in Quotes, q.priced
  PROVE  Recalled(q) \in Quotes /\ Recalled(q).priced /\ Recalled(q).total = q.total
<1>1. q \in [priced : {TRUE}, total : Totals, rank : Ranks]
  <2>1. q # Unpriced
    <3>1. Unpriced.priced = FALSE
      BY DEF Unpriced
    <3>2. QED
      BY <3>1
  <2>2. QED
    BY <2>1 DEF Quotes
<1>2. Recalled(q) \in [priced : {TRUE}, total : Totals, rank : Ranks]
  BY <1>1, RankAssumption DEF Recalled
<1>3. QED
  BY <1>2 DEF Quotes, Recalled

(* Some fares come from the cache, the others from their sources.          *)
LEMMA AskPricesStep ==
  ASSUME RankInv, AskPrices
  PROVE  RankInv'
<1> DEFINE Ids == {Final[i].id : i \in 1..Len(Final)}
<1>1. /\ labels' = labels /\ asked' = asked /\ pass' = pass
      /\ timedOut' = FALSE /\ shown' = shown /\ list' = list
      /\ at = "price" /\ at' = "rank" /\ list = Final
  BY DEF AskPrices, RankInv
<1>2. Journeys' = Journeys /\ Final' = Final
  BY <1>1, WantedStays
<1>3. RankTypes'
  BY <1>1, <1>2 DEF RankInv, RankTypes
<1>4. Final \in Seq(Journeys)
  BY FinalIs DEF RankInv, RankTypes
<1>5. quotes = << >> \/ quotes \in [Ids -> Quotes]
  BY DEF RankInv, Fares
<1>6. {list[i].id : i \in DOMAIN list} = Ids
  BY <1>1, <1>4
<1> HIDE DEF Ids
<1>7. PICK kept \in SUBSET (Ids \cap Servable) :
        /\ served' = [id \in kept |-> Recalled(quotes[id])]
        /\ \E new \in [Ids \ kept -> Quotes] :
             quotes' = [id \in Ids |-> IF id \in kept THEN Recalled(quotes[id]) ELSE new[id]]
  BY <1>6 DEF AskPrices
<1>8. PICK new \in [Ids \ kept -> Quotes] :
        quotes' = [id \in Ids |-> IF id \in kept THEN Recalled(quotes[id]) ELSE new[id]]
  BY <1>7
<1>9. ASSUME NEW id \in kept PROVE Recalled(quotes[id]) \in Quotes /\ Recalled(quotes[id]).priced
  <2>1. id \in Ids /\ id \in DOMAIN quotes /\ quotes[id].priced
    BY DEF Servable
  <2>2. quotes # << >>
    BY <2>1
  <2>3. quotes[id] \in Quotes
    BY <1>5, <2>1, <2>2
  <2>4. QED
    BY <2>1, <2>3, RecalledIs
<1>10. quotes' \in [Ids -> Quotes]
  <2>1. ASSUME NEW id \in Ids
        PROVE  (IF id \in kept THEN Recalled(quotes[id]) ELSE new[id]) \in Quotes
    BY <1>8, <1>9
  <2>2. QED
    BY <1>8, <2>1
<1>11. Fares'
  BY <1>2, <1>10 DEF Fares, Ids
<1>12. Served'
  <2>1. ASSUME NEW id \in DOMAIN served'
        PROVE  quotes'[id] = served'[id] /\ served'[id].priced
    <3>1. id \in kept /\ id \in Ids
      BY <1>7
    <3>2. served'[id] = Recalled(quotes[id])
      BY <1>7, <3>1
    <3>3. quotes'[id] = Recalled(quotes[id])
      BY <1>8, <3>1
    <3>4. QED
      BY <1>9, <3>1, <3>2, <3>3
  <2>2. QED
    BY <2>1 DEF Served
<1>13. Remembered'
  BY <1>1, <1>2 DEF RankInv, Remembered
<1>14. NothingIsWithheld' /\ ShownStaysShown'
  BY <1>1, PropertiesWillBe
<1>15. QED
  BY <1>1, <1>2, <1>3, <1>11, <1>12, <1>13, <1>14 DEF RankInv

(* Out of time, no price is believed, and none is forgotten.               *)
LEMMA TimeOutStep ==
  ASSUME RankInv, TimeOut
  PROVE  RankInv'
<1>1. /\ labels' = labels /\ asked' = asked /\ pass' = pass /\ quotes' = quotes
      /\ served' = served /\ timedOut' = TRUE /\ shown' = shown /\ list' = list
      /\ at = "price" /\ at' = "rank" /\ list = Final
  BY DEF TimeOut, RankInv
<1>2. Journeys' = Journeys /\ Final' = Final
  BY <1>1, WantedStays
<1>3. RankTypes'
  BY <1>1, <1>2 DEF RankInv, RankTypes
<1>4. (quotes' = << >> \/ Fares') /\ Remembered' /\ Served'
  BY <1>1, MemoryStays
<1>5. NothingIsWithheld' /\ ShownStaysShown'
  BY <1>1, PropertiesWillBe
<1>6. QED
  BY <1>1, <1>2, <1>3, <1>4, <1>5 DEF RankInv

(* The refined pass starts over and remembers the fares of the first.      *)
LEMMA RefineStep ==
  ASSUME RankInv, Refine
  PROVE  RankInv'
<1>1. /\ labels' = labels /\ asked' = asked /\ quotes' = quotes
      /\ served' = served /\ shown' = shown
      /\ at = "done" /\ at' = "route" /\ pass = 1 /\ pass' = 2
  BY DEF Refine
<1>2. Journeys' = Journeys /\ Final' = Final
  BY <1>1, WantedStays
<1>3. RankTypes'
  BY <1>1, <1>2 DEF RankInv, RankTypes
<1>4. (quotes' = << >> \/ Fares') /\ Remembered' /\ Served'
  BY <1>1, MemoryStays
<1>5. NothingIsWithheld' /\ ShownStaysShown'
  BY <1>1, PropertiesWillBe
<1>6. QED
  BY <1>1, <1>2, <1>3, <1>4, <1>5 DEF RankInv

(* What is ranked is shown.                                                *)
LEMMA RankStep ==
  ASSUME RankInv, Rank
  PROVE  RankInv'
<1> DEFINE r == Ranked
           k == Survivors(r)
           s == ShownOf(k)
<1>1. /\ labels' = labels /\ asked' = asked /\ pass' = pass /\ quotes' = quotes
      /\ served' = served /\ timedOut' = timedOut /\ list' = list
      /\ at = "rank" /\ at' = "done" /\ shown' = [shown EXCEPT ![pass] = s]
  BY DEF Rank, Survivors, ShownOf
<1>2. /\ labels \in LabelLists /\ pass \in 1..2 /\ list = Final /\ (timedOut \/ Fares)
      /\ shown \in [1..2 -> Seq(Journeys)] /\ Remembered /\ Served
  BY <1>1 DEF RankInv, RankTypes
<1>3. Journeys' = Journeys /\ Final' = Final
  BY <1>1, WantedStays
<1>4. list \in Seq(Known) /\ Final \in Seq(Journeys)
  BY <1>2, AllQuoted, FinalIs
<1>5. /\ r \in Seq(Known) /\ InOrder(r) /\ Distinct(r) /\ Represents(r, list)
  BY <1>2, <1>4, RankedIs
<1>6. /\ k \in Seq(Known) /\ Among(k, r)
  <2> HIDE DEF r
  <2>1. QED
    BY <1>5, SurvivorsAre
<1>7. s \in Seq(Known) /\ Among(s, k)
  <2> HIDE DEF k
  <2>1. QED
    BY <1>2, <1>6, ShownIs
<1>8. ShowsBest(s) /\ ShowsModes(s)
  BY <1>2, <1>4, BestWillShow, ModesWillShow
<1> HIDE DEF s, k, r
<1>9. RankTypes'
  <2>1. \A x : x \in Seq(Known) => x \in Seq(Journeys)
    BY DEF Known
  <2>2. s \in Seq(Journeys)
    BY <1>7, <2>1
  <2>3. shown' \in [1..2 -> Seq(Journeys)]
    BY <1>1, <1>2, <2>2
  <2>4. QED
    BY <1>1, <1>2, <1>3, <2>3 DEF RankTypes
<1>10. shown'[pass] = s
  BY <1>1, <1>2
<1>11. ASSUME NEW j \in 1..Len(s) PROVE \E i \in 1..Len(Final) : s[j] = Final[i]
  <2>1. PICK l \in 1..Len(k) : s[j] = k[l]
    BY <1>7 DEF Among
  <2>2. PICK m \in 1..Len(r) : k[l] = r[m]
    BY <1>6 DEF Among
  <2>3. PICK i \in 1..Len(list) : r[m] = list[i]
    BY <1>5 DEF Represents
  <2>4. QED
    BY <1>2, <2>1, <2>2, <2>3
<1>12. Remembered'
  <2>1. CASE pass = 1
    <3>1. shown'[1] = s
      BY <1>10, <2>1
    <3>2. QED
      BY <1>3, <1>11, <3>1 DEF Remembered
  <2>2. CASE pass = 2
    <3>1. shown'[1] = shown[1]
      BY <1>1, <1>2, <2>2
    <3>2. QED
      BY <1>2, <1>3, <3>1 DEF Remembered
  <2>3. QED
    BY <1>2, <2>1, <2>2
<1>13. (quotes' = << >> \/ Fares') /\ Served'
  BY <1>1, <1>2, <1>3 DEF RankInv, Fares, Served
<1>14. ASSUME ~ timedOut
       PROVE  BestOf(list, s, quotes, PageSize[pass]) /\ ModesOf(list, s, quotes, asked)
  BY <1>8, <1>14, AnswerIs
<1>15. NothingIsWithheld'
  BY <1>1, <1>10, <1>14, PropertiesWillBe
<1>16. ShownStaysShown'
  <2> SUFFICES ASSUME pass = 2, ~ timedOut
               PROVE  StaysOf(shown'[1], shown'[2], quotes', served', PageSize[2])
    BY <1>1, PropertiesWillBe
  <2>1. shown'[1] = shown[1] /\ shown'[2] = s /\ quotes' = quotes /\ served' = served
    BY <1>1, <1>2, <1>10
  <2>2. BestOf(list, s, quotes, PageSize[2])
    BY <1>14
  <2>3. ASSUME NEW x \in Elements(shown[1]), x.id \in DOMAIN served
        PROVE  \/ \E y \in Within(s, quotes, served[x.id].total) :
                    y.shape = x.shape /\ quotes[y.id].total = served[x.id].total /\ y.arrival <= x.arrival
               \/ Cardinality(Within(s, quotes, served[x.id].total)) >= PageSize[2]
    <3>1. PICK i \in 1..Len(shown[1]) : x = shown[1][i]
      BY <1>2, ElementsAreFinite
    <3>2. PICK j \in 1..Len(list) : x = list[j]
      BY <1>2, <3>1 DEF Remembered
    <3>3. x \in Elements(list)
      BY <1>4, <3>2, ElementsAreFinite
    <3>4. quotes[x.id] = served[x.id] /\ quotes[x.id].priced
      BY <1>2, <2>3 DEF Served
    <3>5. Cheap(s, quotes, x) = Within(s, quotes, served[x.id].total)
      BY <3>4 DEF Cheap, Within
    <3>6. \/ \E y \in Cheap(s, quotes, x) : SameQuote(y, x, quotes) /\ y.arrival <= x.arrival
          \/ Cardinality(Cheap(s, quotes, x)) >= PageSize[2]
      BY <2>2, <3>3, <3>4 DEF BestOf
    <3>7. QED
      BY <3>4, <3>5, <3>6 DEF SameQuote
  <2>4. StaysOf(shown[1], s, quotes, served, PageSize[2])
    BY <2>3 DEF StaysOf
  <2>5. QED
    BY <2>1, <2>4
<1>17. QED
  BY <1>1, <1>2, <1>3, <1>9, <1>12, <1>13, <1>15, <1>16 DEF RankInv

(* No step breaks the invariant.                                           *)
LEMMA RankInvStep ==
  ASSUME RankInv, [Next]_vars
  PROVE  RankInv'
<1>1. CASE UNCHANGED vars
  <2>1. /\ labels' = labels /\ asked' = asked /\ pass' = pass /\ quotes' = quotes
        /\ served' = served /\ timedOut' = timedOut /\ list' = list /\ at' = at /\ shown' = shown
    BY <1>1 DEF vars
  <2>2. Journeys' = Journeys /\ Routed' = Routed /\ Wanted' = Wanted /\ Final' = Final
    BY <2>1, WantedStays
  <2>3. RankTypes' /\ (quotes' = << >> \/ Fares') /\ (Fares => Fares') /\ Remembered' /\ Served'
    BY <2>1, <2>2, MemoryStays DEF RankInv, RankTypes
  <2>4. NothingIsWithheld' /\ ShownStaysShown'
    BY <2>1, PropertiesAre, PropertiesWillBe DEF RankInv, Meaning
  <2>5. QED
    BY <2>1, <2>2, <2>3, <2>4 DEF RankInv
<1>2. QED
  BY <1>1, RouteStep, FilterStep, SampleStep, AskPricesStep, TimeOutStep, RankStep, RefineStep DEF Next

(* The invariant holds in every state.                                     *)
LEMMA RankInvHolds == Spec => []RankInv
<1>1. Init => RankInv
  BY RankingInit
<1>2. RankInv /\ [Next]_vars => RankInv'
  BY RankInvStep
<1>3. QED
  BY <1>1, <1>2, PTL DEF Spec

(* For any labels and prices: what is priced is shown, or stands behind a  *)
(* page full of what costs no more; and every way of travel that was asked *)
(* for and has a price is on the page.                                     *)
THEOREM PricedIsShown == Spec => []NothingIsWithheld
<1>1. RankInv => NothingIsWithheld
  BY DEF RankInv
<1>2. QED
  BY <1>1, RankInvHolds, PTL

(* For any labels and prices: unless the refined pass runs out of time,    *)
(* what the first one showed at a fare the cache still serves is shown     *)
(* again, or as good a ride, or the page is full of what costs no more.    *)
THEOREM LookingAgainLosesNothing == Spec => []ShownStaysShown
<1>1. RankInv => ShownStaysShown
  BY DEF RankInv
<1>2. QED
  BY <1>1, RankInvHolds, PTL

-----------------------------------------------------------------------------
(***************************************************************************)
(* How the calls are spread: the departures of a shape have their slots in *)
(* the day, and their depths, each once.                                   *)
(***************************************************************************)
Slot(s, j) == Cardinality(Earlier(s, j))

(* Each departure of a shape has a slot of its own, and no slot is empty.  *)
LEMMA SlotsAre ==
  ASSUME labels \in LabelLists, NEW s \in Seq(Journeys), NEW i \in 1..Len(s)
  PROVE  LET G == Group(s, i)
             n == Cardinality(G)
         IN /\ n \in Nat /\ n > 0 /\ IsFiniteSet(G) /\ G \in SUBSET (1..Len(s))
            /\ \A j \in G : Group(s, j) = G /\ Slot(s, j) \in 0..(n - 1)
            /\ \A j, k \in G : Slot(s, j) = Slot(s, k) => j = k
            /\ \A d \in 0..(n - 1) : \E j \in G : Slot(s, j) = d
            /\ \A j, k \in G : Slot(s, j) <= Slot(s, k) => s[j].departure <= s[k].departure
<1> DEFINE G == Group(s, i)
           n == Cardinality(G)
           D == ByKey(Departures(s))
<1>1. /\ i \in G /\ G \in SUBSET (1..Len(s)) /\ IsFiniteSet(G) /\ n \in Nat
  BY GroupsAre DEF PlacesOf
<1>2. n > 0
  BY <1>1, FS_EmptySet
<1>3. \A j \in G : Group(s, j) = G
  BY DEF Group
<1>4. \A j \in G : Earlier(s, j) = Before(j, G, D)
  BY <1>3 DEF Earlier, Before, Departures
<1>5. /\ IsOrder(G, D)
      /\ \A j, k \in 1..Len(s) : <<j, k>> \in D <=> Less(KeyOf(Departures(s), j), KeyOf(Departures(s), k))
  <2>1. Len(s) \in Nat /\ Keyed(Departures(s), Len(s))
    BY KeysAre
  <2>2. G \in SUBSET (1..Len(s))
    BY <1>1
  <2> HIDE DEF G
  <2>3. QED
    BY <2>1, <2>2, KeysOrder
<1> HIDE DEF G, D, n
<1>6. /\ \A j \in G : Slot(s, j) \in 0..(n - 1)
      /\ \A j, k \in G : <<j, k>> \in D => Slot(s, j) < Slot(s, k)
  BY <1>1, <1>4, <1>5, MoreBefore DEF Slot, n
<1>7. ASSUME NEW j \in G, NEW k \in G, Slot(s, j) = Slot(s, k) PROVE j = k
  <2>1. Slot(s, j) \in Int /\ ~ (Slot(s, j) < Slot(s, k)) /\ ~ (Slot(s, k) < Slot(s, j))
    BY <1>6, <1>7
  <2>2. <<j, k>> \notin D /\ <<k, j>> \notin D
    BY <1>6, <2>1
  <2>3. QED
    BY <1>5, <2>2 DEF IsOrder
<1>8. \A d \in 0..(n - 1) : \E j \in G : Slot(s, j) = d
  <2> DEFINE slot == [j \in G |-> Slot(s, j)]
  <2>1. slot \in [G -> 0..(n - 1)] /\ \A j \in G : slot[j] = Slot(s, j)
    BY <1>6
  <2> HIDE DEF slot
  <2>2. slot \in Injection(G, 0..(n - 1))
    BY <1>7, <2>1 DEF Injection, IsInjective
  <2>3. IsFiniteSet(0..(n - 1)) /\ Cardinality(0..(n - 1)) = n
    <3>1. n - 1 \in Int /\ 0 \in Int /\ ~ (0 > n - 1) /\ (n - 1) - 0 + 1 = n
      BY <1>1, <1>2
    <3>2. QED
      BY <3>1, FS_Interval
  <2>4. slot \in Surjection(G, 0..(n - 1))
    BY <2>2, <2>3, FS_Injection DEF n
  <2>5. QED
    BY <2>1, <2>4 DEF Surjection
<1>9. ASSUME NEW j \in G, NEW k \in G, Slot(s, j) <= Slot(s, k) PROVE s[j].departure <= s[k].departure
  <2>1. Slot(s, j) \in Int /\ Slot(s, k) \in Int /\ ~ (Slot(s, k) < Slot(s, j))
    BY <1>6, <1>9
  <2>2. j \in 1..Len(s) /\ k \in 1..Len(s)
    BY <1>1
  <2>3. ~ Less(KeyOf(Departures(s), k), KeyOf(Departures(s), j))
    BY <1>5, <1>6, <2>1, <2>2
  <2>4. s[j].departure \in Int /\ s[k].departure \in Int /\ j \in Int /\ k \in Int
    BY <2>2, JourneysAre
  <2>5. Departures(s)[j] = <<s[j].departure>> /\ Departures(s)[k] = <<s[k].departure>>
    BY <2>2 DEF Departures
  <2>6. ~ (s[k].departure < s[j].departure)
    BY <2>3, <2>4, <2>5, KeyOfOne
  <2>7. QED
    BY <2>4, <2>6
<1>10. QED
  BY <1>1, <1>2, <1>3, <1>6, <1>7, <1>8, <1>9 DEF G, n

(* Depth runs through the slots from both ends.                            *)
LEMMA DepthsAre ==
  ASSUME labels \in LabelLists, NEW s \in Seq(Journeys), NEW i \in 1..Len(s)
  PROVE  LET G == Group(s, i)
             n == Cardinality(G)
         IN /\ \A j \in G : /\ Depth(s, j) \in 0..(n - 1)
                            /\ (Slot(s, j) = 0 <=> Depth(s, j) = 0)
                            /\ (Depth(s, j) = 1 => Slot(s, j) = n - 1)
            /\ \A j, k \in G : Depth(s, j) = Depth(s, k) => j = k
            /\ \A d \in 0..(n - 1) : \E j \in G : Depth(s, j) = d
<1> DEFINE G == Group(s, i)
           n == Cardinality(G)
<1>1. /\ n \in Nat /\ n > 0
      /\ \A j \in G : Group(s, j) = G /\ Slot(s, j) \in 0..(n - 1)
      /\ \A j, k \in G : Slot(s, j) = Slot(s, k) => j = k
      /\ \A d \in 0..(n - 1) : \E j \in G : Slot(s, j) = d
  BY SlotsAre
<1>2. \A j \in G : Depth(s, j) = IF 2 * Slot(s, j) < n THEN 2 * Slot(s, j) ELSE 2 * (n - 1 - Slot(s, j)) + 1
  BY <1>1 DEF Depth, Slot
<1> HIDE DEF G, n
<1>3. ASSUME NEW j \in G
      PROVE  /\ Depth(s, j) \in 0..(n - 1) /\ (Slot(s, j) = 0 <=> Depth(s, j) = 0)
             /\ (Depth(s, j) = 1 => Slot(s, j) = n - 1)
  <2>1. PICK a \in 0..(n - 1) : a = Slot(s, j)
    BY <1>1
  <2>2. PICK e : e = Depth(s, j)
    OBVIOUS
  <2>3. e = IF 2 * a < n THEN 2 * a ELSE 2 * (n - 1 - a) + 1
    BY <1>2, <2>1, <2>2
  <2>4. e \in 0..(n - 1) /\ (a = 0 <=> e = 0) /\ (e = 1 => a = n - 1)
    BY <1>1, <2>3
  <2>5. QED
    BY <2>1, <2>2, <2>4
<1>4. ASSUME NEW j \in G, NEW k \in G, Depth(s, j) = Depth(s, k) PROVE j = k
  <2>1. PICK a \in 0..(n - 1) : a = Slot(s, j)
    BY <1>1
  <2>2. PICK b \in 0..(n - 1) : b = Slot(s, k)
    BY <1>1
  <2>3. (IF 2 * a < n THEN 2 * a ELSE 2 * (n - 1 - a) + 1) = (IF 2 * b < n THEN 2 * b ELSE 2 * (n - 1 - b) + 1)
    BY <1>2, <1>4, <2>1, <2>2
  <2>4. a = b
    BY <1>1, <2>3
  <2>5. QED
    BY <1>1, <2>1, <2>2, <2>4
<1>5. ASSUME NEW d \in 0..(n - 1) PROVE \E j \in G : Depth(s, j) = d
  <2>1. PICK a \in 0..(n - 1) : IF 2 * a < n THEN d = 2 * a ELSE d = 2 * (n - 1 - a) + 1
    <3>1. PICK h \in Nat : d = 2 * h \/ d = 2 * h + 1
      <4>1. d \div 2 \in Nat /\ (d = 2 * (d \div 2) \/ d = 2 * (d \div 2) + 1)
        BY <1>1
      <4>2. QED
        BY <4>1
    <3>2. CASE d = 2 * h
      <4>1. h \in 0..(n - 1) /\ 2 * h < n
        BY <1>1, <3>2
      <4>2. QED
        BY <3>2, <4>1
    <3>3. CASE d = 2 * h + 1
      <4>1. n - 1 - h \in 0..(n - 1) /\ ~ (2 * (n - 1 - h) < n) /\ d = 2 * (n - 1 - (n - 1 - h)) + 1
        BY <1>1, <3>3
      <4>2. QED
        BY <4>1
    <3>4. QED
      BY <3>1, <3>2, <3>3
  <2>2. PICK j \in G : Slot(s, j) = a
    BY <1>1
  <2>3. QED
    BY <1>1, <1>2, <2>1, <2>2
<1>6. QED
  BY <1>3, <1>4, <1>5 DEF G, n

(* A quotient rounded to a neighbour is off by a half at most.             *)
LEMMA RoundDivIs ==
  ASSUME NEW a \in Nat, NEW b \in Nat \ {0}
  PROVE  /\ RoundDiv(a, b) \in Nat
         /\ 2 * a - b <= 2 * (b * RoundDiv(a, b)) /\ 2 * (b * RoundDiv(a, b)) <= 2 * a + b
<1> DEFINE low == a \div b
           rest == a % b
<1>1. low \in Nat /\ rest \in 0..(b - 1) /\ a = b * low + rest
  OBVIOUS
<1>2. RoundDiv(a, b) = IF 2 * rest > b \/ (2 * rest = b /\ low % 2 = 1) THEN low + 1 ELSE low
  BY DEF RoundDiv
<1> HIDE DEF low, rest
<1>3. PICK p \in Nat : p = b * low
  BY <1>1
<1>4. b * (low + 1) = p + b
  BY <1>1, <1>3
<1>5. CASE RoundDiv(a, b) = low + 1 /\ 2 * rest >= b
  BY <1>1, <1>3, <1>4, <1>5
<1>6. CASE RoundDiv(a, b) = low /\ 2 * rest <= b
  BY <1>1, <1>3, <1>6
<1>7. QED
  BY <1>1, <1>2, <1>5, <1>6

(* A larger factor makes no smaller product.                               *)
LEMMA ProductsGrow ==
  ASSUME NEW b \in Nat, NEW x \in Nat, NEW y \in Nat, x <= y
  PROVE  b * x <= b * y /\ b * x \in Nat
<1>1. PICK e \in Nat : y = x + e
  <2>1. y - x \in Nat /\ y = x + (y - x)
    OBVIOUS
  <2>2. QED
    BY <2>1
<1>2. b * y = b * x + b * e /\ b * e \in Nat /\ b * x \in Nat
  BY <1>1
<1>3. QED
  BY <1>2

(* As many departures are sampled as may be, among them the first and the  *)
(* last.                                                                   *)
LEMMA PicksAre ==
  ASSUME NEW n \in Nat, n > PerShape
  PROVE  /\ Picks(n) \in SUBSET (0..(n - 1)) /\ 0 \in Picks(n) /\ n - 1 \in Picks(n)
         /\ IsFiniteSet(Picks(n)) /\ Cardinality(Picks(n)) = PerShape
<1> DEFINE b == PerShape - 1
           m == n - 1
           q(i) == RoundDiv(i * m, b)
<1>1. b \in Nat \ {0} /\ m \in Nat /\ m > b /\ PerShape = b + 1 /\ PerShape \in Nat
  BY SampleAssumption
<1>2. Picks(n) = {q(i) : i \in 0..b}
  BY DEF Picks
<1> HIDE DEF b, m
<1>3. ASSUME NEW i \in 0..b
      PROVE  /\ q(i) \in Nat /\ i * m \in Nat
             /\ 2 * (i * m) - b <= 2 * (b * q(i)) /\ 2 * (b * q(i)) <= 2 * (i * m) + b
  <2>1. i * m \in Nat
    BY <1>1
  <2>2. QED
    BY <1>1, <2>1, RoundDivIs
<1> HIDE DEF q
<1>4. ASSUME NEW i \in 0..b, NEW j \in 0..b, i < j PROVE q(i) < q(j)
  <2>1. j * m >= i * m + m
    <3>1. m * (i + 1) <= m * j
      BY <1>1, <1>4, ProductsGrow
    <3>2. m * (i + 1) = i * m + m /\ m * j = j * m
      BY <1>1
    <3>3. QED
      BY <3>1, <3>2
  <2> DEFINE u == q(i)
             v == q(j)
             x == i * m
             y == j * m
  <2>2. /\ u \in Nat /\ v \in Nat /\ x \in Nat /\ y \in Nat
        /\ 2 * (b * u) <= 2 * x + b /\ 2 * y - b <= 2 * (b * v) /\ y >= x + m
    BY <1>3, <2>1
  <2> HIDE DEF u, v, x, y
  <2>3. ASSUME v <= u PROVE FALSE
    <3>1. b * v <= b * u /\ b * v \in Nat
      BY <1>1, <2>2, <2>3, ProductsGrow
    <3>2. b * u \in Nat
      BY <1>1, <2>2
    <3> DEFINE bu == b * u
               bv == b * v
    <3>3. /\ bu \in Nat /\ bv \in Nat /\ bv <= bu
          /\ 2 * bu <= 2 * x + b /\ 2 * y - b <= 2 * bv
      BY <2>2, <3>1, <3>2
    <3> HIDE DEF bu, bv
    <3>4. QED
      BY <1>1, <2>2, <3>3
  <2>4. u < v
    BY <2>2, <2>3
  <2>5. QED
    BY <2>4 DEF u, v
<1>5. q(0) = 0
  <2>1. 0 \in 0..b /\ 0 * m = 0
    BY <1>1
  <2>2. q(0) \in Nat /\ 2 * (b * q(0)) <= b
    BY <1>1, <1>3, <2>1
  <2>3. ASSUME q(0) >= 1 PROVE FALSE
    <3>1. b * 1 <= b * q(0) /\ b * 1 = b
      BY <1>1, <2>2, <2>3, ProductsGrow
    <3>2. QED
      BY <1>1, <2>2, <3>1
  <2>4. QED
    BY <2>2, <2>3
<1>6. q(b) = m
  <2>1. b \in 0..b /\ b * m \in Nat
    BY <1>1
  <2>2. q(b) \in Nat /\ 2 * (b * m) - b <= 2 * (b * q(b)) /\ 2 * (b * q(b)) <= 2 * (b * m) + b
    BY <1>3, <2>1
  <2>3. ASSUME q(b) >= m + 1 PROVE FALSE
    <3>1. b * (m + 1) <= b * q(b) /\ b * (m + 1) = b * m + b /\ b * q(b) \in Nat
      BY <1>1, <2>2, <2>3, ProductsGrow
    <3>2. QED
      BY <1>1, <2>1, <2>2, <3>1
  <2>4. ASSUME q(b) + 1 <= m PROVE FALSE
    <3>1. b * (q(b) + 1) <= b * m /\ b * (q(b) + 1) = b * q(b) + b /\ b * q(b) \in Nat
      BY <1>1, <2>2, <2>4, ProductsGrow
    <3>2. QED
      BY <1>1, <2>1, <2>2, <3>1
  <2>5. QED
    BY <1>1, <2>2, <2>3, <2>4
<1>7. \A i \in 0..b : q(i) \in 0..m
  <2> SUFFICES ASSUME NEW i \in 0..b PROVE q(i) \in 0..m
    OBVIOUS
  <2>1. i = b \/ i < b
    BY <1>1
  <2>2. q(i) <= m
    BY <1>1, <1>3, <1>4, <1>6, <2>1
  <2>3. QED
    BY <1>1, <1>3, <2>2
<1>8. Picks(n) \in SUBSET (0..m) /\ 0 \in Picks(n) /\ m \in Picks(n)
  <2>1. 0 \in 0..b /\ b \in 0..b
    BY <1>1
  <2>2. QED
    BY <1>2, <1>5, <1>6, <1>7, <2>1
<1>9. IsFiniteSet(Picks(n)) /\ Cardinality(Picks(n)) = PerShape
  <2> DEFINE f == [i \in 0..b |-> q(i)]
             P == Picks(n)
  <2>1. f \in [0..b -> P] /\ \A i \in 0..b : f[i] = q(i)
    BY <1>2
  <2> HIDE DEF f
  <2>2. f \in Injection(0..b, P)
    <3>1. ASSUME NEW i \in 0..b, NEW j \in 0..b, f[i] = f[j] PROVE i = j
      <4>1. q(i) = q(j) /\ q(i) \in Nat
        BY <1>3, <2>1, <3>1
      <4>2. ~ (i < j) /\ ~ (j < i)
        BY <1>4, <4>1
      <4>3. QED
        BY <1>1, <4>2
    <3> HIDE DEF P
    <3>2. QED
      BY <2>1, <3>1 DEF Injection, IsInjective
  <2>3. f \in Surjection(0..b, P)
    <3>1. ASSUME NEW x \in P PROVE \E i \in 0..b : f[i] = x
      BY <1>2, <2>1
    <3> HIDE DEF P
    <3>2. QED
      BY <2>1, <3>1 DEF Surjection
  <2>4. IsFiniteSet(0..b) /\ Cardinality(0..b) = PerShape
    <3>1. b \in Int /\ 0 \in Int /\ ~ (0 > b) /\ b - 0 + 1 = PerShape
      BY <1>1
    <3>2. QED
      BY <3>1, FS_Interval
  <2> HIDE DEF P
  <2>5. IsFiniteSet(P) /\ Cardinality(P) = Cardinality(0..b)
    BY <2>2, <2>3, <2>4, FS_Bijection DEF ExistsBijection, Bijection
  <2>6. QED
    BY <2>4, <2>5 DEF P
<1>10. QED
  BY <1>8, <1>9 DEF m

(* What is in a sequence once stays in it once.                            *)
OneEach(s) == \A i, j \in 1..Len(s) : s[i] = s[j] => i = j

(* Taking places of a sequence repeats nothing.                            *)
LEMMA TakenOnce ==
  ASSUME NEW S, NEW s \in Seq(S), NEW places \in SUBSET (1..Len(s)), NEW out,
         \E order : Takes(out, s, places, order)
  PROVE  /\ OneEach(s) => OneEach(out)
         /\ Elements(out) = {s[i] : i \in places}
<1>1. PICK order : Takes(out, s, places, order)
  OBVIOUS
<1>2. /\ DOMAIN out = 1..Len(out)
      /\ \A k \in 1..Len(out) : order[k] \in places /\ out[k] = s[order[k]]
      /\ \A i \in places : \E k \in 1..Len(out) : order[k] = i
      /\ \A k, m \in 1..Len(out) : order[k] = order[m] => k = m
  BY <1>1 DEF Takes
<1>3. ASSUME OneEach(s) PROVE OneEach(out)
  <2> SUFFICES ASSUME NEW k \in 1..Len(out), NEW m \in 1..Len(out), out[k] = out[m]
               PROVE  k = m
    BY DEF OneEach
  <2>1. order[k] \in 1..Len(s) /\ order[m] \in 1..Len(s) /\ s[order[k]] = s[order[m]]
    BY <1>2
  <2>2. order[k] = order[m]
    BY <1>3, <2>1 DEF OneEach
  <2>3. QED
    BY <1>2, <2>2
<1>4. Elements(out) = {out[k] : k \in 1..Len(out)}
  BY <1>2 DEF Elements
<1>5. ASSUME NEW x \in Elements(out) PROVE x \in {s[i] : i \in places}
  <2>1. PICK k \in 1..Len(out) : x = out[k]
    BY <1>4
  <2>2. x = s[order[k]] /\ order[k] \in places
    BY <1>2, <2>1
  <2>3. QED
    BY <2>2
<1>6. ASSUME NEW i \in places PROVE s[i] \in Elements(out)
  <2>1. PICK k \in 1..Len(out) : order[k] = i
    BY <1>2
  <2>2. out[k] = s[i]
    BY <1>2, <2>1
  <2>3. QED
    BY <1>4, <2>2
<1>7. QED
  BY <1>3, <1>5, <1>6

(* Neither does a filter,                                                  *)
LEMMA FilteredOnce ==
  ASSUME NEW S, NEW s \in Seq(S), NEW places, PlacesOf(s, places)
  PROVE  /\ OneEach(s) => OneEach(AtPlaces(s, places))
         /\ Elements(AtPlaces(s, places)) = {s[i] : i \in places}
<1> DEFINE out == AtPlaces(s, places)
<1>1. places \in SUBSET (1..Len(s)) /\ \E order : Takes(out, s, places, order)
  BY FilterTakes DEF PlacesOf
<1> HIDE DEF out
<1>2. (OneEach(s) => OneEach(out)) /\ Elements(out) = {s[i] : i \in places}
  BY <1>1, TakenOnce
<1>3. QED
  BY <1>2 DEF out

(* nor an arrangement.                                                     *)
LEMMA ArrangedOnce ==
  ASSUME NEW S, NEW s \in Seq(S), NEW places, PlacesOf(s, places),
         NEW key, Keyed(key, Len(s))
  PROVE  /\ OneEach(s) => OneEach(Arranged(s, places, key))
         /\ Elements(Arranged(s, places, key)) = {s[i] : i \in places}
<1> DEFINE out == Arranged(s, places, key)
<1>1. places \in SUBSET (1..Len(s)) /\ \E order : Takes(out, s, places, order)
  BY ArrangementTakes DEF PlacesOf
<1> HIDE DEF out
<1>2. (OneEach(s) => OneEach(out)) /\ Elements(out) = {s[i] : i \in places}
  BY <1>1, TakenOnce
<1>3. QED
  BY <1>2 DEF out

(* What the constraints let through, and what can be priced of it.         *)
LEMMA PermittedAre ==
  ASSUME NEW s \in Seq(Journeys)
  PROVE  /\ OneEach(s) => OneEach(Where(s, Permits))
         /\ Elements(Where(s, Permits)) = {x \in Elements(s) : Permits(x)}
<1> DEFINE places == {i \in DOMAIN s : Permits(s[i])}
<1>1. Where(s, Permits) = AtPlaces(s, places) /\ PlacesOf(s, places)
  BY DEF Where, PlacesOf
<1>2. {s[i] : i \in places} = {x \in Elements(s) : Permits(x)}
  BY DEF Elements
<1> HIDE DEF places
<1>3. QED
  BY <1>1, <1>2, FilteredOnce

(* What the filter of priceable shapes leaves.                             *)
LEMMA PriceableAre ==
  ASSUME NEW s \in Seq(Journeys)
  PROVE  /\ OneEach(s) => OneEach(Priceable(s))
         /\ Elements(Priceable(s)) =
              IF asked.requirePriced /\ (\E x \in Elements(s) : x.priceable)
              THEN {x \in Elements(s) : x.priceable} ELSE Elements(s)
<1> DEFINE places == {i \in DOMAIN s : s[i].priceable}
           ready == AtPlaces(s, places)
<1>1. Priceable(s) = IF asked.requirePriced /\ ready # <<>> THEN ready ELSE s
  BY DEF Priceable, Where
<1>2. PlacesOf(s, places)
  BY DEF PlacesOf
<1>3. {s[i] : i \in places} = {x \in Elements(s) : x.priceable}
  BY DEF Elements
<1>4. places # {} <=> \E x \in Elements(s) : x.priceable
  BY DEF Elements
<1> HIDE DEF places
<1>5. /\ OneEach(s) => OneEach(ready)
      /\ Elements(ready) = {s[i] : i \in places}
      /\ ready = <<>> <=> places = {}
  BY <1>2, FilteredOnce, Filtered
<1> HIDE DEF ready
<1>6. QED
  BY <1>1, <1>3, <1>4, <1>5

(* Each itinerary is wanted once, and what is wanted is what is feasible.  *)
LEMMA WantedOnce ==
  ASSUME labels \in LabelLists
  PROVE  OneEach(Wanted) /\ Elements(Wanted) = Feasible
<1> DEFINE all == [i \in DOMAIN labels |-> Itinerary(labels[i], i)]
           firsts == {i \in DOMAIN all : \A j \in 1..(i - 1) : Vehicles(all[j]) # Vehicles(all[i])}
           late == {i \in DOMAIN Candidates : Candidates[i].departure >= asked.departAt}
<1>1. Len(labels) \in Nat /\ DOMAIN labels = 1..Len(labels)
  BY LabelsAssumption DEF IsLabels, IsSequence
<1>2. all \in Seq(Journeys) /\ Len(all) = Len(labels)
  BY <1>1 DEF Journeys
<1>3. \A i \in 1..Len(labels) : all[i].id = i
  BY <1>1 DEF Itinerary
<1>4. OneEach(all)
  <2>1. \A i \in 1..Len(all) : all[i].id = i
    BY <1>2, <1>3
  <2> HIDE DEF all
  <2>2. QED
    BY <2>1 DEF OneEach
<1>5. Candidates = AtPlaces(all, firsts) /\ PlacesOf(all, firsts)
  BY <1>2 DEF Candidates, PlacesOf
<1>6. Candidates \in Seq(Journeys) /\ Routed \in Seq(Journeys) /\ Wanted \in Seq(Journeys)
  BY WantedAre
<1>7. OneEach(Candidates)
  <2> HIDE DEF all, firsts
  <2>1. QED
    BY <1>2, <1>4, <1>5, FilteredOnce
<1>8. Routed = AtPlaces(Candidates, late) /\ PlacesOf(Candidates, late)
  BY <1>6 DEF Routed, Where, PlacesOf
<1>9. {Candidates[i] : i \in late} = {x \in Elements(Candidates) : x.departure >= asked.departAt}
  BY DEF Elements
<1> HIDE DEF all, firsts, late
<1>10. OneEach(Routed) /\ Elements(Routed) = {Candidates[i] : i \in late}
  BY <1>6, <1>7, <1>8, FilteredOnce
<1> DEFINE a == Where(Routed, Permits)
           b == Where(Candidates, Permits)
<1>11. /\ OneEach(a) /\ Elements(a) = {x \in Elements(Routed) : Permits(x)}
       /\ Elements(b) = {x \in Elements(Candidates) : Permits(x)}
  BY <1>6, <1>10, PermittedAre
<1>12. Elements(a) = Elements(b)
  BY <1>9, <1>10, <1>11 DEF Permits
<1>13. a \in Seq(Journeys) /\ b \in Seq(Journeys)
  <2>1. ASSUME NEW s \in Seq(Journeys) PROVE Where(s, Permits) \in Seq(Journeys)
    BY Filtered DEF Where, PlacesOf
  <2>2. QED
    BY <1>6, <2>1
<1>14. Wanted = Priceable(a) /\ Feasible = Elements(Priceable(b))
  BY DEF Wanted, Feasible
<1> HIDE DEF a, b
<1>15. OneEach(Priceable(a)) /\ Elements(Priceable(a)) = Elements(Priceable(b))
  BY <1>11, <1>12, <1>13, PriceableAre
<1>16. QED
  BY <1>14, <1>15

(* Of each shape the sample has all, or as many as it may; and both ends   *)
(* of the day.                                                             *)
LEMMA KeptAre ==
  ASSUME labels \in LabelLists, NEW s \in Seq(Journeys), NEW i \in 1..Len(s)
  PROVE  LET G == Group(s, i)
             K == Kept(s) \cap G
         IN /\ K = G \/ Cardinality(K) = PerShape
            /\ \E j \in K : Slot(s, j) = 0
            /\ \E j \in K : Slot(s, j) = Cardinality(G) - 1
<1> DEFINE G == Group(s, i)
           K == Kept(s) \cap G
           n == Cardinality(G)
           P == Picks(n)
<1>1. /\ n \in Nat /\ n > 0 /\ IsFiniteSet(G) /\ G \in SUBSET (1..Len(s))
      /\ \A j \in G : Group(s, j) = G /\ Slot(s, j) \in 0..(n - 1)
      /\ \A j, k \in G : Slot(s, j) = Slot(s, k) => j = k
      /\ \A d \in 0..(n - 1) : \E j \in G : Slot(s, j) = d
  BY SlotsAre
<1>2. \A j \in G : j \in K <=> n <= PerShape \/ Slot(s, j) \in P
  <2>1. DOMAIN s = 1..Len(s)
    OBVIOUS
  <2>2. QED
    BY <1>1, <2>1 DEF Kept, Slot
<1>3. K \in SUBSET G
  OBVIOUS
<1>4. PerShape \in Nat
  BY SampleAssumption
<1> HIDE DEF K, P
<1>5. CASE n <= PerShape
  <2>1. K = G
    BY <1>2, <1>3, <1>5
  <2>2. 0 \in 0..(n - 1) /\ n - 1 \in 0..(n - 1)
    BY <1>1
  <2> HIDE DEF G, n
  <2>3. QED
    BY <1>1, <2>1, <2>2 DEF K, G, n
<1>6. CASE ~ (n <= PerShape)
  <2>1. n \in Nat /\ n > PerShape
    BY <1>1, <1>4, <1>6
  <2> HIDE DEF G, n
  <2>2. /\ P \in SUBSET (0..(n - 1)) /\ 0 \in P /\ n - 1 \in P
        /\ IsFiniteSet(P) /\ Cardinality(P) = PerShape
    BY <2>1, PicksAre DEF P
  <2>3. \A d \in P : \E j \in K : Slot(s, j) = d
    BY <1>1, <1>2, <2>2
  <2> DEFINE slot == [j \in K |-> Slot(s, j)]
  <2>4. slot \in [K -> P] /\ \A j \in K : slot[j] = Slot(s, j)
    BY <1>2, <1>3, <1>6
  <2> HIDE DEF slot
  <2>5. slot \in Injection(K, P)
    <3>1. \A j, k \in K : slot[j] = slot[k] => j = k
      BY <1>1, <1>3, <2>4
    <3>2. QED
      BY <2>4, <3>1 DEF Injection, IsInjective
  <2>6. slot \in Surjection(K, P)
    BY <2>3, <2>4 DEF Surjection
  <2>7. IsFiniteSet(K)
    BY <1>1, <1>3, FS_Subset
  <2>8. Cardinality(P) = Cardinality(K)
    BY <2>5, <2>6, <2>7, FS_Bijection DEF ExistsBijection, Bijection
  <2>9. QED
    BY <2>2, <2>3, <2>8 DEF K, G, n
<1>7. QED
  BY <1>5, <1>6

(* What is selected has no departure before one that lies less deep.       *)
Chosen(Q, t) ==
  /\ Q \in SUBSET (1..Len(t)) /\ Elements(Selected(t)) = {t[i] : i \in Q}
  /\ \A i \in Q : \A j \in 1..Len(t) : Depth(t, j) < Depth(t, i) => j \in Q

(* Selection takes the calls in order of their depth.                      *)
LEMMA SelectedAre ==
  ASSUME labels \in LabelLists, NEW t \in Seq(Journeys)
  PROVE  \E Q : Chosen(Q, t)
<1> DEFINE n == Len(t)
           all == 1..n
           A == Arranged(t, all, Turns(t))
<1>1. n \in Nat /\ PlacesOf(t, all) /\ all \in SUBSET (1..n)
  BY DEF PlacesOf
<1>2. Keyed(Floors(t), n) /\ Keyed(Turns(t), n)
  BY KeysAre
<1>3. Selected(t) = IF n <= ToPrice THEN Arranged(t, all, Floors(t)) ELSE SubSeq(A, 1, ToPrice)
  BY SpreadIs
<1>4. ASSUME n <= ToPrice PROVE Chosen(all, t)
  <2>1. Elements(Selected(t)) = {t[i] : i \in all}
    <3> HIDE DEF all
    <3>1. QED
      BY <1>1, <1>2, <1>3, <1>4, ArrangedOnce
  <2>2. QED
    BY <1>1, <2>1 DEF Chosen
<1>5. ASSUME ~ (n <= ToPrice) PROVE \E Q : Chosen(Q, t)
  <2>1. PICK order : /\ Takes(A, t, all, order)
                     /\ \A k, m \in 1..Len(A) : k < m => Less(KeyOf(Turns(t), order[k]), KeyOf(Turns(t), order[m]))
    <3> HIDE DEF all, A
    <3>1. QED
      BY <1>1, <1>2, ArrangementTakes DEF A
  <2>2. /\ Len(A) = n /\ DOMAIN A = 1..n
        /\ \A k \in 1..n : order[k] \in 1..n /\ A[k] = t[order[k]]
        /\ \A i \in 1..n : \E k \in 1..n : order[k] = i
    <3>1. Cardinality(1..n) = n
      BY <1>1, UpTo
    <3> HIDE DEF A, n
    <3>2. QED
      BY <2>1, <3>1 DEF Takes
  <2>3. A \in Seq(Journeys)
    <3> HIDE DEF all
    <3>1. QED
      BY <1>1, <1>2, ArrangedAre
  <2> DEFINE Q == {order[k] : k \in 1..ToPrice}
  <2>4. ToPrice \in Nat /\ \A k \in 1..ToPrice : k \in 1..n
    BY <1>1, <1>5, SampleAssumption
  <2> HIDE DEF A, n
  <2>5. Elements(Selected(t)) = {t[i] : i \in Q}
    <3>1. ToPrice <= Len(A)
      BY <1>1, <1>5, <2>2, <2>4
    <3>2. /\ DOMAIN SubSeq(A, 1, ToPrice) = 1..ToPrice
          /\ \A k \in 1..ToPrice : SubSeq(A, 1, ToPrice)[k] = A[k]
      BY <2>3, <2>4, <3>1
    <3>3. Elements(Selected(t)) = {A[k] : k \in 1..ToPrice}
      BY <1>3, <1>5, <3>2 DEF Elements
    <3>4. \A k \in 1..ToPrice : A[k] = t[order[k]]
      BY <2>2, <2>4
    <3>5. QED
      BY <3>3, <3>4
  <2>6. ASSUME NEW i \in Q, NEW j \in 1..n, Depth(t, j) < Depth(t, i) PROVE j \in Q
    <3>1. PICK k \in 1..ToPrice : order[k] = i
      OBVIOUS
    <3>2. PICK m \in 1..n : order[m] = j
      BY <2>2
    <3>3. k \in 1..n /\ i \in 1..n
      BY <2>2, <2>4, <3>1
    <3>4. Less(KeyOf(Turns(t), j), KeyOf(Turns(t), i))
      <4>1. /\ Turns(t)[i][1] = Depth(t, i) /\ Turns(t)[j][1] = Depth(t, j)
            /\ Len(Turns(t)[i]) = 5 /\ Len(Turns(t)[j]) = 5
        BY <3>3 DEF Turns, n
      <4>2. Turns(t)[i] \in Seq(Int) /\ Turns(t)[j] \in Seq(Int)
        BY <1>2, <3>3 DEF Keyed
      <4>3. PICK e \in Seq(Int) : e = Turns(t)[j]
        BY <4>2
      <4>4. PICK f \in Seq(Int) : f = Turns(t)[i]
        BY <4>2
      <4>5. 1 \in DOMAIN Append(e, j) /\ Append(e, j)[1] = e[1] /\ Append(f, i)[1] = f[1]
        BY <4>1, <4>3, <4>4
      <4>6. Append(e, j)[1] < Append(f, i)[1]
        BY <2>6, <4>1, <4>3, <4>4, <4>5
      <4>7. \A x \in 1..(1 - 1) : Append(e, j)[x] = Append(f, i)[x]
        OBVIOUS
      <4>8. \E k1 \in DOMAIN Append(e, j) :
              Append(e, j)[k1] < Append(f, i)[k1] /\ \A x \in 1..(k1 - 1) : Append(e, j)[x] = Append(f, i)[x]
        BY <4>5, <4>6, <4>7
      <4>9. Less(Append(e, j), Append(f, i))
        BY <4>8 DEF Less
      <4>10. QED
        BY <4>3, <4>4, <4>9 DEF KeyOf
    <3>5. ~ Less(KeyOf(Turns(t), i), KeyOf(Turns(t), j))
      <4>1. /\ IsOrder(all, ByKey(Turns(t)))
            /\ \A x, y \in 1..n : <<x, y>> \in ByKey(Turns(t)) <=> Less(KeyOf(Turns(t), x), KeyOf(Turns(t), y))
        <5> HIDE DEF all
        <5>1. QED
          BY <1>1, <1>2, KeysOrder
      <4>2. QED
        BY <3>3, <3>4, <4>1 DEF IsOrder
    <3>6. ~ (k < m)
      BY <2>1, <2>2, <3>1, <3>2, <3>3, <3>5
    <3>7. m \in 1..ToPrice
      BY <2>4, <3>6
    <3>8. QED
      BY <3>2, <3>7
  <2>7. Q \in SUBSET (1..n)
    BY <2>2, <2>4
  <2> HIDE DEF Q
  <2>8. QED
    BY <2>5, <2>6, <2>7 DEF Chosen, n
<1>6. QED
  BY <1>4, <1>5

(* Places and what stands there once are equally many.                     *)
LEMMA AsManyAsPlaces ==
  ASSUME NEW S, NEW t \in Seq(S), OneEach(t), NEW P \in SUBSET (1..Len(t))
  PROVE  IsFiniteSet(P) /\ Cardinality({t[i] : i \in P}) = Cardinality(P)
<1> DEFINE O == {t[i] : i \in P}
           f == [i \in P |-> t[i]]
<1>1. IsFiniteSet(P)
  <2>1. IsFiniteSet(1..Len(t))
    BY FS_Interval
  <2>2. QED
    BY <2>1, FS_Subset
<1>2. f \in [P -> O] /\ \A i \in P : f[i] = t[i]
  OBVIOUS
<1>3. \A x \in O : \E i \in P : f[i] = x
  OBVIOUS
<1>4. \A i, j \in P : f[i] = f[j] => i = j
  BY DEF OneEach
<1> HIDE DEF f, O
<1>5. f \in Bijection(P, O)
  BY <1>2, <1>3, <1>4 DEF Bijection, Injection, Surjection, IsInjective
<1>6. Cardinality(O) = Cardinality(P)
  BY <1>1, <1>5, FS_Bijection DEF ExistsBijection
<1>7. QED
  BY <1>1, <1>6 DEF O

(* Numbers below a bound are at most as many.                              *)
LEMMA AtMostAsMany ==
  ASSUME NEW P, IsFiniteSet(P), NEW c \in Nat, NEW f \in [P -> 0..c],
         \A i, j \in P : f[i] = f[j] => i = j
  PROVE  Cardinality(P) <= c + 1
<1>1. f \in Injection(P, 0..c)
  BY DEF Injection, IsInjective
<1>2. IsFiniteSet(0..c) /\ Cardinality(0..c) = c + 1
  <2>1. c \in Int /\ 0 \in Int /\ ~ (0 > c) /\ c - 0 + 1 = c + 1
    OBVIOUS
  <2>2. QED
    BY <2>1, FS_Interval
<1>3. Cardinality(P) <= Cardinality(0..c)
  BY <1>1, <1>2, FS_Injection
<1>4. QED
  BY <1>2, <1>3

(* Two of a shape are chosen: then both ends of its day, and one of each.  *)
LEMMA TwoOfAShape ==
  ASSUME labels \in LabelLists, NEW t \in Seq(Journeys), NEW Q, Chosen(Q, t), NEW i \in 1..Len(t),
         Cardinality(Q \cap Group(t, i)) >= 2
  PROVE  /\ \E j \in Q \cap Group(t, i) : Slot(t, j) = 0
         /\ \E j \in Q \cap Group(t, i) : Slot(t, j) = Cardinality(Group(t, i)) - 1
         /\ \A r \in 1..Len(t) : \E j \in Q : j \in Group(t, r)
<1> DEFINE G == Group(t, i)
           n == Cardinality(G)
<1>1. n \in Nat /\ n > 0 /\ G \in SUBSET (1..Len(t))
  BY SlotsAre
<1>2. /\ \A j \in G : /\ Depth(t, j) \in 0..(n - 1) /\ (Slot(t, j) = 0 <=> Depth(t, j) = 0)
                      /\ (Depth(t, j) = 1 => Slot(t, j) = n - 1)
      /\ \A j, k \in G : Depth(t, j) = Depth(t, k) => j = k
      /\ \A d \in 0..(n - 1) : \E j \in G : Depth(t, j) = d
  BY DepthsAre
<1>3. \A q \in Q : q \in 1..Len(t) /\ \A j \in 1..Len(t) : Depth(t, j) < Depth(t, q) => j \in Q
  BY DEF Chosen
<1> HIDE DEF n, G
<1>4. PICK q \in Q \cap G : Depth(t, q) # 0
  <2> SUFFICES ASSUME \A q \in Q \cap G : Depth(t, q) = 0 PROVE FALSE
    OBVIOUS
  <2> DEFINE P == Q \cap G
  <2>1. Cardinality(P) >= 2
    BY DEF G
  <2>2. \A j, k \in P : j = k
    BY <1>2
  <2> HIDE DEF P
  <2>3. PICK q : P = {} \/ P = {q}
    <3>1. CASE P = {}
      BY <3>1
    <3>2. CASE P # {}
      <4>1. PICK q \in P : TRUE
        BY <3>2
      <4>2. P = {q}
        BY <2>2, <4>1
      <4>3. QED
        BY <4>2
    <3>3. QED
      BY <3>1, <3>2
  <2>4. Cardinality({}) = 0 /\ Cardinality({q}) = 1
    BY FS_EmptySet, FS_Singleton
  <2>5. Cardinality(P) = 0 \/ Cardinality(P) = 1
    BY <2>3, <2>4
  <2>6. QED
    BY <2>1, <2>5
<1>5. Depth(t, q) \in 1..(n - 1)
  BY <1>2, <1>4
<1>6. ASSUME NEW r \in 1..Len(t) PROVE \E j \in Q : j \in Group(t, r) /\ Depth(t, j) = 0
  <2> DEFINE R == Group(t, r)
             m == Cardinality(R)
  <2>1. m \in Nat /\ m > 0 /\ R \in SUBSET (1..Len(t))
    BY SlotsAre
  <2>2. \A d \in 0..(m - 1) : \E j \in R : Depth(t, j) = d
    BY DepthsAre
  <2> HIDE DEF R, m
  <2>3. 0 \in 0..(m - 1)
    BY <2>1
  <2>4. PICK j \in R : Depth(t, j) = 0
    BY <2>2, <2>3
  <2>5. j \in Q
    BY <1>3, <1>4, <1>5, <2>1, <2>4
  <2>6. QED
    BY <2>4, <2>5 DEF R
<1>7. \E j \in Q \cap G : Slot(t, j) = 0
  <2>1. PICK j \in Q : j \in G /\ Depth(t, j) = 0
    BY <1>6 DEF G
  <2>2. QED
    BY <1>2, <2>1
<1>8. \E j \in Q \cap G : Slot(t, j) = n - 1
  <2>1. 1 \in 0..(n - 1)
    BY <1>1, <1>5
  <2>2. PICK j \in G : Depth(t, j) = 1
    BY <1>2, <2>1
  <2>3. j \in Q
    <3>1. CASE Depth(t, q) = 1
      BY <1>2, <1>4, <2>2, <3>1
    <3>2. CASE Depth(t, q) # 1
      <4>1. Depth(t, j) < Depth(t, q)
        BY <1>5, <2>2, <3>2
      <4>2. QED
        BY <1>1, <1>3, <1>4, <2>2, <4>1
    <3>3. QED
      BY <3>1, <3>2
  <2>4. QED
    BY <1>2, <2>2, <2>3
<1>9. QED
  BY <1>6, <1>7, <1>8 DEF G, n

(* A shape that misses one has at most one less than any other.            *)
LEMMA NoneIsFavoured ==
  ASSUME labels \in LabelLists, NEW t \in Seq(Journeys), NEW Q, Chosen(Q, t),
         NEW i \in 1..Len(t), NEW r \in 1..Len(t), NEW miss \in Group(t, i), miss \notin Q
  PROVE  Cardinality(Q \cap Group(t, r)) <= Cardinality(Q \cap Group(t, i)) + 1
<1> DEFINE G == Group(t, i)
           R == Group(t, r)
           n == Cardinality(G)
           m == Cardinality(R)
           A == Q \cap G
           B == Q \cap R
           c == Cardinality(A)
<1>1. /\ n \in Nat /\ n > 0 /\ G \in SUBSET (1..Len(t)) /\ IsFiniteSet(G)
      /\ m \in Nat /\ m > 0 /\ R \in SUBSET (1..Len(t)) /\ IsFiniteSet(R)
  BY SlotsAre
<1>2. /\ \A j \in G : Depth(t, j) \in 0..(n - 1)
      /\ \A j, k \in G : Depth(t, j) = Depth(t, k) => j = k
      /\ \A d \in 0..(n - 1) : \E j \in G : Depth(t, j) = d
  BY DepthsAre
<1>3. /\ \A j \in R : Depth(t, j) \in 0..(m - 1)
      /\ \A j, k \in R : Depth(t, j) = Depth(t, k) => j = k
  BY DepthsAre
<1>4. \A q \in Q : q \in 1..Len(t) /\ \A j \in 1..Len(t) : Depth(t, j) < Depth(t, q) => j \in Q
  BY DEF Chosen
<1>5. miss \in G
  OBVIOUS
<1> HIDE DEF n, m, G, R
<1>6. IsFiniteSet(A) /\ IsFiniteSet(B)
  BY <1>1, FS_Subset
<1>7. c \in Nat /\ c < n
  <2>1. A \in SUBSET G /\ A # G
    BY <1>5
  <2> HIDE DEF A
  <2>2. c <= n /\ (n = c => G = A) /\ c \in Nat
    BY <1>1, <1>6, <2>1, FS_Subset, FS_CardinalityType DEF n
  <2>3. QED
    BY <1>1, <2>1, <2>2
<1>8. PICK j \in G : Depth(t, j) = c
  BY <1>1, <1>2, <1>7
<1>9. j \notin Q
  <2> SUFFICES ASSUME j \in Q PROVE FALSE
    OBVIOUS
  <2>1. ASSUME NEW d \in 0..c PROVE \E k \in A : Depth(t, k) = d
    <3>1. d \in 0..(n - 1)
      BY <1>1, <1>7
    <3>2. PICK k \in G : Depth(t, k) = d
      BY <1>2, <3>1
    <3>3. CASE d = c
      <4>1. k = j
        BY <1>2, <1>8, <3>2, <3>3
      <4>2. QED
        BY <3>2, <4>1
    <3>4. CASE d # c
      <4>1. Depth(t, k) < Depth(t, j)
        BY <1>7, <1>8, <3>2, <3>4
      <4>2. k \in Q
        BY <1>1, <1>4, <3>2, <4>1
      <4>3. QED
        BY <3>2, <4>2
    <3>5. QED
      BY <3>3, <3>4
  <2> DEFINE f == [e \in 1..(c + 1) |-> CHOOSE k \in A : Depth(t, k) = e - 1]
  <2>2. ASSUME NEW e \in 1..(c + 1) PROVE f[e] \in A /\ Depth(t, f[e]) = e - 1
    <3>1. e - 1 \in 0..c
      BY <1>7
    <3>2. \E k \in A : Depth(t, k) = e - 1
      BY <2>1, <3>1
    <3> HIDE DEF A, c
    <3>3. QED
      BY <3>2
  <2>3. f \in [1..(c + 1) -> A]
    <3>1. \A e \in 1..(c + 1) : f[e] \in A
      BY <2>2
    <3> HIDE DEF A, c
    <3>2. QED
      BY <3>1
  <2> HIDE DEF f, A
  <2>4. \A e, g \in 1..(c + 1) : f[e] = f[g] => e = g
    <3> SUFFICES ASSUME NEW e \in 1..(c + 1), NEW g \in 1..(c + 1), f[e] = f[g] PROVE e = g
      OBVIOUS
    <3>1. e - 1 = g - 1
      BY <2>2
    <3>2. QED
      BY <1>7, <3>1
  <2>5. c + 1 \in Nat
    BY <1>7
  <2>6. c + 1 <= Cardinality(A)
    BY <1>6, <2>3, <2>4, <2>5, AtLeastAsMany
  <2>7. QED
    BY <1>7, <2>6
<1>10. ASSUME NEW q \in B PROVE Depth(t, q) \in 0..c
  <2>1. q \in Q /\ q \in R /\ Depth(t, q) \in 0..(m - 1)
    BY <1>3
  <2>2. j \in 1..Len(t)
    BY <1>1, <1>8
  <2>3. ~ (c < Depth(t, q))
    BY <1>4, <1>8, <1>9, <2>1, <2>2
  <2>4. QED
    BY <1>7, <2>1, <2>3
<1> DEFINE h == [q \in B |-> Depth(t, q)]
<1>11. h \in [B -> 0..c] /\ \A a, b \in B : h[a] = h[b] => a = b
  <2>1. \A a, b \in B : Depth(t, a) = Depth(t, b) => a = b
    BY <1>3
  <2> HIDE DEF B, c
  <2>2. QED
    BY <1>10, <2>1
<1> HIDE DEF h, B, c
<1>12. Cardinality(B) <= c + 1
  BY <1>6, <1>7, <1>11, AtMostAsMany
<1>13. QED
  BY <1>12 DEF B, A, c, G, R

(* The calls are spread over what is feasible.                             *)
LEMMA CallsSpread ==
  ASSUME labels \in LabelLists, list = Final
  PROVE  CallsAreSpread
<1> DEFINE w == Wanted
           t == Spread(w)
           Goal(s) ==
             /\ Cardinality(Of(Elements(list), s)) >= 2 =>
                  /\ \E x \in Of(Elements(list), s) : \A y \in Of(Feasible, s) : x.departure <= y.departure
                  /\ \E x \in Of(Elements(list), s) : \A y \in Of(Feasible, s) : x.departure >= y.departure
                  /\ \A x \in Feasible : Of(Elements(list), x.shape) # {}
             /\ Of(Elements(list), s) # Of(Feasible, s) =>
                  \/ \A x \in Feasible :
                       Cardinality(Of(Elements(list), x.shape)) <= Cardinality(Of(Elements(list), s)) + 1
                  \/ Cardinality(Of(Elements(list), s)) = PerShape
<1>1. w \in Seq(Journeys) /\ OneEach(w) /\ Elements(w) = Feasible
  BY WantedAre, WantedOnce
<1> HIDE DEF w
<1>2. t \in Seq(Journeys) /\ OneEach(t) /\ Elements(t) = {w[i] : i \in Kept(w)} /\ PlacesOf(w, Kept(w))
  <2>1. t = Arranged(w, Kept(w), Days(w)) /\ PlacesOf(w, Kept(w)) /\ t \in Seq(Journeys)
    BY <1>1, SpreadIs
  <2>2. Keyed(Days(w), Len(w))
    BY <1>1, KeysAre
  <2> HIDE DEF t
  <2>3. QED
    BY <1>1, <2>1, <2>2, ArrangedOnce
<1>3. \A x : x \in Feasible <=> \E i \in 1..Len(w) : x = w[i]
  BY <1>1, ElementsAreFinite
<1>4. w # <<>> => list = Selected(t)
  BY DEF Final, w
<1> HIDE DEF t
<1>5. PICK Q : Chosen(Q, t)
  BY <1>2, SelectedAre
<1>6. \A x : x \in Elements(t) <=> \E k \in 1..Len(t) : x = t[k]
  BY <1>2, ElementsAreFinite
<1>7. \A i \in 1..Len(w) : i \in Kept(w) => \E k \in 1..Len(t) : t[k] = w[i]
  <2> SUFFICES ASSUME NEW i \in 1..Len(w), i \in Kept(w) PROVE \E k \in 1..Len(t) : t[k] = w[i]
    OBVIOUS
  <2>1. w[i] \in Elements(t)
    BY <1>2
  <2>2. QED
    BY <1>6, <2>1
<1>8. \A k \in 1..Len(t) : \E i \in 1..Len(w) : i \in Kept(w) /\ t[k] = w[i]
  <2> SUFFICES ASSUME NEW k \in 1..Len(t) PROVE \E i \in 1..Len(w) : i \in Kept(w) /\ t[k] = w[i]
    OBVIOUS
  <2>1. t[k] \in Elements(t)
    BY <1>6
  <2>2. QED
    BY <1>2, <2>1 DEF PlacesOf
<1>9. ASSUME w # <<>> PROVE Elements(list) = {t[k] : k \in Q} /\ Q \in SUBSET (1..Len(t))
  BY <1>4, <1>5, <1>9 DEF Chosen
<1>10. ASSUME NEW i \in 1..Len(w)
       PROVE  /\ \E k \in 1..Len(t) : t[k].shape = w[i].shape
              /\ \A k \in 1..Len(t) : t[k].shape = w[i].shape =>
                   /\ Of(Elements(list), w[i].shape) = {t[j] : j \in Q \cap Group(t, k)}
                   /\ Cardinality(Of(Elements(list), w[i].shape)) = Cardinality(Q \cap Group(t, k))
  <2>1. w # <<>>
    BY <1>1
  <2>2. PICK j \in Kept(w) \cap Group(w, i) : Slot(w, j) = 0
    BY <1>1, KeptAre
  <2>3. j \in 1..Len(w) /\ w[j].shape = w[i].shape
    BY <1>1 DEF Group
  <2>4. \E k \in 1..Len(t) : t[k].shape = w[i].shape
    BY <1>7, <2>2, <2>3
  <2>5. ASSUME NEW k \in 1..Len(t), t[k].shape = w[i].shape
        PROVE  /\ Of(Elements(list), w[i].shape) = {t[m] : m \in Q \cap Group(t, k)}
               /\ Cardinality(Of(Elements(list), w[i].shape)) = Cardinality(Q \cap Group(t, k))
    <3> DEFINE P == Q \cap Group(t, k)
    <3>1. P \in SUBSET (1..Len(t))
      BY <1>9, <2>1
    <3>2. \A m \in Q : m \in P <=> t[m].shape = w[i].shape
      BY <1>2, <1>9, <2>1, <2>5 DEF Group
    <3>3. Of(Elements(list), w[i].shape) = {t[m] : m \in P}
      <4> HIDE DEF P
      <4>1. \A m \in P : m \in Q
        BY DEF P
      <4>2. QED
        BY <1>9, <2>1, <3>2, <4>1 DEF Of
    <3> HIDE DEF P
    <3>4. Cardinality({t[m] : m \in P}) = Cardinality(P)
      BY <1>2, <3>1, AsManyAsPlaces
    <3>5. QED
      BY <3>3, <3>4 DEF P
  <2>6. QED
    BY <2>4, <2>5
<1>11. ASSUME NEW i \in 1..Len(w) PROVE Goal(w[i].shape)
  <2> DEFINE s == w[i].shape
             C == Of(Elements(list), s)
             G == Group(w, i)
  <2>1. w # <<>>
    BY <1>1
  <2>2. PICK k \in 1..Len(t) : t[k].shape = s
    BY <1>10
  <2> DEFINE P == Q \cap Group(t, k)
  <2>3. C = {t[j] : j \in P} /\ Cardinality(C) = Cardinality(P)
    BY <1>10, <2>2
  <2>4. \A j \in 1..Len(w) : j \in G <=> w[j].shape = s
    BY <1>1 DEF Group
  <2>5. \A y : y \in Of(Feasible, s) <=> \E j \in G : y = w[j]
    <3>1. \A j \in G : j \in 1..Len(w)
      BY <1>1 DEF Group
    <3> HIDE DEF G
    <3>2. QED
      BY <1>3, <2>4, <3>1 DEF Of
  <2>6. /\ Group(t, k) \in SUBSET (1..Len(t))
        /\ \A j \in Group(t, k) : t[j].shape = s
        /\ \A j \in 1..Len(t) : t[j].shape = s => j \in Group(t, k)
    BY <1>2, <2>2 DEF Group
  <2>7. ASSUME NEW j \in Kept(w) \cap G PROVE \E m \in Group(t, k) : t[m] = w[j]
    <3>1. j \in 1..Len(w) /\ j \in Kept(w) /\ w[j].shape = s
      BY <1>1 DEF Group
    <3>2. PICK m \in 1..Len(t) : t[m] = w[j]
      BY <1>7, <3>1
    <3>3. QED
      BY <2>6, <3>1, <3>2
  <2> HIDE DEF G, P, C
  <2>8. ASSUME Cardinality(C) >= 2
        PROVE  /\ \E x \in C : \A y \in Of(Feasible, s) : x.departure <= y.departure
               /\ \E x \in C : \A y \in Of(Feasible, s) : x.departure >= y.departure
               /\ \A x \in Feasible : Of(Elements(list), x.shape) # {}
    <3>1. /\ \E j \in Q \cap Group(t, k) : Slot(t, j) = 0
          /\ \E j \in Q \cap Group(t, k) : Slot(t, j) = Cardinality(Group(t, k)) - 1
          /\ \A r \in 1..Len(t) : \E j \in Q : j \in Group(t, r)
      <4>1. Cardinality(Q \cap Group(t, k)) >= 2
        BY <2>3, <2>8 DEF P
      <4>2. QED
        BY <1>2, <1>5, <4>1, TwoOfAShape
    <3>2. /\ \A j \in Group(t, k) : Slot(t, j) \in 0..(Cardinality(Group(t, k)) - 1)
          /\ \A j, m \in Group(t, k) : Slot(t, j) <= Slot(t, m) => t[j].departure <= t[m].departure
          /\ Cardinality(Group(t, k)) \in Nat
      BY <1>2, SlotsAre
    <3>3. /\ \A j \in G : Slot(w, j) \in 0..(Cardinality(G) - 1)
          /\ \A j, m \in G : Slot(w, j) <= Slot(w, m) => w[j].departure <= w[m].departure
          /\ Cardinality(G) \in Nat /\ G \in SUBSET (1..Len(w))
      BY <1>1, SlotsAre DEF G
    <3>4. /\ \E j \in Kept(w) \cap G : Slot(w, j) = 0
          /\ \E j \in Kept(w) \cap G : Slot(w, j) = Cardinality(G) - 1
      BY <1>1, KeptAre DEF G
    <3>5. /\ \A j \in 1..Len(w) : w[j].departure \in Int
          /\ \A j \in 1..Len(t) : t[j].departure \in Int
      BY <1>1, <1>2, JourneysAre
    <3>6. \E x \in C : \A y \in Of(Feasible, s) : x.departure <= y.departure
      <4>1. PICK j \in P : Slot(t, j) = 0 /\ j \in Group(t, k)
        BY <3>1 DEF P
      <4>2. PICK a \in Kept(w) \cap G : Slot(w, a) = 0
        BY <3>4
      <4>3. PICK m \in Group(t, k) : t[m] = w[a]
        BY <2>7
      <4>4. t[j].departure <= w[a].departure
        BY <3>2, <4>1, <4>3
      <4>5. ASSUME NEW b \in G PROVE t[j].departure <= w[b].departure
        <5>1. w[a].departure <= w[b].departure
          BY <3>3, <4>2
        <5>2. t[j].departure \in Int /\ w[a].departure \in Int /\ w[b].departure \in Int
          BY <2>6, <3>3, <3>5, <4>1
        <5>3. QED
          BY <4>4, <5>1, <5>2
      <4>6. t[j] \in C
        BY <2>3
      <4>7. QED
        BY <2>5, <4>5, <4>6
    <3>7. \E x \in C : \A y \in Of(Feasible, s) : x.departure >= y.departure
      <4>1. PICK j \in P : Slot(t, j) = Cardinality(Group(t, k)) - 1 /\ j \in Group(t, k)
        BY <3>1 DEF P
      <4>2. PICK a \in Kept(w) \cap G : Slot(w, a) = Cardinality(G) - 1
        BY <3>4
      <4>3. PICK m \in Group(t, k) : t[m] = w[a]
        BY <2>7
      <4>4. w[a].departure <= t[j].departure
        BY <3>2, <4>1, <4>3
      <4>5. ASSUME NEW b \in G PROVE t[j].departure >= w[b].departure
        <5>1. w[b].departure <= w[a].departure
          BY <3>3, <4>2
        <5>2. t[j].departure \in Int /\ w[a].departure \in Int /\ w[b].departure \in Int
          BY <2>6, <3>3, <3>5, <4>1
        <5>3. QED
          BY <4>4, <5>1, <5>2
      <4>6. t[j] \in C
        BY <2>3
      <4>7. QED
        BY <2>5, <4>5, <4>6
    <3>8. ASSUME NEW x \in Feasible PROVE Of(Elements(list), x.shape) # {}
      <4>1. PICK b \in 1..Len(w) : x = w[b]
        BY <1>3
      <4>2. PICK r \in 1..Len(t) : t[r].shape = x.shape
        BY <1>10, <4>1
      <4>3. Of(Elements(list), x.shape) = {t[j] : j \in Q \cap Group(t, r)}
        BY <1>10, <4>1, <4>2
      <4>4. PICK j \in Q : j \in Group(t, r)
        BY <3>1
      <4>5. QED
        BY <4>3, <4>4
    <3>9. QED
      BY <3>6, <3>7, <3>8
  <2>9. ASSUME C # Of(Feasible, s)
        PROVE  \/ \A x \in Feasible : Cardinality(Of(Elements(list), x.shape)) <= Cardinality(C) + 1
               \/ Cardinality(C) = PerShape
    <3>1. CASE \E miss \in Group(t, k) : miss \notin Q
      <4>1. PICK miss \in Group(t, k) : miss \notin Q
        BY <3>1
      <4>2. ASSUME NEW x \in Feasible
            PROVE  Cardinality(Of(Elements(list), x.shape)) <= Cardinality(C) + 1
        <5>1. PICK b \in 1..Len(w) : x = w[b]
          BY <1>3
        <5>2. PICK r \in 1..Len(t) : t[r].shape = x.shape
          BY <1>10, <5>1
        <5>3. Cardinality(Of(Elements(list), x.shape)) = Cardinality(Q \cap Group(t, r))
          BY <1>10, <5>1, <5>2
        <5>4. Cardinality(Q \cap Group(t, r)) <= Cardinality(Q \cap Group(t, k)) + 1
          BY <1>2, <1>5, <4>1, NoneIsFavoured
        <5>5. QED
          BY <2>3, <5>3, <5>4 DEF P
      <4>3. QED
        BY <4>2
    <3>2. CASE \A m \in Group(t, k) : m \in Q
      <4> DEFINE K == Kept(w) \cap G
      <4>1. P = Group(t, k)
        BY <3>2 DEF P
      <4>2. C = {w[j] : j \in K}
        <5>1. ASSUME NEW x \in C PROVE x \in {w[j] : j \in K}
          <6>1. PICK m \in Group(t, k) : x = t[m]
            BY <2>3, <4>1
          <6>2. PICK j \in 1..Len(w) : j \in Kept(w) /\ t[m] = w[j]
            BY <1>8, <2>6
          <6>3. j \in G
            BY <2>4, <2>6, <6>1, <6>2
          <6>4. QED
            BY <6>1, <6>2, <6>3
        <5>2. ASSUME NEW j \in K PROVE w[j] \in C
          <6>1. PICK m \in Group(t, k) : t[m] = w[j]
            BY <2>7
          <6>2. QED
            BY <2>3, <4>1, <6>1
        <5>3. QED
          BY <5>1, <5>2
      <4>3. K # G
        <5>1. ASSUME K = G PROVE FALSE
          <6>1. \A y : y \in Of(Feasible, s) <=> y \in C
            BY <2>5, <4>2, <5>1
          <6>2. \A y \in C : y \in Of(Feasible, s)
            BY <6>1
          <6>3. \A y \in Of(Feasible, s) : y \in C
            BY <6>1
          <6>4. C = Of(Feasible, s)
            BY <6>2, <6>3
          <6>5. QED
            BY <2>9, <6>4
        <5>2. QED
          BY <5>1
      <4>4. Cardinality(K) = PerShape
        BY <1>1, <4>3, KeptAre DEF G
      <4>5. K \in SUBSET (1..Len(w))
        BY <1>1 DEF G, Group
      <4> HIDE DEF K
      <4>6. Cardinality({w[j] : j \in K}) = Cardinality(K)
        BY <1>1, <4>5, AsManyAsPlaces
      <4>7. QED
        BY <4>2, <4>4, <4>6
    <3>3. QED
      BY <3>1, <3>2
  <2>10. QED
    BY <2>8, <2>9 DEF C
<1>12. \A s : s \in {x.shape : x \in Feasible} => Goal(s)
  <2> HIDE DEF Goal
  <2>1. QED
    BY <1>3, <1>11
<1>13. QED
  BY <1>12 DEF CallsAreSpread

(* For any labels, prices and bounds: no shape gets a second call before   *)
(* each has one, one that gets two has both ends of its day priced, and no *)
(* shape gets two more than one that misses some, unless that one was      *)
(* sampled down to its share.                                              *)
THEOREM CallsAreShared == Spec => []CallsAreSpread
<1>1. RankInv => CallsAreSpread
  <2>1. RankInv /\ at = "price" => CallsAreSpread
    BY CallsSpread DEF RankInv, RankTypes
  <2>2. at # "price" => CallsAreSpread
    BY DEF CallsAreSpread
  <2>3. QED
    BY <2>1, <2>2
<1>2. QED
  BY <1>1, RankInvHolds, PTL
=============================================================================
