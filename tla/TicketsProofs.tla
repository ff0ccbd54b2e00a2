---------------------------- MODULE TicketsProofs ----------------------------
(***************************************************************************)
(* What holds of the tickets for a train, whatever trains, limits and      *)
(* fares there are: that the one pass over the nodes finds the cheapest    *)
(* tickets, and that the scan knows all a search has advised.              *)
(***************************************************************************)
EXTENDS Tickets, FoldTheorems

(***************************************************************************)
(* The points.                                                             *)
(***************************************************************************)
LEMMA RunsHaveEnds ==
  ASSUME run \in DirectRuns
  PROVE  End \in Nat /\ End >= 2
<1> DEFINE boards(t) == {i \in DOMAIN t.calls : t.calls[i].stop \in Origins}
           alights(t) == {i \in DOMAIN t.calls : /\ i > Min(boards(t))
                                                 /\ t.calls[i].stop \in Destinations}
<1>1. PICK t \in Trains : /\ boards(t) # {} /\ alights(t) # {}
                          /\ run = SubSeq(t.calls, Min(boards(t)), Max(alights(t)))
  BY DEF DirectRuns
<1> DEFINE n == Len(t.calls)
           a == Min(boards(t))
           b == Max(alights(t))
<1>2. t.calls \in Seq(ToSet(t.calls)) /\ n \in Nat /\ DOMAIN t.calls = 1..n
  BY TrainsAssumption
<1>3. a \in 1..n
  <2>1. boards(t) \in SUBSET Nat /\ boards(t) \subseteq 1..n
    BY <1>2
  <2> HIDE DEF boards
  <2>2. a \in boards(t)
    BY <1>1, <2>1, MinIsLeast
  <2>3. QED
    BY <2>1, <2>2
<1>4. b \in 1..n /\ b > a
  <2>1. alights(t) \in SUBSET (0..n) /\ \A i \in alights(t) : i \in 1..n /\ i > a
    BY <1>2
  <2> HIDE DEF alights, a
  <2>2. b \in alights(t)
    BY <1>1, <1>2, <2>1, MaxIsGreatest
  <2>3. QED
    BY <2>1, <2>2
<1>5. run = SubSeq(t.calls, a, b)
  BY <1>1
<1> HIDE DEF a, b
<1>6. Len(run) = b - a + 1
  BY <1>2, <1>3, <1>4, <1>5
<1>7. QED
  BY <1>2, <1>3, <1>4, <1>6 DEF End

(* The order of a finite set of numbers has its elements.                  *)
LEMMA OrderHasElements ==
  ASSUME NEW S \in SUBSET Nat, IsFiniteSet(S)
  PROVE  /\ Cardinality(S) \in Nat /\ InOrder(S) \in Seq(S)
         /\ Len(InOrder(S)) = Cardinality(S)
<1> DEFINE n == Cardinality(S)
           nth(k) == CHOOSE i \in S : Cardinality({j \in S : j < i}) = k - 1
<1>1. n \in Nat
  BY FS_CardinalityType
<1>2. ASSUME NEW k \in 1..n PROVE nth(k) \in S
  <2>1. k - 1 \in Nat /\ k - 1 < Cardinality(S)
    BY <1>1
  <2>2. \E i \in S : Cardinality({j \in S : j < i}) = k - 1
    BY <2>1, NthExists
  <2>3. QED
    BY <2>2
<1>3. InOrder(S) = [k \in 1..n |-> nth(k)]
  BY DEF InOrder
<1> HIDE DEF nth, n
<1>4. InOrder(S) \in [1..n -> S]
  BY <1>2, <1>3
<1>5. InOrder(S) \in Seq(S) /\ Len(InOrder(S)) = n
  BY <1>1, <1>4
<1>6. QED
  BY <1>1, <1>5 DEF n

(* The points are the ends of the ride and breaks between them.            *)
LEMMA PointsSpan ==
  ASSUME run \in DirectRuns, maxPoints \in Limits
  PROVE  /\ Len(Points) \in Nat /\ Len(Points) >= 2 /\ DOMAIN Points = 1..Len(Points)
         /\ Points[1] = 1 /\ Points[Len(Points)] = End
         /\ \A k \in 2..(Len(Points) - 1) : Points[k] \in Usable
<1> DEFINE usable == InOrder(Usable)
           m == Len(usable)
           room == Max({maxPoints - 2, 0})
           kept == IF m <= room THEN usable
                   ELSE [k \in 1..room |-> usable[((k - 1) * m) \div room + 1]]
<1>1. End \in Nat /\ End >= 2
  BY RunsHaveEnds
<1>2. Usable \in SUBSET Nat /\ IsFiniteSet(Usable)
  <2>1. Usable \subseteq 2..(End - 1) /\ 2..(End - 1) \subseteq Nat
    BY <1>1 DEF Usable
  <2>2. IsFiniteSet(2..(End - 1))
    BY <1>1, FS_Interval
  <2>3. QED
    BY <2>1, <2>2, FS_Subset
<1>3. usable \in Seq(Usable) /\ m \in Nat
  BY <1>2, OrderHasElements
<1>4. room \in Nat
  <2>1. maxPoints \in Nat
    BY LimitsAssumption
  <2> DEFINE T == {maxPoints - 2, 0}
  <2>2. CASE maxPoints >= 2
    <3>1. T \in SUBSET (0..maxPoints) /\ T # {}
      BY <2>1, <2>2
    <3> HIDE DEF T
    <3>2. Max(T) \in T
      BY <2>1, <3>1, MaxIsGreatest
    <3>3. QED
      BY <2>1, <3>1, <3>2 DEF T
  <2>3. CASE maxPoints < 2
    <3>1. \A x \in T : 0 >= x
      BY <2>1, <2>3
    <3>2. Max(T) = 0
      BY <2>1, <2>3, <3>1 DEF Max
    <3>3. QED
      BY <3>2
  <2>4. QED
    BY <2>1, <2>2, <2>3
<1> HIDE DEF usable, m, room
<1>5. kept \in Seq(Usable)
  <2>1. CASE m <= room
    BY <1>3, <2>1
  <2>2. CASE ~ (m <= room)
    <3>1. ASSUME NEW k \in 1..room PROVE usable[((k - 1) * m) \div room + 1] \in Usable
      <4> DEFINE q == ((k - 1) * m) \div room
      <4>1. (k - 1) * m \in Nat /\ room \in Nat \ {0}
        BY <1>3, <1>4
      <4>2. q \in Nat /\ q * room <= (k - 1) * m
        BY <4>1
      <4>3. (k - 1) * m <= (room - 1) * m
        BY <1>3, <1>4
      <4>4. m > 0 /\ (room - 1) * m < room * m
        BY <1>3, <1>4, <2>2
      <4>5. m * room = room * m /\ (room - 1) * m \in Nat /\ room * m \in Nat
        BY <1>3, <1>4, <4>1
      <4> HIDE DEF q
      <4>6. ~ (q >= m)
        <5>1. ASSUME q >= m PROVE q * room >= m * room
          BY <1>3, <1>4, <4>2, <5>1
        <5>2. q * room \in Nat
          BY <1>4, <4>2
        <5>3. QED
          BY <4>1, <4>2, <4>3, <4>4, <4>5, <5>1, <5>2
      <4>7. q + 1 \in 1..m
        BY <1>3, <4>2, <4>6
      <4>8. usable[q + 1] \in Usable
        BY <1>3, <4>7 DEF m
      <4>9. QED
        BY <4>8 DEF q
    <3>2. kept = [k \in 1..room |-> usable[((k - 1) * m) \div room + 1]]
      BY <2>2
    <3>3. kept \in [1..room -> Usable]
      BY <3>1, <3>2
    <3> HIDE DEF kept
    <3>4. QED
      BY <1>4, <3>3
  <2>3. QED
    BY <2>1, <2>2
<1>6. Points = <<1>> \o kept \o <<End>>
  BY DEF Points, kept, usable, m, room
<1> HIDE DEF kept
<1> DEFINE size == Len(kept)
<1>7. size \in Nat /\ \A k \in 1..size : kept[k] \in Usable
  BY <1>5
<1>8. kept \in Seq(Nat)
  <2>1. \A k \in 1..Len(kept) : kept[k] \in Nat
    BY <1>2, <1>7
  <2>2. QED
    BY <1>5, <2>1
<1>9. /\ Points \in Seq(Nat) /\ Len(Points) = size + 2
      /\ Points[1] = 1 /\ Points[size + 2] = End
      /\ \A k \in 2..(size + 1) : Points[k] = kept[k - 1]
  BY <1>1, <1>6, <1>8
<1> HIDE DEF size
<1>10. \A k \in 2..(size + 1) : k - 1 \in 1..size
  BY <1>7
<1>11. DOMAIN Points = 1..Len(Points)
  BY <1>9
<1>12. (size + 2) - 1 = size + 1
  BY <1>7
<1>13. QED
  BY <1>7, <1>9, <1>10, <1>11, <1>12
-----------------------------------------------------------------------------
(***************************************************************************)
(* The optimisation.  Tickets lead forward; what leads to a node is a      *)
(* ticket from an earlier one and what leads there.                        *)
(***************************************************************************)
ChainsTo(j) ==
  {c \in Seq(DOMAIN prices) : IF c = <<>> THEN j = 1 ELSE Leads(c, j)}

Forward(n) ==
  /\ n \in Nat
  /\ \A p \in DOMAIN prices : /\ p \in (1..n) \X (1..n) /\ p[1] < p[2]
                             /\ prices[p] \in Nat

(* No tickets cost nothing.                                                *)
LEMMA NoTicketsCostNothing == Cost(<<>>) = 0
<1> DEFINE f == [k \in DOMAIN <<>> |-> prices[<<>>[k]]]
<1>1. DOMAIN f = {}
  OBVIOUS
<1>2. Cost(<<>>) = SumFunctionOnSet(f, DOMAIN f)
  BY DEF Cost, SumFunction
<1> HIDE DEF f
<1>3. QED
  BY <1>1, <1>2, SumEmpty

(* One more ticket costs its fare.                                         *)
LEMMA TicketsAdd ==
  ASSUME NEW n, Forward(n), NEW c \in Seq(DOMAIN prices), NEW t \in DOMAIN prices
  PROVE  Cost(c) \in Int /\ Cost(Append(c, t)) = Cost(c) + prices[t]
<1> DEFINE m == Len(c)
           d == Append(c, t)
           f == [k \in DOMAIN d |-> prices[d[k]]]
           g == [k \in DOMAIN c |-> prices[c[k]]]
<1>1. m \in Nat /\ DOMAIN c = 1..m /\ \A k \in 1..m : c[k] \in DOMAIN prices
  OBVIOUS
<1>2. DOMAIN d = 1..(m + 1) /\ d[m + 1] = t /\ \A k \in 1..m : d[k] = c[k]
  OBVIOUS
<1>3. Cost(d) = SumFunctionOnSet(f, 1..(m + 1)) /\ Cost(c) = SumFunctionOnSet(g, 1..m)
  <2>1. DOMAIN f = 1..(m + 1) /\ DOMAIN g = 1..m
    BY <1>1, <1>2
  <2>2. Cost(d) = SumFunctionOnSet(f, DOMAIN f) /\ Cost(c) = SumFunctionOnSet(g, DOMAIN g)
    BY DEF Cost, SumFunction
  <2>3. QED
    BY <2>1, <2>2
<1>4. f[m + 1] = prices[t] /\ \A k \in 1..m : f[k] = g[k] /\ g[k] = prices[c[k]]
  <2>1. m + 1 \in DOMAIN d /\ \A k \in 1..m : k \in DOMAIN d
    BY <1>1, <1>2
  <2>2. QED
    BY <1>1, <1>2, <2>1
<1> HIDE DEF d, f, g, m
<1>5. \A k \in 1..m : g[k] \in Int
  BY <1>1, <1>4 DEF Forward
<1>6. \A k \in 1..(m + 1) : f[k] \in Int
  <2>1. prices[t] \in Int
    BY DEF Forward
  <2>2. \A k \in 1..(m + 1) : k \in 1..m \/ k = m + 1
    BY <1>1
  <2>3. QED
    BY <1>4, <1>5, <2>1, <2>2
<1>7. IsFiniteSet(1..m) /\ IsFiniteSet(1..(m + 1))
  BY <1>1, FS_Interval
<1>8. /\ m + 1 \in 1..(m + 1) /\ (1..(m + 1)) \ {m + 1} = 1..m
  BY <1>1
<1>9. SumFunctionOnSet(f, 1..(m + 1)) = f[m + 1] + SumFunctionOnSet(f, 1..m)
  <2>1. SumFunctionOnSet(f, 1..(m + 1))
          = f[m + 1] + SumFunctionOnSet(f, (1..(m + 1)) \ {m + 1})
    BY <1>6, <1>7, <1>8, SumRemove
  <2>2. QED
    BY <1>8, <2>1
<1>10. SumFunctionOnSet(f, 1..m) = SumFunctionOnSet(g, 1..m)
  BY <1>4, <1>5, <1>7, SumAgrees
<1>11. SumFunctionOnSet(g, 1..m) \in Int
  BY <1>5, <1>7, SumRemove
<1>12. prices[t] \in Int
  BY DEF Forward
<1>13. QED
  BY <1>3, <1>4, <1>9, <1>10, <1>11, <1>12 DEF d

(* What leads to a node with a last ticket leads to where that begins.     *)
LEMMA LastTicket ==
  ASSUME NEW n, Forward(n), NEW j, NEW c \in ChainsTo(j), c # <<>>
  PROVE  \E i \in 1..n : \E b \in ChainsTo(i) :
           <<i, j>> \in DOMAIN prices /\ i < j /\ j \in 1..n /\ c = Append(b, <<i, j>>)
<1> DEFINE m == Len(c)
           t == c[m]
           b == SubSeq(c, 1, m - 1)
<1>1. c \in Seq(DOMAIN prices) /\ Leads(c, j)
  BY DEF ChainsTo
<1>2. m \in Nat \ {0} /\ \A k \in 1..m : c[k] \in DOMAIN prices
  BY <1>1
<1>3. t \in DOMAIN prices /\ t[2] = j /\ c[1][1] = 1
  BY <1>1, <1>2 DEF Leads
<1>4. t[1] \in 1..n /\ t[2] \in 1..n /\ t[1] < t[2] /\ t = <<t[1], t[2]>>
  BY <1>3 DEF Forward
<1>5. /\ b \in Seq(DOMAIN prices) /\ Len(b) = m - 1
      /\ \A k \in 1..(m - 1) : b[k] = c[k]
  <2> DEFINE S == DOMAIN prices
  <2>1. c \in Seq(S) /\ m = Len(c) /\ m \in Nat \ {0}
    BY <1>1, <1>2
  <2> HIDE DEF S, m
  <2>2. b \in Seq(S) /\ Len(b) = m - 1
    BY <2>1
  <2>3. \A k \in 1..(m - 1) : b[k] = c[k]
    BY <2>1
  <2>4. QED
    BY <2>2, <2>3 DEF S
<1>6. c = Append(b, t)
  <2> DEFINE a == Append(b, t)
  <2>1. /\ a \in Seq(DOMAIN prices) /\ Len(a) = m
        /\ a[m] = t /\ \A k \in 1..(m - 1) : a[k] = b[k]
    BY <1>2, <1>3, <1>5
  <2> HIDE DEF a, b
  <2>2. \A k \in 1..m : a[k] = c[k]
    <3>1. \A k \in 1..m : k \in 1..(m - 1) \/ k = m
      BY <1>2
    <3>2. QED
      BY <1>5, <2>1, <3>1
  <2>3. Len(c) = m
    OBVIOUS
  <2> HIDE DEF m, t
  <2>4. a = c
    BY <1>1, <1>2, <2>1, <2>2, <2>3
  <2>5. QED
    BY <2>4 DEF a
<1>7. b \in ChainsTo(t[1])
  <2>1. CASE m = 1
    <3>1. b = <<>>
      BY <1>5, <2>1
    <3>2. t[1] = 1
      BY <1>3, <2>1
    <3>3. QED
      BY <1>5, <3>1, <3>2 DEF ChainsTo
  <2>2. CASE m # 1
    <3>1. /\ m - 1 \in 1..(m - 1) /\ 1 \in 1..(m - 1) /\ b # <<>> /\ (m - 1) + 1 = m
          /\ m - 1 \in 1..(Len(c) - 1)
      <4>1. m = Len(c) /\ Len(<<>>) = 0
        OBVIOUS
      <4> HIDE DEF m, b
      <4>2. m \in Nat /\ m >= 2
        BY <1>2, <2>2
      <4>3. m - 1 \in 1..(m - 1) /\ 1 \in 1..(m - 1) /\ (m - 1) + 1 = m /\ m - 1 # 0
        BY <4>2
      <4>4. QED
        BY <1>5, <4>1, <4>3
    <3>2. b[1][1] = 1
      BY <1>3, <1>5, <3>1
    <3>3. b[Len(b)][2] = t[1]
      BY <1>1, <1>5, <3>1 DEF Leads
    <3>4. ASSUME NEW k \in 1..(Len(b) - 1) PROVE b[k][2] = b[k + 1][1]
      <4>1. k \in 1..(m - 1) /\ k + 1 \in 1..(m - 1) /\ k \in 1..(Len(c) - 1)
        BY <1>2, <1>5
      <4>2. QED
        BY <1>1, <1>5, <4>1 DEF Leads
    <3> HIDE DEF b, t
    <3>5. Leads(b, t[1])
      BY <3>2, <3>3, <3>4 DEF Leads
    <3>6. QED
      BY <1>5, <3>1, <3>5 DEF ChainsTo
  <2>3. QED
    BY <2>1, <2>2
<1> HIDE DEF b, t, m
<1>8. QED
  BY <1>3, <1>4, <1>6, <1>7

(* And any ticket from there leads on.                                     *)
LEMMA NextTicket ==
  ASSUME NEW i, NEW j, NEW b \in ChainsTo(i), <<i, j>> \in DOMAIN prices
  PROVE  Append(b, <<i, j>>) \in ChainsTo(j)
<1> DEFINE t == <<i, j>>
           m == Len(b)
           c == Append(b, t)
<1>1. b \in Seq(DOMAIN prices) /\ m \in Nat
  BY DEF ChainsTo
<1>2. t[1] = i /\ t[2] = j /\ t \in DOMAIN prices
  OBVIOUS
<1> HIDE DEF t
<1>3. /\ c \in Seq(DOMAIN prices) /\ Len(c) = m + 1 /\ c # <<>>
      /\ c[m + 1] = t /\ \A k \in 1..m : c[k] = b[k]
  BY <1>1, <1>2
<1> HIDE DEF c
<1>4. CASE b = <<>>
  <2>1. m = 0 /\ i = 1
    BY <1>4 DEF ChainsTo
  <2>2. Leads(c, j)
    BY <1>2, <1>3, <2>1 DEF Leads
  <2>3. QED
    BY <1>3, <2>2 DEF ChainsTo, c, t
<1>5. CASE b # <<>>
  <2>1. Leads(b, i) /\ m # 0
    BY <1>1, <1>5 DEF ChainsTo
  <2>2. c[1][1] = 1 /\ c[Len(c)][2] = j
    BY <1>1, <1>2, <1>3, <2>1 DEF Leads
  <2>3. ASSUME NEW k \in 1..(Len(c) - 1) PROVE c[k][2] = c[k + 1][1]
    <3>1. CASE k = m
      BY <1>1, <1>2, <1>3, <2>1, <3>1 DEF Leads
    <3>2. CASE k # m
      <4>1. k \in 1..m /\ k + 1 \in 1..m /\ k \in 1..(Len(b) - 1)
        BY <1>1, <1>3, <3>2
      <4>2. QED
        BY <1>3, <2>1, <4>1 DEF Leads
    <3>3. QED
      BY <3>1, <3>2
  <2>4. Leads(c, j)
    BY <2>2, <2>3 DEF Leads
  <2>5. QED
    BY <1>3, <2>4 DEF ChainsTo, c, t
<1>6. QED
  BY <1>4, <1>5

(* A node is settled by one of the cheapest last tickets there are.        *)
Node == [reached : BOOLEAN, tickets : Seq(DOMAIN prices)]
From(best, j) == {i \in DOMAIN best : best[i].reached /\ <<i, j>> \in DOMAIN prices}
Chosen(best, j, node) ==
  IF From(best, j) = {} THEN node = [reached |-> FALSE, tickets |-> <<>>]
  ELSE \E i \in From(best, j) :
         /\ \A l \in From(best, j) : Through(best, i, j) <= Through(best, l, j)
         /\ node = [reached |-> TRUE, tickets |-> Append(best[i].tickets, <<i, j>>)]

(* One turn of best_chain settles one more point, by the cheapest of the   *)
(* ways to reach it.                                                       *)
LEMMA SettleAdds ==
  ASSUME NEW n, Forward(n), NEW best \in Seq(Node), NEW j
  PROVE  \E node \in Node : Settle(best, j) = Append(best, node) /\ Chosen(best, j, node)
<1> DEFINE from == {i \in DOMAIN best : best[i].reached /\ <<i, j>> \in DOMAIN prices}
           cost(i) == Through(best, i, j)
           cheapest == {k \in from : \A l \in from : cost(k) <= cost(l)}
           i0 == Min(cheapest)
           none == [reached |-> FALSE, tickets |-> <<>>]
           one == [reached |-> TRUE, tickets |-> Append(best[i0].tickets, <<i0, j>>)]
<1>1. Settle(best, j) = Append(best, IF from = {} THEN none ELSE one)
  BY DEF Settle
<1>2. from = From(best, j)
  BY DEF From
<1>3. CASE from = {}
  <2>1. none \in Node
    BY DEF Node
  <2>2. Chosen(best, j, none)
    BY <1>2, <1>3 DEF Chosen
  <2>3. QED
    BY <1>1, <1>3, <2>1, <2>2
<1>4. CASE from # {}
  <2>1. Len(best) \in Nat /\ DOMAIN best = 1..Len(best) /\ \A k \in DOMAIN best : best[k] \in Node
    OBVIOUS
  <2>2. /\ from \in SUBSET Nat /\ from \subseteq DOMAIN best
        /\ \A k \in from : <<k, j>> \in DOMAIN prices
    BY <2>1
  <2>3. IsFiniteSet(from)
    <3>1. IsFiniteSet(1..Len(best))
      BY <2>1, FS_Interval
    <3> HIDE DEF from
    <3>2. QED
      BY <2>1, <2>2, <3>1, FS_Subset
  <2> HIDE DEF from
  <2>4. ASSUME NEW k \in from PROVE best[k].tickets \in Seq(DOMAIN prices) /\ cost(k) \in Int
    <3>1. best[k] \in Node
      BY <2>1, <2>2
    <3>2. best[k].tickets \in Seq(DOMAIN prices)
      BY <3>1 DEF Node
    <3>3. Cost(best[k].tickets) \in Int
      BY <2>2, <3>2, TicketsAdd
    <3>4. prices[<<k, j>>] \in Int
      BY <2>2 DEF Forward
    <3>5. QED
      BY <3>2, <3>3, <3>4 DEF Through
  <2>5. \E k \in from : \A l \in from : cost(k) <= cost(l)
    <3> DEFINE a == [k \in from |-> - cost(k)]
               b == [k \in from |-> 1]
    <3> HIDE DEF cost
    <3>1. \A k \in from : a[k] \in Int /\ b[k] \in Nat \ {0}
      BY <2>4
    <3>2. \E k \in from : \A l \in from : a[l] * b[k] <= a[k] * b[l]
      <4> HIDE DEF a, b
      <4>1. QED
        BY <1>4, <2>3, <3>1, GreatestRatio
    <3>3. PICK k \in from : \A l \in from : a[l] * b[k] <= a[k] * b[l]
      BY <3>2
    <3>4. ASSUME NEW l \in from PROVE cost(k) <= cost(l)
      <4>1. a[l] * 1 <= a[k] * 1
        BY <3>3
      <4>2. cost(k) \in Int /\ cost(l) \in Int /\ a[l] = - cost(l) /\ a[k] = - cost(k)
        BY <2>4
      <4> HIDE DEF a
      <4>3. QED
        BY <4>1, <4>2
    <3>5. QED
      BY <3>4
  <2>6. cheapest \in SUBSET Nat /\ cheapest # {}
    BY <2>2, <2>5
  <2>7. i0 \in cheapest
    <3> HIDE DEF cheapest
    <3>1. QED
      BY <2>6, MinIsLeast
  <2> HIDE DEF i0
  <2>8. i0 \in from /\ \A l \in from : cost(i0) <= cost(l)
    BY <2>7
  <2>9. one \in Node
    <3>1. Append(best[i0].tickets, <<i0, j>>) \in Seq(DOMAIN prices)
      BY <2>2, <2>4, <2>8
    <3>2. QED
      BY <3>1 DEF Node
  <2>10. Chosen(best, j, one)
    BY <1>2, <1>4, <2>8 DEF Chosen
  <2>11. Settle(best, j) = Append(best, one)
    BY <1>1, <1>4
  <2> HIDE DEF one
  <2>12. QED
    BY <2>9, <2>10, <2>11
<1>5. QED
  BY <1>3, <1>4

(* Once settled, a node is reached by the cheapest chain that leads to it, *)
(* if any does.                                                            *)
Settled(node, j) ==
  IF node.reached
    THEN /\ node.tickets \in ChainsTo(j) /\ Len(node.tickets) <= j - 1
         /\ \A c \in ChainsTo(j) : Cost(node.tickets) <= Cost(c)
    ELSE ChainsTo(j) = {} /\ node.tickets = <<>>

Known(best, j) ==
  best \in Seq(Node) /\ Len(best) = j /\ \A i \in 1..j : Settled(best[i], i)

(* If the points so far have their cheapest chains, so has the next.       *)
LEMMA SettlesNode ==
  ASSUME NEW n, Forward(n), NEW m \in Nat \ {0}, NEW best, Known(best, m)
  PROVE  Known(Settle(best, m + 1), m + 1)
<1> DEFINE j == m + 1
<1>1. best \in Seq(Node) /\ Len(best) = m /\ DOMAIN best = 1..m
  BY DEF Known
<1>2. PICK node \in Node : Settle(best, j) = Append(best, node) /\ Chosen(best, j, node)
  BY <1>1, SettleAdds
<1>3. ASSUME NEW i \in 1..m PROVE best[i] \in Node /\ Settled(best[i], i)
  BY <1>1 DEF Known
<1>4. j # 1 /\ j \in Nat
  OBVIOUS
<1>5. ASSUME NEW c \in ChainsTo(j)
      PROVE  \E i \in From(best, j) : \E b \in ChainsTo(i) : c = Append(b, <<i, j>>)
  <2>1. c # <<>>
    BY <1>4 DEF ChainsTo
  <2>2. PICK i \in 1..n : \E b \in ChainsTo(i) :
           <<i, j>> \in DOMAIN prices /\ i < j /\ j \in 1..n /\ c = Append(b, <<i, j>>)
    BY <2>1, LastTicket
  <2>3. PICK b \in ChainsTo(i) : <<i, j>> \in DOMAIN prices /\ i < j /\ c = Append(b, <<i, j>>)
    BY <2>2
  <2>4. i \in 1..m
    <3>1. n \in Nat
      BY DEF Forward
    <3>2. QED
      BY <2>3, <3>1
  <2>5. best[i].reached
    BY <1>3, <2>3, <2>4 DEF Settled
  <2>6. i \in From(best, j)
    BY <1>1, <2>3, <2>4, <2>5 DEF From
  <2>7. QED
    BY <2>3, <2>6
<1>6. Settled(node, j)
  <2>1. CASE From(best, j) = {}
    <3>1. node = [reached |-> FALSE, tickets |-> <<>>]
      BY <1>2, <2>1 DEF Chosen
    <3>2. ChainsTo(j) = {}
      BY <1>5, <2>1
    <3>3. QED
      BY <3>1, <3>2 DEF Settled
  <2>2. CASE From(best, j) # {}
    <3>1. PICK i \in From(best, j) :
             /\ \A l \in From(best, j) : Through(best, i, j) <= Through(best, l, j)
             /\ node = [reached |-> TRUE, tickets |-> Append(best[i].tickets, <<i, j>>)]
      BY <1>2, <2>2 DEF Chosen
    <3> DEFINE t == best[i].tickets
    <3>2. i \in 1..m /\ best[i].reached /\ <<i, j>> \in DOMAIN prices
      BY <1>1 DEF From
    <3>3. t \in ChainsTo(i) /\ Len(t) <= i - 1 /\ t \in Seq(DOMAIN prices)
      BY <1>3, <3>2 DEF Settled, ChainsTo
    <3> HIDE DEF j
    <3>4. Append(t, <<i, j>>) \in ChainsTo(j)
      BY <3>2, <3>3, NextTicket
    <3>5. Len(Append(t, <<i, j>>)) <= j - 1
      <4>1. Len(Append(t, <<i, j>>)) = Len(t) + 1 /\ Len(t) \in Nat
        BY <3>3
      <4>2. QED
        BY <3>2, <3>3, <4>1 DEF j
    <3>6. ASSUME NEW c \in ChainsTo(j) PROVE Cost(Append(t, <<i, j>>)) <= Cost(c)
      <4>1. PICK l \in From(best, j) : \E b \in ChainsTo(l) : c = Append(b, <<l, j>>)
        BY <1>5
      <4>2. PICK b \in ChainsTo(l) : c = Append(b, <<l, j>>)
        BY <4>1
      <4>3. l \in 1..m /\ best[l].reached /\ <<l, j>> \in DOMAIN prices
        BY <1>1 DEF From
      <4>4. Cost(best[l].tickets) <= Cost(b) /\ best[l].tickets \in Seq(DOMAIN prices)
        BY <1>3, <4>3 DEF Settled, ChainsTo
      <4>5. b \in Seq(DOMAIN prices)
        BY DEF ChainsTo
      <4>6. /\ Cost(Append(t, <<i, j>>)) = Cost(t) + prices[<<i, j>>] /\ Cost(t) \in Int
            /\ Cost(c) = Cost(b) + prices[<<l, j>>] /\ Cost(b) \in Int
            /\ Cost(best[l].tickets) \in Int
        BY <3>2, <3>3, <4>2, <4>3, <4>4, <4>5, TicketsAdd
      <4>7. Cost(t) + prices[<<i, j>>] <= Cost(best[l].tickets) + prices[<<l, j>>]
        BY <3>1 DEF Through
      <4>8. prices[<<l, j>>] \in Int /\ prices[<<i, j>>] \in Int
        BY <3>2, <4>3 DEF Forward
      <4> HIDE DEF t
      <4>9. QED
        BY <4>4, <4>6, <4>7, <4>8
    <3>7. node.reached /\ node.tickets = Append(t, <<i, j>>)
      BY <3>1
    <3> HIDE DEF t
    <3>8. QED
      BY <3>4, <3>5, <3>6, <3>7 DEF Settled
  <2>3. QED
    BY <2>1, <2>2
<1> DEFINE new == Append(best, node)
<1>7. /\ new \in Seq(Node) /\ Len(new) = m + 1 /\ new[m + 1] = node
      /\ \A i \in 1..m : new[i] = best[i]
  BY <1>1
<1> HIDE DEF new
<1>8. ASSUME NEW i \in 1..(m + 1) PROVE Settled(new[i], i)
  <2>1. i \in 1..m \/ i = m + 1
    OBVIOUS
  <2>2. QED
    BY <1>3, <1>6, <1>7, <2>1
<1>9. Known(new, m + 1)
  BY <1>7, <1>8 DEF Known
<1>10. QED
  BY <1>2, <1>9 DEF new

(* best_chain: the steps of its pass.                                      *)
LEMMA PassUnfolds ==
  ASSUME NEW n, Forward(n), n >= 2
  PROVE  \E h : /\ BestChain(n) = h[1..(n - 1)][n].tickets
                /\ h[1..0] = <<[reached |-> TRUE, tickets |-> <<>>]>>
                /\ \A k \in 1..(n - 1) : h[1..k] = Settle(h[1..(k - 1)], k + 1)
<1> DEFINE m == n - 1
           start == <<[reached |-> TRUE, tickets |-> <<>>]>>
           nodes == [k \in 1..m |-> k + 1]
           V == Seq(Node)
           st == [q \in V \X (1..m) |-> Settle(q[1], nodes[q[2]])]
<1>0. m \in Nat /\ n \in Nat
  BY DEF Forward
<1>1. ASSUME NEW v \in V, NEW i \in 1..m
      PROVE  st[<<v, i>>] = Settle(v, nodes[i]) /\ Settle(v, nodes[i]) \in V
  <2>1. PICK node \in Node : Settle(v, nodes[i]) = Append(v, node)
    BY SettleAdds
  <2>2. Append(v, node) \in V
    OBVIOUS
  <2>3. QED
    BY <2>1, <2>2
<1>2. start \in V
  BY DEF Node
<1>3. DOMAIN nodes = 1..m
  OBVIOUS
<1> HIDE DEF nodes, start, m
<1>4. PICK f : IsFold(f, m, start, st) /\ \A s \in SUBSET (1..m) : f[s] \in V
  <2>1. \A v \in V : \A i \in 1..m : st[<<v, i>>] \in V
    BY <1>1
  <2> HIDE DEF V, st
  <2>2. QED
    BY <1>0, <1>2, <2>1, FoldExists
<1> DEFINE IsPass(h) ==
             h = [s \in SUBSET (1..m) |->
                    IF s = {} THEN start ELSE Settle(h[s \ {Max(s)}], nodes[Max(s)])]
<1>5. IsPass(f)
  <2>1. ASSUME NEW s \in SUBSET (1..m), s # {}
        PROVE  st[<<f[s \ {Max(s)}], Max(s)>>] = Settle(f[s \ {Max(s)}], nodes[Max(s)])
    <3> DEFINE top == Max(s)
    <3>1. s \in SUBSET (0..m)
      BY <1>0
    <3>2. top \in 1..m
      <4>1. top \in s
        BY <1>0, <2>1, <3>1, MaxIsGreatest
      <4> HIDE DEF top
      <4>2. QED
        BY <4>1
    <3>3. f[s \ {Max(s)}] \in V
      BY <1>4
    <3> HIDE DEF st, V
    <3>4. QED
      BY <1>1, <3>2, <3>3
  <2> HIDE DEF st, V
  <2>2. f = [s \in SUBSET (1..m) |->
               IF s = {} THEN start ELSE st[<<f[s \ {Max(s)}], Max(s)>>]]
    BY <1>4 DEF IsFold
  <2>3. QED
    BY <2>1, <2>2
<1>6. PICK h : IsPass(h) /\ FoldLeft(Settle, start, nodes) = h[1..m]
  BY <1>3, <1>5 DEF FoldLeft, MapThenFoldSet
<1>7. \A s \in SUBSET (1..m) :
        h[s] = IF s = {} THEN start ELSE Settle(h[s \ {Max(s)}], nodes[Max(s)])
  BY <1>6
<1>8. h[1..0] = start
  <2>1. 1..0 = {} /\ {} \in SUBSET (1..m)
    OBVIOUS
  <2>2. QED
    BY <1>7, <2>1
<1>9. ASSUME NEW k \in 1..m PROVE h[1..k] = Settle(h[1..(k - 1)], k + 1)
  <2>1. k - 1 \in Nat /\ (k - 1) + 1 = k
    BY <1>0
  <2>2. Max(1..k) = k /\ (1..k) \ {k} = 1..(k - 1)
    BY <2>1, LastOfFirst
  <2>3. 1..k \in SUBSET (1..m) /\ 1..k # {}
    <3>1. k \in Nat /\ 1 <= k /\ k <= m
      BY <1>0
    <3>2. 1 \in 1..k /\ \A i \in 1..k : i \in 1..m
      BY <1>0, <3>1
    <3>3. QED
      BY <3>2
  <2>4. nodes[k] = k + 1
    BY DEF nodes
  <2>5. QED
    BY <1>7, <2>2, <2>3, <2>4
<1>10. BestChain(n) = h[1..m][n].tickets
  BY <1>6 DEF BestChain, nodes, start, m
<1>11. QED
  BY <1>8, <1>9, <1>10 DEF m, start

(* So what it finds is the cheapest chain to the last node, if any is.     *)
LEMMA PassIsBest ==
  ASSUME NEW n, Forward(n), n >= 2
  PROVE  IF ChainsTo(n) = {} THEN BestChain(n) = <<>>
         ELSE /\ BestChain(n) \in ChainsTo(n) /\ Len(BestChain(n)) <= n - 1
              /\ \A c \in ChainsTo(n) : Cost(BestChain(n)) <= Cost(c)
<1>1. PICK h : /\ BestChain(n) = h[1..(n - 1)][n].tickets
               /\ h[1..0] = <<[reached |-> TRUE, tickets |-> <<>>]>>
               /\ \A k \in 1..(n - 1) : h[1..k] = Settle(h[1..(k - 1)], k + 1)
  BY PassUnfolds
<1>2. n \in Nat /\ n - 1 \in Nat /\ (n - 1) + 1 = n
  BY DEF Forward
<1> DEFINE T == {k \in Nat : k <= n - 1 => Known(h[1..k], k + 1)}
<1>3. 0 \in T
  <2> DEFINE node == [reached |-> TRUE, tickets |-> <<>>]
  <2>1. node \in Node
    BY DEF Node
  <2>2. ASSUME NEW c \in ChainsTo(1) PROVE c = <<>>
    <3>1. ASSUME c # <<>> PROVE FALSE
      <4>1. PICK i \in 1..n : i < 1
        BY <3>1, LastTicket
      <4>2. QED
        BY <1>2, <4>1
    <3>2. QED
      BY <3>1
  <2>3. <<>> \in ChainsTo(1)
    BY DEF ChainsTo
  <2>4. \A c \in ChainsTo(1) : Cost(<<>>) <= Cost(c)
    BY <2>2, NoTicketsCostNothing
  <2>5. node.reached /\ node.tickets = <<>> /\ Len(<<>>) <= 1 - 1
    OBVIOUS
  <2> HIDE DEF node
  <2>6. Settled(node, 1)
    BY <2>3, <2>4, <2>5 DEF Settled
  <2> DEFINE start == <<node>>
  <2>7. start \in Seq(Node) /\ Len(start) = 1 /\ start[1] = node
    BY <2>1
  <2> HIDE DEF start
  <2>8. \A i \in 1..1 : Settled(start[i], i)
    <3>1. \A i \in 1..1 : i = 1
      OBVIOUS
    <3>2. QED
      BY <2>6, <2>7, <3>1
  <2>9. Known(start, 0 + 1)
    BY <2>7, <2>8 DEF Known
  <2>10. h[1..0] = start
    BY <1>1 DEF start, node
  <2>11. QED
    BY <2>9, <2>10
<1>4. ASSUME NEW k \in T PROVE k + 1 \in T
  <2> SUFFICES ASSUME k + 1 <= n - 1 PROVE Known(h[1..(k + 1)], (k + 1) + 1)
    OBVIOUS
  <2>1. k + 1 \in 1..(n - 1) /\ (k + 1) - 1 = k /\ k <= n - 1 /\ k + 1 \in Nat \ {0}
    BY <1>2
  <2>2. Known(h[1..k], k + 1)
    BY <2>1
  <2>3. Known(Settle(h[1..k], (k + 1) + 1), (k + 1) + 1)
    BY <2>1, <2>2, SettlesNode
  <2>4. h[1..(k + 1)] = Settle(h[1..k], (k + 1) + 1)
    BY <1>1, <2>1
  <2>5. QED
    BY <2>3, <2>4
<1>5. T = Nat
  <2>1. T \in SUBSET Nat
    OBVIOUS
  <2> HIDE DEF T
  <2>2. QED
    BY <1>3, <1>4, <2>1, AllNaturals
<1>6. Known(h[1..(n - 1)], n)
  BY <1>2, <1>5
<1>7. Settled(h[1..(n - 1)][n], n)
  <2>1. n \in 1..n
    BY <1>2
  <2>2. QED
    BY <1>6, <2>1 DEF Known
<1>8. QED
  BY <1>1, <1>7 DEF Settled
-----------------------------------------------------------------------------
(***************************************************************************)
(* The search and the scan.  Both learn the same tariff: what the search   *)
(* advises is in it, and so is what the scan has asked for; unless a       *)
(* lookup failed, the scan has a price for all of it that is sold.         *)
(***************************************************************************)
RideOf(p) == <<Points[p[1]], Points[p[2]]>>
Salable == {p \in Rides : MayBeSold(Points[p[1]], Points[p[2]])}

HintInv ==
  /\ at = "hint" \/ hint # NoHint => run[1].board /\ run[End].alight
  /\ probes \subseteq 2..(End - 1)
  /\ hint # NoHint =>
       /\ hint.at \in 2..(End - 1)
       /\ <<1, hint.at>> \in DOMAIN tariff /\ Sold(tariff[<<1, hint.at>>])
       /\ <<hint.at, End>> \in DOMAIN tariff /\ Sold(tariff[<<hint.at, End>>])
       /\ hint.total = tariff[<<1, hint.at>>] + tariff[<<hint.at, End>>]

ScanInv ==
  /\ pairs \subseteq Salable /\ DOMAIN prices \subseteq Salable
  /\ \A p \in DOMAIN prices : RideOf(p) \in DOMAIN tariff /\ prices[p] = tariff[RideOf(p)]
  /\ at \in {"scan", "done"} /\ ~ failed =>
       \A p \in Salable \ pairs :
         RideOf(p) \in DOMAIN tariff /\ (Sold(tariff[RideOf(p)]) => p \in DOMAIN prices)

Optimal ==
  LET n == Len(Points)
  IN IF ChainsTo(n) = {} THEN tickets = <<>>
     ELSE /\ tickets \in ChainsTo(n) /\ Len(tickets) <= n - 1
          /\ \A c \in ChainsTo(n) : Cost(tickets) <= Cost(c)

TicketsInv ==
  /\ run \in DirectRuns /\ maxPoints \in Limits
  /\ \A r \in DOMAIN tariff : tariff[r] \in Fares \cup {NotSold}
  /\ HintInv /\ ScanInv
  /\ at = "done" => pairs = {} /\ Optimal

(* What is learned adds to what is known.                                  *)
LEMMA LearnedAdds ==
  ASSUME NEW known, NEW p, NEW o
  PROVE  LET new == Learned(known, p, o)
         IN /\ DOMAIN known \subseteq DOMAIN new /\ DOMAIN new \subseteq DOMAIN known \cup {p}
            /\ \A q \in DOMAIN known : new[q] = known[q]
            /\ o # Failed => p \in DOMAIN new
            /\ o # Failed /\ p \notin DOMAIN known => new[p] = o
            /\ o = Failed => new = known
BY DEF Learned

(* A lookup finds what is known, or something a ticket may cost.           *)
LEMMA LookupAdds ==
  ASSUME \A r \in DOMAIN tariff : tariff[r] \in Fares \cup {NotSold},
         NEW p, NEW o \in Outcomes(p)
  PROVE  LET new == Learned(tariff, p, o)
         IN /\ DOMAIN tariff \subseteq DOMAIN new
            /\ \A q \in DOMAIN tariff : new[q] = tariff[q]
            /\ \A r \in DOMAIN new : new[r] \in Fares \cup {NotSold}
            /\ o # Failed => p \in DOMAIN new /\ new[p] = o
<1> DEFINE new == Learned(tariff, p, o)
<1>1. /\ DOMAIN tariff \subseteq DOMAIN new /\ DOMAIN new \subseteq DOMAIN tariff \cup {p}
      /\ \A q \in DOMAIN tariff : new[q] = tariff[q]
      /\ o # Failed => p \in DOMAIN new
      /\ o # Failed /\ p \notin DOMAIN tariff => new[p] = o
      /\ o = Failed => new = tariff
  BY LearnedAdds
<1> HIDE DEF new
<1>2. o # Failed => o \in Fares \cup {NotSold} /\ (p \in DOMAIN tariff => o = tariff[p])
  BY DEF Outcomes
<1>3. o # Failed => new[p] = o
  BY <1>1, <1>2
<1>4. ASSUME NEW r \in DOMAIN new PROVE new[r] \in Fares \cup {NotSold}
  BY <1>1, <1>2, <1>3
<1>5. QED
  BY <1>1, <1>3, <1>4 DEF new

(* The points and what is for sale depend on the train and the limit       *)
(* alone.                                                                  *)
LEMMA PointsStay ==
  ASSUME UNCHANGED <<run, maxPoints>>
  PROVE  Points' = Points /\ End' = End /\ Salable' = Salable /\ DirectRuns' = DirectRuns
<1>1. End' = End
  BY DEF End
<1>2. Usable' = Usable
  BY <1>1 DEF Usable
<1>3. Points' = Points
  BY <1>1, <1>2 DEF Points
<1>4. Rides' = Rides
  BY <1>3 DEF Rides
<1>5. Salable' = Salable
  BY <1>3, <1>4 DEF Salable, MayBeSold
<1>6. QED
  BY <1>1, <1>3, <1>5 DEF DirectRuns

(* A tariff that grows keeps what the invariant says.                      *)
LEMMA TariffGrows ==
  ASSUME TicketsInv, UNCHANGED <<run, maxPoints>>,
         DOMAIN tariff \subseteq DOMAIN tariff', \A q \in DOMAIN tariff : tariff'[q] = tariff[q]
  PROVE  /\ UNCHANGED <<hint, probes>> /\ (at' = "hint" => at = "hint") => HintInv'
         /\ UNCHANGED <<pairs, prices, failed>>
              /\ (at' \in {"scan", "done"} => at \in {"scan", "done"}) => ScanInv'
<1>1. Points' = Points /\ End' = End /\ Salable' = Salable
  BY PointsStay
<1>2. ASSUME UNCHANGED <<hint, probes>>, at' = "hint" => at = "hint" PROVE HintInv'
  <2>1. HintInv
    BY DEF TicketsInv
  <2>2. hint # NoHint =>
          /\ hint.at \in 2..(End - 1)
          /\ <<1, hint.at>> \in DOMAIN tariff' /\ Sold(tariff'[<<1, hint.at>>])
          /\ <<hint.at, End>> \in DOMAIN tariff' /\ Sold(tariff'[<<hint.at, End>>])
          /\ hint.total = tariff'[<<1, hint.at>>] + tariff'[<<hint.at, End>>]
    BY <2>1 DEF HintInv
  <2>3. at' = "hint" \/ hint # NoHint => run[1].board /\ run[End].alight
    BY <1>2, <2>1 DEF HintInv
  <2>4. probes \subseteq 2..(End - 1)
    BY <2>1 DEF HintInv
  <2>5. QED
    BY <1>1, <1>2, <2>2, <2>3, <2>4 DEF HintInv, Sold
<1>3. ASSUME UNCHANGED <<pairs, prices, failed>>,
             at' \in {"scan", "done"} => at \in {"scan", "done"}
      PROVE  ScanInv'
  <2>1. ScanInv
    BY DEF TicketsInv
  <2>2. pairs \subseteq Salable /\ DOMAIN prices \subseteq Salable
    BY <2>1 DEF ScanInv
  <2>3. \A p \in DOMAIN prices : RideOf(p) \in DOMAIN tariff' /\ prices[p] = tariff'[RideOf(p)]
    BY <2>1 DEF ScanInv
  <2>4. at' \in {"scan", "done"} /\ ~ failed =>
          \A p \in Salable \ pairs :
            RideOf(p) \in DOMAIN tariff' /\ (Sold(tariff'[RideOf(p)]) => p \in DOMAIN prices)
    BY <1>3, <2>1 DEF ScanInv
  <2>5. \A p : RideOf(p)' = RideOf(p)
    BY <1>1 DEF RideOf
  <2>6. QED
    BY <1>1, <1>3, <2>2, <2>3, <2>4, <2>5 DEF ScanInv, Sold
<1>4. QED
  BY <1>2, <1>3

(* Asking for one half of a split keeps the invariant.                     *)
LEMMA ProbeKeeps ==
  ASSUME TicketsInv, Probe
  PROVE  TicketsInv'
<1> DEFINE h == Min(probes)
<1>1. /\ at = "hint" /\ probes # {} /\ probes' = probes \ {h}
      /\ UNCHANGED <<run, maxPoints, at, pairs, prices, failed, tickets>>
  BY DEF Probe
<1>2. \E o \in Outcomes(<<1, h>>) :
        LET known == Learned(tariff, <<1, h>>, o)
        IN \/ ~ Sold(o) /\ tariff' = known /\ UNCHANGED hint
           \/ /\ Sold(o)
              /\ \E o2 \in Outcomes(<<h, End>>) :
                   /\ tariff' = Learned(known, <<h, End>>, o2)
                   /\ hint' = IF Sold(o2) /\ (hint = NoHint \/ o + o2 < hint.total)
                              THEN [total |-> o + o2, at |-> h] ELSE hint
  BY DEF Probe
<1>3. h \in probes /\ h \in 2..(End - 1) /\ End \in Nat
  <2>1. End \in Nat
    BY RunsHaveEnds DEF TicketsInv
  <2>2. probes \subseteq 2..(End - 1)
    BY DEF TicketsInv, HintInv
  <2>3. probes \in SUBSET Nat
    BY <2>1, <2>2
  <2>4. h \in probes
    BY <1>1, <2>3, MinIsLeast
  <2> HIDE DEF h
  <2>5. QED
    BY <2>1, <2>2, <2>4
<1> HIDE DEF h
<1>4. PICK o \in Outcomes(<<1, h>>) :
        \/ ~ Sold(o) /\ tariff' = Learned(tariff, <<1, h>>, o) /\ UNCHANGED hint
        \/ /\ Sold(o)
           /\ \E o2 \in Outcomes(<<h, End>>) :
                /\ tariff' = Learned(Learned(tariff, <<1, h>>, o), <<h, End>>, o2)
                /\ hint' = IF Sold(o2) /\ (hint = NoHint \/ o + o2 < hint.total)
                           THEN [total |-> o + o2, at |-> h] ELSE hint
  BY <1>2
<1>5. \A r \in DOMAIN tariff : tariff[r] \in Fares \cup {NotSold}
  BY DEF TicketsInv
<1> DEFINE known == Learned(tariff, <<1, h>>, o)
<1>6. /\ DOMAIN tariff \subseteq DOMAIN known
      /\ DOMAIN known \subseteq DOMAIN tariff \cup {<<1, h>>}
      /\ \A q \in DOMAIN tariff : known[q] = tariff[q]
      /\ \A r \in DOMAIN known : known[r] \in Fares \cup {NotSold}
      /\ o # Failed => <<1, h>> \in DOMAIN known /\ known[<<1, h>>] = o
  BY <1>5, LookupAdds, LearnedAdds
<1> HIDE DEF known
<1>7. Points' = Points /\ End' = End /\ DirectRuns' = DirectRuns
  BY <1>1, PointsStay
<1>8. HintInv
  BY DEF TicketsInv
<1>9. probes' \subseteq 2..(End - 1)
  BY <1>1, <1>8 DEF HintInv
<1>10. ASSUME DOMAIN tariff \subseteq DOMAIN tariff',
              \A q \in DOMAIN tariff : tariff'[q] = tariff[q],
              \A r \in DOMAIN tariff' : tariff'[r] \in Fares \cup {NotSold},
              \/ hint' = hint
              \/ /\ hint'.at = h /\ hint'.total = tariff'[<<1, h>>] + tariff'[<<h, End>>]
                 /\ <<1, h>> \in DOMAIN tariff' /\ Sold(tariff'[<<1, h>>])
                 /\ <<h, End>> \in DOMAIN tariff' /\ Sold(tariff'[<<h, End>>])
       PROVE  TicketsInv'
  <2>1. ScanInv'
    BY <1>1, <1>10, TariffGrows
  <2>2. run[1].board /\ run[End].alight
    BY <1>1, <1>8 DEF HintInv
  <2>3. hint' # NoHint =>
          /\ hint'.at \in 2..(End - 1)
          /\ <<1, hint'.at>> \in DOMAIN tariff' /\ Sold(tariff'[<<1, hint'.at>>])
          /\ <<hint'.at, End>> \in DOMAIN tariff' /\ Sold(tariff'[<<hint'.at, End>>])
          /\ hint'.total = tariff'[<<1, hint'.at>>] + tariff'[<<hint'.at, End>>]
    <3>1. CASE hint' = hint
      BY <1>8, <1>10, <3>1 DEF HintInv
    <3>2. CASE hint' # hint
      BY <1>3, <1>10, <3>2
    <3>3. QED
      BY <3>1, <3>2
  <2>4. HintInv'
    BY <1>1, <1>7, <1>9, <2>2, <2>3 DEF HintInv, Sold, NoHint
  <2>5. run' \in DirectRuns' /\ maxPoints' \in Limits
    BY <1>1, <1>7 DEF TicketsInv
  <2>6. at' # "done"
    BY <1>1
  <2>7. QED
    BY <1>10, <2>1, <2>4, <2>5, <2>6 DEF TicketsInv, NotSold
<1>11. CASE ~ Sold(o) /\ tariff' = known /\ UNCHANGED hint
  BY <1>6, <1>10, <1>11
<1>12. ASSUME Sold(o), NEW o2 \in Outcomes(<<h, End>>),
              tariff' = Learned(known, <<h, End>>, o2),
              hint' = IF Sold(o2) /\ (hint = NoHint \/ o + o2 < hint.total)
                      THEN [total |-> o + o2, at |-> h] ELSE hint
       PROVE  TicketsInv'
  <2> DEFINE r1 == <<1, h>>
             r2 == <<h, End>>
  <2>1. r1 # r2
    BY <1>3
  <2>2. /\ DOMAIN known \subseteq DOMAIN tariff' /\ DOMAIN tariff' \subseteq DOMAIN known \cup {r2}
        /\ \A q \in DOMAIN known : tariff'[q] = known[q]
        /\ o2 # Failed => r2 \in DOMAIN tariff'
        /\ o2 # Failed /\ r2 \notin DOMAIN known => tariff'[r2] = o2
        /\ o2 = Failed => tariff' = known
    BY <1>12, LearnedAdds
  <2>3. o2 # Failed => o2 \in Fares \cup {NotSold} /\ (r2 \in DOMAIN tariff => o2 = tariff[r2])
    BY <1>5 DEF Outcomes
  <2> HIDE DEF r1, r2
  <2>4. o # Failed
    BY <1>12 DEF Sold
  <2>5. o2 # Failed => tariff'[r2] = o2
    <3>1. CASE r2 \in DOMAIN known
      <4>1. r2 \in DOMAIN tariff
        BY <1>6, <2>1, <3>1 DEF r1
      <4>2. QED
        BY <1>6, <2>2, <2>3, <4>1
    <3>2. CASE r2 \notin DOMAIN known
      BY <2>2, <3>2
    <3>3. QED
      BY <3>1, <3>2
  <2>6. \A r \in DOMAIN tariff' : tariff'[r] \in Fares \cup {NotSold}
    BY <1>6, <2>2, <2>3, <2>5
  <2>7. DOMAIN tariff \subseteq DOMAIN tariff' /\ \A q \in DOMAIN tariff : tariff'[q] = tariff[q]
    BY <1>6, <2>2
  <2>8. r1 \in DOMAIN tariff' /\ tariff'[r1] = o
    BY <1>6, <2>2, <2>4 DEF r1
  <2>9. CASE hint' = hint
    BY <1>10, <2>6, <2>7, <2>9
  <2>10. CASE hint' # hint
    <3>1. Sold(o2) /\ hint'.total = o + o2 /\ hint'.at = h
      BY <1>12, <2>10
    <3>2. r2 \in DOMAIN tariff' /\ tariff'[r2] = o2
      BY <2>2, <2>5, <3>1 DEF Sold
    <3>3. /\ hint'.at = h /\ hint'.total = tariff'[r1] + tariff'[r2]
          /\ r1 \in DOMAIN tariff' /\ Sold(tariff'[r1])
          /\ r2 \in DOMAIN tariff' /\ Sold(tariff'[r2])
      BY <1>12, <2>8, <3>1, <3>2
    <3>4. QED
      BY <1>10, <2>6, <2>7, <3>3 DEF r1, r2
  <2>11. QED
    BY <2>9, <2>10
<1>13. QED
  BY <1>4, <1>11, <1>12 DEF known

(* Asking for one pair of the scan keeps the invariant.                    *)
LEMMA AskKeeps ==
  ASSUME TicketsInv, NEW p, Ask(p)
  PROVE  TicketsInv'
<1> DEFINE ride == RideOf(p)
<1>1. /\ at = "scan" /\ p \in pairs /\ pairs' = pairs \ {p}
      /\ UNCHANGED <<run, maxPoints, at, probes, hint, tickets>>
  BY DEF Ask
<1>2. PICK o \in Outcomes(ride) :
        /\ tariff' = Learned(tariff, ride, o)
        /\ prices' = IF Sold(o) THEN Learned(prices, p, o) ELSE prices
        /\ failed' = (failed \/ o = Failed)
  BY DEF Ask, RideOf
<1>3. /\ DOMAIN tariff \subseteq DOMAIN tariff'
      /\ \A q \in DOMAIN tariff : tariff'[q] = tariff[q]
      /\ \A r \in DOMAIN tariff' : tariff'[r] \in Fares \cup {NotSold}
      /\ o # Failed => ride \in DOMAIN tariff' /\ tariff'[ride] = o
  BY <1>2, LookupAdds DEF TicketsInv
<1>4. /\ DOMAIN prices \subseteq DOMAIN prices'
      /\ DOMAIN prices' \subseteq DOMAIN prices \cup {p}
      /\ \A q \in DOMAIN prices : prices'[q] = prices[q]
      /\ Sold(o) => p \in DOMAIN prices' /\ (p \notin DOMAIN prices => prices'[p] = o)
      /\ ~ Sold(o) => prices' = prices
  BY <1>2, LearnedAdds DEF Sold
<1>5. Points' = Points /\ Salable' = Salable /\ DirectRuns' = DirectRuns
  BY <1>1, PointsStay
<1>6. ScanInv
  BY DEF TicketsInv
<1> HIDE DEF ride
<1>7. pairs' \subseteq Salable /\ DOMAIN prices' \subseteq Salable
  BY <1>1, <1>4, <1>6 DEF ScanInv
<1>8. ASSUME NEW q \in DOMAIN prices'
      PROVE  RideOf(q) \in DOMAIN tariff' /\ prices'[q] = tariff'[RideOf(q)]
  <2>1. CASE q \in DOMAIN prices
    BY <1>3, <1>4, <1>6, <2>1 DEF ScanInv
  <2>2. CASE q \notin DOMAIN prices
    BY <1>3, <1>4, <2>2 DEF Sold, ride
  <2>3. QED
    BY <2>1, <2>2
<1>9. ASSUME ~ failed', NEW q \in Salable \ pairs'
      PROVE  /\ RideOf(q) \in DOMAIN tariff'
             /\ Sold(tariff'[RideOf(q)]) => q \in DOMAIN prices'
  <2>1. o # Failed /\ ~ failed
    BY <1>2, <1>9
  <2>2. CASE q = p
    BY <1>3, <1>4, <2>1, <2>2 DEF ride
  <2>3. CASE q # p
    <3>1. q \in Salable \ pairs
      BY <1>1, <1>9, <2>3
    <3>2. RideOf(q) \in DOMAIN tariff /\ (Sold(tariff[RideOf(q)]) => q \in DOMAIN prices)
      BY <1>1, <1>6, <2>1, <3>1 DEF ScanInv
    <3>3. QED
      BY <1>3, <1>4, <3>2
  <2>4. QED
    BY <2>2, <2>3
<1>10. \A q : RideOf(q)' = RideOf(q)
  BY <1>5 DEF RideOf
<1>11. ScanInv'
  BY <1>5, <1>7, <1>8, <1>9, <1>10 DEF ScanInv, Sold
<1>12. HintInv'
  BY <1>1, <1>3, TariffGrows
<1>13. run' \in DirectRuns' /\ maxPoints' \in Limits /\ at' # "done"
  BY <1>1, <1>5 DEF TicketsInv
<1>14. QED
  BY <1>3, <1>11, <1>12, <1>13 DEF TicketsInv, NotSold

(* What the scan has found leads forward.                                  *)
LEMMA FoundLeadsForward ==
  ASSUME TicketsInv
  PROVE  Forward(Len(Points)) /\ Len(Points) >= 2
<1> DEFINE n == Len(Points)
<1>1. n \in Nat /\ n >= 2 /\ DOMAIN Points = 1..n
  BY PointsSpan DEF TicketsInv
<1>2. ASSUME NEW p \in DOMAIN prices
      PROVE  p \in (1..n) \X (1..n) /\ p[1] < p[2] /\ prices[p] \in Nat
  <2>1. p \in Rides
    BY <1>2 DEF TicketsInv, ScanInv, Salable
  <2>2. prices[p] = tariff[RideOf(p)] /\ RideOf(p) \in DOMAIN tariff
    BY <1>2 DEF TicketsInv, ScanInv
  <2>3. tariff[RideOf(p)] \in Fares \cup {0}
    BY <2>2 DEF TicketsInv, NotSold
  <2> HIDE DEF n
  <2>4. p \in (1..n) \X (1..n) /\ p[1] < p[2]
    BY <1>1, <2>1 DEF Rides
  <2>5. prices[p] \in Nat
    <3>1. prices[p] \in Fares \/ prices[p] = 0
      BY <2>2, <2>3
    <3>2. Fares \subseteq Nat
      BY FaresAssumption
    <3>3. CASE prices[p] \in Fares
      BY <3>2, <3>3
    <3>4. CASE prices[p] = 0
      BY <3>4
    <3>5. QED
      BY <3>1, <3>3, <3>4
  <2>6. QED
    BY <2>4, <2>5
<1>3. QED
  BY <1>1, <1>2 DEF Forward

(* Nothing that leads anywhere changes while the prices do not.            *)
LEMMA OptimalStays ==
  ASSUME UNCHANGED <<run, maxPoints, prices>>
  PROVE  /\ Points' = Points
         /\ \A j : ChainsTo(j)' = ChainsTo(j)
         /\ \A c : Cost(c)' = Cost(c)
<1>1. Points' = Points
  BY PointsStay
<1>2. \A j : ChainsTo(j)' = ChainsTo(j)
  BY DEF ChainsTo
<1>3. \A c : Cost(c)' = Cost(c)
  BY DEF Cost
<1>4. QED
  BY <1>1, <1>2, <1>3

(* The tickets are the cheapest there are.                                 *)
LEMMA SolveKeeps ==
  ASSUME TicketsInv, Solve
  PROVE  TicketsInv'
<1> DEFINE n == Len(Points)
<1>1. /\ at = "scan" /\ pairs = {} /\ at' = "done" /\ tickets' = BestChain(n)
      /\ UNCHANGED <<run, maxPoints, tariff, probes, hint, pairs, prices, failed>>
  BY DEF Solve
<1>2. Forward(n) /\ n >= 2
  BY FoundLeadsForward
<1>3. /\ Points' = Points
      /\ \A j : ChainsTo(j)' = ChainsTo(j)
      /\ \A c : Cost(c)' = Cost(c)
  BY <1>1, OptimalStays
<1>4. HintInv' /\ ScanInv'
  BY <1>1, TariffGrows
<1>5. IF ChainsTo(n) = {} THEN BestChain(n) = <<>>
      ELSE /\ BestChain(n) \in ChainsTo(n) /\ Len(BestChain(n)) <= n - 1
           /\ \A c \in ChainsTo(n) : Cost(BestChain(n)) <= Cost(c)
  <2> HIDE DEF n
  <2>1. QED
    BY <1>2, PassIsBest
<1>6. Optimal'
  <2>1. (Len(Points))' = n
    BY <1>3
  <2>2. ChainsTo(n)' = ChainsTo(n)
    BY <1>3
  <2> DEFINE m == Len(Points)
  <2>3. Optimal' = (IF ChainsTo(n) = {} THEN tickets' = <<>>
                    ELSE /\ tickets' \in ChainsTo(n) /\ Len(tickets') <= n - 1
                         /\ \A c \in ChainsTo(n) : Cost(tickets') <= Cost(c))
    BY <1>3, <2>1, <2>2, <1>1 DEF Optimal, ChainsTo, Leads, Cost
  <2>4. QED
    BY <1>1, <1>5, <2>3
<1>7. /\ run' \in DirectRuns' /\ maxPoints' \in Limits
      /\ \A r \in DOMAIN tariff' : tariff'[r] \in Fares \cup {NotSold}
  BY <1>1, PointsStay DEF TicketsInv
<1>8. QED
  BY <1>1, <1>4, <1>6, <1>7 DEF TicketsInv, NotSold

(* The search looks at a ride whose ends may be used.                      *)
LEMMA ShowKeeps ==
  ASSUME TicketsInv, Show
  PROVE  TicketsInv'
<1>1. /\ at = "train" /\ tariff = << >> /\ run[1].board /\ run[End].alight
      /\ at' = "hint" /\ probes' = HubsToTry
      /\ UNCHANGED <<run, maxPoints, hint, pairs, prices, failed, tickets>>
  BY DEF Show
<1>2. PICK fare \in Fares : tariff' = Learned(tariff, <<1, End>>, fare)
  BY DEF Show
<1>3. fare \in Outcomes(<<1, End>>)
  BY <1>1 DEF Outcomes
<1>4. /\ DOMAIN tariff \subseteq DOMAIN tariff'
      /\ \A q \in DOMAIN tariff : tariff'[q] = tariff[q]
      /\ \A r \in DOMAIN tariff' : tariff'[r] \in Fares \cup {NotSold}
  BY <1>2, <1>3, LookupAdds DEF TicketsInv
<1>5. ScanInv'
  BY <1>1, <1>4, TariffGrows
<1>6. Points' = Points /\ End' = End /\ DirectRuns' = DirectRuns
  BY <1>1, PointsStay
<1>7. hint = NoHint
  BY <1>1 DEF TicketsInv, HintInv
<1>8. HubsToTry \subseteq 2..(End - 1)
  BY DEF HubsToTry
<1>9. HintInv'
  BY <1>1, <1>6, <1>7, <1>8 DEF HintInv, NoHint
<1>10. run' \in DirectRuns' /\ maxPoints' \in Limits
  BY <1>1, <1>6 DEF TicketsInv
<1>11. QED
  BY <1>1, <1>4, <1>5, <1>9, <1>10 DEF TicketsInv, NotSold

(* What is shown in the end has been found.                                *)
LEMMA AdviseKeeps ==
  ASSUME TicketsInv, Advise
  PROVE  TicketsInv'
<1>1. /\ at = "hint" /\ at' = "train" /\ (hint' = hint \/ hint' = NoHint)
      /\ UNCHANGED <<run, maxPoints, tariff, probes, pairs, prices, failed, tickets>>
  BY DEF Advise
<1>2. ScanInv'
  BY <1>1, TariffGrows
<1>3. Points' = Points /\ End' = End /\ DirectRuns' = DirectRuns
  BY <1>1, PointsStay
<1>4. HintInv'
  <2>1. HintInv
    BY DEF TicketsInv
  <2>2. CASE hint' = hint
    BY <1>1, <1>3, <2>1, <2>2 DEF HintInv, Sold, NoHint
  <2>3. CASE hint' = NoHint
    BY <1>1, <1>3, <2>1, <2>3 DEF HintInv, NoHint
  <2>4. QED
    BY <1>1, <2>2, <2>3
<1>5. QED
  BY <1>1, <1>2, <1>3, <1>4 DEF TicketsInv, NotSold

(* The scan begins with every pair that may be sold.                       *)
LEMMA ScanKeeps ==
  ASSUME TicketsInv, Scan
  PROVE  TicketsInv'
<1>1. /\ at = "train" /\ at' = "scan" /\ pairs' = Salable
      /\ UNCHANGED <<run, maxPoints, tariff, probes, hint, prices, failed, tickets>>
  BY DEF Scan, Salable
<1>2. Points' = Points /\ Salable' = Salable /\ DirectRuns' = DirectRuns
  BY <1>1, PointsStay
<1>3. HintInv'
  BY <1>1, TariffGrows
<1>4. \A p : RideOf(p)' = RideOf(p)
  BY <1>2 DEF RideOf
<1>5. ScanInv'
  <2>1. ScanInv
    BY DEF TicketsInv
  <2>2. Salable \ pairs' = {}
    BY <1>1
  <2>3. DOMAIN prices \subseteq Salable
        /\ \A p \in DOMAIN prices : RideOf(p) \in DOMAIN tariff /\ prices[p] = tariff[RideOf(p)]
    BY <2>1 DEF ScanInv
  <2>4. QED
    BY <1>1, <1>2, <1>4, <2>2, <2>3 DEF ScanInv
<1>6. QED
  BY <1>1, <1>2, <1>3, <1>5 DEF TicketsInv, NotSold

(* Nothing changes.                                                        *)
LEMMA StandstillKeeps ==
  ASSUME TicketsInv, UNCHANGED vars
  PROVE  TicketsInv'
<1>1. UNCHANGED <<run, maxPoints, tariff, at, probes, hint, pairs, prices, failed, tickets>>
  BY DEF vars
<1>2. HintInv' /\ ScanInv'
  BY <1>1, TariffGrows
<1>3. Optimal' = Optimal
  BY <1>1, PointsStay DEF Optimal, ChainsTo, Leads, Cost
<1>4. QED
  BY <1>1, <1>2, <1>3, PointsStay DEF TicketsInv, NotSold

(* The invariant holds at the start,                                       *)
LEMMA TicketsInit == Init => TicketsInv
<1> SUFFICES ASSUME Init PROVE TicketsInv
  OBVIOUS
<1>1. HintInv /\ ScanInv
  BY DEF Init, HintInv, ScanInv, NoHint
<1>2. QED
  BY <1>1 DEF Init, TicketsInv

(* every step keeps it,                                                    *)
LEMMA TicketsStep == TicketsInv /\ [Next]_vars => TicketsInv'
<1> SUFFICES ASSUME TicketsInv, [Next]_vars PROVE TicketsInv'
  OBVIOUS
<1>1. CASE Show
  BY <1>1, ShowKeeps
<1>2. CASE Probe
  BY <1>2, ProbeKeeps
<1>3. CASE Advise
  BY <1>3, AdviseKeeps
<1>4. CASE Scan
  BY <1>4, ScanKeeps
<1>5. CASE Solve
  BY <1>5, SolveKeeps
<1>6. ASSUME NEW p \in Rides, Ask(p) PROVE TicketsInv'
  BY <1>6, AskKeeps
<1>7. CASE UNCHANGED vars
  BY <1>7, StandstillKeeps
<1>8. QED
  BY <1>1, <1>2, <1>3, <1>4, <1>5, <1>6, <1>7 DEF Next

(* and it always holds.                                                    *)
LEMMA TicketsAlways == Spec => []TicketsInv
BY TicketsInit, TicketsStep, PTL DEF Spec
-----------------------------------------------------------------------------
(***************************************************************************)
(* The theorems.                                                           *)
(***************************************************************************)
(* No tickets the scan has found cover the train for less than those it    *)
(* shows, and it shows none only where none cover it: best_chain is the    *)
(* optimum over every number of breaks, whatever the trains, the limits on *)
(* points and the fares.                                                   *)
THEOREM TicketsAreOptimal == Spec => []TicketsAreCheapest
<1>1. TicketsInv => TicketsAreCheapest
  <2> SUFFICES ASSUME TicketsInv, at = "done" PROVE TicketsAreCheapest
    BY DEF TicketsAreCheapest
  <2> DEFINE n == Len(Points)
  <2>1. Forward(n) /\ n >= 2
    BY FoundLeadsForward
  <2>2. n \in Nat
    BY <2>1 DEF Forward
  <2>3. Optimal
    BY DEF TicketsInv
  <2>4. Chains = {c \in SeqOf(DOMAIN prices, n - 1) : c # <<>> /\ Leads(c, n)}
    BY DEF Chains
  <2>5. \A c \in Chains : c \in ChainsTo(n)
    <3>1. ASSUME NEW c \in SeqOf(DOMAIN prices, n - 1) PROVE c \in Seq(DOMAIN prices)
      <4>1. PICK m \in 0..(n - 1) : c \in [1..m -> DOMAIN prices]
        BY <3>1 DEF SeqOf
      <4> HIDE DEF n
      <4>2. m \in Nat
        BY <2>2, <4>1
      <4>3. QED
        BY <4>1, <4>2
    <3> HIDE DEF n
    <3>2. QED
      BY <2>4, <3>1 DEF ChainsTo
  <2>6. ChainsTo(n) # {} => tickets \in Chains
    <3> SUFFICES ASSUME ChainsTo(n) # {} PROVE tickets \in Chains
      OBVIOUS
    <3>1. tickets \in ChainsTo(n) /\ Len(tickets) <= n - 1
      BY <2>3 DEF Optimal
    <3> HIDE DEF n
    <3>2. tickets \in Seq(DOMAIN prices) /\ tickets # <<>> /\ Leads(tickets, n)
      BY <2>1, <2>2, <3>1 DEF ChainsTo
    <3>3. Len(tickets) \in 0..(n - 1) /\ tickets \in [1..Len(tickets) -> DOMAIN prices]
      BY <2>2, <3>1, <3>2
    <3>4. tickets \in SeqOf(DOMAIN prices, n - 1)
      BY <3>3 DEF SeqOf
    <3>5. QED
      BY <2>4, <3>2, <3>4
  <2>7. CASE Chains = {}
    BY <2>3, <2>6, <2>7 DEF Optimal, TicketsAreCheapest
  <2>8. CASE Chains # {}
    <3>1. ChainsTo(n) # {}
      BY <2>5, <2>8
    <3>2. tickets \in ChainsTo(n) /\ \A c \in Chains : Cost(tickets) <= Cost(c)
      BY <2>3, <2>5, <3>1 DEF Optimal
    <3>3. ASSUME NEW t \in ToSet(tickets)
          PROVE  run[Points[t[1]]].board /\ run[Points[t[2]]].alight
      <4>1. t \in DOMAIN prices
        BY <3>2, <3>3 DEF ToSet, ChainsTo
      <4>2. MayBeSold(Points[t[1]], Points[t[2]])
        BY <4>1 DEF TicketsInv, ScanInv, Salable
      <4>3. QED
        BY <4>2 DEF MayBeSold
    <3>4. QED
      BY <2>6, <2>8, <3>1, <3>2, <3>3 DEF TicketsAreCheapest
  <2>9. QED
    BY <2>7, <2>8
<1>2. QED
  BY <1>1, TicketsAlways, PTL

(* The scan answers no worse than the advice of a search for the same      *)
(* train, if it covers the advised break and no lookup failed: the two     *)
(* halves are among the pairs it asks for, and two tickets are one of the  *)
(* ways to cover the train.                                                *)
THEOREM ScanIsNoWorse == Spec => []ScanBeatsHint
<1>1. TicketsInv => ScanBeatsHint
  <2> SUFFICES ASSUME TicketsInv, at = "done", hint # NoHint, ~ failed,
                      hint.at \in ToSet(Points)
               PROVE  tickets # <<>> /\ Cost(tickets) <= hint.total
    BY DEF ScanBeatsHint
  <2> DEFINE n == Len(Points)
  <2>1. Forward(n) /\ n >= 2
    BY FoundLeadsForward
  <2>2. /\ n \in Nat /\ DOMAIN Points = 1..n /\ Points[1] = 1 /\ Points[n] = End
        /\ \A k \in 2..(n - 1) : Points[k] \in Usable
    BY PointsSpan DEF TicketsInv
  <2>3. HintInv /\ ScanInv /\ Optimal /\ pairs = {}
    BY DEF TicketsInv
  <2>4. /\ run[1].board /\ run[End].alight /\ hint.at \in 2..(End - 1)
        /\ <<1, hint.at>> \in DOMAIN tariff /\ Sold(tariff[<<1, hint.at>>])
        /\ <<hint.at, End>> \in DOMAIN tariff /\ Sold(tariff[<<hint.at, End>>])
        /\ hint.total = tariff[<<1, hint.at>>] + tariff[<<hint.at, End>>]
    BY <2>3 DEF HintInv
  <2>5. End \in Nat
    BY RunsHaveEnds DEF TicketsInv
  <2>6. PICK k \in 1..n : Points[k] = hint.at
    BY <2>2 DEF ToSet
  <2> HIDE DEF n
  <2>7. k \in 2..(n - 1)
    <3>1. hint.at # 1 /\ hint.at # End
      BY <2>4, <2>5
    <3>2. QED
      BY <2>1, <2>2, <2>6, <3>1
  <2>8. run[hint.at].board /\ run[hint.at].alight
    BY <2>2, <2>6, <2>7 DEF Usable
  <2> DEFINE p == <<1, k>>
             q == <<k, n>>
  <2>9. /\ p \in Rides /\ RideOf(p) = <<1, hint.at>>
        /\ q \in Rides /\ RideOf(q) = <<hint.at, End>>
    <3>1. 1 \in 1..n /\ k \in 1..n /\ n \in 1..n /\ 1 < k /\ k < n
      BY <2>1, <2>2, <2>7
    <3>2. p \in Rides /\ q \in Rides
      BY <2>2, <3>1 DEF Rides
    <3>3. QED
      BY <2>2, <2>6, <3>2 DEF RideOf
  <2>10. p \in Salable /\ q \in Salable
    BY <2>2, <2>4, <2>6, <2>8, <2>9 DEF Salable, MayBeSold
  <2>11. /\ p \in DOMAIN prices /\ prices[p] = tariff[<<1, hint.at>>]
         /\ q \in DOMAIN prices /\ prices[q] = tariff[<<hint.at, End>>]
    <3> HIDE DEF p, q
    <3>1. p \in Salable \ pairs /\ q \in Salable \ pairs
      BY <2>3, <2>10
    <3>2. p \in DOMAIN prices /\ q \in DOMAIN prices
      BY <2>3, <2>4, <2>9, <3>1 DEF ScanInv
    <3>3. QED
      BY <2>3, <2>9, <3>2 DEF ScanInv
  <2> DEFINE one == Append(<<>>, p)
             two == Append(one, q)
  <2>12. <<>> \in ChainsTo(1)
    BY DEF ChainsTo
  <2>13. one \in ChainsTo(k)
    BY <2>11, <2>12, NextTicket
  <2> HIDE DEF one
  <2>14. two \in ChainsTo(n)
    BY <2>11, <2>13, NextTicket
  <2>15. Cost(two) = hint.total
    <3> HIDE DEF p, q
    <3>1. Cost(one) = Cost(<<>>) + prices[p]
      <4> DEFINE none == <<>>
      <4>1. none \in Seq(DOMAIN prices) /\ one = Append(none, p) /\ p \in DOMAIN prices
        BY <2>11 DEF one
      <4> HIDE DEF none
      <4>2. Cost(one) = Cost(none) + prices[p]
        BY <2>1, <4>1, TicketsAdd
      <4>3. QED
        BY <4>2 DEF none
    <3>2. one \in Seq(DOMAIN prices)
      BY <2>13 DEF ChainsTo
    <3>3. Cost(two) = Cost(one) + prices[q]
      BY <2>1, <2>11, <3>2, TicketsAdd
    <3>4. prices[p] \in Nat /\ prices[q] \in Nat
      BY <2>1, <2>11 DEF Forward
    <3>5. Cost(<<>>) = 0
      BY NoTicketsCostNothing
    <3>6. QED
      BY <2>4, <2>11, <3>1, <3>3, <3>4, <3>5
  <2> HIDE DEF two
  <2>16. tickets \in ChainsTo(n) /\ Cost(tickets) <= Cost(two)
    BY <2>3, <2>14 DEF Optimal, n
  <2>17. tickets # <<>>
    BY <2>1, <2>2, <2>16 DEF ChainsTo
  <2>18. QED
    BY <2>15, <2>16, <2>17
<1>2. QED
  BY <1>1, TicketsAlways, PTL
=============================================================================
