------------------------------ MODULE FeedProofs ------------------------------
(***************************************************************************)
(* What holds of the timetable built from a feed, for any feed and date:   *)
(* every ride it offers is one a vehicle makes, and none is lost.          *)
(*                                                                         *)
(* The argument goes along the rows of a trip.  Merged calls are groups of *)
(* consecutive rows at one station; the first row of a group is where one  *)
(* alights, the last where one boards.                                     *)
(***************************************************************************)
EXTENDS Feed, FoldTheorems

-----------------------------------------------------------------------------
(***************************************************************************)
(* The calls of a trip.                                                    *)
(***************************************************************************)
CallSet == [sequence : Nat, station : Stations, arrival : Nat, departure : Nat,
            noBoard : BOOLEAN, noAlight : BOOLEAN]

(* The call a row is merged into.                                          *)
Prolonged(c, e) == [c EXCEPT !.departure = e.departure, !.noBoard = e.noBoard]

(* One more at the end of a sequence.                                      *)
LEMMA OneMore ==
  ASSUME NEW S, NEW s \in Seq(S), NEW x \in S
  PROVE  /\ s \o <<x>> \in Seq(S) /\ Len(s \o <<x>>) = Len(s) + 1
         /\ \A i \in 1..Len(s) : (s \o <<x>>)[i] = s[i]
         /\ (s \o <<x>>)[Len(s) + 1] = x
OBVIOUS

(* All that is in either of two sequences is in their concatenation.       *)
Occurs(s, u) == \A i \in DOMAIN s : \E k \in DOMAIN u : u[k] = s[i]

(* Concatenation loses nothing.                                            *)
LEMMA Joined ==
  ASSUME NEW S, NEW s \in Seq(S), NEW u \in Seq(S)
  PROVE  s \o u \in Seq(S) /\ Occurs(s, s \o u) /\ Occurs(u, s \o u)
<1>1. /\ s \o u \in Seq(S) /\ DOMAIN (s \o u) = 1..(Len(s) + Len(u))
      /\ DOMAIN s = 1..Len(s) /\ DOMAIN u = 1..Len(u)
      /\ Len(s) \in Nat /\ Len(u) \in Nat
  OBVIOUS
<1>2. ASSUME NEW i \in 1..Len(s) PROVE \E k \in DOMAIN (s \o u) : (s \o u)[k] = s[i]
  <2>1. i \in 1..(Len(s) + Len(u))
    BY <1>1
  <2>2. (s \o u)[i] = s[i]
    BY <1>1
  <2>3. QED
    BY <1>1, <2>1, <2>2
<1>3. ASSUME NEW i \in 1..Len(u) PROVE \E k \in DOMAIN (s \o u) : (s \o u)[k] = u[i]
  <2>1. Len(s) + i \in 1..(Len(s) + Len(u))
    BY <1>1
  <2>2. (s \o u)[Len(s) + i] = u[i]
    BY <1>1
  <2>3. QED
    BY <1>1, <2>1, <2>2
<1>4. QED
  BY <1>1, <1>2, <1>3 DEF Occurs

(* A row prolongs the last call or is a call of its own.                   *)
LEMMA MergeAdds ==
  ASSUME NEW c \in Seq(CallSet), NEW e \in CallSet
  PROVE  /\ Merge(c, e) \in Seq(CallSet)
         /\ \/ /\ Len(c) > 0 /\ c[Len(c)].station = e.station
               /\ Merge(c, e) = [c EXCEPT ![Len(c)] = Prolonged(c[Len(c)], e)]
            \/ Merge(c, e) = Append(c, e)
<1>1. CASE c # <<>> /\ Last(c).station = e.station
  <2> DEFINE n == Len(c)
             p == Prolonged(c[n], e)
  <2>1. n \in Nat /\ n > 0 /\ c \in [1..n -> CallSet] /\ c[n] \in CallSet
    BY <1>1
  <2>2. p \in CallSet
    BY <2>1 DEF CallSet, Prolonged
  <2>3. Merge(c, e) = SubSeq(c, 1, n - 1) \o <<p>>
    BY <1>1 DEF Merge, Last, Front, Prolonged
  <2> HIDE DEF p
  <2> DEFINE f == SubSeq(c, 1, n - 1)
             m == f \o <<p>>
  <2>4. f \in Seq(CallSet) /\ Len(f) = n - 1 /\ \A i \in 1..(n - 1) : f[i] = c[i]
    BY <2>1
  <2> HIDE DEF f
  <2>more. /\ m \in Seq(CallSet) /\ Len(m) = Len(f) + 1
           /\ \A i \in 1..Len(f) : m[i] = f[i]
           /\ m[Len(f) + 1] = p
    BY <2>2, <2>4, OneMore
  <2> HIDE DEF m
  <2>5. m \in Seq(CallSet) /\ Len(m) = n /\ m[n] = p /\ \A i \in 1..(n - 1) : m[i] = c[i]
    BY <2>1, <2>4, <2>more
  <2> DEFINE d == [c EXCEPT ![n] = p]
  <2>6. d \in Seq(CallSet) /\ Len(d) = n
    BY <2>1, <2>2
  <2>7. ASSUME NEW i \in 1..n PROVE m[i] = d[i]
    <3>1. CASE i = n
      BY <2>1, <2>5, <3>1
    <3>2. CASE i # n
      <4>1. i \in 1..(n - 1)
        <5>1. n \in Nat
          BY <2>1
        <5> HIDE DEF n
        <5>2. QED
          BY <3>2, <5>1
      <4>2. QED
        BY <2>1, <2>5, <3>2, <4>1
    <3>3. QED
      BY <3>1, <3>2
  <2>same. m = d
    <3> HIDE DEF m, d
    <3>1. m = [i \in 1..n |-> m[i]] /\ d = [i \in 1..n |-> d[i]]
      BY <2>1, <2>5, <2>6
    <3>2. QED
      BY <2>7, <3>1
  <2>8. QED
    BY <1>1, <2>1, <2>3, <2>5, <2>same DEF Last, p, m, f
<1>2. CASE ~ (c # <<>> /\ Last(c).station = e.station)
  BY <1>2 DEF Merge
<1>3. QED
  BY <1>1, <1>2

(* _dedupe_consecutive: the steps of its loop.                             *)
LEMMA MergingUnfolds ==
  ASSUME NEW n \in Nat, NEW E \in [1..n -> CallSet]
  PROVE  \E h : /\ FoldLeft(Merge, <<>>, E) = h[1..n]
                /\ h[1..0] = <<>>
                /\ \A k \in Nat : k < n => h[1..(k + 1)] = Merge(h[1..k], E[k + 1])
<1> DEFINE V == Seq(CallSet)
           st == [q \in V \X (1..n) |-> Merge(q[1], E[q[2]])]
<1>1. \A v \in V : \A i \in 1..n : st[<<v, i>>] = Merge(v, E[i]) /\ st[<<v, i>>] \in V
  BY MergeAdds
<1>2. <<>> \in V
  OBVIOUS
<1> HIDE DEF V, st
<1>3. PICK f : IsFold(f, n, <<>>, st) /\ \A s \in SUBSET (1..n) : f[s] \in V
  BY <1>1, <1>2, FoldExists
<1> DEFINE IsPass(h) ==
             h = [s \in SUBSET (1..n) |->
                    IF s = {} THEN <<>> ELSE Merge(h[s \ {Max(s)}], E[Max(s)])]
<1>4. ASSUME NEW s \in SUBSET (1..n), s # {}
      PROVE  Max(s) \in 1..n /\ s \ {Max(s)} \in SUBSET (1..n)
  <2>1. s \in SUBSET (0..n)
    OBVIOUS
  <2>2. Max(s) \in s
    BY <1>4, <2>1, MaxIsGreatest
  <2>3. QED
    BY <2>2
<1>5. IsPass(f)
  <2>1. \A s \in SUBSET (1..n) :
          s # {} => st[<<f[s \ {Max(s)}], Max(s)>>] = Merge(f[s \ {Max(s)}], E[Max(s)])
    BY <1>1, <1>3, <1>4
  <2>2. QED
    BY <1>3, <2>1 DEF IsFold
<1>6. PICK h : IsPass(h) /\ FoldLeft(Merge, <<>>, E) = h[1..n]
  BY <1>5 DEF FoldLeft, MapThenFoldSet
<1>7. \A s \in SUBSET (1..n) :
        h[s] = IF s = {} THEN <<>> ELSE Merge(h[s \ {Max(s)}], E[Max(s)])
  BY <1>6
<1>8. h[1..0] = <<>>
  <2>1. 1..0 = {} /\ {} \in SUBSET (1..n)
    OBVIOUS
  <2>2. QED
    BY <1>7, <2>1
<1>9. ASSUME NEW k \in Nat, k < n PROVE h[1..(k + 1)] = Merge(h[1..k], E[k + 1])
  <2>1. 1..(k + 1) \in SUBSET (1..n) /\ 1..(k + 1) # {}
    <3>1. k + 1 \in 1..(k + 1) /\ \A i \in 1..(k + 1) : i \in 1..n
      BY <1>9
    <3>2. QED
      BY <3>1
  <2>2. Max(1..(k + 1)) = k + 1 /\ (1..(k + 1)) \ {k + 1} = 1..k
    BY LastOfFirst
  <2>3. QED
    BY <1>7, <2>1, <2>2
<1>10. QED
  BY <1>6, <1>8, <1>9
(* What merged calls have of the first k rows: each stands for the rows    *)
(* from first to last, all at its station, and every row is in one.        *)
Stands(c, a, b) ==
  /\ c.station = a.station /\ c.arrival = a.arrival /\ c.noAlight = a.noAlight
  /\ c.station = b.station /\ c.departure = b.departure /\ c.noBoard = b.noBoard

InGroups(c, E, k, first, last) ==
  /\ c \in Seq(CallSet)
  /\ first \in [1..Len(c) -> 1..k] /\ last \in [1..Len(c) -> 1..k]
  /\ \A i \in 1..Len(c) : first[i] <= last[i] /\ Stands(c[i], E[first[i]], E[last[i]])
  /\ \A i, j \in 1..Len(c) : i < j => last[i] < first[j]
  /\ \A m \in 1..k : \E i \in 1..Len(c) :
       first[i] <= m /\ m <= last[i] /\ c[i].station = E[m].station

(* The next row joins the last group or starts one.                        *)
LEMMA GroupsGrow ==
  ASSUME NEW n \in Nat, NEW E \in [1..n -> CallSet], NEW k \in Nat, k < n,
         NEW c, NEW first, NEW last, InGroups(c, E, k, first, last)
  PROVE  \E f, l : InGroups(Merge(c, E[k + 1]), E, k + 1, f, l)
<1> DEFINE e == E[k + 1]
           L == Len(c)
           d == Merge(c, e)
<1>0. /\ c \in Seq(CallSet) /\ e \in CallSet /\ L \in Nat /\ c \in [1..L -> CallSet]
      /\ first \in [1..L -> 1..k] /\ last \in [1..L -> 1..k]
  BY DEF InGroups
<1>1. CASE L > 0 /\ c[L].station = e.station /\ d = [c EXCEPT ![L] = Prolonged(c[L], e)]
  <2> DEFINE l == [last EXCEPT ![L] = k + 1]
  <2>0. d \in Seq(CallSet) /\ Len(d) = L
    <3>1. d \in Seq(CallSet)
      BY <1>0, MergeAdds
    <3>2. QED
      BY <1>0, <1>1, <3>1
  <2>1. /\ first \in [1..L -> 1..(k + 1)] /\ l \in [1..L -> 1..(k + 1)]
        /\ l[L] = k + 1 /\ \A i \in 1..L : i # L => l[i] = last[i]
    <3>1. L \in 1..L /\ \A i \in 1..k : i \in 1..(k + 1)
      BY <1>0, <1>1
    <3>2. k + 1 \in 1..(k + 1)
      OBVIOUS
    <3> HIDE DEF L
    <3>3. QED
      BY <1>0, <3>1, <3>2
  <2>2. /\ d[L] = Prolonged(c[L], e) /\ \A i \in 1..L : i # L => d[i] = c[i]
    BY <1>0, <1>1
  <2>3. Stands(d[L], E[first[L]], e) /\ d[L].station = c[L].station
    <3>1. L \in 1..L
      BY <1>0, <1>1
    <3>2. Stands(c[L], E[first[L]], E[last[L]]) /\ c[L] \in CallSet
      BY <1>0, <3>1 DEF InGroups
    <3>3. QED
      BY <1>0, <1>1, <2>2, <3>2 DEF Stands, Prolonged, CallSet
  <2> HIDE DEF l, d, L, e
  <2>4. \A i \in 1..L : first[i] <= l[i] /\ Stands(d[i], E[first[i]], E[l[i]])
    <3>1. ASSUME NEW i \in 1..L, i # L
          PROVE  first[i] <= l[i] /\ Stands(d[i], E[first[i]], E[l[i]])
      BY <2>1, <2>2, <3>1 DEF InGroups, L
    <3>2. ASSUME NEW i \in 1..L, i = L PROVE first[i] <= l[i]
      BY <1>0, <2>1, <3>2
    <3>3. QED
      BY <2>1, <2>3, <3>1, <3>2 DEF e
  <2>5. ASSUME NEW i \in 1..L, NEW j \in 1..L, i < j PROVE l[i] < first[j]
    <3>1. i # L
      BY <1>0, <2>5
    <3>2. l[i] = last[i]
      BY <2>1, <3>1
    <3>3. QED
      BY <2>5, <3>2 DEF InGroups, L
  <2>6. \A m \in 1..(k + 1) : \E i \in 1..L :
          first[i] <= m /\ m <= l[i] /\ d[i].station = E[m].station
    <3>1. L \in 1..L /\ first[L] <= k + 1 /\ d[L].station = e.station
      BY <1>0, <1>1, <2>3
    <3>2. ASSUME NEW m \in 1..k
          PROVE  \E i \in 1..L : first[i] <= m /\ m <= l[i] /\ d[i].station = E[m].station
      <4>1. PICK i \in 1..L : first[i] <= m /\ m <= last[i] /\ c[i].station = E[m].station
        BY DEF InGroups, L
      <4>2. d[i].station = c[i].station
        BY <2>2, <2>3
      <4>3. m <= l[i]
        BY <2>1, <4>1
      <4>4. QED
        BY <4>1, <4>2, <4>3
    <3>3. \A m \in 1..(k + 1) : m \in 1..k \/ m = k + 1
      OBVIOUS
    <3>4. first[L] <= k + 1 /\ k + 1 <= l[L] /\ d[L].station = E[k + 1].station
      BY <2>1, <3>1 DEF e
    <3>5. QED
      BY <3>1, <3>2, <3>3, <3>4
  <2>7. InGroups(d, E, k + 1, first, l)
    BY <2>0, <2>1, <2>4, <2>5, <2>6 DEF InGroups
  <2>8. QED
    BY <2>7 DEF d, e
<1>2. CASE d = Append(c, e)
  <2> DEFINE f == [i \in 1..(L + 1) |-> IF i = L + 1 THEN k + 1 ELSE first[i]]
             l == [i \in 1..(L + 1) |-> IF i = L + 1 THEN k + 1 ELSE last[i]]
  <2>0. /\ d \in Seq(CallSet) /\ Len(d) = L + 1 /\ d[L + 1] = e
        /\ \A i \in 1..L : d[i] = c[i]
    BY <1>0, <1>2
  <2>1. /\ f \in [1..(L + 1) -> 1..(k + 1)] /\ l \in [1..(L + 1) -> 1..(k + 1)]
        /\ f[L + 1] = k + 1 /\ l[L + 1] = k + 1
        /\ \A i \in 1..L : f[i] = first[i] /\ l[i] = last[i] /\ i \in 1..(L + 1)
    BY <1>0
  <2> HIDE DEF f, l, d, L, e
  <2>2. \A i \in 1..(L + 1) : i \in 1..L \/ i = L + 1
    BY <1>0
  <2>3. \A i \in 1..(L + 1) : f[i] <= l[i] /\ Stands(d[i], E[f[i]], E[l[i]])
    <3>1. Stands(e, e, e)
      BY DEF Stands
    <3>2. \A i \in 1..L : first[i] <= last[i] /\ Stands(d[i], E[f[i]], E[l[i]])
      BY <2>0, <2>1 DEF InGroups, L
    <3>3. QED
      BY <2>0, <2>1, <2>2, <3>1, <3>2 DEF e
  <2>4. \A i, j \in 1..(L + 1) : i < j => l[i] < f[j]
    <3>1. \A i, j \in 1..L : i < j => l[i] < f[j]
      BY <2>1 DEF InGroups, L
    <3>2. \A i \in 1..L : l[i] < f[L + 1]
      BY <1>0, <2>1
    <3>3. ASSUME NEW i \in 1..(L + 1), NEW j \in 1..(L + 1), i < j PROVE i \in 1..L
      BY <1>0, <3>3
    <3>4. QED
      BY <2>2, <3>1, <3>2, <3>3
  <2>5. \A m \in 1..(k + 1) : \E i \in 1..(L + 1) :
          f[i] <= m /\ m <= l[i] /\ d[i].station = E[m].station
    <3>1. ASSUME NEW m \in 1..k
          PROVE  \E i \in 1..(L + 1) : f[i] <= m /\ m <= l[i] /\ d[i].station = E[m].station
      <4>1. PICK i \in 1..L : first[i] <= m /\ m <= last[i] /\ c[i].station = E[m].station
        BY DEF InGroups, L
      <4>2. QED
        BY <2>0, <2>1, <4>1
    <3>2. \A m \in 1..(k + 1) : m \in 1..k \/ m = k + 1
      OBVIOUS
    <3>3. L + 1 \in 1..(L + 1)
      BY <1>0
    <3>4. QED
      BY <2>0, <2>1, <3>1, <3>2, <3>3 DEF e
  <2>6. InGroups(d, E, k + 1, f, l)
    BY <2>0, <2>1, <2>3, <2>4, <2>5 DEF InGroups
  <2>7. QED
    BY <2>6 DEF d, e
<1>3. QED
  BY <1>0, <1>1, <1>2, MergeAdds
(* The loop leaves every row in a group.                                   *)
LEMMA AllGrouped ==
  ASSUME NEW n \in Nat, NEW E \in [1..n -> CallSet]
  PROVE  \E first, last : InGroups(FoldLeft(Merge, <<>>, E), E, n, first, last)
<1>1. PICK h : /\ FoldLeft(Merge, <<>>, E) = h[1..n]
               /\ h[1..0] = <<>>
               /\ \A k \in Nat : k < n => h[1..(k + 1)] = Merge(h[1..k], E[k + 1])
  BY MergingUnfolds
<1> DEFINE Done(k) == \E first, last : InGroups(h[1..k], E, k, first, last)
           T == {k \in Nat : k <= n => Done(k)}
<1>2. Done(0)
  <2>1. /\ <<>> \in Seq(CallSet) /\ Len(<<>>) = 0 /\ \A m \in 1..0 : FALSE
        /\ <<>> \in [1..0 -> 1..0]
    OBVIOUS
  <2>2. InGroups(<<>>, E, 0, <<>>, <<>>)
    BY <2>1 DEF InGroups
  <2>3. QED
    BY <1>1, <2>2
<1>3. ASSUME NEW k \in Nat, k < n, Done(k) PROVE Done(k + 1)
  <2> DEFINE c == h[1..k]
  <2>1. PICK f, l : InGroups(c, E, k, f, l)
    BY <1>3
  <2>2. h[1..(k + 1)] = Merge(c, E[k + 1])
    BY <1>1, <1>3
  <2> HIDE DEF c
  <2>3. \E first, last : InGroups(Merge(c, E[k + 1]), E, k + 1, first, last)
    BY <1>3, <2>1, GroupsGrow
  <2>4. QED
    BY <2>2, <2>3
<1> HIDE DEF Done
<1>4. T = Nat
  <2>1. T \in SUBSET Nat /\ 0 \in T
    BY <1>2
  <2>2. \A k \in T : k + 1 \in T
    BY <1>3
  <2> HIDE DEF T
  <2>3. QED
    BY <2>1, <2>2, AllNaturals
<1>5. n \in T /\ n <= n
  BY <1>4
<1>6. Done(n)
  BY <1>5
<1>7. QED
  BY <1>1, <1>6 DEF Done

(* The rows of a trip that are kept, in the order of stop_sequence.        *)
InSequence(E, n, t) ==
  /\ n \in Nat /\ E \in [1..n -> Entries(t)]
  /\ \A e \in Entries(t) : \E i \in 1..n : E[i] = e
  /\ \A i, j \in 1..n : i < j => E[i].sequence < E[j].sequence

(* A trip has finitely many rows, and their sequence tells them apart.     *)
LEMMA RowsOfTrip ==
  ASSUME feed \in Feeds, NEW t \in Trips
  PROVE  /\ Entries(t) \subseteq CallSet
         /\ \A x, y \in feed.calls[t] : x.sequence = y.sequence => x = y
         /\ IsFiniteSet(Entries(t))
<1> DEFINE kept == {r \in feed.calls[t] : r.stop \in Routable}
           f == [r \in kept |-> Entry(r)]
<1>1. IsFeed(feed)
  BY FeedAssumption
<1>2. /\ IsFiniteSet(feed.calls[t])
      /\ \A r \in feed.calls[t] : /\ {r.sequence, r.arrival, r.departure} \subseteq Nat
                                  /\ {r.noBoard, r.noAlight} \subseteq BOOLEAN
      /\ \A x, y \in feed.calls[t] : x.sequence = y.sequence => x = y
  BY <1>1 DEF IsFeed, Trips
<1>3. IsFiniteSet(kept)
  BY <1>2, FS_Subset
<1>4. IsFiniteSet({f[r] : r \in kept})
  <2>1. DOMAIN f = kept
    OBVIOUS
  <2> HIDE DEF kept, f
  <2>2. QED
    BY <1>3, <2>1, ImageIsFinite
<1>5. Entries(t) = {f[r] : r \in kept}
  BY DEF Entries
<1>6. \A r \in kept : Entry(r) \in CallSet
  BY <1>2 DEF Entry, CallSet, Stations
<1>7. QED
  BY <1>2, <1>4, <1>5, <1>6 DEF Entries

(* The rows are read in that order, and grouped into calls.                *)
LEMMA RowsInSequence ==
  ASSUME feed \in Feeds, NEW t \in Trips
  PROVE  \E E, n, first, last : InSequence(E, n, t) /\ InGroups(Calls(t), E, n, first, last)
<1> DEFINE S == Entries(t)
           R == BySequence(t)
           E == Ordered(S, R)
           n == Cardinality(S)
<1>1. /\ S \subseteq CallSet /\ IsFiniteSet(S)
      /\ \A x, y \in feed.calls[t] : x.sequence = y.sequence => x = y
  BY RowsOfTrip
<1>2. \A e, f \in S : e.sequence = f.sequence => e = f
  BY <1>1 DEF Entries, Entry
<1>3. \A e, f \in S : <<e, f>> \in R <=> e.sequence < f.sequence
  BY DEF BySequence
<1>4. \A e \in S : e.sequence \in Nat
  BY <1>1 DEF CallSet
<1> HIDE DEF S, R
<1>5. IsOrder(S, R)
  BY <1>2, <1>3, <1>4 DEF IsOrder
<1>6. /\ E \in [1..n -> S]
      /\ \A x \in S : \E i \in 1..n : E[i] = x
      /\ \A i, j \in 1..n : i < j => <<E[i], E[j]>> \in R
  BY <1>1, <1>5, OrderedIsSorted
<1>7. n \in Nat
  BY <1>1, FS_CardinalityType
<1>8. Calls(t) = FoldLeft(Merge, <<>>, E)
  BY DEF Calls, S, R
<1> HIDE DEF E, n
<1>9. InSequence(E, n, t)
  BY <1>3, <1>6, <1>7 DEF InSequence, S
<1>10. E \in [1..n -> CallSet]
  BY <1>1, <1>6
<1>11. QED
  BY <1>7, <1>8, <1>9, <1>10, AllGrouped
(* A ride along merged calls is one along the rows: aboard by the last row *)
(* at a station, off by the first at a later one.                          *)
LEMMA RideOfRows ==
  ASSUME feed \in Feeds, NEW t \in Trips,
         NEW i \in DOMAIN Calls(t), NEW j \in DOMAIN Calls(t), i < j
  PROVE  \E x, y \in feed.calls[t] :
           /\ {x.stop, y.stop} \subseteq Routable /\ x.sequence < y.sequence
           /\ x.noBoard = Calls(t)[i].noBoard /\ y.noAlight = Calls(t)[j].noAlight
           /\ StationOf(x.stop) = Calls(t)[i].station /\ x.departure = Calls(t)[i].departure
           /\ StationOf(y.stop) = Calls(t)[j].station /\ y.arrival = Calls(t)[j].arrival
<1> DEFINE c == Calls(t)
<1>1. PICK E, n, first, last : InSequence(E, n, t) /\ InGroups(c, E, n, first, last)
  BY RowsInSequence
<1>2. DOMAIN c = 1..Len(c)
  BY <1>1 DEF InGroups
<1> HIDE DEF c
<1>3. i \in 1..Len(c) /\ j \in 1..Len(c)
  BY <1>2 DEF c
<1>4. /\ last[i] \in 1..n /\ first[j] \in 1..n /\ last[i] < first[j]
      /\ Stands(c[i], E[first[i]], E[last[i]]) /\ Stands(c[j], E[first[j]], E[last[j]])
  BY <1>1, <1>3 DEF InGroups
<1>5. /\ E[last[i]] \in Entries(t) /\ E[first[j]] \in Entries(t)
      /\ E[last[i]].sequence < E[first[j]].sequence
  BY <1>1, <1>4 DEF InSequence
<1>6. PICK x \in feed.calls[t] : x.stop \in Routable /\ E[last[i]] = Entry(x)
  BY <1>5 DEF Entries
<1>7. PICK y \in feed.calls[t] : y.stop \in Routable /\ E[first[j]] = Entry(y)
  BY <1>5 DEF Entries
<1>8. /\ x.sequence < y.sequence
      /\ x.noBoard = c[i].noBoard /\ y.noAlight = c[j].noAlight
      /\ StationOf(x.stop) = c[i].station /\ x.departure = c[i].departure
      /\ StationOf(y.stop) = c[j].station /\ y.arrival = c[j].arrival
  <2>1. LET a == E[last[i]]
        IN  /\ a.sequence = x.sequence /\ a.noBoard = x.noBoard
            /\ a.station = StationOf(x.stop) /\ a.departure = x.departure
    BY <1>6 DEF Entry
  <2>2. LET b == E[first[j]]
        IN  /\ b.sequence = y.sequence /\ b.noAlight = y.noAlight
            /\ b.station = StationOf(y.stop) /\ b.arrival = y.arrival
    BY <1>7 DEF Entry
  <2>3. QED
    BY <1>4, <1>5, <2>1, <2>2 DEF Stands
<1>9. QED
  BY <1>6, <1>7, <1>8 DEF c

(* So what a trip comes to is a sequence of calls.                         *)
LEMMA CallsAreCalls ==
  ASSUME feed \in Feeds, NEW t \in Trips
  PROVE  Calls(t) \in Seq(CallSet)
BY RowsInSequence DEF InGroups

(* The greater of two.                                                     *)
LEMMA MaxOfTwo ==
  ASSUME NEW a \in Int, NEW b \in Int
  PROVE  Max({a, b}) = IF a >= b THEN a ELSE b
<1> DEFINE m == IF a >= b THEN a ELSE b
<1>1. m \in {a, b} /\ \A y \in {a, b} : m >= y
  OBVIOUS
<1>2. \A z \in {a, b} : (\A y \in {a, b} : z >= y) => z = m
  OBVIOUS
<1> HIDE DEF m
<1>3. Max({a, b}) = m
  BY <1>1, <1>2 DEF Max
<1>4. QED
  BY <1>3 DEF m

(* A call of yesterday's run, by today's clock.                            *)
Later(c) ==
  [c EXCEPT !.arrival = IF c.arrival >= Day THEN c.arrival - Day ELSE 0,
            !.departure = c.departure - Day,
            !.noAlight = c.noAlight \/ c.arrival < Day]

(* What is left of yesterday's run: in order, the calls that depart today. *)
LeftOf(c, order, m) ==
  /\ m \in Nat /\ order \in [1..m -> {i \in 1..Len(c) : c[i].departure >= Day}]
  /\ \A i \in 1..Len(c) : c[i].departure >= Day => \E k \in 1..m : order[k] = i
  /\ \A k, l \in 1..m : k < l => order[k] < order[l]
  /\ Overnight(c) \in Seq(CallSet) /\ Len(Overnight(c)) = m
  /\ \A k \in 1..m : Overnight(c)[k] = Later(c[order[k]])

(* overnight_calls keeps the calls after midnight, in order, a day         *)
(* earlier.                                                                *)
LEMMA LeftOvernight ==
  ASSUME NEW c \in Seq(CallSet)
  PROVE  \E order, m : LeftOf(c, order, m)
<1> DEFINE places == {i \in 1..Len(c) : c[i].departure >= Day}
           m == Cardinality(places)
           late == AtPlaces(c, places)
<1>1. PICK order :
        /\ order \in [1..m -> places] /\ m \in Nat
        /\ \A x \in places : \E i \in 1..m : order[i] = x
        /\ \A i, j \in 1..m : i < j => order[i] < order[j]
        /\ DOMAIN late = 1..m /\ \A k \in 1..m : late[k] = c[order[k]]
  <2> DEFINE n == Len(c)
  <2>1. places \in SUBSET (1..n) /\ n \in Nat
    OBVIOUS
  <2> HIDE DEF places, n
  <2>2. PICK order : Filters(order, c, places)
    BY <2>1, FilteredInOrder
  <2>3. QED
    BY <2>2 DEF Filters
<1>2. Overnight(c) = [i \in DOMAIN late |->
                        [late[i] EXCEPT !.arrival = Max({0, @ - Day}),
                                        !.departure = @ - Day,
                                        !.noAlight = @ \/ late[i].arrival < Day]]
  <2>1. DOMAIN c = 1..Len(c)
    OBVIOUS
  <2>2. QED
    BY <2>1 DEF Overnight
<1> HIDE DEF m, late
<1>3. DOMAIN late = 1..m
  BY <1>1
<1>4. \A d \in CallSet : d.departure >= Day =>
        /\ [d EXCEPT !.arrival = Max({0, @ - Day}), !.departure = @ - Day,
                     !.noAlight = @ \/ d.arrival < Day] = Later(d)
        /\ Later(d) \in CallSet
  <2> SUFFICES ASSUME NEW d \in CallSet, d.departure >= Day
               PROVE  /\ [d EXCEPT !.arrival = Max({0, @ - Day}), !.departure = @ - Day,
                                   !.noAlight = @ \/ d.arrival < Day] = Later(d)
                      /\ Later(d) \in CallSet
    OBVIOUS
  <2>1. d.arrival \in Nat /\ d.departure \in Nat /\ Day \in Nat
    BY DayAssumption DEF CallSet
  <2>2. Max({0, d.arrival - Day}) = IF d.arrival >= Day THEN d.arrival - Day ELSE 0
    <3>1. d.arrival - Day \in Int /\ 0 \in Int
      BY <2>1
    <3>2. QED
      BY <2>1, <3>1, MaxOfTwo
  <2> DEFINE a == IF d.arrival >= Day THEN d.arrival - Day ELSE 0
             b == d.noAlight \/ d.arrival < Day
  <2>3. a \in Nat /\ b \in BOOLEAN /\ d.departure - Day \in Nat
    BY <2>1
  <2>4. [d EXCEPT !.arrival = Max({0, @ - Day}), !.departure = @ - Day,
                  !.noAlight = @ \/ d.arrival < Day] = Later(d)
    BY <2>2 DEF Later
  <2>5. Later(d) = [d EXCEPT !.arrival = a, !.departure = d.departure - Day, !.noAlight = b]
    BY DEF Later
  <2> HIDE DEF a, b
  <2>6. Later(d) \in CallSet
    BY <2>3, <2>5 DEF CallSet
  <2>7. QED
    BY <2>4, <2>6
<1>5. \A k \in 1..m : Overnight(c)[k] = Later(c[order[k]]) /\ Later(c[order[k]]) \in CallSet
  <2> SUFFICES ASSUME NEW k \in 1..m
               PROVE  Overnight(c)[k] = Later(c[order[k]]) /\ Later(c[order[k]]) \in CallSet
    OBVIOUS
  <2>1. late[k] = c[order[k]] /\ late[k] \in CallSet /\ late[k].departure >= Day
    BY <1>1
  <2>2. QED
    BY <1>2, <1>3, <1>4, <2>1
<1>6. Overnight(c) \in Seq(CallSet) /\ Len(Overnight(c)) = m
  <2>1. Overnight(c) = [k \in 1..m |-> Overnight(c)[k]]
    BY <1>2, <1>3
  <2>2. \A k \in 1..m : Overnight(c)[k] \in CallSet
    BY <1>5
  <2> DEFINE o == Overnight(c)
  <2> HIDE DEF o
  <2>3. o \in [1..m -> CallSet]
    BY <2>1, <2>2 DEF o
  <2>4. o \in Seq(CallSet) /\ Len(o) = m
    BY <1>1, <2>3
  <2>5. QED
    BY <2>4 DEF o
<1>7. /\ order \in [1..m -> {i \in 1..Len(c) : c[i].departure >= Day}]
      /\ \A i \in 1..Len(c) : c[i].departure >= Day => \E k \in 1..m : order[k] = i
  BY <1>1
<1> HIDE DEF places
<1>8. QED
  BY <1>1, <1>5, <1>6, <1>7 DEF LeftOf
-----------------------------------------------------------------------------
(***************************************************************************)
(* The runs of a route that are kept.                                      *)
(***************************************************************************)

(* _strip_overtaking: the steps of its loop.                               *)
LEMMA StrippingUnfolds ==
  ASSUME NEW n \in Nat, NEW R, NEW E \in [1..n -> R]
  PROVE  \E h : /\ FoldLeft(Strip, <<>>, E) = h[1..n]
                /\ h[1..0] = <<>>
                /\ \A k \in Nat : k < n => h[1..(k + 1)] = Strip(h[1..k], E[k + 1])
<1> DEFINE V == Seq(R)
           st == [q \in V \X (1..n) |-> Strip(q[1], E[q[2]])]
<1>1. \A v \in V : \A i \in 1..n : st[<<v, i>>] = Strip(v, E[i]) /\ st[<<v, i>>] \in V
  BY DEF Strip
<1>2. <<>> \in V
  OBVIOUS
<1> HIDE DEF V, st
<1>3. PICK f : IsFold(f, n, <<>>, st) /\ \A s \in SUBSET (1..n) : f[s] \in V
  BY <1>1, <1>2, FoldExists
<1> DEFINE IsPass(h) ==
             h = [s \in SUBSET (1..n) |->
                    IF s = {} THEN <<>> ELSE Strip(h[s \ {Max(s)}], E[Max(s)])]
<1>4. ASSUME NEW s \in SUBSET (1..n), s # {}
      PROVE  Max(s) \in 1..n /\ s \ {Max(s)} \in SUBSET (1..n)
  <2>1. s \in SUBSET (0..n)
    OBVIOUS
  <2>2. Max(s) \in s
    BY <1>4, <2>1, MaxIsGreatest
  <2>3. QED
    BY <2>2
<1>5. IsPass(f)
  <2>1. \A s \in SUBSET (1..n) :
          s # {} => st[<<f[s \ {Max(s)}], Max(s)>>] = Strip(f[s \ {Max(s)}], E[Max(s)])
    BY <1>1, <1>3, <1>4
  <2>2. QED
    BY <1>3, <2>1 DEF IsFold
<1>6. PICK h : IsPass(h) /\ FoldLeft(Strip, <<>>, E) = h[1..n]
  BY <1>5 DEF FoldLeft, MapThenFoldSet
<1>7. \A s \in SUBSET (1..n) :
        h[s] = IF s = {} THEN <<>> ELSE Strip(h[s \ {Max(s)}], E[Max(s)])
  BY <1>6
<1>8. h[1..0] = <<>>
  <2>1. 1..0 = {} /\ {} \in SUBSET (1..n)
    OBVIOUS
  <2>2. QED
    BY <1>7, <2>1
<1>9. ASSUME NEW k \in Nat, k < n PROVE h[1..(k + 1)] = Strip(h[1..k], E[k + 1])
  <2>1. 1..(k + 1) \in SUBSET (1..n) /\ 1..(k + 1) # {}
    <3>1. k + 1 \in 1..(k + 1) /\ \A i \in 1..(k + 1) : i \in 1..n
      BY <1>9
    <3>2. QED
      BY <3>1
  <2>2. Max(1..(k + 1)) = k + 1 /\ (1..(k + 1)) \ {k + 1} = 1..k
    BY LastOfFirst
  <2>3. QED
    BY <1>7, <2>1, <2>2
<1>10. QED
  BY <1>6, <1>8, <1>9

(* Of the first k runs, those kept, and every one is kept or overtakes one *)
(* that is.                                                                *)
KeptOf(c, E, k, R) ==
  /\ c \in Seq(R)
  /\ \A i \in 1..Len(c) : \E m \in 1..k : c[i] = E[m]
  /\ \A m \in 1..k : \E i \in 1..Len(c) : c[i] = E[m] \/ Overtakes(E[m], c[i])

(* Stripping keeps or replaces every run.                                  *)
LEMMA StripKeeps ==
  ASSUME NEW n \in Nat, NEW R, NEW E \in [1..n -> R]
  PROVE  KeptOf(FoldLeft(Strip, <<>>, E), E, n, R)
<1>1. PICK h : /\ FoldLeft(Strip, <<>>, E) = h[1..n]
               /\ h[1..0] = <<>>
               /\ \A k \in Nat : k < n => h[1..(k + 1)] = Strip(h[1..k], E[k + 1])
  BY StrippingUnfolds
<1> DEFINE Done(k) == KeptOf(h[1..k], E, k, R)
           T == {k \in Nat : k <= n => Done(k)}
<1>2. Done(0)
  <2>1. <<>> \in Seq(R) /\ Len(<<>>) = 0 /\ \A m \in 1..0 : FALSE
    OBVIOUS
  <2>2. QED
    BY <1>1, <2>1 DEF KeptOf
<1>3. ASSUME NEW k \in Nat, k < n, Done(k) PROVE Done(k + 1)
  <2> DEFINE c == h[1..k]
             d == h[1..(k + 1)]
             r == E[k + 1]
  <2>1. d = Strip(c, r) /\ r \in R
    BY <1>1, <1>3
  <2>2. KeptOf(c, E, k, R)
    BY <1>3
  <2>3. /\ \A m \in 1..(k + 1) : m \in 1..k \/ m = k + 1
        /\ \A m \in 1..k : m \in 1..(k + 1)
        /\ k + 1 \in 1..(k + 1)
    OBVIOUS
  <2> HIDE DEF c, d
  <2>4. CASE c # <<>> /\ Overtakes(r, Last(c))
    <3>1. d = c /\ Len(c) \in 1..Len(c) /\ Overtakes(r, c[Len(c)]) /\ c \in Seq(R)
      BY <2>1, <2>2, <2>4 DEF Strip, Last, KeptOf
    <3>2. KeptOf(d, E, k + 1, R)
      BY <2>2, <2>3, <3>1 DEF KeptOf
    <3>3. QED
      BY <3>2 DEF d
  <2>5. CASE ~ (c # <<>> /\ Overtakes(r, Last(c)))
    <3>1. d = Append(c, r)
      BY <2>1, <2>5 DEF Strip
    <3> DEFINE L == Len(c)
    <3>2. c \in Seq(R) /\ L \in Nat
      BY <2>2 DEF KeptOf
    <3>3. /\ d \in Seq(R) /\ Len(d) = L + 1 /\ d[L + 1] = r
          /\ \A i \in 1..L : d[i] = c[i]
      BY <2>1, <3>1, <3>2
    <3>4. /\ \A i \in 1..(L + 1) : i \in 1..L \/ i = L + 1
          /\ \A i \in 1..L : i \in 1..(L + 1)
          /\ L + 1 \in 1..(L + 1)
      BY <3>2
    <3>5. \A i \in 1..(L + 1) : \E m \in 1..(k + 1) : d[i] = E[m]
      BY <2>2, <2>3, <3>3, <3>4 DEF KeptOf
    <3>6. \A m \in 1..(k + 1) : \E i \in 1..(L + 1) : d[i] = E[m] \/ Overtakes(E[m], d[i])
      <4>1. ASSUME NEW m \in 1..k
            PROVE  \E i \in 1..(L + 1) : d[i] = E[m] \/ Overtakes(E[m], d[i])
        <5>1. PICK i \in 1..L : c[i] = E[m] \/ Overtakes(E[m], c[i])
          BY <2>2 DEF KeptOf
        <5>2. d[i] = c[i] /\ i \in 1..(L + 1)
          BY <3>3, <3>4
        <5>3. QED
          BY <5>1, <5>2
      <4>2. \E i \in 1..(L + 1) : d[i] = E[k + 1]
        BY <3>3, <3>4
      <4>3. QED
        BY <2>3, <4>1, <4>2
    <3>7. KeptOf(d, E, k + 1, R)
      BY <3>3, <3>5, <3>6 DEF KeptOf
    <3>8. QED
      BY <3>7 DEF d
  <2>6. QED
    BY <2>4, <2>5
<1> HIDE DEF Done
<1>4. T = Nat
  <2>1. T \in SUBSET Nat /\ 0 \in T
    BY <1>2
  <2>2. \A k \in T : k + 1 \in T
    BY <1>3
  <2> HIDE DEF T
  <2>3. QED
    BY <2>1, <2>2, AllNaturals
<1>5. n \in T /\ n <= n
  BY <1>4
<1>6. Done(n)
  BY <1>5
<1>7. QED
  BY <1>1, <1>6 DEF Done
-----------------------------------------------------------------------------
(***************************************************************************)
(* From the calendar to the network.                                       *)
(***************************************************************************)

(* A run that a kept trip of the feed makes, today's or what is left of    *)
(* yesterday's.                                                            *)
RunSet == [trip : Trips, day : {ServiceDate - 1, ServiceDate}, route : Kept,
           calls : Seq(CallSet)]

RunsOfTrip(r, t) ==
  /\ feed.trips[t].route \in Kept /\ Len(r.calls) >= 2
  /\ \/ /\ r = Run(t, ServiceDate, Calls(t))
        /\ feed.trips[t].service \in ActiveServices(ServiceDate)
     \/ /\ r = Run(t, ServiceDate - 1, Overnight(Calls(t)))
        /\ feed.trips[t].service \in ActiveServices(ServiceDate - 1)

RealRuns == {r \in RunSet : \E t \in Trips : RunsOfTrip(r, t)}

(* The runs of the trips that are read are all there.                      *)
AllRead(trips) == \A r \in RealRuns : r.trip \in trips => \E i \in DOMAIN runs : runs[i] = r

FeedInv ==
  /\ feed \in Feeds
  /\ at = "trips" => AllRead(Trips \ left)
  /\ at \notin {"calendar", "trips"} => AllRead(Trips)
  /\ at # "calendar" => /\ services = ActiveServices(ServiceDate)
                        /\ previous = ActiveServices(ServiceDate - 1)
  /\ at = "calendar" => runs = <<>>
  /\ runs \in Seq(RealRuns)
  /\ at # "ready" => network = {}
  /\ at = "ready" => network = UNION {KeptRuns(Pattern(runs[i])) : i \in DOMAIN runs}

(* The runs of a pattern are those of a route, sorted and stripped.        *)
LEMMA KeptRunsAre ==
  ASSUME feed \in Feeds, runs \in Seq(RealRuns), NEW pattern
  PROVE  /\ \A r \in KeptRuns(pattern) :
              \E i \in DOMAIN runs : r = runs[i] /\ Monotonic(r) /\ Pattern(r) = pattern
         /\ \A i \in DOMAIN runs :
              Monotonic(runs[i]) /\ Pattern(runs[i]) = pattern =>
                \E r \in KeptRuns(pattern) : r = runs[i] \/ Overtakes(runs[i], r)
<1> DEFINE own == {i \in DOMAIN runs : Monotonic(runs[i]) /\ Pattern(runs[i]) = pattern}
           first(i) == runs[i].calls[1].departure
           sooner(i, j) == first(i) < first(j) \/ (first(i) = first(j) /\ i < j)
           before == {p \in own \X own : sooner(p[1], p[2])}
           order == Ordered(own, before)
           n == Cardinality(own)
           E == [i \in DOMAIN order |-> runs[order[i]]]
           K == FoldLeft(Strip, <<>>, E)
<1>1. DOMAIN runs = 1..Len(runs) /\ Len(runs) \in Nat /\ \A i \in DOMAIN runs : runs[i] \in RealRuns
  OBVIOUS
<1>2. IsFiniteSet(own) /\ n \in Nat
  <2>1. IsFiniteSet(DOMAIN runs)
    BY <1>1, FS_Interval
  <2>2. IsFiniteSet(own)
    BY <2>1, FS_Subset
  <2>3. QED
    BY <2>2, FS_CardinalityType
<1>3. \A i \in own : i \in Nat /\ first(i) \in Nat
  <2> SUFFICES ASSUME NEW i \in own PROVE i \in Nat /\ first(i) \in Nat
    OBVIOUS
  <2>1. i \in Nat /\ runs[i] \in RealRuns
    BY <1>1
  <2>2. runs[i].calls \in Seq(CallSet) /\ Len(runs[i].calls) >= 2
    BY <2>1 DEF RealRuns, RunSet, RunsOfTrip
  <2>3. runs[i].calls[1] \in CallSet
    BY <2>2
  <2>4. QED
    BY <2>1, <2>3 DEF CallSet
<1>4. IsOrder(own, before)
  <2> HIDE DEF own, first
  <2>1. \A i, j \in own : <<i, j>> \in before <=> sooner(i, j)
    OBVIOUS
  <2> HIDE DEF before
  <2>2. QED
    BY <1>3, <2>1 DEF IsOrder
<1>5. order \in [1..n -> own] /\ \A i \in own : \E k \in 1..n : order[k] = i
  <2> HIDE DEF own, before
  <2>1. QED
    BY <1>2, <1>4, OrderedIsSorted
<1>6. KeptRuns(pattern) = {K[k] : k \in DOMAIN K}
  BY DEF KeptRuns, Range
<1> HIDE DEF order, n, K
<1>7. E \in [1..n -> RealRuns] /\ \A k \in 1..n : E[k] = runs[order[k]]
  BY <1>1, <1>5
<1> HIDE DEF E
<1>8. KeptOf(K, E, n, RealRuns)
  BY <1>2, <1>7, StripKeeps DEF K
<1>9. DOMAIN K = 1..Len(K)
  BY <1>8 DEF KeptOf
<1>10. ASSUME NEW r \in KeptRuns(pattern)
       PROVE  \E i \in DOMAIN runs : r = runs[i] /\ Monotonic(r) /\ Pattern(r) = pattern
  <2>1. PICK m \in 1..n : r = E[m]
    BY <1>6, <1>8, <1>9 DEF KeptOf
  <2>2. QED
    BY <1>5, <1>7, <2>1
<1>11. ASSUME NEW i \in own PROVE \E r \in KeptRuns(pattern) : r = runs[i] \/ Overtakes(runs[i], r)
  <2>1. PICK m \in 1..n : order[m] = i
    BY <1>5
  <2>2. PICK k \in 1..Len(K) : K[k] = E[m] \/ Overtakes(E[m], K[k])
    BY <1>8 DEF KeptOf
  <2>3. QED
    BY <1>6, <1>7, <1>9, <2>1, <2>2
<1>12. QED
  BY <1>10, <1>11

(* What a trip adds: its runs, and no others.                              *)
LEMMA RunsOfAre ==
  ASSUME feed \in Feeds, NEW t \in Trips, feed.trips[t].route \in Kept,
         services = ActiveServices(ServiceDate), previous = ActiveServices(ServiceDate - 1)
  PROVE  /\ RunsOf(t) \in Seq(RealRuns)
         /\ \A r \in RealRuns : r.trip = t => \E i \in DOMAIN RunsOf(t) : RunsOf(t)[i] = r
<1> DEFINE c == Calls(t)
           o == Overnight(c)
           a == Run(t, ServiceDate, c)
           b == Run(t, ServiceDate - 1, o)
           today == feed.trips[t].service \in services
           before == feed.trips[t].service \in previous
           s1 == IF today THEN <<a>> ELSE <<>>
           s2 == IF before /\ Len(o) >= 2 THEN <<b>> ELSE <<>>
<1>1. c \in Seq(CallSet)
  BY CallsAreCalls
<1>2. o \in Seq(CallSet) /\ (Len(o) >= 2 => Len(c) >= 2)
  <2>0. PICK order, m : LeftOf(c, order, m)
    <3> HIDE DEF c
    <3>1. QED
      BY <1>1, LeftOvernight
  <2>1. /\ m \in Nat /\ order \in [1..m -> {i \in 1..Len(c) : c[i].departure >= Day}]
        /\ \A k, l \in 1..m : k < l => order[k] < order[l]
        /\ o \in Seq(CallSet) /\ Len(o) = m
    BY <2>0 DEF LeftOf
  <2> HIDE DEF c, o
  <2>2. ASSUME m >= 2 PROVE Len(c) >= 2
    <3>1. 1 \in 1..m /\ 2 \in 1..m
      BY <2>1, <2>2
    <3>2. order[1] \in 1..Len(c) /\ order[2] \in 1..Len(c) /\ order[1] < order[2]
      BY <2>1, <3>1
    <3>3. QED
      BY <1>1, <3>2
  <2>3. QED
    BY <2>1, <2>2
<1>3. /\ a = [trip |-> t, day |-> ServiceDate, route |-> feed.trips[t].route, calls |-> c]
      /\ b = [trip |-> t, day |-> ServiceDate - 1, route |-> feed.trips[t].route, calls |-> o]
  BY DEF Run
<1> HIDE DEF c, o
<1>4. a \in RunSet /\ b \in RunSet /\ a.calls = c /\ b.calls = o
  <2> HIDE DEF a, b
  <2>1. QED
    BY <1>1, <1>2, <1>3 DEF RunSet
<1>5. today /\ Len(c) >= 2 => RunsOfTrip(a, t)
  BY <1>4 DEF RunsOfTrip, c
<1>6. before /\ Len(o) >= 2 => RunsOfTrip(b, t)
  BY <1>4 DEF RunsOfTrip, c, o
<1>7. RunsOf(t) = IF Len(c) < 2 THEN <<>> ELSE s1 \o s2
  BY DEF RunsOf, c, o
<1>8. Len(c) \in Nat /\ Len(o) \in Nat
  BY <1>1, <1>2
<1>parts. Len(c) >= 2 => s1 \in Seq(RealRuns) /\ s2 \in Seq(RealRuns)
  <2>1. today /\ Len(c) >= 2 => a \in RealRuns
    BY <1>4, <1>5 DEF RealRuns
  <2>2. before /\ Len(o) >= 2 => b \in RealRuns
    BY <1>4, <1>6 DEF RealRuns
  <2> HIDE DEF a, b, today, before
  <2>3. QED
    BY <2>1, <2>2
<1> HIDE DEF a, b, today, before
<1>9. RunsOf(t) \in Seq(RealRuns)
  <2>1. CASE Len(c) >= 2
    BY <1>7, <1>8, <1>parts, <2>1, Joined
  <2>2. CASE Len(c) < 2
    <3>1. <<>> \in Seq(RealRuns)
      OBVIOUS
    <3>2. QED
      BY <1>7, <2>2, <3>1
  <2>3. QED
    BY <1>8, <2>1, <2>2
<1>10. ASSUME NEW r \in RealRuns, r.trip = t
       PROVE  \E i \in DOMAIN RunsOf(t) : RunsOf(t)[i] = r
  <2>1. PICK u \in Trips : RunsOfTrip(r, u)
    BY <1>10 DEF RealRuns
  <2>2. u = t
    BY <1>10, <2>1 DEF RunsOfTrip, Run
  <2>3. \/ r = a /\ today /\ Len(c) >= 2
        \/ r = b /\ before /\ Len(o) >= 2
    BY <1>4, <2>1, <2>2 DEF RunsOfTrip, a, b, today, before, c, o
  <2>4. Len(c) >= 2
    BY <1>2, <2>3
  <2>5. RunsOf(t) = s1 \o s2
    BY <1>7, <1>8, <2>4
  <2>6. \/ s1 = <<r>>
        \/ s2 = <<r>>
    BY <2>3
  <2>7. \/ 1 \in DOMAIN s1 /\ s1[1] = r
        \/ 1 \in DOMAIN s2 /\ s2[1] = r
    <3>1. 1 \in DOMAIN <<r>> /\ <<r>>[1] = r
      OBVIOUS
    <3> HIDE DEF s1, s2
    <3>2. QED
      BY <2>6, <3>1
  <2>8. s1 \in Seq(RealRuns) /\ s2 \in Seq(RealRuns)
    BY <1>parts, <2>4
  <2> HIDE DEF s1, s2
  <2>9. Occurs(s1, s1 \o s2) /\ Occurs(s2, s1 \o s2)
    <3> HIDE DEF RealRuns
    <3>1. QED
      BY <2>8, Joined
  <2>10. \E k \in DOMAIN (s1 \o s2) : (s1 \o s2)[k] = r
    <3> DEFINE s3 == s1 \o s2
    <3> HIDE DEF s3
    <3>1. QED
      BY <2>7, <2>9 DEF s3, Occurs
  <2>11. QED
    BY <2>5, <2>10
<1>11. QED
  BY <1>9, <1>10

(* Before the calendar is read there are no runs.                          *)
LEMMA FeedInit == Init => FeedInv
<1> SUFFICES ASSUME Init PROVE FeedInv
  OBVIOUS
<1>1. feed \in Feeds /\ at = "calendar" /\ runs = <<>> /\ network = {}
  BY DEF Init
<1>2. <<>> \in Seq(RealRuns)
  OBVIOUS
<1>3. QED
  BY <1>1, <1>2 DEF FeedInv

(* What a definition takes from the feed alone is not changed by a step.   *)
LEMMA FeedStays ==
  ASSUME feed' = feed
  PROVE  /\ RealRuns' = RealRuns /\ Trips' = Trips
         /\ \A day : ActiveServices(day)' = ActiveServices(day)
<1>1. QED
  BY DEF RealRuns, RunSet, RunsOfTrip, Trips, ActiveServices, AllServices, Calls, Entries, Entry,
         BySequence, StationOf, Routable, Stations, CallSet, Kept, Run

(* Every step of the ingest adds runs of the feed, and loses none.         *)
LEMMA FeedStep ==
  ASSUME FeedInv, [Next]_vars
  PROVE  FeedInv'
<1>0. feed' = feed /\ feed \in Feeds
  BY DEF Next, vars, ReadCalendar, ReadTrip, EndOfTrips, ReadLink, EndOfLinks, Synthesize,
         Close, Build, FeedInv
<1>same. /\ RealRuns' = RealRuns /\ Trips' = Trips
         /\ ActiveServices(ServiceDate)' = ActiveServices(ServiceDate)
         /\ ActiveServices(ServiceDate - 1)' = ActiveServices(ServiceDate - 1)
  BY <1>0, FeedStays
<1>1. CASE ReadCalendar
  <2>1. /\ at = "calendar" /\ at' = "trips" /\ left' = Trips /\ UNCHANGED <<runs, network>>
        /\ services' = ActiveServices(ServiceDate) /\ previous' = ActiveServices(ServiceDate - 1)
    BY <1>1 DEF ReadCalendar
  <2>2. AllRead(Trips \ left)'
    BY <1>same, <2>1 DEF AllRead
  <2>3. QED
    BY <1>0, <1>same, <2>1, <2>2 DEF FeedInv
<1>2. ASSUME NEW t \in Trips, ReadTrip(t) PROVE FeedInv'
  <2>1. /\ at = "trips" /\ at' = "trips" /\ t \in left /\ left' = left \ {t}
        /\ runs' = IF feed.trips[t].route \in Kept THEN runs \o RunsOf(t) ELSE runs
        /\ UNCHANGED <<services, previous, network>>
    BY <1>2 DEF ReadTrip
  <2>2. /\ services = ActiveServices(ServiceDate) /\ previous = ActiveServices(ServiceDate - 1)
        /\ runs \in Seq(RealRuns) /\ AllRead(Trips \ left) /\ network = {}
    BY <2>1 DEF FeedInv
  <2>3. /\ runs' \in Seq(RealRuns)
        /\ \A r \in RealRuns :
             r.trip = t \/ (\E i \in DOMAIN runs : runs[i] = r) => \E i \in DOMAIN runs' : runs'[i] = r
    <3>1. CASE feed.trips[t].route \in Kept
      <4> DEFINE s == RunsOf(t)
      <4>1. s \in Seq(RealRuns) /\ \A r \in RealRuns : r.trip = t => \E i \in DOMAIN s : s[i] = r
        BY <1>0, <2>2, <3>1, RunsOfAre
      <4>2. runs' = runs \o s
        BY <2>1, <3>1
      <4> HIDE DEF s
      <4>3. runs \o s \in Seq(RealRuns) /\ Occurs(runs, runs \o s) /\ Occurs(s, runs \o s)
        <5> HIDE DEF RealRuns
        <5>1. QED
          BY <2>2, <4>1, Joined
      <4>4. QED
        BY <4>1, <4>2, <4>3 DEF Occurs
    <3>2. CASE feed.trips[t].route \notin Kept
      <4>1. \A r \in RealRuns : r.trip # t
        BY <3>2 DEF RealRuns, RunsOfTrip, Run
      <4>2. QED
        BY <2>1, <2>2, <3>2, <4>1
    <3>3. QED
      BY <3>1, <3>2
  <2>4. AllRead(Trips \ left)'
    <3>1. ASSUME NEW r \in RealRuns, r.trip \in Trips \ (left \ {t})
          PROVE  \E i \in DOMAIN runs' : runs'[i] = r
      <4>1. r.trip = t \/ r.trip \in Trips \ left
        BY <3>1
      <4>2. QED
        BY <2>2, <2>3, <4>1 DEF AllRead
    <3>2. QED
      BY <1>same, <2>1, <3>1 DEF AllRead
  <2>5. QED
    BY <1>0, <1>same, <2>1, <2>2, <2>3, <2>4 DEF FeedInv
<1>3. CASE EndOfTrips
  <2>1. /\ at = "trips" /\ at' = "links" /\ left = {}
        /\ UNCHANGED <<services, previous, runs, network>>
    BY <1>3 DEF EndOfTrips
  <2>2. AllRead(Trips)'
    <3>1. AllRead(Trips \ left) /\ Trips \ left = Trips
      BY <2>1 DEF FeedInv
    <3>2. QED
      BY <1>same, <2>1, <3>1 DEF AllRead
  <2>3. QED
    BY <1>0, <1>same, <2>1, <2>2 DEF FeedInv
<1>4. CASE \/ EndOfLinks \/ Synthesize \/ Close \/ Build
           \/ \E row \in feed.links : ReadLink(row)
  <2>1. /\ at \notin {"calendar", "trips", "ready"} /\ at' \notin {"calendar", "trips"}
        /\ UNCHANGED <<services, previous, runs>>
        /\ at' # "ready" => network' = network
        /\ at' = "ready" => network' = UNION {KeptRuns(Pattern(runs[i])) : i \in DOMAIN runs}
    BY <1>4 DEF EndOfLinks, Synthesize, Close, Build, ReadLink
  <2>2. AllRead(Trips)'
    BY <1>same, <2>1 DEF AllRead, FeedInv
  <2>3. at' = "ready" => network' = UNION {KeptRuns(Pattern(runs[i])) : i \in DOMAIN runs}'
    <3>1. UNION {KeptRuns(Pattern(runs[i])) : i \in DOMAIN runs}'
            = UNION {KeptRuns(Pattern(runs[i])) : i \in DOMAIN runs}
      <4>1. runs' = runs
        BY <2>1
      <4>2. QED
        BY <4>1 DEF KeptRuns
    <3>2. QED
      BY <2>1, <3>1
  <2>4. QED
    BY <1>0, <1>same, <2>1, <2>2, <2>3 DEF FeedInv
<1>5. CASE UNCHANGED vars
  <2>1. UNCHANGED <<at, services, previous, left, runs, network>>
    BY <1>5 DEF vars
  <2>2. /\ AllRead(Trips)' = AllRead(Trips) /\ AllRead(Trips \ left)' = AllRead(Trips \ left)
        /\ UNION {KeptRuns(Pattern(runs[i])) : i \in DOMAIN runs}'
             = UNION {KeptRuns(Pattern(runs[i])) : i \in DOMAIN runs}
    BY <1>same, <2>1 DEF AllRead, KeptRuns
  <2>3. QED
    BY <1>0, <1>same, <2>1, <2>2 DEF FeedInv
<1>6. QED
  BY <1>1, <1>2, <1>3, <1>4, <1>5 DEF Next
(* The network is the runs a route keeps, of which a run that does not go  *)
(* back in time is one unless it overtakes another of its pattern.         *)
LEMMA NetworkIs ==
  ASSUME FeedInv
  PROVE  /\ \A r \in network : r \in RealRuns /\ Monotonic(r)
         /\ at = "ready" =>
              \A i \in DOMAIN runs :
                Monotonic(runs[i]) =>
                  \E r \in network : \/ r = runs[i]
                                     \/ Pattern(r) = Pattern(runs[i]) /\ Overtakes(runs[i], r)
<1>0. feed \in Feeds /\ runs \in Seq(RealRuns)
  BY DEF FeedInv
<1>1. ASSUME NEW r \in network PROVE r \in RealRuns /\ Monotonic(r)
  <2>1. PICK i \in DOMAIN runs : r \in KeptRuns(Pattern(runs[i]))
    BY <1>1 DEF FeedInv
  <2>2. PICK j \in DOMAIN runs : r = runs[j] /\ Monotonic(r)
    BY <1>0, <2>1, KeptRunsAre
  <2>3. QED
    BY <1>0, <2>2
<1>2. ASSUME at = "ready", NEW i \in DOMAIN runs, Monotonic(runs[i])
      PROVE  \E r \in network : \/ r = runs[i]
                                \/ Pattern(r) = Pattern(runs[i]) /\ Overtakes(runs[i], r)
  <2> DEFINE p == Pattern(runs[i])
  <2>1. PICK r \in KeptRuns(p) : r = runs[i] \/ Overtakes(runs[i], r)
    BY <1>0, <1>2, KeptRunsAre
  <2>2. r \in network
    BY <1>2 DEF FeedInv
  <2> HIDE DEF p
  <2>3. Pattern(r) = p
    BY <1>0, KeptRunsAre
  <2>4. QED
    BY <2>1, <2>2, <2>3 DEF p
<1>3. QED
  BY <1>1, <1>2

(* Along a run that does not go back in time, one arrives after leaving.   *)
LEMMA MonotonicAcross ==
  ASSUME NEW r, r.calls \in Seq(CallSet), Monotonic(r),
         NEW i \in DOMAIN r.calls, NEW j \in DOMAIN r.calls, i < j
  PROVE  r.calls[i].departure <= r.calls[j].arrival
<1> DEFINE c == r.calls
           n == Len(c)
           Meets(d) == i + d + 1 <= n => c[i].departure <= c[i + d + 1].arrival
           T == {d \in Nat : Meets(d)}
<1>1. /\ n \in Nat /\ DOMAIN c = 1..n
      /\ \A k \in 1..n : c[k].arrival \in Nat /\ c[k].departure \in Nat
      /\ \A k \in 1..n : c[k].arrival <= c[k].departure
      /\ \A k \in 1..(n - 1) : c[k].departure <= c[k + 1].arrival
  <2>1. /\ n \in Nat /\ DOMAIN c = 1..n /\ \A k \in 1..n : c[k] \in CallSet
    OBVIOUS
  <2>2. \A k \in 1..n : c[k].arrival \in Nat /\ c[k].departure \in Nat
    BY <2>1 DEF CallSet
  <2>3. /\ \A k \in DOMAIN c : c[k].arrival <= c[k].departure
        /\ \A k \in 1..(n - 1) : c[k].departure <= c[k + 1].arrival
    BY DEF Monotonic
  <2> HIDE DEF c, n
  <2>4. QED
    BY <2>1, <2>2, <2>3
<1> HIDE DEF c, n
<1>2. i \in 1..n /\ j \in 1..n /\ i \in Nat /\ j \in Nat
  <2>1. i \in 1..n /\ j \in 1..n
    BY <1>1 DEF c
  <2>2. QED
    BY <1>1, <2>1
<1>3. Meets(0)
  BY <1>1, <1>2
<1>4. ASSUME NEW d \in Nat, Meets(d) PROVE Meets(d + 1)
  <2> SUFFICES ASSUME i + (d + 1) + 1 <= n PROVE c[i].departure <= c[i + (d + 1) + 1].arrival
    OBVIOUS
  <2> DEFINE k == i + d + 1
  <2>1. k \in 1..(n - 1) /\ k \in 1..n /\ k + 1 \in 1..n /\ i + (d + 1) + 1 = k + 1
    <3>1. i \in Nat /\ i >= 1 /\ n \in Nat /\ i + d + 2 <= n
      BY <1>1, <1>2
    <3>2. QED
      BY <3>1
  <2>2. c[i].departure <= c[k].arrival
    BY <1>1, <1>2, <1>4, <2>1
  <2> HIDE DEF k
  <2>3. c[k].arrival <= c[k].departure /\ c[k].departure <= c[k + 1].arrival
    BY <1>1, <2>1
  <2>4. c[i].departure <= c[k + 1].arrival
    <3>1. /\ c[i].departure \in Nat /\ c[k].arrival \in Nat
          /\ c[k].departure \in Nat /\ c[k + 1].arrival \in Nat
      BY <1>1, <1>2, <2>1
    <3>2. QED
      BY <2>2, <2>3, <3>1
  <2>5. QED
    BY <2>1, <2>4
<1> HIDE DEF Meets
<1>5. T = Nat
  <2>1. T \in SUBSET Nat /\ 0 \in T /\ \A d \in T : d + 1 \in T
    BY <1>3, <1>4
  <2> HIDE DEF T
  <2>2. QED
    BY <2>1, AllNaturals
<1>6. Meets(j - i - 1)
  <2>1. j - i - 1 \in Nat
    BY <1>2
  <2>2. QED
    BY <1>5, <2>1
<1>7. i + (j - i - 1) + 1 = j /\ j <= n
  BY <1>1, <1>2
<1>8. QED
  BY <1>6, <1>7 DEF Meets, c
-----------------------------------------------------------------------------
(***************************************************************************)
(* The rides of the network are those of vehicles.                         *)
(***************************************************************************)

(* A ride along a run of the feed, today's or yesterday's, is one along    *)
(* the rows of its trip.                                                   *)
LEMMA RideOfRun ==
  ASSUME feed \in Feeds, NEW r \in RealRuns,
         NEW i \in DOMAIN r.calls, NEW j \in DOMAIN r.calls, i < j,
         ~ r.calls[i].noBoard, ~ r.calls[j].noAlight
  PROVE  \E x, y \in feed.calls[r.trip] :
           /\ Possible(r.trip, r.day, x, y)
           /\ StationOf(x.stop) = r.calls[i].station
           /\ StationOf(y.stop) = r.calls[j].station
           /\ x.departure - Shift(r.day) = r.calls[i].departure
           /\ y.arrival - Shift(r.day) = r.calls[j].arrival
<1>1. PICK t \in Trips : RunsOfTrip(r, t)
  BY DEF RealRuns
<1> DEFINE c == Calls(t)
<1>2. c \in Seq(CallSet) /\ DOMAIN c = 1..Len(c) /\ r.trip = t /\ feed.trips[t].route \in Kept
  BY <1>1, CallsAreCalls DEF RunsOfTrip, Run
<1>rows. \A x, y \in feed.calls[t] : {x.arrival, x.departure} \subseteq Nat
  <2>1. IsFeed(feed)
    BY FeedAssumption
  <2>2. QED
    BY <2>1 DEF IsFeed, Trips
<1>3. CASE /\ r.day = ServiceDate /\ r.calls = c
           /\ feed.trips[t].service \in ActiveServices(ServiceDate)
  <2>1. PICK x, y \in feed.calls[t] :
           /\ {x.stop, y.stop} \subseteq Routable /\ x.sequence < y.sequence
           /\ x.noBoard = c[i].noBoard /\ y.noAlight = c[j].noAlight
           /\ StationOf(x.stop) = c[i].station /\ x.departure = c[i].departure
           /\ StationOf(y.stop) = c[j].station /\ y.arrival = c[j].arrival
    BY <1>3, RideOfRows
  <2> HIDE DEF c
  <2>2. Shift(r.day) = 0 /\ x.departure \in Nat /\ y.arrival \in Nat
    BY <1>3, <1>rows DEF Shift
  <2>3. RunsOn(t, r.day)
    BY <1>3 DEF ActiveServices, RunsOn
  <2>4. Possible(t, r.day, x, y)
    BY <1>2, <1>3, <2>1, <2>2, <2>3 DEF Possible
  <2>5. QED
    BY <1>2, <1>3, <2>1, <2>2, <2>4
<1>4. CASE /\ r.day = ServiceDate - 1 /\ r.calls = Overnight(c)
           /\ feed.trips[t].service \in ActiveServices(ServiceDate - 1)
  <2>0. PICK order, m : LeftOf(c, order, m)
    <3> HIDE DEF c
    <3>1. QED
      BY <1>2, LeftOvernight
  <2> DEFINE a == order[i]
             b == order[j]
  <2>1. /\ i \in 1..m /\ j \in 1..m /\ a < b /\ a \in DOMAIN c /\ b \in DOMAIN c
        /\ c[a].departure >= Day
        /\ r.calls[i] = Later(c[a]) /\ r.calls[j] = Later(c[b])
    <3>1. DOMAIN Overnight(c) = 1..m
      BY <2>0 DEF LeftOf
    <3>2. i \in 1..m /\ j \in 1..m
      BY <1>4, <3>1
    <3> HIDE DEF c
    <3>3. QED
      BY <1>2, <1>4, <2>0, <3>2 DEF LeftOf
  <2> HIDE DEF a, b
  <2>2. PICK x, y \in feed.calls[t] :
           /\ {x.stop, y.stop} \subseteq Routable /\ x.sequence < y.sequence
           /\ x.noBoard = c[a].noBoard /\ y.noAlight = c[b].noAlight
           /\ StationOf(x.stop) = c[a].station /\ x.departure = c[a].departure
           /\ StationOf(y.stop) = c[b].station /\ y.arrival = c[b].arrival
    BY <2>1, RideOfRows
  <2> HIDE DEF c
  <2>3. c[a] \in CallSet /\ c[b] \in CallSet
    BY <1>2, <2>1
  <2>4. /\ Later(c[a]).station = c[a].station /\ Later(c[b]).station = c[b].station
        /\ Later(c[a]).departure = c[a].departure - Day
        /\ Later(c[a]).noBoard = c[a].noBoard
        /\ Later(c[b]).noAlight = (c[b].noAlight \/ c[b].arrival < Day)
        /\ Later(c[b]).arrival = IF c[b].arrival >= Day THEN c[b].arrival - Day ELSE 0
    BY <2>3 DEF Later, CallSet
  <2>5. c[b].arrival >= Day /\ ~ y.noAlight /\ ~ x.noBoard
    <3>1. c[b].arrival \in Nat /\ Day \in Nat
      BY <2>3, DayAssumption DEF CallSet
    <3>2. ~ (c[b].arrival < Day)
      BY <2>1, <2>4
    <3>3. ~ Later(c[b]).noAlight /\ ~ Later(c[a]).noBoard
      BY <2>1
    <3>4. ~ c[b].noAlight /\ ~ c[a].noBoard
      BY <2>4, <3>3
    <3>5. QED
      BY <2>2, <3>1, <3>2, <3>4
  <2>6. Shift(r.day) = Day
    BY <1>4, DayAssumption DEF Shift
  <2>7. RunsOn(t, r.day)
    BY <1>4 DEF ActiveServices, RunsOn
  <2>8. Possible(t, r.day, x, y)
    BY <1>2, <2>1, <2>2, <2>5, <2>6, <2>7 DEF Possible
  <2>9. QED
    BY <1>2, <2>1, <2>2, <2>4, <2>5, <2>6, <2>8
<1>5. QED
  BY <1>1, <1>3, <1>4 DEF RunsOfTrip, Run

(* Nothing is offered that no vehicle does: whatever the order of the      *)
(* trips and the exceptions of the calendar, what is left of yesterday's   *)
(* runs keeps its real times, and one alights only where the vehicle       *)
(* arrives after midnight.                                                 *)
THEOREM OffersAreReal == Spec => []RidesAreReal
<1>1. Spec => []FeedInv
  BY FeedInit, FeedStep, PTL DEF Spec
<1>2. ASSUME FeedInv PROVE RidesAreReal
  <2>1. SUFFICES ASSUME NEW ride \in OfferedRides
                 PROVE  \E x, y \in feed.calls[ride.trip] :
                          /\ ride = Ride(ride.trip, ride.day, x, y)
                          /\ Possible(ride.trip, ride.day, x, y)
                          /\ ride.departure <= ride.arrival
    BY DEF RidesAreReal
  <2>2. PICK r \in network : \E i, j \in DOMAIN r.calls :
          /\ ~ r.calls[i].noBoard /\ j > i /\ ~ r.calls[j].noAlight
          /\ ride = [trip |-> r.trip, day |-> r.day, from |-> r.calls[i].station,
                     to |-> r.calls[j].station, departure |-> r.calls[i].departure,
                     arrival |-> r.calls[j].arrival]
    BY DEF OfferedRides
  <2>3. PICK i, j \in DOMAIN r.calls :
          /\ ~ r.calls[i].noBoard /\ j > i /\ ~ r.calls[j].noAlight
          /\ ride = [trip |-> r.trip, day |-> r.day, from |-> r.calls[i].station,
                     to |-> r.calls[j].station, departure |-> r.calls[i].departure,
                     arrival |-> r.calls[j].arrival]
    BY <2>2
  <2>4. r \in RealRuns /\ Monotonic(r) /\ feed \in Feeds
    BY <1>2, NetworkIs DEF FeedInv
  <2>5. r.calls \in Seq(CallSet) /\ i < j
    <3>1. r.calls \in Seq(CallSet)
      BY <2>4 DEF RealRuns, RunSet
    <3>2. i \in Nat /\ j \in Nat
      BY <3>1
    <3>3. QED
      BY <2>3, <3>1, <3>2
  <2>6. r.calls[i].departure <= r.calls[j].arrival
    BY <2>4, <2>5, MonotonicAcross
  <2>7. PICK x, y \in feed.calls[r.trip] :
           /\ Possible(r.trip, r.day, x, y)
           /\ StationOf(x.stop) = r.calls[i].station
           /\ StationOf(y.stop) = r.calls[j].station
           /\ x.departure - Shift(r.day) = r.calls[i].departure
           /\ y.arrival - Shift(r.day) = r.calls[j].arrival
    BY <2>3, <2>4, <2>5, RideOfRun
  <2>8. ride = Ride(ride.trip, ride.day, x, y)
    BY <2>3, <2>7 DEF Ride
  <2>9. QED
    BY <2>3, <2>6, <2>7, <2>8
<1>3. QED
  BY <1>1, <1>2, PTL
-----------------------------------------------------------------------------
(***************************************************************************)
(* No ride is lost.                                                        *)
(***************************************************************************)

(* The last row at a station and the first row at a later one are the two  *)
(* ends of merged calls.                                                   *)
LEMMA CallsOfRows ==
  ASSUME feed \in Feeds, NEW t \in Trips, NEW x \in feed.calls[t], NEW y \in feed.calls[t],
         {x.stop, y.stop} \subseteq Routable, x.sequence < y.sequence,
         LastThere(t, x), FirstThere(t, y)
  PROVE  \E i, j \in DOMAIN Calls(t) :
           /\ i < j
           /\ Calls(t)[i].station = StationOf(x.stop) /\ Calls(t)[i].departure = x.departure
           /\ Calls(t)[i].noBoard = x.noBoard
           /\ Calls(t)[j].station = StationOf(y.stop) /\ Calls(t)[j].arrival = y.arrival
           /\ Calls(t)[j].noAlight = y.noAlight
           /\ \E z \in feed.calls[t] : /\ z.sequence > x.sequence
                                       /\ z.departure = Calls(t)[j].departure
<1> DEFINE c == Calls(t)
<1>1. PICK E, n, first, last : InSequence(E, n, t) /\ InGroups(c, E, n, first, last)
  BY RowsInSequence
<1> HIDE DEF c
<1>2. /\ c \in Seq(CallSet) /\ DOMAIN c = 1..Len(c)
      /\ \A i \in 1..Len(c) : /\ first[i] \in 1..n /\ last[i] \in 1..n /\ first[i] <= last[i]
                              /\ Stands(c[i], E[first[i]], E[last[i]])
      /\ \A i, j \in 1..Len(c) : i < j => last[i] < first[j]
      /\ \A m \in 1..n : \E i \in 1..Len(c) :
           first[i] <= m /\ m <= last[i] /\ c[i].station = E[m].station
  <2>1. c \in Seq(CallSet) /\ DOMAIN c = 1..Len(c)
    BY <1>1 DEF InGroups
  <2>2. \A i \in 1..Len(c) : /\ first[i] \in 1..n /\ last[i] \in 1..n /\ first[i] <= last[i]
                             /\ Stands(c[i], E[first[i]], E[last[i]])
    BY <1>1 DEF InGroups
  <2>3. QED
    BY <1>1, <2>1, <2>2 DEF InGroups
<1>3. /\ n \in Nat
      /\ \A m \in 1..n : \E r \in feed.calls[t] : r.stop \in Routable /\ E[m] = Entry(r)
      /\ \A r \in feed.calls[t] : r.stop \in Routable => \E m \in 1..n : E[m] = Entry(r)
      /\ \A k, l \in 1..n : k < l => E[k].sequence < E[l].sequence
  BY <1>1 DEF InSequence, Entries
<1>4. \A r \in feed.calls[t] :
        /\ r.sequence \in Nat
        /\ Entry(r).sequence = r.sequence /\ Entry(r).station = StationOf(r.stop)
        /\ Entry(r).arrival = r.arrival /\ Entry(r).departure = r.departure
        /\ Entry(r).noBoard = r.noBoard /\ Entry(r).noAlight = r.noAlight
  <2>1. IsFeed(feed)
    BY FeedAssumption
  <2>2. QED
    BY <2>1 DEF IsFeed, Trips, Entry
<1>5. PICK a \in 1..n : E[a] = Entry(x)
  BY <1>3
<1>6. PICK b \in 1..n : E[b] = Entry(y)
  BY <1>3
<1>7. PICK i \in 1..Len(c) : first[i] <= a /\ a <= last[i] /\ c[i].station = E[a].station
  BY <1>2, <1>5
<1>8. PICK j \in 1..Len(c) : first[j] <= b /\ b <= last[j] /\ c[j].station = E[b].station
  BY <1>2, <1>6
<1>ends. /\ last[i] \in 1..n /\ first[i] \in 1..n /\ Stands(c[i], E[first[i]], E[last[i]])
         /\ last[j] \in 1..n /\ first[j] \in 1..n /\ Stands(c[j], E[first[j]], E[last[j]])
         /\ first[i] <= last[i] /\ first[j] <= last[j]
  BY <1>2
<1>9. last[i] = a
  <2>1. PICK r \in feed.calls[t] : E[last[i]] = Entry(r)
    BY <1>2, <1>3
  <2>2. StationOf(r.stop) = StationOf(x.stop)
    <3>1. Entry(r).station = StationOf(r.stop) /\ Entry(x).station = StationOf(x.stop)
      BY <1>4
    <3>2. c[i].station = E[last[i]].station
      BY <1>ends DEF Stands
    <3>3. QED
      BY <1>5, <1>7, <2>1, <3>1, <3>2
  <2>3. r.sequence <= x.sequence
    BY <2>2 DEF LastThere
  <2>4. ~ (a < last[i])
    <3>1. /\ E[last[i]].sequence = r.sequence /\ E[a].sequence = x.sequence
          /\ r.sequence \in Nat /\ x.sequence \in Nat
      BY <1>4, <1>5, <2>1
    <3>2. a < last[i] => E[a].sequence < E[last[i]].sequence
      BY <1>3, <1>ends
    <3>3. QED
      BY <2>3, <3>1, <3>2
  <2>5. QED
    BY <1>3, <1>ends, <1>7, <2>4
<1>10. first[j] = b
  <2>1. PICK r \in feed.calls[t] : E[first[j]] = Entry(r)
    BY <1>2, <1>3
  <2>2. StationOf(r.stop) = StationOf(y.stop)
    <3>1. Entry(r).station = StationOf(r.stop) /\ Entry(y).station = StationOf(y.stop)
      BY <1>4
    <3>2. c[j].station = E[first[j]].station
      BY <1>ends DEF Stands
    <3>3. QED
      BY <1>6, <1>8, <2>1, <3>1, <3>2
  <2>3. r.sequence >= y.sequence
    BY <2>2 DEF FirstThere
  <2>4. ~ (first[j] < b)
    <3>1. /\ E[first[j]].sequence = r.sequence /\ E[b].sequence = y.sequence
          /\ r.sequence \in Nat /\ y.sequence \in Nat
      BY <1>4, <1>6, <2>1
    <3>2. first[j] < b => E[first[j]].sequence < E[b].sequence
      BY <1>3, <1>ends
    <3>3. QED
      BY <2>3, <3>1, <3>2
  <2>5. QED
    BY <1>3, <1>ends, <1>8, <2>4
<1>11. a < b
  <2>1. E[a].sequence = x.sequence /\ E[b].sequence = y.sequence
    BY <1>4, <1>5, <1>6
  <2>2. ~ (b < a) /\ a # b
    <3>1. b < a => E[b].sequence < E[a].sequence
      BY <1>3
    <3>2. x.sequence \in Nat /\ y.sequence \in Nat
      BY <1>4
    <3>3. QED
      BY <2>1, <3>1, <3>2
  <2>3. QED
    BY <1>3, <2>2
<1>12. i < j
  <2>1. i # j /\ ~ (j < i)
    <3>1. ~ (j < i)
      <4>1. SUFFICES ASSUME j < i PROVE FALSE
        OBVIOUS
      <4>2. last[j] < first[i] /\ first[i] <= last[i] /\ first[j] <= last[j]
        BY <1>2, <4>1
      <4>3. /\ last[j] \in 1..n /\ first[i] \in 1..n /\ last[i] \in 1..n /\ first[j] \in 1..n
        BY <1>2
      <4>4. last[i] = a /\ first[j] = b /\ a < b /\ a \in Nat /\ b \in Nat
        BY <1>3, <1>9, <1>10, <1>11
      <4> DEFINE p == first[i]
                 q == last[j]
      <4>5. p \in Int /\ q \in Int /\ q < p /\ p <= a /\ b <= q
        BY <4>2, <4>3, <4>4
      <4> HIDE DEF p, q
      <4>6. QED
        BY <4>4, <4>5
    <3>2. ASSUME i = j PROVE FALSE
      <4>1. first[i] <= last[i]
        BY <1>2
      <4>2. last[i] = a /\ first[i] = b /\ a < b /\ a \in Nat /\ b \in Nat
        BY <1>3, <1>9, <1>10, <1>11, <3>2
      <4>3. QED
        BY <4>1, <4>2
    <3>3. QED
      BY <3>1, <3>2
  <2>2. i \in Nat /\ j \in Nat
    BY <1>2
  <2>3. QED
    BY <2>1, <2>2
<1>13. /\ c[i].station = StationOf(x.stop) /\ c[i].departure = x.departure
       /\ c[i].noBoard = x.noBoard
  <2>1. /\ E[a].station = StationOf(x.stop) /\ E[a].departure = x.departure
        /\ E[a].noBoard = x.noBoard
    BY <1>4, <1>5
  <2>2. QED
    BY <1>ends, <1>9, <2>1 DEF Stands
<1>14. /\ c[j].station = StationOf(y.stop) /\ c[j].arrival = y.arrival
       /\ c[j].noAlight = y.noAlight
  <2>1. /\ E[b].station = StationOf(y.stop) /\ E[b].arrival = y.arrival
        /\ E[b].noAlight = y.noAlight
    BY <1>4, <1>6
  <2>2. QED
    BY <1>ends, <1>10, <2>1 DEF Stands
<1>15. \E z \in feed.calls[t] : z.sequence > x.sequence /\ z.departure = c[j].departure
  <2>1. PICK z \in feed.calls[t] : E[last[j]] = Entry(z)
    BY <1>2, <1>3
  <2>2. a < last[j] /\ last[j] \in 1..n
    BY <1>3, <1>ends, <1>10, <1>11
  <2>3. E[a].sequence < E[last[j]].sequence
    BY <1>3, <2>2
  <2>4. x.sequence < z.sequence
    BY <1>4, <1>5, <2>1, <2>3
  <2>5. c[j].departure = z.departure
    BY <1>2, <1>4, <2>1 DEF Stands
  <2>6. QED
    BY <1>4, <2>4, <2>5
<1>16. i \in DOMAIN c /\ j \in DOMAIN c
  BY <1>2
<1>17. QED
  BY <1>12, <1>13, <1>14, <1>15, <1>16 DEF c

(* Rows that do not contradict each other are two calls of a run that is   *)
(* read.                                                                   *)
LEMMA RunOfRide ==
  ASSUME FeedInv, at = "ready", NEW t \in Trips, NEW d \in {ServiceDate - 1, ServiceDate},
         NEW x \in feed.calls[t], NEW y \in feed.calls[t],
         Possible(t, d, x, y), LastThere(t, x), FirstThere(t, y),
         \A z \in feed.calls[t] :
           z.sequence > x.sequence => z.arrival >= Shift(d) /\ z.departure >= Shift(d)
  PROVE  \E k \in DOMAIN runs :
           /\ runs[k].trip = t /\ runs[k].day = d
           /\ \E i, j \in DOMAIN runs[k].calls :
                /\ i < j
                /\ ~ runs[k].calls[i].noBoard /\ ~ runs[k].calls[j].noAlight
                /\ runs[k].calls[i].station = StationOf(x.stop)
                /\ runs[k].calls[j].station = StationOf(y.stop)
                /\ runs[k].calls[i].departure = x.departure - Shift(d)
                /\ runs[k].calls[j].arrival = y.arrival - Shift(d)
<1> DEFINE c == Calls(t)
<1>0. feed \in Feeds /\ AllRead(Trips)
  BY DEF FeedInv
<1>1. c \in Seq(CallSet) /\ DOMAIN c = 1..Len(c)
  BY <1>0, CallsAreCalls
<1>2. PICK i, j \in DOMAIN c :
           /\ i < j
           /\ c[i].station = StationOf(x.stop) /\ c[i].departure = x.departure
           /\ c[i].noBoard = x.noBoard
           /\ c[j].station = StationOf(y.stop) /\ c[j].arrival = y.arrival
           /\ c[j].noAlight = y.noAlight
           /\ \E z \in feed.calls[t] : z.sequence > x.sequence /\ z.departure = c[j].departure
  BY <1>0, CallsOfRows DEF Possible
<1>3. /\ ~ c[i].noBoard /\ ~ c[j].noAlight /\ feed.trips[t].route \in Kept
      /\ feed.trips[t].service \in ActiveServices(d)
      /\ c[i].departure >= Shift(d) /\ c[j].arrival >= Shift(d) /\ c[j].departure >= Shift(d)
  <2>1. feed.trips[t].service \in ActiveServices(d)
    BY DEF Possible, RunsOn, ActiveServices, AllServices
  <2>2. x.sequence \in Nat /\ y.sequence \in Nat
    <3>1. IsFeed(feed)
      BY <1>0, FeedAssumption
    <3>2. QED
      BY <3>1 DEF IsFeed, Trips
  <2>3. y.sequence > x.sequence
    BY <2>2 DEF Possible
  <2>4. QED
    BY <1>2, <2>1, <2>3 DEF Possible
<1>4. Len(c) >= 2 /\ i \in 1..Len(c) /\ j \in 1..Len(c) /\ c[i] \in CallSet /\ c[j] \in CallSet
  <2> HIDE DEF c
  <2>1. i \in 1..Len(c) /\ j \in 1..Len(c)
    BY <1>1
  <2>2. QED
    BY <1>1, <1>2, <2>1
<1>read. ASSUME NEW r \in RealRuns, r.trip = t PROVE \E k \in DOMAIN runs : runs[k] = r
  BY <1>0, <1>read DEF AllRead
<1>5. CASE d = ServiceDate
  <2> DEFINE r == Run(t, ServiceDate, c)
  <2>1. r.trip = t /\ r.day = ServiceDate /\ r.calls = c
    BY DEF Run
  <2>2. RunsOfTrip(r, t)
    BY <1>3, <1>4, <1>5, <2>1 DEF RunsOfTrip
  <2>3. r \in RealRuns
    BY <1>1, <1>3, <2>2 DEF RealRuns, RunSet, Run
  <2>4. Shift(d) = 0 /\ x.departure - 0 = x.departure /\ y.arrival - 0 = y.arrival
    <3>1. x.departure \in Nat /\ y.arrival \in Nat
      BY <1>2, <1>4 DEF CallSet
    <3>2. QED
      BY <1>5, <3>1 DEF Shift
  <2> HIDE DEF r, c
  <2>5. PICK k \in DOMAIN runs : runs[k] = r
    BY <1>read, <2>1, <2>3
  <2>6. QED
    BY <1>2, <1>3, <1>5, <2>1, <2>4, <2>5
<1>6. CASE d = ServiceDate - 1
  <2> DEFINE o == Overnight(c)
             r == Run(t, ServiceDate - 1, o)
  <2>0. PICK order, m : LeftOf(c, order, m)
    <3> HIDE DEF c
    <3>1. QED
      BY <1>1, LeftOvernight
  <2>1. Shift(d) = Day
    BY <1>6, DayAssumption DEF Shift
  <2>same. r.trip = t /\ r.day = ServiceDate - 1 /\ r.calls = o
    BY DEF Run
  <2>2. /\ m \in Nat /\ o \in Seq(CallSet) /\ DOMAIN o = 1..m /\ Len(o) = m
        /\ \A k \in 1..m : order[k] \in 1..Len(c) /\ o[k] = Later(c[order[k]])
        /\ \A k, l \in 1..m : k < l => order[k] < order[l]
    <3>1. o \in Seq(CallSet) /\ Len(o) = m
      BY <2>0 DEF LeftOf
    <3> HIDE DEF c
    <3>2. DOMAIN o = 1..m
      BY <3>1
    <3>3. QED
      BY <2>0, <3>1, <3>2 DEF LeftOf
  <2>3. PICK k \in 1..m : order[k] = i
    BY <1>3, <1>4, <2>0, <2>1 DEF LeftOf
  <2>4. PICK l \in 1..m : order[l] = j
    BY <1>3, <1>4, <2>0, <2>1 DEF LeftOf
  <2> HIDE DEF c, o
  <2>5. k < l
    <3>1. k # l /\ ~ (l < k)
      BY <1>2, <1>4, <2>2, <2>3, <2>4
    <3>2. QED
      BY <2>2, <3>1
  <2>6. Len(o) >= 2
    BY <2>2, <2>5
  <2>7. RunsOfTrip(r, t)
    BY <1>3, <1>6, <2>6, <2>same DEF RunsOfTrip, o, c
  <2>8. r \in RealRuns
    BY <1>3, <2>2, <2>7 DEF RealRuns, RunSet, Run
  <2>9. /\ o[k] = Later(c[i]) /\ o[l] = Later(c[j])
    BY <2>2, <2>3, <2>4
  <2>10. /\ Later(c[i]).station = c[i].station /\ Later(c[j]).station = c[j].station
         /\ Later(c[i]).departure = c[i].departure - Day
         /\ Later(c[i]).noBoard = c[i].noBoard
         /\ Later(c[j]).noAlight = (c[j].noAlight \/ c[j].arrival < Day)
         /\ Later(c[j]).arrival = IF c[j].arrival >= Day THEN c[j].arrival - Day ELSE 0
    BY <1>4 DEF Later, CallSet
  <2>11. ~ (c[j].arrival < Day) /\ Later(c[j]).arrival = c[j].arrival - Day
    <3>1. c[j].arrival \in Nat /\ Day \in Nat
      BY <1>4, DayAssumption DEF CallSet
    <3>2. QED
      BY <1>3, <2>1, <2>10, <3>1
  <2>12. ~ o[k].noBoard /\ ~ o[l].noAlight
    BY <1>3, <2>9, <2>10, <2>11
  <2> HIDE DEF r
  <2>13. PICK q \in DOMAIN runs : runs[q] = r
    BY <1>read, <2>8, <2>same
  <2>14. k \in DOMAIN o /\ l \in DOMAIN o
    BY <2>2
  <2>15. QED
    BY <1>2, <1>6, <2>1, <2>5, <2>9, <2>10, <2>11, <2>12, <2>13, <2>14, <2>same
<1>7. QED
  BY <1>5, <1>6

(* The ride a vehicle makes after midnight is offered: a train that left   *)
(* yesterday too, and one that stands at several platforms of a station.   *)
THEOREM RidesAreKept == Spec => []RidesAreOffered
<1>1. Spec => []FeedInv
  BY FeedInit, FeedStep, PTL DEF Spec
<1>2. ASSUME FeedInv PROVE RidesAreOffered
  <2>1. SUFFICES ASSUME at = "ready", NEW t \in Trips, NEW d \in {ServiceDate - 1, ServiceDate},
                        NEW x \in feed.calls[t], NEW y \in feed.calls[t],
                        Possible(t, d, x, y), LastThere(t, x), FirstThere(t, y),
                        ~ (\E z \in feed.calls[t] : /\ z.sequence > x.sequence
                                                    /\ z.arrival < Shift(d) \/ z.departure < Shift(d)),
                        ~ (\E i \in DOMAIN runs :
                             /\ runs[i].trip = t /\ runs[i].day = d
                             /\ \/ ~ Monotonic(runs[i])
                                \/ \E r \in network : /\ Pattern(r) = Pattern(runs[i])
                                                      /\ Overtakes(runs[i], r))
                 PROVE  Ride(t, d, x, y) \in OfferedRides
    BY DEF RidesAreOffered
  <2>2. \A z \in feed.calls[t] :
          z.sequence > x.sequence => z.arrival >= Shift(d) /\ z.departure >= Shift(d)
    <3>1. IsFeed(feed)
      BY <1>2, FeedAssumption DEF FeedInv
    <3>2. \A z \in feed.calls[t] : z.arrival \in Nat /\ z.departure \in Nat
      BY <3>1 DEF IsFeed, Trips
    <3>3. Shift(d) \in Nat
      BY DayAssumption DEF Shift
    <3>4. QED
      BY <2>1, <3>2, <3>3
  <2>3. PICK k \in DOMAIN runs :
           /\ runs[k].trip = t /\ runs[k].day = d
           /\ \E i, j \in DOMAIN runs[k].calls :
                /\ i < j
                /\ ~ runs[k].calls[i].noBoard /\ ~ runs[k].calls[j].noAlight
                /\ runs[k].calls[i].station = StationOf(x.stop)
                /\ runs[k].calls[j].station = StationOf(y.stop)
                /\ runs[k].calls[i].departure = x.departure - Shift(d)
                /\ runs[k].calls[j].arrival = y.arrival - Shift(d)
    BY <1>2, <2>1, <2>2, RunOfRide
  <2> DEFINE r == runs[k]
  <2>4. r \in network
    BY <1>2, <2>1, <2>3, NetworkIs
  <2> HIDE DEF r
  <2>5. PICK i, j \in DOMAIN r.calls :
                /\ i < j
                /\ ~ r.calls[i].noBoard /\ ~ r.calls[j].noAlight
                /\ r.calls[i].station = StationOf(x.stop)
                /\ r.calls[j].station = StationOf(y.stop)
                /\ r.calls[i].departure = x.departure - Shift(d)
                /\ r.calls[j].arrival = y.arrival - Shift(d)
    BY <2>3 DEF r
  <2>6. Ride(t, d, x, y) = [trip |-> r.trip, day |-> r.day, from |-> r.calls[i].station,
                            to |-> r.calls[j].station, departure |-> r.calls[i].departure,
                            arrival |-> r.calls[j].arrival]
    BY <2>3, <2>5 DEF Ride, r
  <2>7. j > i
    <3>1. r.calls \in Seq(CallSet)
      BY <1>2, <2>4, NetworkIs DEF RealRuns, RunSet
    <3>2. QED
      BY <2>5, <3>1
  <2>8. QED
    BY <2>4, <2>5, <2>6, <2>7 DEF OfferedRides
<1>3. QED
  BY <1>1, <1>2, PTL
-----------------------------------------------------------------------------
(***************************************************************************)
(* Chains of footpaths.                                                    *)
(***************************************************************************)

(* The seconds of a chain from its i-th station to its j-th.               *)
Leg(w, c, i, j) ==
  SumFunctionOnSet([m \in 1..(j - i) |-> w[<<c[i + m - 1], c[i + m]>>]], 1..(j - i))

(* All its steps there take time.                                          *)
Timed(w, c, i, j) == \A m \in i..(j - 1) : w[<<c[m], c[m + 1]>>] \in Nat

(* The stations of d from its x-th are those of c from its y-th.           *)
Alike(d, x, c, y, n) == \A m \in 0..n : d[x + m] = c[y + m]

(* A leg is as long as its two parts.                                      *)
LEMMA LegsAdd ==
  ASSUME NEW w, NEW c, NEW i \in Nat, NEW j \in Nat, NEW k \in Nat, i <= j, j <= k,
         Timed(w, c, i, k)
  PROVE  /\ Leg(w, c, i, j) \in Nat /\ Leg(w, c, j, k) \in Nat
         /\ Leg(w, c, i, k) = Leg(w, c, i, j) + Leg(w, c, j, k)
<1> DEFINE p == j - i
           q == k - j
           f == [m \in 1..p |-> w[<<c[i + m - 1], c[i + m]>>]]
           g == [m \in 1..q |-> w[<<c[j + m - 1], c[j + m]>>]]
           h == [m \in 1..(k - i) |-> w[<<c[i + m - 1], c[i + m]>>]]
<1>1. p \in Nat /\ q \in Nat /\ p + q = k - i
  OBVIOUS
<1>2. ASSUME NEW m \in 1..p PROVE f[m] \in Nat /\ h[m] = f[m]
  <2>1. i + m - 1 \in i..(k - 1) /\ (i + m - 1) + 1 = i + m /\ m \in 1..(k - i)
    OBVIOUS
  <2>2. w[<<c[i + m - 1], c[i + m]>>] \in Nat
    <3>1. w[<<c[i + m - 1], c[(i + m - 1) + 1]>>] \in Nat
      BY <2>1 DEF Timed
    <3>2. QED
      BY <2>1, <3>1
  <2>3. QED
    BY <2>1, <2>2
<1>3. ASSUME NEW m \in 1..q PROVE g[m] \in Nat /\ h[p + m] = g[m]
  <2>1. /\ j + m - 1 \in i..(k - 1) /\ (j + m - 1) + 1 = j + m /\ p + m \in 1..(k - i)
        /\ i + (p + m) = j + m /\ i + (p + m) - 1 = j + m - 1
    OBVIOUS
  <2>2. w[<<c[j + m - 1], c[j + m]>>] \in Nat
    <3>1. w[<<c[j + m - 1], c[(j + m - 1) + 1]>>] \in Nat
      BY <2>1 DEF Timed
    <3>2. QED
      BY <2>1, <3>1
  <2> HIDE DEF p
  <2>3. h[p + m] = w[<<c[i + (p + m) - 1], c[i + (p + m)]>>]
    BY <2>1
  <2>4. QED
    BY <2>1, <2>2, <2>3
<1> HIDE DEF f, g, h
<1>4. SumFunctionOnSet(f, 1..p) \in Nat /\ SumFunctionOnSet(g, 1..q) \in Nat
  <2> HIDE DEF p, q
  <2>1. QED
    BY <1>1, <1>2, <1>3, SumNatural
<1>5. SumFunctionOnSet(h, 1..(p + q)) = SumFunctionOnSet(f, 1..p) + SumFunctionOnSet(g, 1..q)
  <2> HIDE DEF p, q
  <2>1. IsConcat(h, p, f, q, g)
    BY <1>2, <1>3 DEF IsConcat
  <2>2. p \in Nat /\ q \in Nat
    BY <1>1
  <2>3. QED
    BY <2>1, <2>2, SumConcat
<1>6. /\ Leg(w, c, i, j) = SumFunctionOnSet(f, 1..p)
      /\ Leg(w, c, j, k) = SumFunctionOnSet(g, 1..q)
      /\ Leg(w, c, i, k) = SumFunctionOnSet(h, 1..(k - i))
  BY DEF Leg, f, g, h
<1>7. QED
  <2> HIDE DEF p, q
  <2>1. QED
    BY <1>1, <1>4, <1>5, <1>6

(* The same stations make the same leg.                                    *)
LEMMA LegSame ==
  ASSUME NEW w, NEW c, NEW d, NEW x \in Nat, NEW y \in Nat, NEW n \in Nat,
         Alike(d, x, c, y, n)
  PROVE  Leg(w, d, x, x + n) = Leg(w, c, y, y + n)
<1> DEFINE f == [m \in 1..n |-> w[<<d[x + m - 1], d[x + m]>>]]
           g == [m \in 1..n |-> w[<<c[y + m - 1], c[y + m]>>]]
<1>1. (x + n) - x = n /\ (y + n) - y = n
  OBVIOUS
<1>2. ASSUME NEW m \in 1..n PROVE f[m] = g[m]
  <2>1. m \in 0..n /\ m - 1 \in 0..n /\ x + (m - 1) = x + m - 1 /\ y + (m - 1) = y + m - 1
    OBVIOUS
  <2>2. d[x + m] = c[y + m] /\ d[x + (m - 1)] = c[y + (m - 1)]
    BY <2>1 DEF Alike
  <2>3. d[x + m - 1] = c[y + m - 1]
    BY <2>1, <2>2
  <2>4. QED
    BY <2>2, <2>3
<1>3. f = g
  BY <1>2
<1>4. QED
  BY <1>1, <1>3 DEF Leg

(* Footpaths: pairs of different stations, with seconds within the cap.    *)
Pairs == {p \in Stations \X Stations : p[1] # p[2]}
PathSet == UNION {[D -> 0..MaxTransfer] : D \in SUBSET Pairs}

(* A chain from a to b of which all stations between are in via.           *)
Way(w, c, n, a, b, via) ==
  /\ n \in Nat /\ n >= 2 /\ c \in [1..n -> Stations]
  /\ \A i, j \in 1..n : c[i] = c[j] => i = j
  /\ c[1] = a /\ c[n] = b
  /\ \A i \in 1..(n - 1) : <<c[i], c[i + 1]>> \in DOMAIN w
  /\ \A i \in 2..(n - 1) : c[i] \in via

(* Footpaths as fast as the chains by way of some stations.                *)
AsFastAs(f, w, via) ==
  /\ f \in PathSet
  /\ \A a, b \in Stations :
       <<a, b>> \in DOMAIN f =>
         \E c, n : Way(w, c, n, a, b, via) /\ Leg(w, c, 1, n) <= f[<<a, b>>]
  /\ \A a, b \in Stations : \A c, n :
       Way(w, c, n, a, b, via) /\ Leg(w, c, 1, n) <= MaxTransfer =>
         <<a, b>> \in DOMAIN f /\ f[<<a, b>>] <= Leg(w, c, 1, n)

(* Footpaths join stations and take no longer than a transfer may.         *)
LEMMA PathSetIs ==
  ASSUME NEW f \in PathSet
  PROVE  /\ DOMAIN f \subseteq Pairs /\ \A p \in DOMAIN f : f[p] \in Nat /\ f[p] <= MaxTransfer
         /\ f = [p \in DOMAIN f |-> f[p]]
<1>1. PICK D \in SUBSET Pairs : f \in [D -> 0..MaxTransfer]
  BY DEF PathSet
<1>2. QED
  BY <1>1

(* The steps of a chain take time.                                         *)
LEMMA WaySteps ==
  ASSUME NEW w \in PathSet, NEW c, NEW n, NEW a, NEW b, NEW via, Way(w, c, n, a, b, via)
  PROVE  \A i \in 1..(n - 1) : w[<<c[i], c[i + 1]>>] \in Nat
BY PathSetIs DEF Way

(* Legs of a chain, from its first to its last station and in between.     *)
LEMMA WayLegs ==
  ASSUME NEW w \in PathSet, NEW c, NEW n, NEW a, NEW b, NEW via, Way(w, c, n, a, b, via),
         NEW i \in 1..n
  PROVE  /\ Leg(w, c, 1, i) \in Nat /\ Leg(w, c, i, n) \in Nat
         /\ Leg(w, c, 1, n) = Leg(w, c, 1, i) + Leg(w, c, i, n)
<1>1. n \in Nat /\ i \in Nat /\ 1 <= i /\ i <= n /\ 1 \in Nat
  BY DEF Way
<1>2. Timed(w, c, 1, n)
  BY WaySteps DEF Timed
<1>3. QED
  BY <1>1, <1>2, LegsAdd

(* Two chains that meet at k make one by way of k, cut short where the     *)
(* first one comes across the second.                                      *)
LEMMA WaysMeet ==
  ASSUME NEW w \in PathSet, NEW via, NEW a \in Stations, NEW b \in Stations,
         NEW k \in Stations, a # b, NEW c1, NEW n1, Way(w, c1, n1, a, k, via),
         NEW c2, NEW n2, Way(w, c2, n2, k, b, via)
  PROVE  \E c, n : /\ Way(w, c, n, a, b, via \cup {k})
                   /\ Leg(w, c, 1, n) <= Leg(w, c1, 1, n1) + Leg(w, c2, 1, n2)
<1> DEFINE Met == {x \in 1..n1 : \E y \in 1..n2 : c1[x] = c2[y]}
           i == Min(Met)
<1>1. /\ n1 \in Nat /\ n1 >= 2 /\ n2 \in Nat /\ n2 >= 2
      /\ c1[1] = a /\ c1[n1] = k /\ c2[1] = k /\ c2[n2] = b
      /\ c1 \in [1..n1 -> Stations] /\ c2 \in [1..n2 -> Stations]
  BY DEF Way
<1>2. n1 \in Met /\ Met \in SUBSET Nat
  BY <1>1
<1>3. i \in Met /\ \A x \in Met : i <= x
  BY <1>2, MinIsLeast
<1> HIDE DEF i
<1>4. i \in 1..n1 /\ i \in Nat /\ 1 <= i
  BY <1>3
<1>5. PICK j \in 1..n2 : c1[i] = c2[j]
  BY <1>3
<1>6. ASSUME NEW x \in 1..n1, x < i, NEW y \in 1..n2 PROVE c1[x] # c2[y]
  BY <1>3, <1>4, <1>6
<1> HIDE DEF Met
<1> DEFINE n == i + (n2 - j)
           d == [m \in 1..n |-> IF m <= i THEN c1[m] ELSE c2[j + (m - i)]]
<1>7. n \in Nat /\ i <= n /\ n >= 2
  <2>1. n \in Nat /\ i <= n /\ n >= 1
    BY <1>1, <1>4
  <2>2. n = 1 => i = 1 /\ j = n2
    BY <1>1, <1>4
  <2>3. n # 1
    BY <1>1, <1>5, <2>2
  <2>4. QED
    BY <2>1, <2>3
<1>8. /\ \A m \in 1..i : m \in 1..n1 /\ m \in 1..n /\ d[m] = c1[m]
      /\ \A m \in i..n : m \in 1..n /\ j + (m - i) \in 1..n2 /\ d[m] = c2[j + (m - i)]
  <2>1. ASSUME NEW m \in 1..i PROVE m \in 1..n1 /\ m \in 1..n /\ d[m] = c1[m]
    <3>1. m \in 1..n1 /\ m \in 1..n /\ m <= i
      BY <1>1, <1>4, <1>7
    <3>2. QED
      BY <3>1
  <2>2. ASSUME NEW m \in i..n
        PROVE  m \in 1..n /\ j + (m - i) \in 1..n2 /\ d[m] = c2[j + (m - i)]
    <3>1. m \in 1..n /\ j + (m - i) \in 1..n2
      BY <1>1, <1>4, <1>7
    <3>2. CASE m = i
      <4>1. j + (m - i) = j /\ d[m] = c1[i]
        BY <1>4, <3>1, <3>2
      <4>2. QED
        BY <1>5, <3>1, <4>1
    <3>3. CASE m # i
      <4>1. ~ (m <= i)
        BY <1>4, <1>7, <3>3
      <4>2. QED
        BY <3>1, <4>1
    <3>4. QED
      BY <3>2, <3>3
  <2>3. QED
    BY <2>1, <2>2
<1> HIDE DEF d
<1>9. \A m \in 1..n : m \in 1..i \/ (m \in i..n /\ m > i)
  BY <1>4, <1>7
<1>10. d \in [1..n -> Stations]
  <2>1. \A m \in 1..n : d[m] \in Stations
    BY <1>1, <1>8, <1>9
  <2>2. QED
    BY <2>1 DEF d
<1>11. \A x, y \in 1..n : d[x] = d[y] => x = y
  <2>1. ASSUME NEW x \in 1..n, NEW y \in 1..n, x < y, d[x] = d[y] PROVE FALSE
    <3>1. CASE y <= i
      <4>1. x \in 1..i /\ y \in 1..i
        BY <1>4, <1>7, <2>1, <3>1
      <4>2. c1[x] = c1[y] /\ x \in 1..n1 /\ y \in 1..n1
        BY <1>8, <2>1, <4>1
      <4>3. x = y
        BY <4>2 DEF Way
      <4>4. QED
        BY <1>7, <2>1, <4>3
    <3>2. CASE y > i /\ x < i
      <4>1. x \in 1..i /\ y \in i..n
        BY <1>4, <1>7, <2>1, <3>2
      <4>2. c1[x] = c2[j + (y - i)] /\ x \in 1..n1 /\ j + (y - i) \in 1..n2
        BY <1>8, <2>1, <4>1
      <4>3. QED
        BY <1>6, <3>2, <4>2
    <3>3. CASE x >= i
      <4>1. x \in i..n /\ y \in i..n
        BY <1>4, <1>7, <2>1, <3>3
      <4>2. c2[j + (x - i)] = c2[j + (y - i)] /\ j + (x - i) \in 1..n2 /\ j + (y - i) \in 1..n2
        BY <1>8, <2>1, <4>1
      <4>3. j + (x - i) = j + (y - i)
        BY <4>2 DEF Way
      <4>4. QED
        BY <1>1, <1>4, <1>7, <2>1, <4>3
    <3>4. QED
      BY <1>4, <1>7, <3>1, <3>2, <3>3
  <2>2. \A x, y \in 1..n : x < y \/ y < x \/ x = y
    BY <1>7
  <2>3. QED
    BY <2>1, <2>2
<1>12. d[1] = a /\ d[n] = b
  <2>1. 1 \in 1..i /\ n \in i..n /\ j + (n - i) = n2
    BY <1>1, <1>4, <1>7
  <2>2. QED
    BY <1>1, <1>8, <2>1
<1>13. ASSUME NEW m \in 1..(n - 1) PROVE <<d[m], d[m + 1]>> \in DOMAIN w
  <2>1. CASE m < i
    <3>1. m \in 1..i /\ m + 1 \in 1..i /\ m \in 1..(n1 - 1)
      BY <1>1, <1>4, <1>7, <2>1
    <3>2. <<c1[m], c1[m + 1]>> \in DOMAIN w
      BY <3>1 DEF Way
    <3>3. QED
      BY <1>8, <3>1, <3>2
  <2>2. CASE m >= i
    <3> DEFINE x == j + (m - i)
    <3>1. m \in i..n /\ m + 1 \in i..n /\ j + ((m + 1) - i) = x + 1 /\ x \in 1..(n2 - 1)
      BY <1>1, <1>4, <1>7, <2>2
    <3> HIDE DEF x
    <3>2. <<c2[x], c2[x + 1]>> \in DOMAIN w
      BY <3>1 DEF Way
    <3>3. d[m] = c2[x] /\ d[m + 1] = c2[x + 1]
      <4>1. d[m + 1] = c2[j + ((m + 1) - i)]
        BY <1>8, <3>1
      <4>2. QED
        BY <1>8, <3>1, <4>1 DEF x
    <3>4. QED
      BY <3>2, <3>3
  <2>3. QED
    BY <1>4, <1>7, <2>1, <2>2
<1>14. ASSUME NEW m \in 2..(n - 1) PROVE d[m] \in via \cup {k}
  <2>1. CASE m <= i
    <3>1. m \in 1..i /\ (m = n1 \/ m \in 2..(n1 - 1))
      BY <1>1, <1>4, <1>7, <2>1
    <3>2. m \in 2..(n1 - 1) => c1[m] \in via
      BY DEF Way
    <3>3. QED
      BY <1>1, <1>8, <3>1, <3>2
  <2>2. CASE m > i
    <3>1. m \in i..n /\ j + (m - i) \in 2..(n2 - 1)
      BY <1>1, <1>4, <1>7, <2>2
    <3>2. c2[j + (m - i)] \in via
      BY <3>1 DEF Way
    <3>3. QED
      BY <1>8, <3>1, <3>2
  <2>3. QED
    BY <1>4, <1>7, <2>1, <2>2
<1>15. Way(w, d, n, a, b, via \cup {k})
  <2> HIDE DEF n
  <2>1. QED
    BY <1>7, <1>10, <1>11, <1>12, <1>13, <1>14 DEF Way
<1>16. Leg(w, d, 1, i) = Leg(w, c1, 1, i)
  <2>1. ASSUME NEW m \in 0..(i - 1) PROVE d[1 + m] = c1[1 + m]
    <3>1. 1 + m \in 1..i
      BY <1>4
    <3>2. QED
      BY <1>8, <3>1
  <2>2. i - 1 \in Nat /\ 1 + (i - 1) = i
    BY <1>4
  <2> DEFINE z == i - 1
  <2>3. Leg(w, d, 1, 1 + z) = Leg(w, c1, 1, 1 + z)
    <3> HIDE DEF z
    <3>1. z \in Nat /\ 1 \in Nat /\ Alike(d, 1, c1, 1, z)
      BY <2>1, <2>2 DEF Alike, z
    <3>2. QED
      BY <3>1, LegSame
  <2>4. QED
    BY <2>2, <2>3
<1>17. Leg(w, d, i, n) = Leg(w, c2, j, n2)
  <2> DEFINE z == n2 - j
  <2>1. z \in Nat /\ i + z = n /\ j + z = n2 /\ j \in Nat
    BY <1>1
  <2>2. ASSUME NEW m \in 0..z PROVE d[i + m] = c2[j + m]
    <3>1. i + m \in i..n /\ j + ((i + m) - i) = j + m
      BY <1>1, <1>4
    <3>2. d[i + m] = c2[j + ((i + m) - i)]
      BY <1>8, <3>1
    <3>3. QED
      BY <3>1, <3>2
  <2> HIDE DEF z, n
  <2>3. Leg(w, d, i, i + z) = Leg(w, c2, j, j + z)
    <3>1. Alike(d, i, c2, j, z)
      BY <2>2 DEF Alike
    <3>2. QED
      BY <1>4, <2>1, <3>1, LegSame
  <2>4. QED
    BY <2>1, <2>3
<1>18. i \in 1..n
  BY <1>4, <1>7
<1> HIDE DEF n
<1>19. Leg(w, d, 1, n) = Leg(w, d, 1, i) + Leg(w, d, i, n)
  BY <1>15, <1>18, WayLegs
<1>20. /\ Leg(w, c1, 1, i) \in Nat /\ Leg(w, c1, i, n1) \in Nat
       /\ Leg(w, c1, 1, n1) = Leg(w, c1, 1, i) + Leg(w, c1, i, n1)
  BY <1>4, WayLegs
<1>21. /\ Leg(w, c2, 1, j) \in Nat /\ Leg(w, c2, j, n2) \in Nat
       /\ Leg(w, c2, 1, n2) = Leg(w, c2, 1, j) + Leg(w, c2, j, n2)
  BY WayLegs
<1>22. Leg(w, d, 1, n) <= Leg(w, c1, 1, n1) + Leg(w, c2, 1, n2)
  BY <1>16, <1>17, <1>19, <1>20, <1>21
<1>23. QED
  BY <1>15, <1>22

(* A chain by way of k is two, to k and from there.                        *)
Parts(w, c, n, a, b, via, k) ==
  \E c1, n1, c2, n2 :
    /\ Way(w, c1, n1, a, k, via) /\ Way(w, c2, n2, k, b, via)
    /\ Leg(w, c1, 1, n1) \in Nat /\ Leg(w, c2, 1, n2) \in Nat
    /\ Leg(w, c, 1, n) = Leg(w, c1, 1, n1) + Leg(w, c2, 1, n2)

(* Every chain by way of k has these two parts.                            *)
LEMMA WayParts ==
  ASSUME NEW w \in PathSet, NEW via, NEW a, NEW b, NEW k, NEW c, NEW n,
         Way(w, c, n, a, b, via \cup {k}), NEW i \in 2..(n - 1), c[i] = k
  PROVE  Parts(w, c, n, a, b, via, k)
<1> DEFINE m == n - i + 1
           c1 == [x \in 1..i |-> c[x]]
           c2 == [x \in 1..m |-> c[i - 1 + x]]
<1>1. /\ n \in Nat /\ c \in [1..n -> Stations] /\ c[1] = a /\ c[n] = b
      /\ \A x, y \in 1..n : c[x] = c[y] => x = y
      /\ \A x \in 1..(n - 1) : <<c[x], c[x + 1]>> \in DOMAIN w
      /\ \A x \in 2..(n - 1) : x # i => c[x] \in via
  <2>1. Way(w, c, n, a, b, via \cup {k})
    OBVIOUS
  <2>2. /\ n \in Nat /\ c \in [1..n -> Stations] /\ c[1] = a /\ c[n] = b
        /\ \A x, y \in 1..n : c[x] = c[y] => x = y
        /\ \A x \in 1..(n - 1) : <<c[x], c[x + 1]>> \in DOMAIN w
        /\ \A x \in 2..(n - 1) : c[x] \in via \cup {k}
    BY <2>1 DEF Way
  <2>3. ASSUME NEW x \in 2..(n - 1), x # i PROVE c[x] \in via
    <3>1. x \in 1..n /\ i \in 1..n
      BY <2>2
    <3>2. c[x] # k
      BY <2>2, <2>3, <3>1
    <3>3. QED
      BY <2>2, <3>2
  <2>4. QED
    BY <2>2, <2>3
<1>2. /\ i \in Nat /\ 2 <= i /\ i <= n - 1 /\ m \in Nat /\ m >= 2 /\ i - 1 + m = n
      /\ i \in 1..n /\ n \in 1..n /\ 1 \in 1..i
  BY <1>1
<1>3. Way(w, c1, i, a, k, via)
  <2>1. \A x \in 1..i : x \in 1..n /\ c1[x] = c[x]
    BY <1>2
  <2>2. c1 \in [1..i -> Stations]
    BY <1>1, <2>1
  <2> HIDE DEF c1
  <2>3. \A x, y \in 1..i : c1[x] = c1[y] => x = y
    BY <1>1, <2>1
  <2>4. c1[1] = a /\ c1[i] = k
    BY <1>1, <1>2, <2>1
  <2>5. ASSUME NEW x \in 1..(i - 1) PROVE <<c1[x], c1[x + 1]>> \in DOMAIN w
    <3>1. x \in 1..i /\ x + 1 \in 1..i /\ x \in 1..(n - 1)
      BY <1>1, <1>2
    <3>2. QED
      BY <1>1, <2>1, <3>1
  <2>6. ASSUME NEW x \in 2..(i - 1) PROVE c1[x] \in via
    <3>1. x \in 1..i /\ x \in 2..(n - 1) /\ x # i
      BY <1>1, <1>2
    <3>2. QED
      BY <1>1, <2>1, <3>1
  <2>7. QED
    BY <1>2, <2>2, <2>3, <2>4, <2>5, <2>6 DEF Way
<1>4. \A x \in 1..m : i - 1 + x \in 1..n /\ c2[x] = c[i - 1 + x]
  BY <1>1, <1>2
<1>5. Way(w, c2, m, k, b, via)
  <2>1. c2 \in [1..m -> Stations]
    BY <1>1, <1>4
  <2> HIDE DEF c2
  <2>2. ASSUME NEW x \in 1..m, NEW y \in 1..m, c2[x] = c2[y] PROVE x = y
    <3>1. i - 1 + x = i - 1 + y
      BY <1>1, <1>4, <2>2
    <3>2. QED
      BY <1>2, <3>1
  <2>3. c2[1] = k /\ c2[m] = b
    <3>1. 1 \in 1..m /\ m \in 1..m /\ i - 1 + 1 = i
      BY <1>2
    <3>2. QED
      BY <1>1, <1>2, <1>4, <3>1
  <2>4. ASSUME NEW x \in 1..(m - 1) PROVE <<c2[x], c2[x + 1]>> \in DOMAIN w
    <3>1. /\ x \in 1..m /\ x + 1 \in 1..m /\ i - 1 + x \in 1..(n - 1)
          /\ i - 1 + (x + 1) = (i - 1 + x) + 1
      BY <1>1, <1>2
    <3>2. c2[x] = c[i - 1 + x] /\ c2[x + 1] = c[(i - 1 + x) + 1]
      BY <1>4, <3>1
    <3> DEFINE z == i - 1 + x
    <3> HIDE DEF z, m
    <3>3. <<c[z], c[z + 1]>> \in DOMAIN w
      BY <1>1, <3>1 DEF z
    <3>4. QED
      BY <3>2, <3>3 DEF z
  <2>5. ASSUME NEW x \in 2..(m - 1) PROVE c2[x] \in via
    <3>1. x \in 1..m /\ i - 1 + x \in 2..(n - 1) /\ i - 1 + x # i
      BY <1>1, <1>2
    <3>2. c2[x] = c[i - 1 + x]
      BY <1>4, <3>1
    <3>3. QED
      BY <1>1, <3>1, <3>2
  <2> HIDE DEF m
  <2>6. QED
    BY <1>2, <2>1, <2>2, <2>3, <2>4, <2>5 DEF Way
<1>6. Leg(w, c1, 1, i) = Leg(w, c, 1, i)
  <2>1. ASSUME NEW y \in 1..(i - 1) PROVE c1[1 + y - 1] = c[1 + y - 1] /\ c1[1 + y] = c[1 + y]
    <3>1. 1 + y \in 1..i /\ 1 + y - 1 \in 1..i
      BY <1>2
    <3>2. QED
      BY <3>1
  <2> HIDE DEF c1
  <2>2. [y \in 1..(i - 1) |-> w[<<c1[1 + y - 1], c1[1 + y]>>]]
          = [y \in 1..(i - 1) |-> w[<<c[1 + y - 1], c[1 + y]>>]]
    BY <2>1
  <2>3. QED
    BY <2>2 DEF Leg
<1>7. Leg(w, c2, 1, m) = Leg(w, c, i, n)
  <2> DEFINE z == m - 1
  <2>1. z \in Nat /\ 1 + z = m /\ i + z = n /\ 1 \in Nat
    BY <1>1, <1>2
  <2>2. ASSUME NEW y \in 0..z PROVE c2[1 + y] = c[i + y]
    <3>1. 1 + y \in 1..m /\ i - 1 + (1 + y) = i + y
      BY <1>2
    <3>2. c2[1 + y] = c[i - 1 + (1 + y)]
      BY <1>4, <3>1
    <3>3. QED
      BY <3>1, <3>2
  <2> HIDE DEF z, c2, m
  <2>3. Leg(w, c2, 1, 1 + z) = Leg(w, c, i, i + z)
    <3>1. Alike(c2, 1, c, i, z)
      BY <2>2 DEF Alike
    <3>2. QED
      BY <1>2, <2>1, <3>1, LegSame
  <2>4. QED
    BY <2>1, <2>3
<1>8. /\ Leg(w, c, 1, i) \in Nat /\ Leg(w, c, i, n) \in Nat
      /\ Leg(w, c, 1, n) = Leg(w, c, 1, i) + Leg(w, c, i, n)
  BY <1>2, WayLegs
<1> HIDE DEF c1, c2, m
<1>9. QED
  BY <1>3, <1>5, <1>6, <1>7, <1>8 DEF Parts

(* What a chain may pass does not end it.                                  *)
LEMMA WayMore ==
  ASSUME NEW w, NEW c, NEW n, NEW a, NEW b, NEW via, NEW more, via \subseteq more,
         Way(w, c, n, a, b, via)
  PROVE  Way(w, c, n, a, b, more)
BY DEF Way

(* Which footpaths there are by way of k, and how fast they are.           *)
Detour(f, k, a, b) ==
  /\ a # b /\ <<a, k>> \in DOMAIN f /\ <<k, b>> \in DOMAIN f
  /\ f[<<a, k>>] + f[<<k, b>>] <= MaxTransfer

(* A round of the closure keeps what there is and takes every shorter way. *)
LEMMA ViaIs ==
  ASSUME NEW f \in PathSet, NEW k \in Stations
  PROVE  /\ Via(f, k) \in PathSet
         /\ \A a, b \in Stations :
              /\ <<a, b>> \in DOMAIN Via(f, k) <=> <<a, b>> \in DOMAIN f \/ Detour(f, k, a, b)
              /\ <<a, b>> \in DOMAIN f =>
                   /\ Via(f, k)[<<a, b>>] <= f[<<a, b>>]
                   /\ ~ Detour(f, k, a, b) => Via(f, k)[<<a, b>>] = f[<<a, b>>]
              /\ Detour(f, k, a, b) =>
                   /\ Via(f, k)[<<a, b>>] <= f[<<a, k>>] + f[<<k, b>>]
                   /\ \/ <<a, b>> \in DOMAIN f /\ Via(f, k)[<<a, b>>] = f[<<a, b>>]
                      \/ Via(f, k)[<<a, b>>] = f[<<a, k>>] + f[<<k, b>>]
<1> DEFINE short == {p \in Stations \X Stations :
                       /\ p[1] # p[2] /\ {<<p[1], k>>, <<k, p[2]>>} \subseteq DOMAIN f
                       /\ f[<<p[1], k>>] + f[<<k, p[2]>>] <= MaxTransfer}
           by(p) == f[<<p[1], k>>] + f[<<k, p[2]>>]
           v == Via(f, k)
           D == DOMAIN f \cup short
<1>1. v = [p \in D |-> IF p \notin short THEN f[p]
                       ELSE IF p \notin DOMAIN f THEN by(p)
                       ELSE Min({by(p), f[p]})]
  BY DEF Via
<1>2. DOMAIN f \subseteq Pairs /\ \A p \in DOMAIN f : f[p] \in Nat /\ f[p] <= MaxTransfer
  BY PathSetIs
<1>3. \A p \in short : by(p) \in Nat /\ by(p) <= MaxTransfer
  BY <1>2
<1>4. ASSUME NEW x \in Nat, NEW y \in Nat
      PROVE  Min({x, y}) \in {x, y} /\ Min({x, y}) <= x /\ Min({x, y}) <= y
  <2>1. {x, y} \in SUBSET Nat /\ {x, y} # {}
    OBVIOUS
  <2>2. QED
    BY <2>1, MinIsLeast
<1> HIDE DEF v
<1>5. DOMAIN v = D
  BY <1>1
<1>6. ASSUME NEW p \in D
      PROVE  /\ v[p] \in 0..MaxTransfer
             /\ p \in DOMAIN f => v[p] <= f[p] /\ (p \notin short => v[p] = f[p])
             /\ p \in short => v[p] <= by(p) /\ ((p \in DOMAIN f /\ v[p] = f[p]) \/ v[p] = by(p))
  <2>1. CASE p \notin short
    <3>1. p \in DOMAIN f /\ v[p] = f[p]
      BY <1>1, <1>6, <2>1
    <3>2. QED
      BY <1>2, <2>1, <3>1
  <2>2. CASE p \in short /\ p \notin DOMAIN f
    <3>1. v[p] = by(p)
      BY <1>1, <2>2
    <3>2. QED
      BY <1>3, <2>2, <3>1
  <2>3. CASE p \in short /\ p \in DOMAIN f
    <3> DEFINE x == by(p)
               y == f[p]
    <3>1. v[p] = Min({x, y})
      BY <1>1, <2>3
    <3>2. x \in Nat /\ y \in Nat /\ x <= MaxTransfer /\ y <= MaxTransfer
      BY <1>2, <1>3, <2>3
    <3> HIDE DEF x, y
    <3>3. v[p] \in {x, y} /\ v[p] <= x /\ v[p] <= y
      BY <1>4, <3>1, <3>2
    <3>4. v[p] \in 0..MaxTransfer
      BY <3>2, <3>3, DayAssumption
    <3>5. QED
      BY <2>3, <3>3, <3>4 DEF x, y
  <2>4. QED
    BY <2>1, <2>2, <2>3
<1>7. D \in SUBSET Pairs
  BY <1>2 DEF Pairs
<1>8. v \in PathSet
  <2>1. v \in [D -> 0..MaxTransfer]
    <3>1. v = [p \in D |-> v[p]]
      BY <1>1
    <3>2. QED
      BY <1>6, <3>1
  <2>2. QED
    BY <1>7, <2>1 DEF PathSet
<1>9. \A a, b \in Stations : /\ <<a, b>> \in short <=> Detour(f, k, a, b)
                             /\ by(<<a, b>>) = f[<<a, k>>] + f[<<k, b>>]
  BY DEF Detour
<1> HIDE DEF short, by
<1>10. ASSUME NEW a \in Stations, NEW b \in Stations
       PROVE /\ <<a, b>> \in DOMAIN v <=> <<a, b>> \in DOMAIN f \/ Detour(f, k, a, b)
             /\ <<a, b>> \in DOMAIN f =>
                   /\ v[<<a, b>>] <= f[<<a, b>>]
                   /\ ~ Detour(f, k, a, b) => v[<<a, b>>] = f[<<a, b>>]
             /\ Detour(f, k, a, b) =>
                   /\ v[<<a, b>>] <= f[<<a, k>>] + f[<<k, b>>]
                   /\ \/ <<a, b>> \in DOMAIN f /\ v[<<a, b>>] = f[<<a, b>>]
                      \/ v[<<a, b>>] = f[<<a, k>>] + f[<<k, b>>]
  <2> DEFINE p == <<a, b>>
  <2>1. p \in short <=> Detour(f, k, a, b)
    BY <1>9
  <2>2. by(p) = f[<<a, k>>] + f[<<k, b>>]
    BY <1>9
  <2> HIDE DEF p
  <2>3. p \in DOMAIN v <=> p \in DOMAIN f \/ Detour(f, k, a, b)
    BY <1>5, <2>1
  <2>4. p \in DOMAIN f => v[p] <= f[p] /\ (~ Detour(f, k, a, b) => v[p] = f[p])
    BY <1>6, <2>1
  <2>5. Detour(f, k, a, b) =>
          /\ v[p] <= f[<<a, k>>] + f[<<k, b>>]
          /\ (p \in DOMAIN f /\ v[p] = f[p]) \/ v[p] = f[<<a, k>>] + f[<<k, b>>]
    BY <1>6, <2>1, <2>2
  <2>6. QED
    BY <2>3, <2>4, <2>5 DEF p
<1>11. QED
  BY <1>8, <1>10 DEF v

(* A round of the closure takes in one station more.                       *)
LEMMA ViaStep ==
  ASSUME NEW w \in PathSet, NEW via, NEW k \in Stations, NEW f, AsFastAs(f, w, via)
  PROVE  AsFastAs(Via(f, k), w, via \cup {k})
<1> DEFINE v == Via(f, k)
<1>1. /\ f \in PathSet
      /\ \A a, b \in Stations :
           <<a, b>> \in DOMAIN f =>
             \E c, n : Way(w, c, n, a, b, via) /\ Leg(w, c, 1, n) <= f[<<a, b>>]
      /\ \A a, b \in Stations : \A c, n :
           Way(w, c, n, a, b, via) /\ Leg(w, c, 1, n) <= MaxTransfer =>
             <<a, b>> \in DOMAIN f /\ f[<<a, b>>] <= Leg(w, c, 1, n)
  BY DEF AsFastAs
<1>2. /\ v \in PathSet
      /\ \A a, b \in Stations :
              /\ <<a, b>> \in DOMAIN v <=> <<a, b>> \in DOMAIN f \/ Detour(f, k, a, b)
              /\ <<a, b>> \in DOMAIN f =>
                   /\ v[<<a, b>>] <= f[<<a, b>>]
                   /\ ~ Detour(f, k, a, b) => v[<<a, b>>] = f[<<a, b>>]
              /\ Detour(f, k, a, b) =>
                   /\ v[<<a, b>>] <= f[<<a, k>>] + f[<<k, b>>]
                   /\ \/ <<a, b>> \in DOMAIN f /\ v[<<a, b>>] = f[<<a, b>>]
                      \/ v[<<a, b>>] = f[<<a, k>>] + f[<<k, b>>]
  BY <1>1, ViaIs
<1>3. \A p \in DOMAIN f : f[p] \in Nat
  BY <1>1, PathSetIs
<1>4. \A p \in DOMAIN v : v[p] \in Nat
  BY <1>2, PathSetIs
<1> HIDE DEF v
<1>5. ASSUME NEW c, NEW n, NEW a, NEW b, NEW u, Way(w, c, n, a, b, u)
      PROVE  Leg(w, c, 1, n) \in Nat
  <2>1. n \in 1..n
    BY <1>5 DEF Way
  <2>2. QED
    BY <1>5, <2>1, WayLegs
<1>6. ASSUME NEW a \in Stations, NEW b \in Stations, <<a, b>> \in DOMAIN v
      PROVE  \E c, n : Way(w, c, n, a, b, via \cup {k}) /\ Leg(w, c, 1, n) <= v[<<a, b>>]
  <2>1. CASE <<a, b>> \in DOMAIN f /\ v[<<a, b>>] = f[<<a, b>>]
    <3>1. PICK c, n : Way(w, c, n, a, b, via) /\ Leg(w, c, 1, n) <= f[<<a, b>>]
      BY <1>1, <2>1
    <3>2. Way(w, c, n, a, b, via \cup {k})
      BY <3>1, WayMore
    <3>3. QED
      BY <2>1, <3>1, <3>2
  <2>2. CASE Detour(f, k, a, b) /\ v[<<a, b>>] = f[<<a, k>>] + f[<<k, b>>]
    <3>1. a # b /\ <<a, k>> \in DOMAIN f /\ <<k, b>> \in DOMAIN f
      BY <2>2 DEF Detour
    <3>2. PICK c1, n1 : Way(w, c1, n1, a, k, via) /\ Leg(w, c1, 1, n1) <= f[<<a, k>>]
      BY <1>1, <3>1
    <3>3. PICK c2, n2 : Way(w, c2, n2, k, b, via) /\ Leg(w, c2, 1, n2) <= f[<<k, b>>]
      BY <1>1, <3>1
    <3>4. PICK c, n : /\ Way(w, c, n, a, b, via \cup {k})
                      /\ Leg(w, c, 1, n) <= Leg(w, c1, 1, n1) + Leg(w, c2, 1, n2)
      BY <3>1, <3>2, <3>3, WaysMeet
    <3>5. /\ Leg(w, c, 1, n) \in Nat /\ Leg(w, c1, 1, n1) \in Nat /\ Leg(w, c2, 1, n2) \in Nat
          /\ f[<<a, k>>] \in Nat /\ f[<<k, b>>] \in Nat
      BY <1>3, <1>5, <3>1, <3>2, <3>3, <3>4
    <3>6. Leg(w, c, 1, n) <= v[<<a, b>>]
      BY <2>2, <3>2, <3>3, <3>4, <3>5
    <3>7. QED
      BY <3>4, <3>6
  <2>3. QED
    BY <1>2, <1>6, <2>1, <2>2
<1>7. ASSUME NEW a \in Stations, NEW b \in Stations, NEW c, NEW n,
             Way(w, c, n, a, b, via \cup {k}), Leg(w, c, 1, n) <= MaxTransfer
      PROVE  <<a, b>> \in DOMAIN v /\ v[<<a, b>>] <= Leg(w, c, 1, n)
  <2>0. Leg(w, c, 1, n) \in Nat
    BY <1>5, <1>7
  <2>1. CASE \E i \in 2..(n - 1) : c[i] = k
    <3>1. PICK i \in 2..(n - 1) : c[i] = k
      BY <2>1
    <3>2. Parts(w, c, n, a, b, via, k)
      BY <1>7, <3>1, WayParts
    <3>3. PICK c1, n1, c2, n2 :
            /\ Way(w, c1, n1, a, k, via) /\ Way(w, c2, n2, k, b, via)
            /\ Leg(w, c1, 1, n1) \in Nat /\ Leg(w, c2, 1, n2) \in Nat
            /\ Leg(w, c, 1, n) = Leg(w, c1, 1, n1) + Leg(w, c2, 1, n2)
      BY <3>2 DEF Parts
    <3>4. Leg(w, c1, 1, n1) <= MaxTransfer /\ Leg(w, c2, 1, n2) <= MaxTransfer
      BY <1>7, <3>3, DayAssumption
    <3>5. /\ <<a, k>> \in DOMAIN f /\ f[<<a, k>>] <= Leg(w, c1, 1, n1)
          /\ <<k, b>> \in DOMAIN f /\ f[<<k, b>>] <= Leg(w, c2, 1, n2)
      BY <1>1, <3>3, <3>4
    <3>6. f[<<a, k>>] \in Nat /\ f[<<k, b>>] \in Nat
      BY <1>3, <3>5
    <3>7. f[<<a, k>>] + f[<<k, b>>] <= Leg(w, c, 1, n)
      BY <3>3, <3>5, <3>6
    <3>8. a # b
      <4>1. n \in Nat /\ n >= 2 /\ 1 \in 1..n /\ n \in 1..n
        BY <1>7 DEF Way
      <4>2. c[1] = a /\ c[n] = b /\ (c[1] = c[n] => 1 = n)
        BY <1>7, <4>1 DEF Way
      <4>3. QED
        BY <4>1, <4>2
    <3>9. Detour(f, k, a, b)
      BY <1>7, <2>0, <3>5, <3>6, <3>7, <3>8, DayAssumption DEF Detour
    <3>10. <<a, b>> \in DOMAIN v /\ v[<<a, b>>] <= f[<<a, k>>] + f[<<k, b>>]
      BY <1>2, <3>9
    <3>11. v[<<a, b>>] \in Nat
      BY <1>4, <3>10
    <3>12. QED
      BY <2>0, <3>6, <3>7, <3>10, <3>11
  <2>2. CASE \A i \in 2..(n - 1) : c[i] # k
    <3>1. Way(w, c, n, a, b, via)
      BY <1>7, <2>2 DEF Way
    <3>2. <<a, b>> \in DOMAIN f /\ f[<<a, b>>] <= Leg(w, c, 1, n)
      BY <1>1, <1>7, <3>1
    <3>3. <<a, b>> \in DOMAIN v /\ v[<<a, b>>] <= f[<<a, b>>]
      BY <1>2, <3>2
    <3>4. v[<<a, b>>] \in Nat /\ f[<<a, b>>] \in Nat
      BY <1>3, <1>4, <3>2, <3>3
    <3>5. QED
      BY <2>0, <3>2, <3>3, <3>4
  <2>3. QED
    BY <2>1, <2>2
<1>8. AsFastAs(v, w, via \cup {k})
  BY <1>2, <1>6, <1>7 DEF AsFastAs
<1>9. QED
  BY <1>8 DEF v

(* Before the first round there are only the chains of two stations.       *)
LEMMA ViaNone ==
  ASSUME NEW w \in PathSet
  PROVE  AsFastAs(w, w, {})
<1>1. DOMAIN w \subseteq Pairs /\ \A p \in DOMAIN w : w[p] \in Nat /\ w[p] <= MaxTransfer
  BY PathSetIs
<1>2. ASSUME NEW c, w[<<c[1], c[2]>>] \in Nat
      PROVE  Leg(w, c, 1, 2) = w[<<c[1], c[2]>>]
  <2> DEFINE g == [m \in 1..(2 - 1) |-> w[<<c[1 + m - 1], c[1 + m]>>]]
  <2>1. g[1] = w[<<c[1], c[2]>>] /\ 1..(2 - 1) = 1..(0 + 1)
    OBVIOUS
  <2>2. Leg(w, c, 1, 2) = SumFunctionOnSet(g, 1..(2 - 1))
    BY DEF Leg
  <2> HIDE DEF g
  <2>3. /\ SumFunctionOnSet(g, 1..0) \in Int
        /\ SumFunctionOnSet(g, 1..(0 + 1)) = SumFunctionOnSet(g, 1..0) + g[0 + 1]
    <3>1. 0 \in Nat /\ \A i \in 1..(0 + 1) : g[i] \in Int
      BY <1>2, <2>1
    <3>2. QED
      BY <3>1, SumUpTo
  <2>4. SumFunctionOnSet(g, 1..0) = 0
    <3>1. 1..0 = {}
      OBVIOUS
    <3>2. QED
      BY <3>1, SumEmpty
  <2>5. SumFunctionOnSet(g, 1..(0 + 1)) = g[1]
    BY <1>2, <2>1, <2>3, <2>4
  <2>6. QED
    BY <2>1, <2>2, <2>5
<1>3. ASSUME NEW a \in Stations, NEW b \in Stations, <<a, b>> \in DOMAIN w
      PROVE  \E c, n : Way(w, c, n, a, b, {}) /\ Leg(w, c, 1, n) <= w[<<a, b>>]
  <2> DEFINE c == [m \in 1..2 |-> IF m = 1 THEN a ELSE b]
  <2>1. c \in [1..2 -> Stations] /\ c[1] = a /\ c[2] = b
    OBVIOUS
  <2>2. a # b
    BY <1>1, <1>3 DEF Pairs
  <2> HIDE DEF c
  <2>3. Leg(w, c, 1, 2) = w[<<a, b>>] /\ w[<<a, b>>] <= w[<<a, b>>]
    BY <1>1, <1>2, <1>3, <2>1
  <2>4. Way(w, c, 2, a, b, {})
    <3>1. \A x \in 1..2 : x = 1 \/ x = 2
      OBVIOUS
    <3>2. \A x, y \in 1..2 : c[x] = c[y] => x = y
      BY <2>1, <2>2, <3>1
    <3>3. \A x \in 1..(2 - 1) : x = 1 /\ x + 1 = 2
      OBVIOUS
    <3>4. \A x \in 1..(2 - 1) : <<c[x], c[x + 1]>> \in DOMAIN w
      BY <1>3, <2>1, <3>3
    <3>5. 2..(2 - 1) = {}
      OBVIOUS
    <3>6. QED
      BY <2>1, <3>2, <3>4, <3>5 DEF Way
  <2>5. QED
    BY <2>3, <2>4
<1>4. ASSUME NEW a \in Stations, NEW b \in Stations, NEW c, NEW n, Way(w, c, n, a, b, {})
      PROVE  <<a, b>> \in DOMAIN w /\ w[<<a, b>>] <= Leg(w, c, 1, n)
  <2>1. n \in Nat /\ n >= 2 /\ \A i \in 2..(n - 1) : c[i] \in {}
    BY <1>4 DEF Way
  <2>2. n = 2
    <3>1. n > 2 => 2 \in 2..(n - 1)
      BY <2>1
    <3>2. QED
      BY <2>1, <3>1
  <2>3. <<c[1], c[2]>> \in DOMAIN w /\ c[1] = a /\ c[2] = b
    <3>1. 1 \in 1..(n - 1) /\ 1 + 1 = 2
      BY <2>2
    <3>2. <<c[1], c[1 + 1]>> \in DOMAIN w /\ c[1] = a /\ c[n] = b
      BY <1>4, <3>1 DEF Way
    <3>3. QED
      BY <2>2, <3>1, <3>2
  <2>4. w[<<a, b>>] \in Nat /\ Leg(w, c, 1, n) = w[<<a, b>>]
    BY <1>1, <1>2, <2>2, <2>3
  <2>5. QED
    BY <2>3, <2>4
<1>5. QED
  BY <1>3, <1>4 DEF AsFastAs

(* The rounds of the closure, one station at a time.                       *)
Rounds(h, w, E, n) ==
  /\ FoldLeft(Via, w, E) = h[1..n]
  /\ h[1..0] = w
  /\ \A k \in Nat : k < n => h[1..(k + 1)] = Via(h[1..k], E[k + 1])

(* There are such rounds.                                                  *)
LEMMA ClosingUnfolds ==
  ASSUME NEW n \in Nat, NEW E \in [1..n -> Stations], NEW w \in PathSet
  PROVE  \E h : Rounds(h, w, E, n)
<1> DEFINE st == [q \in PathSet \X (1..n) |-> Via(q[1], E[q[2]])]
<1>1. \A v \in PathSet : \A i \in 1..n : st[<<v, i>>] = Via(v, E[i]) /\ st[<<v, i>>] \in PathSet
  BY ViaIs
<1> HIDE DEF st
<1>3. PICK f : IsFold(f, n, w, st) /\ \A s \in SUBSET (1..n) : f[s] \in PathSet
  BY <1>1, FoldExists
<1> DEFINE IsPass(h) ==
             h = [s \in SUBSET (1..n) |->
                    IF s = {} THEN w ELSE Via(h[s \ {Max(s)}], E[Max(s)])]
<1>4. ASSUME NEW s \in SUBSET (1..n), s # {}
      PROVE  Max(s) \in 1..n /\ s \ {Max(s)} \in SUBSET (1..n)
  <2>1. s \in SUBSET (0..n)
    OBVIOUS
  <2>2. Max(s) \in s
    BY <1>4, <2>1, MaxIsGreatest
  <2>3. QED
    BY <2>2
<1>5. IsPass(f)
  <2>1. \A s \in SUBSET (1..n) :
          s # {} => st[<<f[s \ {Max(s)}], Max(s)>>] = Via(f[s \ {Max(s)}], E[Max(s)])
    BY <1>1, <1>3, <1>4
  <2>2. QED
    BY <1>3, <2>1 DEF IsFold
<1>6. PICK h : IsPass(h) /\ FoldLeft(Via, w, E) = h[1..n]
  BY <1>5 DEF FoldLeft, MapThenFoldSet
<1>7. \A s \in SUBSET (1..n) :
        h[s] = IF s = {} THEN w ELSE Via(h[s \ {Max(s)}], E[Max(s)])
  BY <1>6
<1>8. h[1..0] = w
  <2>1. 1..0 = {} /\ {} \in SUBSET (1..n)
    OBVIOUS
  <2>2. QED
    BY <1>7, <2>1
<1>9. ASSUME NEW k \in Nat, k < n PROVE h[1..(k + 1)] = Via(h[1..k], E[k + 1])
  <2>1. 1..(k + 1) \in SUBSET (1..n) /\ 1..(k + 1) # {}
    <3>1. k + 1 \in 1..(k + 1) /\ \A i \in 1..(k + 1) : i \in 1..n
      BY <1>9
    <3>2. QED
      BY <3>1
  <2>2. Max(1..(k + 1)) = k + 1 /\ (1..(k + 1)) \ {k + 1} = 1..k
    BY LastOfFirst
  <2>3. QED
    BY <1>7, <2>1, <2>2
<1>10. Rounds(h, w, E, n)
  BY <1>6, <1>8, <1>9 DEF Rounds
<1>11. QED
  BY <1>10

(* The closure is as fast as any chain.                                    *)
LEMMA ClosedIsFastest ==
  ASSUME NEW w \in PathSet, IsFiniteSet(Stations)
  PROVE  AsFastAs(Closed(w), w, Stations)
<1> DEFINE n == Cardinality(Stations)
           E == SetToSeq(Stations)
<1>1. n \in Nat /\ IsFiniteSet(1..n) /\ Cardinality(1..n) = n
  BY FS_CardinalityType, FS_Interval
<1>2. E \in [1..n -> Stations] /\ IsInjective(E)
  <2>1. ExistsBijection(1..n, Stations)
    BY <1>1, FS_SameCardinalityBij
  <2>2. \E g \in [1..n -> Stations] : IsInjective(g)
    BY <2>1 DEF ExistsBijection, Bijection, Injection
  <2>3. QED
    BY <2>2 DEF SetToSeq
<1>3. E \in Surjection(1..n, Stations)
  <2> HIDE DEF E
  <2>1. E \in Injection(1..n, Stations)
    BY <1>2 DEF Injection
  <2>2. QED
    BY <1>1, <2>1, FS_Injection
<1> HIDE DEF E, n
<1>a. PICK h : Rounds(h, w, E, n)
  BY <1>1, <1>2, ClosingUnfolds
<1>4. /\ FoldLeft(Via, w, E) = h[1..n]
      /\ h[1..0] = w
      /\ \A k \in Nat : k < n => h[1..(k + 1)] = Via(h[1..k], E[k + 1])
  BY <1>a DEF Rounds
<1> DEFINE Done(k) == AsFastAs(h[1..k], w, {E[i] : i \in 1..k})
           T == {k \in Nat : k <= n => Done(k)}
<1>5. Done(0)
  <2>1. {E[i] : i \in 1..0} = {}
    OBVIOUS
  <2>2. AsFastAs(w, w, {})
    BY ViaNone
  <2>3. QED
    BY <1>4, <2>1, <2>2
<1>6. ASSUME NEW k \in Nat, k + 1 <= n, Done(k) PROVE Done(k + 1)
  <2> DEFINE f == h[1..k]
             via == {E[i] : i \in 1..k}
             x == E[k + 1]
  <2>1. k < n /\ k + 1 \in 1..n
    BY <1>1, <1>6
  <2>2. x \in Stations /\ h[1..(k + 1)] = Via(f, x)
    BY <1>2, <1>4, <2>1
  <2>3. {E[i] : i \in 1..(k + 1)} = via \cup {x}
    <3>1. \A i \in 1..(k + 1) : i \in 1..k \/ i = k + 1
      OBVIOUS
    <3>2. k + 1 \in 1..(k + 1) /\ \A i \in 1..k : i \in 1..(k + 1)
      OBVIOUS
    <3>3. QED
      BY <3>1, <3>2
  <2>4. AsFastAs(f, w, via)
    BY <1>6
  <2> HIDE DEF f, via, x
  <2>5. AsFastAs(Via(f, x), w, via \cup {x})
    BY <2>2, <2>4, ViaStep
  <2>6. QED
    BY <2>2, <2>3, <2>5
<1> HIDE DEF Done
<1>7. T = Nat
  <2>1. T \in SUBSET Nat /\ 0 \in T
    BY <1>5
  <2>2. ASSUME NEW k \in T PROVE k + 1 \in T
    <3>1. k \in Nat /\ k + 1 \in Nat /\ (k + 1 <= n => k <= n)
      BY <1>1
    <3>2. QED
      BY <1>6, <3>1
  <2> HIDE DEF T
  <2>3. QED
    BY <2>1, <2>2, AllNaturals
<1>8. Done(n)
  <2>1. n \in T /\ n <= n
    BY <1>1, <1>7
  <2>2. QED
    BY <2>1
<1>9. {E[i] : i \in 1..n} = Stations
  BY <1>2, <1>3 DEF Surjection
<1>10. h[1..n] = Closed(w)
  BY <1>4 DEF Closed, E
<1>11. QED
  BY <1>8, <1>9, <1>10 DEF Done
-----------------------------------------------------------------------------
(***************************************************************************)
(* From the rows of a feed to its footpaths.                               *)
(***************************************************************************)

(* What rows that count say of a pair of stations.                         *)
Counted(row) ==
  LET a == StationOf(row.from)
      b == StationOf(row.to)
  IN a # b /\ {a, b} \subseteq UsedStops /\ row.type # 3 /\ row.seconds <= MaxTransfer

Known(rows, a, b) ==
  {r.seconds : r \in {x \in rows : Counted(x) /\ {StationOf(x.from), StationOf(x.to)} = {a, b}}}

FootOfRows(rows) ==
  /\ DOMAIN foot = {p \in Pairs : Known(rows, p[1], p[2]) # {}}
  /\ \A p \in DOMAIN foot : foot[p] = Min(Known(rows, p[1], p[2]))

(* What may be walked in one go.                                           *)
Walks == [p \in {q \in Pairs : Walked(q[1], q[2]) # {}} |-> Min(Walked(p[1], p[2]))]

FootInv ==
  /\ at \in {"calendar", "trips"} => DOMAIN foot = {}
  /\ at = "links" => left \subseteq feed.links /\ FootOfRows(feed.links \ left)
  /\ at = "near" => FootOfRows(feed.links)
  /\ at = "close" => foot = Walks
  /\ at \in {"build", "ready"} => AsFastAs(foot, Walks, Stations)

(* A step that reads no trip leaves what these say of rows as it is.       *)
LEMMA RowsStay ==
  ASSUME feed' = feed, runs' = runs
  PROVE  /\ \A rows : \A a, b : Known(rows, a, b)' = Known(rows, a, b)
         /\ Pairs' = Pairs /\ Walks' = Walks /\ Stations' = Stations
         /\ \A rows : foot' = foot => FootOfRows(rows)' = FootOfRows(rows)
<1>1. UsedStops' = UsedStops
  BY DEF UsedStops
<1>2. /\ Stations' = Stations /\ Pairs' = Pairs
      /\ \A rows : \A a, b : Known(rows, a, b)' = Known(rows, a, b)
  BY <1>1 DEF Pairs, Stations, StationOf, Routable, Known, Counted
<1>3. \A a, b : Walked(a, b)' = Walked(a, b)
  BY <1>1 DEF Walked, Listed, Links, StationOf, Routable
<1>4. Walks' = Walks
  BY <1>2, <1>3 DEF Walks
<1>5. \A rows : foot' = foot => FootOfRows(rows)' = FootOfRows(rows)
  BY <1>2 DEF FootOfRows
<1>6. QED
  BY <1>2, <1>4, <1>5

(* Runs call at stations.                                                  *)
LEMMA UsedAreStations ==
  ASSUME FeedInv
  PROVE  UsedStops \subseteq Stations
<1>1. \A i \in DOMAIN runs : runs[i].calls \in Seq(CallSet)
  BY DEF FeedInv, RealRuns, RunSet
<1>2. \A i \in DOMAIN runs : \A k \in DOMAIN runs[i].calls : runs[i].calls[k] \in CallSet
  BY <1>1
<1>3. \A i \in DOMAIN runs : \A k \in DOMAIN runs[i].calls : runs[i].calls[k].station \in Stations
  BY <1>2 DEF CallSet
<1>4. QED
  BY <1>3 DEF UsedStops

(* The seconds of a pair are the same in both directions, and within the   *)
(* cap.                                                                    *)
LEMMA KnownIs ==
  ASSUME feed \in Feeds, NEW rows \in SUBSET feed.links, NEW a, NEW b
  PROVE  /\ Known(rows, a, b) \in SUBSET (0..MaxTransfer)
         /\ Known(rows, a, b) = Known(rows, b, a)
<1>1. \A r \in rows : r.seconds \in Nat
  BY FeedAssumption DEF IsFeed
<1>2. \A r \in rows : Counted(r) => r.seconds \in 0..MaxTransfer
  BY <1>1, DayAssumption DEF Counted
<1>3. {a, b} = {b, a}
  OBVIOUS
<1>4. QED
  BY <1>2, <1>3 DEF Known

(* What is listed are the rows that count.                                 *)
LEMMA ListedIs ==
  ASSUME NEW a, NEW b
  PROVE  Listed(a, b) = Known(feed.links, a, b)
<1>1. ASSUME NEW s \in Listed(a, b) PROVE s \in Known(feed.links, a, b)
  <2>1. PICK l \in Links : {l.from, l.to} = {a, b} /\ s = l.seconds
    BY <1>1 DEF Listed
  <2>2. /\ l.from # l.to /\ {l.from, l.to} \subseteq UsedStops /\ l.seconds <= MaxTransfer
        /\ \E r \in {x \in feed.links : x.type # 3} :
             l = [from |-> StationOf(r.from), to |-> StationOf(r.to), seconds |-> r.seconds]
    BY DEF Links
  <2>3. PICK r \in feed.links :
               /\ r.type # 3 /\ l.from = StationOf(r.from) /\ l.to = StationOf(r.to)
               /\ l.seconds = r.seconds
    BY <2>2
  <2>4. Counted(r)
    BY <2>2, <2>3 DEF Counted
  <2>5. QED
    BY <2>1, <2>3, <2>4 DEF Known
<1>2. ASSUME NEW s \in Known(feed.links, a, b) PROVE s \in Listed(a, b)
  <2>1. PICK r \in feed.links : /\ Counted(r) /\ {StationOf(r.from), StationOf(r.to)} = {a, b}
                                /\ s = r.seconds
    BY <1>2 DEF Known
  <2> DEFINE l == [from |-> StationOf(r.from), to |-> StationOf(r.to), seconds |-> r.seconds]
  <2>2. l \in Links
    BY <2>1 DEF Counted, Links
  <2>3. QED
    BY <2>1, <2>2 DEF Listed
<1>3. QED
  BY <1>1, <1>2

(* The least of a set and one number more.                                 *)
LEMMA MinAdds ==
  ASSUME NEW S \in SUBSET Nat, S # {}, NEW s \in Nat
  PROVE  /\ Min({s, Min(S)}) = Min(S \cup {s})
         /\ Min({s}) = s
<1> DEFINE m == Min(S)
           t == Min({s, m})
           u == Min(S \cup {s})
<1>1. m \in S /\ \A y \in S : m <= y
  BY MinIsLeast
<1> HIDE DEF m
<1>2. t \in {s, m} /\ t <= s /\ t <= m
  <2>1. {s, m} \in SUBSET Nat /\ {s, m} # {}
    BY <1>1
  <2>2. QED
    BY <2>1, MinIsLeast
<1>3. u \in S \cup {s} /\ \A y \in S \cup {s} : u <= y
  <2>1. S \cup {s} \in SUBSET Nat /\ S \cup {s} # {}
    OBVIOUS
  <2>2. QED
    BY <2>1, MinIsLeast
<1>4. Min({s}) = s
  <2>1. {s} \in SUBSET Nat /\ {s} # {}
    OBVIOUS
  <2>2. Min({s}) \in {s}
    BY <2>1, MinIsLeast
  <2>3. QED
    BY <2>2
<1> HIDE DEF t, u
<1>5. t = u
  <2>1. m \in Nat /\ t \in Nat /\ u \in Nat
    BY <1>1, <1>2, <1>3
  <2>2. t <= u
    BY <1>1, <1>2, <1>3, <2>1
  <2>3. u <= t
    BY <1>1, <1>2, <1>3
  <2>4. QED
    BY <2>1, <2>2, <2>3
<1>6. QED
  BY <1>4, <1>5 DEF t, u, m

(* Another row is read.                                                    *)
LEMMA LinkIsRead ==
  ASSUME FeedInv, NEW row \in feed.links, NEW rows \in SUBSET feed.links, FootOfRows(rows),
         feed' = feed, runs' = runs,
         foot' = IF Counted(row)
                 THEN Linked(foot, BothWays(StationOf(row.from), StationOf(row.to)), row.seconds)
                 ELSE foot
  PROVE  FootOfRows(rows \cup {row})'
<1> DEFINE a == StationOf(row.from)
           b == StationOf(row.to)
           s == row.seconds
           more == rows \cup {row}
<1>0. /\ \A x, y : Known(more, x, y)' = Known(more, x, y)
      /\ Pairs' = Pairs
  BY RowsStay
<1>1. /\ DOMAIN foot = {p \in Pairs : Known(rows, p[1], p[2]) # {}}
      /\ \A p \in DOMAIN foot : foot[p] = Min(Known(rows, p[1], p[2]))
  BY DEF FootOfRows
<1>2. feed \in Feeds /\ s \in Nat
  <2>1. feed \in Feeds
    BY DEF FeedInv
  <2>2. QED
    BY <2>1, FeedAssumption DEF IsFeed
<1>3. \A p \in Pairs : Known(rows, p[1], p[2]) \in SUBSET Nat
  BY <1>2, KnownIs
<1>4. SUFFICES /\ DOMAIN foot' = {p \in Pairs : Known(more, p[1], p[2]) # {}}
               /\ \A p \in DOMAIN foot' : foot'[p] = Min(Known(more, p[1], p[2]))
  BY <1>0 DEF FootOfRows
<1>5. CASE ~ Counted(row)
  <2>1. \A x, y : Known(more, x, y) = Known(rows, x, y)
    BY <1>5 DEF Known
  <2>2. foot' = foot
    BY <1>5
  <2>3. QED
    BY <1>1, <2>1, <2>2
<1>6. CASE Counted(row)
  <2> DEFINE both == BothWays(a, b)
  <2>1. foot' = Linked(foot, both, s)
    BY <1>6
  <2>2. a # b /\ a \in Stations /\ b \in Stations
    BY <1>6, UsedAreStations DEF Counted
  <2>3. both \subseteq Pairs
    BY <2>2 DEF Pairs, BothWays
  <2>4. ASSUME NEW p \in Pairs
        PROVE  Known(more, p[1], p[2]) = Known(rows, p[1], p[2]) \cup (IF p \in both THEN {s} ELSE {})
    <3>1. {a, b} = {p[1], p[2]} <=> p \in both
      <4>1. p = <<p[1], p[2]>>
        BY DEF Pairs
      <4>2. QED
        BY <2>2, <4>1 DEF BothWays
    <3>2. QED
      BY <1>6, <3>1 DEF Known
  <2> HIDE DEF both, a, b, s, more
  <2>5. foot' = [p \in DOMAIN foot \cup both |->
                   IF p \notin both THEN foot[p]
                   ELSE IF p \notin DOMAIN foot THEN s
                   ELSE Min({s, foot[p]})]
    BY <2>1 DEF Linked
  <2>6. DOMAIN foot' = DOMAIN foot \cup both
    BY <2>5
  <2>7. DOMAIN foot' = {p \in Pairs : Known(more, p[1], p[2]) # {}}
    BY <1>1, <2>3, <2>4, <2>6
  <2>8. ASSUME NEW p \in DOMAIN foot' PROVE foot'[p] = Min(Known(more, p[1], p[2]))
    <3>0. p \in DOMAIN foot \cup both /\ p \in Pairs
      BY <2>6, <2>7, <2>8
    <3>1. CASE p \notin both
      <4>1. foot'[p] = foot[p] /\ p \in DOMAIN foot
        BY <2>5, <3>0, <3>1
      <4>2. Known(more, p[1], p[2]) = Known(rows, p[1], p[2])
        BY <2>4, <3>0, <3>1
      <4>3. QED
        BY <1>1, <4>1, <4>2
    <3>2. CASE p \in both /\ p \notin DOMAIN foot
      <4>1. foot'[p] = s
        BY <2>5, <3>0, <3>2
      <4>2. Known(rows, p[1], p[2]) = {}
        BY <1>1, <3>0, <3>2
      <4>3. Known(more, p[1], p[2]) = {s}
        BY <2>4, <3>0, <3>2, <4>2
      <4>4. Min({s}) = s
        <5>1. {s} \in SUBSET Nat /\ {s} # {}
          BY <1>2 DEF s
        <5>2. Min({s}) \in {s}
          BY <5>1, MinIsLeast
        <5>3. QED
          BY <5>2
      <4>5. QED
        BY <4>1, <4>3, <4>4
    <3>3. CASE p \in both /\ p \in DOMAIN foot
      <4> DEFINE K == Known(rows, p[1], p[2])
      <4>1. foot'[p] = Min({s, foot[p]}) /\ foot[p] = Min(K)
        BY <1>1, <2>5, <3>0, <3>3
      <4>2. K \in SUBSET Nat /\ K # {}
        BY <1>1, <1>3, <3>0, <3>3
      <4>3. Known(more, p[1], p[2]) = K \cup {s}
        BY <2>4, <3>0, <3>3
      <4> HIDE DEF K
      <4>4. s \in Nat
        BY <1>2 DEF s
      <4>5. Min({s, Min(K)}) = Min(K \cup {s})
        BY <4>2, <4>4, MinAdds
      <4>6. QED
        BY <4>1, <4>3, <4>5
    <3>4. QED
      BY <3>0, <3>1, <3>2, <3>3
  <2>9. QED
    BY <2>7, <2>8 DEF more
<1>7. QED
  BY <1>5, <1>6

(* A feed has finitely many stations.                                      *)
LEMMA StationsFinite ==
  ASSUME feed \in Feeds
  PROVE  IsFiniteSet(Stations)
<1> DEFINE station == [p \in Routable |-> StationOf(p)]
<1>1. IsFiniteSet(Routable)
  <2>1. IsFiniteSet(DOMAIN feed.stops) /\ Routable \subseteq DOMAIN feed.stops
    BY FeedAssumption DEF IsFeed, Routable
  <2>2. QED
    BY <2>1, FS_Subset
<1>2. Stations = {station[p] : p \in Routable}
  BY DEF Stations
<1>3. QED
  BY <1>1, <1>2, ImageIsFinite

(* Whether footpaths are as fast as chains depends on the stations and on  *)
(* what may be walked, which no step changes after the runs are read.      *)
LEMMA FastStays ==
  ASSUME feed' = feed, runs' = runs, AsFastAs(foot', Walks, Stations)
  PROVE  AsFastAs(foot, Walks, Stations)'
<1>1. Walks' = Walks /\ Stations' = Stations /\ Pairs' = Pairs
  BY RowsStay
<1>2. PathSet' = PathSet
  BY <1>1 DEF PathSet
<1>3. \A c, n, a, b : Way(Walks, c, n, a, b, Stations)' = Way(Walks, c, n, a, b, Stations)
  BY <1>1 DEF Way
<1>4. \A c, n : Leg(Walks, c, 1, n)' = Leg(Walks, c, 1, n)
  BY <1>1
<1>5. QED
  BY <1>1, <1>2, <1>3, <1>4 DEF AsFastAs

(* A pair that is near has one straight line, and may have rows as well.   *)
LEMMA WalkedIs ==
  ASSUME FeedInv, NEW a, NEW b
  PROVE  /\ Walked(a, b) \in SUBSET (0..MaxTransfer)
         /\ Walked(a, b) = Walked(b, a)
<1> DEFINE Straight(x, y) ==
             {n.seconds : n \in {z \in Near : {z.from, z.to} = {x, y} /\ {x, y} \subseteq UsedStops}}
<1>1. feed \in Feeds
  BY DEF FeedInv
<1>2. Listed(a, b) \in SUBSET (0..MaxTransfer) /\ Listed(a, b) = Listed(b, a)
  BY <1>1, KnownIs, ListedIs
<1>3. {a, b} = {b, a}
  OBVIOUS
<1>4. Straight(a, b) = Straight(b, a)
  BY <1>3
<1>5. Straight(a, b) \in SUBSET (0..MaxTransfer)
  BY NearAssumption, DayAssumption
<1>6. \A x, y : Walked(x, y) = IF Listed(x, y) # {} THEN Listed(x, y) ELSE Straight(x, y)
  BY DEF Walked
<1> HIDE DEF Straight
<1>7. QED
  BY <1>2, <1>4, <1>5, <1>6

(* What may be walked in one go are footpaths, the same in both directions.*)
LEMMA WalksAre ==
  ASSUME FeedInv
  PROVE  /\ Walks \in PathSet
         /\ DOMAIN Walks = {p \in Pairs : Walked(p[1], p[2]) # {}}
         /\ \A p \in DOMAIN Walks : Walks[p] = Min(Walked(p[1], p[2]))
<1> DEFINE D == {p \in Pairs : Walked(p[1], p[2]) # {}}
<1>1. Walks = [p \in D |-> Min(Walked(p[1], p[2]))]
  BY DEF Walks
<1>2. ASSUME NEW p \in D PROVE Min(Walked(p[1], p[2])) \in 0..MaxTransfer
  <2>1. Walked(p[1], p[2]) \in SUBSET (0..MaxTransfer) /\ Walked(p[1], p[2]) # {}
    BY WalkedIs
  <2>2. Walked(p[1], p[2]) \in SUBSET Nat
    BY <2>1
  <2>3. Min(Walked(p[1], p[2])) \in Walked(p[1], p[2])
    BY <2>1, <2>2, MinIsLeast
  <2>4. QED
    BY <2>1, <2>3
<1>3. D \in SUBSET Pairs
  OBVIOUS
<1> HIDE DEF D
<1>4. Walks \in [D -> 0..MaxTransfer]
  BY <1>1, <1>2
<1>5. Walks \in PathSet
  BY <1>3, <1>4 DEF PathSet
<1>6. QED
  BY <1>1, <1>5 DEF D

(* The straight lines that are added are those of which no row says        *)
(* anything.                                                               *)
LEMMA SynthesizedAre ==
  ASSUME FeedInv, FootOfRows(feed.links), Synthesize
  PROVE  foot' = Walks
<1> DEFINE near == {n \in Near : /\ {n.from, n.to} \subseteq UsedStops
                                 /\ BothWays(n.from, n.to) \cap DOMAIN foot = {}}
           between(p) == {n \in near : p \in BothWays(n.from, n.to)}
           D == DOMAIN foot \cup {q \in Stations \X Stations : between(q) # {}}
<1>1. foot' = [p \in D |->
                 IF p \in DOMAIN foot THEN foot[p] ELSE Min({n.seconds : n \in between(p)})]
  BY DEF Synthesize
<1>2. /\ DOMAIN foot = {p \in Pairs : Listed(p[1], p[2]) # {}}
      /\ \A p \in DOMAIN foot : foot[p] = Min(Listed(p[1], p[2]))
  BY ListedIs DEF FootOfRows
<1>3. \A x, y : Listed(x, y) = Listed(y, x)
  BY KnownIs, ListedIs DEF FeedInv
<1>4. /\ UsedStops \subseteq Stations
      /\ \A n \in Near : n.from # n.to
  BY UsedAreStations, NearAssumption
<1>5. ASSUME NEW p \in Pairs, p \notin DOMAIN foot
      PROVE  between(p) = {x \in Near : {x.from, x.to} = {p[1], p[2]} /\ {p[1], p[2]} \subseteq UsedStops}
  <2>1. p = <<p[1], p[2]>> /\ <<p[2], p[1]>> \in Pairs /\ p[1] # p[2]
    BY DEF Pairs
  <2>2. <<p[2], p[1]>> \notin DOMAIN foot
    BY <1>2, <1>3, <1>5, <2>1
  <2>3. ASSUME NEW n \in Near
        PROVE  n \in between(p) <=> {n.from, n.to} = {p[1], p[2]} /\ {p[1], p[2]} \subseteq UsedStops
    <3>1. p \in BothWays(n.from, n.to) <=> {n.from, n.to} = {p[1], p[2]}
      BY <1>4, <2>1 DEF BothWays
    <3>2. {n.from, n.to} = {p[1], p[2]} => BothWays(n.from, n.to) = {p, <<p[2], p[1]>>}
      <4>1. {n.from, n.to} = {p[1], p[2]} =>
              (n.from = p[1] /\ n.to = p[2]) \/ (n.from = p[2] /\ n.to = p[1])
        BY <2>1
      <4>2. QED
        BY <2>1, <4>1 DEF BothWays
    <3>3. {n.from, n.to} = {p[1], p[2]} => BothWays(n.from, n.to) \cap DOMAIN foot = {}
      BY <1>5, <2>2, <3>2
    <3>4. QED
      BY <3>1, <3>3
  <2>4. \A n \in between(p) : n \in Near
    OBVIOUS
  <2> HIDE DEF between
  <2>5. QED
    BY <2>3, <2>4
<1>6. ASSUME NEW p \in Stations \X Stations, between(p) # {}
      PROVE  p \in Pairs /\ p \notin DOMAIN foot
  <2>1. PICK n \in near : p \in BothWays(n.from, n.to)
    BY <1>6
  <2>2. n \in Near /\ BothWays(n.from, n.to) \cap DOMAIN foot = {}
    BY <2>1
  <2>3. p[1] # p[2]
    BY <1>4, <2>1, <2>2 DEF BothWays
  <2>4. QED
    BY <2>1, <2>2, <2>3 DEF Pairs
<1>7. ASSUME NEW p \in Pairs
      PROVE  /\ p \in DOMAIN foot => Walked(p[1], p[2]) = Listed(p[1], p[2])
             /\ p \notin DOMAIN foot => Walked(p[1], p[2]) = {n.seconds : n \in between(p)}
  <2>1. CASE p \in DOMAIN foot
    BY <1>2, <2>1 DEF Walked
  <2>2. CASE p \notin DOMAIN foot
    <3>1. Listed(p[1], p[2]) = {}
      BY <1>2, <2>2
    <3>2. Walked(p[1], p[2]) =
            {n.seconds : n \in {x \in Near : {x.from, x.to} = {p[1], p[2]} /\ {p[1], p[2]} \subseteq UsedStops}}
      BY <3>1 DEF Walked
    <3>3. QED
      BY <1>5, <2>2, <3>2
  <2>3. QED
    BY <2>1, <2>2
<1>8. D = {p \in Pairs : Walked(p[1], p[2]) # {}}
  <2>1. ASSUME NEW p \in D PROVE p \in Pairs /\ Walked(p[1], p[2]) # {}
    <3>1. CASE p \in DOMAIN foot
      BY <1>2, <1>7, <3>1
    <3>2. CASE p \notin DOMAIN foot
      <4>1. p \in Stations \X Stations /\ between(p) # {}
        BY <2>1, <3>2
      <4>2. p \in Pairs
        BY <1>6, <4>1
      <4>3. Walked(p[1], p[2]) = {n.seconds : n \in between(p)}
        BY <1>7, <3>2, <4>2
      <4>4. QED
        BY <4>1, <4>2, <4>3
    <3>3. QED
      BY <3>1, <3>2
  <2>2. ASSUME NEW p \in Pairs, Walked(p[1], p[2]) # {} PROVE p \in D
    <3>1. CASE p \in DOMAIN foot
      BY <3>1
    <3>2. CASE p \notin DOMAIN foot
      <4>1. between(p) # {} /\ p \in Stations \X Stations
        BY <1>7, <2>2, <3>2 DEF Pairs
      <4>2. QED
        BY <4>1
    <3>3. QED
      BY <3>1, <3>2
  <2> HIDE DEF D
  <2>3. QED
    BY <2>1, <2>2
<1>9. ASSUME NEW p \in D PROVE foot'[p] = Min(Walked(p[1], p[2]))
  <2>1. p \in Pairs
    BY <1>8, <1>9
  <2> DEFINE sec == {n.seconds : n \in between(p)}
  <2> HIDE DEF between, D
  <2>2. foot'[p] = IF p \in DOMAIN foot THEN foot[p] ELSE Min(sec)
    BY <1>1, <1>9
  <2>3. p \notin DOMAIN foot => Walked(p[1], p[2]) = sec
    BY <1>7, <2>1
  <2>4. QED
    BY <1>2, <1>7, <2>1, <2>2, <2>3
<1> HIDE DEF D, between, near
<1>10. foot' = [p \in D |-> foot'[p]]
  BY <1>1
<1>11. foot' = [p \in D |-> Min(Walked(p[1], p[2]))]
  BY <1>9, <1>10
<1>12. QED
  BY <1>8, <1>11 DEF Walks

(* The footpaths are as they should be before any link is read,            *)
LEMMA FootInit == Init => FootInv
BY DEF Init, FootInv

(* and stay so in each phase of the ingest.                                *)
LEMMA FootStep ==
  ASSUME FeedInv, FootInv, [Next]_vars
  PROVE  FootInv'
<1>1. CASE ReadCalendar \/ \E t \in Trips : ReadTrip(t)
  <2>1. at \in {"calendar", "trips"} /\ at' = "trips" /\ foot' = foot
    BY <1>1 DEF ReadCalendar, ReadTrip
  <2>2. QED
    BY <2>1 DEF FootInv
<1>2. CASE EndOfTrips
  <2>1. /\ at = "trips" /\ at' = "links" /\ left' = feed.links /\ UNCHANGED <<feed, runs, foot>>
    BY <1>2 DEF EndOfTrips
  <2>2. DOMAIN foot = {}
    BY <2>1 DEF FootInv
  <2>3. FootOfRows({})
    <3>1. \A a, b : Known({}, a, b) = {}
      BY DEF Known
    <3>2. QED
      BY <2>2, <3>1 DEF FootOfRows
  <2>4. FootOfRows({})' = FootOfRows({})
    BY <2>1, RowsStay
  <2>5. feed'.links \ left' = {} /\ left' \subseteq feed'.links
    BY <2>1
  <2>6. FootOfRows(feed.links \ left)'
    BY <2>3, <2>4, <2>5 DEF FootOfRows, Known
  <2>7. QED
    BY <2>1, <2>5, <2>6 DEF FootInv
<1>3. ASSUME NEW row \in feed.links, ReadLink(row) PROVE FootInv'
  <2>1. /\ at = "links" /\ at' = "links" /\ row \in left /\ left' = left \ {row}
        /\ feed' = feed /\ runs' = runs
        /\ foot' = IF Counted(row)
                   THEN Linked(foot, BothWays(StationOf(row.from), StationOf(row.to)), row.seconds)
                   ELSE foot
    BY <1>3 DEF ReadLink, Counted
  <2>2. left \subseteq feed.links /\ FootOfRows(feed.links \ left)
    BY <2>1 DEF FootInv
  <2> PICK rows : rows = feed.links \ left
    OBVIOUS
  <2>3. /\ rows \in SUBSET feed.links /\ FootOfRows(rows)
        /\ feed'.links \ left' = rows \cup {row} /\ left' \subseteq feed'.links
    BY <2>1, <2>2
  <2>4. FootOfRows(rows \cup {row})'
    BY <2>1, <2>2, <2>3, LinkIsRead
  <2>5. FootOfRows(feed.links \ left)'
    BY <2>3, <2>4 DEF FootOfRows, Known
  <2>6. QED
    BY <2>1, <2>3, <2>5 DEF FootInv
<1>4. CASE EndOfLinks
  <2>1. /\ at = "links" /\ at' = "near" /\ left = {} /\ UNCHANGED <<feed, runs, foot>>
    BY <1>4 DEF EndOfLinks
  <2>2. FootOfRows(feed.links)
    <3>1. feed.links \ left = feed.links
      BY <2>1
    <3>2. QED
      BY <2>1, <3>1 DEF FootInv
  <2>3. FootOfRows(feed.links)'
    <3> PICK rows : rows = feed.links
      OBVIOUS
    <3>1. FootOfRows(rows)'
      BY <2>1, <2>2, RowsStay
    <3>2. feed'.links = rows
      BY <2>1
    <3>3. QED
      BY <3>1, <3>2 DEF FootOfRows, Known
  <2>4. QED
    BY <2>1, <2>3 DEF FootInv
<1>5. CASE Synthesize
  <2>1. at = "near" /\ at' = "close" /\ feed' = feed /\ runs' = runs
    BY <1>5 DEF Synthesize
  <2>2. foot' = Walks
    BY <1>5, <2>1, SynthesizedAre DEF FootInv
  <2>3. Walks' = Walks
    BY <2>1, RowsStay
  <2>4. QED
    BY <2>1, <2>2, <2>3 DEF FootInv
<1>6. CASE Close
  <2>1. at = "close" /\ at' = "build" /\ feed' = feed /\ runs' = runs /\ foot' = Closed(foot)
    BY <1>6 DEF Close
  <2>2. foot' = Closed(Walks)
    BY <2>1 DEF FootInv
  <2>3. Walks \in PathSet /\ IsFiniteSet(Stations)
    BY WalksAre, StationsFinite DEF FeedInv
  <2>4. AsFastAs(foot', Walks, Stations)
    BY <2>2, <2>3, ClosedIsFastest
  <2>5. AsFastAs(foot, Walks, Stations)'
    BY <2>1, <2>4, FastStays
  <2>6. QED
    BY <2>1, <2>5 DEF FootInv
<1>7. CASE Build
  <2>1. at = "build" /\ at' = "ready" /\ UNCHANGED <<feed, runs, foot>>
    BY <1>7 DEF Build
  <2>2. AsFastAs(foot, Walks, Stations)'
    BY <2>1, FastStays DEF FootInv
  <2>3. QED
    BY <2>1, <2>2 DEF FootInv
<1>8. CASE UNCHANGED vars
  <2>1. UNCHANGED <<at, feed, runs, left, foot>>
    BY <1>8 DEF vars
  <2>2. Walks' = Walks /\ (AsFastAs(foot, Walks, Stations) => AsFastAs(foot, Walks, Stations)')
    BY <2>1, RowsStay, FastStays
  <2>3. (FootOfRows(feed.links) => FootOfRows(feed.links)')
    <3>1. Pairs' = Pairs /\ \A a, b : Known(feed.links, a, b)' = Known(feed.links, a, b)
      <4>1. Pairs' = Pairs
        BY <2>1, RowsStay
      <4>2. UsedStops' = UsedStops
        BY <2>1 DEF UsedStops
      <4>3. QED
        BY <2>1, <4>1, <4>2 DEF Known, Counted, StationOf, Routable
    <3>2. QED
      BY <2>1, <3>1 DEF FootOfRows
  <2>4. (FootOfRows(feed.links \ left) => FootOfRows(feed.links \ left)')
    <3>1. Pairs' = Pairs /\ \A a, b : Known(feed.links \ left, a, b)' = Known(feed.links \ left, a, b)
      <4>1. Pairs' = Pairs
        BY <2>1, RowsStay
      <4>2. UsedStops' = UsedStops
        BY <2>1 DEF UsedStops
      <4>3. QED
        BY <2>1, <4>1, <4>2 DEF Known, Counted, StationOf, Routable
    <3>2. QED
      BY <2>1, <3>1 DEF FootOfRows
  <2>5. QED
    BY <2>1, <2>2, <2>3, <2>4 DEF FootInv
<1>9. QED
  BY <1>1, <1>2, <1>3, <1>4, <1>5, <1>6, <1>7, <1>8 DEF Next

(* The seconds of a chain as the property counts them, and as the closure. *)
LEMMA SecondsAre ==
  ASSUME FeedInv, NEW n \in Nat, n >= 2, NEW c \in [1..n -> Stations],
         \A i \in 1..(n - 1) : <<c[i], c[i + 1]>> \in DOMAIN Walks
  PROVE  Seconds(c) = Leg(Walks, c, 1, n)
<1> DEFINE S == 1..(n - 1)
           g == [m \in S |-> Walks[<<c[1 + m - 1], c[1 + m]>>]]
<1>1. IsFiniteSet(S) /\ S \in SUBSET S
  BY FS_Interval
<1>2. c \in Seq(Stations) /\ Len(c) = n
  OBVIOUS
<1>3. ASSUME NEW m \in S PROVE g[m] = Min(Walked(c[m], c[m + 1])) /\ g[m] \in Int
  <2>1. 1 + m - 1 = m /\ 1 + m = m + 1
    OBVIOUS
  <2>2. g[m] = Walks[<<c[m], c[m + 1]>>]
    BY <2>1
  <2>3. <<c[m], c[m + 1]>> \in DOMAIN Walks
    OBVIOUS
  <2> DEFINE p == <<c[m], c[m + 1]>>
  <2>4. Walks[p] = Min(Walked(p[1], p[2])) /\ Walks[p] \in Nat
    <3> HIDE DEF p
    <3>1. p \in DOMAIN Walks
      BY <2>3 DEF p
    <3>2. QED
      BY <3>1, WalksAre, PathSetIs
  <2>5. QED
    BY <2>2, <2>4
<1> DEFINE Adds(h) ==
             h = [s \in SUBSET S |->
                    IF s = {} THEN 0
                    ELSE Min(Walked(c[Pick(s)], c[Pick(s) + 1])) + h[s \ {Pick(s)}]]
<1>4. \A s \in SUBSET S : s # {} => Pick(s) \in S
  BY DEF Pick
<1> HIDE DEF S, g
<1>5. ASSUME NEW h PROVE IsSum(h, S, g) <=> Adds(h)
  <2>1. \A s \in SUBSET S : s # {} => g[Pick(s)] = Min(Walked(c[Pick(s)], c[Pick(s) + 1]))
    BY <1>3, <1>4
  <2>2. [s \in SUBSET S |-> IF s = {} THEN 0 ELSE g[Pick(s)] + h[s \ {Pick(s)}]]
          = [s \in SUBSET S |->
                    IF s = {} THEN 0
                    ELSE Min(Walked(c[Pick(s)], c[Pick(s) + 1])) + h[s \ {Pick(s)}]]
    BY <2>1
  <2>3. QED
    BY <2>2 DEF IsSum
<1>6. PICK f : IsSum(f, S, g)
  BY <1>1, <1>3, SumExists
<1>7. Adds(f)
  BY <1>5, <1>6
<1>8. PICK h : Adds(h) /\ Seconds(c) = h[S]
  <2>1. Seconds(c) = MapThenSumSet(LAMBDA i : Min(Walked(c[i], c[i + 1])), S)
    BY <1>2 DEF Seconds, S
  <2>2. QED
    BY <1>7, <2>1 DEF MapThenSumSet, MapThenFoldSet, Pick
<1>9. IsSum(h, S, g)
  BY <1>5, <1>8
<1>10. PICK k : IsSum(k, S, g) /\ SumFunctionOnSet(g, S) = k[S]
  BY <1>1, <1>3, SumIs
<1>11. k[S] = h[S]
  <2>1. S \subseteq S /\ \A x \in S : g[x] = g[x]
    OBVIOUS
  <2>2. QED
    BY <1>1, <1>3, <1>9, <1>10, <2>1, SumsOf
<1>12. Leg(Walks, c, 1, n) = SumFunctionOnSet(g, S)
  BY DEF Leg, S, g
<1>13. QED
  BY <1>8, <1>10, <1>11, <1>12

(* The chains of the property are those of the closure.                    *)
LEMMA ChainsAreWays ==
  ASSUME FeedInv, NEW a \in Stations, NEW b \in Stations
  PROVE  /\ \A c \in Chains : c[1] = a /\ c[Len(c)] = b /\ Walkable(c) =>
              \E n : Way(Walks, c, n, a, b, Stations) /\ Leg(Walks, c, 1, n) = Seconds(c)
         /\ \A c, n : Way(Walks, c, n, a, b, Stations) =>
              /\ c \in Chains /\ c[1] = a /\ c[Len(c)] = b /\ Walkable(c)
              /\ Leg(Walks, c, 1, n) = Seconds(c)
<1>0. /\ DOMAIN Walks = {p \in Pairs : Walked(p[1], p[2]) # {}}
      /\ IsFiniteSet(Stations) /\ Cardinality(Stations) \in Nat
  BY WalksAre, StationsFinite, FS_CardinalityType DEF FeedInv
<1>1. ASSUME NEW c \in Chains, c[1] = a, c[Len(c)] = b, Walkable(c)
      PROVE  \E n : Way(Walks, c, n, a, b, Stations) /\ Leg(Walks, c, 1, n) = Seconds(c)
  <2>1. PICK n \in 2..Cardinality(Stations) : c \in [1..n -> Stations] /\ IsInjective(c)
    BY DEF Chains
  <2>2. n \in Nat /\ n >= 2 /\ c \in Seq(Stations) /\ Len(c) = n /\ DOMAIN c = 1..n
    BY <1>0, <2>1
  <2>3. \A i, j \in 1..n : c[i] = c[j] => i = j
    BY <2>1, <2>2 DEF IsInjective
  <2>4. ASSUME NEW i \in 1..(n - 1) PROVE <<c[i], c[i + 1]>> \in DOMAIN Walks
    <3>1. i \in 1..n /\ i + 1 \in 1..n /\ i # i + 1
      BY <2>2
    <3>2. c[i] # c[i + 1] /\ c[i] \in Stations /\ c[i + 1] \in Stations
      BY <2>1, <2>3, <3>1
    <3>3. Walked(c[i], c[i + 1]) # {}
      BY <1>1, <2>2 DEF Walkable
    <3>4. QED
      BY <1>0, <3>2, <3>3 DEF Pairs
  <2>5. ASSUME NEW i \in 2..(n - 1) PROVE c[i] \in Stations
    <3>1. i \in 1..n
      BY <2>2
    <3>2. QED
      BY <2>1, <3>1
  <2>6. Way(Walks, c, n, a, b, Stations)
    BY <1>1, <2>1, <2>2, <2>3, <2>4, <2>5 DEF Way
  <2>7. Leg(Walks, c, 1, n) = Seconds(c)
    BY <2>1, <2>2, <2>4, SecondsAre
  <2>8. QED
    BY <2>6, <2>7
<1>2. ASSUME NEW c, NEW n, Way(Walks, c, n, a, b, Stations)
      PROVE  /\ c \in Chains /\ c[1] = a /\ c[Len(c)] = b /\ Walkable(c)
             /\ Leg(Walks, c, 1, n) = Seconds(c)
  <2>1. /\ n \in Nat /\ n >= 2 /\ c \in [1..n -> Stations] /\ c[1] = a /\ c[n] = b
        /\ \A i, j \in 1..n : c[i] = c[j] => i = j
        /\ \A i \in 1..(n - 1) : <<c[i], c[i + 1]>> \in DOMAIN Walks
    BY <1>2 DEF Way
  <2>2. Len(c) = n /\ DOMAIN c = 1..n
    BY <2>1
  <2>3. IsInjective(c)
    BY <2>1, <2>2 DEF IsInjective
  <2>4. n <= Cardinality(Stations)
    <3>1. c \in Injection(1..n, Stations)
      BY <2>1, <2>3 DEF Injection
    <3>2. Cardinality(1..n) = n
      BY <2>1, FS_Interval
    <3>3. QED
      BY <1>0, <3>1, <3>2, FS_Injection
  <2>5. c \in Chains
    <3>1. n \in 2..Cardinality(Stations)
      BY <1>0, <2>1, <2>4
    <3>2. QED
      BY <2>1, <2>3, <3>1 DEF Chains
  <2>6. Walkable(c)
    <3>1. ASSUME NEW i \in 1..(n - 1) PROVE Walked(c[i], c[i + 1]) # {}
      BY <1>0, <2>1
    <3>2. QED
      BY <2>2, <3>1 DEF Walkable
  <2>7. QED
    BY <2>1, <2>2, <2>5, <2>6, SecondsAre
<1>3. QED
  BY <1>1, <1>2

(* close_transfers leaves nothing to be found by walking twice: a footpath *)
(* takes the time of the fastest chain of links, and every chain within    *)
(* the cap is one, for any feed and in whatever order its rows are read.   *)
THEOREM FootpathsAreFastest == Spec => []FootpathsAreShortest
<1>1. Init => FeedInv /\ FootInv
  BY FeedInit, FootInit
<1>2. (FeedInv /\ FootInv) /\ [Next]_vars => (FeedInv /\ FootInv)'
  BY FeedStep, FootStep
<1>3. FeedInv /\ FootInv => FootpathsAreShortest
  <2> SUFFICES ASSUME FeedInv, FootInv, at \in {"build", "ready"},
                      NEW a \in Stations, NEW b \in Stations
               PROVE  LET times == {Seconds(c) : c \in {x \in Chains : /\ x[1] = a /\ x[Len(x)] = b
                                                                       /\ Walkable(x)}}
                          within == {s \in times : s <= MaxTransfer}
                      IN IF within = {} THEN <<a, b>> \notin DOMAIN foot
                         ELSE <<a, b>> \in DOMAIN foot /\ foot[<<a, b>>] = Min(within)
    BY DEF FootpathsAreShortest
  <2> DEFINE times == {Seconds(c) : c \in {x \in Chains : x[1] = a /\ x[Len(x)] = b /\ Walkable(x)}}
             within == {s \in times : s <= MaxTransfer}
             p == <<a, b>>
  <2>1. Walks \in PathSet
    BY WalksAre
  <2>2. AsFastAs(foot, Walks, Stations)
    BY DEF FootInv
  <2>3. foot \in PathSet /\ \A q \in DOMAIN foot : foot[q] \in Nat /\ foot[q] <= MaxTransfer
    BY <2>2, PathSetIs DEF AsFastAs
  <2>4. ASSUME NEW s \in within PROVE s \in Nat /\ p \in DOMAIN foot /\ foot[p] <= s
    <3>1. PICK c \in Chains : /\ c[1] = a /\ c[Len(c)] = b /\ Walkable(c) /\ s = Seconds(c)
                              /\ s <= MaxTransfer
      BY <2>4
    <3>2. PICK n : Way(Walks, c, n, a, b, Stations) /\ Leg(Walks, c, 1, n) = Seconds(c)
      BY <3>1, ChainsAreWays
    <3>3. n \in 1..n
      BY <3>2 DEF Way
    <3>4. Leg(Walks, c, 1, n) \in Nat
      BY <2>1, <3>2, <3>3, WayLegs
    <3>5. p \in DOMAIN foot /\ foot[p] <= Leg(Walks, c, 1, n)
      BY <2>2, <3>1, <3>2 DEF AsFastAs
    <3>6. QED
      BY <3>1, <3>2, <3>4, <3>5
  <2>5. ASSUME p \in DOMAIN foot PROVE \E s \in within : s <= foot[p]
    <3>1. PICK c, n : Way(Walks, c, n, a, b, Stations) /\ Leg(Walks, c, 1, n) <= foot[p]
      BY <2>2, <2>5 DEF AsFastAs
    <3>2. /\ c \in Chains /\ c[1] = a /\ c[Len(c)] = b /\ Walkable(c)
          /\ Leg(Walks, c, 1, n) = Seconds(c)
      BY <3>1, ChainsAreWays
    <3>3. n \in 1..n
      BY <3>1 DEF Way
    <3>4. Leg(Walks, c, 1, n) \in Nat
      BY <2>1, <3>1, <3>3, WayLegs
    <3>5. Seconds(c) \in times /\ Seconds(c) <= foot[p]
      BY <3>1, <3>2
    <3>6. Seconds(c) <= MaxTransfer
      BY <2>3, <2>5, <3>2, <3>4, <3>5, DayAssumption
    <3>7. QED
      BY <3>5, <3>6
  <2> HIDE DEF within, p
  <2>6. CASE within = {}
    BY <2>5, <2>6 DEF p, within
  <2>7. CASE within # {}
    <3>1. within \in SUBSET Nat
      BY <2>4
    <3>2. Min(within) \in within /\ \A y \in within : Min(within) <= y
      BY <2>7, <3>1, MinIsLeast
    <3>3. p \in DOMAIN foot /\ foot[p] <= Min(within)
      BY <2>4, <3>2
    <3>4. PICK s \in within : s <= foot[p]
      BY <2>5, <3>3
    <3>5. Min(within) <= s /\ s \in Nat /\ Min(within) \in Nat /\ foot[p] \in Nat
      BY <2>3, <3>1, <3>2, <3>3, <3>4
    <3>6. foot[p] = Min(within)
      BY <3>3, <3>4, <3>5
    <3>7. QED
      BY <2>7, <3>3, <3>6 DEF p, within
  <2>8. QED
    BY <2>6, <2>7
<1>4. QED
  BY <1>1, <1>2, <1>3, PTL DEF Spec
=============================================================================
