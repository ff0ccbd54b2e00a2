---------------------------- MODULE ServerProofs ----------------------------
(***************************************************************************)
(* What holds of the server's life for any operators, fares, canaries and  *)
(* number of crashes; and, below, of the watches, the other state machine  *)
(* that lives in its process.                                              *)
(***************************************************************************)
EXTENDS Server, Watcher, FoldTheorems

(***************************************************************************)
(* The warm-up.  An orchestrator appears either in the step of the warm-up *)
(* that assembles it or in a search that came first, and only going down   *)
(* takes it away: the phase of the warm-up remembers which.                *)
(***************************************************************************)
WarmUpInv ==
  /\ boot = "building" => loaded
  /\ boot \in {"opening", "ready"} /\ ~ failed => loaded /\ Built

(* Floors loaded from the table are never mistaken for no orchestrator.    *)
LEMMA LoadedIsBuilt ==
  ASSUME NEW rowsOf, NEW who
  PROVE  FloorsFromRows(rowsOf, who) # Unbuilt
<1>1. DOMAIN FloorsFromRows(rowsOf, who) = Operators
  BY DEF FloorsFromRows
<1>2. DOMAIN Unbuilt = {}
  BY DEF Unbuilt
<1>3. QED
  BY <1>1, <1>2, OperatorAssumption

(* Every step keeps the boot's promises.                                   *)
LEMMA WarmUpStep ==
  ASSUME WarmUpInv, [Next]_vars
  PROVE  WarmUpInv'
<1>1. CASE Start \/ Down
  BY <1>1 DEF Start, Down, WarmUpInv
<1>2. CASE TimetableLoaded
  BY <1>2 DEF TimetableLoaded, WarmUpInv, Built
<1>3. CASE Assembled
  BY <1>3, LoadedIsBuilt DEF Assembled, LoadFloors, WarmUpInv, Built
<1>4. CASE FeedMissing \/ BootRaises
  BY <1>4 DEF FeedMissing, BootRaises, WarmUpInv
<1>5. CASE WarmedUp
  BY <1>5 DEF WarmedUp, WarmUpInv, Built
<1>6. ASSUME NEW who, NEW ops, SearchStarts(who, ops) PROVE WarmUpInv'
  <2>1. UNCHANGED <<boot, failed>> /\ loaded' = TRUE /\ Built'
    BY <1>6, LoadedIsBuilt DEF SearchStarts, LoadFloors, Built
  <2>2. QED
    BY <2>1 DEF WarmUpInv
<1>7. CASE Maintain
  <2>1. UNCHANGED booting /\ (Built => Built')
    BY <1>7, LoadedIsBuilt DEF Maintain, Built
  <2>2. QED
    BY <2>1 DEF WarmUpInv, booting
<1>8. CASE \/ FetchFeed \/ (\E o \in Fares : PriceLeg(o)) \/ SearchEnds
           \/ CatchUp \/ CaughtUp \/ WakeUp \/ MaintainRaises
           \/ (\E c \in Canaries : TimePasses(c)) \/ ProbeByHand \/ CalibrateByHand
           \/ UNCHANGED vars
  <2>1. UNCHANGED <<booting, floors>>
    BY <1>8 DEF FetchFeed, PriceLeg, SearchEnds, CatchUp, CaughtUp, WakeUp, MaintainRaises,
                TimePasses, ProbeByHand, CalibrateByHand, vars
  <2>2. QED
    BY <2>1 DEF WarmUpInv, booting, Built
<1>9. QED
  BY <1>1, <1>2, <1>3, <1>4, <1>5, <1>6, <1>7, <1>8 DEF Next, Warming, Maintenance

(* Where the search form is shown, a timetable is loaded and there is an   *)
(* orchestrator to price with, whoever built it: _warm_up and the index    *)
(* page.                                                                   *)
THEOREM FormIsRoutable == Spec => []FormMeansRoutable
<1>1. Init => WarmUpInv
  BY DEF Init, WarmUpInv
<1>2. WarmUpInv /\ [Next]_vars => WarmUpInv'
  BY WarmUpStep
<1>3. WarmUpInv => FormMeansRoutable
  BY DEF WarmUpInv, FormMeansRoutable, ShowsForm
<1>4. QED
  BY <1>1, <1>2, <1>3, PTL DEF Spec
-----------------------------------------------------------------------------
(***************************************************************************)
(* The floor violations.  The log is a sequence that only grows, and a row *)
(* is written with the floor its search was routed with.                   *)
(***************************************************************************)
LogIsSequence == \E S : log \in Seq(S)
DetectorInv == LogIsSequence /\ missed \subseteq DOMAIN log /\ DetectorIsExact

(* A fare that is logged goes to the end of the log and moves none.        *)
LEMMA GrowingLog ==
  ASSUME LogIsSequence, NEW row, log' = Append(log, row)
  PROVE  /\ LogIsSequence'
         /\ Len(log) \in Nat /\ DOMAIN log = 1..Len(log)
         /\ Len(log') = Len(log) + 1 /\ DOMAIN log' = 1..(Len(log) + 1)
         /\ log'[Len(log) + 1] = row
         /\ \A i \in 1..Len(log) : log'[i] = log[i]
<1>1. PICK S : log \in Seq(S)
  BY DEF LogIsSequence
<1> DEFINE T == S \cup {row}
<1>2. log \in Seq(T) /\ row \in T
  BY <1>1
<1>3. log' \in Seq(T)
  BY <1>2
<1>4. LogIsSequence'
  BY <1>3 DEF LogIsSequence
<1>5. QED
  BY <1>2, <1>3, <1>4

(* Every step counts as violations exactly the fares that the router's     *)
(* floors overlooked.                                                      *)
LEMMA DetectorStep ==
  ASSUME DetectorInv, [Next]_vars
  PROVE  DetectorInv'
<1>1. ASSUME NEW o \in Fares, PriceLeg(o) PROVE DetectorInv'
  <2> DEFINE row == Delta(o, FloorOf(search.floors[o.op], o.km))
  <2>1. /\ log' = Append(log, row)
        /\ missed' = IF FloorOf(search.floors[o.op], o.km) > o.fare
                     THEN missed \cup {Len(log')} ELSE missed
    BY <1>1 DEF PriceLeg, Audited
  <2>2. /\ LogIsSequence'
        /\ Len(log) \in Nat /\ DOMAIN log = 1..Len(log)
        /\ Len(log') = Len(log) + 1 /\ DOMAIN log' = 1..(Len(log) + 1)
        /\ log'[Len(log) + 1] = row
        /\ \A i \in 1..Len(log) : log'[i] = log[i]
    BY <2>1, GrowingLog DEF DetectorInv
  <2>3. row.floor = FloorOf(search.floors[o.op], o.km) /\ row.fare = o.fare
    BY DEF Delta
  <2> HIDE DEF row
  <2>4. ASSUME NEW i \in DOMAIN log'
        PROVE  log'[i].floor > log'[i].fare <=> i \in missed'
    <3>1. CASE i \in 1..Len(log)
      <4>1. i \in missed' <=> i \in missed
        BY <2>1, <2>2, <3>1
      <4>2. log[i].floor > log[i].fare <=> i \in missed
        BY <2>2, <3>1 DEF DetectorInv, DetectorIsExact
      <4>3. QED
        BY <2>2, <3>1, <4>1, <4>2
    <3>2. CASE i = Len(log) + 1
      <4>1. i \notin missed
        BY <2>2, <3>2 DEF DetectorInv
      <4>2. QED
        BY <2>1, <2>2, <2>3, <3>2, <4>1
    <3>3. QED
      BY <2>2, <3>1, <3>2
  <2>5. missed' \subseteq DOMAIN log'
    BY <2>1, <2>2 DEF DetectorInv
  <2>6. DetectorIsExact'
    BY <2>4, <2>5 DEF DetectorIsExact
  <2>7. QED
    BY <2>2, <2>5, <2>6 DEF DetectorInv
<1>2. ASSUME UNCHANGED <<log, missed>> PROVE DetectorInv'
  BY <1>2 DEF DetectorInv, DetectorIsExact, LogIsSequence
<1>3. CASE Start \/ Warming \/ Down \/ FetchFeed \/ SearchEnds \/ ProbeByHand
  BY <1>2, <1>3 DEF Start, Warming, TimetableLoaded, Assembled, FeedMissing, WarmedUp,
                    BootRaises, Down, FetchFeed, SearchEnds, ProbeByHand, database
<1>4. ASSUME NEW who, NEW ops, SearchStarts(who, ops) PROVE DetectorInv'
  BY <1>2, <1>4 DEF SearchStarts, database
<1>5. CASE Maintenance \/ (\E c \in Canaries : TimePasses(c)) \/ CalibrateByHand
  BY <1>2, <1>5 DEF Maintenance, CatchUp, CaughtUp, WakeUp, Maintain, MaintainRaises,
                    TimePasses, CalibrateByHand, database
<1>6. CASE UNCHANGED vars
  BY <1>2, <1>6 DEF vars, database
<1>7. QED
  BY <1>1, <1>3, <1>4, <1>5, <1>6 DEF Next

(* The violations counted on the status page are those of the router,      *)
(* whatever calibrations and reloads happen while a search is priced:      *)
(* _check_floor and _record_delta.                                         *)
THEOREM ViolationsAreExact == Spec => []DetectorIsExact
<1>1. Init => DetectorInv
  <2> SUFFICES ASSUME Init PROVE DetectorInv
    OBVIOUS
  <2>1. log = <<>> /\ missed = {}
    BY DEF Init
  <2>2. log \in Seq({})
    BY <2>1
  <2>3. QED
    BY <2>1, <2>2 DEF DetectorInv, LogIsSequence, DetectorIsExact
<1>2. DetectorInv /\ [Next]_vars => DetectorInv'
  BY DetectorStep
<1>3. DetectorInv => DetectorIsExact
  BY DEF DetectorInv
<1>4. QED
  BY <1>1, <1>2, <1>3, PTL DEF Spec

(* A scheduler that starts with a stale row probes before it first waits.  *)
THEOREM StaleRowsAreProbed == Spec => StaleIsProbed
<1>1. Next => (sched = "starting" /\ sched' = "waiting" => \A c \in Canaries : rows[c] # "stale")
  <2> SUFFICES ASSUME Next, sched = "starting", sched' = "waiting"
               PROVE  \A c \in Canaries : rows[c] # "stale"
    OBVIOUS
  <2>1. CatchUp
    BY DEF Next, Start, Warming, TimetableLoaded, Assembled, FeedMissing, WarmedUp,
           BootRaises, Down, FetchFeed, SearchStarts, PriceLeg, SearchEnds, Maintenance,
           CaughtUp, WakeUp, Maintain, MaintainRaises, TimePasses, ProbeByHand,
           CalibrateByHand
  <2>2. ~ Stale
    BY <2>1 DEF CatchUp
  <2>3. QED
    BY <2>2 DEF Stale
<1>2. QED
  BY <1>1, PTL DEF Spec, StaleIsProbed
-----------------------------------------------------------------------------
(***************************************************************************)
(* The fit.  The envelope of the fares rises in distance, so does every    *)
(* hull, and its edges are lines; whichever is chosen passes under all     *)
(* fares, for it was checked against each of them.                         *)
(***************************************************************************)
Point == [km : Nat, fare : Nat]

IsCloud(points) ==
  /\ IsFiniteSet(DOMAIN points) /\ DOMAIN points # {}
  /\ \A p \in Elements(points) : p.km \in Nat \ {0} /\ p.fare \in Nat \ {0}

Rises(hull) ==
  /\ hull \in Seq(Point)
  /\ \A i \in 1..(Len(hull) - 1) : hull[i].km < hull[i + 1].km

(* A cloud has finitely many points, and some.                             *)
LEMMA CloudIsFinite ==
  ASSUME NEW points, IsCloud(points)
  PROVE  IsFiniteSet(Elements(points)) /\ Elements(points) # {}
<1> DEFINE D == DOMAIN points
<1>1. IsFiniteSet(D) /\ D # {}
  BY DEF IsCloud
<1>2. IsFiniteSet({points[i] : i \in D})
  BY <1>1, ImageIsFinite
<1>3. QED
  BY <1>1, <1>2 DEF Elements

(* The envelope has the distances of the fares by rank, each with its      *)
(* cheapest fare.                                                          *)
Distances(points) == {p.km : p \in Elements(points)}
Rank(S, x) == Cardinality({y \in S : y < x})

(* The envelope lists the distances of a cloud by rank, each with its      *)
(* least fare.                                                             *)
LEMMA EnvelopeIsRanked ==
  ASSUME NEW points, IsCloud(points)
  PROVE  LET env == Envelope(points)
             kms == Distances(points)
             n == Cardinality(kms)
         IN /\ IsFiniteSet(kms) /\ kms \in SUBSET Nat /\ n \in Nat
            /\ env \in Seq(Point) /\ Len(env) = n
            /\ \A i \in 1..n :
                 /\ env[i].km \in kms /\ Rank(kms, env[i].km) = i - 1
                 /\ \E e \in Elements(points) : env[i].km = e.km /\ env[i].fare = e.fare
                 /\ \A e \in Elements(points) : env[i].km = e.km => env[i].fare <= e.fare
<1> DEFINE E == Elements(points)
           kms == Distances(points)
           Below(x) == {k \in kms : k < x}
           nth(i) == CHOOSE km \in kms : Cardinality(Below(km)) = i - 1
           fares(km) == {p.fare : p \in {q \in E : q.km = km}}
           n == Cardinality(kms)
           env == [i \in 1..n |-> [km |-> nth(i), fare |-> Min(fares(nth(i)))]]
<1>1. Envelope(points) = env
  BY DEF Envelope, Distances
<1>2. IsFiniteSet(kms) /\ kms \in SUBSET Nat /\ n \in Nat
  <2>1. IsFiniteSet(E)
    BY CloudIsFinite
  <2> DEFINE f == [p \in E |-> p.km]
  <2>2. IsFiniteSet({f[p] : p \in E})
    <3>1. DOMAIN f = E
      OBVIOUS
    <3> HIDE DEF f
    <3>2. QED
      BY <2>1, <3>1, ImageIsFinite
  <2>3. {f[p] : p \in E} = kms
    BY DEF Distances
  <2>4. kms \in SUBSET Nat
    BY DEF IsCloud, Distances
  <2>5. QED
    BY <2>2, <2>3, <2>4, FS_CardinalityType
<1>3. ASSUME NEW i \in 1..n PROVE nth(i) \in kms /\ Cardinality(Below(nth(i))) = i - 1
  <2>1. i - 1 \in Nat /\ i - 1 < Cardinality(kms)
    BY <1>2
  <2> HIDE DEF kms
  <2>2. \E x \in kms : Cardinality(Below(x)) = i - 1
    BY <1>2, <2>1, NthExists
  <2>3. QED
    BY <2>2
<1>4. ASSUME NEW i \in 1..n
      PROVE  /\ env[i] \in Point /\ env[i].km = nth(i)
             /\ \E e \in E : env[i].km = e.km /\ env[i].fare = e.fare
             /\ \A e \in E : env[i].km = e.km => env[i].fare <= e.fare
  <2> DEFINE x == nth(i)
             F == fares(x)
  <2>1. x \in Nat /\ x \in kms
    BY <1>2, <1>3
  <2>2. env[i] = [km |-> x, fare |-> Min(F)]
    OBVIOUS
  <2> HIDE DEF env, x
  <2>3. F \in SUBSET Nat /\ F # {}
    BY <2>1 DEF IsCloud, Distances
  <2>4. Min(F) \in F /\ \A f \in F : Min(F) <= f
    <3> HIDE DEF F
    <3>1. QED
      BY <2>3, MinIsLeast
  <2> DEFINE least == Min(F)
  <2>5. least \in Nat /\ least \in F /\ \A f \in F : least <= f
    BY <2>3, <2>4
  <2>6. env[i] = [km |-> x, fare |-> least]
    BY <2>2
  <2> HIDE DEF least
  <2>7. env[i] \in Point /\ env[i].km = x /\ env[i].fare = least
    BY <2>1, <2>5, <2>6 DEF Point
  <2>8. \E e \in E : e.km = x /\ e.fare = least
    BY <2>5
  <2>9. \A e \in E : e.km = x => e.fare \in F
    OBVIOUS
  <2> HIDE DEF F
  <2>10. \A e \in E : x = e.km => least <= e.fare
    BY <2>5, <2>9
  <2>11. QED
    BY <2>7, <2>8, <2>10 DEF x
<1>5. env \in Seq(Point) /\ Len(env) = n
  <2>1. env \in [1..n -> Point]
    BY <1>4
  <2> HIDE DEF env, n
  <2>2. QED
    BY <1>2, <2>1
<1> HIDE DEF env, nth
<1>6. ASSUME NEW i \in 1..n
      PROVE  env[i].km \in kms /\ Cardinality(Below(env[i].km)) = i - 1
  BY <1>3, <1>4
<1> HIDE DEF n
<1>7. QED
  BY <1>1, <1>2, <1>4, <1>5, <1>6 DEF Rank, n

(* Along the envelope distances increase.                                  *)
LEMMA EnvelopeRises ==
  ASSUME NEW points, IsCloud(points)
  PROVE  Rises(Envelope(points))
<1> DEFINE env == Envelope(points)
           kms == Distances(points)
           n == Cardinality(kms)
<1>1. /\ IsFiniteSet(kms) /\ kms \in SUBSET Nat /\ n \in Nat
      /\ env \in Seq(Point) /\ Len(env) = n
      /\ \A i \in 1..n : env[i].km \in kms /\ Rank(kms, env[i].km) = i - 1
  BY EnvelopeIsRanked
<1> HIDE DEF env, kms
<1>2. ASSUME NEW i \in 1..(n - 1) PROVE env[i].km < env[i + 1].km
  <2> DEFINE x == env[i].km
             y == env[i + 1].km
  <2>1. i \in 1..n /\ i + 1 \in 1..n
    BY <1>1
  <2>2. x \in kms /\ y \in kms /\ Rank(kms, x) = i - 1 /\ Rank(kms, y) = (i + 1) - 1
    BY <1>1, <2>1
  <2>3. x \in Nat /\ y \in Nat
    BY <1>1, <2>2
  <2> HIDE DEF x, y
  <2>4. ASSUME y < x PROVE Rank(kms, y) < Rank(kms, x)
    BY <1>1, <2>2, <2>4, RankIsOwn DEF Rank
  <2>5. ~ (y < x) /\ x # y
    BY <2>1, <2>2, <2>4
  <2>6. QED
    BY <2>3, <2>5 DEF x, y
<1>3. QED
  BY <1>1, <1>2 DEF Rises, env

(* It has a fare for each distance, and no cheaper one.                    *)
LEMMA EnvelopeHas ==
  ASSUME NEW points, IsCloud(points)
  PROVE  LET env == Envelope(points)
         IN /\ \A e \in Elements(points) :
                 \E j \in 1..Len(env) : env[j].km = e.km /\ env[j].fare <= e.fare
            /\ \A j \in 1..Len(env) :
                 \E e \in Elements(points) : env[j].km = e.km /\ env[j].fare = e.fare
<1> DEFINE env == Envelope(points)
           kms == Distances(points)
           n == Cardinality(kms)
<1>1. /\ IsFiniteSet(kms) /\ kms \in SUBSET Nat /\ n \in Nat /\ Len(env) = n
      /\ \A i \in 1..n :
           /\ env[i].km \in kms /\ Rank(kms, env[i].km) = i - 1
           /\ \E e \in Elements(points) : env[i].km = e.km /\ env[i].fare = e.fare
           /\ \A e \in Elements(points) : env[i].km = e.km => env[i].fare <= e.fare
  BY EnvelopeIsRanked
<1>2. ASSUME NEW e \in Elements(points) PROVE e.km \in kms
  BY DEF Distances
<1> HIDE DEF env, kms
<1>3. ASSUME NEW e \in Elements(points)
      PROVE  \E j \in 1..n : env[j].km = e.km /\ env[j].fare <= e.fare
  <2> DEFINE x == e.km
             j == Rank(kms, x) + 1
             y == env[j].km
  <2>1. x \in kms
    BY <1>2
  <2> HIDE DEF x
  <2>2. /\ Rank(kms, x) \in Nat /\ Rank(kms, x) < Cardinality(kms)
        /\ \A z \in kms : z < x => Rank(kms, z) < Rank(kms, x)
    BY <1>1, <2>1, RankIsOwn DEF Rank
  <2>3. j \in 1..n /\ j - 1 = Rank(kms, x)
    BY <1>1, <2>2
  <2> HIDE DEF j
  <2>4. y \in kms /\ Rank(kms, y) = Rank(kms, x)
    BY <1>1, <2>3
  <2> HIDE DEF y
  <2>5. \A z \in kms : z < y => Rank(kms, z) < Rank(kms, y)
    BY <1>1, <2>4, RankIsOwn DEF Rank
  <2>6. ~ (x < y) /\ ~ (y < x)
    BY <2>1, <2>2, <2>4, <2>5
  <2>7. x = y
    BY <1>1, <2>1, <2>4, <2>6
  <2>8. QED
    BY <1>1, <2>3, <2>7 DEF x, y
<1>4. QED
  BY <1>1, <1>3 DEF env

(***************************************************************************)
(* How far a fare is above a line; and that what happens to it along three *)
(* points is decided by which way they turn.                               *)
(***************************************************************************)
IsLine(l) == l.over \in Nat \ {0} /\ l.slope \in Int /\ l.base \in Int
Gap(l, r) == r.fare * l.over - (l.base + l.slope * r.km)

(* Gaps turn as the points do.                                             *)
LEMMA GapsTurn ==
  ASSUME NEW l, IsLine(l), NEW a \in Point, NEW b \in Point, NEW c \in Point
  PROVE  /\ Gap(l, a) \in Int /\ Gap(l, b) \in Int /\ Gap(l, c) \in Int
         /\ Cross(a, b, c) \in Int
         /\ (b.km - a.km) * (Gap(l, c) - Gap(l, a)) - (Gap(l, b) - Gap(l, a)) * (c.km - a.km)
              = l.over * Cross(a, b, c)
<1> DEFINE o == l.over
           s == l.slope
           t == l.base
           dx == b.km - a.km
           ex == c.km - a.km
           dy == b.fare - a.fare
           ey == c.fare - a.fare
<1>1. /\ a.km \in Int /\ b.km \in Int /\ c.km \in Int
      /\ a.fare \in Int /\ b.fare \in Int /\ c.fare \in Int
  BY DEF Point
<1>2. o \in Int /\ s \in Int /\ t \in Int
  BY DEF IsLine
<1>3. \A r \in Point : Gap(l, r) = r.fare * o - (t + s * r.km)
  BY DEF Gap
<1> HIDE DEF o, s, t
<1>4. Gap(l, a) \in Int /\ Gap(l, b) \in Int /\ Gap(l, c) \in Int
  BY <1>1, <1>2, <1>3
<1>5. Gap(l, c) - Gap(l, a) = ey * o - s * ex /\ Gap(l, b) - Gap(l, a) = dy * o - s * dx
  BY <1>1, <1>2, <1>3
<1>6. Cross(a, b, c) = dx * ey - dy * ex
  BY DEF Cross
<1>7. dx \in Int /\ ex \in Int /\ dy \in Int /\ ey \in Int
  BY <1>1
<1> HIDE DEF dx, ex, dy, ey
<1>8. dx * (ey * o - s * ex) - (dy * o - s * dx) * ex = o * (dx * ey - dy * ex)
  BY <1>2, <1>7
<1>9. Cross(a, b, c) \in Int
  BY <1>6, <1>7
<1>10. QED
  BY <1>4, <1>5, <1>6, <1>8, <1>9 DEF o, dx, ex

(* What is not below a chord is not below a line that is under its ends;   *)
(* and if it is on the line, so are they.                                  *)
LEMMA ChordIsAbove ==
  ASSUME NEW l, IsLine(l), NEW a \in Point, NEW b \in Point, NEW r \in Point,
         a.km < r.km, r.km < b.km, Cross(a, b, r) >= 0, Gap(l, a) >= 0, Gap(l, b) >= 0
  PROVE  Gap(l, r) >= 0 /\ (Gap(l, r) = 0 => Gap(l, a) = 0 /\ Gap(l, b) = 0)
<1> DEFINE ga == Gap(l, a)
           gb == Gap(l, b)
           gr == Gap(l, r)
           o == l.over
           x == Cross(a, b, r)
           dx == b.km - a.km
           ex == r.km - a.km
           w == dx - ex
<1>1. /\ ga \in Int /\ gb \in Int /\ gr \in Int /\ x \in Int
      /\ dx * (gr - ga) - (gb - ga) * ex = o * x
  BY GapsTurn
<1>2. o \in Nat \ {0}
  BY DEF IsLine
<1>3. dx \in Nat /\ ex \in Nat \ {0} /\ w \in Nat \ {0} /\ dx = ex + w
  BY DEF Point
<1>4. ga \in Nat /\ gb \in Nat /\ x \in Nat
  BY <1>1
<1> HIDE DEF ga, gb, gr, o, x, dx, ex, w
<1>5. dx * gr = ga * w + gb * ex + o * x
  BY <1>1, <1>2, <1>3
<1>6. o * x \in Nat /\ ga * w \in Nat /\ gb * ex \in Nat
  BY <1>2, <1>3, <1>4
<1>7. gr >= 0
  <2>1. ASSUME gr < 0 PROVE dx * gr < 0
    BY <1>1, <1>3, <2>1
  <2>2. QED
    BY <1>1, <1>5, <1>6, <2>1
<1>8. ASSUME gr = 0 PROVE ga = 0 /\ gb = 0
  <2>1. dx * gr = 0
    BY <1>3, <1>8
  <2>2. ga * w = 0 /\ gb * ex = 0
    BY <1>5, <1>6, <2>1
  <2>3. QED
    BY <1>3, <1>4, <2>2
<1>9. QED
  BY <1>7, <1>8 DEF ga, gb, gr

(* Along a left turn what does not fall begins to rise.                    *)
LEMMA LeftTurnRises ==
  ASSUME NEW l, IsLine(l), NEW a \in Point, NEW b \in Point, NEW c \in Point,
         a.km < b.km, b.km < c.km, Cross(a, b, c) > 0, Gap(l, a) <= Gap(l, b)
  PROVE  Gap(l, b) < Gap(l, c)
<1> DEFINE ga == Gap(l, a)
           gb == Gap(l, b)
           gc == Gap(l, c)
           o == l.over
           x == Cross(a, b, c)
           dx == b.km - a.km
           ex == c.km - a.km
           w == ex - dx
           d == gb - ga
<1>1. /\ ga \in Int /\ gb \in Int /\ gc \in Int /\ x \in Int
      /\ dx * (gc - ga) - (gb - ga) * ex = o * x
  BY GapsTurn
<1>2. o \in Nat \ {0}
  BY DEF IsLine
<1>3. dx \in Nat \ {0} /\ ex \in Nat /\ w \in Nat /\ ex = dx + w
  BY DEF Point
<1>4. x \in Nat \ {0} /\ d \in Nat /\ gb = ga + d
  BY <1>1
<1> HIDE DEF ga, gb, gc, o, x, dx, ex, w, d
<1>5. dx * (gc - gb) = d * w + o * x
  BY <1>1, <1>2, <1>3, <1>4
<1>6. o * x \in Nat \ {0} /\ d * w \in Nat
  BY <1>2, <1>3, <1>4
<1>7. ASSUME gc <= gb PROVE dx * (gc - gb) <= 0
  BY <1>1, <1>3, <1>7
<1>8. gb < gc
  BY <1>1, <1>5, <1>6, <1>7
<1>9. QED
  BY <1>8 DEF gb, gc

(* A point that is taken back is not below a line through the new one that *)
(* is not above the point before it.                                       *)
LEMMA TakenBackIsAbove ==
  ASSUME NEW l, IsLine(l), NEW a \in Point, NEW b \in Point, NEW p \in Point,
         a.km < b.km, b.km < p.km, ~ (Cross(a, b, p) > 0), Gap(l, a) >= 0, Gap(l, p) = 0
  PROVE  Gap(l, b) >= 0
<1> DEFINE ga == Gap(l, a)
           gb == Gap(l, b)
           gp == Gap(l, p)
           o == l.over
           x == Cross(a, b, p)
           y == 0 - x
           dx == b.km - a.km
           ex == p.km - a.km
           w == ex - dx
<1>1. /\ ga \in Int /\ gb \in Int /\ gp \in Int /\ x \in Int
      /\ dx * (gp - ga) - (gb - ga) * ex = o * x
  BY GapsTurn
<1>2. o \in Nat \ {0}
  BY DEF IsLine
<1>3. dx \in Nat /\ ex \in Nat \ {0} /\ w \in Nat /\ ex = dx + w
  BY DEF Point
<1>4. ga \in Nat /\ gp = 0 /\ y \in Nat /\ x = 0 - y
  BY <1>1
<1> HIDE DEF ga, gb, gp, o, x, y, dx, ex, w
<1>5. ex * gb = ga * w + o * y
  BY <1>1, <1>2, <1>3, <1>4
<1>6. o * y \in Nat /\ ga * w \in Nat
  BY <1>2, <1>3, <1>4
<1>7. ASSUME gb < 0 PROVE ex * gb < 0
  BY <1>1, <1>3, <1>7
<1>8. gb >= 0
  BY <1>1, <1>5, <1>6, <1>7
<1>9. QED
  BY <1>8 DEF gb

(* The line through two points is a line, and how far a point is above it  *)
(* is which way they turn.                                                 *)
LEMMA LineThrough ==
  ASSUME NEW a \in Point, NEW b \in Point, a.km < b.km
  PROVE  /\ IsLine(Line(a, b))
         /\ \A r \in Point : Gap(Line(a, b), r) = Cross(a, b, r)
         /\ Cross(a, b, a) = 0 /\ Cross(a, b, b) = 0
<1>1. a.km \in Nat /\ b.km \in Nat /\ a.fare \in Nat /\ b.fare \in Nat
  BY DEF Point
<1> DEFINE dx == b.km - a.km
           dy == b.fare - a.fare
<1>2. dx \in Nat \ {0} /\ dy \in Int
  BY <1>1
<1>3. Line(a, b) = [over |-> dx, slope |-> dy, base |-> a.fare * dx - dy * a.km]
  BY DEF Line
<1>4. \A r : Cross(a, b, r) = dx * (r.fare - a.fare) - dy * (r.km - a.km)
  BY DEF Cross
<1> HIDE DEF dx, dy
<1>5. a.fare * dx - dy * a.km \in Int
  BY <1>1, <1>2
<1>6. IsLine(Line(a, b))
  BY <1>2, <1>3, <1>5 DEF IsLine
<1>7. ASSUME NEW r \in Point PROVE Gap(Line(a, b), r) = Cross(a, b, r)
  <2> DEFINE x == r.km
             y == r.fare
             af == a.fare
             ak == a.km
  <2>1. x \in Nat /\ y \in Nat
    BY DEF Point
  <2>2. Gap(Line(a, b), r) = y * dx - ((af * dx - dy * ak) + dy * x)
    BY <1>3 DEF Gap
  <2>3. Cross(a, b, r) = dx * (y - af) - dy * (x - ak)
    BY <1>4
  <2>4. af \in Nat /\ ak \in Nat
    BY <1>1
  <2> HIDE DEF x, y, af, ak
  <2>5. y * dx - ((af * dx - dy * ak) + dy * x) = dx * (y - af) - dy * (x - ak)
    BY <1>2, <2>1, <2>4
  <2>6. QED
    BY <2>2, <2>3, <2>5
<1>8. Cross(a, b, a) = 0 /\ Cross(a, b, b) = 0
  <2>1. Cross(a, b, a) = dx * 0 - dy * 0
    BY <1>1, <1>4
  <2>2. Cross(a, b, b) = dx * dy - dy * dx
    BY <1>4 DEF dx, dy
  <2>3. QED
    BY <1>2, <2>1, <2>2
<1>9. QED
  BY <1>6, <1>7, <1>8

(* What rises is a sequence of points.                                     *)
LEMMA PointsOfHull ==
  ASSUME NEW hull, Rises(hull)
  PROVE  /\ hull \in Seq(Point) /\ Len(hull) \in Nat /\ DOMAIN hull = 1..Len(hull)
         /\ \A i \in 1..Len(hull) : /\ hull[i] \in Point
                                   /\ hull[i].km \in Nat /\ hull[i].fare \in Nat
         /\ \A i \in 1..(Len(hull) - 1) :
              i \in 1..Len(hull) /\ i + 1 \in 1..Len(hull) /\ hull[i].km < hull[i + 1].km
<1>1. hull \in Seq(Point) /\ \A i \in 1..(Len(hull) - 1) : hull[i].km < hull[i + 1].km
  BY DEF Rises
<1>2. Len(hull) \in Nat /\ DOMAIN hull = 1..Len(hull)
  BY <1>1
<1>3. \A i \in 1..Len(hull) : hull[i] \in Point
  BY <1>1, <1>2
<1>4. \A p \in Point : p.km \in Nat /\ p.fare \in Nat
  BY DEF Point
<1>5. QED
  BY <1>1, <1>2, <1>3, <1>4

(* A point is put behind the part of a hull that is kept: up to the last   *)
(* place where the hull turns left to it.                                  *)
Keeps(hull, p, new, m) ==
  /\ new \in Seq(Point) /\ Len(new) = m + 1 /\ new[m + 1] = p
  /\ \A i \in 1..m : new[i] = hull[i]
  /\ Len(hull) > 0 => m > 0
  /\ m > 1 => Cross(hull[m - 1], hull[m], p) > 0
  /\ \A i \in (m + 1)..Len(hull) : i > 1 /\ ~ (Cross(hull[i - 1], hull[i], p) > 0)

(* Adding a point to a hull takes points back from its end, as long as     *)
(* the last two and the point do not turn left, and appends the point.     *)
LEMMA ExtendedKeeps ==
  ASSUME NEW hull \in Seq(Point), NEW p \in Point
  PROVE  \E m \in 0..Len(hull) : Keeps(hull, p, Extended(hull, p), m)
<1> DEFINE n == Len(hull)
           keep == {i \in DOMAIN hull : i = 1 \/ Cross(hull[i - 1], hull[i], p) > 0}
           m == Max({0} \cup keep)
           s == SubSeq(hull, 1, m)
           e == Append(s, p)
<1>1. n \in Nat /\ DOMAIN hull = 1..n /\ hull \in Seq(Point)
  OBVIOUS
<1>2. {0} \cup keep \in SUBSET (0..n) /\ {0} \cup keep # {}
  BY <1>1
<1>3. \A i : i \in keep <=> i \in 1..n /\ (i = 1 \/ Cross(hull[i - 1], hull[i], p) > 0)
  BY <1>1
<1>4. Extended(hull, p) = e
  BY DEF Extended
<1> HIDE DEF keep
<1>5. m \in {0} \cup keep /\ m \in 0..n /\ \A i \in keep : i <= m
  BY <1>1, <1>2, MaxIsGreatest
<1> HIDE DEF m
<1>6. s \in Seq(Point) /\ Len(s) = m /\ \A i \in 1..m : s[i] = hull[i]
  BY <1>1, <1>5
<1> HIDE DEF s
<1>7. /\ e \in Seq(Point) /\ Len(e) = m + 1 /\ e[m + 1] = p
      /\ \A i \in 1..m : e[i] = hull[i]
  BY <1>5, <1>6
<1> HIDE DEF e
<1>8. n > 0 => m > 0
  <2>1. n > 0 => 1 \in keep
    BY <1>1, <1>3
  <2>2. QED
    BY <1>5, <2>1
<1>9. m > 1 => Cross(hull[m - 1], hull[m], p) > 0
  BY <1>3, <1>5
<1>10. ASSUME NEW i \in (m + 1)..n PROVE i > 1 /\ ~ (Cross(hull[i - 1], hull[i], p) > 0)
  <2>1. i \in 1..n /\ i > m
    BY <1>1, <1>5
  <2>2. i \notin keep
    BY <1>1, <1>5, <2>1
  <2>3. QED
    BY <1>3, <2>1, <2>2
<1>11. Keeps(hull, p, e, m)
  BY <1>7, <1>8, <1>9, <1>10 DEF Keeps
<1>12. QED
  BY <1>4, <1>5, <1>11

(* What is to the right of a hull makes a longer or a shorter one.         *)
LEMMA ExtendedRises ==
  ASSUME NEW hull, Rises(hull), NEW p \in Point,
         \A i \in 1..Len(hull) : hull[i].km < p.km
  PROVE  LET new == Extended(hull, p)
         IN Rises(new) /\ \A i \in 1..Len(new) : new[i].km <= p.km
<1> DEFINE n == Len(hull)
           e == Extended(hull, p)
<1>1. n \in Nat /\ hull \in Seq(Point)
  BY DEF Rises
<1>2. PICK m \in 0..n : Keeps(hull, p, e, m)
  BY <1>1, ExtendedKeeps
<1> HIDE DEF e
<1>3. /\ e \in Seq(Point) /\ Len(e) = m + 1 /\ e[m + 1] = p
      /\ \A i \in 1..m : e[i] = hull[i]
  BY <1>2 DEF Keeps
<1>4. \A i \in 1..n : /\ hull[i].km \in Nat /\ hull[i].km < p.km
                      /\ i + 1 \in 1..n => hull[i].km < hull[i + 1].km
  <2>1. \A i \in 1..n : hull[i] \in Point
    BY <1>1
  <2>2. \A i \in 1..n : i + 1 \in 1..n => i \in 1..(n - 1)
    BY <1>1
  <2>3. QED
    BY <2>1, <2>2 DEF Rises, Point
<1>5. ASSUME NEW i \in 1..m PROVE e[i].km < e[i + 1].km
  BY <1>1, <1>2, <1>3, <1>4
<1>6. ASSUME NEW i \in 1..(m + 1) PROVE e[i].km <= p.km
  <2>1. p.km \in Nat
    BY DEF Point
  <2>2. QED
    BY <1>1, <1>2, <1>3, <1>4, <2>1
<1>7. Rises(e) /\ \A i \in 1..Len(e) : e[i].km <= p.km
  <2>1. Len(e) - 1 = m
    BY <1>2, <1>3
  <2>2. QED
    BY <1>3, <1>5, <1>6, <2>1 DEF Rises
<1>8. QED
  BY <1>7 DEF e

(* A hull turns left at each point.  A point is above it if it is one of   *)
(* its points, or between two and not below the chord.                     *)
TurnsLeft(hull) ==
  \A i \in 2..(Len(hull) - 1) : Cross(hull[i - 1], hull[i], hull[i + 1]) > 0
Above(hull, r) ==
  \/ \E i \in 1..Len(hull) : hull[i] = r
  \/ \E i \in 1..(Len(hull) - 1) :
       /\ hull[i].km < r.km /\ r.km < hull[i + 1].km
       /\ Cross(hull[i], hull[i + 1], r) >= 0

(* Extended, a hull still turns left, and what was above it still is: what *)
(* is taken back is above the chord that replaces it.                      *)
LEMMA ExtendedStaysBelow ==
  ASSUME NEW hull, Rises(hull), TurnsLeft(hull), NEW p \in Point,
         \A i \in 1..Len(hull) : hull[i].km < p.km
  PROVE  LET new == Extended(hull, p)
         IN /\ TurnsLeft(new) /\ Above(new, p)
            /\ \A r \in Point : Above(hull, r) => Above(new, r)
            /\ \A i \in 1..Len(new) : new[i] = p \/ \E j \in 1..Len(hull) : new[i] = hull[j]
<1> DEFINE n == Len(hull)
           e == Extended(hull, p)
<1>1. /\ n \in Nat /\ hull \in Seq(Point)
      /\ \A i \in 1..n : hull[i] \in Point /\ hull[i].km \in Nat
      /\ \A i \in 1..(n - 1) : hull[i].km < hull[i + 1].km
  BY PointsOfHull
<1>2. PICK m \in 0..n : Keeps(hull, p, e, m)
  BY <1>1, ExtendedKeeps
<1> HIDE DEF e
<1>3. /\ e \in Seq(Point) /\ Len(e) = m + 1 /\ e[m + 1] = p
      /\ \A i \in 1..m : e[i] = hull[i]
      /\ n > 0 => m > 0
      /\ m > 1 => Cross(hull[m - 1], hull[m], p) > 0
      /\ \A i \in (m + 1)..n : i > 1 /\ ~ (Cross(hull[i - 1], hull[i], p) > 0)
  BY <1>2 DEF Keeps
<1>4. m \in Nat /\ m <= n /\ Len(e) - 1 = m /\ p.km \in Nat
  BY <1>1, <1>2, <1>3 DEF Point
<1>5. ASSUME NEW i \in 2..(Len(e) - 1) PROVE Cross(e[i - 1], e[i], e[i + 1]) > 0
  <2>1. i \in 2..m /\ i - 1 \in 1..m /\ i \in 1..m /\ (i < m => i + 1 \in 1..m /\ i \in 2..(n - 1))
    BY <1>1, <1>4
  <2>2. CASE i = m
    BY <1>3, <2>1, <2>2
  <2>3. CASE i < m
    BY <1>3, <2>1, <2>3 DEF TurnsLeft
  <2>4. QED
    BY <1>4, <2>1, <2>2, <2>3
<1>6. TurnsLeft(e)
  BY <1>5 DEF TurnsLeft
<1>7. Above(e, p)
  <2>1. m + 1 \in 1..Len(e) /\ e[m + 1] = p
    BY <1>3, <1>4
  <2>2. QED
    BY <2>1 DEF Above
<1>8. ASSUME NEW i \in 1..Len(e) PROVE e[i] = p \/ \E j \in 1..n : e[i] = hull[j]
  <2>1. i = m + 1 \/ (i \in 1..m /\ i \in 1..n)
    BY <1>1, <1>3, <1>4
  <2>2. QED
    BY <1>3, <2>1
<1> DEFINE a == hull[m]
           l == Line(a, p)
           Back(k) == Gap(l, hull[k]) >= 0
<1>9. ASSUME n > 0
      PROVE  /\ m \in 1..n /\ a \in Point /\ a.km < p.km /\ IsLine(l)
             /\ \A r \in Point : Gap(l, r) = Cross(a, p, r)
             /\ Gap(l, a) = 0 /\ Gap(l, p) = 0
  <2>1. m \in 1..n /\ a \in Point /\ a.km < p.km
    BY <1>1, <1>3, <1>4, <1>9
  <2> HIDE DEF a
  <2>2. /\ IsLine(Line(a, p)) /\ \A r \in Point : Gap(Line(a, p), r) = Cross(a, p, r)
        /\ Cross(a, p, a) = 0 /\ Cross(a, p, p) = 0
    BY <2>1, LineThrough
  <2>3. QED
    BY <2>1, <2>2
<1> HIDE DEF l
<1>10. ASSUME n > 0 PROVE \A k \in m..n : Back(k)
  <2> DEFINE T == {k \in Nat : m + k <= n => Back(m + k)}
  <2>1. 0 \in T
    BY <1>4, <1>9, <1>10
  <2>2. ASSUME NEW k \in T PROVE k + 1 \in T
    <3> SUFFICES ASSUME m + (k + 1) <= n PROVE Back(m + (k + 1))
      OBVIOUS
    <3> DEFINE i == m + (k + 1)
               x == hull[i - 1]
               y == hull[i]
    <3>1. /\ i \in (m + 1)..n /\ i - 1 = m + k /\ m + k <= n
          /\ i \in 1..n /\ i - 1 \in 1..n /\ i - 1 \in 1..(n - 1) /\ (i - 1) + 1 = i
      BY <1>1, <1>4, <1>9, <1>10
    <3>2. Gap(l, x) >= 0
      BY <3>1
    <3>3. /\ x \in Point /\ y \in Point /\ x.km < y.km /\ y.km < p.km
          /\ ~ (Cross(x, y, p) > 0)
      BY <1>1, <1>3, <3>1
    <3>4. IsLine(l) /\ Gap(l, p) = 0
      BY <1>9, <1>10
    <3> HIDE DEF i, x, y
    <3>5. Gap(l, y) >= 0
      BY <3>2, <3>3, <3>4, TakenBackIsAbove
    <3>6. QED
      BY <3>5 DEF y, i
  <2>3. T = Nat
    <3>1. T \in SUBSET Nat
      OBVIOUS
    <3> HIDE DEF T
    <3>2. QED
      BY <2>1, <2>2, <3>1, AllNaturals
  <2>4. ASSUME NEW k \in m..n PROVE Back(k)
    <3>1. k - m \in Nat /\ m + (k - m) = k /\ k <= n
      BY <1>1, <1>4
    <3>2. QED
      BY <2>3, <3>1
  <2>5. QED
    BY <2>4
<1>11. ASSUME NEW r \in Point, n > 0, a.km < r.km, r.km < p.km, Gap(l, r) >= 0
       PROVE  Above(e, r)
  <2>1. m \in 1..(Len(e) - 1) /\ e[m] = a /\ e[m + 1] = p
    BY <1>3, <1>4, <1>9, <1>11
  <2>2. Cross(a, p, r) >= 0
    BY <1>9, <1>11
  <2>3. QED
    BY <1>11, <2>1, <2>2 DEF Above
<1>12. ASSUME NEW k \in (m + 1)..n PROVE a.km < hull[k].km
  <2> DEFINE T == {i \in Nat : m + (i + 1) <= n => a.km < hull[m + (i + 1)].km}
  <2>1. n > 0
    BY <1>1, <1>4
  <2>2. m \in 1..n /\ \A i \in m..n : i \in 1..n
    BY <1>1, <1>9, <2>1
  <2>3. 0 \in T
    <3>1. m + 1 <= n => m \in 1..(n - 1)
      BY <1>1, <2>2
    <3>2. QED
      BY <1>1, <3>1
  <2>4. ASSUME NEW i \in T PROVE i + 1 \in T
    <3> SUFFICES ASSUME m + ((i + 1) + 1) <= n PROVE a.km < hull[m + ((i + 1) + 1)].km
      OBVIOUS
    <3> DEFINE j == m + (i + 1)
    <3>1. /\ j \in 1..(n - 1) /\ j + 1 = m + ((i + 1) + 1) /\ j <= n
          /\ j \in 1..n /\ j + 1 \in 1..n /\ m \in 1..n
      BY <1>1, <1>4, <2>2
    <3>2. a.km < hull[j].km
      BY <3>1
    <3>3. hull[j].km < hull[j + 1].km
      BY <1>1, <3>1
    <3>4. a.km \in Nat /\ hull[j].km \in Nat /\ hull[j + 1].km \in Nat
      BY <1>1, <3>1
    <3>5. QED
      BY <3>1, <3>2, <3>3, <3>4
  <2>5. T = Nat
    <3>1. T \in SUBSET Nat
      OBVIOUS
    <3> HIDE DEF T
    <3>2. QED
      BY <2>3, <2>4, <3>1, AllNaturals
  <2>6. k - (m + 1) \in Nat /\ m + ((k - (m + 1)) + 1) = k /\ k <= n
    BY <1>1, <1>4
  <2>7. QED
    BY <2>5, <2>6
<1>13. ASSUME NEW r \in Point, Above(hull, r) PROVE Above(e, r)
  <2>1. CASE \E i \in 1..n : hull[i] = r
    <3>1. PICK i \in 1..n : hull[i] = r
      BY <2>1
    <3>2. CASE i <= m
      <4>1. i \in 1..Len(e) /\ e[i] = r
        BY <1>3, <1>4, <3>1, <3>2
      <4>2. QED
        BY <4>1 DEF Above
    <3>3. CASE i > m
      <4>1. n > 0 /\ i \in (m + 1)..n /\ i \in m..n
        BY <1>1, <1>4, <3>3
      <4>2. a.km < r.km /\ r.km < p.km /\ Gap(l, r) >= 0
        BY <1>10, <1>12, <3>1, <4>1
      <4>3. QED
        BY <1>11, <4>1, <4>2
    <3>4. QED
      BY <1>4, <3>2, <3>3
  <2>2. CASE \E i \in 1..(n - 1) : /\ hull[i].km < r.km /\ r.km < hull[i + 1].km
                                   /\ Cross(hull[i], hull[i + 1], r) >= 0
    <3>1. PICK i \in 1..(n - 1) : /\ hull[i].km < r.km /\ r.km < hull[i + 1].km
                                  /\ Cross(hull[i], hull[i + 1], r) >= 0
      BY <2>2
    <3>2. n > 0 /\ i \in 1..n /\ i + 1 \in 1..n
      BY <1>1
    <3>3. CASE i + 1 <= m
      <4>1. i \in 1..(Len(e) - 1) /\ e[i] = hull[i] /\ e[i + 1] = hull[i + 1]
        BY <1>1, <1>3, <1>4, <3>2, <3>3
      <4>2. QED
        BY <3>1, <4>1 DEF Above
    <3>4. CASE i >= m
      <4> DEFINE x == hull[i]
                 y == hull[i + 1]
      <4>1. x \in Point /\ y \in Point /\ x.km \in Nat /\ y.km \in Nat /\ y.km < p.km
        BY <1>1, <3>2
      <4>2. i \in m..n /\ i + 1 \in m..n
        BY <1>1, <1>4, <3>2, <3>4
      <4>3. Gap(l, x) >= 0 /\ Gap(l, y) >= 0
        BY <1>10, <3>2, <4>2
      <4>4. x.km < r.km /\ r.km < y.km /\ Cross(x, y, r) >= 0
        BY <3>1
      <4>5. a.km <= x.km
        <5>1. i = m \/ i \in (m + 1)..n
          BY <1>4, <4>2
        <5>2. CASE i = m
          BY <4>1, <5>2
        <5>3. CASE i \in (m + 1)..n
          <6>1. a.km < x.km /\ a.km \in Nat
            BY <1>1, <1>9, <1>12, <3>2, <5>3
          <6>2. QED
            BY <4>1, <6>1
        <5>4. QED
          BY <5>1, <5>2, <5>3
      <4>6. IsLine(l) /\ a.km \in Nat
        BY <1>1, <1>9, <3>2
      <4> HIDE DEF x, y, a
      <4>7. Gap(l, r) >= 0
        BY <4>1, <4>3, <4>4, <4>6, ChordIsAbove
      <4>8. r.km \in Nat
        BY DEF Point
      <4>9. a.km < r.km /\ r.km < p.km
        BY <1>4, <4>1, <4>4, <4>5, <4>6, <4>8
      <4>10. QED
        BY <1>11, <3>2, <4>7, <4>9
    <3>5. QED
      BY <1>4, <3>2, <3>3, <3>4
  <2>3. QED
    BY <1>13, <2>1, <2>2 DEF Above
<1>14. QED
  BY <1>6, <1>7, <1>8, <1>13 DEF e

(* The hull of the first k points of an envelope, for each k.              *)
LEMMA HullUnfolds ==
  ASSUME NEW env \in Seq(Point)
  PROVE  \E h : /\ FoldLeft(Extended, <<>>, env) = h[1..Len(env)]
                /\ h[1..0] = <<>>
                /\ \A k \in 1..Len(env) : h[1..k] = Extended(h[1..(k - 1)], env[k])
<1> DEFINE n == Len(env)
           V == Seq(Point)
           st == [q \in V \X (1..n) |-> Extended(q[1], env[q[2]])]
<1>1. ASSUME NEW v \in V, NEW i \in 1..n
      PROVE  st[<<v, i>>] = Extended(v, env[i]) /\ Extended(v, env[i]) \in V
  <2> DEFINE keep == {j \in DOMAIN v : j = 1 \/ Cross(v[j - 1], v[j], env[i]) > 0}
             m == Max({0} \cup keep)
  <2>1. Len(v) \in Nat /\ DOMAIN v = 1..Len(v)
    OBVIOUS
  <2>2. {0} \cup keep \in SUBSET (0..Len(v)) /\ {0} \cup keep # {}
    BY <2>1
  <2> HIDE DEF keep
  <2>3. m \in 0..Len(v)
    BY <2>1, <2>2, MaxIsGreatest
  <2> HIDE DEF m
  <2>4. SubSeq(v, 1, m) \in Seq(Point) /\ env[i] \in Point
    BY <2>3
  <2>5. Append(SubSeq(v, 1, m), env[i]) \in V
    BY <2>4
  <2>6. QED
    BY <2>5 DEF Extended, m, keep
<1>2. PICK f : IsFold(f, n, <<>>, st) /\ \A s \in SUBSET (1..n) : f[s] \in V
  <2>1. n \in Nat /\ <<>> \in V
    OBVIOUS
  <2>2. \A v \in V : \A i \in 1..n : st[<<v, i>>] \in V
    BY <1>1
  <2> HIDE DEF n, V, st
  <2>3. QED
    BY <2>1, <2>2, FoldExists
<1> DEFINE IsHull(h) ==
             h = [s \in SUBSET (1..n) |->
                    IF s = {} THEN <<>> ELSE Extended(h[s \ {Max(s)}], env[Max(s)])]
<1>3. IsHull(f)
  <2>1. ASSUME NEW s \in SUBSET (1..n), s # {}
        PROVE  st[<<f[s \ {Max(s)}], Max(s)>>] = Extended(f[s \ {Max(s)}], env[Max(s)])
    <3>1. s \in SUBSET (0..n) /\ n \in Nat
      OBVIOUS
    <3> DEFINE top == Max(s)
    <3>2. top \in 1..n
      <4> HIDE DEF n
      <4>1. top \in s
        BY <2>1, <3>1, MaxIsGreatest
      <4> HIDE DEF top
      <4>2. QED
        BY <4>1
    <3>3. f[s \ {Max(s)}] \in V
      BY <1>2
    <3> HIDE DEF st, V, n
    <3>4. QED
      BY <1>1, <3>2, <3>3
  <2> HIDE DEF st, V, n
  <2>2. f = [s \in SUBSET (1..n) |-> IF s = {} THEN <<>> ELSE st[<<f[s \ {Max(s)}], Max(s)>>]]
    BY <1>2 DEF IsFold
  <2>3. QED
    BY <2>1, <2>2
<1>4. PICK h : IsHull(h) /\ FoldLeft(Extended, <<>>, env) = h[1..n]
  <2>1. DOMAIN env = 1..n
    OBVIOUS
  <2>2. QED
    BY <1>3, <2>1 DEF FoldLeft, MapThenFoldSet
<1>5. \A s \in SUBSET (1..n) :
        h[s] = IF s = {} THEN <<>> ELSE Extended(h[s \ {Max(s)}], env[Max(s)])
  BY <1>4
<1>6. h[1..0] = <<>>
  <2>1. 1..0 = {} /\ {} \in SUBSET (1..n)
    OBVIOUS
  <2>2. QED
    BY <1>5, <2>1
<1>7. ASSUME NEW k \in 1..n PROVE h[1..k] = Extended(h[1..(k - 1)], env[k])
  <2>1. k - 1 \in Nat /\ (k - 1) + 1 = k
    OBVIOUS
  <2>2. Max(1..k) = k /\ (1..k) \ {k} = 1..(k - 1)
    BY <2>1, LastOfFirst
  <2>3. 1..k \in SUBSET (1..n) /\ 1..k # {}
    <3>1. n \in Nat
      OBVIOUS
    <3> HIDE DEF n
    <3>2. k \in Nat /\ 1 <= k /\ k <= n
      BY <3>1
    <3>3. 1 \in 1..k /\ \A i \in 1..k : i \in 1..n
      BY <3>1, <3>2
    <3>4. QED
      BY <3>3
  <2>4. QED
    BY <1>5, <2>2, <2>3
<1>8. QED
  BY <1>4, <1>6, <1>7

(* What the hull of the first fares of an envelope is: it rises in         *)
(* distance, turns left, is made of those fares and below all of them.     *)
IsHullOf(hull, env, k) ==
  /\ Rises(hull) /\ TurnsLeft(hull)
  /\ \A i \in 1..Len(hull) : \E j \in 1..k : hull[i] = env[j]
  /\ \A j \in 1..k : Above(hull, env[j])

(* The lower hull turns left at every point and has the whole envelope on  *)
(* or above it.                                                            *)
LEMMA HullIsHull ==
  ASSUME NEW points, IsCloud(points)
  PROVE  IsHullOf(LowerHull(points), Envelope(points), Len(Envelope(points)))
<1> DEFINE env == Envelope(points)
           n == Len(env)
<1>1. Rises(env)
  BY EnvelopeRises
<1> HIDE DEF env
<1>2. env \in Seq(Point) /\ n \in Nat /\ \A i \in 1..n : env[i] \in Point /\ env[i].km \in Nat
  BY <1>1, PointsOfHull
<1>3. \A i \in 1..n : i + 1 \in 1..n => env[i].km < env[i + 1].km
  <2>1. \A i \in 1..n : i + 1 \in 1..n => i \in 1..(n - 1)
    BY <1>2
  <2>2. QED
    BY <1>1, <2>1 DEF Rises
<1>4. PICK h : /\ FoldLeft(Extended, <<>>, env) = h[1..n]
               /\ h[1..0] = <<>>
               /\ \A k \in 1..n : h[1..k] = Extended(h[1..(k - 1)], env[k])
  BY <1>2, HullUnfolds
<1> HIDE DEF n
<1> DEFINE Behind(hull, p) == \A i \in 1..Len(hull) : hull[i].km < p.km
           Good(k) == /\ IsHullOf(h[1..k], env, k)
                      /\ k + 1 \in 1..n => Behind(h[1..k], env[k + 1])
           T == {k \in Nat : k <= n => Good(k)}
<1>5. 0 \in T
  <2>1. Rises(<<>>) /\ TurnsLeft(<<>>) /\ \A p : Behind(<<>>, p)
    BY DEF Rises, TurnsLeft
  <2>2. IsHullOf(<<>>, env, 0)
    BY <2>1 DEF IsHullOf
  <2> HIDE DEF Behind
  <2>3. QED
    BY <1>4, <2>1, <2>2
<1>6. ASSUME NEW k \in T PROVE k + 1 \in T
  <2> SUFFICES ASSUME k + 1 <= n PROVE Good(k + 1)
    OBVIOUS
  <2> DEFINE p == env[k + 1]
             hull == h[1..k]
             new == h[1..(k + 1)]
  <2>1. k + 1 \in 1..n /\ k <= n /\ (k + 1) - 1 = k
    BY <1>2
  <2>2. IsHullOf(hull, env, k) /\ Behind(hull, p) /\ p \in Point /\ new = Extended(hull, p)
    BY <1>2, <1>4, <2>1
  <2> HIDE DEF hull
  <2>3. /\ Rises(hull) /\ TurnsLeft(hull)
        /\ \A i \in 1..Len(hull) : \E j \in 1..k : hull[i] = env[j]
        /\ \A j \in 1..k : Above(hull, env[j])
    BY <2>2 DEF IsHullOf
  <2>4. Rises(new) /\ \A i \in 1..Len(new) : new[i].km <= p.km
    <3> HIDE DEF p, new
    <3>1. QED
      BY <2>2, <2>3, ExtendedRises
  <2>5. /\ TurnsLeft(new) /\ Above(new, p)
        /\ \A r \in Point : Above(hull, r) => Above(new, r)
        /\ \A i \in 1..Len(new) : new[i] = p \/ \E j \in 1..Len(hull) : new[i] = hull[j]
    <3> HIDE DEF p, new
    <3>1. QED
      BY <2>2, <2>3, ExtendedStaysBelow
  <2>6. ASSUME (k + 1) + 1 \in 1..n PROVE Behind(new, env[(k + 1) + 1])
    <3> DEFINE q == env[(k + 1) + 1]
    <3>1. p.km < q.km /\ p.km \in Nat /\ q.km \in Nat
      BY <1>2, <1>3, <2>1, <2>6
    <3>2. \A i \in 1..Len(new) : new[i].km \in Nat
      <4> HIDE DEF new
      <4>1. QED
        BY <2>4, PointsOfHull
    <3> HIDE DEF p, q, new
    <3>3. Behind(new, q)
      BY <2>4, <3>1, <3>2
    <3>4. QED
      BY <3>3 DEF q
  <2> HIDE DEF new
  <2>7. \A j \in 1..(k + 1) : j = k + 1 \/ (j \in 1..k /\ j \in 1..n)
    BY <1>2, <2>1
  <2>8. k + 1 \in 1..(k + 1) /\ \A j \in 1..k : j \in 1..(k + 1)
    BY <2>1
  <2>9. \A j \in 1..(k + 1) : Above(new, env[j])
    BY <1>2, <2>3, <2>5, <2>7
  <2>10. \A i \in 1..Len(new) : \E j \in 1..(k + 1) : new[i] = env[j]
    BY <2>3, <2>5, <2>8
  <2>11. IsHullOf(new, env, k + 1)
    BY <2>4, <2>5, <2>9, <2>10 DEF IsHullOf
  <2>12. QED
    BY <2>6, <2>11 DEF new
<1> HIDE DEF Good
<1>7. T = Nat
  BY <1>5, <1>6, AllNaturals
<1>8. Good(n)
  BY <1>2, <1>7
<1>9. QED
  BY <1>4, <1>8 DEF Good, LowerHull, env, n

(* Every hull rises in distance.                                           *)
LEMMA HullRises ==
  ASSUME NEW points, IsCloud(points)
  PROVE  Rises(LowerHull(points))
BY HullIsHull DEF IsHullOf

(* A line under all fares that touches two of them, at two distances,      *)
(* touches two neighbours of the hull: it is an edge.                      *)
LEMMA TightLineIsEdge ==
  ASSUME NEW points, IsCloud(points), NEW l, IsLine(l), Under(l, points),
         NEW p \in Elements(points), NEW q \in Elements(points), p.km < q.km,
         Gap(l, p) = 0, Gap(l, q) = 0
  PROVE  \E i \in 1..(Len(LowerHull(points)) - 1) :
           Gap(l, LowerHull(points)[i]) = 0 /\ Gap(l, LowerHull(points)[i + 1]) = 0
<1> DEFINE hull == LowerHull(points)
           n == Len(hull)
           env == Envelope(points)
           size == Len(env)
           Edge == \E i \in 1..(n - 1) : Gap(l, hull[i]) = 0 /\ Gap(l, hull[i + 1]) = 0
           E == Elements(points)
<1>1. Rises(env) /\ IsHullOf(hull, env, size)
  BY EnvelopeRises, HullIsHull
<1>2. /\ \A e \in E : \E j \in 1..size : env[j].km = e.km /\ env[j].fare <= e.fare
      /\ \A j \in 1..size : \E e \in E : env[j].km = e.km /\ env[j].fare = e.fare
  BY EnvelopeHas
<1>3. \A e \in E : e.km \in Nat /\ e.fare \in Nat /\ l.base + l.slope * e.km <= e.fare * l.over
  BY DEF IsCloud, Under
<1> HIDE DEF hull, env, E
<1>4. /\ Rises(hull) /\ TurnsLeft(hull)
      /\ \A i \in 1..n : \E j \in 1..size : hull[i] = env[j]
      /\ \A j \in 1..size : Above(hull, env[j])
  BY <1>1 DEF IsHullOf
<1>5. /\ n \in Nat /\ \A i \in 1..n : hull[i] \in Point
      /\ \A i \in 1..(n - 1) : hull[i].km < hull[i + 1].km
  BY <1>4, PointsOfHull
<1>6. \A j \in 1..size : env[j] \in Point
  BY <1>1, PointsOfHull
<1>7. ASSUME NEW r \in Point
      PROVE  Gap(l, r) \in Int
  BY <1>7, GapsTurn
<1>8. ASSUME NEW j \in 1..size PROVE Gap(l, env[j]) >= 0
  <2>1. PICK e \in E : env[j].km = e.km /\ env[j].fare = e.fare
    BY <1>2
  <2> DEFINE h == l.base + l.slope * e.km
             f == e.fare * l.over
  <2>2. h \in Int /\ f \in Int /\ h <= f
    BY <1>3 DEF IsLine
  <2>3. Gap(l, env[j]) = f - h
    BY <2>1 DEF Gap
  <2> HIDE DEF f, h
  <2>4. QED
    BY <2>2, <2>3
<1>9. \A i \in 1..n : Gap(l, hull[i]) >= 0 /\ Gap(l, hull[i]) \in Int
  BY <1>4, <1>5, <1>7, <1>8
<1>10. ASSUME NEW e \in E, Gap(l, e) = 0
       PROVE  \E r \in Point : r.km = e.km /\ Gap(l, r) = 0 /\ Above(hull, r)
  <2>1. PICK j \in 1..size : env[j].km = e.km /\ env[j].fare <= e.fare
    BY <1>2
  <2>2. env[j] \in Point /\ Gap(l, env[j]) >= 0 /\ Above(hull, env[j])
    BY <1>4, <1>6, <1>8
  <2> DEFINE h == l.base + l.slope * e.km
             f == e.fare
             g == env[j].fare
             o == l.over
  <2>3. h \in Int /\ f \in Nat /\ g \in Nat /\ o \in Nat \ {0} /\ g <= f
    BY <1>3, <2>1, <2>2 DEF IsLine, Point
  <2>4. Gap(l, e) = f * o - h /\ Gap(l, env[j]) = g * o - h
    BY <2>1 DEF Gap
  <2> HIDE DEF h, f, g, o
  <2>5. g * o <= f * o /\ g * o \in Int /\ f * o \in Int
    BY <2>3
  <2>6. Gap(l, env[j]) = 0
    BY <1>10, <2>2, <2>3, <2>4, <2>5
  <2>7. QED
    BY <2>1, <2>2, <2>6
<1>11. ASSUME NEW r \in Point, Gap(l, r) = 0, Above(hull, r),
              ~ \E i \in 1..n : hull[i] = r
       PROVE  Edge
  <2>1. PICK i \in 1..(n - 1) : /\ hull[i].km < r.km /\ r.km < hull[i + 1].km
                                /\ Cross(hull[i], hull[i + 1], r) >= 0
    BY <1>11 DEF Above
  <2> DEFINE a == hull[i]
             b == hull[i + 1]
  <2>2. i \in 1..n /\ i + 1 \in 1..n
    BY <1>5
  <2>3. a \in Point /\ b \in Point /\ Gap(l, a) >= 0 /\ Gap(l, b) >= 0
    BY <1>5, <1>9, <2>2
  <2>4. a.km < r.km /\ r.km < b.km /\ Cross(a, b, r) >= 0
    BY <2>1
  <2> HIDE DEF a, b
  <2>5. Gap(l, a) = 0 /\ Gap(l, b) = 0
    BY <1>11, <2>3, <2>4, ChordIsAbove
  <2>6. QED
    BY <2>5 DEF a, b
<1>12. ASSUME NEW c \in 1..n, NEW d \in 1..n, c < d, Gap(l, hull[c]) = 0, Gap(l, hull[d]) = 0
       PROVE  Edge
  <2>1. c \in 1..(n - 1) /\ c + 1 \in 1..n
    BY <1>5, <1>12
  <2>2. CASE Gap(l, hull[c + 1]) = 0
    BY <1>12, <2>1, <2>2
  <2>3. CASE Gap(l, hull[c + 1]) # 0
    <3> DEFINE Rising(i) == Gap(l, hull[i]) <= Gap(l, hull[i + 1]) /\ Gap(l, hull[i + 1]) > 0
               T == {k \in Nat : c + (k + 1) <= n => Rising(c + k)}
    <3>1. 0 \in T
      BY <1>9, <1>12, <2>1, <2>3
    <3>2. ASSUME NEW k \in T PROVE k + 1 \in T
      <4> SUFFICES ASSUME c + ((k + 1) + 1) <= n PROVE Rising(c + (k + 1))
        OBVIOUS
      <4> DEFINE i == c + (k + 1)
                 x == hull[i - 1]
                 y == hull[i]
                 z == hull[i + 1]
      <4>1. /\ i \in 2..(n - 1) /\ i - 1 = c + k /\ (i - 1) + 1 = i /\ c + (k + 1) <= n
            /\ i - 1 \in 1..n /\ i \in 1..n /\ i + 1 \in 1..n
            /\ i - 1 \in 1..(n - 1) /\ i \in 1..(n - 1)
        BY <1>5
      <4>2. Gap(l, x) <= Gap(l, y) /\ Gap(l, y) > 0
        <5>1. Rising(c + k)
          BY <4>1
        <5>2. Rising(i - 1)
          BY <4>1, <5>1
        <5>3. QED
          BY <4>1, <5>2
      <4>3. x \in Point /\ y \in Point /\ z \in Point
        BY <1>5, <4>1
      <4>4. x.km < y.km /\ y.km < z.km
        BY <1>5, <4>1
      <4>5. Cross(x, y, z) > 0
        BY <1>4, <4>1 DEF TurnsLeft
      <4>6. Gap(l, y) \in Int /\ Gap(l, z) \in Int
        BY <1>7, <4>3
      <4> HIDE DEF x, y, z, i
      <4>7. Gap(l, y) < Gap(l, z)
        BY <4>2, <4>3, <4>4, <4>5, LeftTurnRises
      <4>8. Gap(l, y) <= Gap(l, z) /\ Gap(l, z) > 0
        BY <4>2, <4>6, <4>7
      <4>9. QED
        BY <4>8 DEF y, z, i
    <3> HIDE DEF Rising
    <3>3. T = Nat
      BY <3>1, <3>2, AllNaturals
    <3> DEFINE k == d - (c + 1)
    <3>4. k \in Nat /\ c + (k + 1) = d /\ d <= n /\ (c + k) + 1 = d
      BY <1>5, <1>12
    <3> HIDE DEF k
    <3>5. Rising(c + k)
      BY <3>3, <3>4
    <3>6. Gap(l, hull[d]) > 0
      BY <3>4, <3>5 DEF Rising
    <3>7. QED
      BY <1>12, <3>6
  <2>4. QED
    BY <2>2, <2>3
<1>13. PICK s \in Point : s.km = p.km /\ Gap(l, s) = 0 /\ Above(hull, s)
  BY <1>10 DEF E
<1>14. PICK t \in Point : t.km = q.km /\ Gap(l, t) = 0 /\ Above(hull, t)
  BY <1>10 DEF E
<1> HIDE DEF Edge
<1>15. ASSUME ~ \E i \in 1..n : hull[i] = s PROVE Edge
  BY <1>11, <1>13, <1>15
<1>16. ASSUME ~ \E i \in 1..n : hull[i] = t PROVE Edge
  BY <1>11, <1>14, <1>16
<1>17. ASSUME NEW c \in 1..n, hull[c] = s, NEW d \in 1..n, hull[d] = t PROVE Edge
  <2>1. c # d
    <3>1. s.km < t.km /\ s.km \in Nat /\ t.km \in Nat
      BY <1>13, <1>14 DEF Point
    <3>2. QED
      BY <1>17, <3>1
  <2>2. c \in Nat /\ d \in Nat
    BY <1>5
  <2>3. CASE c < d
    BY <1>12, <1>13, <1>14, <1>17, <2>3
  <2>4. CASE d < c
    BY <1>12, <1>13, <1>14, <1>17, <2>4
  <2>5. QED
    BY <2>1, <2>2, <2>3, <2>4
<1>18. QED
  BY <1>15, <1>16, <1>17 DEF Edge, hull

(* A line that can be scaled: no part of it is negative, and it is under   *)
(* every fare.                                                             *)
IsFloor(line, points) ==
  /\ line.over \in Nat \ {0} /\ line.base \in Nat /\ line.slope \in Nat
  /\ Under(line, points)

(* The fare that is cheapest for its distance gives such a line.           *)
LEMMA RatioIsFloor ==
  ASSUME NEW points, IsCloud(points)
  PROVE  IsFloor(RatioLine(points), points)
<1> DEFINE E == Elements(points)
           a == [p \in E |-> p.km]
           b == [p \in E |-> p.fare]
           Cheapest(p) == \A q \in E : p.fare * q.km <= q.fare * p.km
           best == CHOOSE p \in E : Cheapest(p)
<1>1. IsFiniteSet(E) /\ E # {} /\ \A p \in E : p.km \in Nat \ {0} /\ p.fare \in Nat \ {0}
  BY CloudIsFinite DEF IsCloud
<1> HIDE DEF E
<1>2. \E p \in E : \A q \in E : a[q] * b[p] <= a[p] * b[q]
  <2>1. \A p \in E : a[p] \in Int /\ b[p] \in Nat \ {0}
    BY <1>1
  <2> HIDE DEF a, b
  <2>2. QED
    BY <1>1, <2>1, GreatestRatio
<1>3. PICK p \in E : \A q \in E : a[q] * b[p] <= a[p] * b[q]
  BY <1>2
<1>4. Cheapest(p)
  <2>1. ASSUME NEW q \in E PROVE p.fare * q.km <= q.fare * p.km
    <3>1. q.km * p.fare <= p.km * q.fare
      BY <1>3
    <3>2. p.fare \in Int /\ q.km \in Int /\ q.fare \in Int /\ p.km \in Int
      BY <1>1
    <3>3. q.km * p.fare = p.fare * q.km /\ p.km * q.fare = q.fare * p.km
      BY <3>2
    <3>4. QED
      BY <3>1, <3>3
  <2>2. QED
    BY <2>1
<1>5. best \in E /\ Cheapest(best)
  BY <1>4
<1>6. RatioLine(points) = [over |-> best.km, slope |-> best.fare, base |-> 0]
  BY DEF RatioLine, E
<1> HIDE DEF best
<1> DEFINE line == [over |-> best.km, slope |-> best.fare, base |-> 0]
<1>7. ASSUME NEW q \in E PROVE line.base + line.slope * q.km <= q.fare * line.over
  <2>1. best.fare * q.km <= q.fare * best.km
    BY <1>5
  <2>2. best.fare * q.km \in Int
    BY <1>1, <1>5
  <2>3. QED
    BY <2>1, <2>2
<1>8. Under(line, points)
  BY <1>7 DEF Under, E
<1>9. QED
  BY <1>1, <1>5, <1>6, <1>8 DEF IsFloor

(* The line that is fitted, too: the one through the origin is always      *)
(* among those that are compared, and of finitely many one is tightest.    *)
LEMMA FitIsTightest ==
  ASSUME NEW points, IsCloud(points)
  PROVE  /\ IsFloor(FitLine(points), points)
         /\ \A i \in 1..(Len(LowerHull(points)) - 1) :
              LET e == Line(LowerHull(points)[i], LowerHull(points)[i + 1])
              IN e.slope >= 0 /\ e.base > 0 /\ Under(e, points)
                   => NoTighter(e, FitLine(points), points)
<1> DEFINE hull == LowerHull(points)
           edges == 1..(Len(hull) - 1)
           line(i) == IF i = 0 THEN RatioLine(points) ELSE Line(hull[i], hull[i + 1])
           safe == {0} \cup {i \in 1..(Len(hull) - 1) :
                               /\ line(i).slope >= 0 /\ line(i).base > 0
                               /\ Under(line(i), points)}
           best == {i \in safe : \A j \in safe : NoTighter(line(j), line(i), points)}
<1>1. FitLine(points) = line(Min(best))
  BY DEF FitLine
<1>2. Rises(hull)
  BY HullRises
<1> HIDE DEF hull
<1>3. IsFloor(line(0), points)
  BY RatioIsFloor
<1>4. ASSUME NEW i \in edges
      PROVE  line(i).over \in Nat \ {0} /\ line(i).slope \in Int /\ line(i).base \in Int
  <2> DEFINE p == hull[i]
             q == hull[i + 1]
  <2>1. /\ p.km \in Nat /\ p.fare \in Nat /\ q.km \in Nat /\ q.fare \in Nat
        /\ p.km < q.km
    BY <1>2, PointsOfHull
  <2>2. Len(hull) \in Nat
    BY <1>2, PointsOfHull
  <2>3. i # 0
    BY <2>2
  <2>4. line(i) = Line(p, q)
    BY <2>3
  <2> HIDE DEF p, q, line
  <2>5. /\ Line(p, q).over = q.km - p.km /\ Line(p, q).slope = q.fare - p.fare
        /\ Line(p, q).base = p.fare * (q.km - p.km) - (q.fare - p.fare) * p.km
    BY DEF Line
  <2>6. q.km - p.km \in Nat \ {0} /\ q.fare - p.fare \in Int
    BY <2>1
  <2>7. p.fare * (q.km - p.km) - (q.fare - p.fare) * p.km \in Int
    BY <2>1, <2>6
  <2>8. QED
    BY <2>4, <2>5, <2>6, <2>7
<1>5. ASSUME NEW i \in safe PROVE IsFloor(line(i), points)
  <2>1. CASE i = 0
    BY <1>3, <2>1
  <2>2. CASE i # 0
    <3>1. i \in edges /\ line(i).slope >= 0 /\ line(i).base > 0 /\ Under(line(i), points)
      BY <2>2
    <3> HIDE DEF line
    <3>2. QED
      BY <1>4, <3>1 DEF IsFloor
  <2>3. QED
    BY <2>1, <2>2
<1>6. IsFiniteSet(safe) /\ safe \in SUBSET Nat /\ safe # {}
  <2>1. Len(hull) \in Nat
    BY <1>2, PointsOfHull
  <2>2. IsFiniteSet(0..Len(hull)) /\ safe \subseteq 0..Len(hull)
    <3>1. IsFiniteSet(0..Len(hull))
      BY <2>1, FS_Interval
    <3> HIDE DEF line
    <3>2. QED
      BY <2>1, <3>1
  <2>3. IsFiniteSet(safe)
    <3> HIDE DEF safe
    <3>1. QED
      BY <2>2, FS_Subset
  <2>4. safe # {}
    OBVIOUS
  <2> HIDE DEF safe
  <2>5. QED
    BY <2>1, <2>2, <2>3, <2>4
<1> HIDE DEF line, safe
<1> DEFINE mass == [i \in safe |-> Mass(line(i), points)]
           over == [i \in safe |-> line(i).over]
<1>7. ASSUME NEW i \in safe PROVE mass[i] \in Int /\ over[i] \in Nat \ {0}
  <2> DEFINE l == line(i)
             D == DOMAIN points
             height == [k \in D |-> l.base + l.slope * points[k].km]
  <2>1. l.over \in Nat \ {0} /\ l.base \in Nat /\ l.slope \in Nat
    BY <1>5 DEF IsFloor
  <2>2. IsFiniteSet(D) /\ \A k \in D : points[k].km \in Nat
    BY DEF IsCloud, Elements
  <2>3. \A k \in D : height[k] \in Int
    BY <2>1, <2>2
  <2>4. Mass(l, points) = SumFunctionOnSet(height, DOMAIN height)
    BY DEF Mass, SumFunction
  <2>5. DOMAIN height = D
    OBVIOUS
  <2>6. SumFunctionOnSet(height, D) \in Int
    <3> HIDE DEF height, D
    <3>1. QED
      BY <2>2, <2>3, SumRemove
  <2>7. QED
    BY <2>1, <2>4, <2>5, <2>6
<1>8. \E i \in safe : \A j \in safe : mass[j] * over[i] <= mass[i] * over[j]
  <2> HIDE DEF mass, over
  <2>1. QED
    BY <1>6, <1>7, GreatestRatio
<1>9. best # {} /\ best \in SUBSET Nat
  BY <1>6, <1>8 DEF NoTighter
<1> DEFINE chosen == Min(best)
<1>10. chosen \in best
  <2> HIDE DEF best
  <2>1. QED
    BY <1>9, MinIsLeast
<1> HIDE DEF chosen
<1>11. IsFloor(line(chosen), points)
  BY <1>5, <1>10
<1>12. FitLine(points) = line(chosen)
  BY <1>1 DEF chosen
<1>13. ASSUME NEW i \in edges
       PROVE  LET e == Line(hull[i], hull[i + 1])
              IN e.slope >= 0 /\ e.base > 0 /\ Under(e, points)
                   => NoTighter(e, FitLine(points), points)
  <2> DEFINE e == Line(hull[i], hull[i + 1])
  <2> SUFFICES ASSUME e.slope >= 0, e.base > 0, Under(e, points)
               PROVE  NoTighter(e, FitLine(points), points)
    OBVIOUS
  <2>1. i # 0
    BY <1>2, PointsOfHull
  <2>2. line(i) = e
    BY <2>1 DEF line
  <2> HIDE DEF e
  <2>3. i \in safe
    BY <2>2 DEF safe
  <2>4. NoTighter(line(i), line(chosen), points)
    BY <1>10, <2>3
  <2>5. QED
    BY <1>12, <2>2, <2>4
<1>14. QED
  BY <1>11, <1>12, <1>13 DEF hull

(* The line fitted to a cloud is under every fare of it.                   *)
LEMMA FitIsFloor ==
  ASSUME NEW points, IsCloud(points)
  PROVE  IsFloor(FitLine(points), points)
BY FitIsTightest

(* An edge that touches where a line touches is that line: it has the same *)
(* sign and passes under the same fares, and its mass is as great.         *)
Proportional(e, l) ==
  /\ IsLine(e) /\ IsLine(l)
  /\ l.over * e.slope = l.slope * e.over /\ l.over * e.base = l.base * e.over

(* Two lines through the same two points are one line.                     *)
LEMMA SameLine ==
  ASSUME NEW l, IsLine(l), NEW a \in Point, NEW b \in Point, a.km < b.km,
         Gap(l, a) = 0, Gap(l, b) = 0
  PROVE  Proportional(Line(a, b), l)
<1> DEFINE o == l.over
           s == l.slope
           t == l.base
           x == a.km
           y == a.fare
           dx == b.km - a.km
           dy == b.fare - a.fare
<1>1. x \in Int /\ y \in Int /\ dx \in Int /\ dy \in Int
  BY DEF Point
<1>2. o \in Int /\ s \in Int /\ t \in Int
  BY DEF IsLine
<1>3. y * o = t + s * x /\ (y + dy) * o = t + s * (x + dx)
  <2> DEFINE u == b.km
             v == b.fare
  <2>1. y * o - (t + s * x) = 0 /\ v * o - (t + s * u) = 0
    BY DEF Gap
  <2>2. u \in Int /\ v \in Int /\ u = x + dx /\ v = y + dy
    BY DEF Point
  <2> HIDE DEF u, v, o, s, t, x, y, dx, dy
  <2>3. /\ y * o \in Int /\ t + s * x \in Int
        /\ v * o \in Int /\ t + s * u \in Int
    BY <1>1, <1>2, <2>2
  <2>4. QED
    BY <2>1, <2>2, <2>3
<1>4. /\ IsLine(Line(a, b)) /\ Line(a, b).over = dx /\ Line(a, b).slope = dy
      /\ Line(a, b).base = y * dx - dy * x
  BY LineThrough DEF Line
<1> HIDE DEF o, s, t, x, y, dx, dy
<1>5. o * dy = s * dx
  BY <1>1, <1>2, <1>3
<1>6. o * (y * dx - dy * x) = t * dx
  <2>1. o * (y * dx - dy * x) = (y * o) * dx - (o * dy) * x
    BY <1>1, <1>2
  <2>2. (y * o) * dx - (o * dy) * x = (t + s * x) * dx - (s * dx) * x
    BY <1>3, <1>5
  <2>3. (t + s * x) * dx - (s * dx) * x = t * dx
    BY <1>1, <1>2
  <2>4. QED
    BY <2>1, <2>2, <2>3
<1>7. QED
  BY <1>4, <1>5, <1>6 DEF Proportional, o, s, t

(* Fractions of the same line are floors of the same cloud with the same   *)
(* mass.                                                                   *)
LEMMA ProportionalLines ==
  ASSUME NEW points, IsCloud(points), NEW e, NEW l, Proportional(e, l),
         l.slope >= 0, l.base > 0, Under(l, points)
  PROVE  /\ e.slope >= 0 /\ e.base > 0 /\ Under(e, points)
         /\ Mass(e, points) \in Int /\ Mass(l, points) \in Int
         /\ l.over * Mass(e, points) = e.over * Mass(l, points)
<1> DEFINE o == l.over
           s == l.slope
           t == l.base
           d == e.over
           u == e.slope
           v == e.base
           D == DOMAIN points
<1>1. /\ o \in Nat \ {0} /\ s \in Nat /\ t \in Nat \ {0}
      /\ d \in Nat \ {0} /\ u \in Int /\ v \in Int
      /\ o * u = s * d /\ o * v = t * d
  BY DEF Proportional, IsLine
<1>2. /\ IsFiniteSet(D)
      /\ \A k \in D : points[k].km \in Nat /\ points[k].fare \in Nat
  BY DEF IsCloud, Elements
<1>3. \A k \in D : t + s * points[k].km <= points[k].fare * o
  BY DEF Under, Elements
<1> DEFINE he == [k \in D |-> v + u * points[k].km]
           hl == [k \in D |-> t + s * points[k].km]
<1>4. Mass(e, points) = SumFunctionOnSet(he, D) /\ Mass(l, points) = SumFunctionOnSet(hl, D)
  <2>1. DOMAIN he = D /\ DOMAIN hl = D
    OBVIOUS
  <2>2. /\ Mass(e, points) = SumFunctionOnSet(he, DOMAIN he)
        /\ Mass(l, points) = SumFunctionOnSet(hl, DOMAIN hl)
    BY DEF Mass, SumFunction
  <2>3. QED
    BY <2>1, <2>2
<1> DEFINE both == [k \in D |-> o * he[k]]
<1>5. ASSUME NEW k \in D
      PROVE  /\ he[k] \in Int /\ hl[k] \in Int
             /\ both[k] = o * he[k] /\ both[k] = d * hl[k]
             /\ he[k] <= points[k].fare * d
  <2> DEFINE x == points[k].km
             f == points[k].fare
             p == he[k]
             q == hl[k]
  <2>1. x \in Nat /\ f \in Nat /\ p = v + u * x /\ q = t + s * x /\ both[k] = o * p
    BY <1>2
  <2>2. q <= f * o
    BY <1>3
  <2> HIDE DEF o, s, t, d, u, v, x, f, p, q, he, hl, both
  <2>3. p \in Int /\ q \in Int
    BY <1>1, <2>1
  <2>4. o * p = d * q
    <3>1. o * p = o * v + (o * u) * x
      BY <1>1, <2>1
    <3>2. d * q = t * d + (s * d) * x
      BY <1>1, <2>1
    <3>3. QED
      BY <1>1, <3>1, <3>2
  <2>5. p <= f * d
    <3>1. d * q <= d * (f * o)
      BY <1>1, <2>1, <2>2, <2>3
    <3>2. d * (f * o) = o * (f * d) /\ f * d \in Int
      BY <1>1, <2>1
    <3>3. o * p <= o * (f * d)
      BY <2>4, <3>1, <3>2
    <3>4. QED
      BY <1>1, <2>3, <3>2, <3>3
  <2>6. QED
    BY <2>1, <2>3, <2>4, <2>5 DEF p, q, f
<1>6. u >= 0 /\ v > 0
  <2> HIDE DEF o, s, t, d, u, v
  <2>1. s * d >= 0 /\ t * d > 0
    BY <1>1
  <2>2. ASSUME u < 0 PROVE o * u < 0
    BY <1>1, <2>2
  <2>3. ASSUME v <= 0 PROVE o * v <= 0
    BY <1>1, <2>3
  <2>4. s * d \in Int /\ t * d \in Int
    BY <1>1
  <2>5. QED
    BY <1>1, <2>1, <2>2, <2>3, <2>4
<1>7. Under(e, points)
  <2>1. \A k \in D : v + u * points[k].km <= points[k].fare * d
    BY <1>5
  <2>2. QED
    BY <2>1 DEF Under, Elements
<1> HIDE DEF both, he, hl, D
<1>8. o \in Int /\ d \in Int
  BY <1>1
<1> HIDE DEF o, d
<1>9. SumFunctionOnSet(both, D) = o * SumFunctionOnSet(he, D)
  BY <1>2, <1>5, <1>8, SumScales
<1>10. SumFunctionOnSet(both, D) = d * SumFunctionOnSet(hl, D)
  BY <1>2, <1>5, <1>8, SumScales
<1>11. SumFunctionOnSet(he, D) \in Int /\ SumFunctionOnSet(hl, D) \in Int
  BY <1>2, <1>5, SumRemove
<1>12. QED
  BY <1>4, <1>6, <1>7, <1>9, <1>10, <1>11 DEF o, d

(* What is fitted is a best fit, in exact fractions, for any fares.        *)
LEMMA FitIsBestOf ==
  ASSUME NEW points, IsCloud(points)
  PROVE  BestFit(points)
<1> DEFINE E == Elements(points)
           fit == FitLine(points)
           hull == LowerHull(points)
<1>1. IsFloor(fit, points)
  BY FitIsFloor
<1>2. Under(fit, points) /\ fit.over \in Nat \ {0} /\ fit.base \in Nat /\ fit.slope \in Nat
  BY <1>1 DEF IsFloor
<1>3. Mass(fit, points) \in Int
  <2> DEFINE D == DOMAIN points
             height == [k \in D |-> fit.base + fit.slope * points[k].km]
  <2>1. IsFiniteSet(D) /\ \A k \in D : points[k].km \in Nat
    BY DEF IsCloud, Elements
  <2>2. \A k \in D : height[k] \in Int
    BY <1>2, <2>1
  <2>3. Mass(fit, points) = SumFunctionOnSet(height, DOMAIN height) /\ DOMAIN height = D
    BY DEF Mass, SumFunction
  <2> HIDE DEF height, D
  <2>4. QED
    BY <2>1, <2>2, <2>3, SumRemove
<1>4. ASSUME NEW p \in E, NEW q \in E, p.km < q.km,
             Line(p, q).slope >= 0, Line(p, q).base > 0, Under(Line(p, q), points)
      PROVE  NoTighter(Line(p, q), fit, points)
  <2> DEFINE a == [km |-> p.km, fare |-> p.fare]
             b == [km |-> q.km, fare |-> q.fare]
             l == Line(p, q)
  <2>1. a \in Point /\ b \in Point /\ a.km < b.km
    BY <1>4 DEF IsCloud, Point
  <2>2. l = Line(a, b) /\ \A m : Gap(m, p) = Gap(m, a) /\ Gap(m, q) = Gap(m, b)
    BY DEF Line, Gap
  <2>3. l.slope >= 0 /\ l.base > 0 /\ Under(l, points)
    BY <1>4
  <2> HIDE DEF a, b, l
  <2>4. IsLine(l) /\ Gap(l, p) = 0 /\ Gap(l, q) = 0
    <3>1. /\ IsLine(Line(a, b)) /\ Cross(a, b, a) = 0 /\ Cross(a, b, b) = 0
          /\ \A r \in Point : Gap(Line(a, b), r) = Cross(a, b, r)
      BY <2>1, LineThrough
    <3>2. QED
      BY <2>1, <2>2, <3>1
  <2>5. PICK i \in 1..(Len(hull) - 1) : Gap(l, hull[i]) = 0 /\ Gap(l, hull[i + 1]) = 0
    <3> HIDE DEF E
    <3>1. p \in Elements(points) /\ q \in Elements(points)
      BY DEF E
    <3>2. QED
      BY <1>4, <2>3, <2>4, <3>1, TightLineIsEdge
  <2>6. Rises(hull)
    BY HullRises
  <2> DEFINE x == hull[i]
             y == hull[i + 1]
             e == Line(x, y)
  <2>7. x \in Point /\ y \in Point /\ x.km < y.km
    <3> HIDE DEF hull
    <3>1. QED
      BY <2>6, PointsOfHull
  <2>8. e.slope >= 0 /\ e.base > 0 /\ Under(e, points) => NoTighter(e, fit, points)
    BY FitIsTightest
  <2>9. Gap(l, x) = 0 /\ Gap(l, y) = 0
    BY <2>5
  <2> HIDE DEF x, y
  <2>10. Proportional(e, l)
    BY <2>4, <2>7, <2>9, SameLine
  <2> HIDE DEF e
  <2>11. /\ e.slope >= 0 /\ e.base > 0 /\ Under(e, points)
         /\ Mass(e, points) \in Int /\ Mass(l, points) \in Int
         /\ l.over * Mass(e, points) = e.over * Mass(l, points)
    BY <2>3, <2>10, ProportionalLines
  <2>12. Mass(e, points) * fit.over <= Mass(fit, points) * e.over
    BY <2>8, <2>11 DEF NoTighter
  <2> DEFINE me == Mass(e, points)
             ml == Mass(l, points)
             mf == Mass(fit, points)
             o == l.over
             d == e.over
             g == fit.over
  <2>13. /\ me \in Int /\ ml \in Int /\ mf \in Int
         /\ o \in Nat \ {0} /\ d \in Nat \ {0} /\ g \in Nat \ {0}
         /\ o * me = d * ml /\ me * g <= mf * d
    BY <1>2, <1>3, <2>10, <2>11, <2>12 DEF Proportional, IsLine
  <2> HIDE DEF me, ml, mf, o, d, g
  <2>14. o * (me * g) <= o * (mf * d)
    BY <2>13
  <2>15. o * (me * g) = d * (ml * g) /\ o * (mf * d) = d * (mf * o)
    <3>1. o * (me * g) = (o * me) * g
      BY <2>13
    <3>2. (d * ml) * g = d * (ml * g)
      BY <2>13
    <3>3. o * (mf * d) = d * (mf * o)
      BY <2>13
    <3>4. QED
      BY <2>13, <3>1, <3>2, <3>3
  <2>16. ml * g \in Int /\ mf * o \in Int
    BY <2>13
  <2>17. ml * g <= mf * o
    BY <2>13, <2>14, <2>15, <2>16
  <2>18. QED
    BY <2>17 DEF NoTighter, ml, g, mf, o, l
<1> HIDE DEF fit
<1>5. QED
  BY <1>2, <1>4 DEF BestFit, fit


(* The margin and the rounding only take off.                              *)
LEMMA ScaledIsUnder ==
  ASSUME NEW points, NEW line, IsFloor(line, points), NEW o \in Elements(points),
         o.km \in Nat, o.fare \in Nat
  PROVE  LET f == Scaled(line)
         IN f.base \in Nat /\ f.rate \in Nat /\ FloorOf(f, o.km) <= o.fare
<1> DEFINE num == Margin[1]
           den == Margin[2]
           d == line.over * den
           B == line.base * num
           S == line.slope * num
           base == B \div d
           rate == S \div d
           k == o.km
           fare == o.fare
<1>1. /\ line.over \in Nat \ {0} /\ line.base \in Nat /\ line.slope \in Nat
      /\ line.base + line.slope * k <= fare * line.over
  BY DEF IsFloor, Under
<1>2. den \in Nat /\ num \in Nat /\ den > 0 /\ num <= den
  BY MarginAssumption
<1>3. Scaled(line) = [base |-> base, rate |-> rate]
  BY DEF Scaled
<1>4. k \in Nat /\ fare \in Nat
  OBVIOUS
<1> DEFINE v == line.over
           b == line.base
           s == line.slope
<1> HIDE DEF num, den, k, fare, v, b, s
<1>5. v \in Nat \ {0} /\ b \in Nat /\ s \in Nat /\ b + s * k <= fare * v
  BY <1>1 DEF v, b, s
<1>6. d = v * den /\ B = b * num /\ S = s * num
  BY DEF v, b, s
<1> HIDE DEF d, B, S
<1>7. d \in Nat \ {0} /\ B \in Nat /\ S \in Nat
  BY <1>2, <1>5, <1>6
<1>8. base \in Nat /\ rate \in Nat /\ base * d <= B /\ rate * d <= S
  BY <1>7
<1> HIDE DEF base, rate
<1>9. (base + rate * k) * d <= B + S * k
  <2>1. (rate * d) * k <= S * k
    BY <1>4, <1>7, <1>8
  <2>2. (base + rate * k) * d = base * d + (rate * d) * k
    BY <1>4, <1>7, <1>8
  <2>3. base * d \in Nat /\ (rate * d) * k \in Nat /\ S * k \in Nat
    BY <1>4, <1>7, <1>8
  <2>4. QED
    BY <1>7, <1>8, <2>1, <2>2, <2>3
<1>10. B + S * k <= fare * d
  <2> DEFINE h == b + s * k
             top == fare * v
  <2>1. h \in Nat /\ top \in Nat /\ h <= top
    BY <1>4, <1>5
  <2>2. B + S * k = h * num
    BY <1>2, <1>4, <1>5, <1>6
  <2>3. fare * d = top * den
    BY <1>2, <1>4, <1>5, <1>6
  <2> HIDE DEF h, top
  <2>4. h * num <= top * num
    BY <1>2, <2>1
  <2>5. top * num <= top * den
    BY <1>2, <2>1
  <2>6. h * num \in Nat /\ top * num \in Nat /\ top * den \in Nat
    BY <1>2, <2>1
  <2>7. QED
    BY <2>2, <2>3, <2>4, <2>5, <2>6
<1>11. base + rate * k <= fare
  <2> DEFINE x == base + rate * k
  <2>1. x \in Nat /\ x * d <= B + S * k
    BY <1>4, <1>8, <1>9
  <2>2. B + S * k \in Nat /\ fare * d \in Nat
    BY <1>4, <1>7
  <2> HIDE DEF x
  <2>3. x * d \in Nat /\ x * d <= fare * d
    BY <1>7, <1>10, <2>1, <2>2
  <2>4. x <= fare
    BY <1>4, <1>7, <2>1, <2>3
  <2>5. QED
    BY <2>4 DEF x
<1>12. QED
  BY <1>3, <1>8, <1>11 DEF FloorOf, k, fare

(* Half of a floor is at most half of the fare.                            *)
LEMMA HalvedIsUnder ==
  ASSUME NEW f, f.base \in Nat, f.rate \in Nat, NEW km \in Nat, NEW fare \in Nat,
         FloorOf(f, km) <= fare
  PROVE  2 * FloorOf(Halved(f), km) <= fare
<1> DEFINE b == f.base
           r == f.rate
           hb == b \div 2
           hr == r \div 2
<1>1. b \in Nat /\ r \in Nat /\ b + r * km <= fare
  BY DEF FloorOf
<1>2. FloorOf(Halved(f), km) = hb + hr * km
  BY DEF FloorOf, Halved
<1> HIDE DEF b, r
<1>3. hb \in Nat /\ hr \in Nat /\ 2 * hb <= b /\ 2 * hr <= r
  BY <1>1
<1> HIDE DEF hb, hr
<1>4. (2 * hr) * km <= r * km
  BY <1>1, <1>3
<1>5. 2 * (hb + hr * km) = 2 * hb + (2 * hr) * km
  BY <1>1, <1>3
<1>6. (2 * hr) * km \in Nat /\ r * km \in Nat
  BY <1>1, <1>3
<1>7. QED
  BY <1>1, <1>2, <1>3, <1>4, <1>5, <1>6

(* What calibrate makes of a log: a floor for whatever there are enough    *)
(* fares of, under all of them, and for nothing else.                      *)
PaidLog(fares) ==
  /\ IsFiniteSet(DOMAIN fares)
  /\ \A i \in DOMAIN fares : fares[i].km \in Nat \ {0} /\ fares[i].fare \in Nat \ {0}

(* What calibrate makes of a log is under every fare it was made from:     *)
(* the margin and the truncation only take off.                            *)
LEMMA CalibratedIsUnder ==
  ASSUME NEW fares, PaidLog(fares),
         NEW op \in Operators \ ExactFares, NEW who \in Categories
  PROVE  LET seen == Samples(fares, op, who)
             made == Calibrated(fares)
             f == made[<<op, who>>]
         IN /\ <<op, who>> \in DOMAIN made <=> Enough(seen)
            /\ \A o \in Elements(seen) : o.km \in Nat /\ o.fare \in Nat
            /\ Enough(seen) => /\ f.base \in Nat /\ f.rate \in Nat
                              /\ \A o \in Elements(seen) : FloorOf(f, o.km) <= o.fare
<1> DEFINE seen == Samples(fares, op, who)
           made == Calibrated(fares)
           f == made[<<op, who>>]
<1>1. <<op, who>> \in DOMAIN made <=> Enough(seen)
  BY DEF Calibrated, Fitted
<1>2. DOMAIN seen \subseteq DOMAIN fares /\ \A i \in DOMAIN seen : seen[i] = fares[i]
  BY DEF Samples
<1>3. ASSUME Enough(seen) PROVE f = Scaled(FitLine(seen))
  BY <1>1, <1>3 DEF Calibrated
<1> HIDE DEF seen, made
<1>4. \A o \in Elements(seen) : o.km \in Nat \ {0} /\ o.fare \in Nat \ {0}
  BY <1>2 DEF Elements, PaidLog
<1>5. ASSUME Enough(seen) PROVE IsCloud(seen)
  <2>1. IsFiniteSet(DOMAIN seen)
    BY <1>2, FS_Subset DEF PaidLog
  <2>2. DOMAIN seen # {}
    BY <1>5, MarginAssumption, FS_EmptySet DEF Enough
  <2>3. QED
    BY <1>4, <2>1, <2>2 DEF IsCloud
<1>6. ASSUME Enough(seen), NEW o \in Elements(seen)
      PROVE  f.base \in Nat /\ f.rate \in Nat /\ FloorOf(f, o.km) <= o.fare
  <2> DEFINE line == FitLine(seen)
  <2>1. IsFloor(line, seen)
    BY <1>5, <1>6, FitIsFloor
  <2> HIDE DEF line
  <2>2. o.km \in Nat /\ o.fare \in Nat
    BY <1>4
  <2>3. /\ Scaled(line).base \in Nat /\ Scaled(line).rate \in Nat
        /\ FloorOf(Scaled(line), o.km) <= o.fare
    BY <2>1, <2>2, ScaledIsUnder
  <2>4. QED
    BY <1>3, <1>6, <2>3 DEF line
<1>7. ASSUME Enough(seen) PROVE Elements(seen) # {}
  BY <1>5, <1>7, CloudIsFinite
<1> HIDE DEF f
<1>8. QED
  BY <1>1, <1>4, <1>6, <1>7 DEF seen, made, f
-----------------------------------------------------------------------------
(***************************************************************************)
(* The floors in use.  The table is what calibrate makes of the first      *)
(* fares of the log, and the orchestrator holds what was loaded from such  *)
(* a table: neither changes when more fares are logged.                    *)
(***************************************************************************)
FloorsInv ==
  /\ LogIsSequence
  /\ \A i \in DOMAIN log : log[i].km \in Nat \ {0} /\ log[i].fare \in Nat \ {0}
  /\ tabled \in 0..Len(log) /\ table = Calibrated(Early(tabled))
  /\ swapped \in 0..Len(log)
  /\ Built => floors = FloorsFromRows(Calibrated(Early(swapped)), Adult)

(* The first fares of the log are a log.                                   *)
LEMMA EarlyFares ==
  ASSUME FloorsInv, NEW n \in 0..Len(log)
  PROVE  PaidLog(Early(n))
<1>1. PICK S : log \in Seq(S)
  BY DEF FloorsInv, LogIsSequence
<1>2. Len(log) \in Nat /\ DOMAIN log = 1..Len(log) /\ n \in Nat /\ n <= Len(log)
  BY <1>1
<1>3. DOMAIN Early(n) = 1..n /\ \A i \in 1..n : Early(n)[i] = log[i] /\ i \in 1..Len(log)
  BY <1>1, <1>2 DEF Early
<1>4. IsFiniteSet(1..n)
  BY <1>2, FS_Interval
<1>5. QED
  BY <1>2, <1>3, <1>4 DEF PaidLog, FloorsInv

(* A fare that is logged leaves the fares before it as they were.          *)
LEMMA EarlyStays ==
  ASSUME LogIsSequence, NEW row, log' = Append(log, row), NEW n \in 0..Len(log)
  PROVE  SubSeq(log', 1, n) = SubSeq(log, 1, n)
<1>1. PICK S : log \in Seq(S)
  BY DEF LogIsSequence
<1> DEFINE T == S \cup {row}
<1>2. log \in Seq(T) /\ row \in T
  BY <1>1
<1> HIDE DEF T
<1>3. log' \in Seq(T) /\ n \in Nat /\ n <= Len(log) /\ Len(log) \in Nat
  BY <1>2
<1> DEFINE a == SubSeq(log', 1, n)
           b == SubSeq(log, 1, n)
<1>4. /\ a \in Seq(T) /\ Len(a) = n /\ b \in Seq(T) /\ Len(b) = n
      /\ \A i \in 1..n : a[i] = log'[i] /\ b[i] = log[i] /\ log'[i] = log[i]
  BY <1>2, <1>3, GrowingLog
<1> HIDE DEF a, b
<1>5. a = b
  BY <1>3, <1>4
<1>6. QED
  BY <1>5 DEF a, b

(* Every step keeps the table, and the floors searches run with, what      *)
(* calibrate made of the first fares of the log.                           *)
LEMMA FloorsStep ==
  ASSUME FloorsInv, [Next]_vars
  PROVE  FloorsInv'
<1>0. PICK S : log \in Seq(S)
  BY DEF FloorsInv, LogIsSequence
<1>1. ASSUME NEW o \in Fares, PriceLeg(o) PROVE FloorsInv'
  <2> DEFINE row == Delta(o, FloorOf(search.floors[o.op], o.km))
  <2>1. log' = Append(log, row) /\ UNCHANGED <<table, tabled, floors, swapped>>
    BY <1>1 DEF PriceLeg, Audited
  <2>2. row.km \in Nat \ {0} /\ row.fare \in Nat \ {0}
    BY FareAssumption DEF Delta
  <2> HIDE DEF row
  <2>3. /\ LogIsSequence'
        /\ Len(log) \in Nat /\ DOMAIN log = 1..Len(log)
        /\ Len(log') = Len(log) + 1 /\ DOMAIN log' = 1..(Len(log) + 1)
        /\ log'[Len(log) + 1] = row
        /\ \A i \in 1..Len(log) : log'[i] = log[i]
    BY <2>1, GrowingLog DEF FloorsInv
  <2>4. \A i \in DOMAIN log' : i \in 1..Len(log) \/ i = Len(log) + 1
    BY <2>3
  <2>5. \A i \in DOMAIN log' : log'[i].km \in Nat \ {0} /\ log'[i].fare \in Nat \ {0}
    BY <2>2, <2>3, <2>4 DEF FloorsInv
  <2>6. tabled \in 0..Len(log) /\ swapped \in 0..Len(log)
    BY DEF FloorsInv
  <2>7. tabled' \in 0..Len(log') /\ swapped' \in 0..Len(log')
    BY <2>1, <2>3, <2>6
  <2>8. /\ SubSeq(log', 1, tabled) = SubSeq(log, 1, tabled)
        /\ SubSeq(log', 1, swapped) = SubSeq(log, 1, swapped)
    BY <2>1, <2>6, EarlyStays DEF FloorsInv
  <2>9. /\ table' = Calibrated(SubSeq(log', 1, tabled'))
        /\ Built' => floors' = FloorsFromRows(Calibrated(SubSeq(log', 1, swapped')), Adult)
    BY <2>1, <2>8 DEF FloorsInv, Early, Built
  <2>10. QED
    BY <2>3, <2>5, <2>7, <2>9 DEF FloorsInv, Early
<1> DEFINE Tabled == tabled' \in 0..Len(log) /\ table' = Calibrated(SubSeq(log, 1, tabled'))
<1>2. ASSUME UNCHANGED log, Tabled,
             \/ UNCHANGED <<floors, swapped>>
             \/ floors' = Unbuilt /\ swapped' = 0
             \/ floors' = FloorsFromRows(table', Adult) /\ swapped' = tabled'
      PROVE  FloorsInv'
  <2>1. Len(log) \in Nat
    BY <1>0
  <2>2. swapped' \in 0..Len(log)
    BY <1>2, <2>1 DEF FloorsInv
  <2>3. Built' => floors' = FloorsFromRows(Calibrated(SubSeq(log, 1, swapped')), Adult)
    BY <1>2 DEF FloorsInv, Built, Early
  <2>4. QED
    BY <1>2, <2>2, <2>3 DEF FloorsInv, Early, LogIsSequence
<1>3. ASSUME UNCHANGED <<table, tabled>> PROVE Tabled
  BY <1>3 DEF FloorsInv, Early
<1>4. ASSUME Calibrate PROVE Tabled
  <2>1. CASE UNCHANGED <<table, tabled>>
    BY <1>3, <2>1
  <2>2. CASE table' = Calibrated(log) /\ tabled' = Len(log)
    <3>1. Len(log) \in 0..Len(log) /\ SubSeq(log, 1, Len(log)) = log
      BY <1>0
    <3>2. SubSeq(log, 1, tabled') = log
      BY <2>2, <3>1
    <3>3. QED
      BY <2>2, <3>1, <3>2
  <2>3. QED
    BY <1>4, <2>1, <2>2 DEF Calibrate, PutOperatorFloors
<1> HIDE DEF Tabled
<1>5. CASE Start \/ FetchFeed \/ SearchEnds \/ ProbeByHand \/ Down
  <2>1. UNCHANGED <<log, table, tabled>>
    BY <1>5 DEF Start, FetchFeed, SearchEnds, ProbeByHand, Down, database
  <2>2. UNCHANGED <<floors, swapped>> \/ (floors' = Unbuilt /\ swapped' = 0)
    BY <1>5 DEF Start, FetchFeed, SearchEnds, ProbeByHand, Down
  <2>3. QED
    BY <1>2, <1>3, <2>1, <2>2
<1>6. CASE Warming
  <2>1. UNCHANGED <<log, table, tabled>>
    BY <1>6 DEF Warming, TimetableLoaded, Assembled, FeedMissing, WarmedUp, BootRaises, database
  <2>2. \/ UNCHANGED <<floors, swapped>>
        \/ floors' = FloorsFromRows(table, Adult) /\ swapped' = tabled
    BY <1>6 DEF Warming, TimetableLoaded, Assembled, FeedMissing, WarmedUp, BootRaises,
                LoadFloors
  <2>3. QED
    BY <1>2, <1>3, <2>1, <2>2
<1>7. ASSUME NEW who, NEW ops, SearchStarts(who, ops) PROVE FloorsInv'
  <2>1. UNCHANGED <<log, table, tabled>>
    BY <1>7 DEF SearchStarts, database
  <2>2. \/ UNCHANGED <<floors, swapped>>
        \/ floors' = FloorsFromRows(table, Adult) /\ swapped' = tabled
    BY <1>7 DEF SearchStarts, LoadFloors
  <2>3. QED
    BY <1>2, <1>3, <2>1, <2>2
<1>8. CASE CatchUp \/ CaughtUp \/ WakeUp \/ (\E c \in Canaries : TimePasses(c)) \/ UNCHANGED vars
  <2>1. UNCHANGED <<log, table, tabled, floors, swapped>>
    BY <1>8 DEF CatchUp, CaughtUp, WakeUp, TimePasses, vars, database
  <2>2. QED
    BY <1>2, <1>3, <2>1
<1>9. CASE Maintain \/ MaintainRaises \/ CalibrateByHand
  <2>1. UNCHANGED log /\ (Calibrate \/ UNCHANGED <<table, tabled>>)
    BY <1>9 DEF Maintain, MaintainRaises, CalibrateByHand
  <2>2. \/ UNCHANGED <<floors, swapped>>
        \/ floors' = FloorsFromRows(table', Adult) /\ swapped' = tabled'
    BY <1>9 DEF Maintain, MaintainRaises, CalibrateByHand
  <2>3. QED
    BY <1>2, <1>3, <1>4, <2>1, <2>2
<1>10. QED
  BY <1>1, <1>5, <1>6, <1>7, <1>8, <1>9 DEF Next, Maintenance

(* The floor contract holds of what a fit has seen: no floor in use is     *)
(* above a fare it was fitted to, and a category without a fit of its own  *)
(* gets floors under half of what adults paid: fit_all, calibrate,         *)
(* floors_from_rows and everything that replaces a table or an             *)
(* orchestrator's floors.                                                  *)
THEOREM FloorsStayUnderFares == Spec => []FloorsUnderFares
<1>1. Init => FloorsInv
  <2> SUFFICES ASSUME Init PROVE FloorsInv
    OBVIOUS
  <2>1. log = <<>> /\ table = << >> /\ floors = Unbuilt /\ tabled = 0 /\ swapped = 0
    BY DEF Init
  <2>2. log \in Seq({}) /\ Len(log) = 0 /\ DOMAIN log = {} /\ Early(0) = <<>>
    BY <2>1 DEF Early
  <2>3. Fitted(<<>>) = {}
    <3>1. ASSUME NEW op, NEW who PROVE ~ Enough(Samples(<<>>, op, who))
      <4>1. DOMAIN Samples(<<>>, op, who) = {}
        BY DEF Samples
      <4>2. QED
        BY <4>1, MarginAssumption, FS_EmptySet DEF Enough
    <3>2. QED
      BY <3>1 DEF Fitted
  <2>4. Calibrated(<<>>) = << >>
    BY <2>3 DEF Calibrated
  <2>5. tabled \in 0..Len(log) /\ swapped \in 0..Len(log)
    BY <2>1, <2>2
  <2>6. QED
    BY <2>1, <2>2, <2>4, <2>5 DEF FloorsInv, LogIsSequence, Built
<1>2. FloorsInv /\ [Next]_vars => FloorsInv'
  BY FloorsStep
<1>3. FloorsInv => FloorsUnderFares
  <2> SUFFICES ASSUME FloorsInv PROVE FloorsUnderFares
    OBVIOUS
  <2>1. ASSUME Built, NEW op \in Operators \ ExactFares,
               NEW o \in Elements(Samples(Early(swapped), op, Adult)),
               Enough(Samples(Early(swapped), op, Adult))
        PROVE  FloorOf(floors[op], o.km) <= o.fare
    <3> DEFINE fares == Early(swapped)
    <3>1. PaidLog(fares) /\ Adult \in Categories
      BY EarlyFares DEF FloorsInv, Categories
    <3>2. floors = FloorsFromRows(Calibrated(fares), Adult)
      BY <2>1 DEF FloorsInv
    <3> HIDE DEF fares
    <3>3. <<op, Adult>> \in DOMAIN Calibrated(fares)
      BY <2>1, <3>1, CalibratedIsUnder DEF fares
    <3>4. floors[op] = Calibrated(fares)[<<op, Adult>>]
      BY <3>2, <3>3 DEF FloorsFromRows
    <3>5. QED
      BY <2>1, <3>1, <3>4, CalibratedIsUnder DEF fares
  <2>2. ASSUME NEW op \in Operators \ ExactFares, NEW who \in Discounted
        PROVE  LET own == Samples(Early(tabled), op, who)
                   adult == Samples(Early(tabled), op, Adult)
                   floor == FloorsFromRows(table, who)[op]
               IN IF Enough(own) THEN \A o \in Elements(own) : FloorOf(floor, o.km) <= o.fare
                  ELSE Enough(adult) =>
                         \A o \in Elements(adult) : 2 * FloorOf(floor, o.km) <= o.fare
    <3> DEFINE fares == Early(tabled)
               own == Samples(fares, op, who)
               adult == Samples(fares, op, Adult)
               floor == FloorsFromRows(table, who)[op]
               f == Calibrated(fares)[<<op, Adult>>]
    <3>1. PaidLog(fares) /\ Adult \in Categories /\ who \in Categories
      BY EarlyFares DEF FloorsInv, Categories
    <3>2. table = Calibrated(fares)
      BY DEF FloorsInv
    <3> HIDE DEF fares
    <3>3. CASE Enough(own)
      <4>1. <<op, who>> \in DOMAIN Calibrated(fares)
        BY <3>1, <3>3, CalibratedIsUnder
      <4>2. floor = Calibrated(fares)[<<op, who>>]
        BY <3>2, <4>1 DEF FloorsFromRows
      <4>3. \A o \in Elements(own) : FloorOf(floor, o.km) <= o.fare
        BY <3>1, <3>3, <4>2, CalibratedIsUnder
      <4>4. QED
        BY <3>3, <4>3 DEF fares
    <3>4. ASSUME ~ Enough(own), Enough(adult), NEW o \in Elements(adult)
          PROVE  2 * FloorOf(floor, o.km) <= o.fare
      <4>1. /\ <<op, who>> \notin DOMAIN Calibrated(fares)
            /\ <<op, Adult>> \in DOMAIN Calibrated(fares)
        BY <3>1, <3>4, CalibratedIsUnder
      <4>2. floor = Halved(f)
        BY <3>2, <4>1 DEF FloorsFromRows
      <4>3. /\ f.base \in Nat /\ f.rate \in Nat /\ FloorOf(f, o.km) <= o.fare
            /\ o.km \in Nat /\ o.fare \in Nat
        BY <3>1, <3>4, CalibratedIsUnder
      <4> HIDE DEF f
      <4>4. QED
        BY <4>2, <4>3, HalvedIsUnder
    <3>5. QED
      BY <3>3, <3>4 DEF fares
  <2>3. QED
    BY <2>1, <2>2 DEF FloorsUnderFares
<1>4. QED
  BY <1>1, <1>2, <1>3, PTL DEF Spec

(* What calibrate fits is "the safest-tight line under every observation": *)
(* of all lines through two fares or the origin that pass under all fares  *)
(* none has more mass.  That only edges of the lower hull are looked at    *)
(* (_lower_hull, _fit_floor_line) loses nothing, whatever fares there are  *)
(* to fit to; the runs compare the clouds of an instance.                  *)
THEOREM FitsAreTight ==
  ASSUME \A points \in Clouds : IsCloud(points)
  PROVE  Spec => []FitIsBest
<1>1. FitIsBest
  BY FitIsBestOf DEF FitIsBest
<1>2. QED
  BY <1>1, PTL
-----------------------------------------------------------------------------
(***************************************************************************)
(* The watches, another state machine of the same process (Watcher, whose  *)
(* formulas carry its name): what holds of them for any number of watches, *)
(* cars and crashes.                                                       *)
(*                                                                         *)
(* Two checks may overlap at every webhook.  What keeps them apart is      *)
(* record_hit: a hit is in the table before its webhook is asked, and the  *)
(* table outlives the process, so the inductive invariant ties the history *)
(* of webhooks to the table.  What keeps them complete is that a check     *)
(* collects all there is to do when it starts.                             *)
(***************************************************************************)

(* What a step of a check reads and changes.                               *)
CheckTypes ==
  /\ hits \subseteq Route
  /\ todo \in [Checks -> SUBSET Route]
  /\ posts \in [Route -> Nat]

Types ==
  /\ watch \in [Watches -> {"absent", "active", "inactive"}]
  /\ CheckTypes

(* A webhook was asked for a car at most once, and for none that is not in *)
(* the log.                                                                *)
PostedAreHits == \A p \in Route : posts[p] <= 1 /\ (posts[p] = 1 => p \in hits)

AnnouncedInv == Types /\ PostedAreHits

(* The pairs a check collects are on a route.                              *)
LEMMA MatchingType ==
  ASSUME NEW ws, NEW cs
  PROVE  Matching(ws, cs) \subseteq Route
BY DEF Matching

(* What Announce does to the log, the rest of the check and the webhooks.  *)
LEMMA AnnounceEffect ==
  ASSUME CheckTypes, NEW a \in Checks, NEW T \in SUBSET Route, Announce(a, T)
  PROVE  /\ CheckTypes'
         /\ hits \subseteq hits'
         /\ \A b \in Checks : b # a => todo'[b] = todo[b]
         /\ posts' = posts \/ \E p \in T : /\ p \notin hits /\ p \in hits'
                                           /\ posts' = [posts EXCEPT ![p] = @ + 1]
         /\ Unusable = {} => T \subseteq hits' \cup todo'[a]
<1> DEFINE calls == {p \in T : Fresh(p) /\ p[1] \in Hooked}
<1>1. CASE calls = {}
  <2>1. hits' = hits \cup T /\ todo' = [todo EXCEPT ![a] = {}] /\ posts' = posts
    BY <1>1 DEF Announce
  <2>2. QED
    BY <2>1 DEF CheckTypes
<1>2. CASE calls # {}
  <2>1. PICK p \in calls, quiet \in SUBSET (T \ calls) :
          /\ hits' = hits \cup quiet \cup {p}
          /\ todo' = [todo EXCEPT ![a] = IF p[1] \in Unusable THEN {} ELSE T \ (quiet \cup {p})]
          /\ posts' = IF p[1] \in Unusable THEN posts ELSE [posts EXCEPT ![p] = @ + 1]
    BY <1>2 DEF Announce
  <2>2. p \in T /\ p \in Route /\ p \notin hits /\ quiet \subseteq T
    BY DEF Fresh
  <2>3. CheckTypes'
    BY <2>1, <2>2 DEF CheckTypes
  <2>4. \A b \in Checks : b # a => todo'[b] = todo[b]
    BY <2>1 DEF CheckTypes
  <2>5. Unusable = {} => todo'[a] = T \ (quiet \cup {p})
    BY <2>1 DEF CheckTypes
  <2>6. QED
    BY <2>1, <2>2, <2>3, <2>4, <2>5
<1>3. QED
  BY <1>1, <1>2

(* Whoever runs a check runs it on pairs of the route.                     *)
LEMMA StepOfChecks ==
  ASSUME Types, [WatcherNext]_watcherVars
  PROVE  \/ \E a \in Checks, T \in SUBSET Route : Announce(a, T)
         \/ UNCHANGED <<hits, posts>> /\ todo' \in [Checks -> SUBSET Route]
<1> USE DEF Checks
<1>1. ASSUME NEW a \in Checks, Answered(a) PROVE \E T \in SUBSET Route : Announce(a, T)
  BY <1>1 DEF Answered, Types, CheckTypes
<1>2. ASSUME NEW w \in Watches, CreateWatch(w) PROVE \E T \in SUBSET Route : Announce(w, T)
  BY <1>2, MatchingType DEF CreateWatch
<1>3. ASSUME Refreshed PROVE \E T \in SUBSET Route : Announce(Refresh, T)
  BY <1>3, MatchingType DEF Refreshed
<1>4. ASSUME \/ Boot \/ Poll \/ Failed \/ StartPolling \/ Relist
             \/ \E w \in Watches : DeleteWatch(w)
             \/ UNCHANGED watcherVars
      PROVE  UNCHANGED <<hits, posts, todo>>
  BY <1>4 DEF Boot, Poll, AskHertz, Failed, StartPolling, Relist, DeleteWatch,
             watcherVars, tables
<1>5. ASSUME GoDown PROVE UNCHANGED <<hits, posts>> /\ todo' \in [Checks -> SUBSET Route]
  BY <1>5 DEF GoDown, tables
<1>6. QED
  BY <1>1, <1>2, <1>3, <1>4, <1>5 DEF WatcherNext, Types, CheckTypes

(* A watch is created, deleted or left as it is.                           *)
LEMMA WatchStep ==
  ASSUME Types, [WatcherNext]_watcherVars
  PROVE  watch' \in [Watches -> {"absent", "active", "inactive"}]
<1>1. \/ watch' = watch
      \/ \E w \in Watches : \/ watch' = [watch EXCEPT ![w] = "active"]
                            \/ watch' = [watch EXCEPT ![w] = "inactive"]
  BY DEF WatcherNext, watcherVars, tables, Boot, Poll, AskHertz, Refreshed, Failed, StartPolling,
         GoDown, Relist, Answered, CreateWatch, DeleteWatch
<1>2. QED
  BY <1>1 DEF Types

(* The types, and the webhooks already asked, survive every step: a crash  *)
(* forgets what a check was doing but not the log.                         *)
LEMMA AnnouncedStep ==
  ASSUME AnnouncedInv, [WatcherNext]_watcherVars
  PROVE  AnnouncedInv'
<1>1. CASE \E a \in Checks, T \in SUBSET Route : Announce(a, T)
  <2>1. CheckTypes' /\ hits \subseteq hits'
    BY <1>1, AnnounceEffect DEF AnnouncedInv, Types
  <2>2. posts' = posts \/ \E p \in Route : /\ p \notin hits /\ p \in hits'
                                          /\ posts' = [posts EXCEPT ![p] = @ + 1]
    BY <1>1, AnnounceEffect DEF AnnouncedInv, Types
  <2>3. CASE posts' = posts
    BY <2>1, <2>3, WatchStep DEF AnnouncedInv, Types, PostedAreHits
  <2>4. ASSUME NEW p \in Route, p \notin hits, p \in hits',
               posts' = [posts EXCEPT ![p] = @ + 1]
        PROVE  AnnouncedInv'
    <3>1. posts[p] \in Nat /\ posts[p] <= 1 /\ posts[p] # 1
      BY <2>4 DEF AnnouncedInv, Types, CheckTypes, PostedAreHits
    <3>2. posts'[p] = 1 /\ \A q \in Route \ {p} : posts'[q] = posts[q]
      BY <2>4, <3>1 DEF AnnouncedInv, Types, CheckTypes
    <3>3. PostedAreHits'
      BY <2>1, <2>4, <3>2 DEF AnnouncedInv, PostedAreHits
    <3>4. QED
      BY <2>1, <3>3, WatchStep DEF AnnouncedInv, Types
  <2>5. QED
    BY <2>2, <2>3, <2>4
<1>2. CASE UNCHANGED <<hits, posts>> /\ todo' \in [Checks -> SUBSET Route]
  BY <1>2, WatchStep DEF AnnouncedInv, Types, CheckTypes, PostedAreHits
<1>3. QED
  BY <1>1, <1>2, StepOfChecks DEF AnnouncedInv

(* Nothing is logged or asked before the first boot.                       *)
LEMMA AnnouncedInit == WatcherInit => AnnouncedInv
BY DEF WatcherInit, AnnouncedInv, Types, CheckTypes, PostedAreHits

(* "One row per (watch, car) so a car is announced once": however many     *)
(* checks overlap and however often the process goes down, no webhook is   *)
(* asked twice for one car.                                                *)
THEOREM NoCarAnnouncedTwice == WatcherSpec => []AnnouncedOnce
<1>1. WatcherSpec => []AnnouncedInv
  BY AnnouncedInit, AnnouncedStep, PTL DEF WatcherSpec
<1>2. AnnouncedInv => AnnouncedOnce
  BY DEF AnnouncedInv, PostedAreHits, AnnouncedOnce
<1>3. QED
  BY <1>1, <1>2, PTL
-----------------------------------------------------------------------------
(***************************************************************************)
(* The log.  A check that an unusable URL ends drops what it had left, so  *)
(* this holds where every URL can be asked.                                *)
(***************************************************************************)
LoggedInv == Types /\ LiveCarsAreLogged

(* A check that starts with everything there is to log leaves nothing out. *)
LEMMA FullCheckLogs ==
  ASSUME Types, Unusable = {}, NEW a \in Checks, NEW T \in SUBSET Route, Announce(a, T),
         NEW M,
         \/ M \subseteq T
         \/ T = todo[a] /\ M \subseteq hits \cup UNION {todo[b] : b \in Checks}
  PROVE  M \subseteq hits' \cup UNION {todo'[b] : b \in Checks}
<1>1. /\ hits \subseteq hits' /\ T \subseteq hits' \cup todo'[a]
      /\ \A b \in Checks : b # a => todo'[b] = todo[b]
  BY AnnounceEffect DEF Types
<1>2. CASE M \subseteq T
  BY <1>1, <1>2
<1>3. CASE T = todo[a] /\ M \subseteq hits \cup UNION {todo[b] : b \in Checks}
  <2>1. ASSUME NEW p \in M PROVE p \in hits' \/ \E b \in Checks : p \in todo'[b]
    <3>1. p \in hits \/ \E b \in Checks : p \in todo[b]
      BY <1>3, <2>1
    <3>2. QED
      BY <1>1, <1>3, <3>1
  <2>2. QED
    BY <2>1
<1>4. QED
  BY <1>2, <1>3

(* No step takes a car of the inventory out of reach of the log.           *)
LEMMA LoggedStep ==
  ASSUME LoggedInv, [WatcherNext]_watcherVars, AnnouncedInv, Unusable = {}
  PROVE  LoggedInv'
<1> DEFINE Pending == hits \cup UNION {todo[b] : b \in Checks}
<1> USE DEF Checks
<1>types. Types' /\ Types
  BY AnnouncedStep DEF AnnouncedInv
<1>1. ASSUME NEW a \in Checks, Answered(a) PROVE LiveCarsAreLogged'
  <2>1. Announce(a, todo[a]) /\ UNCHANGED <<watch, offers, live>> /\ todo[a] \in SUBSET Route
    BY <1>1, <1>types DEF Answered, Types, CheckTypes
  <2>2. live => Matching(Active, offers) \subseteq hits' \cup UNION {todo'[b] : b \in Checks}
    BY <1>types, <2>1, FullCheckLogs DEF LoggedInv, LiveCarsAreLogged
  <2>3. Matching(Active, offers)' = Matching(Active, offers)
    BY <2>1 DEF Matching, Active
  <2>4. QED
    BY <2>1, <2>2, <2>3 DEF LiveCarsAreLogged
<1>2. ASSUME NEW w \in Watches, CreateWatch(w) PROVE LiveCarsAreLogged'
  <2>1. /\ Announce(w, Matching(Active \cup {w}, offers))
        /\ offers' = offers /\ watch' = [watch EXCEPT ![w] = "active"]
    BY <1>2 DEF CreateWatch
  <2>2. Matching(Active \cup {w}, offers) \subseteq hits' \cup UNION {todo'[b] : b \in Checks}
    BY <1>types, <2>1, FullCheckLogs, MatchingType
  <2>3. Active' = Active \cup {w}
    BY <1>types, <2>1 DEF Types, Active
  <2>4. Matching(Active, offers)' = Matching(Active \cup {w}, offers)
    BY <2>1, <2>3 DEF Matching
  <2>5. QED
    BY <2>2, <2>4 DEF LiveCarsAreLogged
<1>3. ASSUME Refreshed PROVE LiveCarsAreLogged'
  <2>1. Announce(Refresh, Matching(Active, Kept)) /\ offers' = Kept /\ watch' = watch
    BY <1>3 DEF Refreshed
  <2>2. Matching(Active, Kept) \subseteq hits' \cup UNION {todo'[b] : b \in Checks}
    BY <1>types, <2>1, FullCheckLogs, MatchingType
  <2>3. Matching(Active, offers)' = Matching(Active, Kept)
    BY <2>1 DEF Matching, Active
  <2>4. QED
    BY <2>2, <2>3 DEF LiveCarsAreLogged
<1>4. ASSUME NEW w \in Watches, DeleteWatch(w) PROVE LiveCarsAreLogged'
  <2>1. UNCHANGED <<hits, todo, offers, live>> /\ watch' = [watch EXCEPT ![w] = "inactive"]
    BY <1>4 DEF DeleteWatch
  <2>2. Matching(Active, offers)' \subseteq Matching(Active, offers)
    BY <1>types, <2>1 DEF Types, Active, Matching
  <2>3. QED
    BY <2>1, <2>2 DEF LoggedInv, LiveCarsAreLogged
<1>5. ASSUME Failed PROVE LiveCarsAreLogged'
  <2>1. UNCHANGED <<hits, todo, watch>> /\ live' = (live /\ offers' = offers)
    BY <1>5 DEF Failed
  <2>2. live' => Matching(Active, offers)' = Matching(Active, offers)
    BY <2>1 DEF Matching, Active
  <2>3. QED
    BY <2>1, <2>2 DEF LoggedInv, LiveCarsAreLogged
<1>6. ASSUME GoDown PROVE LiveCarsAreLogged'
  BY <1>6 DEF GoDown, LiveCarsAreLogged
<1>7. ASSUME Boot \/ Poll \/ StartPolling \/ Relist \/ UNCHANGED watcherVars
      PROVE  LiveCarsAreLogged'
  <2>1. UNCHANGED <<hits, todo, watch, offers, live>>
    BY <1>7 DEF Boot, Poll, AskHertz, StartPolling, Relist, watcherVars, tables
  <2>2. QED
    BY <2>1 DEF LoggedInv, LiveCarsAreLogged, Matching, Active
<1>8. QED
  BY <1>types, <1>1, <1>2, <1>3, <1>4, <1>5, <1>6, <1>7 DEF WatcherNext, LoggedInv

(* "Always into the hit log": however refreshes, new watches and crashes   *)
(* interleave, a car of a live inventory on the route of an active watch   *)
(* is in the log or a running check still has it to do.                    *)
THEOREM CarsReachTheLog ==
  ASSUME Unusable = {}
  PROVE  WatcherSpec => []LiveCarsAreLogged
<1>1. WatcherInit => LoggedInv
  BY AnnouncedInit DEF WatcherInit, LoggedInv, LiveCarsAreLogged, AnnouncedInv
<1>2. (AnnouncedInv /\ LoggedInv) /\ [WatcherNext]_watcherVars => (AnnouncedInv /\ LoggedInv)'
  BY AnnouncedStep, LoggedStep
<1>3. LoggedInv => LiveCarsAreLogged
  BY DEF LoggedInv
<1>4. QED
  BY <1>1, <1>2, <1>3, AnnouncedInit, PTL DEF WatcherSpec
=============================================================================
