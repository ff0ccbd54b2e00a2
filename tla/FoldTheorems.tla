---------------------------- MODULE FoldTheorems ----------------------------
(***************************************************************************)
(* What the sums and folds of the community modules compute.  They are     *)
(* recursive functions on the subsets of a finite set; here it is shown    *)
(* that such a function exists, that the order in which a sum takes the    *)
(* elements does not matter, and what follows for sums.                    *)
(*                                                                         *)
(* Induction is over the least counterexample, a set of naturals.          *)
(***************************************************************************)
EXTENDS Orders, FiniteSetsExt, FiniteSetTheorems, WellFoundedInduction, TLAPS

(* A set of naturals that is not empty has a least element, and Min is it. *)
LEMMA MinIsLeast ==
  ASSUME NEW T \in SUBSET Nat, T # {}
  PROVE  Min(T) \in T /\ \A y \in T : Min(T) <= y
<1>1. PICK x \in T : \A y \in T : ~ (<<y, x>> \in OpToRel(<, Nat))
  BY NatLessThanWellFounded, WFMin
<1>2. ASSUME NEW y \in T PROVE x <= y
  <2>1. ~ (y < x)
    BY <1>1 DEF OpToRel
  <2>2. QED
    BY <2>1
<1>3. QED
  BY <1>2 DEF Min

(* A set of naturals below a bound has a greatest element, and Max is it.  *)
LEMMA MaxIsGreatest ==
  ASSUME NEW n \in Nat, NEW T \in SUBSET (0..n), T # {}
  PROVE  Max(T) \in T /\ \A y \in T : Max(T) >= y
<1> DEFINE Below == {n - x : x \in T}
<1>1. Below \in SUBSET Nat /\ Below # {}
  <2>1. \A x \in T : n - x \in Nat
    OBVIOUS
  <2>2. QED
    BY <2>1
<1>2. PICK x \in T : Min(Below) = n - x
  BY <1>1, MinIsLeast
<1>3. \A y \in T : n - x <= n - y
  BY <1>1, <1>2, MinIsLeast
<1>4. \A y \in T : x >= y
  BY <1>3
<1>5. QED
  BY <1>4 DEF Max

(* Induction: a set of naturals that has zero, and with every number the   *)
(* next, has them all.                                                     *)
LEMMA AllNaturals ==
  ASSUME NEW T \in SUBSET Nat, 0 \in T, \A n \in T : n + 1 \in T
  PROVE  T = Nat
<1> SUFFICES ASSUME Nat \ T # {} PROVE FALSE
  OBVIOUS
<1> DEFINE m == Min(Nat \ T)
<1>1. m \in Nat \ T /\ \A y \in Nat \ T : m <= y
  BY MinIsLeast
<1> HIDE DEF m
<1>2. m - 1 \in T
  BY <1>1
<1>3. QED
  BY <1>1, <1>2

(* A function has finitely many values on a finite set.                    *)
LEMMA ImageIsFinite ==
  ASSUME NEW S, IsFiniteSet(S), NEW f, DOMAIN f = S
  PROVE  IsFiniteSet({f[x] : x \in S})
<1> DEFINE T == {f[x] : x \in S}
           h == [x \in S |-> f[x]]
<1>1. h \in Surjection(S, T)
  BY DEF Surjection
<1>2. QED
  BY <1>1, FS_Surjection

Pick(s) == CHOOSE x \in s : TRUE

(* The recursive function of a sum.                                        *)
IsSum(h, S, g) ==
  h = [s \in SUBSET S |-> IF s = {} THEN 0 ELSE g[Pick(s)] + h[s \ {Pick(s)}]]

(* It exists on the subsets with at most n elements, for every n.          *)
SumsTo(h, S, g, n) ==
  \A s \in SUBSET S : Cardinality(s) <= n =>
    h[s] \in Int /\ h[s] = (IF s = {} THEN 0 ELSE g[Pick(s)] + h[s \ {Pick(s)}])

(* For sets of a bounded size there is a function that sums by picking.    *)
LEMMA SumExistsBelow ==
  ASSUME NEW S, IsFiniteSet(S), NEW g, \A x \in S : g[x] \in Int, NEW n \in Nat
  PROVE  \E h : SumsTo(h, S, g, n)
<1> DEFINE Good(h, m) ==
             \A s \in SUBSET S : Cardinality(s) <= m =>
               h[s] \in Int /\ h[s] = (IF s = {} THEN 0 ELSE g[Pick(s)] + h[s \ {Pick(s)}])
           T == {m \in Nat : \E h : Good(h, m)}
<1>0. \A s \in SUBSET S : IsFiniteSet(s) /\ Cardinality(s) \in Nat
  BY FS_Subset, FS_CardinalityType
<1>1. 0 \in T
  <2> DEFINE h == [s \in SUBSET S |-> 0]
  <2>1. \A s \in SUBSET S : Cardinality(s) <= 0 => s = {}
    BY <1>0, FS_EmptySet
  <2>2. Good(h, 0)
    BY <2>1
  <2>3. QED
    BY <2>2
<1>2. ASSUME NEW m \in T PROVE m + 1 \in T
  <2>1. PICK h : Good(h, m)
    BY <1>2
  <2> DEFINE k == [s \in SUBSET S |-> IF s = {} THEN 0 ELSE g[Pick(s)] + h[s \ {Pick(s)}]]
  <2>2. ASSUME NEW s \in SUBSET S, s # {}
        PROVE  /\ Pick(s) \in s /\ s \ {Pick(s)} \in SUBSET S
               /\ Cardinality(s \ {Pick(s)}) = Cardinality(s) - 1
    <3>1. Pick(s) \in s
      BY <2>2 DEF Pick
    <3>2. QED
      BY <3>1, <1>0, FS_RemoveElement
  <2>3. \A s \in SUBSET S : Cardinality(s) <= m => k[s] = h[s]
    BY <2>1
  <2>4. ASSUME NEW s \in SUBSET S, Cardinality(s) <= m + 1
        PROVE  k[s] \in Int /\ k[s] = (IF s = {} THEN 0 ELSE g[Pick(s)] + k[s \ {Pick(s)}])
    <3>1. CASE s = {}
      BY <3>1
    <3>2. CASE s # {}
      <4> DEFINE r == s \ {Pick(s)}
      <4>1. r \in SUBSET S /\ Cardinality(r) <= m /\ g[Pick(s)] \in Int
        BY <1>0, <2>2, <2>4, <3>2
      <4>2. k[r] = h[r] /\ h[r] \in Int
        BY <2>1, <2>3, <4>1
      <4>3. k[s] = g[Pick(s)] + h[r]
        BY <3>2
      <4>4. QED
        BY <3>2, <4>1, <4>2, <4>3
    <3>3. QED
      BY <3>1, <3>2
  <2>5. Good(k, m + 1)
    BY <2>4
  <2> HIDE DEF k, Good
  <2>6. m + 1 \in Nat /\ \E f : Good(f, m + 1)
    BY <1>2, <2>5
  <2>7. QED
    BY <2>6
<1>3. T = Nat
  BY <1>1, <1>2, AllNaturals
<1>4. QED
  BY <1>3 DEF SumsTo

(* For the subsets of a finite set there is a function that sums by        *)
(* picking.                                                                *)
LEMMA SumExists ==
  ASSUME NEW S, IsFiniteSet(S), NEW g, \A x \in S : g[x] \in Int
  PROVE  \E h : IsSum(h, S, g)
<1>1. PICK h : SumsTo(h, S, g, Cardinality(S))
  BY SumExistsBelow, FS_CardinalityType
<1> DEFINE k == [s \in SUBSET S |-> h[s]]
<1>2. \A s \in SUBSET S : Cardinality(s) <= Cardinality(S)
  BY FS_Subset
<1>3. \A s \in SUBSET S : s # {} => s \ {Pick(s)} \in SUBSET S
  OBVIOUS
<1>4. \A s \in SUBSET S : k[s] = (IF s = {} THEN 0 ELSE g[Pick(s)] + k[s \ {Pick(s)}])
  BY <1>1, <1>2, <1>3 DEF SumsTo
<1>5. k = [s \in SUBSET S |-> IF s = {} THEN 0 ELSE g[Pick(s)] + k[s \ {Pick(s)}]]
  BY <1>4
<1>6. QED
  BY <1>5 DEF IsSum

(* Whatever element is taken out, what is left is the sum of the rest, and *)
(* two functions that agree on a set have the same sum over it.            *)
Counts(h, S, g) ==
  \A s \in SUBSET S : h[s] \in Int /\ \A x \in s : h[s] = g[x] + h[s \ {x}]

(* A sum by picking is a sum in any order, and depends on nothing but the  *)
(* addends.                                                                *)
LEMMA SumsOf ==
  ASSUME NEW S, IsFiniteSet(S), NEW g, \A x \in S : g[x] \in Int, NEW h, IsSum(h, S, g),
         NEW R, IsFiniteSet(R), NEW f, \A x \in R : f[x] \in Int, NEW k, IsSum(k, R, f)
  PROVE  /\ Counts(h, S, g)
         /\ \A s \in SUBSET S : s \subseteq R /\ (\A x \in s : f[x] = g[x]) => k[s] = h[s]
<1> DEFINE Good(s) == /\ h[s] \in Int
                      /\ \A x \in s : h[s] = g[x] + h[s \ {x}]
                      /\ s \subseteq R /\ (\A x \in s : f[x] = g[x]) => k[s] = h[s]
           T == {m \in Nat : \A s \in SUBSET S : Cardinality(s) <= m => Good(s)}
<1>0. \A s \in SUBSET S : /\ IsFiniteSet(s) /\ Cardinality(s) \in Nat
                          /\ Cardinality(s) <= Cardinality(S)
                          /\ \A x \in s : Cardinality(s \ {x}) = Cardinality(s) - 1
  BY FS_Subset, FS_CardinalityType, FS_RemoveElement
<1>1. /\ \A s \in SUBSET S : h[s] = (IF s = {} THEN 0 ELSE g[Pick(s)] + h[s \ {Pick(s)}])
      /\ \A s \in SUBSET R : k[s] = (IF s = {} THEN 0 ELSE f[Pick(s)] + k[s \ {Pick(s)}])
  BY DEF IsSum
<1>2. \A s : s # {} => Pick(s) \in s
  BY DEF Pick
<1>3. Good({})
  <2>1. {} \in SUBSET S /\ {} \in SUBSET R
    OBVIOUS
  <2>2. h[{}] = 0 /\ k[{}] = 0
    BY <1>1, <2>1
  <2>3. QED
    BY <2>2
<1>4. 0 \in T
  <2>1. \A s \in SUBSET S : Cardinality(s) <= 0 => s = {}
    BY <1>0, FS_EmptySet
  <2>2. QED
    BY <1>3, <2>1
<1>5. ASSUME NEW m \in T PROVE m + 1 \in T
  <2>1. ASSUME NEW s \in SUBSET S, Cardinality(s) <= m + 1, s # {}
        PROVE  Good(s)
    <3> DEFINE p == Pick(s)
               r == s \ {p}
    <3>1. p \in s /\ r \in SUBSET S /\ Cardinality(r) <= m
      BY <1>0, <1>2, <2>1
    <3>2. Good(r)
      BY <3>1, <1>5
    <3>3. h[s] = g[p] + h[r] /\ g[p] \in Int
      BY <1>1, <2>1, <3>1
    <3>4. ASSUME NEW x \in s PROVE h[s] = g[x] + h[s \ {x}]
      <4>1. CASE x = p
        BY <3>3, <4>1
      <4>2. CASE x # p
        <5> DEFINE q == s \ {x}
        <5>1. q \in SUBSET S /\ Cardinality(q) <= m /\ p \in q /\ x \in r /\ g[x] \in Int
          BY <1>0, <2>1, <3>1, <4>2
        <5>2. Good(q)
          BY <5>1, <1>5
        <5>3. h[q] = g[p] + h[q \ {p}] /\ h[r] = g[x] + h[r \ {x}]
          BY <3>2, <5>1, <5>2
        <5>4. q \ {p} = r \ {x} /\ Good(r \ {x})
          <6>1. q \ {p} = r \ {x}
            OBVIOUS
          <6>2. r \ {x} \in SUBSET S /\ Cardinality(r \ {x}) <= m
            BY <1>0, <3>1, <5>1
          <6>3. QED
            BY <6>1, <6>2, <1>5
        <5> DEFINE a == r \ {x}
        <5>5. h[a] \in Int /\ h[q] = g[p] + h[a] /\ h[r] = g[x] + h[a]
          BY <5>3, <5>4
        <5>6. h[s] = g[p] + h[r] /\ g[p] \in Int /\ g[x] \in Int
          BY <3>3, <5>1
        <5> HIDE DEF Good, q, r, p, a
        <5>7. h[s] = g[x] + h[q]
          BY <5>5, <5>6
        <5>8. QED
          BY <5>7 DEF q
      <4>3. QED
        BY <4>1, <4>2
    <3>5. ASSUME s \subseteq R, \A x \in s : f[x] = g[x] PROVE k[s] = h[s]
      <4>1. k[s] = f[p] + k[r] /\ k[r] = h[r]
        BY <1>1, <2>1, <3>1, <3>2, <3>5
      <4>2. QED
        BY <3>1, <3>3, <3>5, <4>1
    <3>6. h[s] \in Int
      BY <3>2, <3>3
    <3>7. QED
      BY <3>4, <3>5, <3>6
  <2> HIDE DEF Good
  <2>2. m + 1 \in Nat /\ \A s \in SUBSET S : Cardinality(s) <= m + 1 => Good(s)
    BY <1>3, <1>5, <2>1
  <2>3. QED
    BY <2>2
<1>6. T = Nat
  BY <1>4, <1>5, AllNaturals
<1>7. QED
  BY <1>0, <1>6, FS_CardinalityType DEF Counts

(* The library's sum over a finite set is a sum by picking.                *)
LEMMA SumIs ==
  ASSUME NEW S, IsFiniteSet(S), NEW g, \A x \in S : g[x] \in Int
  PROVE  \E k : IsSum(k, S, g) /\ SumFunctionOnSet(g, S) = k[S]
<1>1. PICK h : IsSum(h, S, g)
  BY SumExists
<1>2. QED
  BY <1>1 DEF IsSum, Pick, SumFunctionOnSet, FoldFunctionOnSet, MapThenFoldSet
-----------------------------------------------------------------------------
(***************************************************************************)
(* Sums.                                                                   *)
(***************************************************************************)

(* The sum of nothing is nothing.                                          *)
LEMMA SumEmpty ==
  ASSUME NEW g
  PROVE  SumFunctionOnSet(g, {}) = 0
<1>1. PICK k : IsSum(k, {}, g) /\ SumFunctionOnSet(g, {}) = k[{}]
  BY SumIs, FS_EmptySet
<1>2. QED
  BY <1>1 DEF IsSum

(* Sums over a set of functions that agree on it are the same.             *)
LEMMA SumAgrees ==
  ASSUME NEW S, IsFiniteSet(S), NEW g, \A x \in S : g[x] \in Int,
         NEW f, \A x \in S : f[x] = g[x]
  PROVE  SumFunctionOnSet(f, S) = SumFunctionOnSet(g, S)
<1>1. PICK h : IsSum(h, S, g) /\ SumFunctionOnSet(g, S) = h[S]
  BY SumIs
<1>2. \A x \in S : f[x] \in Int
  OBVIOUS
<1>3. PICK k : IsSum(k, S, f) /\ SumFunctionOnSet(f, S) = k[S]
  BY <1>2, SumIs
<1>4. S \in SUBSET S /\ S \subseteq S
  OBVIOUS
<1>5. QED
  BY <1>1, <1>2, <1>3, <1>4, SumsOf

(* Any element may be counted last.                                        *)
LEMMA SumRemove ==
  ASSUME NEW S, IsFiniteSet(S), NEW g, \A x \in S : g[x] \in Int
  PROVE  /\ SumFunctionOnSet(g, S) \in Int
         /\ \A x \in S : SumFunctionOnSet(g, S) = g[x] + SumFunctionOnSet(g, S \ {x})
<1>1. PICK h : IsSum(h, S, g) /\ SumFunctionOnSet(g, S) = h[S]
  BY SumIs
<1>2. Counts(h, S, g)
  BY <1>1, SumsOf
<1>3. SumFunctionOnSet(g, S) \in Int
  BY <1>1, <1>2 DEF Counts
<1>4. ASSUME NEW x \in S
      PROVE  SumFunctionOnSet(g, S) = g[x] + SumFunctionOnSet(g, S \ {x})
  <2> DEFINE R == S \ {x}
  <2>1. IsFiniteSet(R) /\ \A y \in R : g[y] \in Int
    BY FS_Subset
  <2>2. R \in SUBSET S /\ \A y \in R : g[y] = g[y]
    OBVIOUS
  <2>3. S \in SUBSET S /\ x \in S
    OBVIOUS
  <2> HIDE DEF R
  <2>4. PICK k : IsSum(k, R, g) /\ SumFunctionOnSet(g, R) = k[R]
    BY <2>1, SumIs
  <2>5. k[R] = h[R]
    BY <1>1, <2>1, <2>2, <2>4, SumsOf
  <2>6. h[S] = g[x] + h[R]
    BY <1>2, <2>3 DEF Counts, R
  <2>7. QED
    BY <1>1, <2>4, <2>5, <2>6 DEF R
<1>5. QED
  BY <1>3, <1>4

(* Induction: what holds of the empty set, and of a subset when it holds   *)
(* of it without one of its elements, holds of the whole of a finite set.  *)
LEMMA SetInduction ==
  ASSUME NEW S, IsFiniteSet(S), NEW X \in SUBSET SUBSET S, {} \in X,
         \A s \in SUBSET S : \A x \in s : s \ {x} \in X => s \in X
  PROVE  S \in X
<1> DEFINE T == {m \in Nat : \A s \in SUBSET S : Cardinality(s) <= m => s \in X}
<1>0. \A s \in SUBSET S : /\ IsFiniteSet(s) /\ Cardinality(s) \in Nat
                          /\ \A x \in s : Cardinality(s \ {x}) = Cardinality(s) - 1
  BY FS_Subset, FS_CardinalityType, FS_RemoveElement
<1>1. 0 \in T
  <2>1. \A s \in SUBSET S : Cardinality(s) <= 0 => s = {}
    BY <1>0, FS_EmptySet
  <2>2. QED
    BY <2>1
<1>2. ASSUME NEW m \in T PROVE m + 1 \in T
  <2>1. ASSUME NEW s \in SUBSET S, Cardinality(s) <= m + 1, NEW x \in s PROVE s \in X
    <3>1. s \ {x} \in SUBSET S /\ Cardinality(s \ {x}) <= m
      BY <1>0, <2>1
    <3>2. QED
      BY <1>2, <3>1
  <2>2. \A s \in SUBSET S : Cardinality(s) <= m + 1 => s \in X
    BY <2>1
  <2>3. QED
    BY <2>2
<1>3. T = Nat
  BY <1>1, <1>2, AllNaturals
<1>4. S \in SUBSET S /\ Cardinality(S) \in Nat /\ Cardinality(S) <= Cardinality(S)
  BY <1>0
<1> HIDE DEF T
<1>5. Cardinality(S) \in T
  BY <1>3, <1>4
<1>6. QED
  BY <1>4, <1>5 DEF T

(* A sum is the sum of the sums of two parts.                              *)
LEMMA SumSplit ==
  ASSUME NEW S, IsFiniteSet(S), NEW g, \A x \in S : g[x] \in Int, NEW T \in SUBSET S
  PROVE  SumFunctionOnSet(g, S) = SumFunctionOnSet(g, T) + SumFunctionOnSet(g, S \ T)
<1> DEFINE sum(s) == SumFunctionOnSet(g, s)
           X == {s \in SUBSET T : sum(S) = sum(s) + sum(S \ s)}
<1>0. \A s \in SUBSET S : /\ IsFiniteSet(s) /\ \A x \in s : g[x] \in Int
                          /\ sum(s) \in Int
                          /\ \A x \in s : sum(s) = g[x] + sum(s \ {x})
  <2>1. ASSUME NEW s \in SUBSET S PROVE IsFiniteSet(s) /\ \A x \in s : g[x] \in Int
    BY FS_Subset
  <2>2. QED
    BY <2>1, SumRemove
<1>1. {} \in X
  <2>1. sum({}) = 0 /\ S \ {} = S /\ sum(S) \in Int
    BY <1>0, SumEmpty
  <2>2. QED
    BY <2>1
<1>2. ASSUME NEW s \in SUBSET T, NEW x \in s, s \ {x} \in X PROVE s \in X
  <2> DEFINE a == s \ {x}
             b == S \ a
  <2>1. /\ s \in SUBSET S /\ a \in SUBSET S /\ b \in SUBSET S /\ S \ s \in SUBSET S
        /\ x \in b /\ b \ {x} = S \ s /\ g[x] \in Int
    OBVIOUS
  <2>2. sum(s) = g[x] + sum(a) /\ sum(a) \in Int
    BY <1>0, <2>1
  <2>3. sum(b) = g[x] + sum(S \ s) /\ sum(S \ s) \in Int
    BY <1>0, <2>1
  <2>4. sum(S) = sum(a) + sum(b)
    BY <1>2
  <2> HIDE DEF sum, a, b
  <2>5. sum(S) = sum(s) + sum(S \ s)
    BY <2>1, <2>2, <2>3, <2>4
  <2>6. QED
    BY <2>5
<1>3. IsFiniteSet(T)
  BY <1>0
<1> HIDE DEF sum
<1>4. X \in SUBSET SUBSET T
  OBVIOUS
<1> HIDE DEF X
<1>5. T \in X
  BY <1>1, <1>2, <1>3, <1>4, SetInduction
<1>6. QED
  BY <1>5 DEF X, sum

(* The sum of two functions, of which one is never above a third.          *)
LEMMA SumAdds ==
  ASSUME NEW S, IsFiniteSet(S), NEW f, NEW g, NEW h,
         \A x \in S : f[x] \in Int /\ g[x] \in Int /\ h[x] = f[x] + g[x]
  PROVE  SumFunctionOnSet(h, S) = SumFunctionOnSet(f, S) + SumFunctionOnSet(g, S)
<1> DEFINE F(s) == SumFunctionOnSet(f, s)
           G(s) == SumFunctionOnSet(g, s)
           H(s) == SumFunctionOnSet(h, s)
           X == {s \in SUBSET S : H(s) = F(s) + G(s)}
<1>1. {} \in X
  BY SumEmpty
<1>2. ASSUME NEW s \in SUBSET S, NEW x \in s, s \ {x} \in X PROVE s \in X
  <2>1. /\ IsFiniteSet(s)
        /\ \A y \in s : f[y] \in Int /\ g[y] \in Int /\ h[y] \in Int
    BY FS_Subset
  <2>2. F(s) = f[x] + F(s \ {x}) /\ G(s) = g[x] + G(s \ {x}) /\ H(s) = h[x] + H(s \ {x})
    BY <2>1, SumRemove
  <2>3. /\ IsFiniteSet(s \ {x})
        /\ \A y \in s \ {x} : f[y] \in Int /\ g[y] \in Int /\ h[y] \in Int
    BY <2>1, FS_Subset
  <2>4. F(s \ {x}) \in Int /\ G(s \ {x}) \in Int
    BY <2>3, SumRemove
  <2>5. H(s \ {x}) = F(s \ {x}) + G(s \ {x})
    BY <1>2
  <2>6. f[x] \in Int /\ g[x] \in Int /\ h[x] = f[x] + g[x]
    OBVIOUS
  <2> HIDE DEF F, G, H
  <2>7. H(s) = F(s) + G(s)
    BY <2>2, <2>4, <2>5, <2>6
  <2>8. QED
    BY <2>7
<1> HIDE DEF F, G, H
<1>3. X \in SUBSET SUBSET S
  OBVIOUS
<1> HIDE DEF X
<1>4. S \in X
  BY <1>1, <1>2, <1>3, SetInduction
<1>5. QED
  BY <1>4 DEF X, F, G, H

(* A multiple sums to the multiple.                                        *)
LEMMA SumScales ==
  ASSUME NEW S, IsFiniteSet(S), NEW c \in Int, NEW f, NEW h,
         \A x \in S : f[x] \in Int /\ h[x] = c * f[x]
  PROVE  SumFunctionOnSet(h, S) = c * SumFunctionOnSet(f, S)
<1> DEFINE F(s) == SumFunctionOnSet(f, s)
           H(s) == SumFunctionOnSet(h, s)
           X == {s \in SUBSET S : H(s) = c * F(s)}
<1>1. {} \in X
  BY SumEmpty
<1>2. ASSUME NEW s \in SUBSET S, NEW x \in s, s \ {x} \in X PROVE s \in X
  <2>1. IsFiniteSet(s) /\ \A y \in s : f[y] \in Int /\ h[y] \in Int
    BY FS_Subset
  <2>2. F(s) = f[x] + F(s \ {x}) /\ H(s) = h[x] + H(s \ {x})
    BY <2>1, SumRemove
  <2>3. IsFiniteSet(s \ {x}) /\ \A y \in s \ {x} : f[y] \in Int
    BY <2>1, FS_Subset
  <2>4. F(s \ {x}) \in Int
    BY <2>3, SumRemove
  <2>5. H(s \ {x}) = c * F(s \ {x})
    BY <1>2
  <2>6. f[x] \in Int /\ h[x] = c * f[x]
    OBVIOUS
  <2> HIDE DEF F, H
  <2>7. c * (f[x] + F(s \ {x})) = c * f[x] + c * F(s \ {x})
    BY <2>4, <2>6
  <2>8. H(s) = c * F(s)
    BY <2>2, <2>5, <2>6, <2>7
  <2>9. QED
    BY <2>8
<1> HIDE DEF F, H
<1>3. X \in SUBSET SUBSET S
  OBVIOUS
<1> HIDE DEF X
<1>4. S \in X
  BY <1>1, <1>2, <1>3, SetInduction
<1>5. QED
  BY <1>4 DEF X, F, H

(* A function that is nowhere above another sums to no more, and to less   *)
(* if it is below it somewhere.                                            *)
LEMMA SumAtMost ==
  ASSUME NEW S, IsFiniteSet(S), NEW f, NEW g,
         \A x \in S : f[x] \in Int /\ g[x] \in Int /\ f[x] <= g[x]
  PROVE  /\ SumFunctionOnSet(f, S) <= SumFunctionOnSet(g, S)
         /\ (\E x \in S : f[x] < g[x]) => SumFunctionOnSet(f, S) < SumFunctionOnSet(g, S)
<1> DEFINE F(s) == SumFunctionOnSet(f, s)
           G(s) == SumFunctionOnSet(g, s)
           X == {s \in SUBSET S : F(s) <= G(s)}
<1>0. ASSUME NEW s \in SUBSET S
      PROVE  /\ F(s) \in Int /\ G(s) \in Int
             /\ \A x \in s : F(s) = f[x] + F(s \ {x}) /\ G(s) = g[x] + G(s \ {x})
  <2>1. IsFiniteSet(s) /\ \A y \in s : f[y] \in Int /\ g[y] \in Int
    BY FS_Subset
  <2>2. QED
    BY <2>1, SumRemove
<1>1. {} \in X
  BY SumEmpty
<1> HIDE DEF F, G
<1>2. ASSUME NEW s \in SUBSET S, NEW x \in s, s \ {x} \in X PROVE s \in X
  <2>1. s \ {x} \in SUBSET S /\ F(s \ {x}) <= G(s \ {x})
    BY <1>2
  <2>2. F(s) = f[x] + F(s \ {x}) /\ G(s) = g[x] + G(s \ {x})
    BY <1>0
  <2>3. F(s \ {x}) \in Int /\ G(s \ {x}) \in Int /\ f[x] \in Int /\ g[x] \in Int /\ f[x] <= g[x]
    BY <1>0, <2>1
  <2>4. F(s) <= G(s)
    BY <2>1, <2>2, <2>3
  <2>5. QED
    BY <2>4
<1>3. X \in SUBSET SUBSET S
  OBVIOUS
<1>4. ASSUME NEW T \in SUBSET S PROVE F(T) <= G(T)
  <2> DEFINE Y == X \cap SUBSET T
  <2>1. IsFiniteSet(T)
    BY FS_Subset
  <2>2. {} \in Y /\ Y \in SUBSET SUBSET T
    BY <1>1
  <2>3. \A s \in SUBSET T : \A x \in s : s \ {x} \in Y => s \in Y
    BY <1>2
  <2> HIDE DEF Y, X
  <2>4. T \in Y
    BY <2>1, <2>2, <2>3, SetInduction
  <2>5. QED
    BY <2>4 DEF Y, X
<1>5. ASSUME NEW x \in S, f[x] < g[x] PROVE F(S) < G(S)
  <2>1. S \in SUBSET S /\ S \ {x} \in SUBSET S
    OBVIOUS
  <2>2. F(S) = f[x] + F(S \ {x}) /\ G(S) = g[x] + G(S \ {x})
    BY <1>0, <2>1
  <2>3. F(S \ {x}) <= G(S \ {x}) /\ F(S \ {x}) \in Int /\ G(S \ {x}) \in Int
    BY <1>0, <1>4, <2>1
  <2>4. f[x] \in Int /\ g[x] \in Int
    OBVIOUS
  <2>5. QED
    BY <1>5, <2>2, <2>3, <2>4
<1>6. S \in SUBSET S
  OBVIOUS
<1>7. F(S) <= G(S)
  BY <1>4, <1>6
<1>8. QED
  BY <1>5, <1>7 DEF F, G

(* What is nothing everywhere sums to nothing.                             *)
LEMMA SumZero ==
  ASSUME NEW S, IsFiniteSet(S), NEW g, \A x \in S : g[x] = 0
  PROVE  SumFunctionOnSet(g, S) = 0
<1>1. \A x \in S : g[x] \in Int /\ g[x] = g[x] + g[x]
  OBVIOUS
<1>2. SumFunctionOnSet(g, S) = SumFunctionOnSet(g, S) + SumFunctionOnSet(g, S)
  BY <1>1, SumAdds
<1>3. SumFunctionOnSet(g, S) \in Int
  BY <1>1, SumRemove
<1>4. \A n \in Int : n = n + n => n = 0
  OBVIOUS
<1>5. QED
  BY <1>2, <1>3, <1>4

(* Counted group by group, a sum is the same.                              *)
Groups(S, g, R, of, total) ==
  /\ IsFiniteSet(S) /\ IsFiniteSet(R)
  /\ \A x \in S : g[x] \in Int /\ of[x] \in R
  /\ \A r \in R : total[r] = SumFunctionOnSet(g, {x \in S : of[x] = r})

(* A sum may be taken group by group.                                      *)
LEMMA SumByGroup ==
  ASSUME NEW S, NEW g, NEW R, NEW of, NEW total, Groups(S, g, R, of, total)
  PROVE  SumFunctionOnSet(g, S) = SumFunctionOnSet(total, R)
<1>. /\ IsFiniteSet(S) /\ IsFiniteSet(R)
     /\ \A x \in S : g[x] \in Int /\ of[x] \in R
     /\ \A r \in R : total[r] = SumFunctionOnSet(g, {x \in S : of[x] = r})
  BY DEF Groups
<1> DEFINE sum(s) == SumFunctionOnSet(g, s)
           In(Q) == {x \in S : of[x] \in Q}
           X == {Q \in SUBSET R : sum(In(Q)) = SumFunctionOnSet(total, Q)}
<1>0. \A s \in SUBSET S : IsFiniteSet(s) /\ (\A x \in s : g[x] \in Int) /\ sum(s) \in Int
  <2>1. ASSUME NEW s \in SUBSET S PROVE IsFiniteSet(s) /\ \A x \in s : g[x] \in Int
    BY FS_Subset
  <2>2. QED
    BY <2>1, SumRemove
<1>1. {} \in X
  <2>1. In({}) = {}
    OBVIOUS
  <2>2. QED
    BY <2>1, SumEmpty
<1>2. \A r \in R : total[r] \in Int
  BY <1>0
<1>3. ASSUME NEW Q \in SUBSET R, NEW r \in Q, Q \ {r} \in X PROVE Q \in X
  <2> DEFINE T == {x \in S : of[x] = r}
             A == In(Q)
             B == In(Q \ {r})
  <2>1. A \in SUBSET S /\ T \in SUBSET A /\ A \ T = B /\ T \in SUBSET S
    OBVIOUS
  <2>2. sum(B) = SumFunctionOnSet(total, Q \ {r})
    BY <1>3
  <2>3. total[r] = sum(T)
    OBVIOUS
  <2> HIDE DEF A, B, T
  <2>4. IsFiniteSet(A) /\ \A x \in A : g[x] \in Int
    BY <1>0, <2>1
  <2>5. sum(A) = sum(T) + sum(A \ T)
    BY <2>1, <2>4, SumSplit
  <2>6. IsFiniteSet(Q) /\ \A q \in Q : total[q] \in Int
    BY <1>2, FS_Subset
  <2>7. SumFunctionOnSet(total, Q) = total[r] + SumFunctionOnSet(total, Q \ {r})
    BY <2>6, SumRemove
  <2>8. sum(A) = SumFunctionOnSet(total, Q)
    BY <2>1, <2>2, <2>3, <2>5, <2>7
  <2>9. QED
    BY <2>8 DEF A
<1>4. In(R) = S
  OBVIOUS
<1> HIDE DEF sum, In
<1>5. X \in SUBSET SUBSET R
  OBVIOUS
<1> HIDE DEF X
<1>6. R \in X
  BY <1>1, <1>3, <1>5, SetInduction
<1>7. QED
  BY <1>4, <1>6 DEF X, sum

(* What two sets share is counted twice when their sums are added.         *)
LEMMA SumOfUnion ==
  ASSUME NEW S, IsFiniteSet(S), NEW T, IsFiniteSet(T),
         NEW g, \A x \in S \cup T : g[x] \in Int
  PROVE  SumFunctionOnSet(g, S) + SumFunctionOnSet(g, T)
           - SumFunctionOnSet(g, S \cap T) = SumFunctionOnSet(g, S \cup T)
<1> DEFINE sum(s) == SumFunctionOnSet(g, s)
           U == S \cup T
           B == S \cap T
<1>1. IsFiniteSet(U) /\ \A s \in SUBSET U : IsFiniteSet(s) /\ sum(s) \in Int
  <2>1. IsFiniteSet(U)
    BY FS_Union
  <2>2. ASSUME NEW s \in SUBSET U PROVE IsFiniteSet(s) /\ \A x \in s : g[x] \in Int
    BY <2>1, FS_Subset
  <2>3. QED
    BY <2>1, <2>2, SumRemove
<1>2. sum(U) = sum(S) + sum(U \ S)
  BY <1>1, SumSplit
<1>3. sum(T) = sum(B) + sum(U \ S)
  <2>1. sum(T) = sum(B) + sum(T \ B)
    BY SumSplit
  <2>2. T \ B = U \ S
    OBVIOUS
  <2>3. QED
    BY <2>1, <2>2
<1>4. /\ S \in SUBSET U /\ T \in SUBSET U /\ B \in SUBSET U
      /\ U \ S \in SUBSET U /\ U \in SUBSET U
  OBVIOUS
<1> HIDE DEF sum, U, B
<1>5. /\ sum(S) \in Int /\ sum(T) \in Int /\ sum(B) \in Int
      /\ sum(U \ S) \in Int /\ sum(U) \in Int
  BY <1>1, <1>4
<1>6. sum(S) + sum(T) - sum(B) = sum(U)
  BY <1>2, <1>3, <1>5
<1>7. QED
  BY <1>6 DEF sum, U, B
-----------------------------------------------------------------------------
(***************************************************************************)
(* Sequences that are folded from the left.  MapThenFoldSet takes the      *)
(* indices from the greatest down; st is one step, as a function.          *)
(***************************************************************************)
IsFold(h, n, base, st) ==
  h = [s \in SUBSET (1..n) |-> IF s = {} THEN base ELSE st[<<h[s \ {Max(s)}], Max(s)>>]]

(* The recursive function of a fold exists.                                *)
LEMMA FoldExists ==
  ASSUME NEW n \in Nat, NEW V, NEW base \in V, NEW st,
         \A v \in V : \A i \in 1..n : st[<<v, i>>] \in V
  PROVE  \E h : IsFold(h, n, base, st) /\ \A s \in SUBSET (1..n) : h[s] \in V
<1> DEFINE Good(h, m) ==
             \A s \in SUBSET (1..m) :
               /\ h[s] \in V
               /\ h[s] = (IF s = {} THEN base ELSE st[<<h[s \ {Max(s)}], Max(s)>>])
           T == {m \in Nat : m <= n => \E h : Good(h, m)}
<1>0. ASSUME NEW m \in Nat, NEW s \in SUBSET (1..(m + 1)), s # {}
      PROVE  Max(s) \in 1..(m + 1) /\ s \ {Max(s)} \in SUBSET (1..m)
  <2>1. m + 1 \in Nat /\ s \in SUBSET (0..(m + 1))
    OBVIOUS
  <2> DEFINE M == Max(s)
  <2>2. M \in s /\ \A y \in s : M >= y
    BY <1>0, <2>1, MaxIsGreatest
  <2> HIDE DEF M
  <2>3. \A y \in 1..(m + 1) : y \in Nat /\ 1 <= y /\ y <= m + 1
    OBVIOUS
  <2>4. M \in 1..(m + 1)
    BY <2>2
  <2>5. \A y \in s \ {M} : y \in 1..m
    BY <2>2, <2>3
  <2>6. QED
    BY <2>4, <2>5 DEF M
<1>1. 0 \in T
  <2> DEFINE h == [s \in SUBSET (1..0) |-> base]
  <2>1. Good(h, 0)
    OBVIOUS
  <2>2. QED
    BY <2>1
<1>2. ASSUME NEW m \in T PROVE m + 1 \in T
  <2> HIDE DEF Good
  <2> SUFFICES ASSUME m + 1 <= n PROVE \E h : Good(h, m + 1)
    BY <1>2
  <2>0. m \in Nat /\ m <= n
    BY <1>2
  <2>1. PICK h : Good(h, m)
    BY <1>2, <2>0
  <2> USE DEF Good
  <2> DEFINE k == [s \in SUBSET (1..(m + 1)) |->
                     IF s = {} THEN base ELSE st[<<h[s \ {Max(s)}], Max(s)>>]]
  <2>2. \A s \in SUBSET (1..m) : k[s] = h[s] /\ k[s] \in V
    <3>1. \A s \in SUBSET (1..m) : s \in SUBSET (1..(m + 1))
      BY <2>0
    <3>2. QED
      BY <2>1, <3>1
  <2>3. ASSUME NEW s \in SUBSET (1..(m + 1))
        PROVE  /\ k[s] \in V
               /\ k[s] = (IF s = {} THEN base ELSE st[<<k[s \ {Max(s)}], Max(s)>>])
    <3>1. CASE s = {}
      BY <3>1
    <3>2. CASE s # {}
      <4> DEFINE r == s \ {Max(s)}
                 x == Max(s)
      <4>1. r \in SUBSET (1..m) /\ x \in 1..n
        <5>1. x \in 1..(m + 1) /\ r \in SUBSET (1..m)
          BY <1>0, <2>0, <3>2
        <5>2. QED
          BY <2>0, <5>1
      <4>2. k[r] = h[r] /\ h[r] \in V
        BY <2>2, <4>1
      <4>3. k[s] = st[<<h[r], x>>]
        BY <3>2
      <4> HIDE DEF k, r, x
      <4>4. k[s] \in V /\ k[s] = st[<<k[r], x>>]
        BY <4>1, <4>2, <4>3
      <4>5. QED
        BY <3>2, <4>4 DEF r, x
    <3>3. QED
      BY <3>1, <3>2
  <2>4. Good(k, m + 1)
    BY <2>3
  <2> HIDE DEF k, Good
  <2>5. QED
    BY <2>4
<1>3. T = Nat
  BY <1>1, <1>2, AllNaturals
<1>4. PICK h : Good(h, n)
  <2> HIDE DEF Good
  <2>1. n \in T /\ n <= n
    BY <1>3
  <2>2. QED
    BY <2>1
<1> DEFINE f == [s \in SUBSET (1..n) |-> h[s]]
<1>5. \A s \in SUBSET (1..n) : s # {} => s \ {Max(s)} \in SUBSET (1..n)
  OBVIOUS
<1>6. f = [s \in SUBSET (1..n) |-> IF s = {} THEN base ELSE st[<<f[s \ {Max(s)}], Max(s)>>]]
  BY <1>4, <1>5
<1>7. \A s \in SUBSET (1..n) : f[s] \in V
  BY <1>4
<1> HIDE DEF f
<1>8. QED
  BY <1>6, <1>7 DEF IsFold

(* The greatest of the first k + 1 numbers is the last.                    *)
LEMMA LastOfFirst ==
  ASSUME NEW k \in Nat
  PROVE  Max(1..(k + 1)) = k + 1 /\ (1..(k + 1)) \ {k + 1} = 1..k
<1>1. /\ k + 1 \in Nat /\ 1..(k + 1) \in SUBSET (0..(k + 1)) /\ 1..(k + 1) # {}
      /\ k + 1 \in 1..(k + 1)
  OBVIOUS
<1>2. Max(1..(k + 1)) \in 1..(k + 1) /\ \A y \in 1..(k + 1) : Max(1..(k + 1)) >= y
  BY <1>1, MaxIsGreatest
<1>3. QED
  BY <1>1, <1>2
-----------------------------------------------------------------------------
(***************************************************************************)
(* Ranks and ratios.                                                       *)
(***************************************************************************)

(* In a finite set of naturals there is an element with any number of      *)
(* elements below it that is less than how many there are.                 *)
LEMMA NthExists ==
  ASSUME NEW S \in SUBSET Nat, IsFiniteSet(S), NEW i \in Nat, i < Cardinality(S)
  PROVE  \E x \in S : Cardinality({y \in S : y < x}) = i
<1> DEFINE Below(x) == {y \in S : y < x}
           Nth(j) == j < Cardinality(S) => \E x \in S : Cardinality(Below(x)) = j
           T == {j \in Nat : Nth(j)}
<1>1. 0 \in T
  <2> SUFFICES ASSUME 0 < Cardinality(S) PROVE \E x \in S : Cardinality(Below(x)) = 0
    OBVIOUS
  <2>1. S # {}
    BY FS_EmptySet
  <2> DEFINE m == Min(S)
  <2>2. m \in S /\ \A y \in S : m <= y
    BY <2>1, MinIsLeast
  <2> HIDE DEF m
  <2>3. Below(m) = {}
    <3>1. \A y \in S : y \in Nat /\ m \in Nat /\ ~ (y < m)
      BY <2>2
    <3>2. QED
      BY <3>1
  <2>4. QED
    BY <2>2, <2>3, FS_EmptySet
<1>2. ASSUME NEW j \in Nat, Nth(j) PROVE Nth(j + 1)
  <2> SUFFICES ASSUME j + 1 < Cardinality(S) PROVE \E x \in S : Cardinality(Below(x)) = j + 1
    OBVIOUS
  <2>0. j < Cardinality(S)
    BY FS_CardinalityType
  <2>1. PICK x \in S : Cardinality(Below(x)) = j
    BY <1>2, <2>0
  <2> DEFINE B == Below(x)
             U == B \cup {x}
             A == {y \in S : y > x}
  <2>2. IsFiniteSet(B) /\ x \notin B
    BY FS_Subset
  <2>3. Cardinality(U) = j + 1
    BY <2>1, <2>2, FS_AddElement
  <2>4. \A y \in S : y \in Nat /\ (y \in U \/ y \in A)
    OBVIOUS
  <2>5. A # {} /\ A \in SUBSET Nat
    <3>1. U \subseteq S
      OBVIOUS
    <3>2. S # U
      <4> HIDE DEF U
      <4>1. Cardinality(S) \in Nat
        BY FS_CardinalityType
      <4>2. Cardinality(S) # Cardinality(U)
        BY <2>3, <4>1
      <4>3. QED
        BY <4>2
    <3>3. QED
      BY <2>4, <3>1, <3>2
  <2> DEFINE m == Min(A)
  <2>6. m \in A /\ \A y \in A : m <= y
    <3> HIDE DEF A
    <3>1. QED
      BY <2>5, MinIsLeast
  <2> HIDE DEF m
  <2>7. Below(m) = U
    <3>1. \A y \in S : y < m <=> y <= x
      BY <2>4, <2>6
    <3>2. \A y \in S : y <= x <=> y \in U
      BY <2>4
    <3>3. QED
      BY <3>1, <3>2
  <2>8. QED
    BY <2>3, <2>6, <2>7
<1>3. T = Nat
  <2> HIDE DEF Nth
  <2>1. T \in SUBSET Nat /\ \A j \in T : j + 1 \in T
    BY <1>2
  <2>2. QED
    BY <1>1, <2>1, AllNaturals
<1> HIDE DEF Nth
<1>4. Nth(i)
  BY <1>3
<1>5. QED
  BY <1>4 DEF Nth

(* Each has a rank, and no two have the same.                              *)
LEMMA RankIsOwn ==
  ASSUME NEW S \in SUBSET Nat, IsFiniteSet(S), NEW x \in S
  PROVE  /\ Cardinality({y \in S : y < x}) \in Nat
         /\ Cardinality({y \in S : y < x}) < Cardinality(S)
         /\ \A z \in S : z < x => Cardinality({y \in S : y < z}) < Cardinality({y \in S : y < x})
<1> DEFINE Below(z) == {y \in S : y < z}
<1>1. ASSUME NEW T \in SUBSET S, NEW U \in SUBSET T, NEW z \in T, z \notin U
      PROVE  /\ Cardinality(U) \in Nat /\ Cardinality(T) \in Nat
             /\ Cardinality(U) < Cardinality(T)
  <2>1. IsFiniteSet(T) /\ IsFiniteSet(U)
    <3>1. IsFiniteSet(T)
      BY FS_Subset
    <3>2. QED
      BY <3>1, FS_Subset
  <2>2. /\ Cardinality(U) \in Nat /\ Cardinality(T) \in Nat
        /\ Cardinality(U) <= Cardinality(T) /\ (Cardinality(U) = Cardinality(T) => U = T)
    BY <2>1, FS_Subset, FS_CardinalityType
  <2>3. U # T
    BY <1>1
  <2>4. QED
    BY <2>2, <2>3
<1>2. x \in Nat /\ \A y \in S : y \in Nat
  OBVIOUS
<1>3. Below(x) \subseteq S /\ x \notin Below(x)
  BY <1>2
<1>4. ASSUME NEW z \in S, z < x
      PROVE  Below(z) \subseteq Below(x) /\ z \in Below(x) /\ z \notin Below(z)
  <2>1. \A y \in S : y < z => y < x
    BY <1>2, <1>4
  <2>2. z \in S /\ ~ (z < z)
    BY <1>2
  <2>3. QED
    BY <1>4, <2>1, <2>2
<1> HIDE DEF Below
<1>5. Cardinality(Below(x)) \in Nat /\ Cardinality(Below(x)) < Cardinality(S)
  BY <1>1, <1>3
<1>6. ASSUME NEW z \in S, z < x PROVE Cardinality(Below(z)) < Cardinality(Below(x))
  <2>1. Below(z) \in SUBSET Below(x) /\ z \in Below(x) /\ z \notin Below(z)
    BY <1>4, <1>6
  <2>2. Below(x) \in SUBSET S
    BY <1>3
  <2>3. QED
    BY <1>1, <2>1, <2>2
<1>7. QED
  BY <1>5, <1>6 DEF Below

(* Of finitely many ratios one is the greatest.                            *)
LEMMA GreatestRatio ==
  ASSUME NEW S, IsFiniteSet(S), S # {}, NEW a, NEW b,
         \A x \in S : a[x] \in Int /\ b[x] \in Nat \ {0}
  PROVE  \E x \in S : \A y \in S : a[y] * b[x] <= a[x] * b[y]
<1> DEFINE Top(s) == s = {} \/ \E x \in s : \A y \in s : a[y] * b[x] <= a[x] * b[y]
           X == {s \in SUBSET S : Top(s)}
<1>1. {} \in X
  OBVIOUS
<1>2. ASSUME NEW s \in SUBSET S, NEW z \in s, s \ {z} \in X PROVE s \in X
  <2>1. CASE s \ {z} = {}
    <3>1. \A y \in s : y = z
      BY <2>1
    <3>2. \A y \in s : a[y] * b[z] <= a[z] * b[y]
      BY <3>1
    <3>3. QED
      BY <3>2
  <2>2. CASE s \ {z} # {}
    <3>1. PICK x \in s \ {z} : \A y \in s \ {z} : a[y] * b[x] <= a[x] * b[y]
      BY <1>2, <2>2
    <3>2. CASE a[z] * b[x] <= a[x] * b[z]
      BY <3>1, <3>2
    <3>3. CASE ~ (a[z] * b[x] <= a[x] * b[z])
      <4>1. ASSUME NEW y \in s \ {z} PROVE a[y] * b[z] <= a[z] * b[y]
        <5> DEFINE ay == a[y]
                   by == b[y]
                   ax == a[x]
                   bx == b[x]
                   az == a[z]
                   bz == b[z]
        <5>1. /\ ay \in Int /\ ax \in Int /\ az \in Int
              /\ by \in Nat /\ bx \in Nat /\ bz \in Nat /\ by > 0 /\ bx > 0 /\ bz > 0
          OBVIOUS
        <5>2. ay * bx <= ax * by /\ ax * bz <= az * bx
          <6>1. ax * bz \in Int /\ az * bx \in Int
            BY <5>1
          <6>2. QED
            BY <3>1, <3>3, <6>1
        <5> HIDE DEF ay, by, ax, bx, az, bz
        <5>3. (ay * bx) * bz <= (ax * by) * bz
          BY <5>1, <5>2
        <5>4. (ax * bz) * by <= (az * bx) * by
          BY <5>1, <5>2
        <5>5. (ay * bz) * bx <= (az * by) * bx
          BY <5>1, <5>3, <5>4
        <5>6. ay * bz <= az * by
          BY <5>1, <5>5
        <5>7. QED
          BY <5>6 DEF ay, by, az, bz
      <4>2. a[z] * b[z] <= a[z] * b[z]
        BY <1>2
      <4>3. \A y \in s : a[y] * b[z] <= a[z] * b[y]
        BY <4>1, <4>2
      <4>4. QED
        BY <4>3
    <3>4. QED
      BY <3>2, <3>3
  <2>3. QED
    BY <2>1, <2>2
<1>3. X \in SUBSET SUBSET S
  OBVIOUS
<1> HIDE DEF Top
<1>4. S \in X
  <2> HIDE DEF X
  <2>1. QED
    BY <1>1, <1>2, <1>3, SetInduction
<1>5. Top(S)
  BY <1>4
<1>6. QED
  BY <1>5 DEF Top
-----------------------------------------------------------------------------
(***************************************************************************)
(* Sorting and filtering (Orders).                                         *)
(***************************************************************************)
IsOrder(S, before) ==
  /\ \A x, y \in S : <<x, y>> \in before => <<y, x>> \notin before
  /\ \A x, y \in S : x = y \/ <<x, y>> \in before \/ <<y, x>> \in before
  /\ \A x, y, z \in S : <<x, y>> \in before /\ <<y, z>> \in before => <<x, z>> \in before

Before(x, S, before) == {y \in S : <<y, x>> \in before}

(* The further on in an order, the more there is before.                   *)
LEMMA MoreBefore ==
  ASSUME NEW S, IsFiniteSet(S), NEW before, IsOrder(S, before), NEW x \in S
  PROVE  /\ Cardinality(Before(x, S, before)) \in 0..(Cardinality(S) - 1)
         /\ \A z \in S : <<x, z>> \in before =>
              Cardinality(Before(x, S, before)) < Cardinality(Before(z, S, before))
<1> DEFINE B(z) == Before(z, S, before)
<1>1. ASSUME NEW T \in SUBSET S, NEW U \in SUBSET T, NEW z \in T, z \notin U
      PROVE  /\ Cardinality(U) \in Nat /\ Cardinality(T) \in Nat
             /\ Cardinality(U) < Cardinality(T)
  <2>1. IsFiniteSet(T) /\ IsFiniteSet(U)
    <3>1. IsFiniteSet(T)
      BY FS_Subset
    <3>2. QED
      BY <3>1, FS_Subset
  <2>2. /\ Cardinality(U) \in Nat /\ Cardinality(T) \in Nat
        /\ Cardinality(U) <= Cardinality(T) /\ (Cardinality(U) = Cardinality(T) => U = T)
    BY <2>1, FS_Subset, FS_CardinalityType
  <2>3. U # T
    BY <1>1
  <2>4. QED
    BY <2>2, <2>3
<1>2. \A z \in S : B(z) \in SUBSET S /\ z \notin B(z)
  BY DEF IsOrder, Before
<1>3. \A z \in S : <<x, z>> \in before => B(x) \in SUBSET B(z) /\ x \in B(z) /\ x \notin B(x)
  BY DEF IsOrder, Before
<1> HIDE DEF B
<1>4. /\ Cardinality(B(x)) \in Nat /\ Cardinality(S) \in Nat
      /\ Cardinality(B(x)) < Cardinality(S)
  BY <1>1, <1>2
<1>5. \A z \in S : <<x, z>> \in before => Cardinality(B(x)) < Cardinality(B(z))
  BY <1>1, <1>2, <1>3
<1>6. QED
  BY <1>4, <1>5 DEF B

(* Ordered has each element of a finite set once, in order.                *)
LEMMA OrderedIsSorted ==
  ASSUME NEW S, IsFiniteSet(S), NEW before, IsOrder(S, before)
  PROVE  /\ Ordered(S, before) \in [1..Cardinality(S) -> S]
         /\ \A x \in S : \E i \in 1..Cardinality(S) : Ordered(S, before)[i] = x
         /\ \A i, j \in 1..Cardinality(S) :
              i < j => <<Ordered(S, before)[i], Ordered(S, before)[j]>> \in before
<1> DEFINE n == Cardinality(S)
           C(x) == Cardinality(Before(x, S, before))
           rank == [x \in S |-> C(x) + 1]
           s == Ordered(S, before)
<1>0. n \in Nat /\ IsFiniteSet(1..n) /\ Cardinality(1..n) = n
  BY FS_CardinalityType, FS_Interval
<1>1. /\ \A x \in S : C(x) \in 0..(n - 1)
      /\ \A x, z \in S : <<x, z>> \in before => C(x) < C(z)
  BY MoreBefore
<1>2. s = [i \in 1..n |-> CHOOSE x \in S : C(x) = i - 1]
  BY DEF Ordered, Before
<1> HIDE DEF C, n, s
<1>3. ASSUME NEW x \in S, NEW z \in S, C(x) = C(z) PROVE x = z
  <2>1. x = z \/ <<x, z>> \in before \/ <<z, x>> \in before
    BY DEF IsOrder
  <2>2. C(x) \in Int /\ ~ (C(x) < C(z)) /\ ~ (C(z) < C(x))
    BY <1>0, <1>1, <1>3
  <2>3. QED
    BY <1>1, <2>1, <2>2
<1>4. rank \in [S -> 1..n] /\ \A x \in S : rank[x] = C(x) + 1
  BY <1>0, <1>1
<1>5. rank \in Injection(S, 1..n)
  <2>1. \A x, z \in S : rank[x] = rank[z] => x = z
    BY <1>0, <1>1, <1>3
  <2> HIDE DEF rank
  <2>2. QED
    BY <1>4, <2>1 DEF Injection, IsInjective
<1>6. rank \in Surjection(S, 1..n)
  <2> HIDE DEF rank
  <2>1. QED
    BY <1>0, <1>5, FS_Injection DEF n
<1>7. ASSUME NEW i \in 1..n PROVE s[i] \in S /\ C(s[i]) = i - 1
  <2>1. PICK x \in S : rank[x] = i
    <3> HIDE DEF rank
    <3>1. QED
      BY <1>6 DEF Surjection
  <2>2. C(x) = i - 1
    BY <1>0, <1>1, <2>1
  <2>3. QED
    BY <1>2, <2>2
<1>8. s \in [1..n -> S]
  BY <1>2, <1>7
<1>9. ASSUME NEW x \in S PROVE \E i \in 1..n : s[i] = x
  <2>1. C(x) + 1 \in 1..n /\ (C(x) + 1) - 1 = C(x)
    BY <1>0, <1>1
  <2>2. s[C(x) + 1] \in S /\ C(s[C(x) + 1]) = C(x)
    BY <1>7, <2>1
  <2>3. QED
    BY <1>3, <2>1, <2>2
<1>10. ASSUME NEW i \in 1..n, NEW j \in 1..n, i < j PROVE <<s[i], s[j]>> \in before
  <2>1. C(s[i]) < C(s[j]) /\ s[i] \in S /\ s[j] \in S
    BY <1>0, <1>7, <1>10
  <2>2. s[i] # s[j] /\ ~ (<<s[j], s[i]>> \in before)
    BY <1>0, <1>1, <2>1
  <2>3. QED
    BY <2>1, <2>2 DEF IsOrder
<1>11. QED
  BY <1>8, <1>9, <1>10 DEF n, s

(* Which places AtPlaces takes, in the order of the sequence.              *)
Filters(order, seq, places) ==
  LET m == Cardinality(places)
  IN /\ m \in Nat /\ order \in [1..m -> places]
     /\ \A x \in places : \E i \in 1..m : order[i] = x
     /\ \A i, j \in 1..m : i < j => order[i] < order[j]
     /\ DOMAIN AtPlaces(seq, places) = 1..m
     /\ \A k \in 1..m : AtPlaces(seq, places)[k] = seq[order[k]]

(* There is such an order.                                                 *)
LEMMA FilteredInOrder ==
  ASSUME NEW seq, NEW n \in Nat, NEW places \in SUBSET (1..n)
  PROVE  \E order : Filters(order, seq, places)
<1>1. IsFiniteSet(places) /\ Cardinality(places) \in Nat
  <2>1. IsFiniteSet(1..n)
    BY FS_Interval
  <2>2. IsFiniteSet(places)
    BY <2>1, FS_Subset
  <2>3. QED
    BY <2>2, FS_CardinalityType
<1>2. IsOrder(places, Ascending(places))
  <2>1. \A x \in places : x \in Nat
    OBVIOUS
  <2>2. \A x, y \in places : <<x, y>> \in Ascending(places) <=> x < y
    BY DEF Ascending
  <2>3. QED
    BY <2>1, <2>2 DEF IsOrder
<1> DEFINE order == Ordered(places, Ascending(places))
<1>3. /\ order \in [1..Cardinality(places) -> places]
      /\ \A x \in places : \E i \in 1..Cardinality(places) : order[i] = x
      /\ \A i, j \in 1..Cardinality(places) : i < j => <<order[i], order[j]>> \in Ascending(places)
  BY <1>1, <1>2, OrderedIsSorted
<1>4. AtPlaces(seq, places) = [k \in DOMAIN order |-> seq[order[k]]]
  BY DEF AtPlaces
<1> HIDE DEF order
<1>5. \A i, j \in 1..Cardinality(places) : i < j => order[i] < order[j]
  BY <1>3 DEF Ascending
<1>6. DOMAIN order = 1..Cardinality(places)
  BY <1>3
<1>7. QED
  BY <1>1, <1>3, <1>4, <1>5, <1>6 DEF Filters

(* Less is a strict total order of the tuples of one length.               *)
LEMMA LessOrders ==
  ASSUME NEW m \in Nat, NEW a \in Seq(Int), NEW b \in Seq(Int), NEW c \in Seq(Int),
         Len(a) = m, Len(b) = m, Len(c) = m
  PROVE  /\ Less(a, b) => ~ Less(b, a)
         /\ (\E i \in 1..m : a[i] # b[i]) => Less(a, b) \/ Less(b, a)
         /\ Less(a, b) /\ Less(b, c) => Less(a, c)
<1>0. /\ DOMAIN a = 1..m /\ DOMAIN b = 1..m /\ DOMAIN c = 1..m
      /\ \A i \in 1..m : a[i] \in Int /\ b[i] \in Int /\ c[i] \in Int
  OBVIOUS
<1>1. ASSUME Less(a, b), Less(b, a) PROVE FALSE
  <2>1. PICK i \in 1..m : a[i] < b[i] /\ \A j \in 1..(i - 1) : a[j] = b[j]
    BY <1>0, <1>1 DEF Less
  <2>2. PICK k \in 1..m : b[k] < a[k] /\ \A j \in 1..(k - 1) : b[j] = a[j]
    BY <1>0, <1>1 DEF Less
  <2>3. i < k => i \in 1..(k - 1)
    BY <2>1, <2>2
  <2>4. k < i => k \in 1..(i - 1)
    BY <2>1, <2>2
  <2>5. QED
    BY <1>0, <2>1, <2>2, <2>3, <2>4
<1>2. ASSUME NEW x \in 1..m, a[x] # b[x] PROVE Less(a, b) \/ Less(b, a)
  <2> DEFINE D == {i \in 1..m : a[i] # b[i]}
             k == Min(D)
  <2>1. D \in SUBSET Nat /\ D # {}
    BY <1>2
  <2>2. k \in D /\ \A y \in D : k <= y
    BY <2>1, MinIsLeast
  <2> HIDE DEF k
  <2>3. \A j \in 1..(k - 1) : a[j] = b[j] /\ b[j] = a[j]
    <3> SUFFICES ASSUME NEW j \in 1..(k - 1) PROVE a[j] = b[j]
      OBVIOUS
    <3>1. j \in 1..m /\ ~ (k <= j)
      BY <2>2
    <3>2. QED
      BY <2>2, <3>1
  <2>4. k \in 1..m /\ (a[k] < b[k] \/ b[k] < a[k])
    BY <1>0, <2>2
  <2>5. QED
    BY <1>0, <2>3, <2>4 DEF Less
<1>3. ASSUME Less(a, b), Less(b, c) PROVE Less(a, c)
  <2>1. PICK i \in 1..m : a[i] < b[i] /\ \A j \in 1..(i - 1) : a[j] = b[j]
    BY <1>0, <1>3 DEF Less
  <2>2. PICK k \in 1..m : b[k] < c[k] /\ \A j \in 1..(k - 1) : b[j] = c[j]
    BY <1>0, <1>3 DEF Less
  <2>3. CASE i <= k
    <3>1. a[i] < c[i]
      <4>1. i < k => i \in 1..(k - 1)
        BY <2>1, <2>2
      <4>2. CASE i < k
        BY <1>0, <2>1, <2>2, <4>1, <4>2
      <4>3. CASE i = k
        BY <1>0, <2>1, <2>2, <4>3
      <4>4. QED
        BY <2>3, <4>2, <4>3
    <3>2. \A j \in 1..(i - 1) : a[j] = c[j]
      <4>1. \A j \in 1..(i - 1) : j \in 1..(k - 1)
        BY <2>3
      <4>2. QED
        BY <2>1, <2>2, <4>1
    <3>3. QED
      BY <1>0, <3>1, <3>2 DEF Less
  <2>4. CASE k < i
    <3>1. k \in 1..(i - 1)
      BY <2>4
    <3>2. a[k] < c[k]
      BY <1>0, <2>1, <2>2, <3>1
    <3>3. \A j \in 1..(k - 1) : a[j] = c[j]
      <4>1. \A j \in 1..(k - 1) : j \in 1..(i - 1)
        BY <2>4
      <4>2. QED
        BY <2>1, <2>2, <4>1
    <3>4. QED
      BY <1>0, <3>2, <3>3 DEF Less
  <2>5. QED
    BY <2>3, <2>4
<1>4. QED
  BY <1>1, <1>2, <1>3

(* So it is of places by their keys and, among equals, by themselves.      *)
KeyOf(key, i) == Append(key[i], i)
Keyed(key, n) ==
  key \in [1..n -> Seq(Int)] /\ \E m \in Nat : \A i \in 1..n : Len(key[i]) = m

(* It is an order indeed.                                                  *)
LEMMA KeysOrder ==
  ASSUME NEW n \in Nat, NEW places \in SUBSET (1..n),
         NEW key, Keyed(key, n)
  PROVE  /\ IsOrder(places, ByKey(key))
         /\ \A i, j \in 1..n : <<i, j>> \in ByKey(key) <=> Less(KeyOf(key, i), KeyOf(key, j))
<1> PICK m \in Nat : key \in [1..n -> Seq(Int)] /\ \A i \in 1..n : Len(key[i]) = m
  BY DEF Keyed
<1>1. \A i \in 1..n : /\ KeyOf(key, i) \in Seq(Int) /\ Len(KeyOf(key, i)) = m + 1
                      /\ KeyOf(key, i)[m + 1] = i
  BY DEF KeyOf, Keyed
<1>2. \A i, j \in 1..n : <<i, j>> \in ByKey(key) <=> Less(KeyOf(key, i), KeyOf(key, j))
  BY DEF ByKey, KeyOf, Keyed
<1>3. \A x, y \in places : <<x, y>> \in ByKey(key) => <<y, x>> \notin ByKey(key)
  BY <1>1, <1>2, LessOrders
<1>4. ASSUME NEW x \in places, NEW y \in places, x # y
      PROVE  <<x, y>> \in ByKey(key) \/ <<y, x>> \in ByKey(key)
  <2>1. x \in 1..n /\ y \in 1..n /\ m + 1 \in 1..(m + 1) /\ m + 1 \in Nat
    OBVIOUS
  <2>2. KeyOf(key, x)[m + 1] # KeyOf(key, y)[m + 1]
    BY <1>1, <1>4, <2>1
  <2>3. Less(KeyOf(key, x), KeyOf(key, y)) \/ Less(KeyOf(key, y), KeyOf(key, x))
    BY <1>1, <2>1, <2>2, LessOrders
  <2>4. QED
    BY <1>2, <2>1, <2>3
<1>5. ASSUME NEW x \in places, NEW y \in places, NEW z \in places,
             <<x, y>> \in ByKey(key), <<y, z>> \in ByKey(key)
      PROVE  <<x, z>> \in ByKey(key)
  <2>1. m + 1 \in Nat /\ x \in 1..n /\ y \in 1..n /\ z \in 1..n
    OBVIOUS
  <2>2. Less(KeyOf(key, x), KeyOf(key, y)) /\ Less(KeyOf(key, y), KeyOf(key, z))
    BY <1>2, <1>5, <2>1
  <2>3. Less(KeyOf(key, x), KeyOf(key, z))
    BY <1>1, <2>1, <2>2, LessOrders
  <2>4. QED
    BY <1>2, <2>1, <2>3
<1>6. QED
  BY <1>2, <1>3, <1>4, <1>5 DEF IsOrder

(* Which places Arranged takes, each once, and in which order.             *)
Arranges(order, seq, places, key) ==
  LET m == Cardinality(places)
  IN /\ m \in Nat /\ order \in [1..m -> places]
     /\ \A x \in places : \E i \in 1..m : order[i] = x
     /\ \A i, j \in 1..m : order[i] = order[j] => i = j
     /\ \A i, j \in 1..m : i < j => Less(KeyOf(key, order[i]), KeyOf(key, order[j]))
     /\ Arranged(seq, places, key) = [k \in 1..m |-> seq[order[k]]]

(* Sorting arranges the places in that order.                              *)
LEMMA ArrangedInOrder ==
  ASSUME NEW seq, NEW n \in Nat, NEW places \in SUBSET (1..n),
         NEW key, Keyed(key, n)
  PROVE  \E order : Arranges(order, seq, places, key)
<1> DEFINE order == Ordered(places, ByKey(key))
           c == Cardinality(places)
<1>1. IsFiniteSet(places) /\ c \in Nat
  <2>1. IsFiniteSet(1..n)
    BY FS_Interval
  <2>2. IsFiniteSet(places)
    BY <2>1, FS_Subset
  <2>3. QED
    BY <2>2, FS_CardinalityType
<1>2. /\ IsOrder(places, ByKey(key))
      /\ \A i, j \in 1..n : <<i, j>> \in ByKey(key) <=> Less(KeyOf(key, i), KeyOf(key, j))
  BY KeysOrder
<1>3. /\ order \in [1..c -> places]
      /\ \A x \in places : \E i \in 1..c : order[i] = x
      /\ \A i, j \in 1..c : i < j => <<order[i], order[j]>> \in ByKey(key)
  BY <1>1, <1>2, OrderedIsSorted
<1>4. Arranged(seq, places, key) = [k \in DOMAIN order |-> seq[order[k]]]
  BY DEF Arranged
<1> HIDE DEF order, c
<1>5. Arranged(seq, places, key) = [k \in 1..c |-> seq[order[k]]]
  BY <1>3, <1>4
<1>6. ASSUME NEW i \in 1..c, NEW j \in 1..c, i < j
      PROVE  /\ Less(KeyOf(key, order[i]), KeyOf(key, order[j]))
             /\ order[i] # order[j]
  <2>1. order[i] \in places /\ order[j] \in places /\ <<order[i], order[j]>> \in ByKey(key)
    BY <1>3, <1>6
  <2>2. order[i] # order[j]
    BY <1>2, <2>1 DEF IsOrder
  <2>3. QED
    BY <1>2, <2>1, <2>2
<1>7. ASSUME NEW i \in 1..c, NEW j \in 1..c, order[i] = order[j] PROVE i = j
  <2>1. i < j \/ j < i \/ i = j
    BY <1>1 DEF c
  <2>2. QED
    BY <1>6, <1>7, <2>1
<1>8. QED
  BY <1>1, <1>3, <1>5, <1>6, <1>7 DEF Arranges, c

-----------------------------------------------------------------------------
(***************************************************************************)
(* Sums along a sequence of numbers.                                       *)
(***************************************************************************)

(* One more number.                                                        *)
LEMMA SumUpTo ==
  ASSUME NEW n \in Nat, NEW g, \A i \in 1..(n + 1) : g[i] \in Int
  PROVE  /\ SumFunctionOnSet(g, 1..n) \in Int
         /\ SumFunctionOnSet(g, 1..(n + 1)) = SumFunctionOnSet(g, 1..n) + g[n + 1]
<1>1. IsFiniteSet(1..(n + 1)) /\ IsFiniteSet(1..n)
  BY FS_Interval
<1>2. n + 1 \in 1..(n + 1) /\ (1..(n + 1)) \ {n + 1} = 1..n
  BY LastOfFirst
<1>3. \A i \in 1..n : g[i] \in Int
  BY <1>2
<1>4. SumFunctionOnSet(g, 1..n) \in Int
  BY <1>1, <1>3, SumRemove
<1> DEFINE N == 1..(n + 1)
           x == n + 1
<1>5. SumFunctionOnSet(g, N) = g[x] + SumFunctionOnSet(g, N \ {x})
  <2>1. IsFiniteSet(N) /\ x \in N /\ \A i \in N : g[i] \in Int
    BY <1>1, <1>2
  <2> HIDE DEF N, x
  <2>2. QED
    BY <2>1, SumRemove
<1>6. g[x] \in Int /\ N \ {x} = 1..n
  BY <1>2
<1> DEFINE a == SumFunctionOnSet(g, N)
           b == SumFunctionOnSet(g, 1..n)
<1>7. a = g[x] + b /\ b \in Int
  BY <1>4, <1>5, <1>6
<1> HIDE DEF a, b
<1>8. a = b + g[x]
  BY <1>6, <1>7
<1>9. QED
  BY <1>4, <1>8 DEF a, b

(* The sum of two sequences, one after the other.                          *)
IsConcat(h, p, f, q, g) ==
  /\ \A i \in 1..p : f[i] \in Int /\ h[i] = f[i]
  /\ \A i \in 1..q : g[i] \in Int /\ h[p + i] = g[i]

(* It is the sum of both sums.                                             *)
LEMMA SumConcat ==
  ASSUME NEW p \in Nat, NEW q \in Nat, NEW f, NEW g, NEW h, IsConcat(h, p, f, q, g)
  PROVE  /\ SumFunctionOnSet(f, 1..p) \in Int /\ SumFunctionOnSet(g, 1..q) \in Int
         /\ SumFunctionOnSet(h, 1..(p + q))
              = SumFunctionOnSet(f, 1..p) + SumFunctionOnSet(g, 1..q)
<1> DEFINE F == SumFunctionOnSet(f, 1..p)
           G(k) == SumFunctionOnSet(g, 1..k)
           H(k) == SumFunctionOnSet(h, 1..k)
           Adds(k) == k <= q => G(k) \in Int /\ H(p + k) = F + G(k)
           T == {k \in Nat : Adds(k)}
<1>c. /\ \A i \in 1..p : f[i] \in Int /\ h[i] = f[i]
      /\ \A i \in 1..q : g[i] \in Int /\ h[p + i] = g[i]
  BY DEF IsConcat
<1>0. /\ \A i \in 1..(p + q) : h[i] \in Int
      /\ IsFiniteSet(1..p)
  <2>1. ASSUME NEW i \in 1..(p + q) PROVE h[i] \in Int
    <3>1. CASE i <= p
      <4>1. i \in 1..p
        BY <3>1
      <4>2. QED
        BY <1>c, <4>1
    <3>2. CASE i > p
      <4>1. i - p \in 1..q /\ p + (i - p) = i
        BY <3>2
      <4>2. QED
        BY <1>c, <4>1
    <3>3. QED
      BY <3>1, <3>2
  <2>2. QED
    BY <2>1, FS_Interval
<1>1. F \in Int /\ H(p) = F
  <2>1. F \in Int
    BY <1>0, <1>c, SumRemove
  <2>2. H(p) = F
    BY <1>0, <1>c, SumAgrees
  <2>3. QED
    BY <2>1, <2>2
<1>2. G(0) = 0
  <2>1. 1..0 = {}
    OBVIOUS
  <2>2. QED
    BY <2>1, SumEmpty
<1>3. Adds(0)
  <2> HIDE DEF F, G, H
  <2>1. p + 0 = p
    OBVIOUS
  <2>2. QED
    BY <1>1, <1>2, <2>1
<1>4. ASSUME NEW k \in Nat, Adds(k) PROVE Adds(k + 1)
  <2> SUFFICES ASSUME k + 1 <= q PROVE G(k + 1) \in Int /\ H(p + (k + 1)) = F + G(k + 1)
    OBVIOUS
  <2>1. G(k) \in Int /\ H(p + k) = F + G(k)
    BY <1>4
  <2>2. \A i \in 1..(k + 1) : g[i] \in Int
    BY <1>c
  <2>3. G(k + 1) = G(k) + g[k + 1]
    BY <2>2, SumUpTo
  <2>4. H((p + k) + 1) = H(p + k) + h[(p + k) + 1]
    <3> DEFINE n == p + k
    <3>1. n \in Nat /\ \A i \in 1..(n + 1) : i \in 1..(p + q)
      OBVIOUS
    <3>2. \A i \in 1..(n + 1) : h[i] \in Int
      BY <1>0, <3>1
    <3> HIDE DEF n
    <3>3. H(n + 1) = H(n) + h[n + 1]
      BY <3>1, <3>2, SumUpTo
    <3>4. QED
      BY <3>3 DEF n
  <2>5. (p + k) + 1 = p + (k + 1) /\ k + 1 \in 1..q
    OBVIOUS
  <2>6. h[p + (k + 1)] = g[k + 1] /\ g[k + 1] \in Int
    BY <1>c, <2>5
  <2> HIDE DEF F, G, H
  <2>7. QED
    BY <1>1, <2>1, <2>3, <2>4, <2>5, <2>6
<1> HIDE DEF Adds
<1>5. T = Nat
  <2>1. T \in SUBSET Nat /\ 0 \in T /\ \A k \in T : k + 1 \in T
    BY <1>3, <1>4
  <2> HIDE DEF T
  <2>2. QED
    BY <2>1, AllNaturals
<1>6. Adds(q) /\ q <= q
  BY <1>5
<1>7. QED
  BY <1>1, <1>6 DEF Adds

(* A sum of naturals is one.                                               *)
LEMMA SumNatural ==
  ASSUME NEW n \in Nat, NEW g, \A i \in 1..n : g[i] \in Nat
  PROVE  SumFunctionOnSet(g, 1..n) \in Nat
<1> DEFINE z == [i \in 1..n |-> 0]
<1>1. IsFiniteSet(1..n) /\ \A i \in 1..n : z[i] = 0
  BY FS_Interval
<1>2. \A i \in 1..n : z[i] \in Int /\ g[i] \in Int /\ z[i] <= g[i]
  OBVIOUS
<1> HIDE DEF z
<1>3. SumFunctionOnSet(z, 1..n) <= SumFunctionOnSet(g, 1..n)
  BY <1>1, <1>2, SumAtMost
<1>4. SumFunctionOnSet(z, 1..n) = 0
  BY <1>1, SumZero
<1>5. SumFunctionOnSet(g, 1..n) \in Int
  BY <1>1, <1>2, SumRemove
<1>6. QED
  BY <1>3, <1>4, <1>5
=============================================================================
