---------------------------- MODULE PricingProofs ----------------------------
(***************************************************************************)
(* What holds of phase 2 for any number of searches, scans, legs and       *)
(* requests: the types always, the rest when calls do not overlap, as on   *)
(* the command line.                                                       *)
(* Then what holds of the two caches of prices, that of the database and   *)
(* the memo of an adapter, for any keys, tasks and lifetimes.              *)
(***************************************************************************)
EXTENDS SharedPricing, QuoteCache, TLAPS

(* A leg that has no quote yet has a request to make, and only the legs    *)
(* priced over HTTP wait for an answer.                                    *)
LegsHaveRequests ==
  \A s \in Searches, l \in Legs :
    /\ leg[s][l] \in {"ready", "asking"} => left[s][l] >= 1
    /\ leg[s][l] = "asking" => l.kind = "rail"

TypeInv == TypeOK /\ LegsHaveRequests

(* It holds before any call starts.                                         *)
LEMMA TypeInit == Init => TypeInv
<1>1. Requests \in Nat /\ Requests >= 1 /\ Probes \in Nat
  BY BoundAssumption
<1>2. ASSUME Init PROVE LegsHaveRequests
  BY <1>1, <1>2 DEF Init, LegsHaveRequests
<1>3. ASSUME Init PROVE TypeOK
  <2>1. Requests \in 0..Requests /\ 0 \in 0..Probes
    BY <1>1
  <2>2. QED
    BY <1>3, <2>1 DEF Init, TypeOK, Calls
<1>4. QED
  BY <1>2, <1>3 DEF TypeInv

(* No step of any call breaks it.                                           *)
LEMMA TypeStep ==
  ASSUME TypeInv, [Next]_vars
  PROVE  TypeInv'
<1> USE BoundAssumption, CallAssumption, NameAssumption
      DEF TypeInv, TypeOK, LegsHaveRequests, InPass, quotes, passing, Calls
<1>1. ASSUME NEW s \in Searches, StartSearch(s) PROVE TypeInv'
  BY <1>1 DEF StartSearch, MayStart, Passes, Pass
<1>2. ASSUME NEW c \in Scans, StartScan(c) PROVE TypeInv'
  BY <1>2 DEF StartScan, MayStart, Passes, Pass
<1>3. ASSUME NEW s \in Searches, NEW l \in Legs, CacheHit(s, l) PROVE TypeInv'
  BY <1>3 DEF CacheHit
<1>4. ASSUME NEW s \in Searches, NEW l \in Legs, AskLeg(s, l) PROVE TypeInv'
  BY <1>4 DEF AskLeg, Send, Passes, Pass
<1>5. ASSUME NEW s \in Searches, NEW l \in Legs, RefuseLeg(s, l) PROVE TypeInv'
  BY <1>5 DEF RefuseLeg
<1>6. ASSUME NEW s \in Searches, NEW l \in Legs, Answer(s, l) PROVE TypeInv'
  <2>1. left[s][l] \in 0..Requests /\ left[s][l] >= 1 /\ Requests \in Nat
    BY <1>6 DEF Answer
  <2>2. left[s][l] - 1 \in 0..Requests
    BY <2>1
  <2>3. left' \in [Searches -> [Legs -> 0..Requests]]
    BY <1>6, <2>2 DEF Answer
  <2>4. CASE \E outcome \in {"priced", "unpriced"} :
               leg' = [leg EXCEPT ![s][l] = outcome] /\ UNCHANGED <<used, sent>>
    BY <1>6, <2>3, <2>4 DEF Answer
  <2>5. CASE left[s][l] > 1 /\ Send(Pass(s, "price")) /\ UNCHANGED leg
    BY <1>6, <2>1, <2>3, <2>5 DEF Answer, Send, Passes, Pass
  <2>6. QED
    BY <1>6, <2>4, <2>5 DEF Answer
<1>7. ASSUME NEW s \in Searches, NEW l \in Legs, PriceCar(s, l) PROVE TypeInv'
  <2>1. bound \in Searches
    BY <1>7 DEF PriceCar
  <2>2. Matches(s) \subseteq Cars
    BY <2>1, OfferAssumption DEF Matches
  <2>3. CASE Matches(s) = {}
    <3>1. leg' = [leg EXCEPT ![s][l] = "unpriced"] /\ UNCHANGED car
      BY <1>7, <2>3 DEF PriceCar
    <3>2. UNCHANGED <<stage, attached, used, sent, bound, left, warned, closed,
                      result, probes, asking, saved>>
      BY <1>7 DEF PriceCar
    <3>3. QED
      BY <3>1, <3>2
  <2>4. CASE Matches(s) # {}
    <3>1. PICK o \in Matches(s) : car' = [car EXCEPT ![s][l] = o]
      BY <1>7, <2>4 DEF PriceCar
    <3>2. leg' = [leg EXCEPT ![s][l] = "priced"]
      BY <1>7, <2>4 DEF PriceCar
    <3>3. o \in Cars
      BY <2>2
    <3>4. car' \in [Searches -> [Legs -> Cars \cup {NoCar}]]
      BY <3>1, <3>3
    <3>5. QED
      BY <1>7, <3>2, <3>4 DEF PriceCar
  <2>5. QED
    BY <2>3, <2>4
<1>8. ASSUME NEW s \in Searches, NEW i \in Itineraries, CloseItinerary(s, i) PROVE TypeInv'
  BY <1>8 DEF CloseItinerary
<1>9. ASSUME NEW s \in Searches, FinishPricing(s) PROVE TypeInv'
  BY <1>9 DEF FinishPricing, FullyPriced, Passes, Pass
<1>10. ASSUME NEW s \in Searches, Expire(s) PROVE TypeInv'
  BY <1>10 DEF Expire
<1>11. ASSUME NEW c \in Calls, AskProbe(c) PROVE TypeInv'
  BY <1>11 DEF AskProbe, Send, Passes, Pass
<1>12. ASSUME NEW c \in Calls, SkipProbe(c) PROVE TypeInv'
  BY <1>12 DEF SkipProbe
<1>13. ASSUME NEW c \in Calls, AnswerProbe(c) PROVE TypeInv'
  BY <1>13 DEF AnswerProbe
<1>14. ASSUME NEW c \in Calls, EndPass(c) PROVE TypeInv'
  BY <1>14 DEF EndPass
<1>15. ASSUME UNCHANGED vars PROVE TypeInv'
  BY <1>15 DEF vars
<1>16. QED
  BY <1>1, <1>2, <1>3, <1>4, <1>5, <1>6, <1>7, <1>8, <1>9, <1>10, <1>11, <1>12, <1>13,
     <1>14, <1>15 DEF Next, Proceed, Finished

(* However the calls overlap, every variable of phase 2 keeps its type, and *)
(* only a call that has started has anything going on.                     *)
THEOREM PricingTypes == Spec => []TypeOK
<1>1. Spec => []TypeInv
  BY TypeInit, TypeStep, PTL DEF Spec
<1>2. TypeInv => TypeOK
  BY DEF TypeInv
<1>3. QED
  BY <1>1, <1>2, PTL
-----------------------------------------------------------------------------
(***************************************************************************)
(* Calls that do not overlap.  The one that runs has its own budget on the *)
(* adapters and its own offers in them; when none runs there is no budget, *)
(* so that is what a scan finds and puts back.                             *)
(***************************************************************************)
Active(c) == stage[c] \in {"price", "split", "scan"}

AtMostOne == \A c, d \in Calls : Active(c) /\ Active(d) => c = d

OwnBudget ==
  /\ \A c \in Calls : Active(c) => attached = Pass(c, stage[c])
  /\ (\A c \in Calls : ~ Active(c)) => attached = NoBudget

OwnOffers == \A s \in Searches : stage[s] = "price" => bound = s

NothingSaved == \A c \in Scans : saved[c] = NoBudget

Ledger == \A p \in Passes : used[p] = sent[p] /\ used[p] <= LimitOf(p)

SequentialInv ==
  TypeInv /\ AtMostOne /\ OwnBudget /\ OwnOffers /\ NothingSaved /\ Ledger
          /\ PricedFromOwnSnapshot

(* Every pass has a ceiling.                                                *)
LEMMA LimitType ==
  ASSUME NEW p \in Passes
  PROVE  LimitOf(p) \in Nat
BY BoundAssumption DEF LimitOf, Passes

(* A call runs exactly when it prices, splits or scans.                     *)
LEMMA RunningIsActive ==
  ASSUME TypeInv
  PROVE  Running = {c \in Calls : Active(c)}
BY DEF TypeInv, TypeOK, Running, Active

(* Whoever runs runs alone, under a pass of its own.                       *)
LEMMA Alone ==
  ASSUME SequentialInv, NEW c \in Calls, Active(c)
  PROVE  /\ Pass(c, stage[c]) \in Passes
         /\ attached = Pass(c, stage[c])
         /\ \A d \in Calls : d # c => ~ Active(d)
<1>1. attached = Pass(c, stage[c]) /\ \A d \in Calls : d # c => ~ Active(d)
  BY DEF SequentialInv, AtMostOne, OwnBudget
<1>2. Pass(c, stage[c]) \in Passes
  BY DEF SequentialInv, TypeInv, TypeOK, Active, Pass, Passes
<1>3. QED
  BY <1>1, <1>2

(* A request under the sender's own budget is within it and recorded.      *)
LEMMA SendKeepsLedger ==
  ASSUME TypeInv, Ledger, NEW p \in Passes, attached = p, Send(p)
  PROVE  Ledger' /\ sent[p] < LimitOf(p) /\ sent' = [sent EXCEPT ![p] = @ + 1]
<1>1. p # NoBudget
  BY DEF Passes, NoBudget
<1>2. used[p] \in Nat /\ sent[p] \in Nat /\ LimitOf(p) \in Nat
  BY LimitType DEF TypeInv, TypeOK
<1>3. used[p] < LimitOf(p) /\ used[p] = sent[p]
  BY <1>1, <1>2 DEF Send, Refused, Ledger
<1>4. used' = [used EXCEPT ![p] = @ + 1] /\ sent' = [sent EXCEPT ![p] = @ + 1]
  BY <1>1 DEF Send
<1>5. used[p] + 1 <= LimitOf(p)
  BY <1>2, <1>3
<1>6. ASSUME NEW q \in Passes PROVE used'[q] = sent'[q] /\ used'[q] <= LimitOf(q)
  <2>1. CASE q = p
    BY <1>2, <1>3, <1>4, <1>5, <2>1 DEF TypeInv, TypeOK
  <2>2. CASE q # p
    BY <1>4, <2>2 DEF Ledger, TypeInv, TypeOK
  <2>3. QED
    BY <2>1, <2>2
<1>7. Ledger'
  BY <1>6 DEF Ledger, LimitOf
<1>8. QED
  BY <1>3, <1>4, <1>7

(* The conjuncts that are about who runs and what is attached.             *)
Turns == AtMostOne /\ OwnBudget /\ OwnOffers /\ NothingSaved

(* A step that changes neither keeps them.                                 *)
LEMMA TurnsUnchanged ==
  ASSUME Turns, UNCHANGED <<stage, attached, saved, bound>>
  PROVE  Turns'
BY DEF Turns, AtMostOne, OwnBudget, OwnOffers, NothingSaved, Active

(* A call that starts finds the adapters bare and leaves them bare.         *)
LEMMA TurnsStep ==
  ASSUME SequentialInv, [Next]_vars, ~ Concurrent
  PROVE  Turns'
<1> USE CallAssumption DEF Calls
<1>1. Turns
  BY DEF SequentialInv, Turns
<1>2. ASSUME NEW s \in Searches, StartSearch(s) PROVE Turns'
  <2>1. \A c \in Calls : ~ Active(c)
    BY <1>2, RunningIsActive DEF SequentialInv, StartSearch, MayStart
  <2>2. stage' = [stage EXCEPT ![s] = "price"] /\ attached' = Pass(s, "price")
        /\ bound' = s /\ saved' = saved
    BY <1>2 DEF StartSearch, passing
  <2>3. \A c \in Calls : stage'[c] = IF c = s THEN "price" ELSE stage[c]
    BY <2>2 DEF SequentialInv, TypeInv, TypeOK
  <2>4. QED
    BY <1>1, <2>1, <2>2, <2>3
    DEF Turns, AtMostOne, OwnBudget, OwnOffers, NothingSaved, Active
<1>3. ASSUME NEW c \in Scans, StartScan(c) PROVE Turns'
  <2>1. \A d \in Calls : ~ Active(d)
    BY <1>3, RunningIsActive DEF SequentialInv, StartScan, MayStart
  <2>2. stage' = [stage EXCEPT ![c] = "scan"] /\ attached' = Pass(c, "scan")
        /\ bound' = bound /\ saved' = [saved EXCEPT ![c] = attached]
    BY <1>3 DEF StartScan
  <2>3. attached = NoBudget
    BY <1>1, <2>1 DEF Turns, OwnBudget
  <2>4. \A d \in Calls : stage'[d] = IF d = c THEN "scan" ELSE stage[d]
    BY <2>2 DEF SequentialInv, TypeInv, TypeOK
  <2>5. NothingSaved'
    BY <1>1, <2>2, <2>3 DEF SequentialInv, TypeInv, TypeOK, Turns, NothingSaved
  <2>6. QED
    BY <1>1, <2>1, <2>2, <2>4, <2>5
    DEF Turns, AtMostOne, OwnBudget, OwnOffers, Active
<1>4. ASSUME NEW s \in Searches, FinishPricing(s) PROVE Turns'
  <2>1. Active(s)
    BY <1>4 DEF FinishPricing, Active
  <2>2. \A d \in Calls : d # s => ~ Active(d)
    BY <2>1, Alone
  <2>3. bound' = bound /\ saved' = saved
    BY <1>4 DEF FinishPricing
  <2>4. \/ stage' = [stage EXCEPT ![s] = "done"] /\ attached' = NoBudget
        \/ stage' = [stage EXCEPT ![s] = "split"] /\ attached' = Pass(s, "split")
    BY <1>4 DEF FinishPricing
  <2>5. CASE stage' = [stage EXCEPT ![s] = "done"] /\ attached' = NoBudget
    <3>1. \A d \in Calls : stage'[d] = IF d = s THEN "done" ELSE stage[d]
      BY <2>5 DEF SequentialInv, TypeInv, TypeOK
    <3>2. QED
      BY <1>1, <2>2, <2>3, <2>5, <3>1
      DEF Turns, AtMostOne, OwnBudget, OwnOffers, NothingSaved, Active
  <2>6. CASE stage' = [stage EXCEPT ![s] = "split"] /\ attached' = Pass(s, "split")
    <3>1. \A d \in Calls : stage'[d] = IF d = s THEN "split" ELSE stage[d]
      BY <2>6 DEF SequentialInv, TypeInv, TypeOK
    <3>2. QED
      BY <1>1, <2>2, <2>3, <2>6, <3>1
      DEF Turns, AtMostOne, OwnBudget, OwnOffers, NothingSaved, Active
  <2>7. QED
    BY <2>4, <2>5, <2>6
<1>5. ASSUME NEW s \in Searches, Expire(s) PROVE Turns'
  <2>1. Active(s)
    BY <1>5 DEF Expire, Active
  <2>2. \A d \in Calls : d # s => ~ Active(d)
    BY <2>1, Alone
  <2>3. stage' = [stage EXCEPT ![s] = "done"] /\ attached' = NoBudget
        /\ bound' = bound /\ saved' = saved
    BY <1>5 DEF Expire, passing
  <2>4. \A d \in Calls : stage'[d] = IF d = s THEN "done" ELSE stage[d]
    BY <2>3 DEF SequentialInv, TypeInv, TypeOK
  <2>5. QED
    BY <1>1, <2>2, <2>3, <2>4
    DEF Turns, AtMostOne, OwnBudget, OwnOffers, NothingSaved, Active
<1>6. ASSUME NEW c \in Calls, EndPass(c) PROVE Turns'
  <2>1. Active(c)
    BY <1>6 DEF EndPass, InPass, Active
  <2>2. \A d \in Calls : d # c => ~ Active(d)
    BY <2>1, Alone
  <2>3. stage' = [stage EXCEPT ![c] = "done"] /\ bound' = bound /\ saved' = saved
    BY <1>6 DEF EndPass, passing
  <2>4. attached' = NoBudget
    BY <1>1, <1>6 DEF EndPass, InPass, Turns, NothingSaved, SequentialInv, TypeInv, TypeOK
  <2>5. \A d \in Calls : stage'[d] = IF d = c THEN "done" ELSE stage[d]
    BY <2>3 DEF SequentialInv, TypeInv, TypeOK
  <2>6. QED
    BY <1>1, <2>2, <2>3, <2>4, <2>5
    DEF Turns, AtMostOne, OwnBudget, OwnOffers, NothingSaved, Active
<1>7. CASE UNCHANGED <<stage, attached, saved, bound>>
  BY <1>1, <1>7, TurnsUnchanged
<1>8. QED
  BY <1>2, <1>3, <1>4, <1>5, <1>6, <1>7
  DEF Next, Proceed, Finished, vars, CacheHit, AskLeg, RefuseLeg, Answer, PriceCar,
      CloseItinerary, AskProbe, SkipProbe, AnswerProbe, passing, quotes

(* Who sends is the call that runs, so it is charged to itself.            *)
LEMMA LedgerStep ==
  ASSUME SequentialInv, [Next]_vars
  PROVE  Ledger'
<1> USE DEF Calls
<1>1. TypeInv /\ Ledger
  BY DEF SequentialInv
<1>2. ASSUME NEW c \in Calls, Active(c), Send(Pass(c, stage[c])) PROVE Ledger'
  BY <1>1, <1>2, Alone, SendKeepsLedger
<1>3. ASSUME NEW s \in Searches, stage[s] = "price", Send(Pass(s, "price"))
      PROVE  Ledger'
  BY <1>2, <1>3 DEF Active
<1>4. CASE UNCHANGED <<used, sent>>
  BY <1>1, <1>4 DEF Ledger, LimitOf
<1>5. ASSUME NEW s \in Searches, NEW l \in Legs, AskLeg(s, l) \/ Answer(s, l)
      PROVE  Ledger'
  BY <1>3, <1>4, <1>5 DEF AskLeg, Answer
<1>6. ASSUME NEW c \in Calls, AskProbe(c) PROVE Ledger'
  BY <1>2, <1>6 DEF AskProbe, InPass, Active
<1>7. QED
  BY <1>4, <1>5, <1>6
  DEF Next, Proceed, Finished, vars, StartSearch, StartScan, CacheHit, RefuseLeg,
      PriceCar, CloseItinerary, FinishPricing, Expire, SkipProbe, AnswerProbe, EndPass

(* While a search prices, the offers loaded are its own.                   *)
LEMMA OffersStep ==
  ASSUME SequentialInv, [Next]_vars
  PROVE  PricedFromOwnSnapshot'
<1>1. PricedFromOwnSnapshot /\ TypeInv
  BY DEF SequentialInv
<1>2. ASSUME NEW s \in Searches, stage[s] = "price" PROVE Matches(s) = {CarOf[s]}
  BY <1>2, OfferAssumption DEF SequentialInv, OwnOffers, Matches
<1>3. CASE UNCHANGED <<leg, car, warned>>
  BY <1>1, <1>3 DEF PricedFromOwnSnapshot
<1>4. ASSUME NEW s \in Searches, NEW l \in Legs,
             CacheHit(s, l) \/ AskLeg(s, l) \/ RefuseLeg(s, l) \/ Answer(s, l)
      PROVE  PricedFromOwnSnapshot'
  <2>1. car' = car /\ warned' = warned
    BY <1>4 DEF CacheHit, AskLeg, RefuseLeg, Answer
  <2>2. \/ leg' = leg
        \/ leg' = [leg EXCEPT ![s][l] = "priced"]
        \/ leg' = [leg EXCEPT ![s][l] = "asking"]
        \/ l.kind = "rail" /\ leg' = [leg EXCEPT ![s][l] = "unpriced"]
    <3>1. CASE CacheHit(s, l) \/ AskLeg(s, l) \/ RefuseLeg(s, l)
      BY <3>1 DEF CacheHit, AskLeg, RefuseLeg
    <3>2. CASE Answer(s, l)
      <4>1. l.kind = "rail"
        <5>1. l \in Legs /\ leg[s][l] = "asking"
          BY <3>2 DEF Answer
        <5>2. QED
          BY <1>1, <5>1 DEF TypeInv, LegsHaveRequests
      <4>2. QED
        BY <3>2, <4>1 DEF Answer
    <3>3. QED
      BY <1>4, <3>1, <3>2
  <2>3. ASSUME NEW t \in Searches, NEW m \in Legs, m.kind = "car"
        PROVE  leg'[t][m] # "unpriced"
    <3>1. leg[t][m] # "unpriced"
      BY <1>1, <2>3 DEF PricedFromOwnSnapshot
    <3>2. leg \in [Searches -> [Legs -> {"ready", "asking", "priced", "unpriced"}]]
      BY <1>1 DEF TypeInv, TypeOK
    <3>3. CASE t = s /\ m = l
      BY <2>2, <2>3, <3>1, <3>2, <3>3
    <3>4. CASE ~(t = s /\ m = l)
      <4>1. leg'[t][m] = leg[t][m]
        BY <2>2, <3>2, <3>4
      <4>2. QED
        BY <3>1, <4>1
    <3>5. QED
      BY <3>3, <3>4
  <2>4. QED
    BY <1>1, <2>1, <2>3 DEF PricedFromOwnSnapshot
<1>5. ASSUME NEW s \in Searches, NEW l \in Legs, PriceCar(s, l)
      PROVE  PricedFromOwnSnapshot'
  <2>1. leg' = [leg EXCEPT ![s][l] = "priced"]
        /\ car' = [car EXCEPT ![s][l] = CarOf[s]] /\ warned' = warned
    <3>1. Matches(s) = {CarOf[s]}
      BY <1>2, <1>5 DEF PriceCar
    <3>2. QED
      BY <1>5, <3>1 DEF PriceCar
  <2>2. QED
    BY <1>1, <2>1 DEF PricedFromOwnSnapshot, TypeInv, TypeOK
<1>6. ASSUME NEW s \in Searches, NEW i \in Itineraries, CloseItinerary(s, i)
      PROVE  PricedFromOwnSnapshot'
  <2>1. Matches(s) = {CarOf[s]}
    BY <1>2, <1>6 DEF CloseItinerary
  <2>2. UNCHANGED <<leg, car, warned>>
    BY <1>6, <2>1 DEF CloseItinerary
  <2>3. QED
    BY <1>3, <2>2
<1>7. QED
  BY <1>3, <1>4, <1>5, <1>6
  DEF Next, Proceed, Finished, vars, quotes, StartSearch, StartScan, FinishPricing,
      Expire, AskProbe, SkipProbe, AnswerProbe, EndPass

(* The invariant holds before any call starts.                              *)
LEMMA SequentialInit == Init => SequentialInv
<1>1. ASSUME Init PROVE AtMostOne /\ OwnBudget /\ OwnOffers /\ NothingSaved
  BY <1>1 DEF Init, AtMostOne, OwnBudget, OwnOffers, NothingSaved, Active, Calls
<1>2. ASSUME Init PROVE Ledger
  BY <1>2, LimitType DEF Init, Ledger
<1>3. ASSUME Init PROVE PricedFromOwnSnapshot
  BY <1>3 DEF Init, PricedFromOwnSnapshot
<1>4. QED
  BY <1>1, <1>2, <1>3, TypeInit DEF SequentialInv

(* ... and after every step, so that it holds throughout.                  *)
LEMMA SequentialAlways ==
  ASSUME ~ Concurrent
  PROVE  Spec => []SequentialInv
<1>1. SequentialInv /\ [Next]_vars => SequentialInv'
  BY TypeStep, TurnsStep, LedgerStep, OffersStep DEF SequentialInv, Turns
<1>2. QED
  BY <1>1, SequentialInit, PTL DEF Spec

(* One call at a time, no pass of phase 2 sends more requests than its own *)
(* ceiling, whatever is cached, refused, cancelled or too late.            *)
THEOREM PassesWithinAllowance ==
  ASSUME ~ Concurrent
  PROVE  Spec => []WithinAllowance
<1>1. SequentialInv => WithinAllowance
  BY DEF SequentialInv, Ledger, WithinAllowance
<1>2. QED
  BY <1>1, SequentialAlways, PTL

(* One call at a time, every request is charged to the pass that sent it:  *)
(* the budget the adapters carry is the caller's own (attach, restore).    *)
THEOREM RequestsChargedToOwner ==
  ASSUME ~ Concurrent
  PROVE  Spec => []ChargedToOwner
<1>1. SequentialInv => ChargedToOwner
  BY DEF SequentialInv, Ledger, ChargedToOwner
<1>2. QED
  BY <1>1, SequentialAlways, PTL

(* One call at a time, no budget stays on the adapters when the last call  *)
(* is over.                                                                *)
THEOREM NoBudgetLeftBehind ==
  ASSUME ~ Concurrent
  PROVE  Spec => []QuietMeansNoBudget
<1>1. SequentialInv => QuietMeansNoBudget
  BY RunningIsActive DEF SequentialInv, OwnBudget, QuietMeansNoBudget
<1>2. QED
  BY <1>1, SequentialAlways, PTL

(* One call at a time, cars are priced and warned about from the offers    *)
(* the search was routed with.                                             *)
THEOREM CarsPricedFromSnapshot ==
  ASSUME ~ Concurrent
  PROVE  Spec => []PricedFromOwnSnapshot
<1>1. SequentialInv => PricedFromOwnSnapshot
  BY DEF SequentialInv
<1>2. QED
  BY <1>1, SequentialAlways, PTL
-----------------------------------------------------------------------------
(***************************************************************************)
(* The refinement.                                                         *)
(***************************************************************************)
(* At first no pass is open and none has spent.                             *)
LEMMA InitRefines == Init => Allowances!Init
BY DEF Init, Allowances!Init, Open, Over, Passes, Calls

(* A call that goes on to another stage takes a turn.                      *)
LEMMA TurnRefines ==
  ASSUME TypeInv, NEW c \in Calls, NEW to,
         stage' = [stage EXCEPT ![c] = to], sent' = sent,
         \/ stage[c] = "idle" /\ to \in {"price", "scan"}
         \/ stage[c] = "price" /\ to \in {"split", "done"}
         \/ stage[c] \in {"split", "scan"} /\ to = "done"
  PROVE  Allowances!Turn
<1>1. \A p \in Passes : p.call \in Calls /\ p.kind \in {"price", "split", "scan"}
  BY DEF Passes, Calls
<1>2. \A d \in Calls : stage'[d] = IF d = c THEN to ELSE stage[d]
  BY DEF TypeInv, TypeOK
<1>3. Open' \subseteq Passes /\ Over' \subseteq Passes
  BY DEF Open, Over
<1>4. Over \subseteq Over'
  BY <1>1, <1>2 DEF Open, Over
<1>5. Open \subseteq Open' \cup Over'
  BY <1>1, <1>2 DEF Open, Over
<1>6. Open' \cap Over' = {}
  BY <1>1, <1>2 DEF Open, Over
<1>7. QED
  BY <1>3, <1>4, <1>5, <1>6 DEF Allowances!Turn

(* A request is spent by the open pass that sends it.                       *)
LEMMA SendRefines ==
  ASSUME SequentialInv, NEW c \in Calls, Active(c), Send(Pass(c, stage[c])), stage' = stage
  PROVE  \E p \in Passes : Allowances!Spend(p)
<1> DEFINE p == Pass(c, stage[c])
<1>1. p \in Passes /\ attached = p
  BY Alone
<1>2. sent[p] < LimitOf(p) /\ sent' = [sent EXCEPT ![p] = @ + 1]
  BY <1>1, SendKeepsLedger DEF SequentialInv
<1>3. p \in Open
  BY <1>1 DEF Open, Pass
<1>4. Open' = Open /\ Over' = Over
  BY DEF Open, Over
<1>5. Allowances!Spend(p)
  BY <1>1, <1>2, <1>3, <1>4 DEF Allowances!Spend
<1>6. QED
  BY <1>1, <1>5

(* Every step of phase 2 is a turn, a request or no change of the promise.  *)
LEMMA StepRefines ==
  ASSUME SequentialInv, [Next]_vars
  PROVE  [Allowances!Next]_<<Open, Over, sent>>
<1> USE DEF Calls
<1>1. TypeInv
  BY DEF SequentialInv
<1>2. CASE UNCHANGED <<stage, sent>>
  BY <1>2 DEF Open, Over
<1>3. ASSUME NEW c \in Calls, Active(c), Send(Pass(c, stage[c])), stage' = stage
      PROVE  Allowances!Next
  BY <1>3, SendRefines DEF Allowances!Next
<1>4. ASSUME NEW s \in Searches, NEW l \in Legs, AskLeg(s, l) \/ Answer(s, l)
      PROVE  Allowances!Next \/ UNCHANGED <<stage, sent>>
  <2>1. stage[s] = "price" /\ stage' = stage /\ (Send(Pass(s, "price")) \/ sent' = sent)
    BY <1>4 DEF AskLeg, Answer
  <2>2. QED
    BY <1>3, <2>1 DEF Active
<1>5. ASSUME NEW c \in Calls, AskProbe(c) PROVE Allowances!Next
  BY <1>3, <1>5 DEF AskProbe, InPass, Active
<1>6. ASSUME NEW s \in Searches, StartSearch(s) \/ FinishPricing(s) \/ Expire(s)
      PROVE  Allowances!Next
  <2>1. sent' = sent
    BY <1>6 DEF StartSearch, FinishPricing, Expire
  <2>2. \/ stage[s] = "idle" /\ stage' = [stage EXCEPT ![s] = "price"]
        \/ stage[s] = "price" /\ stage' = [stage EXCEPT ![s] = "split"]
        \/ stage[s] = "price" /\ stage' = [stage EXCEPT ![s] = "done"]
    BY <1>6 DEF StartSearch, FinishPricing, Expire, MayStart
  <2>3. QED
    BY <1>1, <2>1, <2>2, TurnRefines DEF Allowances!Next
<1>7. ASSUME NEW c \in Calls, (c \in Scans /\ StartScan(c)) \/ EndPass(c)
      PROVE  Allowances!Next
  <2>1. sent' = sent
    BY <1>7 DEF StartScan, EndPass
  <2>2. \/ stage[c] = "idle" /\ stage' = [stage EXCEPT ![c] = "scan"]
        \/ stage[c] \in {"split", "scan"} /\ stage' = [stage EXCEPT ![c] = "done"]
    BY <1>7 DEF StartScan, EndPass, InPass, MayStart
  <2>3. QED
    BY <1>1, <2>1, <2>2, TurnRefines DEF Allowances!Next
<1>8. QED
  BY <1>2, <1>4, <1>5, <1>6, <1>7
  DEF Next, Proceed, Finished, vars, quotes, CacheHit, RefuseLeg, PriceCar,
      CloseItinerary, SkipProbe, AnswerProbe

(* One call at a time, phase 2 implements the promise of CallBudget.       *)
THEOREM SequentialRefines ==
  ASSUME ~ Concurrent
  PROVE  Spec => KeepsAllowances
<1>1. SequentialInv /\ [Next]_vars => [Allowances!Next]_<<Open, Over, sent>>
  BY StepRefines
<1>2. QED
  BY <1>1, SequentialAlways, InitRefines, PTL DEF Spec, KeepsAllowances, Allowances!Spec
-----------------------------------------------------------------------------
(***************************************************************************)
(* The two price caches.  The age an answer is labelled with is bounded    *)
(* although neither cache knows about the other: the inductive invariant   *)
(* says that a row never holds a number that had outlived the memo when    *)
(* the row was written.                                                    *)
(***************************************************************************)

Labels == {"none", "exact", "estimated", "unavailable", "cached", "stale"}
RowTypes == [conf : Outcomes \cup {"none"}, at : Int, seen : Int]

Types ==
  /\ clock \in Nat
  /\ rows \in [Keys -> RowTypes]
  /\ memo \in [at : Int, sells : [Keys -> Outcomes]]
  /\ task \in [Tasks -> [state : {"idle", "waiting", "asking", "done"}, key : Keys]]
  /\ answer \in [Tasks -> [label : Labels, age : Int]]

(* Nothing comes from the future, and a row took its number from a         *)
(* response that was fresh.                                                *)
RowsWereFresh ==
  \A k \in Keys : rows[k].conf # "none" =>
    /\ rows[k].seen <= rows[k].at /\ rows[k].at <= clock
    /\ rows[k].at - rows[k].seen < MemoTTL

MemoIsPast == memo.at <= clock

CacheInv == Types /\ RowsWereFresh /\ MemoIsPast /\ LabelsBoundAge

(* The label of a row bounds the age of its number.                        *)
LEMMA LabelAge ==
  ASSUME CacheInv, NEW k \in Keys
  PROVE  /\ Label(k) \in Labels
         /\ Label(k) # "exact"
         /\ Label(k) \in {"cached", "estimated"} => clock - rows[k].seen < TTL + MemoTTL
         /\ Label(k) = "stale" => clock - rows[k].seen > TTL
<1>1. /\ rows[k] \in RowTypes /\ clock \in Nat
      /\ TTL \in Nat /\ MemoTTL \in Nat /\ FailureTTL \in Nat
  BY TimeAssumption DEF CacheInv, Types
<1>2. rows[k].conf # "none" =>
        /\ rows[k].seen <= rows[k].at /\ rows[k].at <= clock
        /\ rows[k].at - rows[k].seen < MemoTTL
  BY DEF CacheInv, RowsWereFresh
<1>3. QED
  BY <1>1, <1>2 DEF Label, Labels, RowTypes, Outcomes

(* An answer that respects its label keeps the others as they are.         *)
LEMMA AnswerBounded ==
  ASSUME CacheInv, NEW t \in Tasks, NEW label \in Labels, NEW age \in Int,
         AnswerWith(t, label, age),
         label = "exact" => age < MemoTTL,
         label \in {"cached", "estimated"} => age < TTL + MemoTTL,
         label = "stale" => age > TTL
  PROVE  /\ answer' \in [Tasks -> [label : Labels, age : Int]]
         /\ LabelsBoundAge'
<1>1. answer' = [answer EXCEPT ![t] = [label |-> label, age |-> age]]
  BY DEF AnswerWith
<1>2. answer \in [Tasks -> [label : Labels, age : Int]]
  BY DEF CacheInv, Types
<1>3. \A u \in Tasks : answer'[u] = IF u = t THEN [label |-> label, age |-> age] ELSE answer[u]
  BY <1>1, <1>2
<1>4. LabelsBoundAge'
  BY <1>3 DEF CacheInv, LabelsBoundAge
<1>5. QED
  BY <1>1, <1>2, <1>4

(* What an adapter delivers from a response no older than the memo lives.  *)
LEMMA DeliverKeeps ==
  ASSUME CacheInv, NEW t \in Tasks, NEW k \in Keys, NEW outcome \in Outcomes, NEW seen \in Int,
         seen <= clock, clock - seen < MemoTTL, clock' = clock,
         Deliver(t, k, outcome, seen)
  PROVE  /\ rows' \in [Keys -> RowTypes] /\ RowsWereFresh'
         /\ answer' \in [Tasks -> [label : Labels, age : Int]] /\ LabelsBoundAge'
<1>1. clock \in Nat /\ TTL \in Nat /\ MemoTTL \in Nat
  BY TimeAssumption DEF CacheInv, Types
<1>2. rows \in [Keys -> RowTypes]
  BY DEF CacheInv, Types
<1>3. [conf |-> outcome, at |-> clock, seen |-> seen] \in RowTypes
  BY <1>1 DEF RowTypes
<1>4. rows' = rows \/ rows' = [rows EXCEPT ![k] = [conf |-> outcome, at |-> clock, seen |-> seen]]
  BY DEF Deliver
<1>5. rows' \in [Keys -> RowTypes]
  BY <1>2, <1>3, <1>4
<1>6. RowsWereFresh'
  <2>1. ASSUME NEW j \in Keys
        PROVE  rows'[j] = rows[j] \/ rows'[j] = [conf |-> outcome, at |-> clock, seen |-> seen]
    BY <1>2, <1>4
  <2>2. QED
    BY <1>1, <2>1 DEF CacheInv, RowsWereFresh
<1>7. outcome \in Labels /\ clock - seen \in Int /\ clock - seen < TTL + MemoTTL
  BY <1>1 DEF Outcomes, Labels
<1>8. outcome \notin {"cached", "stale"}
  BY DEF Outcomes
<1>9. AnswerWith(t, outcome, clock - seen)
  BY DEF Deliver
<1>10. answer' \in [Tasks -> [label : Labels, age : Int]] /\ LabelsBoundAge'
  BY <1>7, <1>8, <1>9, AnswerBounded
<1>11. QED
  BY <1>5, <1>6, <1>10

(* A priced row of any age, or nothing.                                    *)
LEMMA FallbackKeeps ==
  ASSUME CacheInv, NEW t \in Tasks, NEW k \in Keys, clock' = clock, Fallback(t, k)
  PROVE  /\ rows' \in [Keys -> RowTypes] /\ RowsWereFresh'
         /\ answer' \in [Tasks -> [label : Labels, age : Int]] /\ LabelsBoundAge'
<1>1. rows' = rows /\ rows[k] \in RowTypes /\ clock \in Nat
  BY DEF Fallback, CacheInv, Types
<1>2. rows' \in [Keys -> RowTypes] /\ RowsWereFresh'
  BY <1>1 DEF CacheInv, Types, RowsWereFresh
<1>3. CASE AnswerWith(t, Label(k), clock - rows[k].seen)
  <2>1. clock - rows[k].seen \in Int
    BY <1>1 DEF RowTypes
  <2>2. QED
    BY <1>2, <1>3, <2>1, LabelAge, AnswerBounded
<1>4. CASE AnswerWith(t, "unavailable", 0)
  <2>1. "unavailable" \in Labels /\ 0 \in Int
    BY DEF Labels
  <2>2. QED
    BY <1>2, <1>4, <2>1, AnswerBounded
<1>5. QED
  BY <1>3, <1>4 DEF Fallback

(* Steps that leave both caches and the answers alone.                     *)
LEMMA CachesUnchanged ==
  ASSUME CacheInv, UNCHANGED <<clock, rows, answer>>
  PROVE  /\ rows' \in [Keys -> RowTypes] /\ RowsWereFresh'
         /\ answer' \in [Tasks -> [label : Labels, age : Int]] /\ LabelsBoundAge'
BY DEF CacheInv, Types, RowsWereFresh, LabelsBoundAge

(* A refused request falls back or says unavailable.                       *)
LEMMA RefuseKeeps ==
  ASSUME CacheInv, NEW t \in Tasks, NEW k \in Keys, clock' = clock, Refuse(t, k)
  PROVE  /\ rows' \in [Keys -> RowTypes] /\ RowsWereFresh'
         /\ answer' \in [Tasks -> [label : Labels, age : Int]] /\ LabelsBoundAge'
<1>1. CASE Fallback(t, k)
  BY <1>1, FallbackKeeps
<1>2. CASE Deliver(t, k, "unavailable", clock)
  <2>1. clock \in Int /\ clock <= clock /\ clock - clock < MemoTTL /\ "unavailable" \in Outcomes
    BY TimeAssumption DEF CacheInv, Types, Outcomes
  <2>2. QED
    BY <1>2, <2>1, DeliverKeeps
<1>3. QED
  BY <1>1, <1>2 DEF Refuse

(* What a fresh memo delivers was fresh.                                   *)
LEMMA MemoKeeps ==
  ASSUME CacheInv, NEW t \in Tasks, NEW k \in Keys, clock' = clock, MemoFresh,
         Deliver(t, k, memo.sells[k], memo.at)
  PROVE  /\ rows' \in [Keys -> RowTypes] /\ RowsWereFresh'
         /\ answer' \in [Tasks -> [label : Labels, age : Int]] /\ LabelsBoundAge'
<1>1. memo.sells[k] \in Outcomes /\ memo.at \in Int /\ memo.at <= clock
  BY DEF CacheInv, Types, MemoIsPast
<1>2. clock - memo.at < MemoTTL
  BY DEF MemoFresh
<1>3. QED
  BY <1>1, <1>2, DeliverKeeps

(* A task is known by its state and its key.                               *)
LEMMA BecomeType ==
  ASSUME CacheInv, NEW t \in Tasks, NEW k \in Keys,
         NEW state \in {"idle", "waiting", "asking", "done"}, Become(t, state, k)
  PROVE  task' \in [Tasks -> [state : {"idle", "waiting", "asking", "done"}, key : Keys]]
BY DEF CacheInv, Types, Become

(* The invariant holds at first ...                                        *)
LEMMA CacheInvInit == CacheInit => CacheInv
<1> SUFFICES ASSUME CacheInit PROVE CacheInv
  OBVIOUS
<1>1. (CHOOSE k \in Keys : TRUE) \in Keys
  BY KeyAssumption
<1>2. NoRow \in RowTypes /\ NoRow.conf = "none"
  BY DEF NoRow, RowTypes, Never
<1>3. NoMemo \in [at : Int, sells : [Keys -> Outcomes]] /\ NoMemo.at = -1
  BY DEF NoMemo, Never, Outcomes
<1>4. NoAnswer \in [label : Labels, age : Int] /\ NoAnswer.label = "none"
  BY DEF NoAnswer, Labels
<1>5. Types
  BY <1>1, <1>2, <1>3, <1>4 DEF CacheInit, Types
<1>6. RowsWereFresh /\ MemoIsPast /\ LabelsBoundAge
  BY <1>2, <1>3, <1>4 DEF CacheInit, RowsWereFresh, MemoIsPast, LabelsBoundAge
<1>7. QED
  BY <1>5, <1>6 DEF CacheInv

(* ... and after every step.                                               *)
LEMMA CacheStep ==
  ASSUME CacheInv, [CacheNext]_cacheVars
  PROVE  CacheInv'
<1> DEFINE CachesKept ==
             /\ rows' \in [Keys -> RowTypes] /\ RowsWereFresh'
             /\ answer' \in [Tasks -> [label : Labels, age : Int]] /\ LabelsBoundAge'
           TaskTypes == [Tasks -> [state : {"idle", "waiting", "asking", "done"}, key : Keys]]
<1>types. /\ clock \in Nat /\ rows \in [Keys -> RowTypes]
          /\ memo \in [at : Int, sells : [Keys -> Outcomes]]
          /\ task \in TaskTypes
          /\ answer \in [Tasks -> [label : Labels, age : Int]]
  BY DEF CacheInv, Types
<1>same. ASSUME CachesKept, task' \in TaskTypes, UNCHANGED <<clock, memo>> PROVE CacheInv'
  BY <1>types, <1>same DEF CacheInv, Types, MemoIsPast
<1>1. ASSUME NEW t \in Tasks, NEW k \in Keys, Serve(t, k) PROVE CacheInv'
  <2>1. UNCHANGED <<clock, rows, memo>> /\ Label(k) \in {"cached", "estimated"}
        /\ AnswerWith(t, Label(k), clock - rows[k].seen) /\ Become(t, "done", k)
    BY <1>1 DEF Serve
  <2>2. clock - rows[k].seen \in Int
    BY <1>types DEF RowTypes
  <2>3. answer' \in [Tasks -> [label : Labels, age : Int]] /\ LabelsBoundAge'
    BY <2>1, <2>2, LabelAge, AnswerBounded
  <2>4. CachesKept
    BY <1>types, <2>1, <2>3 DEF CacheInv, RowsWereFresh
  <2>5. QED
    BY <1>same, <2>1, <2>4, BecomeType
<1>2. ASSUME NEW t \in Tasks, NEW k \in Keys, FromMemo(t, k) PROVE CacheInv'
  <2>1. CachesKept
    BY <1>2, MemoKeeps DEF FromMemo
  <2>2. QED
    BY <1>2, <1>same, <2>1, BecomeType DEF FromMemo
<1>3. ASSUME NEW t \in Tasks, NEW k \in Keys, Ask(t, k) PROVE CacheInv'
  <2>1. UNCHANGED <<clock, memo>>
    BY <1>3 DEF Ask
  <2>2. CASE Become(t, "asking", k) /\ UNCHANGED <<rows, answer>>
    BY <1>same, <2>1, <2>2, CachesUnchanged, BecomeType
  <2>3. CASE Refuse(t, k)
    <3>1. CachesKept
      BY <2>1, <2>3, RefuseKeeps
    <3>2. QED
      BY <1>same, <2>1, <2>3, <3>1, BecomeType DEF Refuse
  <2>4. QED
    BY <1>3, <2>2, <2>3 DEF Ask
<1>4. ASSUME NEW t \in Tasks, NEW k \in Keys, Wait(t, k) PROVE CacheInv'
  BY <1>4, <1>same, CachesUnchanged, BecomeType DEF Wait
<1>key. ASSUME NEW t \in Tasks PROVE task[t].key \in Keys
  BY <1>types
<1>5. ASSUME NEW t \in Tasks, Resume(t) PROVE CacheInv'
  <2> DEFINE k == task[t].key
  <2>1. UNCHANGED <<clock, memo>> /\ k \in Keys
    BY <1>5, <1>key DEF Resume
  <2>2. CASE MemoFresh /\ Become(t, "done", k) /\ Deliver(t, k, memo.sells[k], memo.at)
    <3>1. CachesKept
      BY <2>1, <2>2, MemoKeeps
    <3>2. QED
      BY <1>same, <2>1, <2>2, <3>1, BecomeType
  <2>3. CASE Become(t, "asking", k) /\ UNCHANGED <<rows, answer>>
    BY <1>same, <2>1, <2>3, CachesUnchanged, BecomeType
  <2>4. CASE Refuse(t, k)
    <3>1. CachesKept
      BY <2>1, <2>4, RefuseKeeps
    <3>2. QED
      BY <1>same, <2>1, <2>4, <3>1, BecomeType DEF Refuse
  <2>5. QED
    BY <1>5, <2>2, <2>3, <2>4 DEF Resume
<1>6. ASSUME NEW t \in Tasks, Respond(t) PROVE CacheInv'
  <2> DEFINE k == task[t].key
  <2>1. PICK sells \in [Keys -> Outcomes] : /\ memo' = [at |-> clock, sells |-> sells]
                                            /\ Deliver(t, k, sells[k], clock)
    BY <1>6 DEF Respond
  <2>2. clock' = clock /\ Become(t, "done", k) /\ k \in Keys
    BY <1>6, <1>key DEF Respond
  <2>3. clock \in Int /\ clock <= clock /\ clock - clock < MemoTTL /\ sells[k] \in Outcomes
    BY <1>types, <2>2, TimeAssumption
  <2>4. CachesKept
    BY <2>1, <2>2, <2>3, DeliverKeeps
  <2>5. task' \in TaskTypes
    BY <2>2, BecomeType
  <2>6. memo' \in [at : Int, sells : [Keys -> Outcomes]] /\ MemoIsPast'
    BY <2>1, <2>2, <2>3 DEF MemoIsPast
  <2>7. QED
    BY <1>types, <2>2, <2>4, <2>5, <2>6 DEF CacheInv, Types
<1>7. ASSUME NEW t \in Tasks, Fail(t) PROVE CacheInv'
  <2> DEFINE k == task[t].key
  <2>1. UNCHANGED <<clock, memo>> /\ Become(t, "done", k) /\ k \in Keys
        /\ Deliver(t, k, "unavailable", clock)
    BY <1>7, <1>key DEF Fail
  <2>2. clock \in Int /\ clock <= clock /\ clock - clock < MemoTTL /\ "unavailable" \in Outcomes
    BY <1>types, TimeAssumption DEF Outcomes
  <2>3. CachesKept
    BY <2>1, <2>2, DeliverKeeps
  <2>4. QED
    BY <1>same, <2>1, <2>3, BecomeType
<1>8. ASSUME NEW t \in Tasks, Raise(t) PROVE CacheInv'
  <2> DEFINE k == task[t].key
  <2>1. UNCHANGED <<clock, memo>> /\ Become(t, "done", k) /\ k \in Keys /\ Fallback(t, k)
    BY <1>8, <1>key DEF Raise
  <2>2. CachesKept
    BY <2>1, FallbackKeeps
  <2>3. QED
    BY <1>same, <2>1, <2>2, BecomeType
<1>9. ASSUME NEW t \in Tasks, Cancel(t) PROVE CacheInv'
  BY <1>9, <1>key, <1>same, CachesUnchanged, BecomeType DEF Cancel
<1>10. ASSUME NEW t \in Tasks, Again(t) PROVE CacheInv'
  <2>1. UNCHANGED <<clock, rows, memo>> /\ answer' = [answer EXCEPT ![t] = NoAnswer]
        /\ task' = [task EXCEPT ![t].state = "idle"]
    BY <1>10 DEF Again
  <2>2. AnswerWith(t, "none", 0) /\ "none" \in Labels
    BY <2>1 DEF AnswerWith, NoAnswer, Labels
  <2>3. answer' \in [Tasks -> [label : Labels, age : Int]] /\ LabelsBoundAge'
    BY <2>2, AnswerBounded
  <2>4. CachesKept
    BY <1>types, <2>1, <2>3 DEF CacheInv, RowsWereFresh
  <2>5. task' \in TaskTypes
    BY <1>types, <2>1
  <2>6. QED
    BY <1>same, <2>1, <2>4, <2>5
<1>11. ASSUME Purge PROVE CacheInv'
  <2>1. /\ UNCHANGED <<clock, memo, task, answer>>
        /\ rows' = [k \in Keys |-> IF rows[k].at < clock - PurgeAge THEN NoRow ELSE rows[k]]
    BY <1>11 DEF Purge
  <2>2. NoRow \in RowTypes /\ NoRow.conf = "none"
    BY DEF NoRow, RowTypes, Never
  <2>3. rows' \in [Keys -> RowTypes]
    BY <1>types, <2>1, <2>2
  <2>4. \A k \in Keys : rows'[k] = NoRow \/ rows'[k] = rows[k]
    BY <2>1
  <2>5. CachesKept
    BY <1>types, <2>1, <2>2, <2>3, <2>4 DEF CacheInv, RowsWereFresh, LabelsBoundAge
  <2>6. QED
    BY <1>types, <1>same, <2>1, <2>5
<1>12. ASSUME Tick PROVE CacheInv'
  <2>1. clock' = clock + 1 /\ UNCHANGED <<rows, memo, task, answer>>
    BY <1>12 DEF Tick
  <2>2. \A k \in Keys : rows[k].at \in Int /\ memo.at \in Int
    BY <1>types DEF RowTypes
  <2>3. QED
    BY <1>types, <2>1, <2>2 DEF CacheInv, Types, RowsWereFresh, MemoIsPast, LabelsBoundAge
<1>13. ASSUME UNCHANGED cacheVars PROVE CacheInv'
  BY <1>13, <1>types, <1>same, CachesUnchanged DEF cacheVars
<1>14. QED
  BY <1>1, <1>2, <1>3, <1>4, <1>5, <1>6, <1>7, <1>8, <1>9, <1>10, <1>11, <1>12, <1>13 DEF CacheNext

(* Whatever the two caches do to a number, its label tells how old it can  *)
(* be.                                                                     *)
THEOREM LabelsAreHonest == CacheSpec => []LabelsBoundAge
<1>1. CacheSpec => []CacheInv
  BY CacheInvInit, CacheStep, PTL DEF CacheSpec
<1>2. CacheInv => LabelsBoundAge
  BY DEF CacheInv
<1>3. QED
  BY <1>1, <1>2, PTL
-----------------------------------------------------------------------------
(* The adapters look at the memo again once they hold its lock, so that no *)
(* request leaves while a response is fresh.                               *)
THEOREM NoRequestTwice == CacheSpec => OneRequestPerLifetime
<1>1. CacheNext => (holder' # holder /\ holder' # NoTask => ~ MemoFresh)
  BY DEF CacheNext, Serve, FromMemo, Ask, Refuse, Wait, Resume, Respond, Fail, Raise, Cancel,
         Again, Purge, Tick
<1>2. QED
  BY <1>1, PTL DEF CacheSpec, OneRequestPerLifetime
=============================================================================
