---------------------------- MODULE MCQuoteCache ----------------------------
(***************************************************************************)
(* Instances of QuoteCache: two departures of a day, and two tasks of      *)
(* which one may be a split probe.                                         *)
(***************************************************************************)
EXTENDS QuoteCache

CONSTANTS k1, k2, t1, t2

TwoKeys == {k1, k2}
TwoTasks == {t1, t2}
OneProbe == {t2}

(* One leg after the other.                                                *)
OneKey == {k1}
OneTask == {t1}
NoProbe == {}
=============================================================================
