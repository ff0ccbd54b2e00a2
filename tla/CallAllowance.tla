---------------------------- MODULE CallAllowance ----------------------------
(***************************************************************************)
(* What pricing/base.py promises of CallBudget: a pass over the price      *)
(* sources begins once, sends requests only while it is under way, and     *)
(* never more than its allowance.  SharedPricing implements this as long   *)
(* as the calls that share the adapters do not overlap.                    *)
(***************************************************************************)
EXTENDS Integers

CONSTANTS Passes, Allowance

VARIABLES
  open,   \* the passes under way
  over,   \* the passes that have ended, or never will begin
  spent   \* spent[p]: the requests pass p has sent

Init == open = {} /\ over = {} /\ spent = [p \in Passes |-> 0]

Spend(p) ==
  /\ p \in open /\ spent[p] < Allowance[p]
  /\ spent' = [spent EXCEPT ![p] = @ + 1]
  /\ UNCHANGED <<open, over>>

(* Passes begin and end; one that is over does not begin again.            *)
Turn ==
  /\ open' \subseteq Passes /\ over' \subseteq Passes
  /\ over \subseteq over' /\ open \subseteq open' \cup over'
  /\ open' \cap over' = {}
  /\ UNCHANGED spent

Next == Turn \/ \E p \in Passes : Spend(p)

Spec == Init /\ [][Next]_<<open, over, spent>>
=============================================================================
