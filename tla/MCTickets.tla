------------------------------ MODULE MCTickets ------------------------------
(***************************************************************************)
(* An instance of Tickets: trains with hubs and other stops, one where     *)
(* passengers may only alight, one that calls twice at its destination and *)
(* one of another operator.                                                *)
(***************************************************************************)
EXTENDS Tickets

Call(stop) == [stop |-> stop, board |-> TRUE, alight |-> TRUE]
First(stop) == [stop |-> stop, board |-> TRUE, alight |-> FALSE]
Final(stop) == [stop |-> stop, board |-> FALSE, alight |-> TRUE]
Train(calls) == [scanned |-> TRUE, calls |-> calls]

SomeTrains ==
  {Train(<<First("a"), Call("h1"), Call("h2"), Final("d")>>),
   Train(<<Call("x"), Call("a"), Final("y"), Call("h1"), Call("h2"), Call("d")>>),
   Train(<<First("a"), Call("h1"), Call("h2"), Call("h3"), Final("d")>>),
   Train(<<First("a"), Final("h1"), Call("d"), Call("y"), Final("d")>>),
   Train(<<First("d"), Final("a")>>),
   [scanned |-> FALSE, calls |-> <<First("a"), Call("h1"), Final("d")>>]}

OneOrigin == {"a"}
OneDestination == {"d"}
ThreeHubs == {"h1", "h2", "h3"}
UpToFour == {1, 3, 4}
SomeFares == {1, 4}
=============================================================================
