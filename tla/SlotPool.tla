------------------------------ MODULE SlotPool ------------------------------
(***************************************************************************)
(* The promise of the run slots, without counter or queue: a set of calls, *)
(* never larger than the capacity, that a call enters once and leaves by   *)
(* its own release.  A release may admit one waiting call in the same      *)
(* step, which is how a full pool stays full.                              *)
(***************************************************************************)
EXTENDS Integers, FiniteSets

CONSTANTS Calls, Capacity, Unset

VARIABLE holders

HasRoom(h) == Capacity = Unset \/ Cardinality(h) < Capacity

Init == holders = {}

Enter(c) ==
  /\ c \notin holders
  /\ HasRoom(holders)
  /\ holders' = holders \cup {c}

Leave(c) ==
  /\ c \in holders
  /\ holders' = holders \ {c}

Exchange(c, d) ==
  /\ c \in holders
  /\ d \notin holders
  /\ HasRoom(holders \ {c})
  /\ holders' = (holders \ {c}) \cup {d}

Next == \E c \in Calls : Enter(c) \/ Leave(c) \/ \E d \in Calls : Exchange(c, d)

Spec == Init /\ [][Next]_holders

=============================================================================
