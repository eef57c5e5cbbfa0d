------------------------- MODULE MCOperatorCommands -------------------------
(* Instances of OperatorCommands for TLC. *)
EXTENDS OperatorCommands, TLC

\* Rows, drains and session identifiers are interchangeable.
Symmetry == Permutations(Rows) \cup Permutations(Ticks) \cup Permutations(RunSessions) \cup Permutations(WakeSessions)
=============================================================================
