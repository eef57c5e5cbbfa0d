---------------------------- MODULE MCApprovals ----------------------------
(***************************************************************************)
(* Small instances of Approvals for TLC.                                   *)
(***************************************************************************)
EXTENDS Approvals, TLC

(* A path of the graph, with tasks two edges below proposal; all that is    *)
(* above tasks is approved at the start.                                    *)
Path == {"proposal", "design", "tasks"}
AboveTasks == {"proposal", "design"}

\* Sessions and requests are interchangeable.
Symmetry == Permutations(Nonces) \cup Permutations(Requests) \cup Permutations(Reviewers)
=============================================================================
