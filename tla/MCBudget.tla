------------------------------ MODULE MCBudget ------------------------------
(* Instances of Budget for TLC: two workers over one session file.          *)
EXTENDS Budget, TLC

\* A failed message without usage, one of prompt and reply, and one that also
\* reads the cache.
SmallMessages == {<<0, 0>>, <<1, 0>>, <<0, 1>>}

\* Each dimension has an action of its own.
TwoPolicies ==
  {[tokens |-> "abort", context |-> "compact"], [tokens |-> "none", context |-> "abort"]}

AgentSymmetry == Permutations(Agents)
=============================================================================
