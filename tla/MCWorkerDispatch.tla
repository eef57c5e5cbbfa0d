-------------------------- MODULE MCWorkerDispatch --------------------------
(* Instances of WorkerDispatch for TLC: a lead, a member below it and a
   helper; typed specialists are reachable from every session.              *)
EXTENDS WorkerDispatch, TLC

CONSTANTS lead, member, helper

\* A tree with a lead on top.  member and helper are typed specialists, which
\* any session may delegate to, itself included; a lead is reached from Main only.
ChainTeam ==
  {<<Main, lead>>} \cup ({Main, lead, member, helper} \X {member, helper})

\* Two specialists beside each other.
FlatTeam == {<<Main, lead>>, <<Main, member>>, <<lead, member>>}

\* The calls of a session are interchangeable.
CallSymmetry == Permutations(Calls)
=============================================================================
