------------------------------- MODULE MCHost -------------------------------
(* The parts of the host that share no state, in one instance: a behaviour is a  *)
(* behaviour of the part in focus, the others stay as they were initially.  The   *)
(* calls of tools and the configurations vary only when their part is in focus.   *)
EXTENDS PlanReads, Distiller, ActionBridge, CycleRestore, Records,
  MCToolPolicy, MCTeam

CONSTANTS f1, r1, r2, l1, l2, w1, w2, t1, s1, s2, a1, a2, q1, p1, p2, orchestrator

OneRoot == <<f1>>
OneTarget == [w \in {w1, w2} |-> t1]
OwnProject == [s \in {s1, s2} |-> IF s = s1 THEN p1 ELSE p2]

\* Two configurations of a project: one names an agent of both teams, on models of its own.
TreeNode(n, m, up) == [name |-> n, slug |-> n, role |-> n, model |-> m, up |-> up]
BothTeams == [hive |-> <<TreeNode("main", Unknown, 0), TreeNode("dev", "m", 1)>>,
              planning |-> <<TreeNode("dev", Unknown, 0)>>]
OneTeam == [hive |-> <<TreeNode("main", "m", 0)>>, planning |-> <<>>]
TwoPairs == {BothTeams, OneTeam}

VARIABLE focus

otherThanReads ==
  <<focus, distillVars, bridgeVars, cycleVars, spanVars, versionVars, verdictVars, policyVars, teamVars>>
otherThanDistiller ==
  <<focus, readVars, bridgeVars, cycleVars, spanVars, versionVars, verdictVars, policyVars, teamVars>>
otherThanBridge ==
  <<focus, readVars, distillVars, cycleVars, spanVars, versionVars, verdictVars, policyVars, teamVars>>
otherThanCycle ==
  <<focus, readVars, distillVars, bridgeVars, spanVars, versionVars, verdictVars, policyVars, teamVars>>
otherThanSpans ==
  <<focus, readVars, distillVars, bridgeVars, cycleVars, versionVars, verdictVars, policyVars, teamVars>>
otherThanVersions ==
  <<focus, readVars, distillVars, bridgeVars, cycleVars, spanVars, verdictVars, policyVars, teamVars>>
otherThanVerdicts ==
  <<focus, readVars, distillVars, bridgeVars, cycleVars, spanVars, versionVars, policyVars, teamVars>>
otherThanPolicy ==
  <<focus, readVars, distillVars, bridgeVars, cycleVars, spanVars, versionVars, verdictVars, teamVars>>
otherThanTeam ==
  <<focus, readVars, distillVars, bridgeVars, cycleVars, spanVars, versionVars, verdictVars, policyVars>>
hostVars == <<otherThanReads, readVars>>

\* A step of one part.
OfReads(A) == focus = "plan reads" /\ A /\ UNCHANGED otherThanReads
OfDistiller(A) == focus = "distiller" /\ A /\ UNCHANGED otherThanDistiller
OfBridge(A) == focus = "action bridge" /\ A /\ UNCHANGED otherThanBridge
OfCycle(A) == focus = "cycle restore" /\ A /\ UNCHANGED otherThanCycle
OfSpans(A) == focus = "spans" /\ A /\ UNCHANGED otherThanSpans
OfVersions(A) == focus = "versions" /\ A /\ UNCHANGED otherThanVersions
OfVerdicts(A) == focus = "verdicts" /\ A /\ UNCHANGED otherThanVerdicts
OfPolicy(A) == focus = "tool policy" /\ A /\ UNCHANGED otherThanPolicy
OfTeam(A) == focus = "team" /\ A /\ UNCHANGED otherThanTeam

ParkedCall == call = [tool |-> "lex", line |-> <<"x">>] /\ verdict = "none"
ParkedTeam == TeamInit /\ file = File(FALSE, {}, "none", "none", 0, "agents", "none", "tester", "reviewer")

ParkedVersions == VersionInit /\ versions = {}
ParkedVerdicts == VerdictInit /\ verdictRows = {}

HostInit ==
  /\ focus \in {"plan reads", "distiller", "action bridge", "cycle restore", "spans",
                "versions", "verdicts", "tool policy", "team"}
  /\ ReadInit /\ DistillInit /\ BridgeInit /\ CycleInit /\ SpanInit
  /\ IF focus = "versions" THEN VersionInit ELSE ParkedVersions
  /\ IF focus = "verdicts" THEN VerdictInit ELSE ParkedVerdicts
  /\ IF focus = "tool policy" THEN PolicyInit ELSE ParkedCall
  /\ IF focus = "team" THEN TeamInit ELSE ParkedTeam

HostNext ==
  \/ OfReads(ReadNext) \/ OfDistiller(DistillNext) \/ OfBridge(BridgeNext) \/ OfCycle(CycleNext)
  \/ OfSpans(SpanNext) \/ OfVersions(VersionNext) \/ OfVerdicts(VerdictNext)
  \/ OfPolicy(PolicyNext) \/ OfTeam(TeamNext)

\* ReadFairness, DistillFairness, BridgeFairness, CycleFairness and VersionFairness, of the
\* part in focus.  The focus stays, and the steps of the others are disabled, so that what
\* is fair to a disjunction of steps of several parts is fair to each of them.
Answer(r) == Walk(r) \/ Serve(r)
Load(l) == LoadSucceeds(l) \/ LoadFails(l)
Distil(c) == Launch(c) \/ Skip(c) \/ DistillMentalModel(c) \/ DistillerFails(c)
HostFairness ==
  /\ WF_hostVars(OfReads(Answer(r1)) \/ OfDistiller(Distil(<<t1, 1>>)) \/ OfBridge(Poll(s1))
                 \/ OfCycle(Turn \/ AgentSettled) \/ OfVersions(DaemonStep))
  /\ WF_hostVars(OfReads(Answer(r2)) \/ OfDistiller(Distil(<<t1, 2>>)) \/ OfBridge(Poll(s2)))
  /\ WF_hostVars(OfReads(Load(l1)))
  /\ WF_hostVars(OfReads(Load(l2)))

HostSpec == HostInit /\ [][HostNext]_hostVars /\ HostFairness

\* What is begun in the background comes to its end: a plan request is answered, the
\* chain of distillations drains, an action of the dashboard is read, the restore of a
\* cycle is taken up, and the last snapshot of a session is shown.
TasksEnd == RequestsEnd /\ QueuesDrain /\ ActionsArrive /\ RestoreTakenUp /\ SnapshotsArrive
=============================================================================
