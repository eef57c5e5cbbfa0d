------------------------------- MODULE MCTeam -------------------------------
(* The instance of Team for TLC: sixteen configurations of a planning team and    *)
(* of a hive team.                                                                *)
EXTENDS Team, TLC

Node(team, up, list, name, yaml, mdSlug, type, mdType, strict, allowed) ==
  [team |-> team, up |-> up, list |-> list, name |-> name, yaml |-> yaml,
   mdSlug |-> mdSlug, type |-> type, mdType |-> mdType, strict |-> strict,
   allowed |-> allowed]

\* The hive team is a main agent, a lead, and two agents below or beside the lead, which
\* may carry a list of its reports.
File(strict, allowed, yaml, mdSlug, parent, list, type, mdType, reviewer) ==
  <<Node("hive", 0, "main", "hive main", "none", "none", "none", "lead", FALSE, {}),
    Node("hive", 0, "agents", "lead", "none", "none", "none", "lead", strict, allowed),
    Node("hive", 2, "members", "back coder", yaml, mdSlug, "none", "coder", FALSE, {}),
    Node("hive", parent, list, "second", "none", "none", type, mdType, FALSE, {}),
    Node("planning", 0, "main", "planner", "none", "none", "none", "planner", FALSE, {}),
    Node("planning", 0, "agents", "reviewer", "none", "none", "none", reviewer, FALSE, {})>>

TeamFiles ==
  {File(FALSE, ids, "none", "none", p[1], p[2], "none", "tester", "reviewer") :
     ids \in {{}, {"second"}}, p \in {<<0, "agents">>, <<2, "members">>, <<3, "children">>}}
  \cup {File(TRUE, {}, y, d, 2, "children", t, "lead", "coder") :
          y \in {"none", "c1"}, d \in {"none", "c2"}, t \in {"tester", "none"}}
  \cup {File(TRUE, {}, "none", d, 3, "members", "tester", "tester", "reviewer") :
          d \in {"second", "hive-main"}}

Slugs == ("hive main" :> "hive-main") @@ ("back coder" :> "back-coder")
         @@ [n \in {"lead", "second", "planner", "reviewer"} |-> n]

\* What the theorem about teams supposes of configurations.
ASSUME ClearTeams == SlugsAreClear
=============================================================================
