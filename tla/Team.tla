-------------------------------- MODULE Team --------------------------------
(* From hive-config.yaml to who may delegate to whom: a configuration is read,
   enriched from the prompt files of its agents and validated (core/config.ts,
   core/schema.ts); the team of the mode becomes runtimes with the reports each
   may delegate to (engine/session.ts); dispatch and routing ask canDelegateTo.

   A configuration is a forest numbered in the order of the file, which is that of a
   walk, the main agents and the top-level agents at its roots.  Of an agent: its team, the list of its
   parent it is in, its name (in lower case), the slug and the type its YAML node and its prompt
   file declare, delegateStrict, and allowedAgents, a list of names and slugs that
   is kept from the YAML though what the tree derives is to replace it. *)
EXTENDS Ranks, Sequences, SequencesExt, FiniteSetsExt

CONSTANTS
  Configurations,       \* the configurations an operator may write
  SlugOf,      \* a function from the names to the slugs they stand for
  MaxConfigEdits, \* bound on the edits of the configuration
  Absent       \* what is not declared

VARIABLES
  file,        \* hive-config.yaml and the prompt files
  configEdits,
  written,     \* history: what file was
  config,      \* state.config: the enriched configuration the session loaded
  teamMode,    \* state.mode
  runtimes     \* state.runtimes, by the key of the agent
teamVars == <<file, configEdits, written, config, teamMode, runtimes>>

Types == {"planner", "coder", "tester", "reviewer", "lead", "operations"}
Declared(a, b) == IF a # Absent THEN a ELSE b

\* An agent and the agents above it: what every set has that has the agent and, with
\* an agent, the one it is below.
Above(c, i) ==
  {j \in DOMAIN c : \A S \in SUBSET DOMAIN c :
     i \in S /\ (\A k \in S : c[k].up \in S \cup {0}) => j \in S}

IsForest(c) ==
  /\ c \in Seq(Range(c))
  /\ \A i \in DOMAIN c :
       /\ c[i].list \in {"main", "agents", "members", "children"}
       /\ c[i].up = 0 <=> c[i].list \in {"main", "agents"}
       /\ c[i].up # 0 => /\ c[i].up \in 1 .. i - 1 /\ c[i].up \in Above(c, i - 1)
                         /\ c[c[i].up].team = c[i].team /\ c[c[i].up].list # "main"
  /\ \A team \in {"hive", "planning"} :
       \E i \in DOMAIN c : /\ c[i].team = team /\ c[i].list = "main"
                           /\ \A j \in DOMAIN c : c[j].team = team /\ j # i =>
                                                    j > i /\ c[j].list # "main"
ASSUME TeamAssumption ==
  /\ \A c \in Configurations : IsForest(c)
  /\ Absent \notin {"orchestrator", "lead", "member"}

-----------------------------------------------------------------------------
(* Loading a configuration *)

\* configuredChildAgents: the members of an agent and its other children.
ChildNodes(c, i) == {j \in DOMAIN c : c[j].up = i}
TopLevel(c, team) == {j \in DOMAIN c : c[j].team = team /\ c[j].list = "agents"}
MainOf(c, team) == CHOOSE j \in DOMAIN c : c[j].team = team /\ c[j].list = "main"

\* The raw validation keys an agent before its prompt file is read.
RawKey(c, i) == Declared(c[i].yaml, SlugOf[c[i].name])
RawIsValid(c) == \A i, j \in DOMAIN c : RawKey(c, i) = RawKey(c, j) => i = j

\* enrichFromFrontmatter goes into members || children of what it reaches.
IsEnriched(c, i) ==
  \A j \in Above(c, i) : \/ c[j].up = 0 \/ c[j].list = "members"
                         \/ \A k \in ChildNodes(c, c[j].up) : c[k].list = "children"
AgentConfig(c, i) ==
  [name |-> c[i].name, team |-> c[i].team, up |-> c[i].up, list |-> c[i].list,
   strict |-> c[i].strict, allowed |-> c[i].allowed,
   slug |-> IF IsEnriched(c, i)
            THEN Declared(c[i].yaml, Declared(c[i].mdSlug, SlugOf[c[i].name]))
            ELSE RawKey(c, i),
   type |-> IF IsEnriched(c, i) THEN Declared(c[i].type, c[i].mdType) ELSE c[i].type]
Enriched(c) == [i \in DOMAIN c |-> AgentConfig(c, i)]

\* validateHiveConfigShape and validateAgentTypes, of both teams: the keys seen start
\* with the name of the main agent.
ShapeIsValid(c) ==
  /\ \A i, j \in DOMAIN c : /\ c[i].team = c[j].team /\ c[i].slug = c[j].slug
                            /\ "main" \notin {c[i].list, c[j].list}
                           => i = j
  /\ \A i \in DOMAIN c : c[i].list # "main" => c[i].slug # c[MainOf(c, c[i].team)].name
  /\ \A i \in DOMAIN c : c[i].type \in Types
IsValid(c) == RawIsValid(c) /\ ShapeIsValid(Enriched(c))

-----------------------------------------------------------------------------
(* The runtimes of a team *)

(* allConfiguredAgents: the reports of an agent, and its role, from its place in the tree. *)

\* Mutant: of an agent with members, the children are forgotten.
AllowedAgents_MembersFirst(c, i) ==
  {c[j].slug : j \in
     IF c[i].list = "main" THEN TopLevel(c, c[i].team)
     ELSE IF \E j \in ChildNodes(c, i) : c[j].list = "members"
     THEN {j \in ChildNodes(c, i) : c[j].list = "members"} ELSE ChildNodes(c, i)}

AllowedAgents(c, i) ==
  {c[j].slug : j \in IF c[i].list = "main" THEN TopLevel(c, c[i].team) ELSE ChildNodes(c, i)}

RoleOf(c, i) == CASE c[i].list = "main" -> "orchestrator"
                  [] c[i].list = "agents" \/ ChildNodes(c, i) # {} -> "lead"
                  [] OTHER -> "member"

\* An agent whose key was seen is left out, with the agents below it.
IsVisited(c, i) ==
  \/ c[i].list = "main"
  \/ \A j \in Above(c, i) : c[j].slug # c[MainOf(c, c[i].team)].slug

\* loadAgentRuntime reads the prompt file again, and what it says comes first.
LoadAgentRuntime(c, disk, i, role, allowed) ==
  [slug |-> Declared(disk[i].mdSlug, c[i].slug), name |-> c[i].name,
   type |-> Declared(disk[i].mdType, c[i].type), strict |-> c[i].strict,
   role |-> role, allowed |-> allowed]

TeamForMode(m) == IF m = "plan" THEN "planning" ELSE "hive"
ActivateTeamRuntimes(c, disk, m) ==
  LET agents == {i \in DOMAIN c : c[i].team = TeamForMode(m) /\ IsVisited(c, i)}
      loaded == [i \in agents |->
                  LoadAgentRuntime(c, disk, i, RoleOf(c, i), AllowedAgents(c, i))]
  IN  [s \in {loaded[i].slug : i \in agents} |->
        loaded[Max({i \in agents : loaded[i].slug = s})]]

-----------------------------------------------------------------------------
(* Who may delegate to whom *)

AgentMatches(agent, id) == id \in {agent.slug, agent.name}
IsReport(caller, target) ==
  \E id \in caller.allowed : AgentMatches(target, id)
CanDelegateTo(caller, target, isReadOnly) ==
  \/ IsReport(caller, target)
  \/ /\ ~caller.strict
     /\ target.type \in {"coder", "tester", "reviewer", "planner"}
     /\ isReadOnly

\* preflightCheck of dispatch, and routeAgents, which is to foresee it; "gate" is whether
\* the gate of the active change is open, "pending" whether an artifact of it waits for
\* the human (module Approvals).
PreflightCheck(caller, target, isReadOnly, gate, pending) ==
  /\ teamMode = "plan" => target.type \in {"planner", "lead", "reviewer"}
  /\ teamMode = "plan" /\ pending => target.type # "planner"
  /\ teamMode = "hive" /\ target.type \in {"coder", "tester"} => gate
  /\ CanDelegateTo(caller, target, isReadOnly)

RouteAgents(caller, gate) ==
  {t \in {runtimes[k] : k \in DOMAIN runtimes} :
     /\ t.role # "orchestrator"
     /\ teamMode = "plan" => t.type \in {"planner", "lead", "reviewer"}
     /\ teamMode = "hive" /\ t.type \in {"coder", "tester"} => gate
     /\ CanDelegateTo(caller, t, TRUE)}

-----------------------------------------------------------------------------
(* What the dashboard is told: the tree of a team as rows in the order of a walk, each
   with the row of its parent (core/topology.ts, observability/server/topology-hash.ts). *)

TreeNodes(c, team) == {i \in DOMAIN c : c[i].team = team}
Place(nodes, i) == Cardinality({j \in nodes : j < i}) + 1

\* The root of a team has no parent and is the parent of the agents at the top.
ParentRow(c, nodes, i) ==
  CASE c[i].list = "main"   -> 0
    [] c[i].list = "agents" -> Place(nodes, MainOf(c, c[i].team))
    [] OTHER                -> Place(nodes, c[i].up)
ExplodeTeam(c, team) ==
  LET nodes == TreeNodes(c, team) IN
  [r \in 1 .. Cardinality(nodes) |->
     [parent |-> ParentRow(c, nodes, Nth(nodes, r)), slug |-> c[Nth(nodes, r)].slug]]

-----------------------------------------------------------------------------
(* The operator writes the files; a session loads them when it starts. *)

\* The agents of two configurations are the same, and called the same.
SameAgents(f, g) ==
  /\ DOMAIN f = DOMAIN g
  /\ \A i \in DOMAIN f : <<f[i].name, f[i].yaml, f[i].mdSlug>> = <<g[i].name, g[i].yaml, g[i].mdSlug>>

\* Bounds: MaxConfigEdits; and names and slugs stay, for a runtime whose slug changed in its
\* prompt file since the session started no longer is the agent that the configuration means.
EditConfig(f) ==
  /\ configEdits < MaxConfigEdits
  /\ SameAgents(f, file)
  /\ file' = f
  /\ configEdits' = configEdits + 1
  /\ written' = written \cup {f}
  /\ UNCHANGED <<config, teamMode, runtimes>>

\* session_start; a configuration that is rejected leaves the session without a team.
ReloadTeam ==
  /\ IsValid(file)
  /\ config' = Enriched(file)
  /\ runtimes' = ActivateTeamRuntimes(config', file, teamMode)
  /\ UNCHANGED <<file, configEdits, written, teamMode>>

ActivateMode(m) ==
  /\ config # <<>>
  /\ teamMode' = m
  /\ runtimes' = ActivateTeamRuntimes(config, file, m)
  /\ UNCHANGED <<file, configEdits, written, config>>

\* reloadAgentConfig, by hive_reload_agent_config: the agent is looked for at the top
\* of both teams, and is rebuilt from what the file says, without a place in the tree:
\* nothing is derived, and the allowedAgents of the YAML are its reports.
ReloadAgentConfig(k) ==
  LET fresh == Enriched(file)
      found == {i \in DOMAIN file : /\ file[i].up = 0
                                    /\ AgentMatches(fresh[i], runtimes[k].name)
                                       \/ fresh[i].slug = runtimes[k].slug}
  IN  /\ IsValid(file)
      /\ found # {}
      /\ runtimes' = [runtimes EXCEPT ![k] =
                        LoadAgentRuntime(fresh, file, Min(found), Absent,
                                         fresh[Min(found)].allowed)]
      /\ UNCHANGED <<file, configEdits, written, config, teamMode>>

TeamInit ==
  /\ file \in Configurations
  /\ configEdits = 0
  /\ written = {file}
  /\ config = <<>>
  /\ teamMode = "normal"
  /\ runtimes = <<>>
TeamNext ==
  \/ \E f \in Configurations : EditConfig(f)
  \/ ReloadTeam
  \/ \E m \in {"normal", "plan", "hive"} : ActivateMode(m)
  \/ \E k \in DOMAIN runtimes : ReloadAgentConfig(k)

-----------------------------------------------------------------------------
(* What the permissions promise *)

InTree(r) == r.role # Absent
ShownUnder(rows, c, t) ==
  \E i \in DOMAIN rows : /\ rows[i].slug = t.slug
                        /\ rows[i].parent # 0
                        /\ rows[rows[i].parent].slug = c.slug

(* The tree the dashboard shows is the one dispatch enforces: as long as nobody was
   reloaded, a delegation that writes is allowed
   to exactly the agents shown below the caller. *)
TreeDelegation ==
  config # <<>> =>
    LET rows == ExplodeTeam(config, TeamForMode(teamMode)) IN
    \A k, l \in DOMAIN runtimes :
      InTree(runtimes[k]) /\ InTree(runtimes[l]) =>
        (CanDelegateTo(runtimes[k], runtimes[l], FALSE)
           <=> ShownUnder(rows, runtimes[k], runtimes[l]))

\* The allowedAgents of an agent at the top of a team, in some file there was.
RuntimeSlug(c, i) == Declared(c[i].mdSlug, AgentConfig(c, i).slug)
WrittenFor(r, id) ==
  \E f \in written : \E i \in DOMAIN f :
    /\ f[i].up = 0 /\ f[i].name = r.name /\ RuntimeSlug(f, i) = r.slug
    /\ id \in f[i].allowed

(* Who has a place in the tree has no report but those the dashboard shows below it, who was
   reloaded none but those its own entry in hive-config.yaml lists: reloads, edits and changes
   of mode give nobody the reports of another agent or team, or of another place. *)
ReportsAreGranted ==
  config # <<>> =>
    LET rows == ExplodeTeam(config, TeamForMode(teamMode)) IN
    \A k, l \in DOMAIN runtimes :
      IsReport(runtimes[k], runtimes[l]) =>
        \/ InTree(runtimes[k]) /\ ShownUnder(rows, runtimes[k], runtimes[l])
        \/ /\ ~InTree(runtimes[k])
           /\ \E id \in runtimes[k].allowed :
                AgentMatches(runtimes[l], id) /\ WrittenFor(runtimes[k], id)

(* hive_route recommends nobody that dispatch would then turn away, save a planner
   while an artifact waits for the human. *)
RoutingIsAdmitted ==
  \A k \in DOMAIN runtimes, gate, pending \in BOOLEAN :
    \A t \in RouteAgents(runtimes[k], gate) :
      PreflightCheck(runtimes[k], t, TRUE, gate, pending) \/ (pending /\ t.type = "planner")

(* Permissions are what is shown, or listed for a reload, and are foreseen. *)
TeamIsSound == TreeDelegation /\ ReportsAreGranted /\ RoutingIsAdmitted

(* What a configuration needs for that in general: a slug is not the name of another agent, and
   where the slugs of a runtime and of its configuration differ, the agent has no
   reports and the slug is nobody's. *)
IsClear(c) ==
  \A i \in DOMAIN c :
    /\ \A j \in DOMAIN c : AgentConfig(c, j).slug = c[i].name => AgentConfig(c, j).slug = RuntimeSlug(c, i)
    /\ RuntimeSlug(c, i) # AgentConfig(c, i).slug =>
         /\ c[i].list # "main" /\ ChildNodes(c, i) = {}
         /\ \A j \in DOMAIN c : AgentConfig(c, j).slug # RuntimeSlug(c, i)

SlugsAreClear == \A c \in Configurations : IsValid(c) => IsClear(c)
=============================================================================
