------------------------------ MODULE Versions ------------------------------
(* The teams a session ran under, as the daemon remembers them.  A session writes
   hive-state.json (engine/observability.ts); the daemon notices a new modification
   time, reads the file, files the teams under the hash of their configuration, fills
   in the thinking levels of their models and stores the snapshot without its teams
   (observability/server/runtime.ts, db.ts); a daemon that starts again puts the teams
   back from the rows.

   The two teams of a project are lists of nodes in the order of the walk, each with
   the position of its parent. *)
EXTENDS Ranks, Sequences, SequencesExt, FiniteSetsExt

CONSTANTS
  Writers,       \* the sessions
  TeamPairs,     \* what a project may configure: [hive |-> nodes, planning |-> nodes]
  Levels,        \* thinking levels a model may have
  MaxWrites,     \* bound on the snapshots and the reports that sessions write
  MaxRestarts,   \* bound on the ends of the daemon
  Unknown        \* what is not there

VARIABLES
  stateFile,     \* by session: hive-state.json
  stamp,         \* the modification time of the last write
  reports,       \* the levels of models that sessions logged, in the order of time
  ingested,      \* those the daemon has ingested
  daemonUp, restarts,
  seenStamp,     \* source.stateMtimeMs
  hand,          \* the snapshot the daemon is working on
  versions,      \* topology_versions: the hashes
  nodeRows,      \* topology_nodes
  modelRows,     \* model_versions
  stateRows,     \* states, by session
  stamped,       \* sessions.topology_hash
  hot,           \* snapshots, the cache of the daemon
  taken          \* (of the specification) the snapshot each row was made of
versionVars == <<stateFile, stamp, reports, ingested, daemonUp, restarts, seenStamp, hand,
                 versions, nodeRows, modelRows, stateRows, stamped, hot, taken>>

Teams == {"hive", "planning"}

ASSUME VersionsAssumption ==
  /\ \A pair \in TeamPairs :
       DOMAIN pair = Teams /\ \A k \in Teams : pair[k] \in Seq(Range(pair[k]))
  /\ Unknown \notin Teams /\ Unknown \notin TeamPairs

-----------------------------------------------------------------------------
(* Hashes and rows *)

\* canonicalNode: neither the slug of an agent nor the levels of its model.
CanonicalNode(n) == [name |-> n.name, role |-> n.role, model |-> n.model, up |-> n.up]
TopologyHash(pair) == [k \in Teams |-> [i \in DOMAIN pair[k] |-> CanonicalNode(pair[k][i])]]

TopologyNodeRows(pair) ==
  {[hash |-> TopologyHash(pair), team |-> at[1], id |-> at[2], parent |-> pair[at[1]][at[2]].up,
    name |-> pair[at[1]][at[2]].name, model |-> pair[at[1]][at[2]].model, levels |-> Unknown]
   : at \in UNION {{k} \X DOMAIN pair[k] : k \in Teams}}
NodesOf(rows, h) == {r \in rows : r.hash = h}

\* upsertTopologyVersion explodes the teams unless there are as many rows as nodes; a row
\* that is there stays as it is.
Exploded(rows, pair) ==
  LET own == NodesOf(rows, TopologyHash(pair))
      new == TopologyNodeRows(pair)
  IN  IF Cardinality(own) = Cardinality(new) THEN rows
      ELSE rows \cup {n \in new : ~\E r \in own : r.team = n.team /\ r.id = n.id}

\* fillNodeThinkingLevels, for each name of a table.
Filled(rows, h, table) ==
  {IF r.hash = h /\ r.levels = Unknown /\ r.name \in DOMAIN table
   THEN [r EXCEPT !.levels = table[r.name]] ELSE r : r \in rows}

\* listModels: of a model the row that was seen last; its levels may be unknown.
ModelRow(m) ==
  LET own == {r \in modelRows : r.model = m} IN
  IF own = {} THEN Unknown
  ELSE (CHOOSE r \in own : \A other \in own : other.last <= r.last).levels

Before(a, b) == (a.team = "hive" /\ b.team = "planning") \/ (a.team = b.team /\ a.id < b.id)

\* The levels that workers of the session have, then those of the models of the others;
\* of several nodes of a name the first one decides.
WithLevels(rows, h, snapshot) ==
  LET known == {name \in DOMAIN snapshot.levels : snapshot.levels[name] # Unknown}
      probed == Filled(rows, h, [name \in known |-> snapshot.levels[name]])
      lacking == {r \in NodesOf(probed, h) : r.levels = Unknown /\ ModelRow(r.model) # Unknown}
      first(name) == CHOOSE r \in lacking :
        r.name = name /\ \A q \in lacking : q.name = name => q = r \/ Before(r, q)
  IN  Filled(probed, h, [name \in {r.name : r \in lacking} |-> ModelRow(first(name).model)])

\* topologyDetail and rehydrateSnapshotTopology: neither roles nor slugs come back, and of
\* a row without a team in force the team is guessed.
BuildTeam(rows, k) ==
  LET own == {r \in rows : r.team = k} IN
  [i \in 1..Cardinality(own) |->
     LET r == CHOOSE r \in own : r.id = Nth({q.id : q \in own}, i) IN
     [name |-> r.name, slug |-> Unknown, role |-> Unknown, model |-> r.model, up |-> r.parent]]
Rehydrated(rows, row) ==
  LET pair == [k \in Teams |-> BuildTeam(NodesOf(rows, row.hash), k)] IN
  [row EXCEPT !.pair = pair,
              !.active = IF row.active # Unknown THEN row.active
                         ELSE IF pair["hive"] # <<>> THEN "hive" ELSE "planning"]

-----------------------------------------------------------------------------
(* The sessions *)

\* A worker that has run knows the levels its model had when it started.
Probe(m) ==
  LET own == {i \in DOMAIN reports : reports[i].model = m} IN
  IF own = {} THEN Unknown ELSE reports[Max(own)].levels
AgentLevels(nodes, ran) ==
  [name \in {nodes[i].name : i \in DOMAIN nodes} |->
     IF ran THEN Probe(nodes[CHOOSE i \in DOMAIN nodes : nodes[i].name = name].model) ELSE Unknown]

\* writeHiveStateSnapshot, with the configuration of the day and the team of the mode.
WriteSnapshot(w, pair, k, ran) ==
  /\ stamp + Len(reports) < MaxWrites
  /\ pair[k] # <<>>
  /\ stamp' = stamp + 1
  /\ stateFile' = [stateFile EXCEPT ![w] =
       [n |-> stamp + 1, pair |-> pair, hash |-> Unknown, active |-> k,
        levels |-> AgentLevels(pair[k], ran)]]
  /\ UNCHANGED <<reports, ingested, daemonUp, restarts, seenStamp, hand, versions, nodeRows,
                 modelRows, stateRows, stamped, hot, taken>>

\* emitModelCatalog, which knows no levels of a model the registry lacks, and the start of
\* a delegation.
ReportModel(w, m, levels) ==
  /\ stamp + Len(reports) < MaxWrites
  /\ reports' = Append(reports, [by |-> w, model |-> m, levels |-> levels])
  /\ UNCHANGED <<stateFile, stamp, ingested, daemonUp, restarts, seenStamp, hand, versions,
                 nodeRows, modelRows, stateRows, stamped, hot, taken>>

-----------------------------------------------------------------------------
(* The daemon *)

Busy == hand # Unknown

Models == UNION {{pair[k][i].model : i \in DOMAIN pair[k]} : pair \in TeamPairs, k \in Teams} \ {Unknown}

\* Mutant: the row that comes in last is the one seen last.
UpsertModel_Arrival(rows, m, levels, at) ==
  {r \in rows : r.model # m} \cup {[model |-> m, levels |-> levels, last |-> at]}

\* upsertModel: one row for what a model can do, seen last at the latest of the times.
UpsertModel(rows, m, levels, at) ==
  LET same == {r \in rows : r.model = m /\ r.levels = levels} IN
  (rows \ same) \cup {[model |-> m, levels |-> levels, last |-> Max({at} \cup {r.last : r \in same})]}

\* The log of a session is ingested in order.
IngestReport(i) ==
  /\ daemonUp /\ ~Busy
  /\ i \in DOMAIN reports \ ingested
  /\ \A j \in DOMAIN reports : j < i /\ reports[j].by = reports[i].by => j \in ingested
  /\ ingested' = ingested \cup {i}
  /\ modelRows' = UpsertModel(modelRows, reports[i].model, reports[i].levels, i)
  /\ UNCHANGED <<stateFile, stamp, reports, daemonUp, restarts, seenStamp, hand, versions,
                 nodeRows, stateRows, stamped, hot, taken>>

\* readState looks at the modification time and then reads the file.
ReadState(w) ==
  /\ daemonUp /\ ~Busy
  /\ stateFile[w] # Unknown /\ stateFile[w].n > seenStamp[w]
  /\ seenStamp' = [seenStamp EXCEPT ![w] = stateFile[w].n]
  /\ hand' = [step |-> "read", session |-> w, snapshot |-> Unknown]
  /\ UNCHANGED <<stateFile, stamp, reports, ingested, daemonUp, restarts, versions, nodeRows,
                 modelRows, stateRows, stamped, hot, taken>>

\* addSnapshot begins with versionTopology: the version with its rows is one transaction.
VersionTopology ==
  /\ Busy /\ hand.step = "read"
  /\ hand' = [hand EXCEPT !.step = "store", !.snapshot = stateFile[hand.session]]
  /\ versions' = versions \cup {TopologyHash(hand'.snapshot.pair)}
  /\ nodeRows' = Exploded(nodeRows, hand'.snapshot.pair)
  /\ UNCHANGED <<stateFile, stamp, reports, ingested, daemonUp, restarts, seenStamp, modelRows,
                 stateRows, stamped, hot, taken>>

\* It fills in the levels, then stores the row and the stamp of the session at once.
Slim(snapshot) == [snapshot EXCEPT !.pair = Unknown, !.hash = TopologyHash(snapshot.pair)]
AddSnapshot ==
  /\ Busy /\ hand.step = "store"
  /\ nodeRows' = WithLevels(nodeRows, TopologyHash(hand.snapshot.pair), hand.snapshot)
  /\ stateRows' = [stateRows EXCEPT ![hand.session] = Slim(hand.snapshot)]
  /\ stamped' = [stamped EXCEPT ![hand.session] = TopologyHash(hand.snapshot.pair)]
  /\ hot' = [hot EXCEPT ![hand.session] = hand.snapshot]
  /\ taken' = [taken EXCEPT ![hand.session] = hand.snapshot]
  /\ hand' = Unknown
  /\ UNCHANGED <<stateFile, stamp, reports, ingested, daemonUp, restarts, seenStamp, versions,
                 modelRows>>

\* The daemon ends in the midst of it all.
StopDaemon ==
  /\ daemonUp /\ restarts < MaxRestarts
  /\ daemonUp' = FALSE
  /\ restarts' = restarts + 1
  /\ seenStamp' = [w \in Writers |-> 0]
  /\ hand' = Unknown
  /\ hot' = [w \in Writers |-> Unknown]
  /\ UNCHANGED <<stateFile, stamp, reports, ingested, versions, nodeRows, modelRows, stateRows,
                 stamped, taken>>

\* resumeIngestSources, then backfillTopologies of the rows that still hold their teams,
\* which keeps the hash and not the team in force.
Embedded == {w \in Writers : stateRows[w] # Unknown /\ stateRows[w].pair # Unknown}
StartDaemon ==
  /\ ~daemonUp
  /\ daemonUp' = TRUE
  /\ hot' = [w \in Writers |->
       IF stateRows[w] = Unknown \/ w \in Embedded THEN stateRows[w]
       ELSE Rehydrated(nodeRows, stateRows[w])]
  /\ hand' = IF Embedded = {} THEN Unknown
             ELSE [step |-> "backfill", session |-> Unknown, snapshot |-> Unknown]
  /\ UNCHANGED <<stateFile, stamp, reports, ingested, restarts, seenStamp, versions, nodeRows,
                 modelRows, stateRows, stamped, taken>>
BackfillTopologies(w) ==
  /\ Busy /\ hand.step = "backfill" /\ w \in Embedded
  /\ versions' = versions \cup {TopologyHash(stateRows[w].pair)}
  /\ nodeRows' = Exploded(nodeRows, stateRows[w].pair)
  /\ stamped' = [stamped EXCEPT ![w] = TopologyHash(stateRows[w].pair)]
  /\ stateRows' = [stateRows EXCEPT ![w] = [Slim(@) EXCEPT !.active = Unknown]]
  /\ hot' = [hot EXCEPT ![w] = Rehydrated(nodeRows', stateRows'[w])]
  /\ hand' = IF Embedded = {w} THEN Unknown ELSE hand
  /\ UNCHANGED <<stateFile, stamp, reports, ingested, daemonUp, restarts, seenStamp, modelRows,
                 taken>>

\* A database of an earlier release may hold a row with its teams, and a version whose
\* nodes were not all written.
OldRow(pair) ==
  [n |-> 0, pair |-> pair, hash |-> Unknown, active |-> "planning",
   levels |-> [name \in {} |-> Unknown]]
VersionInit ==
  /\ stateFile = [w \in Writers |-> Unknown] /\ stamp = 0
  /\ reports = <<>> /\ ingested = {} /\ modelRows = {}
  /\ daemonUp = FALSE /\ restarts = 0 /\ hand = Unknown
  /\ seenStamp = [w \in Writers |-> 0]
  /\ hot = [w \in Writers |-> Unknown]
  /\ stamped = [w \in Writers |-> Unknown]
  /\ \/ versions = {} /\ nodeRows = {} /\ stateRows = [w \in Writers |-> Unknown]
     \/ \E w \in Writers, pair \in TeamPairs :
          /\ versions = {TopologyHash(pair)}
          /\ nodeRows = {r \in TopologyNodeRows(pair) : r.id = 1}
          /\ stateRows = [v \in Writers |-> IF v = w THEN OldRow(pair) ELSE Unknown]
  /\ taken = stateRows

DaemonStep ==
  \/ StartDaemon
  \/ \E w \in Writers : ReadState(w) \/ BackfillTopologies(w)
  \/ VersionTopology \/ AddSnapshot
VersionNext ==
  \/ \E w \in Writers, pair \in TeamPairs, k \in Teams, ran \in BOOLEAN :
       WriteSnapshot(w, pair, k, ran)
  \/ \E w \in Writers, m \in Models, levels \in Levels \cup {Unknown} : ReportModel(w, m, levels)
  \/ \E i \in DOMAIN reports : IngestReport(i)
  \/ DaemonStep \/ StopDaemon

\* Sessions start a daemon that is gone; it looks at every file twice a second.
VersionFairness == WF_versionVars(DaemonStep)
VersionSpec == VersionInit /\ [][VersionNext]_versionVars /\ VersionFairness

-----------------------------------------------------------------------------
(* What the versions promise *)

Complete(h) ==
  /\ h \in versions
  /\ \A k \in Teams : {r.id : r \in {r \in NodesOf(nodeRows, h) : r.team = k}} = DOMAIN h[k]

(* What a session or its row refers to is there, with every node, whenever the daemon
   ends and whatever an earlier release left. *)
HashesResolve ==
  \A w \in Writers :
    /\ stamped[w] # Unknown => Complete(stamped[w])
    /\ stateRows[w] # Unknown /\ stateRows[w].pair = Unknown =>
         Complete(stateRows[w].hash) /\ stamped[w] = stateRows[w].hash

(* The dashboard shows a session with the teams and the team in force of its own last
   snapshot, though others share the hash, the configuration went on and the daemon
   started again; only of a row of an earlier release the team in force is a guess. *)
Shown(pair) ==
  [k \in Teams |-> [i \in DOMAIN pair[k] |->
     [name |-> pair[k][i].name, model |-> pair[k][i].model, up |-> pair[k][i].up]]]
TeamsAsRun ==
  \A w \in Writers :
    hot[w] # Unknown =>
      /\ Shown(hot[w].pair) = Shown(taken[w].pair)
      /\ taken[w].n > 0 => hot[w].active = taken[w].active

(* The levels of a node were reported for the model of an agent of its name. *)
LevelsWereReported ==
  \A r \in nodeRows :
    r.levels # Unknown =>
      \E i \in DOMAIN reports :
        /\ reports[i].levels = r.levels
        /\ \E q \in NodesOf(nodeRows, r.hash) : q.name = r.name /\ q.model = reports[i].model

(* What the models page shows is what was reported last, in whatever order the logs of
   the sessions came in. *)
ModelsAreLatest ==
  \A m \in Models :
    LET own == {i \in ingested : reports[i].model = m} IN
    ModelRow(m) = IF own = {} THEN Unknown ELSE reports[Max(own)].levels

VersionsAreTrue == HashesResolve /\ TeamsAsRun /\ LevelsWereReported /\ ModelsAreLatest

(* The dashboard comes to show the last snapshot of every session. *)
SnapshotsArrive ==
  \A w \in Writers :
    <>[](stateFile[w] # Unknown => hot[w] # Unknown /\ hot[w].n = stateFile[w].n)
=============================================================================
