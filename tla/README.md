# Verification of pi-hive in TLA+

pi-hive runs a team of coding agents inside a Pi session. A visible session
(the orchestrator) delegates tasks to workers with the tool `delegate_agent`;
workers delegate further down a configured tree. A dashboard process shows
what happens and sends operator commands back. This directory models that
program, from its source, as TLA+ modules; TLC checks them on small instances
and TLAPS proves part of them for every instance.

Paths below are relative to the repository, except that `engine/...`,
`integration/...` and the like stand for `src/engine/...`.

Contents: [inventory](#inventory), [plan](#plan), [modules](#modules-and-code),
[runs](#runs), [bounds](#bounds), [fairness](#fairness), [proofs](#proofs),
[disagreements](#disagreements-between-code-and-documentation),
[not modelled](#what-is-not-modelled).

## Inventory

The host (the Pi process) is one JavaScript event loop: what runs between two
awaits is atomic, everything else interleaves. All components of the host share
one mutable object, `HiveState` (`engine/state.ts`). The dashboard daemon and
other Pi sessions are processes of their own and meet the host through files,
a SQLite database and HTTP.

| Component | State | Operations | Interacts with | What is hard | Correct when |
|---|---|---|---|---|---|
| Run slots and queue (`engine/worker-queue.ts`, `worker-lifecycle.ts`) | `activeRuns`, `workerQueue`, a promise per call | acquire, release with hand-over, abort of a waiter, cancel all | called by dispatch; read by the drain guard; cancelled at shutdown | abort against hand-over, cap and queue at their limit | the counter is the number of holders, waiters are served in order and in the end |
| Dispatch (`engine/dispatch.ts`, `dispatch-lifecycle.ts`, `dispatch-end.ts`) | runtime status and session, worker handle, override stack in `activeOverrides`, abort flags | `dispatchAgent`, its exits, timeout, abort cascade | slots, worker sessions, handle map, telemetry | thirteen ways out, awaits between check and use, nested and parallel calls | slots come back, one run per worker, status tells the truth, overrides end with their call, every call returns |
| Session and mode (`engine/session.ts`, `integration/hooks.ts`, `ui/tui/widget.ts`) | `mode`, `runtimes`, `shuttingDown` | mode switch, session start and shutdown, team activation | sweeps over dispatch's sessions, starts and stops pickup and dashboard | sweeps racing delegations in preparation, failure path of the start | no team is swapped and no enforcement lifted under a worker |
| Operator commands (`integration/operator-pickup.ts`, `auto-wake.ts`, `engine/budget/operator-command-queue.ts`) | JSONL pickup file, poll timer, in-flight wakes | append, drain, wake, release | dashboard appends; commands act on worker handles | overlapping drains, crash between invoke and unlink, shared wakes | a row is answered, once per process and in order; wakes are shared and transient |
| Worker handles and end-of-life commands (`engine/budget/worker-tools.ts`) | handle map, open sessions | end, compact, pause, resume, force-kill, force-end, respawn, tear-down-all, snapshot, restore | called by drains and by slash commands; handles come from dispatch and wakes | handle read before an await and used after it | no handle names a disposed session |
| Budget (`engine/budget/ledger.ts`, `policy.ts`, `events.ts`, `strategy.ts`) | ledger per worker, warned keys, abort controller | accumulate a message, evaluate caps, write and restore entries | hooks of a worker session; commands install them again | double installation, restore from partial entries, team totals | usage is counted once, warned about once, exhaustion blocks |
| OpenSpec artifacts and approvals (`engine/openspec.ts`, `openspec-approvals.ts`, `shared/openspec-artifacts.ts`) | verdicts bound to content hashes in a file | record, invalidate downstream, derive gates | reviewers' verdicts, review sessions, dispatch's gate, plan actions | artifact edited between review and record; order of artifacts | a gate opens only on approvals of the present text |
| Review sessions (`engine/review.ts`, `observability/server/review-wiring.ts`) | single-use sessions with a nonce and expiry | open, decide, expire | browser, approvals | the session is marked used after an await | one decision per session |
| Plan actions (`observability/server/plan-routes.ts`, `plan-bridge.ts`, `engine/sdd.ts`, `engine/questions.ts`) | cache and runs in flight by fingerprint of the files; action file and cursor of a session | list, detail, enqueue, poll | dashboard, approvals, the poller in `ui/tui/widget.ts` | a run of the CLI shared by requests that come and go while files change; cursor moved before delivery, sessions that end and return | an answer is no older than its request, no duplicate run, an action reaches one session once and in order |
| File lock (`core/file-lock.ts`) | lock file | exclusive create, stale steal, unlink | used by approvals, dashboard start and others | two stealers, slow holder, crash of the holder | at most one holder while none is lost |
| Dashboard start (`engine/dashboard.ts`, `process.ts`, `shared/daemon-protocol.ts`) | lock record, credentials, child process, `obsServer` | adopt, replace, spawn, publish, stop, quit | file lock, several sessions, session hooks | start time-out racing a late start, busy daemons, builds that differ | published credentials are those of the daemon that listens, nobody loses a daemon that answers, calls return |
| Mode-switch restore (`engine/mode-switch-restore.ts`) | entry snapshot, pending restore, command context | capture, settle, one retry | mode switch, `agent_settled`, tool `hive_cycle_summary` | cleared before it is tried, further switches between the tries | a cycle is collapsed at most once and onto its own leaf |
| Distiller (`engine/distiller.ts`, `core/mental-model.ts`) | queue per target, snapshots, launch counters | enqueue, run, guard the write, cancel | runs' ends, session shutdown | superseded snapshots, concurrent writers, a session that ends meanwhile | no unseen text is overwritten, caps hold, queues drain |
| Domain policy (`engine/domain.ts`, `policy.ts`, `reserved-paths.ts`, `glob.ts`, `core/safe-path.ts`) | none (reads `activeOverrides`) | decide on a path or a command | tool calls of workers | links, nested scopes, two lexers, wrappers of commands | the most specific scope decides and deny wins a tie; shell and file tools agree; readers only read |
| Delegation permissions (`core/agent-tree.ts`, `engine/routing.ts`, `agent-lookup.ts`, `core/topology.ts`) | runtimes built from configuration and prompt files | `canDelegateTo`, routing, reload | dispatch, configuration, dashboard | two sources of one agent, reloads under a running team | the tree shown is the tree enforced, a reload grants nothing, routing foresees dispatch |
| Stream and telemetry of the host (`engine/dispatch-subscribe.ts`, `observability.ts`, `telemetry-*.ts`) | lifetime counters, snapshots, JSONL files | emit, snapshot, restore counters | dispatch, ingestion | runs cut off by crashes, counters restored from the log | every token once, a row is a run, the status shown is true |
| Ingestion and database (`observability/server/runtime.ts`, `jsonl-reader.ts`, `db.ts`) | offsets, checkpoints, tables, versions of topologies and models, verdicts | poll, insert, materialise, delete, prune, rehydrate | telemetry files, SSE | restart between batch and checkpoint, truncation, rotation, late and repeated logs | every event once, totals are sums, references resolve, what is shown was so |
| HTTP and SSE (`observability/server/http-handler.ts`, `sse.ts`) | subscribers | route, push | all of the server | slow consumers, restart | (seen by the page) |
| Dashboard UI (`src/ui/web/src/store`) | event ring, cursor, connection badge, derived status | first load, live frames, drain after a gap | SSE, `/events` | frames against drains, reconnects, deletes | a page that says live has no hole |
| Tools and prompts, configuration, TUI, helpers | config | parse, validate, render | host | (the teams of a configuration are under delegation permissions) | (pure) |

What a test hardly reaches is listed, at its line, under `hazards` in
`PROJECT.json`; the properties below are aimed at that list.

## Plan

The modules, in the order they were written, most important behaviour first:

1. `WorkerQueue` and its abstract `SlotPool`; proofs in `WorkerQueueProofs`.
2. `WorkerDispatch`, which extends the queue with the whole of `dispatchAgent`,
   mode switches and the ends of sessions; proofs in `WorkerDispatchProofs`.
3. `OperatorCommands`: pickup file, wakes, handles and end-of-life commands;
   proofs in `OperatorCommandsProofs`.
4. `Approvals`: records bound to hashes, review sessions, reviewers and the
   decisions of the dashboard; proofs in `ApprovalsProofs`.
5. `Budget`: what is spent, recorded, restored and admitted; proofs in
   `BudgetProofs`.
6. `Daemon`: the file lock and the daemon that the sessions of a user share;
   proofs in `DaemonProofs`.
7. `Ingestion` and, on top of it, `Dashboard`: from the log of a session to the
   page in a browser; proofs in `DashboardProofs`.
8. `PlanReads`, `Distiller`, `ActionBridge`, `CycleRestore`, `ToolPolicy`, `Team`,
   `Spans`, `Versions` and `Verdicts`: parts that share no state with each other,
   checked in one run by `MCHost`; `Records` puts the last three side by side. Proofs
   about all but `ToolPolicy` are in `HostProofs`.

`WorkerDispatch` extends `WorkerQueue`; `WorkerQueue` instantiates `SlotPool`;
`Dashboard` extends `Ingestion`; `MCHost` joins the nine parts. `Ranks` holds the one
operator on numbers that several of them use. The others meet
only through values that a constant or a choice of the environment stands for
(the gate of `Approvals` in `Team`, a delegation in `OperatorCommands`).

What would come next:

- the gate of `dispatchAgent`, read before the wait for a slot, composed with
  `Approvals`, so that an approval withdrawn meanwhile is in the model;
- a page that follows several sessions at once, with `Versions` and `Spans` behind
  it instead of plain events.

## Modules and code

**`WorkerQueue`** models `acquireWorkerSlot`, `releaseWorkerSlot` and
`cancelWorkerQueue`. A call is identified by the promise `acquireWorkerSlot`
returned to it and `promise[c]` is that promise's content: `none` (not asked
yet), `waiting`, `acquired` or one of the refusals. `activeRuns` and
`workerQueue` are the fields of `HiveState`; `aborted` holds the calls whose
`AbortSignal` has fired. `GiveBack` is a release as the code performs it, which
does not ask who releases; `ReleaseWorkerSlot` is a release by a holder, and
that `WorkerDispatch` performs no other is its property `QueueProtocol`.
A hand-over counts and resolves in one synchronous step, so a newcomer cannot
come between: the module has one action for it.

**`SlotPool`** is what the queue promises: a set of holders within the
capacity. `WorkerQueue` instantiates it with the holders of the promises, and
`PoolSpec` says that it is implemented.

**`WorkerDispatch`** follows one `delegate_agent` call through `dispatchAgent`;
`pc` names the await it stands at.

| `pc` | the call awaits | actions that leave it |
|---|---|---|
| `idle` | not issued, or returned | `Dispatch`: pre-flight, grant of the override, request for a slot |
| `acquiring` | `acquireWorkerSlot` | `Refused`, `AlreadyRunning`, `CannotPrepare`, `StartReload` |
| `reloading` | `workerLoader.reload()` | `StartDelegate`, `ReloadThrows` |
| `delegating` | `delegateAgentFn` | `BudgetRefused`, `DelegateThrows`, `PartialSession`, `StartRun`, `StartThrows` |
| `running` | `session.prompt` | `RunEnds`; `AbortCall` and `TimeOut` mark it `cancelled` |
| `ending` | `emitDelegationEnd` | `RunReported` |
| `failing` | `emitSetupFailure` | `FailureReported` |
| `crashed` | rejected; the caller sees an error | none |

`attached`, `status` and `handle` are `runtime.session`, `runtime.status` and
the worker handle map. `runtime[d]` is the runtime object the call captured: a
pair of agent and `epoch`, since `activateTeamRuntimes` builds new objects.
`granted`, `saved` and `activeOverrides` are the per-call grant of a domain
override and the one shared field that holds the scope in force. `RunEnds`
joins the end of the prompt with `close()`, because the slot, the session and
the status change before the next await. A waiter that is handed the slot runs
only after that, which the separate `acquiring` actions express. The mode
switch, the shutdown and both ways a session starts are actions over the same
state. `delegateAgent` is one await with its outcomes (budget refusal, throw,
partial session, session).

A comment in `engine/dispatch.ts:774-776` says of the partial session that "the
slot was already released in the catch". It was not, since the catch block is
not taken on that path; the close that follows is the only release, as
`PartialSession` has it. The behaviour is right.

With `ParallelToolCalls = FALSE` a session has one `delegate_agent` call open at
a time. For the visible session this counts a call left over from an earlier
Pi session too, so that assumption also excludes an overlap across sessions.

**`OperatorCommands`** models the pickup file (`file`), the poll, and one
drain per member of `Ticks`; several drains can be in progress because
`setInterval` does not wait for the drain before. `stage` names the await of a
drain: between the rows (`next`), for a wake (`waking`, then `woken`) or for the
command itself (`executing`, with the session it read in `used`). `inflight` is
`inflightWakes` and `opening` the factories that run. Commands are grouped by
what they await and what they do to sessions and handles. Dispatched runs
appear as `RunStarts`, `RunCloses` and `RunReported`, which register and
unregister handles the way `dispatchAgent` does. `Yielded` says that timers and
user events do not run between two microtasks of a drain. `Crash` keeps the file
and nothing else. Reading and unlinking are each one step: torn reads of the
file are left out.

**`Approvals`** models two processes around the records on disk. A text stands
for the bytes of an artifact and for their hash (`artifactHash`), so `Edit`, by a
planner or the user and under no lock, is seen only as a hash that differs.
`automated` and `human` are the two records of each artifact; `Current`,
`AgentReviewVerdict`, `IsArtifactApproved` and `IsApprovedForExecution` are the
reads of the ledger, the last one the gate of `/hive:execute`. On the host,
`StartReview`, `SubmitReviewVerdict` and `EndReview` are the life of a reviewer:
it reads the text, reports with its tool, and when its run ends
`emitDelegationEnd` records the verdict of its answer again. In the daemon
`session` is the map of review sessions and `request` has one entry per decision
request, whose `stage` tells where it stands:

| `stage` | the request | actions that leave it |
|---|---|---|
| `body` | awaits its body | `ReadBody` |
| `validating` | awaits `openspec validate` | `Validated` |
| `persisting` | enters `setArtifactApproval` | `CheckDecision`: lock, hash, review, upstream approvals |
| `writing` | writes the record | `WriteDecision`, `WriteFails` |
| `removing` | removes the human records downstream of a denial | `RemoveDownstream`, `RemoveFails`, `FinishRemoving` |
| `posting` | writes the display row and the action, marks the session used | `PostDecision` |

The daemon has one thread: from `persisting` on nothing else of it runs (`Idle`),
but the host edits and reviews go on and the daemon can die (`Crash`). The host
writes its record in one step: it holds the lock for that time, the record it
writes carries the hash it took, and no reader can tell the two apart. `actions`
is what the host is told. `decided`, `outdated` and `interrupted` are
history: no guard reads them.

**`Budget`** models one session file shared by the workers of a directory. It is
a tree of entries: a session manager loads it once and appends to its own branch,
and who loads it next gets the branch of the last entry (`thread`). `ledger` is the
`BudgetLedger` of an open session, `hooks` the listeners on it with the keys each
has warned of: `resume` and others install a second listener. A message is one
action, from the usage it brings through the checkpoint, the warnings and the
exhaustion policy of tokens and of context; `BudgetBlock` is the gate before a
delegation. Only tokens and context are followed among the dimensions, with tokens
split into those the policy includes and the others, because the two gates
disagree on that.

**`Daemon`** has a job for each pending call of `ensureDashboard` or
`stopDashboard`; `pc` names its await, and between the system calls of the lock the
jobs of other processes run. `lock` is the file, with who made it and whether it is
older than the stale age. `life` is the life of a spawned daemon, which may come up
after the one who waited for it has given up; `token` is whose credentials are
published, `obs` is `state.obsServer`, `gen` the lifecycle generation of the session
hooks, and `header` the generation whose start installed the header of the dashboard.
`Worlds` says which faults a behaviour may have, which version each process runs, and
how many calls and sessions it may have (`bound`).

**`Ingestion`** follows events from `emitHiveEvent` into the log, through rotation,
fragments of a crash and inode numbers that are used again, to `readSource`, which
commits rows, totals and offset of a batch in one transaction. Deletions, prunes and
the tables they touch are actions of the daemon. `gone` and `trimmed` are history
for the properties. **`Dashboard`** adds a page: the stream with its bounded buffer,
the first load, the drain after a gap with its frozen upper end, the ring of events
and the badge. `Worlds` says which mishaps a behaviour may have, each of them once.

**`PlanReads`**: `listPlans` and `planDetail` walk the files for a fingerprint, look
for it in the cache and among the runs in flight, share or start a run of the
OpenSpec CLI, and stop it when the last of its waiters leaves. Values are versions
of files: the property compares the version in an answer with that at the request.

**`Distiller`**: a chain of promises per target file and session; a task is skipped
when its session ends, its worker ran again or the cap is reached; the write is a
compare-and-swap inside the mutation queue of the file. A mental model is the set of
what went into it.

**`ActionBridge`**: the action file of a session, the poller that moves offset and
cursor to the end before it delivers, questions that open a dialog, and sessions
that end and return.

**`CycleRestore`**: entry into a cycle remembers the leaf of the session tree, the
exit asks for a summary, and when the agent settles, a summary is hung below that leaf
and navigated to, with one retry. `entries` is the session tree: an attempt changes it
before the navigation is awaited (`HangSummary`), so that a cancelled navigation leaves
its summary there, and a message that cannot be sent fails an attempt that has already
collapsed the conversation (`Navigate`). `jobs` are handlers that wait, `turns` what
runs or is queued; a session may end in a turn (`cut`).

**`ToolPolicy`**: `enforceDomainForTool` as operators: canonical paths through links,
configured scopes with globs, reserved paths, file classes of agent types, stages of
planners, the two lexers character by character on short lines, the classifiers of
commands word by word, and the checks `preflightCheck` makes of the scopes a
delegation brings. The only state is the call to decide and its verdict; TLC
enumerates some 5,700 calls, 580 lines to lex and 1,400 delegations, and each
property relates two ways the code has of deciding one thing.

**`Team`**: a configuration is enriched from the prompt files of its agents,
validated, and made runtimes with the reports each may delegate to; the file is
edited, the team or one agent reloaded, the mode changed. `ExplodeTeam` is the tree
the dashboard stores, `PreflightCheck` the one dispatch enforces, `RouteAgents` what
`hive_route` recommends. An agent may carry the `allowedAgents` of its YAML entry, which
the derivation replaces and a reload takes over. Agents are numbered in the order of the walk
(`TeamAssumption`), so that the rows the code collects recursively are the agents of
the team by rank, and who is enriched or visited is a matter of the agents `Above`.

**`Spans`**: runs log a start, tool calls and an end with the difference of counters
that are restored from the log after a crash; a delegation whose session cannot be set
up logs an end without a start (`SetupFailure`). What becomes of an event follows at once
(`Log`): the row of the delegation, the sum of the tokens of its agent, and the statuses
the page shows. Reading is whole and in order here; what is lost or late is
`Ingestion`'s and `Dashboard`'s subject.

**`Versions`**: sessions rewrite `hive-state.json`; the daemon looks at its time,
reads it, files the teams under a hash, fills in thinking levels, stores the snapshot
without its teams, each a transaction of its own with a possible end of the daemon
between them (`hand`), and puts the teams back after a restart. Rows of an earlier
release are initial states.

**`Verdicts`**: rows of `plan_verdicts` come from the logs, late or again after a
deletion, and at once from the review surface; the list and the pill read them for
one project.

**`MCHost`** is the conjunction of those nine: `focus` chooses one at the start, the
others keep their initial state. So one run checks them, each with its own bounds,
and no state is a product of two. `RecordsAreTrue`, `TasksEnd` and others are
conjunctions of the named parts of those modules.

The other `MC` modules hold the teams, worlds and symmetry sets of the instances.
Operators headed "Mutant" in the modules are plausible bugs; each property is
violated when the operator it is paired with in `PROJECT.json` takes the place of the
original.

## Runs

Several properties are conjunctions; the parts are named where they are defined.

| Run | Instance | Shows |
|---|---|---|
| `WorkerQueue` | 5 calls, 2 slots, queue of 2 | `QueueIsSound` (the counter is the number of holders, the queue holds the waiting calls, nobody waits in front of a free slot), `NoOvertaking`, `WaiterAnswered`; `PoolSpec` as refinement |
| `WorkerDispatch_nested` | 3 calls down a chain of delegations, 2 slots, queue of 1; overrides, user aborts, a timeout, mode switches; one call at a time per session, nothing throws unguarded | `RunsAreAccounted` (slots come back, one run per worker, the status is true, a run is addressable, open sessions have an owner), `ScopesFollowCalls` (the scope in force is that of the call, and is reverted), `ModeSwitchDrains` |
| `WorkerDispatch_parallel` | 3 calls, parallel tool calls, 2 slots, aborts, sessions that end and start, every unguarded throw | `RunsHoldSlots` and `QueueProtocol` survive all of it |
| `WorkerDispatch_returns` | 3 nested calls, 1 slot, queue of 2, time-outs on every worker | `CallReturns` |
| `OperatorCommands_serial` | 2 rows, all 12 commands, 1 drain at a time, sessions, mode switches, crashes | `RowsAnsweredOnce`, `InFileOrder` |
| `OperatorCommands_overlap` | 2 rows, 2 overlapping drains, 5 commands, runs and mode switches | `WakesAreOwned`, `HandlesAreOpen`, `DrainEnds` |
| `Approvals` | proposal, design and tasks; 2 texts, 2 review sessions, 2 requests, 1 reviewer, 1 edit, 1 crash | `OpenGateWasDecided`, `DenialReachesDownstream`, `ReadyWhenApproved` |
| `Budget` | 2 workers, one open at a time, over one file; every operator command, crashes, two policies | `LedgerLag` (a ledger that caught up is less than its gates ahead of what is on record), `UsageOnRecord` (after restores, too), `WarnedBeforeExhausted`, `AdmissionSound` |
| `Daemon` | 2 processes with a pending call each, or two calls over two sessions of one of them; versions that agree or differ; crashes or slow answers | `OneStartAtATime`, `CredentialsMatch`, `HeaderOfLiveSession`, `DaemonsStayUsable`, `EveryCallReturns` |
| `Dashboard` | 1 session, 3 events, a log rotated after 2 lines, 2 inodes, pages of 1 row, seven sets of mishaps | `RowsAddUp`, `NothingSkipped`, `LiveMeansComplete`, `LogsAreRead`, `PageSettles` |
| `Dashboard_reused_cursor` | 2 sessions, one deleted | violates `LiveMeansComplete`; see [below](#disagreements-between-code-and-documentation) |
| `Host` | the nine parts of `MCHost` | `PlanReadsSound`: answers are fresh, no run is duplicated, no request is left behind. `DistillerIsSafe`: no edit is overwritten unseen, ended sessions write nothing, caps hold. `BridgeIsSafe`: an action is in one place at a time, in order. `RestoredOnce`. `ToolRulesHold`: the most specific scope decides, the lexers agree, commits are gated, readers only read, the shell reaches what the file tools reach, delegations stay in reach. `TeamIsSound`: the tree shown is the tree enforced, a reload grants what the agent's entry lists and nothing else, routing foresees dispatch. `RecordsAreTrue`: an end is in the row of its run, no token counts twice, statuses are true; versions resolve and show what ran; verdicts are listed once, in order. `TasksEnd`: plan requests, distillations, actions, restores and snapshots arrive |

The theorems below establish further properties of these modules; `QueueTypeOK`,
`TypeOK` and others that are proved need no run of their own.

`CHECK_DEADLOCK FALSE` stands where the system may stop: the user need not call
again, the runtimes are rebuilt a bounded number of times, and rows, review
sessions, requests, events and daemons are not reused.

## Bounds

- `Calls`: three suffice for a holder, one that waits and one that is refused or
  releases; five in `WorkerQueue`, so that hand-over, abort from the middle of
  the queue and refusal coexist. Identifiers are reused once a call has
  returned, so the number of calls over time is not bounded.
- `MaxEpoch` (1 or 2): rebuilds of the runtimes. One old and one current
  generation are enough for a call to hold an object that is no longer current.
- `Rows` (2): the requests ever appended; two are needed for order and for a row
  behind another. `answered` counts to two, which tells "once" from "again".
- `Ticks` (1 or 2): drains in progress. Drains read the whole file, so a third
  one repeats what the second does.
- `RunSessions`, `WakeSessions`, `RespawnSessions`: identifiers of sessions,
  reused when nothing refers to them any more. A session that is still open then
  has leaked, which the model does not count.
- One agent in the runs of `OperatorCommands`: handles, wakes and runs of
  different agents do not meet, except in `tear-down-all`.
- `Approvals`: a path of the graph, in which tasks is two edges below proposal, so
  that direct and transitive dependence differ; the graph of the source has no
  longer path. Two texts are enough to leave a version and come back to it. Two
  sessions and two requests overlap on one artifact, on two artifacts or in one
  session. `MaxEdits` and `MaxCrashes` (1): one edit or one crash at any point.
  What is above tasks is approved at the start (`Settled`), which the daemon finds
  on disk; the theorems do not depend on it. Sessions, requests and reviewers are
  interchangeable, so the run uses symmetry.

- `Budget`: caps of 2 tokens for a worker and 6 for the team, messages of at most
  one token: a worker can be below, at and over its cap, and the team over its cap
  while each worker is below. The throttle lets 2 tokens or 3 messages go
  unrecorded, so that what is on record lags by more than nothing.
- `Daemon`: two processes race for everything the lock guards, with a session and a
  call pending in each, which may end or quit (`OneSession`), or the second stays while
  processes may crash (`SecondStays`). In `TwoSessions` the first process ends its
  session and starts another one while the start of the first is pending, so that a
  stale start completes in a live session. Two nonces: a
  daemon and the one that takes its place. One kind of fault in a behaviour.
- `Dashboard`: three events over a log of two lines force a rotation; a ring of two
  is smaller than the table; a page of one row makes every drain take several
  requests; two inodes make an inode number come back. Each mishap happens once, in
  the combinations of `Mishaps`. With `Racing = FALSE` live frames do not overtake
  the first load and reconnects do not share a drain; see
  [below](#disagreements-between-code-and-documentation). The first load is as large as
  the ring (`BootSize`); what a smaller one leaves out is described there, too.
- `PlanReads`: one root with two versions, a cache of one entry, two requests and
  two runs: an edit before, while and after a run; a second request that joins,
  finds the result, or starts another run. Identifiers of both are used again.
- `Distiller`: two workers on one target, a cap of one and two runs each, one edit
  by others, two sessions of the host.
- `ActionBridge`: two sessions, two actions and a question, an end for each session.
- `CycleRestore`: two exits, so that a second cycle is entered while the first is not
  settled; the tree is empty or has an entry at first; the user prompts while it is empty, and
  the entries of queued turns, of summaries and of retries follow without a bound of
  their own.
- `ToolPolicy`: links that lead inside, outside and nowhere; domains of one scope or
  two out of ten; a vocabulary of 19 words in commands of up to four; lines of up to
  three of the eight characters the lexers tell apart.
- `Team`: an orchestrator, a lead, two agents below or beside it and a planning team,
  in sixteen variants of who declares what where, in three of them with a list of
  reports for the lead; one edit, to any other variant that calls the agents the same.
- `Spans`: six events, two agents, two tokens: a run cut off by a crash, a setup that
  fails or a run after it, and a nested run fit. `MidRun = FALSE`: the mode changes between runs.
- `Versions`: two sessions, two snapshots, two pairs of teams that share or do not
  share a hash, one end of the daemon at any point. Modification times differ.
  `Verdicts`: two verdicts from two sessions or the human in two projects, one
  deletion and one old row. Three verdicts, or three snapshots, pass as well.


## Fairness

`QueueFairness`: every holder releases. This is what the dispatcher does on its
guarded ways out, and what the lifecycle's `close()` guarantees for a run.

`WorkerDispatch!Fairness`: each call takes its next step (the event loop runs
what is ready; a prompt settles, since a model request ends or fails; a throw is
as good as a result), timers fire, and an abort reaches the calls made below the
aborted one. The user is never obliged to act. Time-outs are optional in the
configuration: `WorkerDispatch_returns` gives one to each worker, because
without them nested calls over one slot wait for each other for ever: a
worker that delegates keeps its slot while its own worker queues for one.
TLC finds that with `TimedAgents = {}`.

`Approvals` states safety only: nobody is obliged to review or to decide.

`OperatorCommands!Fairness`: drains continue, wakes open or fail, runs close.
Whether the timer fires is left open.

`Budget` states safety only. `Daemon!Fairness`: Node runs what is due, so every job
takes its steps; the clock reaches the deadline of a call that looks at the lock
again and again (strong fairness, since the wait is interrupted by each look); files
get older; a spawned process starts. Nothing obliges a process to start a session,
nor a fault to happen.

`Ingestion!Fairness`: the daemon looks at the registry and at every log each two
seconds (`setInterval`), and a daemon that died comes back with the next session.
Sessions need not emit. `Dashboard` adds that the page's requests are answered and
its stream reconnects, by the timers of the store.

The parts of `Host`: file operations end and a run of the CLI ends, at the latest by
its time limit; the prompt of a distiller ends or is aborted; the interval of the
action poller fires; turns end; the daemon looks at each state file. Users are never
obliged to act; so a restore that is pending when its session ends in a turn may stay
pending, and `RestoreTakenUp` leaves that case out (`cut`). In `MCHost` these are stated as four conditions over the steps of all
parts, which is the same because the focus never changes.


## Proofs

Checked by TLAPS for every set of calls, team and configuration, from the assumptions
that the modules name and TLC evaluates:

- `CallsAssumption` (finitely many calls in flight), `LimitsAssumption` (limits are
  positive or left out, as `positiveInteger` checks when the configuration is loaded),
  `DispatchAssumption`, `OperatorAssumption`;
- `BudgetAssumption` (finitely many workers; caps and gates are numbers),
  `DaemonAssumption` (calls belong to processes) and `ArtifactsAssumption` (the artifacts
  are among the four of the source, tasks comes with one it depends on, and what is
  approved at the start is so with all above it);
- `IngestionAssumption` (a batch and a file take at least a line, inodes are numbers and
  finitely many), `DashboardAssumption` (page, ring and buffer hold at least a row, and
  the absence of an answer or a drain is none of them);
- `PlanReadsAssumption` (a project has a root, the cache an entry), `DistillerAssumption`,
  `BridgeAssumption` and `CycleAssumption` (bounds are numbers);
- `SpansAssumption` (the orchestrator is none of the agents), `VersionsAssumption` (a
  configuration has two lists of nodes, and what is not known is no configuration) and
  `VerdictsAssumption` (a session belongs to a project);
- `TeamAssumption` (a configuration is a forest numbered in the order of the walk, with one
  main agent per team, which comes first).

Where a theorem is about restricted behaviours, it says so with `ASSUME` and a named
condition over constants: `SerialCalls`, `NothingThrows`, `RunsAssumption`, `StartsLoad`,
`SerialDrains`, `NothingReplaced`, `NothingDeleted` (initially, of the mishaps to come),
`~Racing`, `BootSize >= RingSize`, `~MidRun`, `SlugsAreClear`, or over every state, `[]FirstLoadReaches`. A run
satisfies each of them; what happens without them is described [below](#disagreements-between-code-and-documentation).

`WorkerQueueProofs`: no property of the queue is inductive alone. That the
counter is the number of holders needs the head of the queue to be waiting (or
a hand-over would add no holder); that the cap holds needs the counter; that
nobody waits in front of a free slot needs the cap; that the queue has no
duplicates needs its members to be waiting. `QueueInv` is the conjunction. Each
action has a lemma that it preserves `QueueInv`; the invariance theorem and its
corollaries follow by `PTL`. `FirstComeFirstServed` (`NoOvertaking`) follows from
the invariant and an analysis of who is served by which action;
`QueueImplementsPool` maps each action to `Enter`, `Leave`, `Exchange` or a
stutter of `SlotPool`.

`WorkerDispatchProofs`: what the promise of a call holds follows from the stage
of the call (`SlotsFollowStages`): a call in preparation, in its run or crashed
holds a slot, one that is over or on its way out holds nothing, and one that
waits is at the await of `acquireWorkerSlot`. `DispatchInv` joins that with
`QueueInv`, the types, and the fact that open sessions belong to calls that run
or crashed. The argument goes round: by the stages, a call that gives back a slot
has one, so each step is a step of the queue; by `NextInv` of the queue,
`QueueInv` is preserved; by `QueueInv`, the waiter a release resumes is waiting,
hence at that await, hence its stage and its new promise agree. From the
invariant follow `DispatcherFollowsProtocol` (`QueueProtocol`; with it each
theorem about the queue holds of the dispatcher), `SessionsWithinCap`
(`RunsHoldSlots`, for any team and with parallel calls, aborts, throws and
sessions that end), and, under an assumption each, `EverySlotComesBack`
(`SlotsComeBack` if no unguarded step throws; without that it is violated, see
[below](#disagreements-between-code-and-documentation)) and `DrainGuardSuffices` (`ModeSwitchDrains` if
session starts load their configuration): a guard that reads the counter alone
is enough, because the queue is empty whenever the counter is zero.

When each session has one delegation open at a time (`SerialCalls`), the open calls form
a stack (`StackInv`): the visible session made the first, each other one was made by the
run below it, and all but the topmost are runs. The overrides follow it: what a call
saved is what the calls below it left in force, also when some of them were granted
none. `ScopesNest` (`ScopesFollowCalls`) reads the override in force off the stack,
whatever throws and however often sessions start and end. `BooksOfRunsAgree`
(`RunsAreAccounted`) needs besides that nothing throws unguarded and that the Pi session
goes on (`RunsAssumption`). `RunsInv` relates slot, status, handle and runtime object of
a worker to the stages of its calls; that no second run of a worker can start between
the status check and the step that sets the status follows from the stack, in which all
other open calls are runs of other workers that wait for this one.

`OperatorCommandsProofs`: that a woken worker is registered only while some
drain is about to release it (`WakesAreReleased`, `WakeIsTransient`) needs that
somebody is waiting when a wake opens, that this drain's command is one that
releases, and that no other wake took the session for its own. `OperatorInv`
states this: each drain at work has a row that was queued (`RowsKnown`), each
wake in progress is the one `inflightWakes` names, has a session of its own and
is waited for (`WakesTracked`), and who waits for a wake or was woken has a
command that releases (`WakersWake`). `WakesAreShared` (`OneWakePerAgent`) follows
from the same invariant. Both hold for any number of drains, workers, rows and
sessions, with crashes and sessions that end. When polls do not overlap (`SerialDrains`:
one drain at a time, and nothing is appended while it works), the rows of the file that
are answered are a prefix of it and the drain has the rest in hand (`FileInv`):
`RowsAreAnswered` (`RowsAnsweredOnce`) and `RowsAnsweredInOrder` (`InFileOrder`), with
any commands and with crashes between two of them. As long as nothing replaces a session
under its handle (`NothingReplaced`: no respawn, no shutdown), a handle that a command
can reach names an open session or that of a run on its way out (`HandlesStayOpen`,
`HandlesAreOpen`).

`ApprovalsProofs`: `LedgerInv` is the argument. What is in force on disk is the last
decision made (`RecordsAreDecisions`), which holds because the record is written
with the hash that was checked and the hash that was checked is the one the
session showed (`WritesWhatWasShown`): an edit between check and write makes a
record that counts for nothing. A denial reaches what is downstream
(`DenialReachesDownstream`) because the daemon decides one thing at a time
(`OneTurn`), and an approval about to be written stands on approvals
(`ApprovesOnApproved`), which no other step removes before it is written. The
gate (`OpenGateMeansDecided`) and the message of readiness (`ReadinessIsApproved`)
follow; the latter because every artifact is tasks or one of its ancestors. They
hold for any texts, sessions, requests, reviewers, edits and crashes.

`BudgetProofs`: `BudgetInv` says of every worker, open or closed, that a ledger which
agrees with its session is within the gates of what it wrote; closed ones count,
because the next session of the worker starts from what they left. A message
can be observed by any number of listeners in turn, each of which adds and may
write: the proof goes over the functions that fold them (`LedgerNeverLags`,
`LedgerLag`). That exhaustion is announced (`ExhaustionIsAnnounced`,
`WarnedBeforeExhausted`) needs that the mark of exhaustion implies the warning of the
first listener. Both hold for any caps, gates, thresholds and policies, for nested
delegations, and for any number of workers; TLC looks at two that run one at a time.

What is on record is a matter of the file. While delegations do not nest, the open
session holds the branch and the usage of the file, and the entry its ledger wrote last
is on that branch (`RecordInv`); so an entry is behind the file by no more than the
ledger is (`SpendIsOnRecord`). The gate of the team adds up the newest entries of all
slugs, one of which is not far behind the whole: `UsageIsOnRecord` (`UsageOnRecord`).
`AdmissionIsSound` (`AdmissionSound`) compares the gate that is passed with the file.
Snapshots, tear-downs, ends and crashes are included.

`DaemonProofs`: a lock gets old under a process that was suspended or is gone. The proof
showed that a crash alone is enough to break the start-up section once three processes
contend: of two survivors that find the dead lock, the slower unlinks the new lock of the
faster. So the locks hold (`LocksHold`) as long as nobody is suspended and either nobody
is gone or there are at most two processes. Then only the lock of a process that is gone
is unlinked, and who is inside has made the lock (`LockInv`): `StartsExclude`
(`OneStartAtATime`), for any number of processes and calls. A daemon that starts finds
the token unpublished and the lock held until it has bound the port or has given up, also
when its process goes in between (`CredentialsInv`); so what is published is the token of
the daemon that listens (`CredentialsAreRight`, `CredentialsMatch`). A process knows the
daemons that it spawned (`OwnersKnown`); with that, nobody unpublishes a daemon that
answers in time, and a quit stops its own daemon or the one that took its place
(`DaemonsAreUsable`, `DaemonsStayUsable`). `HeaderIsLive` (`HeaderOfLiveSession`): the
header there is was installed by a start of the generation that runs. It needs that a
start is not of a later generation than its process; that `shuttingDown` is false is not
enough, since the next session of the process resets it.

`DashboardProofs`: the daemon goes on reading at an offset if the line before it is still
the one it remembers. That this skips nothing (`NothingIsSkipped`, `NothingSkipped`),
although inode numbers are used again, needs that no two lines are equal, since events
carry their times, and that of every cursor that fits its log all lines behind it are in
the table, never became rows, or were removed on request (`Ledger`). `Ledger` also ties
the tables to each other (`CountsAgree`): one usage event per usage row, and for each
session its tokens, its count and what was pruned of it. `EverythingAddsUp`
(`RowsAddUp`) adds the shape of page and stream (`PageShape`): the ring keeps the
`RingSize` rows with the highest rowids, which is no more than that because rowids
differ. Events, sessions, sizes and mishaps are arbitrary.

That a page that says "live" has no hole (`LivePageIsComplete`, `LargeLoadIsComplete`,
`LiveMeansComplete`) follows every row on its way (`FeedInv`, `FeedInvariance`). A row
comes with the first load, with a drain or with the stream, and two numbers tell by which.
Above a floor `f`, which the first load sets, all is to come, and nothing at or below it
comes any more (`Over`). Up to a bound `b`, the largest rowid when the stream was opened,
rows come with the load or a drain, whose cursor says how far (`Behind`); above `b` with
the stream, which leaves nothing out between the page's cursor and its last frame
(`Ahead`). So when the stream is lost, what comes next begins where nothing is missing: the
new bound is the `Top` of the new stream, and its drain starts from the page's cursor. A
frozen upper end below `b` would break this (`Within`), which is what happens when a
reconnect shares a drain. The condition `NothingDeleted` is needed, since a deletion gives
rowids away again; `FirstLoadReaches` says that what the first load left out is older than
all else the page gets, and a load as large as the ring does not need it.

`HostProofs`: eight parts of the host, each for its own initial states and steps; they
share no state, and `MCHost` leaves all but one of them alone.

- `PlansAreSound` (`PlanReadsSound`): the fingerprint of a request is not older than the
  request, the key under which a run is in flight not older than the fingerprint that
  found it, and what a run reads not older than its key (`ReadInv`). A run that was
  stopped keeps its place in flight until it has closed, so that there is never a second
  one under its key.
- `DistillsSafely` (`DistillerIsSafe`): if aborts settle before the session is over
  (`InTime`), only the session there is has tasks (`DistillInv`), so that none writes for
  one that ended; the write is a compare-and-swap, which drops no update it has not seen.
- `ActionsOnce` (`BridgeIsSafe`): an action is enqueued once, so that the cursor of a
  session separates the lines ahead from those that were asked, sent or lost, each in one
  place (`InOnePlace`); what a session was sent are lines of its file in their order
  (`SentInOrder`).
- `RestoresOnce` (`RestoredOnce`): an exit of a cycle is pending and has left nothing in
  the tree (`PendingIsNew`), or is in the hands of one handler, whose earlier attempt may
  have left a summary that was not reported a success (`HandlersAreOne`), or is over
  (`CycleInv`). So there are at most two summaries of an exit, the second by the retry.
- `VerdictsHold` (`VerdictsAreTrue`): a verdict that was given has one row, which says the
  same, or lies ahead of the offset of its log (`VerdictInv`). Rows are listed by their
  ranks; that the list is the history of the project is a bijection between the two, taken
  from `RanksCount`, which counts a finite set by its ranks and is proved by well-founded
  induction on its parts.
- `SpansHold` (`SpansAreTrue`), if modes change between runs (`~MidRun`): a run that is
  open is that of the last start of its agent, which has no end yet (`RunsAreOne`); what
  was summed for an agent is the lifetime its last end tells, which is all of its
  transcript once the run that started last has reported (`TokensFollowEnds`): a setup
  that fails tells the counters as they are, so what a crashed run has cost waits for the
  end of the next run. Every start and every end has one row, whose end is that of its
  run or, when the run has crashed, perhaps that of a setup that failed (`RowsAreKept`);
  the row of a run that is open is the latest open one, to which its end belongs.
  Statuses follow from who waits for whom (`ViewFollows`).
- `VersionsHold` (`VersionsAreTrue`): a row of a node says what the hash says at its place,
  and there is one for a place (`NodesFit`); so as many rows as nodes means all nodes, and
  a version whose explosion was cut short is completed (`Stored`). From all its rows, in
  the order of their ranks, a team comes back as the snapshot had it (`TeamComesBack`).
  Each model has a row for the last of its reports, in whatever order they come
  (`ModelsFit`), and levels that are filled in are those of a report (`LevelsFrom`), also
  where the first of several nodes of a name decides.
- `RecordsHold` (`RecordsAreTrue`) joins these three, which take their steps side by side
  (`RecordSpec`).
- `TeamHolds` (`TeamIsSound`), if slugs are clear (`SlugsAreClear`): runtimes are agents of
  the configuration that was loaded, whose names and slugs are still those of the file, and
  have the reports of their place or, after a reload, those their entry in some version of
  the file listed (`TeamInv`). The rows of a team
  are its tree (`RowsAreTree`, by the ranks of `RanksCount`), so a report is shown. That
  what is shown is a report takes the tree and the check for duplicate slugs together: a
  row of the caller's slug could belong to an agent that was dropped for bearing the slug of
  the main agent, and then the rows below it, being dropped too (`BelowHidden`), are those
  of no runtime. `SlugsAreClear` excludes what the code does not check: an agent called by
  the slug of another, and an agent with reports whose YAML and prompt slugs differ. TLC
  evaluates it on the sixteen configurations, some of which have a member with two slugs.

Only model-checked:

- liveness (`WaiterAnswered`, `CallReturns`, `DrainEnds`, `EveryCallReturns`,
  `LogsAreRead`, `PageSettles`, `TasksEnd`): the prover handles neither fairness nor
  `ENABLED`.
- `LiveMeansComplete` after deletions and prunes, in the choices of mishaps in which it is
  still true (it is not after deletions that give a rowid away again).
- `ToolRulesHold`: lexers and classifiers of commands are `RECURSIVE` operators and folds,
  checked over bounded inputs.
- `SpansAreTrue` when the mode changes while a worker runs: it is false then.

## Disagreements between code and documentation

`Dashboard_reused_cursor` violates `LiveMeansComplete`, under the constants of an
ordinary deletion: the `events` table has a text primary key and no AUTOINCREMENT, so
the rowid of deleted newest rows is given to new ones, and a page whose cursor has
passed it never asks for them. `db.ts:588` calls the rowid a "global monotonic
cursor".

The rest comes out when the constants of a run are changed, or was met while
modelling. Each is described by the state that leads to it, so that a reader can
judge whether it matters.

### Dispatch, sessions and operator commands

- Two overlapping overrides, revoked in the order of their grants, leave the first in
  force when both calls are over (`OverrideReverted` with parallel calls; the comment
  at `engine/dispatch.ts:491` expects them to nest). A worker's tools are then checked
  against the override of another call (`OwnScopeInForce`).
- Two parallel calls to one worker both pass the status checks, which precede the
  awaits the status is set after (`OneRunPerAgent`).
- A throw of `workerLoader.reload()`, or between `registerWorkerHandle` and the
  prompt, keeps the slot for good (`SlotsComeBack` with `"reload"` or `"start"` in
  `Faults`).
- A delegation in preparation when the session shuts down opens its worker
  afterwards; mode, gate and permission are checked before the wait for a slot and
  not again.
- A session whose configuration does not load switches to normal mode past the drain
  guard (`ModeSwitchDrains` with `"session"` in `Operator` and `"load"` in `Faults`).
- A row appended while a drain is at work goes with the file
  (`operator-pickup.ts:333`; lines 281-283 call the window benign): with rows and
  drains overlapping `RowAccounted` fails.
- A snapshot of a running worker releases the handle of the run
  (`LiveRunKeepsHandle`).
- After a respawn the handle still names the disposed session (`HandlesAreOpen` with
  `"respawn"` in `Commands`).
- Two drains invoke a row twice (`InvokedOnce` with two `Ticks`); a comment in
  `integration/operator-pickup.ts:339-343` expects one of two parent processes to
  "win the row", but both read it, as two drains do.
- A drain goes on after the session that started it has ended, and a released wake
  leaves its session open.

### Approvals, plans and reviews

- An artifact that was changed and approved anew puts the older approvals downstream
  of it in force again; nobody decided on them since (`ChangeInvalidatesDownstream`).
- A reviewer's verdict is recorded with the hash the artifact has when the run ends
  (`dispatch-end.ts:117`), so an edit made while it was at work is covered by a review
  that did not see it.
- A review session is marked used only after its decision was awaited
  (`review.ts:555`), so two decisions of one session that overlap are both persisted;
  the gate and the reach of denials survive that.
- `plan-routes.ts:126-128` expects a later yellow or red verdict to surface after a
  human green; `latestVerdictExcludingHumanGreen` stays null for good. The green row
  is one per change, not per artifact, and no later denial withdraws it, against
  `db.ts:1787-1794` ("the two stay in sync").
- When the last waiter of a shared plan load leaves, a request that arrives before the
  process has closed joins the dying run and is answered "cancelled". A request
  aborted just before it would start a run starts one nobody waits for.
- A failed write of the action cursor delivers actions again after a restart; what
  follows a broken line in one poll is never delivered; actions for a session that
  enters neither plan nor hive mode wait.
- With `InTime = FALSE`, a distiller that takes longer to abort than the second the
  shutdown waits writes in the next session (`hooks.ts:279-281`).
- A cycle that is entered anew before the last exit has settled is restored in hive
  mode, and the snapshot of a later exit can be a leaf on the abandoned branch. The
  comment at `widget.ts:169-174` says a re-entry in mid-cycle takes no snapshot; from
  plan to hive it does. Leaving by the cycle key has no command context, and the
  restore is dropped.
- An attempt to restore changes the tree before it may fail
  (`mode-switch-restore.ts:47-51`). A navigation that is cancelled leaves its summary in
  the tree and the leaf at the snapshot; a message that cannot be sent fails the attempt
  after the conversation has moved to the summary. The retry then hangs an empty summary
  beside the first and moves there, so that the handoff summary of the agent is replaced
  by none. Comments call the capture-and-clear a guard against restoring twice
  (lines 94-96) and the failure message says that normal mode continues "without
  restoring prior context" (line 34), also when the leaf has moved. `RestoredOnce` says
  what is left: at most two summaries of an exit, and a second one only by the retry.
- A session that ends in the turn that was to settle a pending restore leaves it pending
  (`hooks.ts:249-326` neither waits for turns nor clears it); the next session of the
  process takes it up when a turn of it settles, which nothing obliges the user to ask
  for. `RestoreTakenUp`, a part of `TasksEnd`, therefore supposes that the session does
  not end there (`cut`).

### Budgets and permissions

- The cap on runs never fires (`docs/migrations/budget-config-v2.md:512`); windows of
  `resolveBudgetsConfig` are never resolved, as nothing calls it.
- `tear-down-all` writes its sums, taken from ledgers in memory that may be behind, as
  the newest entry, which the next restore takes (`worker-tools.ts:465-516`).
- With workers open at the same time (`Nestings` with TRUE) the branch of the last
  writer leaves out the entries of the others, so that `UsageOnRecord` and
  `AdmissionSound` claim nothing then; `LedgerNeverLags` and `ExhaustionIsAnnounced`
  cover that case.
- The gate before a delegation compares all tokens, the gate of the tools those in
  `include`. Comments at `events.ts:177` and `265` say that aborting the controller
  cancels the run; dispatch never hands that controller to the session, and the
  handler blocks no tool once it is aborted (`ExhaustedRunHeld`).
- `reloadAgentConfig` derives neither the reports nor the role of an agent
  (`session.ts:158-176`, against `92-94`) and does not find nested members. What it takes
  for the reports is the `allowedAgents` of the YAML entry (`session.ts:97`), an accepted
  key (`config-validation.ts:108`) that `canDelegateTo` then enforces
  (`domain.ts:23-25`): a reload can grant reports which the tree on the page does not
  show, while `config.ts:19-22` and `types.ts:139-140` say that the value is ignored. With
  no such list the reloaded agent has no reports. `ReportsAreGranted` says how far that
  goes; values of the key that are not lists are left out. Prompt files are read again at a
  mode switch without validation: a slug edited there detaches or replaces a runtime
  (`EditConfig` leaves slugs alone for that reason). An agent whose YAML and prompt
  slugs differ is known by one in the lists of reports and by the other as a runtime,
  and an agent whose name is the slug of another is taken for it by `agentMatches`: in
  both cases the tree on the page is not the one dispatch enforces (`SlugsAreClear`).
  The slug of a main agent is not in the check for duplicates, and an agent that
  bears it is dropped. Enrichment goes into `members || children`, all else into both.
- The planner's hold is not foreseen by routing (`RoutingIsAdmitted` excepts it), and
  routing lets execution agents through without an active change, which dispatch does
  not.
- Under a cap a delegation's own scope is compared with the agent's by the text of
  its path (`dispatch.ts:200-203`; the comment there says it is coarse): a scope that
  permits deletion passes where the agent may only write, and one without the
  agent's `exclude` widens. What holds is that it stays below the directories in
  which the agent writes (`DelegationStaysInReach`).
- In `tokenizeBash` an empty quoted word leaves its mark on the next token;
  `classifiedGitSubcommand` takes wrappers once and in one order, `statementIsCommit`
  as often as they come.

### Daemon, telemetry and page

- Of two contenders for a stale lock the slower unlinks the new lock of the faster
  (`file-lock.ts:44-46`); calls give up after 15 s, a lock is stale after 30 s, so
  callers fail in between. A daemon that answers late to the 700 ms probe loses its
  credentials. A host that dies between spawn and publication leaves a daemon that
  ends by its idle time-out. The end of a session while `ensureDashboard` waits loses
  the child of a start that times out (`hooks.ts:311`). A quit shuts down the daemon
  that another session put in place of the own one (`QuitStopsOnlyOwn`;
  `dashboard.ts:460-462` says otherwise).
- With `Racing = TRUE`, `LiveMeansComplete` fails: reconnects share a drain whose
  upper end is frozen; a live frame during the first load raises the cursor past the
  one of the hello. With `BootSize < RingSize` it fails, too: `/events` loads 1000 rows
  unless asked for another number (`http-handler.ts:286`), the ring holds 10 000
  (`event-ring.ts:5`). When more rows than the load holds are written between the opening
  of the stream and the answer, and the stream is cut after the page has taken some of
  their frames, the page lacks those between these frames and the load, and the drain
  begins behind them. A drain that fails leaves the page at "syncing"; so does a
  reconnect after deletions, whose answer carries a lower upper end than the cursor.
- The unread tail of a log that is rotated is lost. A second start of a tool call with
  the same identifier violates a unique index: its batch is rolled back and the log is
  read no further (`Clogged`). Deleting the telemetry of a live session removes its
  registration: later events wait for the next one and then the whole log is read
  again. Rows deleted during a drain can reappear on the page.
- The end of a delegation that could not be set up (`dispatch.ts:261-292`) has no start.
  The daemon gives it to the latest open row of the agent (`db.ts:762-786`): after a crash
  that is the row of the crashed run, which then shows as ended with the failure and
  without tokens, and the usage of the agent stays below its transcript although its last
  end is later than all its starts, until a run of it ends.
- With `MidRun = TRUE`, `EveryTokenOnce` fails: counters are restored from the log
  while a run of the old runtime goes on. Ends emitted in normal mode are lost. The
  status of the orchestrator itself may differ, and nothing is claimed of it.
- Levels of a node are filled by agent name over both teams of a hash, and the first
  value stays: an agent that both teams name gets the levels of the other's model, and
  a catalog that came first keeps out what a worker reported. A row of an earlier
  release loses its active team, which is guessed. The hash leaves out the directory,
  so a version first seen in one project is missing from the list of another. Roles
  and slugs do not come back after a restart.
- Verdicts are not removed with the telemetry of their session.

## What is not modelled

Prompts, task texts, usage figures other than tokens and context, redaction and
truncation of telemetry payloads, files of a run, and everything that renders.
Components with status `not_modelled` in `PROJECT.json` render, parse or format; those
that are `partly` modelled say there what is left. In particular:

- `delegateAgent`'s own set-up (restore, gate, hooks) is one step of `WorkerDispatch`;
  `emitDelegationEnd` and its side effects on approvals and the distiller are one step,
  `RunReported`. A throw while the grant event is emitted is left out.
- Torn reads and writes of the pickup file and of the action file are left out; those
  of the telemetry log are in `Ingestion`.
- Of approvals, origin checks and the assets of the review page; `plan_approvals` and
  `plan_comments`, whose writers have no callers.
- A port held by a foreign program, and a daemon of another storage directory.
- The reader of agent logs (`observability/agent-log.ts`), thinking rows, project
  overrides, and aggregate queries: they are computed from rows and keep no state.
- In `ToolPolicy`, here-documents, substitutions, pipes into interpreters and the full
  lists of commands; `sh -c` is one level deep.
- Settings, budgets, YAML parsing and model resolution: constants with assumptions.
