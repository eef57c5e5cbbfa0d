-------------------------------- MODULE Spans --------------------------------
(* What telemetry makes of the runs of the workers.  A run reports its start, its tool
   calls and its end (engine/dispatch.ts, dispatch-subscribe.ts, dispatch-lifecycle.ts,
   dispatch-end.ts) in the log of the session; the daemon turns the log into rows, one
   per delegation, and sums the tokens (observability/server/runtime.ts, db.ts); the
   page replays it for the status of every agent (ui/web/src/store/status.ts).  A crash
   loses the runs and the counters, which are restored from the log
   (engine/session.ts); the transcripts stay.  A delegation whose session cannot be set up
   reports an end and never a start.

   A token stands for all that is counted.  A run is named by the place of its start
   in the log, which the events do not tell: "run" is history.  Rows and pages read the whole log (modules Ingestion and Dashboard). *)
EXTENDS Integers, Sequences, FiniteSets, SequencesExt, FiniteSetsExt

CONSTANTS
  Agents,       \* the agents of the team
  Orchestrator, \* the visible session, which is not one of them
  MaxLog,       \* bound on the events of the log
  MaxTokens,    \* bound on what a transcript holds
  MidRun        \* whether the mode may change while a worker runs

VARIABLES
  live,         \* state.telemetryRegistered: the session runs
  delegating,   \* whether state.mode is not "normal", where nothing is emitted
  open,         \* the runs: agent, caller, start, prior lifetime, and whether the
                \* runtime of the run still is the one of the team
  counter,      \* the lifetime tokens of the runtimes of the team
  transcript,   \* the tokens in the session file of each worker
  events,       \* hive-events.jsonl
  rows,         \* delegations
  usage,        \* what the daemon and the page have summed of each worker
  view          \* the statuses of the page, and who waits for whom
recordVars == <<events, rows, usage, view>>
spanVars == <<live, delegating, open, counter, transcript, recordVars>>

ASSUME SpansAssumption == Orchestrator \notin Agents /\ MidRun \in BOOLEAN

\* hive-telemetry-v2: an event, and the end of a run, or of none.
Event(type, agent, caller) ==
  [type |-> type, agent |-> agent, caller |-> caller, delta |-> 0, lifetime |-> 0, run |-> 0]
EndEvent(agent, caller, tokens, lifetime, run) ==
  [type |-> "delegation_end", agent |-> agent, caller |-> caller, delta |-> tokens,
   lifetime |-> lifetime, run |-> run]

-----------------------------------------------------------------------------
(* The rows of the daemon *)

\* Rows of delegations without an end; the one that started last is the one that ends.
OpenRows(a) == {r \in rows : r.agent = a /\ r.end = 0}

\* Mutant: the end goes to the delegation that has been open for longest.
Latest_Oldest(some) == CHOOSE r \in some : \A s \in some : r.start <= s.start

Latest(some) == CHOOSE r \in some : \A s \in some : s.start <= r.start

\* A row for the start, or the end, that comes as the i-th event.
MaterializeDelegationStart(e, i) ==
  rows \cup {[agent |-> e.agent, start |-> i, end |-> 0, tokens |-> 0]}
MaterializeDelegationEnd(e, i) ==
  LET some == OpenRows(e.agent) IN
  IF some = {}
  THEN rows \cup {[agent |-> e.agent, start |-> 0, end |-> i, tokens |-> e.delta]}
  ELSE (rows \ {Latest(some)}) \cup {[Latest(some) EXCEPT !.end = i, !.tokens = e.delta]}
MaterializeTypedEvent(e, i) ==
  CASE e.type = "delegation_start" -> MaterializeDelegationStart(e, i)
    [] e.type = "delegation_end" -> MaterializeDelegationEnd(e, i)
    [] OTHER -> rows

\* projectUsageEvent for the daemon, delegationsFromEvents and seriesTotals for the page.
ProjectUsageEvent(e) ==
  IF e.type = "delegation_end" THEN [usage EXCEPT ![e.agent] = @ + e.delta] ELSE usage

-----------------------------------------------------------------------------
(* The statuses of the page *)

NoStatus == [status |-> [a \in Agents \cup {Orchestrator} |-> "idle"], out |-> {}]
WithStatus(status, a, s) == [status EXCEPT ![a] = s]
Waits(a) == \E pair \in view.out : pair[1] = a

\* A delegation that ends is taken from its caller, which goes on with its last one.
EndStatus(a) ==
  LET left == {pair \in view.out : pair[2] # a}
      callers == {pair[1] : pair \in view.out \ left}
      resumed == {c \in callers : ~\E pair \in left : pair[1] = c}
  IN  [status |-> [b \in Agents \cup {Orchestrator} |->
                     IF b \in resumed THEN "running" ELSE IF b = a THEN "done" ELSE view.status[b]],
       out |-> left]
StatusAfter(e) ==
  CASE e.type = "session_start" -> NoStatus
    [] e.type = "delegation_start" ->
         [status |-> WithStatus(WithStatus(view.status, e.agent, "running"), e.caller, "waiting"),
          out |-> {pair \in view.out : pair[2] # e.agent} \cup {<<e.caller, e.agent>>}]
    [] e.type = "worker_tool_start" ->
         IF Waits(e.agent) THEN view
         ELSE [view EXCEPT !.status = WithStatus(view.status, e.agent, "running")]
    [] e.type = "delegation_end" -> EndStatus(e.agent)

-----------------------------------------------------------------------------
(* The runs *)

\* emitHiveEvent, and what becomes of the event.
Log(event) ==
  /\ events' = Append(events, event)
  /\ rows' = MaterializeTypedEvent(event, Len(events) + 1)
  /\ usage' = ProjectUsageEvent(event)
  /\ view' = StatusAfter(event)
Emit(event) == IF delegating THEN Log(event) ELSE UNCHANGED recordVars
Room == Len(events) < MaxLog

Ends(a) == {i \in DOMAIN events : events[i].type = "delegation_end" /\ events[i].agent = a}

\* restoreRuntimeCounters: the last row of an agent tells its lifetime.
Restored(a) == IF Ends(a) = {} THEN 0 ELSE events[Max(Ends(a))].lifetime

\* session_start and the change to a mode that delegates.
StartSession ==
  /\ ~live /\ Room
  /\ live' = TRUE /\ delegating' = TRUE
  /\ counter' = [a \in Agents |-> Restored(a)]
  /\ Log(Event("session_start", Orchestrator, Orchestrator))
  /\ UNCHANGED <<open, transcript>>

Crash ==
  /\ live
  /\ live' = FALSE /\ open' = {}
  /\ UNCHANGED <<delegating, counter, transcript, recordVars>>

\* activateTeamRuntimes: new runtimes, and the sessions of the old ones are disposed.
ToggleMode ==
  /\ live
  /\ open = {} \/ MidRun
  /\ delegating' = ~delegating
  /\ counter' = [a \in Agents |-> Restored(a)]
  /\ open' = {[r EXCEPT !.current = FALSE] : r \in open}
  /\ UNCHANGED <<live, transcript, recordVars>>

Runs(a) == \E r \in open : r.agent = a /\ r.current
MayDelegate(caller, a) ==
  /\ live /\ delegating /\ Room
  /\ caller = Orchestrator \/ Runs(caller)
  /\ ~Runs(a)
Delegate(caller, a) ==
  /\ MayDelegate(caller, a)
  /\ open' = open \cup {[agent |-> a, caller |-> caller, start |-> Len(events) + 1,
                         prior |-> counter[a], current |-> TRUE]}
  /\ Emit(Event("delegation_start", a, caller))
  /\ UNCHANGED <<live, delegating, counter, transcript>>

\* emitSetupFailure: the session of the worker was not created, or its hooks were not
\* installed; the end costs nothing, and the counters are told as they are.
SetupFailure(caller, a) ==
  /\ MayDelegate(caller, a)
  /\ Emit(EndEvent(a, caller, 0, counter[a], 0))
  /\ UNCHANGED <<live, delegating, open, counter, transcript>>

CallTool(r) ==
  /\ r \in open /\ r.current /\ Room
  /\ Emit(Event("worker_tool_start", r.agent, r.caller))
  /\ UNCHANGED <<live, delegating, open, counter, transcript>>

\* message_end
Message(r) ==
  /\ r \in open /\ r.current
  /\ transcript[r.agent] < MaxTokens
  /\ transcript' = [transcript EXCEPT ![r.agent] = @ + 1]
  /\ counter' = [counter EXCEPT ![r.agent] = @ + 1]
  /\ UNCHANGED <<live, delegating, open, recordVars>>

\* runPromptAndFinalize and emitDelegationEnd: the counters become what the session
\* counted, and the difference to those at the start is what the run has cost.  The
\* prompt of a caller ends after the delegations in it.
Delta(now, prior) == IF now > prior THEN now - prior ELSE 0
EndRun(r) ==
  LET lifetime == transcript[r.agent] IN
  /\ r \in open /\ Room
  /\ \A s \in open : s.caller = r.agent => s.current # r.current
  /\ open' = open \ {r}
  /\ counter' = IF r.current THEN [counter EXCEPT ![r.agent] = lifetime] ELSE counter
  /\ Emit(EndEvent(r.agent, r.caller, Delta(lifetime, r.prior), lifetime, r.start))
  /\ UNCHANGED <<live, delegating, transcript>>

SpanInit ==
  /\ live = FALSE /\ delegating = FALSE
  /\ open = {}
  /\ counter = [a \in Agents |-> 0]
  /\ transcript = [a \in Agents |-> 0]
  /\ events = <<>> /\ rows = {}
  /\ usage = [a \in Agents |-> 0]
  /\ view = NoStatus
SpanNext ==
  \/ StartSession \/ Crash \/ ToggleMode
  \/ \E a \in Agents, c \in Agents \cup {Orchestrator} : Delegate(c, a) \/ SetupFailure(c, a)
  \/ \E r \in open : CallTool(r) \/ Message(r) \/ EndRun(r)

-----------------------------------------------------------------------------
(* What the telemetry promises *)

StartsOf(a) == {i \in DOMAIN events : events[i].type = "delegation_start" /\ events[i].agent = a}

(* The end of a run is written into the row its start made, whatever runs of the worker
   crashed before.  A row has another end, of a delegation that failed before it started,
   only if its run has crashed: it does not run and never reported an end. *)
RowsAreRuns ==
  \A r \in rows :
    r.end # 0 =>
      /\ events[r.end].run \in {r.start, 0}
      /\ r.start # 0 =>
           /\ r.start < r.end
           /\ ~\E o \in open : o.start = r.start
           /\ \A i \in Ends(r.agent) : events[i].run = r.start => i = r.end

\* The run of a worker that started last has reported its end.
Reported(a) ==
  \E i \in Ends(a) : events[i].run # 0 /\ \A start \in StartsOf(a) : start <= events[i].run

(* No token is summed twice, and once the run that started last has reported its end,
   all of the worker are summed, those of runs that crashed included.  A setup that fails
   after a crash sums nothing: what the crashed run has cost waits for the next run. *)
EveryTokenOnce ==
  \A a \in Agents : usage[a] <= transcript[a] /\ (Reported(a) => usage[a] = transcript[a])

(* Every end is in one row, which has its tokens, and no other row has any: no run
   overwrites the tokens of another, so the rows sum to what was projected. *)
RowsAddUpToUsage ==
  /\ \A r \in rows : r.end = 0 => r.tokens = 0
  /\ \A a \in Agents : \A i \in Ends(a) :
       \E r \in rows :
         /\ r.agent = a /\ r.end = i /\ r.tokens = events[i].delta
         /\ \A s \in rows : s.end = i => s = r
  /\ \A r \in rows : r.end # 0 => r.end \in Ends(r.agent)

(* While the session runs, the page shows a worker running, or waiting for those it
   delegated to, exactly while it does. *)
StatusesAreTrue ==
  live =>
    \A a \in Agents :
      LET waiting == \E r \in open : r.caller = a
          shown == view.status[a]
      IN  /\ shown = "waiting" <=> waiting
          /\ shown = "running" <=> Runs(a) /\ ~waiting

SpansAreTrue == RowsAreRuns /\ EveryTokenOnce /\ RowsAddUpToUsage /\ StatusesAreTrue
=============================================================================
