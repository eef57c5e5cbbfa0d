--------------------------- MODULE WorkerDispatch ---------------------------
(***************************************************************************)
(* dispatchAgent (src/engine/dispatch.ts) from the pre-flight checks to    *)
(* the revoke in its finally block, with the run lifecycle it drives       *)
(* (dispatch-lifecycle.ts, worker-lifecycle.ts), the run slots it takes    *)
(* (WorkerQueue), and the two things that sweep over its workers from      *)
(* outside: a mode switch and the end of the Pi session.                   *)
(*                                                                         *)
(* All calls share one event loop.  A step of this module is what runs     *)
(* between two awaits; everything else in the process may run in between.  *)
(***************************************************************************)
EXTENDS WorkerQueue

CONSTANTS
  Agents,            \* configured workers of the active team
  Main,              \* the visible session, which calls delegate_agent itself
  None,
  MayDelegate,       \* pairs <<caller, worker>> that canDelegateTo accepts
  TimedAgents,       \* workers configured with a timeoutMs
  ParallelToolCalls, \* may one session have several delegate_agent calls open?
  Overrides,         \* whether a call carries a domain override: values to try
  Faults,            \* steps that throw: "reload", "start", "load"
  Operator,          \* what the user does besides calling: "abort", "session"
  MaxEpoch           \* bound: how often the runtimes are rebuilt

ASSUME DispatchAssumption ==
  /\ Main \notin Agents
  /\ None \notin Calls
  /\ Main \notin Calls
  /\ MayDelegate \subseteq (Agents \cup {Main}) \X Agents
  /\ TimedAgents \subseteq Agents
  /\ ParallelToolCalls \in BOOLEAN
  /\ Overrides \subseteq BOOLEAN
  /\ Faults \subseteq {"reload", "start", "load"}
  /\ Operator \subseteq {"abort", "session"}
  /\ MaxEpoch \in Nat

VARIABLES
  pc,              \* where each call stands in dispatchAgent
  caller,          \* the call whose worker issued this call, or Main
  runtime,         \* the AgentRuntime object each call captured
  status,          \* runtime.status
  attached,        \* runtime.session: the call whose session it is
  handle,          \* the worker handle map: agent name to session
  live,            \* calls whose session is open (created, not disposed)
  cancelled,       \* calls whose abortedByParent flag is set
  granted,         \* calls with an unrevoked domain override
  saved,           \* savedActiveOverrides of each call
  activeOverrides, \* state.activeOverrides: the call whose scope is in force
  mode,            \* state.mode
  epoch,           \* generation of state.runtimes
  shuttingDown     \* state.shuttingDown

runVars == <<pc, caller, runtime, status, attached, handle, live, cancelled>>
scopeVars == <<granted, saved, activeOverrides>>
hostVars == <<mode, epoch, shuttingDown>>
vars == <<queueVars, runVars, scopeVars, hostVars>>

\* activateTeamRuntimes builds new objects; a call keeps the one it captured.
Runtimes == Agents \X (0..MaxEpoch)
AgentOf(r) == r[1]
EpochOf(r) == r[2]

Modes == {"normal", "plan", "hive"}
Statuses == {"idle", "running", "done", "error"}
Stages == {"idle", "acquiring", "reloading", "delegating", "running", "ending",
           "failing", "crashed"}
Over == {"idle", "crashed"}
\* Stages in which the call is between taking a slot and giving it back.
Preparing == {"reloading", "delegating"}

TypeOK ==
  /\ QueueTypeOK
  /\ pc \in [Calls -> Stages]
  /\ caller \in [Calls -> Calls \cup {Main}]
  /\ runtime \in [Calls -> Runtimes \cup {None}]
  /\ status \in [Runtimes -> Statuses]
  /\ attached \in [Runtimes -> Calls \cup {None}]
  /\ handle \in [Agents -> Calls \cup {None}]
  /\ live \in SUBSET Calls
  /\ cancelled \in SUBSET Calls
  /\ granted \in SUBSET Calls
  /\ saved \in [Calls -> Calls \cup {None}]
  /\ activeOverrides \in Calls \cup {None}
  /\ mode \in Modes
  /\ epoch \in 0..MaxEpoch
  /\ shuttingDown \in BOOLEAN

Init ==
  /\ QueueInit
  /\ pc = [d \in Calls |-> "idle"]
  /\ caller = [d \in Calls |-> Main]
  /\ runtime = [d \in Calls |-> None]
  /\ status = [r \in Runtimes |-> "idle"]
  /\ attached = [r \in Runtimes |-> None]
  /\ handle = [a \in Agents |-> None]
  /\ live = {}
  /\ cancelled = {}
  /\ granted = {}
  /\ saved = [d \in Calls |-> None]
  /\ activeOverrides = None
  /\ mode = "normal"
  /\ epoch = 0
  /\ shuttingDown = FALSE

-----------------------------------------------------------------------------
(* Issuing a call *)

OpenCallsOf(c) == {d \in Calls : pc[d] \notin Over /\ caller[d] = c}

\* delegate_agent is a tool of the main session outside normal mode, and of a
\* worker whose prompt is running.
MayIssue(c) ==
  /\ IF c = Main THEN mode # "normal" /\ ~shuttingDown
                 ELSE pc[c] = "running" /\ c \in live /\ c \notin cancelled
  /\ ParallelToolCalls \/ OpenCallsOf(c) = {}

CallerName(c) == IF c = Main THEN Main ELSE AgentOf(runtime[c])

\* Mutant: the snapshot is taken after the assignment.
GrantSavesItself(d, override) ==
  IF override
    THEN /\ granted' = granted \cup {d}
         /\ saved' = [saved EXCEPT ![d] = d]
         /\ activeOverrides' = d
    ELSE UNCHANGED scopeVars

\* The scope in force is replaced, and what it replaced is kept for the revoke.
Grant(d, override) ==
  IF override
    THEN /\ granted' = granted \cup {d}
         /\ saved' = [saved EXCEPT ![d] = activeOverrides]
         /\ activeOverrides' = d
    ELSE UNCHANGED scopeVars

\* Mutant: the revoke blanks the scope instead of handing it back.
RevokeBlanks(d) ==
  IF d \in granted
    THEN /\ granted' = granted \ {d}
         /\ saved' = [saved EXCEPT ![d] = None]
         /\ activeOverrides' = None
    ELSE UNCHANGED scopeVars

\* The finally block of dispatchAgent.
Revoke(d) ==
  IF d \in granted
    THEN /\ granted' = granted \ {d}
         /\ saved' = [saved EXCEPT ![d] = None]
         /\ activeOverrides' = saved[d]
    ELSE UNCHANGED scopeVars

\* Pre-flight, grant and the request for a slot happen before the first await.
Dispatch(d, c, a, override) ==
  /\ pc[d] = "idle"
  /\ MayIssue(c)
  /\ <<CallerName(c), a>> \in MayDelegate
  /\ status[<<a, epoch>>] # "running"
  /\ pc' = [pc EXCEPT ![d] = "acquiring"]
  /\ caller' = [caller EXCEPT ![d] = c]
  /\ runtime' = [runtime EXCEPT ![d] = <<a, epoch>>]
  /\ Grant(d, override)
  /\ AcquireWorkerSlot(d)
  /\ UNCHANGED <<status, attached, handle, live, cancelled, hostVars>>

\* The call returns (or throws) to its caller.
EndCall(d) ==
  /\ pc' = [pc EXCEPT ![d] = "idle"]
  /\ caller' = [caller EXCEPT ![d] = Main]
  /\ runtime' = [runtime EXCEPT ![d] = None]
  /\ Revoke(d)

-----------------------------------------------------------------------------
(* Before the run: every way out of the preparation *)

Refused(d) ==
  /\ pc[d] = "acquiring"
  /\ Return(d)
  /\ EndCall(d)
  /\ UNCHANGED <<status, attached, handle, live, cancelled, hostVars>>

\* Mutant: any answer but waiting counts as a slot.
HasAnswer(d) == pc[d] = "acquiring" /\ promise[d] # "waiting"

HasSlot(d) == pc[d] = "acquiring" /\ promise[d] = "acquired"

\* The second look at the status, by a call that may have waited: the worker
\* was started meanwhile, so the slot goes back.
AlreadyRunning(d) ==
  /\ HasSlot(d)
  /\ status[runtime[d]] = "running"
  /\ GiveBack(d)
  /\ EndCall(d)
  /\ UNCHANGED <<status, attached, handle, live, cancelled, hostVars>>

\* The worker prompt cannot be built, or the model cannot be resolved; only the
\* second of them marks the runtime.
CannotPrepare(d) ==
  /\ HasSlot(d)
  /\ status[runtime[d]] # "running"
  /\ status' \in {status, [status EXCEPT ![runtime[d]] = "error"]}
  /\ GiveBack(d)
  /\ EndCall(d)
  /\ UNCHANGED <<attached, handle, live, cancelled, hostVars>>

StartReload(d) ==
  /\ HasSlot(d)
  /\ status[runtime[d]] # "running"
  /\ pc' = [pc EXCEPT ![d] = "reloading"]
  /\ UNCHANGED <<queueVars, caller, runtime, status, attached, handle, live, cancelled,
                 scopeVars, hostVars>>

\* workerLoader.reload() is awaited outside every try that gives the slot back.
ReloadThrows(d) ==
  /\ "reload" \in Faults
  /\ pc[d] = "reloading"
  /\ pc' = [pc EXCEPT ![d] = "crashed"]
  /\ Revoke(d)
  /\ UNCHANGED <<queueVars, caller, runtime, status, attached, handle, live, cancelled, hostVars>>

StartDelegate(d) ==
  /\ pc[d] = "reloading"
  /\ pc' = [pc EXCEPT ![d] = "delegating"]
  /\ UNCHANGED <<queueVars, caller, runtime, status, attached, handle, live, cancelled,
                 scopeVars, hostVars>>

\* Mutant: the early return of the refusal skips the release.
BudgetRefusedKeepsSlot(d) ==
  /\ pc[d] = "delegating"
  /\ EndCall(d)
  /\ UNCHANGED <<queueVars, status, attached, handle, live, cancelled, hostVars>>

\* delegateAgent threw BudgetExhaustedError.
BudgetRefused(d) ==
  /\ pc[d] = "delegating"
  /\ GiveBack(d)
  /\ EndCall(d)
  /\ UNCHANGED <<status, attached, handle, live, cancelled, hostVars>>

\* delegateAgent threw anything else, and there is no session.
DelegateThrows(d) ==
  /\ pc[d] = "delegating"
  /\ status' = [status EXCEPT ![runtime[d]] = "error"]
  /\ GiveBack(d)
  /\ pc' = [pc EXCEPT ![d] = "failing"]
  /\ UNCHANGED <<caller, runtime, attached, handle, live, cancelled, scopeVars, hostVars>>

\* delegateAgent returned a session without budget hooks: it is attached to the
\* runtime and closed at once, which also gives the slot back.
PartialSession(d) ==
  /\ pc[d] = "delegating"
  /\ status' = [status EXCEPT ![runtime[d]] = "error"]
  /\ attached' = [attached EXCEPT ![runtime[d]] = None]
  /\ GiveBack(d)
  /\ pc' = [pc EXCEPT ![d] = "failing"]
  /\ UNCHANGED <<caller, runtime, handle, live, cancelled, scopeVars, hostVars>>

\* Mutant: the failure path releases a slot that is already back.
FailureReportedReleases(d) ==
  /\ pc[d] = "failing"
  /\ GiveBack(d)
  /\ EndCall(d)
  /\ UNCHANGED <<status, attached, handle, live, cancelled, hostVars>>

\* delegation_end of a run that never was: emitSetupFailure.
FailureReported(d) ==
  /\ pc[d] = "failing"
  /\ EndCall(d)
  /\ UNCHANGED <<queueVars, status, attached, handle, live, cancelled, hostVars>>

-----------------------------------------------------------------------------
(* The run *)

\* Mutant: the status is left for somebody else to set.
OpenRunUnmarked(d) ==
  /\ pc[d] = "delegating"
  /\ handle' = [handle EXCEPT ![AgentOf(runtime[d])] = d]
  /\ attached' = [attached EXCEPT ![runtime[d]] = d]
  /\ live' = live \cup {d}
  /\ cancelled' = IF d \in aborted THEN cancelled \cup {d} ELSE cancelled
  /\ UNCHANGED <<queueVars, caller, runtime, status, hostVars>>

\* Mutant: the handle is registered under the name of the caller.
OpenRunMisfiled(d) ==
  /\ pc[d] = "delegating"
  /\ handle' = IF caller[d] = Main THEN handle
               ELSE [handle EXCEPT ![AgentOf(runtime[caller[d]])] = d]
  /\ status' = [status EXCEPT ![runtime[d]] = "running"]
  /\ attached' = [attached EXCEPT ![runtime[d]] = d]
  /\ live' = live \cup {d}
  /\ cancelled' = IF d \in aborted THEN cancelled \cup {d} ELSE cancelled
  /\ UNCHANGED <<queueVars, caller, runtime, hostVars>>

\* The session is ready.  A signal that fired during the preparation is seen
\* here: the run starts cancelled and its prompt is never sent.
OpenRun(d) ==
  /\ pc[d] = "delegating"
  /\ handle' = [handle EXCEPT ![AgentOf(runtime[d])] = d]
  /\ status' = [status EXCEPT ![runtime[d]] = "running"]
  /\ attached' = [attached EXCEPT ![runtime[d]] = d]
  /\ live' = live \cup {d}
  /\ cancelled' = IF d \in aborted THEN cancelled \cup {d} ELSE cancelled
  /\ UNCHANGED <<queueVars, caller, runtime, hostVars>>

StartRun(d) ==
  /\ OpenRun(d)
  /\ pc' = [pc EXCEPT ![d] = "running"]
  /\ UNCHANGED scopeVars

\* Writing the start record or subscribing to the session throws: nothing
\* between registerWorkerHandle and the prompt is guarded.
StartThrows(d) ==
  /\ "start" \in Faults
  /\ OpenRun(d)
  /\ pc' = [pc EXCEPT ![d] = "crashed"]
  /\ Revoke(d)

\* abortSignal of a main call is the user's; that of a nested call fires when
\* the run it was issued from is aborted.
AbortCall(d) ==
  /\ IF caller[d] = Main THEN "abort" \in Operator ELSE caller[d] \in cancelled
  /\ pc[d] \notin Over
  /\ Abort(d)
  /\ cancelled' = IF pc[d] = "running" THEN cancelled \cup {d} ELSE cancelled
  /\ UNCHANGED <<pc, caller, runtime, status, attached, handle, live, scopeVars, hostVars>>

TimeOut(d) ==
  /\ pc[d] = "running"
  /\ AgentOf(runtime[d]) \in TimedAgents
  /\ d \notin cancelled
  /\ cancelled' = cancelled \cup {d}
  /\ UNCHANGED <<queueVars, pc, caller, runtime, status, attached, handle, live, scopeVars,
                 hostVars>>

\* Mutant: the final status is written on success only.
RunEndsUnmarked(d) ==
  /\ pc[d] = "running"
  /\ OpenCallsOf(d) = {}
  /\ status' = IF d \in cancelled THEN status ELSE [status EXCEPT ![runtime[d]] = "done"]
  /\ attached' = [attached EXCEPT ![runtime[d]] = None]
  /\ live' = live \ {d}
  /\ cancelled' = cancelled \ {d}
  /\ GiveBack(d)
  /\ pc' = [pc EXCEPT ![d] = "ending"]
  /\ UNCHANGED <<caller, runtime, handle, scopeVars, hostVars>>

\* session.prompt settles, once the calls its tools made have returned.  Close
\* disposes the session, gives the slot back and sets the final status before
\* the next await; a waiter it resumes runs after that.
RunEnds(d) ==
  /\ pc[d] = "running"
  /\ OpenCallsOf(d) = {}
  /\ \E failed \in BOOLEAN :
       /\ d \in cancelled \/ shuttingDown => failed
       /\ status' = [status EXCEPT ![runtime[d]] = IF failed THEN "error" ELSE "done"]
  /\ attached' = [attached EXCEPT ![runtime[d]] = None]
  /\ live' = live \ {d}
  /\ cancelled' = cancelled \ {d}
  /\ GiveBack(d)
  /\ pc' = [pc EXCEPT ![d] = "ending"]
  /\ UNCHANGED <<caller, runtime, handle, scopeVars, hostVars>>

\* delegation_end is out; the handle goes by agent name.
RunReported(d) ==
  /\ pc[d] = "ending"
  /\ handle' = [handle EXCEPT ![AgentOf(runtime[d])] = None]
  /\ EndCall(d)
  /\ UNCHANGED <<queueVars, status, attached, live, cancelled, hostVars>>

-----------------------------------------------------------------------------
(* The host session *)

CurrentSessions == {attached[<<a, epoch>>] : a \in Agents} \ {None}

\* activateTeamRuntimes: close what the current objects hold, and replace them.
RebuildRuntimes ==
  /\ epoch < MaxEpoch
  /\ live' = live \ CurrentSessions
  /\ attached' = [r \in Runtimes |-> IF EpochOf(r) = epoch THEN None ELSE attached[r]]
  /\ epoch' = epoch + 1

\* Mutant: the drain guard looks at the queue instead of the counter.
ApplyModeQueueOnly(m) ==
  /\ ~shuttingDown
  /\ m # mode
  /\ workerQueue = <<>>
  /\ mode' = m
  /\ IF m = "normal" THEN UNCHANGED <<live, attached, epoch>> ELSE RebuildRuntimes
  /\ UNCHANGED <<queueVars, pc, caller, runtime, status, handle, cancelled, scopeVars,
                 shuttingDown>>

\* applyMode: the drain guard refuses while a slot is reserved.
ApplyMode(m) ==
  /\ ~shuttingDown
  /\ m # mode
  /\ activeRuns = 0
  /\ mode' = m
  /\ IF m = "normal" THEN UNCHANGED <<live, attached, epoch>> ELSE RebuildRuntimes
  /\ UNCHANGED <<queueVars, pc, caller, runtime, status, handle, cancelled, scopeVars,
                 shuttingDown>>

SessionShutdown ==
  /\ "session" \in Operator
  /\ ~shuttingDown
  /\ shuttingDown' = TRUE
  /\ CancelWorkerQueue
  /\ live' = live \ CurrentSessions
  /\ attached' = [r \in Runtimes |-> IF EpochOf(r) = epoch THEN None ELSE attached[r]]
  /\ UNCHANGED <<pc, caller, runtime, status, handle, cancelled, scopeVars, mode, epoch>>

\* The next session reloads the team whatever is still running, and asks for
\* normal mode, which the drain guard may refuse.
SessionStart ==
  /\ "session" \in Operator
  /\ shuttingDown
  /\ shuttingDown' = FALSE
  /\ RebuildRuntimes
  /\ mode' = IF activeRuns = 0 THEN "normal" ELSE mode
  /\ UNCHANGED <<queueVars, pc, caller, runtime, status, handle, cancelled, scopeVars>>

\* The config of the next session does not load: the team stays as it is, and the
\* mode is set back without asking the drain guard.
SessionStartFails ==
  /\ {"session", "load"} \subseteq Operator \cup Faults
  /\ shuttingDown
  /\ shuttingDown' = FALSE
  /\ mode' = "normal"
  /\ UNCHANGED <<queueVars, runVars, scopeVars, epoch>>

Step(d) ==
  \/ Refused(d) \/ AlreadyRunning(d) \/ CannotPrepare(d)
  \/ StartReload(d) \/ ReloadThrows(d) \/ StartDelegate(d)
  \/ BudgetRefused(d) \/ DelegateThrows(d) \/ PartialSession(d) \/ FailureReported(d)
  \/ StartRun(d) \/ StartThrows(d) \/ RunEnds(d) \/ RunReported(d)

Next ==
  \/ \E d \in Calls :
       \/ \E c \in Calls \cup {Main}, a \in Agents, o \in Overrides : Dispatch(d, c, a, o)
       \/ Step(d)
       \/ AbortCall(d)
       \/ TimeOut(d)
  \/ \E m \in Modes : ApplyMode(m)
  \/ SessionShutdown
  \/ SessionStart
  \/ SessionStartFails

Safety == Init /\ [][Next]_vars

\* The event loop runs every continuation that is ready; a prompt settles once
\* its tool calls have, timers fire, and an aborted run aborts its tool calls.
\* Nothing obliges the user to call, abort, switch the mode or quit.
Fairness ==
  \A d \in Calls :
    /\ WF_vars(Step(d))
    /\ WF_vars(TimeOut(d))
    /\ WF_vars(AbortCall(d) /\ caller[d] # Main)

Spec == Safety /\ Fairness

-----------------------------------------------------------------------------
(* Properties of the slots *)

\* Dispatcher and queue keep each other's books: every call asks for a slot once
\* and gives back only a slot it holds, on each of its ways out, so that every
\* step is a step of WorkerQueue or leaves the queue alone.
QueueProtocol == QueueSafety

\* No worker is prepared or run without a slot, so the sessions open at a time
\* are within settings.maxParallel.
RunsHoldSlots ==
  /\ \A d \in Calls : pc[d] \in Preparing \cup {"running"} => promise[d] = "acquired"
  /\ MaxParallel # Unset => Cardinality(live) <= MaxParallel

\* A call that is over holds no slot (widget.ts, the drain guard: "until every
\* reserved run slot has completed its unconditional cleanup").
SlotsComeBack == \A d \in Calls : pc[d] \in Over => promise[d] # "acquired"

\* The mode changes only when no call holds a slot or waits for one: a team is
\* never swapped, and enforcement never switched off, under a worker.
ModeSwitchDrains ==
  [][mode' # mode => \A d \in Calls : promise[d] \notin {"waiting", "acquired"}]_vars

(* Properties of the run *)

Running(d) == pc[d] = "running"

\* An agent runs one task at a time: its runtime, its counters and its handle
\* exist once.
OneRunPerAgent ==
  \A d, e \in Calls : Running(d) /\ Running(e) /\ runtime[d] = runtime[e] => d = e

\* The status tells the truth in both directions.  A worker shown running is
\* being run by somebody, or no call could ever be issued to it again; and while
\* it runs nothing else can be started on it.
StatusTruthful ==
  \A r \in Runtimes : status[r] = "running" <=> \E d \in Calls : Running(d) /\ runtime[d] = r

\* While a worker runs, the operator commands find its session, not another
\* one, under its name.
RunIsAddressable == \A d \in Calls : Running(d) => handle[AgentOf(runtime[d])] = d

\* A session that is open belongs to a run that will close it, and hangs on the
\* current runtime object, where a mode switch or a shutdown finds it.
OpenSessionsOwned ==
  \A d \in live : Running(d) /\ attached[runtime[d]] = d /\ EpochOf(runtime[d]) = epoch

\* What the other components read about a run is true: its slot, its status, its handle
\* and the runtime its session hangs on tell of one and the same run.
RunsAreAccounted ==
  SlotsComeBack /\ OneRunPerAgent /\ StatusTruthful /\ RunIsAddressable /\ OpenSessionsOwned

(* Properties of the domain override *)

\* A worker's own tool calls (none of its delegations is open) are checked
\* against the override granted to its call.
OwnScopeInForce ==
  \A d \in granted : Running(d) /\ OpenCallsOf(d) = {} => activeOverrides = d

\* The override is gone with the last call that was granted one.
OverrideReverted == granted = {} => activeOverrides = None

\* A domain override holds for the call it was granted to, and no longer.
ScopesFollowCalls == OwnScopeInForce /\ OverrideReverted

(* Liveness *)

\* Every call that was issued returns.
CallReturns == \A d \in Calls : pc[d] = "acquiring" ~> pc[d] \in Over
=============================================================================
