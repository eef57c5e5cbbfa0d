-------------------------- MODULE OperatorCommands --------------------------
(***************************************************************************)
(* Operator commands: the pickup file the dashboard and the command tools  *)
(* append to, the 250 ms poll that drains it (integration/operator-pickup),*)
(* the transient wake of workers that are not running (auto-wake) and the  *)
(* worker handles the commands act on (engine/budget/worker-tools).        *)
(*                                                                         *)
(* A poll does not ask whether the one before it is done, so several       *)
(* drains of the file can be in progress: each is a member of Ticks.       *)
(***************************************************************************)
EXTENDS Naturals, Sequences, FiniteSets

CONSTANTS
  Agents,     \* configured workers
  Rows,       \* rows that are appended: bounds the number of requests
  Ticks,      \* drains that can be in progress at a time
  RunSessions,      \* sessions of dispatched runs
  WakeSessions,     \* sessions reopened by a wake
  RespawnSessions,  \* sessions a respawn creates
  Commands,   \* commands the operator issues
  Operator,   \* what else happens: "session", "mode", "crash"
  Racing,     \* may a row be appended while a drain is in progress?
  None

\* Commands for which a worker that is not running is woken.
Waking == {"end", "compact", "pause", "snapshot", "resume"}

\* Commands that await something: the session's abort, compaction or idleness,
\* or the replacement of the session.
Awaited == {"end", "compact", "pause", "force-end", "respawn", "tear-down-all"}

AllCommands == Waking \cup Awaited \cup
  {"restore", "abort-compaction", "force-kill", "hive_reload_agent_config"}

Sessions == RunSessions \cup WakeSessions \cup RespawnSessions

ASSUME OperatorAssumption ==
  /\ None \notin Agents \cup Rows \cup Ticks \cup Sessions
  /\ None \notin Agents \X Commands
  /\ RunSessions \cap WakeSessions = {}
  /\ RespawnSessions \cap (RunSessions \cup WakeSessions) = {}
  /\ Commands \subseteq AllCommands
  /\ Operator \subseteq {"session", "mode", "crash"}
  /\ Racing \in BOOLEAN

VARIABLES
  file,       \* rows of operator-command-pickup.jsonl
  request,    \* agent and command of each row that was ever appended
  answered,   \* how often this process has answered a row, counted up to two
  stage,      \* where each drain stands
  batch,      \* rows a drain has yet to answer, the current one first
  used,       \* the session an awaited command was started on
  handle,     \* workerHandles
  inflight,   \* inflightWakes
  opening,    \* wakes whose factory is running: pairs of agent and session
  run,        \* the session of the dispatched run of each agent
  closing,    \* agents whose run is closed and not yet unregistered
  open,       \* sessions created and not disposed
  mode,       \* state.mode, as far as the poll looks at it
  polling     \* pickupTimer is set

drainVars == <<answered, stage, batch, used>>
sessionVars == <<run, closing, open>>
wakeVars == <<inflight, opening>>
hostVars == <<mode, polling>>
vars == <<file, request, drainVars, handle, wakeVars, sessionVars, hostVars>>

Stages == {"idle", "next", "waking", "woken", "executing"}

AgentOf(r) == request[r][1]
CommandOf(r) == request[r][2]
RowsOf(s) == {s[i] : i \in DOMAIN s}

TypeOK ==
  /\ file \in Seq(Rows)
  /\ request \in [Rows -> (Agents \X Commands) \cup {None}]
  /\ answered \in [Rows -> 0..2]
  /\ stage \in [Ticks -> Stages]
  /\ batch \in [Ticks -> Seq(Rows)]
  /\ used \in [Ticks -> Sessions \cup {None}]
  /\ handle \in [Agents -> Sessions \cup {None}]
  /\ inflight \in [Agents -> Sessions \cup {None}]
  /\ opening \in SUBSET (Agents \X Sessions)
  /\ run \in [Agents -> Sessions \cup {None}]
  /\ closing \in SUBSET Agents
  /\ open \in SUBSET Sessions
  /\ mode \in {"normal", "hive"}
  /\ polling \in BOOLEAN

Init ==
  /\ file = <<>>
  /\ request = [r \in Rows |-> None]
  /\ answered = [r \in Rows |-> 0]
  /\ stage = [t \in Ticks |-> "idle"]
  /\ batch = [t \in Ticks |-> <<>>]
  /\ used = [t \in Ticks |-> None]
  /\ handle = [a \in Agents |-> None]
  /\ inflight = [a \in Agents |-> None]
  /\ opening = {}
  /\ run = [a \in Agents |-> None]
  /\ closing = {}
  /\ open = {}
  /\ mode = "normal"
  /\ polling = TRUE

\* Sessions nothing refers to.  A session that is still open then has leaked;
\* its identifier may be used again.
Unreferenced(s) ==
  /\ \A a \in Agents : handle[a] # s /\ run[a] # s /\ <<a, s>> \notin opening
  /\ \A t \in Ticks : used[t] # s

-----------------------------------------------------------------------------
(* The pickup file *)

Quiet == \A t \in Ticks : stage[t] = "idle"

\* The dashboard server is another process, which appends whenever it likes.
QueueOperatorCommand(r, a, c) ==
  /\ request[r] = None
  /\ Racing \/ Quiet
  /\ request' = [request EXCEPT ![r] = <<a, c>>]
  /\ file' = Append(file, r)
  /\ UNCHANGED <<drainVars, handle, wakeVars, sessionVars, hostVars>>

\* From one await to the next a drain does not give way to timers or to what the
\* user does.
Yielded == \A t \in Ticks : stage[t] \notin {"next", "woken"}

\* Mutant: the file is taken away before its rows are invoked.
TickUnlinksFirst(t) ==
  /\ polling
  /\ Yielded
  /\ mode # "normal"
  /\ stage[t] = "idle"
  /\ file # <<>>
  /\ stage' = [stage EXCEPT ![t] = "next"]
  /\ batch' = [batch EXCEPT ![t] = file]
  /\ file' = <<>>
  /\ UNCHANGED <<request, answered, used, handle, wakeVars, sessionVars, hostVars>>

\* Mutant: the newest request first.
TickNewestFirst(t) ==
  /\ polling
  /\ Yielded
  /\ mode # "normal"
  /\ stage[t] = "idle"
  /\ file # <<>>
  /\ stage' = [stage EXCEPT ![t] = "next"]
  /\ batch' = [batch EXCEPT ![t] = [i \in DOMAIN file |-> file[Len(file) + 1 - i]]]
  /\ UNCHANGED <<file, request, answered, used, handle, wakeVars, sessionVars, hostVars>>

\* The timer fires, and the whole file is read; it stays where it is.
Tick(t) ==
  /\ polling
  /\ Yielded
  /\ mode # "normal"
  /\ stage[t] = "idle"
  /\ file # <<>>
  /\ stage' = [stage EXCEPT ![t] = "next"]
  /\ batch' = [batch EXCEPT ![t] = file]
  /\ UNCHANGED <<file, request, answered, used, handle, wakeVars, sessionVars, hostVars>>

Row(t) == Head(batch[t])
Agent(t) == AgentOf(Row(t))
Command(t) == CommandOf(Row(t))

\* Mutant: nobody clears the file.
AnswerKeepsFile(t) ==
  /\ answered' = [answered EXCEPT ![Row(t)] = IF @ < 2 THEN @ + 1 ELSE 2]
  /\ batch' = [batch EXCEPT ![t] = Tail(@)]
  /\ used' = [used EXCEPT ![t] = None]
  /\ stage' = [stage EXCEPT ![t] = IF Len(batch[t]) = 1 THEN "idle" ELSE "next"]
  /\ UNCHANGED file

\* invokeRow returns, with success or with an error that is only counted.  The
\* drain goes on with the next row; after the last one it removes the file, with
\* whatever is in it by then.
Answer(t) ==
  /\ answered' = [answered EXCEPT ![Row(t)] = IF @ < 2 THEN @ + 1 ELSE 2]
  /\ batch' = [batch EXCEPT ![t] = Tail(@)]
  /\ used' = [used EXCEPT ![t] = None]
  /\ IF Len(batch[t]) = 1
       THEN stage' = [stage EXCEPT ![t] = "idle"] /\ file' = <<>>
       ELSE stage' = [stage EXCEPT ![t] = "next"] /\ UNCHANGED file

-----------------------------------------------------------------------------
(* Wake *)

NeedsHandle(c) == c \notin {"tear-down-all", "hive_reload_agent_config"}

\* No handle and no wake: the row fails before the block that releases.
NoHandle(t) ==
  /\ stage[t] = "next"
  /\ NeedsHandle(Command(t))
  /\ Command(t) \notin Waking
  /\ handle[Agent(t)] = None
  /\ Answer(t)
  /\ UNCHANGED <<request, handle, wakeVars, sessionVars, hostVars>>

\* Mutant: every request starts a wake of its own.
GetOrCreateAlways(a) ==
  \E s \in WakeSessions :
    /\ Unreferenced(s)
    /\ open' = open \ {s}
    /\ inflight' = [inflight EXCEPT ![a] = s]
    /\ opening' = opening \cup {<<a, s>>}

\* getOrCreateInflightWake: one factory per agent, whoever else asks shares it.
GetOrCreateInflightWake(a) ==
  \/ /\ inflight[a] # None
     /\ UNCHANGED <<open, inflight, opening>>
  \/ /\ inflight[a] = None
     /\ \E s \in WakeSessions :
          /\ Unreferenced(s)
          /\ open' = open \ {s}
          /\ inflight' = [inflight EXCEPT ![a] = s]
          /\ opening' = opening \cup {<<a, s>>}

AskForWake(t) ==
  /\ stage[t] = "next"
  /\ Command(t) \in Waking
  /\ handle[Agent(t)] = None
  /\ GetOrCreateInflightWake(Agent(t))
  /\ used' = [used EXCEPT ![t] = inflight'[Agent(t)]]
  /\ stage' = [stage EXCEPT ![t] = "waking"]
  /\ UNCHANGED <<file, request, answered, batch, handle, run, closing, hostVars>>

WakeIsOver(a, s) ==
  /\ <<a, s>> \in opening
  /\ opening' = opening \ {<<a, s>>}
  /\ inflight' = IF inflight[a] = s THEN [inflight EXCEPT ![a] = None] ELSE inflight

\* tryAutoWake reopened the persisted session and registers it, over whatever is
\* registered by now; everyone who asked goes on.
WakeOpens(a, s) ==
  /\ WakeIsOver(a, s)
  /\ open' = open \cup {s}
  /\ handle' = [handle EXCEPT ![a] = s]
  /\ stage' = [t \in Ticks |-> IF stage[t] = "waking" /\ used[t] = s THEN "woken" ELSE stage[t]]
  /\ UNCHANGED <<file, request, answered, batch, used, run, closing, hostVars>>

\* Not declared, nothing persisted, or a throw: no session is opened.
WakeFails(a, s) ==
  /\ WakeIsOver(a, s)
  /\ UNCHANGED <<file, request, drainVars, handle, sessionVars, hostVars>>

\* Mutant: of the drains that share a wake only one is told that it failed.
NotWokenOnce(t) ==
  /\ stage[t] = "waking"
  /\ <<Agent(t), used[t]>> \notin opening
  /\ \A u \in Ticks \ {t} : stage[u] # "waking"
  /\ Answer(t)
  /\ UNCHANGED <<request, handle, wakeVars, sessionVars, hostVars>>

\* The row of a wake that failed.
NotWoken(t) ==
  /\ stage[t] = "waking"
  /\ <<Agent(t), used[t]>> \notin opening
  /\ Answer(t)
  /\ UNCHANGED <<request, handle, wakeVars, sessionVars, hostVars>>

-----------------------------------------------------------------------------
(* The commands *)

Unregister(a) == handle' = [handle EXCEPT ![a] = None]

\* Mutant: a command that ran to its end leaves its wake registered.
ReleaseSkipped(t) == UNCHANGED handle

\* The inner finally: releaseWorkerWake goes by agent name, and does not ask
\* whether this row woke anybody.
Release(t) == IF Command(t) \in Waking THEN Unregister(Agent(t)) ELSE UNCHANGED handle

\* The command finds a handle, at once or after a wake.
Present(t) ==
  /\ stage[t] \in {"next", "woken"}
  /\ NeedsHandle(Command(t))
  /\ handle[Agent(t)] # None

\* A drain that shared the wake has released it already.
WakeIsGone(t) ==
  /\ stage[t] = "woken"
  /\ handle[Agent(t)] = None
  /\ Answer(t)
  /\ UNCHANGED <<request, handle, wakeVars, sessionVars, hostVars>>

\* Commands that await nothing; none of them opens or closes a session.
Immediate(t) ==
  /\ \/ Present(t) /\ Command(t) \in {"snapshot", "resume", "restore", "abort-compaction"}
     \/ stage[t] = "next" /\ Command(t) = "hive_reload_agent_config"
  /\ Release(t)
  /\ Answer(t)
  /\ UNCHANGED <<request, wakeVars, sessionVars, hostVars>>

\* Mutant: the disposed session stays addressable.
ForceKillKeepsHandle(t) ==
  /\ Present(t)
  /\ Command(t) = "force-kill"
  /\ open' = open \ {handle[Agent(t)]}
  /\ UNCHANGED handle
  /\ Answer(t)
  /\ UNCHANGED <<request, wakeVars, run, closing, hostVars>>

ForceKill(t) ==
  /\ Present(t)
  /\ Command(t) = "force-kill"
  /\ open' = open \ {handle[Agent(t)]}
  /\ Unregister(Agent(t))
  /\ Answer(t)
  /\ UNCHANGED <<request, wakeVars, run, closing, hostVars>>

\* The handle is read before the await and used after it.  A respawn disposes
\* the old session first.
StartAwaited(t) ==
  /\ Present(t)
  /\ Command(t) \in Awaited
  /\ used' = [used EXCEPT ![t] = handle[Agent(t)]]
  /\ stage' = [stage EXCEPT ![t] = "executing"]
  /\ open' = IF Command(t) = "respawn" THEN open \ {handle[Agent(t)]} ELSE open
  /\ UNCHANGED <<file, request, answered, batch, handle, wakeVars, run, closing, hostVars>>

\* tearDownAllWorkers ends every registered worker, and throws if there is none.
TearDownAll(t) ==
  /\ stage[t] = "next"
  /\ Command(t) = "tear-down-all"
  /\ \/ /\ \E a \in Agents : handle[a] # None
        /\ stage' = [stage EXCEPT ![t] = "executing"]
        /\ UNCHANGED <<file, answered, batch, used>>
     \/ /\ \A a \in Agents : handle[a] = None
        /\ Answer(t)
  /\ UNCHANGED <<request, handle, wakeVars, sessionVars, hostVars>>

Prompting(s) == \E a \in Agents \ closing : run[a] = s

\* What was awaited settles, or throws.  waitForIdle does not settle before the
\* prompt of the run does.
Settle(t) ==
  /\ stage[t] = "executing"
  /\ Command(t) = "pause" => ~Prompting(used[t])
  /\ Release(t)
  /\ Answer(t)
  /\ UNCHANGED <<request, wakeVars, sessionVars, hostVars>>

ForceEndDisposes(t) ==
  /\ stage[t] = "executing"
  /\ Command(t) = "force-end"
  /\ open' = open \ {used[t]}
  /\ Unregister(Agent(t))
  /\ Answer(t)
  /\ UNCHANGED <<request, wakeVars, run, closing, hostVars>>

\* The new session is returned to the drain, which drops it.
Respawned(t) ==
  /\ stage[t] = "executing"
  /\ Command(t) = "respawn"
  /\ \E s \in RespawnSessions :
       /\ open' = open \cup {s}
  /\ Answer(t)
  /\ UNCHANGED <<request, handle, wakeVars, run, closing, hostVars>>

-----------------------------------------------------------------------------
(* Dispatched runs, as dispatchAgent registers and unregisters them *)

RunStarts(a) ==
  /\ mode # "normal"
  /\ run[a] = None
  /\ \E s \in RunSessions :
       /\ Unreferenced(s)
       /\ open' = open \cup {s}
       /\ run' = [run EXCEPT ![a] = s]
       /\ handle' = [handle EXCEPT ![a] = s]
  /\ UNCHANGED <<file, request, drainVars, wakeVars, closing, hostVars>>

\* Mutant: the run is filed under its session instead of its agent.
RunClosesBySession(a) ==
  /\ run[a] # None
  /\ a \notin closing
  /\ closing' = closing \cup {run[a]}
  /\ open' = open \ {run[a]}
  /\ UNCHANGED <<file, request, drainVars, handle, wakeVars, run, hostVars>>

\* The prompt settles and close disposes the session; the handle outlives it
\* until delegation_end is out.
RunCloses(a) ==
  /\ run[a] # None
  /\ a \notin closing
  /\ closing' = closing \cup {a}
  /\ open' = open \ {run[a]}
  /\ UNCHANGED <<file, request, drainVars, handle, wakeVars, run, hostVars>>

RunReported(a) ==
  /\ a \in closing
  /\ closing' = closing \ {a}
  /\ run' = [run EXCEPT ![a] = None]
  /\ Unregister(a)
  /\ UNCHANGED <<file, request, drainVars, wakeVars, open, hostVars>>

-----------------------------------------------------------------------------
(* The host session *)

Drained == \A a \in Agents : run[a] = None \/ a \in closing

ApplyMode(m) ==
  /\ "mode" \in Operator \/ m = "hive"
  /\ polling
  /\ Yielded
  /\ mode # m
  /\ Drained
  /\ mode' = m
  /\ UNCHANGED <<file, request, drainVars, handle, wakeVars, sessionVars, polling>>

\* The timer is cleared; a drain in progress is not told.
SessionShutdown ==
  /\ "session" \in Operator
  /\ Yielded
  /\ polling
  /\ polling' = FALSE
  /\ open' = open \ {run[a] : a \in Agents}
  /\ UNCHANGED <<file, request, drainVars, handle, wakeVars, run, closing, mode>>

SessionStart ==
  /\ Yielded
  /\ ~polling
  /\ polling' = TRUE
  /\ mode' = IF Drained THEN "normal" ELSE mode
  /\ UNCHANGED <<file, request, drainVars, handle, wakeVars, sessionVars>>

\* The process dies and is started again: the file is all that is left, and the
\* rows in it are new to the next process.
Crash ==
  /\ "crash" \in Operator
  /\ UNCHANGED <<file, request>>
  /\ answered' = [r \in Rows |-> IF r \in RowsOf(file) THEN 0 ELSE answered[r]]
  /\ stage' = [t \in Ticks |-> "idle"]
  /\ batch' = [t \in Ticks |-> <<>>]
  /\ used' = [t \in Ticks |-> None]
  /\ handle' = [a \in Agents |-> None]
  /\ inflight' = [a \in Agents |-> None]
  /\ opening' = {}
  /\ run' = [a \in Agents |-> None]
  /\ closing' = {}
  /\ open' = {}
  /\ mode' = "normal"
  /\ polling' = TRUE

Drain(t) ==
  \/ NoHandle(t) \/ AskForWake(t) \/ NotWoken(t) \/ WakeIsGone(t)
  \/ Immediate(t) \/ ForceKill(t) \/ StartAwaited(t) \/ TearDownAll(t)
  \/ Settle(t) \/ ForceEndDisposes(t) \/ Respawned(t)

Next ==
  \/ \E r \in Rows, a \in Agents, c \in Commands : QueueOperatorCommand(r, a, c)
  \/ \E t \in Ticks : Tick(t) \/ Drain(t)
  \/ \E a \in Agents, s \in WakeSessions : WakeOpens(a, s) \/ WakeFails(a, s)
  \/ \E a \in Agents : RunStarts(a) \/ RunCloses(a) \/ RunReported(a)
  \/ \E m \in {"normal", "hive"} : ApplyMode(m)
  \/ SessionShutdown
  \/ SessionStart
  \/ Crash

Safety == Init /\ [][Next]_vars

\* What is awaited settles, a wake opens or fails, and a run ends; the operator
\* need not do anything, and the timer is not obliged to fire.
Fairness ==
  /\ \A t \in Ticks : WF_vars(Drain(t))
  /\ \A a \in Agents : WF_vars(\E s \in WakeSessions : WakeOpens(a, s) \/ WakeFails(a, s))
  /\ \A a \in Agents : WF_vars(RunCloses(a))

Spec == Safety /\ Fairness

-----------------------------------------------------------------------------
Asked == {r \in Rows : request[r] # None}

\* A row that was queued is in the file until a drain has answered it: rows
\* survive a crash of the process that drains them.
RowAccounted == \A r \in Asked : answered[r] > 0 \/ r \in RowsOf(file)

\* No process invokes a row twice (operator-pickup.ts accepts that the next one
\* does, after a crash between invoke and unlink).
InvokedOnce == \A r \in Rows : answered[r] <= 1

\* A command of the operator is neither lost nor invoked twice.
RowsAnsweredOnce == RowAccounted /\ InvokedOnce

\* Rows are answered in the order in which they were queued.
InFileOrder ==
  [][\A r \in Rows : answered[r] = 0 /\ answered'[r] > 0 =>
       \A i, j \in DOMAIN file : file[j] = r /\ i < j => answered[file[i]] > 0]_vars

\* At most one wake per agent is in progress, however many drains ask for it: a
\* second one would reopen the same session file.
OneWakePerAgent == \A v, w \in opening : v[1] = w[1] => v = w

\* A woken worker is addressable only while some drain is about to release it:
\* wake, operate, sleep.
WakeIsTransient ==
  \A a \in Agents :
    handle[a] \in WakeSessions =>
      \E t \in Ticks : /\ stage[t] \in {"woken", "executing"}
                       /\ Agent(t) = a
                       /\ Command(t) \in Waking

\* Wakes are shared while they open, and released by somebody afterwards.
WakesAreOwned == OneWakePerAgent /\ WakeIsTransient

\* A handle names an open session, or that of a run on its way out, or one that
\* is being replaced: after a forced end or kill no command reaches the session
\* that was disposed.
HandlesAreOpen ==
  \A a \in Agents :
    \/ handle[a] \in open \cup {None}
    \/ a \in closing /\ run[a] = handle[a]
    \/ \E t \in Ticks : stage[t] = "executing" /\ Command(t) = "respawn" /\ used[t] = handle[a]

\* A worker that is running stays addressable.
LiveRunKeepsHandle ==
  \A a \in Agents : run[a] \in open => handle[a] = run[a]

\* A drain that has read the file comes to its end.
DrainEnds == \A t \in Ticks : stage[t] # "idle" ~> stage[t] = "idle"
=============================================================================
