------------------------------- MODULE Daemon -------------------------------
(***************************************************************************)
(* The dashboard daemon that all the pi processes of a user share: the     *)
(* startup lock (core/file-lock.ts), ensureDashboard, stopDashboard and    *)
(* killOwnedDashboardOnQuit (engine/dashboard.ts), the session hooks that  *)
(* start them (integration/hooks.ts), and the life of the daemon process   *)
(* (observability/server/index.ts).                                        *)
(*                                                                         *)
(* A job is one pending call of ensureDashboard or stopDashboard.  A step  *)
(* of a job runs from one await to the next; between the system calls of   *)
(* the lock other processes run as well.  All the processes use the same   *)
(* registry, database and port.                                            *)
(***************************************************************************)
EXTENDS Naturals, FiniteSets

CONSTANTS
  Hosts,      \* pi processes
  Jobs,       \* pairs of a process and a number: the calls it may have pending
  Nonces,     \* daemons that may be spawned: bound
  Builds,     \* package versions
  None,
  Worlds      \* which faults may happen, which version each process runs, and how much
              \* each process does: those tried

\* Bounds: the calls that may be pending, the processes whose user enters /hive:observe
\* commands, and the largest lifecycleGeneration of each process.
Bounds == [calls : SUBSET Jobs, operators : SUBSET Hosts, gens : [Hosts -> Nat]]

ASSUME DaemonAssumption ==
  /\ Jobs \subseteq Hosts \X Nat
  /\ None \notin Nonces /\ None \notin Hosts /\ None \notin [by : Jobs, old : BOOLEAN]
  /\ Worlds \subseteq [faults : SUBSET {"crash", "slow", "late", "suspend"},
                       build : [Hosts -> Builds], bound : Bounds]

HostOf(j) == j[1]
Kinds == {"start", "observe", "stop", "quit"}

VARIABLES
  faults,    \* what may go wrong in this behaviour
  build,     \* the version each process runs
  bound,     \* of this behaviour
  lock,      \* daemon-startup.lock: who made it and whether it is older than staleMs
  pc, kind, health, managed, born,  \* of each job
  life, spawner, \* of each daemon process: its state, and the process that spawned it
  token,     \* daemon-token: the daemon whose credentials are published
  obs,       \* state.obsServer of each process
  session, gen, \* shuttingDown and lifecycleGeneration of each process
  header     \* of each process: the generation whose start installed the header, or 0

jobVars == <<pc, kind, health, managed, born>>
daemonVars == <<life, spawner>>
hostVars == <<session, gen, header>>
world == <<faults, build, bound>>
vars == <<world, lock, jobVars, daemonVars, token, obs, hostVars>>

Critical == {"probe", "stop", "shutdown", "wait", "reprobe", "spawn", "ready", "release"}
Busy(j) == pc[j] # "idle"
Server == [proc : Nonces \cup {None}, adopted : BOOLEAN]

Init ==
  /\ \E w \in Worlds : faults = w.faults /\ build = w.build /\ bound = w.bound
  /\ lock = None
  /\ pc = [j \in Jobs |-> "idle"]
  /\ kind = [j \in Jobs |-> "start"]
  /\ health = [j \in Jobs |-> None]
  /\ managed = [j \in Jobs |-> None]
  /\ born = [j \in Jobs |-> 0]
  /\ life = [d \in Nonces |-> "unused"]
  /\ spawner = [d \in Nonces |-> None]
  /\ token = None
  /\ obs = [h \in Hosts |-> None]
  /\ session = [h \in Hosts |-> "none"]
  /\ gen = [h \in Hosts |-> 0]
  /\ header = [h \in Hosts |-> 0]

Alive(h) == session[h] # "gone"
\* From openSync to the sleep nothing else runs in the process.
Free(h) == \A j \in Jobs : HostOf(j) = h => pc[j] \notin {"stat", "unlink"}
Goto(j, label) == pc' = [pc EXCEPT ![j] = label]

(***************************************************************************)
(* The daemon process.                                                     *)
(***************************************************************************)
Listening == {d \in Nonces : life[d] \in {"up", "dying"}}

\* Bun.serve: the port can be bound once; otherwise the process exits.
Bind(d) ==
  /\ life[d] = "starting"
  /\ life' = [life EXCEPT ![d] = IF Listening = {} THEN "up" ELSE "gone"]
  /\ UNCHANGED <<world, lock, jobVars, spawner, token, obs, hostVars>>

\* Without the fault "late" a spawned daemon binds, or fails to, within the 7 s of its
\* readiness check, and so before longer times have passed.
Started == "late" \in faults \/ \A d \in Nonces : life[d] # "starting"

\* The idle timer fires, after 15 minutes.
IdleStop(d) ==
  /\ life[d] = "up"
  /\ Started
  /\ life' = [life EXCEPT ![d] = "dying"]
  /\ UNCHANGED <<world, lock, jobVars, spawner, token, obs, hostVars>>

\* 50 ms after scheduleServerStop the process exits.
ServerExit(d) ==
  /\ life[d] = "dying"
  /\ life' = [life EXCEPT ![d] = "gone"]
  /\ UNCHANGED <<world, lock, jobVars, spawner, token, obs, hostVars>>

\* probeDashboard: who answers on the port; a busy daemon may miss the 700 ms.
Probed(d) ==
  \/ d \in Listening
  \/ d = None /\ (Listening = {} \/ "slow" \in faults)

\* Mutant: the child is only marked.
KilledLife_Marked(d) == IF d = None THEN life ELSE [life EXCEPT ![d] = "killed"]
\* killProcess: SIGTERM to a child; the listener goes with it.
KilledLife(d) == IF d = None \/ life[d] = "gone" THEN life ELSE [life EXCEPT ![d] = "gone"]

(***************************************************************************)
(* The lock.                                                               *)
(***************************************************************************)
\* openSync(lockPath, "wx").
OpenLock(j) ==
  /\ pc[j] = "open"
  /\ IF lock = None
     THEN /\ lock' = [by |-> j, old |-> FALSE]
          /\ Goto(j, IF kind[j] \in {"stop", "quit"} THEN "stop" ELSE "probe")
     ELSE /\ Goto(j, "stat")
          /\ UNCHANGED lock
  /\ UNCHANGED <<world, kind, health, managed, born, daemonVars, token, obs, hostVars>>

\* Mutant: whatever lock is found is removed.
IsStale_Any == lock # None
IsStale == lock # None /\ lock.old

\* statSync: retry when it is gone, remove it when it is stale, or sleep and retry.
StatLock(j) ==
  /\ pc[j] = "stat"
  /\ Goto(j, IF IsStale THEN "unlink" ELSE "open")
  /\ UNCHANGED <<world, lock, kind, health, managed, born, daemonVars, token, obs, hostVars>>

\* unlinkSync removes whatever file has the name by now.
UnlinkLock(j) ==
  /\ pc[j] = "unlink"
  /\ lock' = None
  /\ Goto(j, "open")
  /\ UNCHANGED <<world, kind, health, managed, born, daemonVars, token, obs, hostVars>>

\* A lock gets older than staleMs when its process is gone, or was suspended.
Age ==
  /\ lock # None /\ ~lock.old
  /\ Started
  /\ ~Alive(HostOf(lock.by)) \/ "suspend" \in faults
  /\ lock' = [lock EXCEPT !.old = TRUE]
  /\ UNCHANGED <<world, jobVars, daemonVars, token, obs, hostVars>>

\* Mutant: only shuttingDown is looked at, and the next session has reset it.
Stale_InAnySession(j) == session[HostOf(j)] # "live"
\* Did the session that started the job end?
Stale(j) == session[HostOf(j)] # "live" \/ gen[HostOf(j)] # born[j]

\* The call returns: the completion of a session start, and the end of a quit.
Return(j, running, obsNow) ==
  LET h == HostOf(j) IN
  /\ Goto(j, "idle")
  /\ health' = [health EXCEPT ![j] = None]
  /\ managed' = [managed EXCEPT ![j] = None]
  /\ born' = [born EXCEPT ![j] = 0]
  /\ kind' = [kind EXCEPT ![j] = "start"]
  /\ IF kind[j] = "quit" \/ (kind[j] = "start" /\ Stale(j))
     THEN obs' = [obs EXCEPT ![h] = None]
     ELSE obs' = [obs EXCEPT ![h] = obsNow]
  /\ IF kind[j] = "quit"
     THEN session' = [session EXCEPT ![h] = "ended"] /\ header' = [header EXCEPT ![h] = 0]
     ELSE /\ header' = [header EXCEPT ![h] = IF kind[j] = "start" /\ running /\ ~Stale(j) THEN born[j] ELSE @]
          /\ UNCHANGED session
  /\ UNCHANGED gen

\* The deadline passes while the lock is held by another.
LockTimeout(j) ==
  /\ pc[j] = "stat"
  /\ lock # None /\ ~IsStale
  /\ Return(j, FALSE, obs[HostOf(j)])
  /\ UNCHANGED <<world, lock, daemonVars, token>>

\* The finally block unlinks whatever lock is there, then the promise settles.
Release(j, running, obsNow) ==
  /\ lock' = None
  /\ Return(j, running, obsNow)

(***************************************************************************)
(* ensureDashboard under the lock.                                         *)
(***************************************************************************)
Compatible(h, d) == build[spawner[d]] = build[h]

Probe(j) ==
  LET h == HostOf(j) IN
  /\ pc[j] = "probe"
  /\ \E d \in Nonces \cup {None} :
       /\ Probed(d)
       /\ \/ \* adopt the daemon
             /\ kind[j] = "start" /\ d # None
             /\ Compatible(h, d) /\ token # None
             /\ Release(j, TRUE, IF obs[h] = None THEN [proc |-> None, adopted |-> TRUE] ELSE obs[h])
          \/ \* replace it
             /\ kind[j] = "observe" \/ (d # None /\ ~(Compatible(h, d) /\ token # None))
             /\ Goto(j, "stop")
             /\ UNCHANGED <<lock, kind, health, managed, born, obs, hostVars>>
          \/ \* there is none
             /\ kind[j] = "start" /\ d = None
             /\ Goto(j, "spawn")
             /\ UNCHANGED <<lock, kind, health, managed, born, obs, hostVars>>
  /\ UNCHANGED <<world, daemonVars, token>>

\* After the stop: give up when somebody still answers.
Reprobe(j) ==
  /\ pc[j] = "reprobe"
  /\ \E d \in Nonces \cup {None} :
       /\ Probed(d)
       /\ IF d # None
          THEN Release(j, FALSE, obs[HostOf(j)])
          ELSE Goto(j, "spawn") /\ UNCHANGED <<lock, kind, health, managed, born, obs, hostVars>>
  /\ UNCHANGED <<world, daemonVars, token>>

\* Mutant: what a dead daemon published stays until the new one is ready.
Unpublished_Not == token
\* removePublishedDaemonMetadata.
Unpublished == None

\* Bun is there or not; credentials are cleared and a daemon is spawned.
Spawn(j) ==
  LET h == HostOf(j) IN
  /\ pc[j] = "spawn"
  /\ \/ /\ Release(j, FALSE, obs[h])
        /\ UNCHANGED <<daemonVars, token>>
     \/ \E d \in Nonces :
          /\ life[d] = "unused"
          /\ token' = Unpublished
          /\ life' = [life EXCEPT ![d] = "starting"]
          /\ spawner' = [spawner EXCEPT ![d] = h]
          /\ obs' = [obs EXCEPT ![h] = [proc |-> d, adopted |-> FALSE]]
          /\ health' = [health EXCEPT ![j] = d]
          /\ Goto(j, "ready")
          /\ UNCHANGED <<lock, kind, managed, born, hostVars>>
  /\ UNCHANGED world

\* The new nonce answers: publish, or fail to write and kill the child.
Ready(j) ==
  LET h == HostOf(j) IN
  /\ pc[j] = "ready"
  /\ health[j] \in Listening
  /\ \/ /\ token' = health[j]
        /\ Release(j, TRUE, obs[h])
        /\ UNCHANGED daemonVars
     \/ /\ token' = None
        /\ life' = KilledLife(IF obs[h] = None THEN None ELSE obs[h].proc)
        /\ Release(j, FALSE, None)
        /\ UNCHANGED spawner
  /\ UNCHANGED world

\* Mutant: the wait has no deadline.
NotReady_Waits(j) == FALSE
\* waitForReady gives up: the child, if state still holds it, is killed.
NotReady(j) ==
  LET h == HostOf(j) IN
  /\ pc[j] = "ready"
  /\ Started
  /\ life' = KilledLife(IF obs[h] = None THEN None ELSE obs[h].proc)
  /\ Release(j, FALSE, None)
  /\ UNCHANGED <<world, spawner, token>>

(***************************************************************************)
(* stopDashboardUnlocked.                                                  *)
(***************************************************************************)
StopProbe(j) ==
  /\ pc[j] = "stop"
  /\ \E d \in Nonces \cup {None} :
       /\ Probed(d)
       /\ health' = [health EXCEPT ![j] = d]
  /\ managed' = [managed EXCEPT ![j] = IF obs[HostOf(j)] = None THEN None ELSE obs[HostOf(j)].proc]
  /\ Goto(j, "shutdown")
  /\ UNCHANGED <<world, lock, kind, born, daemonVars, token, obs, hostVars>>

\* The bearer token is the daemon's.
Authorized(d) == token = d

\* The authenticated shutdown of the daemon that answered, or the kill of a child.
Shutdown(j) ==
  LET d == health[j] IN
  /\ pc[j] = "shutdown"
  /\ IF d # None /\ d \in Listening /\ Authorized(d)
     THEN life' = [life EXCEPT ![d] = "dying"]
     ELSE IF managed[j] # None /\ d \in {managed[j], None}
     THEN life' = KilledLife(managed[j])
     ELSE UNCHANGED life
  /\ Goto(j, "wait")
  /\ UNCHANGED <<world, lock, kind, health, managed, born, spawner, token, obs, hostVars>>

\* Wait at most 2 s for the port, forget the server, unpublish if nobody answers.
StopWait(j) ==
  LET h == HostOf(j)
      ensuring == kind[j] \in {"start", "observe"}
  IN
  /\ pc[j] = "wait"
  /\ \E d \in Nonces \cup {None} :
       /\ Probed(d)
       /\ token' = IF d = None THEN None ELSE token
  /\ IF ensuring
     THEN /\ Goto(j, "reprobe")
          /\ health' = [health EXCEPT ![j] = None]
          /\ managed' = [managed EXCEPT ![j] = None]
          /\ obs' = [obs EXCEPT ![h] = None]
          /\ UNCHANGED <<lock, kind, born, hostVars>>
     ELSE Release(j, FALSE, None)
  /\ UNCHANGED <<world, daemonVars>>

(***************************************************************************)
(* Sessions.                                                               *)
(***************************************************************************)
Call(j, k, g) ==
  /\ pc[j] = "idle" /\ j \in bound.calls
  /\ Goto(j, "open")
  /\ kind' = [kind EXCEPT ![j] = k]
  /\ born' = [born EXCEPT ![j] = g]
  /\ UNCHANGED <<health, managed>>

\* session_start: a new generation, and the dashboard started without waiting for it.
SessionStart(j) ==
  LET h == HostOf(j) IN
  /\ session[h] = "none"
  /\ gen[h] < bound.gens[h]
  /\ session' = [session EXCEPT ![h] = "live"]
  /\ gen' = [gen EXCEPT ![h] = @ + 1]
  /\ Call(j, "start", gen[h] + 1)
  /\ UNCHANGED <<world, lock, daemonVars, token, obs, header>>

\* /hive:observe and /hive:observe-stop.
Observe(j) ==
  /\ HostOf(j) \in bound.operators /\ session[HostOf(j)] = "live"
  /\ \E k \in {"observe", "stop"} : Call(j, k, 0)
  /\ UNCHANGED <<world, lock, daemonVars, token, obs, hostVars>>

\* session_shutdown for a reload or another session: the daemon is left alone.
SessionEnd(h) ==
  /\ session[h] = "live"
  /\ gen[h] < bound.gens[h]
  /\ session' = [session EXCEPT ![h] = "none"]
  /\ gen' = [gen EXCEPT ![h] = @ + 1]
  /\ obs' = [obs EXCEPT ![h] = None]
  /\ header' = [header EXCEPT ![h] = 0]
  /\ UNCHANGED <<world, lock, jobVars, daemonVars, token>>

\* Mutant: an adopted daemon is stopped as well.
OwnsDaemon_Any(h) == obs[h] # None
OwnsDaemon(h) == obs[h] # None /\ ~obs[h].adopted

\* session_shutdown for a quit: stop the daemon this session spawned.
Quit(j) ==
  LET h == HostOf(j) IN
  /\ session[h] = "live"
  /\ gen[h] < bound.gens[h]
  /\ gen' = [gen EXCEPT ![h] = @ + 1]
  /\ IF OwnsDaemon(h)
     THEN /\ session' = [session EXCEPT ![h] = "ending"]
          /\ Call(j, "quit", 0)
          /\ UNCHANGED <<obs, header>>
     ELSE /\ session' = [session EXCEPT ![h] = "ended"]
          /\ obs' = [obs EXCEPT ![h] = None]
          /\ header' = [header EXCEPT ![h] = 0]
          /\ UNCHANGED jobVars
  /\ UNCHANGED <<world, lock, daemonVars, token>>

\* The process is gone, after a quit or by a crash, and its pending calls with it; the
\* lock file stays, and so does the detached daemon.
Exit(h) ==
  /\ session[h] = "ended" \/ (session[h] # "gone" /\ "crash" \in faults)
  /\ session' = [session EXCEPT ![h] = "gone"]
  /\ pc' = [j \in Jobs |-> IF HostOf(j) = h THEN "idle" ELSE pc[j]]
  /\ kind' = [j \in Jobs |-> IF HostOf(j) = h THEN "start" ELSE kind[j]]
  /\ health' = [j \in Jobs |-> IF HostOf(j) = h THEN None ELSE health[j]]
  /\ managed' = [j \in Jobs |-> IF HostOf(j) = h THEN None ELSE managed[j]]
  /\ born' = [j \in Jobs |-> IF HostOf(j) = h THEN 0 ELSE born[j]]
  /\ obs' = [obs EXCEPT ![h] = None]
  /\ header' = [header EXCEPT ![h] = 0]
  /\ UNCHANGED <<world, lock, daemonVars, token, gen>>

JobStep(j) ==
  \/ StatLock(j) \/ UnlinkLock(j) \/ LockTimeout(j)
  \/ /\ Free(HostOf(j))
     /\ \/ OpenLock(j) \/ Probe(j) \/ Reprobe(j) \/ Spawn(j) \/ Ready(j) \/ NotReady(j)
        \/ StopProbe(j) \/ Shutdown(j) \/ StopWait(j)

Next ==
  \/ \E j \in Jobs :
       \/ JobStep(j)
       \/ Free(HostOf(j)) /\ (SessionStart(j) \/ Observe(j) \/ Quit(j))
  \/ \E h \in Hosts : Exit(h) \/ (Free(h) /\ SessionEnd(h))
  \/ \E d \in Nonces : Bind(d) \/ IdleStop(d) \/ ServerExit(d)
  \/ Age

\* Node runs what is due, the clock reaches every deadline (that of the lock while it is
\* looked at again and again), a file gets older, and a spawned process starts.
Fairness ==
  /\ \A j \in Jobs : WF_vars(JobStep(j)) /\ SF_vars(LockTimeout(j))
  /\ WF_vars(Age)
  /\ \A d \in Nonces : WF_vars(Bind(d))

Spec == Init /\ [][Next]_vars /\ Fairness

-----------------------------------------------------------------------------
(* Properties                                                              *)

TypeOK ==
  /\ [faults |-> faults, build |-> build, bound |-> bound] \in Worlds
  /\ lock \in [by : Jobs, old : BOOLEAN] \cup {None}
  /\ pc \in [Jobs -> Critical \cup {"idle", "open", "stat", "unlink"}]
  /\ kind \in [Jobs -> Kinds]
  /\ health \in [Jobs -> Nonces \cup {None}]
  /\ managed \in [Jobs -> Nonces \cup {None}]
  /\ born \in [Jobs -> Nat]
  /\ life \in [Nonces -> {"unused", "starting", "up", "dying", "gone"}]
  /\ spawner \in [Nonces -> Hosts \cup {None}]
  /\ token \in Nonces \cup {None}
  /\ obs \in [Hosts -> Server \cup {None}]
  /\ session \in [Hosts -> {"none", "live", "ending", "ended", "gone"}]
  /\ gen \in [Hosts -> Nat]
  /\ header \in [Hosts -> Nat]

\* Startup locks hold as long as no process is suspended longer than staleMs, and none
\* is gone or there is only one other: file-lock.ts removes the lock of a process that is
\* gone, but of two that find it the slower removes the lock of the faster.
LocksHold ==
  /\ "suspend" \notin faults
  /\ (\A h \in Hosts : Alive(h)) \/ (\A f, g, h \in Hosts : f = g \/ g = h \/ h = f)

\* Then two calls are never inside the startup section together.
OneStartAtATime ==
  LocksHold =>
    \A i, j \in Jobs : pc[i] \in Critical /\ pc[j] \in Critical => i = j

\* And what is published belongs to the daemon that listens, whoever died or raced, unless
\* a daemon starts too late: an adopter is never given the token of another daemon.
CredentialsMatch ==
  LocksHold /\ "late" \notin faults /\ token # None => Listening \subseteq {token}

\* A daemon that listens keeps its credentials as long as it answers in time and the
\* locks hold: nobody unpublishes it under the feet of its users.
CredentialsKept ==
  [][LocksHold /\ faults \cap {"slow", "late"} = {} /\ token # None /\ life[token] = "up"
       /\ life'[token] = "up" => token' = token]_vars

\* The header is that of a start which the running session itself has asked for: one that
\* completes after its session has ended installs nothing, neither while the process
\* shuts down nor in the next session of the process, which has reset shuttingDown (the
\* lifecycle generation in hooks.ts).  While a quit stops the daemon it stays.
HeaderOfLiveSession ==
  \A h \in Hosts : header[h] # 0 =>
    \/ session[h] = "live" /\ header[h] = gen[h]
    \/ session[h] = "ending" /\ header[h] + 1 = gen[h]

\* Every call returns, also when its daemon never answers and when a dead process has
\* left the lock.
EveryCallReturns ==
  \A j \in Jobs : Busy(j) ~> ~Busy(j)

\* A quit stops no daemon unless this process has spawned one: it stops its own, or the
\* one that took its place; what was only adopted is left alone.
QuitStopsOwnOrSuccessor ==
  [][\A j \in Jobs, d \in Nonces :
       LocksHold /\ "late" \notin faults
       /\ pc[j] = "shutdown" /\ kind[j] = "quit" /\ pc'[j] = "wait"
       /\ life[d] = "up" /\ life'[d] # "up"
         => \E e \in Nonces : spawner[e] = HostOf(j) /\ (e = d \/ life[e] = "gone")]_vars

\* Nobody loses a daemon that answers: neither its credentials, nor the process.
DaemonsStayUsable == CredentialsKept /\ QuitStopsOwnOrSuccessor

\* dashboard.ts: a quit kills the dashboard "if this session spawned it" and leaves
\* one "owned by another session" alone.
QuitStopsOnlyOwn ==
  [][\A j \in Jobs, d \in Nonces :
       pc[j] = "shutdown" /\ kind[j] = "quit" /\ pc'[j] = "wait"
       /\ life[d] = "up" /\ life'[d] # "up" => spawner[d] = HostOf(j)]_vars
=============================================================================
