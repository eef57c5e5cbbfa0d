---------------------------- MODULE DaemonProofs ----------------------------
(***************************************************************************)
(* Proofs about Daemon for any number of processes, calls and daemons:     *)
(* the types, the mutual exclusion of the startup section, the guard on    *)
(* stale completions, the credentials, and that nobody loses a daemon that *)
(* answers.                                                                *)
(*                                                                         *)
(* While the locks hold only the lock of a process that is gone gets old,  *)
(* and none but the last process that is left unlinks it: LockInv.  So the *)
(* call inside the section is alone with the daemon it starts, which finds *)
(* the token unpublished and the lock held until it has bound the port or  *)
(* has given up, also when its process goes in between: CredentialsInv.  A *)
(* quit stops what answers on the port; this is its own daemon, or the one *)
(* that took its place, because a process knows the daemons it has spawned *)
(* (OwnersKnown) and none of them is still starting.                       *)
(***************************************************************************)
EXTENDS Daemon, TLAPS

\* While the locks hold only the lock of a process that is gone gets old, nobody unlinks
\* another, and whoever is inside has made the lock.
LockInv ==
  LocksHold =>
    /\ lock # None /\ lock.old => ~Alive(HostOf(lock.by))
    /\ \A j \in Jobs : /\ pc[j] = "unlink" => lock # None /\ lock.old
                       /\ pc[j] \in Critical => lock # None /\ lock.by = j

\* In one process at most one call has found a lock and not yet slept.
OneAtTheLock ==
  \A i, j \in Jobs :
    HostOf(i) = HostOf(j) /\ {pc[i], pc[j]} \subseteq {"stat", "unlink"} => i = j

Labels == Critical \cup {"idle", "open", "stat", "unlink"}
Stages == {"unused", "starting", "up", "dying", "gone"}

\* A job belongs to a process.
LEMMA HostOfJob == \A j \in Jobs : HostOf(j) \in Hosts
  BY DaemonAssumption DEF HostOf

-----------------------------------------------------------------------------
(* Types *)

\* The end of a call keeps the types of what it writes.
LEMMA ReturnTyped ==
  ASSUME TypeOK, NEW j \in Jobs, NEW running \in BOOLEAN, NEW o \in Server \cup {None},
         Return(j, running, o)
  PROVE  /\ pc' \in [Jobs -> Labels] /\ kind' \in [Jobs -> Kinds]
         /\ health' \in [Jobs -> Nonces \cup {None}] /\ managed' \in [Jobs -> Nonces \cup {None}]
         /\ born' \in [Jobs -> Nat] /\ gen' \in [Hosts -> Nat]
         /\ obs' \in [Hosts -> Server \cup {None}]
         /\ session' \in [Hosts -> {"none", "live", "ending", "ended", "gone"}]
         /\ header' \in [Hosts -> Nat]
<1>1. HostOf(j) \in Hosts
  BY HostOfJob
<1>2. /\ pc' \in [Jobs -> Labels] /\ kind' \in [Jobs -> Kinds]
      /\ health' \in [Jobs -> Nonces \cup {None}] /\ managed' \in [Jobs -> Nonces \cup {None}]
      /\ born' \in [Jobs -> Nat] /\ gen' \in [Hosts -> Nat]
  BY DEF TypeOK, Return, Goto, Labels, Kinds
<1>3. obs' \in [Hosts -> Server \cup {None}]
  BY <1>1 DEF TypeOK, Return
<1>4. session' \in [Hosts -> {"none", "live", "ending", "ended", "gone"}]
  BY <1>1 DEF TypeOK, Return
<1>5. header' \in [Hosts -> Nat]
  <2>1. CASE kind[j] = "quit"
    BY <1>1, <2>1 DEF TypeOK, Return
  <2>2. CASE kind[j] # "quit"
    <3> DEFINE b == IF kind[j] = "start" /\ running /\ ~Stale(j) THEN born[j] ELSE header[HostOf(j)]
    <3>1. header' = [header EXCEPT ![HostOf(j)] = b]
      BY <2>2 DEF Return
    <3>2. b \in Nat
      BY <1>1 DEF TypeOK
    <3> HIDE DEF b
    <3> QED
      BY <3>1, <3>2 DEF TypeOK
  <2> QED
    BY <2>1, <2>2
<1> QED
  BY <1>2, <1>3, <1>4, <1>5

\* A killed process is gone.
LEMMA KilledTyped ==
  ASSUME TypeOK, NEW d \in Nonces \cup {None}
  PROVE  KilledLife(d) \in [Nonces -> Stages]
  BY DaemonAssumption DEF TypeOK, KilledLife, Stages

\* The steps of a job.
LEMMA JobTyped ==
  ASSUME TypeOK, NEW j \in Jobs, JobStep(j)
  PROVE  TypeOK'
<1> DEFINE h == HostOf(j)
           o == IF obs[h] = None THEN None ELSE obs[h].proc
<1>1. h \in Hosts /\ obs[h] \in Server \cup {None} /\ o \in Nonces \cup {None}
  BY HostOfJob DEF TypeOK, Server
<1>2. CASE OpenLock(j)
  <2>1. pc' \in [Jobs -> Labels]
    BY <1>2 DEF TypeOK, OpenLock, Goto, Labels, Critical
  <2>2. lock' \in [by : Jobs, old : BOOLEAN] \cup {None}
    <3>1. [by |-> j, old |-> FALSE] \in [by : Jobs, old : BOOLEAN]
      OBVIOUS
    <3>2. lock' = [by |-> j, old |-> FALSE] \/ lock' = lock
      BY <1>2 DEF OpenLock
    <3> QED
      BY <3>1, <3>2 DEF TypeOK
  <2> QED
    BY <1>2, <2>1, <2>2 DEF TypeOK, OpenLock, Labels, world, daemonVars, hostVars
<1>3. CASE StatLock(j)
  BY <1>3 DEF TypeOK, StatLock, Goto, Critical, world, daemonVars, hostVars
<1>4. CASE UnlinkLock(j)
  BY <1>4 DEF TypeOK, UnlinkLock, Goto, Critical, world, daemonVars, hostVars
<1>5. CASE LockTimeout(j)
  BY <1>1, <1>5, ReturnTyped DEF TypeOK, LockTimeout, Labels, world, daemonVars
<1>6. CASE Probe(j)
  <2>1. UNCHANGED <<world, daemonVars, token>>
    BY <1>6 DEF Probe
  <2>2. CASE Release(j, TRUE, IF obs[h] = None THEN [proc |-> None, adopted |-> TRUE] ELSE obs[h])
    <3> DEFINE n == IF obs[h] = None THEN [proc |-> None, adopted |-> TRUE] ELSE obs[h]
    <3>1. n \in Server \cup {None}
      BY <1>1 DEF Server
    <3>2. Return(j, TRUE, n) /\ lock' = None
      BY <2>2 DEF Release
    <3> HIDE DEF n
    <3> QED
      BY <2>1, <3>1, <3>2, ReturnTyped DEF TypeOK, Labels, world, daemonVars
  <2>3. CASE Goto(j, "stop") /\ UNCHANGED <<lock, kind, health, managed, born, obs, hostVars>>
    BY <2>1, <2>3 DEF TypeOK, Goto, Critical, world, daemonVars, hostVars
  <2>4. CASE Goto(j, "spawn") /\ UNCHANGED <<lock, kind, health, managed, born, obs, hostVars>>
    BY <2>1, <2>4 DEF TypeOK, Goto, Critical, world, daemonVars, hostVars
  <2> QED
    BY <1>6, <2>2, <2>3, <2>4 DEF Probe
<1>7. CASE Reprobe(j)
  <2>1. UNCHANGED <<world, daemonVars, token>>
    BY <1>7 DEF Reprobe
  <2>2. CASE Release(j, FALSE, obs[h])
    BY <1>1, <2>1, <2>2, ReturnTyped DEF TypeOK, Release, Labels, world, daemonVars
  <2>3. CASE Goto(j, "spawn") /\ UNCHANGED <<lock, kind, health, managed, born, obs, hostVars>>
    BY <2>1, <2>3 DEF TypeOK, Goto, Critical, world, daemonVars, hostVars
  <2> QED
    BY <1>7, <2>2, <2>3 DEF Reprobe
<1>8. CASE Spawn(j)
  <2>1. CASE Release(j, FALSE, obs[h]) /\ UNCHANGED <<world, daemonVars, token>>
    BY <1>1, <2>1, ReturnTyped DEF TypeOK, Release, Labels, world, daemonVars
  <2>2. ASSUME NEW d \in Nonces,
               token' = Unpublished,
               life' = [life EXCEPT ![d] = "starting"],
               spawner' = [spawner EXCEPT ![d] = h],
               obs' = [obs EXCEPT ![h] = [proc |-> d, adopted |-> FALSE]],
               health' = [health EXCEPT ![j] = d],
               Goto(j, "ready"),
               UNCHANGED <<world, lock, kind, managed, born, hostVars>>
        PROVE  TypeOK'
    <3>1. [proc |-> d, adopted |-> FALSE] \in Server
      BY DEF Server
    <3>2. obs' \in [Hosts -> Server \cup {None}]
      BY <2>2, <3>1 DEF TypeOK
    <3>3. /\ token' \in Nonces \cup {None} /\ pc' \in [Jobs -> Labels]
          /\ life' \in [Nonces -> Stages]
          /\ health' \in [Jobs -> Nonces \cup {None}]
      BY <2>2 DEF TypeOK, Goto, Labels, Stages, Critical, Unpublished
    <3>4. spawner' \in [Nonces -> Hosts \cup {None}]
      BY <1>1, <2>2 DEF TypeOK
    <3> QED
      BY <2>2, <3>2, <3>3, <3>4 DEF TypeOK, Labels, Stages, world, hostVars
  <2> QED
    BY <1>8, <2>1, <2>2 DEF Spawn
<1>9. CASE Ready(j)
  <2>1. UNCHANGED <<world, spawner>> /\ token' \in Nonces \cup {None}
    BY <1>9 DEF Ready, daemonVars, TypeOK, Listening
  <2>2. life' \in [Nonces -> Stages]
    BY <1>1, <1>9, KilledTyped DEF Ready, daemonVars, TypeOK, Stages
  <2>3. Release(j, TRUE, obs[h]) \/ Release(j, FALSE, None)
    BY <1>9 DEF Ready
  <2> HIDE DEF h
  <2> QED
    BY <1>1, <2>1, <2>2, <2>3, ReturnTyped DEF TypeOK, Release, Labels, Stages, world
<1>10. CASE NotReady(j)
  <2>1. life' \in [Nonces -> Stages]
    BY <1>1, <1>10, KilledTyped DEF NotReady
  <2> QED
    BY <1>10, <2>1, ReturnTyped DEF NotReady, TypeOK, Release, Labels, Stages, world
<1>11. CASE StopProbe(j)
  <2>1. managed' \in [Jobs -> Nonces \cup {None}]
    BY <1>1, <1>11 DEF TypeOK, StopProbe
  <2>2. pc' \in [Jobs -> Labels] /\ health' \in [Jobs -> Nonces \cup {None}]
    BY <1>11 DEF TypeOK, StopProbe, Goto, Labels, Critical
  <2> QED
    BY <1>11, <2>1, <2>2 DEF TypeOK, StopProbe, Labels, world, daemonVars, hostVars
<1>12. CASE Shutdown(j)
  <2>1. life' \in [Nonces -> Stages]
    <3>1. \/ life' = KilledLife(managed[j]) \/ life' = life
          \/ \E d \in Nonces \cup {None} : life' = [life EXCEPT ![d] = "dying"]
      BY <1>12 DEF Shutdown, TypeOK
    <3>2. managed[j] \in Nonces \cup {None}
      BY DEF TypeOK
    <3> QED
      BY <3>1, <3>2, KilledTyped DEF TypeOK, Stages
  <2>2. pc' \in [Jobs -> Labels]
    BY <1>12 DEF TypeOK, Shutdown, Goto, Labels, Critical
  <2> QED
    BY <1>12, <2>1, <2>2 DEF TypeOK, Shutdown, Labels, Stages, world, hostVars
<1>13. CASE StopWait(j)
  <2>1. UNCHANGED <<world, daemonVars>> /\ token' \in Nonces \cup {None}
    BY <1>13 DEF StopWait, TypeOK
  <2>2. CASE kind[j] \in {"start", "observe"}
    <3>1. pc' \in [Jobs -> Labels] /\ health' \in [Jobs -> Nonces \cup {None}]
          /\ managed' \in [Jobs -> Nonces \cup {None}]
      BY <1>13, <2>2 DEF StopWait, TypeOK, Goto, Labels, Critical
    <3>2. obs' \in [Hosts -> Server \cup {None}] /\ UNCHANGED <<lock, kind, born, hostVars>>
      BY <1>1, <1>13, <2>2 DEF StopWait, TypeOK
    <3> QED
      BY <2>1, <3>1, <3>2 DEF TypeOK, Labels, world, daemonVars, hostVars
  <2>3. CASE ~(kind[j] \in {"start", "observe"})
    <3>1. Release(j, FALSE, None)
      BY <1>13, <2>3 DEF StopWait
    <3> QED
      BY <2>1, <3>1, ReturnTyped DEF TypeOK, Release, Labels, world, daemonVars
  <2> QED
    BY <2>2, <2>3
<1> QED
  BY <1>2, <1>3, <1>4, <1>5, <1>6, <1>7, <1>8, <1>9, <1>10, <1>11, <1>12, <1>13 DEF JobStep

\* The other steps.
LEMMA NextTyped ==
  ASSUME TypeOK, [Next]_vars
  PROVE  TypeOK'
<1>1. ASSUME NEW j \in Jobs, JobStep(j) PROVE TypeOK'
  BY <1>1, JobTyped
<1>2. ASSUME NEW j \in Jobs, SessionStart(j) PROVE TypeOK'
  <2>1. HostOf(j) \in Hosts
    BY HostOfJob
  <2>2. pc' \in [Jobs -> Labels] /\ kind' \in [Jobs -> Kinds]
    BY <1>2 DEF TypeOK, SessionStart, Call, Goto, Labels, Kinds
  <2>3. born' \in [Jobs -> Nat] /\ gen' \in [Hosts -> Nat]
    BY <1>2, <2>1 DEF TypeOK, SessionStart, Call
  <2>4. session' \in [Hosts -> {"none", "live", "ending", "ended", "gone"}]
    BY <1>2, <2>1 DEF TypeOK, SessionStart
  <2> QED
    BY <1>2, <2>2, <2>3, <2>4 DEF TypeOK, SessionStart, Call, Labels, world, daemonVars
<1>3. ASSUME NEW j \in Jobs, Observe(j) PROVE TypeOK'
  <2>1. pc' \in [Jobs -> Labels] /\ kind' \in [Jobs -> Kinds] /\ born' \in [Jobs -> Nat]
    BY <1>3 DEF TypeOK, Observe, Call, Goto, Labels, Kinds
  <2> QED
    BY <1>3, <2>1 DEF TypeOK, Observe, Call, Labels, world, daemonVars, hostVars
<1>4. ASSUME NEW j \in Jobs, Quit(j) PROVE TypeOK'
  <2>1. HostOf(j) \in Hosts
    BY HostOfJob
  <2>2. /\ gen' \in [Hosts -> Nat]
        /\ session' \in [Hosts -> {"none", "live", "ending", "ended", "gone"}]
        /\ obs' \in [Hosts -> Server \cup {None}] /\ header' \in [Hosts -> Nat]
    <3>1. gen' \in [Hosts -> Nat]
      BY <1>4, <2>1 DEF TypeOK, Quit
    <3>2. session' \in [Hosts -> {"none", "live", "ending", "ended", "gone"}]
      BY <1>4, <2>1 DEF TypeOK, Quit
    <3>3. obs' \in [Hosts -> Server \cup {None}]
      BY <1>4, <2>1 DEF TypeOK, Quit
    <3>4. header' \in [Hosts -> Nat]
      BY <1>4, <2>1 DEF TypeOK, Quit
    <3> QED
      BY <3>1, <3>2, <3>3, <3>4
  <2>3. /\ pc' \in [Jobs -> Labels] /\ kind' \in [Jobs -> Kinds] /\ born' \in [Jobs -> Nat]
        /\ UNCHANGED <<health, managed>>
    BY <1>4 DEF TypeOK, Quit, Call, Goto, Labels, Kinds, jobVars
  <2> QED
    BY <1>4, <2>2, <2>3 DEF TypeOK, Quit, Labels, world, daemonVars
<1>5. ASSUME NEW h \in Hosts, SessionEnd(h) PROVE TypeOK'
  BY <1>5 DEF TypeOK, SessionEnd, world, daemonVars, jobVars
<1>6. ASSUME NEW h \in Hosts, Exit(h) PROVE TypeOK'
  <2>1. /\ pc' \in [Jobs -> Labels] /\ kind' \in [Jobs -> Kinds] /\ born' \in [Jobs -> Nat]
        /\ health' \in [Jobs -> Nonces \cup {None}] /\ managed' \in [Jobs -> Nonces \cup {None}]
    BY <1>6 DEF TypeOK, Exit, Labels, Kinds
  <2> QED
    BY <1>6, <2>1 DEF TypeOK, Exit, Labels, world, daemonVars
<1>7. ASSUME NEW d \in Nonces, Bind(d) \/ IdleStop(d) \/ ServerExit(d) PROVE TypeOK'
  <2>1. life' \in [Nonces -> Stages]
    BY <1>7 DEF TypeOK, Bind, IdleStop, ServerExit, Stages
  <2> QED
    BY <1>7, <2>1 DEF TypeOK, Bind, IdleStop, ServerExit, Stages, world, jobVars, hostVars
<1>8. CASE Age
  <2>1. lock \in [by : Jobs, old : BOOLEAN] /\ lock' = [lock EXCEPT !.old = TRUE]
    BY <1>8 DEF TypeOK, Age
  <2>2. lock' \in [by : Jobs, old : BOOLEAN]
    BY <2>1
  <2> QED
    BY <1>8, <2>2 DEF TypeOK, Age, world, jobVars, daemonVars, hostVars
<1>9. CASE UNCHANGED vars
  BY <1>9 DEF TypeOK, vars, world, jobVars, daemonVars, hostVars
<1> QED
  BY <1>1, <1>2, <1>3, <1>4, <1>5, <1>6, <1>7, <1>8, <1>9 DEF Next

-----------------------------------------------------------------------------
(* The lock *)

\* What the step of a job does to the lock and to its place: it makes the lock, finds
\* one, goes on or gives up, finds a stale one and unlinks it, or moves on inside the
\* section until it leaves.
LEMMA JobMoves ==
  ASSUME TypeOK, NEW j \in Jobs, JobStep(j)
  PROVE  /\ faults' = faults /\ pc[j] # "idle"
         /\ \A i \in Jobs \ {j} : pc'[i] = pc[i]
         /\ \/ lock = None /\ lock' = [by |-> j, old |-> FALSE] /\ pc'[j] \in Critical
            \/ lock' = lock /\ pc[j] = "open" /\ pc'[j] = "stat" /\ Free(HostOf(j))
            \/ lock' = lock /\ pc[j] = "stat" /\ pc'[j] \in {"open", "idle"}
            \/ lock' = lock /\ IsStale /\ pc[j] = "stat" /\ pc'[j] = "unlink"
            \/ lock' = None /\ pc[j] = "unlink" /\ pc'[j] = "open"
            \/ lock' = None /\ pc[j] \in Critical /\ pc'[j] = "idle"
            \/ lock' = lock /\ pc[j] \in Critical /\ pc'[j] \in Critical
<1>1. CASE OpenLock(j) /\ Free(HostOf(j))
  BY <1>1 DEF TypeOK, OpenLock, Goto, Critical, world
<1>2. CASE StatLock(j)
  BY <1>2 DEF TypeOK, StatLock, Goto, Critical, world
<1>3. CASE UnlinkLock(j)
  BY <1>3 DEF TypeOK, UnlinkLock, Goto, Critical, world
<1>4. CASE LockTimeout(j)
  BY <1>4 DEF TypeOK, LockTimeout, Return, Goto, Critical, world
<1>5. CASE Probe(j)
  BY <1>5 DEF TypeOK, Probe, Release, Return, Goto, Critical, world
<1>6. CASE Reprobe(j)
  BY <1>6 DEF TypeOK, Reprobe, Release, Return, Goto, Critical, world
<1>7. CASE Spawn(j)
  BY <1>7 DEF TypeOK, Spawn, Release, Return, Goto, Critical, world
<1>8. CASE Ready(j)
  BY <1>8 DEF TypeOK, Ready, Release, Return, Goto, Critical, world
<1>9. CASE NotReady(j)
  BY <1>9 DEF TypeOK, NotReady, Release, Return, Goto, Critical, world
<1>10. CASE StopProbe(j)
  BY <1>10 DEF TypeOK, StopProbe, Goto, Critical, world
<1>11. CASE Shutdown(j)
  BY <1>11 DEF TypeOK, Shutdown, Goto, Critical, world
<1>12. CASE StopWait(j)
  BY <1>12 DEF TypeOK, StopWait, Release, Return, Goto, Critical, world
<1> QED
  BY <1>1, <1>2, <1>3, <1>4, <1>5, <1>6, <1>7, <1>8, <1>9, <1>10, <1>11, <1>12 DEF JobStep

\* What the step of a job does to its process: only the end of a quit ends a session,
\* and a header is installed by a start of the generation that runs.
LEMMA JobOnSession ==
  ASSUME TypeOK, NEW j \in Jobs, JobStep(j)
  PROVE  /\ \A h \in Hosts \ {HostOf(j)} : session'[h] = session[h] /\ header'[h] = header[h]
         /\ \/ session'[HostOf(j)] = "ended" /\ header'[HostOf(j)] = 0
            \/ /\ session'[HostOf(j)] = session[HostOf(j)]
               /\ \/ header'[HostOf(j)] = header[HostOf(j)]
                  \/ session[HostOf(j)] = "live" /\ header'[HostOf(j)] = gen[HostOf(j)]
         /\ gen' = gen
<1> DEFINE Ends ==
         /\ \A h \in Hosts \ {HostOf(j)} : session'[h] = session[h] /\ header'[h] = header[h]
         /\ \/ session'[HostOf(j)] = "ended" /\ header'[HostOf(j)] = 0
            \/ /\ session'[HostOf(j)] = session[HostOf(j)]
               /\ \/ header'[HostOf(j)] = header[HostOf(j)]
                  \/ session[HostOf(j)] = "live" /\ header'[HostOf(j)] = gen[HostOf(j)]
         /\ gen' = gen
<1>1. HostOf(j) \in Hosts
  BY HostOfJob
<1>2. CASE UNCHANGED hostVars
  BY <1>2 DEF hostVars
<1>3. ASSUME NEW r \in BOOLEAN, NEW o, Return(j, r, o) PROVE Ends
  <2>1. CASE kind[j] = "quit"
    BY <1>1, <1>3, <2>1 DEF Return, TypeOK
  <2>2. CASE kind[j] # "quit"
    <3> DEFINE b == IF kind[j] = "start" /\ r /\ ~Stale(j) THEN born[j] ELSE header[HostOf(j)]
    <3>1. header' = [header EXCEPT ![HostOf(j)] = b] /\ session' = session /\ gen' = gen
      BY <1>3, <2>2 DEF Return
    <3>2. b = header[HostOf(j)] \/ (session[HostOf(j)] = "live" /\ b = gen[HostOf(j)])
      BY DEF Stale
    <3> HIDE DEF b
    <3> QED
      BY <1>1, <3>1, <3>2 DEF TypeOK
  <2> QED
    BY <2>1, <2>2
<1>4. \/ UNCHANGED hostVars
      \/ \E r \in BOOLEAN, o \in Server \cup {None} : Return(j, r, o)
  <2>1. obs[HostOf(j)] \in Server \cup {None}
    BY <1>1 DEF TypeOK
  <2>2. [proc |-> None, adopted |-> TRUE] \in Server
    BY DEF Server
  <2>3. CASE OpenLock(j) \/ StatLock(j) \/ UnlinkLock(j) \/ StopProbe(j) \/ Shutdown(j)
    BY <2>3 DEF OpenLock, StatLock, UnlinkLock, StopProbe, Shutdown
  <2>4. CASE LockTimeout(j)
    BY <2>1, <2>4 DEF LockTimeout
  <2>5. CASE Probe(j)
    BY <2>1, <2>2, <2>5 DEF Probe, Release
  <2>6. CASE Reprobe(j)
    BY <2>1, <2>6 DEF Reprobe, Release
  <2>7. CASE Spawn(j)
    BY <2>1, <2>7 DEF Spawn, Release
  <2>8. CASE Ready(j) \/ NotReady(j)
    BY <2>1, <2>8 DEF Ready, NotReady, Release
  <2>9. CASE StopWait(j)
    BY <2>9 DEF StopWait, Release
  <2> QED
    BY <2>3, <2>4, <2>5, <2>6, <2>7, <2>8, <2>9 DEF JobStep
<1> QED
  BY <1>2, <1>3, <1>4

\* A process that is gone has no pending call.
DeadIsIdle == \A j \in Jobs : ~Alive(HostOf(j)) => pc[j] = "idle"

Inductive == TypeOK /\ DeadIsIdle /\ OneAtTheLock /\ LockInv /\ HeaderOfLiveSession

\* The step of a job.
LEMMA JobKeeps ==
  ASSUME Inductive, NEW j \in Jobs, JobStep(j)
  PROVE  /\ DeadIsIdle' /\ OneAtTheLock' /\ LockInv' /\ HeaderOfLiveSession'
         /\ LocksHold' => LocksHold
<1>1. TypeOK /\ HostOf(j) \in Hosts /\ Alive(HostOf(j))
  BY HostOfJob, JobMoves DEF Inductive, DeadIsIdle
<1>2. \A h \in Hosts : Alive(h)' = Alive(h)
  BY <1>1, JobOnSession DEF Alive
<1>3. DeadIsIdle'
  BY <1>1, <1>2, JobMoves, HostOfJob DEF Inductive, DeadIsIdle
<1>4. HeaderOfLiveSession'
  BY <1>1, JobOnSession DEF Inductive, HeaderOfLiveSession
<1>5. OneAtTheLock'
  <2>1. /\ \A i \in Jobs \ {j} : pc'[i] = pc[i]
        /\ pc'[j] \in {"stat", "unlink"} => pc[j] \in {"stat", "unlink"} \/ Free(HostOf(j))
    BY <1>1, JobMoves DEF Critical
  <2> QED
    BY <2>1 DEF Inductive, OneAtTheLock, Free
<1>6. LocksHold' => LocksHold
  BY <1>1, <1>2, JobMoves DEF LocksHold
<1>7. LockInv'
  <2> SUFFICES ASSUME LocksHold'
               PROVE  /\ lock' # None /\ lock'.old => session'[HostOf(lock'.by)] = "gone"
                      /\ \A i \in Jobs : /\ pc'[i] = "unlink" => lock' # None /\ lock'.old
                                         /\ pc'[i] \in Critical => lock' # None /\ lock'.by = i
    BY DEF LockInv, Alive
  <2>1. /\ lock # None /\ lock.old => session[HostOf(lock.by)] = "gone"
        /\ \A i \in Jobs : /\ pc[i] = "unlink" => lock # None /\ lock.old
                           /\ pc[i] \in Critical => lock # None /\ lock.by = i
    BY <1>6 DEF Inductive, LockInv, Alive
  <2>2. lock # None => lock.by \in Jobs /\ HostOf(lock.by) \in Hosts
    BY <1>1, HostOfJob DEF TypeOK
  <2>0. lock # None /\ session[HostOf(lock.by)] = "gone" => session'[HostOf(lock.by)] = "gone"
    BY <1>2, <2>2 DEF Alive
  <2>3. [by |-> j, old |-> FALSE] # None
    <3>1. [by |-> j, old |-> FALSE] \in [by : Jobs, old : BOOLEAN]
      OBVIOUS
    <3> QED
      BY <3>1, DaemonAssumption
  <2> DEFINE made == [by |-> j, old |-> FALSE]
  <2>4. made.by = j /\ made.old = FALSE /\ made # None
    BY <2>3
  <2> HIDE DEF made
  <2>5. \A i \in Jobs \ {j} : pc'[i] = pc[i]
    BY <1>1, JobMoves
  <2>6. \/ lock = None /\ lock' = made /\ pc'[j] \in Critical
        \/ lock' = lock /\ pc'[j] \in {"stat", "open", "idle"}
        \/ lock' = lock /\ IsStale /\ pc'[j] = "unlink"
        \/ lock' = None /\ pc[j] = "unlink" /\ pc'[j] = "open"
        \/ lock' = None /\ pc[j] \in Critical /\ pc'[j] = "idle"
        \/ lock' = lock /\ pc[j] \in Critical /\ pc'[j] \in Critical
    BY <1>1, JobMoves DEF made
  <2>7. CASE lock = None /\ lock' = made /\ pc'[j] \in Critical
    BY <2>1, <2>4, <2>5, <2>7 DEF Critical
  <2>8. CASE lock' = lock /\ pc'[j] \in {"stat", "open", "idle"}
    BY <2>0, <2>1, <2>2, <2>5, <2>8 DEF Critical
  <2>9. CASE lock' = lock /\ IsStale /\ pc'[j] = "unlink"
    BY <2>0, <2>1, <2>2, <2>5, <2>9 DEF Critical, IsStale
  <2>10. CASE lock' = None /\ pc[j] = "unlink" /\ pc'[j] = "open"
    \* The process that made the lock is gone, so that this one is alone.
    <3>1. lock # None /\ ~Alive(HostOf(lock.by))
      BY <2>1, <2>10 DEF Alive
    <3>2. ASSUME NEW i \in Jobs, i # j, Alive(HostOf(i)), pc[i] = "unlink" PROVE FALSE
      <4>1. HostOf(i) \in Hosts /\ HostOf(i) # HostOf(j)
        BY <2>10, <3>2, HostOfJob DEF Inductive, OneAtTheLock
      <4>2. \A f, g, h \in Hosts : f = g \/ g = h \/ h = f
        BY <1>6, <2>2, <3>1 DEF LocksHold
      <4> QED
        BY <1>1, <2>2, <3>1, <3>2, <4>1, <4>2
    <3>3. \A i \in Jobs : pc[i] # "idle" => Alive(HostOf(i))
      BY DEF Inductive, DeadIsIdle
    <3>4. \A i \in Jobs : pc[i] \notin Critical
      BY <2>1, <3>1, <3>3 DEF Critical
    <3> QED
      BY <2>5, <2>10, <3>2, <3>3, <3>4 DEF Critical
  <2>11. CASE lock' = None /\ pc[j] \in Critical /\ pc'[j] = "idle"
    BY <1>1, <2>1, <2>5, <2>11 DEF Critical, Alive
  <2>12. CASE lock' = lock /\ pc[j] \in Critical /\ pc'[j] \in Critical
    BY <2>0, <2>1, <2>2, <2>5, <2>12 DEF Critical
  <2> QED
    BY <2>6, <2>7, <2>8, <2>9, <2>10, <2>11, <2>12
<1> QED
  BY <1>3, <1>4, <1>5, <1>6, <1>7

\* The initial state.
LEMMA InitInductive == Init => Inductive
<1> SUFFICES ASSUME Init PROVE Inductive
  OBVIOUS
<1>1. \E w \in Worlds : faults = w.faults /\ build = w.build /\ bound = w.bound
  BY DEF Init
<1>2. [faults |-> faults, build |-> build, bound |-> bound] \in Worlds
  BY <1>1, DaemonAssumption
<1>3. TypeOK
  BY <1>2 DEF Init, TypeOK, Kinds
<1> QED
  BY <1>3 DEF Init, Inductive, DeadIsIdle, OneAtTheLock, LockInv, HeaderOfLiveSession, Alive, Critical

\* A process that is gone stays so.
LEMMA GoneStaysGone ==
  ASSUME TypeOK,
         \/ \E j \in Jobs : SessionStart(j) \/ Observe(j) \/ Quit(j)
         \/ \E h \in Hosts : SessionEnd(h) \/ Exit(h)
         \/ \E d \in Nonces : Bind(d) \/ IdleStop(d) \/ ServerExit(d)
         \/ Age
         \/ UNCHANGED vars
  PROVE  /\ \A h \in Hosts : Alive(h)' => Alive(h)
         /\ faults' = faults /\ (LocksHold' => LocksHold)
<1>1. \A h \in Hosts : Alive(h)' => Alive(h)
  <2>1. ASSUME NEW j \in Jobs, SessionStart(j) \/ Observe(j) \/ Quit(j)
        PROVE  \A h \in Hosts : Alive(h)' => Alive(h)
    BY <2>1, HostOfJob DEF SessionStart, Observe, Quit, TypeOK, hostVars, Alive
  <2>2. ASSUME NEW g \in Hosts, SessionEnd(g) \/ Exit(g)
        PROVE  \A h \in Hosts : Alive(h)' => Alive(h)
    BY <2>2 DEF SessionEnd, Exit, TypeOK, Alive
  <2>3. CASE \/ \E d \in Nonces : Bind(d) \/ IdleStop(d) \/ ServerExit(d)
             \/ Age
             \/ UNCHANGED vars
    BY <2>3 DEF Bind, IdleStop, ServerExit, Age, vars, hostVars, Alive
  <2> QED
    BY <2>1, <2>2, <2>3
<1>2. faults' = faults
  BY DEF SessionStart, Observe, Quit, SessionEnd, Exit, Bind, IdleStop, ServerExit, Age, vars, world
<1> QED
  BY <1>1, <1>2 DEF LocksHold

\* The other steps: only the lock of a process that is gone gets old.
LEMMA OthersKeep ==
  ASSUME Inductive,
         \/ \E j \in Jobs : SessionStart(j) \/ Observe(j) \/ Quit(j)
         \/ \E h \in Hosts : SessionEnd(h) \/ Exit(h)
         \/ \E d \in Nonces : Bind(d) \/ IdleStop(d) \/ ServerExit(d)
         \/ Age
         \/ UNCHANGED vars
  PROVE  DeadIsIdle' /\ OneAtTheLock' /\ LockInv' /\ HeaderOfLiveSession'
<1> USE DEF Inductive
<1>1. /\ \A h \in Hosts : Alive(h)' => Alive(h)
      /\ faults' = faults /\ (LocksHold' => LocksHold)
  BY GoneStaysGone
<1>2. lock # None => lock.by \in Jobs /\ HostOf(lock.by) \in Hosts
  BY HostOfJob DEF TypeOK
<1>3. ASSUME lock' = lock, \A i \in Jobs : pc'[i] \in {pc[i], "open", "idle"}
      PROVE  OneAtTheLock' /\ LockInv'
  <2>1. OneAtTheLock'
    BY <1>3 DEF OneAtTheLock
  <2>2. LockInv'
    BY <1>1, <1>2, <1>3 DEF LockInv, Critical
  <2> QED
    BY <2>1, <2>2
<1>4. ASSUME NEW j \in Jobs, SessionStart(j) \/ Observe(j) \/ Quit(j)
      PROVE  DeadIsIdle' /\ OneAtTheLock' /\ LockInv' /\ HeaderOfLiveSession'
  <2>1. HostOf(j) \in Hosts
    BY HostOfJob
  <2>2. /\ lock' = lock
        /\ session[HostOf(j)] \in {"none", "live"} /\ session'[HostOf(j)] # "gone"
        /\ \A h \in Hosts \ {HostOf(j)} : session'[h] = session[h]
        /\ \A i \in Jobs \ {j} : pc'[i] = pc[i]
        /\ pc'[j] \in {pc[j], "open"}
    BY <1>4, <2>1 DEF SessionStart, Observe, Quit, Call, Goto, TypeOK, world, jobVars, hostVars
  <2>3. /\ \A h \in Hosts \ {HostOf(j)} : header'[h] = header[h]
        /\ \A h \in Hosts \ {HostOf(j)} : gen'[h] = gen[h]
        /\ header'[HostOf(j)] \in {header[HostOf(j)], 0}
        /\ \/ session[HostOf(j)] = "none"
           \/ UNCHANGED <<session, gen>>
           \/ /\ session[HostOf(j)] = "live" /\ gen'[HostOf(j)] = gen[HostOf(j)] + 1
              /\ \/ session'[HostOf(j)] = "ending"
                 \/ header'[HostOf(j)] = 0
    BY <1>4, <2>1 DEF SessionStart, Observe, Quit, TypeOK, hostVars
  <2>4. DeadIsIdle'
    BY <2>1, <2>2, HostOfJob DEF DeadIsIdle, Alive
  <2>5. HeaderOfLiveSession'
    BY <2>1, <2>2, <2>3 DEF HeaderOfLiveSession
  <2>6. OneAtTheLock' /\ LockInv'
    BY <1>3, <2>2
  <2> QED
    BY <2>4, <2>5, <2>6
<1>5. ASSUME NEW h \in Hosts, SessionEnd(h)
      PROVE  DeadIsIdle' /\ OneAtTheLock' /\ LockInv' /\ HeaderOfLiveSession'
  <2>1. OneAtTheLock' /\ LockInv'
    BY <1>3, <1>5 DEF SessionEnd, jobVars
  <2> QED
    BY <1>5, <2>1, HostOfJob DEF SessionEnd, TypeOK, jobVars, DeadIsIdle, Alive, HeaderOfLiveSession
<1>6. ASSUME NEW h \in Hosts, Exit(h)
      PROVE  DeadIsIdle' /\ OneAtTheLock' /\ LockInv' /\ HeaderOfLiveSession'
  <2>1. session'[h] = "gone" /\ \A g \in Hosts \ {h} : session'[g] = session[g]
    BY <1>6 DEF Exit, TypeOK
  <2>2. DeadIsIdle'
    BY <1>6, <2>1, HostOfJob DEF Exit, TypeOK, DeadIsIdle, Alive
  <2>3. HeaderOfLiveSession'
    BY <1>6, <2>1 DEF Exit, TypeOK, HeaderOfLiveSession
  <2>4. OneAtTheLock' /\ LockInv'
    BY <1>3, <1>6 DEF Exit
  <2> QED
    BY <2>2, <2>3, <2>4
<1>7. CASE \/ \E d \in Nonces : Bind(d) \/ IdleStop(d) \/ ServerExit(d)
           \/ UNCHANGED vars
  <2>1. UNCHANGED <<faults, lock, pc, session, gen, header>>
    BY <1>7 DEF Bind, IdleStop, ServerExit, vars, world, jobVars, hostVars
  <2> QED
    BY <1>3, <2>1 DEF DeadIsIdle, Alive, HeaderOfLiveSession
<1>8. CASE Age
  <2>1. /\ lock # None /\ lock' = [lock EXCEPT !.old = TRUE]
        /\ ~Alive(HostOf(lock.by)) \/ "suspend" \in faults
        /\ UNCHANGED <<faults, pc, session, gen, header>>
    BY <1>8 DEF Age, world, jobVars, hostVars
  <2>2. lock'.by = lock.by /\ lock'.old /\ lock' # None
    <3>1. lock \in [by : Jobs, old : BOOLEAN]
      BY <2>1 DEF TypeOK
    <3>2. lock' \in [by : Jobs, old : BOOLEAN]
      BY <2>1, <3>1
    <3> QED
      BY <2>1, <3>1, <3>2, DaemonAssumption
  <2>3. LockInv'
    BY <1>1, <2>1, <2>2 DEF LockInv, LocksHold, Alive
  <2> QED
    BY <2>1, <2>3 DEF DeadIsIdle, OneAtTheLock, Alive, HeaderOfLiveSession
<1> QED
  BY <1>4, <1>5, <1>6, <1>7, <1>8

\* Every step keeps the invariant.
LEMMA NextInductive == Inductive /\ [Next]_vars => Inductive'
<1> SUFFICES ASSUME Inductive, [Next]_vars PROVE Inductive'
  OBVIOUS
<1>1. TypeOK'
  BY NextTyped DEF Inductive
<1>2. ASSUME NEW j \in Jobs, JobStep(j)
      PROVE  DeadIsIdle' /\ OneAtTheLock' /\ LockInv' /\ HeaderOfLiveSession'
  BY <1>2, JobKeeps
<1>3. DeadIsIdle' /\ OneAtTheLock' /\ LockInv' /\ HeaderOfLiveSession'
  BY <1>2, OthersKeep DEF Next
<1> QED
  BY <1>1, <1>3 DEF Inductive

-----------------------------------------------------------------------------
(* The theorems *)

\* The inductive invariant holds in every behaviour.
THEOREM DaemonInvariant == Spec => []Inductive
  BY InitInductive, NextInductive, PTL DEF Spec

\* The variables keep their types for any processes, calls and daemons.
THEOREM DaemonTypeCorrect == Spec => []TypeOK
<1>1. Inductive => TypeOK
  BY DEF Inductive
<1> QED
  BY <1>1, DaemonInvariant, PTL

\* However many processes start at once, one is inside the startup section: until one of
\* them is suspended, or gone while two others go on (withCrossProcessFileLockAsync).
THEOREM StartsExclude == Spec => []OneStartAtATime
<1>1. Inductive => OneStartAtATime
  BY DEF Inductive, LockInv, OneStartAtATime
<1> QED
  BY <1>1, DaemonInvariant, PTL

\* With any number of sessions and of pending starts per process, the header is one that
\* the running session has asked for (the generation check in hooks.ts).
THEOREM HeaderIsLive == Spec => []HeaderOfLiveSession
<1>1. Inductive => HeaderOfLiveSession
  BY DEF Inductive
<1> QED
  BY <1>1, DaemonInvariant, PTL

-----------------------------------------------------------------------------
(* The credentials *)

\* No lock is lost and no daemon starts too late.
Calm == LocksHold /\ "late" \notin faults

\* The port is bound once.
OneListens == \A d, e \in Listening : d = e

\* While a daemon starts nothing is published, and the lock is that of the call that
\* waits for it, or of a process that has just gone.
StartersAwaited ==
  Calm =>
    \A d \in Nonces : life[d] = "starting" =>
      /\ token = None
      /\ lock # None /\ ~lock.old
      /\ Alive(HostOf(lock.by)) => pc[lock.by] = "ready" /\ health[lock.by] = d

\* Who waits for its daemon has unpublished the last one, and who is about to spawn one
\* has seen that nobody listens.
PlaceIsFree ==
  Calm =>
    \A j \in Jobs : /\ pc[j] = "ready" => token = None
                    /\ pc[j] = "spawn" /\ "slow" \notin faults => Listening = {}

CredentialsInv == OneListens /\ StartersAwaited /\ CredentialsMatch /\ PlaceIsFree

\* What the step of a job does to the daemons and to the token: next to nothing, until it
\* spawns a daemon, or publishes it, or finds that there is none.
LEMMA JobOnDaemons ==
  ASSUME TypeOK, NEW j \in Jobs, JobStep(j)
  PROVE  /\ \A i \in Jobs \ {j} : health'[i] = health[i]
         /\ \A d \in Nonces : life'[d] = "unused" => life[d] = "unused"
         /\ \/ /\ pc'[j] \notin {"ready", "spawn"}
               /\ pc[j] = "ready" => Started \/ health[j] \in Listening
               /\ \A d \in Nonces : life'[d] = "starting" => life[d] = "starting"
               /\ Listening' \subseteq Listening
               /\ \/ token' = token
                  \/ token' = None /\ (pc[j] = "ready" \/ Listening = {} \/ "slow" \in faults)
            \/ /\ pc[j] \in {"probe", "reprobe"} /\ pc'[j] = "spawn"
               /\ Listening = {} \/ "slow" \in faults
               /\ life' = life /\ token' = token
            \/ /\ pc[j] = "spawn" /\ pc'[j] = "ready"
               /\ \E d \in Nonces : /\ life[d] = "unused"
                                    /\ life' = [life EXCEPT ![d] = "starting"]
                                    /\ health'[j] = d
               /\ token' = None /\ lock' = lock
            \/ /\ pc[j] = "ready" /\ pc'[j] = "idle"
               /\ health[j] \in Listening /\ token' = health[j]
               /\ life' = life
<1> DEFINE o == IF obs[HostOf(j)] = None THEN None ELSE obs[HostOf(j)].proc
<1>1. o \in Nonces \cup {None}
  BY HostOfJob DEF TypeOK, Server
<1>2. ASSUME NEW d \in Nonces \cup {None}
      PROVE  /\ \A e \in Nonces : /\ KilledLife(d)[e] = "unused" => life[e] = "unused"
                                  /\ KilledLife(d)[e] = "starting" => life[e] = "starting"
                                  /\ KilledLife(d)[e] \in {"up", "dying"} => life[e] \in {"up", "dying"}
  BY DEF KilledLife, TypeOK
<1> HIDE DEF o
<1>3. CASE OpenLock(j) \/ StatLock(j) \/ UnlinkLock(j)
  BY <1>3 DEF TypeOK, OpenLock, StatLock, UnlinkLock, Goto, Critical, daemonVars, Listening
<1>4. CASE LockTimeout(j)
  BY <1>4 DEF TypeOK, LockTimeout, Return, Goto, daemonVars, Listening
<1>5. CASE Probe(j)
  <2>1. /\ life' = life /\ token' = token /\ pc[j] = "probe"
        /\ \A i \in Jobs \ {j} : health'[i] = health[i]
    BY <1>5 DEF TypeOK, Probe, Release, Return, Goto, daemonVars
  <2>2. \/ pc'[j] \in {"idle", "stop"}
        \/ pc'[j] = "spawn" /\ (Listening = {} \/ "slow" \in faults)
    BY <1>5, DaemonAssumption DEF TypeOK, Probe, Probed, Release, Return, Goto, Listening
  <2> QED
    BY <2>1, <2>2 DEF Listening
<1>6. CASE Reprobe(j)
  <2>1. /\ life' = life /\ token' = token /\ pc[j] = "reprobe"
        /\ \A i \in Jobs \ {j} : health'[i] = health[i]
    BY <1>6 DEF TypeOK, Reprobe, Release, Return, Goto, daemonVars
  <2>2. \/ pc'[j] = "idle"
        \/ pc'[j] = "spawn" /\ (Listening = {} \/ "slow" \in faults)
    BY <1>6, DaemonAssumption DEF TypeOK, Reprobe, Probed, Release, Return, Goto, Listening
  <2> QED
    BY <2>1, <2>2 DEF Listening
<1>7. CASE Spawn(j)
  <2>1. CASE Release(j, FALSE, obs[HostOf(j)]) /\ UNCHANGED <<daemonVars, token>>
    BY <1>7, <2>1 DEF TypeOK, Spawn, Release, Return, Goto, daemonVars, Listening
  <2>2. ASSUME NEW d \in Nonces, life[d] = "unused", token' = Unpublished,
               life' = [life EXCEPT ![d] = "starting"], health' = [health EXCEPT ![j] = d],
               Goto(j, "ready"), lock' = lock, pc[j] = "spawn"
        PROVE  /\ pc'[j] = "ready" /\ health'[j] = d /\ token' = None
               /\ \A i \in Jobs \ {j} : health'[i] = health[i]
               /\ \A e \in Nonces : life'[e] = "unused" => life[e] = "unused"
    BY <2>2 DEF TypeOK, Goto, Unpublished
  <2> QED
    BY <1>7, <2>1, <2>2 DEF Spawn
<1>8. CASE Ready(j)
  <2>1. /\ pc[j] = "ready" /\ pc'[j] = "idle" /\ health[j] \in Listening
        /\ \A i \in Jobs \ {j} : health'[i] = health[i]
    BY <1>8 DEF TypeOK, Ready, Release, Return, Goto
  <2>2. \/ token' = health[j] /\ life' = life
        \/ token' = None /\ life' = KilledLife(o)
    BY <1>8 DEF Ready, daemonVars, o
  <2> QED
    BY <1>1, <1>2, <2>1, <2>2 DEF Listening
<1>9. CASE NotReady(j)
  <2>1. /\ pc[j] = "ready" /\ pc'[j] = "idle" /\ Started /\ token' = token
        /\ \A i \in Jobs \ {j} : health'[i] = health[i]
        /\ life' = KilledLife(o)
    BY <1>9 DEF TypeOK, NotReady, Release, Return, Goto, o
  <2> QED
    BY <1>1, <1>2, <2>1 DEF Listening
<1>10. CASE StopProbe(j)
  BY <1>10 DEF TypeOK, StopProbe, Goto, daemonVars, Listening
<1>11. CASE Shutdown(j)
  <2>1. /\ pc[j] = "shutdown" /\ pc'[j] = "wait" /\ token' = token /\ health' = health
    BY <1>11 DEF TypeOK, Shutdown, Goto
  <2>2. \/ life' = KilledLife(managed[j]) \/ life' = life
        \/ \E d \in Listening : life' = [life EXCEPT ![d] = "dying"]
    BY <1>11 DEF Shutdown
  <2>3. managed[j] \in Nonces \cup {None}
    BY DEF TypeOK
  <2>4. /\ \A d \in Nonces : /\ life'[d] = "unused" => life[d] = "unused"
                             /\ life'[d] = "starting" => life[d] = "starting"
        /\ Listening' \subseteq Listening
    BY <1>2, <2>2, <2>3 DEF Listening, TypeOK
  <2> QED
    BY <2>1, <2>4
<1>12. CASE StopWait(j)
  <2>1. /\ pc[j] = "wait" /\ pc'[j] \in {"reprobe", "idle"} /\ life' = life
        /\ \A i \in Jobs \ {j} : health'[i] = health[i]
    BY <1>12 DEF TypeOK, StopWait, Release, Return, Goto, daemonVars
  <2>2. token' = token \/ (token' = None /\ (Listening = {} \/ "slow" \in faults))
    BY <1>12, DaemonAssumption DEF StopWait, Probed, Listening
  <2> QED
    BY <2>1, <2>2 DEF Listening
<1> QED
  BY <1>3, <1>4, <1>5, <1>6, <1>7, <1>8, <1>9, <1>10, <1>11, <1>12 DEF JobStep

\* A token that was unpublished was that of no daemon that answers, and the job steps keep
\* the invariant of the credentials.
LEMMA JobKeepsCredentials ==
  ASSUME Inductive, CredentialsInv, NEW j \in Jobs, JobStep(j), Inductive'
  PROVE  CredentialsInv'
<1>1. /\ TypeOK /\ TypeOK' /\ HostOf(j) \in Hosts /\ Alive(HostOf(j)) /\ Alive(HostOf(j))'
      /\ pc[j] # "idle" /\ faults' = faults
      /\ \A i \in Jobs \ {j} : pc'[i] = pc[i]
      /\ LocksHold' => LocksHold
  <2>1. TypeOK /\ TypeOK' /\ HostOf(j) \in Hosts
    BY HostOfJob DEF Inductive
  <2>2. pc[j] # "idle" /\ faults' = faults /\ (\A i \in Jobs \ {j} : pc'[i] = pc[i])
    BY <2>1, JobMoves
  <2>3. Alive(HostOf(j))
    BY <2>1, <2>2 DEF Inductive, DeadIsIdle
  <2>4. Alive(HostOf(j))'
    BY <2>1, <2>3, JobOnSession DEF Alive
  <2> QED
    BY <2>1, <2>2, <2>3, <2>4, JobKeeps
<1>2. \A h \in Hosts : session'[h] = "gone" <=> session[h] = "gone"
  BY <1>1, JobOnSession DEF Alive
<1>3. Calm' => Calm
  BY <1>1 DEF Calm
<1>4. Calm => (pc[j] \in Critical => lock # None /\ lock.by = j /\ ~lock.old)
  BY <1>1 DEF Inductive, LockInv, Calm
<1>5. Calm => (lock # None /\ ~lock.old => pc[j] # "unlink")
  BY DEF Inductive, LockInv, Calm
<1>6. Calm /\ pc[j] \in Critical /\ pc[j] # "ready" => \A d \in Nonces : life[d] # "starting"
  BY <1>1, <1>4 DEF CredentialsInv, StartersAwaited
<1>7. Calm /\ pc[j] = "ready" => \A d \in Nonces : life[d] = "starting" => health[j] = d
  BY <1>1, <1>4 DEF CredentialsInv, StartersAwaited, Critical
<1>8. OneListens'
  <2>1. Listening' \subseteq Listening
    BY <1>1, JobOnDaemons DEF Listening, TypeOK
  <2> QED
    BY <2>1 DEF CredentialsInv, OneListens
<1> DEFINE NoStarter == \A d \in Nonces : life[d] # "starting"
           Small == /\ pc'[j] \notin {"ready", "spawn"}
                    /\ pc[j] = "ready" => Started \/ health[j] \in Listening
                    /\ \A d \in Nonces : life'[d] = "starting" => life[d] = "starting"
                    /\ Listening' \subseteq Listening
                    /\ \/ token' = token
                       \/ token' = None
           Finds == /\ pc[j] \in {"probe", "reprobe"} /\ pc'[j] = "spawn"
                    /\ Listening = {} \/ "slow" \in faults
                    /\ life' = life /\ token' = token
           Spawns == /\ pc[j] = "spawn" /\ pc'[j] = "ready"
                     /\ \E d \in Nonces : /\ life[d] = "unused"
                                          /\ life' = [life EXCEPT ![d] = "starting"]
                                          /\ health'[j] = d
                     /\ token' = None /\ lock' = lock
           Publishes == /\ pc[j] = "ready" /\ pc'[j] = "idle"
                        /\ health[j] \in Listening /\ token' = health[j]
                        /\ life' = life
<1>9. Small \/ Finds \/ Spawns \/ Publishes
  BY <1>1, JobOnDaemons
<1>10. \A i \in Jobs \ {j} : health'[i] = health[i]
  BY <1>1, JobOnDaemons
<1>11. ASSUME Calm, Small \/ Publishes
       PROVE  NoStarter \/ (lock' = lock /\ lock # None /\ lock.by # j)
  <2>1. CASE pc[j] \in Critical /\ pc[j] # "ready"
    BY <1>6, <1>11, <2>1
  <2>2. CASE pc[j] = "ready"
    BY <1>7, <1>11, <2>2 DEF Started, Calm, Listening
  <2>3. CASE pc[j] \notin Critical
    <3>1. pc[j] # "ready"
      BY <2>3 DEF Critical
    <3>2. ~NoStarter => lock # None /\ ~lock.old /\ lock.by # j
      BY <1>1, <1>11, <3>1 DEF CredentialsInv, StartersAwaited
    <3>3. \/ lock = None \/ lock' = lock \/ pc[j] = "unlink"
      BY <1>1, <2>3, JobMoves
    <3> QED
      BY <1>5, <1>11, <3>2, <3>3
  <2> QED
    BY <2>1, <2>2, <2>3
<1>12. StartersAwaited'
  <2> SUFFICES ASSUME Calm', NEW d \in Nonces, life'[d] = "starting"
               PROVE  /\ token' = None
                      /\ lock' # None /\ ~lock'.old
                      /\ session'[HostOf(lock'.by)] # "gone" =>
                            pc'[lock'.by] = "ready" /\ health'[lock'.by] = d
    BY DEF StartersAwaited, Alive
  <2>1. Calm
    BY <1>3
  <2>2. CASE Small \/ Publishes
    <3>1. life[d] = "starting"
      BY <2>2
    <3>2. /\ token = None /\ lock # None /\ ~lock.old
          /\ session[HostOf(lock.by)] # "gone" => pc[lock.by] = "ready" /\ health[lock.by] = d
      BY <2>1, <3>1 DEF CredentialsInv, StartersAwaited, Alive
    <3>3. lock' = lock /\ lock.by # j /\ lock.by \in Jobs /\ HostOf(lock.by) \in Hosts
      BY <1>1, <1>11, <2>1, <2>2, <3>1, HostOfJob DEF TypeOK
    <3>4. token' = None
      <4>1. Publishes => token' = None
        BY <1>7, <2>1, <3>1 DEF Listening
      <4> QED
        BY <2>2, <3>2, <4>1
    <3> QED
      BY <1>1, <1>2, <1>10, <3>2, <3>3, <3>4
  <2>3. CASE Finds
    BY <1>6, <2>1, <2>3 DEF Critical
  <2>4. CASE Spawns
    <3>1. pc[j] \in Critical /\ NoStarter
      BY <1>6, <2>1, <2>4 DEF Critical
    <3>2. health'[j] = d
      BY <1>1, <2>4, <3>1 DEF TypeOK
    <3> QED
      BY <1>4, <2>1, <2>4, <3>1, <3>2
  <2> HIDE DEF Small, Finds, Spawns, Publishes
  <2> QED
    BY <1>9, <2>2, <2>3, <2>4
<1>13. CredentialsMatch'
  <2> SUFFICES ASSUME Calm', token' # None PROVE Listening' \subseteq {token'}
    BY DEF CredentialsMatch, Calm
  <2>1. Calm /\ (token # None => Listening \subseteq {token})
    BY <1>3 DEF CredentialsInv, CredentialsMatch, Calm
  <2>2. CASE Small
    BY <2>1, <2>2
  <2>3. CASE Finds
    BY <2>1, <2>3 DEF Listening
  <2>4. CASE Spawns
    BY <2>4
  <2>5. CASE Publishes
    BY <2>5 DEF CredentialsInv, OneListens, Listening
  <2> HIDE DEF Small, Finds, Spawns, Publishes
  <2> QED
    BY <1>9, <2>2, <2>3, <2>4, <2>5
<1>14. PlaceIsFree'
  <2> SUFFICES ASSUME Calm', NEW i \in Jobs
               PROVE  /\ pc'[i] = "ready" => token' = None
                      /\ pc'[i] = "spawn" /\ "slow" \notin faults => Listening' = {}
    BY <1>1 DEF PlaceIsFree
  <2>1. Calm /\ (pc[i] = "ready" => token = None)
        /\ (pc[i] = "spawn" /\ "slow" \notin faults => Listening = {})
    BY <1>3 DEF CredentialsInv, PlaceIsFree
  <2>2. CASE Small
    BY <1>1, <2>1, <2>2
  <2>3. CASE Finds
    BY <1>1, <2>1, <2>3 DEF Listening
  <2>4. CASE Spawns
    <3>1. i # j => pc'[i] # "spawn"
      BY <1>1, <1>4, <2>1, <2>4 DEF Inductive, LockInv, Calm, Critical
    <3> QED
      BY <2>4, <3>1
  <2>5. CASE Publishes
    <3>1. pc'[i] \notin {"ready", "spawn"}
      BY <1>1, <1>4, <2>1, <2>5 DEF Inductive, LockInv, Calm, Critical
    <3> QED
      BY <3>1
  <2> HIDE DEF Small, Finds, Spawns, Publishes
  <2> QED
    BY <1>9, <2>2, <2>3, <2>4, <2>5
<1> QED
  BY <1>8, <1>12, <1>13, <1>14 DEF CredentialsInv

\* So do the other steps: a daemon binds the free port when nothing is published, and
\* before the lock of its start gets old.
LEMMA OthersKeepCredentials ==
  ASSUME Inductive, CredentialsInv,
         \/ \E j \in Jobs : SessionStart(j) \/ Observe(j) \/ Quit(j)
         \/ \E h \in Hosts : SessionEnd(h) \/ Exit(h)
         \/ \E d \in Nonces : Bind(d) \/ IdleStop(d) \/ ServerExit(d)
         \/ Age
         \/ UNCHANGED vars
  PROVE  CredentialsInv'
<1>1. /\ TypeOK
      /\ \A h \in Hosts : session'[h] # "gone" => session[h] # "gone"
      /\ faults' = faults /\ (Calm' => Calm)
  BY GoneStaysGone DEF Inductive, Alive, Calm
<1>2. lock # None => lock.by \in Jobs /\ HostOf(lock.by) \in Hosts
  BY <1>1, HostOfJob DEF TypeOK
<1>3. Calm => \A d \in Nonces : life[d] = "starting" =>
        /\ token = None
        /\ lock # None /\ ~lock.old
        /\ session[HostOf(lock.by)] # "gone" => pc[lock.by] = "ready" /\ health[lock.by] = d
  BY DEF CredentialsInv, StartersAwaited, Alive
<1>4. \A j \in Jobs : Calm /\ pc[j] = "spawn" => \A d \in Nonces : life[d] # "starting"
  <2> SUFFICES ASSUME NEW j \in Jobs, Calm, pc[j] = "spawn", NEW d \in Nonces, life[d] = "starting"
               PROVE  FALSE
    OBVIOUS
  <2>1. lock.by = j
    BY DEF Inductive, LockInv, Calm, Critical
  <2>2. Alive(HostOf(j))
    BY DEF Inductive, DeadIsIdle
  <2> QED
    BY <1>3, <2>1, <2>2 DEF Alive
\* A step that leaves lock and token alone, ends calls or begins them, and starts no daemon.
<1>5. ASSUME lock' = lock, token' = token,
             \A i \in Jobs :
               \/ pc'[i] = pc[i] /\ health'[i] = health[i]
               \/ pc'[i] \in {"idle", "open"} /\ pc[i] = "idle"
               \/ pc'[i] = "idle" /\ session'[HostOf(i)] = "gone",
             \A d \in Nonces : life'[d] = "starting" => life[d] = "starting",
             \/ Listening' \subseteq Listening
             \/ /\ Listening = {} /\ \E d \in Nonces : life[d] = "starting"
                /\ \A d, e \in Listening' : d = e
      PROVE  CredentialsInv'
  <2>1. OneListens'
    BY <1>5 DEF CredentialsInv, OneListens
  <2>2. StartersAwaited'
    <3> SUFFICES ASSUME Calm', NEW d \in Nonces, life'[d] = "starting"
                 PROVE  /\ token' = None
                        /\ lock' # None /\ ~lock'.old
                        /\ session'[HostOf(lock'.by)] # "gone" =>
                              pc'[lock'.by] = "ready" /\ health'[lock'.by] = d
      BY DEF StartersAwaited, Alive
    <3>1. /\ token = None /\ lock # None /\ ~lock.old
          /\ session[HostOf(lock.by)] # "gone" => pc[lock.by] = "ready" /\ health[lock.by] = d
      BY <1>1, <1>3, <1>5
    <3> QED
      BY <1>1, <1>2, <1>5, <3>1
  <2>3. CredentialsMatch'
    <3> SUFFICES ASSUME Calm', token' # None PROVE Listening' \subseteq {token'}
      BY DEF CredentialsMatch, Calm
    <3> QED
      BY <1>1, <1>3, <1>5 DEF CredentialsInv, CredentialsMatch, Calm
  <2>4. PlaceIsFree'
    <3> SUFFICES ASSUME Calm', NEW i \in Jobs
                 PROVE  /\ pc'[i] = "ready" => token' = None
                        /\ pc'[i] = "spawn" /\ "slow" \notin faults => Listening' = {}
      BY <1>1 DEF PlaceIsFree
    <3>1. pc'[i] \in {"ready", "spawn"} => pc'[i] = pc[i]
      BY <1>5
    <3> QED
      BY <1>1, <1>4, <1>5, <3>1 DEF CredentialsInv, PlaceIsFree
  <2> QED
    BY <2>1, <2>2, <2>3, <2>4 DEF CredentialsInv
<1>6. ASSUME NEW j \in Jobs, SessionStart(j) \/ Observe(j) \/ Quit(j)
      PROVE  CredentialsInv'
  <2>1. /\ lock' = lock /\ token' = token /\ life' = life
        /\ \A i \in Jobs :
             \/ pc'[i] = pc[i] /\ health'[i] = health[i]
             \/ pc'[i] \in {"idle", "open"} /\ pc[i] = "idle"
    BY <1>1, <1>6 DEF SessionStart, Observe, Quit, Call, Goto, TypeOK, jobVars, daemonVars
  <2> QED
    BY <1>5, <2>1 DEF Listening
<1>7. ASSUME NEW h \in Hosts, SessionEnd(h) \/ Exit(h)
      PROVE  CredentialsInv'
  <2>1. lock' = lock /\ token' = token /\ life' = life
    BY <1>7 DEF SessionEnd, Exit, daemonVars
  <2>2. \A i \in Jobs :
          \/ pc'[i] = pc[i] /\ health'[i] = health[i]
          \/ pc'[i] = "idle" /\ session'[HostOf(i)] = "gone"
    BY <1>1, <1>7 DEF SessionEnd, Exit, TypeOK, jobVars
  <2> QED
    BY <1>5, <2>1, <2>2 DEF Listening
<1>8. ASSUME NEW d \in Nonces, Bind(d) \/ IdleStop(d) \/ ServerExit(d)
      PROVE  CredentialsInv'
  <2>1. UNCHANGED <<lock, token, pc, health>>
    BY <1>8 DEF Bind, IdleStop, ServerExit, jobVars
  <2>2. \A e \in Nonces : life'[e] = "starting" => life[e] = "starting"
    BY <1>1, <1>8 DEF Bind, IdleStop, ServerExit, TypeOK
  <2>3. \/ Listening' \subseteq Listening
        \/ /\ Listening = {} /\ \E e \in Nonces : life[e] = "starting"
           /\ \A f, e \in Listening' : f = e
    BY <1>1, <1>8 DEF Bind, IdleStop, ServerExit, TypeOK, Listening
  <2> QED
    BY <1>5, <2>1, <2>2, <2>3
<1>9. CASE Age
  <2>1. /\ Started /\ faults' = faults
        /\ UNCHANGED <<life, token, pc, health>>
    BY <1>9 DEF Age, world, jobVars, daemonVars
  <2>2. Calm' => Calm /\ (\A d \in Nonces : life'[d] # "starting")
    BY <1>1, <2>1 DEF Started, Calm
  <2> QED
    BY <1>1, <2>1, <2>2 DEF CredentialsInv, OneListens, StartersAwaited, CredentialsMatch, PlaceIsFree, Listening, Calm
<1>10. CASE UNCHANGED vars
  <2>1. UNCHANGED <<lock, token, life, pc, health>>
    BY <1>10 DEF vars, jobVars, daemonVars
  <2> QED
    BY <1>5, <2>1 DEF Listening
<1> QED
  BY <1>6, <1>7, <1>8, <1>9, <1>10

\* The invariant of the credentials in every behaviour.
THEOREM CredentialsInvariance == Spec => [](Inductive /\ CredentialsInv)
<1>1. Init => Inductive /\ CredentialsInv
  <2> SUFFICES ASSUME Init PROVE CredentialsInv
    BY InitInductive
  <2> QED
    BY DEF Init, CredentialsInv, OneListens, StartersAwaited, CredentialsMatch, PlaceIsFree, Listening
<1>2. Inductive /\ CredentialsInv /\ [Next]_vars => (Inductive /\ CredentialsInv)'
  <2> SUFFICES ASSUME Inductive, CredentialsInv, [Next]_vars PROVE (Inductive /\ CredentialsInv)'
    OBVIOUS
  <2>1. Inductive'
    BY NextInductive
  <2>2. ASSUME NEW j \in Jobs, JobStep(j) PROVE CredentialsInv'
    BY <2>1, <2>2, JobKeepsCredentials
  <2>3. CredentialsInv'
    BY <2>2, OthersKeepCredentials DEF Next
  <2> QED
    BY <2>1, <2>3
<1> QED
  BY <1>1, <1>2, PTL DEF Spec

\* What is published belongs to the daemon that listens.
THEOREM CredentialsAreRight == Spec => []CredentialsMatch
<1>1. CredentialsInv => CredentialsMatch
  BY DEF CredentialsInv
<1> QED
  BY <1>1, CredentialsInvariance, PTL

-----------------------------------------------------------------------------
(* Who loses a daemon *)

\* A process holds the daemons it has spawned, a call of its own likewise, and a daemon
\* is spawned once.
OwnersKnown ==
  /\ \A h \in Hosts : obs[h] # None =>
       /\ obs[h].proc # None => spawner[obs[h].proc] = h
       /\ ~obs[h].adopted => obs[h].proc # None
  /\ \A j \in Jobs :
       /\ managed[j] # None => spawner[managed[j]] = HostOf(j)
       /\ kind[j] = "quit" => \E d \in Nonces : spawner[d] = HostOf(j)
  /\ \A d \in Nonces : spawner[d] # None => life[d] # "unused"

\* What the step of a job does to the owners: it spawns a daemon, or forgets the daemon of
\* its process, or adopts one, or takes the one its process holds.
LEMMA JobOnOwners ==
  ASSUME TypeOK, NEW j \in Jobs, JobStep(j)
  PROVE  /\ \A h \in Hosts \ {HostOf(j)} : obs'[h] = obs[h]
         /\ \A i \in Jobs \ {j} : managed'[i] = managed[i] /\ kind'[i] = kind[i]
         /\ kind'[j] \in {kind[j], "start"}
         /\ \/ managed'[j] \in {managed[j], None}
            \/ obs[HostOf(j)] # None /\ managed'[j] = obs[HostOf(j)].proc
         /\ \/ /\ spawner' = spawner
               /\ obs'[HostOf(j)] \in {obs[HostOf(j)], None, [proc |-> None, adopted |-> TRUE]}
            \/ \E d \in Nonces :
                 /\ life[d] = "unused" /\ life'[d] = "starting"
                 /\ spawner' = [spawner EXCEPT ![d] = HostOf(j)]
                 /\ obs'[HostOf(j)] = [proc |-> d, adopted |-> FALSE]
                 /\ managed'[j] = managed[j]
<1> DEFINE h == HostOf(j)
           Fresh == [proc |-> None, adopted |-> TRUE]
           Held == /\ \A g \in Hosts \ {h} : obs'[g] = obs[g]
                   /\ obs'[h] \in {obs[h], None, Fresh}
           Same == /\ \A i \in Jobs \ {j} : managed'[i] = managed[i] /\ kind'[i] = kind[i]
                   /\ kind'[j] \in {kind[j], "start"}
                   /\ managed'[j] \in {managed[j], None}
<1>1. h \in Hosts
  BY HostOfJob
<1> HIDE DEF h, Fresh
<1>2. ASSUME NEW r, NEW o \in {obs[h], None, Fresh}, Return(j, r, o) PROVE Held /\ Same
  BY <1>1, <1>2 DEF Return, TypeOK, h
<1>3. CASE OpenLock(j) \/ StatLock(j) \/ UnlinkLock(j) \/ Shutdown(j)
  BY <1>3 DEF OpenLock, StatLock, UnlinkLock, Shutdown, daemonVars, h
<1>4. CASE LockTimeout(j)
  BY <1>2, <1>4 DEF LockTimeout, daemonVars, h, Fresh
<1>5. CASE Probe(j)
  <2>1. \/ UNCHANGED <<obs, managed, kind>>
        \/ \E o \in {obs[h], None, Fresh} : Return(j, TRUE, o)
    BY <1>5 DEF Probe, Release, h, Fresh
  <2>2. spawner' = spawner
    BY <1>5 DEF Probe, daemonVars
  <2> QED
    BY <1>2, <2>1, <2>2 DEF h, Fresh
<1>6. CASE Reprobe(j)
  <2>1. UNCHANGED <<obs, managed, kind>> \/ Return(j, FALSE, obs[h])
    BY <1>6 DEF Reprobe, Release, h
  <2>2. spawner' = spawner
    BY <1>6 DEF Reprobe, daemonVars
  <2> QED
    BY <1>2, <2>1, <2>2 DEF h, Fresh
<1>7. CASE Spawn(j)
  <2>1. CASE Return(j, FALSE, obs[h]) /\ UNCHANGED daemonVars
    BY <1>2, <2>1 DEF daemonVars, h, Fresh
  <2>2. ASSUME NEW d \in Nonces, life[d] = "unused",
               life' = [life EXCEPT ![d] = "starting"],
               spawner' = [spawner EXCEPT ![d] = h],
               obs' = [obs EXCEPT ![h] = [proc |-> d, adopted |-> FALSE]],
               UNCHANGED <<kind, managed>>
        PROVE  /\ life'[d] = "starting" /\ obs'[h] = [proc |-> d, adopted |-> FALSE]
               /\ \A g \in Hosts \ {h} : obs'[g] = obs[g]
    BY <1>1, <2>2 DEF TypeOK
  <2>3. \/ Return(j, FALSE, obs[h]) /\ UNCHANGED daemonVars
        \/ \E d \in Nonces :
             /\ life[d] = "unused"
             /\ life' = [life EXCEPT ![d] = "starting"]
             /\ spawner' = [spawner EXCEPT ![d] = h]
             /\ obs' = [obs EXCEPT ![h] = [proc |-> d, adopted |-> FALSE]]
             /\ UNCHANGED <<kind, managed>>
    BY <1>7 DEF Spawn, Release, h
  <2> QED
    BY <2>1, <2>2, <2>3 DEF h
<1>8. CASE Ready(j) \/ NotReady(j)
  <2>1. Return(j, TRUE, obs[h]) \/ Return(j, FALSE, None)
    BY <1>8 DEF Ready, NotReady, Release, h
  <2>2. spawner' = spawner
    BY <1>8 DEF Ready, NotReady, daemonVars
  <2> QED
    BY <1>2, <2>1, <2>2 DEF h, Fresh
<1>9. CASE StopProbe(j)
  BY <1>9 DEF StopProbe, TypeOK, daemonVars, hostVars, h, Fresh
<1>10. CASE StopWait(j)
  <2>1. spawner' = spawner
    BY <1>10 DEF StopWait, daemonVars
  <2>2. CASE Return(j, FALSE, None)
    BY <1>2, <2>1, <2>2 DEF h, Fresh
  <2>3. CASE /\ managed' = [managed EXCEPT ![j] = None]
             /\ obs' = [obs EXCEPT ![h] = None]
             /\ kind' = kind
    BY <1>1, <2>1, <2>3 DEF TypeOK, h, Fresh
  <2> QED
    BY <1>10, <2>2, <2>3 DEF StopWait, Release, h
<1> QED
  BY <1>3, <1>4, <1>5, <1>6, <1>7, <1>8, <1>9, <1>10 DEF JobStep

\* Every step keeps track of the owners.
LEMMA NextKeepsOwners ==
  ASSUME TypeOK, TypeOK', OwnersKnown, [Next]_vars
  PROVE  OwnersKnown'
<1>1. ASSUME NEW j \in Jobs, JobStep(j) PROVE OwnersKnown'
  <2> DEFINE h == HostOf(j)
  <2>1. h \in Hosts /\ \A i \in Jobs : HostOf(i) \in Hosts
    BY HostOfJob
  <2>2. /\ \A g \in Hosts \ {h} : obs'[g] = obs[g]
        /\ \A i \in Jobs \ {j} : managed'[i] = managed[i] /\ kind'[i] = kind[i]
        /\ kind'[j] \in {kind[j], "start"}
        /\ \/ managed'[j] \in {managed[j], None}
           \/ obs[h] # None /\ managed'[j] = obs[h].proc
        /\ \A d \in Nonces : life'[d] = "unused" => life[d] = "unused"
    BY <1>1, JobOnOwners, JobOnDaemons
  <2>3. /\ \A g \in Hosts : obs[g] \in Server \cup {None}
        /\ \A i \in Jobs : managed[i] \in Nonces \cup {None}
        /\ None \notin Hosts
    BY DaemonAssumption DEF TypeOK
  <2>4. CASE /\ spawner' = spawner
             /\ obs'[h] \in {obs[h], None, [proc |-> None, adopted |-> TRUE]}
    BY <2>1, <2>2, <2>3, <2>4 DEF OwnersKnown
  <2>5. ASSUME NEW d \in Nonces,
               life[d] = "unused", life'[d] = "starting",
               spawner' = [spawner EXCEPT ![d] = h],
               obs'[h] = [proc |-> d, adopted |-> FALSE],
               managed'[j] = managed[j]
        PROVE  OwnersKnown'
    <3>1. spawner[d] = None
      BY <2>5 DEF OwnersKnown
    <3>2. spawner'[d] = h /\ (\A e \in Nonces \ {d} : spawner'[e] = spawner[e])
      BY <2>5 DEF TypeOK
    <3>3. \A e \in Nonces : spawner[e] \in Hosts => spawner'[e] = spawner[e]
      BY <2>3, <3>1, <3>2
    <3>4. \A g \in Hosts : obs'[g] # None =>
            /\ obs'[g].proc # None => spawner'[obs'[g].proc] = g
            /\ ~obs'[g].adopted => obs'[g].proc # None
      <4>1. ASSUME NEW g \in Hosts \ {h}, obs'[g] # None
            PROVE  /\ obs'[g].proc # None => spawner'[obs'[g].proc] = g
                   /\ ~obs'[g].adopted => obs'[g].proc # None
        BY <2>2, <2>3, <3>3, <4>1 DEF OwnersKnown, Server
      <4>2. obs'[h].proc = d /\ d # None
        BY <2>5, DaemonAssumption
      <4> QED
        BY <3>2, <4>1, <4>2
    <3>5. \A i \in Jobs :
            /\ managed'[i] # None => spawner'[managed'[i]] = HostOf(i)
            /\ kind'[i] = "quit" => \E e \in Nonces : spawner'[e] = HostOf(i)
      <4>1. \A i \in Jobs : managed'[i] = managed[i] /\ kind'[i] \in {kind[i], "start"}
        BY <2>2, <2>5
      <4>2. \A i \in Jobs : managed[i] # None => spawner'[managed[i]] = HostOf(i)
        BY <2>1, <2>3, <3>3 DEF OwnersKnown
      <4>3. \A i \in Jobs : kind[i] = "quit" => \E e \in Nonces : spawner'[e] = HostOf(i)
        BY <2>1, <3>3 DEF OwnersKnown
      <4> QED
        BY <4>1, <4>2, <4>3
    <3>6. \A e \in Nonces : spawner'[e] # None => life'[e] # "unused"
      BY <2>2, <2>5, <3>2 DEF OwnersKnown
    <3> QED
      BY <3>4, <3>5, <3>6 DEF OwnersKnown
  <2> HIDE DEF h
  <2>6. \/ /\ spawner' = spawner
           /\ obs'[h] \in {obs[h], None, [proc |-> None, adopted |-> TRUE]}
        \/ \E d \in Nonces :
             /\ life[d] = "unused" /\ life'[d] = "starting"
             /\ spawner' = [spawner EXCEPT ![d] = h]
             /\ obs'[h] = [proc |-> d, adopted |-> FALSE]
             /\ managed'[j] = managed[j]
    BY <1>1, JobOnOwners DEF h
  <2> QED
    BY <2>4, <2>5, <2>6
\* The other steps forget daemons and calls; only a quit begins a call of its kind.
<1>2. ASSUME spawner' = spawner,
             \A h \in Hosts : obs'[h] \in {obs[h], None},
             \A i \in Jobs : managed'[i] \in {managed[i], None},
             \A i \in Jobs : kind'[i] = "quit" =>
               kind[i] = "quit" \/ (obs[HostOf(i)] # None /\ ~obs[HostOf(i)].adopted),
             \A d \in Nonces : life'[d] = "unused" => life[d] = "unused"
      PROVE  OwnersKnown'
  <2>1. \A i \in Jobs : kind'[i] = "quit" => \E d \in Nonces : spawner[d] = HostOf(i)
    <3> SUFFICES ASSUME NEW i \in Jobs, obs[HostOf(i)] # None, ~obs[HostOf(i)].adopted
                 PROVE  \E d \in Nonces : spawner[d] = HostOf(i)
      BY <1>2 DEF OwnersKnown
    <3>1. HostOf(i) \in Hosts /\ obs[HostOf(i)].proc \in Nonces \cup {None}
      BY HostOfJob DEF TypeOK, Server
    <3> QED
      BY <3>1 DEF OwnersKnown
  <2> QED
    BY <1>2, <2>1 DEF OwnersKnown
<1>3. ASSUME NEW j \in Jobs, SessionStart(j) \/ Observe(j) \/ Quit(j) PROVE OwnersKnown'
  <2>1. /\ spawner' = spawner /\ life' = life /\ managed' = managed
        /\ \A h \in Hosts : obs'[h] \in {obs[h], None}
    BY <1>3 DEF SessionStart, Observe, Quit, Call, TypeOK, jobVars, daemonVars, hostVars
  <2>2. \A i \in Jobs : kind'[i] = "quit" =>
          kind[i] = "quit" \/ (obs[HostOf(i)] # None /\ ~obs[HostOf(i)].adopted)
    BY <1>3 DEF SessionStart, Observe, Quit, Call, TypeOK, jobVars, OwnsDaemon
  <2> QED
    BY <1>2, <2>1, <2>2
<1>4. ASSUME NEW h \in Hosts, SessionEnd(h) \/ Exit(h) PROVE OwnersKnown'
  <2>1. /\ spawner' = spawner /\ life' = life
        /\ \A g \in Hosts : obs'[g] \in {obs[g], None}
    BY <1>4 DEF SessionEnd, Exit, TypeOK, daemonVars
  <2>2. \A i \in Jobs : /\ managed'[i] \in {managed[i], None}
                        /\ kind'[i] = "quit" => kind[i] = "quit"
    BY <1>4 DEF SessionEnd, Exit, TypeOK, jobVars
  <2> QED
    BY <1>2, <2>1, <2>2
<1>5. ASSUME NEW d \in Nonces, Bind(d) \/ IdleStop(d) \/ ServerExit(d) PROVE OwnersKnown'
  <2>1. UNCHANGED <<spawner, obs, managed, kind>>
    BY <1>5 DEF Bind, IdleStop, ServerExit, jobVars
  <2>2. \A e \in Nonces : life'[e] = "unused" => life[e] = "unused"
    BY <1>5 DEF Bind, IdleStop, ServerExit, TypeOK
  <2> QED
    BY <1>2, <2>1, <2>2
<1>6. CASE Age \/ UNCHANGED vars
  BY <1>6 DEF Age, vars, jobVars, daemonVars, OwnersKnown
<1> QED
  BY <1>1, <1>3, <1>4, <1>5, <1>6 DEF Next

\* The owners are known in every behaviour.
THEOREM OwnersInvariance == Spec => []OwnersKnown
<1>1. Init => OwnersKnown
  BY DEF Init, OwnersKnown
<1>2. TypeOK /\ TypeOK' /\ OwnersKnown /\ [Next]_vars => OwnersKnown'
  BY NextKeepsOwners
<1> QED
  BY <1>1, <1>2, DaemonTypeCorrect, PTL DEF Spec

\* A step takes the credentials of no daemon that answers in time.
LEMMA StepKeepsCredentials ==
  ASSUME Inductive, CredentialsInv, [Next]_vars,
         LocksHold, faults \cap {"slow", "late"} = {}, token # None, life[token] = "up"
  PROVE  token' = token
<1>1. TypeOK /\ Calm /\ "slow" \notin faults /\ token \in Listening
  BY DEF Inductive, Calm, TypeOK, Listening
<1>2. ASSUME NEW j \in Jobs, JobStep(j) PROVE token' = token
  <2>1. pc[j] = "ready" => token = None
    BY <1>1 DEF CredentialsInv, PlaceIsFree
  <2>2. pc[j] = "spawn" => Listening = {}
    BY <1>1 DEF CredentialsInv, PlaceIsFree
  <2> QED
    BY <1>1, <1>2, <2>1, <2>2, JobOnDaemons
<1>3. ASSUME \/ \E j \in Jobs : SessionStart(j) \/ Observe(j) \/ Quit(j)
             \/ \E h \in Hosts : SessionEnd(h) \/ Exit(h)
             \/ \E d \in Nonces : Bind(d) \/ IdleStop(d) \/ ServerExit(d)
             \/ Age
             \/ UNCHANGED vars
      PROVE  token' = token
  BY <1>3 DEF SessionStart, Observe, Quit, SessionEnd, Exit, Bind, IdleStop, ServerExit, Age, vars
<1> QED
  BY <1>2, <1>3 DEF Next

\* The shutdown of a quit ends a daemon of its own process, or the daemon that listens when
\* its own is gone.
LEMMA QuitStopsOwn ==
  ASSUME Inductive, CredentialsInv, OwnersKnown, [Next]_vars,
         NEW j \in Jobs, NEW d \in Nonces, Calm,
         pc[j] = "shutdown", kind[j] = "quit", pc'[j] = "wait", life[d] = "up", life'[d] # "up"
  PROVE  \E e \in Nonces : spawner[e] = HostOf(j) /\ (e = d \/ life[e] = "gone")
<1>1. TypeOK
  BY DEF Inductive
<1>2. Shutdown(j)
  <2>1. ASSUME NEW i \in Jobs, JobStep(i) PROVE Shutdown(j)
    <3>1. i = j
      BY <1>1, <2>1, JobMoves
    <3> QED
      BY <2>1, <3>1 DEF JobStep, StatLock, UnlinkLock, LockTimeout, OpenLock, Probe, Reprobe, Spawn,
                        Ready, NotReady, StopProbe, StopWait
  <2>2. ASSUME NEW i \in Jobs, SessionStart(i) \/ Observe(i) \/ Quit(i) PROVE FALSE
    BY <1>1, <2>2 DEF SessionStart, Observe, Quit, Call, Goto, TypeOK, jobVars
  <2>3. ASSUME NEW h \in Hosts, SessionEnd(h) \/ Exit(h) PROVE FALSE
    BY <1>1, <2>3 DEF SessionEnd, Exit, TypeOK, jobVars
  <2>4. CASE \/ \E e \in Nonces : Bind(e) \/ IdleStop(e) \/ ServerExit(e)
             \/ Age
             \/ UNCHANGED vars
    BY <2>4 DEF Bind, IdleStop, ServerExit, Age, vars, jobVars
  <2> QED
    BY <2>1, <2>2, <2>3, <2>4 DEF Next
<1>3. PICK e \in Nonces : spawner[e] = HostOf(j)
  BY DEF OwnersKnown
<1>4. life[e] \in {"up", "dying", "gone"}
  <2>1. life[e] # "unused"
    BY <1>3, HostOfJob, DaemonAssumption DEF OwnersKnown
  <2>2. life[e] # "starting"
    <3>1. lock.by = j /\ Alive(HostOf(j))
      BY DEF Inductive, LockInv, DeadIsIdle, Calm, Critical
    <3> QED
      BY <3>1 DEF CredentialsInv, StartersAwaited
  <2> QED
    BY <1>1, <2>1, <2>2 DEF TypeOK
<1>5. CASE life[e] = "gone"
  BY <1>3, <1>5
<1>6. CASE life[e] \in {"up", "dying"}
  <2>1. e = d
    BY <1>6 DEF CredentialsInv, OneListens, Listening
  <2> QED
    BY <1>3, <2>1
<1> QED
  BY <1>4, <1>5, <1>6

\* Nobody loses a daemon that answers: no start, stop or quit of any process unpublishes
\* it, and a quit stops its own or the one that took its place.
THEOREM DaemonsAreUsable == Spec => DaemonsStayUsable
<1> DEFINE Held == Inductive /\ CredentialsInv /\ OwnersKnown
           Kept == LocksHold /\ faults \cap {"slow", "late"} = {} /\ token # None /\ life[token] = "up"
                     /\ life'[token] = "up" => token' = token
           Own == \A j \in Jobs, d \in Nonces :
                    LocksHold /\ "late" \notin faults
                    /\ pc[j] = "shutdown" /\ kind[j] = "quit" /\ pc'[j] = "wait"
                    /\ life[d] = "up" /\ life'[d] # "up"
                      => \E e \in Nonces : spawner[e] = HostOf(j) /\ (e = d \/ life[e] = "gone")
<1>1. Spec => []Held
  BY CredentialsInvariance, OwnersInvariance, PTL
<1>2. Held /\ [Next]_vars => [Kept]_vars
  BY StepKeepsCredentials
<1>3. Held /\ [Next]_vars => [Own]_vars
  BY QuitStopsOwn DEF Calm
<1>4. Spec => [][Kept]_vars /\ [][Own]_vars
  <2> HIDE DEF Held, Kept, Own
  <2> QED
    BY <1>1, <1>2, <1>3, PTL DEF Spec
<1> QED
  BY <1>4 DEF DaemonsStayUsable, CredentialsKept, QuitStopsOwnOrSuccessor
=============================================================================
