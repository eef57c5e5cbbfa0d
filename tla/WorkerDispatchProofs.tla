------------------------ MODULE WorkerDispatchProofs ------------------------
(***************************************************************************)
(* Proofs about WorkerDispatch for any team, any number of calls and any   *)
(* choice of faults and operator actions, parallel tool calls included.    *)
(*                                                                         *)
(* The argument: the stage of a call determines what its promise holds     *)
(* (SlotsFollowStages), so that a call gives back a slot only if it has    *)
(* one; hence every step of the dispatcher is a step of WorkerQueue, and   *)
(* what is proved of the queue holds here; hence the open sessions, which  *)
(* belong to calls with slots, are within the cap.                         *)
(*                                                                         *)
(* The last two results are for sessions that issue one delegation at a    *)
(* time.  Then the open calls form a stack (StackInv): each is made by the *)
(* run below it, all but the topmost are runs, and each that was granted   *)
(* an override has saved the scope of the one below.  So overrides nest,   *)
(* and what a call checked before it waited for its slot still holds       *)
(* afterwards, because the calls below it cannot move (RunsInv).           *)
(***************************************************************************)
EXTENDS WorkerDispatch, WorkerQueueProofs

\* What the promise of a call holds, by stage: this is where a call that is over,
\* or on its way out, has no slot, and a call that waits is nowhere but waiting.
SlotsFollowStages ==
  \A d \in Calls :
    /\ pc[d] \in Preparing \cup {"running", "crashed"} => promise[d] = "acquired"
    /\ pc[d] \in {"idle", "ending", "failing"} => promise[d] = "none"
    /\ pc[d] = "acquiring" => promise[d] # "none"

\* An open session belongs to a call that has its slot.
SessionsHoldSlots == \A d \in live : pc[d] \in {"running", "crashed"}

DispatchInv ==
  /\ TypeOK
  /\ QueueInv
  /\ SlotsFollowStages
  /\ SessionsHoldSlots

-----------------------------------------------------------------------------
(* The dispatcher and the queue *)

\* A release by a call that holds a slot changes its own promise and, if anybody
\* waits, that of one waiter.
LEMMA GiveBackEffect ==
  ASSUME QueueInv, NEW d \in Calls, promise[d] = "acquired", GiveBack(d)
  PROVE  /\ ReleaseWorkerSlot(d)
         /\ promise'[d] = "none"
         /\ \A e \in Calls \ {d} :
              \/ promise'[e] = promise[e]
              \/ (promise[e] = "waiting" /\ promise'[e] = "acquired")
<1>1. ReleaseWorkerSlot(d)
  BY DEF ReleaseWorkerSlot
<1>2. promise \in [Calls -> Outcomes]
  BY DEF QueueInv, QueueTypeOK
<1>3. CASE workerQueue = <<>>
  <2>1. promise' = [promise EXCEPT ![d] = "none"]
    BY <1>3 DEF GiveBack
  <2> QED
    BY <1>1, <1>2, <2>1
<1>4. CASE workerQueue # <<>>
  <2>1. promise' = [promise EXCEPT ![d] = "none", ![Head(workerQueue)] = "acquired"]
    BY <1>4 DEF GiveBack
  <2>2. Head(workerQueue) \in Calls /\ promise[Head(workerQueue)] = "waiting"
    BY <1>4, HeadIsWaiting DEF QueueInv
  <2> QED
    BY <1>1, <1>2, <2>1, <2>2
<1> QED
  BY <1>3, <1>4

\* On each of its ways out of the preparation and of the run, a call gives back
\* the slot it holds.
LEMMA StepIsQueueStep ==
  ASSUME DispatchInv, NEW d \in Calls, Step(d)
  PROVE  [QueueNext]_queueVars
<1> USE DEF DispatchInv
<1>1. ASSUME Refused(d) PROVE QueueNext
  BY <1>1 DEF Refused, QueueNext
<1>2. ASSUME AlreadyRunning(d) \/ CannotPrepare(d) PROVE QueueNext
  BY <1>2, GiveBackEffect DEF AlreadyRunning, CannotPrepare, HasSlot, QueueNext
<1>3. ASSUME BudgetRefused(d) \/ DelegateThrows(d) \/ PartialSession(d) PROVE QueueNext
  BY <1>3, GiveBackEffect
     DEF BudgetRefused, DelegateThrows, PartialSession, SlotsFollowStages, Preparing, QueueNext
<1>4. ASSUME RunEnds(d) PROVE QueueNext
  BY <1>4, GiveBackEffect DEF RunEnds, SlotsFollowStages, QueueNext
<1>5. ASSUME \/ StartReload(d) \/ ReloadThrows(d) \/ StartDelegate(d) \/ FailureReported(d)
             \/ StartRun(d) \/ StartThrows(d) \/ RunReported(d)
      PROVE  UNCHANGED queueVars
  BY <1>5 DEF StartReload, ReloadThrows, StartDelegate, FailureReported, StartRun, StartThrows,
              OpenRun, RunReported, queueVars
<1> QED
  BY <1>1, <1>2, <1>3, <1>4, <1>5 DEF Step

LEMMA NextIsQueueStep == DispatchInv /\ [Next]_vars => [QueueNext]_queueVars
<1> SUFFICES ASSUME DispatchInv, [Next]_vars PROVE [QueueNext]_queueVars
  OBVIOUS
<1>1. ASSUME NEW d \in Calls, NEW c \in Calls \cup {Main}, NEW a \in Agents,
             NEW o \in Overrides, Dispatch(d, c, a, o)
      PROVE  QueueNext
  BY <1>1 DEF Dispatch, QueueNext
<1>2. ASSUME NEW d \in Calls, Step(d) PROVE [QueueNext]_queueVars
  BY <1>2, StepIsQueueStep
<1>3. ASSUME NEW d \in Calls, AbortCall(d) PROVE QueueNext
  BY <1>3 DEF AbortCall, QueueNext
<1>4. ASSUME SessionShutdown PROVE QueueNext
  BY <1>4 DEF SessionShutdown, QueueNext
<1>5. ASSUME \/ \E d \in Calls : TimeOut(d)
             \/ \E m \in Modes : ApplyMode(m)
             \/ SessionStart \/ SessionStartFails
             \/ UNCHANGED vars
      PROVE  UNCHANGED queueVars
  BY <1>5 DEF TimeOut, ApplyMode, SessionStart, SessionStartFails, vars, queueVars
<1> QED
  BY <1>1, <1>2, <1>3, <1>4, <1>5 DEF Next

-----------------------------------------------------------------------------
(* The stages *)

\* A call that waits for a slot is at the await of acquireWorkerSlot.
LEMMA WaitersAreAcquiring ==
  ASSUME TypeOK, SlotsFollowStages, NEW d \in Calls, promise[d] = "waiting"
  PROVE  pc[d] = "acquiring"
BY DEF TypeOK, SlotsFollowStages, Stages, Preparing

\* A step of call d that releases its slot and leaves it in a stage without one
\* keeps the stages of all calls in line with their promises.
LEMMA ReleaseKeepsStages ==
  ASSUME DispatchInv, NEW d \in Calls, promise[d] = "acquired", GiveBack(d),
         NEW s \in {"idle", "failing", "ending"}, pc' = [pc EXCEPT ![d] = s]
  PROVE  SlotsFollowStages'
<1> SUFFICES ASSUME NEW e \in Calls
             PROVE  /\ pc'[e] \in Preparing \cup {"running", "crashed"} => promise'[e] = "acquired"
                    /\ pc'[e] \in {"idle", "ending", "failing"} => promise'[e] = "none"
                    /\ pc'[e] = "acquiring" => promise'[e] # "none"
  BY DEF SlotsFollowStages
<1>1. CASE e = d
  BY <1>1, GiveBackEffect DEF DispatchInv, TypeOK, Preparing
<1>2. CASE e # d
  <2>1. pc'[e] = pc[e]
    BY <1>2 DEF DispatchInv, TypeOK
  <2>2. \/ promise'[e] = promise[e]
        \/ (promise[e] = "waiting" /\ promise'[e] = "acquired")
    BY <1>2, GiveBackEffect DEF DispatchInv
  <2>3. promise[e] = "waiting" => pc[e] = "acquiring"
    BY WaitersAreAcquiring DEF DispatchInv
  <2> QED
    BY <2>1, <2>2, <2>3 DEF DispatchInv, SlotsFollowStages, Preparing
<1> QED
  BY <1>1, <1>2

LEMMA StepKeepsStages ==
  ASSUME DispatchInv, NEW d \in Calls, Step(d)
  PROVE  SlotsFollowStages'
<1> USE DEF Preparing
<1>1. ASSUME Refused(d) PROVE SlotsFollowStages'
  BY <1>1 DEF Refused, Return, EndCall, SlotsFollowStages, DispatchInv, TypeOK, QueueTypeOK
<1>2. ASSUME AlreadyRunning(d) \/ CannotPrepare(d) PROVE SlotsFollowStages'
  BY <1>2, ReleaseKeepsStages DEF AlreadyRunning, CannotPrepare, HasSlot, EndCall
<1>3. ASSUME BudgetRefused(d) \/ DelegateThrows(d) \/ PartialSession(d)
      PROVE  SlotsFollowStages'
  BY <1>3, ReleaseKeepsStages
     DEF BudgetRefused, DelegateThrows, PartialSession, EndCall, DispatchInv, SlotsFollowStages
<1>4. ASSUME RunEnds(d) PROVE SlotsFollowStages'
  BY <1>4, ReleaseKeepsStages DEF RunEnds, DispatchInv, SlotsFollowStages
<1>5. ASSUME StartReload(d) \/ ReloadThrows(d) \/ StartDelegate(d)
      PROVE  SlotsFollowStages'
  BY <1>5 DEF StartReload, ReloadThrows, StartDelegate, HasSlot, queueVars, DispatchInv, TypeOK,
              SlotsFollowStages
<1>6. ASSUME StartRun(d) \/ StartThrows(d) PROVE SlotsFollowStages'
  BY <1>6 DEF StartRun, StartThrows, OpenRun, queueVars, DispatchInv, TypeOK, SlotsFollowStages
<1>7. ASSUME FailureReported(d) \/ RunReported(d) PROVE SlotsFollowStages'
  BY <1>7 DEF FailureReported, RunReported, EndCall, queueVars, DispatchInv, TypeOK,
              SlotsFollowStages
<1> QED
  BY <1>1, <1>2, <1>3, <1>4, <1>5, <1>6, <1>7 DEF Step

LEMMA NextKeepsStages == DispatchInv /\ [Next]_vars => SlotsFollowStages'
<1> SUFFICES ASSUME DispatchInv, [Next]_vars PROVE SlotsFollowStages'
  OBVIOUS
<1>1. ASSUME NEW d \in Calls, NEW c \in Calls \cup {Main}, NEW a \in Agents,
             NEW o \in Overrides, Dispatch(d, c, a, o)
      PROVE  SlotsFollowStages'
  BY <1>1 DEF Dispatch, AcquireWorkerSlot, TakeSlot, WaitOrRefuse, RefusalOf, DispatchInv, TypeOK,
              QueueTypeOK, SlotsFollowStages, Preparing
<1>2. ASSUME NEW d \in Calls, Step(d) PROVE SlotsFollowStages'
  BY <1>2, StepKeepsStages
<1>3. ASSUME NEW d \in Calls, AbortCall(d) PROVE SlotsFollowStages'
  BY <1>3, WaitersAreAcquiring
     DEF AbortCall, Abort, DispatchInv, TypeOK, QueueTypeOK, SlotsFollowStages, Preparing
<1>4. ASSUME SessionShutdown PROVE SlotsFollowStages'
  <2>1. \A d \in Calls : \/ promise'[d] = promise[d]
                         \/ (pc[d] = "acquiring" /\ promise'[d] = "cancelled")
    BY <1>4, WaitersAreAcquiring
       DEF SessionShutdown, CancelWorkerQueue, DispatchInv, QueueInv, NoLostWaiter, Queued
  <2>2. pc' = pc
    BY <1>4 DEF SessionShutdown
  <2> QED
    BY <2>1, <2>2 DEF DispatchInv, SlotsFollowStages, Preparing
<1>5. ASSUME \/ \E d \in Calls : TimeOut(d)
             \/ \E m \in Modes : ApplyMode(m)
             \/ SessionStart \/ SessionStartFails
             \/ UNCHANGED vars
      PROVE  SlotsFollowStages'
  BY <1>5 DEF TimeOut, ApplyMode, SessionStart, SessionStartFails, vars, runVars, queueVars,
              DispatchInv, SlotsFollowStages
<1> QED
  BY <1>1, <1>2, <1>3, <1>4, <1>5 DEF Next

-----------------------------------------------------------------------------
(* The sessions *)

\* A session is opened by a call that starts to run and disposed by the call it
\* belongs to or by a sweep; no other step ends a stage with a session.
LEMMA NextKeepsSessions == DispatchInv /\ [Next]_vars => SessionsHoldSlots'
<1> SUFFICES ASSUME DispatchInv, [Next]_vars PROVE SessionsHoldSlots'
  OBVIOUS
<1> USE DEF DispatchInv, SessionsHoldSlots
<1>1. ASSUME NEW d \in Calls, NEW c \in Calls \cup {Main}, NEW a \in Agents,
             NEW o \in Overrides, Dispatch(d, c, a, o)
      PROVE  SessionsHoldSlots'
  BY <1>1 DEF Dispatch, TypeOK
<1>2. ASSUME NEW d \in Calls, Refused(d) \/ AlreadyRunning(d) \/ CannotPrepare(d)
                               \/ StartReload(d)
      PROVE  SessionsHoldSlots'
  BY <1>2 DEF Refused, AlreadyRunning, CannotPrepare, StartReload, HasSlot, EndCall, TypeOK
<1>3. ASSUME NEW d \in Calls, \/ ReloadThrows(d) \/ StartDelegate(d) \/ BudgetRefused(d)
                               \/ DelegateThrows(d) \/ PartialSession(d) \/ FailureReported(d)
      PROVE  SessionsHoldSlots'
  BY <1>3 DEF ReloadThrows, StartDelegate, BudgetRefused, DelegateThrows, PartialSession,
              FailureReported, EndCall, TypeOK
<1>4. ASSUME NEW d \in Calls, StartRun(d) \/ StartThrows(d) PROVE SessionsHoldSlots'
  BY <1>4 DEF StartRun, StartThrows, OpenRun, TypeOK
<1>5. ASSUME NEW d \in Calls, RunEnds(d) PROVE SessionsHoldSlots'
  BY <1>5 DEF RunEnds, TypeOK
<1>6. ASSUME NEW d \in Calls, RunReported(d) PROVE SessionsHoldSlots'
  BY <1>6 DEF RunReported, EndCall, TypeOK
<1>7. ASSUME NEW d \in Calls, AbortCall(d) \/ TimeOut(d) PROVE SessionsHoldSlots'
  BY <1>7 DEF AbortCall, TimeOut
<1>8. ASSUME \/ \E m \in Modes : ApplyMode(m)
             \/ SessionShutdown \/ SessionStart \/ SessionStartFails
             \/ UNCHANGED vars
      PROVE  live' \subseteq live /\ pc' = pc
  BY <1>8 DEF ApplyMode, SessionShutdown, SessionStart, SessionStartFails, RebuildRuntimes,
              vars, runVars
<1> QED
  BY <1>1, <1>2, <1>3, <1>4, <1>5, <1>6, <1>7, <1>8 DEF Next, Step

-----------------------------------------------------------------------------
(* The types *)

\* Revoke and grant keep the types of the override variables.
LEMMA ScopeTypes ==
  ASSUME TypeOK, NEW d \in Calls, \/ \E o \in BOOLEAN : Grant(d, o)
                                  \/ Revoke(d)
                                  \/ UNCHANGED scopeVars
  PROVE  /\ granted' \in SUBSET Calls
         /\ saved' \in [Calls -> Calls \cup {None}]
         /\ activeOverrides' \in Calls \cup {None}
BY DEF TypeOK, Grant, Revoke, scopeVars

\* The stages and the runtimes of the calls.
LEMMA StepTypes ==
  ASSUME DispatchInv, QueueTypeOK', NEW d \in Calls, Step(d)
  PROVE  TypeOK'
<1> USE DEF DispatchInv, TypeOK, Stages, Statuses, hostVars
<1>1. ASSUME Refused(d) PROVE TypeOK'
  BY <1>1, ScopeTypes DEF Refused, EndCall
<1>2. ASSUME AlreadyRunning(d) PROVE TypeOK'
  BY <1>2, ScopeTypes DEF AlreadyRunning, EndCall
<1>3. ASSUME CannotPrepare(d) PROVE TypeOK'
  BY <1>3, ScopeTypes DEF CannotPrepare, EndCall
<1>4. ASSUME StartReload(d) PROVE TypeOK'
  BY <1>4, ScopeTypes DEF StartReload
<1>5. ASSUME ReloadThrows(d) PROVE TypeOK'
  BY <1>5, ScopeTypes DEF ReloadThrows
<1>6. ASSUME StartDelegate(d) PROVE TypeOK'
  BY <1>6, ScopeTypes DEF StartDelegate
<1>7. ASSUME BudgetRefused(d) PROVE TypeOK'
  BY <1>7, ScopeTypes DEF BudgetRefused, EndCall
<1>8. ASSUME DelegateThrows(d) PROVE TypeOK'
  BY <1>8, ScopeTypes DEF DelegateThrows
<1>9. ASSUME PartialSession(d) PROVE TypeOK'
  BY <1>9, ScopeTypes DEF PartialSession
<1>10. ASSUME FailureReported(d) PROVE TypeOK'
  BY <1>10, ScopeTypes DEF FailureReported, EndCall
<1>11. ASSUME StartRun(d) PROVE TypeOK'
  BY <1>11, ScopeTypes DEF StartRun, OpenRun
<1>12. ASSUME StartThrows(d) PROVE TypeOK'
  BY <1>12, ScopeTypes DEF StartThrows, OpenRun
<1>13. ASSUME RunEnds(d) PROVE TypeOK'
  BY <1>13, ScopeTypes DEF RunEnds
<1>14. ASSUME RunReported(d) PROVE TypeOK'
  BY <1>14, ScopeTypes DEF RunReported, EndCall
<1> QED
  BY <1>1, <1>2, <1>3, <1>4, <1>5, <1>6, <1>7, <1>8, <1>9, <1>10, <1>11, <1>12, <1>13, <1>14
     DEF Step

LEMMA NextTypes == DispatchInv /\ QueueTypeOK' /\ [Next]_vars => TypeOK'
<1> SUFFICES ASSUME DispatchInv, QueueTypeOK', [Next]_vars PROVE TypeOK'
  OBVIOUS
<1> USE DEF DispatchInv, TypeOK, hostVars
<1>1. ASSUME NEW d \in Calls, NEW c \in Calls \cup {Main}, NEW a \in Agents,
             NEW o \in Overrides, Dispatch(d, c, a, o)
      PROVE  TypeOK'
  <2>1. o \in BOOLEAN
    BY DispatchAssumption
  <2>2. /\ granted' \in SUBSET Calls
        /\ saved' \in [Calls -> Calls \cup {None}]
        /\ activeOverrides' \in Calls \cup {None}
    BY <1>1, <2>1, ScopeTypes DEF Dispatch
  <2>3. <<a, epoch>> \in Runtimes
    BY DEF Runtimes
  <2> QED
    BY <1>1, <2>2, <2>3 DEF Dispatch, Stages
<1>2. ASSUME NEW d \in Calls, Step(d) PROVE TypeOK'
  BY <1>2, StepTypes
<1>3. ASSUME NEW d \in Calls, AbortCall(d) PROVE TypeOK'
  BY <1>3 DEF AbortCall, scopeVars
<1>4. ASSUME NEW d \in Calls, TimeOut(d) PROVE TypeOK'
  BY <1>4 DEF TimeOut, scopeVars
<1>5. ASSUME RebuildRuntimes
      PROVE  /\ live' \in SUBSET Calls
             /\ attached' \in [Runtimes -> Calls \cup {None}]
             /\ epoch' \in 0..MaxEpoch
  BY <1>5, DispatchAssumption DEF RebuildRuntimes
<1>6. ASSUME NEW m \in Modes, ApplyMode(m) PROVE TypeOK'
  BY <1>5, <1>6 DEF ApplyMode, scopeVars
<1>7. ASSUME SessionShutdown PROVE TypeOK'
  BY <1>7 DEF SessionShutdown, scopeVars
<1>8. ASSUME SessionStart PROVE TypeOK'
  BY <1>5, <1>8 DEF SessionStart, Modes, scopeVars
<1>9. ASSUME SessionStartFails PROVE TypeOK'
  BY <1>9 DEF SessionStartFails, Modes, runVars, scopeVars
<1>10. CASE UNCHANGED vars
  BY <1>10 DEF vars, queueVars, runVars, scopeVars
<1> QED
  BY <1>1, <1>2, <1>3, <1>4, <1>6, <1>7, <1>8, <1>9, <1>10 DEF Next

-----------------------------------------------------------------------------
(* The invariant *)

LEMMA InitDispatchInv == Init => DispatchInv
<1> SUFFICES ASSUME Init PROVE DispatchInv
  OBVIOUS
<1>1. QueueInv
  BY InitInv DEF Init
<1>2. QueueTypeOK
  BY <1>1 DEF QueueInv
<1>3. 0 \in 0..MaxEpoch
  BY DispatchAssumption
<1>4. TypeOK
  BY <1>2, <1>3 DEF Init, TypeOK, Stages, Statuses, Modes
<1>5. SlotsFollowStages
  BY DEF Init, QueueInit, SlotsFollowStages, Preparing
<1>6. SessionsHoldSlots
  BY DEF Init, SessionsHoldSlots
<1> QED
  BY <1>1, <1>4, <1>5, <1>6 DEF DispatchInv

LEMMA NextDispatchInv == DispatchInv /\ [Next]_vars => DispatchInv'
<1> SUFFICES ASSUME DispatchInv, [Next]_vars PROVE DispatchInv'
  OBVIOUS
<1>1. QueueInv'
  BY NextIsQueueStep, NextInv DEF DispatchInv
<1>2. TypeOK'
  BY <1>1, NextTypes DEF QueueInv
<1> QED
  BY <1>1, <1>2, NextKeepsStages, NextKeepsSessions DEF DispatchInv

\* Stages, promises and sessions agree in every reachable state (dispatchAgent).
THEOREM DispatchInvariance == Safety => []DispatchInv
BY InitDispatchInv, NextDispatchInv, PTL DEF Safety

\* The state variables keep their types.
THEOREM DispatchTypeCorrect == Safety => []TypeOK
<1>1. DispatchInv => TypeOK
  BY DEF DispatchInv
<1> QED
  BY <1>1, DispatchInvariance, PTL

\* The dispatcher uses the queue as the queue expects: one request per call, one
\* release per slot, on every way out (dispatch.ts).  So everything that is proved
\* of the queue holds of the dispatcher.
THEOREM DispatcherFollowsProtocol == Safety => QueueProtocol
<1>1. Init => QueueInit
  BY DEF Init
<1> QED
  BY <1>1, NextIsQueueStep, DispatchInvariance, PTL DEF Safety, QueueProtocol, QueueSafety

\* The counter the drain guard reads is exact under the dispatcher (widget.ts).
COROLLARY DrainGuardIsExact == Safety => []SlotsConserved
BY DispatcherFollowsProtocol, CounterIsExact, PTL DEF QueueProtocol

\* At most maxParallel worker sessions are open at a time, and each of them, and
\* each one in preparation, has its slot, whatever throws and whoever aborts.
THEOREM SessionsWithinCap == Safety => []RunsHoldSlots
<1>1. DispatchInv => RunsHoldSlots
  <2> SUFFICES ASSUME DispatchInv PROVE RunsHoldSlots
    OBVIOUS
  <2> USE DEF DispatchInv
  <2>1. \A d \in Calls : pc[d] \in Preparing \cup {"running"} => promise[d] = "acquired"
    BY DEF SlotsFollowStages
  <2>2. live \subseteq Holders
    BY DEF SessionsHoldSlots, SlotsFollowStages, Holders, TypeOK
  <2>3. Cardinality(live) <= Cardinality(Holders) /\ Cardinality(live) \in Nat
    BY <2>2, HoldersFinite, FS_Subset, FS_CardinalityType DEF QueueInv
  <2>4. MaxParallel # Unset => Cardinality(live) <= MaxParallel
    BY <2>3, HoldersFinite, LimitsAssumption DEF QueueInv, CapRespected, SlotsConserved
  <2> QED
    BY <2>1, <2>4 DEF RunsHoldSlots
<1> QED
  BY <1>1, DispatchInvariance, PTL

-----------------------------------------------------------------------------
(* What needs an assumption on the faults *)

\* No step throws between taking the slot and the guarded part of the run.
NothingThrows == {"reload", "start"} \cap Faults = {}

\* Then every call that is over has given its slot back (dispatch.ts, all its ways
\* out; worker-lifecycle.ts).
THEOREM EverySlotComesBack == ASSUME NothingThrows PROVE Safety => []SlotsComeBack
<1> DEFINE NoneCrashed == \A d \in Calls : pc[d] # "crashed"
<1>1. Init => NoneCrashed
  BY DEF Init
<1>2. DispatchInv /\ NoneCrashed /\ [Next]_vars => NoneCrashed'
  <2> SUFFICES ASSUME DispatchInv, NoneCrashed, [Next]_vars PROVE NoneCrashed'
    OBVIOUS
  <2>1. ASSUME NEW d \in Calls, ReloadThrows(d) \/ StartThrows(d) PROVE FALSE
    BY <2>1, NothingThrows DEF ReloadThrows, StartThrows, NothingThrows
  <2>2. ASSUME NEW d \in Calls, Step(d)
        PROVE  \E s \in Stages \ {"crashed"} : pc' = [pc EXCEPT ![d] = s]
    BY <2>1, <2>2 DEF Step, Refused, AlreadyRunning, CannotPrepare, StartReload, StartDelegate,
                      BudgetRefused, DelegateThrows, PartialSession, FailureReported, StartRun,
                      RunEnds, RunReported, EndCall, Stages
  <2>3. ASSUME NEW d \in Calls, NEW c \in Calls \cup {Main}, NEW a \in Agents,
               NEW o \in Overrides, Dispatch(d, c, a, o)
        PROVE  pc' = [pc EXCEPT ![d] = "acquiring"]
    BY <2>3 DEF Dispatch
  <2>4. ASSUME \/ \E d \in Calls : AbortCall(d) \/ TimeOut(d)
               \/ \E m \in Modes : ApplyMode(m)
               \/ SessionShutdown \/ SessionStart \/ SessionStartFails
               \/ UNCHANGED vars
        PROVE  pc' = pc
    BY <2>4 DEF AbortCall, TimeOut, ApplyMode, SessionShutdown, SessionStart, SessionStartFails,
                vars, runVars
  <2> QED
    BY <2>2, <2>3, <2>4 DEF Next, DispatchInv, TypeOK, Stages
<1>3. DispatchInv /\ NoneCrashed => SlotsComeBack
  BY DEF DispatchInv, SlotsFollowStages, SlotsComeBack, Over
<1> QED
  BY <1>1, <1>2, <1>3, DispatchInvariance, PTL DEF Safety

\* The counter is zero only when no slot is held and nobody waits for one.
LEMMA NobodyHolds ==
  ASSUME DispatchInv, activeRuns = 0
  PROVE  \A d \in Calls : promise[d] \notin {"waiting", "acquired"}
<1>1. Holders = {}
  BY HoldersFinite, FS_EmptySet DEF DispatchInv, QueueInv, SlotsConserved
<1>2. Queued = {}
  BY LimitsAssumption DEF DispatchInv, QueueInv, NoIdleSlot, Queued
<1> QED
  BY <1>1, <1>2 DEF DispatchInv, QueueInv, NoLostWaiter, Holders

\* No session start fails for want of a configuration.
StartsLoad == ~({"session", "load"} \subseteq Operator \cup Faults)

\* Then the mode changes only when no slot is held or waited for: the drain guard
\* looks at the counter alone, and the queue in front of it is empty whenever the
\* counter is zero (widget.ts, applyMode).
THEOREM DrainGuardSuffices == ASSUME StartsLoad PROVE Safety => ModeSwitchDrains
<1> DEFINE Drains ==
      mode' # mode => \A d \in Calls : promise[d] \notin {"waiting", "acquired"}
<1>1. DispatchInv /\ [Next]_vars => [Drains]_vars
  <2> SUFFICES ASSUME DispatchInv, Next, mode' # mode
               PROVE  \A d \in Calls : promise[d] \notin {"waiting", "acquired"}
    OBVIOUS
  <2>1. ASSUME NEW d \in Calls, NEW c \in Calls \cup {Main}, NEW a \in Agents,
               NEW o \in Overrides, Dispatch(d, c, a, o)
        PROVE  mode' = mode
    BY <2>1 DEF Dispatch, hostVars
  <2>2. ASSUME NEW d \in Calls, Step(d) PROVE mode' = mode
    BY <2>2 DEF Step, Refused, AlreadyRunning, CannotPrepare, StartReload, ReloadThrows,
                StartDelegate, BudgetRefused, DelegateThrows, PartialSession, FailureReported,
                StartRun, StartThrows, OpenRun, RunEnds, RunReported, hostVars
  <2>3. ASSUME NEW d \in Calls, AbortCall(d) \/ TimeOut(d) PROVE mode' = mode
    BY <2>3 DEF AbortCall, TimeOut, hostVars
  <2>4. ASSUME SessionShutdown \/ SessionStartFails PROVE mode' = mode
    BY <2>4, StartsLoad DEF SessionShutdown, SessionStartFails, StartsLoad
  <2>5. activeRuns = 0
    BY <2>1, <2>2, <2>3, <2>4 DEF Next, ApplyMode, SessionStart
  <2> QED
    BY <2>5, NobodyHolds
<1> QED
  BY <1>1, DispatchInvariance, PTL DEF Safety, ModeSwitchDrains

-----------------------------------------------------------------------------
(* The stack of calls *)

\* The calls that are not over form a stack: the main session opened the first, each
\* further one was opened by the run below it, and all but the last are runs.
CallStack(n, stk) ==
  /\ \A i, j \in 1..n : stk[i] = stk[j] => i = j
  /\ \A d \in Calls : pc[d] \notin Over <=> \E i \in 1..n : stk[i] = d
  /\ \A i \in 1..n : caller[stk[i]] = IF i = 1 THEN Main ELSE stk[i - 1]
  /\ \A i \in 1..n : i # n => pc[stk[i]] = "running"

\* x is the override that the first i calls of the stack leave in force when those in G
\* were granted one: that of the last of them.
LeftInForce(G, stk, i, x) ==
  \/ x = None /\ \A j \in 1..i : stk[j] \notin G
  \/ \E j \in 1..i : /\ stk[j] = x
                     /\ x \in G
                     /\ \A k \in 1..i : k > j => stk[k] \notin G

\* Grants and revokes nest as the calls do: each call has kept what the calls below it
\* left in force.
ScopeStack(n, stk) ==
  /\ \A d \in granted : pc[d] \notin Over
  /\ LeftInForce(granted, stk, n, activeOverrides)
  /\ \A i \in 1..n : stk[i] \in granted => LeftInForce(granted, stk, i - 1, saved[stk[i]])

StackInv ==
  \E n \in Nat : \E stk \in [1..n -> Calls] : CallStack(n, stk) /\ ScopeStack(n, stk)

\* In a stack, a call that is not a run, or a run without open calls, is on top.
LEMMA TopOfStack ==
  ASSUME NEW n \in Nat, NEW stk \in [1..n -> Calls], CallStack(n, stk),
         NEW d \in Calls, pc[d] \notin Over, pc[d] # "running" \/ OpenCallsOf(d) = {}
  PROVE  n \in 1..n /\ stk[n] = d
<1>1. PICK i \in 1..n : stk[i] = d
  BY DEF CallStack
<1>2. ASSUME i # n PROVE FALSE
  <2>1. pc[d] = "running"
    BY <1>1, <1>2 DEF CallStack
  <2>2. i + 1 \in 1..n /\ i + 1 # 1 /\ (i + 1) - 1 = i
    BY <1>2
  <2>3. caller[stk[i + 1]] = d /\ stk[i + 1] \in Calls
    BY <1>1, <2>2 DEF CallStack
  <2>4. pc[stk[i + 1]] \notin Over
    BY <2>2, <2>3 DEF CallStack
  <2> QED
    BY <2>1, <2>3, <2>4 DEF OpenCallsOf
<1> QED
  BY <1>1, <1>2

\* The stack with one more call on top, and with one fewer.
Pushed(n, stk, d) == [i \in 1..(n + 1) |-> IF i = n + 1 THEN d ELSE stk[i]]
Popped(n, stk) == [i \in 1..(n - 1) |-> stk[i]]

\* With one delegation at a time per session, only the top of the stack can call, the
\* main session if the stack is empty.
LEMMA CallerIsTop ==
  ASSUME ~ParallelToolCalls, TypeOK,
         NEW n \in Nat, NEW stk \in [1..n -> Calls], CallStack(n, stk),
         NEW c \in Calls \cup {Main}, MayIssue(c)
  PROVE  /\ c = IF n = 0 THEN Main ELSE stk[n]
         /\ \A i \in 1..n : pc[stk[i]] = "running"
<1>1. OpenCallsOf(c) = {}
  BY DEF MayIssue
<1>2. CASE c = Main
  <2>1. ASSUME n # 0 PROVE FALSE
    <3>1. 1 \in 1..n
      BY <2>1
    <3>2. caller[stk[1]] = Main /\ stk[1] \in Calls /\ pc[stk[1]] \notin Over
      BY <3>1 DEF CallStack
    <3> QED
      BY <1>1, <1>2, <3>2 DEF OpenCallsOf
  <2> QED
    BY <1>2, <2>1
<1>3. CASE c # Main
  <2>1. c \in Calls /\ pc[c] = "running"
    BY <1>3 DEF MayIssue
  <2>2. n \in 1..n /\ stk[n] = c
    BY <1>1, <2>1, TopOfStack DEF Over
  <2> QED
    BY <2>1, <2>2 DEF CallStack
<1> QED
  BY <1>2, <1>3

\* A call that is issued goes on top of the stack.
LEMMA PushKeepsStack ==
  ASSUME ~ParallelToolCalls, TypeOK,
         NEW n \in Nat, NEW stk \in [1..n -> Calls], CallStack(n, stk),
         NEW d \in Calls, NEW c \in Calls \cup {Main}, NEW a \in Agents, NEW o \in Overrides,
         Dispatch(d, c, a, o)
  PROVE  /\ Pushed(n, stk, d) \in [1..(n + 1) -> Calls]
         /\ CallStack(n + 1, Pushed(n, stk, d))'
<1> DEFINE top == Pushed(n, stk, d)
<1>1. /\ pc[d] = "idle"
      /\ pc' = [pc EXCEPT ![d] = "acquiring"]
      /\ caller' = [caller EXCEPT ![d] = c]
  BY DEF Dispatch
<1>2. /\ c = IF n = 0 THEN Main ELSE stk[n]
      /\ \A i \in 1..n : pc[stk[i]] = "running"
  BY CallerIsTop DEF Dispatch
<1>3. \A i \in 1..n : stk[i] \in Calls /\ stk[i] # d
  BY <1>1, <1>2
<1>4. /\ top \in [1..(n + 1) -> Calls]
      /\ top[n + 1] = d
      /\ \A i \in 1..n : top[i] = stk[i]
      /\ \A i \in 1..(n + 1) : i \in 1..n \/ i = n + 1
  BY DEF Pushed
<1> HIDE DEF top
<1>5. \A i, j \in 1..(n + 1) : top[i] = top[j] => i = j
  BY <1>3, <1>4 DEF CallStack
<1>6. \A e \in Calls : pc'[e] \notin Over <=> \E i \in 1..(n + 1) : top[i] = e
  <2> SUFFICES ASSUME NEW e \in Calls
               PROVE  pc'[e] \notin Over <=> \E i \in 1..(n + 1) : top[i] = e
    OBVIOUS
  <2>1. CASE e = d
    BY <1>1, <1>4, <2>1 DEF TypeOK, Over
  <2>2. CASE e # d
    <3>1. pc'[e] = pc[e]
      BY <1>1, <2>2
    <3>2. (\E i \in 1..(n + 1) : top[i] = e) <=> \E i \in 1..n : stk[i] = e
      BY <1>4, <2>2
    <3> QED
      BY <3>1, <3>2 DEF CallStack
  <2> QED
    BY <2>1, <2>2
<1>7. ASSUME NEW i \in 1..(n + 1)
      PROVE  caller'[top[i]] = IF i = 1 THEN Main ELSE top[i - 1]
  <2>1. CASE i = n + 1
    <3>1. caller'[d] = c
      BY <1>1 DEF TypeOK
    <3>2. n # 0 => n \in 1..n /\ (n + 1) - 1 = n /\ n + 1 # 1
      OBVIOUS
    <3> QED
      BY <1>2, <1>4, <2>1, <3>1, <3>2
  <2>2. CASE i \in 1..n
    <3>1. caller'[stk[i]] = caller[stk[i]]
      BY <1>1, <1>3, <2>2
    <3>2. i # 1 => i - 1 \in 1..n
      BY <2>2
    <3> QED
      BY <1>4, <2>2, <3>1, <3>2 DEF CallStack
  <2> QED
    BY <2>1, <2>2
<1>8. \A i \in 1..(n + 1) : i # n + 1 => pc'[top[i]] = "running"
  BY <1>1, <1>2, <1>3, <1>4
<1> QED
  BY <1>4, <1>5, <1>6, <1>7, <1>8 DEF CallStack, top

\* A call that ends is the top of the stack.
LEMMA PopKeepsStack ==
  ASSUME TypeOK, NEW n \in Nat, NEW stk \in [1..n -> Calls], CallStack(n, stk),
         NEW d \in Calls, pc[d] \notin Over, pc[d] # "running",
         NEW s \in Over, pc' = [pc EXCEPT ![d] = s],
         \A e \in Calls : e # d => caller'[e] = caller[e]
  PROVE  /\ n \in 1..n
         /\ stk[n] = d
         /\ n - 1 \in Nat
         /\ Popped(n, stk) \in [1..(n - 1) -> Calls]
         /\ CallStack(n - 1, Popped(n, stk))'
<1> DEFINE rest == Popped(n, stk)
<1>1. n \in 1..n /\ stk[n] = d
  BY TopOfStack
<1>2. /\ n - 1 \in Nat
      /\ rest \in [1..(n - 1) -> Calls]
      /\ \A i \in 1..(n - 1) : i \in 1..n /\ i # n /\ rest[i] = stk[i]
      /\ \A i \in 1..n : i \in 1..(n - 1) \/ i = n
  BY <1>1 DEF Popped
<1> HIDE DEF rest
<1>3. \A i \in 1..(n - 1) : stk[i] \in Calls /\ stk[i] # d
  BY <1>1, <1>2 DEF CallStack
<1>4. \A i, j \in 1..(n - 1) : rest[i] = rest[j] => i = j
  BY <1>2 DEF CallStack
<1>5. \A e \in Calls : pc'[e] \notin Over <=> \E i \in 1..(n - 1) : rest[i] = e
  <2> SUFFICES ASSUME NEW e \in Calls
               PROVE  pc'[e] \notin Over <=> \E i \in 1..(n - 1) : rest[i] = e
    OBVIOUS
  <2>1. CASE e = d
    BY <1>2, <1>3, <2>1 DEF TypeOK
  <2>2. CASE e # d
    <3>1. pc'[e] = pc[e]
      BY <2>2
    <3>2. (\E i \in 1..(n - 1) : rest[i] = e) <=> \E i \in 1..n : stk[i] = e
      BY <1>1, <1>2, <2>2
    <3> QED
      BY <3>1, <3>2 DEF CallStack
  <2> QED
    BY <2>1, <2>2
<1>6. ASSUME NEW i \in 1..(n - 1)
      PROVE  caller'[rest[i]] = IF i = 1 THEN Main ELSE rest[i - 1]
  <2>1. caller'[stk[i]] = caller[stk[i]]
    BY <1>3
  <2>2. i # 1 => i - 1 \in 1..(n - 1)
    BY <1>2
  <2> QED
    BY <1>2, <2>1, <2>2 DEF CallStack
<1>7. \A i \in 1..(n - 1) : i # n - 1 => pc'[rest[i]] = "running"
  BY <1>2, <1>3 DEF CallStack
<1> QED
  BY <1>1, <1>2, <1>4, <1>5, <1>6, <1>7 DEF CallStack, rest

\* Any other step changes the stage of the top, if of any call.
LEMMA StayKeepsStack ==
  ASSUME TypeOK, NEW n \in Nat, NEW stk \in [1..n -> Calls], CallStack(n, stk),
         NEW d \in Calls, pc[d] \notin Over, pc[d] # "running" \/ OpenCallsOf(d) = {},
         NEW s \in Stages \ Over, pc' = [pc EXCEPT ![d] = s], caller' = caller
  PROVE  CallStack(n, stk)'
<1>1. n \in 1..n /\ stk[n] = d
  BY TopOfStack
<1>2. \A e \in Calls : pc'[e] \notin Over <=> pc[e] \notin Over
  BY DEF TypeOK
<1>3. \A i \in 1..n : i # n => stk[i] # d /\ stk[i] \in Calls
  BY <1>1 DEF CallStack
<1> QED
  BY <1>2, <1>3 DEF CallStack, TypeOK

\* What the first calls of a stack leave in force depends on them alone.
LEMMA SameLeftInForce ==
  ASSUME NEW i \in Nat, NEW stk, NEW alt, NEW G, NEW H, NEW x,
         \A j \in 1..i : alt[j] = stk[j] /\ (stk[j] \in H <=> stk[j] \in G),
         LeftInForce(G, stk, i, x)
  PROVE  LeftInForce(H, alt, i, x)
BY DEF LeftInForce

\* A top that was granted nothing leaves in force what it found.
LEMMA SkipUngranted ==
  ASSUME NEW n \in Nat \ {0}, NEW stk, NEW G, NEW x, stk[n] \notin G
  PROVE  LeftInForce(G, stk, n, x) <=> LeftInForce(G, stk, n - 1, x)
<1>1. \A j \in 1..n : j \in 1..(n - 1) \/ j = n
  OBVIOUS
<1>2. \A j \in 1..(n - 1) : j \in 1..n
  OBVIOUS
<1> QED
  BY <1>1, <1>2 DEF LeftInForce

\* A top that was granted an override leaves that one in force.
LEMMA GrantedOnTop ==
  ASSUME NEW n \in Nat \ {0}, NEW stk, NEW G, stk[n] \in G
  PROVE  LeftInForce(G, stk, n, stk[n])
<1>1. n \in 1..n /\ \A k \in 1..n : ~(k > n)
  OBVIOUS
<1> QED
  BY <1>1 DEF LeftInForce

\* The call that goes on top keeps what it finds in force.
LEMMA GrantKeepsScopes ==
  ASSUME TypeOK, NEW n \in Nat, NEW stk \in [1..n -> Calls],
         CallStack(n, stk), ScopeStack(n, stk),
         NEW d \in Calls, pc[d] = "idle", pc' = [pc EXCEPT ![d] = "acquiring"],
         NEW o \in BOOLEAN, Grant(d, o)
  PROVE  ScopeStack(n + 1, Pushed(n, stk, d))'
<1> DEFINE top == Pushed(n, stk, d)
<1>1. \A i \in 1..n : stk[i] \in Calls /\ stk[i] # d
  BY DEF CallStack, Over
<1>2. /\ n + 1 \in Nat \ {0}
      /\ (n + 1) - 1 = n
      /\ top[n + 1] = d
      /\ \A i \in 1..n : top[i] = stk[i]
      /\ \A i \in 1..(n + 1) : i \in 1..n \/ i = n + 1
      /\ \A i \in 1..n : i - 1 \in Nat /\ \A j \in 1..(i - 1) : j \in 1..n
  BY DEF Pushed
<1> HIDE DEF top
<1>3. d \notin granted
  BY DEF ScopeStack, Over
<1>4. \A j \in 1..n : top[j] = stk[j] /\ (stk[j] \in granted' <=> stk[j] \in granted)
  BY <1>1, <1>2 DEF Grant, scopeVars
<1>5. \A e \in granted' : pc'[e] \notin Over
  BY DEF Grant, scopeVars, ScopeStack, TypeOK, Over
<1>6. LeftInForce(granted', top, n, activeOverrides)
  BY <1>4, SameLeftInForce DEF ScopeStack
<1>7. LeftInForce(granted', top, n + 1, activeOverrides')
  <2>1. CASE o
    BY <1>2, <2>1, GrantedOnTop DEF Grant
  <2>2. CASE ~o
    BY <1>2, <1>3, <1>6, <2>2, SkipUngranted DEF Grant, scopeVars
  <2> QED
    BY <2>1, <2>2
<1>8. ASSUME NEW i \in 1..(n + 1), top[i] \in granted'
      PROVE  LeftInForce(granted', top, i - 1, saved'[top[i]])
  <2>1. CASE i = n + 1
    <3>1. o /\ saved'[d] = activeOverrides
      BY <1>2, <1>3, <1>8, <2>1 DEF Grant, scopeVars, TypeOK
    <3> QED
      BY <1>2, <1>6, <2>1, <3>1
  <2>2. CASE i \in 1..n
    <3>1. stk[i] \in granted /\ saved'[top[i]] = saved[stk[i]]
      BY <1>1, <1>2, <1>4, <1>8, <2>2 DEF Grant, scopeVars, TypeOK
    <3>2. LeftInForce(granted, stk, i - 1, saved[stk[i]])
      BY <2>2, <3>1 DEF ScopeStack
    <3> QED
      BY <1>2, <1>4, <2>2, <3>1, <3>2, SameLeftInForce
  <2> QED
    BY <1>2, <2>1, <2>2
<1> QED
  BY <1>5, <1>7, <1>8 DEF ScopeStack, top

\* The call that leaves the top puts back what it found.
LEMMA RevokeKeepsScopes ==
  ASSUME TypeOK, NEW n \in Nat, NEW stk \in [1..n -> Calls],
         CallStack(n, stk), ScopeStack(n, stk),
         NEW d \in Calls, n \in 1..n, stk[n] = d,
         NEW s \in Over, pc' = [pc EXCEPT ![d] = s], Revoke(d)
  PROVE  ScopeStack(n - 1, Popped(n, stk))'
<1> DEFINE rest == Popped(n, stk)
<1>1. /\ n \in Nat \ {0} /\ n - 1 \in Nat
      /\ \A i \in 1..(n - 1) : i \in 1..n /\ i # n /\ rest[i] = stk[i]
      /\ \A i \in 1..(n - 1) : i - 1 \in Nat /\ \A j \in 1..(i - 1) : j \in 1..(n - 1)
  BY DEF Popped
<1> HIDE DEF rest
<1>2. \A i \in 1..(n - 1) : stk[i] \in Calls /\ stk[i] # d
  BY <1>1 DEF CallStack
<1>3. granted' = granted \ {d}
  BY DEF Revoke, scopeVars
<1>4. \A j \in 1..(n - 1) : rest[j] = stk[j] /\ (stk[j] \in granted' <=> stk[j] \in granted)
  BY <1>1, <1>2, <1>3
<1>5. \A e \in granted' : pc'[e] \notin Over
  BY <1>3 DEF ScopeStack, TypeOK
<1>6. LeftInForce(granted, stk, n - 1, activeOverrides')
  <2>1. CASE d \in granted
    BY <2>1 DEF Revoke, ScopeStack
  <2>2. CASE d \notin granted
    BY <1>1, <2>2, SkipUngranted DEF Revoke, scopeVars, ScopeStack
  <2> QED
    BY <2>1, <2>2
<1>7. LeftInForce(granted', rest, n - 1, activeOverrides')
  BY <1>1, <1>4, <1>6, SameLeftInForce
<1>8. ASSUME NEW i \in 1..(n - 1), rest[i] \in granted'
      PROVE  LeftInForce(granted', rest, i - 1, saved'[rest[i]])
  <2>1. i \in 1..n /\ stk[i] \in granted /\ saved'[rest[i]] = saved[stk[i]]
    BY <1>1, <1>2, <1>3, <1>8 DEF Revoke, scopeVars, TypeOK
  <2>2. LeftInForce(granted, stk, i - 1, saved[stk[i]])
    BY <2>1 DEF ScopeStack
  <2> QED
    BY <1>1, <1>4, <2>1, <2>2, SameLeftInForce
<1> QED
  BY <1>5, <1>7, <1>8 DEF ScopeStack, rest

LEMMA StepKeepsStack ==
  ASSUME TypeOK, StackInv, NEW d \in Calls, Step(d)
  PROVE  StackInv'
<1>0. PICK n \in Nat : \E stk \in [1..n -> Calls] : CallStack(n, stk) /\ ScopeStack(n, stk)
  BY DEF StackInv
<1>1. PICK stk \in [1..n -> Calls] : CallStack(n, stk) /\ ScopeStack(n, stk)
  BY <1>0
<1>2. ASSUME pc[d] \notin Over, pc[d] # "running", Revoke(d),
             \E s \in Over : pc' = [pc EXCEPT ![d] = s],
             \A e \in Calls : e # d => caller'[e] = caller[e]
      PROVE  StackInv'
  <2>1. PICK s \in Over : pc' = [pc EXCEPT ![d] = s]
    BY <1>2
  <2>2. /\ n \in 1..n /\ stk[n] = d /\ n - 1 \in Nat
        /\ Popped(n, stk) \in [1..(n - 1) -> Calls]
        /\ CallStack(n - 1, Popped(n, stk))'
    BY <1>1, <1>2, <2>1, PopKeepsStack
  <2>3. ScopeStack(n - 1, Popped(n, stk))'
    BY <1>1, <1>2, <2>1, <2>2, RevokeKeepsScopes
  <2> QED
    BY <2>2, <2>3 DEF StackInv
<1>3. ASSUME pc[d] \notin Over, pc[d] # "running" \/ OpenCallsOf(d) = {}, UNCHANGED scopeVars,
             \E s \in Stages \ Over : pc' = [pc EXCEPT ![d] = s], caller' = caller
      PROVE  StackInv'
  <2>1. PICK s \in Stages \ Over : pc' = [pc EXCEPT ![d] = s]
    BY <1>3
  <2>2. CallStack(n, stk)'
    BY <1>1, <1>3, <2>1, StayKeepsStack
  <2>3. ScopeStack(n, stk)'
    BY <1>1, <1>3, <2>1 DEF ScopeStack, scopeVars, TypeOK
  <2> QED
    BY <2>2, <2>3 DEF StackInv
<1>4. ASSUME \/ Refused(d) \/ AlreadyRunning(d) \/ CannotPrepare(d) \/ BudgetRefused(d)
             \/ FailureReported(d) \/ RunReported(d)
      PROVE  StackInv'
  <2>1. pc[d] \notin Over /\ pc[d] # "running" /\ EndCall(d)
    BY <1>4 DEF Refused, AlreadyRunning, CannotPrepare, BudgetRefused, FailureReported, RunReported,
                HasSlot, Over
  <2> QED
    BY <1>2, <2>1 DEF EndCall, Over, TypeOK
<1>5. ASSUME ReloadThrows(d) \/ StartThrows(d) PROVE StackInv'
  BY <1>2, <1>5 DEF ReloadThrows, StartThrows, OpenRun, Over
<1>6. ASSUME \/ StartReload(d) \/ StartDelegate(d) \/ DelegateThrows(d) \/ PartialSession(d)
             \/ StartRun(d) \/ RunEnds(d)
      PROVE  StackInv'
  BY <1>3, <1>6 DEF StartReload, StartDelegate, DelegateThrows, PartialSession, StartRun, OpenRun,
                    RunEnds, HasSlot, Over, Stages
<1> QED
  BY <1>4, <1>5, <1>6 DEF Step

\* The main session and every worker issue one delegation at a time.
SerialCalls == ~ParallelToolCalls

LEMMA NextKeepsStack ==
  ASSUME SerialCalls, TypeOK, StackInv, [Next]_vars
  PROVE  StackInv'
<1>1. ASSUME NEW d \in Calls, NEW c \in Calls \cup {Main}, NEW a \in Agents,
             NEW o \in Overrides, Dispatch(d, c, a, o)
      PROVE  StackInv'
  <2>0. PICK n \in Nat : \E stk \in [1..n -> Calls] : CallStack(n, stk) /\ ScopeStack(n, stk)
    BY DEF StackInv
  <2>1. PICK stk \in [1..n -> Calls] : CallStack(n, stk) /\ ScopeStack(n, stk)
    BY <2>0
  <2>2. /\ Pushed(n, stk, d) \in [1..(n + 1) -> Calls]
        /\ CallStack(n + 1, Pushed(n, stk, d))'
    BY <1>1, <2>1, PushKeepsStack DEF SerialCalls
  <2>3. ScopeStack(n + 1, Pushed(n, stk, d))'
    BY <1>1, <2>1, GrantKeepsScopes, DispatchAssumption DEF Dispatch
  <2> QED
    BY <2>2, <2>3 DEF StackInv
<1>2. ASSUME NEW d \in Calls, Step(d) PROVE StackInv'
  BY <1>2, StepKeepsStack
<1>3. ASSUME \/ \E d \in Calls : AbortCall(d) \/ TimeOut(d)
             \/ \E m \in Modes : ApplyMode(m)
             \/ SessionShutdown \/ SessionStart \/ SessionStartFails
             \/ UNCHANGED vars
      PROVE  StackInv'
  <2>1. UNCHANGED <<pc, caller, granted, saved, activeOverrides>>
    BY <1>3 DEF AbortCall, TimeOut, ApplyMode, SessionShutdown, SessionStart, SessionStartFails,
                vars, runVars, scopeVars
  <2> QED
    BY <2>1 DEF StackInv, CallStack, ScopeStack
<1> QED
  BY <1>1, <1>2, <1>3 DEF Next

\* The calls and their overrides form a stack (dispatchAgent).
THEOREM StackInvariance == ASSUME SerialCalls PROVE Safety => []StackInv
<1>1. Init => StackInv
  <2> SUFFICES ASSUME Init PROVE StackInv
    OBVIOUS
  <2> DEFINE none == [i \in 1..0 |-> Main]
  <2>1. none \in [1..0 -> Calls] /\ 1..0 = {}
    OBVIOUS
  <2>2. CallStack(0, none) /\ ScopeStack(0, none)
    BY <2>1 DEF Init, CallStack, ScopeStack, LeftInForce, Over
  <2> QED
    BY <2>1, <2>2 DEF StackInv
<1>2. TypeOK /\ StackInv /\ [Next]_vars => StackInv'
  BY NextKeepsStack
<1> QED
  BY <1>1, <1>2, DispatchTypeCorrect, PTL DEF Safety

\* When every session issues its delegations one at a time, an override is in force for
\* the worker it was granted to and gone with the last call that was granted one,
\* whatever throws, whoever aborts and however often sessions start and end
\* (dispatch.ts, the grant and the finally block that reverts it).
THEOREM ScopesNest == ASSUME SerialCalls PROVE Safety => []ScopesFollowCalls
<1>1. TypeOK /\ StackInv => ScopesFollowCalls
  <2> SUFFICES ASSUME TypeOK, StackInv PROVE ScopesFollowCalls
    OBVIOUS
  <2>0. PICK n \in Nat : \E stk \in [1..n -> Calls] : CallStack(n, stk) /\ ScopeStack(n, stk)
    BY DEF StackInv
  <2>1. PICK stk \in [1..n -> Calls] : CallStack(n, stk) /\ ScopeStack(n, stk)
    BY <2>0
  <2>2. ASSUME NEW d \in granted, Running(d), OpenCallsOf(d) = {} PROVE activeOverrides = d
    <3>1. d \in Calls
      BY DEF TypeOK
    <3>2. n \in 1..n /\ stk[n] = d
      BY <2>1, <2>2, <3>1, TopOfStack DEF Running, Over
    <3> QED
      BY <2>1, <2>2, <3>2 DEF ScopeStack, LeftInForce
  <2>3. ASSUME granted = {} PROVE activeOverrides = None
    BY <2>1, <2>3 DEF ScopeStack, LeftInForce
  <2> QED
    BY <2>2, <2>3 DEF ScopesFollowCalls, OwnScopeInForce, OverrideReverted
<1> QED
  BY <1>1, StackInvariance, DispatchTypeCorrect, PTL

-----------------------------------------------------------------------------
(* The books of a run *)

Open(d) == pc[d] \notin Over

\* A call runs on a runtime object of the present generation while it has a slot or
\* waits for one: objects are replaced only when no slot is taken.
CurrentRuntimes ==
  /\ \A d \in Calls : Open(d) => runtime[d] \in Runtimes
  /\ \A d \in Calls : promise[d] \in {"waiting", "acquired"} => EpochOf(runtime[d]) = epoch

\* No two calls on the stack are for one worker.
DistinctAgents ==
  \A d, e \in Calls : Open(d) /\ Open(e) /\ AgentOf(runtime[d]) = AgentOf(runtime[e]) => d = e

\* An open session hangs on the runtime object of the run it belongs to.
SessionsAttached == \A d \in live : Running(d) /\ attached[runtime[d]] = d

RunsInv ==
  /\ \A d \in Calls : pc[d] # "crashed"
  /\ CurrentRuntimes
  /\ DistinctAgents
  /\ StatusTruthful
  /\ RunIsAddressable
  /\ SessionsAttached


\* With one delegation at a time, every open call but the one that steps is a run.
LEMMA OthersAreRuns ==
  ASSUME TypeOK, StackInv, NEW d \in Calls, Open(d), pc[d] # "running" \/ OpenCallsOf(d) = {},
         NEW e \in Calls, Open(e), e # d
  PROVE  pc[e] = "running"
<1>0. PICK n \in Nat : \E stk \in [1..n -> Calls] : CallStack(n, stk) /\ ScopeStack(n, stk)
  BY DEF StackInv
<1>1. PICK stk \in [1..n -> Calls] : CallStack(n, stk) /\ ScopeStack(n, stk)
  BY <1>0
<1>2. stk[n] = d
  BY <1>1, TopOfStack DEF Open
<1>3. PICK i \in 1..n : stk[i] = e
  BY <1>1 DEF CallStack, Open
<1> QED
  BY <1>1, <1>2, <1>3 DEF CallStack

\* A call is issued when all open calls are runs.
LEMMA IssuedAmongRuns ==
  ASSUME SerialCalls, TypeOK, StackInv, NEW c \in Calls \cup {Main}, MayIssue(c),
         NEW e \in Calls, Open(e)
  PROVE  pc[e] = "running"
<1>0. PICK n \in Nat : \E stk \in [1..n -> Calls] : CallStack(n, stk) /\ ScopeStack(n, stk)
  BY DEF StackInv
<1>1. PICK stk \in [1..n -> Calls] : CallStack(n, stk) /\ ScopeStack(n, stk)
  BY <1>0
<1>2. PICK i \in 1..n : stk[i] = e
  BY <1>1 DEF CallStack, Open
<1>3. \A j \in 1..n : pc[stk[j]] = "running"
  BY <1>1, CallerIsTop DEF SerialCalls
<1> QED
  BY <1>2, <1>3

\* A worker and its runtime of the present generation determine each other.
LEMMA RuntimeOfAgent ==
  ASSUME NEW r \in Runtimes, NEW q \in Runtimes, AgentOf(r) = AgentOf(q), EpochOf(r) = EpochOf(q)
  PROVE  r = q
BY DEF Runtimes, AgentOf, EpochOf

\* Besides, nothing throws unguarded, and the Pi session goes on.
RunsAssumption == SerialCalls /\ NothingThrows /\ "session" \notin Operator

\* A call that is issued is for a worker that no open call is for.
LEMMA DispatchKeepsRuns ==
  ASSUME RunsAssumption, DispatchInv, StackInv, RunsInv,
         NEW d \in Calls, NEW c \in Calls \cup {Main}, NEW a \in Agents, NEW o \in Overrides,
         Dispatch(d, c, a, o)
  PROVE  RunsInv'
<1> USE DEF RunsInv
<1>1. /\ pc[d] = "idle" /\ pc' = [pc EXCEPT ![d] = "acquiring"]
      /\ runtime' = [runtime EXCEPT ![d] = <<a, epoch>>]
      /\ status[<<a, epoch>>] # "running"
      /\ UNCHANGED <<status, attached, handle, live, epoch>>
  BY DEF Dispatch, hostVars
<1>2. /\ pc \in [Calls -> Stages] /\ runtime \in [Calls -> Runtimes \cup {None}]
      /\ <<a, epoch>> \in Runtimes
      /\ AgentOf(<<a, epoch>>) = a /\ EpochOf(<<a, epoch>>) = epoch
      /\ promise \in [Calls -> Outcomes]
  BY DEF DispatchInv, TypeOK, QueueTypeOK, Runtimes, AgentOf, EpochOf
<1>3. /\ pc'[d] = "acquiring" /\ runtime'[d] = <<a, epoch>>
      /\ \A e \in Calls : e # d => pc'[e] = pc[e] /\ runtime'[e] = runtime[e]
  BY <1>1, <1>2
<1>4. \A e \in Calls : Open(e) => pc[e] = "running"
  BY IssuedAmongRuns DEF Dispatch, RunsAssumption, DispatchInv
<1>5. \A e \in Calls : Open(e) => AgentOf(runtime[e]) # a
  <2> SUFFICES ASSUME NEW e \in Calls, Open(e), AgentOf(runtime[e]) = a PROVE FALSE
    OBVIOUS
  <2>1. promise[e] = "acquired"
    BY <1>4 DEF DispatchInv, SlotsFollowStages
  <2>2. runtime[e] \in Runtimes /\ EpochOf(runtime[e]) = epoch
    BY <2>1 DEF CurrentRuntimes
  <2>3. runtime[e] = <<a, epoch>>
    BY <1>2, <2>2, RuntimeOfAgent
  <2> QED
    BY <1>1, <1>2, <1>4, <2>3 DEF StatusTruthful, Running
<1>6. CurrentRuntimes'
  <2>1. \A e \in Calls : e # d => promise'[e] = promise[e]
    BY <1>2 DEF Dispatch, AcquireWorkerSlot, TakeSlot, WaitOrRefuse
  <2> QED
    BY <1>1, <1>2, <1>3, <2>1 DEF CurrentRuntimes, Open, Over
<1>7. DistinctAgents'
  BY <1>2, <1>3, <1>5 DEF DistinctAgents, Open
<1>8. \A e \in Calls : Running(e)' <=> Running(e)
  BY <1>1, <1>2, <1>3 DEF Running
<1>9. \A e \in Calls : Running(e) => runtime'[e] = runtime[e]
  BY <1>1, <1>3 DEF Running
<1>10. StatusTruthful' /\ RunIsAddressable' /\ SessionsAttached'
  BY <1>1, <1>8, <1>9 DEF StatusTruthful, RunIsAddressable, SessionsAttached, DispatchInv, TypeOK
<1>11. \A e \in Calls : pc'[e] # "crashed"
  BY <1>3
<1> QED
  BY <1>6, <1>7, <1>10, <1>11

\* What a release does to the promises of other calls keeps CurrentRuntimes.
LEMMA PromisesKeepRuntimes ==
  ASSUME CurrentRuntimes, NEW d \in Calls, epoch' = epoch,
         \A e \in Calls : e # d => pc'[e] = pc[e] /\ runtime'[e] = runtime[e],
         \A e \in Calls : e # d => \/ promise'[e] = promise[e]
                                   \/ promise[e] = "waiting" /\ promise'[e] = "acquired",
         pc'[d] \notin Over => pc[d] \notin Over /\ runtime'[d] = runtime[d],
         promise'[d] \in {"waiting", "acquired"} =>
             promise[d] \in {"waiting", "acquired"} /\ runtime'[d] = runtime[d]
  PROVE  CurrentRuntimes'
BY DEF CurrentRuntimes, Open

\* A step of a call outside its run, from one stage to another or to its end, leaves
\* the runs alone: what it marks, clears or closes is of another worker.
LEMMA OutsideRuns ==
  ASSUME DispatchInv, RunsInv, NEW d \in Calls, pc[d] \notin Over, pc[d] # "running",
         NEW s \in Stages \ {"running", "crashed"}, pc' = [pc EXCEPT ![d] = s],
         \A e \in Calls : e # d => runtime'[e] = runtime[e],
         s \notin Over => runtime'[d] = runtime[d],
         \A e \in Calls : e # d => \/ promise'[e] = promise[e]
                                   \/ promise[e] = "waiting" /\ promise'[e] = "acquired",
         promise'[d] \in {"waiting", "acquired"} =>
             promise[d] \in {"waiting", "acquired"} /\ runtime'[d] = runtime[d],
         UNCHANGED <<live, epoch>>,
         status' = status \/ status' = [status EXCEPT ![runtime[d]] = "error"],
         attached' = attached \/ attached' = [attached EXCEPT ![runtime[d]] = None],
         handle' = handle \/ handle' = [handle EXCEPT ![AgentOf(runtime[d])] = None]
  PROVE  RunsInv'
<1> USE DEF RunsInv
<1>1. /\ pc \in [Calls -> Stages]
      /\ status \in [Runtimes -> Statuses] /\ handle \in [Agents -> Calls \cup {None}]
      /\ attached \in [Runtimes -> Calls \cup {None}]
      /\ live \subseteq Calls
  BY DEF DispatchInv, TypeOK
<1>2. pc'[d] = s /\ \A e \in Calls : e # d => pc'[e] = pc[e]
  BY <1>1
<1>3. CurrentRuntimes'
  BY <1>2, PromisesKeepRuntimes
<1>4. DistinctAgents'
  BY <1>2 DEF DistinctAgents, Open
<1>5. \A e \in Calls : Running(e)' <=> Running(e)
  BY <1>2 DEF Running
<1>6. \A e \in Calls : Running(e) => /\ e # d
                                     /\ runtime'[e] = runtime[e]
                                     /\ runtime[e] \in Runtimes
                                     /\ AgentOf(runtime[e]) \in Agents
                                     /\ AgentOf(runtime[e]) # AgentOf(runtime[d])
                                     /\ runtime[e] # runtime[d]
  BY DEF Running, DistinctAgents, CurrentRuntimes, Open, Over, Runtimes, AgentOf
<1>7. StatusTruthful'
  BY <1>1, <1>5, <1>6 DEF StatusTruthful
<1>8. RunIsAddressable'
  BY <1>1, <1>5, <1>6 DEF RunIsAddressable
<1>9. SessionsAttached'
  BY <1>1, <1>5, <1>6 DEF SessionsAttached
<1>10. \A e \in Calls : pc'[e] # "crashed"
  BY <1>2
<1> QED
  BY <1>3, <1>4, <1>7, <1>8, <1>9, <1>10

\* A run opens when no other call is for its worker.
LEMMA StartKeepsRuns ==
  ASSUME DispatchInv, RunsInv, NEW d \in Calls, StartRun(d)
  PROVE  RunsInv'
<1> USE DEF RunsInv
<1>1. /\ pc[d] = "delegating" /\ pc' = [pc EXCEPT ![d] = "running"]
      /\ handle' = [handle EXCEPT ![AgentOf(runtime[d])] = d]
      /\ status' = [status EXCEPT ![runtime[d]] = "running"]
      /\ attached' = [attached EXCEPT ![runtime[d]] = d]
      /\ live' = live \cup {d}
      /\ UNCHANGED <<promise, runtime, epoch>>
  BY DEF StartRun, OpenRun, queueVars, hostVars
<1>2. /\ pc \in [Calls -> Stages]
      /\ status \in [Runtimes -> Statuses] /\ handle \in [Agents -> Calls \cup {None}]
      /\ attached \in [Runtimes -> Calls \cup {None}]
      /\ live \subseteq Calls
  BY DEF DispatchInv, TypeOK
<1>3. pc'[d] = "running" /\ \A e \in Calls : e # d => pc'[e] = pc[e]
  BY <1>1, <1>2
<1>4. CurrentRuntimes'
  BY <1>1, <1>3 DEF CurrentRuntimes, Open, Over
<1>5. DistinctAgents'
  BY <1>1, <1>3 DEF DistinctAgents, Open, Over
<1>6. runtime[d] \in Runtimes /\ AgentOf(runtime[d]) \in Agents
  BY <1>1 DEF CurrentRuntimes, Open, Over, Runtimes, AgentOf
<1>7. \A e \in Calls : e # d => (Running(e)' <=> Running(e))
  BY <1>3 DEF Running
<1>8. \A e \in Calls : e # d /\ Running(e) => /\ runtime[e] \in Runtimes
                                              /\ AgentOf(runtime[e]) \in Agents
                                              /\ AgentOf(runtime[e]) # AgentOf(runtime[d])
                                              /\ runtime[e] # runtime[d]
  BY <1>1 DEF Running, DistinctAgents, CurrentRuntimes, Open, Over, Runtimes, AgentOf
<1>9. Running(d)' /\ ~Running(d)
  BY <1>1, <1>3 DEF Running
<1>10. StatusTruthful'
  BY <1>1, <1>2, <1>6, <1>7, <1>8, <1>9 DEF StatusTruthful
<1>11. RunIsAddressable'
  BY <1>1, <1>2, <1>6, <1>7, <1>8, <1>9 DEF RunIsAddressable
<1>12. SessionsAttached'
  BY <1>1, <1>2, <1>6, <1>7, <1>8, <1>9 DEF SessionsAttached
<1>13. \A e \in Calls : pc'[e] # "crashed"
  BY <1>3
<1> QED
  BY <1>4, <1>5, <1>10, <1>11, <1>12, <1>13

\* A run closes what hangs on its own runtime object, and nothing else.
LEMMA RunEndKeepsRuns ==
  ASSUME DispatchInv, RunsInv, NEW d \in Calls, RunEnds(d)
  PROVE  RunsInv'
<1> USE DEF RunsInv
<1>1. /\ pc[d] = "running" /\ pc' = [pc EXCEPT ![d] = "ending"]
      /\ status' \in {[status EXCEPT ![runtime[d]] = "error"],
                      [status EXCEPT ![runtime[d]] = "done"]}
      /\ attached' = [attached EXCEPT ![runtime[d]] = None]
      /\ live' = live \ {d}
      /\ UNCHANGED <<handle, runtime, epoch>>
  BY DEF RunEnds, hostVars
<1>2. /\ pc \in [Calls -> Stages]
      /\ status \in [Runtimes -> Statuses]
      /\ attached \in [Runtimes -> Calls \cup {None}]
      /\ live \subseteq Calls
  BY DEF DispatchInv, TypeOK
<1>3. pc'[d] = "ending" /\ \A e \in Calls : e # d => pc'[e] = pc[e]
  BY <1>1, <1>2
<1>4. /\ promise'[d] = "none"
      /\ \A e \in Calls : e # d => \/ promise'[e] = promise[e]
                                   \/ promise[e] = "waiting" /\ promise'[e] = "acquired"
  BY <1>1, GiveBackEffect DEF RunEnds, DispatchInv, SlotsFollowStages
<1>5. CurrentRuntimes'
  BY <1>1, <1>3, <1>4, PromisesKeepRuntimes DEF Over
<1>6. DistinctAgents'
  BY <1>1, <1>3 DEF DistinctAgents, Open, Over
<1>7. runtime[d] \in Runtimes
  BY <1>1 DEF CurrentRuntimes, Open, Over
<1>8. \A e \in Calls : e # d => (Running(e)' <=> Running(e))
  BY <1>3 DEF Running
<1>9. \A e \in Calls : e # d /\ Running(e) => runtime[e] \in Runtimes /\ runtime[e] # runtime[d]
  BY <1>1 DEF Running, DistinctAgents, CurrentRuntimes, Open, Over
<1>10. ~Running(d)' /\ Running(d)
  BY <1>1, <1>3 DEF Running
<1>11. StatusTruthful'
  BY <1>1, <1>2, <1>7, <1>8, <1>9, <1>10 DEF StatusTruthful
<1>12. RunIsAddressable'
  BY <1>1, <1>8, <1>10 DEF RunIsAddressable
<1>13. SessionsAttached'
  BY <1>1, <1>2, <1>8, <1>9 DEF SessionsAttached
<1>14. \A e \in Calls : pc'[e] # "crashed"
  BY <1>3
<1> QED
  BY <1>5, <1>6, <1>11, <1>12, <1>13, <1>14

LEMMA StepKeepsRuns ==
  ASSUME NothingThrows, DispatchInv, RunsInv, NEW d \in Calls, Step(d)
  PROVE  RunsInv'
<1> DEFINE OthersOnlyServed ==
      \A e \in Calls : e # d => \/ promise'[e] = promise[e]
                                \/ promise[e] = "waiting" /\ promise'[e] = "acquired"
<1>1. ASSUME promise[d] = "acquired", GiveBack(d) PROVE promise'[d] = "none" /\ OthersOnlyServed
  BY <1>1, GiveBackEffect DEF DispatchInv
<1>2. ASSUME EndCall(d)
      PROVE  /\ pc' = [pc EXCEPT ![d] = "idle"]
             /\ \A e \in Calls : e # d => runtime'[e] = runtime[e]
  BY <1>2 DEF EndCall, DispatchInv, TypeOK
<1>3. "idle" \in Stages \ {"running", "crashed"} /\ "idle" \in Over
  BY DEF Stages, Over
<1>4. ASSUME Refused(d) PROVE RunsInv'
  <2>1. promise'[d] = "none" /\ OthersOnlyServed
    BY <1>4 DEF Refused, Return, DispatchInv, TypeOK, QueueTypeOK
  <2> QED
    BY <1>2, <1>3, <1>4, <2>1, OutsideRuns DEF Refused, hostVars, Over
<1>5. ASSUME AlreadyRunning(d) \/ CannotPrepare(d) PROVE RunsInv'
  BY <1>1, <1>2, <1>3, <1>5, OutsideRuns DEF AlreadyRunning, CannotPrepare, HasSlot, hostVars, Over
<1>6. ASSUME BudgetRefused(d) PROVE RunsInv'
  <2>1. promise[d] = "acquired"
    BY <1>6 DEF BudgetRefused, DispatchInv, SlotsFollowStages, Preparing
  <2> QED
    BY <1>1, <1>2, <1>3, <1>6, <2>1, OutsideRuns DEF BudgetRefused, hostVars, Over
<1>7. ASSUME FailureReported(d) \/ RunReported(d) PROVE RunsInv'
  <2>1. promise'[d] = "none" /\ OthersOnlyServed
    BY <1>7 DEF FailureReported, RunReported, queueVars, DispatchInv, SlotsFollowStages
  <2> QED
    BY <1>2, <1>3, <1>7, <2>1, OutsideRuns DEF FailureReported, RunReported, hostVars, Over
<1>8. ASSUME StartReload(d) \/ StartDelegate(d) PROVE RunsInv'
  <2>1. \E s \in {"reloading", "delegating"} : pc' = [pc EXCEPT ![d] = s]
    BY <1>8 DEF StartReload, StartDelegate
  <2> QED
    BY <1>8, <2>1, OutsideRuns
       DEF StartReload, StartDelegate, HasSlot, queueVars, hostVars, Over, Stages
<1>9. ASSUME DelegateThrows(d) \/ PartialSession(d) PROVE RunsInv'
  <2>1. promise[d] = "acquired"
    BY <1>9 DEF DelegateThrows, PartialSession, DispatchInv, SlotsFollowStages, Preparing
  <2> QED
    BY <1>1, <1>9, <2>1, OutsideRuns DEF DelegateThrows, PartialSession, hostVars, Over, Stages
<1>10. ASSUME ReloadThrows(d) \/ StartThrows(d) PROVE RunsInv'
  BY <1>10 DEF ReloadThrows, StartThrows, NothingThrows
<1> QED
  BY <1>4, <1>5, <1>6, <1>7, <1>8, <1>9, <1>10, StartKeepsRuns, RunEndKeepsRuns DEF Step

\* The mode changes, and the runtime objects with it, only when nobody holds a slot or
\* waits for one, hence when nothing runs.
LEMMA ModeKeepsRuns ==
  ASSUME DispatchInv, RunsInv, NEW m \in Modes, ApplyMode(m)
  PROVE  RunsInv'
<1> USE DEF RunsInv
<1>1. activeRuns = 0 /\ UNCHANGED <<promise, pc, runtime, status, handle>>
      /\ (epoch' = epoch \/ epoch' = epoch + 1)
      /\ live' \subseteq live
  BY DEF ApplyMode, queueVars, RebuildRuntimes
<1>2. \A d \in Calls : promise[d] \notin {"waiting", "acquired"}
  BY <1>1, NobodyHolds
<1>3. \A d \in Calls : pc[d] # "running"
  BY <1>2 DEF DispatchInv, SlotsFollowStages
<1>4. live = {}
  BY <1>3 DEF SessionsAttached, Running, DispatchInv, TypeOK
<1>5. CurrentRuntimes' /\ DistinctAgents'
  BY <1>1, <1>2 DEF CurrentRuntimes, DistinctAgents, Open
<1>6. StatusTruthful' /\ RunIsAddressable'
  BY <1>1 DEF StatusTruthful, RunIsAddressable, Running
<1>7. SessionsAttached'
  BY <1>1, <1>4 DEF SessionsAttached
<1> QED
  BY <1>1, <1>5, <1>6, <1>7

LEMMA NextKeepsRuns ==
  ASSUME RunsAssumption, DispatchInv, StackInv, RunsInv, [Next]_vars
  PROVE  RunsInv'
<1>1. ASSUME NEW d \in Calls, NEW c \in Calls \cup {Main}, NEW a \in Agents,
             NEW o \in Overrides, Dispatch(d, c, a, o)
      PROVE  RunsInv'
  BY <1>1, DispatchKeepsRuns
<1>2. ASSUME NEW d \in Calls, Step(d) PROVE RunsInv'
  BY <1>2, StepKeepsRuns DEF RunsAssumption
<1>3. ASSUME NEW d \in Calls, AbortCall(d) PROVE RunsInv'
  <2>1. \A e \in Calls : promise'[e] \in {"waiting", "acquired"} => promise'[e] = promise[e]
    BY <1>3 DEF AbortCall, Abort, DispatchInv, TypeOK, QueueTypeOK
  <2> QED
    BY <1>3, <2>1 DEF AbortCall, hostVars, RunsInv, CurrentRuntimes, DistinctAgents, Open,
                      StatusTruthful, RunIsAddressable, SessionsAttached, Running
<1>4. ASSUME (\E d \in Calls : TimeOut(d)) \/ UNCHANGED vars PROVE RunsInv'
  BY <1>4 DEF TimeOut, vars, queueVars, runVars, hostVars, RunsInv, CurrentRuntimes,
              DistinctAgents, Open, StatusTruthful, RunIsAddressable, SessionsAttached, Running
<1>5. ASSUME NEW m \in Modes, ApplyMode(m) PROVE RunsInv'
  BY <1>5, ModeKeepsRuns
<1>6. ASSUME SessionShutdown \/ SessionStart \/ SessionStartFails PROVE FALSE
  BY <1>6, DispatchAssumption DEF SessionShutdown, SessionStart, SessionStartFails, RunsAssumption
<1> QED
  BY <1>1, <1>2, <1>3, <1>4, <1>5, <1>6 DEF Next

\* When every session issues its delegations one at a time, nothing unguarded throws
\* and the Pi session goes on, the slot, the status, the handle and the runtime object
\* of a worker tell of one and the same run (dispatch.ts, dispatch-lifecycle.ts): the
\* checks before the await for a slot still hold after it, because all other calls are
\* runs of other workers that wait for this one.
THEOREM BooksOfRunsAgree == ASSUME RunsAssumption PROVE Safety => []RunsAreAccounted
<1>1. Init => RunsInv
  BY DEF Init, QueueInit, RunsInv, CurrentRuntimes, DistinctAgents, Open, Over, StatusTruthful,
         RunIsAddressable, SessionsAttached, Running
<1>2. DispatchInv /\ StackInv /\ RunsInv /\ [Next]_vars => RunsInv'
  BY NextKeepsRuns
<1>3. DispatchInv /\ RunsInv => RunsAreAccounted
  <2> SUFFICES ASSUME DispatchInv, RunsInv PROVE RunsAreAccounted
    OBVIOUS
  <2>1. SlotsComeBack
    BY DEF DispatchInv, SlotsFollowStages, SlotsComeBack, Over, RunsInv
  <2>2. OneRunPerAgent
    BY DEF RunsInv, DistinctAgents, OneRunPerAgent, Running, Open, Over
  <2>3. OpenSessionsOwned
    BY DEF DispatchInv, SlotsFollowStages, TypeOK, RunsInv, CurrentRuntimes, SessionsAttached,
           OpenSessionsOwned, Running
  <2> QED
    BY <2>1, <2>2, <2>3 DEF RunsInv, RunsAreAccounted
<1> QED
  BY <1>1, <1>2, <1>3, DispatchInvariance, StackInvariance, PTL DEF Safety, RunsAssumption
=============================================================================
