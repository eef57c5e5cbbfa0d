----------------------- MODULE OperatorCommandsProofs -----------------------
(***************************************************************************)
(* Proofs about OperatorCommands for any number of drains, workers, rows   *)
(* and sessions and any set of commands.                                   *)
(*                                                                         *)
(* Wakes: a drain at work has a row that was asked for (RowsKnown); a wake *)
(* in progress is the one inflightWakes names and some drain is waiting    *)
(* for it (WakesTracked), so whoever the wake resumes will release the     *)
(* handle it registered.                                                   *)
(*                                                                         *)
(* Rows, when polls do not overlap: a drain holds the end of the file, and *)
(* the rows before it are the answered ones (HasRest).                     *)
(*                                                                         *)
(* Handles, when nothing is replaced under them: whatever refers to a      *)
(* session does so on behalf of one agent (SessionsHaveAgent), so what one *)
(* command disposes no handle of another agent names.                      *)
(***************************************************************************)
EXTENDS OperatorCommands, SequenceTheorems, TLAPS

\* The rows of the file and of the drains are rows somebody queued, and a drain
\* at work has one.
RowsKnown ==
  /\ \A i \in DOMAIN file : request[file[i]] # None
  /\ \A t \in Ticks : \A i \in DOMAIN batch[t] : request[batch[t][i]] # None
  /\ \A t \in Ticks : stage[t] # "idle" => batch[t] # <<>>

\* Drain t has asked for the wake of agent a into session s and was not answered.
WaitsFor(t, a, s) ==
  /\ stage[t] = "waking"
  /\ used[t] = s
  /\ Agent(t) = a
  /\ Command(t) \in Waking

\* A wake in progress is on record, has a session of its own, and is waited for.
WakesTracked ==
  \A w \in opening :
    /\ inflight[w[1]] = w[2]
    /\ \A v \in opening : v[2] = w[2] => v = w
    /\ \E t \in Ticks : WaitsFor(t, w[1], w[2])

\* A drain that waits for a wake, or goes on after one, does so for a command that
\* releases what the wake registered.
WakersWake == \A t \in Ticks : stage[t] \in {"waking", "woken"} => Command(t) \in Waking

OperatorInv ==
  /\ TypeOK
  /\ RowsKnown
  /\ WakesTracked
  /\ WakersWake
  /\ WakeIsTransient

-----------------------------------------------------------------------------
(* Drains and their rows *)

\* A drain at work has a current row, with an agent and a command.
LEMMA CurrentRow ==
  ASSUME TypeOK, RowsKnown, NEW t \in Ticks, stage[t] # "idle"
  PROVE  /\ Row(t) \in Rows
         /\ request[Row(t)] # None
         /\ request[Row(t)] \in Agents \X Commands
         /\ Agent(t) \in Agents
         /\ Command(t) \in Commands
<1>1. batch[t] \in Seq(Rows) /\ batch[t] # <<>>
  BY DEF TypeOK, RowsKnown
<1>2. 1 \in DOMAIN batch[t] /\ Row(t) = batch[t][1] /\ Row(t) \in Rows
  BY <1>1 DEF Row
<1>3. request[Row(t)] # None
  BY <1>2 DEF RowsKnown
<1>4. request[Row(t)] \in Agents \X Commands
  BY <1>2, <1>3 DEF TypeOK
<1> QED
  BY <1>2, <1>3, <1>4 DEF Agent, Command, AgentOf, CommandOf

\* A step that leaves the row of a drain alone leaves its agent and command alone.
LEMMA SameRow ==
  ASSUME TypeOK, RowsKnown, NEW t \in Ticks, stage[t] # "idle", batch'[t] = batch[t],
         request' = request
  PROVE  Agent(t)' = Agent(t) /\ Command(t)' = Command(t)
BY DEF Agent, Command, AgentOf, CommandOf, Row

\* An answer moves its drain to the next row or to the end, and no other drain.
LEMMA AnswerEffect ==
  ASSUME TypeOK, RowsKnown, NEW t \in Ticks, stage[t] # "idle", Answer(t), request' = request
  PROVE  /\ file' \in Seq(Rows)
         /\ answered' \in [Rows -> 0..2]
         /\ stage' \in [Ticks -> Stages]
         /\ batch' \in [Ticks -> Seq(Rows)]
         /\ used' \in [Ticks -> Sessions \cup {None}]
         /\ RowsKnown'
         /\ stage'[t] \in {"idle", "next"}
         /\ \A u \in Ticks \ {t} :
              stage'[u] = stage[u] /\ batch'[u] = batch[u] /\ used'[u] = used[u]
<1>1. batch[t] \in Seq(Rows) /\ batch[t] # <<>>
  BY DEF TypeOK, RowsKnown
<1>2. /\ Tail(batch[t]) \in Seq(Rows)
      /\ Len(batch[t]) \in Nat \ {0}
      /\ Len(Tail(batch[t])) = Len(batch[t]) - 1
      /\ \A i \in DOMAIN Tail(batch[t]) :
           i + 1 \in DOMAIN batch[t] /\ Tail(batch[t])[i] = batch[t][i + 1]
  BY <1>1
<1>3. /\ file' \in Seq(Rows)
      /\ \A i \in DOMAIN file' : i \in DOMAIN file /\ file'[i] = file[i]
  <2>1. file' = file \/ file' = <<>>
    BY DEF Answer
  <2>2. file \in Seq(Rows)
    BY DEF TypeOK
  <2>3. CASE file' = file
    BY <2>2, <2>3
  <2>4. CASE file' = <<>>
    BY <2>4
  <2> QED
    BY <2>1, <2>3, <2>4
<1>4. answered' \in [Rows -> 0..2]
  <2>1. answered \in [Rows -> 0..2] /\ Row(t) \in Rows
    BY CurrentRow DEF TypeOK
  <2>2. answered' = [answered EXCEPT ![Row(t)] = IF @ < 2 THEN @ + 1 ELSE 2]
    BY DEF Answer
  <2>3. (IF answered[Row(t)] < 2 THEN answered[Row(t)] + 1 ELSE 2) \in 0..2
    BY <2>1
  <2> QED
    BY <2>1, <2>2, <2>3
<1>5. /\ batch' = [batch EXCEPT ![t] = Tail(batch[t])]
      /\ batch' \in [Ticks -> Seq(Rows)]
  BY <1>2 DEF Answer, TypeOK
<1>6. /\ stage' = [stage EXCEPT ![t] = IF Len(batch[t]) = 1 THEN "idle" ELSE "next"]
      /\ stage' \in [Ticks -> Stages]
  BY DEF Answer, TypeOK, Stages
<1>7. used' = [used EXCEPT ![t] = None] /\ used' \in [Ticks -> Sessions \cup {None}]
  BY DEF Answer, TypeOK
<1>8. RowsKnown'
  <2>1. \A i \in DOMAIN file' : request'[file'[i]] # None
    BY <1>3 DEF RowsKnown
  <2>2. ASSUME NEW u \in Ticks
        PROVE  /\ \A i \in DOMAIN batch'[u] : request'[batch'[u][i]] # None
               /\ stage'[u] # "idle" => batch'[u] # <<>>
    <3>1. CASE u = t
      <4>1. batch'[u] = Tail(batch[t])
        BY <1>5, <3>1 DEF TypeOK
      <4>2. stage'[u] # "idle" => Len(batch[t]) # 1
        BY <1>6, <3>1 DEF TypeOK
      <4>3. stage'[u] # "idle" => Len(batch'[u]) # 0
        BY <1>2, <4>1, <4>2
      <4>4. \A i \in DOMAIN batch'[u] : request'[batch'[u][i]] # None
        BY <1>2, <4>1 DEF RowsKnown
      <4> QED
        BY <4>3, <4>4
    <3>2. CASE u # t
      BY <1>5, <1>6, <3>2 DEF TypeOK, RowsKnown
    <3> QED
      BY <3>1, <3>2
  <2> QED
    BY <2>1, <2>2 DEF RowsKnown
<1> QED
  BY <1>3, <1>4, <1>5, <1>6, <1>7, <1>8 DEF TypeOK

\* Drains that keep their row and stage keep what they wait for.
LEMMA StillWaits ==
  ASSUME TypeOK, RowsKnown, NEW t \in Ticks, stage'[t] = stage[t], batch'[t] = batch[t],
         used'[t] = used[t], request' = request
  PROVE  /\ \A a, s : WaitsFor(t, a, s) => WaitsFor(t, a, s)'
         /\ stage[t] # "idle" => Agent(t)' = Agent(t) /\ Command(t)' = Command(t)
BY SameRow DEF WaitsFor

\* A drain may answer its row if nobody needs it for a wake any longer: it is not
\* waiting for one in progress, and what it was woken for is released.
LEMMA AnswerInv ==
  ASSUME OperatorInv, NEW t \in Ticks, stage[t] # "idle", Answer(t),
         UNCHANGED <<request, wakeVars, run, closing, hostVars>>,
         open' \in SUBSET Sessions,
         handle' = handle \/ handle' = [handle EXCEPT ![Agent(t)] = None],
         \/ stage[t] \notin {"woken", "executing"}
         \/ Command(t) \notin Waking
         \/ handle'[Agent(t)] = None,
         stage[t] = "waking" => <<Agent(t), used[t]>> \notin opening
  PROVE  OperatorInv'
<1> USE DEF OperatorInv
<1>1. RowsKnown'
  BY AnswerEffect
<1>2. TypeOK'
  <2>1. handle' \in [Agents -> Sessions \cup {None}]
    BY DEF TypeOK
  <2> QED
    BY <2>1, AnswerEffect DEF TypeOK, wakeVars, hostVars
<1>3. stage'[t] \in {"idle", "next"}
  BY AnswerEffect
<1>4. ASSUME NEW u \in Ticks, u # t
      PROVE  /\ stage'[u] = stage[u]
             /\ \A a, s : WaitsFor(u, a, s) => WaitsFor(u, a, s)'
             /\ stage[u] # "idle" => Agent(u)' = Agent(u) /\ Command(u)' = Command(u)
  BY <1>4, AnswerEffect, StillWaits
<1>5. WakesTracked'
  <2>1. opening' = opening /\ inflight' = inflight
    BY DEF wakeVars
  <2>2. ASSUME NEW w \in opening PROVE \E u \in Ticks : WaitsFor(u, w[1], w[2])'
    <3>1. PICK u \in Ticks : WaitsFor(u, w[1], w[2])
      BY DEF WakesTracked
    <3>2. w = <<w[1], w[2]>>
      BY DEF TypeOK
    <3>3. u # t
      BY <3>1, <3>2 DEF WaitsFor
    <3> QED
      BY <1>4, <3>1, <3>3
  <2> QED
    BY <2>1, <2>2 DEF WakesTracked
<1>6. WakersWake'
  BY <1>3, <1>4 DEF WakersWake
<1>7. WakeIsTransient'
  <2> SUFFICES ASSUME NEW a \in Agents, handle'[a] \in WakeSessions
               PROVE  \E u \in Ticks : /\ stage'[u] \in {"woken", "executing"}
                                       /\ Agent(u)' = a
                                       /\ Command(u)' \in Waking
    BY DEF WakeIsTransient
  <2>1. handle'[a] = handle[a] /\ (handle'[a] # None)
    BY OperatorAssumption DEF TypeOK, Sessions
  <2>2. PICK u \in Ticks : /\ stage[u] \in {"woken", "executing"}
                           /\ Agent(u) = a
                           /\ Command(u) \in Waking
    BY <2>1 DEF WakeIsTransient
  <2>3. u # t
    BY <2>1, <2>2
  <2> QED
    BY <1>4, <2>2, <2>3
<1> QED
  BY <1>1, <1>2, <1>5, <1>6, <1>7

-----------------------------------------------------------------------------
(* The steps of a drain *)

\* Commands that find no handle, or are done.
LEMMA AnsweringInv ==
  ASSUME OperatorInv, NEW t \in Ticks,
         \/ NoHandle(t) \/ NotWoken(t) \/ WakeIsGone(t)
         \/ Immediate(t) \/ ForceKill(t) \/ Settle(t) \/ ForceEndDisposes(t) \/ Respawned(t)
  PROVE  OperatorInv'
<1> USE DEF sessionVars
<1>1. open \in SUBSET Sessions /\ handle \in [Agents -> Sessions \cup {None}]
  BY DEF OperatorInv, TypeOK
<1>2. stage[t] # "idle" => Agent(t) \in Agents
  BY CurrentRow DEF OperatorInv
<1>3. CASE NoHandle(t)
  BY <1>1, <1>2, <1>3, AnswerInv DEF NoHandle
<1>4. CASE NotWoken(t)
  BY <1>1, <1>2, <1>4, AnswerInv DEF NotWoken
<1>5. CASE WakeIsGone(t)
  BY <1>1, <1>2, <1>5, AnswerInv DEF WakeIsGone
<1>6. CASE Immediate(t)
  BY <1>1, <1>2, <1>6, AnswerInv DEF Immediate, Release, Unregister, Present
<1>7. CASE ForceKill(t)
  BY <1>1, <1>2, <1>7, AnswerInv DEF ForceKill, Present, Unregister
<1>8. CASE Settle(t)
  BY <1>1, <1>2, <1>8, AnswerInv DEF Settle, Release, Unregister
<1>9. CASE ForceEndDisposes(t)
  BY <1>1, <1>2, <1>9, AnswerInv DEF ForceEndDisposes, Unregister
<1>10. CASE Respawned(t)
  <2>1. Command(t) \notin Waking
    BY <1>10 DEF Respawned, Waking
  <2>2. open' \in SUBSET Sessions
    BY <1>1, <1>10 DEF Respawned, Sessions
  <2> QED
    BY <1>10, <2>1, <2>2, AnswerInv DEF Respawned
<1> QED
  BY <1>3, <1>4, <1>5, <1>6, <1>7, <1>8, <1>9, <1>10

\* A drain joins the wake in progress or starts one with a session nobody uses.
LEMMA AskForWakeInv ==
  ASSUME OperatorInv, NEW t \in Ticks, AskForWake(t)
  PROVE  OperatorInv'
<1> DEFINE a == Agent(t)
           s == inflight'[a]
<1> USE DEF OperatorInv, AskForWake, GetOrCreateInflightWake, hostVars
<1>1. a \in Agents /\ Command(t) \in Waking /\ stage[t] = "next"
  BY CurrentRow
<1>2. /\ inflight' \in [Agents -> Sessions \cup {None}]
      /\ opening' \in SUBSET (Agents \X Sessions)
      /\ open' \in SUBSET Sessions
      /\ s \in Sessions
  <2>1. CASE inflight[a] # None
    BY <1>1, <2>1 DEF TypeOK
  <2>2. CASE inflight[a] = None
    <3>1. PICK n \in WakeSessions : /\ open' = open \ {n}
                                    /\ inflight' = [inflight EXCEPT ![a] = n]
                                    /\ opening' = opening \cup {<<a, n>>}
      BY <2>2
    <3>2. n \in Sessions
      BY DEF Sessions
    <3> QED
      BY <1>1, <3>1, <3>2 DEF TypeOK
  <2> QED
    BY <2>1, <2>2
<1>3. TypeOK'
  <2>1. used' \in [Ticks -> Sessions \cup {None}]
    BY <1>2 DEF TypeOK
  <2> QED
    BY <1>2, <2>1 DEF TypeOK, Stages
<1>4. RowsKnown'
  BY DEF RowsKnown, TypeOK
<1>5. /\ stage' = [stage EXCEPT ![t] = "waking"]
      /\ used' = [used EXCEPT ![t] = s]
      /\ Agent(t)' = a /\ Command(t)' = Command(t)
  BY <1>1, SameRow
<1>6. ASSUME NEW b, NEW r, b = a, r = s PROVE WaitsFor(t, b, r)'
  BY <1>1, <1>5, <1>6 DEF WaitsFor, TypeOK
<1>7. ASSUME NEW u \in Ticks, u # t
      PROVE  /\ stage'[u] = stage[u]
             /\ \A b, r : WaitsFor(u, b, r) => WaitsFor(u, b, r)'
             /\ stage[u] # "idle" => Agent(u)' = Agent(u) /\ Command(u)' = Command(u)
  BY <1>7, StillWaits DEF TypeOK
<1>8. ASSUME NEW w \in opening PROVE \E u \in Ticks : WaitsFor(u, w[1], w[2])'
  <2>1. PICK u \in Ticks : WaitsFor(u, w[1], w[2])
    BY DEF WakesTracked
  <2>2. u # t
    BY <1>1, <2>1 DEF WaitsFor
  <2> QED
    BY <1>7, <2>1, <2>2
<1>9. WakesTracked'
  <2>1. CASE inflight[a] # None
    BY <1>8, <2>1 DEF WakesTracked
  <2>2. CASE inflight[a] = None
    <3>1. PICK n \in WakeSessions : /\ Unreferenced(n)
                                    /\ inflight' = [inflight EXCEPT ![a] = n]
                                    /\ opening' = opening \cup {<<a, n>>}
      BY <2>2
    <3>2. s = n /\ n \in Sessions
      BY <1>1, <3>1 DEF TypeOK, Sessions
    <3>3. ASSUME NEW w \in opening PROVE w[1] # a /\ w[2] # n /\ w[1] \in Agents
      <4>1. w = <<w[1], w[2]>> /\ w[1] \in Agents /\ w[2] \in Sessions
        BY DEF TypeOK
      <4>2. inflight[w[1]] = w[2]
        BY DEF WakesTracked
      <4>3. w[2] # None
        BY <4>1, OperatorAssumption
      <4>4. <<w[1], n>> \notin opening
        BY <3>1, <4>1 DEF Unreferenced
      <4> QED
        BY <2>2, <4>1, <4>2, <4>3, <4>4
    <3>4. ASSUME NEW w \in opening' PROVE inflight'[w[1]] = w[2]
      BY <1>1, <3>1, <3>3 DEF WakesTracked, TypeOK
    <3>5. ASSUME NEW w \in opening', NEW v \in opening', v[2] = w[2] PROVE v = w
      BY <3>1, <3>3, <3>5 DEF WakesTracked
    <3>6. ASSUME NEW w \in opening' PROVE \E u \in Ticks : WaitsFor(u, w[1], w[2])'
      BY <1>6, <1>8, <3>1, <3>2
    <3> QED
      BY <3>4, <3>5, <3>6 DEF WakesTracked
  <2> QED
    BY <2>1, <2>2
<1>10. WakersWake'
  BY <1>1, <1>5, <1>7 DEF WakersWake
<1>11. WakeIsTransient'
  <2> SUFFICES ASSUME NEW b \in Agents, handle'[b] \in WakeSessions
               PROVE  \E u \in Ticks : /\ stage'[u] \in {"woken", "executing"}
                                       /\ Agent(u)' = b
                                       /\ Command(u)' \in Waking
    BY DEF WakeIsTransient
  <2>1. PICK u \in Ticks : /\ stage[u] \in {"woken", "executing"}
                           /\ Agent(u) = b
                           /\ Command(u) \in Waking
    BY DEF WakeIsTransient
  <2>2. u # t
    BY <1>1, <2>1
  <2> QED
    BY <1>7, <2>1, <2>2
<1> QED
  BY <1>3, <1>4, <1>9, <1>10, <1>11

\* A command that is awaited keeps its row, and a woken one its duty to release.
LEMMA ExecutingInv ==
  ASSUME OperatorInv, NEW t \in Ticks, stage[t] \in {"next", "woken"},
         stage' = [stage EXCEPT ![t] = "executing"],
         used' \in [Ticks -> Sessions \cup {None}],
         \A u \in Ticks \ {t} : used'[u] = used[u],
         open' \in SUBSET Sessions,
         UNCHANGED <<file, request, answered, batch, handle, wakeVars, run, closing, hostVars>>
  PROVE  OperatorInv'
<1> USE DEF OperatorInv
<1>1. TypeOK'
  BY DEF TypeOK, Stages, wakeVars, hostVars
<1>2. RowsKnown'
  BY DEF RowsKnown, TypeOK
<1>3. ASSUME NEW u \in Ticks
      PROVE  /\ u # t => stage'[u] = stage[u]
             /\ u # t => \A b, r : WaitsFor(u, b, r) => WaitsFor(u, b, r)'
             /\ stage[u] # "idle" => Agent(u)' = Agent(u) /\ Command(u)' = Command(u)
  BY StillWaits, SameRow DEF TypeOK
<1>4. stage'[t] = "executing"
  BY DEF TypeOK
<1>5. WakesTracked'
  <2>1. ASSUME NEW w \in opening PROVE \E u \in Ticks : WaitsFor(u, w[1], w[2])'
    <3>1. PICK u \in Ticks : WaitsFor(u, w[1], w[2])
      BY DEF WakesTracked
    <3>2. u # t
      BY <3>1 DEF WaitsFor
    <3> QED
      BY <1>3, <3>1, <3>2
  <2> QED
    BY <2>1 DEF WakesTracked, wakeVars
<1>6. WakersWake'
  BY <1>3, <1>4 DEF WakersWake
<1>7. WakeIsTransient'
  <2> SUFFICES ASSUME NEW b \in Agents, handle'[b] \in WakeSessions
               PROVE  \E u \in Ticks : /\ stage'[u] \in {"woken", "executing"}
                                       /\ Agent(u)' = b
                                       /\ Command(u)' \in Waking
    BY DEF WakeIsTransient
  <2>1. PICK u \in Ticks : /\ stage[u] \in {"woken", "executing"}
                           /\ Agent(u) = b
                           /\ Command(u) \in Waking
    BY DEF WakeIsTransient
  <2> QED
    BY <1>3, <1>4, <2>1
<1> QED
  BY <1>1, <1>2, <1>5, <1>6, <1>7

LEMMA DrainInv ==
  ASSUME OperatorInv, NEW t \in Ticks, Drain(t)
  PROVE  OperatorInv'
<1>1. CASE AskForWake(t)
  BY <1>1, AskForWakeInv
<1>2. CASE StartAwaited(t)
  <2>1. stage[t] # "idle" /\ Agent(t) \in Agents
    BY <1>2, CurrentRow DEF StartAwaited, Present, OperatorInv
  <2>2. used' \in [Ticks -> Sessions \cup {None}] /\ open' \in SUBSET Sessions
    BY <1>2, <2>1 DEF StartAwaited, OperatorInv, TypeOK
  <2>3. \A u \in Ticks \ {t} : used'[u] = used[u]
    BY <1>2 DEF StartAwaited, OperatorInv, TypeOK
  <2> QED
    BY <1>2, <2>2, <2>3, ExecutingInv DEF StartAwaited, Present
<1>3. CASE TearDownAll(t)
  <2>1. open \in SUBSET Sessions /\ used \in [Ticks -> Sessions \cup {None}]
    BY DEF OperatorInv, TypeOK
  <2>2. CASE Answer(t)
    BY <1>3, <2>1, <2>2, AnswerInv DEF TearDownAll, sessionVars
  <2>3. CASE ~Answer(t)
    BY <1>3, <2>1, <2>3, ExecutingInv DEF TearDownAll, sessionVars
  <2> QED
    BY <2>2, <2>3
<1> QED
  BY <1>1, <1>2, <1>3, AnsweringInv DEF Drain

-----------------------------------------------------------------------------
(* The other steps *)

\* A step that leaves the drains and their wakes alone and registers no woken
\* session.
LEMMA AsideInv ==
  ASSUME OperatorInv, TypeOK', UNCHANGED <<file, request, stage, batch, used, wakeVars>>,
         \A a \in Agents : handle'[a] = handle[a] \/ handle'[a] \notin WakeSessions
  PROVE  OperatorInv'
<1> USE DEF OperatorInv
<1>1. RowsKnown'
  BY DEF RowsKnown
<1>2. \A t \in Ticks : Agent(t)' = Agent(t) /\ Command(t)' = Command(t)
  BY DEF Agent, Command, AgentOf, CommandOf, Row
<1>3. \A t \in Ticks : \A a, s : WaitsFor(t, a, s) => WaitsFor(t, a, s)'
  BY <1>2 DEF WaitsFor
<1>4. WakesTracked'
  BY <1>3 DEF WakesTracked, wakeVars
<1>5. WakersWake'
  BY <1>2 DEF WakersWake
<1>6. WakeIsTransient'
  BY <1>2 DEF WakeIsTransient
<1> QED
  BY <1>1, <1>4, <1>5, <1>6

\* A new row is in nobody's hands.
LEMMA QueueOperatorCommandInv ==
  ASSUME OperatorInv, NEW r \in Rows, NEW a \in Agents, NEW c \in Commands,
         QueueOperatorCommand(r, a, c)
  PROVE  OperatorInv'
<1> USE DEF OperatorInv
<1>1. /\ request[r] = None
      /\ request' = [request EXCEPT ![r] = <<a, c>>]
      /\ file' = Append(file, r)
      /\ UNCHANGED <<drainVars, handle, wakeVars, sessionVars, hostVars>>
  BY DEF QueueOperatorCommand
<1>2. <<a, c>> \in Agents \X Commands
  OBVIOUS
<1>3. file \in Seq(Rows) /\ request \in [Rows -> (Agents \X Commands) \cup {None}]
  BY DEF TypeOK
<1>4. /\ file' \in Seq(Rows)
      /\ request' \in [Rows -> (Agents \X Commands) \cup {None}]
  BY <1>1, <1>2, <1>3
<1>5. TypeOK'
  BY <1>1, <1>4 DEF TypeOK, drainVars, wakeVars, sessionVars, hostVars
<1>6. \A q \in Rows : request[q] # None => request'[q] = request[q]
  BY <1>1, <1>3
<1>7. ASSUME NEW t \in Ticks, stage[t] # "idle"
      PROVE  Agent(t)' = Agent(t) /\ Command(t)' = Command(t)
  <2>1. Row(t) \in Rows /\ request[Row(t)] # None
    BY <1>7, CurrentRow
  <2>2. Row(t)' = Row(t)
    BY <1>1 DEF Row, drainVars
  <2> QED
    BY <1>6, <2>1, <2>2 DEF Agent, Command, AgentOf, CommandOf
<1>8. \A q \in Rows : request[q] # None => request'[q] # None
  BY <1>6
<1>9. request'[r] # None
  BY <1>1, <1>2, <1>3, OperatorAssumption
<1>10. RowsKnown'
  <2>1. \A i \in DOMAIN file' : (i \in DOMAIN file /\ file'[i] = file[i]) \/ file'[i] = r
    BY <1>1, <1>3
  <2>2. \A i \in DOMAIN file : file[i] \in Rows
    BY <1>3
  <2>3. \A i \in DOMAIN file' : request'[file'[i]] # None
    BY <1>8, <1>9, <2>1, <2>2 DEF RowsKnown
  <2>4. \A t \in Ticks : \A i \in DOMAIN batch[t] : batch[t][i] \in Rows
    BY DEF TypeOK
  <2> QED
    BY <1>1, <1>8, <2>3, <2>4 DEF RowsKnown, drainVars
<1>11. \A t \in Ticks : \A b, s : WaitsFor(t, b, s) => WaitsFor(t, b, s)'
  BY <1>1, <1>7 DEF WaitsFor, drainVars
<1>12. WakesTracked'
  BY <1>1, <1>11 DEF WakesTracked, wakeVars
<1>13. WakersWake'
  BY <1>1, <1>7 DEF WakersWake, drainVars
<1>14. WakeIsTransient'
  BY <1>1, <1>7 DEF WakeIsTransient, drainVars
<1> QED
  BY <1>5, <1>10, <1>12, <1>13, <1>14

\* An idle drain reads the file, whose rows are known.
LEMMA TickInv ==
  ASSUME OperatorInv, NEW t \in Ticks, Tick(t)
  PROVE  OperatorInv'
<1> USE DEF OperatorInv
<1>1. TypeOK'
  BY DEF Tick, TypeOK, Stages, wakeVars, sessionVars, hostVars
<1>2. RowsKnown'
  BY DEF Tick, TypeOK, RowsKnown
<1>3. ASSUME NEW u \in Ticks, stage[u] # "idle"
      PROVE  /\ stage'[u] = stage[u]
             /\ \A a, s : WaitsFor(u, a, s) => WaitsFor(u, a, s)'
             /\ Agent(u)' = Agent(u) /\ Command(u)' = Command(u)
  <2>1. u # t /\ stage'[u] = stage[u] /\ batch'[u] = batch[u] /\ used'[u] = used[u]
    BY <1>3 DEF Tick, TypeOK
  <2> QED
    BY <1>3, <2>1, StillWaits DEF Tick
<1>4. stage'[t] = "next"
  BY DEF Tick, TypeOK
<1>5. \A u \in Ticks \ {t} : stage'[u] = stage[u]
  BY DEF Tick, TypeOK
<1>6. WakesTracked'
  BY <1>3 DEF Tick, WakesTracked, WaitsFor, wakeVars
<1>7. WakersWake'
  BY <1>3, <1>4, <1>5 DEF WakersWake
<1>8. WakeIsTransient'
  BY <1>3 DEF Tick, WakeIsTransient
<1> QED
  BY <1>1, <1>2, <1>6, <1>7, <1>8

\* The end of a wake, opened or failed: the others stay on record.
LEMMA WakeIsOverInv ==
  ASSUME OperatorInv, NEW a \in Agents, NEW s \in WakeSessions, WakeOpens(a, s) \/ WakeFails(a, s)
  PROVE  OperatorInv'
<1> USE DEF OperatorInv
<1>1. /\ <<a, s>> \in opening
      /\ opening' = opening \ {<<a, s>>}
      /\ inflight' = IF inflight[a] = s THEN [inflight EXCEPT ![a] = None] ELSE inflight
      /\ UNCHANGED <<file, request, batch, used>>
  BY DEF WakeOpens, WakeFails, WakeIsOver, drainVars
<1>2. s \in Sessions
  BY DEF Sessions
<1>3. TypeOK'
  <2>1. inflight' \in [Agents -> Sessions \cup {None}] /\ opening' \in SUBSET (Agents \X Sessions)
    BY <1>1 DEF TypeOK
  <2>2. /\ stage' \in [Ticks -> Stages]
        /\ handle' \in [Agents -> Sessions \cup {None}]
        /\ open' \in SUBSET Sessions
    BY <1>2 DEF WakeOpens, WakeFails, TypeOK, drainVars, sessionVars, Stages
  <2> QED
    BY <2>1, <2>2 DEF WakeOpens, WakeFails, TypeOK, drainVars, sessionVars, hostVars
<1>4. \A u \in Ticks : Agent(u)' = Agent(u) /\ Command(u)' = Command(u)
  BY <1>1 DEF Agent, Command, AgentOf, CommandOf, Row
<1>5. ASSUME NEW u \in Ticks
      PROVE  /\ stage'[u] = stage[u] \/ (stage[u] = "waking" /\ stage'[u] = "woken")
             /\ used[u] # s => stage'[u] = stage[u]
  BY DEF WakeOpens, WakeFails, drainVars, TypeOK
<1>6. RowsKnown'
  BY <1>1, <1>5 DEF RowsKnown
<1>7. WakesTracked'
  <2>1. ASSUME NEW w \in opening'
        PROVE  /\ inflight'[w[1]] = w[2]
               /\ \E u \in Ticks : WaitsFor(u, w[1], w[2])'
    <3>1. w \in opening /\ w # <<a, s>> /\ w = <<w[1], w[2]>>
      BY <1>1, <2>1 DEF TypeOK
    <3>2. w[2] # s
      BY <1>1, <3>1 DEF WakesTracked
    <3>3. inflight[w[1]] = w[2] /\ inflight[a] = s
      BY <1>1, <3>1 DEF WakesTracked
    <3>4. w[1] # a
      BY <3>2, <3>3
    <3>5. inflight'[w[1]] = w[2]
      BY <1>1, <3>3, <3>4 DEF TypeOK
    <3>6. PICK u \in Ticks : WaitsFor(u, w[1], w[2])
      BY <3>1 DEF WakesTracked
    <3>7. WaitsFor(u, w[1], w[2])'
      BY <1>1, <1>4, <1>5, <3>2, <3>6 DEF WaitsFor
    <3> QED
      BY <3>5, <3>7
  <2> QED
    BY <1>1, <2>1 DEF WakesTracked
<1>8. WakersWake'
  BY <1>4, <1>5 DEF WakersWake
<1>9. WakeIsTransient'
  <2> SUFFICES ASSUME NEW b \in Agents, handle'[b] \in WakeSessions
               PROVE  \E u \in Ticks : /\ stage'[u] \in {"woken", "executing"}
                                       /\ Agent(u)' = b
                                       /\ Command(u)' \in Waking
    BY DEF WakeIsTransient
  <2>1. CASE handle'[b] = handle[b]
    BY <1>4, <1>5, <2>1 DEF WakeIsTransient
  <2>2. CASE handle'[b] # handle[b]
    <3>1. WakeOpens(a, s) /\ b = a
      BY <2>2 DEF WakeOpens, WakeFails, TypeOK
    <3>2. PICK u \in Ticks : WaitsFor(u, a, s)
      BY <1>1 DEF WakesTracked
    <3>3. stage'[u] = "woken"
      BY <3>1, <3>2 DEF WakeOpens, WaitsFor
    <3> QED
      BY <1>4, <3>1, <3>2, <3>3 DEF WaitsFor
  <2> QED
    BY <2>1, <2>2
<1> QED
  BY <1>3, <1>6, <1>7, <1>8, <1>9

LEMMA RunsInv ==
  ASSUME OperatorInv, NEW a \in Agents, RunStarts(a) \/ RunCloses(a) \/ RunReported(a)
  PROVE  OperatorInv'
<1>1. RunSessions \subseteq Sessions /\ RunSessions \cap WakeSessions = {} /\ None \notin WakeSessions
  BY OperatorAssumption DEF Sessions
<1>2. TypeOK
  BY DEF OperatorInv
<1>3. TypeOK'
  BY <1>1, <1>2 DEF RunStarts, RunCloses, RunReported, Unregister, TypeOK, drainVars, wakeVars,
                    sessionVars, hostVars
<1>4. \A b \in Agents : handle'[b] = handle[b] \/ handle'[b] \notin WakeSessions
  BY <1>1, <1>2 DEF RunStarts, RunCloses, RunReported, Unregister, TypeOK
<1> QED
  BY <1>3, <1>4, AsideInv DEF RunStarts, RunCloses, RunReported, drainVars

LEMMA HostInv ==
  ASSUME OperatorInv,
         \/ \E m \in {"normal", "hive"} : ApplyMode(m)
         \/ SessionShutdown \/ SessionStart \/ UNCHANGED vars
  PROVE  OperatorInv'
<1>1. TypeOK
  BY DEF OperatorInv
<1>2. TypeOK' /\ handle' = handle
  BY <1>1 DEF ApplyMode, SessionShutdown, SessionStart, TypeOK, vars, drainVars, wakeVars,
              sessionVars, hostVars
<1> QED
  BY <1>2, AsideInv DEF ApplyMode, SessionShutdown, SessionStart, vars, drainVars

\* The file survives, with rows that were queued; nothing else does.
LEMMA CrashInv ==
  ASSUME OperatorInv, Crash
  PROVE  OperatorInv'
<1> USE DEF OperatorInv, Crash
<1>1. TypeOK'
  <2>1. answered' \in [Rows -> 0..2]
    BY DEF TypeOK
  <2>2. batch' \in [Ticks -> Seq(Rows)]
    OBVIOUS
  <2> QED
    BY <2>1, <2>2 DEF TypeOK, Stages
<1>2. RowsKnown' /\ WakesTracked' /\ WakersWake'
  BY DEF RowsKnown, WakesTracked, WakersWake
<1>3. WakeIsTransient'
  BY OperatorAssumption DEF WakeIsTransient, Sessions
<1> QED
  BY <1>1, <1>2, <1>3

-----------------------------------------------------------------------------
(* The theorems *)

LEMMA InitOperatorInv == Init => OperatorInv
<1> SUFFICES ASSUME Init PROVE OperatorInv
  OBVIOUS
<1> USE DEF Init
<1>1. TypeOK
  BY DEF TypeOK, Stages
<1>2. RowsKnown /\ WakesTracked /\ WakersWake
  BY DEF RowsKnown, WakesTracked, WakersWake
<1>3. WakeIsTransient
  BY OperatorAssumption DEF WakeIsTransient, Sessions
<1> QED
  BY <1>1, <1>2, <1>3 DEF OperatorInv

LEMMA NextOperatorInv == OperatorInv /\ [Next]_vars => OperatorInv'
BY QueueOperatorCommandInv, TickInv, DrainInv, WakeIsOverInv, RunsInv, HostInv, CrashInv DEF Next

\* Drains, wakes and handles agree in every reachable state (operator-pickup.ts,
\* auto-wake.ts).
THEOREM OperatorInvariance == Safety => []OperatorInv
BY InitOperatorInv, NextOperatorInv, PTL DEF Safety

\* The state variables keep their types.
THEOREM OperatorTypeCorrect == Safety => []TypeOK
<1>1. OperatorInv => TypeOK
  BY DEF OperatorInv
<1> QED
  BY <1>1, OperatorInvariance, PTL

\* However many drains ask for the wake of an agent, one factory runs
\* (getOrCreateInflightWake).
THEOREM WakesAreShared == Safety => []OneWakePerAgent
<1>1. OperatorInv => OneWakePerAgent
  <2> SUFFICES ASSUME OperatorInv, NEW v \in opening, NEW w \in opening, v[1] = w[1]
               PROVE  v = w
    BY DEF OneWakePerAgent
  <2>1. v[2] = w[2]
    BY DEF OperatorInv, WakesTracked
  <2> QED
    BY <2>1 DEF OperatorInv, WakesTracked
<1> QED
  BY <1>1, OperatorInvariance, PTL

\* Wake, operate, sleep: no wake stays registered without a drain that will release
\* it, whatever interleaves (the inner finally of invokeRow).
THEOREM WakesAreReleased == Safety => []WakeIsTransient
<1>1. OperatorInv => WakeIsTransient
  BY DEF OperatorInv
<1> QED
  BY <1>1, OperatorInvariance, PTL

\* Wakes are shared while they open and released by somebody afterwards.
THEOREM WakesHaveOwners == Safety => []WakesAreOwned
<1>1. OneWakePerAgent /\ WakeIsTransient => WakesAreOwned
  BY DEF WakesAreOwned
<1> QED
  BY <1>1, WakesAreShared, WakesAreReleased, PTL

-----------------------------------------------------------------------------
(* The file, when polls do not overlap *)

\* Polls do not overlap: one drain at a time, and no row is appended while it works.
SerialDrains == ~Racing /\ \A t, u \in Ticks : t = u

\* A drain has the rest of the file in hand, and the rows before it are answered.
HasRest(t) ==
  /\ Len(batch[t]) <= Len(file)
  /\ \A i \in DOMAIN batch[t] : batch[t][i] = file[Len(file) - Len(batch[t]) + i]
  /\ \A i \in DOMAIN file :
       answered[file[i]] = IF i <= Len(file) - Len(batch[t]) THEN 1 ELSE 0

\* A row is in the file once, and from the time it is queued until all are answered; it
\* is answered as often as a drain has passed it.
FileInv ==
  /\ \A i, j \in DOMAIN file : file[i] = file[j] => i = j
  /\ \A r \in Rows \ RowsOf(file) : answered[r] = IF request[r] = None THEN 0 ELSE 1
  /\ Quiet => \A i \in DOMAIN file : answered[file[i]] = 0
  /\ \A t \in Ticks : stage[t] # "idle" => HasRest(t)

\* The next row of a drain is the first of the file that is not answered.
LEMMA NextRowOfFile ==
  ASSUME TypeOK, RowsKnown, FileInv, NEW t \in Ticks, stage[t] # "idle"
  PROVE  LET p == Len(file) - Len(batch[t]) IN
         /\ p \in Nat /\ p + 1 \in DOMAIN file
         /\ Row(t) = file[p + 1]
         /\ answered[Row(t)] = 0
         /\ \A i \in DOMAIN file : i <= p => answered[file[i]] = 1
<1>1. /\ file \in Seq(Rows) /\ batch[t] \in Seq(Rows) /\ batch[t] # <<>>
      /\ HasRest(t)
  BY DEF TypeOK, RowsKnown, FileInv
<1>2. /\ Len(file) \in Nat /\ Len(batch[t]) \in Nat \ {0} /\ Len(batch[t]) <= Len(file)
      /\ DOMAIN file = 1..Len(file) /\ DOMAIN batch[t] = 1..Len(batch[t])
  BY <1>1 DEF HasRest
<1>3. 1 \in DOMAIN batch[t] /\ Row(t) = batch[t][1]
  BY <1>1, <1>2 DEF Row
<1>4. batch[t][1] = file[Len(file) - Len(batch[t]) + 1]
  BY <1>1, <1>3 DEF HasRest
<1> DEFINE p == Len(file) - Len(batch[t])
<1>5. p \in Nat /\ p + 1 \in DOMAIN file /\ ~(p + 1 <= p)
  BY <1>2
<1>6. \A i \in DOMAIN file : answered[file[i]] = IF i <= p THEN 1 ELSE 0
  BY <1>1 DEF HasRest
<1>7. Row(t) = file[p + 1]
  BY <1>3, <1>4
<1> HIDE DEF p
<1>8. answered[Row(t)] = 0 /\ \A i \in DOMAIN file : i <= p => answered[file[i]] = 1
  BY <1>5, <1>6, <1>7
<1> QED
  BY <1>5, <1>7, <1>8 DEF p

\* An answer moves the mark between the answered rows of the file and the others by one;
\* when it reaches the end, the file goes.
LEMMA AnswerMovesMark ==
  ASSUME SerialDrains, TypeOK, RowsKnown, FileInv, NEW t \in Ticks, stage[t] # "idle", Answer(t),
         request' = request
  PROVE  FileInv'
<1> DEFINE n == Len(file)
           m == Len(batch[t])
           p == n - m
<1>1. /\ file \in Seq(Rows) /\ batch[t] \in Seq(Rows) /\ batch[t] # <<>>
      /\ batch \in [Ticks -> Seq(Rows)] /\ stage \in [Ticks -> Stages]
      /\ answered \in [Rows -> 0..2]
      /\ HasRest(t)
  BY DEF TypeOK, RowsKnown, FileInv
<1>2. /\ n \in Nat /\ m \in Nat \ {0} /\ m <= n /\ p \in Nat /\ p + 1 \in DOMAIN file
      /\ DOMAIN file = 1..n /\ DOMAIN batch[t] = 1..m
      /\ \A i \in DOMAIN file : file[i] \in Rows
  BY <1>1 DEF HasRest
<1>3. Row(t) = file[p + 1] /\ answered[Row(t)] = 0
  BY NextRowOfFile
<1>4. answered' = [answered EXCEPT ![Row(t)] = 1]
  BY <1>1, <1>2, <1>3 DEF Answer
<1>5. \A i \in DOMAIN file : answered'[file[i]] = IF i <= p + 1 THEN 1 ELSE 0
  <2> SUFFICES ASSUME NEW i \in DOMAIN file
               PROVE  answered'[file[i]] = IF i <= p + 1 THEN 1 ELSE 0
    OBVIOUS
  <2>1. CASE i = p + 1
    BY <1>1, <1>2, <1>3, <1>4, <2>1
  <2>2. CASE i # p + 1
    <3>1. file[i] # Row(t)
      BY <1>2, <1>3, <2>2 DEF FileInv
    <3>2. answered'[file[i]] = answered[file[i]]
      BY <1>1, <1>2, <1>4, <3>1
    <3>3. answered[file[i]] = IF i <= p THEN 1 ELSE 0
      BY <1>1 DEF HasRest
    <3> HIDE DEF n, m, p
    <3>4. i \in Nat /\ (i <= p <=> i <= p + 1)
      BY <1>2, <2>2
    <3> QED
      BY <3>2, <3>3, <3>4
  <2> QED
    BY <2>1, <2>2
<1>6. \A r \in Rows \ RowsOf(file) : answered'[r] = answered[r]
  BY <1>1, <1>2, <1>3, <1>4 DEF RowsOf
<1>7. CASE m = 1
  <2>1. file' = <<>> /\ stage' = [stage EXCEPT ![t] = "idle"]
    BY <1>7 DEF Answer
  <2>2. DOMAIN file' = {} /\ RowsOf(file)' = {}
    BY <2>1 DEF RowsOf
  <2>3. ASSUME NEW r \in Rows PROVE answered'[r] = IF request'[r] = None THEN 0 ELSE 1
    <3>1. CASE r \in RowsOf(file)
      <4>1. PICK i \in DOMAIN file : file[i] = r
        BY <3>1 DEF RowsOf
      <4>2. i <= p + 1 /\ request[r] # None
        BY <1>2, <1>7, <4>1 DEF RowsKnown
      <4> QED
        BY <1>5, <4>1, <4>2
    <3>2. CASE r \notin RowsOf(file)
      BY <1>6, <3>2 DEF FileInv
    <3> QED
      BY <3>1, <3>2
  <2>4. \A u \in Ticks : stage'[u] = "idle"
    BY <1>1, <2>1 DEF SerialDrains
  <2> QED
    BY <2>2, <2>3, <2>4 DEF FileInv
<1>8. CASE m # 1
  <2>1. /\ file' = file /\ stage' = [stage EXCEPT ![t] = "next"]
        /\ batch' = [batch EXCEPT ![t] = Tail(batch[t])]
    BY <1>8 DEF Answer
  <2>2. /\ batch'[t] = Tail(batch[t]) /\ stage'[t] = "next"
        /\ Len(Tail(batch[t])) = m - 1
        /\ DOMAIN Tail(batch[t]) = 1..(m - 1)
        /\ \A i \in 1..(m - 1) : Tail(batch[t])[i] = batch[t][i + 1]
    BY <1>1, <1>2, <2>1
  <2>3. HasRest(t)'
    <3>1. Len(batch'[t]) <= Len(file')
      BY <1>2, <2>1, <2>2
    <3>2. ASSUME NEW i \in DOMAIN batch'[t]
          PROVE  batch'[t][i] = file'[Len(file') - Len(batch'[t]) + i]
      <4>1. i \in 1..(m - 1) /\ i + 1 \in DOMAIN batch[t]
        BY <1>2, <2>2
      <4>2. batch[t][i + 1] = file[n - m + (i + 1)]
        BY <1>1, <4>1 DEF HasRest
      <4>3. Len(file') = n /\ Len(batch'[t]) = m - 1
        BY <2>1, <2>2
      <4> HIDE DEF n, m
      <4>4. n - m + (i + 1) = n - (m - 1) + i
        BY <1>2, <4>1
      <4> QED
        BY <2>1, <2>2, <4>1, <4>2, <4>3, <4>4
    <3>3. ASSUME NEW i \in DOMAIN file'
          PROVE  answered'[file'[i]] = IF i <= Len(file') - Len(batch'[t]) THEN 1 ELSE 0
      <4>1. Len(file') - Len(batch'[t]) = p + 1
        <5>1. Len(file') = n /\ Len(batch'[t]) = m - 1
          BY <2>1, <2>2
        <5> HIDE DEF n, m
        <5> QED
          BY <1>2, <5>1
      <4> QED
        BY <1>5, <2>1, <4>1
    <3> QED
      BY <3>1, <3>2, <3>3 DEF HasRest
  <2>4. ~Quiet'
    BY <2>2 DEF Quiet
  <2>5. \A u \in Ticks : u = t
    BY DEF SerialDrains
  <2>6. \A r \in Rows \ RowsOf(file)' : answered'[r] = IF request'[r] = None THEN 0 ELSE 1
    BY <1>6, <2>1 DEF FileInv, RowsOf
  <2>7. \A i, j \in DOMAIN file' : file'[i] = file'[j] => i = j
    BY <2>1 DEF FileInv
  <2> QED
    BY <2>3, <2>4, <2>5, <2>6, <2>7 DEF FileInv
<1> QED
  BY <1>7, <1>8

\* A step between two answers, and one that is no drain's.
LEMMA BetweenAnswers ==
  ASSUME FileInv, UNCHANGED <<file, request, answered, batch>>,
         \A t \in Ticks : stage'[t] = "idle" <=> stage[t] = "idle"
  PROVE  FileInv'
BY DEF FileInv, HasRest, Quiet, RowsOf

LEMMA DrainKeepsFile ==
  ASSUME SerialDrains, TypeOK, RowsKnown, FileInv, NEW t \in Ticks, Drain(t)
  PROVE  FileInv'
<1>1. ASSUME \/ NoHandle(t) \/ NotWoken(t) \/ WakeIsGone(t) \/ Immediate(t) \/ ForceKill(t)
             \/ Settle(t) \/ ForceEndDisposes(t) \/ Respawned(t)
      PROVE  stage[t] # "idle" /\ Answer(t) /\ request' = request
  BY <1>1 DEF NoHandle, NotWoken, WakeIsGone, Immediate, ForceKill, Settle, ForceEndDisposes,
              Respawned, Present
<1>2. ASSUME AskForWake(t) \/ StartAwaited(t) \/ TearDownAll(t)
      PROVE  /\ request' = request
             /\ stage[t] # "idle"
             /\ \/ Answer(t)
                \/ /\ UNCHANGED <<file, answered, batch>>
                   /\ \E s \in Stages \ {"idle"} : stage' = [stage EXCEPT ![t] = s]
  BY <1>2 DEF AskForWake, StartAwaited, TearDownAll, Present, Stages
<1>3. ASSUME stage[t] # "idle", Answer(t), request' = request PROVE FileInv'
  BY <1>3, AnswerMovesMark
<1>4. ASSUME stage[t] # "idle", UNCHANGED <<file, request, answered, batch>>,
             \E s \in Stages \ {"idle"} : stage' = [stage EXCEPT ![t] = s]
      PROVE  FileInv'
  BY <1>4, BetweenAnswers DEF TypeOK
<1> QED
  BY <1>1, <1>2, <1>3, <1>4 DEF Drain

\* A row is appended while no drain is at work.
LEMMA QueueKeepsFile ==
  ASSUME SerialDrains, TypeOK, RowsKnown, FileInv,
         NEW r \in Rows, NEW a \in Agents, NEW c \in Commands, QueueOperatorCommand(r, a, c)
  PROVE  FileInv'
<1>1. /\ request[r] = None /\ Quiet /\ request' = [request EXCEPT ![r] = <<a, c>>]
      /\ file' = Append(file, r) /\ UNCHANGED <<answered, stage, batch>>
  BY DEF QueueOperatorCommand, SerialDrains, drainVars
<1>2. /\ file \in Seq(Rows)
      /\ request \in [Rows -> (Agents \X Commands) \cup {None}]
  BY DEF TypeOK
<1>3. /\ DOMAIN file = 1..Len(file) /\ DOMAIN file' = 1..(Len(file) + 1) /\ Len(file) \in Nat
      /\ \A i \in DOMAIN file : file'[i] = file[i] /\ file[i] \in Rows
      /\ file'[Len(file) + 1] = r
  BY <1>1, <1>2
<1>4. r \notin RowsOf(file)
  BY <1>1 DEF RowsKnown, RowsOf
<1>5. answered[r] = 0
  BY <1>1, <1>4 DEF FileInv
<1>6. \A i, j \in DOMAIN file' : file'[i] = file'[j] => i = j
  BY <1>3, <1>4 DEF FileInv, RowsOf
<1>7. \A q \in Rows \ RowsOf(file)' : q # r /\ q \notin RowsOf(file)
  BY <1>3 DEF RowsOf
<1>8. \A q \in Rows \ RowsOf(file)' : answered'[q] = IF request'[q] = None THEN 0 ELSE 1
  BY <1>1, <1>2, <1>7 DEF FileInv
<1>9. \A i \in DOMAIN file' : answered'[file'[i]] = 0
  <2>1. \A i \in DOMAIN file : answered[file[i]] = 0
    BY <1>1 DEF FileInv
  <2> QED
    BY <1>1, <1>3, <1>5, <2>1
<1>10. \A t \in Ticks : stage'[t] = "idle"
  BY <1>1 DEF Quiet
<1> QED
  BY <1>6, <1>8, <1>9, <1>10 DEF FileInv

\* The drain reads the whole file.
LEMMA TickKeepsFile ==
  ASSUME SerialDrains, TypeOK, FileInv, NEW t \in Ticks, Tick(t)
  PROVE  FileInv'
<1>1. /\ stage[t] = "idle" /\ stage' = [stage EXCEPT ![t] = "next"]
      /\ batch' = [batch EXCEPT ![t] = file] /\ UNCHANGED <<file, request, answered>>
  BY DEF Tick
<1>2. Quiet
  BY <1>1 DEF Quiet, SerialDrains
<1>3. batch'[t] = file /\ stage'[t] = "next" /\ file \in Seq(Rows)
  BY <1>1 DEF TypeOK
<1>4. HasRest(t)'
  BY <1>1, <1>2, <1>3 DEF HasRest, FileInv
<1>5. ~Quiet' /\ \A u \in Ticks : u = t
  BY <1>3 DEF Quiet, SerialDrains
<1> QED
  BY <1>1, <1>4, <1>5 DEF FileInv, RowsOf

\* The rows that survive the process are new to the next one.
LEMMA CrashKeepsFile ==
  ASSUME TypeOK, FileInv, Crash
  PROVE  FileInv'
<1>1. \A i \in DOMAIN file : file[i] \in Rows
  BY DEF TypeOK
<1> QED
  BY <1>1 DEF Crash, FileInv, RowsOf

LEMMA NextKeepsFile ==
  ASSUME SerialDrains, OperatorInv, FileInv, [Next]_vars
  PROVE  FileInv'
<1> USE DEF OperatorInv
<1>1. ASSUME NEW a \in Agents, NEW s \in WakeSessions, WakeOpens(a, s) \/ WakeFails(a, s)
      PROVE  FileInv'
  BY <1>1, BetweenAnswers DEF WakeOpens, WakeFails, drainVars, TypeOK
<1>2. ASSUME \/ \E a \in Agents : RunStarts(a) \/ RunCloses(a) \/ RunReported(a)
             \/ \E m \in {"normal", "hive"} : ApplyMode(m)
             \/ SessionShutdown \/ SessionStart \/ UNCHANGED vars
      PROVE  FileInv'
  BY <1>2, BetweenAnswers DEF RunStarts, RunCloses, RunReported, ApplyMode, SessionShutdown,
                              SessionStart, vars, drainVars
<1> QED
  BY <1>1, <1>2, DrainKeepsFile, QueueKeepsFile, TickKeepsFile, CrashKeepsFile DEF Next

\* When polls do not overlap, the file and the drain agree in every reachable state.
THEOREM FileInvariance == ASSUME SerialDrains PROVE Safety => []FileInv
<1>1. Init => FileInv
  BY DEF Init, FileInv, RowsOf
<1>2. OperatorInv /\ FileInv /\ [Next]_vars => FileInv'
  BY NextKeepsFile
<1> QED
  BY <1>1, <1>2, OperatorInvariance, PTL DEF Safety

\* When polls do not overlap, no command is lost and none is invoked twice by one process,
\* whatever the commands are, whoever is woken and wherever the process dies
\* (operator-pickup.ts, tick).
THEOREM RowsAreAnswered == ASSUME SerialDrains PROVE Safety => []RowsAnsweredOnce
<1>1. OperatorInv /\ FileInv => RowsAnsweredOnce
  <2> SUFFICES ASSUME TypeOK, FileInv PROVE RowsAnsweredOnce
    BY DEF OperatorInv
  <2>1. ASSUME NEW r \in Rows PROVE answered[r] <= 1
    <3>1. CASE r \in RowsOf(file)
      <4>1. PICK i \in DOMAIN file : file[i] = r
        BY <3>1 DEF RowsOf
      <4>2. answered[r] \in {0, 1}
        BY <4>1 DEF FileInv, Quiet, HasRest
      <4> QED
        BY <4>2
    <3>2. CASE r \notin RowsOf(file)
      BY <3>2 DEF FileInv
    <3> QED
      BY <3>1, <3>2
  <2>2. RowAccounted
    BY DEF FileInv, RowAccounted, Asked
  <2> QED
    BY <2>1, <2>2 DEF RowsAnsweredOnce, InvokedOnce
<1> QED
  BY <1>1, FileInvariance, OperatorInvariance, PTL

\* When polls do not overlap, commands are answered in the order in which they were
\* queued, a crash between two of them included.
THEOREM RowsAnsweredInOrder == ASSUME SerialDrains PROVE Safety => InFileOrder
<1> DEFINE InOrder ==
      \A r \in Rows : answered[r] = 0 /\ answered'[r] > 0 =>
        \A i, j \in DOMAIN file : file[j] = r /\ i < j => answered[file[i]] > 0
<1>1. OperatorInv /\ FileInv /\ [Next]_vars => [InOrder]_vars
  <2> SUFFICES ASSUME TypeOK, RowsKnown, FileInv, Next,
                      NEW r \in Rows, answered[r] = 0, answered'[r] > 0,
                      NEW i \in DOMAIN file, NEW j \in DOMAIN file, file[j] = r, i < j
               PROVE  answered[file[i]] > 0
    BY DEF OperatorInv
  <2>1. answered' # answered
    OBVIOUS
  <2>2. ~Crash
    BY DEF Crash, RowsOf
  <2>3. \E t \in Ticks : stage[t] # "idle" /\ Answer(t)
    BY <2>1, <2>2 DEF Next, QueueOperatorCommand, Tick, Drain, NoHandle, AskForWake, NotWoken,
         WakeIsGone, Immediate, ForceKill, StartAwaited, TearDownAll, Settle, ForceEndDisposes,
         Respawned, Present, WakeOpens, WakeFails, RunStarts, RunCloses, RunReported, ApplyMode,
         SessionShutdown, SessionStart, drainVars
  <2>4. PICK t \in Ticks : stage[t] # "idle" /\ Answer(t)
    BY <2>3
  <2>5. r = Row(t)
    BY <2>4 DEF Answer, TypeOK
  <2> DEFINE p == Len(file) - Len(batch[t])
  <2>6. /\ p \in Nat /\ p + 1 \in DOMAIN file /\ Row(t) = file[p + 1]
        /\ \A k \in DOMAIN file : k <= p => answered[file[k]] = 1
    BY <2>4, NextRowOfFile
  <2> HIDE DEF p
  <2>7. j = p + 1
    BY <2>5, <2>6 DEF FileInv
  <2>8. i \in Nat
    BY DEF TypeOK
  <2>9. i <= p
    BY <2>6, <2>7, <2>8
  <2> QED
    BY <2>6, <2>9
<1> QED
  BY <1>1, FileInvariance, OperatorInvariance, PTL DEF Safety, InFileOrder

-----------------------------------------------------------------------------
(* Handles and sessions *)

\* What agent a has to do with session s: its handle, its run, its wake, or a drain that
\* acts on it.
Refers(a, s) ==
  \/ handle[a] = s
  \/ run[a] = s
  \/ <<a, s>> \in opening
  \/ \E t \in Ticks : stage[t] \notin {"idle", "next"} /\ Agent(t) = a /\ used[t] = s

\* A session is referred to on behalf of one agent.
SessionsHaveAgent ==
  \A a, b \in Agents, s \in Sessions : Refers(a, s) /\ Refers(b, s) => a = b

\* A drain that has not begun with its row holds no session, and the wake inflightWakes
\* names is in progress.
ReferencesKnown ==
  /\ \A t \in Ticks : stage[t] \in {"idle", "next"} => used[t] = None
  /\ \A a \in Agents : inflight[a] # None => <<a, inflight[a]>> \in opening

\* A handle names an open session or that of a run on its way out.
HandlesOpenOrClosing ==
  \A a \in Agents : handle[a] \in open \cup {None} \/ (a \in closing /\ run[a] = handle[a])

HandleInv == ReferencesKnown /\ SessionsHaveAgent /\ HandlesOpenOrClosing

\* No command replaces a session under its handle, and the host's session is not shut down
\* under those that run.
NothingReplaced == "respawn" \notin Commands /\ "session" \notin Operator

\* A step that makes no new reference leaves every session with its agent.
LEMMA NoNewReference ==
  ASSUME SessionsHaveAgent,
         \A a \in Agents, s \in Sessions : Refers(a, s)' => Refers(a, s)
  PROVE  SessionsHaveAgent'
BY DEF SessionsHaveAgent

\* A session nothing refers to may be given to an agent.
LEMMA NewReference ==
  ASSUME SessionsHaveAgent, NEW b \in Agents, NEW n \in Sessions, Unreferenced(n),
         \A a \in Agents, s \in Sessions : Refers(a, s)' => Refers(a, s) \/ (a = b /\ s = n)
  PROVE  SessionsHaveAgent'
<1>1. \A a \in Agents : ~Refers(a, n)
  BY DEF Refers, Unreferenced
<1> QED
  BY <1>1 DEF SessionsHaveAgent

\* An answer lets go of the session the command was for.
LEMMA AnswerLetsGo ==
  ASSUME OperatorInv, ReferencesKnown, NEW t \in Ticks, stage[t] # "idle", Answer(t),
         UNCHANGED <<request, wakeVars, run>>,
         handle' = handle \/ handle' = [handle EXCEPT ![Agent(t)] = None]
  PROVE  /\ ReferencesKnown'
         /\ \A a \in Agents, s \in Sessions : Refers(a, s)' => Refers(a, s)
<1>1. TypeOK /\ RowsKnown
  BY DEF OperatorInv
<1>2. /\ stage'[t] \in {"idle", "next"}
      /\ \A u \in Ticks \ {t} :
           stage'[u] = stage[u] /\ batch'[u] = batch[u] /\ used'[u] = used[u]
  BY <1>1, AnswerEffect
<1>3. used'[t] = None
  BY <1>1 DEF Answer, TypeOK
<1>4. \A u \in Ticks \ {t} : stage[u] # "idle" => Agent(u)' = Agent(u)
  BY <1>1, <1>2, SameRow
<1>5. ReferencesKnown'
  BY <1>2, <1>3 DEF ReferencesKnown, wakeVars
<1>6. ASSUME NEW a \in Agents, NEW s \in Sessions, Refers(a, s)' PROVE Refers(a, s)
  <2>1. handle'[a] = s => handle[a] = s
    BY <1>1, OperatorAssumption DEF TypeOK
  <2>2. ASSUME NEW u \in Ticks, stage'[u] \notin {"idle", "next"}, Agent(u)' = a, used'[u] = s
        PROVE  stage[u] \notin {"idle", "next"} /\ Agent(u) = a /\ used[u] = s
    BY <1>2, <1>4, <2>2
  <2> QED
    BY <1>6, <2>1, <2>2 DEF Refers, wakeVars
<1> QED
  BY <1>5, <1>6

\* A command that is answered disposes at most the session it was for, whose handle it
\* takes away.
LEMMA AnsweringKeepsHandles ==
  ASSUME NothingReplaced, OperatorInv, HandleInv, NEW t \in Ticks,
         \/ NoHandle(t) \/ NotWoken(t) \/ WakeIsGone(t)
         \/ Immediate(t) \/ ForceKill(t) \/ Settle(t) \/ ForceEndDisposes(t) \/ Respawned(t)
  PROVE  HandleInv'
<1>1. stage[t] # "idle" /\ Answer(t) /\ UNCHANGED <<request, wakeVars, run, closing>>
  BY DEF NoHandle, NotWoken, WakeIsGone, Immediate, ForceKill, Settle, ForceEndDisposes,
         Respawned, Present, sessionVars
<1>2. TypeOK /\ RowsKnown
  BY DEF OperatorInv
<1>3. Agent(t) \in Agents /\ Command(t) \in Commands
  BY <1>1, <1>2, CurrentRow
<1>4. ~Respawned(t)
  BY <1>3 DEF Respawned, NothingReplaced
<1>5. handle' = handle \/ handle' = [handle EXCEPT ![Agent(t)] = None]
  BY <1>4 DEF NoHandle, NotWoken, WakeIsGone, Immediate, ForceKill, Settle, ForceEndDisposes,
              Release, Unregister
<1>6. ReferencesKnown' /\ SessionsHaveAgent'
  BY <1>1, <1>5, AnswerLetsGo, NoNewReference DEF HandleInv
<1>7. HandlesOpenOrClosing'
  <2>1. CASE open' = open
    BY <1>1, <1>2, <1>3, <1>5, <2>1 DEF HandleInv, HandlesOpenOrClosing, TypeOK
  <2>2. CASE open' # open
    <3>1. PICK s \in Sessions \cup {None} :
            /\ open' = open \ {s}
            /\ handle' = [handle EXCEPT ![Agent(t)] = None]
            /\ s # None => Refers(Agent(t), s)
      <4>1. CASE ForceKill(t)
        BY <1>2, <1>3, <4>1 DEF ForceKill, Unregister, Refers, TypeOK
      <4>2. CASE ForceEndDisposes(t)
        BY <1>2, <1>3, <4>2 DEF ForceEndDisposes, Unregister, Refers, TypeOK
      <4> QED
        BY <1>4, <2>2, <4>1, <4>2 DEF NoHandle, NotWoken, WakeIsGone, Immediate, Settle,
                                      sessionVars
    <3>2. ASSUME NEW b \in Agents, b # Agent(t) PROVE handle[b] # s \/ s = None
      <4>1. handle[b] = s => Refers(b, s)
        BY DEF Refers
      <4> QED
        BY <1>3, <3>1, <3>2, <4>1 DEF HandleInv, SessionsHaveAgent
    <3>3. handle'[Agent(t)] = None /\ \A b \in Agents \ {Agent(t)} : handle'[b] = handle[b]
      BY <1>2, <1>3, <3>1 DEF TypeOK
    <3>4. None \notin open
      BY <1>2, OperatorAssumption DEF TypeOK
    <3> QED
      BY <1>1, <3>1, <3>2, <3>3, <3>4 DEF HandleInv, HandlesOpenOrClosing
  <2> QED
    BY <2>1, <2>2
<1> QED
  BY <1>6, <1>7 DEF HandleInv

\* A wake reopens a session nothing refers to, or the one its agent is being woken into.
LEMMA AskForWakeKeepsHandles ==
  ASSUME OperatorInv, HandleInv, NEW t \in Ticks, AskForWake(t)
  PROVE  HandleInv'
<1> DEFINE a == Agent(t)
<1>1. TypeOK /\ RowsKnown
  BY DEF OperatorInv
<1>2. /\ stage[t] = "next" /\ GetOrCreateInflightWake(a)
      /\ used' = [used EXCEPT ![t] = inflight'[a]]
      /\ stage' = [stage EXCEPT ![t] = "waking"]
      /\ UNCHANGED <<request, batch, handle, run, closing>>
  BY DEF AskForWake
<1>3. a \in Agents
  BY <1>1, <1>2, CurrentRow
<1>4. \A u \in Ticks : Agent(u)' = Agent(u)
  BY <1>2 DEF Agent, AgentOf, Row
<1>5. /\ used'[t] = inflight'[a] /\ stage'[t] = "waking"
      /\ \A u \in Ticks \ {t} : stage'[u] = stage[u] /\ used'[u] = used[u]
  BY <1>1, <1>2 DEF TypeOK
<1> HIDE DEF a
<1>6. CASE inflight[a] # None
  <2>1. UNCHANGED <<open, inflight, opening>>
    BY <1>2, <1>6 DEF GetOrCreateInflightWake
  <2>2. <<a, inflight[a]>> \in opening
    BY <1>3, <1>6 DEF HandleInv, ReferencesKnown
  <2>3. ASSUME NEW b \in Agents, NEW s \in Sessions, Refers(b, s)' PROVE Refers(b, s)
    <3>1. CASE Agent(t)' = b /\ used'[t] = s
      BY <1>4, <1>5, <2>1, <2>2, <3>1 DEF Refers, a
    <3>2. CASE ~(Agent(t)' = b /\ used'[t] = s)
      BY <1>2, <1>4, <1>5, <2>1, <2>3, <3>2 DEF Refers
    <3> QED
      BY <3>1, <3>2
  <2>4. SessionsHaveAgent'
    BY <2>3, NoNewReference DEF HandleInv
  <2>5. ReferencesKnown'
    BY <1>5, <2>1 DEF HandleInv, ReferencesKnown
  <2>6. HandlesOpenOrClosing'
    BY <1>2, <2>1 DEF HandleInv, HandlesOpenOrClosing
  <2> QED
    BY <2>4, <2>5, <2>6 DEF HandleInv
<1>7. CASE inflight[a] = None
  <2>1. PICK n \in WakeSessions : /\ Unreferenced(n)
                                  /\ open' = open \ {n}
                                  /\ inflight' = [inflight EXCEPT ![a] = n]
                                  /\ opening' = opening \cup {<<a, n>>}
    BY <1>2, <1>7 DEF GetOrCreateInflightWake
  <2>2. n \in Sessions /\ inflight'[a] = n /\ \A b \in Agents \ {a} : inflight'[b] = inflight[b]
    BY <1>1, <1>3, <2>1 DEF Sessions, TypeOK
  <2>3. ASSUME NEW b \in Agents, NEW s \in Sessions, Refers(b, s)'
        PROVE  Refers(b, s) \/ (b = a /\ s = n)
    <3>1. CASE Agent(t)' = b /\ used'[t] = s
      BY <1>4, <1>5, <2>2, <3>1 DEF a
    <3>2. CASE ~(Agent(t)' = b /\ used'[t] = s)
      BY <1>2, <1>4, <1>5, <2>1, <2>3, <3>2 DEF Refers
    <3> QED
      BY <3>1, <3>2
  <2>4. SessionsHaveAgent'
    BY <1>3, <2>1, <2>2, <2>3, NewReference DEF HandleInv
  <2>5. ReferencesKnown'
    BY <1>5, <2>1, <2>2 DEF HandleInv, ReferencesKnown
  <2>6. HandlesOpenOrClosing'
    BY <1>2, <2>1 DEF HandleInv, HandlesOpenOrClosing, Unreferenced
  <2> QED
    BY <2>4, <2>5, <2>6 DEF HandleInv
<1> QED
  BY <1>6, <1>7

\* An awaited command takes the session its agent's handle names.
LEMMA ExecutingKeepsHandles ==
  ASSUME OperatorInv, HandleInv, NEW t \in Ticks, stage[t] \in {"next", "woken"},
         stage' = [stage EXCEPT ![t] = "executing"],
         used' = [used EXCEPT ![t] = handle[Agent(t)]] \/ (used' = used /\ stage[t] = "next"),
         UNCHANGED <<request, batch, handle, wakeVars, run, closing, open>>
  PROVE  HandleInv'
<1>1. TypeOK /\ RowsKnown
  BY DEF OperatorInv
<1>2. \A u \in Ticks : Agent(u)' = Agent(u)
  BY DEF Agent, AgentOf, Row
<1>3. stage'[t] = "executing" /\ \A u \in Ticks \ {t} : stage'[u] = stage[u] /\ used'[u] = used[u]
  BY <1>1 DEF TypeOK
<1>4. used'[t] = handle[Agent(t)] \/ used'[t] = None
  BY <1>1 DEF TypeOK, HandleInv, ReferencesKnown
<1>5. ASSUME NEW b \in Agents, NEW s \in Sessions, Refers(b, s)' PROVE Refers(b, s)
  <2>1. CASE Agent(t)' = b /\ used'[t] = s
    BY <1>2, <1>4, <2>1, OperatorAssumption DEF Refers
  <2>2. CASE ~(Agent(t)' = b /\ used'[t] = s)
    BY <1>2, <1>3, <1>5, <2>2 DEF Refers, wakeVars
  <2> QED
    BY <2>1, <2>2
<1>6. SessionsHaveAgent'
  BY <1>5, NoNewReference DEF HandleInv
<1>7. ReferencesKnown'
  BY <1>3 DEF HandleInv, ReferencesKnown, wakeVars
<1>8. HandlesOpenOrClosing'
  BY DEF HandleInv, HandlesOpenOrClosing
<1> QED
  BY <1>6, <1>7, <1>8 DEF HandleInv

LEMMA DrainKeepsHandles ==
  ASSUME NothingReplaced, OperatorInv, HandleInv, NEW t \in Ticks, Drain(t)
  PROVE  HandleInv'
<1>1. CASE AskForWake(t)
  BY <1>1, AskForWakeKeepsHandles
<1>2. CASE StartAwaited(t)
  <2>1. Command(t) \in Commands
    BY <1>2, CurrentRow DEF StartAwaited, Present, OperatorInv
  <2>2. UNCHANGED open
    BY <1>2, <2>1 DEF StartAwaited, NothingReplaced
  <2> QED
    BY <1>2, <2>2, ExecutingKeepsHandles DEF StartAwaited, Present
<1>3. CASE TearDownAll(t) /\ ~Answer(t)
  BY <1>3, ExecutingKeepsHandles DEF TearDownAll, sessionVars
<1>4. CASE TearDownAll(t) /\ Answer(t)
  <2>1. ReferencesKnown' /\ SessionsHaveAgent'
    BY <1>4, AnswerLetsGo, NoNewReference DEF TearDownAll, sessionVars, HandleInv
  <2>2. HandlesOpenOrClosing'
    BY <1>4 DEF TearDownAll, sessionVars, HandleInv, HandlesOpenOrClosing
  <2> QED
    BY <2>1, <2>2 DEF HandleInv
<1> QED
  BY <1>1, <1>2, <1>3, <1>4, AnsweringKeepsHandles DEF Drain

\* A drain that begins holds no session, and a request changes no drain's.
LEMMA QueueKeepsHandles ==
  ASSUME OperatorInv, HandleInv,
         \/ \E t \in Ticks : Tick(t)
         \/ \E r \in Rows, a \in Agents, c \in Commands : QueueOperatorCommand(r, a, c)
  PROVE  HandleInv'
<1>1. TypeOK /\ RowsKnown
  BY DEF OperatorInv
<1>2. /\ UNCHANGED <<handle, used, wakeVars, sessionVars>>
      /\ \A u \in Ticks : stage'[u] = stage[u] \/ (stage[u] = "idle" /\ stage'[u] = "next")
  BY <1>1 DEF Tick, QueueOperatorCommand, drainVars, TypeOK
<1>3. ASSUME NEW u \in Ticks, stage'[u] \notin {"idle", "next"} PROVE Agent(u)' = Agent(u)
  <2>1. Row(u) \in Rows /\ request[Row(u)] # None
    BY <1>1, <1>2, <1>3, CurrentRow
  <2>2. batch'[u] = batch[u] /\ request'[Row(u)] = request[Row(u)]
    BY <1>1, <1>2, <1>3, <2>1 DEF Tick, QueueOperatorCommand, drainVars, TypeOK
  <2> QED
    BY <2>2 DEF Agent, AgentOf, Row
<1>4. \A a \in Agents, s \in Sessions : Refers(a, s)' => Refers(a, s)
  BY <1>2, <1>3 DEF Refers, wakeVars, sessionVars
<1>5. SessionsHaveAgent'
  BY <1>4, NoNewReference DEF HandleInv
<1>6. ReferencesKnown' /\ HandlesOpenOrClosing'
  BY <1>2 DEF HandleInv, ReferencesKnown, HandlesOpenOrClosing, wakeVars, sessionVars
<1> QED
  BY <1>5, <1>6 DEF HandleInv

\* A wake that opens registers the session it was for.
LEMMA WakeKeepsHandles ==
  ASSUME OperatorInv, HandleInv, NEW a \in Agents, NEW s \in WakeSessions,
         WakeOpens(a, s) \/ WakeFails(a, s)
  PROVE  HandleInv'
<1>1. TypeOK /\ s \in Sessions
  BY DEF OperatorInv, Sessions
<1>2. /\ <<a, s>> \in opening /\ opening' = opening \ {<<a, s>>}
      /\ inflight' = IF inflight[a] = s THEN [inflight EXCEPT ![a] = None] ELSE inflight
      /\ UNCHANGED <<request, batch, used, run, closing>>
      /\ \A u \in Ticks : stage'[u] = stage[u] \/ (stage[u] = "waking" /\ stage'[u] = "woken")
      /\ \/ handle' = handle /\ open' = open
         \/ handle' = [handle EXCEPT ![a] = s] /\ open' = open \cup {s}
  BY <1>1 DEF WakeOpens, WakeFails, WakeIsOver, drainVars, sessionVars, TypeOK
<1>3. \A u \in Ticks : Agent(u)' = Agent(u)
  BY <1>2 DEF Agent, AgentOf, Row
<1>4. \A b \in Agents : handle'[b] = handle[b] \/ (b = a /\ handle'[b] = s /\ s \in open')
  BY <1>1, <1>2 DEF TypeOK
<1>5. \A b \in Agents, r \in Sessions : Refers(b, r)' => Refers(b, r)
  BY <1>2, <1>3, <1>4 DEF Refers
<1>6. SessionsHaveAgent'
  BY <1>5, NoNewReference DEF HandleInv
<1>7. ReferencesKnown'
  <2>1. \A b \in Agents : inflight'[b] # None => inflight'[b] = inflight[b] /\ (b = a => inflight[b] # s)
    BY <1>1, <1>2 DEF TypeOK
  <2> QED
    BY <1>2, <2>1 DEF HandleInv, ReferencesKnown
<1>8. HandlesOpenOrClosing'
  BY <1>2, <1>4 DEF HandleInv, HandlesOpenOrClosing
<1> QED
  BY <1>6, <1>7, <1>8 DEF HandleInv

\* A run registers a session nothing refers to; while it goes, its handle is its own.
LEMMA RunsKeepHandles ==
  ASSUME OperatorInv, HandleInv, NEW a \in Agents, RunStarts(a) \/ RunCloses(a) \/ RunReported(a)
  PROVE  HandleInv'
<1>1. TypeOK
  BY DEF OperatorInv
<1>2. UNCHANGED <<request, stage, batch, used, inflight, opening>>
  BY DEF RunStarts, RunCloses, RunReported, drainVars, wakeVars
<1>3. \A u \in Ticks : Agent(u)' = Agent(u)
  BY <1>2 DEF Agent, AgentOf, Row
<1>4. ReferencesKnown'
  BY <1>2 DEF HandleInv, ReferencesKnown
<1>5. CASE RunStarts(a)
  <2>1. PICK s \in RunSessions : /\ Unreferenced(s)
                                 /\ open' = open \cup {s}
                                 /\ run' = [run EXCEPT ![a] = s]
                                 /\ handle' = [handle EXCEPT ![a] = s]
                                 /\ run[a] = None /\ closing' = closing
    BY <1>5 DEF RunStarts
  <2>2. s \in Sessions
    BY DEF Sessions
  <2>3. /\ handle'[a] = s /\ run'[a] = s
        /\ \A b \in Agents \ {a} : handle'[b] = handle[b] /\ run'[b] = run[b]
    BY <1>1, <2>1 DEF TypeOK
  <2>4. \A b \in Agents, r \in Sessions : Refers(b, r)' => Refers(b, r) \/ (b = a /\ r = s)
    BY <1>2, <1>3, <2>3 DEF Refers
  <2>5. SessionsHaveAgent'
    BY <2>1, <2>2, <2>4, NewReference DEF HandleInv
  <2>6. HandlesOpenOrClosing'
    BY <2>1, <2>3 DEF HandleInv, HandlesOpenOrClosing
  <2> QED
    BY <1>4, <2>5, <2>6 DEF HandleInv
<1>6. CASE RunCloses(a)
  <2>1. /\ run[a] # None /\ closing' = closing \cup {a} /\ open' = open \ {run[a]}
        /\ UNCHANGED <<handle, run>>
    BY <1>6 DEF RunCloses
  <2>2. run[a] \in Sessions
    BY <1>1, <2>1 DEF TypeOK
  <2>3. \A b \in Agents, r \in Sessions : Refers(b, r)' => Refers(b, r)
    BY <1>2, <1>3, <2>1 DEF Refers
  <2>4. SessionsHaveAgent'
    BY <2>3, NoNewReference DEF HandleInv
  <2>5. \A b \in Agents : handle[b] = run[a] => b = a
    BY <2>2 DEF HandleInv, SessionsHaveAgent, Refers
  <2>6. HandlesOpenOrClosing'
    BY <2>1, <2>5 DEF HandleInv, HandlesOpenOrClosing
  <2> QED
    BY <1>4, <2>4, <2>6 DEF HandleInv
<1>7. CASE RunReported(a)
  <2>1. /\ closing' = closing \ {a} /\ open' = open
        /\ run' = [run EXCEPT ![a] = None] /\ handle' = [handle EXCEPT ![a] = None]
    BY <1>7 DEF RunReported, Unregister
  <2>2. /\ handle'[a] = None /\ run'[a] = None
        /\ \A b \in Agents \ {a} : handle'[b] = handle[b] /\ run'[b] = run[b]
    BY <1>1, <2>1 DEF TypeOK
  <2>3. \A b \in Agents, r \in Sessions : Refers(b, r)' => Refers(b, r)
    BY <1>2, <1>3, <2>2, OperatorAssumption DEF Refers
  <2>4. SessionsHaveAgent'
    BY <2>3, NoNewReference DEF HandleInv
  <2>5. HandlesOpenOrClosing'
    BY <2>1, <2>2 DEF HandleInv, HandlesOpenOrClosing
  <2> QED
    BY <1>4, <2>4, <2>5 DEF HandleInv
<1> QED
  BY <1>5, <1>6, <1>7

LEMMA HostKeepsHandles ==
  ASSUME NothingReplaced, OperatorInv, HandleInv,
         \/ \E m \in {"normal", "hive"} : ApplyMode(m)
         \/ SessionShutdown \/ SessionStart \/ UNCHANGED vars
  PROVE  HandleInv'
<1>1. UNCHANGED <<request, stage, batch, used, inflight, opening, handle, run, closing, open>>
  BY DEF ApplyMode, SessionShutdown, SessionStart, NothingReplaced, vars, drainVars, wakeVars,
         sessionVars
<1>2. \A u \in Ticks : Agent(u)' = Agent(u)
  BY <1>1 DEF Agent, AgentOf, Row
<1>3. \A b \in Agents, r \in Sessions : Refers(b, r)' => Refers(b, r)
  BY <1>1, <1>2 DEF Refers
<1>4. SessionsHaveAgent'
  BY <1>3, NoNewReference DEF HandleInv
<1> QED
  BY <1>1, <1>4 DEF HandleInv, ReferencesKnown, HandlesOpenOrClosing

\* Nothing is referred to when a process starts.
LEMMA StartHandles ==
  /\ Init => HandleInv
  /\ Crash => HandleInv'
<1>1. ASSUME Init PROVE HandleInv
  BY <1>1, OperatorAssumption DEF Init, HandleInv, ReferencesKnown, HandlesOpenOrClosing,
     SessionsHaveAgent, Refers
<1>2. ASSUME Crash PROVE HandleInv'
  BY <1>2, OperatorAssumption DEF Crash, HandleInv, ReferencesKnown, HandlesOpenOrClosing,
     SessionsHaveAgent, Refers
<1> QED
  BY <1>1, <1>2

LEMMA NextKeepsHandles ==
  ASSUME NothingReplaced, OperatorInv, HandleInv, [Next]_vars
  PROVE  HandleInv'
BY DrainKeepsHandles, QueueKeepsHandles, WakeKeepsHandles, RunsKeepHandles, HostKeepsHandles,
   StartHandles DEF Next

\* As long as no command replaces a session and the host's session stays, whatever drains,
\* wakes, runs and crashes interleave, every handle a command can reach names an open
\* session or that of a run on its way out: the sessions of forced ends and kills are out
\* of reach (worker-tools.ts, forceEndWorker and forceKillWorker).
THEOREM HandlesStayOpen == ASSUME NothingReplaced PROVE Safety => []HandlesAreOpen
<1>1. Init => HandleInv
  BY StartHandles
<1>2. OperatorInv /\ HandleInv /\ [Next]_vars => HandleInv'
  BY NextKeepsHandles
<1>3. HandleInv => HandlesAreOpen
  BY DEF HandleInv, HandlesOpenOrClosing, HandlesAreOpen
<1> QED
  BY <1>1, <1>2, <1>3, OperatorInvariance, PTL DEF Safety

=============================================================================
