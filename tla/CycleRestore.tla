---------------------------- MODULE CycleRestore ----------------------------
(* Leaving hive or plan mode collapses the conversation of the cycle: applyMode
   (ui/tui/widget.ts) remembers the leaf of the session tree at entry, asks for a
   summary at exit, and agent_settled (engine/mode-switch-restore.ts) hangs the summary
   below that leaf and moves there.  The handler waits twice in each of its two attempts,
   and an attempt may fail after it has changed the tree; turns, mode switches and the
   end of the session go on meanwhile.                                       *)
EXTENDS Integers, Sequences, FiniteSets

CONSTANTS
  MaxExits,  \* bound on the exits
  MaxLeaf    \* bound on the entries of the session tree when the user prompts

ASSUME CycleAssumption == {MaxExits, MaxLeaf} \subseteq Nat

VARIABLES
  mode,     \* state.mode: normal, or plan or hive, whichever
  entries,  \* of the session tree: the entry they hang from, and the attempt and exit whose
            \* summary they are, if they are one
  leaf,     \* the entry the conversation goes on from, or 0
  snapshot, \* hiveCycleSnapshotLeafId, or 0
  pending,  \* pendingHiveCycleRestore; what the summary says is left out
  commandCtx,
  turns,    \* turns of the agent that run or are queued
  jobs,     \* handlers of agent_settled that wait: for an idle agent, or at a summary
  begun,    \* history: the entries there were when plan or hive mode was entered,
  exits,    \* history: and of each exit, when its mode was entered
  restored, \* history: the summaries whose restore was reported a success
  cut       \* history: the session has ended in the turn that was to settle what is pending

sessionVars == <<entries, leaf>>
historyVars == <<begun, exits, restored>>
cycleVars == <<mode, sessionVars, snapshot, pending, commandCtx, turns, jobs, historyVars, cut>>

NoPending == [exit |-> 0, leaf |-> 0, handed |-> FALSE]
Entry(up) == [up |-> up, exit |-> 0, attempt |-> 0]
Summaries == {s \in 1 .. Len(entries) : entries[s].exit # 0}

CycleInit ==
  /\ entries \in {<<>>, <<Entry(0)>>} /\ leaf = Len(entries)
  /\ mode = "normal" /\ snapshot = 0 /\ pending = NoPending /\ commandCtx = FALSE
  /\ turns = 0 /\ jobs = {} /\ begun = 0 /\ exits = <<>> /\ restored = {} /\ cut = FALSE

\* Into plan or hive mode, from either other mode: the leaf is taken anew.
EnterCycle ==
  /\ mode' = "cycle" /\ snapshot' = leaf /\ begun' = Len(entries)
  /\ UNCHANGED <<sessionVars, pending, turns, jobs, exits, restored, cut>>

\* Back to normal mode: with a leaf to return to, the request for a summary is queued
\* behind what runs.
LeaveCycle(running) ==
  /\ mode = "cycle" /\ mode' = "normal"
  /\ IF snapshot = 0
     THEN turns' = running /\ UNCHANGED <<pending, exits, cut>>
     ELSE /\ Len(exits) < MaxExits
          /\ exits' = Append(exits, begun)
          /\ pending' = [exit |-> Len(exits) + 1, leaf |-> snapshot, handed |-> FALSE]
          /\ turns' = running + 1 /\ cut' = FALSE
  /\ UNCHANGED <<sessionVars, snapshot, jobs, begun, restored>>

\* Commands stash their context; the cycle key has none to stash.
SwitchMode ==
  /\ LeaveCycle(turns) \/ EnterCycle
  /\ commandCtx' \in {TRUE, commandCtx}

Prompt ==
  /\ turns = 0 /\ Len(entries) < MaxLeaf /\ turns' = 1
  /\ UNCHANGED <<mode, sessionVars, snapshot, pending, commandCtx, jobs, historyVars, cut>>

\* hive_cycle_summary in a turn; without a restore that waits it is an error.
HiveCycleSummary ==
  /\ turns > 0 /\ pending # NoPending /\ pending' = [pending EXCEPT !.handed = TRUE]
  /\ UNCHANGED <<mode, sessionVars, snapshot, commandCtx, turns, jobs, historyVars, cut>>

\* A turn adds to the tree.
EndTurn ==
  /\ turns' = turns - 1
  /\ entries' = Append(entries, Entry(leaf)) /\ leaf' = Len(entries')
  /\ UNCHANGED <<mode, snapshot, commandCtx, historyVars>>

\* More turns follow.
Turn == turns > 1 /\ EndTurn /\ UNCHANGED <<pending, jobs, cut>>

Handler == [exit |-> pending.exit, leaf |-> pending.leaf, attempt |-> 1, at |-> 0, id |-> Len(entries)]
Handlers == IF pending = NoPending \/ ~commandCtx THEN jobs ELSE jobs \cup {Handler}

\* Mutant: what is pending is cleared when the restore has succeeded.
AgentSettled_ClearLate == turns = 1 /\ EndTurn /\ jobs' = Handlers /\ UNCHANGED <<pending, cut>>

\* The last turn is over and agent_settled fires: capture and clear.  With no context of a
\* command the restore is dropped.
AgentSettled ==
  /\ turns = 1 /\ EndTurn
  /\ jobs' = Handlers /\ pending' = NoPending /\ cut' = FALSE

\* waitForIdle is over: branchWithSummary hangs the summary below the leaf of the entry,
\* branch goes back to that leaf, and navigateTree is awaited.
HangSummary(j) ==
  /\ j.at = 0 /\ turns = 0
  /\ entries' = Append(entries, [up |-> j.leaf, exit |-> j.exit, attempt |-> j.attempt])
  /\ leaf' = j.leaf
  /\ jobs' = (jobs \ {j}) \cup {[j EXCEPT !.at = Len(entries')]}
  /\ UNCHANGED <<mode, snapshot, pending, commandCtx, turns, historyVars, cut>>

\* After the first failure once more, with an empty summary; then no more.
Fail(j) ==
  jobs' = (jobs \ {j}) \cup (IF j.attempt = 1 THEN {[j EXCEPT !.attempt = 2, !.at = 0]} ELSE {})

\* A call before the tree is changed throws, or the navigation does or is cancelled: the
\* summary stays in the tree, and the leaf where it is.
AttemptFails(j) ==
  /\ Fail(j)
  /\ UNCHANGED <<mode, sessionVars, snapshot, pending, commandCtx, turns, historyVars, cut>>

\* The navigation has succeeded: the conversation goes on from the summary.  A message
\* starts the next turn, or sending it fails.
Navigate(j) ==
  /\ j.at # 0 /\ leaf' = j.at
  /\ \/ jobs' = jobs \ {j} /\ restored' = restored \cup {j.at} /\ turns' = turns + 1
     \/ Fail(j) /\ UNCHANGED <<restored, turns>>
  /\ UNCHANGED <<mode, entries, snapshot, pending, commandCtx, begun, exits, cut>>

\* session_shutdown, also in a turn: the context is dropped.  Mode, snapshot and what is
\* pending stay in the state that the next session of the process gets, and its start
\* applies normal mode.
EndSession ==
  /\ commandCtx' = FALSE
  /\ \/ LeaveCycle(0)
     \/ /\ mode = "normal" /\ turns' = 0
        /\ cut' = (pending # NoPending)
        /\ UNCHANGED <<mode, sessionVars, snapshot, pending, jobs, historyVars>>

CycleNext ==
  \/ SwitchMode \/ Prompt \/ HiveCycleSummary \/ Turn \/ AgentSettled \/ EndSession
  \/ \E j \in jobs : HangSummary(j) \/ AttemptFails(j) \/ Navigate(j)

\* Turns end.
CycleFairness == WF_cycleVars(Turn \/ AgentSettled)

-----------------------------------------------------------------------------
\* mode-switch-restore.ts:94-96: however settling, waiting, failing and switching
\* interleave, an exit puts at most two summaries into the tree: a second one only by the
\* retry, and none once a restore of it was reported a success.  And since what is above
\* an entry is older, no entry of the mode that is left is above its summary.
RestoredOnce ==
  \A s \in Summaries :
    /\ entries[s].up <= exits[entries[s].exit]
    /\ \A t \in Summaries : entries[s].exit = entries[t].exit /\ s < t =>
         entries[s].attempt = 1 /\ entries[t].attempt = 2 /\ s \notin restored

\* Nothing stays pending: the next settled agent takes it up, unless the session has
\* ended before.
RestoreTakenUp == []<>(pending = NoPending \/ cut)
=============================================================================
