------------------------------- MODULE Budget -------------------------------
(***************************************************************************)
(* What a worker may spend: the ledger kept on the session branch          *)
(* (budget/ledger.ts), the listener that observes every message            *)
(* (budget/events.ts), the gate before a delegation (budget/policy.ts,     *)
(* worker-tools.ts) and the operator commands that write to the ledger.    *)
(*                                                                         *)
(* All the workers of a directory continue one session file, as            *)
(* SessionManager.continueRecent(cwd) hands it out.  The file is a tree: a *)
(* manager loads it once and then appends to its own branch; whoever loads *)
(* it next gets the branch of the last entry.  Of a branch only what its   *)
(* readers look at is kept: the newest entry, and the newest of each slug. *)
(***************************************************************************)
EXTENDS Integers, FiniteSets, Sequences, SequencesExt

CONSTANTS
  Agents,       \* workers that are delegated to
  Team,         \* the slug "__team__" of tear-down-all
  None,
  WorkerCap,    \* policy.worker.tokens.cap
  TeamCap,      \* policy.team.tokens.cap
  ContextCap,   \* policy.worker.context.tokens
  TeamContextCap, \* policy.team.context.tokens
  WarnPercent,  \* strategies.onApproachingLimit.threshold, in percent
  MsgGate,      \* MESSAGE_COUNT_THRESHOLD
  TokGate,      \* TOKEN_COUNT_THRESHOLD
  Policies,     \* onExhaustion action of each dimension: the combinations tried
  Nestings,     \* may a second worker be open beside the first?  values tried
  Messages,     \* usage of a message: <<tokens in include, other tokens>>
  Contexts,     \* contextTokens getContextUsage reports after a message
  MaxSpend      \* bound: tokens in the file

ASSUME BudgetAssumption ==
  /\ IsFiniteSet(Agents) /\ Team \notin Agents
  /\ None \notin Agents
  /\ WorkerCap \in Nat /\ TeamCap \in Nat /\ MsgGate \in Nat \ {0} /\ TokGate \in Nat \ {0}
  /\ ContextCap \in Nat \ {0} /\ TeamContextCap \in Nat \ {0} /\ WarnPercent \in 0..100
  /\ Policies \subseteq [{"tokens", "context"} -> {"abort", "compact", "none"}]
  /\ Nestings \subseteq BOOLEAN
  /\ Messages \subseteq Nat \X Nat
  /\ Contexts \subseteq Nat
  /\ None \notin Nat
  /\ MaxSpend \in Nat

Slugs == Agents \cup {Team}
Dims == {"tokens", "context"}

VARIABLES
  action,      \* resolveExhaustionAction(policy, dim), per dimension
  nested,      \* whether delegations nest in this behaviour
  filed,       \* usage of all the messages in the session file
  thread,      \* the branch a manager that loads the file now would walk
  handles,     \* the worker handle map, in insertion order: the open sessions
  session,     \* what each open session's manager holds
  ledger,      \* the BudgetLedger of each open session
  hooks,       \* warnedKeys of each listener on the session: one warning was sent for each
  aborted,     \* controller.signal.aborted
  exhausted,   \* whether the session has a budget_exhausted entry for tokens
  runtimeContext \* runtime.contextTokens

policyVars == <<action, nested>>
fileVars == <<filed, thread>>
runVars == <<handles, session, ledger, hooks, aborted, exhausted>>
vars == <<policyVars, fileVars, runVars, runtimeContext>>

\* A session is open while its listener is installed.
Open == {a \in Agents : hooks[a] # <<>>}
Usage == [counted : Nat, total : Nat]
Branch == [newest : Nat, by : Slugs \cup {None}, latest : [Slugs -> Nat]]

\* Mutant: a branch without entries restores no number.
EmptyBranch_NoZero == [newest |-> None, by |-> None, latest |-> [s \in Slugs |-> 0]]
EmptyBranch == [newest |-> 0, by |-> None, latest |-> [s \in Slugs |-> 0]]

NoSession == [counted |-> 0, total |-> 0, context |-> None, branch |-> EmptyBranch]
NoLedger == [tokens |-> 0, since |-> 0, written |-> 0]

Init ==
  /\ action \in Policies
  /\ nested \in Nestings
  /\ filed = [counted |-> 0, total |-> 0]
  /\ thread = EmptyBranch
  /\ handles = <<>>
  /\ session = [a \in Agents |-> NoSession]
  /\ ledger = [a \in Agents |-> NoLedger]
  /\ hooks = [a \in Agents |-> <<>>]
  /\ aborted = [a \in Agents |-> FALSE]
  /\ exhausted = [a \in Agents |-> FALSE]
  /\ runtimeContext = [a \in Agents |-> 0]

(***************************************************************************)
(* Ledger.                                                                 *)
(***************************************************************************)
\* Mutant: only the first entry of a slug is kept.
AppendEntry_First(branch, slug, tokens) ==
  [newest |-> tokens, by |-> slug,
   latest |-> [branch.latest EXCEPT ![slug] = IF @ = 0 THEN tokens ELSE @]]
\* appendLedgerEntry: an entry becomes the newest of the branch and of its slug.
AppendEntry(branch, slug, tokens) ==
  [newest |-> tokens, by |-> slug, latest |-> [branch.latest EXCEPT ![slug] = tokens]]

\* restore: cumulative of the newest ledger entry, whoever wrote it.
Restored(branch) ==
  [tokens |-> branch.newest, since |-> 0, written |-> branch.newest]

Distance(x, y) == IF x >= y THEN x - y ELSE y - x

\* Mutant: without the token gate.
ShouldWriteCheckpoint_NoTokens(l) == l.since >= MsgGate
ShouldWriteCheckpoint(l) ==
  \/ l.since >= MsgGate
  \/ Distance(l.tokens, l.written) >= TokGate

\* Mutant: a write does not reset the message count.
Checkpoint_NoReset(a, st) ==
  IF ShouldWriteCheckpoint(st.ledger)
  THEN [st EXCEPT !.ledger.written = st.ledger.tokens,
                  !.branch = AppendEntry(@, a, st.ledger.tokens)]
  ELSE st
\* The tail recordEvent and maybeSnapshot share: write when a gate fires.
Checkpoint(a, st) ==
  IF ShouldWriteCheckpoint(st.ledger)
  THEN [st EXCEPT !.ledger = [tokens |-> @.tokens, since |-> 0, written |-> @.tokens],
                  !.branch = AppendEntry(@, a, st.ledger.tokens)]
  ELSE st

RecordEvent(a, st, total) ==
  Checkpoint(a, [st EXCEPT !.ledger = [tokens |-> total, since |-> @.since + 1, written |-> @.written]])

MaybeSnapshot(a, st, total) ==
  Checkpoint(a, [st EXCEPT !.ledger = [tokens |-> total, since |-> @.since, written |-> @.written]])

\* snapshot: always written; cumulative in memory is left alone.
SnapshotLedger(l, total) == [tokens |-> l.tokens, since |-> 0, written |-> total]

(***************************************************************************)
(* Gates.                                                                  *)
(***************************************************************************)
\* A sum counts the units of every summand.
Sum(f, S) == Cardinality(UNION {{s} \X (1 .. f[s]) : s \in S})

\* teamUsage: the newest entry of every slug, summed.
TeamUsage(branch) == Sum(branch.latest, Slugs)

\* Mutant: the team's budget alone is checked.
BudgetBlock_TeamOnly(l, branch) == TeamUsage(branch) >= TeamCap
\* checkBudgetPolicy as delegateAgent calls it: without stats, context or runtimes.
BudgetBlock(l, branch) ==
  \/ l.tokens >= WorkerCap
  \/ TeamUsage(branch) >= TeamCap

\* aggregateTeamContext and checkTeamContextConstraint over state.runtimes.
TeamContextBlock(context) ==
  LET total == Sum(context, Agents) IN total > 0 /\ total >= TeamContextCap

ContextBlock(context) == context # None /\ context >= ContextCap

\* buildBudgetToolCallHandler: is a bash, edit, write or read call blocked?
ToolBlocked(a) ==
  /\ a \in Open
  /\ ~aborted[a]
  /\ \/ session[a].counted >= WorkerCap
     \/ ContextBlock(session[a].context)
     \/ TeamContextBlock(runtimeContext)

(***************************************************************************)
(* Delegation.                                                             *)
(***************************************************************************)
\* delegateAgent: continue the file, restore the ledger, pass the gate, open the
\* session and install the listener.  A refusal throws and changes nothing here.
Delegate(a) ==
  /\ a \notin Open
  /\ nested \/ handles = <<>>
  /\ ~BudgetBlock(Restored(thread), thread)
  /\ handles' = Append(handles, a)
  /\ session' = [session EXCEPT ![a] =
       [counted |-> filed.counted, total |-> filed.total, context |-> None, branch |-> thread]]
  /\ ledger' = [ledger EXCEPT ![a] = Restored(thread)]
  /\ hooks' = [hooks EXCEPT ![a] = <<{}>>]
  /\ aborted' = [aborted EXCEPT ![a] = FALSE]
  /\ exhausted' = [exhausted EXCEPT ![a] = FALSE]
  /\ UNCHANGED <<policyVars, fileVars, runtimeContext>>

(***************************************************************************)
(* The listener.                                                           *)
(***************************************************************************)
Remaining(cap, used) == IF used >= cap THEN 0 ELSE cap - used
\* Mutant: an exhausted budget no longer counts as near its limit.
NearLimit_NotOver(cap, used) ==
  cap > used /\ 100 * Remaining(cap, used) <= WarnPercent * cap
NearLimit(cap, used) == cap > 0 /\ 100 * Remaining(cap, used) <= WarnPercent * cap

UsedUp(cap, used) == cap > 0 /\ used >= cap

\* Dimensions whose warning threshold is reached.  Context is unknown after a
\* compaction, until the next response.
Near(total, context) ==
  {d \in Dims : \/ d = "tokens" /\ NearLimit(WorkerCap, total)
                \/ d = "context" /\ context # None /\ NearLimit(ContextCap, context)}

\* Dimensions that are exhausted; the team's context acts as the worker's does.
Spent(total, context, contexts) ==
  {d \in Dims : \/ d = "tokens" /\ UsedUp(WorkerCap, total)
                \/ d = "context" /\ (ContextBlock(context) \/ TeamContextBlock(contexts))}

\* One listener's message_end: record, mark what is exhausted, abort; the warning it
\* sends once per key goes into hooks.
OnMessageEnd(a, st, total, context, contexts) ==
  LET spent == {d \in Spent(total, context, contexts) : action[d] # "none"}
      recorded == MaybeSnapshot(a, RecordEvent(a, st, total), total)
  IN [recorded EXCEPT
        !.exhausted = @ \/ "tokens" \in spent,
        !.aborted = @ \/ \E d \in spent : action[d] = "abort"]

\* The listeners of a session run one after the other within the event.
AllListeners(a, st, total, context, contexts) ==
  LET first == OnMessageEnd(a, st, total, context, contexts)
  IN IF Len(hooks[a]) = 1 THEN first
     ELSE OnMessageEnd(a, first, total, context, contexts)

MessageEnd(a, m, context) ==
  LET total == session[a].total + m[1] + m[2]
      contexts == IF context = None THEN runtimeContext
                  ELSE [runtimeContext EXCEPT ![a] = context]
      before == [ledger |-> ledger[a], branch |-> session[a].branch,
                 exhausted |-> exhausted[a], aborted |-> aborted[a]]
      after == AllListeners(a, before, total, context, contexts)
  IN /\ a \in Open
     /\ filed.total + m[1] + m[2] <= MaxSpend
     /\ filed' = [counted |-> filed.counted + m[1], total |-> filed.total + m[1] + m[2]]
     /\ session' = [session EXCEPT ![a] =
          [counted |-> @.counted + m[1], total |-> total, context |-> context, branch |-> after.branch]]
     /\ thread' = after.branch
     /\ ledger' = [ledger EXCEPT ![a] = after.ledger]
     /\ hooks' = [hooks EXCEPT ![a] = [i \in DOMAIN @ |-> @[i] \cup Near(total, context)]]
     /\ exhausted' = [exhausted EXCEPT ![a] = after.exhausted]
     /\ aborted' = [aborted EXCEPT ![a] = after.aborted]
     /\ runtimeContext' = contexts
     /\ UNCHANGED <<policyVars, handles>>

\* A ledger.snapshot(...) of one session; the branch it appends to becomes the
\* one the next manager finds.
WriteSnapshot(a) ==
  LET branch == AppendEntry(session[a].branch, a, session[a].total)
  IN /\ session' = [session EXCEPT ![a].branch = branch]
     /\ thread' = branch
     /\ ledger' = [ledger EXCEPT ![a] = SnapshotLedger(@, session[a].total)]

\* agent_settled, the operator's end / pause / compact-aborted, and the worker's
\* request_snapshot and request_end_session all come down to a snapshot.
Snapshot(a) ==
  /\ a \in Open
  /\ WriteSnapshot(a)
  /\ UNCHANGED <<policyVars, filed, handles, hooks, aborted, exhausted, runtimeContext>>

\* compactWorkerSession and request_compaction: the context is unknown until the
\* next response; compaction_end writes an entry of another type.
Compact(a) ==
  LET branch == AppendEntry(session[a].branch, a, session[a].total)
  IN /\ a \in Open
     /\ session' = [session EXCEPT ![a].branch = branch, ![a].context = None]
     /\ thread' = branch
     /\ ledger' = [ledger EXCEPT ![a] = SnapshotLedger(@, session[a].total)]
     /\ UNCHANGED <<policyVars, filed, handles, hooks, aborted, exhausted, runtimeContext>>

\* resumeWorkerSession: installs the listener once more on a session whose first
\* listener was never removed.  Bound: once per session.
Resume(a) ==
  /\ a \in Open
  /\ Len(hooks[a]) = 1
  /\ hooks' = [hooks EXCEPT ![a] = Append(@, {})]
  /\ WriteSnapshot(a)
  /\ UNCHANGED <<policyVars, filed, handles, aborted, exhausted, runtimeContext>>

Forget(S) ==
  /\ hooks' = [a \in Agents |-> IF a \in S THEN <<>> ELSE hooks[a]]
  /\ aborted' = [a \in Agents |-> IF a \in S THEN FALSE ELSE aborted[a]]
  /\ exhausted' = [a \in Agents |-> IF a \in S THEN FALSE ELSE exhausted[a]]

Unregister(a) ==
  \E i \in DOMAIN handles : handles[i] = a /\ handles' = RemoveAt(handles, i)

\* The run ends, however it does: the session is disposed and the handle removed.
Close(a) ==
  /\ a \in Open
  /\ Unregister(a)
  /\ Forget({a})
  /\ session' = [session EXCEPT ![a] = NoSession]
  /\ ledger' = [ledger EXCEPT ![a] = NoLedger]
  /\ UNCHANGED <<policyVars, fileVars, runtimeContext>>

\* forceKillWorkerSession, forceEndWorkerSession: snapshot, then dispose.
ForceKill(a) ==
  /\ a \in Open
  /\ thread' = AppendEntry(session[a].branch, a, session[a].total)
  /\ Unregister(a)
  /\ Forget({a})
  /\ session' = [session EXCEPT ![a] = NoSession]
  /\ ledger' = [ledger EXCEPT ![a] = NoLedger]
  /\ UNCHANGED <<policyVars, filed, runtimeContext>>

\* tearDownAllWorkers: snapshot every handle, dispose them if forced, then write the
\* sum of their cumulatives under the team's slug through the first one's manager.
TearDownAll(force) ==
  LET first == handles[1]
      total == Sum([a \in Agents |-> ledger[a].tokens], Open)
      ended == [a \in Agents |-> IF a \in Open
                THEN [session[a] EXCEPT !.branch = AppendEntry(@, a, session[a].total)]
                ELSE session[a]]
      team == AppendEntry(ended[first].branch, Team, total)
  IN /\ handles # <<>>
     /\ thread' = team
     /\ IF force
        THEN /\ handles' = <<>>
             /\ Forget(Open)
             /\ session' = [a \in Agents |-> NoSession]
             /\ ledger' = [a \in Agents |-> NoLedger]
        ELSE /\ session' = [ended EXCEPT ![first].branch = team]
             /\ ledger' = [a \in Agents |-> IF a \in Open
                           THEN SnapshotLedger(ledger[a], session[a].total) ELSE ledger[a]]
             /\ UNCHANGED <<handles, hooks, aborted, exhausted>>
     /\ UNCHANGED <<policyVars, filed, runtimeContext>>

\* The process dies; what is in the file stays.
Crash ==
  /\ handles # <<>>
  /\ handles' = <<>>
  /\ Forget(Open)
  /\ session' = [a \in Agents |-> NoSession]
  /\ ledger' = [a \in Agents |-> NoLedger]
  /\ runtimeContext' = [a \in Agents |-> 0]
  /\ UNCHANGED <<policyVars, fileVars>>

Next ==
  \/ \E a \in Agents :
       \/ Delegate(a)
       \/ \E m \in Messages, c \in Contexts \cup {None} : MessageEnd(a, m, c)
       \/ Snapshot(a) \/ Compact(a) \/ Resume(a) \/ Close(a) \/ ForceKill(a)
  \/ \E force \in BOOLEAN : TearDownAll(force)
  \/ Crash

Spec == Init /\ [][Next]_vars

-----------------------------------------------------------------------------
(* Properties                                                              *)

TypeOK ==
  /\ action \in Policies
  /\ nested \in Nestings
  /\ filed \in Usage
  /\ thread \in Branch
  /\ handles \in Seq(Agents)
  /\ session \in [Agents -> [counted : Nat, total : Nat, context : Nat \cup {None}, branch : Branch]]
  /\ ledger \in [Agents -> [tokens : Nat, since : Nat, written : Nat]]
  /\ hooks \in [Agents -> Seq(SUBSET Dims)]
  /\ aborted \in [Agents -> BOOLEAN]
  /\ exhausted \in [Agents -> BOOLEAN]
  /\ runtimeContext \in [Agents -> Nat]

\* Whatever mix of messages, listeners installed twice, snapshots and commands a
\* session goes through: once its ledger has caught up with the session, the entries
\* it wrote are less than MsgGate messages and TokGate tokens away from it
\* (shouldWriteCheckpoint in ledger.ts).  That is all a crash can lose.
LedgerLag ==
  \A a \in Open :
    /\ ledger[a].since < MsgGate
    /\ ledger[a].tokens = session[a].total => Distance(ledger[a].tokens, ledger[a].written) < TokGate

\* With one worker open at a time the newest entry of the branch, which the next
\* restore takes whoever wrote it, is less than TokGate away from what the file holds,
\* also after crashes.  Not so while that entry is the sum of a tear-down: it is taken
\* from the ledgers in memory, which after a restore may be behind.
SpendOnRecord ==
  ~nested /\ thread.by # Team => Distance(filed.total, thread.newest) < TokGate

\* The team gate never underestimates by more than that either: the sum over the
\* slugs counts at least what one of them recorded.
TeamSpendOnRecord ==
  ~nested => TeamUsage(thread) > filed.total - TokGate

\* What a worker spent, and what the team gate adds up, is on record.
UsageOnRecord == SpendOnRecord /\ TeamSpendOnRecord

\* A worker is not cut off for its tokens without having been told before: a session
\* with a budget_exhausted entry has its budget_warning.
WarnedBeforeExhausted ==
  \A a \in Open : exhausted[a] => "tokens" \in hooks[a][1]

\* One worker at a time: a delegation is admitted only while the file holds less than
\* the cap plus what the throttle may hide; for the worker's cap only if the newest
\* entry is not that of a tear-down.
AdmissionSound ==
  [][\A a \in Agents : a \notin Open /\ a \in Open' /\ ~nested =>
       /\ thread.by # Team => filed.total < WorkerCap + TokGate
       /\ filed.total < TeamCap + TokGate]_vars

\* events.ts: aborting the controller on exhaustion "is what fast-cancels the run", and
\* the tool gate lets calls pass then so that the abort can take effect.  An exhausted
\* run under "abort" gets no further message, or at least its tools are blocked.
ExhaustedRunHeld ==
  [][\A a \in Agents :
       /\ a \in Open /\ a \in Open' /\ exhausted[a] /\ action["tokens"] = "abort"
       /\ session[a].counted >= WorkerCap
       /\ session'[a].total # session[a].total
       => ToolBlocked(a)]_vars
=============================================================================
