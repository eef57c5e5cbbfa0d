----------------------------- MODULE Distiller -----------------------------
(* The distillation of mental models after a run (engine/distiller.ts): one
   queue of tasks per target file, a cap per worker, and a write that gives way
   to whatever changed the file meanwhile.  Sessions of the host end and start
   around it (integration/hooks.ts).

   A mental model is the set of what has gone into it: edits by tools and users,
   and the conversations of runs distilled into it.  A rewrite by the model keeps
   what it was shown, so what a write drops it drops unseen.                 *)
EXTENDS Integers, Sequences, FiniteSets

CONSTANTS
  Workers,  \* runtimes
  Targets,  \* mental-model files
  Target,   \* [Workers -> Targets], agentMentalModelTarget
  Cap,      \* governance.distillerRuns
  MaxRuns,  \* bound on the runs of a worker
  MaxOtherEdits, \* bound on the edits by others
  MaxSessions, \* bound on the sessions of the host
  InTime    \* do aborted distillers settle within the second that shutdown waits

ASSUME DistillerAssumption ==
  /\ Target \in [Workers -> Targets] /\ InTime \in BOOLEAN
  /\ {Cap, MaxRuns, MaxOtherEdits} \subseteq Nat /\ MaxSessions \in Nat \ {0}

VARIABLES
  session,   \* number of the session, and
  ending,    \* state.shuttingDown
  runCount,  \* runtime.runCount and
  launched,  \* runtime.distillerRunCount of the runtimes of every session
  tasks,     \* the chain of promises of a target and a session
  model,     \* the files
  edits      \* history: edits by others

distillVars == <<session, ending, runCount, launched, tasks, model, edits>>

\* A session builds its own runtimes and queues; those of the one before live on
\* in the closures of its tasks.
Runtimes == Workers \X (1 .. MaxSessions)
Chains == Targets \X (1 .. MaxSessions)
Queued(r) == [runtime |-> r, run |-> runCount[r], stage |-> "queued", base |-> {}]

DistillInit ==
  /\ session = 1 /\ ending = FALSE
  /\ runCount = [r \in Runtimes |-> 0] /\ launched = [r \in Runtimes |-> 0]
  /\ tasks = [c \in Chains |-> <<>>]
  /\ model = [t \in Targets |-> {}] /\ edits = 0

First(c) == tasks[c][1]
Waiting(c) == tasks[c] # <<>> /\ First(c).stage = "queued"
Running(c) == tasks[c] # <<>> /\ First(c).stage = "running"

\* A run starts; what is queued for an earlier one is superseded.
RunOf(w) ==
  /\ ~ending /\ runCount[<<w, session>>] < MaxRuns
  /\ runCount' = [runCount EXCEPT ![<<w, session>>] = @ + 1]
  /\ UNCHANGED <<session, ending, launched, tasks, model, edits>>

\* delegate_agent has returned exit code 0, which happens once for a run.
ScheduleMentalModelDistillation(w) ==
  LET r == <<w, session>>
      c == <<Target[w], session>>
  IN  /\ ~ending /\ runCount[r] > 0 /\ launched[r] < Cap
      /\ \A i \in 1 .. Len(tasks[c]) : tasks[c][i].runtime # r \/ tasks[c][i].run # runCount[r]
      /\ tasks' = [tasks EXCEPT ![c] = Append(@, Queued(r))]
      /\ UNCHANGED <<session, ending, runCount, launched, model, edits>>

\* The task before is over: the cap is reserved, conversation and model are read.
Launch(c) ==
  /\ Waiting(c)
  /\ ~ending /\ runCount[First(c).runtime] = First(c).run /\ launched[First(c).runtime] < Cap
  /\ launched' = [launched EXCEPT ![First(c).runtime] = @ + 1]
  /\ tasks' = [tasks EXCEPT ![c][1].stage = "running", ![c][1].base = model[c[1]]]
  /\ UNCHANGED <<session, ending, runCount, model, edits>>

\* The task before is over, and this one is not wanted any more.
Skip(c) ==
  /\ Waiting(c)
  /\ ending \/ runCount[First(c).runtime] # First(c).run \/ launched[First(c).runtime] >= Cap
  /\ tasks' = [tasks EXCEPT ![c] = Tail(@)]
  /\ UNCHANGED <<session, ending, runCount, launched, model, edits>>

\* Mutant: what was read before the prompt is taken for what is there now.
DistillMentalModel_Blind(c) ==
  LET t == First(c) IN
  /\ Running(c)
  /\ model' = IF ~ending
              THEN [model EXCEPT ![c[1]] = t.base \cup {<<t.runtime, t.run>>}]
              ELSE model
  /\ tasks' = [tasks EXCEPT ![c] = Tail(@)]
  /\ UNCHANGED <<session, ending, runCount, launched, edits>>

\* The answer is there.  Inside the mutation queue of the file the model is read again,
\* and nothing is written over a text the answer was not made from.
DistillMentalModel(c) ==
  LET t == First(c) IN
  /\ Running(c)
  /\ model' = IF ~ending /\ model[c[1]] = t.base
              THEN [model EXCEPT ![c[1]] = t.base \cup {<<t.runtime, t.run>>}]
              ELSE model
  /\ tasks' = [tasks EXCEPT ![c] = Tail(@)]
  /\ UNCHANGED <<session, ending, runCount, launched, edits>>

\* No model, no conversation, a prompt that throws or was aborted, no tag in the answer.
DistillerFails(c) ==
  /\ Running(c)
  /\ tasks' = [tasks EXCEPT ![c] = Tail(@)]
  /\ UNCHANGED <<session, ending, runCount, launched, model, edits>>

\* A tool of some worker, or the user, edits a mental model.
EditModel(t) ==
  /\ edits < MaxOtherEdits /\ edits' = edits + 1
  /\ model' = [model EXCEPT ![t] = @ \cup {<<<<"others", 0>>, edits + 1>>}]
  /\ UNCHANGED <<session, ending, runCount, launched, tasks>>

\* session_shutdown: the flag is set, the distillers are aborted and waited for.
BeginShutdown ==
  /\ ~ending /\ session < MaxSessions /\ ending' = TRUE
  /\ UNCHANGED <<session, runCount, launched, tasks, model, edits>>

\* All tasks have settled, or a second has passed; then session_start takes the flag
\* back.
NextSession ==
  /\ ending /\ (InTime => \A c \in Chains : tasks[c] = <<>>)
  /\ ending' = FALSE /\ session' = session + 1
  /\ UNCHANGED <<runCount, launched, tasks, model, edits>>

DistillNext ==
  \/ \E w \in Workers : RunOf(w) \/ ScheduleMentalModelDistillation(w)
  \/ \E c \in Chains : Launch(c) \/ Skip(c) \/ DistillMentalModel(c) \/ DistillerFails(c)
  \/ \E t \in Targets : EditModel(t)
  \/ BeginShutdown \/ NextSession

\* A prompt ends or is aborted, and the next task of the chain follows.
DistillFairness ==
  \A c \in Chains : WF_distillVars(Launch(c) \/ Skip(c) \/ DistillMentalModel(c) \/ DistillerFails(c))

-----------------------------------------------------------------------------
\* The rewrite of a mental model never drops what it has not seen: an edit made while a
\* distillation was under way survives it (distillMentalModel, "do not overwrite fresher
\* state with a result derived from the old snapshot").
UpdatesSurvive == [][\A t \in Targets : model[t] \subseteq model'[t]]_distillVars

\* governance.distillerRuns caps what is launched, however many were let in before.
CapHolds == \A r \in Runtimes : launched[r] <= Cap

\* hooks.ts:279-281: what was launched by a session that has ended writes nothing in the
\* next one, if its abort takes less than the second the shutdown waits.
EndedSessionsAreSilent ==
  [][\A c \in Chains :
       InTime /\ Running(c) /\ tasks'[c] = Tail(tasks[c]) /\ model' # model => c[2] = session]_distillVars

\* Out of band, the distiller spoils nothing: updates, the end of a session and the cap
\* of a worker are respected.
DistillerIsSafe == UpdatesSurvive /\ EndedSessionsAreSilent /\ []CapHolds

\* A distillation that fails, is superseded or over its cap holds up nobody: every
\* queue comes to its end.
QueuesDrain == \A c \in Chains : []<>~Waiting(c)
=============================================================================
