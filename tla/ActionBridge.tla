---------------------------- MODULE ActionBridge ----------------------------
(* From the dashboard to the sessions: reviews and questions are appended to the
   action file of a session (observability/server/plan-bridge.ts,
   engine/questions.ts), and the session, while it is open and has been in plan or
   hive mode, polls its file (ui/tui/widget.ts).  Sessions end and come back.  *)
EXTENDS Ranks, Sequences, SequencesExt

CONSTANTS
  Sessions, Actions,
  Questions, \* the actions that ask the user
  MaxEnds,   \* bound on the ends of each session
  Stopped

ASSUME BridgeAssumption ==
  Questions \subseteq Actions /\ MaxEnds \in Nat /\ Stopped \notin Nat

VARIABLES
  recent, \* the sessions of the project that telemetry knows, by last_ts
  log,    \* dashboard-actions.jsonl of each session
  cursor, \* dashboard-actions.cursor
  offset, \* dashboardActionOffset while the timer runs, else Stopped
  asked,  \* questions whose dialog is open
  got,    \* messages a session has been sent
  lost,   \* actions that died with a session, or in a poll that failed
  ends

bridgeVars == <<recent, log, cursor, offset, asked, got, lost, ends>>

BridgeInit ==
  /\ recent = <<>>
  /\ log = [s \in Sessions |-> <<>>] /\ cursor = [s \in Sessions |-> 0]
  /\ offset = [s \in Sessions |-> Stopped]
  /\ asked = [s \in Sessions |-> {}] /\ got = [s \in Sessions |-> <<>>]
  /\ lost = {} /\ ends = [s \in Sessions |-> 0]

Enqueued == UNION {Range(log[s]) : s \in Sessions}

-----------------------------------------------------------------------------
\* Telemetry of a session arrives, and it is the one with the latest event.
Touch(s) ==
  /\ recent' = <<s>> \o SelectSeq(recent, LAMBDA t : t # s) /\ recent' # recent
  /\ UNCHANGED <<log, cursor, offset, asked, got, lost, ends>>

\* enqueueDashboardAction: to the owner if the dashboard knows it, else to the session
\* that was active last.  With no session it reports failure and writes nothing.
Enqueue(a, owner) ==
  /\ a \notin Enqueued /\ recent # <<>>
  /\ LET target == IF owner \in Range(recent) THEN owner ELSE Head(recent)
     IN  log' = [log EXCEPT ![target] = Append(@, a)]
  /\ UNCHANGED <<recent, cursor, offset, asked, got, lost, ends>>

\* enqueueQuestion: the planner knows the directory of its main session.
EnqueueQuestion(a, s) ==
  /\ a \in Questions \ Enqueued
  /\ log' = [log EXCEPT ![s] = Append(@, a)]
  /\ UNCHANGED <<recent, cursor, offset, asked, got, lost, ends>>

\* Mutant: a session that is opened begins with what is enqueued from now on.
StartDashboardActionPoller_AtEnd(s) ==
  /\ offset[s] = Stopped /\ offset' = [offset EXCEPT ![s] = Len(log[s])]
  /\ UNCHANGED <<recent, log, cursor, asked, got, lost, ends>>

\* applyMode of plan or hive mode, the first since the session was opened: from
\* what the session had consumed when it was open before.
StartDashboardActionPoller(s) ==
  /\ offset[s] = Stopped /\ offset' = [offset EXCEPT ![s] = cursor[s]]
  /\ UNCHANGED <<recent, log, cursor, asked, got, lost, ends>>

Unread(s) == SubSeq(log[s], offset[s] + 1, Len(log[s]))
Polls(s) == offset[s] # Stopped /\ Len(log[s]) > offset[s]
\* What is no question, in the order of the file.
Statements(actions) == {i \in 1 .. Len(actions) : actions[i] \notin Questions}
Said(actions) == [k \in 1 .. Cardinality(Statements(actions)) |-> actions[Nth(Statements(actions), k)]]

\* Mutant: the cursor file is not written.
Poll_CursorInMemory(s) ==
  /\ Polls(s)
  /\ offset' = [offset EXCEPT ![s] = Len(log[s])]
  /\ asked' = [asked EXCEPT ![s] = @ \cup (Range(Unread(s)) \cap Questions)]
  /\ got' = [got EXCEPT ![s] = @ \o Said(Unread(s))]
  /\ UNCHANGED <<recent, log, cursor, lost, ends>>

\* The interval fires: offset and cursor move to the end first, then every action is a
\* message to the session, or opens a dialog.
Poll(s) ==
  /\ Polls(s)
  /\ offset' = [offset EXCEPT ![s] = Len(log[s])]
  /\ cursor' = [cursor EXCEPT ![s] = Len(log[s])]
  /\ asked' = [asked EXCEPT ![s] = @ \cup (Range(Unread(s)) \cap Questions)]
  /\ got' = [got EXCEPT ![s] = @ \o Said(Unread(s))]
  /\ UNCHANGED <<recent, log, lost, ends>>

\* A line that does not parse or a message that cannot be sent ends the loop: the rest of
\* what was read is not delivered.
PollBreaks(s, k) ==
  LET done == SubSeq(Unread(s), 1, k) IN
  /\ Polls(s) /\ k < Len(Unread(s))
  /\ offset' = [offset EXCEPT ![s] = Len(log[s])]
  /\ cursor' = [cursor EXCEPT ![s] = Len(log[s])]
  /\ asked' = [asked EXCEPT ![s] = @ \cup (Range(done) \cap Questions)]
  /\ got' = [got EXCEPT ![s] = @ \o Said(done)]
  /\ lost' = lost \cup Range(SubSeq(Unread(s), k + 1, Len(Unread(s))))
  /\ UNCHANGED <<recent, log, ends>>

\* handlePromotedQuestion after the dialog, or at once where there is no UI: question and
\* answer are recorded, and the session is told.
HandlePromotedQuestion(s, a) ==
  /\ a \in asked[s]
  /\ asked' = [asked EXCEPT ![s] = @ \ {a}] /\ got' = [got EXCEPT ![s] = Append(@, a)]
  /\ UNCHANGED <<recent, log, cursor, offset, lost, ends>>

\* The session ends: the timer stops, and open dialogs go with the process.
CloseSession(s) ==
  /\ ends[s] < MaxEnds /\ ends' = [ends EXCEPT ![s] = @ + 1]
  /\ offset' = [offset EXCEPT ![s] = Stopped]
  /\ asked' = [asked EXCEPT ![s] = {}] /\ lost' = lost \cup asked[s]
  /\ UNCHANGED <<recent, log, cursor, got>>

BridgeNext ==
  \/ \E s \in Sessions :
       \/ Touch(s) \/ StartDashboardActionPoller(s) \/ Poll(s) \/ CloseSession(s)
       \/ \E k \in 0 .. Cardinality(Actions) : PollBreaks(s, k)
       \/ \E a \in Actions : Enqueue(a, s) \/ EnqueueQuestion(a, s) \/ HandlePromotedQuestion(s, a)

\* The interval fires every second.  Nobody is obliged to answer a question.
BridgeFairness == \A s \in Sessions : WF_bridgeVars(Poll(s))

-----------------------------------------------------------------------------
\* What a session has not read yet, after its restarts too.
Ahead(s) == Range(SubSeq(log[s], cursor[s] + 1, Len(log[s])))

\* Every enqueued action is in exactly one place, across the ends of sessions: ahead of
\* its cursor, in a dialog, delivered once, or lost.
NothingTwice ==
  \A s \in Sessions : \A a \in Range(log[s]) :
    (IF a \in Ahead(s) THEN 1 ELSE 0) + (IF a \in asked[s] THEN 1 ELSE 0)
      + Cardinality({i \in 1 .. Len(got[s]) : got[s][i] = a}) + (IF a \in lost THEN 1 ELSE 0) = 1

\* Feedback reaches the planner in the order of the reviews, and in no other session
\* than the one whose file it was written to.
InReviewOrder ==
  \A s \in Sessions :
    /\ Range(got[s]) \subseteq Range(log[s])
    /\ \A i, j \in 1 .. Len(got[s]) :
         i < j /\ {got[s][i], got[s][j]} \cap Questions = {} =>
           \E m, n \in 1 .. Len(log[s]) : m < n /\ log[s][m] = got[s][i] /\ log[s][n] = got[s][j]

BridgeIsSafe == NothingTwice /\ InReviewOrder

\* widget.ts:49-52: what was enqueued while a session was closed is delivered when it is
\* open again, in plan or hive mode, and stays open.
ActionsArrive ==
  \A s \in Sessions : <>[](offset[s] # Stopped) => []<>(Ahead(s) = {})
=============================================================================
