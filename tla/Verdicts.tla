------------------------------ MODULE Verdicts ------------------------------
(* What the dashboard shows of the verdicts on a change: those of the reviewers, which
   sessions log and the daemon ingests some time (observability/server/runtime.ts), and
   those of the human, which the review surface writes into the same table at once
   (review-wiring.ts), read for one project (db.ts). *)
EXTENDS Ranks, Sequences, SequencesExt, FiniteSetsExt

CONSTANTS
  Reviewers,     \* the sessions whose reviewers submit verdicts
  Projects,
  ProjectOf,     \* the project each session works in
  Nowhere,       \* the project of a row from before rows had one
  MaxVerdicts,   \* bound on the verdicts given
  MaxForgets     \* bound on the deletions of the telemetry of a session

VARIABLES
  given,         \* all the verdicts, in the order of time
  readTo,        \* by session: how far its log is ingested
  forgets,
  verdictRows    \* plan_verdicts
verdictVars == <<given, readTo, forgets, verdictRows>>

Human == "ui"
\* Yellow is read as red is.
Colours == {"green", "red"}

\* A row of plan_verdicts, and what a session or the review surface says.
VerdictRow == [id : Nat, session : Reviewers \cup {Nowhere}, reviewer : {"reviewer", Human},
               colour : Colours, project : Projects \cup {Nowhere}, at : Nat]
VerdictType == [session : Reviewers \cup {Nowhere}, reviewer : {"reviewer", Human},
                colour : Colours, project : Projects]

ASSUME VerdictsAssumption ==
  /\ ProjectOf \in [Reviewers -> Projects]
  /\ Nowhere \notin Reviewers \cup Projects \cup VerdictRow

-----------------------------------------------------------------------------
(* Writing *)

\* insertPlanVerdict: INSERT OR IGNORE by id, which is the id of the event or a new one.
InsertPlanVerdict(rows, i, verdict) ==
  IF \E r \in rows : r.id = i THEN rows
  ELSE rows \cup {[id |-> i, session |-> verdict.session, reviewer |-> verdict.reviewer,
                   colour |-> verdict.colour, project |-> verdict.project, at |-> i]}

Verdict(s, reviewer, colour, project) ==
  [session |-> s, reviewer |-> reviewer, colour |-> colour, project |-> project]

\* submit_review_verdict: the verdict is logged.
SubmitReviewVerdict(s, colour) ==
  /\ Len(given) < MaxVerdicts
  /\ given' = Append(given, Verdict(s, "reviewer", colour, ProjectOf[s]))
  /\ UNCHANGED <<readTo, forgets, verdictRows>>

\* recordVerdict of the review surface, which has no session.
RecordVerdict(project, colour) ==
  /\ Len(given) < MaxVerdicts
  /\ given' = Append(given, Verdict(Nowhere, Human, colour, project))
  /\ verdictRows' = InsertPlanVerdict(verdictRows, Len(given'), Last(given'))
  /\ UNCHANGED <<readTo, forgets>>

\* materializePlanEvent, of the next event in the log of a session.
LogOf(s) == {i \in DOMAIN given : given[i].session = s}
MaterializePlanEvent(s) ==
  LET next == {i \in LogOf(s) : i > readTo[s]} IN
  /\ next # {}
  /\ readTo' = [readTo EXCEPT ![s] = Min(next)]
  /\ verdictRows' = InsertPlanVerdict(verdictRows, Min(next), given[Min(next)])
  /\ UNCHANGED <<given, forgets>>

\* deleteSessionRows takes the offset of the log and leaves the verdicts; a log that was
\* replaced is read from its beginning, too.
DeleteSessionRows(s) ==
  /\ forgets < MaxForgets
  /\ readTo[s] > 0
  /\ readTo' = [readTo EXCEPT ![s] = 0]
  /\ forgets' = forgets + 1
  /\ UNCHANGED <<given, verdictRows>>

-----------------------------------------------------------------------------
(* Reading *)

\* ORDER BY created_at; no two verdicts come in one millisecond.
Ordered(rows) ==
  [i \in 1 .. Cardinality(rows) |-> CHOOSE r \in rows : r.at = Nth({q.at : q \in rows}, i)]

\* cwdFilter: a row without a project is one of every project.
InProject(project) == {r \in verdictRows : r.project \in {project, Nowhere}}
ListVerdicts(project) == Ordered(InProject(project))
HasHumanApproval(project) ==
  \E r \in InProject(project) : r.reviewer = Human /\ r.colour = "green"
LatestVerdictExcludingHumanGreen(project) ==
  LET all == ListVerdicts(project) IN
  IF all = <<>> \/ HasHumanApproval(project) THEN Nowhere ELSE Last(all)

\* backfillPlanCwd gives a row of a known session the project of the session, as the daemon starts.
OldRows ==
  {[id |-> 0, session |-> s, reviewer |-> "reviewer", colour |-> "red", project |-> Nowhere,
    at |-> 0] : s \in Reviewers \cup {Nowhere}}
BackfillPlanCwd(rows) ==
  {IF r.project = Nowhere /\ r.session \in Reviewers
   THEN [r EXCEPT !.project = ProjectOf[r.session]] ELSE r : r \in rows}

VerdictInit ==
  /\ given = <<>> /\ forgets = 0
  /\ readTo = [s \in Reviewers |-> 0]
  /\ \/ verdictRows = {}
     \/ \E r \in OldRows : verdictRows = BackfillPlanCwd({r})
VerdictNext ==
  \/ \E s \in Reviewers, colour \in Colours : SubmitReviewVerdict(s, colour)
  \/ \E p \in Projects, colour \in Colours : RecordVerdict(p, colour)
  \/ \E s \in Reviewers : MaterializePlanEvent(s) \/ DeleteSessionRows(s)
VerdictSpec == VerdictInit /\ [][VerdictNext]_verdictVars

-----------------------------------------------------------------------------
(* What the list promises *)

(* The list of a project is the verdicts that were given in it, each once and in the
   order of time, save those still in a log, however often and late the logs are read;
   and the row of an earlier release, which is older. *)
ListIsHistory ==
  \A p \in Projects :
    LET list == ListVerdicts(p)
        missing == UNION {{i \in LogOf(s) : i > readTo[s]} : s \in Reviewers}
        kept == {i \in DOMAIN given : given[i].project = p
                                     /\ (i \notin missing \/ \E r \in verdictRows : r.id = i)}
    IN  /\ {list[i].id : i \in DOMAIN list} = kept \cup ({r.id : r \in InProject(p)} \cap {0})
        /\ \A i, j \in DOMAIN list : i < j => list[i].id < list[j].id

(* A change that a human approved shows no verdict to act upon; any other shows the
   verdict given last of those that have arrived. *)
PillIsLatest ==
  \A p \in Projects :
    LET approved == Verdict(Nowhere, Human, "green", p) \in ToSet(given)
        arrived == {r.id : r \in InProject(p)}
        pill == LatestVerdictExcludingHumanGreen(p)
    IN  IF approved \/ arrived = {} THEN pill = Nowhere ELSE pill # Nowhere /\ pill.id = Max(arrived)

VerdictsAreTrue == ListIsHistory /\ PillIsLatest
=============================================================================
