------------------------------- MODULE Records -------------------------------
(* What the daemon keeps and shows of the sessions: their runs (Spans), the teams they
   ran under (Versions) and what reviewers concluded (Verdicts).  The three share no
   state: each takes its steps beside the others. *)
EXTENDS Spans, Versions, Verdicts

RecordSpec ==
  /\ SpanInit /\ [][SpanNext]_spanVars
  /\ VersionInit /\ [][VersionNext]_versionVars
  /\ VerdictInit /\ [][VerdictNext]_verdictVars

(* What the daemon stores and shows of a session is what happened in it. *)
RecordsAreTrue == SpansAreTrue /\ VersionsAreTrue /\ VerdictsAreTrue
=============================================================================
