----------------------------- MODULE MCDashboard -----------------------------
(* Instances of Dashboard for TLC. *)
EXTENDS Dashboard

CONSTANTS s1, s2

\* Each behaviour has the mishaps of one of these sets, each of them once.
Mishaps == {{"page", "drop"}, {"page", "crash"}, {"page", "delete"}, {"page", "prune"},
            {"crash", "host", "prune"}, {"crash", "host", "delete"}, {"crash", "unlink"}}

\* One request removes the telemetry of a session.
Deletion == {{"page", "drop", "delete"}}
=============================================================================
