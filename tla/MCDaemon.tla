------------------------------ MODULE MCDaemon ------------------------------
(* Instances of Daemon for TLC: two processes of different versions.        *)
EXTENDS Daemon, TLC

CONSTANTS h1, h2, old, new

TwoBuilds == h1 :> old @@ h2 :> new
SameBuild == h1 :> new @@ h2 :> new
FewJobs == {<<h1, 1>>, <<h1, 2>>, <<h2, 1>>}

\* A session of each process, with one call pending; it ends, or that of the second stays.
OneSession == [calls |-> {<<h1, 1>>, <<h2, 1>>}, operators |-> {h1}, gens |-> h1 :> 2 @@ h2 :> 2]
SecondStays == [OneSession EXCEPT !.gens = h1 :> 2 @@ h2 :> 1]
\* The first ends its session and starts another while the dashboard of the first is
\* still starting.
TwoSessions == [calls |-> FewJobs, operators |-> {}, gens |-> h1 :> 3 @@ h2 :> 1]

\* The second process runs a newer version, or a process may crash, or a daemon answers
\* slowly, or sessions follow each other.
FewWorlds ==
  { [faults |-> {}, build |-> TwoBuilds, bound |-> OneSession],
    [faults |-> {"crash"}, build |-> SameBuild, bound |-> SecondStays],
    [faults |-> {"slow"}, build |-> SameBuild, bound |-> OneSession],
    [faults |-> {}, build |-> SameBuild, bound |-> TwoSessions] }
=============================================================================
