----------------------------- MODULE PlanReads -----------------------------
(* The plan routes of the dashboard daemon (observability/server/plan-routes.ts):
   a request takes a fingerprint of the files of a change and shares the run of
   the OpenSpec CLI for that fingerprint with every other request that has the
   same one.  The planners edit the files meanwhile and browsers go away.

   tree[f] counts the edits of a file, which is what size and mtime tell.  The
   two routes differ in the files and in what is computed from the result
   without waiting; one route stands for both.                              *)
EXTENDS Integers, Sequences, FiniteSets, SequencesExt

CONSTANTS
  Roots,     \* the roots of a fingerprint, in the order they are walked
  Requests,  \* HTTP requests
  Loads,     \* runs of the CLI
  MaxCache,  \* MAX_CACHE_ENTRIES
  MaxTreeEdits,  \* bound on tree[f]
  NoKey

ASSUME PlanReadsAssumption ==
  /\ Roots \in Seq(Range(Roots)) /\ Roots # <<>> /\ MaxCache \in Nat \ {0} /\ MaxTreeEdits \in Nat
  /\ NoKey \notin Loads

VARIABLES
  tree,     \* the files on disk
  req,      \* the requests
  load,     \* the runs of the CLI
  inFlight, \* pairs <<key, load>>
  cache     \* resultCache, oldest first: <<key, value>>

readVars == <<tree, req, load, inFlight, cache>>

Names == Range(Roots)
Keys == [Names -> 0..MaxTreeEdits]
Idle == [stage |-> "idle", aborted |-> FALSE, since |-> NoKey, walked |-> 0, key |-> NoKey,
         load |-> NoKey, answer |-> NoKey]
NoLoad == [stage |-> "none", key |-> NoKey, value |-> NoKey]

ReadInit ==
  /\ tree = [f \in Names |-> 0]
  /\ req = [r \in Requests |-> Idle]
  /\ load = [l \in Loads |-> NoLoad]
  /\ inFlight = {}
  /\ cache = <<>>

\* A request that is over: what it was answered, and since when it was asked.
Answered(r, value) == [Idle EXCEPT !.stage = "ok", !.since = req[r].since, !.answer = value]
Unanswered(stage) == [Idle EXCEPT !.stage = stage]

-----------------------------------------------------------------------------
\* Planners and the user edit files whenever they like.
EditFile(f) ==
  /\ tree[f] < MaxTreeEdits
  /\ tree' = [tree EXCEPT ![f] = @ + 1]
  /\ UNCHANGED <<req, load, inFlight, cache>>

Ask(r) ==
  /\ req[r].stage = "idle"
  /\ req' = [req EXCEPT ![r] = [Idle EXCEPT !.stage = "walking", !.since = tree, !.key = tree]]
  /\ UNCHANGED <<tree, load, inFlight, cache>>

\* One lstat of the walk; an aborted request is noticed before it.
Walk(r) ==
  LET n == req[r].walked + 1 IN
  /\ req[r].stage = "walking" /\ n <= Len(Roots)
  /\ req' = IF req[r].aborted
            THEN [req EXCEPT ![r] = Unanswered("cancelled")]
            ELSE [req EXCEPT ![r].walked = n, ![r].key[Roots[n]] = tree[Roots[n]]]
  /\ UNCHANGED <<tree, load, inFlight, cache>>

Cached(key) == {e[2] : e \in {x \in Range(cache) : x[1] = key}}
Flying(key) == {e[2] : e \in {x \in inFlight : x[1] = key}}
\* Identifiers that no run bears: any of them will do for the next one.
FreeLoads == {l \in Loads : load[l].stage = "none"}
Waiters(l) == {r \in Requests : req[r].stage = "waiting" /\ req[r].load = l}

\* waitForShared: a request that was aborted in the meantime does not wait.
Wait(r, l) ==
  req' = [req EXCEPT ![r] = IF req[r].aborted THEN Unanswered("cancelled")
                            ELSE [@ EXCEPT !.stage = "waiting", !.load = l]]

\* cachedShared with the complete fingerprint: a result of it is kept, or a run for
\* it is in flight, or a run is started.
Serve(r) ==
  LET key == req[r].key IN
  /\ req[r].stage = "walking" /\ req[r].walked = Len(Roots)
  /\ \/ /\ Cached(key) # {}
        /\ req' = [req EXCEPT ![r] = Answered(r, CHOOSE v \in Cached(key) : TRUE)]
        /\ UNCHANGED <<load, inFlight>>
     \/ /\ Cached(key) = {}
        /\ \E l \in Flying(key) : Wait(r, l)
        /\ UNCHANGED <<load, inFlight>>
     \/ /\ Cached(key) = {} /\ Flying(key) = {}
        /\ FreeLoads # {}
        /\ LET l == CHOOSE x \in FreeLoads : TRUE IN
           /\ load' = [load EXCEPT ![l] = [stage |-> "running", key |-> key, value |-> NoKey]]
           /\ inFlight' = inFlight \cup {<<key, l>>}
           /\ Wait(r, l)
  /\ UNCHANGED <<tree, cache>>

\* The browser is gone.  The last one who waits takes the run of the CLI with it: the
\* process is killed, and the promise settles when it has closed.
AbortRequest(r) ==
  /\ req[r].stage \in {"walking", "waiting"} /\ ~req[r].aborted
  /\ req' = [req EXCEPT ![r] = IF @.stage = "waiting" THEN Unanswered("cancelled")
                               ELSE [@ EXCEPT !.aborted = TRUE]]
  /\ load' = IF req[r].stage = "waiting" /\ Waiters(req[r].load) = {r}
             THEN [load EXCEPT ![req[r].load].stage = "killed"]
             ELSE load
  /\ UNCHANGED <<tree, inFlight, cache>>

\* The CLI reads the files at some moment of its run.
LoadReads(l) ==
  /\ load[l].stage = "running" /\ load[l].value = NoKey
  /\ load' = [load EXCEPT ![l].value = tree]
  /\ UNCHANGED <<tree, req, inFlight, cache>>

\* The promise of the run settles: clean-up, then everybody who waits for it.
Settle(l, stage, value) ==
  /\ load' = [load EXCEPT ![l] = NoLoad]
  /\ inFlight' = {x \in inFlight : x[2] # l}
  /\ req' = [r \in Requests |->
               IF r \notin Waiters(l) THEN req[r]
               ELSE IF stage = "ok" THEN Answered(r, value) ELSE Unanswered(stage)]
  /\ UNCHANGED tree

\* remember: the newest entry last, the oldest dropped.
Without(key) ==
  IF Cached(key) = {} THEN cache ELSE RemoveAt(cache, CHOOSE i \in DOMAIN cache : cache[i][1] = key)
Remember(key, value) ==
  LET all == Append(Without(key), <<key, value>>)
  IN  IF Len(all) > MaxCache THEN Tail(all) ELSE all

\* Mutant: results are kept under the files as they are now.
LoadSucceeds_KeyedLate(l) ==
  /\ load[l].stage = "running" /\ load[l].value # NoKey
  /\ Settle(l, "ok", load[l].value)
  /\ cache' = Remember(tree, load[l].value)

LoadSucceeds(l) ==
  /\ load[l].stage = "running" /\ load[l].value # NoKey
  /\ Settle(l, "ok", load[l].value)
  /\ cache' = Remember(load[l].key, load[l].value)

\* The process fails, prints no JSON or runs into the time or output limit; or it
\* was killed and has closed.
LoadFails(l) ==
  /\ \/ load[l].stage = "running" /\ Settle(l, "error", NoKey)
     \/ load[l].stage = "killed" /\ Settle(l, "cancelled", NoKey)
  /\ UNCHANGED cache

\* An answered request leaves; its identifier serves another one.
Close(r) ==
  /\ req[r].stage \in {"ok", "error", "cancelled"}
  /\ req' = [req EXCEPT ![r] = Idle]
  /\ UNCHANGED <<tree, load, inFlight, cache>>

ReadNext ==
  \/ \E f \in Names : EditFile(f)
  \/ \E r \in Requests : Ask(r) \/ Walk(r) \/ Serve(r) \/ AbortRequest(r) \/ Close(r)
  \/ \E l \in Loads : LoadReads(l) \/ LoadSucceeds(l) \/ LoadFails(l)

\* File operations end; a run of the CLI ends, at the latest by its time limit.
ReadFairness ==
  /\ \A r \in Requests : WF_readVars(Walk(r) \/ Serve(r))
  /\ \A l \in Loads : WF_readVars(LoadSucceeds(l) \/ LoadFails(l))

-----------------------------------------------------------------------------
\* Types of the plan routes; a load in flight is one that runs or closes.
ReadTypeOK ==
  /\ tree \in Keys
  /\ \A r \in Requests :
       /\ req[r].stage \in {"idle", "walking", "waiting", "ok", "error", "cancelled"}
       /\ req[r].load \in Loads \cup {NoKey} /\ req[r].answer \in Keys \cup {NoKey}
  /\ \A x \in inFlight : load[x[2]].stage \in {"running", "killed"} /\ load[x[2]].key = x[1]
  /\ \A x \in Range(cache) : x[1] \in Keys /\ x[2] \in Keys

\* planDetail and listPlans: however requests share runs and results, an answer shows
\* each file as it was when the request arrived, or later.
AnswersAreFresh ==
  \A r \in Requests : req[r].stage = "ok" => \A f \in Names : req[r].answer[f] >= req[r].since[f]

\* plan-routes.ts:7-9, "never launch duplicate validators": two runs of the CLI at
\* one time are for different fingerprints.
OneRunPerVersion ==
  \A k, l \in Loads : load[k].stage # "none" /\ load[l].stage # "none" /\ load[k].key = load[l].key => k = l

\* Every request that is not answered yet waits for a run that goes on or closes, so
\* none is left behind when its run ends under another one's abort.
WaitersHaveRun ==
  \A r \in Requests : req[r].stage = "waiting" =>
    load[req[r].load].stage \in {"running", "killed"} /\ load[req[r].load].key = req[r].key

\* Sharing spoils nothing: fresh answers, no duplicate runs, nobody without a run.
PlanReadsSound == AnswersAreFresh /\ OneRunPerVersion /\ WaitersHaveRun

\* A request is answered, or cancelled when its run is taken away.
RequestsEnd == \A r \in Requests : []<>(req[r].stage \notin {"walking", "waiting"})
=============================================================================
