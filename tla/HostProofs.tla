------------------------------ MODULE HostProofs ------------------------------
(***************************************************************************)
(* Proofs about eight parts of the host that share no state, each for its  *)
(* own initial states and steps, and for any number of requests, targets,  *)
(* sessions, actions, exits and agents.                                    *)
(*                                                                         *)
(* ReadInv: every state of the files a request or a run holds covers       *)
(* the one it was asked for (Covers), through the walk, the run in flight  *)
(* and what is kept of it; and a run that has not settled is in flight     *)
(* under its key, so that no second one starts.                            *)
(* DistillInv: if aborts settle before a session ends, only the session    *)
(* there is has tasks.                                                     *)
(* BridgeInv: actions are enqueued once, so that a cursor separates what   *)
(* lies ahead from what is asked, sent or lost, each in one place; what a  *)
(* session has been sent are lines of its file, in their order.            *)
(* CycleInv: an exit is pending, or in the hands of one handler that has   *)
(* left what its attempt says in the tree, or over.                        *)
(* VerdictInv: a verdict that was given has one row, which says the same,  *)
(* or lies ahead of the offset of its log; so the rows of a project in the *)
(* order of their numbers are its history.                                 *)
(* SpanInv: if modes change between runs, what was summed for an agent is  *)
(* what its last end tells; every start and end has one row, in which an   *)
(* end is that of its run, or of none.                                     *)
(* VersionInv: a version that is stored has one row for every node of its  *)
(* teams, so that a row without its teams gives those of the snapshot it   *)
(* was made of; a model has a row for the last of its reports.             *)
(* TeamInv: the runtimes are agents of the configuration that was loaded,  *)
(* which are still those of the file, with its reports, or with those its  *)
(* entry lists once they were reloaded.                                    *)
(***************************************************************************)
EXTENDS PlanReads, Distiller, ActionBridge, CycleRestore, Records, Team, TLAPS, FiniteSetTheorems

-----------------------------------------------------------------------------
(* The plan routes of the daemon *)

\* What requests and runs of the CLI are.
Stages == {"idle", "walking", "waiting", "ok", "error", "cancelled"}
Reqs == [stage : Stages, aborted : BOOLEAN, since : Keys \cup {NoKey}, walked : Nat,
         key : Keys \cup {NoKey}, load : Loads \cup {NoKey}, answer : Keys \cup {NoKey}]
Loading == [stage : {"none", "running", "killed"}, key : Keys \cup {NoKey}, value : Keys \cup {NoKey}]

\* One state of the files is not older than another.
Covers(new, old) == \A f \in Names : new[f] >= old[f]

\* Types of the plan routes.
ReadsTyped ==
  /\ tree \in Keys
  /\ req \in [Requests -> Reqs] /\ load \in [Loads -> Loading]
  /\ inFlight \subseteq Keys \X Loads /\ cache \in Seq(Keys \X Keys)

\* A request asks for files that are as it found them or as they became later.
RequestsInTime ==
  \A r \in Requests :
    /\ req[r].stage \in {"walking", "waiting"} =>
         /\ req[r].since \in Keys /\ req[r].key \in Keys
         /\ Covers(req[r].key, req[r].since) /\ Covers(tree, req[r].key)
    /\ req[r].stage = "ok" =>
         /\ req[r].since \in Keys /\ req[r].answer \in Keys
         /\ Covers(req[r].answer, req[r].since)
    /\ req[r].stage = "waiting" =>
         /\ req[r].load \in Loads /\ load[req[r].load].stage # "none"
         /\ load[req[r].load].key = req[r].key

\* A run is in flight until its promise has settled, and reads the files after they had its
\* fingerprint.
RunsInFlight ==
  \A l \in Loads :
    load[l].stage # "none" =>
      /\ load[l].key \in Keys /\ Covers(tree, load[l].key)
      /\ load[l].value # NoKey => load[l].value \in Keys /\ Covers(load[l].value, load[l].key)
      /\ <<load[l].key, l>> \in inFlight
      /\ \A k \in Loads : load[k].stage # "none" /\ load[k].key = load[l].key => k = l

\* What is in flight runs, and what is kept is not older than its key.
KeptInTime ==
  /\ \A x \in inFlight : load[x[2]].stage # "none" /\ load[x[2]].key = x[1]
  /\ \A i \in 1 .. Len(cache) : Covers(cache[i][2], cache[i][1])

\* The invariant of the plan routes.
ReadInv == ReadsTyped /\ RequestsInTime /\ RunsInFlight /\ KeptInTime

\* Nobody has asked at first.
LEMMA ReadStarts == ReadInit => ReadInv
<1> USE DEF ReadInit
<1>1. ReadInit => tree \in Keys
  BY PlanReadsAssumption DEF Keys
<1>2. Idle \in Reqs /\ Idle.stage = "idle" /\ NoLoad \in Loading /\ NoLoad.stage = "none"
  BY DEF Idle, Reqs, Stages, NoLoad, Loading
<1>3. ReadInit => ReadsTyped
  BY <1>1, <1>2 DEF ReadsTyped
<1>4. ReadInit => RequestsInTime /\ RunsInFlight
  BY <1>2 DEF RequestsInTime, RunsInFlight
<1>5. ReadInit => KeptInTime
  BY DEF KeptInTime
<1> QED
  BY <1>3, <1>4, <1>5 DEF ReadInv

\* Coverage is transitive.
LEMMA CoversTrans ==
  ASSUME NEW a \in Keys, NEW b \in Keys, NEW c \in Keys, Covers(a, b), Covers(b, c)
  PROVE  Covers(a, c)
<1>1. \A f \in Names : a[f] \in Int /\ b[f] \in Int /\ c[f] \in Int
  BY PlanReadsAssumption DEF Keys
<1> QED
  BY <1>1 DEF Covers

\* Every state of the files covers itself.
LEMMA CoversSelf == ASSUME NEW a \in Keys PROVE Covers(a, a)
<1>1. \A f \in Names : a[f] \in Int
  BY PlanReadsAssumption DEF Keys
<1> QED
  BY <1>1 DEF Covers

\* Edits make the files newer.
LEMMA EditKeepsReads ==
  ASSUME ReadInv, NEW f \in Names, EditFile(f)
  PROVE  ReadInv'
<1>1. UNCHANGED <<req, load, inFlight, cache>> /\ tree \in Keys
  BY DEF EditFile, ReadInv, ReadsTyped
<1>2. \A g \in Names : tree[g] \in 0 .. MaxTreeEdits
  BY <1>1 DEF Keys
<1>3. tree' \in Keys /\ Covers(tree', tree)
  BY <1>1, <1>2, PlanReadsAssumption DEF EditFile, Keys, Covers
<1>4. \A k \in Keys : Covers(tree, k) => Covers(tree', k)
  BY <1>1, <1>3, CoversTrans
<1>5. ReadsTyped'
  BY <1>1, <1>3 DEF ReadInv, ReadsTyped
<1>6. RequestsInTime'
  BY <1>1, <1>4 DEF ReadInv, RequestsInTime
<1>7. RunsInFlight'
  BY <1>1, <1>4 DEF ReadInv, RunsInFlight
<1>8. KeptInTime'
  BY <1>1 DEF ReadInv, KeptInTime
<1> QED
  BY <1>5, <1>6, <1>7, <1>8 DEF ReadInv

\* A step of one request that leaves runs and results alone.
LEMMA RequestKeepsReads ==
  ASSUME ReadInv, NEW r \in Requests, NEW q \in Reqs,
         req' = [req EXCEPT ![r] = q], UNCHANGED <<tree, load, inFlight, cache>>,
         q.stage \in {"walking", "waiting"} =>
           /\ q.since \in Keys /\ q.key \in Keys
           /\ Covers(q.key, q.since) /\ Covers(tree, q.key),
         q.stage = "ok" => q.since \in Keys /\ q.answer \in Keys /\ Covers(q.answer, q.since),
         q.stage = "waiting" =>
           q.load \in Loads /\ load[q.load].stage # "none" /\ load[q.load].key = q.key
  PROVE  ReadInv'
<1>1. \A p \in Requests : req'[p] = IF p = r THEN q ELSE req[p]
  BY DEF ReadInv, ReadsTyped
<1>2. ReadsTyped'
  BY DEF ReadInv, ReadsTyped
<1>3. RequestsInTime'
  BY <1>1 DEF ReadInv, RequestsInTime
<1>4. RunsInFlight' /\ KeptInTime'
  BY DEF ReadInv, RunsInFlight, KeptInTime
<1> QED
  BY <1>2, <1>3, <1>4 DEF ReadInv

\* A request that is over without an answer.
LEMMA UnansweredTyped ==
  ASSUME NEW s \in {"error", "cancelled"}
  PROVE  Unanswered(s) \in Reqs /\ Unanswered(s).stage = s /\ Idle \in Reqs /\ Idle.stage = "idle"
  BY DEF Unanswered, Idle, Reqs, Stages

\* A request that arrives asks for what it finds.
LEMMA AskKeepsReads ==
  ASSUME ReadInv, NEW r \in Requests, Ask(r)
  PROVE  ReadInv'
<1> DEFINE q == [Idle EXCEPT !.stage = "walking", !.since = tree, !.key = tree]
<1>1. tree \in Keys /\ Covers(tree, tree)
  BY CoversSelf DEF ReadInv, ReadsTyped
<1>2. q \in Reqs /\ q.stage = "walking" /\ q.since = tree /\ q.key = tree
  BY <1>1 DEF Idle, Reqs, Stages
<1>3. req' = [req EXCEPT ![r] = q] /\ UNCHANGED <<tree, load, inFlight, cache>>
  BY DEF Ask
<1> HIDE DEF q
<1> QED
  BY <1>1, <1>2, <1>3, RequestKeepsReads

\* What the walk finds is at least as new as what the request found on arrival.
LEMMA WalkKeepsReads ==
  ASSUME ReadInv, NEW r \in Requests, Walk(r)
  PROVE  ReadInv'
<1> DEFINE n == req[r].walked + 1
           f == Roots[n]
           key == [req[r].key EXCEPT ![f] = tree[f]]
           q == [req[r] EXCEPT !.walked = n, !.key = key]
<1>1. req[r] \in Reqs /\ req[r].stage = "walking" /\ n \in Nat /\ n \in 1 .. Len(Roots)
  BY DEF Walk, ReadInv, ReadsTyped, Reqs
<1>2. f \in Names
  BY <1>1, PlanReadsAssumption DEF Names, Range
<1>3. /\ req[r].since \in Keys /\ req[r].key \in Keys /\ tree \in Keys
      /\ Covers(req[r].key, req[r].since) /\ Covers(tree, req[r].key)
  BY <1>1 DEF ReadInv, RequestsInTime, ReadsTyped
<1>4. key \in Keys
  BY <1>2, <1>3 DEF Keys
<1>5. \A g \in Names : key[g] = IF g = f THEN tree[f] ELSE req[r].key[g]
  BY <1>2, <1>3 DEF Keys
<1>6. Covers(tree, req[r].since)
  BY <1>3, CoversTrans
<1>7. Covers(key, req[r].since)
  BY <1>3, <1>5, <1>6 DEF Covers
<1>8. Covers(tree, tree)
  BY <1>3, CoversSelf
<1>9. Covers(tree, key)
  BY <1>3, <1>5, <1>8 DEF Covers
<1>10. UNCHANGED <<tree, load, inFlight, cache>>
  BY DEF Walk
<1>11. CASE req[r].aborted
  BY <1>10, <1>11, UnansweredTyped, RequestKeepsReads DEF Walk
<1>12. CASE ~req[r].aborted
  <2>1. req' = [req EXCEPT ![r] = q]
    BY <1>1, <1>3, <1>12 DEF Walk, ReadInv, ReadsTyped, Reqs
  <2> HIDE DEF key, n
  <2>2. q \in Reqs /\ q.stage = "walking" /\ q.since = req[r].since /\ q.key = key
    BY <1>1, <1>4 DEF Reqs
  <2> HIDE DEF q
  <2> QED
    BY <1>3, <1>4, <1>7, <1>9, <1>10, <2>1, <2>2, RequestKeepsReads
<1> QED
  BY <1>11, <1>12

\* An answer is a request that is over.
LEMMA AnsweredTyped ==
  ASSUME NEW r \in Requests, req[r] \in Reqs, NEW v \in Keys
  PROVE  /\ Answered(r, v) \in Reqs /\ Answered(r, v).stage = "ok"
         /\ Answered(r, v).since = req[r].since /\ Answered(r, v).answer = v
  BY DEF Answered, Idle, Reqs, Stages

\* A request that begins to wait for a run of its key, or was aborted before.
LEMMA WaitKeepsRequests ==
  ASSUME ReadsTyped, RequestsInTime, NEW r \in Requests, NEW l \in Loads,
         req[r].stage = "walking", Wait(r, l), tree' = tree,
         load'[l].stage # "none", load'[l].key = req[r].key,
         \A m \in Loads : load[m].stage # "none" => load'[m] = load[m]
  PROVE  req' \in [Requests -> Reqs] /\ RequestsInTime'
<1> DEFINE q == [req[r] EXCEPT !.stage = "waiting", !.load = l]
<1>1. req[r] \in Reqs
  BY DEF ReadsTyped
<1>2. /\ q \in Reqs /\ q.stage = "waiting" /\ q.since = req[r].since /\ q.key = req[r].key
      /\ q.load = l
  BY <1>1 DEF Reqs, Stages
<1>3. /\ req' = [req EXCEPT ![r] = IF req[r].aborted THEN Unanswered("cancelled") ELSE q]
  BY DEF Wait, ReadsTyped
<1> HIDE DEF q
<1>4. req' \in [Requests -> Reqs]
  BY <1>2, <1>3, UnansweredTyped DEF ReadsTyped
<1>5. \A p \in Requests : p # r => req'[p] = req[p]
  BY <1>3 DEF ReadsTyped
<1>6. req'[r] = q \/ req'[r] = Unanswered("cancelled")
  BY <1>3 DEF ReadsTyped
<1>7. \A p \in Requests : req[p].stage = "waiting" => load'[req[p].load] = load[req[p].load]
  BY DEF RequestsInTime
<1>8. RequestsInTime'
  BY <1>2, <1>5, <1>6, <1>7, UnansweredTyped DEF RequestsInTime
<1> QED
  BY <1>4, <1>8

\* A kept result is as new as its key, a run in flight is waited for, and where there is
\* neither a run of its own starts.
LEMMA ServeKeepsReads ==
  ASSUME ReadInv, NEW r \in Requests, Serve(r)
  PROVE  ReadInv'
<1> DEFINE key == req[r].key
<1>1. /\ req[r] \in Reqs /\ req[r].stage = "walking" /\ key \in Keys /\ req[r].since \in Keys
      /\ Covers(key, req[r].since) /\ Covers(tree, key) /\ UNCHANGED <<tree, cache>>
  BY DEF Serve, ReadInv, ReadsTyped, RequestsInTime
<1>2. ASSUME Cached(key) # {}, UNCHANGED <<load, inFlight>>,
             req' = [req EXCEPT ![r] = Answered(r, CHOOSE v \in Cached(key) : TRUE)]
      PROVE  ReadInv'
  <2> DEFINE v == CHOOSE x \in Cached(key) : TRUE
  <2>1. v \in Cached(key)
    BY <1>2
  <2>2. PICK e \in Range(cache) : e[1] = key /\ e[2] = v
    BY <2>1 DEF Cached
  <2>3. PICK i \in 1 .. Len(cache) : e = cache[i]
    BY DEF Range, ReadInv, ReadsTyped
  <2> HIDE DEF v
  <2>4. v \in Keys /\ Covers(v, key)
    <3>1. cache[i] \in Keys \X Keys /\ Covers(cache[i][2], cache[i][1])
      BY DEF ReadInv, ReadsTyped, KeptInTime
    <3> QED
      BY <2>2, <2>3, <3>1
  <2>5. Covers(v, req[r].since)
    BY <1>1, <2>4, CoversTrans
  <2>6. req' = [req EXCEPT ![r] = Answered(r, v)]
    BY <1>2 DEF v
  <2> QED
    BY <1>1, <1>2, <2>4, <2>5, <2>6, AnsweredTyped, RequestKeepsReads
<1>3. ASSUME NEW l \in Flying(key), Wait(r, l), UNCHANGED <<load, inFlight>>
      PROVE  ReadInv'
  <2>1. l \in Loads /\ load[l].stage # "none" /\ load[l].key = key
    BY <1>3 DEF Flying, ReadInv, ReadsTyped, KeptInTime
  <2>2. req' \in [Requests -> Reqs] /\ RequestsInTime'
    BY <1>1, <1>3, <2>1, WaitKeepsRequests DEF ReadInv
  <2> QED
    BY <1>1, <1>3, <2>2 DEF ReadInv, ReadsTyped, RunsInFlight, KeptInTime
<1>4. ASSUME Flying(key) = {}, NEW l \in FreeLoads, Wait(r, l),
             load' = [load EXCEPT ![l] = [stage |-> "running", key |-> key, value |-> NoKey]],
             inFlight' = inFlight \cup {<<key, l>>}
      PROVE  ReadInv'
  <2> DEFINE run == [stage |-> "running", key |-> key, value |-> NoKey]
  <2>1. l \in Loads /\ load[l].stage = "none"
    BY DEF FreeLoads
  <2>2. run \in Loading /\ run.stage = "running" /\ run.key = key /\ run.value = NoKey
    BY <1>1 DEF Loading
  <2> HIDE DEF run
  <2>3. load' \in [Loads -> Loading] /\ \A m \in Loads : load'[m] = IF m = l THEN run ELSE load[m]
    BY <1>4, <2>1, <2>2 DEF run, ReadInv, ReadsTyped
  <2>4. req' \in [Requests -> Reqs] /\ RequestsInTime'
    BY <1>1, <1>4, <2>1, <2>2, <2>3, WaitKeepsRequests DEF ReadInv
  <2>5. \A m \in Loads : load[m].stage # "none" => m # l /\ load[m].key # key
    <3> SUFFICES ASSUME NEW m \in Loads, load[m].stage # "none", load[m].key = key PROVE FALSE
      BY <2>1
    <3>1. <<key, m>> \in inFlight
      BY DEF ReadInv, RunsInFlight
    <3>2. <<key, m>>[2] \in Flying(key)
      BY <3>1 DEF Flying
    <3> QED
      BY <1>4, <3>2
  <2>6. ReadsTyped'
    BY <1>1, <1>4, <2>1, <2>3, <2>4 DEF ReadInv, ReadsTyped
  <2>7. RunsInFlight'
    BY <1>1, <1>4, <2>2, <2>3, <2>5 DEF ReadInv, RunsInFlight
  <2>8. \A x \in inFlight : x[2] \in Loads /\ x[2] # l
    BY <2>1 DEF ReadInv, ReadsTyped, KeptInTime
  <2>9. KeptInTime'
    BY <1>1, <1>4, <2>2, <2>3, <2>8 DEF ReadInv, KeptInTime
  <2> QED
    BY <2>4, <2>6, <2>7, <2>9 DEF ReadInv
<1> QED
  BY <1>2, <1>3, <1>4 DEF Serve

\* The identifier of a request that is over serves another one.
LEMMA CloseKeepsReads ==
  ASSUME ReadInv, NEW r \in Requests, Close(r)
  PROVE  ReadInv'
  BY UnansweredTyped, RequestKeepsReads DEF Close

\* A run keeps its key, and its place in flight, when it reads or is killed.
LEMMA RunKeepsReads ==
  ASSUME ReadInv, NEW l \in Loads, NEW s \in {"running", "killed"}, NEW v \in Keys \cup {NoKey},
         load[l].stage # "none",
         load' = [load EXCEPT ![l] = [stage |-> s, key |-> load[l].key, value |-> v]],
         v # NoKey => Covers(v, load[l].key), UNCHANGED <<tree, inFlight, cache>>
  PROVE  /\ load' \in [Loads -> Loading] /\ RunsInFlight' /\ KeptInTime'
         /\ \A m \in Loads : /\ load[m].stage # "none" => load'[m].stage # "none"
                             /\ load'[m].key = load[m].key
<1> DEFINE run == [stage |-> s, key |-> load[l].key, value |-> v]
<1>1. load[l] \in Loading /\ load[l].key \in Keys /\ Covers(tree, load[l].key)
  BY DEF ReadInv, ReadsTyped, RunsInFlight
<1>2. run \in Loading /\ run.stage = s /\ run.key = load[l].key /\ run.value = v
  BY <1>1 DEF Loading
<1>3. load' \in [Loads -> Loading] /\ \A m \in Loads : load'[m] = IF m = l THEN run ELSE load[m]
  BY <1>2 DEF ReadInv, ReadsTyped
<1> HIDE DEF run
<1>4. \A m \in Loads : /\ load[m].stage # "none" <=> load'[m].stage # "none"
                       /\ load'[m].key = load[m].key
                       /\ m # l => load'[m].value = load[m].value
  BY <1>2, <1>3
<1>5. RunsInFlight'
  BY <1>2, <1>3, <1>4 DEF ReadInv, RunsInFlight
<1>6. KeptInTime'
  BY <1>4 DEF ReadInv, ReadsTyped, KeptInTime
<1> QED
  BY <1>3, <1>4, <1>5, <1>6

\* A browser that goes away leaves the others waiting for a run of their key.
LEMMA AbortKeepsReads ==
  ASSUME ReadInv, NEW r \in Requests, AbortRequest(r)
  PROVE  ReadInv'
<1> DEFINE q == IF req[r].stage = "waiting" THEN Unanswered("cancelled")
                ELSE [req[r] EXCEPT !.aborted = TRUE]
           l == req[r].load
<1>1. req[r] \in Reqs /\ req[r].stage \in {"walking", "waiting"} /\ UNCHANGED <<tree, inFlight, cache>>
  BY DEF AbortRequest, ReadInv, ReadsTyped
<1>2. q \in Reqs /\ q.stage # "waiting" /\ q.stage # "ok"
      /\ (q.stage = "walking" => req[r].stage = "walking" /\ q.since = req[r].since /\ q.key = req[r].key)
  <2>1. CASE req[r].stage = "waiting"
    BY <2>1, UnansweredTyped
  <2>2. CASE req[r].stage = "walking"
    BY <1>1, <2>2 DEF Reqs
  <2> QED
    BY <1>1, <2>1, <2>2
<1>3. req' = [req EXCEPT ![r] = q]
  BY <1>1 DEF AbortRequest, ReadInv, ReadsTyped
<1> HIDE DEF q
<1>4. req' \in [Requests -> Reqs] /\ \A p \in Requests : req'[p] = IF p = r THEN q ELSE req[p]
  BY <1>2, <1>3 DEF ReadInv, ReadsTyped
<1>5. /\ load' \in [Loads -> Loading] /\ RunsInFlight' /\ KeptInTime'
      /\ \A m \in Loads : /\ load[m].stage # "none" => load'[m].stage # "none"
                          /\ load'[m].key = load[m].key
  <2>1. CASE load' = load
    BY <1>1, <2>1 DEF ReadInv, ReadsTyped, RunsInFlight, KeptInTime
  <2>2. CASE req[r].stage = "waiting" /\ load' = [load EXCEPT ![l].stage = "killed"]
    <3>1. /\ l \in Loads /\ load[l].stage # "none" /\ load[l] \in Loading
          /\ load[l].value # NoKey => Covers(load[l].value, load[l].key)
      BY <2>2 DEF ReadInv, ReadsTyped, RequestsInTime, RunsInFlight
    <3>2. [load[l] EXCEPT !.stage = "killed"]
            = [stage |-> "killed", key |-> load[l].key, value |-> load[l].value]
      BY <3>1 DEF Loading
    <3>3. load' = [load EXCEPT ![l] = [stage |-> "killed", key |-> load[l].key, value |-> load[l].value]]
      BY <2>2, <3>1, <3>2 DEF ReadInv, ReadsTyped
    <3>4. load[l].value \in Keys \cup {NoKey}
      BY <3>1 DEF Loading
    <3> HIDE DEF l
    <3> QED
      BY <1>1, <3>1, <3>3, <3>4, RunKeepsReads
  <2> QED
    BY <2>1, <2>2 DEF AbortRequest
<1>6. ReadsTyped'
  BY <1>1, <1>4, <1>5 DEF ReadInv, ReadsTyped
<1>7. RequestsInTime'
  BY <1>1, <1>2, <1>4, <1>5 DEF ReadInv, RequestsInTime
<1> QED
  BY <1>5, <1>6, <1>7 DEF ReadInv

\* The CLI reads files that are as new as its fingerprint, or newer.
LEMMA LoadKeepsReads ==
  ASSUME ReadInv, NEW l \in Loads, LoadReads(l)
  PROVE  ReadInv'
<1>1. /\ load[l] \in Loading /\ load[l].stage = "running" /\ tree \in Keys /\ Covers(tree, load[l].key)
      /\ UNCHANGED <<tree, req, inFlight, cache>>
  BY DEF LoadReads, ReadInv, ReadsTyped, RunsInFlight
<1>2. [load[l] EXCEPT !.value = tree] = [stage |-> "running", key |-> load[l].key, value |-> tree]
  BY <1>1 DEF Loading
<1>3. load' = [load EXCEPT ![l] = [stage |-> "running", key |-> load[l].key, value |-> tree]]
  BY <1>2 DEF LoadReads, ReadInv, ReadsTyped
<1>4. /\ load' \in [Loads -> Loading] /\ RunsInFlight' /\ KeptInTime'
      /\ \A m \in Loads : /\ load[m].stage # "none" => load'[m].stage # "none"
                          /\ load'[m].key = load[m].key
  BY <1>1, <1>3, RunKeepsReads
<1>5. ReadsTyped'
  BY <1>1, <1>4 DEF ReadInv, ReadsTyped
<1>6. RequestsInTime'
  BY <1>1, <1>4 DEF ReadInv, RequestsInTime
<1> QED
  BY <1>4, <1>5, <1>6 DEF ReadInv

\* All that wait for a run that settles are answered by it, and no other.
LEMMA SettleKeepsRequests ==
  ASSUME ReadInv, NEW l \in Loads, load[l].stage # "none", NEW s \in {"ok", "error", "cancelled"},
         NEW v, Settle(l, s, v), s = "ok" => v \in Keys /\ Covers(v, load[l].key)
  PROVE  /\ tree' = tree /\ req' \in [Requests -> Reqs] /\ load' \in [Loads -> Loading]
         /\ inFlight' \subseteq Keys \X Loads /\ RequestsInTime' /\ RunsInFlight'
         /\ \A x \in inFlight' : load'[x[2]].stage # "none" /\ load'[x[2]].key = x[1]
<1>1. NoLoad \in Loading /\ NoLoad.stage = "none"
  BY DEF NoLoad, Loading
<1>2. /\ tree' = tree /\ load' \in [Loads -> Loading]
      /\ \A m \in Loads : load'[m] = IF m = l THEN NoLoad ELSE load[m]
      /\ inFlight' \subseteq inFlight /\ \A x \in inFlight : x \in inFlight' <=> x[2] # l
  BY <1>1 DEF Settle, ReadInv, ReadsTyped
<1>3. \A r \in Requests :
        /\ r \notin Waiters(l) => req'[r] = req[r]
        /\ r \in Waiters(l) /\ s = "ok" => req'[r] = Answered(r, v)
        /\ r \in Waiters(l) /\ s # "ok" => req'[r] = Unanswered(s)
  BY DEF Settle
<1>4. \A r \in Requests : req[r] \in Reqs
  BY DEF ReadInv, ReadsTyped
<1>5. \A r \in Waiters(l) : s = "ok" => /\ req[r].since \in Keys
                                        /\ Covers(v, req[r].since)
  <2> SUFFICES ASSUME NEW r \in Waiters(l), s = "ok"
               PROVE  req[r].since \in Keys /\ Covers(v, req[r].since)
    OBVIOUS
  <2>1. /\ req[r].since \in Keys /\ req[r].key \in Keys /\ Covers(req[r].key, req[r].since)
        /\ load[l].key = req[r].key
    BY DEF Waiters, ReadInv, RequestsInTime
  <2> QED
    BY <2>1, CoversTrans
<1>6. \A r \in Requests : req'[r] \in Reqs
  BY <1>3, <1>4, AnsweredTyped, UnansweredTyped
<1>7. req' \in [Requests -> Reqs]
  BY <1>6 DEF Settle
<1>8. \A r \in Requests : r \notin Waiters(l) /\ req[r].stage = "waiting" => req[r].load # l
  BY DEF Waiters
<1>9. ASSUME NEW r \in Requests
      PROVE  /\ req'[r].stage \in {"walking", "waiting"} => r \notin Waiters(l)
             /\ req'[r].stage = "ok" =>
                  /\ req'[r].since \in Keys /\ req'[r].answer \in Keys
                  /\ Covers(req'[r].answer, req'[r].since)
  <2>1. CASE r \notin Waiters(l)
    BY <1>3, <2>1 DEF ReadInv, RequestsInTime
  <2>2. CASE r \in Waiters(l) /\ s = "ok"
    BY <1>3, <1>4, <1>5, <2>2, AnsweredTyped
  <2>3. CASE r \in Waiters(l) /\ s # "ok"
    BY <1>3, <2>3, UnansweredTyped
  <2> QED
    BY <2>1, <2>2, <2>3
<1>10. RequestsInTime'
  BY <1>2, <1>3, <1>8, <1>9 DEF ReadInv, RequestsInTime
<1>11. RunsInFlight'
  BY <1>1, <1>2 DEF ReadInv, RunsInFlight
<1>12. \A x \in inFlight' : load'[x[2]].stage # "none" /\ load'[x[2]].key = x[1]
  BY <1>2 DEF ReadInv, ReadsTyped, KeptInTime
<1>13. inFlight' \subseteq Keys \X Loads
  BY <1>2 DEF ReadInv, ReadsTyped
<1> QED
  BY <1>2, <1>7, <1>10, <1>11, <1>12, <1>13

\* What a concatenation consists of.
LEMMA Concatenated ==
  ASSUME NEW S, NEW a \in Seq(S), NEW b \in Seq(S)
  PROVE  /\ a \o b \in Seq(S) /\ Len(a \o b) = Len(a) + Len(b)
         /\ \A i \in 1 .. Len(a \o b) : (a \o b)[i] = IF i <= Len(a) THEN a[i] ELSE b[i - Len(a)]
  OBVIOUS

\* What is remembered is a result that is as new as its key.
LEMMA RememberKeeps ==
  ASSUME cache \in Seq(Keys \X Keys), NEW k \in Keys, NEW v \in Keys, Covers(v, k),
         \A i \in 1 .. Len(cache) : Covers(cache[i][2], cache[i][1])
  PROVE  /\ Remember(k, v) \in Seq(Keys \X Keys)
         /\ \A i \in 1 .. Len(Remember(k, v)) : Covers(Remember(k, v)[i][2], Remember(k, v)[i][1])
<1> DEFINE rest == Without(k)
           all == Append(rest, <<k, v>>)
<1>1. /\ rest \in Seq(Keys \X Keys)
      /\ \A i \in 1 .. Len(rest) : Covers(rest[i][2], rest[i][1])
  <2>1. CASE Cached(k) = {}
    BY <2>1 DEF Without
  <2>2. CASE Cached(k) # {}
    <3> DEFINE at == CHOOSE i \in DOMAIN cache : cache[i][1] = k
               one == SubSeq(cache, 1, at - 1)
               two == SubSeq(cache, at + 1, Len(cache))
    <3>1. PICK e \in Range(cache) : e[1] = k
      BY <2>2 DEF Cached
    <3>2. \E i \in DOMAIN cache : cache[i][1] = k
      BY <3>1 DEF Range
    <3>3. at \in DOMAIN cache
      BY <3>2
    <3> HIDE DEF at
    <3>4. at \in 1 .. Len(cache) /\ Len(cache) \in Nat
      BY <3>3
    <3>5. /\ one \in Seq(Keys \X Keys) /\ Len(one) = at - 1
          /\ \A i \in 1 .. at - 1 : one[i] = cache[i]
      BY <3>4
    <3>6. /\ two \in Seq(Keys \X Keys) /\ Len(two) = Len(cache) - at
          /\ \A i \in 1 .. Len(cache) - at : two[i] = cache[at + i]
      BY <3>4
    <3>7. rest = one \o two
      BY <2>2 DEF Without, RemoveAt, at
    <3> HIDE DEF one, two, rest
    <3>8. /\ rest \in Seq(Keys \X Keys) /\ Len(rest) = Len(one) + Len(two)
          /\ \A i \in 1 .. Len(rest) :
               rest[i] = IF i <= Len(one) THEN one[i] ELSE two[i - Len(one)]
      BY <3>5, <3>6, <3>7, Concatenated
    <3>9. ASSUME NEW i \in 1 .. Len(rest) PROVE \E j \in 1 .. Len(cache) : rest[i] = cache[j]
      <4>1. Len(rest) = Len(cache) - 1
        BY <3>4, <3>5, <3>6, <3>8
      <4>2. CASE i <= Len(one)
        <5>1. i \in 1 .. at - 1 /\ i \in 1 .. Len(cache) /\ rest[i] = one[i]
          BY <3>4, <3>5, <3>8, <4>1, <4>2
        <5> QED
          BY <3>5, <5>1
      <4>3. CASE ~(i <= Len(one))
        <5>1. /\ i - Len(one) \in 1 .. Len(cache) - at /\ rest[i] = two[i - Len(one)]
              /\ at + (i - Len(one)) \in 1 .. Len(cache)
          BY <3>4, <3>5, <3>8, <4>1, <4>3
        <5> QED
          BY <3>6, <5>1
      <4> QED
        BY <4>2, <4>3
    <3> QED
      BY <3>8, <3>9
  <2> QED
    BY <2>1, <2>2
<1> HIDE DEF rest
<1>2. /\ all \in Seq(Keys \X Keys) /\ Len(all) = Len(rest) + 1 /\ Len(rest) \in Nat
      /\ all[Len(rest) + 1] = <<k, v>> /\ \A i \in 1 .. Len(rest) : all[i] = rest[i]
  BY <1>1
<1>3. \A i \in 1 .. Len(all) : Covers(all[i][2], all[i][1])
  <2> SUFFICES ASSUME NEW i \in 1 .. Len(all) PROVE Covers(all[i][2], all[i][1])
    OBVIOUS
  <2>1. CASE i = Len(rest) + 1
    BY <1>2, <2>1
  <2>2. CASE i # Len(rest) + 1
    <3>1. i \in 1 .. Len(rest)
      BY <1>2, <2>2
    <3> QED
      BY <1>1, <1>2, <3>1
  <2> QED
    BY <2>1, <2>2
<1> HIDE DEF all
<1>4. /\ Tail(all) \in Seq(Keys \X Keys) /\ Len(Tail(all)) = Len(all) - 1
      /\ \A i \in 1 .. Len(all) - 1 : Tail(all)[i] = all[i + 1]
  BY <1>2
<1>5. \A i \in 1 .. Len(Tail(all)) : Covers(Tail(all)[i][2], Tail(all)[i][1])
  <2> SUFFICES ASSUME NEW i \in 1 .. Len(Tail(all)) PROVE Covers(Tail(all)[i][2], Tail(all)[i][1])
    OBVIOUS
  <2>1. i + 1 \in 1 .. Len(all) /\ Tail(all)[i] = all[i + 1]
    BY <1>2, <1>4
  <2> QED
    BY <1>3, <2>1
<1>6. Remember(k, v) = all \/ Remember(k, v) = Tail(all)
  BY DEF Remember, all, rest
<1> QED
  BY <1>2, <1>3, <1>4, <1>5, <1>6

\* A result is kept under the fingerprint its run was started for.
LEMMA SuccessKeepsReads ==
  ASSUME ReadInv, NEW l \in Loads, LoadSucceeds(l)
  PROVE  ReadInv'
<1>1. /\ load[l].stage = "running" /\ load[l].key \in Keys /\ load[l].value \in Keys
      /\ Covers(load[l].value, load[l].key) /\ Settle(l, "ok", load[l].value)
      /\ cache' = Remember(load[l].key, load[l].value)
  BY DEF LoadSucceeds, ReadInv, RunsInFlight
<1>2. /\ tree' = tree /\ req' \in [Requests -> Reqs] /\ load' \in [Loads -> Loading]
      /\ inFlight' \subseteq Keys \X Loads /\ RequestsInTime' /\ RunsInFlight'
      /\ \A x \in inFlight' : load'[x[2]].stage # "none" /\ load'[x[2]].key = x[1]
  BY <1>1, SettleKeepsRequests
<1>3. /\ cache' \in Seq(Keys \X Keys)
      /\ \A i \in 1 .. Len(cache') : Covers(cache'[i][2], cache'[i][1])
  BY <1>1, RememberKeeps DEF ReadInv, ReadsTyped, KeptInTime
<1> QED
  BY <1>2, <1>3 DEF ReadInv, ReadsTyped, KeptInTime

\* A run that fails, or was killed and has closed, is kept nowhere.
LEMMA FailureKeepsReads ==
  ASSUME ReadInv, NEW l \in Loads, LoadFails(l)
  PROVE  ReadInv'
<1>1. /\ load[l].stage # "none" /\ cache' = cache
      /\ \E s \in {"error", "cancelled"} : Settle(l, s, NoKey)
  BY DEF LoadFails
<1>2. /\ tree' = tree /\ req' \in [Requests -> Reqs] /\ load' \in [Loads -> Loading]
      /\ inFlight' \subseteq Keys \X Loads /\ RequestsInTime' /\ RunsInFlight'
      /\ \A x \in inFlight' : load'[x[2]].stage # "none" /\ load'[x[2]].key = x[1]
  BY <1>1, SettleKeepsRequests
<1> QED
  BY <1>1, <1>2 DEF ReadInv, ReadsTyped, KeptInTime

\* Every step keeps it.
LEMMA NextKeepsReads ==
  ASSUME ReadInv, [ReadNext]_readVars
  PROVE  ReadInv'
<1>1. CASE UNCHANGED readVars
  BY <1>1 DEF readVars, ReadInv, ReadsTyped, RequestsInTime, RunsInFlight, KeptInTime
<1> QED
  BY <1>1, EditKeepsReads, AskKeepsReads, WalkKeepsReads, ServeKeepsReads, AbortKeepsReads,
     CloseKeepsReads, LoadKeepsReads, SuccessKeepsReads, FailureKeepsReads DEF ReadNext

\* However requests share runs and results of the OpenSpec CLI, an answer shows each file as
\* it was on arrival or later, no two runs are for one fingerprint, and whoever waits has a
\* run (plan-routes.ts, cachedShared and remember).
THEOREM PlansAreSound == ReadInit /\ [][ReadNext]_readVars => []PlanReadsSound
<1>1. ASSUME ReadInv PROVE AnswersAreFresh
  BY <1>1 DEF ReadInv, RequestsInTime, Covers, AnswersAreFresh
<1>2. ASSUME ReadInv PROVE OneRunPerVersion
  BY <1>2 DEF ReadInv, RunsInFlight, OneRunPerVersion
<1>3. ASSUME ReadInv PROVE WaitersHaveRun
  BY <1>3 DEF ReadInv, ReadsTyped, Loading, RequestsInTime, WaitersHaveRun
<1>4. ReadInv => PlanReadsSound
  BY <1>1, <1>2, <1>3 DEF PlanReadsSound
<1> QED
  BY <1>4, ReadStarts, NextKeepsReads, PTL

-----------------------------------------------------------------------------
(* The distiller *)

\* What a mental model can hold.
Pieces == (Runtimes \cup {<<"others", 0>>}) \X Nat
Tasks == [runtime : Runtimes, run : Nat, stage : {"queued", "running"}, base : SUBSET Pieces]

\* Types of the distiller.
DistillTypeOK ==
  /\ session \in 1 .. MaxSessions /\ ending \in BOOLEAN
  /\ ending => session < MaxSessions
  /\ runCount \in [Runtimes -> Nat] /\ launched \in [Runtimes -> 0 .. Cap]
  /\ tasks \in [Chains -> Seq(Tasks)]
  /\ model \in [Targets -> SUBSET Pieces] /\ edits \in Nat

\* Only the session there is has tasks, if the distillers of a session settle before it
\* has ended.
TasksOfSession == InTime => \A c \in Chains : c[2] # session => tasks[c] = <<>>

\* The invariant of the distiller.
DistillInv == DistillTypeOK /\ TasksOfSession

\* Nothing is queued at first.
LEMMA DistillStarts == DistillInit => DistillInv
<1>1. 1 \in 1 .. MaxSessions /\ Cap \in Nat /\ 0 \in 0 .. Cap
  BY DistillerAssumption
<1>2. DistillInit => DistillTypeOK
  <2>1. <<>> \in Seq(Tasks) /\ {} \in SUBSET Pieces
    OBVIOUS
  <2>2. DistillInit => /\ session \in 1 .. MaxSessions /\ ending = FALSE /\ edits \in Nat
                       /\ runCount \in [Runtimes -> Nat] /\ launched \in [Runtimes -> 0 .. Cap]
    BY <1>1 DEF DistillInit
  <2>3. DistillInit => tasks \in [Chains -> Seq(Tasks)] /\ model \in [Targets -> SUBSET Pieces]
    BY <2>1 DEF DistillInit
  <2> QED
    BY <2>2, <2>3 DEF DistillTypeOK
<1>3. DistillInit => TasksOfSession
  BY DEF DistillInit, TasksOfSession
<1> QED
  BY <1>2, <1>3 DEF DistillInv

\* A run and its task belong to the session there is.
LEMMA RunKeepsTasks ==
  ASSUME DistillInv, NEW w \in Workers, RunOf(w) \/ ScheduleMentalModelDistillation(w)
  PROVE  DistillInv'
<1>1. <<w, session>> \in Runtimes /\ <<Target[w], session>> \in Chains
  BY DistillerAssumption DEF DistillInv, DistillTypeOK, Runtimes, Chains
<1>2. CASE RunOf(w)
  BY <1>1, <1>2 DEF RunOf, DistillInv, DistillTypeOK, TasksOfSession
<1>3. CASE ScheduleMentalModelDistillation(w)
  <2> DEFINE r == <<w, session>>
             c == <<Target[w], session>>
  <2>1. /\ tasks' = [tasks EXCEPT ![c] = Append(@, Queued(r))]
        /\ UNCHANGED <<session, ending, runCount, launched, model, edits>>
    BY <1>3 DEF ScheduleMentalModelDistillation
  <2>2. Queued(r) \in Tasks
    BY <1>1 DEF Queued, Tasks, DistillInv, DistillTypeOK
  <2>3. tasks' \in [Chains -> Seq(Tasks)]
    BY <1>1, <2>1, <2>2 DEF DistillInv, DistillTypeOK
  <2>4. \A d \in Chains : d[2] # session => tasks'[d] = tasks[d]
    BY <1>1, <2>1 DEF DistillInv, DistillTypeOK
  <2> QED
    BY <2>1, <2>3, <2>4 DEF DistillInv, DistillTypeOK, TasksOfSession
<1> QED
  BY <1>2, <1>3

\* The end of the first task of a chain keeps the types of the others.
LEMMA EndKeepsTasks ==
  ASSUME DistillInv, NEW c \in Chains, tasks[c] # <<>>,
         tasks' = [tasks EXCEPT ![c] = Tail(@)], session' = session
  PROVE  /\ First(c) \in Tasks /\ c[1] \in Targets
         /\ tasks' \in [Chains -> Seq(Tasks)] /\ TasksOfSession'
<1>1. tasks[c] \in Seq(Tasks) /\ Tail(tasks[c]) \in Seq(Tasks)
  BY DEF DistillInv, DistillTypeOK
<1>2. tasks' \in [Chains -> Seq(Tasks)]
  BY <1>1 DEF DistillInv, DistillTypeOK
<1>3. InTime => c[2] = session
  BY DEF DistillInv, TasksOfSession
<1>4. \A d \in Chains : d # c => tasks'[d] = tasks[d]
  BY DEF DistillInv, DistillTypeOK
<1>5. TasksOfSession'
  BY <1>3, <1>4 DEF DistillInv, TasksOfSession
<1>6. First(c) \in Tasks
  BY <1>1 DEF First
<1>7. c[1] \in Targets
  BY DEF Chains
<1> QED
  BY <1>2, <1>5, <1>6, <1>7

\* A launch reserves one of the cap and reads the model.
LEMMA LaunchKeepsTasks ==
  ASSUME DistillInv, NEW c \in Chains, Launch(c)
  PROVE  DistillInv'
<1> DEFINE t == [First(c) EXCEPT !.stage = "running", !.base = model[c[1]]]
<1>1. tasks[c] \in Seq(Tasks) /\ Len(tasks[c]) \in Nat \ {0} /\ First(c) = tasks[c][1]
  BY DEF Launch, Waiting, First, DistillInv, DistillTypeOK
<1>2. First(c) \in Tasks /\ First(c).runtime \in Runtimes
  <2>1. First(c) \in Tasks
    BY <1>1
  <2> QED
    BY <2>1 DEF Tasks
<1>3. launched' \in [Runtimes -> 0 .. Cap]
  BY <1>2, DistillerAssumption DEF Launch, DistillInv, DistillTypeOK
<1>4. model[c[1]] \in SUBSET Pieces
  BY DEF DistillInv, DistillTypeOK, Chains
<1>5. t \in Tasks
  BY <1>2, <1>4 DEF Tasks
<1>6. tasks' = [tasks EXCEPT ![c] = [@ EXCEPT ![1] = t]]
  BY <1>1 DEF Launch, DistillInv, DistillTypeOK
<1> HIDE DEF t
<1>7. [tasks[c] EXCEPT ![1] = t] \in Seq(Tasks)
  BY <1>1, <1>5
<1>8. tasks' \in [Chains -> Seq(Tasks)]
  BY <1>6, <1>7 DEF DistillInv, DistillTypeOK
<1>9. InTime => c[2] = session
  BY <1>1 DEF DistillInv, TasksOfSession
<1>10. \A d \in Chains : d # c => tasks'[d] = tasks[d]
  BY <1>6 DEF DistillInv, DistillTypeOK
<1>11. UNCHANGED <<session, ending, runCount, model, edits>>
  BY DEF Launch
<1> QED
  BY <1>3, <1>8, <1>9, <1>10, <1>11 DEF DistillInv, DistillTypeOK, TasksOfSession

\* An answer adds its own run to what it was made from.
LEMMA AnswerKeepsTasks ==
  ASSUME DistillInv, NEW c \in Chains, DistillMentalModel(c)
  PROVE  DistillInv'
<1>1. tasks[c] # <<>> /\ tasks' = [tasks EXCEPT ![c] = Tail(@)]
  BY DEF DistillMentalModel, Running
<1>2. UNCHANGED <<session, ending, runCount, launched, edits>>
  BY DEF DistillMentalModel
<1>3. First(c) \in Tasks /\ c[1] \in Targets /\ tasks' \in [Chains -> Seq(Tasks)] /\ TasksOfSession'
  BY <1>1, <1>2, EndKeepsTasks
<1>4. First(c).base \cup {<<First(c).runtime, First(c).run>>} \in SUBSET Pieces
  BY <1>3 DEF Tasks, Pieces
<1>5. model' \in [Targets -> SUBSET Pieces]
  BY <1>3, <1>4 DEF DistillMentalModel, DistillInv, DistillTypeOK
<1> QED
  BY <1>2, <1>3, <1>5 DEF DistillInv, DistillTypeOK

\* A task that is not wanted or fails leaves the models alone.
LEMMA FailureKeepsTasks ==
  ASSUME DistillInv, NEW c \in Chains, Skip(c) \/ DistillerFails(c)
  PROVE  DistillInv'
<1>1. /\ tasks[c] # <<>> /\ tasks' = [tasks EXCEPT ![c] = Tail(@)]
      /\ UNCHANGED <<session, ending, runCount, launched, model, edits>>
  BY DEF Skip, DistillerFails, Running, Waiting
<1>2. tasks' \in [Chains -> Seq(Tasks)] /\ TasksOfSession'
  BY <1>1, EndKeepsTasks
<1> QED
  BY <1>1, <1>2 DEF DistillInv, DistillTypeOK

\* Others edit, and sessions end when the tasks have settled.
LEMMA OthersKeepTasks ==
  ASSUME DistillInv,
         (\E t \in Targets : EditModel(t)) \/ BeginShutdown \/ NextSession \/ UNCHANGED distillVars
  PROVE  DistillInv'
<1>1. ASSUME NEW t \in Targets, EditModel(t) PROVE DistillInv'
  <2>1. edits + 1 \in Nat /\ <<<<"others", 0>>, edits + 1>> \in Pieces
    BY DEF DistillInv, DistillTypeOK, Pieces
  <2> QED
    BY <1>1, <2>1 DEF EditModel, DistillInv, DistillTypeOK, TasksOfSession
<1>2. CASE BeginShutdown
  BY <1>2 DEF BeginShutdown, DistillInv, DistillTypeOK, TasksOfSession
<1>3. CASE NextSession
  <2>1. session' \in 1 .. MaxSessions /\ ending' = FALSE
    BY <1>3, DistillerAssumption DEF NextSession, DistillInv, DistillTypeOK
  <2> QED
    BY <1>3, <2>1 DEF NextSession, DistillInv, DistillTypeOK, TasksOfSession
<1>4. CASE UNCHANGED distillVars
  BY <1>4 DEF distillVars, DistillInv, DistillTypeOK, TasksOfSession
<1> QED
  BY <1>1, <1>2, <1>3, <1>4

\* Every step keeps it.
LEMMA DistillKeepsTasks ==
  ASSUME DistillInv, [DistillNext]_distillVars
  PROVE  DistillInv'
BY RunKeepsTasks, LaunchKeepsTasks, AnswerKeepsTasks, FailureKeepsTasks, OthersKeepTasks
   DEF DistillNext

\* What a step writes over, the distillation has seen.
LEMMA NoUpdateLost ==
  ASSUME DistillInv, [DistillNext]_distillVars, NEW t \in Targets
  PROVE  model[t] \subseteq model'[t]
<1>1. ASSUME NEW c \in Chains, DistillMentalModel(c) PROVE model[t] \subseteq model'[t]
  BY <1>1 DEF DistillMentalModel, DistillInv, DistillTypeOK
<1>2. ASSUME NEW u \in Targets, EditModel(u) PROVE model[t] \subseteq model'[t]
  BY <1>2 DEF EditModel, DistillInv, DistillTypeOK
<1>3. model' = model => model[t] \subseteq model'[t]
  OBVIOUS
<1> QED
  BY <1>1, <1>2, <1>3 DEF DistillNext, RunOf, ScheduleMentalModelDistillation, Launch, Skip,
     DistillerFails, BeginShutdown, NextSession, distillVars

\* Whatever runs, edits and ends of sessions interleave, the distiller drops no update it
\* has not seen, keeps to the cap of a worker, and writes nothing for a session that has
\* ended (engine/distiller.ts).
THEOREM DistillsSafely == DistillInit /\ [][DistillNext]_distillVars => DistillerIsSafe
<1>1. DistillInv /\ [DistillNext]_distillVars => DistillInv'
  BY DistillKeepsTasks
<1>2. DistillInv => CapHolds
  BY DistillerAssumption DEF DistillInv, DistillTypeOK, CapHolds
<1>3. DistillInv /\ [DistillNext]_distillVars =>
        [\A t \in Targets : model[t] \subseteq model'[t]]_distillVars
  BY NoUpdateLost
<1>4. DistillInv /\ [DistillNext]_distillVars =>
        [\A c \in Chains :
           InTime /\ Running(c) /\ tasks'[c] = Tail(tasks[c]) /\ model' # model => c[2] = session]_distillVars
  BY DEF DistillInv, TasksOfSession, Running
<1> QED
  BY DistillStarts, <1>1, <1>2, <1>3, <1>4, PTL
     DEF DistillerIsSafe, UpdatesSurvive, EndedSessionsAreSilent

-----------------------------------------------------------------------------
(* Actions of the dashboard *)

\* What a sequence holds.
LEMMA RangeOf ==
  ASSUME NEW S, NEW q \in Seq(S)
  PROVE  Range(q) = {q[i] : i \in 1 .. Len(q)}
  BY DEF Range

\* A part of a finite set is smaller.
LEMMA PartIsSmaller ==
  ASSUME NEW S, IsFiniteSet(S), NEW T \in SUBSET S, T # S
  PROVE  IsFiniteSet(T) /\ Cardinality(T) \in Nat /\ Cardinality(T) < Cardinality(S)
<1>1. IsFiniteSet(T) /\ Cardinality(T) <= Cardinality(S) /\ Cardinality(T) # Cardinality(S)
  BY FS_Subset
<1>2. Cardinality(T) \in Nat /\ Cardinality(S) \in Nat
  BY <1>1, FS_CardinalityType
<1> QED
  BY <1>1, <1>2

\* The members of a finite set of numbers are counted by their ranks.
LEMMA RanksCount ==
  ASSUME NEW S, IsFiniteSet(S), \A i \in S : i \in Nat
  PROVE  /\ Cardinality(S) \in Nat
         /\ \A k \in 1 .. Cardinality(S) : Nth(S, k) \in S
         /\ \A k, l \in 1 .. Cardinality(S) : k < l => Nth(S, k) < Nth(S, l)
         /\ \A i \in S : \E k \in 1 .. Cardinality(S) : Nth(S, k) = i
<1> DEFINE n == Cardinality(S)
           Less(i) == {j \in S : j < i}
           g == [i \in S |-> Cardinality(Less(i))]
           T == {g[i] : i \in S}
<1>1. n \in Nat
  BY FS_CardinalityType
<1>2. \A i \in S : /\ IsFiniteSet(Less(i)) /\ g[i] = Cardinality(Less(i))
                   /\ g[i] \in Nat /\ g[i] < n /\ g[i] \in 0 .. n - 1
  <2> TAKE i \in S
  <2>1. Less(i) \subseteq S /\ Less(i) # S
    OBVIOUS
  <2> HIDE DEF Less
  <2>2. IsFiniteSet(Less(i)) /\ Cardinality(Less(i)) \in Nat /\ Cardinality(Less(i)) < n
    BY <2>1, PartIsSmaller
  <2> HIDE DEF n
  <2> QED
    BY <1>1, <2>2
<1>3. \A i, j \in S : i < j => g[i] < g[j]
  <2> SUFFICES ASSUME NEW i \in S, NEW j \in S, i < j PROVE g[i] < g[j]
    OBVIOUS
  <2>1. Less(i) \subseteq Less(j) /\ i \in Less(j) /\ i \notin Less(i)
    OBVIOUS
  <2> HIDE DEF Less
  <2>2. Cardinality(Less(i)) < Cardinality(Less(j))
    BY <1>2, <2>1, PartIsSmaller
  <2> QED
    BY <1>2, <2>2
<1>4. \A i, j \in S : g[i] = g[j] => i = j
  <2> SUFFICES ASSUME NEW i \in S, NEW j \in S, g[i] = g[j] PROVE i = j
    OBVIOUS
  <2> HIDE DEF g
  <2>1. g[i] \in Nat /\ g[j] \in Nat
    BY <1>2
  <2>2. ~(i < j)
    BY <1>3, <2>1
  <2>3. ~(j < i)
    BY <1>3, <2>1
  <2> QED
    BY <2>2, <2>3
<1>5. T = 0 .. n - 1
  <2>1. g \in Bijection(S, T)
    BY <1>4 DEF Bijection, Injection, Surjection, IsInjective
  <2>2. IsFiniteSet(T) /\ Cardinality(T) = n
    <3> HIDE DEF g, T
    <3> QED
      BY <2>1, FS_Bijection DEF ExistsBijection
  <2>3. T \subseteq 0 .. n - 1
    BY <1>2
  <2>4. IsFiniteSet(0 .. n - 1) /\ Cardinality(0 .. n - 1) = n
    <3> HIDE DEF n
    <3>1. CASE n = 0
      BY <3>1, FS_Interval
    <3>2. CASE n # 0
      <4>1. ~(0 > n - 1) /\ n - 1 \in Int
        BY <1>1, <3>2
      <4>2. IsFiniteSet(0 .. n - 1) /\ Cardinality(0 .. n - 1) = n - 1 - 0 + 1
        BY <4>1, FS_Interval
      <4> QED
        BY <1>1, <4>2
    <3> QED
      BY <3>1, <3>2
  <2> HIDE DEF T, n
  <2>5. T # 0 .. n - 1 => Cardinality(T) < Cardinality(0 .. n - 1)
    BY <2>3, <2>4, PartIsSmaller
  <2> QED
    BY <1>1, <2>2, <2>4, <2>5
<1>6. \A k \in 1 .. n : \E i \in S : Cardinality(Less(i)) = k - 1
  <2> TAKE k \in 1 .. n
  <2> HIDE DEF n
  <2>1. k - 1 \in 0 .. n - 1
    BY <1>1
  <2>2. k - 1 \in T
    BY <1>5, <2>1
  <2> QED
    BY <1>2, <2>2
<1>7. \A k \in 1 .. n : Nth(S, k) \in S /\ g[Nth(S, k)] = k - 1
  <2> TAKE k \in 1 .. n
  <2>1. Nth(S, k) = CHOOSE i \in S : Cardinality(Less(i)) = k - 1
    BY DEF Nth
  <2> HIDE DEF Less
  <2>2. Nth(S, k) \in S /\ Cardinality(Less(Nth(S, k))) = k - 1
    BY <1>6, <2>1
  <2> QED
    BY <2>2
<1> HIDE DEF g, n
<1>8. ASSUME NEW k \in 1 .. n, NEW l \in 1 .. n, k < l PROVE Nth(S, k) < Nth(S, l)
  <2>1. /\ Nth(S, k) \in Nat /\ Nth(S, l) \in Nat
        /\ g[Nth(S, k)] = k - 1 /\ g[Nth(S, l)] = l - 1
    BY <1>7
  <2>2. Nth(S, k) # Nth(S, l)
    BY <1>1, <1>8, <2>1
  <2>3. ~(Nth(S, l) < Nth(S, k))
    <3> SUFFICES ASSUME Nth(S, l) < Nth(S, k) PROVE FALSE
      OBVIOUS
    <3>1. l - 1 < k - 1
      BY <1>3, <1>7, <2>1
    <3> QED
      BY <1>1, <1>8, <3>1
  <2> QED
    BY <2>1, <2>2, <2>3
<1>9. ASSUME NEW i \in S PROVE \E k \in 1 .. n : Nth(S, k) = i
  <2>1. g[i] + 1 \in 1 .. n /\ (g[i] + 1) - 1 = g[i]
    <3>1. g[i] \in Nat /\ g[i] < n
      BY <1>2
    <3> QED
      BY <1>1, <3>1
  <2>2. Nth(S, g[i] + 1) \in S /\ g[Nth(S, g[i] + 1)] = g[i]
    BY <1>7, <2>1
  <2> QED
    BY <1>4, <2>1, <2>2
<1> QED
  BY <1>1, <1>7, <1>8, <1>9 DEF n

\* What a session is told of a part of its file: all but the questions, in their order.
LEMMA SaidInOrder ==
  ASSUME NEW u \in Seq(Actions)
  PROVE  /\ Said(u) \in Seq(Actions)
         /\ \E f \in [1 .. Len(Said(u)) -> 1 .. Len(u)] :
              /\ \A k \in 1 .. Len(Said(u)) : Said(u)[k] = u[f[k]] /\ u[f[k]] \notin Questions
              /\ \A k, l \in 1 .. Len(Said(u)) : k < l => f[k] < f[l]
         /\ \A i \in 1 .. Len(u) : u[i] \notin Questions => \E k \in 1 .. Len(Said(u)) : Said(u)[k] = u[i]
<1> DEFINE S == Statements(u)
           m == Cardinality(S)
           f == [k \in 1 .. m |-> Nth(S, k)]
<1>1. S \subseteq 1 .. Len(u) /\ \A i \in S : u[i] \notin Questions /\ i \in Nat
  BY DEF Statements
<1>2. IsFiniteSet(1 .. Len(u))
  <2>1. 1 \in Int /\ Len(u) \in Int
    OBVIOUS
  <2> QED
    BY <2>1, FS_Interval
<1>3. IsFiniteSet(S)
  <2> HIDE DEF S
  <2> QED
    BY <1>1, <1>2, FS_Subset
<1>4. \A i \in 1 .. Len(u) : u[i] \notin Questions => i \in S
  BY DEF Statements
<1> HIDE DEF S
<1>5. /\ m \in Nat
      /\ \A k \in 1 .. m : Nth(S, k) \in S
      /\ \A k, l \in 1 .. m : k < l => Nth(S, k) < Nth(S, l)
      /\ \A i \in S : \E k \in 1 .. m : Nth(S, k) = i
  BY <1>1, <1>3, RanksCount
<1>6. Said(u) = [k \in 1 .. m |-> u[Nth(S, k)]]
  BY DEF Said, S
<1> HIDE DEF m
<1>7. \A k \in 1 .. m : u[Nth(S, k)] \in Actions
  <2>1. \A i \in 1 .. Len(u) : u[i] \in Actions
    OBVIOUS
  <2>2. \A i \in S : u[i] \in Actions
    BY <1>1, <2>1
  <2> QED
    BY <1>5, <2>2
<1>8. Said(u) \in Seq(Actions) /\ Len(Said(u)) = m /\ \A k \in 1 .. m : Said(u)[k] = u[Nth(S, k)]
  <2>1. Said(u) \in [1 .. m -> Actions]
    BY <1>6, <1>7
  <2> QED
    BY <1>5, <1>6, <2>1
<1>9. f \in [1 .. m -> 1 .. Len(u)] /\ \A k \in 1 .. m : f[k] = Nth(S, k)
  BY <1>1, <1>5
<1> HIDE DEF f
<1>10. /\ \A k \in 1 .. m : Said(u)[k] = u[f[k]] /\ u[f[k]] \notin Questions
       /\ \A k, l \in 1 .. m : k < l => f[k] < f[l]
  BY <1>1, <1>5, <1>8, <1>9
<1>11. \A i \in 1 .. Len(u) : u[i] \notin Questions => \E k \in 1 .. m : Said(u)[k] = u[i]
  BY <1>4, <1>5, <1>8
<1> QED
  BY <1>8, <1>9, <1>10, <1>11

\* The lines of the file of a session, and what it has been sent.
Lines(s) == 1 .. Len(log[s])
Sent(s) == {got[s][i] : i \in 1 .. Len(got[s])}

\* Types of the bridge; a timer that runs stands where the cursor file does.
BridgeTyped ==
  /\ log \in [Sessions -> Seq(Actions)] /\ got \in [Sessions -> Seq(Actions)]
  /\ asked \in [Sessions -> SUBSET Actions]
  /\ cursor \in [Sessions -> Nat] /\ offset \in [Sessions -> Nat \cup {Stopped}]
  /\ \A s \in Sessions : cursor[s] <= Len(log[s]) /\ offset[s] \in {Stopped, cursor[s]}

\* An action is enqueued once.
LinesOnce ==
  \A s, t \in Sessions : \A m \in Lines(s), n \in Lines(t) : log[s][m] = log[t][n] => s = t /\ m = n

\* What lies ahead of a cursor is nowhere else, and what lies behind is in one place.
InOnePlace ==
  \A s \in Sessions : \A n \in Lines(s) :
    /\ n > cursor[s] => log[s][n] \notin asked[s] \cup Sent(s) \cup lost
    /\ n <= cursor[s] => log[s][n] \in asked[s] \cup Sent(s) \cup lost
    /\ log[s][n] \notin asked[s] \cap Sent(s)
    /\ log[s][n] \notin lost \cap (asked[s] \cup Sent(s))

\* What a session asks, is sent or loses comes from its file.
FromFile ==
  /\ \A s \in Sessions : asked[s] \subseteq Questions /\ asked[s] \cup Sent(s) \subseteq Range(log[s])
  /\ lost \subseteq Enqueued

\* A session is sent an action once,
SentOnce == \A s \in Sessions : \A i, j \in 1 .. Len(got[s]) : got[s][i] = got[s][j] => i = j

\* and what is no question in the order of its file.
SentInOrder ==
  \A s \in Sessions : \A i, j \in 1 .. Len(got[s]) : \A m, n \in Lines(s) :
    /\ i < j /\ got[s][i] \notin Questions /\ got[s][j] \notin Questions
    /\ log[s][m] = got[s][i] /\ log[s][n] = got[s][j]
    => m < n

\* The invariant of the bridge.
BridgeInv == BridgeTyped /\ LinesOnce /\ InOnePlace /\ FromFile /\ SentOnce /\ SentInOrder

\* No session has a file at first.
LEMMA BridgeStarts == BridgeInit => BridgeInv
<1> USE DEF BridgeInit
<1>1. BridgeInit => BridgeTyped
  BY DEF BridgeTyped
<1>2. BridgeInit => \A s \in Sessions : Lines(s) = {} /\ Sent(s) = {} /\ Len(got[s]) = 0
  BY DEF Lines, Sent
<1>3. BridgeInit => LinesOnce /\ InOnePlace /\ SentOnce /\ SentInOrder
  BY <1>2 DEF LinesOnce, InOnePlace, SentOnce, SentInOrder
<1>4. BridgeInit => FromFile
  BY <1>2 DEF FromFile
<1> QED
  BY <1>1, <1>3, <1>4 DEF BridgeInv

\* The lines of a file are what it holds.
LEMMA FileLines ==
  ASSUME BridgeTyped, NEW s \in Sessions
  PROVE  /\ Range(log[s]) = {log[s][n] : n \in Lines(s)}
         /\ \A n \in Lines(s) : log[s][n] \in Enqueued
         /\ Len(log[s]) \in Nat /\ cursor[s] \in Nat /\ cursor[s] <= Len(log[s])
<1>1. log[s] \in Seq(Actions)
  BY DEF BridgeTyped
<1>2. Range(log[s]) = {log[s][n] : n \in Lines(s)}
  BY <1>1, RangeOf DEF Lines
<1>3. \A n \in Lines(s) : log[s][n] \in Enqueued
  BY <1>2 DEF Enqueued
<1> QED
  BY <1>1, <1>2, <1>3 DEF BridgeTyped

\* A new action is written to the file of a session.
NewLine(a, t) ==
  /\ a \notin Enqueued /\ log' = [log EXCEPT ![t] = Append(@, a)]
  /\ UNCHANGED <<cursor, offset, asked, got, lost>>

\* It comes after everything the session has read.
LEMMA AppendKeepsBridge ==
  ASSUME BridgeInv, NEW a \in Actions, NEW t \in Sessions, NewLine(a, t)
  PROVE  BridgeInv'
<1> DEFINE z == Len(log[t]) + 1
<1>1. /\ log' \in [Sessions -> Seq(Actions)] /\ log[t] \in Seq(Actions)
      /\ \A s \in Sessions : s # t => log'[s] = log[s]
      /\ log'[t] = Append(log[t], a) /\ a \notin Enqueued
      /\ UNCHANGED <<cursor, offset, asked, got, lost>>
  BY DEF NewLine, BridgeInv, BridgeTyped
<1>2. /\ Len(log'[t]) = z /\ log'[t][z] = a /\ z \in Nat /\ z > cursor[t]
      /\ \A n \in Lines(t) : log'[t][n] = log[t][n] /\ n # z
      /\ Lines(t)' = Lines(t) \cup {z}
  <2>1. /\ Len(log'[t]) = z /\ log'[t][z] = a /\ z \in Nat
        /\ \A n \in Lines(t) : log'[t][n] = log[t][n]
    BY <1>1 DEF Lines
  <2>2. Len(log[t]) \in Nat /\ cursor[t] \in Nat /\ cursor[t] <= Len(log[t])
    BY FileLines DEF BridgeInv
  <2> QED
    BY <2>1, <2>2 DEF Lines
<1>3. \A s \in Sessions : s # t => Lines(s)' = Lines(s)
  BY <1>1 DEF Lines
<1>4. \A s \in Sessions : Sent(s)' = Sent(s)
  BY <1>1 DEF Sent
<1>5. \A s \in Sessions : \A n \in Lines(s) : log'[s][n] = log[s][n] /\ log[s][n] # a
  <2> SUFFICES ASSUME NEW s \in Sessions, NEW n \in Lines(s)
               PROVE  log'[s][n] = log[s][n] /\ log[s][n] # a
    OBVIOUS
  <2>1. log[s][n] \in Enqueued
    BY FileLines DEF BridgeInv
  <2> QED
    BY <1>1, <1>2, <2>1
<1>6. \A s \in Sessions : a \notin asked[s] /\ a \notin Sent(s) /\ a \notin lost
  <2> SUFFICES ASSUME NEW s \in Sessions PROVE a \notin asked[s] /\ a \notin Sent(s) /\ a \notin lost
    OBVIOUS
  <2>1. Range(log[s]) \subseteq Enqueued /\ asked[s] \cup Sent(s) \subseteq Range(log[s])
    BY DEF BridgeInv, FromFile, Enqueued
  <2>2. lost \subseteq Enqueued
    BY DEF BridgeInv, FromFile
  <2> QED
    BY <1>1, <2>1, <2>2
<1> HIDE DEF z
<1>7. BridgeTyped'
  <2>1. \A s \in Sessions : cursor[s] <= Len(log'[s])
    <3> SUFFICES ASSUME NEW s \in Sessions PROVE cursor[s] <= Len(log'[s])
      OBVIOUS
    <3>1. CASE s = t
      <4>1. cursor[t] \in Nat
        BY FileLines DEF BridgeInv
      <4> QED
        BY <1>2, <3>1, <4>1
    <3>2. CASE s # t
      BY <1>1, <3>2 DEF BridgeInv, BridgeTyped
    <3> QED
      BY <3>1, <3>2
  <2> QED
    BY <1>1, <2>1 DEF BridgeInv, BridgeTyped
<1>8. \A s \in Sessions : \A n \in Lines(s)' : n \in Lines(s) \/ (s = t /\ n = z)
  BY <1>2, <1>3
<1>9. LinesOnce'
  <2> SUFFICES ASSUME NEW s \in Sessions, NEW u \in Sessions, NEW m \in Lines(s)',
                      NEW n \in Lines(u)', log'[s][m] = log'[u][n]
               PROVE  s = u /\ m = n
    BY DEF LinesOnce
  <2>1. CASE m \in Lines(s) /\ n \in Lines(u)
    BY <1>5, <2>1 DEF BridgeInv, LinesOnce
  <2>2. CASE s = t /\ m = z
    <3>1. log'[u][n] = a
      BY <1>2, <2>2
    <3>2. n \notin Lines(u)
      BY <1>5, <3>1
    <3> QED
      BY <1>8, <2>2, <3>2
  <2>3. CASE u = t /\ n = z
    <3>1. log'[s][m] = a
      BY <1>2, <2>3
    <3>2. m \notin Lines(s)
      BY <1>5, <3>1
    <3> QED
      BY <1>8, <2>3, <3>2
  <2> QED
    BY <1>8, <2>1, <2>2, <2>3
<1>10. InOnePlace'
  <2> SUFFICES ASSUME NEW s \in Sessions, NEW n \in Lines(s)'
               PROVE  /\ n > cursor[s] => log'[s][n] \notin asked[s] \cup Sent(s) \cup lost
                      /\ n <= cursor[s] => log'[s][n] \in asked[s] \cup Sent(s) \cup lost
                      /\ log'[s][n] \notin asked[s] \cap Sent(s)
                      /\ log'[s][n] \notin lost \cap (asked[s] \cup Sent(s))
    BY <1>1, <1>4 DEF InOnePlace
  <2>1. CASE n \in Lines(s)
    BY <1>5, <2>1 DEF BridgeInv, InOnePlace
  <2>2. CASE s = t /\ n = z
    <3>1. ~(z <= cursor[t])
      BY <1>2, FileLines DEF BridgeInv
    <3> QED
      BY <1>2, <1>6, <2>2, <3>1
  <2> QED
    BY <1>8, <2>1, <2>2
<1>11. \A s \in Sessions : Range(log[s]) \subseteq Range(log'[s])
  <2> TAKE s \in Sessions
  <2>1. log[s] \in Seq(Actions) /\ log'[s] \in Seq(Actions) /\ DOMAIN log[s] \subseteq DOMAIN log'[s]
    BY <1>1
  <2>2. \A n \in DOMAIN log[s] : log'[s][n] = log[s][n]
    BY <1>5, <2>1 DEF Lines
  <2> QED
    BY <2>1, <2>2 DEF Range
<1>12. FromFile'
  <2>1. Enqueued \subseteq Enqueued'
    BY <1>11 DEF Enqueued
  <2> QED
    BY <1>1, <1>4, <1>11, <2>1 DEF BridgeInv, FromFile
<1>13. SentOnce' /\ got' = got
  BY <1>1 DEF BridgeInv, SentOnce
<1>14. SentInOrder'
  <2> SUFFICES ASSUME NEW s \in Sessions, NEW i \in 1 .. Len(got'[s]), NEW j \in 1 .. Len(got'[s]),
                      NEW m \in Lines(s)', NEW n \in Lines(s)',
                      i < j, got'[s][i] \notin Questions, got'[s][j] \notin Questions,
                      log'[s][m] = got'[s][i], log'[s][n] = got'[s][j]
               PROVE  m < n
    BY DEF SentInOrder
  <2>1. got[s][i] \in Sent(s) /\ got[s][j] \in Sent(s)
    BY <1>13 DEF Sent
  <2>2. m \in Lines(s) /\ n \in Lines(s)
    BY <1>2, <1>6, <1>8, <1>13, <2>1
  <2>3. log[s][m] = got[s][i] /\ log[s][n] = got[s][j]
    BY <1>5, <1>13, <2>2
  <2> QED
    BY <1>13, <2>2, <2>3 DEF BridgeInv, SentInOrder
<1> QED
  BY <1>7, <1>9, <1>10, <1>12, <1>13, <1>14 DEF BridgeInv

\* Nothing else depends on the timers.
LEMMA TimersTouchNothing ==
  ASSUME BridgeInv, BridgeTyped', UNCHANGED <<log, cursor, asked, got, lost>>
  PROVE  BridgeInv'
<1>1. \A s \in Sessions : Lines(s)' = Lines(s) /\ Sent(s)' = Sent(s)
  BY DEF Lines, Sent
<1>2. LinesOnce' /\ InOnePlace'
  BY <1>1 DEF BridgeInv, LinesOnce, InOnePlace
<1>3. FromFile'
  BY <1>1 DEF BridgeInv, FromFile, Enqueued
<1>4. SentOnce' /\ SentInOrder'
  BY <1>1 DEF BridgeInv, SentOnce, SentInOrder
<1> QED
  BY <1>2, <1>3, <1>4 DEF BridgeInv

\* Reviews and questions are new actions in the file of a session.
LEMMA EnqueueKeepsBridge ==
  ASSUME BridgeInv, NEW s \in Sessions, NEW a \in Actions, Enqueue(a, s) \/ EnqueueQuestion(a, s)
  PROVE  BridgeInv'
<1>1. PICK t : NewLine(a, t)
  BY DEF Enqueue, EnqueueQuestion, NewLine
<1>2. CASE t \in Sessions
  BY <1>1, <1>2, AppendKeepsBridge
<1>3. CASE t \notin Sessions
  <2>1. UNCHANGED <<log, cursor, offset, asked, got, lost>>
    BY <1>1, <1>3 DEF NewLine, BridgeInv, BridgeTyped
  <2> QED
    BY <2>1, TimersTouchNothing DEF BridgeInv, BridgeTyped
<1> QED
  BY <1>2, <1>3

\* A session is opened where its cursor stands; telemetry touches nothing of it.
LEMMA StartKeepsBridge ==
  ASSUME BridgeInv, NEW s \in Sessions, Touch(s) \/ StartDashboardActionPoller(s)
  PROVE  BridgeInv'
<1>1. UNCHANGED <<log, cursor, asked, got, lost>>
  BY DEF Touch, StartDashboardActionPoller
<1>2. BridgeTyped'
  BY DEF Touch, StartDashboardActionPoller, BridgeInv, BridgeTyped
<1> QED
  BY <1>1, <1>2, TimersTouchNothing

\* The session takes the first k actions ahead of its cursor, and loses the others.
Reads(s, k) ==
  LET done == SubSeq(Unread(s), 1, k) IN
  /\ offset[s] # Stopped /\ k \in 0 .. Len(Unread(s))
  /\ offset' = [offset EXCEPT ![s] = Len(log[s])]
  /\ cursor' = [cursor EXCEPT ![s] = Len(log[s])]
  /\ asked' = [asked EXCEPT ![s] = @ \cup (Range(done) \cap Questions)]
  /\ got' = [got EXCEPT ![s] = @ \o Said(done)]
  /\ lost' = lost \cup {Unread(s)[i] : i \in k + 1 .. Len(Unread(s))}
  /\ UNCHANGED log

\* What it takes are lines ahead of its cursor.
LEMMA DoneLines ==
  ASSUME BridgeTyped, NEW s \in Sessions, NEW k \in 0 .. Len(Unread(s)), offset[s] # Stopped
  PROVE  LET done == SubSeq(Unread(s), 1, k) IN
         /\ k \in Nat /\ cursor[s] \in Nat /\ Len(log[s]) \in Nat /\ cursor[s] + k <= Len(log[s])
         /\ done \in Seq(Actions) /\ Len(done) = k
         /\ \A i \in 1 .. k : done[i] = log[s][cursor[s] + i] /\ cursor[s] + i \in Lines(s)
         /\ Unread(s) \in Seq(Actions) /\ Len(Unread(s)) = Len(log[s]) - cursor[s]
         /\ \A i \in 1 .. Len(Unread(s)) :
              Unread(s)[i] = log[s][cursor[s] + i] /\ cursor[s] + i \in Lines(s)
<1> DEFINE c == cursor[s]
           u == Unread(s)
           done == SubSeq(u, 1, k)
<1>1. /\ log[s] \in Seq(Actions) /\ c \in Nat /\ Len(log[s]) \in Nat /\ c <= Len(log[s])
      /\ offset[s] = c
  BY DEF BridgeTyped
<1>2. u = SubSeq(log[s], c + 1, Len(log[s]))
  BY <1>1 DEF Unread
<1>3. /\ u \in Seq(Actions) /\ Len(u) = Len(log[s]) - c
      /\ \A i \in 1 .. Len(log[s]) - c : u[i] = log[s][c + i]
  <2> HIDE DEF u, c
  <2>1. u \in Seq(Actions) /\ Len(u) = Len(log[s]) - c
    BY <1>1, <1>2
  <2>2. \A i \in 1 .. Len(log[s]) - c : u[i] = log[s][c + i]
    BY <1>1, <1>2
  <2> QED
    BY <2>1, <2>2
<1>4. k \in Nat /\ k <= Len(u)
  BY <1>1, <1>3
<1> HIDE DEF u, c
<1>5. done \in Seq(Actions) /\ Len(done) = k /\ \A i \in 1 .. k : done[i] = u[i]
  BY <1>3, <1>4
<1>6. \A i \in 1 .. Len(u) : c + i \in Lines(s)
  BY <1>1, <1>3 DEF Lines
<1> QED
  BY <1>1, <1>3, <1>4, <1>5, <1>6 DEF u, c

\* Reading moves actions from ahead of the cursor to one place each.
LEMMA ReadKeepsBridge ==
  ASSUME BridgeInv, NEW s \in Sessions, NEW k, Reads(s, k)
  PROVE  BridgeInv'
<1> DEFINE c == cursor[s]
           len == Len(log[s])
           done == SubSeq(Unread(s), 1, k)
           said == Said(done)
           asks == {log[s][n] : n \in c + 1 .. c + k} \cap Questions
           says == {log[s][n] : n \in c + 1 .. c + k} \ Questions
           drops == {log[s][n] : n \in c + k + 1 .. len}
<1>1. /\ k \in Nat /\ c \in Nat /\ len \in Nat /\ c + k <= len
      /\ done \in Seq(Actions) /\ Len(done) = k
      /\ \A i \in 1 .. k : done[i] = log[s][c + i] /\ c + i \in Lines(s)
      /\ Unread(s) \in Seq(Actions) /\ Len(Unread(s)) = len - c
      /\ \A i \in 1 .. len - c : Unread(s)[i] = log[s][c + i] /\ c + i \in Lines(s)
  BY DoneLines DEF Reads, BridgeInv
<1>2. Range(done) = {log[s][n] : n \in c + 1 .. c + k}
  <2>1. Range(done) = {done[i] : i \in 1 .. k}
    BY <1>1, RangeOf
  <2> HIDE DEF done, c
  <2>2. \A i \in 1 .. k : c + i \in c + 1 .. c + k
    BY <1>1
  <2>3. \A n \in c + 1 .. c + k : n - c \in 1 .. k /\ c + (n - c) = n
    BY <1>1
  <2>4. \A n \in c + 1 .. c + k : log[s][n] \in {done[i] : i \in 1 .. k}
    BY <1>1, <2>3
  <2>5. \A i \in 1 .. k : done[i] \in {log[s][n] : n \in c + 1 .. c + k}
    BY <1>1, <2>2
  <2> QED
    BY <2>1, <2>4, <2>5
<1>3. {Unread(s)[i] : i \in k + 1 .. Len(Unread(s))} = drops
  <2> DEFINE left == {Unread(s)[i] : i \in k + 1 .. len - c}
  <2>1. \A n \in c + k + 1 .. len : n - c \in k + 1 .. len - c /\ n - c \in 1 .. len - c /\ c + (n - c) = n
    BY <1>1
  <2>2. \A i \in k + 1 .. len - c : c + i \in c + k + 1 .. len /\ i \in 1 .. len - c
    BY <1>1
  <2> HIDE DEF c, len
  <2>3. \A n \in c + k + 1 .. len : log[s][n] \in left
    BY <1>1, <2>1
  <2>4. \A i \in k + 1 .. len - c : Unread(s)[i] \in drops
    BY <1>1, <2>2
  <2> QED
    BY <1>1, <2>3, <2>4
<1>4. /\ offset' = [offset EXCEPT ![s] = len] /\ cursor' = [cursor EXCEPT ![s] = len]
      /\ asked' = [asked EXCEPT ![s] = @ \cup asks]
      /\ got' = [got EXCEPT ![s] = @ \o said]
      /\ lost' = lost \cup drops /\ log' = log
  BY <1>2, <1>3 DEF Reads
<1>5. /\ said \in Seq(Actions)
      /\ \E f \in [1 .. Len(said) -> 1 .. k] :
           /\ \A i \in 1 .. Len(said) : said[i] = done[f[i]] /\ done[f[i]] \notin Questions
           /\ \A i, j \in 1 .. Len(said) : i < j => f[i] < f[j]
      /\ \A i \in 1 .. k : done[i] \notin Questions => \E j \in 1 .. Len(said) : said[j] = done[i]
  BY <1>1, SaidInOrder
<1>6. PICK f \in [1 .. Len(said) -> 1 .. k] :
        /\ \A i \in 1 .. Len(said) : said[i] = done[f[i]] /\ done[f[i]] \notin Questions
        /\ \A i, j \in 1 .. Len(said) : i < j => f[i] < f[j]
  BY <1>5
<1> HIDE DEF said, done, c, len
<1>7. {said[i] : i \in 1 .. Len(said)} = says
  <2>1. \A i \in 1 .. Len(said) : said[i] \in says
    <3> TAKE i \in 1 .. Len(said)
    <3>1. f[i] \in 1 .. k /\ said[i] = log[s][c + f[i]] /\ said[i] \notin Questions
      BY <1>1, <1>6
    <3>2. c + f[i] \in c + 1 .. c + k
      BY <1>1, <3>1
    <3> QED
      BY <3>1, <3>2
  <2>2. \A n \in c + 1 .. c + k : log[s][n] \notin Questions => log[s][n] \in {said[i] : i \in 1 .. Len(said)}
    <3> TAKE n \in c + 1 .. c + k
    <3>1. n - c \in 1 .. k /\ c + (n - c) = n
      BY <1>1
    <3>2. done[n - c] = log[s][n]
      BY <1>1, <3>1
    <3> QED
      BY <1>5, <3>1, <3>2
  <2> QED
    BY <2>1, <2>2
<1>8. /\ log \in [Sessions -> Seq(Actions)] /\ got \in [Sessions -> Seq(Actions)] /\ got[s] \in Seq(Actions)
      /\ asked \in [Sessions -> SUBSET Actions] /\ Lines(s) = 1 .. len
  BY DEF BridgeInv, BridgeTyped, Lines, len
<1>9. /\ got'[s] \in Seq(Actions) /\ Len(got'[s]) = Len(got[s]) + Len(said)
      /\ \A i \in 1 .. Len(got'[s]) :
           got'[s][i] = IF i <= Len(got[s]) THEN got[s][i] ELSE said[i - Len(got[s])]
  <2>1. got'[s] = got[s] \o said
    BY <1>4, <1>8
  <2> QED
    BY <1>5, <1>8, <2>1
<1>10. \A n \in c + 1 .. c + k : log[s][n] \in Actions /\ n \in Lines(s)
  BY <1>1, <1>8 DEF len
<1>11. \A t \in Sessions : Lines(t)' = Lines(t)
  BY <1>4 DEF Lines
<1>12. \A t \in Sessions : Sent(t)' = Sent(t) \cup (IF t = s THEN says ELSE {})
  <2>1. Sent(s)' = Sent(s) \cup {said[i] : i \in 1 .. Len(said)}
    <3>0. Len(got[s]) \in Nat /\ Len(said) \in Nat
      BY <1>5, <1>8
    <3>1. \A i \in 1 .. Len(got[s]) : i \in 1 .. Len(got'[s]) /\ got'[s][i] = got[s][i]
      BY <1>9, <3>0
    <3>2. \A i \in 1 .. Len(said) : /\ Len(got[s]) + i \in 1 .. Len(got'[s])
                                    /\ got'[s][Len(got[s]) + i] = said[i]
      <4> TAKE i \in 1 .. Len(said)
      <4>1. /\ Len(got[s]) + i \in 1 .. Len(got'[s]) /\ ~(Len(got[s]) + i <= Len(got[s]))
            /\ (Len(got[s]) + i) - Len(got[s]) = i
        BY <1>9, <3>0
      <4> QED
        BY <1>9, <4>1
    <3>3. ASSUME NEW i \in 1 .. Len(got'[s])
          PROVE  got'[s][i] \in Sent(s) \cup {said[j] : j \in 1 .. Len(said)}
      <4>1. CASE i <= Len(got[s])
        <5>1. i \in 1 .. Len(got[s]) /\ got'[s][i] = got[s][i]
          BY <1>9, <3>0, <4>1
        <5> QED
          BY <5>1 DEF Sent
      <4>2. CASE ~(i <= Len(got[s]))
        <5>1. i - Len(got[s]) \in 1 .. Len(said) /\ got'[s][i] = said[i - Len(got[s])]
          BY <1>9, <3>0, <4>2
        <5> QED
          BY <5>1
      <4> QED
        BY <4>1, <4>2
    <3>4. Sent(s)' = {got'[s][i] : i \in 1 .. Len(got'[s])}
      BY DEF Sent
    <3>5. \A i \in 1 .. Len(got[s]) : got[s][i] \in Sent(s)'
      BY <3>1, <3>4
    <3>6. \A i \in 1 .. Len(said) : said[i] \in Sent(s)'
      BY <3>2, <3>4
    <3>7. Sent(s) \subseteq Sent(s)'
      BY <3>5 DEF Sent
    <3>8. Sent(s)' \subseteq Sent(s) \cup {said[j] : j \in 1 .. Len(said)}
      BY <3>3, <3>4
    <3> QED
      BY <3>6, <3>7, <3>8
  <2>2. \A t \in Sessions : t # s => Sent(t)' = Sent(t)
    BY <1>4, <1>8 DEF Sent
  <2> QED
    BY <1>7, <2>1, <2>2
<1>13. \A t \in Sessions : asked'[t] = asked[t] \cup (IF t = s THEN asks ELSE {})
  BY <1>4, <1>8
<1>14. cursor' \in [Sessions -> Nat] /\ cursor'[s] = len /\ \A t \in Sessions : t # s => cursor'[t] = cursor[t]
  BY <1>1, <1>4 DEF BridgeInv, BridgeTyped
<1>15. BridgeTyped'
  <2>1. got' \in [Sessions -> Seq(Actions)]
    BY <1>4, <1>8, <1>9
  <2>2. asked' \in [Sessions -> SUBSET Actions]
    BY <1>4, <1>8, <1>10
  <2>3. offset' \in [Sessions -> Nat \cup {Stopped}] /\ offset'[s] = len
        /\ \A t \in Sessions : t # s => offset'[t] = offset[t]
    BY <1>1, <1>4 DEF BridgeInv, BridgeTyped
  <2>4. \A t \in Sessions : cursor'[t] <= Len(log[t]) /\ offset'[t] \in {Stopped, cursor'[t]}
    <3> SUFFICES ASSUME NEW t \in Sessions
                 PROVE  cursor'[t] <= Len(log[t]) /\ offset'[t] \in {Stopped, cursor'[t]}
      OBVIOUS
    <3>1. CASE t = s
      BY <1>1, <1>14, <2>3, <3>1 DEF len
    <3>2. CASE t # s
      BY <1>14, <2>3, <3>2 DEF BridgeInv, BridgeTyped
    <3> QED
      BY <3>1, <3>2
  <2> QED
    BY <1>4, <1>8, <1>14, <2>1, <2>2, <2>3, <2>4 DEF BridgeTyped
<1>16. LinesOnce'
  BY <1>4, <1>11 DEF BridgeInv, LinesOnce
\* A line is one of those taken if its place is one of theirs.
<1>17. ASSUME NEW t \in Sessions, NEW n \in Lines(t)
       PROVE  /\ log[t][n] \in asks <=> t = s /\ n \in c + 1 .. c + k /\ log[s][n] \in Questions
              /\ log[t][n] \in says <=> t = s /\ n \in c + 1 .. c + k /\ log[s][n] \notin Questions
              /\ log[t][n] \in drops <=> t = s /\ n \in c + k + 1 .. len
  <2>1. \A m \in c + 1 .. c + k : m \in Lines(s) /\ (log[s][m] = log[t][n] => t = s /\ m = n)
    BY <1>10 DEF BridgeInv, LinesOnce
  <2>2. \A m \in c + k + 1 .. len : m \in Lines(s) /\ (log[s][m] = log[t][n] => t = s /\ m = n)
    <3>1. \A m \in c + k + 1 .. len : m \in Lines(s)
      BY <1>1, <1>8
    <3> QED
      BY <3>1 DEF BridgeInv, LinesOnce
  <2> QED
    BY <2>1, <2>2
<1> HIDE DEF asks, says, drops
<1>18. InOnePlace'
  <2> SUFFICES ASSUME NEW t \in Sessions, NEW n \in Lines(t)
               PROVE  /\ n > cursor'[t] => log[t][n] \notin asked'[t] \cup Sent(t)' \cup lost'
                      /\ n <= cursor'[t] => log[t][n] \in asked'[t] \cup Sent(t)' \cup lost'
                      /\ log[t][n] \notin asked'[t] \cap Sent(t)'
                      /\ log[t][n] \notin lost' \cap (asked'[t] \cup Sent(t)')
    BY <1>4, <1>11 DEF InOnePlace
  <2>1. /\ n > cursor[t] => log[t][n] \notin asked[t] \cup Sent(t) \cup lost
        /\ n <= cursor[t] => log[t][n] \in asked[t] \cup Sent(t) \cup lost
        /\ log[t][n] \notin asked[t] \cap Sent(t)
        /\ log[t][n] \notin lost \cap (asked[t] \cup Sent(t))
    BY DEF BridgeInv, InOnePlace
  <2>2. CASE t # s
    BY <1>4, <1>12, <1>13, <1>14, <1>17, <2>1, <2>2
  <2>3. CASE t = s
    <3>1. n \in 1 .. len /\ cursor'[t] = len /\ cursor[t] = c
      BY <1>8, <1>14, <2>3 DEF c
    <3>2. CASE n <= c
      <4>1. ~(n \in c + 1 .. c + k) /\ ~(n \in c + k + 1 .. len) /\ ~(n > len) /\ n <= len
        BY <1>1, <3>1, <3>2
      <4>2. log[t][n] \notin asks /\ log[t][n] \notin says /\ log[t][n] \notin drops
        BY <1>17, <4>1
      <4> QED
        BY <1>4, <1>12, <1>13, <2>1, <2>3, <3>1, <3>2, <4>1, <4>2
    <3>3. CASE n > c
      <4>1. (n \in c + 1 .. c + k <=> ~(n \in c + k + 1 .. len)) /\ ~(n > len) /\ n <= len
        BY <1>1, <3>1, <3>3
      <4>2. /\ log[t][n] \in asks \cup says \cup drops /\ log[t][n] \notin asks \cap says
            /\ log[t][n] \notin drops \cap (asks \cup says)
        BY <1>17, <2>3, <4>1
      <4> QED
        BY <1>4, <1>12, <1>13, <2>1, <2>3, <3>1, <3>3, <4>1, <4>2
    <3>4. n <= c \/ n > c
      BY <1>1, <3>1
    <3> QED
      BY <3>2, <3>3, <3>4
  <2> QED
    BY <2>2, <2>3
<1>19. FromFile'
  <2>1. asks \subseteq Questions
    BY DEF asks
  <2>2. asks \subseteq Range(log[s]) /\ says \subseteq Range(log[s]) /\ drops \subseteq Range(log[s])
    <3>1. Range(log[s]) = {log[s][n] : n \in Lines(s)}
      BY FileLines DEF BridgeInv
    <3>2. \A m \in c + k + 1 .. len : m \in Lines(s)
      BY <1>1, <1>8
    <3> QED
      BY <1>10, <3>1, <3>2 DEF asks, says, drops
  <2>3. drops \subseteq Enqueued
    BY <2>2 DEF Enqueued
  <2> QED
    BY <1>4, <1>12, <1>13, <2>1, <2>2, <2>3 DEF BridgeInv, FromFile, Enqueued
\* What is new has its place behind the cursor.
<1> DEFINE old == Len(got[s])
           place(i) == c + f[i - old]
<1>20. old \in Nat /\ Len(said) \in Nat /\ c \in Nat /\ k \in Nat
  BY <1>1, <1>5, <1>8
<1>21. ASSUME NEW i \in 1 .. Len(got'[s])
       PROVE  /\ i <= old => i \in 1 .. old /\ got'[s][i] = got[s][i] /\ got'[s][i] \in Sent(s)
              /\ ~(i <= old) => /\ i - old \in 1 .. Len(said) /\ f[i - old] \in Nat
                                /\ place(i) \in Lines(s) /\ place(i) \in Nat /\ place(i) > c
                                /\ got'[s][i] = log[s][place(i)]
  <2>1. CASE i <= old
    <3>1. i \in 1 .. old /\ got'[s][i] = got[s][i]
      BY <1>9, <1>20, <2>1
    <3> QED
      BY <2>1, <3>1 DEF Sent
  <2>2. CASE ~(i <= old)
    <3>1. i - old \in 1 .. Len(said) /\ got'[s][i] = said[i - old]
      BY <1>9, <1>20, <2>2
    <3>2. f[i - old] \in 1 .. k /\ said[i - old] = done[f[i - old]]
      BY <1>6, <3>1
    <3>3. f[i - old] \in Nat /\ place(i) \in Nat /\ place(i) > c
      BY <1>20, <3>2
    <3>4. done[f[i - old]] = log[s][place(i)] /\ place(i) \in Lines(s)
      BY <1>1, <3>2
    <3> QED
      BY <2>2, <3>1, <3>2, <3>3, <3>4
  <2> QED
    BY <2>1, <2>2
<1>22. ASSUME NEW i \in 1 .. Len(got'[s]), NEW j \in 1 .. Len(got'[s]), i < j, ~(i <= old)
       PROVE  ~(j <= old) /\ place(i) < place(j)
  <2>1. ~(j <= old)
    BY <1>20, <1>22
  <2>2. /\ i - old \in 1 .. Len(said) /\ j - old \in 1 .. Len(said)
        /\ f[i - old] \in Nat /\ f[j - old] \in Nat
    BY <1>21, <1>22, <2>1
  <2>3. i - old < j - old
    BY <1>20, <1>22
  <2>4. f[i - old] < f[j - old]
    BY <1>6, <2>2, <2>3
  <2> QED
    BY <1>20, <2>1, <2>2, <2>4
<1> HIDE DEF place, old
<1>23. /\ \A m, n \in Lines(s) : log[s][m] = log[s][n] => m = n
       /\ \A n \in Lines(s) : log[s][n] \in Sent(s) => ~(n > c)
       /\ \A n \in Lines(s) : n \in Nat
  <2>1. \A m, n \in Lines(s) : log[s][m] = log[s][n] => m = n
    BY DEF BridgeInv, LinesOnce
  <2>2. \A n \in Lines(s) : log[s][n] \in Sent(s) => ~(n > c)
    BY DEF BridgeInv, InOnePlace, c
  <2>3. \A n \in Lines(s) : n \in Nat
    BY <1>8
  <2> QED
    BY <2>1, <2>2, <2>3
<1>24. SentOnce'
  <2>1. ASSUME NEW i \in 1 .. Len(got'[s]), NEW j \in 1 .. Len(got'[s]), i < j
        PROVE  got'[s][i] # got'[s][j]
    <3>1. CASE j <= old
      <4>1. i <= old
        BY <1>20, <2>1, <3>1
      <4>2. /\ i \in 1 .. Len(got[s]) /\ j \in 1 .. Len(got[s])
            /\ got'[s][i] = got[s][i] /\ got'[s][j] = got[s][j]
        BY <1>21, <3>1, <4>1 DEF old
      <4>3. got[s][i] = got[s][j] => i = j
        BY <4>2 DEF BridgeInv, SentOnce
      <4> QED
        BY <2>1, <4>2, <4>3
    <3>2. CASE i <= old /\ ~(j <= old)
      BY <1>21, <1>23, <3>2
    <3>3. CASE ~(i <= old)
      <4>1. ~(j <= old) /\ place(i) < place(j)
        BY <1>22, <2>1, <3>3
      <4>2. /\ place(i) \in Lines(s) /\ place(j) \in Lines(s) /\ place(i) \in Nat /\ place(j) \in Nat
            /\ got'[s][i] = log[s][place(i)] /\ got'[s][j] = log[s][place(j)]
        BY <1>21, <3>3, <4>1
      <4>3. place(i) # place(j)
        BY <4>1, <4>2
      <4> QED
        BY <1>23, <4>2, <4>3
    <3> QED
      BY <3>1, <3>2, <3>3
  <2>2. ASSUME NEW i \in 1 .. Len(got'[s]), NEW j \in 1 .. Len(got'[s]), got'[s][i] = got'[s][j]
        PROVE  i = j
    <3>1. ~(i < j) /\ ~(j < i)
      BY <2>1, <2>2
    <3> QED
      BY <3>1
  <2>3. \A t \in Sessions : t # s => got'[t] = got[t]
    BY <1>4, <1>8
  <2> QED
    BY <2>2, <2>3 DEF BridgeInv, SentOnce
<1>25. SentInOrder'
  <2>1. ASSUME NEW i \in 1 .. Len(got'[s]), NEW j \in 1 .. Len(got'[s]),
               NEW m \in Lines(s), NEW n \in Lines(s),
               i < j, got'[s][i] \notin Questions, got'[s][j] \notin Questions,
               log[s][m] = got'[s][i], log[s][n] = got'[s][j]
        PROVE  m < n
    <3>1. CASE j <= old
      <4>1. i <= old
        BY <1>20, <2>1, <3>1
      <4>2. /\ i \in 1 .. Len(got[s]) /\ j \in 1 .. Len(got[s])
            /\ got'[s][i] = got[s][i] /\ got'[s][j] = got[s][j]
        BY <1>21, <3>1, <4>1 DEF old
      <4> QED
        BY <2>1, <4>2 DEF BridgeInv, SentInOrder
    <3>2. CASE i <= old /\ ~(j <= old)
      <4>1. ~(m > c)
        BY <1>21, <1>23, <2>1, <3>2
      <4>2. n = place(j) /\ place(j) > c
        BY <1>21, <1>23, <2>1, <3>2
      <4> QED
        BY <1>20, <1>23, <4>1, <4>2
    <3>3. CASE ~(i <= old)
      <4>1. ~(j <= old) /\ place(i) < place(j)
        BY <1>22, <2>1, <3>3
      <4>2. m = place(i) /\ n = place(j)
        BY <1>21, <1>23, <2>1, <3>3, <4>1
      <4> QED
        BY <4>1, <4>2
    <3> QED
      BY <3>1, <3>2, <3>3
  <2>2. \A t \in Sessions : t # s => got'[t] = got[t]
    BY <1>4, <1>8
  <2>3. ASSUME NEW t \in Sessions, NEW i \in 1 .. Len(got'[t]), NEW j \in 1 .. Len(got'[t]),
               NEW m \in Lines(t), NEW n \in Lines(t),
               i < j, got'[t][i] \notin Questions, got'[t][j] \notin Questions,
               log[t][m] = got'[t][i], log[t][n] = got'[t][j]
        PROVE  m < n
    <3>1. CASE t = s
      BY <2>1, <2>3, <3>1
    <3>2. CASE t # s
      <4>1. got'[t] = got[t]
        BY <2>2, <3>2
      <4> QED
        BY <2>3, <4>1 DEF BridgeInv, SentInOrder
    <3> QED
      BY <3>1, <3>2
  <2>4. \A t \in Sessions : \A i, j \in 1 .. Len(got'[t]) : \A m, n \in Lines(t)' :
          /\ i < j /\ got'[t][i] \notin Questions /\ got'[t][j] \notin Questions
          /\ log'[t][m] = got'[t][i] /\ log'[t][n] = got'[t][j]
          => m < n
    <3> SUFFICES ASSUME NEW t \in Sessions, NEW i \in 1 .. Len(got'[t]), NEW j \in 1 .. Len(got'[t]),
                        NEW m \in Lines(t)', NEW n \in Lines(t)',
                        i < j, got'[t][i] \notin Questions, got'[t][j] \notin Questions,
                        log'[t][m] = got'[t][i], log'[t][n] = got'[t][j]
                 PROVE  m < n
      OBVIOUS
    <3>1. m \in Lines(t) /\ n \in Lines(t) /\ log' = log
      BY <1>4, <1>11
    <3> QED
      BY <2>3, <3>1
  <2> QED
    BY <2>4 DEF SentInOrder
<1> QED
  BY <1>15, <1>16, <1>18, <1>19, <1>24, <1>25 DEF BridgeInv

\* A poll takes everything, and one that breaks a part.
LEMMA PollsRead ==
  ASSUME BridgeInv, NEW s \in Sessions, NEW j \in Nat, Poll(s) \/ PollBreaks(s, j)
  PROVE  BridgeInv'
<1> DEFINE u == Unread(s)
<1>0. offset[s] # Stopped
  BY DEF Poll, PollBreaks, Polls
<1>1. u \in Seq(Actions) /\ Len(u) \in Nat /\ j \in Nat
  <2>1. log[s] \in Seq(Actions) /\ offset[s] \in Nat
    BY <1>0 DEF BridgeInv, BridgeTyped
  <2> QED
    BY <2>1 DEF Unread
<1> HIDE DEF u
<1>2. CASE Poll(s)
  <2>1. SubSeq(u, 1, Len(u)) = u
    BY <1>1
  <2>2. {u[i] : i \in Len(u) + 1 .. Len(u)} = {} /\ Len(u) \in 0 .. Len(u)
    BY <1>1
  <2>3. Reads(s, Len(u))
    <3>1. /\ offset' = [offset EXCEPT ![s] = Len(log[s])]
          /\ cursor' = [cursor EXCEPT ![s] = Len(log[s])]
          /\ asked' = [asked EXCEPT ![s] = @ \cup (Range(u) \cap Questions)]
          /\ got' = [got EXCEPT ![s] = @ \o Said(u)]
          /\ UNCHANGED <<log, lost>>
      BY <1>2 DEF Poll, u
    <3> QED
      BY <1>0, <2>1, <2>2, <3>1 DEF Reads, u
  <2> QED
    BY <2>3, ReadKeepsBridge
<1>3. CASE PollBreaks(s, j)
  <2>1. j < Len(u)
    BY <1>3 DEF PollBreaks, u
  <2> DEFINE rest == SubSeq(u, j + 1, Len(u))
  <2>2. /\ rest \in Seq(Actions) /\ Len(rest) = Len(u) - j
        /\ \A i \in 1 .. Len(u) - j : rest[i] = u[j + i]
    BY <1>1, <2>1
  <2>3. Range(rest) = {rest[i] : i \in 1 .. Len(u) - j}
    BY <2>2, RangeOf
  <2> HIDE DEF rest
  <2>4. Range(rest) = {u[i] : i \in j + 1 .. Len(u)}
    <3>1. \A i \in 1 .. Len(u) - j : j + i \in j + 1 .. Len(u)
      BY <1>1
    <3>2. \A i \in j + 1 .. Len(u) : i - j \in 1 .. Len(u) - j /\ j + (i - j) = i
      BY <1>1
    <3>3. \A i \in j + 1 .. Len(u) : u[i] \in Range(rest)
      BY <2>2, <2>3, <3>2
    <3>4. \A i \in 1 .. Len(u) - j : rest[i] \in {u[n] : n \in j + 1 .. Len(u)}
      BY <2>2, <3>1
    <3> QED
      BY <2>3, <3>3, <3>4
  <2>5. j \in 0 .. Len(u)
    BY <1>1, <2>1
  <2>6. Reads(s, j)
    <3>1. /\ offset' = [offset EXCEPT ![s] = Len(log[s])]
          /\ cursor' = [cursor EXCEPT ![s] = Len(log[s])]
          /\ asked' = [asked EXCEPT ![s] = @ \cup (Range(SubSeq(u, 1, j)) \cap Questions)]
          /\ got' = [got EXCEPT ![s] = @ \o Said(SubSeq(u, 1, j))]
          /\ lost' = lost \cup Range(rest) /\ log' = log
      BY <1>3 DEF PollBreaks, u, rest
    <3> QED
      BY <1>0, <2>4, <2>5, <3>1 DEF Reads, u
  <2> QED
    BY <2>6, ReadKeepsBridge
<1> QED
  BY <1>2, <1>3

\* An answered question goes from its dialog to the session.
LEMMA AnswerKeepsBridge ==
  ASSUME BridgeInv, NEW s \in Sessions, NEW a \in Actions, HandlePromotedQuestion(s, a)
  PROVE  BridgeInv'
<1> DEFINE last == Len(got[s]) + 1
<1>1. /\ a \in asked[s] /\ a \in Questions /\ UNCHANGED <<log, cursor, offset, lost>>
      /\ asked' = [asked EXCEPT ![s] = @ \ {a}] /\ got' = [got EXCEPT ![s] = Append(@, a)]
      /\ log \in [Sessions -> Seq(Actions)] /\ asked \in [Sessions -> SUBSET Actions]
      /\ got \in [Sessions -> Seq(Actions)] /\ got[s] \in Seq(Actions)
  BY DEF HandlePromotedQuestion, BridgeInv, BridgeTyped, FromFile
<1>2. /\ got'[s] = Append(got[s], a) /\ Len(got'[s]) = last /\ got'[s][last] = a
      /\ last \in Nat /\ last \in 1 .. last
      /\ \A i \in 1 .. Len(got[s]) : got'[s][i] = got[s][i] /\ i \in 1 .. last
      /\ \A i \in 1 .. last : i \in 1 .. Len(got[s]) \/ i = last
  <2>1. got'[s] = Append(got[s], a)
    BY <1>1
  <2>2. Len(got[s]) \in Nat
    BY <1>1
  <2> QED
    BY <1>1, <2>1, <2>2
<1>3. \A t \in Sessions : t # s => got'[t] = got[t] /\ asked'[t] = asked[t]
  BY <1>1
<1>4. asked'[s] = asked[s] \ {a}
  BY <1>1
<1> HIDE DEF last
<1>5. \A t \in Sessions : Lines(t)' = Lines(t)
  BY <1>1 DEF Lines
<1>6. Sent(s)' = Sent(s) \cup {a} /\ \A t \in Sessions : t # s => Sent(t)' = Sent(t)
  <2>1. Sent(s)' = {got'[s][i] : i \in 1 .. last}
    BY <1>2 DEF Sent
  <2>2. Sent(s)' = Sent(s) \cup {a}
    BY <1>2, <2>1 DEF Sent
  <2>3. \A t \in Sessions : t # s => Sent(t)' = Sent(t)
    BY <1>3 DEF Sent
  <2> QED
    BY <2>2, <2>3
<1>7. BridgeTyped'
  BY <1>1 DEF BridgeInv, BridgeTyped
<1>8. LinesOnce'
  BY <1>1, <1>5 DEF BridgeInv, LinesOnce
<1>9. PICK z \in Lines(s) : log[s][z] = a
  <2>1. asked[s] \subseteq Range(log[s]) /\ Range(log[s]) = {log[s][n] : n \in Lines(s)}
    BY FileLines DEF BridgeInv, FromFile
  <2> QED
    BY <1>1, <2>1
<1>10. a \notin Sent(s) /\ a \notin lost /\ ~(z > cursor[s])
  BY <1>1, <1>9 DEF BridgeInv, InOnePlace
<1>11. \A t \in Sessions : \A n \in Lines(t) : log[t][n] = a => t = s /\ n = z
  BY <1>9 DEF BridgeInv, LinesOnce
<1>12. InOnePlace'
  <2> SUFFICES ASSUME NEW t \in Sessions, NEW n \in Lines(t)
               PROVE  /\ n > cursor[t] => log[t][n] \notin asked'[t] \cup Sent(t)' \cup lost
                      /\ n <= cursor[t] => log[t][n] \in asked'[t] \cup Sent(t)' \cup lost
                      /\ log[t][n] \notin asked'[t] \cap Sent(t)'
                      /\ log[t][n] \notin lost \cap (asked'[t] \cup Sent(t)')
    BY <1>1, <1>5 DEF InOnePlace
  <2>1. /\ n > cursor[t] => log[t][n] \notin asked[t] \cup Sent(t) \cup lost
        /\ n <= cursor[t] => log[t][n] \in asked[t] \cup Sent(t) \cup lost
        /\ log[t][n] \notin asked[t] \cap Sent(t)
        /\ log[t][n] \notin lost \cap (asked[t] \cup Sent(t))
    BY DEF BridgeInv, InOnePlace
  <2>2. CASE t # s
    BY <1>3, <1>6, <2>1, <2>2
  <2>3. CASE t = s /\ log[t][n] # a
    BY <1>4, <1>6, <2>1, <2>3
  <2>4. CASE t = s /\ log[t][n] = a
    BY <1>4, <1>6, <1>10, <1>11, <2>4
  <2> QED
    BY <2>2, <2>3, <2>4
<1>13. FromFile'
  <2>1. a \in Range(log[s]) /\ Enqueued' = Enqueued
    BY <1>1 DEF BridgeInv, FromFile, Enqueued
  <2> QED
    BY <1>1, <1>3, <1>4, <1>6, <2>1 DEF BridgeInv, FromFile
<1>14. SentOnce'
  <2>1. \A i \in 1 .. Len(got[s]) : got[s][i] # a
    BY <1>10 DEF Sent
  <2>2. \A i, j \in 1 .. Len(got'[s]) : got'[s][i] = got'[s][j] => i = j
    BY <1>2, <2>1 DEF BridgeInv, SentOnce
  <2> QED
    BY <1>3, <2>2 DEF BridgeInv, SentOnce
<1>15. SentInOrder'
  <2> SUFFICES ASSUME NEW t \in Sessions, NEW i \in 1 .. Len(got'[t]), NEW j \in 1 .. Len(got'[t]),
                      NEW m \in Lines(t)', NEW n \in Lines(t)',
                      i < j, got'[t][i] \notin Questions, got'[t][j] \notin Questions,
                      log'[t][m] = got'[t][i], log'[t][n] = got'[t][j]
               PROVE  m < n
    BY DEF SentInOrder
  <2>1. m \in Lines(t) /\ n \in Lines(t) /\ log' = log
    BY <1>1, <1>5
  <2>2. i \in 1 .. Len(got[t]) /\ j \in 1 .. Len(got[t]) /\ got'[t][i] = got[t][i] /\ got'[t][j] = got[t][j]
    BY <1>1, <1>2, <1>3
  <2> QED
    BY <2>1, <2>2 DEF BridgeInv, SentInOrder
<1> QED
  BY <1>7, <1>8, <1>12, <1>13, <1>14, <1>15 DEF BridgeInv

\* What a session asks when it ends is lost, and what lies ahead stays.
LEMMA CloseKeepsBridge ==
  ASSUME BridgeInv, NEW s \in Sessions, CloseSession(s)
  PROVE  BridgeInv'
<1>1. /\ asked' = [asked EXCEPT ![s] = {}] /\ lost' = lost \cup asked[s]
      /\ UNCHANGED <<log, cursor, got>>
      /\ asked \in [Sessions -> SUBSET Actions]
  BY DEF CloseSession, BridgeInv, BridgeTyped
<1>2. asked'[s] = {} /\ \A t \in Sessions : t # s => asked'[t] = asked[t]
  BY <1>1
<1>3. \A t \in Sessions : Lines(t)' = Lines(t) /\ Sent(t)' = Sent(t)
  BY <1>1 DEF Lines, Sent
<1>4. BridgeTyped'
  BY <1>1 DEF CloseSession, BridgeInv, BridgeTyped
<1>5. LinesOnce' /\ SentOnce' /\ SentInOrder'
  BY <1>1, <1>3 DEF BridgeInv, LinesOnce, SentOnce, SentInOrder
<1>6. \A t \in Sessions : \A n \in Lines(t) : log[t][n] \in asked[s] => t = s
  <2>1. asked[s] \subseteq {log[s][n] : n \in Lines(s)}
    BY FileLines DEF BridgeInv, FromFile
  <2> QED
    BY <2>1 DEF BridgeInv, LinesOnce
<1>7. InOnePlace'
  <2> SUFFICES ASSUME NEW t \in Sessions, NEW n \in Lines(t)
               PROVE  /\ n > cursor[t] => log[t][n] \notin asked'[t] \cup Sent(t) \cup lost'
                      /\ n <= cursor[t] => log[t][n] \in asked'[t] \cup Sent(t) \cup lost'
                      /\ log[t][n] \notin asked'[t] \cap Sent(t)
                      /\ log[t][n] \notin lost' \cap (asked'[t] \cup Sent(t))
    BY <1>1, <1>3 DEF InOnePlace
  <2>1. /\ n > cursor[t] => log[t][n] \notin asked[t] \cup Sent(t) \cup lost
        /\ n <= cursor[t] => log[t][n] \in asked[t] \cup Sent(t) \cup lost
        /\ log[t][n] \notin asked[t] \cap Sent(t)
        /\ log[t][n] \notin lost \cap (asked[t] \cup Sent(t))
    BY DEF BridgeInv, InOnePlace
  <2>2. CASE t # s
    BY <1>1, <1>2, <1>6, <2>1, <2>2
  <2>3. CASE t = s
    BY <1>1, <1>2, <2>1, <2>3
  <2> QED
    BY <2>2, <2>3
<1>8. FromFile'
  <2>1. asked[s] \subseteq Enqueued /\ Enqueued' = Enqueued
    BY <1>1 DEF BridgeInv, FromFile, Enqueued
  <2> QED
    BY <1>1, <1>2, <1>3, <2>1 DEF BridgeInv, FromFile
<1> QED
  BY <1>4, <1>5, <1>7, <1>8 DEF BridgeInv

\* Every step keeps it.
LEMMA NextKeepsBridge ==
  ASSUME BridgeInv, [BridgeNext]_bridgeVars
  PROVE  BridgeInv'
<1>1. CASE UNCHANGED bridgeVars
  BY <1>1, TimersTouchNothing DEF bridgeVars, BridgeInv, BridgeTyped
<1>2. ASSUME NEW s \in Sessions, Poll(s) PROVE BridgeInv'
  <2>1. 0 \in Nat
    OBVIOUS
  <2> QED
    BY <1>2, <2>1, PollsRead
<1>3. ASSUME NEW s \in Sessions, NEW j \in 0 .. Cardinality(Actions), PollBreaks(s, j) PROVE BridgeInv'
  <2>1. j \in Nat
    OBVIOUS
  <2> QED
    BY <1>3, <2>1, PollsRead
<1> QED
  BY <1>1, <1>2, <1>3, EnqueueKeepsBridge, StartKeepsBridge, AnswerKeepsBridge, CloseKeepsBridge
     DEF BridgeNext

\* What lies ahead of a cursor are the lines behind it in the file.
LEMMA AheadLines ==
  ASSUME BridgeInv, NEW s \in Sessions, NEW n \in Lines(s)
  PROVE  log[s][n] \in Ahead(s) <=> n > cursor[s]
<1> DEFINE c == cursor[s]
           rest == SubSeq(log[s], c + 1, Len(log[s]))
<1>1. log[s] \in Seq(Actions) /\ Len(log[s]) \in Nat /\ c \in Nat /\ c <= Len(log[s]) /\ n \in 1 .. Len(log[s])
  BY DEF BridgeInv, BridgeTyped, Lines
<1> HIDE DEF c
<1>2. /\ rest \in Seq(Actions) /\ Len(rest) = Len(log[s]) - c
      /\ \A i \in 1 .. Len(log[s]) - c : rest[i] = log[s][c + i]
  BY <1>1
<1>3. Range(rest) = {rest[i] : i \in 1 .. Len(log[s]) - c}
  BY <1>2, RangeOf
<1>4. Ahead(s) = Range(rest)
  BY DEF Ahead, c
<1> HIDE DEF rest
<1>5. ASSUME n > c PROVE log[s][n] \in Ahead(s)
  <2>1. n - c \in 1 .. Len(log[s]) - c /\ c + (n - c) = n
    BY <1>1, <1>5
  <2> QED
    BY <1>2, <1>3, <1>4, <2>1
<1>6. ASSUME log[s][n] \in Ahead(s) PROVE n > c
  <2>1. PICK i \in 1 .. Len(log[s]) - c : log[s][n] = rest[i]
    BY <1>3, <1>4, <1>6
  <2>2. log[s][n] = log[s][c + i] /\ c + i \in Lines(s) /\ c + i > c
    BY <1>1, <1>2, <2>1 DEF Lines
  <2>3. n = c + i
    BY <2>2 DEF BridgeInv, LinesOnce
  <2> QED
    BY <2>2, <2>3
<1> QED
  BY <1>5, <1>6 DEF c

\* An action is counted where it is.
LEMMA CountedOnce ==
  ASSUME BridgeInv, NEW s \in Sessions, NEW a
  PROVE  Cardinality({i \in 1 .. Len(got[s]) : got[s][i] = a}) = IF a \in Sent(s) THEN 1 ELSE 0
<1> DEFINE at == {i \in 1 .. Len(got[s]) : got[s][i] = a}
<1>1. CASE a \notin Sent(s)
  <2>1. at = {}
    BY <1>1 DEF Sent
  <2> QED
    BY <1>1, <2>1, FS_EmptySet
<1>2. CASE a \in Sent(s)
  <2>1. PICK i \in 1 .. Len(got[s]) : got[s][i] = a
    BY <1>2 DEF Sent
  <2>2. at = {i}
    BY <2>1 DEF BridgeInv, SentOnce
  <2> QED
    BY <1>2, <2>2, FS_Singleton
<1> QED
  BY <1>1, <1>2

\* However sessions end and come back, every action of the dashboard is delivered once, or
\* asked once, or lost with its session or a broken poll, and reviews reach the planner in
\* their order (plan-bridge.ts, questions.ts and the timer of widget.ts).
THEOREM ActionsOnce == BridgeInit /\ [][BridgeNext]_bridgeVars => []BridgeIsSafe
<1>1. ASSUME BridgeInv PROVE NothingTwice
  <2> SUFFICES ASSUME NEW s \in Sessions, NEW a \in Range(log[s])
               PROVE  (IF a \in Ahead(s) THEN 1 ELSE 0) + (IF a \in asked[s] THEN 1 ELSE 0)
                        + Cardinality({i \in 1 .. Len(got[s]) : got[s][i] = a})
                        + (IF a \in lost THEN 1 ELSE 0) = 1
    BY DEF NothingTwice
  <2>1. PICK n \in Lines(s) : a = log[s][n]
    BY <1>1, FileLines DEF BridgeInv
  <2>2. a \in Ahead(s) <=> n > cursor[s]
    BY <1>1, <2>1, AheadLines
  <2>3. Cardinality({i \in 1 .. Len(got[s]) : got[s][i] = a}) = IF a \in Sent(s) THEN 1 ELSE 0
    BY <1>1, CountedOnce
  <2>4. n \in Int /\ cursor[s] \in Int
    BY <1>1, FileLines DEF BridgeInv, Lines
  <2>5. /\ n > cursor[s] => a \notin asked[s] \cup Sent(s) \cup lost
        /\ n <= cursor[s] => a \in asked[s] \cup Sent(s) \cup lost
        /\ a \notin asked[s] \cap Sent(s) /\ a \notin lost \cap (asked[s] \cup Sent(s))
    BY <1>1, <2>1 DEF BridgeInv, InOnePlace
  <2>6. CASE n > cursor[s]
    BY <2>2, <2>3, <2>5, <2>6
  <2>7. CASE ~(n > cursor[s])
    <3>1. n <= cursor[s] /\ a \notin Ahead(s)
      BY <2>2, <2>4, <2>7
    <3> QED
      BY <2>3, <2>5, <3>1
  <2> QED
    BY <2>6, <2>7
<1>2. ASSUME BridgeInv PROVE InReviewOrder
  <2>1. \A s \in Sessions : Range(got[s]) \subseteq Range(log[s])
    <3> TAKE s \in Sessions
    <3>1. got[s] \in Seq(Actions)
      BY <1>2 DEF BridgeInv, BridgeTyped
    <3>2. Range(got[s]) = Sent(s)
      BY <3>1, RangeOf DEF Sent
    <3> QED
      BY <1>2, <3>2 DEF BridgeInv, FromFile
  <2>2. ASSUME NEW s \in Sessions, NEW i \in 1 .. Len(got[s]), NEW j \in 1 .. Len(got[s]),
               i < j, {got[s][i], got[s][j]} \cap Questions = {}
        PROVE  \E m, n \in 1 .. Len(log[s]) : m < n /\ log[s][m] = got[s][i] /\ log[s][n] = got[s][j]
    <3>1. got[s][i] \in Sent(s) /\ got[s][j] \in Sent(s)
      BY DEF Sent
    <3>2. Sent(s) \subseteq {log[s][n] : n \in Lines(s)}
      BY <1>2, FileLines DEF BridgeInv, FromFile
    <3>3. PICK m \in Lines(s) : log[s][m] = got[s][i]
      BY <3>1, <3>2
    <3>4. PICK n \in Lines(s) : log[s][n] = got[s][j]
      BY <3>1, <3>2
    <3>5. m < n
      BY <1>2, <2>2, <3>3, <3>4 DEF BridgeInv, SentInOrder
    <3> QED
      BY <3>3, <3>4, <3>5 DEF Lines
  <2> QED
    BY <2>1, <2>2 DEF InReviewOrder
<1>3. BridgeInv => BridgeIsSafe
  BY <1>1, <1>2 DEF BridgeIsSafe
<1> QED
  BY <1>3, BridgeStarts, NextKeepsBridge, PTL

-----------------------------------------------------------------------------
(* The restore of a cycle *)

\* Handlers of agent_settled.
Awaiting == [exit : Nat, leaf : Nat, attempt : {1, 2}, at : Nat, id : Nat]

\* Types of the restore of a cycle; leaves are entries of the tree.
CycleTypeOK ==
  /\ entries \in Seq([up : Nat, exit : Nat, attempt : 0 .. 2])
  /\ leaf \in Nat /\ leaf <= Len(entries)
  /\ snapshot \in Nat /\ begun \in Nat /\ snapshot <= begun /\ begun <= Len(entries)
  /\ pending \in [exit : Nat, leaf : Nat, handed : BOOLEAN]
  /\ jobs \subseteq Awaiting
  /\ exits \in Seq(Nat) /\ \A e \in 1 .. Len(exits) : exits[e] <= Len(entries)
  /\ restored \subseteq 1 .. Len(entries)

\* What is to be restored leads to a leaf from before the cycle of its exit.
OfExit(r) == r.exit \in 1 .. Len(exits) /\ r.leaf <= exits[r.exit]

\* The summaries of an exit.
OfThis(e) == {s \in Summaries : entries[s].exit = e}

\* What is pending is in nobody's hands yet and has left nothing in the tree.
PendingIsNew ==
  pending # NoPending =>
    /\ OfExit(pending) /\ OfThis(pending.exit) = {}
    /\ \A j \in jobs : j.exit # pending.exit

\* An exit has one handler; what it has left in the tree is of earlier attempts, or the
\* summary it navigates to, and nothing of it was reported.
HandlersAreOne ==
  \A j \in jobs :
    /\ OfExit(j) /\ \A k \in jobs : j.exit = k.exit => j = k
    /\ j.at # 0 => j.at \in OfThis(j.exit) /\ entries[j.at].attempt = j.attempt
    /\ \A s \in OfThis(j.exit) :
         /\ s \notin restored
         /\ s = j.at \/ entries[s].attempt < j.attempt
         /\ j.at # 0 => s <= j.at

\* The summaries are those of exits, and of attempts.
SummariesOfExits ==
  \A s \in Summaries : entries[s].exit \in 1 .. Len(exits) /\ entries[s].attempt \in {1, 2}

\* The invariant of the restore.
CycleInv == CycleTypeOK /\ PendingIsNew /\ HandlersAreOne /\ SummariesOfExits /\ RestoredOnce

\* Nothing is pending at first.
LEMMA CycleStarts == CycleInit => CycleInv
<1> SUFFICES ASSUME CycleInit PROVE CycleInv
  OBVIOUS
<1>1. /\ entries \in Seq([up : Nat, exit : Nat, attempt : 0 .. 2])
      /\ Len(entries) \in Nat /\ \A s \in 1 .. Len(entries) : entries[s].exit = 0
  <2>1. CASE entries = <<>>
    BY <2>1
  <2>2. CASE entries = <<Entry(0)>>
    <3>1. Entry(0) \in [up : Nat, exit : Nat, attempt : 0 .. 2] /\ Entry(0).exit = 0
      BY DEF Entry
    <3> HIDE DEF Entry
    <3> QED
      BY <2>2, <3>1
  <2> QED
    BY <2>1, <2>2 DEF CycleInit
<1>2. Summaries = {}
  BY <1>1 DEF Summaries
<1>3. CycleTypeOK
  BY <1>1 DEF CycleInit, CycleTypeOK, NoPending
<1> QED
  BY <1>2, <1>3 DEF CycleInit, CycleInv, PendingIsNew, HandlersAreOne, SummariesOfExits, RestoredOnce

\* What neither exits, nor hands over, nor hangs a summary keeps who restores what.
LEMMA QuietKeepsRestores ==
  ASSUME CycleInv, CycleTypeOK', UNCHANGED <<exits, jobs, restored>>,
         Summaries' = Summaries, \A s \in Summaries : entries'[s] = entries[s],
         pending' # NoPending => /\ pending # NoPending
                                 /\ pending'.exit = pending.exit /\ pending'.leaf = pending.leaf
  PROVE  CycleInv'
<1>1. \A e : OfThis(e)' = OfThis(e)
  BY DEF OfThis
<1>2. PendingIsNew'
  BY <1>1 DEF CycleInv, PendingIsNew, OfExit
<1>3. HandlersAreOne'
  BY <1>1 DEF CycleInv, HandlersAreOne, OfExit, OfThis
<1>4. SummariesOfExits' /\ RestoredOnce'
  BY DEF CycleInv, SummariesOfExits, RestoredOnce
<1> QED
  BY <1>2, <1>3, <1>4 DEF CycleInv

\* The end of a turn adds an entry that is no summary.
LEMMA TurnAdds ==
  ASSUME CycleInv, EndTurn
  PROVE  /\ Summaries' = Summaries /\ \A s \in Summaries : entries'[s] = entries[s]
         /\ entries' \in Seq([up : Nat, exit : Nat, attempt : 0 .. 2])
         /\ leaf' \in Nat /\ leaf' <= Len(entries') /\ Len(entries') = Len(entries) + 1
<1>1. entries \in Seq([up : Nat, exit : Nat, attempt : 0 .. 2]) /\ leaf \in Nat
  BY DEF CycleInv, CycleTypeOK
<1>2. Entry(leaf) \in [up : Nat, exit : Nat, attempt : 0 .. 2] /\ Entry(leaf).exit = 0
  BY <1>1 DEF Entry
<1>3. entries' = Append(entries, Entry(leaf)) /\ leaf' = Len(entries')
  BY DEF EndTurn
<1>4. /\ entries' \in Seq([up : Nat, exit : Nat, attempt : 0 .. 2])
      /\ Len(entries') = Len(entries) + 1 /\ Len(entries) \in Nat
      /\ entries'[Len(entries) + 1] = Entry(leaf)
      /\ \A s \in 1 .. Len(entries) : entries'[s] = entries[s]
  BY <1>1, <1>2, <1>3
<1>5. Summaries' = Summaries
  BY <1>2, <1>4 DEF Summaries
<1> QED
  BY <1>3, <1>4, <1>5 DEF Summaries

\* An exit has a number that no restore bears yet.
LEMMA ExitKeepsRestores ==
  ASSUME CycleInv, NEW t, LeaveCycle(t)
  PROVE  CycleInv'
<1>1. CASE snapshot = 0
  <2>1. UNCHANGED <<entries, leaf, snapshot, begun, pending, jobs, exits, restored>>
    BY <1>1 DEF LeaveCycle, sessionVars
  <2> QED
    BY <2>1 DEF CycleInv, CycleTypeOK, PendingIsNew, HandlersAreOne, SummariesOfExits,
       RestoredOnce, OfExit, OfThis, Summaries
<1>2. CASE snapshot # 0
  <2>1. /\ exits' = Append(exits, begun)
        /\ pending' = [exit |-> Len(exits) + 1, leaf |-> snapshot, handed |-> FALSE]
        /\ UNCHANGED <<entries, leaf, snapshot, begun, jobs, restored>>
    BY <1>2 DEF LeaveCycle, sessionVars
  <2>2. /\ exits \in Seq(Nat) /\ begun \in Nat /\ snapshot \in Nat /\ snapshot <= begun
    BY DEF CycleInv, CycleTypeOK
  <2>3. /\ exits' \in Seq(Nat) /\ Len(exits') = Len(exits) + 1 /\ Len(exits) \in Nat
        /\ exits'[Len(exits) + 1] = begun
        /\ \A e \in 1 .. Len(exits) : exits'[e] = exits[e]
    BY <2>1, <2>2
  <2>4. CycleTypeOK'
    <3>1. \A e \in 1 .. Len(exits') : exits'[e] <= Len(entries')
      BY <2>1, <2>3 DEF CycleInv, CycleTypeOK
    <3> QED
      BY <2>1, <2>2, <2>3, <3>1 DEF CycleInv, CycleTypeOK
  <2>5. /\ Summaries' = Summaries /\ \A e : OfThis(e)' = OfThis(e)
    BY <2>1 DEF Summaries, OfThis
  <2>6. OfThis(Len(exits) + 1) = {} /\ \A j \in jobs : j.exit # Len(exits) + 1
    BY <2>3 DEF CycleInv, SummariesOfExits, HandlersAreOne, OfExit, OfThis
  <2>7. PendingIsNew'
    BY <2>1, <2>2, <2>3, <2>5, <2>6 DEF PendingIsNew, OfExit
  <2>8. \A j \in jobs : OfExit(j) => OfExit(j)'
    BY <2>3 DEF OfExit
  <2>9. HandlersAreOne'
    BY <2>1, <2>5, <2>8 DEF CycleInv, HandlersAreOne
  <2>10. SummariesOfExits' /\ RestoredOnce'
    BY <2>1, <2>3, <2>5 DEF CycleInv, SummariesOfExits, RestoredOnce
  <2> QED
    BY <2>4, <2>7, <2>9, <2>10 DEF CycleInv
<1> QED
  BY <1>1, <1>2

\* What was pending is handed to one handler, or dropped.
LEMMA SettledKeepsRestores ==
  ASSUME CycleInv, AgentSettled
  PROVE  CycleInv'
<1>1. UNCHANGED <<exits, restored, snapshot, begun>> /\ pending' = NoPending
  BY DEF AgentSettled, EndTurn, historyVars
<1>2. /\ Summaries' = Summaries /\ \A s \in Summaries : entries'[s] = entries[s]
      /\ entries' \in Seq([up : Nat, exit : Nat, attempt : 0 .. 2])
      /\ leaf' \in Nat /\ leaf' <= Len(entries') /\ Len(entries') = Len(entries) + 1
  BY TurnAdds DEF AgentSettled
<1>3. jobs' = jobs \/ (pending # NoPending /\ jobs' = jobs \cup {Handler})
  BY DEF AgentSettled, Handlers
<1>4. /\ Handler \in Awaiting /\ Handler.exit = pending.exit /\ Handler.leaf = pending.leaf
      /\ Handler.at = 0
  BY DEF CycleInv, CycleTypeOK, Handler, Awaiting
<1>5. CycleTypeOK'
  BY <1>1, <1>2, <1>3, <1>4 DEF CycleInv, CycleTypeOK, NoPending
<1>6. \A e : OfThis(e)' = OfThis(e)
  BY <1>2 DEF OfThis
<1>7. PendingIsNew'
  BY <1>1 DEF PendingIsNew
<1>8. \A s \in Summaries : entries'[s].attempt = entries[s].attempt
  BY <1>2
<1>9. HandlersAreOne'
  <2>1. \A r : OfExit(r) => OfExit(r)'
    BY <1>1 DEF OfExit
  <2>2. ASSUME NEW j \in jobs'
        PROVE  /\ OfExit(j)' /\ \A k \in jobs' : j.exit = k.exit => j = k
               /\ j.at # 0 => j.at \in OfThis(j.exit)' /\ entries'[j.at].attempt = j.attempt
               /\ \A s \in OfThis(j.exit)' :
                    /\ s \notin restored'
                    /\ s = j.at \/ entries'[s].attempt < j.attempt
                    /\ j.at # 0 => s <= j.at
    <3>1. CASE j \in jobs
      <4>1. \A k \in jobs' : j.exit = k.exit => j = k
        BY <1>3, <1>4, <3>1 DEF CycleInv, HandlersAreOne, PendingIsNew
      <4> QED
        BY <1>1, <1>2, <1>6, <2>1, <3>1, <4>1 DEF CycleInv, HandlersAreOne, OfThis
    <3>2. CASE j \notin jobs
      <4>1. j = Handler /\ pending # NoPending
        BY <1>3, <2>2, <3>2
      <4>2. OfExit(j)' /\ OfThis(j.exit)' = {}
        BY <1>4, <1>6, <2>1, <4>1 DEF CycleInv, PendingIsNew, OfExit
      <4>3. \A k \in jobs' : j.exit = k.exit => j = k
        BY <1>3, <1>4, <4>1 DEF CycleInv, PendingIsNew
      <4> QED
        BY <1>4, <4>1, <4>2, <4>3
    <3> QED
      BY <3>1, <3>2
  <2> QED
    BY <2>2 DEF HandlersAreOne
<1>10. SummariesOfExits' /\ RestoredOnce'
  BY <1>1, <1>2 DEF CycleInv, SummariesOfExits, RestoredOnce
<1> QED
  BY <1>5, <1>7, <1>9, <1>10 DEF CycleInv

\* A summary is hung by the only handler of its exit, below the leaf of that exit, and
\* after those of its earlier attempts.
LEMMA HangingKeepsRestores ==
  ASSUME CycleInv, NEW j \in jobs, HangSummary(j)
  PROVE  CycleInv'
<1> DEFINE n == Len(entries)
           row == [up |-> j.leaf, exit |-> j.exit, attempt |-> j.attempt]
           on == [j EXCEPT !.at = n + 1]
<1>1. /\ j \in Awaiting /\ OfExit(j) /\ j.at = 0 /\ n \in Nat /\ exits \in Seq(Nat)
      /\ entries \in Seq([up : Nat, exit : Nat, attempt : 0 .. 2])
  BY DEF CycleInv, CycleTypeOK, HandlersAreOne, HangSummary
<1>2. row \in [up : Nat, exit : Nat, attempt : 0 .. 2]
  BY <1>1 DEF Awaiting
<1>3. /\ entries' = Append(entries, row) /\ leaf' = j.leaf
      /\ jobs' = (jobs \ {j}) \cup {[j EXCEPT !.at = Len(entries')]}
      /\ UNCHANGED <<snapshot, begun, pending, exits, restored>>
  BY DEF HangSummary, historyVars
<1>4. /\ entries' \in Seq([up : Nat, exit : Nat, attempt : 0 .. 2]) /\ Len(entries') = n + 1
      /\ entries'[n + 1] = row /\ \A s \in 1 .. n : entries'[s] = entries[s]
  BY <1>1, <1>2, <1>3
<1>5. jobs' = (jobs \ {j}) \cup {on}
  BY <1>3, <1>4
<1>6. /\ on \in Awaiting /\ on.exit = j.exit /\ on.leaf = j.leaf /\ on.attempt = j.attempt
      /\ on.at = n + 1
  <2>1. j \in [exit : Nat, leaf : Nat, attempt : {1, 2}, at : Nat, id : Nat] /\ n + 1 \in Nat
    BY <1>1 DEF Awaiting
  <2>2. on = [exit |-> j.exit, leaf |-> j.leaf, attempt |-> j.attempt, at |-> n + 1, id |-> j.id]
    BY <2>1
  <2> HIDE DEF n, on
  <2> QED
    BY <2>1, <2>2 DEF Awaiting
<1>7. row.exit = j.exit /\ row.up = j.leaf /\ row.attempt = j.attempt
  OBVIOUS
<1> HIDE DEF n, row, on
<1>8. /\ j.exit \in 1 .. Len(exits) /\ j.leaf <= exits[j.exit] /\ j.attempt \in {1, 2} /\ j.leaf \in Nat
      /\ Len(exits) \in Nat
  BY <1>1 DEF OfExit, Awaiting
<1>9. /\ Summaries' = Summaries \cup {n + 1} /\ n + 1 \notin Summaries
      /\ \A s \in Summaries : s \in 1 .. n /\ entries'[s] = entries[s]
  <2>1. Summaries = {s \in 1 .. n : entries[s].exit # 0}
    BY DEF Summaries, n
  <2>2. Summaries' = {s \in 1 .. n + 1 : entries'[s].exit # 0}
    BY <1>4 DEF Summaries
  <2>3. n \in Nat /\ entries'[n + 1].exit # 0
    BY <1>1, <1>4, <1>7, <1>8 DEF Awaiting, n
  <2> QED
    BY <1>4, <2>1, <2>2, <2>3
<1>10. /\ OfThis(j.exit)' = OfThis(j.exit) \cup {n + 1}
       /\ \A e : e # j.exit => OfThis(e)' = OfThis(e)
  BY <1>4, <1>7, <1>9 DEF OfThis
<1>11. j.leaf <= n + 1
  <2>1. exits[j.exit] \in Nat /\ exits[j.exit] <= n
    BY <1>1, <1>8 DEF CycleInv, CycleTypeOK, n
  <2> QED
    BY <1>1, <1>8, <2>1
<1>12. CycleTypeOK'
  <2>1. /\ \A e \in 1 .. Len(exits') : exits'[e] <= Len(entries')
        /\ begun' <= Len(entries') /\ restored' \subseteq 1 .. Len(entries')
    BY <1>1, <1>3, <1>4 DEF CycleInv, CycleTypeOK, n
  <2> QED
    BY <1>3, <1>4, <1>5, <1>6, <1>8, <1>11, <2>1 DEF CycleInv, CycleTypeOK
<1>13. \A r : OfExit(r)' = OfExit(r)
  BY <1>3 DEF OfExit
<1>14. PendingIsNew'
  BY <1>3, <1>5, <1>6, <1>10, <1>13 DEF CycleInv, PendingIsNew
<1>15. n + 1 \notin restored
  BY <1>1 DEF CycleInv, CycleTypeOK, n
<1>16. HandlersAreOne'
  <2>1. ASSUME NEW k \in jobs'
        PROVE  /\ OfExit(k)' /\ \A l \in jobs' : k.exit = l.exit => k = l
               /\ k.at # 0 => k.at \in OfThis(k.exit)' /\ entries'[k.at].attempt = k.attempt
               /\ \A s \in OfThis(k.exit)' :
                    /\ s \notin restored'
                    /\ s = k.at \/ entries'[s].attempt < k.attempt
                    /\ k.at # 0 => s <= k.at
    <3>1. CASE k = on
      <4>1. \A l \in jobs' : k.exit = l.exit => k = l
        BY <1>5, <1>6, <3>1 DEF CycleInv, HandlersAreOne
      <4>2. OfExit(k)'
        BY <1>6, <1>8, <1>13, <3>1 DEF OfExit
      <4>3. \A s \in OfThis(j.exit) : s \in 1 .. n /\ s \notin restored /\ entries'[s].attempt < j.attempt
        <5> TAKE s \in OfThis(j.exit)
        <5>1. s \in Summaries
          BY DEF OfThis
        <5>2. s \in 1 .. n /\ entries'[s] = entries[s]
          BY <1>9, <5>1
        <5>3. s \notin restored /\ (s = j.at \/ entries[s].attempt < j.attempt)
          BY DEF CycleInv, HandlersAreOne
        <5> QED
          BY <1>1, <5>2, <5>3
      <4> QED
        BY <1>3, <1>4, <1>6, <1>7, <1>10, <1>15, <3>1, <4>1, <4>2, <4>3, <1>1
    <3>2. CASE k # on
      <4>1. k \in jobs /\ k # j /\ k.exit # j.exit
        BY <1>5, <2>1, <3>2 DEF CycleInv, HandlersAreOne
      <4>2. \A l \in jobs' : k.exit = l.exit => k = l
        BY <1>5, <1>6, <4>1 DEF CycleInv, HandlersAreOne
      <4>3. OfThis(k.exit)' = OfThis(k.exit) /\ \A s \in OfThis(k.exit) : entries'[s] = entries[s]
        BY <1>9, <1>10, <4>1 DEF OfThis
      <4> QED
        BY <1>3, <1>13, <4>1, <4>2, <4>3 DEF CycleInv, HandlersAreOne
    <3> QED
      BY <3>1, <3>2
  <2> QED
    BY <2>1 DEF HandlersAreOne
<1>17. SummariesOfExits'
  BY <1>3, <1>4, <1>7, <1>8, <1>9 DEF CycleInv, SummariesOfExits
<1>18. RestoredOnce'
  <2>1. ASSUME NEW s \in Summaries'
        PROVE  /\ entries'[s].up <= exits'[entries'[s].exit]
               /\ \A t \in Summaries' : entries'[s].exit = entries'[t].exit /\ s < t =>
                    entries'[s].attempt = 1 /\ entries'[t].attempt = 2 /\ s \notin restored'
    <3>1. CASE s = n + 1
      <4>1. \A t \in Summaries' : ~(s < t)
        BY <1>1, <1>9, <3>1
      <4> QED
        BY <1>3, <1>4, <1>7, <1>8, <3>1, <4>1
    <3>2. CASE s # n + 1
      <4>1. s \in Summaries /\ entries'[s] = entries[s] /\ s \in 1 .. n
        BY <1>9, <2>1, <3>2
      <4>2. entries'[s].up <= exits'[entries'[s].exit]
        BY <1>3, <4>1 DEF CycleInv, RestoredOnce
      <4>3. ASSUME NEW t \in Summaries', entries'[s].exit = entries'[t].exit, s < t
            PROVE  entries'[s].attempt = 1 /\ entries'[t].attempt = 2 /\ s \notin restored'
        <5>1. CASE t = n + 1
          <6>1. s \in OfThis(j.exit)
            BY <1>4, <1>7, <4>1, <4>3, <5>1 DEF OfThis
          <6>2. s \notin restored /\ (s = j.at \/ entries[s].attempt < j.attempt)
            BY <6>1 DEF CycleInv, HandlersAreOne
          <6>3. entries[s].attempt \in {1, 2}
            BY <4>1 DEF CycleInv, SummariesOfExits
          <6>4. entries[s].attempt < j.attempt
            BY <1>1, <4>1, <6>2
          <6>5. entries[s].attempt = 1 /\ j.attempt = 2
            BY <1>8, <6>3, <6>4
          <6> QED
            BY <1>3, <1>4, <1>7, <4>1, <5>1, <6>2, <6>5
        <5>2. CASE t # n + 1
          <6>1. t \in Summaries /\ entries'[t] = entries[t]
            BY <1>9, <5>2
          <6> QED
            BY <1>3, <4>1, <4>3, <6>1 DEF CycleInv, RestoredOnce
        <5> QED
          BY <5>1, <5>2
      <4> QED
        BY <4>2, <4>3
    <3> QED
      BY <3>1, <3>2
  <2> QED
    BY <2>1 DEF RestoredOnce
<1> QED
  BY <1>12, <1>14, <1>16, <1>17, <1>18 DEF CycleInv

\* A handler that fails goes on with a second attempt, or not at all; what it navigated to
\* is then of its first.
LEMMA FailureKeepsHandlers ==
  ASSUME CycleInv, NEW j \in jobs, Fail(j), UNCHANGED <<entries, pending, exits, restored>>
  PROVE  /\ jobs' \subseteq Awaiting
         /\ PendingIsNew' /\ HandlersAreOne' /\ SummariesOfExits' /\ RestoredOnce'
<1> DEFINE again == [j EXCEPT !.attempt = 2, !.at = 0]
<1>1. /\ jobs' \subseteq (jobs \ {j}) \cup {again}
      /\ again \in jobs' => j.attempt = 1 \/ again \in jobs
  BY DEF Fail
<1>2. j \in Awaiting
  BY DEF CycleInv, CycleTypeOK
<1>3. /\ again \in Awaiting /\ again.exit = j.exit /\ again.leaf = j.leaf
      /\ again.attempt = 2 /\ again.at = 0
  BY <1>2 DEF Awaiting
<1>4. ASSUME NEW k \in jobs' PROVE k \in jobs \ {j} \/ (k = again /\ j.attempt = 1)
  BY <1>4 DEF Fail
<1> HIDE DEF again
<1>5. Summaries' = Summaries /\ \A e : OfThis(e)' = OfThis(e)
  BY DEF Summaries, OfThis
<1>6. \A r : OfExit(r)' = OfExit(r)
  BY DEF OfExit
<1>7. jobs' \subseteq Awaiting
  BY <1>1, <1>3 DEF CycleInv, CycleTypeOK
<1>8. PendingIsNew'
  BY <1>1, <1>3, <1>5, <1>6 DEF CycleInv, PendingIsNew
<1>9. HandlersAreOne'
  <2>1. ASSUME NEW k \in jobs'
        PROVE  /\ OfExit(k)' /\ \A l \in jobs' : k.exit = l.exit => k = l
               /\ k.at # 0 => k.at \in OfThis(k.exit)' /\ entries'[k.at].attempt = k.attempt
               /\ \A s \in OfThis(k.exit)' :
                    /\ s \notin restored'
                    /\ s = k.at \/ entries'[s].attempt < k.attempt
                    /\ k.at # 0 => s <= k.at
    <3>1. CASE k \in jobs \ {j}
      <4>1. k.exit # j.exit
        BY <3>1 DEF CycleInv, HandlersAreOne
      <4>2. \A l \in jobs' : k.exit = l.exit => k = l
        BY <1>1, <1>3, <3>1, <4>1 DEF CycleInv, HandlersAreOne
      <4> QED
        BY <1>5, <1>6, <3>1, <4>2 DEF CycleInv, HandlersAreOne
    <3>2. CASE k = again /\ j.attempt = 1
      <4>1. \A l \in jobs' : k.exit = l.exit => k = l
        BY <1>1, <1>3, <3>2 DEF CycleInv, HandlersAreOne
      <4>2. OfExit(k)'
        BY <1>3, <1>6, <3>2 DEF CycleInv, HandlersAreOne, OfExit
      <4>3. \A s \in OfThis(j.exit) : s \notin restored /\ entries[s].attempt < 2
        <5> TAKE s \in OfThis(j.exit)
        <5>1. s \notin restored /\ (s = j.at \/ entries[s].attempt < j.attempt)
          BY DEF CycleInv, HandlersAreOne
        <5>2. s = j.at => s # 0 /\ entries[s].attempt = j.attempt
          BY DEF CycleInv, HandlersAreOne, CycleTypeOK, OfThis, Summaries
        <5>3. entries[s].attempt \in {1, 2}
          BY DEF CycleInv, SummariesOfExits, OfThis
        <5> QED
          BY <3>2, <5>1, <5>2, <5>3
      <4> QED
        BY <1>3, <1>5, <3>2, <4>1, <4>2, <4>3
    <3> QED
      BY <1>4, <3>1, <3>2
  <2> QED
    BY <2>1 DEF HandlersAreOne
<1>10. SummariesOfExits' /\ RestoredOnce'
  BY <1>5 DEF CycleInv, SummariesOfExits, RestoredOnce
<1> QED
  BY <1>7, <1>8, <1>9, <1>10

\* An attempt that fails, before it has changed the tree or after.
LEMMA FailureKeepsRestores ==
  ASSUME CycleInv, NEW j \in jobs, AttemptFails(j)
  PROVE  CycleInv'
<1>1. Fail(j) /\ UNCHANGED <<entries, leaf, snapshot, begun, pending, exits, restored>>
  BY DEF AttemptFails, sessionVars, historyVars
<1>2. CycleTypeOK'
  BY <1>1, FailureKeepsHandlers DEF CycleInv, CycleTypeOK
<1> QED
  BY <1>1, <1>2, FailureKeepsHandlers DEF CycleInv

\* A navigation that succeeds leads to the last summary of its exit; the handler is over,
\* or fails after all.
LEMMA NavigationKeepsRestores ==
  ASSUME CycleInv, NEW j \in jobs, Navigate(j)
  PROVE  CycleInv'
<1>1. /\ UNCHANGED <<entries, snapshot, begun, pending, exits>> /\ leaf' = j.at /\ j.at # 0
  BY DEF Navigate
<1>2. /\ j.at \in OfThis(j.exit) /\ j.at \in Summaries /\ j.at \in 1 .. Len(entries)
      /\ entries[j.at].exit = j.exit
  BY <1>1 DEF CycleInv, HandlersAreOne, OfThis, Summaries
<1>3. leaf' \in Nat /\ leaf' <= Len(entries')
  BY <1>1, <1>2 DEF CycleInv, CycleTypeOK
<1>4. CASE Fail(j) /\ UNCHANGED restored
  <2>1. CycleTypeOK'
    BY <1>1, <1>3, <1>4, FailureKeepsHandlers DEF CycleInv, CycleTypeOK
  <2> QED
    BY <1>1, <1>4, <2>1, FailureKeepsHandlers DEF CycleInv
<1>5. CASE jobs' = jobs \ {j} /\ restored' = restored \cup {j.at}
  <2>1. CycleTypeOK'
    BY <1>1, <1>2, <1>3, <1>5 DEF CycleInv, CycleTypeOK
  <2>2. Summaries' = Summaries /\ \A e : OfThis(e)' = OfThis(e)
    BY <1>1 DEF Summaries, OfThis
  <2>3. \A r : OfExit(r)' = OfExit(r)
    BY <1>1 DEF OfExit
  <2>4. PendingIsNew'
    BY <1>1, <1>5, <2>2, <2>3 DEF CycleInv, PendingIsNew
  <2>5. HandlersAreOne'
    <3>1. \A k \in jobs' : k \in jobs /\ k.exit # j.exit
      BY <1>5 DEF CycleInv, HandlersAreOne
    <3>2. \A k \in jobs' : j.at \notin OfThis(k.exit)
      BY <1>2, <3>1 DEF OfThis
    <3> QED
      BY <1>1, <1>5, <2>2, <2>3, <3>1, <3>2 DEF CycleInv, HandlersAreOne
  <2>6. \A t \in Summaries : entries[t].exit = j.exit => ~(j.at < t)
    <3> SUFFICES ASSUME NEW t \in Summaries, entries[t].exit = j.exit PROVE ~(j.at < t)
      OBVIOUS
    <3>1. t <= j.at /\ t \in Nat /\ j.at \in Nat
      BY <1>1, <1>2 DEF CycleInv, HandlersAreOne, OfThis, Summaries
    <3> QED
      BY <3>1
  <2>7. SummariesOfExits' /\ RestoredOnce'
    BY <1>1, <1>2, <1>5, <2>2, <2>6 DEF CycleInv, SummariesOfExits, RestoredOnce
  <2> QED
    BY <2>1, <2>4, <2>5, <2>7 DEF CycleInv
<1> QED
  BY <1>4, <1>5 DEF Navigate

\* Every step keeps it.
LEMMA CycleKeepsRestores ==
  ASSUME CycleInv, [CycleNext]_cycleVars
  PROVE  CycleInv'
<1>1. ASSUME UNCHANGED <<entries, exits, jobs, restored>>, CycleTypeOK',
             pending' # NoPending => /\ pending # NoPending
                                     /\ pending'.exit = pending.exit /\ pending'.leaf = pending.leaf
      PROVE  CycleInv'
  <2>1. Summaries' = Summaries
    BY <1>1 DEF Summaries
  <2> QED
    BY <1>1, <2>1, QuietKeepsRestores
<1>2. CASE EnterCycle
  <2>1. UNCHANGED <<entries, leaf, exits, jobs, restored, pending>> /\ snapshot' = leaf /\ begun' = Len(entries)
    BY <1>2 DEF EnterCycle, sessionVars
  <2>2. CycleTypeOK'
    BY <2>1 DEF CycleInv, CycleTypeOK
  <2> QED
    BY <1>1, <2>1, <2>2
<1>3. CASE \E t : LeaveCycle(t)
  BY <1>3, ExitKeepsRestores
<1>4. CASE Prompt \/ UNCHANGED cycleVars
  <2>1. UNCHANGED <<entries, leaf, snapshot, begun, exits, jobs, restored, pending>>
    BY <1>4 DEF Prompt, cycleVars, sessionVars, historyVars
  <2>2. CycleTypeOK'
    BY <2>1 DEF CycleInv, CycleTypeOK
  <2> QED
    BY <1>1, <2>1, <2>2
<1>5. CASE HiveCycleSummary
  <2>1. /\ UNCHANGED <<entries, leaf, snapshot, begun, exits, jobs, restored>>
        /\ pending # NoPending /\ pending' = [pending EXCEPT !.handed = TRUE]
    BY <1>5 DEF HiveCycleSummary, sessionVars, historyVars
  <2>2. /\ pending' \in [exit : Nat, leaf : Nat, handed : BOOLEAN]
        /\ pending'.exit = pending.exit /\ pending'.leaf = pending.leaf
    BY <2>1 DEF CycleInv, CycleTypeOK
  <2>3. CycleTypeOK'
    BY <2>1, <2>2 DEF CycleInv, CycleTypeOK
  <2> QED
    BY <1>1, <2>1, <2>2, <2>3
<1>6. CASE Turn
  <2>1. UNCHANGED <<exits, jobs, restored, pending, snapshot, begun>>
    BY <1>6 DEF Turn, EndTurn, historyVars
  <2>2. /\ Summaries' = Summaries /\ \A s \in Summaries : entries'[s] = entries[s]
        /\ entries' \in Seq([up : Nat, exit : Nat, attempt : 0 .. 2])
        /\ leaf' \in Nat /\ leaf' <= Len(entries') /\ Len(entries') = Len(entries) + 1
    BY <1>6, TurnAdds DEF Turn
  <2>3. CycleTypeOK'
    BY <2>1, <2>2 DEF CycleInv, CycleTypeOK
  <2> QED
    BY <2>1, <2>2, <2>3, QuietKeepsRestores
<1>7. CASE EndSession
  <2>1. CASE \E t : LeaveCycle(t)
    BY <1>3, <2>1
  <2>2. CASE UNCHANGED <<mode, sessionVars, snapshot, pending, jobs, historyVars>>
    <3>1. UNCHANGED <<entries, leaf, snapshot, begun, exits, jobs, restored, pending>>
      BY <2>2 DEF sessionVars, historyVars
    <3>2. CycleTypeOK'
      BY <3>1 DEF CycleInv, CycleTypeOK
    <3> QED
      BY <1>1, <3>1, <3>2
  <2> QED
    BY <1>7, <2>1, <2>2 DEF EndSession
<1>8. CASE SwitchMode
  BY <1>2, <1>3, <1>8 DEF SwitchMode
<1>9. CASE \E j \in jobs : HangSummary(j) \/ AttemptFails(j) \/ Navigate(j)
  BY <1>9, HangingKeepsRestores, FailureKeepsRestores, NavigationKeepsRestores
<1> QED
  BY <1>4, <1>5, <1>6, <1>7, <1>8, <1>9, SettledKeepsRestores DEF CycleNext

\* The conversation of a cycle gets at most two summaries, the second from the retry, and
\* none after a success was reported; none leaves a part of its cycle above it.  For any
\* number of exits, turns and sessions, wherever an attempt fails (mode-switch-restore.ts).
THEOREM RestoresOnce == CycleInit /\ [][CycleNext]_cycleVars => []RestoredOnce
<1>1. CycleInv => RestoredOnce
  BY DEF CycleInv
<1> QED
  BY <1>1, CycleStarts, CycleKeepsRestores, PTL

-----------------------------------------------------------------------------
(* The verdicts *)

\* The smallest and the largest of finitely many numbers.
LEMMA Extremes ==
  ASSUME NEW S, IsFiniteSet(S), S # {}, \A i \in S : i \in Nat
  PROVE  /\ Min(S) \in S /\ \A i \in S : Min(S) <= i
         /\ Max(S) \in S /\ \A i \in S : i <= Max(S)
<1> DEFINE n == Cardinality(S)
<1>1. /\ n \in Nat
      /\ \A k \in 1 .. n : Nth(S, k) \in S
      /\ \A k, l \in 1 .. n : k < l => Nth(S, k) < Nth(S, l)
      /\ \A i \in S : \E k \in 1 .. n : Nth(S, k) = i
  BY RanksCount
<1> HIDE DEF n
<1>2. 1 \in 1 .. n /\ n \in 1 .. n
  BY <1>1
<1>3. \A k \in 1 .. n : Nth(S, 1) <= Nth(S, k) /\ Nth(S, k) <= Nth(S, n)
  <2> TAKE k \in 1 .. n
  <2>1. (k = 1 \/ 1 < k) /\ (k = n \/ k < n)
    BY <1>1
  <2>2. Nth(S, 1) \in Nat /\ Nth(S, k) \in Nat /\ Nth(S, n) \in Nat
    BY <1>1, <1>2
  <2> QED
    BY <1>1, <1>2, <2>1, <2>2
<1>4. (\A i \in S : Nth(S, 1) <= i) /\ (\A i \in S : i <= Nth(S, n))
  BY <1>1, <1>3
<1> QED
  BY <1>1, <1>2, <1>4 DEF Min, Max

\* The rows of a table in the order of their times, if they differ in them.
LEMMA RowsInOrder ==
  ASSUME NEW R, IsFiniteSet(R), \A r \in R : r.at \in Nat, \A q, r \in R : q.at = r.at => q = r
  PROVE  /\ Cardinality(R) \in Nat /\ DOMAIN Ordered(R) = 1 .. Cardinality(R)
         /\ \A i \in 1 .. Cardinality(R) : Ordered(R)[i] \in R
         /\ \A r \in R : \E i \in 1 .. Cardinality(R) : Ordered(R)[i] = r
         /\ \A i, j \in 1 .. Cardinality(R) : i < j => Ordered(R)[i].at < Ordered(R)[j].at
<1> DEFINE times == {r.at : r \in R}
           n     == Cardinality(R)
           list  == Ordered(R)
           g     == [r \in R |-> r.at]
<1>1. g \in Bijection(R, times)
  <2>1. g \in [R -> times] /\ \A r \in R : g[r] = r.at
    OBVIOUS
  <2>2. \A t \in times : \E r \in R : r.at = t
    OBVIOUS
  <2> HIDE DEF g, times
  <2>3. \A q, r \in R : g[q] = g[r] => q = r
    BY <2>1
  <2>4. \A t \in times : \E r \in R : g[r] = t
    BY <2>1, <2>2
  <2> QED
    BY <2>1, <2>3, <2>4 DEF Bijection, Injection, Surjection, IsInjective
<1>2. (\A t \in times : t \in Nat /\ \E r \in R : r.at = t) /\ (\A r \in R : r.at \in times)
  OBVIOUS
<1>3. list = [i \in 1 .. n |-> CHOOSE r \in R : r.at = Nth(times, i)]
  BY DEF Ordered
<1> HIDE DEF g, times, n, list
<1>4. IsFiniteSet(times) /\ Cardinality(times) = n
  BY <1>1, FS_Bijection DEF ExistsBijection, n
<1>5. /\ n \in Nat
      /\ \A i \in 1 .. n : Nth(times, i) \in times
      /\ \A i, j \in 1 .. n : i < j => Nth(times, i) < Nth(times, j)
      /\ \A t \in times : \E i \in 1 .. n : Nth(times, i) = t
  BY <1>2, <1>4, RanksCount
<1>6. DOMAIN list = 1 .. n
  BY <1>3
<1>7. \A i \in 1 .. n : list[i] \in R /\ list[i].at = Nth(times, i)
  <2> TAKE i \in 1 .. n
  <2>1. \E r \in R : r.at = Nth(times, i)
    BY <1>2, <1>5
  <2>2. list[i] = CHOOSE r \in R : r.at = Nth(times, i)
    BY <1>3
  <2> QED
    BY <2>1, <2>2
<1>8. \A r \in R : \E i \in 1 .. n : list[i] = r
  <2> TAKE r \in R
  <2>1. PICK i \in 1 .. n : Nth(times, i) = r.at
    BY <1>2, <1>5
  <2>2. list[i] = r
    BY <1>7, <2>1
  <2> QED
    BY <2>2
<1>9. \A i, j \in 1 .. n : i < j => list[i].at < list[j].at
  BY <1>5, <1>7
<1> QED
  BY <1>5, <1>6, <1>7, <1>8, <1>9 DEF n, list

\* The types of the verdicts.
VerdictsTyped ==
  /\ given \in Seq(VerdictType) /\ readTo \in [Reviewers -> 0 .. Len(given)]
  /\ IsFiniteSet(verdictRows) /\ verdictRows \subseteq VerdictRow

\* The human speaks through the review surface only.
HumanSpeaks == \A i \in 1 .. Len(given) : given[i].reviewer = Human => given[i].session = Nowhere

\* A row says what was given, and only once; one of an earlier release comes first.
RowsAreGiven ==
  /\ \A r \in verdictRows :
       /\ r.at = r.id
       /\ r.id = 0 => r.reviewer = "reviewer"
       /\ r.id # 0 => /\ r.id \in 1 .. Len(given)
                      /\ r.session = given[r.id].session /\ r.reviewer = given[r.id].reviewer
                      /\ r.colour = given[r.id].colour /\ r.project = given[r.id].project
  /\ \A q, r \in verdictRows : q.id = r.id => q = r

\* What was given has a row or is ahead of the offset of its log.
GivenArrive ==
  \A i \in 1 .. Len(given) :
    \/ \E r \in verdictRows : r.id = i
    \/ given[i].session \in Reviewers /\ i > readTo[given[i].session]

\* The inductive invariant.
VerdictInv == VerdictsTyped /\ HumanSpeaks /\ RowsAreGiven /\ GivenArrive

\* A new database, and one with a row of an earlier release.
LEMMA VerdictsStart == VerdictInit => VerdictInv
<1> SUFFICES ASSUME VerdictInit PROVE VerdictInv
  OBVIOUS
<1>1. given = <<>> /\ readTo = [s \in Reviewers |-> 0] /\ Len(given) = 0
  BY DEF VerdictInit
<1>2. CASE verdictRows = {}
  BY <1>1, <1>2, FS_EmptySet DEF VerdictInv, VerdictsTyped, HumanSpeaks, RowsAreGiven, GivenArrive
<1>3. ASSUME NEW o \in OldRows, verdictRows = BackfillPlanCwd({o}) PROVE VerdictInv
  <2>1. PICK s \in Reviewers \cup {Nowhere} :
          o = [id |-> 0, session |-> s, reviewer |-> "reviewer", colour |-> "red",
               project |-> Nowhere, at |-> 0]
    BY DEF OldRows
  <2> DEFINE q == IF s \in Reviewers THEN [o EXCEPT !.project = ProjectOf[s]] ELSE o
  <2>2. verdictRows = {q}
    BY <1>3, <2>1 DEF BackfillPlanCwd
  <2>3. q \in VerdictRow /\ q.id = 0 /\ q.at = 0 /\ q.reviewer = "reviewer"
    BY <2>1, VerdictsAssumption DEF VerdictRow, Colours
  <2> HIDE DEF q
  <2>4. IsFiniteSet(verdictRows)
    BY <2>2, FS_Singleton
  <2> QED
    BY <1>1, <2>2, <2>3, <2>4 DEF VerdictInv, VerdictsTyped, HumanSpeaks, RowsAreGiven, GivenArrive
<1> QED
  BY <1>2, <1>3 DEF VerdictInit

\* A row for a verdict that was given, if there is none.
LEMMA InsertKeeps ==
  ASSUME VerdictsTyped, RowsAreGiven, NEW g \in Seq(VerdictType), given' = g,
         Len(given) <= Len(g), \A j \in 1 .. Len(given) : g[j] = given[j],
         NEW i \in 1 .. Len(g), verdictRows' = InsertPlanVerdict(verdictRows, i, g[i])
  PROVE  /\ IsFiniteSet(verdictRows') /\ verdictRows' \subseteq VerdictRow
         /\ RowsAreGiven' /\ verdictRows \subseteq verdictRows' /\ \E r \in verdictRows' : r.id = i
<1>1. /\ given \in Seq(VerdictType) /\ Len(given) \in Nat /\ Len(g) \in Nat /\ i \in Nat
      /\ verdictRows \subseteq VerdictRow /\ IsFiniteSet(verdictRows) /\ g[i] \in VerdictType
  BY DEF VerdictsTyped
<1>2. CASE \E r \in verdictRows : r.id = i
  <2>1. verdictRows' = verdictRows
    BY <1>2 DEF InsertPlanVerdict
  <2> QED
    BY <1>1, <1>2, <2>1 DEF RowsAreGiven
<1>3. CASE ~\E r \in verdictRows : r.id = i
  <2> DEFINE n == [id |-> i, session |-> g[i].session, reviewer |-> g[i].reviewer,
                   colour |-> g[i].colour, project |-> g[i].project, at |-> i]
  <2>1. verdictRows' = verdictRows \cup {n}
    BY <1>3 DEF InsertPlanVerdict
  <2>2. /\ n \in VerdictRow /\ n.id = i /\ n.at = i /\ i # 0 /\ n.session = g[i].session
        /\ n.reviewer = g[i].reviewer /\ n.colour = g[i].colour /\ n.project = g[i].project
    BY <1>1 DEF VerdictRow, VerdictType
  <2> HIDE DEF n
  <2>3. IsFiniteSet(verdictRows')
    BY <1>1, <2>1, FS_AddElement
  <2>4. RowsAreGiven'
    BY <1>1, <1>3, <2>1, <2>2 DEF RowsAreGiven
  <2> QED
    BY <1>1, <2>1, <2>2, <2>3, <2>4
<1> QED
  BY <1>2, <1>3

\* A verdict that is given.
LEMMA AppendedVerdict ==
  ASSUME VerdictsTyped, NEW v \in VerdictType
  PROVE  /\ Append(given, v) \in Seq(VerdictType) /\ Len(Append(given, v)) = Len(given) + 1
         /\ Append(given, v)[Len(given) + 1] = v /\ Last(Append(given, v)) = v
         /\ \A j \in 1 .. Len(given) : Append(given, v)[j] = given[j]
  BY DEF VerdictsTyped, Last

\* A session submits: what is given has no row yet and lies ahead in its log.
LEMMA SubmitKeepsVerdicts ==
  ASSUME VerdictInv, NEW s \in Reviewers, NEW colour \in Colours, SubmitReviewVerdict(s, colour)
  PROVE  VerdictInv'
<1> DEFINE v == Verdict(s, "reviewer", colour, ProjectOf[s])
           n == Len(given)
<1>1. /\ v \in VerdictType /\ v.session = s /\ v.reviewer = "reviewer" /\ v.reviewer # Human
  BY VerdictsAssumption DEF Verdict, VerdictType, Human
<1>2. VerdictsTyped /\ UNCHANGED <<readTo, verdictRows>> /\ given' = Append(given, v)
  BY DEF VerdictInv, SubmitReviewVerdict
<1>3. given \in Seq(VerdictType) /\ n \in Nat
  BY <1>2 DEF VerdictsTyped
<1> HIDE DEF v
<1>4. /\ given' \in Seq(VerdictType) /\ Len(given') = n + 1 /\ given'[n + 1] = v
      /\ \A j \in 1 .. n : given'[j] = given[j]
  BY <1>1, <1>2, AppendedVerdict
<1> HIDE DEF n
<1>5. \A i \in 1 .. n + 1 : i \in 1 .. n \/ i = n + 1
  BY <1>3
<1>6. VerdictsTyped'
  BY <1>2, <1>4 DEF VerdictsTyped
<1>7. HumanSpeaks'
  BY <1>1, <1>4, <1>5 DEF VerdictInv, HumanSpeaks, n
<1>8. RowsAreGiven'
  <2>1. \A i \in 1 .. n : i \in 1 .. n + 1
    BY <1>3
  <2> QED
    BY <1>2, <1>4, <2>1 DEF VerdictInv, RowsAreGiven, n
<1>9. GivenArrive'
  <2>1. readTo[s] \in Nat /\ readTo[s] <= n
    BY <1>2, <1>3 DEF VerdictsTyped, n
  <2>2. n + 1 > readTo[s]
    BY <1>3, <2>1
  <2> QED
    BY <1>1, <1>2, <1>4, <1>5, <2>2 DEF VerdictInv, GivenArrive, n
<1> QED
  BY <1>6, <1>7, <1>8, <1>9 DEF VerdictInv

\* The human decides: the row is written with it.
LEMMA RecordKeepsVerdicts ==
  ASSUME VerdictInv, NEW p \in Projects, NEW colour \in Colours, RecordVerdict(p, colour)
  PROVE  VerdictInv'
<1> DEFINE v == Verdict(Nowhere, Human, colour, p)
           n == Len(given)
<1>1. v \in VerdictType /\ v.session = Nowhere
  BY DEF Verdict, VerdictType
<1>2. /\ VerdictsTyped /\ readTo' = readTo /\ given' = Append(given, v)
      /\ verdictRows' = InsertPlanVerdict(verdictRows, Len(given'), Last(given'))
  BY DEF VerdictInv, RecordVerdict
<1>3. given \in Seq(VerdictType) /\ n \in Nat
  BY <1>2 DEF VerdictsTyped
<1> HIDE DEF v
<1>4. /\ given' \in Seq(VerdictType) /\ Len(given') = n + 1 /\ given'[n + 1] = v
      /\ Last(given') = v /\ \A j \in 1 .. n : given'[j] = given[j]
  BY <1>1, <1>2, AppendedVerdict
<1>5. /\ IsFiniteSet(verdictRows') /\ verdictRows' \subseteq VerdictRow
      /\ RowsAreGiven' /\ verdictRows \subseteq verdictRows' /\ \E r \in verdictRows' : r.id = n + 1
  <2> DEFINE g == given'
  <2>1. /\ g \in Seq(VerdictType) /\ given' = g /\ Len(given) <= Len(g) /\ n + 1 \in 1 .. Len(g)
        /\ \A j \in 1 .. Len(given) : g[j] = given[j]
    BY <1>3, <1>4
  <2>2. verdictRows' = InsertPlanVerdict(verdictRows, n + 1, g[n + 1])
    BY <1>2, <1>4
  <2> HIDE DEF g, n
  <2> QED
    BY <1>2, <2>1, <2>2, InsertKeeps DEF VerdictInv
<1> HIDE DEF n
<1>6. \A i \in 1 .. n + 1 : i \in 1 .. n \/ i = n + 1
  BY <1>3
<1>7. VerdictsTyped'
  <2>1. \A s \in Reviewers : readTo[s] \in 0 .. n + 1
    BY <1>2, <1>3 DEF VerdictsTyped, n
  <2> QED
    BY <1>2, <1>4, <1>5, <2>1 DEF VerdictsTyped
<1>8. HumanSpeaks'
  BY <1>1, <1>4, <1>6 DEF VerdictInv, HumanSpeaks, n
<1>9. GivenArrive'
  BY <1>2, <1>4, <1>5, <1>6 DEF VerdictInv, GivenArrive, n
<1> QED
  BY <1>5, <1>7, <1>8, <1>9 DEF VerdictInv

\* The next line of a log is read, again or for the first time.
LEMMA MaterializeKeepsVerdicts ==
  ASSUME VerdictInv, NEW s \in Reviewers, MaterializePlanEvent(s)
  PROVE  VerdictInv'
<1> DEFINE next == {i \in LogOf(s) : i > readTo[s]}
           m == Min(next)
           n == Len(given)
<1>1. /\ VerdictsTyped /\ next # {} /\ given' = given /\ readTo' = [readTo EXCEPT ![s] = m]
      /\ verdictRows' = InsertPlanVerdict(verdictRows, m, given[m])
  BY DEF VerdictInv, MaterializePlanEvent
<1>2. given \in Seq(VerdictType) /\ n \in Nat /\ readTo \in [Reviewers -> 0 .. n]
  BY <1>1 DEF VerdictsTyped
<1>3. \A i : i \in next <=> i \in 1 .. n /\ given[i].session = s /\ i > readTo[s]
  BY <1>2 DEF LogOf
<1>4. m \in next /\ \A i \in next : m <= i
  <2>1. IsFiniteSet(next) /\ \A i \in next : i \in Nat
    <3>1. next \in SUBSET (1 .. n) /\ 1 \in Int /\ n \in Int
      BY <1>2, <1>3
    <3>2. IsFiniteSet(1 .. n)
      BY <3>1, FS_Interval
    <3> HIDE DEF next
    <3> QED
      BY <1>2, <1>3, <3>1, <3>2, FS_Subset
  <2> HIDE DEF next
  <2> QED
    BY <1>1, <2>1, Extremes
<1>5. m \in 1 .. n /\ given[m].session = s
  BY <1>3, <1>4
<1> HIDE DEF next, m
<1>6. /\ IsFiniteSet(verdictRows') /\ verdictRows' \subseteq VerdictRow
      /\ RowsAreGiven' /\ verdictRows \subseteq verdictRows' /\ \E r \in verdictRows' : r.id = m
  <2>1. Len(given) <= Len(given)
    BY <1>2
  <2> QED
    BY <1>1, <1>2, <1>5, <2>1, InsertKeeps DEF VerdictInv
<1>7. VerdictsTyped'
  <2>1. readTo' \in [Reviewers -> 0 .. n]
    BY <1>1, <1>2, <1>5
  <2> QED
    BY <1>1, <1>2, <1>6, <2>1 DEF VerdictsTyped
<1>8. HumanSpeaks'
  BY <1>1 DEF VerdictInv, HumanSpeaks
<1>9. GivenArrive'
  <2> SUFFICES ASSUME NEW i \in 1 .. n, ~\E r \in verdictRows' : r.id = i
               PROVE  given[i].session \in Reviewers /\ i > readTo'[given[i].session]
    BY <1>1 DEF GivenArrive
  <2>1. given[i].session \in Reviewers /\ i > readTo[given[i].session] /\ i # m
    BY <1>6 DEF VerdictInv, GivenArrive
  <2>2. CASE given[i].session = s
    <3>1. i \in next
      BY <1>3, <2>1, <2>2
    <3> QED
      BY <1>1, <1>2, <1>4, <1>5, <2>1, <2>2, <3>1
  <2>3. CASE given[i].session # s
    BY <1>1, <1>2, <2>1, <2>3
  <2> QED
    BY <2>2, <2>3
<1> QED
  BY <1>6, <1>7, <1>8, <1>9 DEF VerdictInv

\* The telemetry of a session is deleted: its log will be read again, the rows stay.
LEMMA DeleteKeepsVerdicts ==
  ASSUME VerdictInv, NEW s \in Reviewers, DeleteSessionRows(s)
  PROVE  VerdictInv'
<1>1. /\ VerdictsTyped /\ readTo' = [readTo EXCEPT ![s] = 0] /\ UNCHANGED <<given, verdictRows>>
  BY DEF VerdictInv, DeleteSessionRows
<1>2. given \in Seq(VerdictType) /\ Len(given) \in Nat /\ readTo \in [Reviewers -> 0 .. Len(given)]
  BY <1>1 DEF VerdictsTyped
<1>3. readTo' \in [Reviewers -> 0 .. Len(given)] /\ \A r \in Reviewers : readTo'[r] <= readTo[r]
  BY <1>1, <1>2
<1>4. VerdictsTyped'
  BY <1>1, <1>3 DEF VerdictsTyped
<1>5. GivenArrive'
  <2> SUFFICES ASSUME NEW i \in 1 .. Len(given), ~\E r \in verdictRows : r.id = i
               PROVE  given[i].session \in Reviewers /\ i > readTo'[given[i].session]
    BY <1>1 DEF GivenArrive
  <2>1. given[i].session \in Reviewers /\ i > readTo[given[i].session]
    BY DEF VerdictInv, GivenArrive
  <2> QED
    BY <1>2, <1>3, <2>1
<1> QED
  BY <1>1, <1>4, <1>5 DEF VerdictInv, HumanSpeaks, RowsAreGiven

\* Every step.
LEMMA VerdictsStay == VerdictInv /\ [VerdictNext]_verdictVars => VerdictInv'
<1>1. ASSUME VerdictInv, UNCHANGED verdictVars PROVE VerdictInv'
  BY <1>1 DEF verdictVars, VerdictInv, VerdictsTyped, HumanSpeaks, RowsAreGiven, GivenArrive
<1> QED
  BY <1>1, SubmitKeepsVerdicts, RecordKeepsVerdicts, MaterializeKeepsVerdicts, DeleteKeepsVerdicts
     DEF VerdictNext

\* The list of a project: its rows in the order of their numbers, and its last one.
LEMMA ListOfProject ==
  ASSUME VerdictInv, NEW p \in Projects
  PROVE  LET list == ListVerdicts(p)
             n    == Cardinality(InProject(p))
         IN  /\ n \in Nat /\ DOMAIN list = 1 .. n /\ IsFiniteSet(InProject(p))
             /\ \A i \in 1 .. n : list[i] \in InProject(p)
             /\ \A r \in InProject(p) : \E i \in 1 .. n : list[i] = r
             /\ \A i, j \in 1 .. n : i < j => list[i].id < list[j].id
<1> DEFINE R == InProject(p)
<1>1. IsFiniteSet(R) /\ R \subseteq verdictRows /\ verdictRows \subseteq VerdictRow
  <2>1. R \subseteq verdictRows /\ IsFiniteSet(verdictRows) /\ verdictRows \subseteq VerdictRow
    BY DEF InProject, VerdictInv, VerdictsTyped
  <2> QED
    BY <2>1, FS_Subset
<1>2. (\A r \in R : r.at \in Nat /\ r.at = r.id) /\ (\A q, r \in R : q.at = r.at => q = r)
  BY <1>1 DEF VerdictInv, RowsAreGiven, VerdictRow
<1> HIDE DEF R
<1>3. /\ Cardinality(R) \in Nat /\ DOMAIN Ordered(R) = 1 .. Cardinality(R)
      /\ \A i \in 1 .. Cardinality(R) : Ordered(R)[i] \in R
      /\ \A r \in R : \E i \in 1 .. Cardinality(R) : Ordered(R)[i] = r
      /\ \A i, j \in 1 .. Cardinality(R) : i < j => Ordered(R)[i].at < Ordered(R)[j].at
  BY <1>1, <1>2, RowsInOrder
<1>4. \A i, j \in 1 .. Cardinality(R) : i < j => Ordered(R)[i].id < Ordered(R)[j].id
  BY <1>2, <1>3
<1> QED
  BY <1>1, <1>3, <1>4 DEF R, ListVerdicts

\* The list of a project is its history.
LEMMA ListsAreHistory == VerdictInv => ListIsHistory
<1> SUFFICES ASSUME VerdictInv, NEW p \in Projects
             PROVE  LET list == ListVerdicts(p)
                        missing == UNION {{i \in LogOf(s) : i > readTo[s]} : s \in Reviewers}
                        kept == {i \in DOMAIN given : given[i].project = p
                                   /\ (i \notin missing \/ \E r \in verdictRows : r.id = i)}
                    IN  /\ {list[i].id : i \in DOMAIN list} = kept \cup ({r.id : r \in InProject(p)} \cap {0})
                        /\ \A i, j \in DOMAIN list : i < j => list[i].id < list[j].id
  BY DEF ListIsHistory
<1> DEFINE list == ListVerdicts(p)
           n    == Cardinality(InProject(p))
           missing == UNION {{i \in LogOf(s) : i > readTo[s]} : s \in Reviewers}
           kept == {i \in DOMAIN given : given[i].project = p
                      /\ (i \notin missing \/ \E r \in verdictRows : r.id = i)}
           shown == {list[i].id : i \in DOMAIN list}
           own == {r.id : r \in InProject(p)}
<1>1. /\ n \in Nat /\ DOMAIN list = 1 .. n
      /\ \A i \in 1 .. n : list[i] \in InProject(p)
      /\ \A r \in InProject(p) : \E i \in 1 .. n : list[i] = r
      /\ \A i, j \in 1 .. n : i < j => list[i].id < list[j].id
  BY ListOfProject
<1>2. shown = own
  <2> HIDE DEF list, n
  <2> QED
    BY <1>1
<1>3. VerdictsTyped /\ DOMAIN given = 1 .. Len(given) /\ \A r \in verdictRows : r.id \in Nat
  BY DEF VerdictInv, VerdictsTyped, VerdictRow
<1>4. ASSUME NEW r \in InProject(p), r.id # 0 PROVE r.id \in kept
  <2>1. r \in verdictRows /\ r.project \in {p, Nowhere}
    BY DEF InProject
  <2>2. r.id \in 1 .. Len(given) /\ r.project = given[r.id].project
    BY <1>4, <2>1 DEF VerdictInv, RowsAreGiven
  <2>3. given[r.id] \in VerdictType
    BY <1>3, <2>2 DEF VerdictsTyped
  <2>4. given[r.id].project = p
    BY <2>1, <2>2, <2>3, VerdictsAssumption DEF VerdictType
  <2> HIDE DEF missing
  <2> QED
    BY <1>3, <2>1, <2>2, <2>4
<1>5. ASSUME NEW i \in kept PROVE i \in own
  <2>1. i \in 1 .. Len(given) /\ given[i].project = p
    BY <1>3
  <2>2. \E r \in verdictRows : r.id = i
    <3>1. CASE i \notin missing
      BY <1>3, <2>1, <3>1 DEF VerdictInv, GivenArrive, LogOf
    <3>2. CASE i \in missing
      BY <3>2
    <3> QED
      BY <3>1, <3>2
  <2>3. PICK r \in verdictRows : r.id = i
    BY <2>2
  <2>4. i # 0
    BY <1>3, <2>1
  <2>5. r.project = p
    BY <2>1, <2>3, <2>4 DEF VerdictInv, RowsAreGiven
  <2> QED
    BY <2>3, <2>5 DEF InProject
<1>6. own = kept \cup (own \cap {0})
  <2> HIDE DEF kept
  <2>1. \A x \in own : x = 0 \/ x \in kept
    BY <1>4
  <2> HIDE DEF own
  <2> QED
    BY <1>5, <2>1
<1> HIDE DEF list, n, kept, own
<1> QED
  BY <1>1, <1>2, <1>6 DEF own, list, kept

\* The pill of a project.
LEMMA PillsAreLatest == VerdictInv => PillIsLatest
<1> SUFFICES ASSUME VerdictInv, NEW p \in Projects
             PROVE  LET approved == Verdict(Nowhere, Human, "green", p) \in ToSet(given)
                        arrived == {r.id : r \in InProject(p)}
                        pill == LatestVerdictExcludingHumanGreen(p)
                    IN  IF approved \/ arrived = {} THEN pill = Nowhere
                        ELSE pill # Nowhere /\ pill.id = Max(arrived)
  BY DEF PillIsLatest
<1> DEFINE approved == Verdict(Nowhere, Human, "green", p) \in ToSet(given)
           arrived == {r.id : r \in InProject(p)}
           pill == LatestVerdictExcludingHumanGreen(p)
           list == ListVerdicts(p)
           n    == Cardinality(InProject(p))
<1>1. /\ n \in Nat /\ DOMAIN list = 1 .. n /\ IsFiniteSet(InProject(p))
      /\ \A i \in 1 .. n : list[i] \in InProject(p)
      /\ \A r \in InProject(p) : \E i \in 1 .. n : list[i] = r
      /\ \A i, j \in 1 .. n : i < j => list[i].id < list[j].id
  BY ListOfProject
<1>2. /\ given \in Seq(VerdictType) /\ verdictRows \subseteq VerdictRow
      /\ \A r \in InProject(p) : r \in verdictRows /\ r.project \in {p, Nowhere} /\ r.id \in Nat
  BY DEF VerdictInv, VerdictsTyped, InProject, VerdictRow
<1>3. HasHumanApproval(p) <=> approved
  <2>1. ASSUME approved PROVE HasHumanApproval(p)
    <3>1. PICK i \in 1 .. Len(given) : given[i] = Verdict(Nowhere, Human, "green", p)
      BY <1>2, <2>1 DEF ToSet
    <3>2. /\ given[i].session = Nowhere /\ given[i].reviewer = Human /\ given[i].colour = "green"
          /\ given[i].project = p
      BY <3>1 DEF Verdict
    <3>3. PICK r \in verdictRows : r.id = i
      BY <3>2, VerdictsAssumption DEF VerdictInv, GivenArrive
    <3>4. r.reviewer = Human /\ r.colour = "green" /\ r.project = p
      BY <3>2, <3>3 DEF VerdictInv, RowsAreGiven
    <3> QED
      BY <3>4 DEF HasHumanApproval, InProject
  <2>2. ASSUME HasHumanApproval(p) PROVE approved
    <3>1. PICK r \in InProject(p) : r.reviewer = Human /\ r.colour = "green"
      BY <2>2 DEF HasHumanApproval
    <3>2. r.id # 0
      BY <1>2, <3>1 DEF VerdictInv, RowsAreGiven, Human
    <3>3. /\ r.id \in 1 .. Len(given) /\ r.reviewer = given[r.id].reviewer
          /\ r.colour = given[r.id].colour /\ r.project = given[r.id].project
      BY <1>2, <3>2 DEF VerdictInv, RowsAreGiven
    <3> DEFINE v == given[r.id]
    <3>4. v \in VerdictType /\ v.reviewer = Human /\ v.colour = "green"
      BY <1>2, <3>1, <3>3
    <3>5. v.session = Nowhere /\ v.project = p
      BY <1>2, <3>3, <3>4, VerdictsAssumption DEF VerdictInv, HumanSpeaks, VerdictType
    <3>6. v = Verdict(Nowhere, Human, "green", p)
      <4> HIDE DEF v
      <4> QED
        BY <3>4, <3>5 DEF VerdictType, Verdict
    <3>7. v \in ToSet(given)
      BY <1>2, <3>3 DEF ToSet
    <3> QED
      BY <3>6, <3>7
  <2> QED
    BY <2>1, <2>2
<1> HIDE DEF approved
<1>4. list = <<>> <=> arrived = {}
  <2>1. arrived = {} <=> InProject(p) = {}
    OBVIOUS
  <2>2. InProject(p) = {} <=> n = 0
    <3>1. n = 0 <=> InProject(p) = {}
      BY <1>1, FS_EmptySet
    <3> QED
      BY <3>1
  <2> HIDE DEF arrived, n
  <2>3. n = 0 <=> 1 .. n = {}
    BY <1>1
  <2>4. list = <<>> => n = 0
    <3>1. DOMAIN <<>> = {}
      OBVIOUS
    <3> HIDE DEF list
    <3> QED
      BY <1>1, <2>3, <3>1
  <2>5. n = 0 => list = <<>>
    <3> SUFFICES ASSUME n = 0 PROVE list = <<>>
      OBVIOUS
    <3>1. list = [i \in 1 .. n |-> CHOOSE r \in InProject(p) : r.at = Nth({q.at : q \in InProject(p)}, i)]
      BY DEF ListVerdicts, Ordered, n
    <3>2. 1 .. n = {}
      BY <2>3
    <3> QED
      BY <3>1, <3>2
  <2> QED
    BY <2>1, <2>2, <2>4, <2>5
<1>5. pill = IF list = <<>> \/ approved THEN Nowhere ELSE Last(list)
  BY <1>3 DEF LatestVerdictExcludingHumanGreen
<1>6. ASSUME arrived # {} PROVE Last(list) # Nowhere /\ Last(list).id = Max(arrived)
  <2>1. n \in 1 .. n
    <3>1. InProject(p) # {}
      BY <1>6
    <3> HIDE DEF n, list
    <3>2. n # 0
      BY <1>1, <3>1
    <3> QED
      BY <1>1, <3>2
  <2>2. list \in Seq(InProject(p))
    <3>1. list = [i \in 1 .. n |-> list[i]]
      <4> DEFINE e(i) == CHOOSE r \in InProject(p) : r.at = Nth({q.at : q \in InProject(p)}, i)
                 L == [i \in 1 .. n |-> e(i)]
      <4>1. list = L
        BY DEF ListVerdicts, Ordered
      <4> HIDE DEF e
      <4>2. L = [i \in 1 .. n |-> L[i]]
        OBVIOUS
      <4> HIDE DEF L, list, n
      <4> QED
        BY <4>1, <4>2
    <3> HIDE DEF list, n
    <3> QED
      BY <1>1, <3>1
  <2>3. Len(list) = n
    <3> HIDE DEF list, n
    <3> QED
      BY <1>1, <2>2
  <2>4. Last(list) = list[n] /\ list[n] \in InProject(p)
    <3> HIDE DEF list, n
    <3> QED
      BY <1>1, <2>1, <2>3 DEF Last
  <2>5. list[n] # Nowhere
    BY <1>2, <2>4, VerdictsAssumption
  <2>6. IsFiniteSet(arrived) /\ arrived \subseteq Nat /\ arrived # {}
    <3>1. arrived \subseteq Nat
      BY <1>2
    <3>2. IsFiniteSet(arrived)
      <4> DEFINE f == [r \in InProject(p) |-> r.id]
      <4>1. f \in Surjection(InProject(p), arrived)
        BY DEF Surjection
      <4> HIDE DEF f, arrived
      <4> QED
        BY <1>1, <4>1, FS_Surjection
    <3> QED
      BY <1>6, <3>1, <3>2
  <2>7. Max(arrived) \in arrived /\ \A x \in arrived : x <= Max(arrived)
    <3> HIDE DEF arrived
    <3> QED
      BY <2>6, Extremes
  <2>8. \A x \in arrived : x <= list[n].id
    <3> SUFFICES ASSUME NEW r \in InProject(p) PROVE r.id <= list[n].id
      OBVIOUS
    <3>1. PICK i \in 1 .. n : list[i] = r
      BY <1>1
    <3>2. r.id \in Nat /\ list[n].id \in Nat
      BY <1>2, <2>4
    <3> HIDE DEF list, n
    <3>3. i = n \/ i < n
      BY <1>1, <3>1
    <3> QED
      BY <1>1, <2>1, <3>1, <3>2, <3>3
  <2>9. list[n].id \in arrived
    BY <2>4
  <2> HIDE DEF list, arrived, n
  <2>10. list[n].id = Max(arrived)
    <3>1. list[n].id <= Max(arrived) /\ Max(arrived) <= list[n].id
      BY <2>7, <2>8, <2>9
    <3>2. list[n].id \in Nat /\ Max(arrived) \in Nat
      BY <2>6, <2>7, <2>9
    <3> QED
      BY <3>1, <3>2
  <2> QED
    BY <2>4, <2>5, <2>10
<1> HIDE DEF list, arrived, pill
<1> QED
  BY <1>4, <1>5, <1>6 DEF list, arrived, pill, approved

\* What the dashboard shows of the verdicts is what was given and has arrived.
THEOREM VerdictsHold == VerdictInit /\ [][VerdictNext]_verdictVars => []VerdictsAreTrue
<1>1. VerdictInv => VerdictsAreTrue
  BY ListsAreHistory, PillsAreLatest DEF VerdictsAreTrue
<1> QED
  BY VerdictsStart, VerdictsStay, <1>1, PTL

-----------------------------------------------------------------------------
(* The runs in telemetry *)

Everybody == Agents \cup {Orchestrator}
EventType ==
  [type : {"session_start", "delegation_start", "worker_tool_start", "delegation_end"},
   agent : Everybody, caller : Everybody, delta : Nat, lifetime : Nat, run : Nat]
RunType == [agent : Agents, caller : Everybody, start : Nat, prior : Nat, current : BOOLEAN]
RowType == [agent : Agents, start : Nat, end : Nat, tokens : Nat]
Statuses == {"idle", "running", "waiting", "done"}

\* The types of runs, log and records.
SpansTyped ==
  /\ live \in BOOLEAN /\ delegating \in BOOLEAN /\ open \subseteq RunType
  /\ counter \in [Agents -> Nat] /\ transcript \in [Agents -> Nat] /\ usage \in [Agents -> Nat]
  /\ events \in Seq(EventType) /\ rows \subseteq RowType
  /\ view \in [status : [Everybody -> Statuses], out : SUBSET (Everybody \X Everybody)]

\* Runs are those of the session, one of an agent, from its last start on, which has no
\* end yet; who has called them runs.
RunsAreOne ==
  /\ open # {} => live /\ delegating
  /\ \A r \in open :
       /\ r.current /\ r.start \in StartsOf(r.agent)
       /\ \A i \in StartsOf(r.agent) : i <= r.start
       /\ \A i \in Ends(r.agent) : i < r.start
       /\ r.caller # Orchestrator => \E s \in open : s.agent = r.caller
  /\ \A q, r \in open : q.agent = r.agent => q = r

\* What was summed is what the last end tells, and is all once the last run has reported.
TokensFollowEnds ==
  \A a \in Agents :
    /\ usage[a] = Restored(a) /\ Restored(a) <= transcript[a]
    /\ Reported(a) => Restored(a) = transcript[a]
    /\ \A i \in Ends(a) : events[i].run < i
    /\ live /\ (\A r \in open : r.agent # a) => counter[a] = Restored(a)
    /\ \A r \in open : r.agent = a => r.prior = Restored(a)

\* Every start and every end has its row; the end in a row is that of its run, or of none.
RowsAreKept ==
  /\ \A r \in rows :
       /\ r.start \in StartsOf(r.agent) \/ (r.start = 0 /\ r.end # 0)
       /\ r.end = 0 => r.tokens = 0
       /\ r.end # 0 =>
            /\ r.end \in Ends(r.agent) /\ r.tokens = events[r.end].delta /\ r.start < r.end
            /\ events[r.end].run \in {r.start, 0}
            /\ \A o \in open : o.start # r.start
  /\ \A q, r \in rows :
       (q.start = r.start /\ q.start # 0) \/ (q.end = r.end /\ q.end # 0) => q = r
  /\ \A a \in Agents :
       /\ \A i \in StartsOf(a) : \E r \in rows : r.start = i
       /\ \A i \in Ends(a) : \E r \in rows : r.end = i

\* The page knows who waits for whom.
ViewFollows == live => view.out = {<<r.caller, r.agent>> : r \in open}

\* The inductive invariant.
SpanInv ==
  /\ SpansTyped /\ RunsAreOne /\ TokensFollowEnds /\ RowsAreKept /\ ViewFollows /\ StatusesAreTrue

\* The starts and ends in a log, and what the last end of an agent tells.
LEMMA LogFacts ==
  ASSUME SpansTyped, NEW a \in Agents
  PROVE  /\ Len(events) \in Nat /\ DOMAIN events = 1 .. Len(events)
         /\ StartsOf(a) \subseteq 1 .. Len(events) /\ Ends(a) \subseteq 1 .. Len(events)
         /\ IsFiniteSet(Ends(a)) /\ Restored(a) \in Nat
<1>1. events \in Seq(EventType) /\ Len(events) \in Nat /\ DOMAIN events = 1 .. Len(events)
  BY DEF SpansTyped
<1>2. StartsOf(a) \subseteq 1 .. Len(events) /\ Ends(a) \subseteq 1 .. Len(events)
  BY <1>1 DEF StartsOf, Ends
<1>3. IsFiniteSet(Ends(a))
  <2>1. IsFiniteSet(1 .. Len(events))
    BY <1>1, FS_Interval
  <2> QED
    BY <1>2, <2>1, FS_Subset
<1>4. Restored(a) \in Nat
  <2>1. CASE Ends(a) = {}
    BY <2>1 DEF Restored
  <2>2. CASE Ends(a) # {}
    <3>1. \A i \in Ends(a) : i \in Nat
      BY <1>1, <1>2
    <3>2. Max(Ends(a)) \in Ends(a)
      BY <1>3, <2>2, <3>1, Extremes
    <3>3. events[Max(Ends(a))] \in EventType
      BY <1>1, <1>2, <3>2
    <3> QED
      BY <2>2, <3>3 DEF Restored, EventType
  <2> QED
    BY <2>1, <2>2
<1> QED
  BY <1>1, <1>2, <1>3, <1>4

\* A log with one more event.
LEMMA LogGrows ==
  ASSUME SpansTyped, NEW e \in EventType, events' = Append(events, e)
  PROVE  LET n == Len(events) IN
         /\ n \in Nat /\ events' \in Seq(EventType) /\ Len(events') = n + 1 /\ events'[n + 1] = e
         /\ \A i \in 1 .. n : events'[i] = events[i]
         /\ \A a \in Agents :
              /\ StartsOf(a)' = IF e.type = "delegation_start" /\ e.agent = a
                                THEN StartsOf(a) \cup {n + 1} ELSE StartsOf(a)
              /\ Ends(a)' = IF e.type = "delegation_end" /\ e.agent = a
                            THEN Ends(a) \cup {n + 1} ELSE Ends(a)
              /\ Restored(a)' = IF e.type = "delegation_end" /\ e.agent = a
                                THEN e.lifetime ELSE Restored(a)
<1> DEFINE n == Len(events)
<1>1. events \in Seq(EventType) /\ n \in Nat /\ DOMAIN events = 1 .. n
  BY DEF SpansTyped
<1>2. /\ events' \in Seq(EventType) /\ Len(events') = n + 1 /\ events'[n + 1] = e
      /\ \A i \in 1 .. n : events'[i] = events[i]
  BY <1>1
<1>3. DOMAIN events' = 1 .. n + 1
  BY <1>1, <1>2
<1> HIDE DEF n
<1>4. 1 .. n + 1 = (1 .. n) \cup {n + 1} /\ n + 1 \notin 1 .. n
  BY <1>1
<1>5. ASSUME NEW a \in Agents
      PROVE  /\ StartsOf(a)' = IF e.type = "delegation_start" /\ e.agent = a
                               THEN StartsOf(a) \cup {n + 1} ELSE StartsOf(a)
             /\ Ends(a)' = IF e.type = "delegation_end" /\ e.agent = a
                           THEN Ends(a) \cup {n + 1} ELSE Ends(a)
  BY <1>1, <1>2, <1>3, <1>4 DEF StartsOf, Ends
<1>6. ASSUME NEW a \in Agents
      PROVE  Restored(a)' = IF e.type = "delegation_end" /\ e.agent = a
                            THEN e.lifetime ELSE Restored(a)
  <2>0. IsFiniteSet(Ends(a)) /\ \A i \in Ends(a) : i \in 1 .. n
    BY LogFacts DEF n
  <2>1. CASE e.type = "delegation_end" /\ e.agent = a
    <3> DEFINE S == Ends(a) \cup {n + 1}
    <3>1. Ends(a)' = S
      BY <1>5, <2>1
    <3>2. IsFiniteSet(S) /\ S # {} /\ \A i \in S : i \in Nat /\ i <= n + 1
      BY <1>1, <2>0, FS_AddElement
    <3> HIDE DEF S
    <3>3. Max(S) \in S /\ \A i \in S : i <= Max(S)
      BY <3>2, Extremes
    <3>4. Max(S) = n + 1
      <4>1. n + 1 \in S
        BY DEF S
      <4> QED
        BY <1>1, <3>2, <3>3, <4>1
    <3>5. Max(Ends(a)') = n + 1
      BY <3>1, <3>4
    <3>6. Restored(a)' = events'[n + 1].lifetime
      BY <3>1, <3>2, <3>4 DEF Restored
    <3> QED
      BY <1>2, <2>1, <3>6
  <2>2. CASE ~(e.type = "delegation_end" /\ e.agent = a)
    <3>1. Ends(a)' = Ends(a)
      BY <1>5, <2>2
    <3>2. CASE Ends(a) = {}
      BY <2>2, <3>1, <3>2 DEF Restored
    <3>3. CASE Ends(a) # {}
      <4>1. \A i \in Ends(a) : i \in Nat
        BY <1>1, <2>0
      <4>2. Max(Ends(a)) \in Ends(a)
        BY <2>0, <3>3, <4>1, Extremes
      <4>3. events'[Max(Ends(a))] = events[Max(Ends(a))]
        BY <1>2, <2>0, <4>2
      <4> QED
        BY <2>2, <3>1, <4>3 DEF Restored
    <3> QED
      BY <3>2, <3>3
  <2> QED
    BY <2>1, <2>2
<1> QED
  BY <1>1, <1>2, <1>5, <1>6 DEF n

\* Where no start is logged and no end of a run, the last run has reported as before.
LEMMA ReportedStays ==
  ASSUME SpansTyped, NEW a \in Agents, StartsOf(a)' = StartsOf(a),
         \A i \in Ends(a) : i \in Ends(a)', \A i \in Ends(a)' : i \in Ends(a) \/ events'[i].run = 0,
         \A i \in 1 .. Len(events) : events'[i] = events[i]
  PROVE  Reported(a)' <=> Reported(a)
<1>1. \A i \in Ends(a) : events'[i] = events[i]
  BY LogFacts
<1> QED
  BY <1>1 DEF Reported

\* A log that stays.
LEMMA LogStays ==
  ASSUME events' = events, NEW a
  PROVE  /\ StartsOf(a)' = StartsOf(a) /\ Ends(a)' = Ends(a) /\ Restored(a)' = Restored(a)
         /\ Reported(a)' <=> Reported(a)
<1>1. StartsOf(a)' = StartsOf(a) /\ Ends(a)' = Ends(a)
  BY DEF StartsOf, Ends
<1> QED
  BY <1>1 DEF Restored, Reported

\* An empty log.
LEMMA SpansStart == SpanInit => SpanInv
<1> SUFFICES ASSUME SpanInit PROVE SpanInv
  OBVIOUS
<1>1. /\ live = FALSE /\ delegating = FALSE /\ open = {} /\ events = <<>> /\ rows = {}
      /\ counter = [a \in Agents |-> 0] /\ transcript = [a \in Agents |-> 0]
      /\ usage = [a \in Agents |-> 0] /\ view = NoStatus
  BY DEF SpanInit
<1>2. \A a \in Agents : StartsOf(a) = {} /\ Ends(a) = {} /\ Restored(a) = 0 /\ ~Reported(a)
  BY <1>1 DEF StartsOf, Ends, Restored, Reported
<1>3. SpansTyped
  <2>1. view \in [status : [Everybody -> Statuses], out : SUBSET (Everybody \X Everybody)]
    BY <1>1 DEF NoStatus, Everybody, Statuses
  <2>2. events \in Seq(EventType)
    BY <1>1
  <2>3. counter \in [Agents -> Nat] /\ transcript \in [Agents -> Nat] /\ usage \in [Agents -> Nat]
    BY <1>1
  <2> QED
    BY <1>1, <2>1, <2>2, <2>3 DEF SpansTyped
<1>4. RunsAreOne /\ RowsAreKept /\ ViewFollows /\ StatusesAreTrue
  BY <1>1, <1>2 DEF RunsAreOne, RowsAreKept, ViewFollows, StatusesAreTrue
<1>5. TokensFollowEnds
  BY <1>1, <1>2 DEF TokensFollowEnds
<1> QED
  BY <1>3, <1>4, <1>5 DEF SpanInv

\* An event that is logged has its type, and so has what becomes of it.
LEMMA LogTyped ==
  ASSUME SpansTyped, NEW e \in EventType, Log(e), e.type \notin {"delegation_start", "delegation_end"}
  PROVE  /\ events' \in Seq(EventType) /\ rows' = rows /\ usage' = usage
         /\ \A a \in Agents : /\ StartsOf(a)' = StartsOf(a) /\ Ends(a)' = Ends(a)
                              /\ Restored(a)' = Restored(a) /\ (Reported(a)' <=> Reported(a))
                              /\ \A i \in Ends(a) : events'[i] = events[i]
         /\ \A i \in 1 .. Len(events) : events'[i] = events[i]
<1>1. events' = Append(events, e) /\ rows' = rows /\ usage' = usage
  BY DEF Log, MaterializeTypedEvent, ProjectUsageEvent
<1>2. /\ events' \in Seq(EventType) /\ \A i \in 1 .. Len(events) : events'[i] = events[i]
      /\ \A a \in Agents : StartsOf(a)' = StartsOf(a) /\ Ends(a)' = Ends(a) /\ Restored(a)' = Restored(a)
  BY <1>1, LogGrows
<1>3. \A a \in Agents : \A i \in Ends(a) : events'[i] = events[i]
  BY <1>2, LogFacts
<1>4. \A a \in Agents : Reported(a)' <=> Reported(a)
  BY <1>2, ReportedStays
<1> QED
  BY <1>1, <1>2, <1>3, <1>4

\* What does not change when nothing starts or ends.
LEMMA RowsStay ==
  ASSUME SpanInv, rows' = rows, usage' = usage, open' = open \/ open' = {},
         \A a \in Agents : /\ StartsOf(a)' = StartsOf(a) /\ Ends(a)' = Ends(a)
                           /\ Restored(a)' = Restored(a),
         \A i \in 1 .. Len(events) : events'[i] = events[i]
  PROVE  RowsAreKept' /\ \A r \in open' : r \in open
<1>1. \A r \in rows : r.agent \in Agents
  BY DEF SpanInv, SpansTyped, RowType
<1>2. \A a \in Agents : \A i \in Ends(a) : i \in 1 .. Len(events)
  BY LogFacts DEF SpanInv
<1>3. \A r \in rows : r.end # 0 => events'[r.end] = events[r.end]
  BY <1>1, <1>2 DEF SpanInv, RowsAreKept
<1> QED
  BY <1>1, <1>3 DEF SpanInv, RowsAreKept

\* A session starts: the counters are restored, the page starts afresh, nothing runs.
LEMMA StartKeepsSpans ==
  ASSUME SpanInv, StartSession
  PROVE  SpanInv'
<1> DEFINE e == Event("session_start", Orchestrator, Orchestrator)
<1>1. /\ SpansTyped /\ ~live /\ live' = TRUE /\ delegating' = TRUE /\ Log(e)
      /\ counter' = [a \in Agents |-> Restored(a)] /\ open' = open /\ transcript' = transcript
  BY DEF SpanInv, StartSession
<1>2. e \in EventType /\ e.type = "session_start"
  BY DEF Event, EventType, Everybody
<1> HIDE DEF e
<1>3. view' = NoStatus
  BY <1>1, <1>2 DEF Log, StatusAfter
<1>4. open = {}
  BY <1>1 DEF SpanInv, RunsAreOne
<1>5. /\ events' \in Seq(EventType) /\ rows' = rows /\ usage' = usage
      /\ \A a \in Agents : /\ StartsOf(a)' = StartsOf(a) /\ Ends(a)' = Ends(a) /\ Restored(a)' = Restored(a)
                           /\ Reported(a)' <=> Reported(a)
                           /\ \A i \in Ends(a) : events'[i] = events[i]
      /\ \A i \in 1 .. Len(events) : events'[i] = events[i]
  BY <1>1, <1>2, LogTyped
<1>6. \A a \in Agents : Restored(a) \in Nat
  BY <1>1, LogFacts
<1>7. SpansTyped'
  <2>1. counter' \in [Agents -> Nat]
    BY <1>1, <1>6
  <2>2. view' \in [status : [Everybody -> Statuses], out : SUBSET (Everybody \X Everybody)]
    BY <1>3 DEF NoStatus, Everybody, Statuses
  <2> QED
    BY <1>1, <1>5, <2>1, <2>2 DEF SpansTyped
<1>8. RowsAreKept'
  BY <1>1, <1>5, RowsStay
<1>9. RunsAreOne' /\ ViewFollows' /\ StatusesAreTrue'
  BY <1>1, <1>3, <1>4, SpansAssumption DEF RunsAreOne, ViewFollows, StatusesAreTrue, Runs, NoStatus
<1>10. TokensFollowEnds'
  <2>1. \A a \in Agents : counter'[a] = Restored(a)
    BY <1>1
  <2> QED
    BY <1>1, <1>4, <1>5, <2>1 DEF SpanInv, TokensFollowEnds
<1> QED
  BY <1>7, <1>8, <1>9, <1>10 DEF SpanInv

\* A crash takes the runs; their starts stay the last of their agents.
LEMMA CrashKeepsSpans ==
  ASSUME SpanInv, Crash
  PROVE  SpanInv'
<1>1. /\ live' = FALSE /\ open' = {}
      /\ UNCHANGED <<delegating, counter, transcript, events, rows, usage, view>>
  BY DEF Crash, recordVars
<1>2. \A a \in Agents : /\ StartsOf(a)' = StartsOf(a) /\ Ends(a)' = Ends(a) /\ Restored(a)' = Restored(a)
                        /\ Reported(a)' <=> Reported(a)
  BY <1>1, LogStays
<1>3. SpansTyped'
  BY <1>1 DEF SpanInv, SpansTyped
<1>4. RowsAreKept'
  BY <1>1, <1>2, RowsStay
<1>5. RunsAreOne' /\ ViewFollows' /\ StatusesAreTrue'
  BY <1>1 DEF RunsAreOne, ViewFollows, StatusesAreTrue
<1>6. TokensFollowEnds'
  BY <1>1, <1>2 DEF SpanInv, TokensFollowEnds
<1> QED
  BY <1>3, <1>4, <1>5, <1>6 DEF SpanInv

\* The mode changes while nothing runs.
LEMMA ToggleKeepsSpans ==
  ASSUME SpanInv, ~MidRun, ToggleMode
  PROVE  SpanInv'
<1>1. /\ live /\ open = {} /\ delegating' = ~delegating /\ open' = {}
      /\ counter' = [a \in Agents |-> Restored(a)]
      /\ UNCHANGED <<live, transcript, events, rows, usage, view>>
  BY DEF ToggleMode, recordVars
<1>2. \A a \in Agents : /\ StartsOf(a)' = StartsOf(a) /\ Ends(a)' = Ends(a) /\ Restored(a)' = Restored(a)
                        /\ Reported(a)' <=> Reported(a)
  BY <1>1, LogStays
<1>3. \A a \in Agents : Restored(a) \in Nat /\ counter'[a] = Restored(a)
  BY <1>1, LogFacts DEF SpanInv
<1>4. SpansTyped'
  <2>1. counter' \in [Agents -> Nat]
    BY <1>1, <1>3
  <2> QED
    BY <1>1, <2>1 DEF SpanInv, SpansTyped
<1>5. RowsAreKept'
  BY <1>1, <1>2, RowsStay
<1>6. RunsAreOne' /\ ViewFollows' /\ StatusesAreTrue'
  BY <1>1 DEF SpanInv, RunsAreOne, ViewFollows, StatusesAreTrue, Runs
<1>7. TokensFollowEnds'
  BY <1>1, <1>2, <1>3 DEF SpanInv, TokensFollowEnds
<1> QED
  BY <1>4, <1>5, <1>6, <1>7 DEF SpanInv

\* While a worker runs, its last run has not reported.
LEMMA OpenIsLast ==
  ASSUME SpanInv, NEW r \in open
  PROVE  ~Reported(r.agent)
<1> SUFFICES ASSUME NEW i \in Ends(r.agent), \A start \in StartsOf(r.agent) : start <= events[i].run
             PROVE  FALSE
  BY DEF Reported
<1>1. r.agent \in Agents /\ r.start \in StartsOf(r.agent) /\ i < r.start
  BY DEF SpanInv, SpansTyped, RunType, RunsAreOne
<1>2. events[i].run < i /\ r.start <= events[i].run
  BY <1>1 DEF SpanInv, TokensFollowEnds
<1>3. i \in Nat /\ r.start \in Nat /\ events[i].run \in Nat
  <2>1. i \in 1 .. Len(events) /\ events \in Seq(EventType) /\ Len(events) \in Nat
    BY <1>1, LogFacts DEF SpanInv, SpansTyped
  <2>2. events[i] \in EventType
    BY <2>1
  <2> QED
    BY <2>1, <2>2 DEF EventType, SpanInv, SpansTyped, RunType
<1> QED
  BY <1>1, <1>2, <1>3

\* A message adds to the transcript of a run, which has not ended.
LEMMA MessageKeepsSpans ==
  ASSUME SpanInv, NEW r \in open, Message(r)
  PROVE  SpanInv'
<1>1. /\ transcript' = [transcript EXCEPT ![r.agent] = @ + 1]
      /\ counter' = [counter EXCEPT ![r.agent] = @ + 1]
      /\ UNCHANGED <<live, delegating, open, events, rows, usage, view>>
  BY DEF Message, recordVars
<1>2. \A a \in Agents : /\ StartsOf(a)' = StartsOf(a) /\ Ends(a)' = Ends(a) /\ Restored(a)' = Restored(a)
                        /\ Reported(a)' <=> Reported(a)
  BY <1>1, LogStays
<1>3. SpansTyped /\ SpansTyped' /\ r.agent \in Agents
  BY <1>1 DEF SpanInv, SpansTyped, RunType
<1>4. RowsAreKept'
  BY <1>1, <1>2, RowsStay
<1>5. RunsAreOne' /\ ViewFollows' /\ StatusesAreTrue'
  <2>1. \A o \in open : o.agent \in Agents
    BY <1>3 DEF SpansTyped, RunType
  <2> QED
    BY <1>1, <1>2, <2>1 DEF SpanInv, RunsAreOne, ViewFollows, StatusesAreTrue, Runs
<1>6. TokensFollowEnds'
  <2> SUFFICES ASSUME NEW a \in Agents
               PROVE  /\ usage[a] = Restored(a) /\ Restored(a) <= transcript'[a]
                      /\ Reported(a) => Restored(a) = transcript'[a]
                      /\ \A i \in Ends(a) : events[i].run < i
                      /\ live /\ (\A s \in open : s.agent # a) => counter'[a] = Restored(a)
                      /\ \A s \in open : s.agent = a => s.prior = Restored(a)
    BY <1>1, <1>2 DEF TokensFollowEnds
  <2>1. Restored(a) \in Nat /\ transcript[a] \in Nat
    BY <1>3, LogFacts DEF SpansTyped
  <2>2. CASE a = r.agent
    <3>1. transcript'[a] = transcript[a] + 1
      BY <1>1, <1>3, <2>2 DEF SpansTyped
    <3>2. ~Reported(a)
      BY <1>3, <2>2, OpenIsLast
    <3> QED
      BY <2>1, <2>2, <3>1, <3>2 DEF SpanInv, TokensFollowEnds
  <2>3. CASE a # r.agent
    <3>1. transcript'[a] = transcript[a] /\ counter'[a] = counter[a]
      BY <1>1, <1>3, <2>3 DEF SpansTyped
    <3> QED
      BY <3>1 DEF SpanInv, TokensFollowEnds
  <2> QED
    BY <2>2, <2>3
<1> QED
  BY <1>3, <1>4, <1>5, <1>6 DEF SpanInv

\* A tool call shows a worker running, unless it waits.
LEMMA ToolKeepsSpans ==
  ASSUME SpanInv, NEW r \in open, CallTool(r)
  PROVE  SpanInv'
<1> DEFINE e == Event("worker_tool_start", r.agent, r.caller)
<1>1. /\ SpansTyped /\ live /\ delegating /\ Log(e) /\ r.agent \in Agents /\ r.caller \in Everybody
      /\ UNCHANGED <<live, delegating, open, counter, transcript>>
  BY DEF SpanInv, RunsAreOne, SpansTyped, RunType, CallTool, Emit
<1>2. e \in EventType /\ e.type = "worker_tool_start" /\ e.agent = r.agent
  BY <1>1 DEF Event, EventType, Everybody
<1> HIDE DEF e
<1>3. /\ events' \in Seq(EventType) /\ rows' = rows /\ usage' = usage
      /\ \A a \in Agents : /\ StartsOf(a)' = StartsOf(a) /\ Ends(a)' = Ends(a) /\ Restored(a)' = Restored(a)
                           /\ Reported(a)' <=> Reported(a)
                           /\ \A i \in Ends(a) : events'[i] = events[i]
      /\ \A i \in 1 .. Len(events) : events'[i] = events[i]
  BY <1>1, <1>2, LogTyped
<1>4. view' = IF Waits(r.agent) THEN view
              ELSE [view EXCEPT !.status = [view.status EXCEPT ![r.agent] = "running"]]
  BY <1>1, <1>2 DEF Log, StatusAfter, WithStatus
<1>5. /\ view'.out = view.out
      /\ view'.status \in [Everybody -> Statuses] /\ view' \in [status : [Everybody -> Statuses], out : SUBSET (Everybody \X Everybody)]
      /\ \A a \in Agents : view'.status[a] = IF a = r.agent /\ ~Waits(a) THEN "running" ELSE view.status[a]
  BY <1>1, <1>4 DEF SpansTyped, Everybody, Statuses
<1>6. Waits(r.agent) <=> \E s \in open : s.caller = r.agent
  <2>1. view.out = {<<s.caller, s.agent>> : s \in open}
    BY <1>1 DEF SpanInv, ViewFollows
  <2>2. ASSUME NEW s \in open, s.caller = r.agent PROVE Waits(r.agent)
    <3>1. <<s.caller, s.agent>> \in view.out /\ <<s.caller, s.agent>>[1] = r.agent
      BY <2>1, <2>2
    <3> QED
      BY <3>1 DEF Waits
  <2>3. ASSUME Waits(r.agent) PROVE \E s \in open : s.caller = r.agent
    <3>1. PICK pair \in view.out : pair[1] = r.agent
      BY <2>3 DEF Waits
    <3>2. PICK s \in open : pair = <<s.caller, s.agent>>
      BY <2>1
    <3> QED
      BY <3>1, <3>2
  <2> QED
    BY <2>2, <2>3
<1>7. SpansTyped'
  BY <1>1, <1>3, <1>5 DEF SpansTyped
<1>8. RowsAreKept'
  BY <1>1, <1>3, RowsStay
<1>9. RunsAreOne' /\ ViewFollows'
  <2>1. \A o \in open : o.agent \in Agents
    BY <1>1 DEF SpansTyped, RunType
  <2> QED
    BY <1>1, <1>3, <1>5, <2>1 DEF SpanInv, RunsAreOne, ViewFollows
<1>10. StatusesAreTrue'
  <2>1. r.current
    BY DEF SpanInv, RunsAreOne
  <2> QED
    BY <1>1, <1>5, <1>6, <2>1 DEF SpanInv, StatusesAreTrue, Runs
<1>11. TokensFollowEnds'
  BY <1>1, <1>3 DEF SpanInv, TokensFollowEnds
<1> QED
  BY <1>7, <1>8, <1>9, <1>10, <1>11 DEF SpanInv

\* A delegation starts: a row, a run, and a caller that waits.
LEMMA DelegateKeepsSpans ==
  ASSUME SpanInv, ~MidRun, NEW a \in Agents, NEW c \in Everybody, Delegate(c, a)
  PROVE  SpanInv'
<1> DEFINE e == Event("delegation_start", a, c)
           n == Len(events)
           o == [agent |-> a, caller |-> c, start |-> n + 1, prior |-> counter[a], current |-> TRUE]
           row == [agent |-> a, start |-> n + 1, end |-> 0, tokens |-> 0]
<1>1. /\ SpansTyped /\ live /\ delegating /\ Log(e) /\ open' = open \cup {o}
      /\ c = Orchestrator \/ \E s \in open : s.agent = c
      /\ \A s \in open : s.agent # a
      /\ UNCHANGED <<live, delegating, counter, transcript>>
  BY DEF SpanInv, Delegate, MayDelegate, Emit, Runs, RunsAreOne
<1>2. e \in EventType /\ e.type = "delegation_start" /\ e.agent = a /\ e.caller = c
  BY DEF Event, EventType, Everybody
<1>3. events' = Append(events, e)
  BY <1>1 DEF Log
<1>4. rows' = rows \cup {row} /\ usage' = usage
  BY <1>1, <1>2 DEF Log, MaterializeTypedEvent, MaterializeDelegationStart, ProjectUsageEvent
<1>5. view' = [status |-> [[view.status EXCEPT ![a] = "running"] EXCEPT ![c] = "waiting"],
               out |-> {pair \in view.out : pair[2] # a} \cup {<<c, a>>}]
  BY <1>1, <1>2 DEF Log, StatusAfter, WithStatus
<1>6. counter[a] \in Nat /\ n \in Nat
  BY <1>1 DEF SpansTyped
<1>7. /\ o \in RunType /\ o.agent = a /\ o.caller = c /\ o.start = n + 1 /\ o.prior = counter[a] /\ o.current
      /\ row \in RowType /\ row.agent = a /\ row.start = n + 1 /\ row.end = 0 /\ row.tokens = 0
  BY <1>6 DEF RunType, RowType
<1> HIDE DEF e, o, row
<1>8. /\ events' \in Seq(EventType) /\ Len(events') = n + 1 /\ events'[n + 1] = e
      /\ \A i \in 1 .. n : events'[i] = events[i]
      /\ StartsOf(a)' = StartsOf(a) \cup {n + 1}
      /\ \A b \in Agents : b # a => StartsOf(b)' = StartsOf(b)
      /\ \A b \in Agents : Ends(b)' = Ends(b) /\ Restored(b)' = Restored(b)
  BY <1>1, <1>2, <1>3, LogGrows
<1>9. \A b \in Agents : StartsOf(b) \subseteq 1 .. n /\ Ends(b) \subseteq 1 .. n
  BY <1>1, LogFacts
<1> HIDE DEF n
<1>10. \A b \in Agents : /\ \A i \in StartsOf(b)' : i \in StartsOf(b) \/ (b = a /\ i = n + 1)
                         /\ \A i \in StartsOf(b) : i \in StartsOf(b)' /\ i \in Nat /\ i < n + 1
                         /\ \A i \in Ends(b) : i \in Nat /\ i < n + 1 /\ i # 0
  BY <1>6, <1>8, <1>9
<1>11. /\ \A s \in open : s \in RunType /\ s.agent \in Agents
       /\ \A r \in rows : r \in RowType /\ r.agent \in Agents
  BY <1>1 DEF SpansTyped, RunType, RowType
<1>12. SpansTyped'
  <2>1. view' \in [status : [Everybody -> Statuses], out : SUBSET (Everybody \X Everybody)]
    <3>1. view.status \in [Everybody -> Statuses] /\ view.out \in SUBSET (Everybody \X Everybody) /\ a \in Everybody
      BY <1>1 DEF SpansTyped, Everybody
    <3>2. [[view.status EXCEPT ![a] = "running"] EXCEPT ![c] = "waiting"] \in [Everybody -> Statuses]
      BY <3>1 DEF Statuses
    <3>3. {pair \in view.out : pair[2] # a} \cup {<<c, a>>} \in SUBSET (Everybody \X Everybody)
      BY <3>1
    <3> QED
      BY <1>5, <3>2, <3>3
  <2> QED
    BY <1>1, <1>4, <1>7, <1>8, <2>1 DEF SpansTyped
<1>13. RunsAreOne'
  <2>1. open' # {} => live' /\ delegating'
    BY <1>1
  <2>2. \A s \in open' :
          /\ s.current /\ s.start \in StartsOf(s.agent)'
          /\ \A i \in StartsOf(s.agent)' : i <= s.start
          /\ \A i \in Ends(s.agent)' : i < s.start
          /\ s.caller # Orchestrator => \E t \in open' : t.agent = s.caller
    <3>1. ASSUME NEW s \in open
          PROVE  /\ s.current /\ s.start \in StartsOf(s.agent)'
                 /\ \A i \in StartsOf(s.agent)' : i <= s.start
                 /\ \A i \in Ends(s.agent)' : i < s.start
                 /\ s.caller # Orchestrator => \E t \in open' : t.agent = s.caller
      BY <1>1, <1>8, <1>11 DEF SpanInv, RunsAreOne
    <3>2. /\ o.start \in StartsOf(a)' /\ \A i \in StartsOf(a)' : i <= o.start
          /\ \A i \in Ends(a)' : i < o.start
      BY <1>6, <1>7, <1>8, <1>10
    <3> QED
      BY <1>1, <1>7, <3>1, <3>2
  <2>3. \A q, s \in open' : q.agent = s.agent => q = s
    BY <1>1, <1>7 DEF SpanInv, RunsAreOne
  <2> QED
    BY <2>1, <2>2, <2>3 DEF RunsAreOne
<1>14. TokensFollowEnds'
  <2> SUFFICES ASSUME NEW b \in Agents
               PROVE  /\ usage'[b] = Restored(b)' /\ Restored(b)' <= transcript'[b]
                      /\ Reported(b)' => Restored(b)' = transcript'[b]
                      /\ \A i \in Ends(b)' : events'[i].run < i
                      /\ live' /\ (\A s \in open' : s.agent # b) => counter'[b] = Restored(b)'
                      /\ \A s \in open' : s.agent = b => s.prior = Restored(b)'
    BY DEF TokensFollowEnds
  <2>1. \A i \in Ends(b)' : i \in Ends(b) /\ events'[i] = events[i] /\ events[i].run < i /\ i < n + 1 /\ i \in Nat
                              /\ events[i].run \in Nat
    <3> TAKE i \in Ends(b)'
    <3>1. i \in Ends(b) /\ events'[i] = events[i] /\ i < n + 1 /\ i \in Nat /\ i \in 1 .. n
      BY <1>8, <1>9, <1>10
    <3>2. events[i] \in EventType
      BY <1>1, <3>1 DEF SpansTyped, n
    <3> QED
      BY <3>1, <3>2 DEF EventType, SpanInv, TokensFollowEnds
  <2>2. b = a => counter[b] = Restored(b)
    BY <1>1 DEF SpanInv, TokensFollowEnds
  <2>3. b = a => ~Reported(b)'
    <3> SUFFICES ASSUME b = a, NEW i \in Ends(b)', \A start \in StartsOf(b)' : start <= events'[i].run
                 PROVE  FALSE
      BY DEF Reported
    <3>1. n + 1 <= events[i].run
      BY <1>8, <2>1
    <3> QED
      BY <1>6, <2>1, <3>1
  <2>4. b # a => (Reported(b)' <=> Reported(b))
    <3> SUFFICES ASSUME b # a PROVE Reported(b)' <=> Reported(b)
      OBVIOUS
    <3>1. StartsOf(b)' = StartsOf(b) /\ Ends(b)' = Ends(b)
      BY <1>8
    <3> QED
      BY <1>1, <1>8, <3>1, ReportedStays DEF n
  <2> QED
    BY <1>1, <1>4, <1>7, <1>8, <2>1, <2>2, <2>3, <2>4 DEF SpanInv, TokensFollowEnds
<1>15. RowsAreKept'
  <2>1. ASSUME NEW r \in rows
        PROVE  /\ r.start \in StartsOf(r.agent)' \/ (r.start = 0 /\ r.end # 0)
               /\ r.start < n + 1 /\ r.start \in Nat
               /\ r.end = 0 => r.tokens = 0
               /\ r.end # 0 =>
                    /\ r.end \in Ends(r.agent)' /\ r.tokens = events'[r.end].delta /\ r.start < r.end
                    /\ events'[r.end].run \in {r.start, 0}
                    /\ \A s \in open' : s.start # r.start
    <3>1. (r.start \in StartsOf(r.agent) \/ (r.start = 0 /\ r.end # 0)) /\ r.agent \in Agents
      BY <1>11 DEF SpanInv, RowsAreKept
    <3>2. /\ r.start \in StartsOf(r.agent)' \/ (r.start = 0 /\ r.end # 0)
          /\ r.start < n + 1 /\ r.start \in Nat
      BY <1>6, <1>10, <3>1
    <3>3. r.end # 0 => events'[r.end] = events[r.end] /\ r.end \in Ends(r.agent)' /\ r.end < n + 1
      BY <1>8, <1>9, <1>10, <3>1 DEF SpanInv, RowsAreKept
    <3>4. r.end # 0 => events'[r.end].run \in {r.start, 0}
      BY <3>3 DEF SpanInv, RowsAreKept
    <3>5. r.end # 0 => \A s \in open' : s.start # r.start
      BY <1>1, <1>6, <1>7, <3>2 DEF SpanInv, RowsAreKept
    <3> QED
      BY <3>1, <3>2, <3>3, <3>4, <3>5 DEF SpanInv, RowsAreKept
  <2>2. row.start \in StartsOf(a)'
    BY <1>7, <1>8
  <2>3. \A q, r \in rows' : (q.start = r.start /\ q.start # 0) \/ (q.end = r.end /\ q.end # 0) => q = r
    BY <1>4, <1>6, <1>7, <2>1 DEF SpanInv, RowsAreKept
  <2>4. ASSUME NEW b \in Agents
        PROVE  /\ \A i \in StartsOf(b)' : \E r \in rows' : r.start = i
               /\ \A i \in Ends(b)' : \E r \in rows' : r.end = i
    BY <1>4, <1>7, <1>8, <1>10 DEF SpanInv, RowsAreKept
  <2> QED
    BY <1>4, <1>7, <2>1, <2>2, <2>3, <2>4 DEF RowsAreKept
<1>16. ViewFollows'
  <2>1. view.out = {<<s.caller, s.agent>> : s \in open}
    BY <1>1 DEF SpanInv, ViewFollows
  <2>2. {pair \in view.out : pair[2] # a} = view.out
    <3>1. \A pair \in view.out : pair[2] # a
      BY <1>1, <2>1
    <3> QED
      BY <3>1
  <2>3. view'.out = view.out \cup {<<c, a>>}
    BY <1>5, <2>2
  <2>4. {<<s.caller, s.agent>> : s \in open'} = {<<s.caller, s.agent>> : s \in open} \cup {<<c, a>>}
    BY <1>1, <1>7
  <2> QED
    BY <2>1, <2>3, <2>4 DEF ViewFollows
<1>17. StatusesAreTrue'
  <2> SUFFICES ASSUME NEW b \in Agents
               PROVE  LET waiting == \E r \in open' : r.caller = b
                          runs == \E r \in open' : r.agent = b /\ r.current
                      IN  /\ view'.status[b] = "waiting" <=> waiting
                          /\ view'.status[b] = "running" <=> runs /\ ~waiting
    BY DEF StatusesAreTrue, Runs
  <2>1. view.status \in [Everybody -> Statuses] /\ a \in Everybody /\ b \in Everybody
    BY <1>1 DEF SpansTyped, Everybody
  <2>2. view'.status[b] = IF b = c THEN "waiting" ELSE IF b = a THEN "running" ELSE view.status[b]
    BY <1>5, <2>1
  <2>3. c # a
    BY <1>1, SpansAssumption
  <2>4. /\ view.status[b] = "waiting" <=> \E r \in open : r.caller = b
        /\ view.status[b] = "running" <=> (\E r \in open : r.agent = b /\ r.current) /\ ~\E r \in open : r.caller = b
    BY <1>1 DEF SpanInv, StatusesAreTrue, Runs
  <2>5. ~\E r \in open : r.caller = a
    BY <1>1, SpansAssumption DEF SpanInv, RunsAreOne
  <2> QED
    BY <1>1, <1>7, <2>2, <2>3, <2>4, <2>5
<1> QED
  BY <1>12, <1>13, <1>14, <1>15, <1>16, <1>17 DEF SpanInv

\* A start belongs to one agent.
LEMMA StartOfOne ==
  ASSUME NEW a, NEW b, NEW i \in StartsOf(a), i \in StartsOf(b)
  PROVE  a = b
BY DEF StartsOf

\* The row that the end of a run is written into is the row of its start.
LEMMA EndFindsRow ==
  ASSUME SpanInv, NEW r \in open
  PROVE  \E row \in rows :
           /\ row.agent = r.agent /\ row.start = r.start /\ row.end = 0 /\ row.tokens = 0
           /\ OpenRows(r.agent) # {} /\ Latest(OpenRows(r.agent)) = row
<1> DEFINE a == r.agent
<1>1. /\ a \in Agents /\ r.start \in StartsOf(a) /\ \A i \in StartsOf(a) : i <= r.start
  BY DEF SpanInv, SpansTyped, RunType, RunsAreOne
<1>2. PICK row \in rows : row.start = r.start
  BY <1>1 DEF SpanInv, RowsAreKept
<1>3. row \in RowType /\ row.start # 0 /\ row.start \in StartsOf(row.agent)
  <2>1. row.start # 0
    BY <1>1, <1>2, LogFacts DEF SpanInv
  <2> QED
    BY <2>1 DEF SpanInv, SpansTyped, RowsAreKept
<1>4. row.agent = a
  BY <1>1, <1>2, <1>3, StartOfOne
<1>5. row.end = 0
  BY <1>2 DEF SpanInv, RowsAreKept
<1>6. row.tokens = 0 /\ row \in OpenRows(a)
  BY <1>4, <1>5 DEF SpanInv, RowsAreKept, OpenRows
<1>7. \A s \in OpenRows(a) : s \in rows /\ s.start \in Nat /\ s.start <= row.start
  BY <1>1, <1>2 DEF SpanInv, SpansTyped, RowType, RowsAreKept, OpenRows
<1> DEFINE x == Latest(OpenRows(a))
<1>8. x \in OpenRows(a) /\ \A s \in OpenRows(a) : s.start <= x.start
  <2>1. \E y \in OpenRows(a) : \A s \in OpenRows(a) : s.start <= y.start
    BY <1>6, <1>7
  <2> QED
    BY <2>1 DEF Latest
<1> HIDE DEF x
<1>9. x.start = row.start
  BY <1>6, <1>7, <1>8
<1>10. x = row
  BY <1>3, <1>7, <1>8, <1>9 DEF SpanInv, RowsAreKept
<1> QED
  BY <1>2, <1>4, <1>5, <1>6, <1>10 DEF x

\* A delegation ends: its row, its tokens, and a caller that goes on.
LEMMA EndKeepsSpans ==
  ASSUME SpanInv, ~MidRun, NEW o \in open, EndRun(o)
  PROVE  SpanInv'
<1> DEFINE a == o.agent
           c == o.caller
           t == transcript[a]
           d == Delta(t, o.prior)
           e == EndEvent(a, c, d, t, o.start)
           n == Len(events)
<1>1. /\ SpansTyped /\ live /\ delegating /\ Log(e) /\ open' = open \ {o}
      /\ a \in Agents /\ c \in Everybody /\ o.current
      /\ \A s \in open : s.caller # a
      /\ counter' = [counter EXCEPT ![a] = t]
      /\ UNCHANGED <<live, delegating, transcript>>
  BY DEF SpanInv, EndRun, Emit, RunsAreOne, SpansTyped, RunType
<1>2. /\ t \in Nat /\ o.prior \in Nat /\ n \in Nat /\ Restored(a) \in Nat
      /\ o.prior = Restored(a) /\ Restored(a) <= t /\ usage[a] = Restored(a)
  <2>1. t \in Nat /\ o.prior \in Nat /\ n \in Nat
    BY <1>1 DEF SpansTyped, RunType
  <2>2. o.prior = Restored(a) /\ Restored(a) <= t /\ usage[a] = Restored(a)
    BY <1>1 DEF SpanInv, TokensFollowEnds
  <2> QED
    BY <1>1, <2>1, <2>2, LogFacts
<1>3. d \in Nat /\ usage[a] + d = t
  <2> HIDE DEF t
  <2> QED
    BY <1>2 DEF Delta
<1> HIDE DEF d, t
<1>4. /\ e \in EventType /\ e.type = "delegation_end" /\ e.agent = a /\ e.delta = d /\ e.lifetime = t
      /\ e.run = o.start
  BY <1>1, <1>2, <1>3 DEF EndEvent, EventType, Everybody, SpansTyped, RunType
<1>5. PICK row \in rows :
        /\ row.agent = a /\ row.start = o.start /\ row.end = 0 /\ row.tokens = 0
        /\ OpenRows(a) # {} /\ Latest(OpenRows(a)) = row
  BY EndFindsRow
<1> DEFINE full == [row EXCEPT !.end = n + 1, !.tokens = d]
<1>6. rows' = (rows \ {row}) \cup {full} /\ usage' = [usage EXCEPT ![a] = @ + d]
  BY <1>1, <1>4, <1>5 DEF Log, MaterializeTypedEvent, MaterializeDelegationEnd, ProjectUsageEvent
<1>7. /\ full \in RowType /\ full.agent = a /\ full.start = o.start /\ full.end = n + 1 /\ full.tokens = d
      /\ \A r \in rows : r \in RowType /\ r.agent \in Agents
      /\ \A s \in open : s \in RunType /\ s.agent \in Agents
  <2>1. /\ \A r \in rows : r \in RowType /\ r.agent \in Agents
        /\ \A s \in open : s \in RunType /\ s.agent \in Agents
    BY <1>1 DEF SpansTyped, RowType, RunType
  <2>2. row \in RowType /\ n + 1 \in Nat
    BY <1>2, <2>1
  <2> HIDE DEF n
  <2>3. full \in RowType /\ full.agent = row.agent /\ full.start = row.start /\ full.end = n + 1 /\ full.tokens = d
    BY <1>3, <2>2 DEF RowType
  <2> HIDE DEF full
  <2> QED
    BY <1>5, <2>1, <2>3
<1> HIDE DEF full
<1>8. view' = EndStatus(a)
  BY <1>1, <1>4 DEF Log, StatusAfter
<1>9. events' = Append(events, e)
  BY <1>1 DEF Log
<1> HIDE DEF e
<1>10. /\ events' \in Seq(EventType) /\ Len(events') = n + 1 /\ events'[n + 1] = e
       /\ \A i \in 1 .. n : events'[i] = events[i]
       /\ Ends(a)' = Ends(a) \cup {n + 1} /\ Restored(a)' = t
       /\ \A b \in Agents : b # a => Ends(b)' = Ends(b) /\ Restored(b)' = Restored(b)
       /\ \A b \in Agents : StartsOf(b)' = StartsOf(b)
  BY <1>1, <1>4, <1>9, LogGrows
<1>11. \A b \in Agents : StartsOf(b) \subseteq 1 .. n /\ Ends(b) \subseteq 1 .. n
  BY <1>1, LogFacts
<1> HIDE DEF n
<1>12. \A b \in Agents : /\ \A i \in Ends(b)' : i \in Ends(b) \/ (b = a /\ i = n + 1)
                         /\ \A i \in Ends(b) : i \in Ends(b)' /\ i \in Nat /\ i < n + 1 /\ i # 0
                         /\ \A i \in StartsOf(b) : i \in Nat /\ i < n + 1 /\ i # 0
  BY <1>2, <1>10, <1>11
<1>13. \A s \in open' : s \in open /\ s.agent # a /\ s # o
  BY <1>1 DEF SpanInv, RunsAreOne
<1> DEFINE left == {pair \in view.out : pair[2] # a}
           callers == {pair[1] : pair \in view.out \ left}
           resumed == {b \in callers : ~\E pair \in left : pair[1] = b}
<1>14. /\ view'.out = left
       /\ view'.status = [b \in Everybody |-> IF b \in resumed THEN "running" ELSE IF b = a THEN "done" ELSE view.status[b]]
       /\ view' = [status |-> view'.status, out |-> view'.out]
  BY <1>8 DEF EndStatus, Everybody
<1>15. left = {<<s.caller, s.agent>> : s \in open'}
  <2>1. view.out = {<<s.caller, s.agent>> : s \in open}
    BY <1>1 DEF SpanInv, ViewFollows
  <2>2. \A pair \in left : \E s \in open' : pair = <<s.caller, s.agent>>
    <3> TAKE pair \in left
    <3>1. PICK s \in open : pair = <<s.caller, s.agent>>
      BY <2>1
    <3>2. s # o
      BY <3>1
    <3> QED
      BY <1>1, <3>1, <3>2
  <2>3. \A s \in open' : <<s.caller, s.agent>> \in left
    BY <1>13, <2>1
  <2> HIDE DEF left
  <2> QED
    BY <2>2, <2>3
<1>16. \A b : b \in resumed <=> b = c /\ ~\E s \in open' : s.caller = b
  <2>1. view.out = {<<s.caller, s.agent>> : s \in open}
    BY <1>1 DEF SpanInv, ViewFollows
  <2>2. \A b : b \in callers <=> b = c
    <3>1. c \in callers
      <4>1. <<c, a>> \in view.out \ left
        BY <2>1
      <4> HIDE DEF left
      <4>2. <<c, a>>[1] = c
        OBVIOUS
      <4> QED
        BY <4>1, <4>2
    <3>2. ASSUME NEW b \in callers PROVE b = c
      <4>1. PICK pair \in view.out \ left : b = pair[1]
        BY <3>2
      <4>2. PICK s \in open : pair = <<s.caller, s.agent>>
        BY <2>1, <4>1
      <4>3. s.agent = a
        BY <4>1, <4>2
      <4>4. s = o
        BY <4>3 DEF SpanInv, RunsAreOne
      <4> QED
        BY <4>1, <4>2, <4>4
    <3> QED
      BY <3>1, <3>2
  <2>3. \A b : (\E pair \in left : pair[1] = b) <=> \E s \in open' : s.caller = b
    <3> TAKE b
    <3>1. ASSUME NEW s \in open', s.caller = b PROVE \E pair \in left : pair[1] = b
      <4>1. <<s.caller, s.agent>> \in left /\ <<s.caller, s.agent>>[1] = b
        <5> HIDE DEF left
        <5> QED
          BY <1>15, <3>1
      <4> HIDE DEF left
      <4> QED
        BY <4>1
    <3>2. ASSUME NEW pair \in left, pair[1] = b PROVE \E s \in open' : s.caller = b
      <4> HIDE DEF left
      <4>1. PICK s \in open' : pair = <<s.caller, s.agent>>
        BY <1>15
      <4> QED
        BY <3>2, <4>1
    <3> QED
      BY <3>1, <3>2
  <2> HIDE DEF left, callers
  <2> QED
    BY <2>2, <2>3
<1> HIDE DEF left, callers, resumed
<1>17. SpansTyped'
  <2>1. view' \in [status : [Everybody -> Statuses], out : SUBSET (Everybody \X Everybody)]
    <3>1. view.status \in [Everybody -> Statuses] /\ view.out \in SUBSET (Everybody \X Everybody)
      BY <1>1 DEF SpansTyped
    <3>2. view'.status \in [Everybody -> Statuses]
      BY <1>14, <3>1 DEF Statuses
    <3>3. left \in SUBSET (Everybody \X Everybody)
      BY <3>1 DEF left
    <3> QED
      BY <1>14, <3>2, <3>3
  <2>2. counter' \in [Agents -> Nat] /\ usage' \in [Agents -> Nat]
    <3>1. usage \in [Agents -> Nat] /\ counter \in [Agents -> Nat] /\ usage[a] + d \in Nat
      BY <1>1, <1>2, <1>3 DEF SpansTyped
    <3> QED
      BY <1>1, <1>2, <1>6, <3>1
  <2>3. open' \subseteq RunType /\ rows' \subseteq RowType
    BY <1>6, <1>7, <1>13
  <2> QED
    BY <1>1, <1>10, <2>1, <2>2, <2>3 DEF SpansTyped
<1>18. RunsAreOne'
  <2>1. ASSUME NEW s \in open'
        PROVE  /\ s.current /\ s.start \in StartsOf(s.agent)'
               /\ \A i \in StartsOf(s.agent)' : i <= s.start
               /\ \A i \in Ends(s.agent)' : i < s.start
               /\ s.caller # Orchestrator => \E q \in open' : q.agent = s.caller
    <3>1. s \in open /\ s.agent # a /\ s.agent \in Agents /\ s.caller # a
      BY <1>1, <1>7, <1>13
    <3>2. \A q \in open : q.agent = s.caller => q \in open'
      BY <1>1, <3>1
    <3> QED
      BY <1>10, <3>1, <3>2 DEF SpanInv, RunsAreOne
  <2> QED
    BY <1>1, <1>13, <2>1 DEF SpanInv, RunsAreOne
<1>19. TokensFollowEnds'
  <2> SUFFICES ASSUME NEW b \in Agents
               PROVE  /\ usage'[b] = Restored(b)' /\ Restored(b)' <= transcript'[b]
                      /\ Reported(b)' => Restored(b)' = transcript'[b]
                      /\ \A i \in Ends(b)' : events'[i].run < i
                      /\ live' /\ (\A s \in open' : s.agent # b) => counter'[b] = Restored(b)'
                      /\ \A s \in open' : s.agent = b => s.prior = Restored(b)'
    BY DEF TokensFollowEnds
  <2>1. CASE b = a
    <3>1. usage'[b] = t /\ Restored(b)' = t /\ transcript'[b] = t /\ counter'[b] = t
      BY <1>1, <1>3, <1>6, <1>10, <2>1 DEF SpansTyped, t
    <3>2. \A i \in Ends(b)' : events'[i].run < i
      <4>1. o.start \in StartsOf(a) /\ o.start < n + 1
        BY <1>1, <1>12 DEF SpanInv, RunsAreOne
      <4>2. \A i \in Ends(b) : events'[i] = events[i] /\ events[i].run < i
        BY <1>10, <1>11 DEF SpanInv, TokensFollowEnds
      <4> QED
        BY <1>4, <1>10, <1>12, <4>1, <4>2
    <3> QED
      BY <1>2, <1>13, <2>1, <3>1, <3>2
  <2>2. CASE b # a
    <3>1. /\ usage'[b] = usage[b] /\ Restored(b)' = Restored(b) /\ transcript'[b] = transcript[b]
          /\ counter'[b] = counter[b] /\ StartsOf(b)' = StartsOf(b) /\ Ends(b)' = Ends(b)
      BY <1>1, <1>6, <1>10, <2>2 DEF SpansTyped
    <3>2. (\A s \in open' : s.agent # b) => \A s \in open : s.agent # b
      BY <1>1, <2>2
    <3>3. \A i \in Ends(b) : events'[i] = events[i]
      BY <1>10, <1>11
    <3>4. Reported(b)' <=> Reported(b)
      BY <3>1, <3>3 DEF Reported
    <3> QED
      BY <1>1, <1>13, <3>1, <3>2, <3>3, <3>4 DEF SpanInv, TokensFollowEnds
  <2> QED
    BY <2>1, <2>2
<1>20. RowsAreKept'
  <2>1. ASSUME NEW r \in rows, r # row
        PROVE  /\ r.start \in StartsOf(r.agent)' \/ (r.start = 0 /\ r.end # 0)
               /\ r.start # o.start
               /\ r.end = 0 => r.tokens = 0
               /\ r.end # 0 =>
                    /\ r.end \in Ends(r.agent)' /\ r.tokens = events'[r.end].delta /\ r.start < r.end
                    /\ events'[r.end].run \in {r.start, 0}
                    /\ \A s \in open' : s.start # r.start
                    /\ r.end < n + 1
    <3>1. (r.start \in StartsOf(r.agent) \/ (r.start = 0 /\ r.end # 0)) /\ r.agent \in Agents
      BY <1>7 DEF SpanInv, RowsAreKept
    <3>2. r.start # o.start
      <4>1. o.start # 0
        BY <1>1, <1>12 DEF SpanInv, RunsAreOne
      <4> QED
        BY <1>5, <2>1, <4>1 DEF SpanInv, RowsAreKept
    <3>3. r.end # 0 => events'[r.end] = events[r.end] /\ r.end \in Ends(r.agent)' /\ r.end < n + 1
      BY <1>10, <1>11, <1>12, <3>1 DEF SpanInv, RowsAreKept
    <3>4. StartsOf(r.agent)' = StartsOf(r.agent)
      BY <1>10, <3>1
    <3> QED
      BY <1>13, <3>1, <3>2, <3>3, <3>4 DEF SpanInv, RowsAreKept
  <2>2. /\ full.start \in StartsOf(a)' /\ full.end # 0
        /\ full.end \in Ends(a)' /\ full.tokens = events'[full.end].delta /\ full.start < full.end
        /\ events'[full.end].run = full.start
        /\ \A s \in open' : s.start # full.start
    <3>1. o.start \in StartsOf(a) /\ \A i \in StartsOf(a) : i <= o.start
      BY DEF SpanInv, RunsAreOne
    <3>2. \A s \in open' : s.start # o.start
      <4> SUFFICES ASSUME NEW s \in open', s.start = o.start PROVE FALSE
        OBVIOUS
      <4>1. s.start \in StartsOf(s.agent) /\ s.agent # a
        BY <1>13 DEF SpanInv, RunsAreOne
      <4> QED
        BY <3>1, <4>1, StartOfOne
    <3>3. o.start < n + 1 /\ n + 1 # 0
      BY <1>1, <1>2, <1>12, <3>1
    <3> QED
      BY <1>1, <1>4, <1>7, <1>10, <3>1, <3>2, <3>3
  <2>3. \A q, r \in rows' : (q.start = r.start /\ q.start # 0) \/ (q.end = r.end /\ q.end # 0) => q = r
    <3>1. \A q \in rows' : q = full \/ (q \in rows /\ q # row)
      BY <1>6
    <3>2. \A q \in rows : q # row => q.start # full.start /\ (q.end = 0 \/ q.end < n + 1) /\ q.end \in Nat
      BY <1>7, <2>1 DEF RowType
    <3> QED
      BY <1>2, <1>7, <3>1, <3>2 DEF SpanInv, RowsAreKept
  <2>4. ASSUME NEW b \in Agents
        PROVE  /\ \A i \in StartsOf(b)' : \E r \in rows' : r.start = i
               /\ \A i \in Ends(b)' : \E r \in rows' : r.end = i
    <3>1. \A i \in StartsOf(b) : \E r \in rows' : r.start = i
      <4> TAKE i \in StartsOf(b)
      <4>1. PICK r \in rows : r.start = i
        BY DEF SpanInv, RowsAreKept
      <4>2. CASE r = row
        BY <1>5, <1>6, <1>7, <4>1, <4>2
      <4>3. CASE r # row
        BY <1>6, <4>1, <4>3
      <4> QED
        BY <4>2, <4>3
    <3>2. \A i \in Ends(b) : \E r \in rows' : r.end = i
      <4> TAKE i \in Ends(b)
      <4>1. PICK r \in rows : r.end = i
        BY DEF SpanInv, RowsAreKept
      <4>2. r # row
        BY <1>5, <1>12, <4>1
      <4> QED
        BY <1>6, <4>1, <4>2
    <3>3. \E r \in rows' : r.end = n + 1
      BY <1>6, <1>7
    <3> QED
      BY <1>10, <1>12, <3>1, <3>2, <3>3
  <2> QED
    BY <1>6, <1>7, <2>1, <2>2, <2>3, <2>4 DEF RowsAreKept
<1>21. ViewFollows'
  BY <1>14, <1>15 DEF ViewFollows
<1>22. StatusesAreTrue'
  <2> SUFFICES ASSUME NEW b \in Agents
               PROVE  LET waiting == \E r \in open' : r.caller = b
                          runs == \E r \in open' : r.agent = b /\ r.current
                      IN  /\ view'.status[b] = "waiting" <=> waiting
                          /\ view'.status[b] = "running" <=> runs /\ ~waiting
    BY DEF StatusesAreTrue, Runs
  <2>1. view'.status[b] = IF b \in resumed THEN "running" ELSE IF b = a THEN "done" ELSE view.status[b]
    BY <1>14 DEF Everybody
  <2>2. /\ view.status[b] = "waiting" <=> \E r \in open : r.caller = b
        /\ view.status[b] = "running" <=> (\E r \in open : r.agent = b /\ r.current) /\ ~\E r \in open : r.caller = b
    BY <1>1 DEF SpanInv, StatusesAreTrue, Runs
  <2>3. \A r \in open : r.current
    BY DEF SpanInv, RunsAreOne
  <2>4. CASE b \in resumed
    <3>1. b = c /\ ~\E s \in open' : s.caller = b
      BY <1>16, <2>4
    <3>2. \E s \in open : s.agent = b
      BY <3>1, SpansAssumption DEF SpanInv, RunsAreOne
    <3>3. b # a
      BY <1>1, <3>1
    <3>4. \E s \in open' : s.agent = b /\ s.current
      BY <1>1, <2>3, <3>2, <3>3
    <3> QED
      BY <2>1, <2>4, <3>1, <3>4
  <2>5. CASE b \notin resumed /\ b = a
    BY <1>1, <1>13, <2>1, <2>5
  <2>6. CASE b \notin resumed /\ b # a
    <3>1. (\E r \in open' : r.caller = b) <=> \E r \in open : r.caller = b
      BY <1>1, <1>16, <2>6
    <3>2. (\E r \in open' : r.agent = b) <=> \E r \in open : r.agent = b
      BY <1>1, <2>6
    <3> QED
      BY <1>1, <1>13, <2>1, <2>2, <2>3, <2>6, <3>1, <3>2
  <2> QED
    BY <2>4, <2>5, <2>6
<1> QED
  BY <1>17, <1>18, <1>19, <1>20, <1>21, <1>22 DEF SpanInv

\* Of open rows, one started last.
LEMMA LatestIsOpen ==
  ASSUME SpanInv, NEW a \in Agents, OpenRows(a) # {}
  PROVE  Latest(OpenRows(a)) \in OpenRows(a)
<1> DEFINE S == {r.start : r \in OpenRows(a)}
<1>1. \A r \in OpenRows(a) : r \in rows /\ r.start \in StartsOf(a)
  BY DEF SpanInv, RowsAreKept, OpenRows
<1>2. S \subseteq 1 .. Len(events) /\ Len(events) \in Nat
  <2>1. StartsOf(a) \subseteq 1 .. Len(events) /\ Len(events) \in Nat
    BY LogFacts DEF SpanInv
  <2> QED
    BY <1>1, <2>1
<1>3. IsFiniteSet(S) /\ S # {} /\ \A i \in S : i \in Nat
  <2>1. IsFiniteSet(1 .. Len(events))
    BY <1>2, FS_Interval
  <2>2. S # {}
    OBVIOUS
  <2>3. \A i \in S : i \in Nat
    BY <1>2
  <2> HIDE DEF S
  <2>4. IsFiniteSet(S)
    BY <1>2, <2>1, FS_Subset
  <2> QED
    BY <2>2, <2>3, <2>4
<1>4. Max(S) \in S /\ \A i \in S : i <= Max(S)
  <2> HIDE DEF S
  <2> QED
    BY <1>3, Extremes
<1>5. \E r \in OpenRows(a) : \A s \in OpenRows(a) : s.start <= r.start
  BY <1>4
<1> QED
  BY <1>5 DEF Latest

\* A setup fails: an end that completes the row of a run that crashed, or makes one.
LEMMA SetupKeepsSpans ==
  ASSUME SpanInv, ~MidRun, NEW a \in Agents, NEW c \in Everybody, SetupFailure(c, a)
  PROVE  SpanInv'
<1> DEFINE e == EndEvent(a, c, 0, counter[a], 0)
           n == Len(events)
<1>1. /\ SpansTyped /\ live /\ delegating /\ Log(e)
      /\ \A s \in open : s.agent # a
      /\ UNCHANGED <<live, delegating, open, counter, transcript>>
  BY DEF SpanInv, SetupFailure, MayDelegate, Emit, Runs, RunsAreOne
<1>2. counter[a] \in Nat /\ n \in Nat /\ counter[a] = Restored(a)
  BY <1>1 DEF SpansTyped, SpanInv, TokensFollowEnds
<1>3. /\ e \in EventType /\ e.type = "delegation_end" /\ e.agent = a /\ e.delta = 0
      /\ e.lifetime = Restored(a) /\ e.run = 0
  BY <1>2 DEF EndEvent, EventType, Everybody
<1> HIDE DEF e
<1>4. /\ events' = Append(events, e) /\ view' = EndStatus(a)
      /\ rows' = MaterializeDelegationEnd(e, n + 1) /\ usage' = [usage EXCEPT ![a] = @ + 0]
  BY <1>1, <1>3 DEF Log, MaterializeTypedEvent, ProjectUsageEvent, StatusAfter
<1>5. usage' = usage /\ usage' \in [Agents -> Nat]
  BY <1>1, <1>4 DEF SpansTyped
<1>6. /\ events' \in Seq(EventType) /\ Len(events') = n + 1 /\ events'[n + 1] = e
      /\ \A i \in 1 .. n : events'[i] = events[i]
      /\ Ends(a)' = Ends(a) \cup {n + 1}
      /\ \A b \in Agents : b # a => Ends(b)' = Ends(b)
      /\ \A b \in Agents : StartsOf(b)' = StartsOf(b) /\ Restored(b)' = Restored(b)
  BY <1>1, <1>3, <1>4, LogGrows
<1>7. \A b \in Agents : StartsOf(b) \subseteq 1 .. n /\ Ends(b) \subseteq 1 .. n
  BY <1>1, LogFacts
<1>8. \A b \in Agents : Reported(b)' <=> Reported(b)
  <2> SUFFICES ASSUME NEW b \in Agents PROVE Reported(b)' <=> Reported(b)
    OBVIOUS
  <2>1. /\ \A i \in Ends(b) : i \in Ends(b)'
        /\ \A i \in Ends(b)' : i \in Ends(b) \/ events'[i].run = 0
    BY <1>3, <1>6
  <2> QED
    BY <1>1, <1>6, <2>1, ReportedStays
<1> HIDE DEF n
<1>9. \A b \in Agents : /\ \A i \in Ends(b)' : i \in Ends(b) \/ (b = a /\ i = n + 1)
                        /\ \A i \in Ends(b) : i \in Ends(b)' /\ i \in Nat /\ i < n + 1 /\ i # 0
                        /\ \A i \in StartsOf(b) : i \in Nat /\ i < n + 1 /\ i # 0
  BY <1>2, <1>6, <1>7
<1>10. /\ \A r \in rows : r \in RowType /\ r.agent \in Agents
       /\ \A s \in open : s \in RunType /\ s.agent \in Agents
  BY <1>1 DEF SpansTyped, RowType, RunType
<1>11. \E gone, full :
         /\ rows' = (rows \ gone) \cup {full} /\ gone \subseteq rows
         /\ full \in RowType /\ full.agent = a /\ full.end = n + 1 /\ full.tokens = 0
         /\ \A r \in gone : r.end = 0 /\ r.start = full.start
         /\ \/ full.start = 0 /\ gone = {}
            \/ full.start \in StartsOf(a) /\ gone # {}
  <2>1. CASE OpenRows(a) = {}
    <3> DEFINE new == [agent |-> a, start |-> 0, end |-> n + 1, tokens |-> 0]
               none == {}
    <3>1. rows' = (rows \ none) \cup {new} /\ none \subseteq rows /\ \A r \in none : r.end = 0 /\ r.start = new.start
      BY <1>3, <1>4, <2>1 DEF MaterializeDelegationEnd
    <3>2. new \in RowType /\ new.agent = a /\ new.start = 0 /\ new.end = n + 1 /\ new.tokens = 0
      BY <1>2 DEF RowType
    <3>3. none = {}
      OBVIOUS
    <3> HIDE DEF new, none
    <3> QED
      BY <3>1, <3>2, <3>3
  <2>2. CASE OpenRows(a) # {}
    <3>1. PICK x \in OpenRows(a) :
            rows' = (rows \ {x}) \cup {[x EXCEPT !.end = n + 1, !.tokens = 0]}
      BY <1>3, <1>4, <2>2, LatestIsOpen DEF MaterializeDelegationEnd
    <3>2. x \in rows /\ x.agent = a /\ x.end = 0 /\ x \in RowType
      BY <1>10 DEF OpenRows
    <3>3. x.start \in StartsOf(a)
      BY <3>2 DEF SpanInv, RowsAreKept
    <3> DEFINE new == [x EXCEPT !.end = n + 1, !.tokens = 0]
               its == {x}
    <3>4. rows' = (rows \ its) \cup {new}
      BY <3>1
    <3>5. new \in RowType /\ new.agent = x.agent /\ new.start = x.start /\ new.end = n + 1 /\ new.tokens = 0
      <4>1. x \in RowType /\ n + 1 \in Nat
        BY <1>2, <3>2
      <4> QED
        BY <4>1 DEF RowType
    <3> HIDE DEF new
    <3>6. its \subseteq rows /\ its # {} /\ \A r \in its : r.end = 0 /\ r.start = new.start
      BY <3>2, <3>5
    <3> HIDE DEF its
    <3> QED
      BY <3>2, <3>3, <3>4, <3>5, <3>6
  <2> QED
    BY <2>1, <2>2
<1>12. PICK gone, full :
         /\ rows' = (rows \ gone) \cup {full} /\ gone \subseteq rows
         /\ full \in RowType /\ full.agent = a /\ full.end = n + 1 /\ full.tokens = 0
         /\ \A r \in gone : r.end = 0 /\ r.start = full.start
         /\ \/ full.start = 0 /\ gone = {}
            \/ full.start \in StartsOf(a) /\ gone # {}
  BY <1>11
<1>13. view.out = {<<s.caller, s.agent>> : s \in open}
  BY <1>1 DEF SpanInv, ViewFollows
<1>14. /\ view'.out = view.out /\ view' = [status |-> view'.status, out |-> view'.out]
       /\ view'.status = [b \in Everybody |-> IF b = a THEN "done" ELSE view.status[b]]
  <2>1. {pair \in view.out : pair[2] # a} = view.out
    <3>1. \A pair \in view.out : pair[2] # a
      BY <1>1, <1>13
    <3> QED
      BY <3>1
  <2> DEFINE callers == {pair[1] : pair \in view.out \ {pair \in view.out : pair[2] # a}}
             resumed == {b \in callers : ~\E pair \in {pair \in view.out : pair[2] # a} : pair[1] = b}
  <2>2. resumed = {}
    BY <2>1
  <2>3. view' = [status |-> [b \in Everybody |-> IF b \in resumed THEN "running"
                                                 ELSE IF b = a THEN "done" ELSE view.status[b]],
                 out |-> {pair \in view.out : pair[2] # a}]
    BY <1>4 DEF EndStatus, Everybody
  <2> HIDE DEF callers, resumed
  <2> QED
    BY <2>1, <2>2, <2>3
<1>15. SpansTyped'
  <2>1. view' \in [status : [Everybody -> Statuses], out : SUBSET (Everybody \X Everybody)]
    <3>1. view.status \in [Everybody -> Statuses] /\ view.out \in SUBSET (Everybody \X Everybody)
      BY <1>1 DEF SpansTyped
    <3>2. view'.status \in [Everybody -> Statuses]
      BY <1>14, <3>1 DEF Statuses
    <3> QED
      BY <1>14, <3>1, <3>2
  <2>2. rows' \subseteq RowType
    BY <1>10, <1>12
  <2> QED
    BY <1>1, <1>5, <1>6, <2>1, <2>2 DEF SpansTyped
<1>16. RunsAreOne'
  <2>1. ASSUME NEW s \in open PROVE StartsOf(s.agent)' = StartsOf(s.agent) /\ Ends(s.agent)' = Ends(s.agent)
    BY <1>1, <1>6, <1>10
  <2> QED
    BY <1>1, <2>1 DEF SpanInv, RunsAreOne
<1>17. TokensFollowEnds'
  <2> SUFFICES ASSUME NEW b \in Agents
               PROVE  /\ usage'[b] = Restored(b)' /\ Restored(b)' <= transcript'[b]
                      /\ Reported(b)' => Restored(b)' = transcript'[b]
                      /\ \A i \in Ends(b)' : events'[i].run < i
                      /\ live' /\ (\A s \in open' : s.agent # b) => counter'[b] = Restored(b)'
                      /\ \A s \in open' : s.agent = b => s.prior = Restored(b)'
    BY DEF TokensFollowEnds
  <2>1. \A i \in Ends(b)' : events'[i].run < i
    <3>1. \A i \in Ends(b) : events'[i] = events[i] /\ events[i].run < i
      BY <1>6, <1>7 DEF SpanInv, TokensFollowEnds
    <3> QED
      BY <1>2, <1>3, <1>6, <1>9, <3>1
  <2> QED
    BY <1>1, <1>5, <1>6, <1>8, <2>1 DEF SpanInv, TokensFollowEnds
<1>18. RowsAreKept'
  <2>1. ASSUME NEW r \in rows, r \notin gone
        PROVE  /\ r.start \in StartsOf(r.agent)' \/ (r.start = 0 /\ r.end # 0)
               /\ r.start # full.start \/ r.start = 0
               /\ r.end = 0 => r.tokens = 0
               /\ r.end # 0 =>
                    /\ r.end \in Ends(r.agent)' /\ r.tokens = events'[r.end].delta /\ r.start < r.end
                    /\ events'[r.end].run \in {r.start, 0}
                    /\ \A s \in open' : s.start # r.start
                    /\ r.end < n + 1
    <3>1. r.start \in StartsOf(r.agent)' \/ (r.start = 0 /\ r.end # 0)
      BY <1>6, <1>10 DEF SpanInv, RowsAreKept
    <3>2. r.start # full.start \/ r.start = 0
      BY <1>12, <2>1 DEF SpanInv, RowsAreKept
    <3>3. r.end # 0 => events'[r.end] = events[r.end] /\ r.end \in Ends(r.agent)' /\ r.end < n + 1
      BY <1>6, <1>7, <1>9, <1>10 DEF SpanInv, RowsAreKept
    <3> QED
      BY <1>1, <3>1, <3>2, <3>3 DEF SpanInv, RowsAreKept
  <2>2. /\ full.start \in StartsOf(a)' \/ full.start = 0
        /\ full.end # 0 /\ full.end \in Ends(a)' /\ full.tokens = events'[full.end].delta
        /\ full.start < full.end /\ events'[full.end].run = 0
        /\ \A s \in open' : s.start # full.start
    <3>1. \A s \in open' : s.start # full.start
      <4> SUFFICES ASSUME NEW s \in open, s.start = full.start PROVE FALSE
        BY <1>1
      <4>1. s.start \in StartsOf(s.agent) /\ s.agent # a /\ s.agent \in Agents
        BY <1>1, <1>10 DEF SpanInv, RunsAreOne
      <4>2. s.start # 0
        BY <1>9, <4>1
      <4> QED
        BY <1>12, <4>1, <4>2, StartOfOne
    <3>2. full.start < n + 1 /\ n + 1 # 0
      BY <1>2, <1>9, <1>12
    <3> QED
      BY <1>3, <1>6, <1>12, <3>1, <3>2
  <2>3. \A q, r \in rows' : (q.start = r.start /\ q.start # 0) \/ (q.end = r.end /\ q.end # 0) => q = r
    <3>1. \A q \in rows' : q = full \/ (q \in rows /\ q \notin gone)
      BY <1>12
    <3>2. \A q \in rows : q \notin gone =>
            (q.start # full.start \/ q.start = 0) /\ (q.end = 0 \/ q.end < n + 1) /\ q.end \in Nat
      BY <1>10, <2>1 DEF RowType
    <3> QED
      BY <1>2, <1>12, <3>1, <3>2 DEF SpanInv, RowsAreKept
  <2>4. ASSUME NEW b \in Agents
        PROVE  /\ \A i \in StartsOf(b)' : \E r \in rows' : r.start = i
               /\ \A i \in Ends(b)' : \E r \in rows' : r.end = i
    <3>1. \A i \in StartsOf(b) : \E r \in rows' : r.start = i
      <4> TAKE i \in StartsOf(b)
      <4>1. PICK r \in rows : r.start = i
        BY DEF SpanInv, RowsAreKept
      <4>2. i # 0
        BY <1>9
      <4>3. CASE r \in gone
        BY <1>12, <4>1, <4>3
      <4>4. CASE r \notin gone
        BY <1>12, <4>1, <4>4
      <4> QED
        BY <4>3, <4>4
    <3>2. \A i \in Ends(b) : \E r \in rows' : r.end = i
      <4> TAKE i \in Ends(b)
      <4>1. PICK r \in rows : r.end = i
        BY DEF SpanInv, RowsAreKept
      <4>2. r \notin gone
        BY <1>9, <1>12, <4>1
      <4> QED
        BY <1>12, <4>1, <4>2
    <3>3. \E r \in rows' : r.end = n + 1
      BY <1>12
    <3> QED
      BY <1>6, <1>9, <3>1, <3>2, <3>3
  <2> QED
    BY <1>12, <2>1, <2>2, <2>3, <2>4 DEF RowsAreKept
<1>19. ViewFollows'
  BY <1>1, <1>13, <1>14 DEF ViewFollows
<1>20. StatusesAreTrue'
  <2> SUFFICES ASSUME NEW b \in Agents
               PROVE  LET waiting == \E r \in open : r.caller = b
                          runs == \E r \in open : r.agent = b /\ r.current
                      IN  /\ view'.status[b] = "waiting" <=> waiting
                          /\ view'.status[b] = "running" <=> runs /\ ~waiting
    BY <1>1 DEF StatusesAreTrue, Runs
  <2>1. view'.status[b] = IF b = a THEN "done" ELSE view.status[b]
    BY <1>14 DEF Everybody
  <2>2. /\ view.status[b] = "waiting" <=> \E r \in open : r.caller = b
        /\ view.status[b] = "running" <=> (\E r \in open : r.agent = b /\ r.current) /\ ~\E r \in open : r.caller = b
    BY <1>1 DEF SpanInv, StatusesAreTrue, Runs
  <2>3. ~\E r \in open : r.caller = a
    BY <1>1, SpansAssumption DEF SpanInv, RunsAreOne
  <2> QED
    BY <1>1, <2>1, <2>2, <2>3
<1> QED
  BY <1>15, <1>16, <1>17, <1>18, <1>19, <1>20 DEF SpanInv

\* Every step.
LEMMA SpansStay == ~MidRun /\ SpanInv /\ [SpanNext]_spanVars => SpanInv'
<1>1. ASSUME SpanInv, UNCHANGED spanVars PROVE SpanInv'
  <2>1. \A a \in Agents : /\ StartsOf(a)' = StartsOf(a) /\ Ends(a)' = Ends(a) /\ Restored(a)' = Restored(a)
                          /\ Reported(a)' <=> Reported(a)
    BY <1>1, LogStays DEF spanVars, recordVars
  <2>2. UNCHANGED <<live, delegating, open, counter, transcript, events, rows, usage, view>>
    BY <1>1 DEF spanVars, recordVars
  <2>3. RowsAreKept'
    BY <1>1, <2>1, <2>2, RowsStay
  <2>4. SpansTyped' /\ ViewFollows' /\ StatusesAreTrue'
    BY <1>1, <2>2 DEF SpanInv, SpansTyped, ViewFollows, StatusesAreTrue, Runs
  <2>5. RunsAreOne'
    BY <1>1, <2>1, <2>2 DEF SpanInv, SpansTyped, RunType, RunsAreOne
  <2>6. TokensFollowEnds'
    BY <1>1, <2>1, <2>2 DEF SpanInv, TokensFollowEnds
  <2> QED
    BY <2>3, <2>4, <2>5, <2>6 DEF SpanInv
<1> QED
  BY <1>1, StartKeepsSpans, CrashKeepsSpans, ToggleKeepsSpans, MessageKeepsSpans, ToolKeepsSpans,
     DelegateKeepsSpans, SetupKeepsSpans, EndKeepsSpans DEF SpanNext, Everybody

\* The records of the runs.
LEMMA SpansFollow == SpanInv => SpansAreTrue
<1> SUFFICES ASSUME SpanInv PROVE SpansAreTrue
  OBVIOUS
<1>1. RowsAreRuns
  <2> SUFFICES ASSUME NEW r \in rows, r.end # 0
               PROVE  /\ events[r.end].run \in {r.start, 0}
                      /\ r.start # 0 =>
                           /\ r.start < r.end /\ ~\E o \in open : o.start = r.start
                           /\ \A i \in Ends(r.agent) : events[i].run = r.start => i = r.end
    BY DEF RowsAreRuns
  <2>1. /\ r.agent \in Agents /\ r.start < r.end /\ events[r.end].run \in {r.start, 0}
        /\ \A o \in open : o.start # r.start
    BY DEF SpanInv, SpansTyped, RowType, RowsAreKept
  <2>2. ASSUME r.start # 0, NEW i \in Ends(r.agent), events[i].run = r.start PROVE i = r.end
    <3>1. PICK s \in rows : s.end = i
      BY <2>1 DEF SpanInv, RowsAreKept
    <3>2. i # 0
      BY <2>1, LogFacts DEF SpanInv
    <3>3. s.start = r.start
      BY <2>2, <3>1, <3>2 DEF SpanInv, RowsAreKept
    <3> QED
      BY <2>2, <3>1, <3>3 DEF SpanInv, RowsAreKept
  <2> QED
    BY <2>1, <2>2
<1>2. EveryTokenOnce
  BY DEF SpanInv, TokensFollowEnds, EveryTokenOnce
<1>3. RowsAddUpToUsage
  <2>1. ASSUME NEW a \in Agents, NEW i \in Ends(a)
        PROVE  \E r \in rows :
                 /\ r.agent = a /\ r.end = i /\ r.tokens = events[i].delta
                 /\ \A s \in rows : s.end = i => s = r
    <3>1. PICK r \in rows : r.end = i
      BY DEF SpanInv, RowsAreKept
    <3>2. i \in Nat /\ i # 0
      <4>1. i \in 1 .. Len(events) /\ Len(events) \in Nat
        BY LogFacts DEF SpanInv
      <4> QED
        BY <4>1
    <3>3. r.end \in Ends(r.agent) /\ r.tokens = events[i].delta
      BY <3>1, <3>2 DEF SpanInv, RowsAreKept
    <3>4. r.agent = a
      BY <3>1, <3>3 DEF Ends
    <3> QED
      BY <3>1, <3>2, <3>3, <3>4 DEF SpanInv, RowsAreKept
  <2> QED
    BY <2>1 DEF SpanInv, RowsAreKept, RowsAddUpToUsage
<1> QED
  BY <1>1, <1>2, <1>3 DEF SpanInv, SpansAreTrue

\* What telemetry makes of the runs is what happened in them.
THEOREM SpansHold == ~MidRun /\ SpanInit /\ [][SpanNext]_spanVars => []SpansAreTrue
<1>1. ~MidRun /\ SpanInit /\ [][SpanNext]_spanVars => []SpanInv
  <2>1. CASE MidRun
    BY <2>1
  <2>2. CASE ~MidRun
    <3>1. SpanInv /\ [SpanNext]_spanVars => SpanInv'
      BY <2>2, SpansStay
    <3> QED
      BY <3>1, SpansStart, PTL
  <2> QED
    BY <2>1, <2>2
<1> QED
  BY <1>1, SpansFollow, PTL

-----------------------------------------------------------------------------
(* The teams a session ran under *)

ReportType == [by : Writers, model : Models, levels : Levels \cup {Unknown}]
Hashes == {TopologyHash(pair) : pair \in TeamPairs}

\* A row of a node says what the hash says at its place; there is one for a place.
NodeFits(r) ==
  /\ r = [hash |-> r.hash, team |-> r.team, id |-> r.id, parent |-> r.parent, name |-> r.name,
          model |-> r.model, levels |-> r.levels]
  /\ r.hash \in Hashes /\ r.team \in Teams /\ r.id \in DOMAIN r.hash[r.team]
  /\ LET n == r.hash[r.team][r.id] IN r.name = n.name /\ r.model = n.model /\ r.parent = n.up
NodesFit(some) ==
  /\ \A r \in some : NodeFits(r)
  /\ \A q, r \in some : q.hash = r.hash /\ q.team = r.team /\ q.id = r.id => q = r
HasAll(some, h) == \A k \in Teams : \A i \in DOMAIN h[k] : \E r \in some : r.hash = h /\ r.team = k /\ r.id = i

\* A version that is there has all its nodes.
Stored(h, some, table) == h \in Hashes /\ h \in some /\ HasAll(table, h)

\* The levels of a node are those of a report (LevelsWereReported, of any table and reports).
LevelsFrom(table, told) ==
  \A r \in table :
    r.levels # Unknown =>
      \E i \in DOMAIN told :
        /\ told[i].levels = r.levels
        /\ \E q \in NodesOf(table, r.hash) : q.name = r.name /\ q.model = told[i].model

\* A snapshot names a configuration, and levels that were reported for its agents.
IsRow(x) == x = [n |-> x.n, pair |-> x.pair, hash |-> x.hash, active |-> x.active, levels |-> x.levels]
IsSnapshot(x, told) ==
  /\ IsRow(x) /\ x.pair \in TeamPairs /\ x.active \in Teams
  /\ \A name \in DOMAIN x.levels :
       x.levels[name] # Unknown =>
         \E i \in DOMAIN told, j \in DOMAIN x.pair[x.active] :
           /\ x.pair[x.active][j].name = name /\ x.pair[x.active][j].model = told[i].model
           /\ told[i].levels = x.levels[name]

\* What the daemon works on, with the file it is about to read.
HandFits(task, files, told, some, table) ==
  task # Unknown =>
    /\ task = [step |-> task.step, session |-> task.session, snapshot |-> task.snapshot]
    /\ task.step = "read" => task.session \in Writers /\ IsSnapshot(files[task.session], told)
    /\ task.step = "store" => /\ task.session \in Writers /\ IsSnapshot(task.snapshot, told)
                              /\ Stored(TopologyHash(task.snapshot.pair), some, table)

\* A row is an old one with its teams, or refers to a version that is the one of the
\* snapshot it was made of.
RowFits(row, snap, hash, some, table) ==
  /\ hash # Unknown => Stored(hash, some, table)
  /\ row # Unknown =>
       /\ IsRow(row) /\ snap.pair \in TeamPairs
       /\ row.pair # Unknown => row = snap /\ ~(snap.n > 0)
       /\ row.pair = Unknown =>
            /\ row.hash = TopologyHash(snap.pair) /\ hash = row.hash
            /\ Stored(row.hash, some, table)
            /\ snap.n > 0 => snap.active \in Teams /\ row.active = snap.active

\* A session is shown as it ran (TeamsAsRun, of one session).
ShownAs(seen, snap) ==
  seen # Unknown =>
    /\ Shown(seen.pair) = Shown(snap.pair)
    /\ snap.n > 0 => seen.active = snap.active

\* A model has a row for the last of its reports.
ModelsFit(table, done, told) ==
  /\ IsFiniteSet(table)
  /\ \A r \in table :
       /\ r = [model |-> r.model, levels |-> r.levels, last |-> r.last]
       /\ r.last \in done /\ told[r.last].model = r.model /\ told[r.last].levels = r.levels
  /\ \A i \in done : \E r \in table : r.model = told[i].model /\ i <= r.last

\* The types of versions.
VersionsTyped ==
  /\ stateFile = [w \in Writers |-> stateFile[w]] /\ stateRows = [w \in Writers |-> stateRows[w]]
  /\ stamped = [w \in Writers |-> stamped[w]] /\ hot = [w \in Writers |-> hot[w]]
  /\ taken = [w \in Writers |-> taken[w]]
  /\ reports \in Seq(ReportType) /\ ingested \subseteq DOMAIN reports

\* The inductive invariant.
VersionInv ==
  /\ VersionsTyped
  /\ NodesFit(nodeRows)
  /\ \A w \in Writers : stateFile[w] # Unknown => IsSnapshot(stateFile[w], reports)
  /\ HandFits(hand, stateFile, reports, versions, nodeRows)
  /\ ModelsFit(modelRows, ingested, reports)
  /\ \A w \in Writers : RowFits(stateRows[w], taken[w], stamped[w], versions, nodeRows)
  /\ \A w \in Writers : ShownAs(hot[w], taken[w])
  /\ LevelsFrom(nodeRows, reports)

\* The hash of a configuration has its shape, and says of a node what is shown.
LEMMA HashFacts ==
  ASSUME NEW pair \in TeamPairs
  PROVE  LET h == TopologyHash(pair) IN
         /\ h \in Hashes /\ DOMAIN pair = Teams
         /\ \A k \in Teams :
              /\ Len(pair[k]) \in Nat /\ DOMAIN pair[k] = 1 .. Len(pair[k])
              /\ DOMAIN h[k] = 1 .. Len(pair[k])
              /\ \A i \in 1 .. Len(pair[k]) :
                   h[k][i].name = pair[k][i].name /\ h[k][i].model = pair[k][i].model /\ h[k][i].up = pair[k][i].up
<1>1. DOMAIN pair = Teams /\ \A k \in Teams : pair[k] \in Seq(Range(pair[k]))
  BY VersionsAssumption
<1>2. TopologyHash(pair) \in Hashes
  BY DEF Hashes
<1>3. ASSUME NEW k \in Teams
      PROVE  /\ Len(pair[k]) \in Nat /\ DOMAIN pair[k] = 1 .. Len(pair[k])
             /\ DOMAIN TopologyHash(pair)[k] = 1 .. Len(pair[k])
             /\ \A i \in 1 .. Len(pair[k]) :
                  /\ TopologyHash(pair)[k][i].name = pair[k][i].name
                  /\ TopologyHash(pair)[k][i].model = pair[k][i].model
                  /\ TopologyHash(pair)[k][i].up = pair[k][i].up
  <2>1. Len(pair[k]) \in Nat /\ DOMAIN pair[k] = 1 .. Len(pair[k])
    BY <1>1
  <2>2. TopologyHash(pair)[k] = [i \in DOMAIN pair[k] |-> CanonicalNode(pair[k][i])]
    BY DEF TopologyHash
  <2> QED
    BY <2>1, <2>2 DEF CanonicalNode
<1> QED
  BY <1>1, <1>2, <1>3

\* The places of a configuration.
Places(pair) == UNION {{k} \X DOMAIN pair[k] : k \in Teams}
LEMMA PlacesFacts ==
  ASSUME NEW pair \in TeamPairs
  PROVE  /\ IsFiniteSet(Places(pair))
         /\ \A k \in Teams : \A i \in DOMAIN pair[k] : <<k, i>> \in Places(pair)
         /\ \A at \in Places(pair) : at[1] \in Teams /\ at[2] \in DOMAIN pair[at[1]] /\ at = <<at[1], at[2]>>
<1>1. ASSUME NEW k \in Teams PROVE IsFiniteSet({k} \X DOMAIN pair[k])
  <2>1. DOMAIN pair[k] = 1 .. Len(pair[k]) /\ Len(pair[k]) \in Nat
    BY HashFacts
  <2>2. IsFiniteSet(1 .. Len(pair[k]))
    <3> DEFINE n == Len(pair[k])
    <3>1. 1 \in Int /\ n \in Int
      BY <2>1
    <3> HIDE DEF n
    <3>2. IsFiniteSet(1 .. n)
      BY <3>1, FS_Interval
    <3> QED
      BY <3>2 DEF n
  <2>3. IsFiniteSet({k})
    BY FS_Singleton
  <2> QED
    BY <2>1, <2>2, <2>3, FS_Product
<1>2. Places(pair) = ({"hive"} \X DOMAIN pair["hive"]) \cup ({"planning"} \X DOMAIN pair["planning"])
  BY DEF Places, Teams
<1>3. IsFiniteSet(Places(pair))
  <2>1. IsFiniteSet({"hive"} \X DOMAIN pair["hive"]) /\ IsFiniteSet({"planning"} \X DOMAIN pair["planning"])
    BY <1>1 DEF Teams
  <2> DEFINE H == {"hive"} \X DOMAIN pair["hive"]
             P == {"planning"} \X DOMAIN pair["planning"]
  <2>2. Places(pair) = H \cup P /\ IsFiniteSet(H) /\ IsFiniteSet(P)
    BY <1>2, <2>1
  <2> HIDE DEF H, P
  <2> QED
    BY <2>2, FS_Union
<1> QED
  BY <1>2, <1>3 DEF Teams

\* The rows of a configuration: one for a place.
LEMMA NewRows ==
  ASSUME NEW pair \in TeamPairs
  PROVE  LET new == TopologyNodeRows(pair)
             h   == TopologyHash(pair)
         IN  /\ Cardinality(new) = Cardinality(Places(pair))
             /\ \A r \in new : NodeFits(r) /\ r.hash = h /\ r.levels = Unknown /\ <<r.team, r.id>> \in Places(pair)
             /\ \A at \in Places(pair) : \E r \in new : r.team = at[1] /\ r.id = at[2]
             /\ \A q, r \in new : q.team = r.team /\ q.id = r.id => q = r
<1> DEFINE h == TopologyHash(pair)
           row(at) == [hash |-> h, team |-> at[1], id |-> at[2], parent |-> pair[at[1]][at[2]].up,
                       name |-> pair[at[1]][at[2]].name, model |-> pair[at[1]][at[2]].model,
                       levels |-> Unknown]
           new == TopologyNodeRows(pair)
<1>1. new = {row(at) : at \in Places(pair)}
  BY DEF TopologyNodeRows, Places
<1>2. \A at \in Places(pair) : /\ NodeFits(row(at)) /\ row(at).hash = h /\ row(at).levels = Unknown
                               /\ row(at).team = at[1] /\ row(at).id = at[2]
  <2> TAKE at \in Places(pair)
  <2>1. at[1] \in Teams /\ at[2] \in DOMAIN pair[at[1]]
    BY PlacesFacts
  <2>2. /\ h \in Hashes /\ at[2] \in DOMAIN h[at[1]]
        /\ h[at[1]][at[2]].name = pair[at[1]][at[2]].name
        /\ h[at[1]][at[2]].model = pair[at[1]][at[2]].model
        /\ h[at[1]][at[2]].up = pair[at[1]][at[2]].up
    BY <2>1, HashFacts
  <2> HIDE DEF h
  <2> QED
    BY <2>1, <2>2 DEF NodeFits
<1> HIDE DEF row
<1>3. \A r \in new : /\ NodeFits(r) /\ r.hash = h /\ r.levels = Unknown
                     /\ <<r.team, r.id>> \in Places(pair) /\ r = row(<<r.team, r.id>>)
  <2> TAKE r \in new
  <2>1. PICK at \in Places(pair) : r = row(at)
    BY <1>1
  <2>2. at = <<r.team, r.id>>
    BY <1>2, <2>1, PlacesFacts
  <2> QED
    BY <1>2, <2>1, <2>2
<1>4. \A at \in Places(pair) : row(at) \in new
  BY <1>1
<1>5. Cardinality(new) = Cardinality(Places(pair))
  <2> DEFINE f == [at \in Places(pair) |-> row(at)]
  <2>1. f \in [Places(pair) -> new]
    BY <1>4
  <2>2. \A p, q \in Places(pair) : f[p] = f[q] => p = q
    <3> TAKE p, q \in Places(pair)
    <3>1. p = <<row(p).team, row(p).id>> /\ q = <<row(q).team, row(q).id>>
      BY <1>2, PlacesFacts
    <3> QED
      BY <3>1
  <2>3. \A r \in new : \E p \in Places(pair) : f[p] = r
    BY <1>3
  <2> HIDE DEF f, new
  <2>4. f \in Bijection(Places(pair), new)
    BY <2>1, <2>2, <2>3 DEF Bijection, Injection, Surjection, IsInjective
  <2> QED
    BY <2>4, PlacesFacts, FS_Bijection DEF ExistsBijection
<1> HIDE DEF new
<1> QED
  BY <1>2, <1>3, <1>4, <1>5 DEF new

\* The rows of a version in a table, which may lack some.
LEMMA OwnRows ==
  ASSUME NEW R, NodesFit(R), NEW pair \in TeamPairs
  PROVE  LET own == NodesOf(R, TopologyHash(pair)) IN
         /\ \A r \in own : r \in R /\ r.hash = TopologyHash(pair) /\ <<r.team, r.id>> \in Places(pair)
         /\ Cardinality(own) = Cardinality(Places(pair)) => HasAll(R, TopologyHash(pair))
<1> DEFINE h == TopologyHash(pair)
           own == NodesOf(R, h)
<1>1. \A r \in own : /\ r \in R /\ r.hash = h /\ NodeFits(r) /\ r.team \in Teams
                     /\ r.id \in DOMAIN pair[r.team] /\ <<r.team, r.id>> \in Places(pair)
  <2> TAKE r \in own
  <2>1. r \in R /\ r.hash = h /\ NodeFits(r)
    BY DEF NodesOf, NodesFit
  <2>2. r.team \in Teams /\ r.id \in DOMAIN h[r.team]
    BY <2>1 DEF NodeFits
  <2>3. r.id \in DOMAIN pair[r.team]
    BY <2>2, HashFacts
  <2> QED
    BY <2>1, <2>2, <2>3, PlacesFacts
<1> DEFINE g == [r \in own |-> <<r.team, r.id>>]
<1>2. g \in [own -> Places(pair)]
  BY <1>1
<1>3. \A q, r \in own : g[q] = g[r] => q = r
  <2> TAKE q, r \in own
  <2>1. g[q] = <<q.team, q.id>> /\ g[r] = <<r.team, r.id>>
    OBVIOUS
  <2>2. q.hash = r.hash /\ q \in R /\ r \in R
    BY <1>1
  <2> QED
    BY <2>1, <2>2 DEF NodesFit
<1>4. \A r \in own : g[r] = <<r.team, r.id>>
  OBVIOUS
<1> HIDE DEF g, own
<1>5. g \in Injection(own, Places(pair))
  BY <1>2, <1>3 DEF Injection, IsInjective
<1>6. ASSUME Cardinality(own) = Cardinality(Places(pair)) PROVE HasAll(R, h)
  <2>1. g \in Surjection(own, Places(pair))
    BY <1>5, <1>6, PlacesFacts, FS_Injection
  <2> SUFFICES ASSUME NEW k \in Teams, NEW i \in DOMAIN h[k]
               PROVE  \E r \in R : r.hash = h /\ r.team = k /\ r.id = i
    BY DEF HasAll
  <2>2. <<k, i>> \in Places(pair)
    BY HashFacts, PlacesFacts
  <2>3. PICK r \in own : g[r] = <<k, i>>
    BY <2>1, <2>2 DEF Surjection
  <2>4. <<r.team, r.id>> = <<k, i>>
    BY <1>4, <2>3
  <2>5. r.team = k /\ r.id = i
    BY <2>4
  <2> QED
    BY <1>1, <2>5
<1> QED
  BY <1>1, <1>6 DEF own

\* A version is exploded into the rows of its nodes; those that are there stay.
LEMMA ExplodedFits ==
  ASSUME NEW R, NodesFit(R), NEW pair \in TeamPairs
  PROVE  /\ NodesFit(Exploded(R, pair)) /\ R \subseteq Exploded(R, pair)
         /\ HasAll(Exploded(R, pair), TopologyHash(pair))
         /\ \A r \in Exploded(R, pair) : r \in R \/ r.levels = Unknown
<1> DEFINE h == TopologyHash(pair)
           own == NodesOf(R, h)
           new == TopologyNodeRows(pair)
           more == {n \in new : ~\E r \in own : r.team = n.team /\ r.id = n.id}
<1>1. CASE Cardinality(own) = Cardinality(new)
  <2>1. Exploded(R, pair) = R
    BY <1>1 DEF Exploded
  <2>2. HasAll(R, h)
    BY <1>1, NewRows, OwnRows
  <2> QED
    BY <2>1, <2>2
<1>2. CASE Cardinality(own) # Cardinality(new)
  <2>1. Exploded(R, pair) = R \cup more
    BY <1>2 DEF Exploded
  <2>2. \A n \in more : /\ n \in new /\ NodeFits(n) /\ n.hash = h /\ n.levels = Unknown
                        /\ \A r \in R : r.hash = h => r.team # n.team \/ r.id # n.id
    BY NewRows DEF NodesOf
  <2>3. \A q, r \in new : q.team = r.team /\ q.id = r.id => q = r
    BY NewRows
  <2>4. \A at \in Places(pair) : \E r \in R \cup more : r.hash = h /\ r.team = at[1] /\ r.id = at[2]
    <3> TAKE at \in Places(pair)
    <3>1. PICK n \in new : n.team = at[1] /\ n.id = at[2]
      BY NewRows
    <3>2. CASE n \in more
      BY <2>2, <3>1, <3>2
    <3>3. CASE n \notin more
      BY <3>1, <3>3 DEF NodesOf
    <3> QED
      BY <3>2, <3>3
  <2> HIDE DEF more, new
  <2>5. HasAll(R \cup more, h)
    <3> SUFFICES ASSUME NEW k \in Teams, NEW i \in DOMAIN h[k]
                 PROVE  \E r \in R \cup more : r.hash = h /\ r.team = k /\ r.id = i
      BY DEF HasAll
    <3>1. <<k, i>> \in Places(pair)
      BY HashFacts, PlacesFacts
    <3>2. <<k, i>>[1] = k /\ <<k, i>>[2] = i
      OBVIOUS
    <3> QED
      BY <2>4, <3>1, <3>2
  <2>6. NodesFit(R \cup more)
    BY <2>2, <2>3 DEF NodesFit
  <2> QED
    BY <2>1, <2>2, <2>5, <2>6
<1> QED
  BY <1>1, <1>2

\* Filling in levels changes nothing else.
LEMMA FilledFits ==
  ASSUME NEW R, NodesFit(R), NEW h, NEW table
  PROVE  LET F == Filled(R, h, table) IN
         /\ NodesFit(F)
         /\ \A r \in R : \E f \in F : f.hash = r.hash /\ f.team = r.team /\ f.id = r.id
                                      /\ f.name = r.name /\ f.model = r.model
         /\ \A f \in F : \/ f \in R
                         \/ /\ f.hash = h /\ f.name \in DOMAIN table /\ f.levels = table[f.name]
         /\ \A k : HasAll(R, k) => HasAll(F, k)
<1> DEFINE F == Filled(R, h, table)
           fill(r) == IF r.hash = h /\ r.levels = Unknown /\ r.name \in DOMAIN table
                      THEN [r EXCEPT !.levels = table[r.name]] ELSE r
<1>1. F = {fill(r) : r \in R}
  BY DEF Filled
<1>2. ASSUME NEW r \in R
      PROVE  /\ fill(r).hash = r.hash /\ fill(r).team = r.team /\ fill(r).id = r.id
             /\ fill(r).name = r.name /\ fill(r).model = r.model /\ NodeFits(fill(r))
             /\ fill(r) = r \/ (/\ r.hash = h /\ r.name \in DOMAIN table /\ fill(r).levels = table[r.name])
  <2>1. NodeFits(r)
    BY DEF NodesFit
  <2>2. CASE r.hash = h /\ r.levels = Unknown /\ r.name \in DOMAIN table
    <3>1. fill(r) = [hash |-> r.hash, team |-> r.team, id |-> r.id, parent |-> r.parent,
                     name |-> r.name, model |-> r.model, levels |-> table[r.name]]
      BY <2>1, <2>2 DEF NodeFits
    <3> HIDE DEF fill
    <3> QED
      BY <2>1, <2>2, <3>1 DEF NodeFits
  <2>3. CASE ~(r.hash = h /\ r.levels = Unknown /\ r.name \in DOMAIN table)
    <3>1. fill(r) = r
      BY <2>3
    <3> HIDE DEF fill
    <3> QED
      BY <2>1, <3>1
  <2> QED
    BY <2>2, <2>3
<1> HIDE DEF fill, F
<1>3. \A r \in R : fill(r) \in F
  BY <1>1
<1>4. \A f \in F : \E r \in R : f = fill(r)
  BY <1>1
<1>5. NodesFit(F)
  <2>1. ASSUME NEW q \in F, NEW r \in F, q.hash = r.hash, q.team = r.team, q.id = r.id PROVE q = r
    <3>1. PICK p \in R, s \in R : q = fill(p) /\ r = fill(s)
      BY <1>4
    <3>2. p = s
      BY <1>2, <2>1, <3>1 DEF NodesFit
    <3> QED
      BY <3>1, <3>2
  <2> QED
    BY <1>2, <1>4, <2>1 DEF NodesFit
<1>6. \A k : HasAll(R, k) => HasAll(F, k)
  BY <1>2, <1>3 DEF HasAll
<1> QED
  BY <1>2, <1>3, <1>4, <1>5, <1>6 DEF F

\* Levels of a model come from the last of its reports that are ingested.
LEMMA ModelFacts ==
  ASSUME VersionInv, NEW m
  PROVE  LET own == {i \in ingested : reports[i].model = m} IN
         /\ own = {} => ModelRow(m) = Unknown
         /\ own # {} => Max(own) \in own /\ ModelRow(m) = reports[Max(own)].levels
<1> DEFINE own  == {i \in ingested : reports[i].model = m}
           mine == {r \in modelRows : r.model = m}
<1>1. /\ DOMAIN reports = 1 .. Len(reports) /\ Len(reports) \in Nat /\ ingested \subseteq DOMAIN reports
  BY DEF VersionInv, VersionsTyped
<1>2. ModelsFit(modelRows, ingested, reports)
  BY DEF VersionInv
<1>3. \A r \in mine : r.last \in own /\ r.levels = reports[r.last].levels
  BY <1>2 DEF ModelsFit
<1>4. \A i \in own : \E r \in mine : i <= r.last
  BY <1>2 DEF ModelsFit
<1>5. CASE own = {}
  <2>1. mine = {}
    BY <1>3, <1>5
  <2> QED
    BY <1>5, <2>1 DEF ModelRow
<1>6. CASE own # {}
  <2>1. IsFiniteSet(own) /\ \A i \in own : i \in Nat
    <3> DEFINE n == Len(reports)
    <3>1. own \subseteq 1 .. n /\ 1 \in Int /\ n \in Int
      BY <1>1
    <3> HIDE DEF own, n
    <3>2. IsFiniteSet(own)
      BY <3>1, FS_Interval, FS_Subset
    <3>3. \A i \in own : i \in Nat
      BY <3>1
    <3> QED
      BY <3>2, <3>3
  <2> DEFINE x == Max(own)
             r0 == CHOOSE r \in mine : \A other \in mine : other.last <= r.last
  <2> HIDE DEF own
  <2>2. x \in own /\ \A i \in own : i <= x
    BY <1>6, <2>1, Extremes
  <2> HIDE DEF x
  <2>3. PICK r \in mine : x <= r.last
    BY <1>4, <2>2
  <2>4. r.last = x
    <3>1. r.last \in own
      BY <1>3
    <3> QED
      BY <2>1, <2>2, <2>3, <3>1
  <2>5. \A other \in mine : other.last <= r.last
    BY <1>3, <2>2, <2>4
  <2>6. r0 \in mine /\ \A other \in mine : other.last <= r0.last
    BY <2>5
  <2>7. ModelRow(m) = r0.levels
    BY <2>3 DEF ModelRow
  <2> HIDE DEF r0, mine
  <2>8. r0.last = x
    <3>1. r0.last \in own /\ x <= r0.last
      BY <1>3, <2>3, <2>4, <2>6
    <3> QED
      BY <2>1, <2>2, <3>1
  <2>9. r0.levels = reports[x].levels
    BY <1>3, <2>6, <2>8
  <2>10. Max(own) \in own /\ ModelRow(m) = reports[Max(own)].levels
    BY <2>2, <2>7, <2>9 DEF x
  <2> QED
    BY <1>6, <2>10 DEF own
<1> QED
  BY <1>5, <1>6 DEF own

\* Of several nodes there is a first one.
LEMMA FirstNode ==
  ASSUME NEW R, NodesFit(R), NEW h, NEW some, some # {},
         \A r \in some : r \in R /\ r.hash = h
  PROVE  \E r \in some : \A q \in some : q = r \/ Before(r, q)
<1> DEFINE ids(k) == {r.id : r \in {r \in some : r.team = k}}
<1>1. \A r \in some : /\ r.team \in Teams /\ r.id \in DOMAIN h[r.team] /\ h \in Hashes
  BY DEF NodesFit, NodeFits
<1>2. PICK pair \in TeamPairs : h = TopologyHash(pair)
  BY <1>1 DEF Hashes
<1>3. \A k \in Teams : DOMAIN h[k] = 1 .. Len(pair[k]) /\ Len(pair[k]) \in Nat
  BY <1>2, HashFacts
<1>4. ASSUME NEW k \in Teams, NEW r \in some, r.team = k
      PROVE  \E p \in some : p.team = k /\ \A q \in some : q.team = k => p.id <= q.id
  <2>1. ids(k) # {} /\ \A i \in ids(k) : i \in 1 .. Len(pair[k]) /\ i \in Nat
    BY <1>1, <1>3, <1>4
  <2>2. IsFiniteSet(ids(k))
    <3> DEFINE n == Len(pair[k])
    <3>1. 1 \in Int /\ n \in Int /\ ids(k) \subseteq 1 .. n
      BY <1>3, <2>1
    <3> HIDE DEF n, ids
    <3>2. IsFiniteSet(1 .. n)
      BY <3>1, FS_Interval
    <3> QED
      BY <3>1, <3>2, FS_Subset
  <2>3. Min(ids(k)) \in ids(k) /\ \A i \in ids(k) : Min(ids(k)) <= i
    <3> HIDE DEF ids
    <3> QED
      BY <2>1, <2>2, Extremes
  <2> DEFINE x == Min(ids(k))
  <2>4. x \in ids(k) /\ \A i \in ids(k) : x <= i
    BY <2>3
  <2> HIDE DEF x
  <2>5. PICK p \in some : p.team = k /\ p.id = x
    BY <2>4
  <2> QED
    BY <2>4, <2>5
<1>5. ASSUME NEW k \in Teams, NEW p \in some, p.team = k, \A q \in some : q.team = k => p.id <= q.id
      PROVE  \A q \in some : q.team = k => q = p \/ p.id < q.id
  <2> TAKE q \in some
  <2> SUFFICES ASSUME q.team = k, q # p PROVE p.id < q.id
    OBVIOUS
  <2>1. q.id # p.id
    BY <1>5 DEF NodesFit
  <2>2. p.id \in Nat /\ q.id \in Nat
    BY <1>1, <1>3
  <2> QED
    BY <1>5, <2>1, <2>2
<1>6. CASE \E r \in some : r.team = "hive"
  <2>1. PICK p \in some : p.team = "hive" /\ \A q \in some : q.team = "hive" => p.id <= q.id
    BY <1>4, <1>6 DEF Teams
  <2> QED
    BY <1>1, <1>5, <2>1 DEF Teams, Before
<1>7. CASE ~\E r \in some : r.team = "hive"
  <2>1. \A r \in some : r.team = "planning"
    BY <1>1, <1>7 DEF Teams
  <2>2. PICK p \in some : p.team = "planning" /\ \A q \in some : q.team = "planning" => p.id <= q.id
    BY <1>4, <2>1 DEF Teams
  <2> QED
    BY <1>5, <2>1, <2>2 DEF Teams, Before
<1> QED
  BY <1>6, <1>7

\* Filling in the levels keeps every row, and the levels are those of reports.
LEMMA WithLevelsFits ==
  ASSUME VersionInv, NEW x, IsSnapshot(x, reports),
         Stored(TopologyHash(x.pair), versions, nodeRows)
  PROVE  LET W == WithLevels(nodeRows, TopologyHash(x.pair), x) IN
         /\ NodesFit(W) /\ \A k : HasAll(nodeRows, k) => HasAll(W, k)
         /\ LevelsFrom(W, reports)
<1> DEFINE h == TopologyHash(x.pair)
           known == {name \in DOMAIN x.levels : x.levels[name] # Unknown}
           reported == [name \in known |-> x.levels[name]]
           probed == Filled(nodeRows, h, reported)
           lacking == {r \in NodesOf(probed, h) : r.levels = Unknown /\ ModelRow(r.model) # Unknown}
           first(name) == CHOOSE r \in lacking :
             r.name = name /\ \A q \in lacking : q.name = name => q = r \/ Before(r, q)
           names == {r.name : r \in lacking}
           listed == [name \in names |-> ModelRow(first(name).model)]
           W == Filled(probed, h, listed)
           Same(p, q) == p.hash = q.hash /\ p.team = q.team /\ p.id = q.id /\ p.name = q.name /\ p.model = q.model
<1>1. WithLevels(nodeRows, h, x) = W
  BY DEF WithLevels
<1>2. NodesFit(nodeRows) /\ LevelsFrom(nodeRows, reports)
  BY DEF VersionInv
<1>3. /\ NodesFit(probed) /\ \A r \in nodeRows : \E f \in probed : Same(f, r)
      /\ \A f \in probed : f \in nodeRows \/ (f.hash = h /\ f.name \in known /\ f.levels = x.levels[f.name])
      /\ \A k : HasAll(nodeRows, k) => HasAll(probed, k)
  <2> DEFINE t == reported
  <2>1. DOMAIN t = known /\ \A name \in known : t[name] = x.levels[name]
    OBVIOUS
  <2> HIDE DEF t, known, h
  <2>2. LET F == Filled(nodeRows, h, t) IN
        /\ NodesFit(F) /\ \A r \in nodeRows : \E f \in F : Same(f, r)
        /\ \A f \in F : f \in nodeRows \/ (f.hash = h /\ f.name \in DOMAIN t /\ f.levels = t[f.name])
        /\ \A k : HasAll(nodeRows, k) => HasAll(F, k)
    BY <1>2, FilledFits
  <2>3. Filled(nodeRows, h, t) = probed
    BY DEF t
  <2> HIDE DEF probed
  <2> QED
    BY <2>1, <2>2, <2>3
<1> HIDE DEF probed
<1>4. \A name \in names : /\ first(name) \in lacking /\ first(name).name = name
  <2> TAKE name \in names
  <2> DEFINE some == {r \in lacking : r.name = name}
  <2>1. some # {} /\ \A r \in some : r \in probed /\ r.hash = h
    BY DEF NodesOf
  <2> HIDE DEF some, h
  <2>2. \E r \in some : \A q \in some : q = r \/ Before(r, q)
    BY <1>3, <2>1, FirstNode
  <2> HIDE DEF lacking
  <2>3. \E r \in lacking : r.name = name /\ \A q \in lacking : q.name = name => q = r \/ Before(r, q)
    BY <2>2 DEF some
  <2> QED
    BY <2>3
<1> HIDE DEF first
<1>5. /\ NodesFit(W) /\ \A r \in probed : \E f \in W : Same(f, r)
      /\ \A f \in W : f \in probed \/ (/\ f.hash = h /\ f.name \in names
                                       /\ f.levels = ModelRow(first(f.name).model))
      /\ \A k : HasAll(probed, k) => HasAll(W, k)
  <2> DEFINE t == listed
  <2>1. DOMAIN t = names /\ \A name \in names : t[name] = ModelRow(first(name).model)
    OBVIOUS
  <2> HIDE DEF t, names, h
  <2>2. LET F == Filled(probed, h, t) IN
        /\ NodesFit(F) /\ \A r \in probed : \E f \in F : Same(f, r)
        /\ \A f \in F : f \in probed \/ (f.hash = h /\ f.name \in DOMAIN t /\ f.levels = t[f.name])
        /\ \A k : HasAll(probed, k) => HasAll(F, k)
    BY <1>3, FilledFits
  <2>3. Filled(probed, h, t) = W
    BY DEF t
  <2> HIDE DEF W
  <2> QED
    BY <2>1, <2>2, <2>3
<1>6. \A r \in nodeRows : \E f \in W : Same(f, r)
  <2> TAKE r \in nodeRows
  <2>1. PICK p \in probed : Same(p, r)
    BY <1>3
  <2>2. PICK f \in W : Same(f, p)
    BY <1>5
  <2> HIDE DEF W, h
  <2> QED
    BY <2>1, <2>2
<1> HIDE DEF W, names, known
<1>7. ASSUME NEW f \in W, f.levels # Unknown
      PROVE  \E i \in DOMAIN reports :
               /\ reports[i].levels = f.levels
               /\ \E q \in NodesOf(W, f.hash) : q.name = f.name /\ q.model = reports[i].model
  <2>1. CASE f \in nodeRows
    <3>1. PICK i \in DOMAIN reports :
            /\ reports[i].levels = f.levels
            /\ \E q \in NodesOf(nodeRows, f.hash) : q.name = f.name /\ q.model = reports[i].model
      BY <1>2, <1>7, <2>1 DEF LevelsFrom
    <3>2. PICK q \in nodeRows : q.hash = f.hash /\ q.name = f.name /\ q.model = reports[i].model
      BY <3>1 DEF NodesOf
    <3>3. PICK p \in W : Same(p, q)
      BY <1>6
    <3>4. p \in NodesOf(W, f.hash) /\ p.name = f.name /\ p.model = reports[i].model
      BY <3>2, <3>3 DEF NodesOf
    <3> QED
      BY <3>1, <3>4
  <2>2. CASE f.hash = h /\ f.name \in known /\ f.levels = x.levels[f.name]
    <3>1. f.name \in DOMAIN x.levels /\ x.levels[f.name] # Unknown
      BY <2>2 DEF known
    <3>2. PICK i \in DOMAIN reports, j \in DOMAIN x.pair[x.active] :
            /\ x.pair[x.active][j].name = f.name /\ x.pair[x.active][j].model = reports[i].model
            /\ reports[i].levels = x.levels[f.name]
      BY <3>1 DEF IsSnapshot
    <3>3. x.pair \in TeamPairs /\ x.active \in Teams
      BY DEF IsSnapshot
    <3> DEFINE k == x.active
    <3>4. /\ j \in DOMAIN h[k]
          /\ h[k][j].name = x.pair[k][j].name /\ h[k][j].model = x.pair[k][j].model
      BY <3>2, <3>3, HashFacts
    <3>5. PICK r \in nodeRows : r.hash = h /\ r.team = k /\ r.id = j
      <4> HIDE DEF h
      <4>1. HasAll(nodeRows, h)
        BY DEF Stored, h
      <4> QED
        BY <3>3, <3>4, <4>1 DEF HasAll
    <3> HIDE DEF h
    <3>6. r.name = h[k][j].name /\ r.model = h[k][j].model
      BY <1>2, <3>5 DEF NodesFit, NodeFits
    <3>7. PICK p \in W : Same(p, r)
      BY <1>6
    <3>8. p \in NodesOf(W, f.hash) /\ p.name = f.name /\ p.model = reports[i].model
      BY <2>2, <3>2, <3>4, <3>5, <3>6, <3>7 DEF NodesOf
    <3>9. reports[i].levels = f.levels
      BY <2>2, <3>2
    <3> QED
      BY <3>8, <3>9
  <2>3. CASE f.hash = h /\ f.name \in names /\ f.levels = ModelRow(first(f.name).model)
    <3> DEFINE r == first(f.name)
    <3>1. /\ r \in probed /\ r.hash = h /\ r.name = f.name /\ ModelRow(r.model) # Unknown
      BY <1>4, <2>3 DEF NodesOf
    <3>2. f.levels = ModelRow(r.model)
      BY <2>3
    <3> HIDE DEF r, h, lacking
    <3>3. PICK p \in W : Same(p, r)
      BY <1>5, <3>1
    <3> DEFINE own == {i \in ingested : reports[i].model = r.model}
               i == Max(own)
    <3>4. i \in own /\ ModelRow(r.model) = reports[i].levels
      BY <3>1, ModelFacts
    <3>5. i \in ingested /\ reports[i].model = r.model
      BY <3>4
    <3> HIDE DEF i, own
    <3>6. i \in DOMAIN reports
      BY <3>5 DEF VersionInv, VersionsTyped
    <3>7. p \in NodesOf(W, f.hash) /\ p.name = f.name /\ p.model = reports[i].model
      BY <2>3, <3>1, <3>3, <3>5 DEF NodesOf
    <3>8. reports[i].levels = f.levels
      BY <3>2, <3>4
    <3> QED
      BY <3>6, <3>7, <3>8
  <2> QED
    BY <1>3, <1>5, <2>1, <2>2, <2>3
<1>8. LevelsFrom(W, reports)
  BY <1>7 DEF LevelsFrom
<1>9. \A k : HasAll(nodeRows, k) => HasAll(W, k)
  BY <1>3, <1>5
<1> QED
  BY <1>1, <1>5, <1>8, <1>9

\* The first so many numbers, in their order.
LEMMA FirstNumbers ==
  ASSUME NEW n \in Nat
  PROVE  /\ IsFiniteSet(1 .. n) /\ Cardinality(1 .. n) = n
         /\ \A i \in 1 .. n : Nth(1 .. n, i) = i
<1>1. ASSUME NEW m \in Nat PROVE IsFiniteSet(1 .. m) /\ Cardinality(1 .. m) = m
  <2>1. 1 \in Int /\ m \in Int
    OBVIOUS
  <2>2. /\ IsFiniteSet(1 .. m)
        /\ Cardinality(1 .. m) = IF 1 > m THEN 0 ELSE m - 1 + 1
    BY <2>1, FS_Interval
  <2> QED
    BY <2>2
<1>2. ASSUME NEW i \in 1 .. n PROVE Cardinality({j \in 1 .. n : j < i}) = i - 1
  <2>1. {j \in 1 .. n : j < i} = 1 .. i - 1 /\ i - 1 \in Nat
    OBVIOUS
  <2> DEFINE m == i - 1
  <2> HIDE DEF m
  <2>2. Cardinality(1 .. m) = m
    BY <1>1, <2>1 DEF m
  <2> QED
    BY <2>1, <2>2 DEF m
<1>3. ASSUME NEW i \in 1 .. n PROVE Nth(1 .. n, i) = i
  <2> DEFINE Less(j) == {l \in 1 .. n : l < j}
  <2>1. \A j \in 1 .. n : Cardinality(Less(j)) = j - 1
    BY <1>2
  <2>2. Nth(1 .. n, i) = CHOOSE j \in 1 .. n : Cardinality(Less(j)) = i - 1
    BY DEF Nth
  <2> HIDE DEF Less
  <2>3. \A j \in 1 .. n : Cardinality(Less(j)) = i - 1 => j = i
    BY <2>1
  <2> QED
    BY <2>1, <2>2, <2>3
<1> QED
  BY <1>1, <1>3

\* From the rows of its nodes a team comes back.
LEMMA TeamComesBack ==
  ASSUME NEW R, NodesFit(R), NEW pair \in TeamPairs, HasAll(R, TopologyHash(pair)), NEW k \in Teams
  PROVE  LET B == BuildTeam(NodesOf(R, TopologyHash(pair)), k) IN
         /\ DOMAIN B = DOMAIN pair[k]
         /\ \A i \in DOMAIN B : /\ B[i].name = pair[k][i].name /\ B[i].model = pair[k][i].model
                                /\ B[i].up = pair[k][i].up
<1> DEFINE h   == TopologyHash(pair)
           own == {r \in NodesOf(R, h) : r.team = k}
           n   == Len(pair[k])
<1>1. /\ n \in Nat /\ DOMAIN pair[k] = 1 .. n /\ DOMAIN h[k] = 1 .. n
      /\ \A i \in 1 .. n : h[k][i].name = pair[k][i].name /\ h[k][i].model = pair[k][i].model
                           /\ h[k][i].up = pair[k][i].up
  BY HashFacts
<1> HIDE DEF n, h
<1>2. \A r \in own : /\ r.id \in 1 .. n /\ r.name = h[k][r.id].name /\ r.model = h[k][r.id].model
                     /\ r.parent = h[k][r.id].up
  BY <1>1 DEF NodesOf, NodesFit, NodeFits
<1>3. \A q, r \in own : q.id = r.id => q = r
  BY DEF NodesOf, NodesFit
<1>4. \A i \in 1 .. n : \E r \in own : r.id = i
  <2> TAKE i \in 1 .. n
  <2>1. HasAll(R, h)
    BY DEF h
  <2>2. PICK r \in R : r.hash = h /\ r.team = k /\ r.id = i
    BY <1>1, <2>1 DEF HasAll
  <2> QED
    BY <2>2 DEF NodesOf
<1> DEFINE ids == {q.id : q \in own}
<1>5. ids = 1 .. n
  BY <1>2, <1>4
<1>6. Cardinality(own) = n
  <2> DEFINE e(i) == CHOOSE r \in own : r.id = i
             g == [i \in 1 .. n |-> e(i)]
  <2> HIDE DEF own
  <2>1. \A i \in 1 .. n : e(i) \in own /\ e(i).id = i
    BY <1>4
  <2> HIDE DEF e
  <2>2. g \in [1 .. n -> own]
    BY <2>1
  <2>3. \A i, j \in 1 .. n : g[i] = g[j] => i = j
    BY <2>1
  <2>4. \A r \in own : \E i \in 1 .. n : g[i] = r
    <3> TAKE r \in own
    <3>1. r.id \in 1 .. n
      BY <1>2
    <3>2. e(r.id) = r
      BY <1>3, <2>1, <3>1
    <3> QED
      BY <3>1, <3>2
  <2> DEFINE N == 1 .. n
  <2>5. IsFiniteSet(N) /\ Cardinality(N) = n
    BY <1>1, FirstNumbers
  <2>6. g \in Bijection(N, own)
    <3> HIDE DEF g
    <3> QED
      BY <2>2, <2>3, <2>4 DEF Bijection, Injection, Surjection, IsInjective
  <2> HIDE DEF N, g
  <2> QED
    BY <2>5, <2>6, FS_Bijection DEF ExistsBijection
<1> DEFINE c(i) == CHOOSE r \in own : r.id = Nth(ids, i)
<1>7. \A i \in 1 .. n : c(i) \in own /\ c(i).id = i
  <2> TAKE i \in 1 .. n
  <2>1. Nth(ids, i) = i
    BY <1>1, <1>5, FirstNumbers
  <2> HIDE DEF own, ids
  <2> QED
    BY <1>4, <2>1
<1>8. BuildTeam(NodesOf(R, h), k) =
        [i \in 1 .. n |-> [name |-> c(i).name, slug |-> Unknown, role |-> Unknown,
                           model |-> c(i).model, up |-> c(i).parent]]
  <2>1. BuildTeam(NodesOf(R, h), k) =
          [i \in 1 .. Cardinality(own) |->
             [name |-> c(i).name, slug |-> Unknown, role |-> Unknown, model |-> c(i).model,
              up |-> c(i).parent]]
    BY DEF BuildTeam
  <2> HIDE DEF own, c
  <2> QED
    BY <1>6, <2>1
<1> HIDE DEF c, own
<1>9. \A i \in 1 .. n : /\ c(i).name = pair[k][i].name /\ c(i).model = pair[k][i].model
                        /\ c(i).parent = pair[k][i].up
  BY <1>1, <1>2, <1>7
<1>10. LET B == BuildTeam(NodesOf(R, h), k) IN
       /\ DOMAIN B = DOMAIN pair[k]
       /\ \A i \in DOMAIN B : /\ B[i].name = pair[k][i].name /\ B[i].model = pair[k][i].model
                              /\ B[i].up = pair[k][i].up
  BY <1>1, <1>8, <1>9
<1> QED
  BY <1>10 DEF h

\* What a row shows of its teams is what the snapshot showed.
LEMMA RowIsShown ==
  ASSUME NEW R, NodesFit(R), NEW row, IsRow(row), NEW pair \in TeamPairs,
         row.hash = TopologyHash(pair), HasAll(R, row.hash)
  PROVE  /\ Shown(Rehydrated(R, row).pair) = Shown(pair)
         /\ row.active # Unknown => Rehydrated(R, row).active = row.active
<1> DEFINE h == TopologyHash(pair)
           B(k) == BuildTeam(NodesOf(R, h), k)
           back == [k \in Teams |-> B(k)]
           guess == IF row.active # Unknown THEN row.active
                    ELSE IF back["hive"] # <<>> THEN "hive" ELSE "planning"
<1>1. Rehydrated(R, row) = [row EXCEPT !.pair = back, !.active = guess]
  BY DEF Rehydrated
<1>2. row = [n |-> row.n, pair |-> row.pair, hash |-> row.hash, active |-> row.active,
             levels |-> row.levels]
  BY DEF IsRow
<1>3. row.active # Unknown => guess = row.active
  OBVIOUS
<1> HIDE DEF guess
<1>4. /\ \A k \in Teams : back[k] = B(k)
      /\ Rehydrated(R, row).pair = back /\ Rehydrated(R, row).active = guess
  <2>1. \A k \in Teams : back[k] = B(k)
    OBVIOUS
  <2> HIDE DEF back
  <2> QED
    BY <1>1, <1>2, <2>1
<1> HIDE DEF back
<1>5. ASSUME NEW k \in Teams
      PROVE  /\ DOMAIN B(k) = DOMAIN pair[k]
             /\ \A i \in DOMAIN pair[k] : /\ B(k)[i].name = pair[k][i].name
                                          /\ B(k)[i].model = pair[k][i].model
                                          /\ B(k)[i].up = pair[k][i].up
  BY TeamComesBack
<1> HIDE DEF B
<1>6. ASSUME NEW k \in Teams
      PROVE  [i \in DOMAIN back[k] |->
                [name |-> back[k][i].name, model |-> back[k][i].model, up |-> back[k][i].up]]
             = [i \in DOMAIN pair[k] |->
                [name |-> pair[k][i].name, model |-> pair[k][i].model, up |-> pair[k][i].up]]
  <2>1. back[k] = B(k)
    BY <1>4
  <2> QED
    BY <1>5, <2>1
<1>7. Shown(back) = Shown(pair)
  BY <1>6 DEF Shown
<1> QED
  BY <1>3, <1>4, <1>7

\* A table that grows loses no version.
LEMMA RowStays ==
  ASSUME NEW row, NEW snap, NEW hash, NEW V1, NEW V2, NEW R1, NEW R2,
         V1 \subseteq V2, \A k : HasAll(R1, k) => HasAll(R2, k),
         RowFits(row, snap, hash, V1, R1)
  PROVE  RowFits(row, snap, hash, V2, R2)
<1>1. \A k : Stored(k, V1, R1) => Stored(k, V2, R2)
  BY DEF Stored
<1> QED
  BY <1>1 DEF RowFits

\* More reports, and what follows from fewer.
LEMMA ReportsGrow ==
  ASSUME NEW told \in Seq(ReportType), NEW r \in ReportType
  PROVE  LET more == Append(told, r) IN
         /\ more \in Seq(ReportType) /\ DOMAIN told \subseteq DOMAIN more
         /\ \A i \in DOMAIN told : more[i] = told[i]
         /\ \A x : IsSnapshot(x, told) => IsSnapshot(x, more)
         /\ \A table : LevelsFrom(table, told) => LevelsFrom(table, more)
         /\ \A table, done : done \subseteq DOMAIN told /\ ModelsFit(table, done, told) => ModelsFit(table, done, more)
<1> DEFINE more == Append(told, r)
<1>1. /\ more \in Seq(ReportType) /\ DOMAIN told \subseteq DOMAIN more
      /\ \A i \in DOMAIN told : more[i] = told[i]
  OBVIOUS
<1> HIDE DEF more
<1>2. \A x : IsSnapshot(x, told) => IsSnapshot(x, more)
  <2> SUFFICES ASSUME NEW x, IsSnapshot(x, told) PROVE IsSnapshot(x, more)
    OBVIOUS
  <2>1. ASSUME NEW name \in DOMAIN x.levels, x.levels[name] # Unknown
        PROVE  \E i \in DOMAIN more, j \in DOMAIN x.pair[x.active] :
                 /\ x.pair[x.active][j].name = name /\ x.pair[x.active][j].model = more[i].model
                 /\ more[i].levels = x.levels[name]
    <3>1. PICK i \in DOMAIN told, j \in DOMAIN x.pair[x.active] :
            /\ x.pair[x.active][j].name = name /\ x.pair[x.active][j].model = told[i].model
            /\ told[i].levels = x.levels[name]
      BY <2>1 DEF IsSnapshot
    <3>2. i \in DOMAIN more /\ more[i] = told[i]
      BY <1>1
    <3> QED
      BY <3>1, <3>2
  <2> QED
    BY <2>1 DEF IsSnapshot
<1>3. \A table : LevelsFrom(table, told) => LevelsFrom(table, more)
  <2> SUFFICES ASSUME NEW table, LevelsFrom(table, told), NEW f \in table, f.levels # Unknown
               PROVE  \E i \in DOMAIN more :
                        /\ more[i].levels = f.levels
                        /\ \E q \in NodesOf(table, f.hash) : q.name = f.name /\ q.model = more[i].model
    BY DEF LevelsFrom
  <2>1. PICK i \in DOMAIN told :
          /\ told[i].levels = f.levels
          /\ \E q \in NodesOf(table, f.hash) : q.name = f.name /\ q.model = told[i].model
    BY DEF LevelsFrom
  <2>2. i \in DOMAIN more /\ more[i] = told[i]
    BY <1>1
  <2> QED
    BY <2>1, <2>2
<1>4. \A table, done : done \subseteq DOMAIN told /\ ModelsFit(table, done, told) => ModelsFit(table, done, more)
  BY <1>1 DEF ModelsFit
<1> QED
  BY <1>1, <1>2, <1>3, <1>4 DEF more

\* A daemon finds an empty database, or that of an earlier release.
LEMMA VersionsStart == VersionInit => VersionInv
<1> SUFFICES ASSUME VersionInit PROVE VersionInv
  OBVIOUS
<1>1. VersionsTyped
  <2>1. stateRows = [w \in Writers |-> stateRows[w]]
    BY DEF VersionInit
  <2>2. taken = [w \in Writers |-> taken[w]]
    BY <2>1 DEF VersionInit
  <2> QED
    BY <2>1, <2>2 DEF VersionInit, VersionsTyped
<1>2. /\ \A w \in Writers : stateFile[w] # Unknown => IsSnapshot(stateFile[w], reports)
      /\ \A w \in Writers : ShownAs(hot[w], taken[w])
      /\ HandFits(hand, stateFile, reports, versions, nodeRows)
  BY DEF VersionInit, ShownAs, HandFits
<1>3. ModelsFit(modelRows, ingested, reports)
  <2>1. modelRows = {} /\ ingested = {}
    BY DEF VersionInit
  <2> QED
    BY <2>1, FS_EmptySet DEF ModelsFit
<1>4. CASE nodeRows = {} /\ stateRows = [w \in Writers |-> Unknown]
  <2>1. NodesFit(nodeRows) /\ LevelsFrom(nodeRows, reports)
    BY <1>4 DEF NodesFit, LevelsFrom
  <2>2. \A w \in Writers : RowFits(stateRows[w], taken[w], stamped[w], versions, nodeRows)
    BY <1>4 DEF VersionInit, RowFits
  <2> QED
    BY <1>1, <1>2, <1>3, <2>1, <2>2 DEF VersionInv
<1>5. ASSUME NEW w \in Writers, NEW pair \in TeamPairs,
             nodeRows = {r \in TopologyNodeRows(pair) : r.id = 1},
             stateRows = [v \in Writers |-> IF v = w THEN OldRow(pair) ELSE Unknown]
      PROVE  VersionInv
  <2>1. NodesFit(nodeRows) /\ \A r \in nodeRows : r.levels = Unknown
    <3>1. /\ \A r \in TopologyNodeRows(pair) :
               NodeFits(r) /\ r.hash = TopologyHash(pair) /\ r.levels = Unknown
          /\ \A q, r \in TopologyNodeRows(pair) : q.team = r.team /\ q.id = r.id => q = r
      BY NewRows
    <3> DEFINE new == TopologyNodeRows(pair)
    <3> HIDE DEF new
    <3> QED
      BY <1>5, <3>1 DEF NodesFit, new
  <2>2. LevelsFrom(nodeRows, reports)
    BY <2>1 DEF LevelsFrom
  <2>3. IsRow(OldRow(pair)) /\ OldRow(pair).n = 0 /\ OldRow(pair).pair = pair
    BY DEF IsRow, OldRow
  <2>4. \A v \in Writers : RowFits(stateRows[v], taken[v], stamped[v], versions, nodeRows)
    <3> TAKE v \in Writers
    <3>1. stamped[v] = Unknown /\ taken[v] = stateRows[v]
      BY DEF VersionInit
    <3>2. stateRows[v] = OldRow(pair) \/ stateRows[v] = Unknown
      BY <1>5
    <3>3. pair # Unknown
      BY VersionsAssumption
    <3> QED
      BY <2>3, <3>1, <3>2, <3>3 DEF RowFits
  <2> QED
    BY <1>1, <1>2, <1>3, <2>1, <2>2, <2>4 DEF VersionInv
<1> QED
  BY <1>4, <1>5 DEF VersionInit

\* What an agent is said to run with was reported.
LEMMA WriteSnapshotKeepsVersions ==
  ASSUME VersionInv, NEW w \in Writers, NEW pair \in TeamPairs, NEW k \in Teams, NEW ran \in BOOLEAN,
         WriteSnapshot(w, pair, k, ran)
  PROVE  VersionInv'
<1> DEFINE x == [n |-> stamp + 1, pair |-> pair, hash |-> Unknown, active |-> k,
                 levels |-> AgentLevels(pair[k], ran)]
<1>1. /\ stateFile' = [stateFile EXCEPT ![w] = x]
      /\ UNCHANGED <<reports, ingested, hand, versions, nodeRows, modelRows, stateRows, stamped, hot, taken>>
  BY DEF WriteSnapshot
<1>2. stateFile = [v \in Writers |-> stateFile[v]] /\ reports \in Seq(ReportType)
  BY DEF VersionInv, VersionsTyped
<1>3. IsSnapshot(x, reports)
  <2>1. ASSUME NEW name \in DOMAIN AgentLevels(pair[k], ran), AgentLevels(pair[k], ran)[name] # Unknown
        PROVE  \E i \in DOMAIN reports, j \in DOMAIN pair[k] :
                 /\ pair[k][j].name = name /\ pair[k][j].model = reports[i].model
                 /\ reports[i].levels = AgentLevels(pair[k], ran)[name]
    <3> DEFINE j == CHOOSE i \in DOMAIN pair[k] : pair[k][i].name = name
               m == pair[k][j].model
    <3>1. name \in {pair[k][i].name : i \in DOMAIN pair[k]}
      BY <2>1 DEF AgentLevels
    <3>2. AgentLevels(pair[k], ran)[name] = IF ran THEN Probe(m) ELSE Unknown
      BY <3>1 DEF AgentLevels
    <3>3. j \in DOMAIN pair[k] /\ pair[k][j].name = name
      BY <3>1
    <3>4. Probe(m) # Unknown /\ AgentLevels(pair[k], ran)[name] = Probe(m)
      BY <2>1, <3>2
    <3> HIDE DEF j, m
    <3> DEFINE own == {i \in DOMAIN reports : reports[i].model = m}
    <3>5. own # {} /\ Probe(m) = reports[Max(own)].levels
      BY <3>4 DEF Probe
    <3>6. Max(own) \in own
      <4> DEFINE n == Len(reports)
      <4>1. own \subseteq 1 .. n /\ 1 \in Int /\ n \in Int
        BY <1>2
      <4> HIDE DEF own, n
      <4>2. IsFiniteSet(own) /\ \A i \in own : i \in Nat
        <5>1. IsFiniteSet(own)
          BY <4>1, FS_Interval, FS_Subset
        <5>2. \A i \in own : i \in Nat
          BY <4>1
        <5> QED
          BY <5>1, <5>2
      <4> QED
        BY <3>5, <4>2, Extremes
    <3> DEFINE i == Max(own)
    <3>7. i \in DOMAIN reports /\ reports[i].model = m /\ Probe(m) = reports[i].levels
      BY <3>5, <3>6
    <3> HIDE DEF i, own
    <3> QED
      BY <3>3, <3>4, <3>7 DEF m
  <2> DEFINE lv == AgentLevels(pair[k], ran)
  <2>2. x = [n |-> stamp + 1, pair |-> pair, hash |-> Unknown, active |-> k, levels |-> lv]
    OBVIOUS
  <2> HIDE DEF lv, x
  <2>3. IsRow(x) /\ x.pair = pair /\ x.active = k /\ x.levels = lv
    BY <2>2 DEF IsRow
  <2> QED
    BY <2>1, <2>3 DEF IsSnapshot, lv
<1> HIDE DEF x
<1>5. /\ stateFile' = [v \in Writers |-> stateFile'[v]]
      /\ \A v \in Writers : stateFile'[v] = IF v = w THEN x ELSE stateFile[v]
  BY <1>1, <1>2
<1>6. VersionsTyped'
  BY <1>1, <1>5 DEF VersionInv, VersionsTyped
<1>7. \A v \in Writers : stateFile'[v] # Unknown => IsSnapshot(stateFile'[v], reports)
  BY <1>3, <1>5 DEF VersionInv
<1>8. HandFits(hand, stateFile', reports, versions, nodeRows)
  BY <1>3, <1>5 DEF VersionInv, HandFits
<1> QED
  BY <1>1, <1>6, <1>7, <1>8 DEF VersionInv

\* A row without its teams refers to them.
LEMMA SlimRow ==
  ASSUME NEW x, IsRow(x)
  PROVE  Slim(x) = [n |-> x.n, pair |-> Unknown, hash |-> TopologyHash(x.pair), active |-> x.active,
                    levels |-> x.levels]
<1> DEFINE h == TopologyHash(x.pair)
           y == Slim(x)
<1>1. y = [x EXCEPT !.pair = Unknown, !.hash = h]
  BY DEF Slim
<1>2. ASSUME NEW n, NEW p, NEW c, NEW a, NEW l, NEW v, NEW t, NEW from, NEW to,
             from = [n |-> n, pair |-> p, hash |-> c, active |-> a, levels |-> l],
             to = [from EXCEPT !.pair = v, !.hash = t]
      PROVE  to = [n |-> n, pair |-> v, hash |-> t, active |-> a, levels |-> l]
  BY <1>2
<1> HIDE DEF h, y
<1>3. y = [n |-> x.n, pair |-> Unknown, hash |-> h, active |-> x.active, levels |-> x.levels]
  BY <1>1, <1>2 DEF IsRow
<1> QED
  BY <1>3 DEF h, y

\* A report changes nothing that was reported before.
LEMMA ReportKeepsVersions ==
  ASSUME VersionInv, NEW w \in Writers, NEW m \in Models, NEW levels \in Levels \cup {Unknown},
         ReportModel(w, m, levels)
  PROVE  VersionInv'
<1> DEFINE r == [by |-> w, model |-> m, levels |-> levels]
<1>1. /\ reports' = Append(reports, r)
      /\ UNCHANGED <<stateFile, ingested, hand, versions, nodeRows, modelRows, stateRows, stamped, hot, taken>>
  BY DEF ReportModel
<1>2. r \in ReportType
  BY DEF ReportType
<1> HIDE DEF r
<1>3. reports \in Seq(ReportType) /\ ingested \subseteq DOMAIN reports
  BY DEF VersionInv, VersionsTyped
<1>4. /\ reports' \in Seq(ReportType) /\ DOMAIN reports \subseteq DOMAIN reports'
      /\ \A x : IsSnapshot(x, reports) => IsSnapshot(x, reports')
      /\ \A table : LevelsFrom(table, reports) => LevelsFrom(table, reports')
      /\ \A table, done : done \subseteq DOMAIN reports /\ ModelsFit(table, done, reports) =>
           ModelsFit(table, done, reports')
  BY <1>1, <1>2, <1>3, ReportsGrow
<1>5. VersionsTyped'
  BY <1>1, <1>3, <1>4 DEF VersionInv, VersionsTyped
<1>6. HandFits(hand, stateFile, reports', versions, nodeRows)
  BY <1>4 DEF VersionInv, HandFits
<1>7. /\ \A v \in Writers : stateFile[v] # Unknown => IsSnapshot(stateFile[v], reports')
      /\ ModelsFit(modelRows, ingested, reports') /\ LevelsFrom(nodeRows, reports')
  BY <1>3, <1>4 DEF VersionInv
<1> QED
  BY <1>1, <1>5, <1>6, <1>7 DEF VersionInv

\* The row of a model keeps the last of its reports, in whatever order they come.
LEMMA IngestKeepsVersions ==
  ASSUME VersionInv, NEW i \in DOMAIN reports, IngestReport(i)
  PROVE  VersionInv'
<1> DEFINE m == reports[i].model
           lv == reports[i].levels
           same == {r \in modelRows : r.model = m /\ r.levels = lv}
           times == {i} \cup {r.last : r \in same}
           top == Max(times)
           new == [model |-> m, levels |-> lv, last |-> top]
<1>1. /\ modelRows' = (modelRows \ same) \cup {new} /\ ingested' = ingested \cup {i}
      /\ UNCHANGED <<stateFile, reports, hand, versions, nodeRows, stateRows, stamped, hot, taken>>
  BY DEF IngestReport, UpsertModel
<1>2. /\ DOMAIN reports = 1 .. Len(reports) /\ Len(reports) \in Nat /\ ingested \subseteq DOMAIN reports
      /\ ModelsFit(modelRows, ingested, reports)
  BY DEF VersionInv, VersionsTyped
<1>3. \A t \in times : /\ t \in ingested' /\ reports[t].model = m /\ reports[t].levels = lv
                       /\ t \in 1 .. Len(reports)
  BY <1>1, <1>2 DEF ModelsFit
<1>4. top \in times /\ \A t \in times : t <= top
  <2> DEFINE n == Len(reports)
  <2>1. times \subseteq 1 .. n /\ 1 \in Int /\ n \in Int /\ times # {}
    BY <1>2, <1>3
  <2> HIDE DEF times, n
  <2>2. IsFiniteSet(times)
    BY <2>1, FS_Interval, FS_Subset
  <2>3. \A t \in times : t \in Nat
    BY <2>1
  <2> QED
    BY <2>1, <2>2, <2>3, Extremes
<1>5. i <= top /\ \A r \in same : r.last <= top
  BY <1>4
<1> HIDE DEF top, times
<1>6. top \in ingested' /\ reports[top].model = m /\ reports[top].levels = lv /\ top \in Nat
  BY <1>2, <1>3, <1>4
<1>7. ModelsFit(modelRows', ingested', reports)
  <2>1. IsFiniteSet((modelRows \ same) \cup {new})
    <3>1. IsFiniteSet(modelRows)
      BY <1>2 DEF ModelsFit
    <3> HIDE DEF same, new
    <3>2. IsFiniteSet(modelRows \ same) /\ IsFiniteSet({new})
      BY <3>1, FS_Difference, FS_Singleton
    <3> QED
      BY <3>2, FS_Union
  <2>2. \A r \in modelRows \ same :
          /\ r = [model |-> r.model, levels |-> r.levels, last |-> r.last]
          /\ r.last \in ingested' /\ reports[r.last].model = r.model /\ reports[r.last].levels = r.levels
    BY <1>1, <1>2 DEF ModelsFit
  <2>3. /\ new = [model |-> new.model, levels |-> new.levels, last |-> new.last]
        /\ new.last \in ingested' /\ reports[new.last].model = new.model /\ reports[new.last].levels = new.levels
    BY <1>6
  <2>4. ASSUME NEW j \in ingested'
        PROVE  \E r \in (modelRows \ same) \cup {new} : r.model = reports[j].model /\ j <= r.last
    <3>1. new.model = m /\ new.last = top
      OBVIOUS
    <3>2. CASE j = i
      BY <1>5, <3>1, <3>2
    <3>3. CASE j \in ingested
      <4>1. PICK r \in modelRows : r.model = reports[j].model /\ j <= r.last
        BY <1>2, <3>3 DEF ModelsFit
      <4>2. CASE r \notin same
        BY <4>1, <4>2
      <4>3. CASE r \in same
        <5>1. r.model = m /\ r.last <= top /\ r.last \in ingested /\ r.last \in Nat /\ j \in Nat
          BY <1>2, <1>5, <3>3, <4>3 DEF ModelsFit
        <5>2. j <= top /\ reports[j].model = m
          BY <1>6, <4>1, <5>1
        <5> QED
          BY <3>1, <5>2
      <4> QED
        BY <4>2, <4>3
    <3> QED
      BY <1>1, <3>2, <3>3
  <2> HIDE DEF new, same
  <2> QED
    BY <1>1, <2>1, <2>2, <2>3, <2>4 DEF ModelsFit
<1>8. VersionsTyped'
  BY <1>1 DEF VersionInv, VersionsTyped
<1> QED
  BY <1>1, <1>7, <1>8 DEF VersionInv

\* A file that is about to be read holds a snapshot.
LEMMA ReadKeepsVersions ==
  ASSUME VersionInv, NEW w \in Writers, ReadState(w)
  PROVE  VersionInv'
<1> DEFINE task == [step |-> "read", session |-> w, snapshot |-> Unknown]
<1>1. /\ hand' = task /\ stateFile[w] # Unknown
      /\ UNCHANGED <<stateFile, reports, ingested, versions, nodeRows, modelRows, stateRows, stamped, hot, taken>>
  BY DEF ReadState
<1>2. IsSnapshot(stateFile[w], reports)
  BY <1>1 DEF VersionInv
<1>3. HandFits(task, stateFile, reports, versions, nodeRows)
  BY <1>2 DEF HandFits
<1>4. VersionsTyped'
  BY <1>1 DEF VersionInv, VersionsTyped
<1> QED
  BY <1>1, <1>3, <1>4 DEF VersionInv

\* A version is stored with all its nodes, and no row of a node is lost.
LEMMA VersionKeepsVersions ==
  ASSUME VersionInv, VersionTopology
  PROVE  VersionInv'
<1> DEFINE x == stateFile[hand.session]
           h == TopologyHash(x.pair)
           N == Exploded(nodeRows, x.pair)
           task == [step |-> "store", session |-> hand.session, snapshot |-> x]
<1>1. hand # Unknown /\ hand.step = "read"
  BY DEF VersionTopology, Busy
<1>2. /\ hand = [step |-> hand.step, session |-> hand.session, snapshot |-> hand.snapshot]
      /\ hand.session \in Writers /\ IsSnapshot(x, reports)
  BY <1>1 DEF VersionInv, HandFits
<1>3. hand' = task
  BY <1>2 DEF VersionTopology
<1>4. hand'.snapshot = x
  BY <1>3
<1>5. /\ versions' = versions \cup {h} /\ nodeRows' = N
      /\ UNCHANGED <<stateFile, reports, ingested, modelRows, stateRows, stamped, hot, taken>>
  BY <1>4 DEF VersionTopology
<1>6. /\ NodesFit(N) /\ nodeRows \subseteq N /\ HasAll(N, h) /\ h \in Hashes
      /\ \A r \in N : r \in nodeRows \/ r.levels = Unknown
  <2>1. x.pair \in TeamPairs /\ NodesFit(nodeRows)
    BY <1>2 DEF IsSnapshot, VersionInv
  <2> DEFINE pair == x.pair
  <2> HIDE DEF pair
  <2>2. pair \in TeamPairs
    BY <2>1 DEF pair
  <2>3. /\ NodesFit(Exploded(nodeRows, pair)) /\ nodeRows \subseteq Exploded(nodeRows, pair)
        /\ HasAll(Exploded(nodeRows, pair), TopologyHash(pair)) /\ TopologyHash(pair) \in Hashes
        /\ \A r \in Exploded(nodeRows, pair) : r \in nodeRows \/ r.levels = Unknown
    BY <2>1, <2>2, ExplodedFits, HashFacts
  <2> QED
    BY <2>3 DEF pair
<1> HIDE DEF N, h, x
<1>7. HandFits(task, stateFile, reports, versions', N)
  <2>1. task.step = "store" /\ task.session \in Writers /\ task.snapshot = x
    BY <1>2
  <2>2. Stored(TopologyHash(x.pair), versions', N)
    BY <1>5, <1>6 DEF Stored, h
  <2>3. task = [step |-> task.step, session |-> task.session, snapshot |-> task.snapshot]
    OBVIOUS
  <2> HIDE DEF task
  <2> QED
    BY <1>2, <2>1, <2>2, <2>3 DEF HandFits
<1> HIDE DEF task
<1>8. \A k : HasAll(nodeRows, k) => HasAll(N, k)
  BY <1>6 DEF HasAll
<1>9. LevelsFrom(N, reports)
  <2>1. LevelsFrom(nodeRows, reports)
    BY DEF VersionInv
  <2>2. \A k : NodesOf(nodeRows, k) \subseteq NodesOf(N, k)
    BY <1>6 DEF NodesOf
  <2> QED
    BY <1>6, <2>1, <2>2 DEF LevelsFrom
<1>10. \A w \in Writers : RowFits(stateRows[w], taken[w], stamped[w], versions', N)
  BY <1>5, <1>8, RowStays DEF VersionInv
<1>11. VersionsTyped'
  BY <1>5 DEF VersionInv, VersionsTyped
<1> QED
  BY <1>3, <1>5, <1>6, <1>7, <1>9, <1>10, <1>11 DEF VersionInv

\* The row refers to the version that is stored, with the levels its agents ran with.
LEMMA AddKeepsVersions ==
  ASSUME VersionInv, AddSnapshot
  PROVE  VersionInv'
<1> DEFINE w == hand.session
           x == hand.snapshot
           h == TopologyHash(x.pair)
           N == WithLevels(nodeRows, h, x)
           row == Slim(x)
<1>1. /\ hand # Unknown /\ hand.step = "store" /\ hand' = Unknown
      /\ nodeRows' = N /\ stateRows' = [stateRows EXCEPT ![w] = row]
      /\ stamped' = [stamped EXCEPT ![w] = h] /\ hot' = [hot EXCEPT ![w] = x]
      /\ taken' = [taken EXCEPT ![w] = x]
      /\ UNCHANGED <<stateFile, reports, ingested, versions, modelRows>>
  BY DEF AddSnapshot, Busy
<1>2. w \in Writers /\ IsSnapshot(x, reports) /\ Stored(h, versions, nodeRows)
  BY <1>1 DEF VersionInv, HandFits
<1>3. /\ NodesFit(N) /\ LevelsFrom(N, reports) /\ \A k : HasAll(nodeRows, k) => HasAll(N, k)
  BY <1>2, WithLevelsFits
<1>4. /\ IsRow(row) /\ row.pair = Unknown /\ row.hash = h /\ row.active = x.active
      /\ x.pair \in TeamPairs /\ x.active \in Teams
  <2>1. IsRow(x)
    BY <1>2 DEF IsSnapshot
  <2>2. row = [n |-> x.n, pair |-> Unknown, hash |-> h, active |-> x.active, levels |-> x.levels]
    BY <2>1, SlimRow
  <2> HIDE DEF row, h
  <2> QED
    BY <1>2, <2>2 DEF IsRow, IsSnapshot
<1> HIDE DEF N, row
<1>5. /\ stateRows = [v \in Writers |-> stateRows[v]] /\ stamped = [v \in Writers |-> stamped[v]]
      /\ hot = [v \in Writers |-> hot[v]] /\ taken = [v \in Writers |-> taken[v]]
  BY DEF VersionInv, VersionsTyped
<1>6. \A v \in Writers :
        /\ stateRows'[v] = IF v = w THEN row ELSE stateRows[v]
        /\ stamped'[v] = IF v = w THEN h ELSE stamped[v]
        /\ hot'[v] = IF v = w THEN x ELSE hot[v]
        /\ taken'[v] = IF v = w THEN x ELSE taken[v]
  BY <1>1, <1>5
<1>7. VersionsTyped'
  BY <1>1, <1>5 DEF VersionInv, VersionsTyped
<1>8. RowFits(row, x, h, versions, N)
  <2>1. Stored(h, versions, N)
    BY <1>2, <1>3 DEF Stored
  <2> HIDE DEF x
  <2> QED
    BY <1>4, <2>1 DEF RowFits, h
<1>9. ASSUME NEW v \in Writers PROVE RowFits(stateRows'[v], taken'[v], stamped'[v], versions, N)
  <2>1. RowFits(stateRows[v], taken[v], stamped[v], versions, nodeRows)
    BY DEF VersionInv
  <2>2. RowFits(stateRows[v], taken[v], stamped[v], versions, N)
    BY <1>3, <2>1, RowStays
  <2> HIDE DEF w, x, h
  <2> QED
    BY <1>6, <1>8, <2>2
<1>10. ASSUME NEW v \in Writers PROVE ShownAs(hot'[v], taken'[v])
  <2>1. ShownAs(hot[v], taken[v]) /\ ShownAs(x, x)
    BY DEF VersionInv, ShownAs
  <2> HIDE DEF w, x
  <2> QED
    BY <1>6, <2>1
<1>11. HandFits(hand', stateFile, reports, versions, N)
  BY <1>1 DEF HandFits
<1> QED
  BY <1>1, <1>3, <1>7, <1>9, <1>10, <1>11 DEF VersionInv

\* A daemon that ends forgets what it shows and works on.
LEMMA StopKeepsVersions ==
  ASSUME VersionInv, StopDaemon
  PROVE  VersionInv'
<1>1. /\ hand' = Unknown /\ hot' = [w \in Writers |-> Unknown]
      /\ UNCHANGED <<stateFile, reports, ingested, versions, nodeRows, modelRows, stateRows, stamped, taken>>
  BY DEF StopDaemon
<1>2. VersionsTyped'
  BY <1>1 DEF VersionInv, VersionsTyped
<1>3. HandFits(hand', stateFile, reports, versions, nodeRows)
  BY <1>1 DEF HandFits
<1>4. \A w \in Writers : ShownAs(hot'[w], taken[w])
  BY <1>1 DEF ShownAs
<1> QED
  BY <1>1, <1>2, <1>3, <1>4 DEF VersionInv

\* A daemon that starts finds the teams of every row again.
LEMMA StartKeepsVersions ==
  ASSUME VersionInv, StartDaemon
  PROVE  VersionInv'
<1> DEFINE seen(w) == IF stateRows[w] = Unknown \/ w \in Embedded THEN stateRows[w]
                      ELSE Rehydrated(nodeRows, stateRows[w])
<1>1. /\ hot' = [w \in Writers |-> seen(w)]
      /\ hand' = Unknown \/ hand' = [step |-> "backfill", session |-> Unknown, snapshot |-> Unknown]
      /\ UNCHANGED <<stateFile, reports, ingested, versions, nodeRows, modelRows, stateRows, stamped, taken>>
  BY DEF StartDaemon
<1>2. ASSUME NEW w \in Writers PROVE ShownAs(seen(w), taken[w])
  <2> DEFINE row == stateRows[w]
             snap == taken[w]
  <2>1. RowFits(row, snap, stamped[w], versions, nodeRows) /\ NodesFit(nodeRows)
    BY DEF VersionInv
  <2>2. CASE row = Unknown
    BY <2>2 DEF ShownAs
  <2>3. CASE row # Unknown /\ row.pair # Unknown
    <3>1. seen(w) = row /\ row = snap
      BY <2>1, <2>3 DEF Embedded, RowFits
    <3> HIDE DEF seen, row, snap
    <3> QED
      BY <3>1 DEF ShownAs, snap
  <2>4. CASE row # Unknown /\ row.pair = Unknown
    <3>1. seen(w) = Rehydrated(nodeRows, row)
      BY <2>4 DEF Embedded
    <3>2. /\ IsRow(row) /\ snap.pair \in TeamPairs /\ row.hash = TopologyHash(snap.pair)
          /\ HasAll(nodeRows, row.hash)
          /\ snap.n > 0 => row.active # Unknown /\ row.active = snap.active
      BY <2>1, <2>4, VersionsAssumption DEF RowFits, Stored
    <3> DEFINE pair == snap.pair
    <3> HIDE DEF row, pair
    <3>3. pair \in TeamPairs /\ row.hash = TopologyHash(pair)
      BY <3>2 DEF pair
    <3>4. /\ Shown(Rehydrated(nodeRows, row).pair) = Shown(pair)
          /\ row.active # Unknown => Rehydrated(nodeRows, row).active = row.active
      BY <2>1, <3>2, <3>3, RowIsShown
    <3>5. ShownAs(Rehydrated(nodeRows, row), snap)
      BY <3>2, <3>4 DEF ShownAs, pair
    <3> HIDE DEF seen, snap
    <3> QED
      BY <3>1, <3>5 DEF snap
  <2> QED
    BY <2>2, <2>3, <2>4
<1>3. /\ hot' = [w \in Writers |-> hot'[w]] /\ \A w \in Writers : ShownAs(hot'[w], taken[w])
  <2> HIDE DEF seen
  <2> QED
    BY <1>1, <1>2
<1>4. HandFits(hand', stateFile, reports, versions, nodeRows)
  BY <1>1 DEF HandFits
<1>5. VersionsTyped'
  BY <1>1, <1>3 DEF VersionInv, VersionsTyped
<1> QED
  BY <1>1, <1>3, <1>4, <1>5 DEF VersionInv

\* A row of an earlier release comes to refer to its version.
LEMMA BackfillKeepsVersions ==
  ASSUME VersionInv, NEW w \in Writers, BackfillTopologies(w)
  PROVE  VersionInv'
<1> DEFINE old == stateRows[w]
           pair == old.pair
           h == TopologyHash(pair)
           N == Exploded(nodeRows, pair)
           row == [Slim(old) EXCEPT !.active = Unknown]
           seen == Rehydrated(N, row)
<1>1. RowFits(old, taken[w], stamped[w], versions, nodeRows) /\ old # Unknown /\ pair # Unknown
  BY DEF VersionInv, BackfillTopologies, Embedded
<1>2. IsRow(old) /\ old = taken[w] /\ pair \in TeamPairs /\ ~(taken[w].n > 0)
  BY <1>1 DEF RowFits
<1>3. /\ stateRows = [v \in Writers |-> stateRows[v]] /\ stamped = [v \in Writers |-> stamped[v]]
      /\ hot = [v \in Writers |-> hot[v]]
  BY DEF VersionInv, VersionsTyped
<1>4. /\ nodeRows' = N /\ versions' = versions \cup {h}
      /\ stateRows' = [stateRows EXCEPT ![w] = row]
      /\ stamped' = [stamped EXCEPT ![w] = h]
      /\ hand' = Unknown \/ hand' = hand
      /\ hand # Unknown /\ hand.step = "backfill"
      /\ UNCHANGED <<stateFile, reports, ingested, modelRows, taken>>
  BY DEF BackfillTopologies, Busy
<1>5. hot' = [hot EXCEPT ![w] = Rehydrated(nodeRows', stateRows'[w])]
  BY DEF BackfillTopologies
<1>6. stateRows'[w] = row
  <2> HIDE DEF row
  <2> QED
    BY <1>3, <1>4
<1>7. hot' = [hot EXCEPT ![w] = seen]
  BY <1>4, <1>5, <1>6
<1>8. /\ IsRow(row) /\ row.pair = Unknown /\ row.hash = h
  <2>1. row = [n |-> old.n, pair |-> Unknown, hash |-> h, active |-> Unknown, levels |-> old.levels]
    <3>1. Slim(old) = [n |-> old.n, pair |-> Unknown, hash |-> h, active |-> old.active, levels |-> old.levels]
      BY <1>2, SlimRow
    <3> HIDE DEF old, h
    <3> QED
      BY <3>1
  <2> HIDE DEF row, h, old
  <2> QED
    BY <2>1 DEF IsRow
<1> HIDE DEF row
<1>9. /\ NodesFit(N) /\ nodeRows \subseteq N /\ HasAll(N, h) /\ h \in Hashes
      /\ \A r \in N : r \in nodeRows \/ r.levels = Unknown
  <2>1. NodesFit(nodeRows)
    BY DEF VersionInv
  <2> HIDE DEF pair
  <2> QED
    BY <1>2, <2>1, ExplodedFits, HashFacts
<1>10. ShownAs(seen, taken[w])
  <2>1. /\ Shown(Rehydrated(N, row).pair) = Shown(pair)
    <3> HIDE DEF pair, N
    <3> QED
      BY <1>2, <1>8, <1>9, RowIsShown DEF h
  <2> HIDE DEF N
  <2> QED
    BY <1>2, <2>1 DEF ShownAs
<1> HIDE DEF seen, N
<1>11. Stored(h, versions', N)
  BY <1>4, <1>9 DEF Stored
<1>12. RowFits(row, taken[w], h, versions', N)
  <2>1. row.hash = TopologyHash(taken[w].pair) /\ taken[w].pair \in TeamPairs
    BY <1>2, <1>8
  <2> HIDE DEF h
  <2> QED
    BY <1>2, <1>8, <1>11, <2>1 DEF RowFits
<1> HIDE DEF h, old, pair
<1>13. \A v \in Writers : /\ stateRows'[v] = IF v = w THEN row ELSE stateRows[v]
                          /\ stamped'[v] = IF v = w THEN h ELSE stamped[v]
                          /\ hot'[v] = IF v = w THEN seen ELSE hot[v]
  BY <1>3, <1>4, <1>7
<1>14. VersionsTyped'
  BY <1>3, <1>4, <1>7 DEF VersionInv, VersionsTyped
<1>15. \A k : HasAll(nodeRows, k) => HasAll(N, k)
  BY <1>9 DEF HasAll
<1>16. LevelsFrom(N, reports)
  <2>1. LevelsFrom(nodeRows, reports)
    BY DEF VersionInv
  <2>2. \A k : NodesOf(nodeRows, k) \subseteq NodesOf(N, k)
    BY <1>9 DEF NodesOf
  <2> QED
    BY <1>9, <2>1, <2>2 DEF LevelsFrom
<1>17. ASSUME NEW v \in Writers PROVE RowFits(stateRows'[v], taken[v], stamped'[v], versions', N)
  <2>1. RowFits(stateRows[v], taken[v], stamped[v], versions, nodeRows)
    BY DEF VersionInv
  <2>2. RowFits(stateRows[v], taken[v], stamped[v], versions', N)
    BY <1>4, <1>15, <2>1, RowStays
  <2> QED
    BY <1>12, <1>13, <2>2
<1>18. \A v \in Writers : ShownAs(hot'[v], taken[v])
  BY <1>10, <1>13 DEF VersionInv
<1>19. HandFits(hand', stateFile, reports, versions', N)
  BY <1>4 DEF HandFits, VersionInv
<1> QED
  BY <1>4, <1>9, <1>14, <1>16, <1>17, <1>18, <1>19 DEF VersionInv

\* Every step keeps the invariant.
LEMMA VersionsStay == VersionInv /\ [VersionNext]_versionVars => VersionInv'
<1> SUFFICES ASSUME VersionInv, [VersionNext]_versionVars PROVE VersionInv'
  OBVIOUS
<1>1. CASE UNCHANGED versionVars
  <2>1. VersionsTyped'
    BY <1>1 DEF VersionInv, VersionsTyped, versionVars
  <2> QED
    BY <1>1, <2>1 DEF VersionInv, versionVars
<1>2. ASSUME NEW w \in Writers, NEW pair \in TeamPairs, NEW k \in Teams, NEW ran \in BOOLEAN,
             WriteSnapshot(w, pair, k, ran)
      PROVE  VersionInv'
  BY <1>2, WriteSnapshotKeepsVersions
<1>3. ASSUME NEW w \in Writers, NEW m \in Models, NEW levels \in Levels \cup {Unknown},
             ReportModel(w, m, levels)
      PROVE  VersionInv'
  BY <1>3, ReportKeepsVersions
<1>4. ASSUME NEW i \in DOMAIN reports, IngestReport(i) PROVE VersionInv'
  BY <1>4, IngestKeepsVersions
<1>5. CASE DaemonStep
  BY <1>5, StartKeepsVersions, ReadKeepsVersions, BackfillKeepsVersions, VersionKeepsVersions,
     AddKeepsVersions DEF DaemonStep
<1>6. CASE StopDaemon
  BY <1>6, StopKeepsVersions
<1> QED
  BY <1>1, <1>2, <1>3, <1>4, <1>5, <1>6 DEF VersionNext

\* What the invariant says of what the versions promise.
LEMMA VersionsFollow == VersionInv => VersionsAreTrue
<1> SUFFICES ASSUME VersionInv PROVE VersionsAreTrue
  OBVIOUS
<1>1. ASSUME NEW h, Stored(h, versions, nodeRows) PROVE Complete(h)
  <2>1. NodesFit(nodeRows) /\ h \in versions /\ HasAll(nodeRows, h)
    BY <1>1 DEF VersionInv, Stored
  <2>2. ASSUME NEW k \in Teams
        PROVE  {r.id : r \in {r \in NodesOf(nodeRows, h) : r.team = k}} = DOMAIN h[k]
    <3> DEFINE own == {r \in NodesOf(nodeRows, h) : r.team = k}
    <3>1. \A r \in own : r.id \in DOMAIN h[k]
      BY <2>1 DEF NodesOf, NodesFit, NodeFits
    <3>2. \A i \in DOMAIN h[k] : \E r \in own : r.id = i
      BY <2>1 DEF HasAll, NodesOf
    <3> HIDE DEF own
    <3>3. {r.id : r \in own} = DOMAIN h[k]
      BY <3>1, <3>2
    <3> QED
      BY <3>3 DEF own
  <2> QED
    BY <2>1, <2>2 DEF Complete
<1>2. HashesResolve
  BY <1>1 DEF VersionInv, RowFits, HashesResolve
<1>3. TeamsAsRun
  BY DEF VersionInv, ShownAs, TeamsAsRun
<1>4. LevelsWereReported
  BY DEF VersionInv, LevelsFrom, LevelsWereReported
<1>5. ModelsAreLatest
  <2> SUFFICES ASSUME NEW m \in Models
               PROVE  LET own == {i \in ingested : reports[i].model = m} IN
                      ModelRow(m) = IF own = {} THEN Unknown ELSE reports[Max(own)].levels
    BY DEF ModelsAreLatest
  <2> QED
    BY ModelFacts
<1> QED
  BY <1>2, <1>3, <1>4, <1>5 DEF VersionsAreTrue

\* Versions.VersionsAreTrue: what a session refers to is there with every node, it is shown
\* as it ran, and levels are those that were reported, the last ones of a model.
THEOREM VersionsHold == VersionInit /\ [][VersionNext]_versionVars => []VersionsAreTrue
<1>1. VersionInit => VersionInv
  BY VersionsStart
<1>2. VersionInv /\ [VersionNext]_versionVars => VersionInv'
  BY VersionsStay
<1>3. VersionInv => VersionsAreTrue
  BY VersionsFollow
<1> QED
  BY <1>1, <1>2, <1>3, PTL

-----------------------------------------------------------------------------
(* Teams and who may delegate to whom *)

\* The tree of an enriched configuration.
ActiveTeams == {"hive", "planning"}
TreeFits(c) ==
  /\ \E n \in Nat : DOMAIN c = 1 .. n
  /\ \A i \in DOMAIN c :
       /\ c[i].up = 0 <=> c[i].list \in {"main", "agents"}
       /\ c[i].up # 0 => /\ c[i].up \in DOMAIN c /\ c[i].up # i
                         /\ c[c[i].up].team = c[i].team /\ c[c[i].up].list # "main"
  /\ \A team \in ActiveTeams :
       /\ MainOf(c, team) \in DOMAIN c
       /\ c[MainOf(c, team)].team = team /\ c[MainOf(c, team)].list = "main"
       /\ \A j \in DOMAIN c : c[j].team = team /\ c[j].list = "main" => j = MainOf(c, team)

\* Whom an agent is shown below.
ParentOf(c, i) == IF c[i].list = "agents" THEN MainOf(c, c[i].team) ELSE c[i].up

\* A runtime of a configuration g: what it is called, and its reports, which are those listed
\* for it if it was reloaded, or those of an agent of the active team.
FitsAgent(g, i, r) ==
  /\ r.slug = RuntimeSlug(g, i) /\ r.name = g[i].name
  /\ \/ r.role = Absent /\ \A id \in r.allowed : WrittenFor(r, id)
     \/ /\ r.role # Absent /\ r.allowed = AllowedAgents(Enriched(g), i)
        /\ Enriched(g)[i].team = TeamForMode(teamMode) /\ IsVisited(Enriched(g), i)

\* The runtimes are those of the configuration that was loaded, whose agents are still
\* those of the file.
TeamInv ==
  /\ file \in Configurations /\ file \in written
  /\ config # <<>> =>
       \E g \in Configurations :
         /\ IsValid(g) /\ config = Enriched(g) /\ SameAgents(file, g)
         /\ \A k \in DOMAIN runtimes : \E i \in DOMAIN g : FitsAgent(g, i, runtimes[k])

\* A place in the walk leads back to the agent.
LEMMA PlacesFound ==
  ASSUME NEW S, IsFiniteSet(S), \A j \in S : j \in Nat, NEW i \in S
  PROVE  Place(S, i) \in 1 .. Cardinality(S) /\ Nth(S, Place(S, i)) = i
<1> DEFINE Less(x) == {j \in S : j < x}
<1>1. \A x \in S : Less(x) \in SUBSET S /\ Less(x) # S
  OBVIOUS
<1>2. \A x \in S : IsFiniteSet(Less(x)) /\ Cardinality(Less(x)) \in Nat /\ Cardinality(Less(x)) < Cardinality(S)
  BY <1>1, PartIsSmaller
<1>3. Cardinality(S) \in Nat
  BY FS_CardinalityType
<1>4. \A x, y \in S : x < y => Cardinality(Less(x)) < Cardinality(Less(y))
  <2> TAKE x \in S, y \in S
  <2> HAVE x < y
  <2>1. x \in Nat /\ y \in Nat
    OBVIOUS
  <2>2. Less(x) \in SUBSET Less(y)
    <3> SUFFICES ASSUME NEW j \in Less(x) PROVE j \in Less(y)
      OBVIOUS
    <3>1. j \in S /\ j \in Nat /\ j < x
      OBVIOUS
    <3> QED
      BY <2>1, <3>1
  <2>3. x \in Less(y) /\ x \notin Less(x)
    BY <2>1
  <2> QED
    BY <1>2, <2>2, <2>3, PartIsSmaller
<1>5. Place(S, i) = Cardinality(Less(i)) + 1
  BY DEF Place
<1>6. Nth(S, Place(S, i)) = CHOOSE x \in S : Cardinality(Less(x)) = Place(S, i) - 1
  BY DEF Nth
<1> HIDE DEF Less
<1>7. Place(S, i) \in 1 .. Cardinality(S) /\ Cardinality(Less(i)) = Place(S, i) - 1
  BY <1>2, <1>3, <1>5
<1>8. \A x \in S : Cardinality(Less(x)) = Place(S, i) - 1 => x = i
  <2> TAKE x \in S
  <2> HAVE Cardinality(Less(x)) = Place(S, i) - 1
  <2>1. x \in Nat /\ i \in Nat
    OBVIOUS
  <2>2. ~(x < i) /\ ~(i < x)
    BY <1>2, <1>4, <1>7
  <2> QED
    BY <2>1, <2>2
<1> QED
  BY <1>6, <1>7, <1>8

\* Of the rows of a team, one is shown below another exactly where an agent is below another.
LEMMA RowsAreTree ==
  ASSUME NEW c, TreeFits(c), NEW team \in ActiveTeams, NEW q, NEW t
  PROVE  ShownUnder(ExplodeTeam(c, team), q, t) <=>
           \E m \in TreeNodes(c, team) :
             /\ c[m].list # "main" /\ c[m].slug = t.slug
             /\ ParentOf(c, m) \in TreeNodes(c, team) /\ c[ParentOf(c, m)].slug = q.slug
<1> DEFINE inTeam  == TreeNodes(c, team)
           n       == Cardinality(inTeam)
           listing == ExplodeTeam(c, team)
<1>1. IsFiniteSet(inTeam) /\ \A j \in inTeam : j \in Nat /\ j \in DOMAIN c /\ c[j].team = team
  <2>1. PICK k \in Nat : DOMAIN c = 1 .. k
    BY DEF TreeFits
  <2>2. IsFiniteSet(1 .. k)
    BY FS_Interval
  <2>3. inTeam \in SUBSET (1 .. k)
    BY <2>1 DEF TreeNodes
  <2> QED
    BY <2>1, <2>2, <2>3, FS_Subset DEF TreeNodes
<1>2. n \in Nat /\ \A r \in 1 .. n : Nth(inTeam, r) \in inTeam
  BY <1>1, RanksCount
<1>3. \A i \in inTeam : Place(inTeam, i) \in 1 .. n /\ Nth(inTeam, Place(inTeam, i)) = i
  BY <1>1, PlacesFound
<1>4. /\ DOMAIN listing = 1 .. n
      /\ \A r \in 1 .. n : /\ listing[r].slug = c[Nth(inTeam, r)].slug
                           /\ listing[r].parent = ParentRow(c, inTeam, Nth(inTeam, r))
  BY DEF ExplodeTeam
<1>5. \A i \in inTeam : ParentRow(c, inTeam, i) = IF c[i].list = "main" THEN 0
                                                ELSE Place(inTeam, ParentOf(c, i))
  BY DEF ParentRow, ParentOf
<1>6. \A i \in inTeam : c[i].list # "main" => ParentOf(c, i) \in inTeam
  <2> TAKE i \in inTeam
  <2> HAVE c[i].list # "main"
  <2>1. i \in DOMAIN c /\ c[i].team = team
    BY <1>1
  <2>2. CASE c[i].list = "agents"
    BY <2>1, <2>2 DEF ParentOf, TreeFits, TreeNodes
  <2>3. CASE c[i].list # "agents"
    BY <2>1, <2>3 DEF ParentOf, TreeFits, TreeNodes
  <2> QED
    BY <2>2, <2>3
<1> HIDE DEF inTeam, n, listing
<1>7. ASSUME NEW r \in 1 .. n, listing[r].slug = t.slug, listing[r].parent # 0, listing[listing[r].parent].slug = q.slug
      PROVE  \E m \in inTeam : /\ c[m].list # "main" /\ c[m].slug = t.slug
                              /\ ParentOf(c, m) \in inTeam /\ c[ParentOf(c, m)].slug = q.slug
  <2> DEFINE m == Nth(inTeam, r)
  <2>1. m \in inTeam /\ c[m].slug = t.slug
    BY <1>2, <1>4, <1>7
  <2>2. c[m].list # "main" /\ listing[r].parent = Place(inTeam, ParentOf(c, m))
    BY <1>4, <1>5, <1>7, <2>1
  <2>3. ParentOf(c, m) \in inTeam
    BY <1>6, <2>1, <2>2
  <2>4. listing[listing[r].parent].slug = c[ParentOf(c, m)].slug
    BY <1>3, <1>4, <2>2, <2>3
  <2> QED
    BY <1>7, <2>1, <2>2, <2>3, <2>4
<1>8. ASSUME NEW m \in inTeam, c[m].list # "main", c[m].slug = t.slug, c[ParentOf(c, m)].slug = q.slug
      PROVE  \E r \in 1 .. n : /\ listing[r].slug = t.slug /\ listing[r].parent # 0
                               /\ listing[listing[r].parent].slug = q.slug
  <2> DEFINE r == Place(inTeam, m)
  <2>1. r \in 1 .. n /\ Nth(inTeam, r) = m
    BY <1>3
  <2>2. ParentOf(c, m) \in inTeam
    BY <1>6, <1>8
  <2>3. listing[r].parent = Place(inTeam, ParentOf(c, m)) /\ listing[r].slug = t.slug
    BY <1>4, <1>5, <1>8, <2>1
  <2>4. listing[r].parent \in 1 .. n /\ listing[listing[r].parent].slug = q.slug
    BY <1>3, <1>4, <1>8, <2>2, <2>3
  <2>5. listing[r].parent # 0
    BY <1>2, <2>4
  <2> QED
    BY <2>1, <2>3, <2>4, <2>5
<1>9. ShownUnder(listing, q, t) <=>
        \E r \in 1 .. n : /\ listing[r].slug = t.slug /\ listing[r].parent # 0
                          /\ listing[listing[r].parent].slug = q.slug
  BY <1>4 DEF ShownUnder
<1> QED
  BY <1>7, <1>8, <1>9 DEF listing, inTeam

\* Enrichment changes neither the tree nor the names.
LEMMA EnrichedFits ==
  ASSUME NEW g \in Configurations
  PROVE  /\ TreeFits(Enriched(g)) /\ DOMAIN Enriched(g) = DOMAIN g
         /\ \A i \in DOMAIN g : /\ Enriched(g)[i] = AgentConfig(g, i)
                                /\ Enriched(g)[i].up = g[i].up /\ Enriched(g)[i].list = g[i].list
                                /\ Enriched(g)[i].team = g[i].team /\ Enriched(g)[i].name = g[i].name
<1> DEFINE c == Enriched(g)
<1>1. IsForest(g)
  BY TeamAssumption
<1>2. DOMAIN c = DOMAIN g /\ \A i \in DOMAIN g : c[i] = AgentConfig(g, i)
  BY DEF Enriched
<1>3. \A i \in DOMAIN g : c[i].up = g[i].up /\ c[i].list = g[i].list /\ c[i].team = g[i].team /\ c[i].name = g[i].name
  BY <1>2 DEF AgentConfig
<1>4. \E n \in Nat : DOMAIN g = 1 .. n
  <2>1. g \in Seq(Range(g))
    BY <1>1 DEF IsForest
  <2> QED
    BY <2>1
<1> HIDE DEF c
<1>5. \A i \in DOMAIN c :
        /\ c[i].up = 0 <=> c[i].list \in {"main", "agents"}
        /\ c[i].up # 0 => /\ c[i].up \in DOMAIN c /\ c[i].up # i
                          /\ c[c[i].up].team = c[i].team /\ c[c[i].up].list # "main"
  <2> TAKE i \in DOMAIN c
  <2>1. g[i].up = 0 <=> g[i].list \in {"main", "agents"}
    BY <1>1, <1>2 DEF IsForest
  <2>2. g[i].up # 0 => /\ g[i].up \in Above(g, i - 1)
                       /\ g[g[i].up].team = g[i].team /\ g[g[i].up].list # "main"
    BY <1>1, <1>2 DEF IsForest
  <2>3. g[i].up # 0 => g[i].up \in DOMAIN g /\ g[i].up # i
    <3>1. g[i].up # 0 => g[i].up \in 1 .. i - 1
      BY <1>1, <1>2 DEF IsForest
    <3>2. i \in Nat
      BY <1>2, <1>4
    <3> QED
      BY <2>2, <3>1, <3>2 DEF Above
  <2> QED
    BY <1>2, <1>3, <2>1, <2>2, <2>3
<1>6. ASSUME NEW team \in ActiveTeams
      PROVE  /\ MainOf(c, team) \in DOMAIN c
             /\ c[MainOf(c, team)].team = team /\ c[MainOf(c, team)].list = "main"
             /\ \A j \in DOMAIN c : c[j].team = team /\ c[j].list = "main" => j = MainOf(c, team)
  <2>1. PICK i \in DOMAIN g : /\ g[i].team = team /\ g[i].list = "main"
                              /\ \A j \in DOMAIN g : g[j].team = team /\ j # i => g[j].list # "main"
    BY <1>1 DEF IsForest, ActiveTeams
  <2>2. i \in DOMAIN c /\ c[i].team = team /\ c[i].list = "main"
    BY <1>2, <1>3, <2>1
  <2>3. \A j \in DOMAIN c : c[j].team = team /\ c[j].list = "main" => j = i
    BY <1>2, <1>3, <2>1
  <2>4. MainOf(c, team) = i
    BY <2>2, <2>3 DEF MainOf
  <2> QED
    BY <2>2, <2>3, <2>4
<1> QED
  BY <1>2, <1>3, <1>4, <1>5, <1>6 DEF TreeFits, c

\* The runtimes of a mode are those of agents of its team that the walk visits.
LEMMA ActivatedFits ==
  ASSUME NEW c, TreeFits(c), NEW disk, NEW m, NEW k \in DOMAIN ActivateTeamRuntimes(c, disk, m)
  PROVE  \E i \in DOMAIN c :
           /\ c[i].team = TeamForMode(m) /\ IsVisited(c, i)
           /\ ActivateTeamRuntimes(c, disk, m)[k] =
                LoadAgentRuntime(c, disk, i, RoleOf(c, i), AllowedAgents(c, i))
<1> DEFINE agents == {i \in DOMAIN c : c[i].team = TeamForMode(m) /\ IsVisited(c, i)}
           loaded == [i \in agents |-> LoadAgentRuntime(c, disk, i, RoleOf(c, i), AllowedAgents(c, i))]
           same   == {i \in agents : loaded[i].slug = k}
<1>1. k \in {loaded[i].slug : i \in agents} /\ ActivateTeamRuntimes(c, disk, m)[k] = loaded[Max(same)]
  BY DEF ActivateTeamRuntimes
<1>2. PICK n \in Nat : DOMAIN c = 1 .. n
  BY DEF TreeFits
<1>3. same # {} /\ same \in SUBSET (1 .. n)
  BY <1>1, <1>2
<1> HIDE DEF same
<1>4. IsFiniteSet(same) /\ \A i \in same : i \in Nat
  <2>1. IsFiniteSet(1 .. n)
    BY FS_Interval
  <2>2. IsFiniteSet(same)
    BY <1>3, <2>1, FS_Subset
  <2> QED
    BY <1>3, <2>2
<1>5. Max(same) \in same
  BY <1>3, <1>4, Extremes
<1>6. Max(same) \in agents
  BY <1>5 DEF same
<1> QED
  BY <1>1, <1>6

LEMMA SameCalled ==
  ASSUME NEW f \in Configurations, NEW g \in Configurations, SameAgents(f, g), NEW i \in DOMAIN f
  PROVE  /\ i \in DOMAIN g /\ f[i].name = g[i].name
         /\ RuntimeSlug(f, i) = RuntimeSlug(g, i) /\ Declared(f[i].mdSlug, AgentConfig(g, i).slug) = RuntimeSlug(g, i)
<1>1. i \in DOMAIN g /\ f[i].name = g[i].name /\ f[i].yaml = g[i].yaml /\ f[i].mdSlug = g[i].mdSlug
  BY DEF SameAgents
<1> QED
  BY <1>1 DEF RuntimeSlug, AgentConfig, RawKey, Declared

\* Runtimes that are built anew, of a configuration that was loaded, fit it.
LEMMA FreshFits ==
  ASSUME NEW g \in Configurations, NEW f \in Configurations, SameAgents(f, g),
         runtimes' = ActivateTeamRuntimes(Enriched(g), f, teamMode'), NEW k \in DOMAIN runtimes'
  PROVE  \E i \in DOMAIN g : FitsAgent(g, i, runtimes[k])'
<1> DEFINE c == Enriched(g)
<1>1. /\ TreeFits(c) /\ DOMAIN c = DOMAIN g
      /\ \A i \in DOMAIN g : c[i] = AgentConfig(g, i) /\ c[i].name = g[i].name
  BY EnrichedFits
<1>2. PICK m : m = teamMode'
  OBVIOUS
<1> HIDE DEF c
<1>3. k \in DOMAIN ActivateTeamRuntimes(c, f, m)
  BY <1>2 DEF c
<1>4. PICK i \in DOMAIN c :
        /\ c[i].team = TeamForMode(m) /\ IsVisited(c, i)
        /\ ActivateTeamRuntimes(c, f, m)[k] =
             LoadAgentRuntime(c, f, i, RoleOf(c, i), AllowedAgents(c, i))
  <2>1. TreeFits(c)
    BY <1>1
  <2>2. \A l \in DOMAIN ActivateTeamRuntimes(c, f, m) :
          \E i \in DOMAIN c :
           /\ c[i].team = TeamForMode(m) /\ IsVisited(c, i)
           /\ ActivateTeamRuntimes(c, f, m)[l] =
                LoadAgentRuntime(c, f, i, RoleOf(c, i), AllowedAgents(c, i))
    BY <2>1, ActivatedFits
  <2> QED
    BY <1>3, <2>2
<1>5. runtimes'[k] = LoadAgentRuntime(c, f, i, RoleOf(c, i), AllowedAgents(c, i))
  BY <1>2, <1>4 DEF c
<1>6. i \in DOMAIN f /\ i \in DOMAIN g
  BY <1>1 DEF SameAgents
<1>7. Declared(f[i].mdSlug, AgentConfig(g, i).slug) = RuntimeSlug(g, i)
  BY <1>6, SameCalled
<1>8. /\ runtimes'[k].slug = Declared(f[i].mdSlug, c[i].slug) /\ runtimes'[k].name = c[i].name
      /\ runtimes'[k].role = RoleOf(c, i) /\ runtimes'[k].allowed = AllowedAgents(c, i)
  BY <1>5 DEF LoadAgentRuntime
<1>9. RoleOf(c, i) # Absent
  BY TeamAssumption DEF RoleOf
<1>10. FitsAgent(g, i, runtimes[k])'
  BY <1>1, <1>2, <1>4, <1>6, <1>7, <1>8, <1>9 DEF FitsAgent, c
<1> QED
  BY <1>6, <1>10

LEMMA TeamStarts == TeamInit => TeamInv
  BY DEF TeamInit, TeamInv

LEMMA EditKeepsTeam ==
  ASSUME TeamInv, NEW f \in Configurations, EditConfig(f)
  PROVE  TeamInv'
<1>1. /\ file' = f /\ SameAgents(f, file) /\ written' = written \cup {f}
      /\ UNCHANGED <<config, teamMode, runtimes>>
  BY DEF EditConfig
<1>2. ASSUME config # <<>>
      PROVE  \E g \in Configurations :
               /\ IsValid(g) /\ config' = Enriched(g) /\ SameAgents(file', g)
               /\ \A k \in DOMAIN runtimes' : \E i \in DOMAIN g : FitsAgent(g, i, runtimes[k])'
  <2>1. PICK g \in Configurations :
          /\ IsValid(g) /\ config = Enriched(g) /\ SameAgents(file, g)
          /\ \A k \in DOMAIN runtimes : \E i \in DOMAIN g : FitsAgent(g, i, runtimes[k])
    BY <1>2 DEF TeamInv
  <2>2. SameAgents(file', g)
    BY <1>1, <2>1 DEF SameAgents
  <2>3. ASSUME NEW k \in DOMAIN runtimes'
        PROVE  \E i \in DOMAIN g : FitsAgent(g, i, runtimes[k])'
    <3>1. PICK i \in DOMAIN g : FitsAgent(g, i, runtimes[k])
      BY <1>1, <2>1
    <3>2. \A id \in runtimes[k].allowed : WrittenFor(runtimes[k], id) => WrittenFor(runtimes[k], id)'
      BY <1>1 DEF WrittenFor
    <3>3. runtimes'[k] = runtimes[k] /\ teamMode' = teamMode
      BY <1>1
    <3>4. FitsAgent(g, i, runtimes[k])'
      BY <3>1, <3>2, <3>3 DEF FitsAgent
    <3> QED
      BY <3>4
  <2> QED
    BY <1>1, <2>1, <2>2, <2>3
<1> QED
  BY <1>1, <1>2 DEF TeamInv

LEMMA ReloadKeepsTeam ==
  ASSUME TeamInv, ReloadTeam
  PROVE  TeamInv'
<1>1. /\ IsValid(file) /\ config' = Enriched(file)
      /\ file' = file /\ written' = written /\ teamMode' = teamMode
      /\ runtimes' = ActivateTeamRuntimes(Enriched(file), file, teamMode')
  BY DEF ReloadTeam
<1>2. PICK g \in Configurations : g = file
  BY DEF TeamInv
<1>3. SameAgents(g, g)
  BY DEF SameAgents
<1>4. \A k \in DOMAIN runtimes' : \E i \in DOMAIN g : FitsAgent(g, i, runtimes[k])'
  BY <1>1, <1>2, <1>3, FreshFits
<1> QED
  BY <1>1, <1>2, <1>3, <1>4 DEF TeamInv

LEMMA ModeKeepsTeam ==
  ASSUME TeamInv, NEW m, ActivateMode(m)
  PROVE  TeamInv'
<1>1. /\ config # <<>> /\ config' = config /\ file' = file /\ written' = written
      /\ runtimes' = ActivateTeamRuntimes(config, file, teamMode')
  BY DEF ActivateMode
<1>2. PICK g \in Configurations : IsValid(g) /\ config = Enriched(g) /\ SameAgents(file, g)
  BY <1>1 DEF TeamInv
<1>3. file \in Configurations /\ file \in written
  BY DEF TeamInv
<1>4. \A k \in DOMAIN runtimes' : \E i \in DOMAIN g : FitsAgent(g, i, runtimes[k])'
  BY <1>1, <1>2, <1>3, FreshFits
<1> QED
  BY <1>1, <1>2, <1>3, <1>4 DEF TeamInv

\* An agent that is reloaded is one of the file, and has the reports listed there.
LEMMA AgentKeepsTeam ==
  ASSUME TeamInv, NEW k \in DOMAIN runtimes, ReloadAgentConfig(k)
  PROVE  TeamInv'
<1> DEFINE fresh == Enriched(file)
           found == {i \in DOMAIN file : /\ file[i].up = 0
                                         /\ AgentMatches(fresh[i], runtimes[k].name)
                                            \/ fresh[i].slug = runtimes[k].slug}
           r == LoadAgentRuntime(fresh, file, Min(found), Absent, fresh[Min(found)].allowed)
<1>1. /\ found # {} /\ runtimes' = [runtimes EXCEPT ![k] = r]
      /\ UNCHANGED <<file, written, config, teamMode>>
  BY DEF ReloadAgentConfig
<1>2. file \in Configurations /\ file \in written
  BY DEF TeamInv
<1>3. TreeFits(fresh) /\ DOMAIN fresh = DOMAIN file /\ \A i \in DOMAIN file : fresh[i] = AgentConfig(file, i)
  BY <1>2, EnrichedFits
<1>4. PICK n \in Nat : DOMAIN file = 1 .. n
  BY <1>3 DEF TreeFits
<1>5. found \in SUBSET (1 .. n) /\ \A i \in found : file[i].up = 0
  BY <1>4
<1> HIDE DEF found, fresh, r
<1>6. IsFiniteSet(found) /\ \A i \in found : i \in Nat
  <2>1. IsFiniteSet(1 .. n)
    BY FS_Interval
  <2>2. IsFiniteSet(found)
    BY <1>5, <2>1, FS_Subset
  <2> QED
    BY <1>5, <2>2
<1>7. PICK x \in DOMAIN file : x = Min(found) /\ file[x].up = 0
  <2>1. Min(found) \in found
    BY <1>1, <1>6, Extremes
  <2> QED
    BY <1>4, <1>5, <2>1
<1>8. /\ r.slug = RuntimeSlug(file, x) /\ r.name = file[x].name
      /\ r.role = Absent /\ \A id \in r.allowed : WrittenFor(r, id)
  <2>1. /\ r.slug = RuntimeSlug(file, x) /\ r.name = file[x].name
        /\ r.role = Absent /\ r.allowed = file[x].allowed
    BY <1>3, <1>7 DEF r, LoadAgentRuntime, RuntimeSlug, AgentConfig
  <2> QED
    BY <1>2, <1>7, <2>1 DEF WrittenFor
<1>9. ASSUME config # <<>>
      PROVE  \E g \in Configurations :
               /\ IsValid(g) /\ config' = Enriched(g) /\ SameAgents(file', g)
               /\ \A l \in DOMAIN runtimes' : \E i \in DOMAIN g : FitsAgent(g, i, runtimes[l])'
  <2>1. PICK g \in Configurations :
          /\ IsValid(g) /\ config = Enriched(g) /\ SameAgents(file, g)
          /\ \A l \in DOMAIN runtimes : \E i \in DOMAIN g : FitsAgent(g, i, runtimes[l])
    BY <1>9 DEF TeamInv
  <2>2. x \in DOMAIN g /\ file[x].name = g[x].name /\ RuntimeSlug(file, x) = RuntimeSlug(g, x)
    BY <1>2, <1>7, <2>1, SameCalled
  <2>3. ASSUME NEW l \in DOMAIN runtimes'
        PROVE  \E i \in DOMAIN g : FitsAgent(g, i, runtimes[l])'
    <3>1. CASE l = k
      <4>1. runtimes'[l] = r
        BY <1>1, <3>1
      <4>2. \A id \in r.allowed : WrittenFor(runtimes[l], id)'
        BY <1>1, <1>8, <4>1 DEF WrittenFor
      <4>3. FitsAgent(g, x, runtimes[l])'
        BY <1>8, <2>2, <4>1, <4>2 DEF FitsAgent
      <4> QED
        BY <2>2, <4>3
    <3>2. CASE l # k
      <4>1. l \in DOMAIN runtimes /\ runtimes'[l] = runtimes[l]
        BY <1>1, <3>2
      <4>2. PICK i \in DOMAIN g : FitsAgent(g, i, runtimes[l])
        BY <2>1, <4>1
      <4>3. \A id \in runtimes[l].allowed : WrittenFor(runtimes[l], id) => WrittenFor(runtimes[l], id)'
        BY <1>1, <4>1 DEF WrittenFor
      <4>4. FitsAgent(g, i, runtimes[l])'
        BY <1>1, <4>1, <4>2, <4>3 DEF FitsAgent
      <4> QED
        BY <4>4
    <3> QED
      BY <3>1, <3>2
  <2> QED
    BY <1>1, <2>1, <2>3
<1> QED
  BY <1>1, <1>2, <1>9 DEF TeamInv

LEMMA TeamStays == TeamInv /\ [TeamNext]_teamVars => TeamInv'
<1> SUFFICES ASSUME TeamInv, [TeamNext]_teamVars PROVE TeamInv'
  OBVIOUS
<1>1. ASSUME NEW f \in Configurations, EditConfig(f) PROVE TeamInv'
  BY <1>1, EditKeepsTeam
<1>2. CASE ReloadTeam
  BY <1>2, ReloadKeepsTeam
<1>3. ASSUME NEW m \in {"normal", "plan", "hive"}, ActivateMode(m) PROVE TeamInv'
  BY <1>3, ModeKeepsTeam
<1>4. ASSUME NEW k \in DOMAIN runtimes, ReloadAgentConfig(k) PROVE TeamInv'
  BY <1>4, AgentKeepsTeam
<1>5. CASE UNCHANGED teamVars
  BY <1>5 DEF teamVars, TeamInv, FitsAgent, WrittenFor
<1> QED
  BY <1>1, <1>2, <1>3, <1>4, <1>5 DEF TeamNext

LEMMA ModesHaveTeams == TeamForMode(teamMode) \in ActiveTeams
  BY DEF TeamForMode, ActiveTeams

\* A report is shown below the caller, if slugs are clear.
LEMMA ReportsAreShown ==
  ASSUME NEW g \in Configurations, IsClear(g), NEW i \in DOMAIN g, NEW j \in DOMAIN g,
         NEW q, NEW t, FitsAgent(g, i, q), FitsAgent(g, j, t), InTree(q), IsReport(q, t)
  PROVE  ShownUnder(ExplodeTeam(Enriched(g), TeamForMode(teamMode)), q, t)
<1> DEFINE c == Enriched(g)
           team == TeamForMode(teamMode)
<1>1. /\ TreeFits(c) /\ DOMAIN c = DOMAIN g
      /\ \A m \in DOMAIN g : /\ c[m].slug = AgentConfig(g, m).slug
                             /\ c[m].up = g[m].up /\ c[m].list = g[m].list /\ c[m].name = g[m].name
  BY EnrichedFits
<1>2. team \in ActiveTeams
  BY ModesHaveTeams
<1>3. q.allowed = AllowedAgents(c, i) /\ c[i].team = team
  BY DEF FitsAgent, InTree
<1>4. q.slug = RuntimeSlug(g, i) /\ t.slug = RuntimeSlug(g, j) /\ t.name = g[j].name
  BY DEF FitsAgent
<1> HIDE DEF c, team
<1>5. PICK id \in AllowedAgents(c, i) : id = t.slug \/ id = t.name
  BY <1>3 DEF IsReport, AgentMatches
<1>6. PICK m \in DOMAIN c : /\ c[m].slug = id
                            /\ m \in IF c[i].list = "main" THEN TopLevel(c, c[i].team) ELSE ChildNodes(c, i)
  BY <1>5 DEF AllowedAgents, TopLevel, ChildNodes
<1>7. i \in DOMAIN c /\ i \in TreeNodes(c, team)
  BY <1>1, <1>3 DEF TreeNodes
<1>8. c[m].list # "main" /\ m \in TreeNodes(c, team) /\ ParentOf(c, m) = i
  <2>1. CASE c[i].list = "main"
    <3>1. c[m].team = team /\ c[m].list = "agents"
      BY <1>3, <1>6, <2>1 DEF TopLevel
    <3>2. i = MainOf(c, team)
      BY <1>1, <1>2, <1>3, <1>7, <2>1 DEF TreeFits
    <3> QED
      BY <3>1, <3>2 DEF TreeNodes, ParentOf
  <2>2. CASE c[i].list # "main"
    <3>1. c[m].up = i
      BY <1>6, <2>2 DEF ChildNodes
    <3>2. i # 0
      BY <1>1, <1>7 DEF TreeFits
    <3>3. c[m].list \notin {"main", "agents"} /\ c[m].team = c[i].team
      BY <1>1, <3>1, <3>2 DEF TreeFits
    <3> QED
      BY <1>3, <3>1, <3>3 DEF TreeNodes, ParentOf
  <2> QED
    BY <2>1, <2>2
<1>9. c[m].slug = t.slug
  BY <1>1, <1>4, <1>5, <1>6 DEF IsClear
<1>10. c[i].slug = q.slug
  <2>1. g[i].list = "main" \/ m \in ChildNodes(g, i)
    BY <1>1, <1>6, <1>7 DEF ChildNodes
  <2>2. RuntimeSlug(g, i) = AgentConfig(g, i).slug
    BY <2>1 DEF IsClear
  <2> QED
    BY <1>1, <1>4, <2>2
<1> QED
  BY <1>1, <1>2, <1>7, <1>8, <1>9, <1>10, RowsAreTree DEF c, team

\* An agent below one that is not visited is not visited.
LEMMA BelowHidden ==
  ASSUME NEW c, TreeFits(c), NEW m \in DOMAIN c, c[m].up # 0, IsVisited(c, m)
  PROVE  IsVisited(c, c[m].up)
<1> DEFINE p == c[m].up
<1>1. p \in DOMAIN c /\ c[p].team = c[m].team /\ c[m].list # "main"
  BY DEF TreeFits
<1>2. Above(c, p) \in SUBSET Above(c, m)
  <2> SUFFICES ASSUME NEW j \in Above(c, p) PROVE j \in Above(c, m)
    OBVIOUS
  <2>1. ASSUME NEW S \in SUBSET DOMAIN c, m \in S, \A k \in S : c[k].up \in S \cup {0}
        PROVE  j \in S
    <3>1. p \in S
      BY <2>1
    <3> QED
      BY <2>1, <3>1 DEF Above
  <2>2. j \in DOMAIN c
    BY DEF Above
  <2> QED
    BY <2>1, <2>2 DEF Above
<1> QED
  BY <1>1, <1>2 DEF IsVisited

\* An agent of the team that is shown below another is a report of it, if slugs are clear.
LEMMA ShownAreReports ==
  ASSUME NEW g \in Configurations, IsClear(g), IsValid(g), NEW i \in DOMAIN g, NEW j \in DOMAIN g,
         NEW q, NEW t, FitsAgent(g, i, q), FitsAgent(g, j, t), InTree(q), InTree(t),
         ShownUnder(ExplodeTeam(Enriched(g), TeamForMode(teamMode)), q, t)
  PROVE  IsReport(q, t)
<1> DEFINE c == Enriched(g)
           team == TeamForMode(teamMode)
<1>1. /\ TreeFits(c) /\ DOMAIN c = DOMAIN g
      /\ \A m \in DOMAIN g : c[m].slug = AgentConfig(g, m).slug /\ c[m].list = g[m].list
  BY EnrichedFits
<1>2. team \in ActiveTeams
  BY ModesHaveTeams
<1>3. /\ q.allowed = AllowedAgents(c, i) /\ c[i].team = team /\ IsVisited(c, i)
      /\ c[j].team = team /\ IsVisited(c, j)
  BY DEF FitsAgent, InTree
<1>4. q.slug = RuntimeSlug(g, i) /\ t.slug = RuntimeSlug(g, j)
  BY DEF FitsAgent
<1>5. ShapeIsValid(c)
  BY DEF IsValid
<1>6. ShownUnder(ExplodeTeam(c, team), q, t)
  OBVIOUS
<1> HIDE DEF c, team
<1>7. PICK m \in TreeNodes(c, team) :
        /\ c[m].list # "main" /\ c[m].slug = t.slug
        /\ ParentOf(c, m) \in TreeNodes(c, team) /\ c[ParentOf(c, m)].slug = q.slug
  BY <1>1, <1>2, <1>6, RowsAreTree
<1>8. PICK p \in TreeNodes(c, team) : p = ParentOf(c, m) /\ c[p].slug = q.slug
  BY <1>7
<1>9. /\ m \in DOMAIN c /\ c[m].team = team /\ p \in DOMAIN c /\ c[p].team = team
      /\ i \in DOMAIN c /\ j \in DOMAIN c
  BY <1>1 DEF TreeNodes
<1>10. c[i].slug = q.slug /\ c[j].slug = t.slug
  BY <1>1, <1>4, <1>7, <1>8, <1>9 DEF IsClear
<1>11. \A x, y \in DOMAIN c :
         c[x].team = team /\ c[y].team = team /\ c[x].slug = c[y].slug
         /\ c[x].list # "main" /\ c[y].list # "main" => x = y
  <2> TAKE x \in DOMAIN c, y \in DOMAIN c
  <2> HAVE c[x].team = team /\ c[y].team = team /\ c[x].slug = c[y].slug
           /\ c[x].list # "main" /\ c[y].list # "main"
  <2>1. "main" \notin {c[x].list, c[y].list}
    OBVIOUS
  <2> QED
    BY <1>5, <2>1 DEF ShapeIsValid
<1>12. \A x \in DOMAIN c : c[x].team = team /\ c[x].list = "main" => x = MainOf(c, team)
  BY <1>1, <1>2 DEF TreeFits
<1>13. \A x \in DOMAIN c : c[x].team = team /\ IsVisited(c, x) /\ c[x].list # "main" => c[x].slug # c[MainOf(c, team)].slug
  <2> TAKE x \in DOMAIN c
  <2> HAVE c[x].team = team /\ IsVisited(c, x) /\ c[x].list # "main"
  <2>1. x \in Above(c, x)
    BY DEF Above
  <2> QED
    BY <2>1 DEF IsVisited
<1>14. p = i
  <2>1. CASE c[p].list = "main" /\ c[i].list = "main"
    BY <1>3, <1>9, <1>12, <2>1
  <2>2. CASE c[p].list # "main" /\ c[i].list # "main"
    BY <1>3, <1>8, <1>9, <1>10, <1>11, <2>2
  <2>3. CASE c[p].list = "main" /\ c[i].list # "main"
    BY <1>3, <1>8, <1>9, <1>10, <1>12, <1>13, <2>3
  <2>4. CASE c[p].list # "main" /\ c[i].list = "main"
    <3>1. i = MainOf(c, team) /\ c[p].slug = c[MainOf(c, team)].slug
      BY <1>3, <1>8, <1>9, <1>10, <1>12, <2>4
    <3>2. ~IsVisited(c, p)
      BY <1>9, <1>13, <2>4, <3>1
    <3>3. c[m].list # "agents" /\ p = c[m].up
      BY <1>1, <1>2, <1>8, <1>9, <2>4 DEF ParentOf, TreeFits
    <3>4. c[m].up # 0
      BY <1>1, <1>7, <1>9, <3>3 DEF TreeFits
    <3>5. ~IsVisited(c, m)
      BY <1>1, <1>9, <3>2, <3>3, <3>4, BelowHidden
    <3>6. m # j /\ c[m].slug = c[j].slug
      BY <1>3, <1>7, <1>10, <3>5
    <3>7. c[j].list = "main"
      BY <1>3, <1>7, <1>9, <1>11, <3>6
    <3>8. c[m].slug = c[p].slug
      BY <1>3, <1>9, <1>12, <3>1, <3>6, <3>7
    <3>9. m = p
      BY <1>7, <1>9, <1>11, <2>4, <3>8
    <3> QED
      BY <1>1, <1>9, <3>3, <3>4, <3>9 DEF TreeFits
  <2> QED
    BY <2>1, <2>2, <2>3, <2>4
<1>15. m \in IF c[i].list = "main" THEN TopLevel(c, c[i].team) ELSE ChildNodes(c, i)
  <2>1. CASE c[m].list = "agents"
    <3>1. i = MainOf(c, team)
      BY <1>8, <1>9, <1>14, <2>1 DEF ParentOf
    <3>2. c[i].list = "main"
      BY <1>1, <1>2, <3>1 DEF TreeFits
    <3> QED
      BY <1>3, <1>9, <2>1, <3>2 DEF TopLevel
  <2>2. CASE c[m].list # "agents"
    <3>1. c[m].up = i
      BY <1>8, <1>14, <2>2 DEF ParentOf
    <3>2. c[m].up # 0
      BY <1>1, <1>7, <1>9, <2>2 DEF TreeFits
    <3>3. c[i].list # "main"
      BY <1>1, <1>9, <3>1, <3>2 DEF TreeFits
    <3> QED
      BY <1>9, <3>1, <3>3 DEF ChildNodes
  <2> QED
    BY <2>1, <2>2
<1>16. c[m].slug \in AllowedAgents(c, i)
  BY <1>15 DEF AllowedAgents
<1> QED
  BY <1>3, <1>7, <1>16 DEF IsReport, AgentMatches

LEMMA TeamFollows == SlugsAreClear /\ TeamInv => TeamIsSound
<1> SUFFICES ASSUME SlugsAreClear, TeamInv PROVE TeamIsSound
  OBVIOUS
<1>1. ASSUME config # <<>>
      PROVE  TreeDelegation /\ ReportsAreGranted
  <2> DEFINE listing == ExplodeTeam(config, TeamForMode(teamMode))
  <2>1. PICK g \in Configurations :
          /\ IsValid(g) /\ config = Enriched(g)
          /\ \A k \in DOMAIN runtimes : \E i \in DOMAIN g : FitsAgent(g, i, runtimes[k])
    BY <1>1 DEF TeamInv
  <2>2. IsClear(g)
    BY <2>1 DEF SlugsAreClear
  <2>3. ASSUME NEW k \in DOMAIN runtimes, NEW l \in DOMAIN runtimes
        PROVE  /\ InTree(runtimes[k]) /\ IsReport(runtimes[k], runtimes[l])
                    => ShownUnder(listing, runtimes[k], runtimes[l])
               /\ ~InTree(runtimes[k]) => \A id \in runtimes[k].allowed : WrittenFor(runtimes[k], id)
               /\ InTree(runtimes[k]) /\ InTree(runtimes[l]) /\ ShownUnder(listing, runtimes[k], runtimes[l])
                    => IsReport(runtimes[k], runtimes[l])
    <3>1. PICK i \in DOMAIN g : FitsAgent(g, i, runtimes[k])
      BY <2>1
    <3>2. PICK j \in DOMAIN g : FitsAgent(g, j, runtimes[l])
      BY <2>1
    <3>3. ~InTree(runtimes[k]) => \A id \in runtimes[k].allowed : WrittenFor(runtimes[k], id)
      BY <3>1 DEF FitsAgent, InTree
    <3> QED
      BY <2>1, <2>2, <3>1, <3>2, <3>3, ReportsAreShown, ShownAreReports
  <2>4. TreeDelegation
    BY <2>3 DEF TreeDelegation, CanDelegateTo
  <2>5. ReportsAreGranted
    BY <2>3 DEF ReportsAreGranted, IsReport
  <2> QED
    BY <2>4, <2>5
<1>2. config = <<>> => TreeDelegation /\ ReportsAreGranted
  BY DEF TreeDelegation, ReportsAreGranted
<1>3. RoutingIsAdmitted
  BY DEF RoutingIsAdmitted, RouteAgents, PreflightCheck
<1> QED
  BY <1>1, <1>2, <1>3 DEF TeamIsSound

\* Team.TeamIsSound: where slugs are clear, an agent may hand writing work to exactly those the
\* dashboard shows below it, whatever is edited and reloaded, and routing foresees dispatch.
THEOREM TeamHolds == SlugsAreClear /\ TeamInit /\ [][TeamNext]_teamVars => []TeamIsSound
<1>1. TeamInit => TeamInv
  BY TeamStarts
<1>2. TeamInv /\ [TeamNext]_teamVars => TeamInv'
  BY TeamStays
<1>3. SlugsAreClear /\ TeamInv => TeamIsSound
  BY TeamFollows
<1>4. SlugsAreClear => [](TeamInv => TeamIsSound)
  <2> SUFFICES ASSUME SlugsAreClear PROVE [](TeamInv => TeamIsSound)
    OBVIOUS
  <2>1. TeamInv => TeamIsSound
    BY <1>3
  <2> QED
    BY <2>1, PTL
<1> QED
  BY <1>1, <1>2, <1>4, PTL

-----------------------------------------------------------------------------
(* The records of the daemon *)

\* Records.RecordsAreTrue: side by side, runs, teams and verdicts are kept and shown as they
\* were, if modes change between runs.
THEOREM RecordsHold == ~MidRun /\ RecordSpec => []RecordsAreTrue
<1>1. ~MidRun /\ RecordSpec => []SpansAreTrue
  BY SpansHold DEF RecordSpec
<1>2. RecordSpec => []VersionsAreTrue
  BY VersionsHold DEF RecordSpec
<1>3. RecordSpec => []VerdictsAreTrue
  BY VerdictsHold DEF RecordSpec
<1> QED
  BY <1>1, <1>2, <1>3, PTL DEF RecordsAreTrue
=============================================================================
