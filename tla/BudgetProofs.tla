---------------------------- MODULE BudgetProofs ----------------------------
(***************************************************************************)
(* Proofs about Budget for any workers, caps, gates and nesting of         *)
(* delegations, where TLC looks at two workers that run one at a time.     *)
(*                                                                         *)
(* BudgetInv says LedgerLag of every worker, so that a session that closes *)
(* leaves a ledger the next one may start from, and says where an          *)
(* exhausted mark comes from: the warning of the first listener.           *)
(*                                                                         *)
(* RecordInv is about the file, when delegations do not nest: the open     *)
(* session holds the file's branch and usage, and what its ledger wrote    *)
(* last is on the branch (Traced); so a ledger that does not lag means     *)
(* entries that do not, and a gate that reads them is not far off.         *)
(***************************************************************************)
EXTENDS Budget, TLAPS, FiniteSetTheorems

\* A ledger that is up to date, and its entries not far behind.
Lags(l) == l.since < MsgGate /\ Distance(l.tokens, l.written) < TokGate

\* What is known of a ledger at any time: a restored one may be off.
Within(l, total) == l.since < MsgGate /\ (l.tokens = total => Lags(l))

BudgetInv ==
  /\ TypeOK
  /\ \A a \in Agents : Within(ledger[a], session[a].total)
  /\ \A a \in Agents : exhausted[a] => hooks[a] # <<>> /\ "tokens" \in hooks[a][1]

Ledgers == [tokens : Nat, since : Nat, written : Nat]
Sessions == [counted : Nat, total : Nat, context : Nat \cup {None}, branch : Branch]
Outcomes == [ledger : Ledgers, branch : Branch, exhausted : BOOLEAN, aborted : BOOLEAN]

-----------------------------------------------------------------------------
(* The ledger's helpers *)

\* A sum of ledgers is a number, and at least each of its summands.
LEMMA SumIsNat ==
  ASSUME NEW S, IsFiniteSet(S), NEW f, \A s \in S : f[s] \in Nat
  PROVE  Sum(f, S) \in Nat /\ \A s \in S : Sum(f, S) >= f[s]
<1> DEFINE Units(s) == {s} \X (1 .. f[s])
           g == [s \in S |-> Units(s)]
           T == {Units(s) : s \in S}
<1>1. \A s \in S : IsFiniteSet(Units(s)) /\ Cardinality(Units(s)) = f[s]
  <2> TAKE s \in S
  <2>1. IsFiniteSet({s}) /\ Cardinality({s}) = 1
    BY FS_Singleton
  <2>2. IsFiniteSet(1 .. f[s]) /\ Cardinality(1 .. f[s]) = f[s]
    <3>1. f[s] \in Nat /\ 1 \in Int /\ f[s] \in Int
      OBVIOUS
    <3>2. IsFiniteSet(1 .. f[s]) /\ Cardinality(1 .. f[s]) = IF 1 > f[s] THEN 0 ELSE f[s] - 1 + 1
      BY <3>1, FS_Interval
    <3> QED
      BY <3>1, <3>2
  <2> DEFINE I == 1 .. f[s]
  <2>3. IsFiniteSet(I) /\ Cardinality(I) = f[s]
    BY <2>2
  <2> HIDE DEF I
  <2>4. IsFiniteSet({s} \X I) /\ Cardinality({s} \X I) = Cardinality({s}) * Cardinality(I)
    BY <2>1, <2>3, FS_Product
  <2>5. IsFiniteSet({s} \X I) /\ Cardinality({s} \X I) = f[s]
    BY <2>1, <2>3, <2>4
  <2> QED
    BY <2>5 DEF I
<1>2. g \in Surjection(S, T)
  BY DEF Surjection
<1>3. Sum(f, S) = Cardinality(UNION T) /\ \A s \in S : Units(s) \in T
  BY DEF Sum
<1>4. \A t \in T : \E s \in S : t = Units(s)
  OBVIOUS
<1> HIDE DEF Units, g, T
<1>5. IsFiniteSet(T)
  BY <1>2, FS_Surjection
<1>6. IsFiniteSet(UNION T)
  BY <1>1, <1>4, <1>5, FS_UNION
<1>7. ASSUME NEW s \in S PROVE Cardinality(UNION T) >= f[s]
  <2>1. Units(s) \subseteq UNION T
    BY <1>3
  <2>2. Cardinality(Units(s)) <= Cardinality(UNION T)
    BY <1>6, <2>1, FS_Subset
  <2> QED
    BY <1>1, <1>6, <2>2, FS_CardinalityType
<1> QED
  BY <1>3, <1>6, <1>7, FS_CardinalityType

\* An appended entry leaves a branch.
LEMMA AppendEntryTyped ==
  ASSUME NEW b \in Branch, NEW s \in Slugs, NEW n \in Nat
  PROVE  AppendEntry(b, s, n) \in Branch
  BY DEF AppendEntry, Branch

\* What a gate that has not fired says, and that writing makes the lag zero.
LEMMA CheckpointLags ==
  ASSUME NEW a \in Agents, NEW st \in Outcomes, st.ledger.since \in 0..MsgGate
  PROVE  /\ Checkpoint(a, st) \in Outcomes
         /\ Lags(Checkpoint(a, st).ledger)
         /\ Checkpoint(a, st).exhausted = st.exhausted
<1>1. CASE ShouldWriteCheckpoint(st.ledger)
  <2>1. AppendEntry(st.branch, a, st.ledger.tokens) \in Branch
    BY AppendEntryTyped DEF Outcomes, Ledgers, Slugs
  <2> DEFINE l == [tokens |-> st.ledger.tokens, since |-> 0, written |-> st.ledger.tokens]
             b == AppendEntry(st.branch, a, st.ledger.tokens)
  <2>2. l \in Ledgers /\ Lags(l)
    BY BudgetAssumption DEF Outcomes, Ledgers, Lags, Distance
  <2>3. Checkpoint(a, st) = [st EXCEPT !.ledger = l, !.branch = b]
    BY <1>1 DEF Checkpoint
  <2> HIDE DEF l, b
  <2>4. /\ Checkpoint(a, st).ledger = l
        /\ Checkpoint(a, st).exhausted = st.exhausted
        /\ Checkpoint(a, st) \in Outcomes
    BY <2>1, <2>2, <2>3 DEF b, Outcomes
  <2> QED
    BY <2>2, <2>4
<1>2. CASE ~ShouldWriteCheckpoint(st.ledger)
  <2>1. Checkpoint(a, st) = st
    BY <1>2 DEF Checkpoint
  <2>2. Lags(st.ledger)
    BY <1>2, BudgetAssumption DEF ShouldWriteCheckpoint, Distance, Lags, Outcomes, Ledgers
  <2> QED
    BY <2>1, <2>2
<1> QED
  BY <1>1, <1>2

\* recordEvent from a ledger within its lag ends within it.
LEMMA RecordEventLags ==
  ASSUME NEW a \in Agents, NEW st \in Outcomes, st.ledger.since < MsgGate, NEW total \in Nat
  PROVE  /\ RecordEvent(a, st, total) \in Outcomes
         /\ Lags(RecordEvent(a, st, total).ledger)
         /\ RecordEvent(a, st, total).exhausted = st.exhausted
<1> DEFINE seen == [st EXCEPT !.ledger = [tokens |-> total, since |-> @.since + 1, written |-> @.written]]
<1>1. seen \in Outcomes /\ seen.ledger.since \in 0..MsgGate /\ seen.exhausted = st.exhausted
  BY BudgetAssumption DEF Outcomes, Ledgers
<1>2. RecordEvent(a, st, total) = Checkpoint(a, seen)
  BY DEF RecordEvent
<1> HIDE DEF seen
<1> QED
  BY <1>1, <1>2, CheckpointLags

\* So does maybeSnapshot, which finds nothing to write after recordEvent.
LEMMA MaybeSnapshotLags ==
  ASSUME NEW a \in Agents, NEW st \in Outcomes, st.ledger.since < MsgGate, NEW total \in Nat
  PROVE  /\ MaybeSnapshot(a, st, total) \in Outcomes
         /\ Lags(MaybeSnapshot(a, st, total).ledger)
         /\ MaybeSnapshot(a, st, total).exhausted = st.exhausted
<1> DEFINE seen == [st EXCEPT !.ledger = [tokens |-> total, since |-> @.since, written |-> @.written]]
<1>1. seen \in Outcomes /\ seen.ledger.since \in 0..MsgGate /\ seen.exhausted = st.exhausted
  BY BudgetAssumption DEF Outcomes, Ledgers
<1>2. MaybeSnapshot(a, st, total) = Checkpoint(a, seen)
  BY DEF MaybeSnapshot
<1> HIDE DEF seen
<1> QED
  BY <1>1, <1>2, CheckpointLags

\* One listener: the lag is kept, and exhaustion is only set where the warning is due.
LEMMA OnMessageEndLags ==
  ASSUME NEW a \in Agents, NEW st \in Outcomes, st.ledger.since < MsgGate, NEW total \in Nat,
         NEW context \in Nat \cup {None}, NEW contexts
  PROVE  /\ OnMessageEnd(a, st, total, context, contexts) \in Outcomes
         /\ Lags(OnMessageEnd(a, st, total, context, contexts).ledger)
         /\ OnMessageEnd(a, st, total, context, contexts).exhausted
              => st.exhausted \/ "tokens" \in Near(total, context)
<1> DEFINE recorded == RecordEvent(a, st, total)
           snapped == MaybeSnapshot(a, recorded, total)
           spent == {d \in Spent(total, context, contexts) : action[d] # "none"}
           after == OnMessageEnd(a, st, total, context, contexts)
<1>1. recorded \in Outcomes /\ Lags(recorded.ledger) /\ recorded.exhausted = st.exhausted
  BY RecordEventLags
<1>2. snapped \in Outcomes /\ Lags(snapped.ledger) /\ snapped.exhausted = st.exhausted
  <2> HIDE DEF recorded
  <2> QED
    BY <1>1, MaybeSnapshotLags DEF Lags
<1>3. after = [snapped EXCEPT !.exhausted = @ \/ "tokens" \in spent,
                              !.aborted = @ \/ \E d \in spent : action[d] = "abort"]
  BY DEF OnMessageEnd
<1>4. "tokens" \in spent => "tokens" \in Near(total, context)
  <2>1. UsedUp(WorkerCap, total) => NearLimit(WorkerCap, total)
    BY BudgetAssumption DEF UsedUp, NearLimit, Remaining
  <2> QED
    BY <2>1 DEF Spent, Near, Dims
<1>5. /\ after.ledger = snapped.ledger
      /\ after.branch = snapped.branch
      /\ after.exhausted = (snapped.exhausted \/ "tokens" \in spent)
      /\ after \in Outcomes
  <2> HIDE DEF snapped, spent
  <2> QED
    BY <1>2, <1>3, Zenon DEF Outcomes
<1> HIDE DEF recorded, snapped, spent, after
<1>6. after \in Outcomes /\ Lags(after.ledger) /\ (after.exhausted => st.exhausted \/ "tokens" \in Near(total, context))
  BY <1>2, <1>4, <1>5
<1> QED
  BY <1>6 DEF after

\* All the listeners of a session.
LEMMA AllListenersLag ==
  ASSUME NEW a \in Agents, NEW st \in Outcomes, st.ledger.since < MsgGate, NEW total \in Nat,
         NEW context \in Nat \cup {None}, NEW contexts
  PROVE  /\ AllListeners(a, st, total, context, contexts) \in Outcomes
         /\ Lags(AllListeners(a, st, total, context, contexts).ledger)
         /\ AllListeners(a, st, total, context, contexts).exhausted
              => st.exhausted \/ "tokens" \in Near(total, context)
<1> DEFINE first == OnMessageEnd(a, st, total, context, contexts)
           second == OnMessageEnd(a, first, total, context, contexts)
<1>1. /\ first \in Outcomes /\ Lags(first.ledger)
      /\ first.exhausted => st.exhausted \/ "tokens" \in Near(total, context)
  BY OnMessageEndLags
<1>2. /\ second \in Outcomes /\ Lags(second.ledger)
      /\ second.exhausted => first.exhausted \/ "tokens" \in Near(total, context)
  <2> HIDE DEF first
  <2> QED
    BY <1>1, OnMessageEndLags DEF Lags
<1>3. AllListeners(a, st, total, context, contexts) = first
        \/ AllListeners(a, st, total, context, contexts) = second
  BY DEF AllListeners
<1> HIDE DEF first, second
<1> QED
  BY <1>1, <1>2, <1>3

-----------------------------------------------------------------------------
(* The actions *)

\* The initial state.
LEMMA InitBudget == Init => BudgetInv
  BY BudgetAssumption
  DEF Init, BudgetInv, TypeOK, Usage, Branch, Slugs, EmptyBranch, NoSession, NoLedger, Lags, Within, Distance

\* A delegation starts with a ledger that is level with the branch.
LEMMA DelegateKeeps ==
  ASSUME BudgetInv, NEW a \in Agents, Delegate(a)
  PROVE  BudgetInv'
<1> USE DEF BudgetInv
<1>1. Restored(thread) \in Ledgers /\ Lags(Restored(thread))
  BY BudgetAssumption DEF Restored, TypeOK, Branch, Ledgers, Lags, Distance
<1>2. [counted |-> filed.counted, total |-> filed.total, context |-> None, branch |-> thread] \in Sessions
  BY DEF TypeOK, Usage, Sessions
<1>3. handles' \in Seq(Agents)
  BY DEF Delegate, TypeOK
<1>4. ledger' \in [Agents -> Ledgers]
      /\ \A b \in Agents : Within(ledger'[b], session'[b].total)
  BY <1>1 DEF Delegate, TypeOK, Ledgers, Lags, Within
<1>5. session' \in [Agents -> Sessions]
  BY <1>2 DEF Delegate, TypeOK, Sessions
<1>6. hooks' \in [Agents -> Seq(SUBSET Dims)]
  BY DEF Delegate, TypeOK
<1>7. \A b \in Agents : exhausted'[b] => hooks'[b] # <<>> /\ "tokens" \in hooks'[b][1]
  BY DEF Delegate, TypeOK
<1>8. aborted' \in [Agents -> BOOLEAN] /\ exhausted' \in [Agents -> BOOLEAN]
  BY DEF Delegate, TypeOK
<1>9. UNCHANGED <<action, nested, filed, thread, runtimeContext>>
  BY DEF Delegate, policyVars, fileVars
<1> QED
  BY <1>3, <1>4, <1>5, <1>6, <1>7, <1>8, <1>9 DEF TypeOK, Sessions, Ledgers

\* A message goes through the listeners.
LEMMA MessageEndKeeps ==
  ASSUME BudgetInv, NEW a \in Agents, NEW m \in Messages, NEW c \in Contexts \cup {None},
         MessageEnd(a, m, c)
  PROVE  BudgetInv'
<1> DEFINE total == session[a].total + m[1] + m[2]
           contexts == IF c = None THEN runtimeContext ELSE [runtimeContext EXCEPT ![a] = c]
           before == [ledger |-> ledger[a], branch |-> session[a].branch,
                      exhausted |-> exhausted[a], aborted |-> aborted[a]]
           after == AllListeners(a, before, total, c, contexts)
           held == [counted |-> session[a].counted + m[1], total |-> total, context |-> c,
                    branch |-> after.branch]
<1>1. m[1] \in Nat /\ m[2] \in Nat /\ c \in Nat \cup {None}
  BY BudgetAssumption
<1>2. total \in Nat /\ session[a].counted + m[1] \in Nat
  <2>1. session[a].total \in Nat /\ session[a].counted \in Nat
    BY DEF BudgetInv, TypeOK
  <2> QED
    BY <1>1, <2>1
<1>3. before \in Outcomes /\ before.ledger.since < MsgGate
  BY DEF BudgetInv, Within, TypeOK, Outcomes, Ledgers
<1>4. /\ after \in Outcomes /\ Lags(after.ledger)
      /\ after.exhausted => before.exhausted \/ "tokens" \in Near(total, c)
  <2> HIDE DEF total, contexts, before
  <2> QED
    BY <1>1, <1>2, <1>3, AllListenersLag
<1>5. /\ a \in Open
      /\ filed' = [counted |-> filed.counted + m[1], total |-> filed.total + m[1] + m[2]]
      /\ session' = [session EXCEPT ![a] = held]
      /\ thread' = after.branch
      /\ ledger' = [ledger EXCEPT ![a] = after.ledger]
      /\ hooks' = [hooks EXCEPT ![a] = [i \in DOMAIN @ |-> @[i] \cup Near(total, c)]]
      /\ exhausted' = [exhausted EXCEPT ![a] = after.exhausted]
      /\ aborted' = [aborted EXCEPT ![a] = after.aborted]
      /\ runtimeContext' = contexts
      /\ UNCHANGED <<action, nested, handles>>
  BY DEF MessageEnd, policyVars
<1>6. runtimeContext' \in [Agents -> Nat]
  BY <1>1, <1>5 DEF BudgetInv, TypeOK
<1>7. filed' \in Usage
  <2>1. filed.counted + m[1] \in Nat /\ filed.total + m[1] + m[2] \in Nat
    <3>1. filed.counted \in Nat /\ filed.total \in Nat
      BY DEF BudgetInv, TypeOK, Usage
    <3> QED
      BY <1>1, <3>1
  <2> QED
    BY <1>5, <2>1 DEF Usage
<1>8. exhausted[a] => "tokens" \in hooks[a][1]
  BY DEF BudgetInv
<1>9. before.exhausted = exhausted[a]
  OBVIOUS
<1> HIDE DEF total, contexts, before, after
<1>10. held \in Sessions /\ after.branch \in Branch /\ after.ledger \in Ledgers
       /\ after.exhausted \in BOOLEAN /\ after.aborted \in BOOLEAN
  BY <1>1, <1>2, <1>4 DEF Outcomes, Sessions
<1> HIDE DEF held
<1>11. /\ session' \in [Agents -> Sessions]
       /\ ledger' \in [Agents -> Ledgers]
       /\ \A b \in Agents : Within(ledger'[b], session'[b].total)
       /\ exhausted' \in [Agents -> BOOLEAN] /\ aborted' \in [Agents -> BOOLEAN]
       /\ thread' \in Branch
  BY <1>4, <1>5, <1>10 DEF BudgetInv, Within, Lags, TypeOK, Sessions, Ledgers
<1>12. hooks[a] \in Seq(SUBSET Dims) /\ hooks[a] # <<>> /\ Near(total, c) \subseteq Dims
  BY <1>5 DEF BudgetInv, TypeOK, Open, Near
<1> DEFINE keys == [i \in DOMAIN hooks[a] |-> hooks[a][i] \cup Near(total, c)]
<1>13. keys \in Seq(SUBSET Dims) /\ keys # <<>> /\ keys[1] = hooks[a][1] \cup Near(total, c)
  <2>1. DOMAIN hooks[a] = 1..Len(hooks[a]) /\ Len(hooks[a]) \in Nat /\ 1 \in DOMAIN hooks[a]
    BY <1>12
  <2>2. \A i \in 1..Len(hooks[a]) : keys[i] \in SUBSET Dims
    BY <1>12, <2>1
  <2> QED
    BY <2>1, <2>2
<1>14. hooks' = [hooks EXCEPT ![a] = keys]
  BY <1>5
<1> HIDE DEF keys
<1>15. /\ hooks' \in [Agents -> Seq(SUBSET Dims)] /\ hooks'[a] = keys
       /\ exhausted'[a] = after.exhausted
       /\ \A b \in Agents \ {a} : hooks'[b] = hooks[b] /\ exhausted'[b] = exhausted[b]
  <2>1. hooks \in [Agents -> Seq(SUBSET Dims)] /\ exhausted \in [Agents -> BOOLEAN]
    BY DEF BudgetInv, TypeOK
  <2>2. /\ hooks' \in [Agents -> Seq(SUBSET Dims)] /\ hooks'[a] = keys
        /\ \A b \in Agents \ {a} : hooks'[b] = hooks[b]
    BY <1>13, <1>14, <2>1
  <2>3. /\ exhausted'[a] = after.exhausted
        /\ \A b \in Agents \ {a} : exhausted'[b] = exhausted[b]
    BY <1>5, <2>1
  <2> QED
    BY <2>2, <2>3
<1>16. \A b \in Agents : exhausted'[b] => hooks'[b] # <<>> /\ "tokens" \in hooks'[b][1]
  BY <1>4, <1>8, <1>9, <1>13, <1>15 DEF BudgetInv
<1> QED
  BY <1>5, <1>6, <1>7, <1>11, <1>15, <1>16 DEF BudgetInv, TypeOK, Sessions, Ledgers

\* A snapshot makes the entries level with the stats and the lag no larger.
LEMMA SnapshotTyped ==
  ASSUME BudgetInv, NEW a \in Agents
  PROVE  /\ AppendEntry(session[a].branch, a, session[a].total) \in Branch
         /\ SnapshotLedger(ledger[a], session[a].total) \in Ledgers
<1>1. session[a].branch \in Branch /\ session[a].total \in Nat /\ a \in Slugs
  BY DEF BudgetInv, TypeOK, Slugs
<1> QED
  BY <1>1, AppendEntryTyped DEF SnapshotLedger, BudgetInv, TypeOK, Ledgers

\* What a snapshot leaves of one session.
LEMMA SnapshotWithin ==
  ASSUME BudgetInv, NEW a \in Agents
  PROVE  Within(SnapshotLedger(ledger[a], session[a].total), session[a].total)
<1>1. ledger[a].tokens \in Nat /\ session[a].total \in Nat
  BY DEF BudgetInv, TypeOK
<1> QED
  BY <1>1, BudgetAssumption DEF SnapshotLedger, Within, Lags, Distance

\* A session to which an entry was appended, whatever becomes of its context.
LEMMA WriteKeeps ==
  ASSUME BudgetInv, NEW a \in Agents, NEW c \in Nat \cup {None},
         NEW b, b = AppendEntry(session[a].branch, a, session[a].total),
         session' = [session EXCEPT ![a].branch = b, ![a].context = c],
         thread' = b,
         ledger' = [ledger EXCEPT ![a] = SnapshotLedger(@, session[a].total)]
  PROVE  /\ session' \in [Agents -> Sessions] /\ thread' \in Branch
         /\ ledger' \in [Agents -> Ledgers]
         /\ \A d \in Agents : Within(ledger'[d], session'[d].total)
<1> DEFINE l == SnapshotLedger(ledger[a], session[a].total)
<1>1. b \in Branch /\ l \in Ledgers /\ Within(l, session[a].total)
  BY SnapshotTyped, SnapshotWithin
<1>2. session \in [Agents -> Sessions] /\ ledger \in [Agents -> Ledgers]
      /\ \A d \in Agents : Within(ledger[d], session[d].total)
  BY DEF BudgetInv, TypeOK, Sessions, Ledgers
<1>3. ledger' = [ledger EXCEPT ![a] = l]
  OBVIOUS
<1> HIDE DEF l
<1> DEFINE s == [session[a] EXCEPT !.branch = b, !.context = c]
<1>4. session' = [session EXCEPT ![a] = s]
  BY <1>2
<1>5. s \in Sessions /\ s.total = session[a].total
  BY <1>1, <1>2 DEF Sessions
<1> HIDE DEF s
<1>6. session' \in [Agents -> Sessions] /\ ledger' \in [Agents -> Ledgers]
  <2>1. session' \in [Agents -> Sessions]
    BY <1>2, <1>4, <1>5
  <2>2. ledger' \in [Agents -> Ledgers]
    BY <1>1, <1>2, <1>3
  <2> QED
    BY <2>1, <2>2
<1>7. /\ session'[a].total = session[a].total /\ ledger'[a] = l
      /\ \A d \in Agents \ {a} : session'[d] = session[d] /\ ledger'[d] = ledger[d]
  BY <1>2, <1>3, <1>4, <1>5
<1>8. \A d \in Agents : Within(ledger'[d], session'[d].total)
  BY <1>1, <1>2, <1>7
<1> QED
  BY <1>1, <1>6, <1>8

\* The parts of BudgetInv put together.
LEMMA Assemble ==
  ASSUME action' \in Policies, nested' \in Nestings, filed' \in Usage, thread' \in Branch,
         handles' \in Seq(Agents), session' \in [Agents -> Sessions],
         ledger' \in [Agents -> Ledgers], hooks' \in [Agents -> Seq(SUBSET Dims)],
         aborted' \in [Agents -> BOOLEAN], exhausted' \in [Agents -> BOOLEAN],
         runtimeContext' \in [Agents -> Nat],
         \A a \in Agents : Within(ledger'[a], session'[a].total),
         \A a \in Agents : exhausted'[a] => hooks'[a] # <<>> /\ "tokens" \in hooks'[a][1]
  PROVE  BudgetInv'
  BY DEF BudgetInv, TypeOK, Sessions, Ledgers

\* A snapshot alone.
LEMMA SnapshotKeeps ==
  ASSUME BudgetInv, NEW a \in Agents, Snapshot(a)
  PROVE  BudgetInv'
<1> DEFINE b == AppendEntry(session[a].branch, a, session[a].total)
<1>1. session[a].context \in Nat \cup {None} /\ session \in [Agents -> Sessions]
  BY DEF BudgetInv, TypeOK, Sessions
<1>2. thread' = b /\ ledger' = [ledger EXCEPT ![a] = SnapshotLedger(@, session[a].total)]
      /\ session' = [session EXCEPT ![a].branch = b]
  BY DEF Snapshot, WriteSnapshot
<1> HIDE DEF b
<1>3. session' = [session EXCEPT ![a].branch = b, ![a].context = session[a].context]
  BY <1>1, <1>2 DEF Sessions
<1>4. /\ session' \in [Agents -> Sessions] /\ thread' \in Branch
      /\ ledger' \in [Agents -> Ledgers]
      /\ \A d \in Agents : Within(ledger'[d], session'[d].total)
  BY <1>1, <1>2, <1>3, WriteKeeps DEF b
<1> QED
  BY <1>4, Assemble DEF Snapshot, policyVars, BudgetInv, TypeOK

\* A compaction.
LEMMA CompactKeeps ==
  ASSUME BudgetInv, NEW a \in Agents, Compact(a)
  PROVE  BudgetInv'
<1>1. /\ session' \in [Agents -> Sessions] /\ thread' \in Branch
      /\ ledger' \in [Agents -> Ledgers]
      /\ \A d \in Agents : Within(ledger'[d], session'[d].total)
  BY WriteKeeps DEF Compact
<1> QED
  BY <1>1, Assemble DEF Compact, policyVars, BudgetInv, TypeOK

\* A resume: one more listener, whose warnings start over.
LEMMA ResumeKeeps ==
  ASSUME BudgetInv, NEW a \in Agents, Resume(a)
  PROVE  BudgetInv'
<1> DEFINE b == AppendEntry(session[a].branch, a, session[a].total)
<1>1. session[a].context \in Nat \cup {None} /\ session \in [Agents -> Sessions]
  BY DEF BudgetInv, TypeOK, Sessions
<1>2. thread' = b /\ ledger' = [ledger EXCEPT ![a] = SnapshotLedger(@, session[a].total)]
      /\ session' = [session EXCEPT ![a].branch = b]
  BY DEF Resume, WriteSnapshot
<1> HIDE DEF b
<1>3. session' = [session EXCEPT ![a].branch = b, ![a].context = session[a].context]
  BY <1>1, <1>2 DEF Sessions
<1>4. /\ session' \in [Agents -> Sessions] /\ thread' \in Branch
      /\ ledger' \in [Agents -> Ledgers]
      /\ \A d \in Agents : Within(ledger'[d], session'[d].total)
  BY <1>1, <1>2, <1>3, WriteKeeps DEF b
<1>5. hooks \in [Agents -> Seq(SUBSET Dims)]
  BY DEF BudgetInv, TypeOK
<1> DEFINE keys == Append(hooks[a], {})
<1>6. keys \in Seq(SUBSET Dims) /\ keys # <<>> /\ (hooks[a] # <<>> => keys[1] = hooks[a][1])
  BY <1>5
<1>7. hooks' = [hooks EXCEPT ![a] = keys] /\ exhausted' = exhausted
  BY DEF Resume
<1> HIDE DEF keys
<1>8. /\ hooks' \in [Agents -> Seq(SUBSET Dims)]
      /\ \A d \in Agents : exhausted'[d] => hooks'[d] # <<>> /\ "tokens" \in hooks'[d][1]
  BY <1>5, <1>6, <1>7 DEF BudgetInv
<1> QED
  BY <1>4, <1>8, Assemble DEF Resume, policyVars, BudgetInv, TypeOK

\* Sessions that are forgotten carry neither a mark nor a listener.
LEMMA ForgetKeeps ==
  ASSUME BudgetInv, NEW S, Forget(S)
  PROVE  /\ hooks' \in [Agents -> Seq(SUBSET Dims)]
         /\ aborted' \in [Agents -> BOOLEAN] /\ exhausted' \in [Agents -> BOOLEAN]
         /\ \A d \in Agents : exhausted'[d] => hooks'[d] # <<>> /\ "tokens" \in hooks'[d][1]
<1>1. /\ hooks \in [Agents -> Seq(SUBSET Dims)]
      /\ aborted \in [Agents -> BOOLEAN] /\ exhausted \in [Agents -> BOOLEAN]
  BY DEF BudgetInv, TypeOK
<1>2. hooks' \in [Agents -> Seq(SUBSET Dims)]
  BY <1>1 DEF Forget
<1>3. aborted' \in [Agents -> BOOLEAN] /\ exhausted' \in [Agents -> BOOLEAN]
  BY <1>1 DEF Forget
<1>4. \A d \in Agents : exhausted'[d] => hooks'[d] # <<>> /\ "tokens" \in hooks'[d][1]
  BY <1>1 DEF Forget, BudgetInv
<1> QED
  BY <1>2, <1>3, <1>4

\* Removing a handle leaves a sequence of workers.
LEMMA UnregisterTyped ==
  ASSUME handles \in Seq(Agents), NEW a \in Agents, Unregister(a)
  PROVE  handles' \in Seq(Agents)
  BY DEF Unregister, RemoveAt

\* What is left of a session that is gone.
LEMMA NoneLeft ==
  /\ NoSession \in Sessions /\ NoLedger \in Ledgers
  /\ Within(NoLedger, NoSession.total)
  BY BudgetAssumption
  DEF NoSession, NoLedger, Sessions, Ledgers, Within, Lags, Distance, Branch, EmptyBranch, Slugs

\* The end of a run, with or without a last snapshot.
LEMMA EndKeeps ==
  ASSUME BudgetInv, NEW a \in Agents, Unregister(a), Forget({a}), thread' \in Branch,
         session' = [session EXCEPT ![a] = NoSession],
         ledger' = [ledger EXCEPT ![a] = NoLedger],
         UNCHANGED <<policyVars, filed, runtimeContext>>
  PROVE  BudgetInv'
<1>1. session \in [Agents -> Sessions] /\ ledger \in [Agents -> Ledgers]
      /\ \A d \in Agents : Within(ledger[d], session[d].total)
  BY DEF BudgetInv, TypeOK, Sessions, Ledgers
<1>2. /\ session' \in [Agents -> Sessions] /\ ledger' \in [Agents -> Ledgers]
      /\ \A d \in Agents : Within(ledger'[d], session'[d].total)
  BY <1>1, NoneLeft
<1>3. handles' \in Seq(Agents)
  BY UnregisterTyped DEF BudgetInv, TypeOK
<1> QED
  BY <1>2, <1>3, ForgetKeeps, Assemble DEF policyVars, BudgetInv, TypeOK

LEMMA CloseKeeps ==
  ASSUME BudgetInv, NEW a \in Agents, Close(a)
  PROVE  BudgetInv'
  BY EndKeeps DEF Close, BudgetInv, TypeOK, fileVars

LEMMA ForceKillKeeps ==
  ASSUME BudgetInv, NEW a \in Agents, ForceKill(a)
  PROVE  BudgetInv'
  BY EndKeeps, SnapshotTyped DEF ForceKill

\* A crash.
LEMMA CrashKeeps ==
  ASSUME BudgetInv, Crash
  PROVE  BudgetInv'
<1>1. /\ session' \in [Agents -> Sessions] /\ ledger' \in [Agents -> Ledgers]
      /\ \A d \in Agents : Within(ledger'[d], session'[d].total)
  BY NoneLeft DEF Crash
<1>2. handles' \in Seq(Agents) /\ runtimeContext' \in [Agents -> Nat]
  BY DEF Crash
<1> QED
  BY <1>1, <1>2, ForgetKeeps, Assemble DEF Crash, policyVars, fileVars, BudgetInv, TypeOK

\* What the ledgers of the open sessions add up to.
LEMMA LedgersSum ==
  ASSUME BudgetInv
  PROVE  Sum([b \in Agents |-> ledger[b].tokens], Open) \in Nat
<1> DEFINE f == [b \in Agents |-> ledger[b].tokens]
<1>1. Open \subseteq Agents /\ IsFiniteSet(Open)
  BY BudgetAssumption, FS_Subset DEF Open, BudgetInv, TypeOK
<1>2. \A b \in Agents : f[b] \in Nat
  BY DEF BudgetInv, TypeOK
<1> HIDE DEF f
<1>3. Sum(f, Open) \in Nat
  BY <1>1, <1>2, SumIsNat
<1> QED
  BY <1>3 DEF f

\* A tear-down of all the sessions.
LEMMA TearDownAllKeeps ==
  ASSUME BudgetInv, NEW force \in BOOLEAN, TearDownAll(force)
  PROVE  BudgetInv'
<1> DEFINE first == handles[1]
           total == Sum([a \in Agents |-> ledger[a].tokens], Open)
           ended == [a \in Agents |-> IF a \in Open
                     THEN [session[a] EXCEPT !.branch = AppendEntry(@, a, session[a].total)]
                     ELSE session[a]]
           team == AppendEntry(ended[first].branch, Team, total)
<1>1. session \in [Agents -> Sessions] /\ ledger \in [Agents -> Ledgers]
      /\ \A d \in Agents : Within(ledger[d], session[d].total)
  BY DEF BudgetInv, TypeOK, Sessions, Ledgers
<1>2. first \in Agents
  BY DEF TearDownAll, BudgetInv, TypeOK
<1>3. ended \in [Agents -> Sessions] /\ \A a \in Agents : ended[a].total = session[a].total
  <2> SUFFICES ASSUME NEW a \in Agents
               PROVE  ended[a] \in Sessions /\ ended[a].total = session[a].total
    OBVIOUS
  <2> DEFINE b == AppendEntry(session[a].branch, a, session[a].total)
  <2>1. b \in Branch /\ session[a] \in Sessions
    BY <1>1, SnapshotTyped
  <2>2. ended[a] = IF a \in Open THEN [session[a] EXCEPT !.branch = b] ELSE session[a]
    OBVIOUS
  <2> HIDE DEF b, ended
  <2> QED
    BY <2>1, <2>2 DEF Sessions
<1>4. team \in Branch
  <2>1. total \in Nat
    BY LedgersSum
  <2>2. ended[first].branch \in Branch
    BY <1>2, <1>3 DEF Sessions
  <2> HIDE DEF total, ended, first
  <2> QED
    BY <2>1, <2>2, AppendEntryTyped DEF Slugs
<1>5. thread' = team /\ UNCHANGED <<policyVars, filed, runtimeContext>>
  BY DEF TearDownAll
<1>6. CASE force
  <2>1. /\ handles' = <<>> /\ Forget(Open)
        /\ session' = [a \in Agents |-> NoSession] /\ ledger' = [a \in Agents |-> NoLedger]
    BY <1>6 DEF TearDownAll
  <2> HIDE DEF team
  <2>2. /\ session' \in [Agents -> Sessions] /\ ledger' \in [Agents -> Ledgers]
        /\ \A d \in Agents : Within(ledger'[d], session'[d].total)
    BY <2>1, NoneLeft
  <2>3. handles' \in Seq(Agents)
    BY <2>1
  <2> QED
    BY <1>4, <1>5, <2>1, <2>2, <2>3, ForgetKeeps, Assemble DEF policyVars, BudgetInv, TypeOK
<1>7. CASE ~force
  <2>1. /\ session' = [ended EXCEPT ![first].branch = team]
        /\ ledger' = [a \in Agents |-> IF a \in Open
                      THEN SnapshotLedger(ledger[a], session[a].total) ELSE ledger[a]]
        /\ UNCHANGED <<handles, hooks, aborted, exhausted>>
    BY <1>7 DEF TearDownAll
  <2> HIDE DEF team, ended, first
  <2> DEFINE s == [ended[first] EXCEPT !.branch = team]
  <2>2. s \in Sessions /\ s.total = session[first].total
    BY <1>2, <1>3, <1>4 DEF Sessions
  <2>3. session' = [ended EXCEPT ![first] = s]
    BY <1>3, <2>1
  <2> HIDE DEF s
  <2>4. session' \in [Agents -> Sessions] /\ \A a \in Agents : session'[a].total = session[a].total
    BY <1>2, <1>3, <2>2, <2>3
  <2>5. \A a \in Agents : ledger'[a] \in Ledgers /\ Within(ledger'[a], session[a].total)
    BY <1>1, <2>1, SnapshotTyped, SnapshotWithin
  <2>6. ledger' \in [Agents -> Ledgers] /\ \A a \in Agents : Within(ledger'[a], session'[a].total)
    BY <2>1, <2>4, <2>5
  <2> QED
    BY <1>4, <1>5, <2>1, <2>4, <2>6, Assemble DEF policyVars, BudgetInv, TypeOK
<1> QED
  BY <1>6, <1>7

-----------------------------------------------------------------------------
(* The theorems *)

\* Every step keeps the invariant.
LEMMA NextBudget == BudgetInv /\ [Next]_vars => BudgetInv'
<1> SUFFICES ASSUME BudgetInv, [Next]_vars PROVE BudgetInv'
  OBVIOUS
<1>1. ASSUME NEW a \in Agents, Delegate(a) PROVE BudgetInv'
  BY <1>1, DelegateKeeps
<1>2. ASSUME NEW a \in Agents, NEW m \in Messages, NEW c \in Contexts \cup {None}, MessageEnd(a, m, c)
      PROVE  BudgetInv'
  BY <1>2, MessageEndKeeps
<1>3. ASSUME NEW a \in Agents, Snapshot(a) PROVE BudgetInv'
  BY <1>3, SnapshotKeeps
<1>4. ASSUME NEW a \in Agents, Compact(a) PROVE BudgetInv'
  BY <1>4, CompactKeeps
<1>5. ASSUME NEW a \in Agents, Resume(a) PROVE BudgetInv'
  BY <1>5, ResumeKeeps
<1>6. ASSUME NEW a \in Agents, Close(a) PROVE BudgetInv'
  BY <1>6, CloseKeeps
<1>7. ASSUME NEW a \in Agents, ForceKill(a) PROVE BudgetInv'
  BY <1>7, ForceKillKeeps
<1>8. ASSUME NEW force \in BOOLEAN, TearDownAll(force) PROVE BudgetInv'
  BY <1>8, TearDownAllKeeps
<1>9. CASE Crash
  BY <1>9, CrashKeeps
<1>10. CASE UNCHANGED vars
  BY <1>10 DEF vars, policyVars, fileVars, runVars, BudgetInv, TypeOK, Within, Lags, Usage, Branch
<1> QED
  BY <1>1, <1>2, <1>3, <1>4, <1>5, <1>6, <1>7, <1>8, <1>9, <1>10 DEF Next

\* The inductive invariant holds in every behaviour.
THEOREM BudgetInvariant == Spec => []BudgetInv
  BY InitBudget, NextBudget, PTL DEF Spec

\* The variables keep their types under any policy, also with nested delegations.
THEOREM BudgetTypeCorrect == Spec => []TypeOK
<1>1. BudgetInv => TypeOK
  BY DEF BudgetInv
<1> QED
  BY <1>1, BudgetInvariant, PTL

\* A ledger that has caught up with its session is less than the gates away from what
\* it has written, for any sizes of the gates (shouldWriteCheckpoint).
THEOREM LedgerNeverLags == Spec => []LedgerLag
<1>1. BudgetInv => LedgerLag
  BY DEF BudgetInv, LedgerLag, Within, Lags, Open
<1> QED
  BY <1>1, BudgetInvariant, PTL

\* No session is marked exhausted for its tokens before its first listener warned of it.
THEOREM ExhaustionIsAnnounced == Spec => []WarnedBeforeExhausted
<1>1. BudgetInv => WarnedBeforeExhausted
  BY DEF BudgetInv, WarnedBeforeExhausted, Open
<1> QED
  BY <1>1, BudgetInvariant, PTL

-----------------------------------------------------------------------------
(* The file, with one worker open at a time *)

\* What a ledger has written last is on its branch, and is the newest entry unless a
\* tear-down wrote one since.
Traced(b, l) ==
  /\ b.by # Team => b.newest = l.written
  /\ \E s \in Slugs : b.latest[s] = l.written

\* One worker at a time: the handles are those of the open session.
Alone ==
  \/ handles = <<>> /\ Open = {}
  \/ \E a \in Agents : handles = <<a>> /\ Open = {a}

\* The open session holds the branch and the usage of the file.
HoldsTheFile ==
  \A a \in Open :
    /\ session[a].branch = thread
    /\ session[a].total = filed.total
    /\ Traced(thread, ledger[a])

\* The newest entry is the newest of its slug, and some slug's is not far behind the file.
BranchRecords ==
  /\ \E s \in Slugs : thread.latest[s] = thread.newest
  /\ \E s \in Slugs : thread.latest[s] > filed.total - TokGate

RecordInv == ~nested => Alone /\ HoldsTheFile /\ BranchRecords /\ SpendOnRecord

\* Some slug's newest entry is the branch's.
NewestIsSomeones(b) == \E s \in Slugs : b.latest[s] = b.newest

\* What the listeners keep of a session.
InStep(st) == Traced(st.branch, st.ledger) /\ NewestIsSomeones(st.branch)

\* An entry is the newest of the branch and of its slug, and nobody else's.
LEMMA AppendEntryTraces ==
  ASSUME NEW b \in Branch, NEW s \in Slugs, NEW n \in Nat
  PROVE  /\ AppendEntry(b, s, n).newest = n
         /\ AppendEntry(b, s, n).by = s
         /\ AppendEntry(b, s, n).latest[s] = n
         /\ \A r \in Slugs \ {s} : AppendEntry(b, s, n).latest[r] = b.latest[r]
         /\ NewestIsSomeones(AppendEntry(b, s, n))
<1>1. b.latest \in [Slugs -> Nat]
  BY DEF Branch
<1>2. /\ AppendEntry(b, s, n).newest = n
      /\ AppendEntry(b, s, n).by = s
      /\ AppendEntry(b, s, n).latest = [b.latest EXCEPT ![s] = n]
  BY DEF AppendEntry
<1> QED
  BY <1>1, <1>2 DEF NewestIsSomeones

\* A checkpoint leaves ledger and branch in step, and the tokens alone.
LEMMA CheckpointInStep ==
  ASSUME NEW a \in Agents, NEW st \in Outcomes, InStep(st)
  PROVE  /\ InStep(Checkpoint(a, st))
         /\ Checkpoint(a, st).ledger.tokens = st.ledger.tokens
<1>1. CASE ShouldWriteCheckpoint(st.ledger)
  <2> DEFINE l == [tokens |-> st.ledger.tokens, since |-> 0, written |-> st.ledger.tokens]
             b == AppendEntry(st.branch, a, st.ledger.tokens)
  <2>1. /\ b.newest = st.ledger.tokens /\ b.latest[a] = st.ledger.tokens
        /\ NewestIsSomeones(b) /\ a \in Slugs
    BY AppendEntryTraces DEF Outcomes, Ledgers, Slugs
  <2>2. Checkpoint(a, st) = [st EXCEPT !.ledger = l, !.branch = b]
    BY <1>1 DEF Checkpoint
  <2>3. l.tokens = st.ledger.tokens /\ l.written = st.ledger.tokens
    OBVIOUS
  <2> HIDE DEF l, b
  <2>4. Checkpoint(a, st).ledger = l /\ Checkpoint(a, st).branch = b
    BY <2>2 DEF Outcomes
  <2> QED
    BY <2>1, <2>3, <2>4 DEF InStep, Traced
<1>2. CASE ~ShouldWriteCheckpoint(st.ledger)
  BY <1>2 DEF Checkpoint
<1> QED
  BY <1>1, <1>2

\* recordEvent and maybeSnapshot bring the ledger up to the session's tokens.
LEMMA ListenerInStep ==
  ASSUME NEW a \in Agents, NEW st \in Outcomes, st.ledger.since < MsgGate, InStep(st),
         NEW total \in Nat
  PROVE  /\ InStep(RecordEvent(a, st, total)) /\ RecordEvent(a, st, total).ledger.tokens = total
         /\ InStep(MaybeSnapshot(a, st, total)) /\ MaybeSnapshot(a, st, total).ledger.tokens = total
<1> DEFINE counted == [st EXCEPT !.ledger = [tokens |-> total, since |-> @.since + 1, written |-> @.written]]
           seen == [st EXCEPT !.ledger = [tokens |-> total, since |-> @.since, written |-> @.written]]
<1>1. counted \in Outcomes /\ seen \in Outcomes
  BY DEF Outcomes, Ledgers
<1>2. /\ counted.branch = st.branch /\ counted.ledger.written = st.ledger.written
      /\ counted.ledger.tokens = total
      /\ seen.branch = st.branch /\ seen.ledger.written = st.ledger.written
      /\ seen.ledger.tokens = total
  BY DEF Outcomes
<1>3. RecordEvent(a, st, total) = Checkpoint(a, counted) /\ MaybeSnapshot(a, st, total) = Checkpoint(a, seen)
  BY DEF RecordEvent, MaybeSnapshot
<1> HIDE DEF counted, seen
<1>4. InStep(counted) /\ InStep(seen)
  BY <1>2 DEF InStep, Traced
<1> QED
  BY <1>1, <1>2, <1>3, <1>4, CheckpointInStep

LEMMA OnMessageEndInStep ==
  ASSUME NEW a \in Agents, NEW st \in Outcomes, st.ledger.since < MsgGate, InStep(st),
         NEW total \in Nat, NEW context, NEW contexts
  PROVE  /\ InStep(OnMessageEnd(a, st, total, context, contexts))
         /\ OnMessageEnd(a, st, total, context, contexts).ledger.tokens = total
<1> DEFINE recorded == RecordEvent(a, st, total)
           snapped == MaybeSnapshot(a, recorded, total)
           after == OnMessageEnd(a, st, total, context, contexts)
<1>1. recorded \in Outcomes /\ recorded.ledger.since < MsgGate /\ InStep(recorded)
  BY RecordEventLags, ListenerInStep DEF Lags
<1>2. snapped \in Outcomes /\ InStep(snapped) /\ snapped.ledger.tokens = total
  <2> HIDE DEF recorded
  <2> QED
    BY <1>1, MaybeSnapshotLags, ListenerInStep
<1>3. \E x, y : after = [snapped EXCEPT !.exhausted = x, !.aborted = y]
  BY DEF OnMessageEnd
<1> HIDE DEF recorded, snapped, after
<1>4. after.ledger = snapped.ledger /\ after.branch = snapped.branch
  BY <1>2, <1>3 DEF Outcomes
<1>5. InStep(after) /\ after.ledger.tokens = total
  BY <1>2, <1>4 DEF InStep
<1> QED
  BY <1>5 DEF after

LEMMA AllListenersInStep ==
  ASSUME NEW a \in Agents, NEW st \in Outcomes, st.ledger.since < MsgGate, InStep(st),
         NEW total \in Nat, NEW context \in Nat \cup {None}, NEW contexts
  PROVE  /\ InStep(AllListeners(a, st, total, context, contexts))
         /\ AllListeners(a, st, total, context, contexts).ledger.tokens = total
<1> DEFINE first == OnMessageEnd(a, st, total, context, contexts)
           second == OnMessageEnd(a, first, total, context, contexts)
<1>1. /\ first \in Outcomes /\ first.ledger.since < MsgGate /\ InStep(first)
      /\ first.ledger.tokens = total
  BY OnMessageEndLags, OnMessageEndInStep DEF Lags
<1>2. InStep(second) /\ second.ledger.tokens = total
  <2> HIDE DEF first
  <2> QED
    BY <1>1, OnMessageEndInStep
<1>3. AllListeners(a, st, total, context, contexts) = first
        \/ AllListeners(a, st, total, context, contexts) = second
  BY DEF AllListeners
<1> HIDE DEF first, second
<1> QED
  BY <1>1, <1>2, <1>3

-----------------------------------------------------------------------------
(* What the file says *)

\* A worker that is open has the only handle.
LEMMA OnlyOne ==
  ASSUME Alone, NEW a \in Agents, a \in Open
  PROVE  handles = <<a>> /\ Open = {a}
BY DEF Alone

\* A message: the entries it leads to keep within the gate of what the file holds.
LEMMA MessageEndRecords ==
  ASSUME ~nested, BudgetInv, RecordInv, NEW a \in Agents, NEW m \in Messages,
         NEW c \in Contexts \cup {None}, MessageEnd(a, m, c)
  PROVE  RecordInv'
<1> DEFINE total == session[a].total + m[1] + m[2]
           contexts == IF c = None THEN runtimeContext ELSE [runtimeContext EXCEPT ![a] = c]
           before == [ledger |-> ledger[a], branch |-> session[a].branch,
                      exhausted |-> exhausted[a], aborted |-> aborted[a]]
           after == AllListeners(a, before, total, c, contexts)
           held == [counted |-> session[a].counted + m[1], total |-> total, context |-> c,
                    branch |-> after.branch]
<1>1. m[1] \in Nat /\ m[2] \in Nat /\ c \in Nat \cup {None}
  BY BudgetAssumption
<1>2. /\ a \in Open
      /\ filed' = [counted |-> filed.counted + m[1], total |-> filed.total + m[1] + m[2]]
      /\ session' = [session EXCEPT ![a] = held]
      /\ thread' = after.branch
      /\ ledger' = [ledger EXCEPT ![a] = after.ledger]
      /\ hooks' = [hooks EXCEPT ![a] = [i \in DOMAIN @ |-> @[i] \cup Near(total, c)]]
      /\ UNCHANGED <<nested, handles>>
  BY DEF MessageEnd, policyVars
<1>3. /\ Open = {a} /\ handles = <<a>> /\ session[a].branch = thread
      /\ session[a].total = filed.total /\ Traced(thread, ledger[a]) /\ NewestIsSomeones(thread)
  BY <1>2, OnlyOne DEF RecordInv, HoldsTheFile, BranchRecords, NewestIsSomeones
<1>4. session[a].total \in Nat /\ total \in Nat /\ total = filed'.total
  <2>1. session[a].total \in Nat
    BY DEF BudgetInv, TypeOK
  <2> QED
    BY <1>1, <1>2, <1>3, <2>1
<1>5. before \in Outcomes /\ before.ledger.since < MsgGate /\ InStep(before)
  BY <1>3 DEF BudgetInv, Within, TypeOK, Outcomes, Ledgers, InStep
<1>6. Open' = {a}
  <2>1. hooks \in [Agents -> Seq(SUBSET Dims)]
    BY DEF BudgetInv, TypeOK
  <2>2. hooks[a] # <<>> /\ hooks[a] \in Seq(SUBSET Dims)
    BY <1>2, <2>1 DEF Open
  <2>3. hooks'[a] # <<>>
    <3>1. 1 \in DOMAIN hooks[a]
      BY <2>2
    <3>2. DOMAIN hooks'[a] = DOMAIN hooks[a]
      BY <1>2, <2>1
    <3> QED
      BY <3>1, <3>2
  <2>4. \A b \in Agents \ {a} : hooks'[b] = hooks[b]
    BY <1>2, <2>1
  <2> QED
    BY <1>3, <2>3, <2>4 DEF Open
<1> HIDE DEF before, total, contexts
<1>7. /\ after \in Outcomes /\ Lags(after.ledger) /\ InStep(after) /\ after.ledger.tokens = total
  BY <1>1, <1>4, <1>5, AllListenersLag, AllListenersInStep
<1>8. held.total = total /\ held.branch = after.branch
  OBVIOUS
<1> HIDE DEF after, held
<1>9. /\ session'[a].total = total /\ session'[a].branch = after.branch
      /\ ledger'[a] = after.ledger
  BY <1>2, <1>8 DEF BudgetInv, TypeOK
<1>10. HoldsTheFile'
  BY <1>2, <1>4, <1>6, <1>7, <1>9 DEF HoldsTheFile, InStep, Traced
<1>11. /\ after.ledger.written \in Nat /\ Distance(total, after.ledger.written) < TokGate
  BY <1>7 DEF Lags, Outcomes, Ledgers
<1>12. BranchRecords'
  <2>1. PICK s \in Slugs : after.branch.latest[s] = after.ledger.written
    BY <1>7 DEF InStep, Traced
  <2>2. after.branch.latest[s] > total - TokGate
    BY <1>4, <1>11, <2>1, BudgetAssumption DEF Distance
  <2> QED
    BY <1>2, <1>4, <1>7, <2>2 DEF BranchRecords, InStep, NewestIsSomeones
<1>13. SpendOnRecord'
  BY <1>2, <1>4, <1>7, <1>11 DEF SpendOnRecord, InStep, Traced
<1>14. Alone'
  BY <1>2, <1>3, <1>6 DEF Alone
<1> QED
  BY <1>10, <1>12, <1>13, <1>14 DEF RecordInv

\* An entry with the usage of the file in it.
LEMMA EntryRecords ==
  ASSUME BudgetInv, NEW b \in Branch, NEW a \in Agents
  PROVE  LET entry == AppendEntry(b, a, filed.total) IN
         /\ entry.newest = filed.total /\ entry.by = a /\ entry.latest[a] = filed.total
         /\ NewestIsSomeones(entry)
         /\ \E s \in Slugs : entry.latest[s] > filed.total - TokGate
         /\ Distance(filed.total, entry.newest) < TokGate
<1> DEFINE entry == AppendEntry(b, a, filed.total)
<1>1. filed.total \in Nat /\ a \in Slugs
  BY DEF BudgetInv, TypeOK, Usage, Slugs
<1>2. /\ entry.newest = filed.total /\ entry.by = a /\ entry.latest[a] = filed.total
      /\ NewestIsSomeones(entry)
  BY <1>1, AppendEntryTraces
<1> HIDE DEF entry
<1>3. entry.latest[a] > filed.total - TokGate /\ Distance(filed.total, entry.newest) < TokGate
  BY <1>1, <1>2, BudgetAssumption DEF Distance
<1>4. \E s \in Slugs : entry.latest[s] > filed.total - TokGate
  BY <1>1, <1>3
<1> QED
  BY <1>2, <1>3, <1>4 DEF entry

\* A snapshot of the open session, whatever becomes of its context and listeners.
LEMMA WriteRecords ==
  ASSUME ~nested, BudgetInv, RecordInv, NEW a \in Agents, a \in Open,
         Snapshot(a) \/ Compact(a) \/ Resume(a)
  PROVE  RecordInv'
<1> DEFINE b == AppendEntry(session[a].branch, a, session[a].total)
<1>1. /\ Open = {a} /\ handles = <<a>> /\ session[a].branch = thread
      /\ session[a].total = filed.total
  BY OnlyOne DEF RecordInv, HoldsTheFile
<1>2. /\ thread' = b /\ filed' = filed /\ nested' = nested /\ handles' = handles
      /\ ledger' = [ledger EXCEPT ![a] = SnapshotLedger(@, session[a].total)]
      /\ \/ session' = [session EXCEPT ![a].branch = b]
         \/ \E c \in {None} : session' = [session EXCEPT ![a].branch = b, ![a].context = c]
  BY DEF Snapshot, Compact, Resume, WriteSnapshot, policyVars
<1>3. thread \in Branch /\ session \in [Agents -> Sessions] /\ ledger \in [Agents -> Ledgers]
      /\ hooks \in [Agents -> Seq(SUBSET Dims)]
  BY DEF BudgetInv, TypeOK, Sessions, Ledgers
<1>4. /\ b.newest = filed.total /\ b.by = a /\ b.latest[a] = filed.total
      /\ NewestIsSomeones(b)
      /\ \E s \in Slugs : b.latest[s] > filed.total - TokGate
      /\ Distance(filed.total, b.newest) < TokGate
  BY <1>1, <1>3, EntryRecords
<1> HIDE DEF b
<1>5. session'[a].branch = b /\ session'[a].total = filed.total
  BY <1>1, <1>2, <1>3 DEF Sessions
<1>6. ledger'[a].written = filed.total
  BY <1>1, <1>2, <1>3 DEF SnapshotLedger
<1>7. Open' = Open
  <2>1. hooks' = hooks \/ hooks' = [hooks EXCEPT ![a] = Append(hooks[a], {})]
    BY DEF Snapshot, Compact, Resume
  <2>2. \A d \in Agents : hooks'[d] # <<>> <=> hooks[d] # <<>>
    <3>1. hooks[a] # <<>> /\ hooks[a] \in Seq(SUBSET Dims)
      BY <1>3 DEF Open
    <3>2. Append(hooks[a], {}) # <<>>
      BY <3>1
    <3> QED
      BY <1>3, <2>1, <3>1, <3>2
  <2> QED
    BY <2>2 DEF Open
<1>8. a \in Slugs
  BY DEF Slugs
<1>9. HoldsTheFile'
  BY <1>1, <1>2, <1>4, <1>5, <1>6, <1>7, <1>8 DEF HoldsTheFile, Traced
<1>10. BranchRecords' /\ SpendOnRecord'
  BY <1>2, <1>4 DEF BranchRecords, SpendOnRecord, NewestIsSomeones
<1>11. Alone'
  BY <1>1, <1>2, <1>7 DEF Alone
<1> QED
  BY <1>9, <1>10, <1>11 DEF RecordInv

\* The end of a run takes its handle with it.
LEMMA NobodyLeft ==
  ASSUME BudgetInv, Alone, NEW a \in Agents, a \in Open, Unregister(a), Forget({a})
  PROVE  Alone' /\ Open' = {}
<1>1. Open = {a} /\ handles = <<a>>
  BY OnlyOne
<1>2. PICK i \in DOMAIN handles : handles' = RemoveAt(handles, i)
  BY DEF Unregister
<1>3. i = 1
  BY <1>1, <1>2
<1>4. handles' = SubSeq(<<a>>, 1, 0) \o SubSeq(<<a>>, 2, 1)
  BY <1>1, <1>2, <1>3 DEF RemoveAt
<1>5. handles' = <<>>
  BY <1>4
<1>6. Open' = {}
  BY <1>1 DEF Open, Forget
<1> QED
  BY <1>5, <1>6 DEF Alone

LEMMA CloseRecords ==
  ASSUME ~nested, BudgetInv, RecordInv, NEW a \in Agents, Close(a) \/ ForceKill(a)
  PROVE  RecordInv'
<1>1. a \in Open /\ Alone' /\ Open' = {} /\ nested' = nested /\ filed' = filed
  BY NobodyLeft DEF Close, ForceKill, RecordInv, policyVars, fileVars
<1>2. HoldsTheFile'
  BY <1>1 DEF HoldsTheFile
<1>3. CASE Close(a)
  BY <1>1, <1>2, <1>3 DEF Close, RecordInv, BranchRecords, SpendOnRecord, fileVars
<1>4. CASE ForceKill(a)
  <2>1. thread' = AppendEntry(session[a].branch, a, filed.total) /\ session[a].branch \in Branch
    BY <1>1, <1>4 DEF ForceKill, RecordInv, HoldsTheFile, BudgetInv, TypeOK
  <2>2. BranchRecords' /\ SpendOnRecord'
    BY <1>1, <2>1, EntryRecords DEF BranchRecords, SpendOnRecord, NewestIsSomeones
  <2> QED
    BY <1>1, <1>2, <2>2 DEF RecordInv
<1> QED
  BY <1>3, <1>4

\* A new session holds the file and what is written there.
LEMMA DelegateRecords ==
  ASSUME ~nested, BudgetInv, RecordInv, NEW a \in Agents, Delegate(a)
  PROVE  RecordInv'
<1>1. /\ handles = <<>> /\ handles' = Append(handles, a)
      /\ session' = [session EXCEPT ![a] =
           [counted |-> filed.counted, total |-> filed.total, context |-> None, branch |-> thread]]
      /\ ledger' = [ledger EXCEPT ![a] = Restored(thread)]
      /\ hooks' = [hooks EXCEPT ![a] = <<{}>>]
      /\ UNCHANGED <<nested, filed, thread>>
  BY DEF Delegate, policyVars, fileVars
<1>2. Open = {}
  BY <1>1 DEF RecordInv, Alone
<1>3. session'[a].branch = thread /\ session'[a].total = filed.total /\ ledger'[a] = Restored(thread)
  BY <1>1 DEF BudgetInv, TypeOK
<1>4. Open' = {a}
  BY <1>1, <1>2 DEF Open, BudgetInv, TypeOK
<1>5. Traced(thread, Restored(thread))
  BY DEF Restored, Traced, RecordInv, BranchRecords
<1>6. HoldsTheFile'
  BY <1>1, <1>3, <1>4, <1>5 DEF HoldsTheFile, Traced
<1>7. Alone'
  BY <1>1, <1>4 DEF Alone
<1> QED
  BY <1>1, <1>6, <1>7 DEF RecordInv, BranchRecords, SpendOnRecord

\* A tear-down writes the session's usage under its slug before the sum under the team's.
LEMMA TearDownRecords ==
  ASSUME ~nested, BudgetInv, RecordInv, NEW force \in BOOLEAN, TearDownAll(force)
  PROVE  RecordInv'
<1>1. PICK a \in Agents : handles = <<a>> /\ Open = {a}
  BY DEF TearDownAll, RecordInv, Alone
<1> DEFINE total == Sum([b \in Agents |-> ledger[b].tokens], Open)
           ended == [b \in Agents |-> IF b \in Open
                     THEN [session[b] EXCEPT !.branch = AppendEntry(@, b, session[b].total)]
                     ELSE session[b]]
           entry == AppendEntry(session[a].branch, a, session[a].total)
           team == AppendEntry(entry, Team, total)
<1>2. /\ session \in [Agents -> Sessions] /\ ledger \in [Agents -> Ledgers]
      /\ session[a].branch = thread /\ session[a].total = filed.total
      /\ thread \in Branch /\ filed.total \in Nat /\ a \in Slugs /\ Team \in Slugs
  BY <1>1 DEF BudgetInv, TypeOK, RecordInv, HoldsTheFile, Sessions, Ledgers, Usage, Slugs
<1>3. handles[1] = a /\ ended[a] = [session[a] EXCEPT !.branch = entry]
  BY <1>1
<1>4. ended[a].branch = entry /\ ended[a].total = filed.total /\ DOMAIN ended = Agents
  <2>1. DOMAIN ended = Agents
    OBVIOUS
  <2> HIDE DEF ended, entry
  <2> QED
    BY <1>2, <1>3, <2>1 DEF Sessions
<1>5. thread' = team /\ filed' = filed /\ nested' = nested
  BY <1>3, <1>4 DEF TearDownAll, policyVars
<1>6. entry \in Branch /\ entry.latest[a] = filed.total
  BY <1>2, AppendEntryTyped, AppendEntryTraces
<1>7. /\ team.by = Team /\ NewestIsSomeones(team) /\ team.latest[a] = filed.total
  <2>1. total \in Nat /\ a # Team
    BY LedgersSum, BudgetAssumption
  <2> HIDE DEF entry, total
  <2> QED
    BY <1>2, <1>6, <2>1, AppendEntryTraces
<1> HIDE DEF total, ended, entry, team
<1>8. BranchRecords' /\ SpendOnRecord'
  <2>1. team.latest[a] > filed.total - TokGate
    BY <1>2, <1>7, BudgetAssumption
  <2> QED
    BY <1>2, <1>5, <1>7, <2>1 DEF BranchRecords, SpendOnRecord, NewestIsSomeones
<1>9. CASE force
  <2>1. handles' = <<>> /\ Forget(Open)
    BY <1>9 DEF TearDownAll
  <2>2. Open' = {}
    BY <2>1 DEF Forget, Open
  <2> QED
    BY <1>8, <2>1, <2>2 DEF RecordInv, Alone, HoldsTheFile
<1>10. CASE ~force
  <2>1. /\ session' = [ended EXCEPT ![a].branch = team]
        /\ ledger' = [b \in Agents |-> IF b \in Open
                      THEN SnapshotLedger(ledger[b], session[b].total) ELSE ledger[b]]
        /\ UNCHANGED <<handles, hooks>>
    BY <1>3, <1>4, <1>10 DEF TearDownAll, ended, entry, team, total
  <2>2. Open' = {a}
    BY <1>1, <2>1 DEF Open
  <2>3. session'[a] = [ended[a] EXCEPT !.branch = team]
    BY <1>4, <2>1
  <2>4. session'[a].branch = team /\ session'[a].total = filed.total
    <3>1. ended[a] \in Sessions
      BY <1>2, <1>3, <1>6 DEF Sessions
    <3> QED
      BY <1>4, <2>3, <3>1 DEF Sessions
  <2>5. ledger'[a].written = filed.total
    BY <1>1, <1>2, <2>1 DEF SnapshotLedger
  <2>6. HoldsTheFile'
    BY <1>2, <1>5, <1>7, <2>2, <2>4, <2>5 DEF HoldsTheFile, Traced
  <2>7. Alone'
    BY <1>1, <2>1, <2>2 DEF Alone
  <2> QED
    BY <1>8, <2>6, <2>7 DEF RecordInv
<1> QED
  BY <1>9, <1>10

LEMMA CrashRecords ==
  ASSUME ~nested, BudgetInv, RecordInv, Crash
  PROVE  RecordInv'
<1>1. handles' = <<>> /\ Forget(Open) /\ UNCHANGED <<nested, filed, thread>>
  BY DEF Crash, policyVars, fileVars
<1>2. Open' = {}
  BY <1>1 DEF Forget, Open
<1> QED
  BY <1>1, <1>2 DEF RecordInv, Alone, HoldsTheFile, BranchRecords, SpendOnRecord

LEMMA InitRecords == Init => RecordInv
<1> SUFFICES ASSUME Init PROVE RecordInv
  OBVIOUS
<1>1. Open = {} /\ handles = <<>>
  BY DEF Init, Open
<1>2. Team \in Slugs
  BY DEF Slugs
<1> QED
  BY <1>1, <1>2, BudgetAssumption DEF Init, RecordInv, Alone, HoldsTheFile, BranchRecords,
     SpendOnRecord, EmptyBranch, Distance

LEMMA NextRecords == BudgetInv /\ RecordInv /\ [Next]_vars => RecordInv'
<1> SUFFICES ASSUME BudgetInv, RecordInv, [Next]_vars PROVE RecordInv'
  OBVIOUS
<1>1. nested' = nested
  <2> USE DEF policyVars
  <2>1. ASSUME NEW a \in Agents, NEW m \in Messages, NEW c \in Contexts \cup {None},
               MessageEnd(a, m, c)
        PROVE  nested' = nested
    BY <2>1 DEF MessageEnd
  <2>2. ASSUME NEW a \in Agents, \/ Delegate(a) \/ Snapshot(a) \/ Compact(a) \/ Resume(a)
                                \/ Close(a) \/ ForceKill(a)
        PROVE  nested' = nested
    BY <2>2 DEF Delegate, Snapshot, Compact, Resume, Close, ForceKill
  <2>3. ASSUME NEW force \in BOOLEAN, TearDownAll(force) PROVE nested' = nested
    BY <2>3 DEF TearDownAll
  <2>4. CASE Crash \/ UNCHANGED vars
    BY <2>4 DEF Crash, vars
  <2> QED
    BY <2>1, <2>2, <2>3, <2>4 DEF Next
<1>2. CASE nested
  BY <1>1, <1>2 DEF RecordInv
<1>3. CASE ~nested
  <2>1. CASE UNCHANGED vars
    BY <2>1 DEF vars, fileVars, runVars, policyVars, RecordInv, Alone, Open, HoldsTheFile,
                BranchRecords, SpendOnRecord, Traced
  <2>2. \A a \in Agents : Snapshot(a) \/ Compact(a) \/ Resume(a) => a \in Open
    BY DEF Snapshot, Compact, Resume
  <2> QED
    BY <1>3, <2>1, <2>2, DelegateRecords, MessageEndRecords, WriteRecords, CloseRecords,
       TearDownRecords, CrashRecords DEF Next
<1> QED
  BY <1>2, <1>3

-----------------------------------------------------------------------------
(* The theorems about the file *)

\* With one worker open at a time, however messages, snapshots, tear-downs, ends and
\* crashes follow one another, the file's entries keep track of its usage.
THEOREM FileKeepsTrack == Spec => []RecordInv
<1>1. Init => RecordInv
  BY InitRecords
<1>2. BudgetInv /\ RecordInv /\ [Next]_vars => RecordInv'
  BY NextRecords
<1> QED
  BY <1>1, <1>2, BudgetInvariant, PTL DEF Spec

\* What the next session restores is less than the token gate away from what the file
\* holds, unless it is the sum of a tear-down (ledger.ts, restore).
THEOREM SpendIsOnRecord == Spec => []SpendOnRecord
<1>1. RecordInv => SpendOnRecord
  BY DEF RecordInv, SpendOnRecord
<1> QED
  BY <1>1, FileKeepsTrack, PTL

\* The slugs of the ledger are few.
LEMMA SlugsFinite == IsFiniteSet(Slugs)
<1>1. IsFiniteSet(Agents)
  BY BudgetAssumption
<1>2. IsFiniteSet({Team})
  BY FS_Singleton
<1> QED
  BY <1>1, <1>2, FS_Union DEF Slugs

\* With one worker open at a time the sum over the slugs counts what the last one wrote.
LEMMA TeamUsageOnRecord ==
  ASSUME BudgetInv, RecordInv
  PROVE  ~nested => TeamUsage(thread) > filed.total - TokGate
<1> SUFFICES ASSUME ~nested PROVE TeamUsage(thread) > filed.total - TokGate
  OBVIOUS
<1>1. PICK s \in Slugs : thread.latest[s] > filed.total - TokGate
  BY DEF RecordInv, BranchRecords
<1>2. thread.latest \in [Slugs -> Nat] /\ filed.total \in Nat
  BY DEF BudgetInv, TypeOK, Branch, Usage
<1>3. TeamUsage(thread) >= thread.latest[s]
  BY <1>2, SlugsFinite, SumIsNat DEF TeamUsage
<1>4. TeamUsage(thread) \in Nat /\ thread.latest[s] \in Nat
  BY <1>2, SlugsFinite, SumIsNat DEF TeamUsage
<1> QED
  BY <1>1, <1>2, <1>3, <1>4, BudgetAssumption

\* What a worker spent and what the team gate adds up is on record, for any caps, gates
\* and messages.
THEOREM UsageIsOnRecord == Spec => []UsageOnRecord
<1>1. BudgetInv /\ RecordInv => UsageOnRecord
  BY TeamUsageOnRecord DEF UsageOnRecord, TeamSpendOnRecord, RecordInv, SpendOnRecord
<1> QED
  BY <1>1, FileKeepsTrack, BudgetInvariant, PTL

\* One worker at a time: who is admitted finds less in the file than the cap and what the
\* throttle may hide, for any caps (checkBudgetPolicy in delegateAgent).
THEOREM AdmissionIsSound == Spec => AdmissionSound
<1> DEFINE Sound ==
      \A a \in Agents : a \notin Open /\ a \in Open' /\ ~nested =>
        /\ thread.by # Team => filed.total < WorkerCap + TokGate
        /\ filed.total < TeamCap + TokGate
<1>1. BudgetInv /\ RecordInv /\ [Next]_vars => [Sound]_vars
  <2> SUFFICES ASSUME BudgetInv, RecordInv, Next,
                      NEW a \in Agents, a \notin Open, a \in Open', ~nested
               PROVE  /\ thread.by # Team => filed.total < WorkerCap + TokGate
                      /\ filed.total < TeamCap + TokGate
    OBVIOUS
  <2>1. PICK d \in Agents : Delegate(d)
    <3>1. hooks \in [Agents -> Seq(SUBSET Dims)]
      BY DEF BudgetInv, TypeOK
    <3>2. hooks[a] = <<>> /\ hooks'[a] # <<>>
      BY DEF Open
    <3>3. ASSUME NEW d \in Agents, NEW m \in Messages, NEW c \in Contexts \cup {None}, MessageEnd(d, m, c)
          PROVE  FALSE
      <4>1. d \in Open /\ d # a
        BY <3>3 DEF MessageEnd
      <4> QED
        BY <3>1, <3>2, <3>3, <4>1 DEF MessageEnd
    <3>4. ASSUME NEW d \in Agents, Resume(d) PROVE FALSE
      <4>1. d \in Open /\ d # a
        BY <3>4 DEF Resume
      <4> QED
        BY <3>1, <3>2, <3>4, <4>1 DEF Resume
    <3>5. ASSUME NEW S, Forget(S) PROVE FALSE
      BY <3>2, <3>5 DEF Forget
    <3>6. hooks' # hooks
      BY <3>2
    <3> QED
      BY <3>3, <3>4, <3>5, <3>6 DEF Next, Snapshot, Compact, Close, ForceKill, TearDownAll, Crash
  <2>2. thread.newest < WorkerCap /\ TeamUsage(thread) < TeamCap
    <3>1. ~BudgetBlock(Restored(thread), thread)
      BY <2>1 DEF Delegate
    <3>2. thread.newest \in Nat /\ TeamUsage(thread) \in Nat
      BY SlugsFinite, SumIsNat DEF BudgetInv, TypeOK, Branch, TeamUsage
    <3> QED
      BY <3>1, <3>2, BudgetAssumption DEF BudgetBlock, Restored
  <2>3. filed.total \in Nat /\ thread.newest \in Nat /\ TeamUsage(thread) \in Nat
    BY SlugsFinite, SumIsNat DEF BudgetInv, TypeOK, Branch, Usage, TeamUsage
  <2>4. filed.total < TeamCap + TokGate
    BY <2>2, <2>3, TeamUsageOnRecord, BudgetAssumption
  <2>5. thread.by # Team => filed.total < WorkerCap + TokGate
    <3>1. thread.by # Team => Distance(filed.total, thread.newest) < TokGate
      BY DEF RecordInv, SpendOnRecord
    <3> QED
      BY <2>2, <2>3, <3>1, BudgetAssumption DEF Distance
  <2> QED
    BY <2>4, <2>5
<1> QED
  BY <1>1, FileKeepsTrack, BudgetInvariant, PTL DEF Spec, AdmissionSound
=============================================================================
