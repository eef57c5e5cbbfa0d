------------------------- MODULE WorkerQueueProofs -------------------------
(***************************************************************************)
(* Proofs about WorkerQueue for any set of calls, any cap and any queue    *)
(* size.  No property of the queue is inductive by itself: that the count  *)
(* is right needs the waiter a release resumes to be waiting, that the cap *)
(* holds needs the count, and that nobody waits in vain needs the cap.     *)
(* QueueInv is their conjunction.                                          *)
(***************************************************************************)
EXTENDS WorkerQueue, FiniteSetTheorems, SequenceTheorems, TLAPS

QueueInv ==
  /\ QueueTypeOK
  /\ SlotsConserved
  /\ CapRespected
  /\ NoLostWaiter
  /\ NoIdleSlot
  /\ QueueBounded

USE DEF Outcomes, Refusals

-----------------------------------------------------------------------------
(* The holders of the slots *)

\* There are finitely many holders, as many as the cardinality says.
LEMMA HoldersFinite ==
  ASSUME QueueTypeOK
  PROVE  IsFiniteSet(Holders) /\ Cardinality(Holders) \in Nat
<1>1. Holders \subseteq Calls
  BY DEF Holders
<1> QED
  BY <1>1, CallsAssumption, FS_Subset, FS_CardinalityType

\* The calls that are waiting when a slot is freed hold no slot.
LEMMA HeadIsWaiting ==
  ASSUME QueueTypeOK, NoLostWaiter, workerQueue # <<>>
  PROVE  /\ Head(workerQueue) \in Calls
         /\ promise[Head(workerQueue)] = "waiting"
<1>1. 1 \in DOMAIN workerQueue /\ Head(workerQueue) = workerQueue[1]
  BY DEF QueueTypeOK
<1>2. Head(workerQueue) \in Queued
  BY <1>1 DEF Queued
<1> QED
  BY <1>2 DEF NoLostWaiter

\* A step that makes c a holder adds one to their number.
LEMMA OneMoreHolder ==
  ASSUME QueueTypeOK, NEW c \in Calls, promise[c] # "acquired",
         promise' = [promise EXCEPT ![c] = "acquired"]
  PROVE  /\ Holders' = Holders \cup {c}
         /\ c \notin Holders
         /\ Cardinality(Holders') = Cardinality(Holders) + 1
<1>1. Holders' = Holders \cup {c} /\ c \notin Holders
  BY DEF Holders, QueueTypeOK
<1> QED
  BY <1>1, HoldersFinite, FS_AddElement

\* A step that settles c in any other way takes nobody else's slot.
LEMMA OneFewerHolder ==
  ASSUME QueueTypeOK, NEW c \in Calls, promise[c] = "acquired",
         promise' = [promise EXCEPT ![c] = "none"]
  PROVE  /\ Holders' = Holders \ {c}
         /\ c \in Holders
         /\ Cardinality(Holders') = Cardinality(Holders) - 1
<1>1. Holders' = Holders \ {c} /\ c \in Holders
  BY DEF Holders, QueueTypeOK
<1> QED
  BY <1>1, HoldersFinite, FS_RemoveElement

\* A hand-over replaces one holder by another.
LEMMA HolderExchanged ==
  ASSUME QueueTypeOK, NEW c \in Calls, NEW d \in Calls,
         promise[c] = "acquired", promise[d] = "waiting",
         promise' = [promise EXCEPT ![c] = "none", ![d] = "acquired"]
  PROVE  /\ Holders' = (Holders \ {c}) \cup {d}
         /\ c \in Holders /\ d \notin Holders
         /\ Cardinality(Holders') = Cardinality(Holders)
<1>1. Holders' = (Holders \ {c}) \cup {d} /\ c \in Holders /\ d \notin Holders
  BY DEF Holders, QueueTypeOK
<1>2. /\ IsFiniteSet(Holders \ {c})
      /\ Cardinality(Holders \ {c}) = Cardinality(Holders) - 1
  BY <1>1, HoldersFinite, FS_RemoveElement
<1>3. Cardinality((Holders \ {c}) \cup {d}) = Cardinality(Holders \ {c}) + 1
  BY <1>1, <1>2, FS_AddElement
<1> QED
  BY <1>1, <1>2, <1>3, HoldersFinite

\* A step after which the same calls hold slots leaves the count as it was.
LEMMA SameHolders ==
  ASSUME QueueTypeOK, SlotsConserved, UNCHANGED activeRuns,
         \A c \in Calls : promise'[c] = "acquired" <=> promise[c] = "acquired"
  PROVE  Holders' = Holders /\ SlotsConserved'
<1>1. Holders' = Holders
  BY DEF Holders
<1> QED
  BY <1>1 DEF SlotsConserved

-----------------------------------------------------------------------------
(* The invariant, action by action *)

LEMMA InitInv == QueueInit => QueueInv
<1> SUFFICES ASSUME QueueInit PROVE QueueInv
  OBVIOUS
<1>1. Holders = {} /\ Queued = {}
  BY DEF QueueInit, Holders, Queued
<1>2. QueueTypeOK
  BY DEF QueueInit, QueueTypeOK
<1>3. SlotsConserved
  BY <1>1, FS_EmptySet DEF SlotsConserved, QueueInit
<1>4. NoLostWaiter
  BY <1>1 DEF NoLostWaiter, QueueInit
<1>5. CapRespected /\ NoIdleSlot /\ QueueBounded
  BY LimitsAssumption DEF CapRespected, NoIdleSlot, QueueBounded, QueueInit
<1> QED
  BY <1>2, <1>3, <1>4, <1>5 DEF QueueInv

LEMMA TakeSlotInv ==
  ASSUME QueueInv, NEW c \in Calls, promise[c] = "none", TakeSlot(c)
  PROVE  QueueInv'
<1> USE DEF QueueInv
<1>1. QueueTypeOK'
  BY DEF QueueTypeOK, TakeSlot
<1>2. Cardinality(Holders') = Cardinality(Holders) + 1
  BY OneMoreHolder DEF TakeSlot
<1>3. SlotsConserved'
  BY <1>2 DEF SlotsConserved, TakeSlot
<1>4. CapRespected'
  BY LimitsAssumption DEF CapRespected, TakeSlot, SlotFree, QueueTypeOK
<1>5. workerQueue = <<>>
  BY LimitsAssumption DEF NoIdleSlot, TakeSlot, SlotFree, QueueTypeOK
<1>6. NoLostWaiter'
  BY <1>5 DEF NoLostWaiter, TakeSlot, Queued, QueueTypeOK
<1>7. NoIdleSlot' /\ QueueBounded'
  BY <1>5 DEF NoIdleSlot, QueueBounded, TakeSlot
<1> QED
  BY <1>1, <1>3, <1>4, <1>6, <1>7

\* A call that waits is put behind everybody else.
LEMMA WaitInv ==
  ASSUME QueueInv, NEW c \in Calls, promise[c] = "none", ~SlotFree,
         RefusalOf(c) = "waiting", WaitOrRefuse(c)
  PROVE  QueueInv'
<1> USE DEF QueueInv
<1>1. /\ promise' = [promise EXCEPT ![c] = "waiting"]
      /\ workerQueue' = Append(workerQueue, c)
      /\ UNCHANGED <<activeRuns, aborted>>
  BY DEF WaitOrRefuse
<1>2. QueueTypeOK'
  BY <1>1 DEF QueueTypeOK
<1>3. SlotsConserved'
  BY <1>1, SameHolders DEF QueueTypeOK
<1>4. c \notin Queued
  BY DEF NoLostWaiter
<1>5. /\ DOMAIN workerQueue' = 1..(Len(workerQueue) + 1)
      /\ DOMAIN workerQueue = 1..Len(workerQueue)
      /\ Len(workerQueue) \in Nat
      /\ \A i \in 1..Len(workerQueue) : workerQueue'[i] = workerQueue[i]
      /\ workerQueue'[Len(workerQueue) + 1] = c
  BY <1>1 DEF QueueTypeOK
<1>6. Queued' = Queued \cup {c}
  BY <1>5 DEF Queued
<1>7. NoLostWaiter'
  <2>1. Queued' = {d \in Calls : promise'[d] = "waiting"}
    BY <1>1, <1>6 DEF NoLostWaiter, QueueTypeOK
  <2>2. ASSUME NEW i \in DOMAIN workerQueue', NEW j \in DOMAIN workerQueue',
               workerQueue'[i] = workerQueue'[j]
        PROVE  i = j
    BY <1>4, <1>5, <2>2 DEF NoLostWaiter, Queued
  <2> QED
    BY <2>1, <2>2 DEF NoLostWaiter
<1>8. activeRuns = MaxParallel
  BY LimitsAssumption DEF CapRespected, SlotFree, QueueTypeOK
<1>9. NoIdleSlot' /\ CapRespected'
  BY <1>1, <1>8 DEF NoIdleSlot, CapRespected
<1>10. QueueBounded'
  <2>1. QueueSize # Unset /\ ~(Len(workerQueue) >= QueueSize)
    BY DEF RefusalOf
  <2>2. Len(workerQueue') = Len(workerQueue) + 1
    BY <1>1 DEF QueueTypeOK
  <2> QED
    BY <1>5, <2>1, <2>2, LimitsAssumption DEF QueueBounded
<1> QED
  BY <1>2, <1>3, <1>7, <1>9, <1>10

LEMMA RefuseInv ==
  ASSUME QueueInv, NEW c \in Calls, promise[c] = "none",
         RefusalOf(c) # "waiting", WaitOrRefuse(c)
  PROVE  QueueInv'
<1> USE DEF QueueInv
<1>1. RefusalOf(c) \in Refusals
  BY DEF RefusalOf
<1>2. /\ promise' = [promise EXCEPT ![c] = RefusalOf(c)]
      /\ UNCHANGED <<activeRuns, workerQueue, aborted>>
  BY DEF WaitOrRefuse
<1>3. QueueTypeOK'
  BY <1>1, <1>2 DEF QueueTypeOK
<1>4. SlotsConserved'
  BY <1>1, <1>2, SameHolders DEF QueueTypeOK
<1>5. NoLostWaiter'
  BY <1>1, <1>2 DEF NoLostWaiter, Queued, QueueTypeOK
<1>6. NoIdleSlot' /\ CapRespected' /\ QueueBounded'
  BY <1>2 DEF NoIdleSlot, CapRespected, QueueBounded
<1> QED
  BY <1>3, <1>4, <1>5, <1>6

LEMMA AcquireWorkerSlotInv ==
  ASSUME QueueInv, NEW c \in Calls, AcquireWorkerSlot(c)
  PROVE  QueueInv'
<1>1. promise[c] = "none"
  BY DEF AcquireWorkerSlot
<1>2. CASE TakeSlot(c)
  BY <1>1, <1>2, TakeSlotInv
<1>3. CASE WaitOrRefuse(c)
  <2>1. ~SlotFree
    BY <1>3 DEF WaitOrRefuse
  <2>2. CASE RefusalOf(c) = "waiting"
    BY <1>1, <1>3, <2>1, <2>2, WaitInv
  <2>3. CASE RefusalOf(c) # "waiting"
    BY <1>1, <1>3, <2>3, RefuseInv
  <2> QED
    BY <2>2, <2>3
<1> QED
  BY <1>2, <1>3 DEF AcquireWorkerSlot

LEMMA ReleaseWorkerSlotInv ==
  ASSUME QueueInv, NEW c \in Calls, ReleaseWorkerSlot(c)
  PROVE  QueueInv'
<1> USE DEF QueueInv
<1>1. promise[c] = "acquired" /\ c \in Holders
  BY DEF ReleaseWorkerSlot, Holders
<1>2. activeRuns \in Nat /\ activeRuns > 0
  <2>1. Cardinality(Holders) # 0
    BY <1>1, HoldersFinite, FS_EmptySet
  <2> QED
    BY <2>1, HoldersFinite DEF SlotsConserved
<1>3. AfterRelease = activeRuns - 1
  BY <1>2 DEF AfterRelease
<1>4. CASE workerQueue = <<>>
  <2>1. /\ activeRuns' = activeRuns - 1
        /\ promise' = [promise EXCEPT ![c] = "none"]
        /\ workerQueue' = <<>>
        /\ aborted' = aborted \ {c}
    BY <1>3, <1>4 DEF ReleaseWorkerSlot, GiveBack
  <2>2. QueueTypeOK'
    BY <1>2, <2>1 DEF QueueTypeOK
  <2>3. SlotsConserved'
    BY <1>1, <2>1, OneFewerHolder DEF SlotsConserved
  <2>4. NoLostWaiter'
    BY <1>1, <1>4, <2>1 DEF NoLostWaiter, Queued, QueueTypeOK
  <2>5. CapRespected'
    BY <1>2, <2>1, LimitsAssumption DEF CapRespected
  <2>6. NoIdleSlot' /\ QueueBounded'
    BY <1>4, <2>1 DEF NoIdleSlot, QueueBounded
  <2> QED
    BY <2>2, <2>3, <2>4, <2>5, <2>6
<1>5. CASE workerQueue # <<>>
  <2> DEFINE h == Head(workerQueue)
  <2>1. /\ activeRuns' = activeRuns
        /\ promise' = [promise EXCEPT ![c] = "none", ![h] = "acquired"]
        /\ workerQueue' = Tail(workerQueue)
        /\ aborted' = aborted \ {c}
    BY <1>2, <1>3, <1>5 DEF ReleaseWorkerSlot, GiveBack
  <2>2. h \in Calls /\ promise[h] = "waiting" /\ h # c
    BY <1>1, <1>5, HeadIsWaiting
  <2>3. QueueTypeOK'
    BY <1>2, <1>5, <2>1, <2>2 DEF QueueTypeOK
  <2>4. SlotsConserved'
    BY <1>1, <2>1, <2>2, HolderExchanged DEF SlotsConserved
  <2>5. /\ Len(workerQueue) \in Nat \ {0}
        /\ DOMAIN workerQueue = 1..Len(workerQueue)
        /\ DOMAIN workerQueue' = 1..(Len(workerQueue) - 1)
        /\ \A i \in 1..(Len(workerQueue) - 1) : workerQueue'[i] = workerQueue[i + 1]
        /\ h = workerQueue[1]
        /\ Len(workerQueue') = Len(workerQueue) - 1
    BY <1>5, <2>1 DEF QueueTypeOK
  <2>6. Queued' = Queued \ {h}
    <3>1. \A x \in Queued' : x \in Queued /\ x # h
      BY <2>5 DEF Queued, NoLostWaiter
    <3>2. \A x \in Queued : x # h => x \in Queued'
      <4> SUFFICES ASSUME NEW i \in DOMAIN workerQueue, workerQueue[i] # h
                   PROVE  workerQueue[i] \in Queued'
        BY DEF Queued
      <4>1. i - 1 \in 1..(Len(workerQueue) - 1) /\ workerQueue'[i - 1] = workerQueue[i]
        BY <2>5
      <4> QED
        BY <2>5, <4>1 DEF Queued
    <3> QED
      BY <3>1, <3>2
  <2>7. NoLostWaiter'
    <3>1. Queued' = {d \in Calls : promise'[d] = "waiting"}
      BY <1>1, <2>1, <2>2, <2>6 DEF NoLostWaiter, QueueTypeOK
    <3>2. ASSUME NEW i \in DOMAIN workerQueue', NEW j \in DOMAIN workerQueue',
                 workerQueue'[i] = workerQueue'[j]
          PROVE  i = j
      BY <2>5, <3>2 DEF NoLostWaiter
    <3> QED
      BY <3>1, <3>2 DEF NoLostWaiter
  <2>8. CapRespected' /\ NoIdleSlot'
    BY <1>5, <2>1 DEF CapRespected, NoIdleSlot
  <2>9. QueueBounded'
    BY <2>5, LimitsAssumption DEF QueueBounded
  <2> QED
    BY <2>3, <2>4, <2>7, <2>8, <2>9
<1> QED
  BY <1>4, <1>5

LEMMA AbortInv ==
  ASSUME QueueInv, NEW c \in Calls, Abort(c)
  PROVE  QueueInv'
<1> USE DEF QueueInv
<1>1. aborted' = aborted \cup {c} /\ UNCHANGED activeRuns
  BY DEF Abort
<1>2. CASE promise[c] # "waiting"
  <2>1. UNCHANGED <<promise, workerQueue>>
    BY <1>2 DEF Abort
  <2> QED
    BY <1>1, <2>1 DEF QueueTypeOK, SlotsConserved, CapRespected, NoLostWaiter, NoIdleSlot,
                      QueueBounded, Queued, Holders
<1>3. CASE promise[c] = "waiting"
  <2>1. PICK k \in DOMAIN workerQueue : workerQueue[k] = c /\ workerQueue' = Spliced(k)
    BY <1>3 DEF Abort
  <2>2. promise' = [promise EXCEPT ![c] = "cancelled"]
    BY <1>3 DEF Abort
  <2> DEFINE n == Len(workerQueue)
  <2>3. n \in Nat \ {0} /\ DOMAIN workerQueue = 1..n /\ k \in 1..n
    BY DEF QueueTypeOK
  <2>4. /\ DOMAIN workerQueue' = 1..(n - 1)
        /\ \A i \in 1..(n - 1) :
             workerQueue'[i] = IF i < k THEN workerQueue[i] ELSE workerQueue[i + 1]
    BY <2>1 DEF Spliced
  <2>5. \A i \in 1..n : workerQueue[i] \in Calls
    BY <2>3 DEF QueueTypeOK
  <2>6. workerQueue' \in Seq(Calls) /\ Len(workerQueue') = n - 1
    <3>1. workerQueue' = [i \in 1..(n - 1) |->
                            IF i < k THEN workerQueue[i] ELSE workerQueue[i + 1]]
      BY <2>1 DEF Spliced
    <3>2. \A i \in 1..(n - 1) :
            (IF i < k THEN workerQueue[i] ELSE workerQueue[i + 1]) \in Calls
      BY <2>3, <2>5
    <3> HIDE DEF n
    <3>3. n - 1 \in Nat
      BY <2>3
    <3> QED
      BY <3>1, <3>2, <3>3, IsASeq
  <2>7. QueueTypeOK'
    BY <1>1, <2>2, <2>6 DEF QueueTypeOK
  <2>8. SlotsConserved'
    BY <1>1, <1>3, <2>2, SameHolders DEF QueueTypeOK
  <2>9. Queued' = Queued \ {c}
    <3>1. \A x \in Queued' : x \in Queued /\ x # c
      <4> SUFFICES ASSUME NEW i \in 1..(n - 1)
                   PROVE  workerQueue'[i] \in Queued /\ workerQueue'[i] # c
        BY <2>4 DEF Queued
      <4>1. PICK j \in 1..n : j # k /\ workerQueue'[i] = workerQueue[j]
        BY <2>3, <2>4
      <4> QED
        BY <2>1, <2>3, <4>1 DEF Queued, NoLostWaiter
    <3>2. \A x \in Queued : x # c => x \in Queued'
      <4> SUFFICES ASSUME NEW i \in 1..n, workerQueue[i] # c
                   PROVE  workerQueue[i] \in Queued'
        BY <2>3 DEF Queued
      <4>1. i # k
        BY <2>1
      <4>2. PICK j \in 1..(n - 1) : workerQueue'[j] = workerQueue[i]
        <5>1. CASE i < k
          BY <2>3, <2>4, <5>1
        <5>2. CASE i > k
          <6>1. i - 1 \in 1..(n - 1) /\ ~(i - 1 < k) /\ (i - 1) + 1 = i
            BY <2>3, <5>2
          <6> QED
            BY <2>4, <6>1
        <5> QED
          BY <2>3, <4>1, <5>1, <5>2
      <4> QED
        BY <2>4, <4>2 DEF Queued
    <3> QED
      BY <3>1, <3>2
  <2>10. NoLostWaiter'
    <3>1. Queued' = {d \in Calls : promise'[d] = "waiting"}
      BY <1>3, <2>2, <2>9 DEF NoLostWaiter, QueueTypeOK
    <3>2. ASSUME NEW i \in 1..(n - 1), NEW j \in 1..(n - 1),
                 workerQueue'[i] = workerQueue'[j]
          PROVE  i = j
      <4> DEFINE at(m) == IF m < k THEN m ELSE m + 1
      <4>1. \A m \in 1..(n - 1) : at(m) \in 1..n /\ workerQueue'[m] = workerQueue[at(m)]
        BY <2>3, <2>4
      <4>2. at(i) = at(j)
        BY <2>3, <3>2, <4>1 DEF NoLostWaiter
      <4> QED
        BY <2>3, <4>2
    <3> QED
      BY <2>4, <3>1, <3>2 DEF NoLostWaiter
  <2>11. NoIdleSlot'
    BY <1>1, <2>3 DEF NoIdleSlot
  <2>12. CapRespected' /\ QueueBounded'
    BY <1>1, <2>3, <2>6, LimitsAssumption DEF CapRespected, QueueBounded
  <2> QED
    BY <2>7, <2>8, <2>10, <2>11, <2>12
<1> QED
  BY <1>2, <1>3

LEMMA AbortBeforeAcquireInv ==
  ASSUME QueueInv, NEW c \in Calls, AbortBeforeAcquire(c)
  PROVE  QueueInv'
BY DEF AbortBeforeAcquire, QueueInv, QueueTypeOK, SlotsConserved, CapRespected, NoLostWaiter,
       NoIdleSlot, QueueBounded, Queued, Holders

LEMMA CancelWorkerQueueInv ==
  ASSUME QueueInv, CancelWorkerQueue
  PROVE  QueueInv'
<1> USE DEF QueueInv
<1>1. /\ workerQueue' = <<>>
      /\ promise' = [c \in Calls |-> IF c \in Queued THEN "cancelled" ELSE promise[c]]
      /\ UNCHANGED <<activeRuns, aborted>>
  BY DEF CancelWorkerQueue
<1>2. QueueTypeOK'
  BY <1>1 DEF QueueTypeOK
<1>3. SlotsConserved'
  <2>1. \A c \in Calls : promise'[c] = "acquired" <=> promise[c] = "acquired"
    BY <1>1 DEF NoLostWaiter
  <2> QED
    BY <1>1, <2>1, SameHolders
<1>4. NoLostWaiter'
  <2>1. Queued' = {}
    BY <1>1 DEF Queued
  <2>2. {c \in Calls : promise'[c] = "waiting"} = {}
    BY <1>1 DEF NoLostWaiter
  <2> QED
    BY <1>1, <2>1, <2>2 DEF NoLostWaiter
<1>5. CapRespected' /\ NoIdleSlot' /\ QueueBounded'
  BY <1>1, LimitsAssumption DEF CapRespected, NoIdleSlot, QueueBounded
<1> QED
  BY <1>2, <1>3, <1>4, <1>5

LEMMA ReturnInv ==
  ASSUME QueueInv, NEW c \in Calls, Return(c)
  PROVE  QueueInv'
<1> USE DEF QueueInv
<1>1. /\ promise[c] \in Refusals
      /\ promise' = [promise EXCEPT ![c] = "none"]
      /\ aborted' = aborted \ {c}
      /\ UNCHANGED <<activeRuns, workerQueue>>
  BY DEF Return
<1>2. QueueTypeOK'
  BY <1>1 DEF QueueTypeOK
<1>3. SlotsConserved'
  BY <1>1, SameHolders DEF QueueTypeOK
<1>4. NoLostWaiter'
  BY <1>1 DEF NoLostWaiter, Queued, QueueTypeOK
<1>5. CapRespected' /\ NoIdleSlot' /\ QueueBounded'
  BY <1>1 DEF CapRespected, NoIdleSlot, QueueBounded
<1> QED
  BY <1>2, <1>3, <1>4, <1>5

LEMMA NextInv == QueueInv /\ [QueueNext]_queueVars => QueueInv'
<1> SUFFICES ASSUME QueueInv, [QueueNext]_queueVars PROVE QueueInv'
  OBVIOUS
<1>1. CASE UNCHANGED queueVars
  BY <1>1 DEF queueVars, QueueInv, QueueTypeOK, SlotsConserved, CapRespected, NoLostWaiter,
              NoIdleSlot, QueueBounded, Queued, Holders
<1>2. CASE CancelWorkerQueue
  BY <1>2, CancelWorkerQueueInv
<1>3. ASSUME NEW c \in Calls, AcquireWorkerSlot(c) PROVE QueueInv'
  BY <1>3, AcquireWorkerSlotInv
<1>4. ASSUME NEW c \in Calls, ReleaseWorkerSlot(c) PROVE QueueInv'
  BY <1>4, ReleaseWorkerSlotInv
<1>5. ASSUME NEW c \in Calls, Abort(c) PROVE QueueInv'
  BY <1>5, AbortInv
<1>6. ASSUME NEW c \in Calls, AbortBeforeAcquire(c) PROVE QueueInv'
  BY <1>6, AbortBeforeAcquireInv
<1>7. ASSUME NEW c \in Calls, Return(c) PROVE QueueInv'
  BY <1>7, ReturnInv
<1> QED
  BY <1>1, <1>2, <1>3, <1>4, <1>5, <1>6, <1>7 DEF QueueNext

\* The queue keeps its books in every reachable state (worker-queue.ts).
THEOREM QueueInvariance == QueueSafety => []QueueInv
BY InitInv, NextInv, PTL DEF QueueSafety

-----------------------------------------------------------------------------
(* What follows from the invariant *)

\* The bookkeeping of the queue is sound at all times: the counter is exact, the calls in
\* the queue are those that wait, nobody waits in front of a free slot, the queue has its
\* limit.
THEOREM QueueAlwaysSound == QueueSafety => []QueueIsSound
<1>1. QueueInv => QueueIsSound
  BY DEF QueueInv, QueueIsSound
<1> QED
  BY <1>1, QueueInvariance, PTL

\* The state variables keep their types.
THEOREM QueueTypeCorrect == QueueSafety => []QueueTypeOK
<1>1. QueueInv => QueueTypeOK
  BY DEF QueueInv
<1> QED
  BY <1>1, QueueInvariance, PTL

\* state.activeRuns is the number of calls that hold a slot.
THEOREM CounterIsExact == QueueSafety => []SlotsConserved
<1>1. QueueInv => SlotsConserved
  BY DEF QueueInv
<1> QED
  BY <1>1, QueueInvariance, PTL

\* The calls in the queue are those that wait, each of them once.
THEOREM WaitersAreQueued == QueueSafety => []NoLostWaiter
<1>1. QueueInv => NoLostWaiter
  BY DEF QueueInv
<1> QED
  BY <1>1, QueueInvariance, PTL

\* Nobody waits in front of a free slot.
THEOREM WaitersHaveReason == QueueSafety => []NoIdleSlot
<1>1. QueueInv => NoIdleSlot
  BY DEF QueueInv
<1> QED
  BY <1>1, QueueInvariance, PTL

\* The queue is never longer than settings.queueSize.
THEOREM QueueWithinSize == QueueSafety => []QueueBounded
<1>1. QueueInv => QueueBounded
  BY DEF QueueInv
<1> QED
  BY <1>1, QueueInvariance, PTL

-----------------------------------------------------------------------------
(* First come, first served *)

Fair ==
  \A d \in Calls : promise[d] # "acquired" /\ promise'[d] = "acquired" =>
    /\ \A c \in Calls : AheadOf(c, d) => promise'[c] # "waiting"
    /\ promise[d] = "none" => workerQueue = <<>>

\* Only a call that finds a slot free, or the head of the queue, is served.
LEMMA ServedOnlyBy ==
  ASSUME QueueInv, QueueNext, NEW d \in Calls,
         promise[d] # "acquired", promise'[d] = "acquired"
  PROVE  \/ SlotFree /\ promise[d] = "none"
         \/ workerQueue # <<>> /\ d = Head(workerQueue)
<1> USE DEF QueueInv, QueueTypeOK
<1>1. CASE CancelWorkerQueue
  BY <1>1 DEF CancelWorkerQueue
<1>2. ASSUME NEW c \in Calls, AcquireWorkerSlot(c)
      PROVE  SlotFree /\ promise[d] = "none"
  BY <1>2 DEF AcquireWorkerSlot, TakeSlot, WaitOrRefuse, RefusalOf
<1>3. ASSUME NEW c \in Calls, ReleaseWorkerSlot(c)
      PROVE  workerQueue # <<>> /\ d = Head(workerQueue)
  BY <1>3 DEF ReleaseWorkerSlot, GiveBack
<1>4. ASSUME NEW c \in Calls, Abort(c) \/ AbortBeforeAcquire(c) \/ Return(c)
      PROVE  FALSE
  BY <1>4 DEF Abort, AbortBeforeAcquire, Return
<1> QED
  BY <1>1, <1>2, <1>3, <1>4 DEF QueueNext

LEMMA NextFair == QueueInv /\ QueueNext => Fair
<1> SUFFICES ASSUME QueueInv, QueueNext, NEW d \in Calls,
                    promise[d] # "acquired", promise'[d] = "acquired"
             PROVE  /\ \A c \in Calls : ~AheadOf(c, d)
                    /\ promise[d] = "none" => workerQueue = <<>>
  BY DEF Fair
<1>1. CASE SlotFree /\ promise[d] = "none"
  <2>1. workerQueue = <<>>
    BY <1>1, LimitsAssumption DEF QueueInv, QueueTypeOK, NoIdleSlot, SlotFree
  <2> QED
    BY <2>1 DEF AheadOf
<1>2. CASE workerQueue # <<>> /\ d = Head(workerQueue)
  <2>1. promise[d] = "waiting"
    BY <1>2, HeadIsWaiting DEF QueueInv
  <2>2. ASSUME NEW c \in Calls PROVE ~AheadOf(c, d)
    <3>1. /\ 1 \in DOMAIN workerQueue /\ workerQueue[1] = d
          /\ DOMAIN workerQueue = 1..Len(workerQueue) /\ Len(workerQueue) \in Nat
      BY <1>2 DEF QueueInv, QueueTypeOK
    <3>2. \A j \in DOMAIN workerQueue : workerQueue[j] = d => j = 1
      BY <3>1 DEF QueueInv, NoLostWaiter
    <3> QED
      BY <3>1, <3>2 DEF AheadOf
  <2> QED
    BY <2>1, <2>2
<1> QED
  BY <1>1, <1>2, ServedOnlyBy

\* A slot goes to the head of the queue, and past the queue only when nobody is
\* in it (shift in releaseWorkerSlot, the first test in acquireWorkerSlot).
THEOREM FirstComeFirstServed == QueueSafety => NoOvertaking
<1>1. QueueInv /\ [QueueNext]_queueVars => [Fair]_queueVars
  BY NextFair
<1>2. QueueSafety => [][Fair]_queueVars
  BY <1>1, QueueInvariance, PTL DEF QueueSafety
<1> QED
  BY <1>2 DEF NoOvertaking, Fair

-----------------------------------------------------------------------------
(* The queue implements the slot pool *)

\* SlotPool counts as this module does.
LEMMA PoolCounts == \A S : Pool!Cardinality(S) = Cardinality(S)
BY DEF Pool!Cardinality, Cardinality, Pool!IsFiniteSet, IsFiniteSet

LEMMA NextIsPoolStep == QueueInv /\ [QueueNext]_queueVars => [Pool!Next]_Holders
<1> SUFFICES ASSUME QueueInv, [QueueNext]_queueVars, Holders' # Holders
             PROVE  Pool!Next
  OBVIOUS
<1> USE DEF QueueInv
<1>1. CASE UNCHANGED queueVars
  BY <1>1 DEF queueVars, Holders
<1>2. CASE CancelWorkerQueue
  BY <1>2 DEF CancelWorkerQueue, Holders, NoLostWaiter
<1>3. ASSUME NEW c \in Calls, AcquireWorkerSlot(c) PROVE Pool!Next
  <2>1. CASE TakeSlot(c)
    <3>1. Holders' = Holders \cup {c} /\ c \notin Holders
      BY <1>3, <2>1, OneMoreHolder DEF AcquireWorkerSlot, TakeSlot
    <3>2. Pool!HasRoom(Holders)
      BY <2>1, PoolCounts DEF TakeSlot, SlotFree, SlotsConserved, Pool!HasRoom
    <3>3. Pool!Enter(c)
      BY <3>1, <3>2 DEF Pool!Enter
    <3> QED
      BY <3>3 DEF Pool!Next
  <2>2. CASE WaitOrRefuse(c)
    BY <1>3, <2>2 DEF AcquireWorkerSlot, WaitOrRefuse, RefusalOf, Holders, QueueTypeOK
  <2> QED
    BY <1>3, <2>1, <2>2 DEF AcquireWorkerSlot
<1>4. ASSUME NEW c \in Calls, ReleaseWorkerSlot(c) PROVE Pool!Next
  <2>1. promise[c] = "acquired"
    BY <1>4 DEF ReleaseWorkerSlot
  <2>2. CASE workerQueue = <<>>
    <3>1. Holders' = Holders \ {c} /\ c \in Holders
      BY <1>4, <2>1, <2>2, OneFewerHolder DEF ReleaseWorkerSlot, GiveBack
    <3> QED
      BY <3>1 DEF Pool!Next, Pool!Leave
  <2>3. CASE workerQueue # <<>>
    <3> DEFINE h == Head(workerQueue)
    <3>1. h \in Calls /\ promise[h] = "waiting"
      BY <2>3, HeadIsWaiting
    <3>2. /\ Holders' = (Holders \ {c}) \cup {h}
          /\ c \in Holders /\ h \notin Holders
      BY <1>4, <2>1, <2>3, <3>1, HolderExchanged DEF ReleaseWorkerSlot, GiveBack
    <3>3. Cardinality(Holders \ {c}) = Cardinality(Holders) - 1
      BY <3>2, HoldersFinite, FS_RemoveElement
    <3>4. Pool!HasRoom(Holders \ {c})
      BY <3>3, HoldersFinite, LimitsAssumption, PoolCounts
         DEF Pool!HasRoom, SlotsConserved, CapRespected
    <3>5. Pool!Exchange(c, h)
      BY <3>2, <3>4 DEF Pool!Exchange
    <3> QED
      BY <3>1, <3>5 DEF Pool!Next
  <2> QED
    BY <2>2, <2>3
<1>5. ASSUME NEW c \in Calls, Abort(c) \/ AbortBeforeAcquire(c) \/ Return(c)
      PROVE  FALSE
  BY <1>5 DEF Abort, AbortBeforeAcquire, Return, Holders, QueueTypeOK
<1> QED
  BY <1>1, <1>2, <1>3, <1>4, <1>5 DEF QueueNext

\* Counter and queue together are a pool of MaxParallel slots, which a call enters
\* once and leaves by its own release (worker-queue.ts as a whole).
THEOREM QueueImplementsPool == QueueSafety => PoolSpec
<1>1. QueueInit => Pool!Init
  BY DEF QueueInit, Pool!Init, Holders
<1> QED
  BY <1>1, NextIsPoolStep, QueueInvariance, PTL DEF QueueSafety, PoolSpec, Pool!Spec

=============================================================================
