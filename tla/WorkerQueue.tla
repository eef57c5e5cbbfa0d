---------------------------- MODULE WorkerQueue ----------------------------
(***************************************************************************)
(* The run slots of the host process and the FIFO queue in front of them   *)
(* (src/engine/worker-queue.ts).  Every delegate_agent call asks for one   *)
(* slot and, if it gets one, gives it back when its worker run is over.    *)
(*                                                                         *)
(* A call is identified by the promise acquireWorkerSlot returned to it:   *)
(* `promise[c]' is what that promise holds.  The identifier of a call that *)
(* returned may be used again by a later call.                             *)
(***************************************************************************)
EXTENDS Integers, Sequences, FiniteSets

CONSTANTS
  Calls,         \* identifiers of the delegate_agent calls in flight
  MaxParallel,   \* settings.maxParallel, or Unset
  QueueSize,     \* settings.queueSize, or Unset
  Unset          \* an optional setting that the configuration leaves out

ASSUME CallsAssumption == IsFiniteSet(Calls)

\* Both settings are checked by positiveInteger when the config is loaded.
ASSUME LimitsAssumption ==
  /\ Unset \notin Nat
  /\ MaxParallel \in (Nat \ {0}) \cup {Unset}
  /\ QueueSize \in (Nat \ {0}) \cup {Unset}

VARIABLES
  activeRuns,    \* state.activeRuns
  workerQueue,   \* state.workerQueue, oldest waiter first
  promise,       \* outcome of acquireWorkerSlot for each call
  aborted        \* calls whose AbortSignal has fired

queueVars == <<activeRuns, workerQueue, promise, aborted>>

\* Outcomes that end a call without a run.
Refusals == {"parallel", "queue-full", "cancelled"}
Outcomes == {"none", "waiting", "acquired"} \cup Refusals

Queued == {workerQueue[i] : i \in DOMAIN workerQueue}

QueueTypeOK ==
  /\ activeRuns \in Nat
  /\ workerQueue \in Seq(Calls)
  /\ promise \in [Calls -> Outcomes]
  /\ aborted \in SUBSET Calls

QueueInit ==
  /\ activeRuns = 0
  /\ workerQueue = <<>>
  /\ promise = [c \in Calls |-> "none"]
  /\ aborted = {}

-----------------------------------------------------------------------------
\* Mutant: the cap compared with <=.
SlotFreeOffByOne == MaxParallel = Unset \/ activeRuns <= MaxParallel

SlotFree == MaxParallel = Unset \/ activeRuns < MaxParallel

\* Mutant: the queue length compared with >.
RefusalOfOffByOne(c) ==
  IF QueueSize = Unset THEN "parallel"
  ELSE IF Len(workerQueue) > QueueSize THEN "queue-full"
  ELSE IF c \in aborted THEN "cancelled"
  ELSE "waiting"

\* The outcome of a request that finds every slot taken, in the order of the
\* code's early returns; a signal that has already fired never enters the queue.
RefusalOf(c) ==
  IF QueueSize = Unset THEN "parallel"
  ELSE IF Len(workerQueue) >= QueueSize THEN "queue-full"
  ELSE IF c \in aborted THEN "cancelled"
  ELSE "waiting"

TakeSlot(c) ==
  /\ SlotFree
  /\ activeRuns' = activeRuns + 1
  /\ promise' = [promise EXCEPT ![c] = "acquired"]
  /\ UNCHANGED <<workerQueue, aborted>>

WaitOrRefuse(c) ==
  /\ ~SlotFree
  /\ promise' = [promise EXCEPT ![c] = RefusalOf(c)]
  /\ workerQueue' = IF RefusalOf(c) = "waiting" THEN Append(workerQueue, c) ELSE workerQueue
  /\ UNCHANGED <<activeRuns, aborted>>

AcquireWorkerSlot(c) ==
  /\ promise[c] = "none"
  /\ \/ TakeSlot(c)
     \/ WaitOrRefuse(c)

\* The counter never goes below zero.
AfterRelease == IF activeRuns > 0 THEN activeRuns - 1 ELSE 0

\* Mutant: the slot is released twice, without the floor at zero.
GiveBackTwice(c) ==
  /\ activeRuns' = activeRuns - 2
  /\ promise' = [promise EXCEPT ![c] = "none"]
  /\ aborted' = aborted \ {c}
  /\ UNCHANGED workerQueue

\* Mutant: the slot is freed, and nobody looks at the queue.
GiveBackIgnoringQueue(c) ==
  /\ activeRuns' = AfterRelease
  /\ promise' = [promise EXCEPT ![c] = "none"]
  /\ aborted' = aborted \ {c}
  /\ UNCHANGED workerQueue

\* Mutant: the waiter is resumed, and its slot is not counted.
GiveBackUncounted(c) ==
  /\ activeRuns' = AfterRelease
  /\ IF workerQueue = <<>>
       THEN promise' = [promise EXCEPT ![c] = "none"] /\ UNCHANGED workerQueue
       ELSE /\ promise' = [promise EXCEPT ![c] = "none", ![Head(workerQueue)] = "acquired"]
            /\ workerQueue' = Tail(workerQueue)
  /\ aborted' = aborted \ {c}

\* Mutant: pop instead of shift.
GiveBackToNewest(c) ==
  LET n == Len(workerQueue) IN
  /\ IF n = 0
       THEN /\ activeRuns' = AfterRelease
            /\ promise' = [promise EXCEPT ![c] = "none"]
            /\ UNCHANGED workerQueue
       ELSE /\ activeRuns' = AfterRelease + 1
            /\ promise' = [promise EXCEPT ![c] = "none", ![workerQueue[n]] = "acquired"]
            /\ workerQueue' = SubSeq(workerQueue, 1, n - 1)
  /\ aborted' = aborted \ {c}

\* releaseWorkerSlot decrements the counter and hands the slot to the waiter at
\* the head of the queue in the same synchronous step.  The code does not ask who
\* gives the slot back; the call it belongs to is done with its promise and its
\* signal.
GiveBack(c) ==
  /\ \/ /\ workerQueue = <<>>
        /\ activeRuns' = AfterRelease
        /\ promise' = [promise EXCEPT ![c] = "none"]
        /\ UNCHANGED workerQueue
     \/ /\ workerQueue # <<>>
        /\ activeRuns' = AfterRelease + 1
        /\ promise' = [promise EXCEPT ![c] = "none", ![Head(workerQueue)] = "acquired"]
        /\ workerQueue' = Tail(workerQueue)
  /\ aborted' = aborted \ {c}

\* A release that keeps the books straight: by a call that holds a slot.
ReleaseWorkerSlot(c) ==
  /\ promise[c] = "acquired"
  /\ GiveBack(c)

\* Mutant: the listener settles the promise and leaves its entry in the queue.
AbortLeavesEntry(c) ==
  /\ promise[c] # "none"
  /\ c \notin aborted
  /\ aborted' = aborted \cup {c}
  /\ promise' = IF promise[c] = "waiting" THEN [promise EXCEPT ![c] = "cancelled"] ELSE promise
  /\ UNCHANGED <<activeRuns, workerQueue>>

\* Mutant: a waiter does not listen to its signal.
AbortUnheard(c) ==
  /\ promise[c] # "none"
  /\ c \notin aborted
  /\ aborted' = aborted \cup {c}
  /\ UNCHANGED <<activeRuns, workerQueue, promise>>

\* splice(i, 1).
Spliced(i) ==
  [j \in 1..(Len(workerQueue) - 1) |-> IF j < i THEN workerQueue[j] ELSE workerQueue[j + 1]]

\* The abort listener of a waiter finds its entry, takes it out of the queue and
\* settles the promise; the listener of a call that has been served is gone, so
\* its signal only fires.
Abort(c) ==
  /\ promise[c] # "none"
  /\ c \notin aborted
  /\ aborted' = aborted \cup {c}
  /\ \/ /\ promise[c] = "waiting"
        /\ promise' = [promise EXCEPT ![c] = "cancelled"]
        /\ \E i \in DOMAIN workerQueue : workerQueue[i] = c /\ workerQueue' = Spliced(i)
     \/ /\ promise[c] # "waiting"
        /\ UNCHANGED <<promise, workerQueue>>
  /\ UNCHANGED activeRuns

\* The call comes from a tool call whose signal had fired before it asked.
AbortBeforeAcquire(c) ==
  /\ promise[c] = "none"
  /\ c \notin aborted
  /\ aborted' = aborted \cup {c}
  /\ UNCHANGED <<activeRuns, workerQueue, promise>>

\* Session shutdown empties the queue and cancels everyone who was in it.
CancelWorkerQueue ==
  /\ workerQueue' = <<>>
  /\ promise' = [c \in Calls |-> IF c \in Queued THEN "cancelled" ELSE promise[c]]
  /\ UNCHANGED <<activeRuns, aborted>>

\* A call that was refused returns; the next call under this identifier has a
\* promise and a signal of its own.
Return(c) ==
  /\ promise[c] \in Refusals
  /\ promise' = [promise EXCEPT ![c] = "none"]
  /\ aborted' = aborted \ {c}
  /\ UNCHANGED <<activeRuns, workerQueue>>

QueueNext ==
  \/ CancelWorkerQueue
  \/ \E c \in Calls :
       \/ AcquireWorkerSlot(c)
       \/ ReleaseWorkerSlot(c)
       \/ Abort(c)
       \/ AbortBeforeAcquire(c)
       \/ Return(c)

QueueSafety == QueueInit /\ [][QueueNext]_queueVars

\* Every run gives its slot back in the end: close() is reached on every way
\* out of a run.  Nothing obliges anybody to abort, to shut down or to call.
QueueFairness == \A c \in Calls : WF_queueVars(ReleaseWorkerSlot(c))

QueueSpec == QueueSafety /\ QueueFairness

-----------------------------------------------------------------------------
Holders == {c \in Calls : promise[c] = "acquired"}

\* The counter the drain guard and the parallel cap read is the number of calls
\* that hold a slot: no path counts a slot twice, or forgets to.
SlotsConserved == activeRuns = Cardinality(Holders)

\* A cap on parallel runs is never exceeded, a hand-over to a waiter included.
CapRespected == MaxParallel # Unset => activeRuns <= MaxParallel

\* Nobody is waiting who is not in the queue (such a call would never be
\* served), nobody is in it twice (its second turn would take a slot that is
\* never returned), and nobody is in it who has been answered already.
NoLostWaiter ==
  /\ Queued = {c \in Calls : promise[c] = "waiting"}
  /\ \A i, j \in DOMAIN workerQueue : workerQueue[i] = workerQueue[j] => i = j

\* A call waits only while every slot is taken: no abort, release or shutdown
\* leaves a free slot in front of a non-empty queue.
NoIdleSlot == workerQueue # <<>> => activeRuns = MaxParallel

\* The queue stays within the configured size.
QueueBounded == QueueSize # Unset => Len(workerQueue) <= QueueSize

\* The bookkeeping of the queue as a whole: the counter counts the holders, who waits
\* is queued once and for a reason, and the queue has its limit.
QueueIsSound == SlotsConserved /\ NoLostWaiter /\ NoIdleSlot /\ QueueBounded

AheadOf(c, d) ==
  \E i, j \in DOMAIN workerQueue : i < j /\ workerQueue[i] = c /\ workerQueue[j] = d

\* First come, first served: nobody is served while somebody who was ahead of
\* it in the queue goes on waiting, and a newcomer finds no slot before the
\* queue is empty.
NoOvertaking ==
  [][\A d \in Calls : promise[d] # "acquired" /\ promise'[d] = "acquired" =>
       /\ \A c \in Calls : AheadOf(c, d) => promise'[c] # "waiting"
       /\ promise[d] = "none" => workerQueue = <<>>]_queueVars

\* Every waiter is answered in the end.
WaiterAnswered == \A c \in Calls : promise[c] = "waiting" ~> promise[c] # "waiting"

-----------------------------------------------------------------------------
\* What the queue promises to the dispatcher: a pool of MaxParallel slots.
Pool == INSTANCE SlotPool WITH holders <- Holders, Capacity <- MaxParallel

PoolSpec == Pool!Spec
=============================================================================
