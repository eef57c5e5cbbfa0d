------------------------------ MODULE Dashboard ------------------------------
(***************************************************************************)
(* A page of the dashboard on top of the telemetry daemon: the event       *)
(* stream of observability/server/sse.ts and /events of http-handler.ts on *)
(* the one side, the store of ui/web/src/store (wiring.ts, raw.ts and      *)
(* event-ring.ts) with drainEventsAfter of ui/web/src/api.ts on the other. *)
(*                                                                         *)
(* The page loads the recent events once and follows the stream.  Whenever *)
(* the stream was away it drains the rows after its largest cursor page by *)
(* page up to a bound the first answer freezes, and shows "live" when the  *)
(* drain is over.  Between its awaits the page is one thread.              *)
(***************************************************************************)
EXTENDS Ingestion

CONSTANTS
  PageSize,    \* rows of an answer to a drain
  BootSize,    \* rows of the answer to the first load
  RingSize,    \* LIVE_EVENT_CAPACITY
  WireSize,    \* SSE_BUFFER_BYTES, in frames
  Racing       \* may frames overtake the first load, and reconnects a drain

Row        == [id : Nat \ {0}, e : Event]
AnswerType == [events : SUBSET Row, next : Nat, hw : Nat, more : BOOLEAN]
DrainType  == [after : Nat, hw : Nat \cup {None}, gens : SUBSET Nat, page : AnswerType \cup {None}]

ASSUME DashboardAssumption ==
  /\ {PageSize, BootSize, RingSize, WireSize} \subseteq Nat \ {0}
  /\ Racing \in BOOLEAN /\ None \notin AnswerType \cup DrainType

VARIABLES
  conn,      \* the event stream: "closed", "open", or "closing" with frames to deliver
  wire,      \* frames on their way to the page
  boot,      \* the first /events: "unopened", "asked", "answered", "done"
  recent,    \* its answer
  hello,     \* firstHelloPending: "pending", "waiting" for boot, or "done"
  waiting,   \* the hello that waits
  gen,       \* connectionGen
  status,    \* the connection badge
  ring,      \* eventRing
  last,      \* lastCursor
  resync,    \* resyncInFlight: the drain after a reconnect
  catchup    \* the drain between the first load and the first hello

page  == <<boot, recent, hello, waiting, gen, status, ring, last, resync, catchup>>
dvars == <<vars, conn, wire, page>>

NoDrain == None
NoPage  == None

DashInit ==
  /\ Init
  /\ conn = "closed" /\ wire = <<>> /\ boot = "unopened" /\ recent = {}
  /\ hello = "pending" /\ waiting = None
  /\ gen = 0 /\ status = "connecting" /\ ring = {} /\ last = 0
  /\ resync = NoDrain /\ catchup = NoDrain

----------------------------------------------------------------------------
(* The daemon's side of the stream.                                        *)

ById(R) == [i \in 1 .. Cardinality(R) |->
              CHOOSE r \in R : Cardinality({q \in R : q.id < r.id}) = i - 1]

Hive(r)   == [type |-> "hive", row |-> r]
Hello(c)  == [type |-> "hello", cursor |-> c]
Delete(S) == [type |-> "delete", sessions |-> S]

\* A stream whose buffer is full is closed and catches up later.
Broadcast(frames) ==
  IF conn # "open" \/ frames = <<>> THEN UNCHANGED <<conn, wire>>
  ELSE LET all == wire \o frames
       IN  IF Len(all) <= WireSize THEN wire' = all /\ UNCHANGED conn
           ELSE wire' = SubSeq(all, 1, WireSize) /\ conn' = "closing"

\* What a read inserted is broadcast in the order of the rows.
BroadcastRows ==
  LET new == ById(rows' \ rows) IN Broadcast([i \in DOMAIN new |-> Hive(new[i])])

BroadcastDelete ==
  LET S == {s \in Sessions : sess[s] # None /\ sess'[s] = None}
  IN  Broadcast(IF S = {} THEN <<>> ELSE <<Delete(S)>>)

\* The largest rows of a set, as many as a page or the ring holds.
Newest(n, R)  == {r \in R : Cardinality({q \in R : q.id > r.id}) < n}
Earliest(n, R) == {r \in R : Cardinality({q \in R : q.id < r.id}) < n}

\* /events?after= with the bound the page asks for.
HighWater(d) == IF d.hw # None /\ d.hw >= d.after /\ d.hw < Top THEN d.hw ELSE Top

\* Mutant: an answer that reaches the bound announces another one.
AnswerTo_OffByOne(d) ==
  LET hw     == HighWater(d)
      events == Earliest(PageSize, {r \in rows : r.id > d.after /\ r.id <= hw})
      next   == IF events = {} THEN d.after ELSE Max({r.id : r \in events})
  IN  [events |-> events, next |-> next, hw |-> hw, more |-> next <= hw]

AnswerTo(d) ==
  LET hw     == HighWater(d)
      events == Earliest(PageSize, {r \in rows : r.id > d.after /\ r.id <= hw})
      next   == IF events = {} THEN d.after ELSE Max({r.id : r \in events})
  IN  [events |-> events, next |-> next, hw |-> hw, more |-> next < hw]

----------------------------------------------------------------------------
(* The page.                                                               *)

\* ingestEvents: rows the ring has are skipped, and it keeps its newest; of two rows with
\* one rowid, used again after a delete, either.
IngestEvents(R) ==
  LET all == ring \cup {r \in R : \A q \in ring : q.e # r.e}
  IN  /\ \E keep \in kSubset(Min({RingSize, Cardinality(all)}), all) :
           /\ \A r \in keep, q \in all \ keep : r.id >= q.id
           /\ ring' = keep
      /\ last' = Max({last} \cup {r.id : r \in R})

Drain(after, hw, gens) == [after |-> after, hw |-> hw, gens |-> gens, page |-> NoPage]

OpenPage ==
  /\ boot = "unopened" /\ "page" \in world /\ boot' = "asked"
  /\ UNCHANGED <<vars, conn, wire, recent, hello, waiting, gen, status, ring, last, resync, catchup>>

\* The recent rows, or none when the daemon does not answer.
AnswerBoot ==
  /\ boot = "asked"
  /\ boot' = "answered" /\ recent' = IF up THEN Newest(BootSize, rows) ELSE {}
  /\ UNCHANGED <<vars, conn, wire, hello, waiting, gen, status, ring, last, resync, catchup>>

\* Mutant: the first hello is ignored.
FillGap_Ignored(h, from) == UNCHANGED <<status, catchup>>

\* The gap between the first load and the first hello.
FillGap(h, from) ==
  IF h.cursor > from
  THEN status' = "syncing" /\ catchup' = Drain(from, h.cursor, {h.gen})
  ELSE UNCHANGED <<status, catchup>>

FinishBoot ==
  /\ boot = "answered" /\ boot' = "done"
  /\ IngestEvents(recent) /\ recent' = {}
  /\ \/ hello = "waiting" /\ hello' = "done" /\ waiting' = None /\ FillGap(waiting, last')
     \/ hello # "waiting" /\ UNCHANGED <<hello, waiting, status, catchup>>
  /\ UNCHANGED <<vars, conn, wire, gen, resync>>

\* The stream opens: the daemon says hello with the cursor of its table, and the page
\* resynchronises unless this is its first connection.
Connect ==
  /\ boot # "unopened" /\ conn = "closed" /\ up
  /\ Racing \/ (resync = NoDrain /\ catchup = NoDrain)
  /\ conn' = "open" /\ wire' = <<Hello(Top)>>
  /\ gen' = gen + 1
  /\ \/ /\ gen = 0 /\ status' = "live"
        /\ UNCHANGED <<hello, waiting, resync>>
     \/ /\ gen > 0 /\ status' = "syncing"
        /\ hello' = "done" /\ waiting' = None
        /\ resync' = IF resync = NoDrain THEN Drain(last, None, {gen'})
                     ELSE [resync EXCEPT !.gens = @ \cup {gen'}]
  /\ UNCHANGED <<vars, boot, recent, ring, last, catchup>>

Loaded == boot = "done"

ReceiveHello(f) ==
  /\ f.type = "hello"
  /\ \/ hello # "pending" /\ UNCHANGED <<hello, waiting, status, catchup>>
     \/ /\ hello = "pending" /\ Loaded
        /\ hello' = "done" /\ FillGap([cursor |-> f.cursor, gen |-> gen], last)
        /\ UNCHANGED waiting
     \/ /\ hello = "pending" /\ ~Loaded
        /\ hello' = "waiting" /\ waiting' = [cursor |-> f.cursor, gen |-> gen]
        /\ UNCHANGED <<status, catchup>>
  /\ UNCHANGED <<ring, last>>

ReceiveHive(f) ==
  /\ f.type = "hive" /\ (Racing \/ Loaded)
  /\ IngestEvents({f.row})
  /\ UNCHANGED <<hello, waiting, status, catchup>>

\* purgeLocal
ReceiveDelete(f) ==
  /\ f.type = "delete"
  /\ ring' = {r \in ring : r.e.s \notin f.sessions}
  /\ UNCHANGED <<hello, waiting, status, catchup, last>>

Receive ==
  /\ wire # <<>> /\ wire' = Tail(wire)
  /\ LET f == Head(wire) IN ReceiveHello(f) \/ ReceiveHive(f) \/ ReceiveDelete(f)
  /\ UNCHANGED <<vars, conn, boot, recent, gen, resync>>

\* The stream ends: the daemon closed it, or the connection broke.
Disconnected == conn' = "closed" /\ wire' = <<>> /\ gen' = gen + 1

Drop ==
  /\ \/ conn = "closing" /\ wire = <<>> /\ UNCHANGED world
     \/ conn = "open" /\ Occurs("drop")
  /\ Disconnected
  /\ UNCHANGED <<disk, registry, up, src, db, hist, boot, recent, hello, waiting, status, ring, last, resync, catchup>>

\* The grace period of the badge is over.
ShowReconnecting ==
  /\ conn = "closed" /\ gen > 0 /\ status # "reconnecting" /\ status' = "reconnecting"
  /\ UNCHANGED <<vars, conn, wire, boot, recent, hello, waiting, gen, ring, last, resync, catchup>>

\* validateEventPage and the check of the bound.
Acceptable(d) ==
  /\ d.page.hw >= d.page.next
  /\ ~(d.page.more /\ d.page.next = d.after)
  /\ d.hw \in {None, d.page.hw}

\* An answer arrives at the page: the drain goes on, is over, or gives up.
Advanced(d) ==
  IF ~Acceptable(d) \/ ~d.page.more THEN NoDrain
  ELSE Drain(d.page.next, d.page.hw, d.gens)

Finishes(d) == Acceptable(d) /\ ~d.page.more

TakeEvents(d) ==
  /\ d # NoDrain /\ d.page # NoPage
  /\ IF Acceptable(d) THEN IngestEvents(d.page.events) ELSE UNCHANGED <<ring, last>>
  /\ status' = IF Finishes(d) /\ gen \in d.gens THEN "live" ELSE status
  /\ UNCHANGED <<vars, conn, wire, boot, recent, hello, waiting, gen>>

AnswerResync ==
  /\ up /\ resync # NoDrain /\ resync.page = NoPage
  /\ resync' = [resync EXCEPT !.page = AnswerTo(resync)]
  /\ UNCHANGED <<vars, conn, wire, boot, recent, hello, waiting, gen, status, ring, last, catchup>>

AnswerCatchup ==
  /\ up /\ catchup # NoDrain /\ catchup.page = NoPage
  /\ catchup' = [catchup EXCEPT !.page = AnswerTo(catchup)]
  /\ UNCHANGED <<vars, conn, wire, boot, recent, hello, waiting, gen, status, ring, last, resync>>

TakeResync  == TakeEvents(resync) /\ resync' = Advanced(resync) /\ UNCHANGED catchup
TakeCatchup == TakeEvents(catchup) /\ catchup' = Advanced(catchup) /\ UNCHANGED resync

Page ==
  \/ AnswerBoot \/ FinishBoot \/ Connect \/ Receive \/ AnswerResync \/ AnswerCatchup
  \/ TakeResync \/ TakeCatchup \/ (conn = "closing" /\ Drop)

----------------------------------------------------------------------------
(* Both together.                                                          *)

\* A crash of the daemon closes the stream.
Cut ==
  IF conn = "closed" THEN UNCHANGED <<conn, wire, page>>
  ELSE Disconnected /\ UNCHANGED <<boot, recent, hello, waiting, status, ring, last, resync, catchup>>

Still == UNCHANGED <<conn, wire>>

DashNext ==
  \/ \E s \in Sessions : (StartSession(s) \/ Emit(s) \/ HostDies(s)) /\ Still /\ UNCHANGED page
  \/ \E s \in Sessions : (AddSource(s) \/ ReadSource(s)) /\ BroadcastRows /\ UNCHANGED page
  \/ \E s \in Sessions : CrashInRead(s) /\ Cut
  \/ \E s \in Sessions : DeleteSession(s) /\ BroadcastDelete /\ UNCHANGED page
  \/ \E s \in Sessions : DeleteProjectSourceLogs(s) /\ Still /\ UNCHANGED page
  \/ \E cutoff \in 1 .. MaxEvents : Prune(cutoff) /\ BroadcastDelete /\ UNCHANGED page
  \/ Crash /\ Cut
  \/ StartTelemetryRuntime /\ Still /\ UNCHANGED page
  \/ OpenPage \/ Page \/ Drop \/ ShowReconnecting

DashSafety == DashInit /\ [][DashNext]_dvars

\* Requests are retried without end, and a stream that is away is opened again.
DashSpec ==
  /\ DashSafety
  /\ WF_dvars(Daemon /\ BroadcastRows /\ UNCHANGED page)
  /\ WF_dvars(StartTelemetryRuntime /\ Still /\ UNCHANGED page)
  /\ WF_dvars(Page)

----------------------------------------------------------------------------
(* Properties.                                                             *)

\* Every variable keeps its type.
DashTypeOK ==
  /\ TypeOK
  /\ conn \in {"closed", "open", "closing"} /\ Len(wire) <= WireSize
  /\ gen \in Nat /\ last \in Nat /\ Cardinality(ring) <= RingSize
  /\ status \in {"connecting", "live", "reconnecting", "syncing"}

\* What the database and the page hold at any time: cursors, totals and counts of the
\* sessions agree with the rows that are there.
RowsAddUp == DashTypeOK /\ CursorsDiffer /\ TotalsAreSums /\ ShortfallIsPruned

Settled == Loaded /\ conn = "open" /\ wire = <<>>

Shown == {r.e : r \in ring}

\* The newest rows, except those that are older than all the page has.
Missing == {r \in Newest(RingSize, rows) : r.e \notin Shown /\ (ring = {} \/ \E q \in ring : q.id < r.id)}

\* A page that says "live" and has taken every frame has no hole behind its oldest row:
\* nothing was lost between the first load and the stream, while the stream was away,
\* or to a page of a drain that a restart of the daemon interrupted (wiring.ts: a
\* reconnect "never loses events during a disconnect").
LiveMeansComplete == (status = "live" /\ Settled) => Missing = {}

\* A page that is open comes to say "live" with all frames taken, unless telemetry was
\* deleted, which can break a drain for good.
PageSettles ==
  [](boot # "unopened" => <>(gone # {} \/ (status = "live" /\ Settled)))
=============================================================================
