------------------------------ MODULE Ingestion ------------------------------
(***************************************************************************)
(* The way of a telemetry event from the host into the database of the     *)
(* dashboard daemon: engine/observability.ts appends it to the JSONL log   *)
(* of its session and rotates the log, observability/server/runtime.ts     *)
(* reads the logs from stored offsets, and observability/server/db.ts      *)
(* keeps the rows, the totals of a session and the offsets.                *)
(*                                                                         *)
(* A log is a sequence of lines, and an offset counts complete lines.  A   *)
(* host that dies while it appends leaves a fragment without a newline     *)
(* (torn), and the next append completes it to a line that is no JSON.     *)
(*                                                                         *)
(* An event is [s |-> its session, t |-> its time, kind |-> its kind]: t   *)
(* orders the events of all sessions and stands for event_id and ts.  Of   *)
(* the kinds, "usage" carries one token, "progress" is never stored and    *)
(* "tool" starts a tool call whose id is the same for a whole session.     *)
(***************************************************************************)
EXTENDS Integers, Sequences, FiniteSets, FiniteSetsExt

CONSTANTS
  Sessions,
  Kinds,        \* kinds of events the hosts emit
  MaxEvents,    \* bound: events emitted
  MaxLines,     \* settings.telemetry.max-log-bytes, in lines
  BatchLines,   \* lines per transaction
  Inodes,       \* inode numbers of the file system that holds a log
  Worlds,       \* sets of the one-time mishaps and requests a behaviour may have
  None

VARIABLES
  now,       \* events emitted so far
  hosting,   \* does a host process write the log of this session
  log,       \* the log file of a session, None if there is none
  archived,  \* the inodes of rotated logs, which stay on disk
  registry,  \* sessions with a row in telemetry-sessions.jsonl
  up,        \* is the daemon running
  src,       \* sources: its cursor into the log of a session
  rows,      \* table events
  sess,      \* table sessions: event_count, input_tokens and last_ts
  usage,     \* table usage_events
  cursor,    \* table ingest_sources
  world,     \* what may still happen to this behaviour
  gone,      \* history: the events whose rows were deleted or pruned
  trimmed    \* history: rows pruned from a session that is still there

disk == <<now, hosting, log, archived>>
db   == <<rows, sess, usage, cursor>>
hist == <<gone, trimmed>>
vars == <<disk, registry, up, src, db, world, hist>>

Event  == [s : Sessions, t : 1 .. MaxEvents, kind : {"usage", "progress", "tool", "garbage"}]
File   == [ino : Inodes, lines : Seq(Event), torn : BOOLEAN]
Cursor == [offset : Nat, ino : Nat \cup {None}, check : Event \cup {None}]
Stats  == [count : Nat, tokens : Nat, last : Nat]

ASSUME IngestionAssumption ==
  /\ Kinds \subseteq {"usage", "progress", "tool"}
  /\ MaxEvents \in Nat /\ MaxLines \in Nat \ {0} /\ BatchLines \in Nat \ {0}
  /\ Inodes \subseteq Nat /\ IsFiniteSet(Inodes)
  /\ None \notin Nat /\ None \notin Event \cup File \cup Cursor \cup Stats

NoFile  == None
Fresh   == [offset |-> 0, ino |-> None, check |-> None]
NoStats == [count |-> 0, tokens |-> 0, last |-> 0]

Init ==
  /\ now = 0 /\ hosting = [s \in Sessions |-> FALSE]
  /\ log = [s \in Sessions |-> NoFile] /\ archived = [s \in Sessions |-> {}]
  /\ registry = {} /\ up = TRUE /\ src = [s \in Sessions |-> None]
  /\ rows = {} /\ sess = [s \in Sessions |-> None] /\ usage = {}
  /\ cursor = [s \in Sessions |-> None]
  /\ world \in Worlds
  /\ gone = {} /\ trimmed = [s \in Sessions |-> 0]

Occurs(w) == w \in world /\ world' = world \ {w}

----------------------------------------------------------------------------
(* The host: an append under the lock of the log, with rotation.           *)

Size(f) == Len(f.lines) + (IF f.torn THEN 1 ELSE 0)

NewFile(i) == [ino |-> i, lines |-> <<>>, torn |-> FALSE]

\* The file the next line goes to: a log that is full is renamed first.  A fragment is
\* taken to be too short to fill it.
IsFull(s) == log[s] # NoFile /\ Len(log[s].lines) >= MaxLines
Target(s, i) ==
  IF log[s] = NoFile THEN i \notin archived[s]
  ELSE IF IsFull(s) THEN i \notin archived[s] \cup {log[s].ino}
  ELSE i = log[s].ino

Base(s, i) == IF log[s] = NoFile \/ IsFull(s) THEN NewFile(i) ELSE log[s]

\* A line that completes a fragment is not JSON.
Written(f, e) ==
  [f EXCEPT !.lines = Append(@, IF f.torn THEN [e EXCEPT !.kind = "garbage"] ELSE e),
            !.torn = FALSE]

AppendLine(s, kind) ==
  /\ now < MaxEvents
  /\ now' = now + 1
  /\ \E i \in Inodes :
       /\ Target(s, i)
       /\ log' = [log EXCEPT ![s] = Written(Base(s, i), [s |-> s, t |-> now + 1, kind |-> kind])]
  /\ archived' = [archived EXCEPT ![s] = IF IsFull(s) THEN @ \cup {log[s].ino} ELSE @]

\* A session starts, or one that ended is resumed: it registers and says so.
StartSession(s) ==
  /\ ~hosting[s]
  /\ hosting' = [hosting EXCEPT ![s] = TRUE]
  /\ registry' = registry \cup {s}
  /\ \E k \in Kinds : AppendLine(s, k)
  /\ UNCHANGED <<up, src, db, world, hist>>

Emit(s) ==
  /\ hosting[s]
  /\ \E k \in Kinds : AppendLine(s, k)
  /\ UNCHANGED <<hosting, registry, up, src, db, world, hist>>

\* The host dies between two appends or inside one.
HostDies(s) ==
  /\ hosting[s] /\ Occurs("host")
  /\ hosting' = [hosting EXCEPT ![s] = FALSE]
  /\ \/ UNCHANGED log
     \/ log[s] # NoFile /\ log' = [log EXCEPT ![s].torn = TRUE]
  /\ UNCHANGED <<now, archived, registry, up, src, db, hist>>

----------------------------------------------------------------------------
(* The database.  A batch of lines and its offset are one transaction.     *)

Stored == {r.e : r \in rows}
Top    == IF rows = {} THEN 0 ELSE Max({r.id : r \in rows})

RowsOf(s) == {r \in rows : r.e.s = s}

\* Lines that become rows: corrupt ones, progress and duplicates do not.
IsNew(e) == e.kind \notin {"garbage", "progress"} /\ e \notin Stored
NewIn(f, lo, hi) == {i \in lo + 1 .. hi : IsNew(f.lines[i])}

\* event_id is the key and the rowid is one more than the largest in use.
InsertEvent(f, lo, hi) ==
  rows \cup {[id |-> Top + Cardinality(NewIn(f, lo, i)), e |-> f.lines[i]] : i \in NewIn(f, lo, hi)}

UsageIn(f, lo, hi) == {f.lines[i] : i \in {j \in NewIn(f, lo, hi) : f.lines[j].kind = "usage"}}
ProjectUsageEvent(f, lo, hi) == usage \cup UsageIn(f, lo, hi)

MaxTime(S, least) == Max({least} \cup {e.t : e \in S})

\* Mutant: every line that was read counts as an event.
UpsertSession_EveryLine(s, f, lo, hi) ==
  LET new == NewIn(f, lo, hi)
      old == IF sess[s] = None THEN NoStats ELSE sess[s]
  IN  IF new = {} THEN sess[s]
      ELSE [count  |-> old.count + (hi - lo),
            tokens |-> old.tokens + Cardinality(UsageIn(f, lo, hi) \ usage),
            last   |-> MaxTime({f.lines[i] : i \in new}, old.last)]

UpsertSession(s, f, lo, hi) ==
  LET new == NewIn(f, lo, hi)
      old == IF sess[s] = None THEN NoStats ELSE sess[s]
  IN  IF new = {} THEN sess[s]
      ELSE [count  |-> old.count + Cardinality(new),
            tokens |-> old.tokens + Cardinality(UsageIn(f, lo, hi) \ usage),
            last   |-> MaxTime({f.lines[i] : i \in new}, old.last)]

\* The last bytes before an offset tell a rewritten file from one that grew.
FileCheckpoint(f, offset) == IF offset = 0 THEN None ELSE f.lines[offset]

Coalesce(new, old) == IF new = None THEN old ELSE new

SetIngestOffset(s, f, offset) ==
  LET old == IF cursor[s] = None THEN Fresh ELSE cursor[s]
  IN  [cursor EXCEPT ![s] = [offset |-> offset, ino |-> f.ino,
                             check |-> Coalesce(FileCheckpoint(f, offset), old.check)]]

\* The transactions for the lines lo + 1 .. hi.
Commit(s, f, lo, hi) ==
  /\ rows' = InsertEvent(f, lo, hi)
  /\ usage' = ProjectUsageEvent(f, lo, hi)
  /\ sess' = [sess EXCEPT ![s] = UpsertSession(s, f, lo, hi)]
  /\ cursor' = SetIngestOffset(s, f, hi)

----------------------------------------------------------------------------
(* The daemon: readSource.                                                 *)

Rotated(f, c)   == c.ino # None /\ c.ino # f.ino
Truncated(f, c) == Size(f) < c.offset
Rewritten(f, c) ==
  /\ ~Rotated(f, c) /\ c.check # None /\ c.offset > 0 /\ c.offset <= Size(f)
  /\ c.offset > Len(f.lines) \/ FileCheckpoint(f, c.offset) # c.check
\* Mutant: the inode number is the only identity of a file.
Restarts_SameInode(f, c) == Rotated(f, c) \/ Truncated(f, c)

Restarts(f, c) == Rotated(f, c) \/ Rewritten(f, c) \/ Truncated(f, c)

ReadFrom(f, c) == IF Restarts(f, c) THEN 0 ELSE c.offset

\* A second tool call with one id breaks the unique index: its batch is rolled back.
Clashes(s, f, lo, i) ==
  /\ IsNew(f.lines[i]) /\ f.lines[i].kind = "tool"
  /\ \/ \E r \in RowsOf(s) : r.e.kind = "tool"
     \/ \E j \in NewIn(f, lo, i - 1) : f.lines[j].kind = "tool"

\* Where the batches that start at lo end, and where reading stops.
BatchEnds(f, lo) == {hi \in lo .. Len(f.lines) : (hi - lo) % BatchLines = 0 \/ hi = Len(f.lines)}
Committed(s, f, lo) ==
  {hi \in BatchEnds(f, lo) : ~\E i \in lo + 1 .. hi : Clashes(s, f, lo, i)}
ReadTo(s, f, lo) == Max(Committed(s, f, lo))

\* Nothing unread: only the identity of the file is stored, if it is not yet.
MustPersist(f, c) ==
  c.ino = None \/ Restarts(f, c) \/ (c.offset > 0 /\ c.check = None)

\* What a read leaves in memory.
AfterRead(f, c, hi) ==
  [offset |-> hi, ino |-> f.ino,
   check |-> IF hi > ReadFrom(f, c) \/ (Size(f) = hi /\ MustPersist(f, c))
             THEN FileCheckpoint(f, hi)
             ELSE IF Restarts(f, c) THEN None ELSE c.check]

Read(s, f, c) ==
  \E lo \in {ReadFrom(f, c)} : \E hi \in {ReadTo(s, f, lo)} :
    /\ src' = [src EXCEPT ![s] = AfterRead(f, c, hi)]
    /\ \/ hi > lo /\ Commit(s, f, lo, hi)
       \/ /\ hi = lo /\ Size(f) = lo /\ MustPersist(f, c)
          /\ cursor' = SetIngestOffset(s, f, lo)
          /\ UNCHANGED <<rows, sess, usage>>
       \/ hi = lo /\ ~(Size(f) = lo /\ MustPersist(f, c)) /\ UNCHANGED db

\* readRegistry finds a log it does not watch yet: it goes on where the table says.
AddSource(s) ==
  /\ up /\ s \in registry /\ src[s] = None
  /\ \E i \in Inodes :
       LET f == IF log[s] = NoFile THEN NewFile(i) ELSE log[s]
       IN  /\ i \notin archived[s] /\ (log[s] # NoFile => i = log[s].ino)
           /\ log' = [log EXCEPT ![s] = f]
           /\ Read(s, f, IF cursor[s] = None THEN Fresh ELSE cursor[s])
  /\ UNCHANGED <<now, hosting, archived, registry, up, world, hist>>

\* The watcher of a log, or the interval that looks at all of them.
ReadSource(s) ==
  /\ up /\ src[s] # None /\ log[s] # NoFile
  /\ Read(s, log[s], src[s])
  /\ UNCHANGED <<disk, registry, up, world, hist>>

----------------------------------------------------------------------------
(* The daemon dies and is started again, between reads or after some of    *)
(* the batches of one.                                                     *)

Down == up' = FALSE /\ src' = [s \in Sessions |-> None]

Crash ==
  /\ up /\ Occurs("crash") /\ Down
  /\ UNCHANGED <<disk, registry, db, hist>>

CrashInRead(s) ==
  /\ up /\ src[s] # None /\ log[s] # NoFile
  /\ Occurs("crash") /\ Down
  /\ LET lo == ReadFrom(log[s], src[s])
     IN  \E hi \in Committed(s, log[s], lo) : hi > lo /\ Commit(s, log[s], lo, hi)
  /\ UNCHANGED <<disk, registry, hist>>

StartTelemetryRuntime ==
  /\ ~up /\ up' = TRUE
  /\ UNCHANGED <<disk, registry, src, db, world, hist>>

----------------------------------------------------------------------------
(* Requests that remove telemetry.                                         *)

DeleteSessionRows(S) ==
  /\ rows' = {r \in rows : r.e.s \notin S}
  /\ usage' = {e \in usage : e.s \notin S}
  /\ sess' = [s \in Sessions |-> IF s \in S THEN None ELSE sess[s]]
  /\ cursor' = [s \in Sessions |-> IF s \in S THEN None ELSE cursor[s]]

\* The sources and registry rows of the sessions go with the rows, the logs stay.
ForgetSources(S) ==
  /\ src' = [s \in Sessions |-> IF s \in S THEN None ELSE src[s]]
  /\ registry' = registry \ S

DeleteSession(s) ==
  /\ up /\ sess[s] # None /\ Occurs("delete")
  /\ DeleteSessionRows({s}) /\ ForgetSources({s})
  /\ gone' = gone \cup {r.e : r \in RowsOf(s)}
  /\ trimmed' = [trimmed EXCEPT ![s] = 0]
  /\ UNCHANGED <<disk, up>>

\* pruneOlderThan: rows older than the cutoff go, totals are rebuilt from what stays,
\* and sessions without anything younger go altogether.
Prune(cutoff) ==
  LET stale == {s \in Sessions : sess[s] # None /\ sess[s].last < cutoff}
      old   == {r \in rows : r.e.t < cutoff}
      kept  == {e \in usage : e.t >= cutoff /\ e.s \notin stale}
  IN  /\ up /\ Occurs("prune")
      /\ rows' = {r \in rows \ old : r.e.s \notin stale}
      /\ usage' = kept
      /\ sess' = [s \in Sessions |->
                    IF s \in stale \/ sess[s] = None THEN None
                    ELSE [sess[s] EXCEPT !.tokens = Cardinality({e \in kept : e.s = s})]]
      /\ cursor' = [s \in Sessions |-> IF s \in stale THEN None ELSE cursor[s]]
      /\ ForgetSources(stale)
      /\ gone' = gone \cup {r.e : r \in rows \ rows'}
      /\ trimmed' = [s \in Sessions |->
                       IF s \in stale THEN 0
                       ELSE trimmed[s] + Cardinality({r \in old : r.e.s = s})]
      /\ UNCHANGED <<disk, up>>

\* deleteProjectSourceLogs removes a log and its archives, the row of the registry stays.
DeleteProjectSourceLogs(s) ==
  /\ up /\ src[s] # None /\ log[s] # NoFile /\ Occurs("unlink")
  /\ log' = [log EXCEPT ![s] = NoFile]
  /\ archived' = [archived EXCEPT ![s] = {}]
  /\ src' = [src EXCEPT ![s] = None]
  /\ UNCHANGED <<now, hosting, registry, up, db, hist>>

Next ==
  \/ \E s \in Sessions : StartSession(s) \/ Emit(s) \/ HostDies(s)
  \/ \E s \in Sessions : AddSource(s) \/ ReadSource(s) \/ CrashInRead(s)
  \/ \E s \in Sessions : DeleteSession(s) \/ DeleteProjectSourceLogs(s)
  \/ \E cutoff \in 1 .. MaxEvents : Prune(cutoff)
  \/ Crash \/ StartTelemetryRuntime

Safety == Init /\ [][Next]_vars

Daemon == \E s \in Sessions : AddSource(s) \/ ReadSource(s)

\* The daemon looks at the registry and at every log each two seconds, and the next
\* session that starts brings back a daemon that died.
Fairness == WF_vars(Daemon) /\ WF_vars(StartTelemetryRuntime)

Spec == Safety /\ Fairness

----------------------------------------------------------------------------
(* Properties.                                                             *)

\* Every variable keeps its type.
TypeOK ==
  /\ now \in 0 .. MaxEvents /\ hosting \in [Sessions -> BOOLEAN]
  /\ \A s \in Sessions : log[s] # NoFile => log[s] \in File
  /\ registry \subseteq Sessions /\ up \in BOOLEAN
  /\ \A s \in Sessions : src[s] # None => src[s] \in Cursor
  /\ \A r \in rows : r.id \in Nat \ {0} /\ r.e \in Event
  /\ \A s \in Sessions : sess[s] # None =>
       sess[s] \in [count : Nat \ {0}, tokens : Nat, last : 1 .. MaxEvents]
  /\ usage \subseteq Event
  /\ \A s \in Sessions : cursor[s] # None => cursor[s] \in Cursor
  /\ \A s \in Sessions : trimmed[s] \in Nat

\* Does a cursor belong to the file that is there now.
Points(f, c) ==
  /\ f # NoFile /\ c # None
  /\ c.ino = f.ino /\ c.offset \in 1 .. Len(f.lines) /\ f.lines[c.offset] = c.check

Accounted(e) == e.kind \in {"garbage", "progress"} \/ e \in Stored \/ e \in gone

\* An offset never gets ahead of the rows: whatever a cursor that fits the log has
\* passed is in the table or was removed on request, wherever the daemon died, and
\* although logs are renamed, unlinked, rewritten under the same inode number and cut
\* off inside a line (readSource commits the rows of a batch with its offset).
NothingSkipped ==
  \A s \in Sessions : \A c \in {src[s], cursor[s]} :
    Points(log[s], c) => \A i \in 1 .. c.offset : Accounted(log[s].lines[i])

\* The totals of a session are the sum over the usage rows it still has: a log that is
\* read again after its rows were deleted counts once, a batch cut off by a crash counts
\* with its rows, and a prune takes back what it removes (db.ts pruneOlderThan).
TotalsAreSums ==
  \A s \in Sessions :
    LET mine == {r.e : r \in {q \in RowsOf(s) : q.e.kind = "usage"}}
    IN  IF sess[s] = None THEN RowsOf(s) = {} /\ mine = {}
        ELSE sess[s].tokens = Cardinality(mine)

\* Replay takes fewer rows than event_count for a history that was pruned: the two
\* differ exactly by the rows pruned from the session since it was last created.
ShortfallIsPruned ==
  \A s \in Sessions :
    sess[s] # None => sess[s].count = Cardinality(RowsOf(s)) + trimmed[s]

\* A rowid is the cursor of one event: no two rows share it.
CursorsDiffer == \A p, q \in rows : p.id = q.id <=> p.e = q.e

Clogged(s) ==
  \E e \in {log[s].lines[i] : i \in 1 .. Len(log[s].lines)} : e \notin Stored /\ e.kind = "tool"

Unread(s) ==
  /\ s \in registry /\ log[s] # NoFile /\ ~Clogged(s)
  /\ \E i \in 1 .. Len(log[s].lines) : ~Accounted(log[s].lines[i])

\* A registered log is read to its end again and again, whatever happened before, unless
\* a tool call in it repeats the id of another one: such a line keeps its batch and all
\* that follow it out of the table.
LogsAreRead == \A s \in Sessions : []<>~Unread(s)
=============================================================================
