--------------------------- MODULE DashboardProofs ---------------------------
(***************************************************************************)
(* What holds of the telemetry database and of a page of the dashboard for *)
(* every number of sessions, of events and of lines, for every size of a   *)
(* batch, a page, the ring and the stream's buffer, and for every set of   *)
(* mishaps; no step of the proofs uses that a mishap happens only once.    *)
(*                                                                         *)
(* The ledger (Ledger) is what readSource relies on when it goes on from   *)
(* an offset: the lines of a log are in the order of their times, so that  *)
(* no two of them are equal; a cursor remembers the line before its        *)
(* offset; and where that line is still in its place, whatever the inode   *)
(* number says, every line up to it is in the table, was never a row, or   *)
(* was removed on request.  The tables agree (CountsAgree): a usage event  *)
(* for each usage row, and for each session its tokens, its count and what *)
(* was pruned of it.  Reads, crashes inside a read, prunes and deletions   *)
(* preserve both; the steps of a page leave them alone.                    *)
(***************************************************************************)
EXTENDS Dashboard, TLAPS, FiniteSetTheorems, WellFoundedInduction, SequenceTheorems

-----------------------------------------------------------------------------
(* Numbers *)


\* A finite set of numbers has its largest member.
LEMMA MaxIsLargest ==
  ASSUME NEW S, IsFiniteSet(S), S # {}, \A x \in S : x \in Int
  PROVE  Max(S) \in S /\ \A y \in S : Max(S) >= y
<1> DEFINE Above(x) == {y \in S : y >= x}
           T == {Above(x) : x \in S}
           R == StrictSubsetOrdering(S)
<1>1. T \subseteq FiniteSubsetsOf(S) /\ T # {}
  <2>1. \A x \in S : Above(x) \in SUBSET S /\ IsFiniteSet(Above(x))
    <3> TAKE x \in S
    <3>1. Above(x) \in SUBSET S
      OBVIOUS
    <3> QED
      BY <3>1, FS_Subset
  <2> QED
    BY <2>1 DEF FiniteSubsetsOf
<1>2. PICK U \in T : \A V \in T : <<V, U>> \notin R
  BY <1>1, FS_StrictSubsetOrderingWellFounded, WFMin
<1>3. PICK x \in S : U = Above(x)
  OBVIOUS
<1>4. \A y \in S : x >= y
  <2> SUFFICES ASSUME NEW y \in S, ~(x >= y) PROVE FALSE
    OBVIOUS
  <2>1. Above(y) \subseteq Above(x) /\ x \notin Above(y) /\ x \in Above(x)
    OBVIOUS
  <2>2. <<Above(y), Above(x)>> \in R
    BY <2>1 DEF StrictSubsetOrdering
  <2> QED
    BY <1>2, <1>3, <2>2
<1> QED
  BY <1>4 DEF Max

-----------------------------------------------------------------------------
(* Reading a log *)

\* The functions are functions, and the tables are finite.
Shape ==
  /\ now \in 0 .. MaxEvents
  /\ log \in [Sessions -> File \cup {None}] /\ archived \in [Sessions -> SUBSET Inodes]
  /\ hosting \in [Sessions -> BOOLEAN] /\ registry \subseteq Sessions /\ up \in BOOLEAN
  /\ src \in [Sessions -> Cursor \cup {None}] /\ cursor \in [Sessions -> Cursor \cup {None}]
  /\ sess \in [Sessions -> Stats \cup {None}] /\ trimmed \in [Sessions -> Nat]
  /\ IsFiniteSet(rows) /\ rows \subseteq [id : Nat \ {0}, e : Event]
  /\ usage \subseteq Event

\* A log holds events of its session, each once and in the order of their times.
LinesInOrder ==
  \A s \in Sessions : log[s] # None =>
    \A i \in 1 .. Len(log[s].lines) :
      /\ log[s].lines[i].s = s /\ log[s].lines[i].t <= now
      /\ \A j \in 1 .. i - 1 : log[s].lines[j].t < log[s].lines[i].t

\* The events that need no reading any more.
Booked == {e \in Event : Accounted(e)}

\* A cursor that has passed a line remembers the last one.
Remembers(c, time) ==
  /\ c.offset > 0 => c.check # None
  /\ c.check # None => c.check.t <= time

\* Whatever the inode number: if the line before the offset is the one a cursor remembers,
\* all lines up to it are accounted for.
Trusted(f, c, known) ==
  c.offset \in 1 .. Len(f.lines) /\ f.lines[c.offset] = c.check
    => \A i \in 1 .. c.offset : f.lines[i] \in known

CursorsBehind ==
  \A s \in Sessions : \A c \in {src[s], cursor[s]} : c # None =>
    /\ Remembers(c, now)
    /\ log[s] # None => Trusted(log[s], c, Booked)

\* A line is an event.
LEMMA LineTyped ==
  ASSUME NEW f \in File, NEW i \in 1 .. Len(f.lines)
  PROVE  f.lines[i] \in Event /\ f.lines[i].t \in Nat /\ f.lines[i] # None
<1>1. f.lines \in Seq(Event)
  BY DEF File
<1>2. f.lines[i] \in Event
  BY <1>1
<1> QED
  BY <1>2, IngestionAssumption DEF Event

\* Where a read begins: at the start, or after the line the cursor remembers.
LEMMA ReadsFrom ==
  ASSUME NEW f \in File, NEW c \in Cursor, c.offset > 0 => c.check # None
  PROVE  /\ ReadFrom(f, c) \in 0 .. Len(f.lines)
         /\ ReadFrom(f, c) = 0 \/ (ReadFrom(f, c) = c.offset /\ f.lines[c.offset] = c.check)
         /\ ~Restarts(f, c) => ReadFrom(f, c) = c.offset
<1>1. Len(f.lines) \in Nat /\ c.offset \in Nat /\ f.torn \in BOOLEAN
  BY DEF File, Cursor
<1>2. Size(f) \in Nat
  <2>1. CASE f.torn
    <3>1. Size(f) = Len(f.lines) + 1
      BY <2>1 DEF Size
    <3> QED
      BY <1>1, <3>1
  <2>2. CASE ~f.torn
    <3>1. Size(f) = Len(f.lines) + 0
      BY <2>2 DEF Size
    <3> QED
      BY <1>1, <3>1
  <2> QED
    BY <2>1, <2>2
<1>3. CASE Restarts(f, c) \/ c.offset = 0
  BY <1>1, <1>3 DEF ReadFrom
<1>4. CASE ~Restarts(f, c) /\ c.offset > 0
  <2>1. c.check # None /\ ~Rotated(f, c) /\ c.offset <= Size(f) /\ ~Rewritten(f, c)
    BY <1>1, <1>2, <1>4 DEF Restarts, Truncated
  <2>2. c.offset <= Len(f.lines) /\ f.lines[c.offset] = c.check
    BY <1>1, <1>4, <2>1 DEF Rewritten, FileCheckpoint
  <2> QED
    BY <1>1, <1>4, <2>2 DEF ReadFrom
<1>5. c.offset = 0 \/ c.offset > 0
  BY <1>1
<1> QED
  BY <1>3, <1>4, <1>5

\* Where batches may end.
LEMMA CommitsInside ==
  ASSUME NEW s, NEW f \in File, NEW lo \in 0 .. Len(f.lines)
  PROVE  /\ Committed(s, f, lo) \subseteq lo .. Len(f.lines)
         /\ lo \in Committed(s, f, lo)
<1>1. Len(f.lines) \in Nat
  BY DEF File
<1>2. (lo - lo) % BatchLines = 0
  BY IngestionAssumption
<1>3. lo + 1 .. lo = {}
  BY <1>1
<1>4. lo \in BatchEnds(f, lo)
  BY <1>1, <1>2 DEF BatchEnds
<1> QED
  BY <1>3, <1>4 DEF Committed, BatchEnds

\* Where reading stops.
LEMMA ReadsTo ==
  ASSUME NEW s, NEW f \in File, NEW lo \in 0 .. Len(f.lines)
  PROVE  ReadTo(s, f, lo) \in Committed(s, f, lo) /\ ReadTo(s, f, lo) \in lo .. Len(f.lines)
<1>1. Len(f.lines) \in Nat
  BY DEF File
<1>2. IsFiniteSet(lo .. Len(f.lines))
  BY <1>1, FS_Interval
<1>3. IsFiniteSet(Committed(s, f, lo)) /\ \A x \in Committed(s, f, lo) : x \in Int
  BY <1>1, <1>2, CommitsInside, FS_Subset
<1> QED
  BY <1>3, CommitsInside, MaxIsLargest DEF ReadTo

\* What a batch leaves: every line of it is accounted for, and nothing else changes hands.
LEMMA CommitAccounts ==
  ASSUME Shape, NEW s \in Sessions, NEW f \in File, NEW lo \in 0 .. Len(f.lines),
         NEW hi \in lo .. Len(f.lines), Commit(s, f, lo, hi), gone' = gone
  PROVE  (\A i \in lo + 1 .. hi : f.lines[i] \in Booked') /\ Booked \subseteq Booked'
<1>1. Stored \subseteq Stored'
  BY DEF Commit, InsertEvent, Stored
<1>2. ASSUME NEW i \in NewIn(f, lo, hi) PROVE f.lines[i] \in Stored'
  <2> DEFINE r == [id |-> Top + Cardinality(NewIn(f, lo, i)), e |-> f.lines[i]]
  <2>1. r \in rows' /\ r.e = f.lines[i]
    BY DEF Commit, InsertEvent
  <2> HIDE DEF r
  <2> QED
    BY <2>1 DEF Stored
<1>3. \A i \in lo + 1 .. hi : i \notin NewIn(f, lo, hi) =>
        f.lines[i].kind \in {"garbage", "progress"} \/ f.lines[i] \in Stored
  BY DEF NewIn, IsNew
<1>4. ASSUME NEW i \in lo + 1 .. hi PROVE f.lines[i] \in Booked'
  <2>0. f.lines[i] \in Event
    <3>1. Len(f.lines) \in Nat
      BY DEF File
    <3>2. i \in 1 .. Len(f.lines)
      BY <1>4, <3>1
    <3> QED
      BY <3>2, LineTyped
  <2>1. CASE i \in NewIn(f, lo, hi)
    BY <1>2, <2>0, <2>1 DEF Accounted, Booked
  <2>2. CASE i \notin NewIn(f, lo, hi)
    BY <1>1, <1>3, <1>4, <2>0, <2>2 DEF Accounted, Booked
  <2> QED
    BY <2>1, <2>2
<1>5. Booked \subseteq Booked'
  BY <1>1 DEF Accounted, Booked
<1> QED
  BY <1>4, <1>5

\* The offset that is stored with a batch, or with the identity of the file.
LEMMA StoredOffset ==
  ASSUME Shape, NEW s \in Sessions, NEW f \in File, NEW hi \in 0 .. Len(f.lines),
         cursor' = SetIngestOffset(s, f, hi)
  PROVE  /\ cursor'[s] \in Cursor /\ cursor'[s].offset = hi
         /\ hi > 0 => cursor'[s].check = f.lines[hi]
         /\ hi = 0 => cursor'[s].check \in {None} \cup {c.check : c \in {cursor[s]} \ {None}}
         /\ \A r \in Sessions \ {s} : cursor'[r] = cursor[r]
         /\ cursor' \in [Sessions -> Cursor \cup {None}]
<1> DEFINE old == IF cursor[s] = None THEN Fresh ELSE cursor[s]
           n == [offset |-> hi, ino |-> f.ino, check |-> Coalesce(FileCheckpoint(f, hi), old.check)]
<1>1. cursor' = [cursor EXCEPT ![s] = n]
  BY DEF SetIngestOffset
<1>2. old \in Cursor
  BY IngestionAssumption DEF Shape, Fresh, Cursor
<1>3. Len(f.lines) \in Nat /\ f.ino \in Nat /\ (hi > 0 => f.lines[hi] \in Event /\ f.lines[hi] # None)
  BY IngestionAssumption DEF File
<1>4. /\ hi > 0 => n.check = f.lines[hi]
      /\ hi = 0 => n.check = old.check
  BY <1>3 DEF Coalesce, FileCheckpoint
<1>5. n \in Cursor
  BY <1>2, <1>3, <1>4 DEF Cursor
<1>6. cursor'[s] = n /\ \A r \in Sessions \ {s} : cursor'[r] = cursor[r]
  BY <1>1 DEF Shape
<1>7. cursor' \in [Sessions -> Cursor \cup {None}]
  BY <1>1, <1>5 DEF Shape
<1>8. hi = 0 => n.check \in {None} \cup {c.check : c \in {cursor[s]} \ {None}}
  BY <1>4 DEF Fresh
<1> HIDE DEF n
<1> QED
  BY <1>4, <1>5, <1>6, <1>7, <1>8 DEF n

-----------------------------------------------------------------------------
(* The steps of the host *)

\* A line at the end of a file.
LEMMA WrittenLine ==
  ASSUME NEW f \in File, NEW e \in Event
  PROVE  /\ Written(f, e) \in File /\ Written(f, e).ino = f.ino
         /\ Len(Written(f, e).lines) = Len(f.lines) + 1
         /\ \A i \in 1 .. Len(f.lines) : Written(f, e).lines[i] = f.lines[i]
         /\ Written(f, e).lines[Len(f.lines) + 1].s = e.s
         /\ Written(f, e).lines[Len(f.lines) + 1].t = e.t
<1> DEFINE g == IF f.torn THEN [e EXCEPT !.kind = "garbage"] ELSE e
<1>1. g \in Event /\ g.s = e.s /\ g.t = e.t
  BY DEF Event
<1>2. f.lines \in Seq(Event) /\ Len(f.lines) \in Nat
  BY DEF File
<1> HIDE DEF g
<1>3. /\ Append(f.lines, g) \in Seq(Event)
      /\ Len(Append(f.lines, g)) = Len(f.lines) + 1
      /\ \A i \in 1 .. Len(f.lines) : Append(f.lines, g)[i] = f.lines[i]
      /\ Append(f.lines, g)[Len(f.lines) + 1] = g
  BY <1>1, <1>2
<1> DEFINE q == Append(f.lines, g)
<1>4. Written(f, e) = [f EXCEPT !.lines = q, !.torn = FALSE]
  BY DEF Written, g
<1> HIDE DEF q
<1>5. q \in Seq(Event)
  BY <1>3 DEF q
<1>6. Written(f, e) \in File /\ Written(f, e).ino = f.ino /\ Written(f, e).lines = q
  BY <1>4, <1>5 DEF File
<1> QED
  BY <1>1, <1>3, <1>6 DEF q

\* The host appends in the order of time, and never under a cursor.
LEMMA AppendKeeps ==
  ASSUME Shape, LinesInOrder, CursorsBehind,
         NEW s \in Sessions, NEW kind \in Kinds, AppendLine(s, kind),
         UNCHANGED <<src, cursor, rows, gone>>
  PROVE  /\ now' \in 0 .. MaxEvents /\ log' \in [Sessions -> File \cup {None}]
         /\ archived' \in [Sessions -> SUBSET Inodes]
         /\ LinesInOrder' /\ CursorsBehind'
<1> DEFINE e == [s |-> s, t |-> now + 1, kind |-> kind]
<1>1. /\ now \in Nat /\ MaxEvents \in Nat /\ now' = now + 1 /\ now < MaxEvents
  BY IngestionAssumption DEF Shape, AppendLine
<1>2. e \in Event /\ e.s = s /\ e.t = now + 1
  BY <1>1, IngestionAssumption DEF Event
<1>3. PICK i \in Inodes : log' = [log EXCEPT ![s] = Written(Base(s, i), e)]
  BY DEF AppendLine
<1> DEFINE b == Base(s, i)
           f == Written(b, e)
<1> HIDE DEF e
<1>4. b \in File /\ (Len(b.lines) = 0 \/ (log[s] # None /\ b = log[s]))
  BY DEF Base, NewFile, File, Shape, NoFile
<1>5. /\ f \in File /\ Len(f.lines) = Len(b.lines) + 1 /\ Len(b.lines) \in Nat
      /\ \A k \in 1 .. Len(b.lines) : f.lines[k] = b.lines[k]
      /\ f.lines[Len(b.lines) + 1].s = s /\ f.lines[Len(b.lines) + 1].t = now + 1
  <2>1. Len(b.lines) \in Nat
    BY <1>4 DEF File
  <2> HIDE DEF b
  <2> QED
    BY <1>2, <1>4, <2>1, WrittenLine
<1> HIDE DEF f, b
<1>6. log'[s] = f /\ \A r \in Sessions \ {s} : log'[r] = log[r]
  BY <1>3 DEF Shape, f, b
<1>7. now' \in 0 .. MaxEvents
  BY <1>1
<1>8. log' \in [Sessions -> File \cup {None}]
  BY <1>3, <1>5 DEF Shape, f, b
<1>9. archived' \in [Sessions -> SUBSET Inodes]
  <2>1. log[s] # None => log[s].ino \in Inodes
    BY DEF Shape, File
  <2>2. IsFull(s) => log[s] # None
    BY DEF IsFull, NoFile
  <2>3. archived' = [archived EXCEPT ![s] = IF IsFull(s) THEN archived[s] \cup {log[s].ino} ELSE archived[s]]
    BY DEF AppendLine
  <2> QED
    BY <2>1, <2>2, <2>3 DEF Shape
<1>10. \A k \in 1 .. Len(b.lines) :
         /\ b.lines[k].s = s /\ b.lines[k].t <= now /\ b.lines[k].t \in Nat
         /\ \A j \in 1 .. k - 1 : b.lines[j].t < b.lines[k].t
  <2>1. \A k \in 1 .. Len(b.lines) : b.lines[k].t \in Nat
    BY <1>4, LineTyped
  <2>2. Len(b.lines) = 0 \/ \A k \in 1 .. Len(b.lines) :
          /\ b.lines[k].s = s /\ b.lines[k].t <= now
          /\ \A j \in 1 .. k - 1 : b.lines[j].t < b.lines[k].t
    BY <1>4 DEF LinesInOrder
  <2> QED
    BY <1>5, <2>1, <2>2
<1>11. \A k \in 1 .. Len(f.lines) :
         /\ f.lines[k].s = s /\ f.lines[k].t <= now + 1
         /\ \A j \in 1 .. k - 1 : f.lines[j].t < f.lines[k].t
  <2> TAKE k \in 1 .. Len(f.lines)
  <2>1. CASE k = Len(b.lines) + 1
    <3>1. \A j \in 1 .. k - 1 : f.lines[j] = b.lines[j] /\ b.lines[j].t <= now /\ b.lines[j].t \in Nat
      BY <1>5, <1>10, <2>1
    <3>2. \A j \in 1 .. k - 1 : f.lines[j].t < now + 1
      BY <1>1, <3>1
    <3> QED
      BY <1>1, <1>5, <2>1, <3>2
  <2>2. CASE k # Len(b.lines) + 1
    <3>1. k \in 1 .. Len(b.lines) /\ f.lines[k] = b.lines[k]
      BY <1>5, <2>2
    <3>2. \A j \in 1 .. k - 1 : f.lines[j] = b.lines[j] /\ b.lines[j].t < b.lines[k].t
      BY <1>5, <1>10, <3>1
    <3>3. b.lines[k].s = s /\ b.lines[k].t <= now /\ b.lines[k].t \in Nat
      BY <1>10, <3>1
    <3> QED
      BY <1>1, <3>1, <3>2, <3>3
  <2> QED
    BY <2>1, <2>2
<1>12. LinesInOrder'
  <2> SUFFICES ASSUME NEW r \in Sessions, log'[r] # None, NEW k \in 1 .. Len(log'[r].lines)
               PROVE  /\ log'[r].lines[k].s = r /\ log'[r].lines[k].t <= now'
                      /\ \A j \in 1 .. k - 1 : log'[r].lines[j].t < log'[r].lines[k].t
    BY DEF LinesInOrder
  <2>1. CASE r = s
    BY <1>1, <1>6, <1>11, <2>1
  <2>2. CASE r # s
    <3>1. log'[r] = log[r] /\ log[r] # None /\ log[r] \in File
      BY <1>6, <2>2 DEF Shape
    <3>2. log[r].lines[k].t \in Nat
      BY <3>1, LineTyped
    <3> QED
      BY <1>1, <3>1, <3>2 DEF LinesInOrder
  <2> QED
    BY <2>1, <2>2
<1>13. CursorsBehind'
  <2> SUFFICES ASSUME NEW r \in Sessions, NEW c \in {src[r], cursor[r]}, c # None
               PROVE  /\ Remembers(c, now')
                      /\ log'[r] # None => Trusted(log'[r], c, Booked')
    BY DEF CursorsBehind
  <2>1. /\ Remembers(c, now) /\ (log[r] # None => Trusted(log[r], c, Booked)) /\ c \in Cursor
        /\ Booked' = Booked
    BY DEF CursorsBehind, Shape, Accounted, Stored, Booked
  <2>2. c.offset \in Nat /\ (c.check # None => c.check.t \in Nat)
    BY <2>1, IngestionAssumption DEF Cursor, Event
  <2>3. Remembers(c, now')
    BY <1>1, <2>1, <2>2 DEF Remembers
  <2>4. CASE r = s
    <3> SUFFICES ASSUME c.offset \in 1 .. Len(f.lines), f.lines[c.offset] = c.check
                 PROVE  \A k \in 1 .. c.offset : f.lines[k] \in Booked
      BY <1>6, <2>1, <2>3, <2>4 DEF Trusted
    <3>1. c.check # None /\ c.check.t <= now
      BY <2>1, <2>2 DEF Remembers
    <3>2. c.offset # Len(b.lines) + 1
      BY <1>1, <1>5, <2>2, <3>1
    <3>3. c.offset \in 1 .. Len(b.lines)
      BY <1>5, <3>2
    <3>4. log[s] # None /\ b = log[s]
      BY <1>4, <3>3
    <3>5. Trusted(b, c, Booked)
      BY <2>1, <2>4, <3>4
    <3> QED
      BY <1>5, <3>3, <3>5 DEF Trusted
  <2>5. CASE r # s
    BY <1>6, <2>1, <2>3, <2>5
  <2> QED
    BY <2>4, <2>5
<1> QED
  BY <1>7, <1>8, <1>9, <1>12, <1>13

-----------------------------------------------------------------------------
(* The steps of the daemon *)

\* What a read leaves in memory remembers the line before its offset.
LEMMA ReadRemembers ==
  ASSUME NEW f \in File, NEW c \in Cursor, NEW time \in Nat, Remembers(c, time),
         \A i \in 1 .. Len(f.lines) : f.lines[i].t <= time,
         NEW hi \in 0 .. Len(f.lines), hi >= ReadFrom(f, c)
  PROVE  /\ AfterRead(f, c, hi) \in Cursor /\ AfterRead(f, c, hi).offset = hi
         /\ Remembers(AfterRead(f, c, hi), time)
<1> DEFINE lo == ReadFrom(f, c)
           k == IF hi > lo \/ (Size(f) = hi /\ MustPersist(f, c))
                THEN FileCheckpoint(f, hi)
                ELSE IF Restarts(f, c) THEN None ELSE c.check
           n == [offset |-> hi, ino |-> f.ino, check |-> k]
<1>1. AfterRead(f, c, hi) = n
  BY DEF AfterRead
<1>2. Len(f.lines) \in Nat /\ hi \in Nat /\ lo \in 0 .. Len(f.lines) /\ f.ino \in Nat
  <2>1. lo \in 0 .. Len(f.lines)
    BY ReadsFrom DEF Remembers
  <2>2. f.lines \in Seq(Event) /\ f.ino \in Inodes
    BY DEF File
  <2>3. Len(f.lines) \in Nat
    BY <2>2
  <2>4. f.ino \in Nat
    BY <2>2, IngestionAssumption
  <2>5. hi \in Nat
    BY <2>3
  <2> QED
    BY <2>1, <2>3, <2>4, <2>5
<1>3. ~Restarts(f, c) => lo = c.offset
  BY ReadsFrom DEF Remembers
<1>4. Restarts(f, c) => lo = 0
  BY DEF ReadFrom
<1>5. CASE k = FileCheckpoint(f, hi)
  <2>1. hi > 0 => f.lines[hi] \in Event /\ f.lines[hi] # None /\ f.lines[hi].t <= time
    BY <1>2, LineTyped
  <2>2. hi = 0 => k = None
    BY <1>5 DEF FileCheckpoint
  <2>3. hi > 0 => k = f.lines[hi]
    BY <1>5 DEF FileCheckpoint
  <2> HIDE DEF k
  <2>4. k \in Event \cup {None} /\ (k # None => k.t <= time) /\ (hi > 0 => k # None)
    BY <1>2, <2>1, <2>2, <2>3
  <2>5. n \in Cursor
    BY <1>2, <2>4 DEF Cursor
  <2> QED
    BY <1>1, <2>4, <2>5 DEF Remembers
<1>6. CASE k # FileCheckpoint(f, hi)
  <2>1. hi = lo /\ k = IF Restarts(f, c) THEN None ELSE c.check
    BY <1>2, <1>6
  <2>2. CASE Restarts(f, c)
    <3>1. k = None /\ hi = 0
      BY <1>4, <2>1, <2>2
    <3> HIDE DEF k
    <3>2. n \in Cursor
      BY <1>2, <3>1 DEF Cursor
    <3> QED
      BY <1>1, <3>1, <3>2 DEF Remembers
  <2>3. CASE ~Restarts(f, c)
    <3>1. k = c.check /\ hi = c.offset
      BY <1>3, <2>1, <2>3
    <3> HIDE DEF k
    <3>2. n \in Cursor
      BY <1>2, <3>1 DEF Cursor
    <3> QED
      BY <1>1, <3>1, <3>2 DEF Remembers
  <2> QED
    BY <2>2, <2>3
<1> QED
  BY <1>5, <1>6

\* A read leaves both cursors behind what is accounted for.
LEMMA ReadKeeps ==
  ASSUME Shape, LinesInOrder, CursorsBehind,
         NEW s \in Sessions, NEW f \in File, NEW c \in Cursor, Read(s, f, c),
         Remembers(c, now), Trusted(f, c, Booked),
         cursor[s] # None => Trusted(f, cursor[s], Booked),
         \A i \in 1 .. Len(f.lines) : f.lines[i].t <= now,
         log'[s] = f, \A r \in Sessions \ {s} : log'[r] = log[r],
         UNCHANGED <<now, gone>>
  PROVE  /\ src' \in [Sessions -> Cursor \cup {None}]
         /\ cursor' \in [Sessions -> Cursor \cup {None}]
         /\ CursorsBehind'
<1> DEFINE lo == ReadFrom(f, c)
           hi == ReadTo(s, f, lo)
<1>1. lo \in 0 .. Len(f.lines) /\ (lo = 0 \/ (lo = c.offset /\ f.lines[lo] = c.check))
  BY ReadsFrom DEF Remembers
<1>2. hi \in lo .. Len(f.lines)
  BY <1>1, ReadsTo
<1>3. /\ src' = [src EXCEPT ![s] = AfterRead(f, c, hi)]
      /\ \/ hi > lo /\ Commit(s, f, lo, hi)
         \/ hi = lo /\ cursor' = SetIngestOffset(s, f, hi) /\ rows' = rows
         \/ hi = lo /\ UNCHANGED <<rows, cursor>>
  BY DEF Read, db
<1> HIDE DEF hi, lo
<1>4. Len(f.lines) \in Nat /\ lo \in Nat /\ hi \in 0 .. Len(f.lines) /\ hi >= lo /\ now \in Nat
  <2>1. Len(f.lines) \in Nat
    BY DEF File
  <2>2. now \in Nat
    BY IngestionAssumption DEF Shape
  <2> QED
    BY <1>1, <1>2, <2>1, <2>2
<1>5. \A i \in 1 .. lo : f.lines[i] \in Booked
  BY <1>1, <1>4 DEF Trusted
<1>6. Booked \subseteq Booked' /\ (\A i \in 1 .. hi : f.lines[i] \in Booked')
  <2>1. CASE hi > lo /\ Commit(s, f, lo, hi)
    <3>1. (\A i \in lo + 1 .. hi : f.lines[i] \in Booked') /\ Booked \subseteq Booked'
      BY <1>1, <1>2, <2>1, CommitAccounts
    <3> QED
      BY <1>4, <1>5, <3>1
  <2>2. CASE hi = lo /\ rows' = rows
    <3>1. Booked' = Booked
      BY <2>2 DEF Booked, Accounted, Stored
    <3> QED
      BY <1>5, <2>2, <3>1
  <2> QED
    BY <1>3, <2>1, <2>2
<1>7. /\ AfterRead(f, c, hi) \in Cursor /\ AfterRead(f, c, hi).offset = hi
      /\ Remembers(AfterRead(f, c, hi), now)
  BY <1>4, ReadRemembers DEF lo
<1>8. src' \in [Sessions -> Cursor \cup {None}]
  BY <1>3, <1>7 DEF Shape
<1>9. \/ cursor' = cursor
      \/ cursor' = SetIngestOffset(s, f, hi)
  BY <1>3 DEF Commit
<1>10. cursor' \in [Sessions -> Cursor \cup {None}]
  BY <1>4, <1>9, StoredOffset DEF Shape
<1>11. ASSUME NEW d \in Cursor, d.offset = hi PROVE Trusted(f, d, Booked')
  BY <1>6, <1>11 DEF Trusted
<1>12. ASSUME NEW r \in Sessions, NEW d \in {src'[r], cursor'[r]}, d # None
       PROVE  Remembers(d, now) /\ (log'[r] # None => Trusted(log'[r], d, Booked'))
  <2>1. CASE r = s /\ d = src'[s]
    <3>1. d = AfterRead(f, c, hi)
      BY <1>3, <2>1 DEF Shape
    <3> QED
      BY <1>7, <1>11, <2>1, <3>1
  <2>2. CASE r = s /\ d = cursor'[s] /\ cursor' = SetIngestOffset(s, f, hi)
    <3>1. /\ d \in Cursor /\ d.offset = hi
          /\ hi > 0 => d.check = f.lines[hi]
          /\ hi = 0 => d.check \in {None} \cup {b.check : b \in {cursor[s]} \ {None}}
      BY <1>4, <2>2, StoredOffset
    <3>2. \A b \in {cursor[s]} \ {None} : b.check # None => b.check.t <= now
      BY DEF CursorsBehind, Remembers
    <3>3. hi > 0 => f.lines[hi] # None /\ f.lines[hi].t <= now
      BY <1>4, LineTyped
    <3>4. Remembers(d, now)
      BY <1>4, <3>1, <3>2, <3>3 DEF Remembers
    <3> QED
      BY <1>11, <2>2, <3>1, <3>4
  <2>3. CASE r = s /\ d = cursor'[s] /\ cursor' = cursor
    BY <1>6, <2>3, <1>12 DEF CursorsBehind, Trusted
  <2>4. CASE r # s
    <3>1. d \in {src[r], cursor[r]}
      <4>1. src'[r] = src[r]
        BY <1>3, <2>4 DEF Shape
      <4>2. cursor'[r] = cursor[r]
        BY <1>4, <1>9, <2>4, StoredOffset
      <4> QED
        BY <1>12, <4>1, <4>2
    <3>2. Remembers(d, now) /\ (log[r] # None => Trusted(log[r], d, Booked))
      BY <1>12, <3>1 DEF CursorsBehind
    <3> QED
      BY <1>6, <2>4, <3>2 DEF Trusted
  <2> QED
    BY <1>9, <1>12, <2>1, <2>2, <2>3, <2>4
<1>13. CursorsBehind'
  BY <1>12 DEF CursorsBehind
<1> QED
  BY <1>8, <1>10, <1>13

\* Everything that grows the books, forgets cursors or logs, or lets time pass keeps the
\* cursors behind.
LEMMA ForgettingKeeps ==
  ASSUME Shape, LinesInOrder, CursorsBehind, now' = now, Booked \subseteq Booked',
         \A s \in Sessions :
           /\ \/ log'[s] = None \/ log'[s] = log[s]
              \/ log[s] # None /\ log'[s] # None /\ log'[s].lines = log[s].lines
           /\ src'[s] \in {src[s], None} /\ cursor'[s] \in {cursor[s], None}
  PROVE  LinesInOrder' /\ CursorsBehind'
<1>1. LinesInOrder'
  BY DEF LinesInOrder
<1>2. ASSUME NEW s \in Sessions, NEW c \in {src'[s], cursor'[s]}, c # None
      PROVE  Remembers(c, now) /\ (log'[s] # None => Trusted(log'[s], c, Booked'))
  <2>1. c \in {src[s], cursor[s]}
    BY <1>2
  <2>2. Remembers(c, now) /\ (log[s] # None => Trusted(log[s], c, Booked))
    BY <1>2, <2>1 DEF CursorsBehind
  <2> QED
    BY <2>2 DEF Trusted
<1>3. CursorsBehind'
  BY <1>2 DEF CursorsBehind
<1> QED
  BY <1>1, <1>3

-----------------------------------------------------------------------------
(* Counting *)

\* A set listed without repetition has as many members as the list.
LEMMA ListedOnce ==
  ASSUME NEW S, IsFiniteSet(S), NEW g, DOMAIN g = S,
         \A x, y \in S : g[x] = g[y] => x = y
  PROVE  IsFiniteSet({g[x] : x \in S}) /\ Cardinality({g[x] : x \in S}) = Cardinality(S)
<1> DEFINE T == {g[x] : x \in S}
           f == [x \in S |-> g[x]]
<1>1. f \in [S -> T] /\ \A x \in S : f[x] = g[x]
  OBVIOUS
<1>2. f \in Bijection(S, T)
  BY <1>1 DEF Bijection, Injection, Surjection, IsInjective
<1> HIDE DEF f
<1> QED
  BY <1>2, FS_Bijection DEF ExistsBijection

\* The union of finite sets that are apart.
LEMMA ApartAddsUp ==
  ASSUME NEW S, NEW T, IsFiniteSet(S), IsFiniteSet(T), S \cap T = {}
  PROVE  IsFiniteSet(S \cup T) /\ Cardinality(S \cup T) = Cardinality(S) + Cardinality(T)
<1>1. Cardinality(S \cap T) = 0
  BY FS_EmptySet
<1>2. Cardinality(S) \in Nat /\ Cardinality(T) \in Nat
  BY FS_CardinalityType
<1>3. /\ IsFiniteSet(S \cup T)
      /\ Cardinality(S \cup T) = Cardinality(S) + Cardinality(T) - Cardinality(S \cap T)
  BY FS_Union
<1> QED
  BY <1>1, <1>2, <1>3

UsageOf(s) == {e \in usage : e.s = s}

\* The totals of the sessions, and the rowids.
CountsAgree ==
  /\ CursorsDiffer
  /\ usage = {r.e : r \in {q \in rows : q.e.kind = "usage"}}
  /\ \A s \in Sessions :
       /\ sess[s] = None => RowsOf(s) = {} /\ trimmed[s] = 0
       /\ sess[s] # None =>
            /\ sess[s].tokens = Cardinality(UsageOf(s))
            /\ sess[s].count = Cardinality(RowsOf(s)) + trimmed[s]
            /\ sess[s].count > 0 /\ sess[s].last \in 1 .. MaxEvents

\* The rows and the usage of a session are finite.
LEMMA FiniteTables ==
  ASSUME Shape, CountsAgree, NEW s \in Sessions
  PROVE  /\ IsFiniteSet(RowsOf(s)) /\ IsFiniteSet(UsageOf(s)) /\ IsFiniteSet(usage)
         /\ Cardinality(RowsOf(s)) \in Nat /\ Cardinality(UsageOf(s)) \in Nat
         /\ UsageOf(s) = {r.e : r \in {q \in RowsOf(s) : q.e.kind = "usage"}}
<1> DEFINE M == {q \in rows : q.e.kind = "usage"}
           g == [r \in M |-> r.e]
<1>1. IsFiniteSet(RowsOf(s)) /\ IsFiniteSet(M)
  BY FS_Subset DEF Shape, RowsOf
<1>2. \A x, y \in M : g[x] = g[y] => x = y
  <2> SUFFICES ASSUME NEW x \in M, NEW y \in M, x.e = y.e PROVE x = y
    OBVIOUS
  <2>1. x.id = y.id
    BY DEF CountsAgree, CursorsDiffer
  <2> QED
    BY <2>1 DEF Shape
<1>3. {g[x] : x \in M} = usage
  BY DEF CountsAgree
<1>4. IsFiniteSet(usage)
  <2>1. DOMAIN g = M
    OBVIOUS
  <2> HIDE DEF g, M
  <2> QED
    BY <1>1, <1>2, <1>3, <2>1, ListedOnce
<1>5. IsFiniteSet(UsageOf(s))
  BY <1>4, FS_Subset DEF UsageOf
<1>6. UsageOf(s) = {r.e : r \in {q \in RowsOf(s) : q.e.kind = "usage"}}
  BY DEF CountsAgree, UsageOf, RowsOf
<1> QED
  BY <1>1, <1>4, <1>5, <1>6, FS_CardinalityType

\* The lines of a batch that become rows.
LEMMA NewLines ==
  ASSUME Shape, NEW f \in File, NEW lo \in 0 .. Len(f.lines), NEW hi \in lo .. Len(f.lines)
  PROVE  /\ IsFiniteSet(NewIn(f, lo, hi)) /\ Cardinality(NewIn(f, lo, hi)) \in Nat
         /\ NewIn(f, lo, hi) \subseteq lo + 1 .. hi
         /\ \A i \in NewIn(f, lo, hi) : /\ i \in 1 .. Len(f.lines) /\ f.lines[i] \in Event
                                        /\ f.lines[i] \notin Stored
<1>1. Len(f.lines) \in Nat
  BY DEF File
<1>2. NewIn(f, lo, hi) \subseteq lo + 1 .. hi
  BY DEF NewIn
<1>3. IsFiniteSet(NewIn(f, lo, hi))
  BY <1>1, <1>2, FS_Interval, FS_Subset
<1>4. \A i \in NewIn(f, lo, hi) : i \in 1 .. Len(f.lines)
  BY <1>1, <1>2
<1> QED
  BY <1>2, <1>3, <1>4, LineTyped, FS_CardinalityType DEF NewIn, IsNew

\* The rowids of a batch go on from the largest one, each larger than the one before.
LEMMA RowidsGrow ==
  ASSUME Shape, NEW f \in File, NEW lo \in 0 .. Len(f.lines), NEW hi \in lo .. Len(f.lines)
  PROVE  /\ Top \in Nat /\ \A r \in rows : r.id <= Top
         /\ \A i \in NewIn(f, lo, hi) : Cardinality(NewIn(f, lo, i)) \in Nat \ {0}
         /\ \A i, j \in NewIn(f, lo, hi) :
              i < j => Cardinality(NewIn(f, lo, i)) < Cardinality(NewIn(f, lo, j))
<1>1. Top \in Nat /\ \A r \in rows : r.id <= Top
  <2>1. CASE rows = {}
    BY <2>1 DEF Top
  <2>2. CASE rows # {}
    <3> DEFINE S == {r.id : r \in rows}
               g == [r \in rows |-> r.id]
    <3>1. IsFiniteSet(S)
      <4>1. g \in [rows -> S] /\ \A t \in S : \E r \in rows : g[r] = t
        OBVIOUS
      <4>2. g \in Surjection(rows, S)
        BY <4>1 DEF Surjection
      <4> HIDE DEF g, S
      <4> QED
        BY <4>2, FS_Surjection DEF Shape
    <3>2. S # {} /\ \A x \in S : x \in Nat
      BY <2>2 DEF Shape
    <3> HIDE DEF S
    <3>3. Max(S) \in S /\ \A y \in S : Max(S) >= y
      BY <3>1, <3>2, MaxIsLargest
    <3>4. Top = Max(S)
      BY <2>2 DEF Top, S
    <3>5. \A r \in rows : r.id \in S
      BY DEF S
    <3> QED
      BY <3>2, <3>3, <3>4, <3>5
  <2> QED
    BY <2>1, <2>2
<1>2. Len(f.lines) \in Nat
  BY DEF File
<1>3. ASSUME NEW i \in NewIn(f, lo, hi)
      PROVE  /\ i \in lo .. Len(f.lines) /\ i \in NewIn(f, lo, i)
             /\ IsFiniteSet(NewIn(f, lo, i)) /\ Cardinality(NewIn(f, lo, i)) \in Nat \ {0}
  <2>1. i \in lo .. Len(f.lines)
    BY <1>2, NewLines
  <2>2. i \in NewIn(f, lo, i)
    BY <1>2, <2>1 DEF NewIn
  <2>3. IsFiniteSet(NewIn(f, lo, i)) /\ Cardinality(NewIn(f, lo, i)) \in Nat
    BY <2>1, NewLines
  <2> QED
    BY <2>1, <2>2, <2>3, FS_EmptySet
<1>4. ASSUME NEW i \in NewIn(f, lo, hi), NEW j \in NewIn(f, lo, hi), i < j
      PROVE  Cardinality(NewIn(f, lo, i)) < Cardinality(NewIn(f, lo, j))
  <2>1. NewIn(f, lo, i) \subseteq NewIn(f, lo, j)
    BY <1>2, <1>3, <1>4 DEF NewIn
  <2>2. j \in NewIn(f, lo, j) /\ j \notin NewIn(f, lo, i)
    BY <1>2, <1>3, <1>4 DEF NewIn
  <2> QED
    BY <1>3, <2>1, <2>2, FS_Subset
<1> QED
  BY <1>1, <1>3, <1>4

\* The largest time of a batch.
LEMMA TimesOfBatch ==
  ASSUME NEW S \in SUBSET Event, IsFiniteSet(S), S # {}, NEW least \in 0 .. MaxEvents
  PROVE  MaxTime(S, least) \in 1 .. MaxEvents
<1> DEFINE g == [e \in S |-> e.t]
           T == {e.t : e \in S}
           A == {least} \cup T
<1>1. MaxEvents \in Nat
  BY IngestionAssumption
<1>2. \A e \in S : e.t \in 1 .. MaxEvents
  BY DEF Event
<1>3. g \in Surjection(S, T)
  BY DEF Surjection
<1>4. T \subseteq 1 .. MaxEvents /\ T # {}
  BY <1>2
<1>5. MaxTime(S, least) = Max(A)
  BY DEF MaxTime
<1> HIDE DEF g, T
<1>6. IsFiniteSet(A) /\ A # {} /\ \A x \in A : x \in Int
  <2>1. IsFiniteSet(T)
    BY <1>3, FS_Surjection
  <2>2. IsFiniteSet({least})
    BY FS_Singleton
  <2>3. IsFiniteSet(A)
    BY <2>1, <2>2, FS_Union
  <2> QED
    BY <1>1, <1>4, <2>3
<1>7. Max(A) \in A /\ \A y \in A : Max(A) >= y
  BY <1>6, MaxIsLargest
<1> DEFINE m == Max(A)
<1>8. m \in A /\ m >= least /\ \A y \in T : m >= y
  BY <1>7
<1> HIDE DEF m
<1>9. m \in 1 .. MaxEvents
  <2>1. PICK y \in T : m >= y
    BY <1>4, <1>8
  <2>2. y \in 1 .. MaxEvents /\ m \in 0 .. MaxEvents
    BY <1>1, <1>4, <1>8
  <2> QED
    BY <1>1, <2>1, <2>2
<1> QED
  BY <1>5, <1>9 DEF m

\* The transactions of a read: rows, totals and counts grow together.
LEMMA CommitAddsUp ==
  ASSUME Shape, CountsAgree, NEW s \in Sessions, NEW f \in File,
         \A i \in 1 .. Len(f.lines) : f.lines[i].s = s,
         \A i, j \in 1 .. Len(f.lines) : f.lines[i] = f.lines[j] => i = j,
         NEW lo \in 0 .. Len(f.lines), NEW hi \in lo .. Len(f.lines),
         Commit(s, f, lo, hi), trimmed' = trimmed
  PROVE  /\ IsFiniteSet(rows') /\ rows' \subseteq [id : Nat \ {0}, e : Event]
         /\ usage' \subseteq Event /\ sess' \in [Sessions -> Stats \cup {None}]
         /\ CountsAgree'
<1> DEFINE new == NewIn(f, lo, hi)
           g == [i \in new |-> [id |-> Top + Cardinality(NewIn(f, lo, i)), e |-> f.lines[i]]]
           R == {g[i] : i \in new}
           U == UsageIn(f, lo, hi)
<1>1. /\ IsFiniteSet(new) /\ Cardinality(new) \in Nat
      /\ \A i \in new : /\ i \in 1 .. Len(f.lines) /\ f.lines[i] \in Event /\ f.lines[i].s = s
                       /\ f.lines[i] \notin Stored
  BY NewLines
<1>2. /\ Top \in Nat /\ (\A r \in rows : r.id <= Top)
      /\ \A i \in new : Cardinality(NewIn(f, lo, i)) \in Nat \ {0}
      /\ \A i, j \in new : i < j => Cardinality(NewIn(f, lo, i)) < Cardinality(NewIn(f, lo, j))
  BY RowidsGrow
<1>3. \A i \in new : g[i].id = Top + Cardinality(NewIn(f, lo, i)) /\ g[i].e = f.lines[i]
  OBVIOUS
<1>4. DOMAIN g = new /\ rows' = rows \cup R
  BY DEF Commit, InsertEvent
<1>5. \A i \in new : g[i] \in [id : Nat \ {0}, e : Event]
  BY <1>1, <1>2
<1> HIDE DEF g, new
<1>6. Len(f.lines) \in Nat /\ \A i, j \in new : i \in Nat /\ (f.lines[i] = f.lines[j] => i = j)
  BY <1>1 DEF File
<1>7. /\ \A i, j \in new : g[i].id = g[j].id => i = j
      /\ \A i, j \in new : g[i].e = g[j].e => i = j
  BY <1>2, <1>3, <1>6
<1>8. IsFiniteSet(R) /\ Cardinality(R) = Cardinality(new)
  <2>1. IsFiniteSet(new) /\ DOMAIN g = new /\ \A i, j \in new : g[i] = g[j] => i = j
    BY <1>1, <1>4, <1>7
  <2>2. /\ IsFiniteSet({g[i] : i \in new})
        /\ Cardinality({g[i] : i \in new}) = Cardinality(new)
    BY <2>1, ListedOnce
  <2> QED
    BY <2>2
<1>9. \A p \in R : p.id > Top /\ p.id \in Nat /\ p.e \notin Stored /\ p.e.s = s /\ p \notin rows
  BY <1>1, <1>2, <1>3 DEF Stored
<1>10. IsFiniteSet(rows') /\ rows' \subseteq [id : Nat \ {0}, e : Event]
  <2>1. IsFiniteSet(rows) /\ rows \subseteq [id : Nat \ {0}, e : Event]
    BY DEF Shape
  <2>2. R \subseteq [id : Nat \ {0}, e : Event]
    BY <1>5
  <2> HIDE DEF R
  <2>3. IsFiniteSet(rows \cup R)
    BY <1>8, <2>1, FS_Union
  <2> QED
    BY <1>4, <2>1, <2>2, <2>3
<1>11. CursorsDiffer'
  <2> SUFFICES ASSUME NEW p \in rows', NEW q \in rows' PROVE p.id = q.id <=> p.e = q.e
    BY DEF CursorsDiffer
  <2>1. CASE p \in rows /\ q \in rows
    BY <2>1 DEF CountsAgree, CursorsDiffer
  <2>2. ASSUME NEW a \in rows, NEW b \in R PROVE a.id # b.id /\ a.e # b.e
    <3>1. a.id \in Nat /\ a.id <= Top /\ b.id \in Nat /\ b.id > Top
      BY <1>2, <1>9 DEF Shape
    <3>2. a.e \in Stored /\ b.e \notin Stored
      BY <1>9 DEF Stored
    <3> QED
      BY <1>2, <3>1, <3>2
  <2>3. CASE p \in R /\ q \in R
    BY <1>7, <2>3
  <2> QED
    BY <1>4, <2>1, <2>2, <2>3
<1>12. usage' = usage \cup U /\ U = {r.e : r \in {q \in R : q.e.kind = "usage"}}
  <2>1. U = {f.lines[i] : i \in {j \in new : f.lines[j].kind = "usage"}}
    BY DEF UsageIn, new
  <2>2. usage' = usage \cup U
    BY DEF Commit, ProjectUsageEvent
  <2> QED
    BY <1>3, <2>1, <2>2
<1>13. usage' = {r.e : r \in {q \in rows' : q.e.kind = "usage"}}
  BY <1>4, <1>12 DEF CountsAgree
<1>14. usage' \subseteq Event
  BY <1>10, <1>13
<1>15. U \cap usage = {} /\ U \ usage = U
  BY <1>9, <1>12 DEF CountsAgree, Stored
<1> HIDE DEF R, U
<1>16. IsFiniteSet(U)
  <2>1. U \subseteq usage'
    BY <1>12
  <2> DEFINE M == {q \in R : q.e.kind = "usage"}
             h == [r \in M |-> r.e]
  <2>2. h \in Surjection(M, U)
    BY <1>12 DEF Surjection
  <2>3. IsFiniteSet(M)
    BY <1>8, FS_Subset
  <2> HIDE DEF h, M
  <2> QED
    BY <2>2, <2>3, FS_Surjection
<1>17. \A r \in Sessions \ {s} : RowsOf(r)' = RowsOf(r) /\ UsageOf(r)' = UsageOf(r)
  BY <1>4, <1>9, <1>12 DEF RowsOf, UsageOf
<1>18. RowsOf(s)' = RowsOf(s) \cup R /\ RowsOf(s) \cap R = {}
  BY <1>4, <1>9 DEF RowsOf
<1>19. UsageOf(s)' = UsageOf(s) \cup U /\ UsageOf(s) \cap U = {}
  BY <1>9, <1>12, <1>15 DEF UsageOf
<1>20. Cardinality(RowsOf(s)') = Cardinality(RowsOf(s)) + Cardinality(new)
  BY <1>8, <1>18, FiniteTables, ApartAddsUp
<1>21. Cardinality(UsageOf(s)') = Cardinality(UsageOf(s)) + Cardinality(U)
  BY <1>16, <1>19, FiniteTables, ApartAddsUp
<1>22. sess' = [sess EXCEPT ![s] = UpsertSession(s, f, lo, hi)]
  BY DEF Commit
<1>23. new = {} => R = {} /\ U = {}
  BY <1>4, <1>12 DEF R
<1>24. ASSUME NEW r \in Sessions \ {s}
       PROVE  sess'[r] = sess[r] /\ RowsOf(r)' = RowsOf(r) /\ UsageOf(r)' = UsageOf(r)
  BY <1>17, <1>22 DEF Shape
<1>25. CASE new = {}
  <2>1. sess' = sess
    BY <1>22, <1>25 DEF UpsertSession, Shape, new
  <2>2. RowsOf(s)' = RowsOf(s) /\ UsageOf(s)' = UsageOf(s)
    BY <1>18, <1>19, <1>23, <1>25
  <2>3. \A r \in Sessions : RowsOf(r)' = RowsOf(r) /\ UsageOf(r)' = UsageOf(r)
    BY <1>24, <2>2
  <2> QED
    BY <1>10, <1>11, <1>13, <1>14, <2>1, <2>3 DEF CountsAgree, Shape
<1>26. CASE new # {}
  <2> DEFINE old == IF sess[s] = None THEN NoStats ELSE sess[s]
             S   == {f.lines[i] : i \in new}
             n   == [count  |-> old.count + Cardinality(new),
                     tokens |-> old.tokens + Cardinality(UsageIn(f, lo, hi) \ usage),
                     last   |-> MaxTime(S, old.last)]
  <2>1. sess'[s] = n
    BY <1>22, <1>26 DEF UpsertSession, Shape, new
  <2>2. /\ old \in Stats /\ old.last \in 0 .. MaxEvents
        /\ old.tokens = Cardinality(UsageOf(s))
        /\ old.count = Cardinality(RowsOf(s)) + trimmed[s]
    <3>1. MaxEvents \in Nat
      BY IngestionAssumption
    <3>2. CASE sess[s] = None
      <4>1. RowsOf(s) = {} /\ trimmed[s] = 0
        BY <3>2 DEF CountsAgree
      <4>2. UsageOf(s) = {}
        BY <4>1, FiniteTables
      <4> QED
        BY <3>1, <3>2, <4>1, <4>2, FS_EmptySet DEF NoStats, Stats
    <3>3. CASE sess[s] # None
      BY <3>1, <3>3 DEF CountsAgree, Shape, Stats
    <3> QED
      BY <3>2, <3>3
  <2>3. S \in SUBSET Event /\ S # {} /\ IsFiniteSet(S)
    <3> DEFINE h == [i \in new |-> f.lines[i]]
    <3>1. h \in Surjection(new, S)
      BY DEF Surjection
    <3>2. S # {} /\ S \subseteq Event
      BY <1>1, <1>26
    <3> HIDE DEF h, S
    <3> QED
      BY <1>1, <3>1, <3>2, FS_Surjection
  <2> HIDE DEF old, S
  <2>4. n.last \in 1 .. MaxEvents
    BY <2>2, <2>3, TimesOfBatch
  <2>5. n.tokens = old.tokens + Cardinality(U) /\ n.count = old.count + Cardinality(new)
    BY <1>15 DEF U
  <2> HIDE DEF n
  <2>6. Cardinality(new) \in Nat \ {0}
    BY <1>1, <1>26, FS_EmptySet
  <2>7. Cardinality(U) \in Nat
    BY <1>16, FS_CardinalityType
  <2>8. /\ n.tokens = Cardinality(UsageOf(s)')
        /\ n.count = Cardinality(RowsOf(s)') + trimmed'[s] /\ n.count > 0
    <3>1. trimmed[s] \in Nat /\ Cardinality(RowsOf(s)) \in Nat
      BY FiniteTables DEF Shape
    <3> QED
      BY <1>20, <1>21, <2>2, <2>5, <2>6, <3>1
  <2>9. n \in Stats
    <3>1. old.count \in Nat /\ old.tokens \in Nat
      BY <2>2 DEF Stats
    <3>2. n.count \in Nat /\ n.tokens \in Nat /\ n.last \in Nat
      BY <2>4, <2>5, <2>6, <2>7, <3>1
    <3> QED
      BY <3>2 DEF n, Stats
  <2>10. n # None
    BY <2>9, IngestionAssumption
  <2>11. \A r \in Sessions : r # s => sess'[r] = sess[r] /\ RowsOf(r)' = RowsOf(r) /\ UsageOf(r)' = UsageOf(r)
    BY <1>24
  <2>12. sess' \in [Sessions -> Stats \cup {None}]
    BY <1>22, <2>1, <2>9, <2>11 DEF Shape
  <2>13. CountsAgree'
    BY <1>11, <1>13, <2>1, <2>4, <2>8, <2>10, <2>11 DEF CountsAgree
  <2> QED
    BY <1>10, <1>14, <2>12, <2>13
<1> QED
  BY <1>25, <1>26

Ledger == Shape /\ LinesInOrder /\ CursorsBehind /\ CountsAgree

\* Where neither the tables nor the history of prunes change, they still agree.
LEMMA StillAgree ==
  ASSUME CountsAgree, UNCHANGED <<rows, sess, usage, trimmed>>
  PROVE  CountsAgree'
BY DEF CountsAgree, CursorsDiffer, RowsOf, UsageOf

\* The lines of a log, as its readers need them.
LEMMA LogLines ==
  ASSUME Shape, LinesInOrder, NEW s \in Sessions, NEW f \in File, f = log[s] \/ f.lines = <<>>
  PROVE  /\ \A i \in 1 .. Len(f.lines) : f.lines[i].s = s /\ f.lines[i].t <= now
         /\ \A i, j \in 1 .. Len(f.lines) : f.lines[i] = f.lines[j] => i = j
<1>1. CASE f.lines = <<>>
  BY <1>1
<1>2. CASE f = log[s]
  <2>1. f # None
    BY IngestionAssumption
  <2>2. Len(f.lines) \in Nat
    BY DEF File
  <2>3. \A i \in 1 .. Len(f.lines) :
           /\ f.lines[i].s = s /\ f.lines[i].t <= now
           /\ \A j \in 1 .. i - 1 : f.lines[j].t < f.lines[i].t
    BY <1>2, <2>1 DEF LinesInOrder
  <2>4. ASSUME NEW i \in 1 .. Len(f.lines), NEW j \in 1 .. Len(f.lines), j < i
        PROVE  f.lines[i] # f.lines[j]
    <3>1. f.lines[j].t < f.lines[i].t
      BY <2>2, <2>3, <2>4
    <3>2. f.lines[i].t \in Nat
      BY LineTyped
    <3> QED
      BY <3>1, <3>2
  <2> QED
    BY <2>2, <2>3, <2>4
<1> QED
  BY <1>1, <1>2

\* A read keeps the tables in agreement, whatever it found.
LEMMA ReadAddsUp ==
  ASSUME Shape, CountsAgree, NEW s \in Sessions, NEW f \in File, NEW c \in Cursor,
         Read(s, f, c), Remembers(c, now),
         \A i \in 1 .. Len(f.lines) : f.lines[i].s = s,
         \A i, j \in 1 .. Len(f.lines) : f.lines[i] = f.lines[j] => i = j,
         trimmed' = trimmed
  PROVE  /\ IsFiniteSet(rows') /\ rows' \subseteq [id : Nat \ {0}, e : Event]
         /\ usage' \subseteq Event /\ sess' \in [Sessions -> Stats \cup {None}]
         /\ CountsAgree'
<1> DEFINE lo == ReadFrom(f, c)
           hi == ReadTo(s, f, lo)
<1>1. lo \in 0 .. Len(f.lines)
  BY ReadsFrom DEF Remembers
<1>2. hi \in lo .. Len(f.lines)
  BY <1>1, ReadsTo
<1>3. Commit(s, f, lo, hi) \/ UNCHANGED <<rows, sess, usage>>
  BY DEF Read, db
<1> HIDE DEF hi, lo
<1>4. CASE Commit(s, f, lo, hi)
  BY <1>1, <1>2, <1>4, CommitAddsUp
<1>5. CASE UNCHANGED <<rows, sess, usage>>
  BY <1>5, StillAgree DEF Shape
<1> QED
  BY <1>3, <1>4, <1>5

\* The tables begin empty and nothing is read.
LEMMA LedgerBegins == Init => Ledger
<1> SUFFICES ASSUME Init PROVE Ledger
  OBVIOUS
<1> USE DEF Init
<1>1. Shape
  BY IngestionAssumption, FS_EmptySet DEF Shape, NoFile
<1>2. LinesInOrder /\ CursorsBehind
  BY DEF LinesInOrder, CursorsBehind, NoFile
<1>3. CountsAgree
  BY DEF CountsAgree, CursorsDiffer, RowsOf
<1> QED
  BY <1>1, <1>2, <1>3 DEF Ledger

\* The host.
LEMMA HostKeepsLedger ==
  ASSUME Ledger, NEW s \in Sessions, StartSession(s) \/ Emit(s) \/ HostDies(s)
  PROVE  Ledger'
<1>1. CASE StartSession(s) \/ Emit(s)
  <2>1. PICK k \in Kinds : AppendLine(s, k)
    BY <1>1 DEF StartSession, Emit
  <2>2. /\ UNCHANGED <<src, cursor, rows, sess, usage, gone, trimmed, up>>
        /\ hosting' \in [Sessions -> BOOLEAN] /\ registry' \subseteq Sessions
    BY <1>1 DEF StartSession, Emit, db, hist, Ledger, Shape
  <2>3. /\ now' \in 0 .. MaxEvents /\ log' \in [Sessions -> File \cup {None}]
        /\ archived' \in [Sessions -> SUBSET Inodes] /\ LinesInOrder' /\ CursorsBehind'
    BY <2>1, <2>2, AppendKeeps DEF Ledger
  <2>4. Shape'
    BY <2>2, <2>3 DEF Ledger, Shape
  <2>5. CountsAgree'
    BY <2>2, StillAgree DEF Ledger
  <2> QED
    BY <2>3, <2>4, <2>5 DEF Ledger
<1>2. CASE HostDies(s)
  <2>1. /\ UNCHANGED <<now, archived, registry, up, src, rows, sess, usage, cursor, gone, trimmed>>
        /\ hosting' \in [Sessions -> BOOLEAN]
        /\ log' = log \/ (log[s] # None /\ log' = [log EXCEPT ![s].torn = TRUE])
    BY <1>2 DEF HostDies, db, hist, Ledger, Shape, NoFile
  <2>2. /\ log' \in [Sessions -> File \cup {None}]
        /\ \A r \in Sessions : \/ log'[r] = log[r]
                               \/ log[r] # None /\ log'[r] # None /\ log'[r].lines = log[r].lines
    <3>1. CASE log' = log
      BY <2>1, <3>1 DEF Ledger, Shape
    <3>2. CASE log[s] # None /\ log' = [log EXCEPT ![s].torn = TRUE]
      <4>1. log[s] \in File
        BY <3>2 DEF Ledger, Shape
      <4>2. [log[s] EXCEPT !.torn = TRUE] \in File
        BY <4>1 DEF File
      <4>3. [log[s] EXCEPT !.torn = TRUE] # None
        BY <4>2, IngestionAssumption
      <4>4. [log[s] EXCEPT !.torn = TRUE].lines = log[s].lines
        BY <4>1 DEF File
      <4>5. log' = [log EXCEPT ![s] = [log[s] EXCEPT !.torn = TRUE]]
        BY <3>2
      <4> QED
        BY <3>2, <4>2, <4>3, <4>4, <4>5 DEF Ledger, Shape
    <3> QED
      BY <2>1, <3>1, <3>2
  <2>3. Booked' = Booked
    BY <2>1 DEF Booked, Accounted, Stored
  <2>4. LinesInOrder' /\ CursorsBehind'
    BY <2>1, <2>2, <2>3, ForgettingKeeps DEF Ledger
  <2>5. Shape'
    BY <2>1, <2>2 DEF Ledger, Shape
  <2>6. CountsAgree'
    BY <2>1, StillAgree DEF Ledger
  <2> QED
    BY <2>4, <2>5, <2>6 DEF Ledger
<1> QED
  BY <1>1, <1>2

\* The daemon's reads.
LEMMA AddSourceKeepsLedger ==
  ASSUME Ledger, NEW s \in Sessions, AddSource(s)
  PROVE  Ledger'
<1>1. PICK i \in Inodes :
        LET f == IF log[s] = NoFile THEN NewFile(i) ELSE log[s]
        IN  /\ log' = [log EXCEPT ![s] = f]
            /\ Read(s, f, IF cursor[s] = None THEN Fresh ELSE cursor[s])
  BY DEF AddSource
<1> DEFINE f == IF log[s] = NoFile THEN NewFile(i) ELSE log[s]
           c == IF cursor[s] = None THEN Fresh ELSE cursor[s]
<1>2. UNCHANGED <<now, hosting, archived, registry, up, gone, trimmed>>
  BY DEF AddSource, hist
<1>3. /\ f \in File /\ c \in Cursor /\ (f = log[s] \/ f.lines = <<>>)
      /\ log[s] # None => f = log[s]
  BY IngestionAssumption DEF Ledger, Shape, NewFile, NoFile, File, Fresh, Cursor
<1>4. Remembers(c, now) /\ Trusted(f, c, Booked)
  <2>1. CASE cursor[s] = None
    BY <2>1 DEF Fresh, Remembers, Trusted
  <2>2. CASE cursor[s] # None
    <3>1. Remembers(c, now) /\ (log[s] # None => Trusted(log[s], c, Booked))
      BY <2>2 DEF Ledger, CursorsBehind
    <3>2. CASE log[s] # None
      BY <1>3, <3>1, <3>2
    <3>3. CASE log[s] = None
      BY <3>1, <3>3 DEF NewFile, NoFile, Trusted
    <3> QED
      BY <3>2, <3>3
  <2> QED
    BY <2>1, <2>2
<1>5. cursor[s] # None => Trusted(f, cursor[s], Booked)
  BY <1>4
<1>6. log' = [log EXCEPT ![s] = f] /\ Read(s, f, c)
  BY <1>1
<1> HIDE DEF f, c
<1>7. /\ \A j \in 1 .. Len(f.lines) : f.lines[j].s = s /\ f.lines[j].t <= now
      /\ \A j, k \in 1 .. Len(f.lines) : f.lines[j] = f.lines[k] => j = k
  BY <1>3, LogLines DEF Ledger
<1>8. log'[s] = f /\ (\A r \in Sessions \ {s} : log'[r] = log[r]) /\ log' \in [Sessions -> File \cup {None}]
  BY <1>3, <1>6 DEF Ledger, Shape
<1>9. /\ src' \in [Sessions -> Cursor \cup {None}]
      /\ cursor' \in [Sessions -> Cursor \cup {None}] /\ CursorsBehind'
  BY <1>2, <1>3, <1>4, <1>5, <1>6, <1>7, <1>8, ReadKeeps DEF Ledger
<1>10. /\ IsFiniteSet(rows') /\ rows' \subseteq [id : Nat \ {0}, e : Event]
       /\ usage' \subseteq Event /\ sess' \in [Sessions -> Stats \cup {None}] /\ CountsAgree'
  BY <1>2, <1>3, <1>4, <1>6, <1>7, ReadAddsUp DEF Ledger
<1>11. Shape'
  BY <1>2, <1>8, <1>9, <1>10 DEF Ledger, Shape
<1>12. LinesInOrder'
  BY <1>2, <1>3, <1>8 DEF Ledger, LinesInOrder
<1> QED
  BY <1>9, <1>10, <1>11, <1>12 DEF Ledger

\* The watcher reads a log it knows.
LEMMA ReadSourceKeepsLedger ==
  ASSUME Ledger, NEW s \in Sessions, ReadSource(s)
  PROVE  Ledger'
<1>1. /\ src[s] # None /\ log[s] # None /\ Read(s, log[s], src[s])
      /\ UNCHANGED <<now, hosting, log, archived, registry, up, gone, trimmed>>
  BY DEF ReadSource, NoFile, disk, hist
<1>2. log[s] \in File /\ src[s] \in Cursor
  BY <1>1 DEF Ledger, Shape
<1>3. Remembers(src[s], now) /\ Trusted(log[s], src[s], Booked)
  BY <1>1 DEF Ledger, CursorsBehind
<1>4. cursor[s] # None => Trusted(log[s], cursor[s], Booked)
  BY <1>1 DEF Ledger, CursorsBehind
<1>5. /\ \A j \in 1 .. Len(log[s].lines) : log[s].lines[j].s = s /\ log[s].lines[j].t <= now
      /\ \A j, k \in 1 .. Len(log[s].lines) : log[s].lines[j] = log[s].lines[k] => j = k
  BY <1>2, LogLines DEF Ledger
<1>6. /\ src' \in [Sessions -> Cursor \cup {None}]
      /\ cursor' \in [Sessions -> Cursor \cup {None}] /\ CursorsBehind'
  BY <1>1, <1>2, <1>3, <1>4, <1>5, ReadKeeps DEF Ledger
<1>7. /\ IsFiniteSet(rows') /\ rows' \subseteq [id : Nat \ {0}, e : Event]
      /\ usage' \subseteq Event /\ sess' \in [Sessions -> Stats \cup {None}] /\ CountsAgree'
  BY <1>1, <1>2, <1>3, <1>5, ReadAddsUp DEF Ledger
<1>8. Shape'
  BY <1>1, <1>6, <1>7 DEF Ledger, Shape
<1>9. LinesInOrder'
  BY <1>1 DEF Ledger, LinesInOrder
<1> QED
  BY <1>6, <1>7, <1>8, <1>9 DEF Ledger

\* The daemon dies inside a read: some of its batches are in the tables.
LEMMA CrashInReadKeepsLedger ==
  ASSUME Ledger, NEW s \in Sessions, CrashInRead(s)
  PROVE  Ledger'
<1> DEFINE f  == log[s]
           c  == src[s]
           lo == ReadFrom(f, c)
<1>1. /\ f # None /\ c # None /\ up' = FALSE /\ src' = [r \in Sessions |-> None]
      /\ UNCHANGED <<now, hosting, log, archived, registry, gone, trimmed>>
      /\ \E hi \in Committed(s, f, lo) : hi > lo /\ Commit(s, f, lo, hi)
  BY DEF CrashInRead, Down, NoFile, disk, hist
<1>2. f \in File /\ c \in Cursor
  BY <1>1 DEF Ledger, Shape
<1>3. Remembers(c, now) /\ Trusted(f, c, Booked)
  BY <1>1 DEF Ledger, CursorsBehind
<1>4. /\ \A j \in 1 .. Len(f.lines) : f.lines[j].s = s /\ f.lines[j].t <= now
      /\ \A j, k \in 1 .. Len(f.lines) : f.lines[j] = f.lines[k] => j = k
  BY <1>2, LogLines DEF Ledger
<1> HIDE DEF f, c
<1>5. lo \in 0 .. Len(f.lines) /\ (lo = 0 \/ (lo = c.offset /\ f.lines[lo] = c.check))
  BY <1>2, <1>3, ReadsFrom DEF Remembers
<1>6. PICK hi \in Committed(s, f, lo) : hi > lo /\ Commit(s, f, lo, hi)
  BY <1>1
<1> HIDE DEF lo
<1>7. hi \in lo .. Len(f.lines)
  BY <1>2, <1>5, <1>6, CommitsInside
<1>8. Len(f.lines) \in Nat /\ lo \in Nat /\ hi \in 0 .. Len(f.lines) /\ hi > 0 /\ now \in Nat
  <2>1. Len(f.lines) \in Nat
    BY <1>2 DEF File
  <2>2. now \in Nat
    BY IngestionAssumption DEF Ledger, Shape
  <2> QED
    BY <1>5, <1>6, <1>7, <2>1, <2>2
<1>9. (\A i \in lo + 1 .. hi : f.lines[i] \in Booked') /\ Booked \subseteq Booked'
  BY <1>1, <1>2, <1>5, <1>6, <1>7, CommitAccounts DEF Ledger
<1>10. \A i \in 1 .. hi : f.lines[i] \in Booked'
  <2>1. \A i \in 1 .. lo : f.lines[i] \in Booked
    BY <1>3, <1>5, <1>8 DEF Trusted
  <2> QED
    BY <1>8, <1>9, <2>1
<1>11. cursor' = SetIngestOffset(s, f, hi)
  BY <1>6 DEF Commit
<1>12. /\ cursor'[s] \in Cursor /\ cursor'[s].offset = hi /\ cursor'[s].check = f.lines[hi]
       /\ \A r \in Sessions \ {s} : cursor'[r] = cursor[r]
       /\ cursor' \in [Sessions -> Cursor \cup {None}]
  BY <1>2, <1>8, <1>11, StoredOffset DEF Ledger
<1>13. CursorsBehind'
  <2>1. ASSUME NEW r \in Sessions, NEW d \in {src'[r], cursor'[r]}, d # None
        PROVE  Remembers(d, now) /\ (log[r] # None => Trusted(log[r], d, Booked'))
    <3>1. d = cursor'[r]
      BY <1>1, <2>1
    <3>2. CASE r = s
      <4>1. Remembers(d, now)
        <5>1. f.lines[hi] # None /\ f.lines[hi].t <= now
          BY <1>2, <1>4, <1>8, LineTyped
        <5> QED
          BY <1>12, <3>1, <3>2, <5>1 DEF Remembers
      <4>2. Trusted(f, d, Booked')
        BY <1>10, <1>12, <3>1, <3>2 DEF Trusted
      <4> QED
        BY <3>2, <4>1, <4>2 DEF f
    <3>3. CASE r # s
      <4>1. Remembers(d, now) /\ (log[r] # None => Trusted(log[r], d, Booked))
        BY <1>12, <2>1, <3>1, <3>3 DEF Ledger, CursorsBehind
      <4> QED
        BY <1>9, <4>1 DEF Trusted
    <3> QED
      BY <3>2, <3>3
  <2> QED
    BY <1>1, <2>1 DEF CursorsBehind
<1>14. /\ IsFiniteSet(rows') /\ rows' \subseteq [id : Nat \ {0}, e : Event]
       /\ usage' \subseteq Event /\ sess' \in [Sessions -> Stats \cup {None}] /\ CountsAgree'
  BY <1>1, <1>2, <1>4, <1>5, <1>6, <1>7, CommitAddsUp DEF Ledger
<1>15. Shape'
  BY <1>1, <1>12, <1>14 DEF Ledger, Shape
<1>16. LinesInOrder'
  BY <1>1 DEF Ledger, LinesInOrder
<1> QED
  BY <1>13, <1>14, <1>15, <1>16 DEF Ledger

\* Rows that go are remembered as gone.
LEMMA RemovalsBook ==
  ASSUME rows' \subseteq rows, gone' = gone \cup {r.e : r \in rows \ rows'}
  PROVE  Booked \subseteq Booked'
<1>1. Stored \subseteq Stored' \cup gone'
  BY DEF Stored
<1> QED
  BY <1>1 DEF Booked, Accounted

\* A deletion takes the rows of a session with its totals and its cursors.
LEMMA DeleteKeepsLedger ==
  ASSUME Ledger, NEW s \in Sessions, DeleteSession(s)
  PROVE  Ledger'
<1>1. /\ rows' = {r \in rows : r.e.s # s} /\ usage' = {e \in usage : e.s # s}
      /\ sess' = [r \in Sessions |-> IF r = s THEN None ELSE sess[r]]
      /\ cursor' = [r \in Sessions |-> IF r = s THEN None ELSE cursor[r]]
      /\ src' = [r \in Sessions |-> IF r = s THEN None ELSE src[r]]
      /\ registry' \subseteq registry
      /\ gone' = gone \cup {r.e : r \in RowsOf(s)}
      /\ trimmed' = [trimmed EXCEPT ![s] = 0]
      /\ UNCHANGED <<now, hosting, log, archived, up>>
  BY DEF DeleteSession, DeleteSessionRows, ForgetSources, disk
<1>2. Booked \subseteq Booked'
  <2>1. RowsOf(s) = rows \ rows' /\ rows' \subseteq rows
    BY <1>1 DEF RowsOf
  <2> QED
    BY <1>1, <2>1, RemovalsBook
<1>3. LinesInOrder' /\ CursorsBehind'
  BY <1>1, <1>2, ForgettingKeeps DEF Ledger
<1>4. IsFiniteSet(rows')
  BY <1>1, FS_Subset DEF Ledger, Shape
<1>5. Shape'
  BY <1>1, <1>4 DEF Ledger, Shape
<1>6. /\ RowsOf(s)' = {} /\ \A r \in Sessions \ {s} : RowsOf(r)' = RowsOf(r)
      /\ \A r \in Sessions \ {s} : UsageOf(r)' = UsageOf(r)
  BY <1>1 DEF RowsOf, UsageOf
<1>7. /\ sess'[s] = None /\ trimmed'[s] = 0
      /\ \A r \in Sessions \ {s} : sess'[r] = sess[r] /\ trimmed'[r] = trimmed[r]
  BY <1>1 DEF Ledger, Shape
<1>8. usage' = {r.e : r \in {q \in rows' : q.e.kind = "usage"}} /\ CursorsDiffer'
  BY <1>1 DEF Ledger, CountsAgree, CursorsDiffer
<1>9. CountsAgree'
  BY <1>6, <1>7, <1>8 DEF Ledger, CountsAgree
<1> QED
  BY <1>3, <1>5, <1>9 DEF Ledger

\* A prune takes rows and their tokens, and counts what it took.
LEMMA PruneKeepsLedger ==
  ASSUME Ledger, NEW cutoff \in 1 .. MaxEvents, Prune(cutoff)
  PROVE  Ledger'
<1> DEFINE stale == {s \in Sessions : sess[s] # None /\ sess[s].last < cutoff}
           old   == {r \in rows : r.e.t < cutoff}
           kept  == {e \in usage : e.t >= cutoff /\ e.s \notin stale}
<1>1. /\ rows' = {r \in rows \ old : r.e.s \notin stale} /\ usage' = kept
      /\ sess' = [s \in Sessions |->
                    IF s \in stale \/ sess[s] = None THEN None
                    ELSE [sess[s] EXCEPT !.tokens = Cardinality({e \in kept : e.s = s})]]
      /\ cursor' = [s \in Sessions |-> IF s \in stale THEN None ELSE cursor[s]]
      /\ src' = [s \in Sessions |-> IF s \in stale THEN None ELSE src[s]]
      /\ registry' \subseteq registry
      /\ gone' = gone \cup {r.e : r \in rows \ rows'}
      /\ trimmed' = [s \in Sessions |->
                       IF s \in stale THEN 0
                       ELSE trimmed[s] + Cardinality({r \in old : r.e.s = s})]
      /\ UNCHANGED <<now, hosting, log, archived, up>>
  BY DEF Prune, ForgetSources, disk
<1>2. \A s \in stale : sess[s] # None
  OBVIOUS
<1>3. Booked \subseteq Booked'
  BY <1>1, RemovalsBook
<1> HIDE DEF stale
<1>4. LinesInOrder' /\ CursorsBehind'
  BY <1>1, <1>3, ForgettingKeeps DEF Ledger
<1>5. IsFiniteSet(rows') /\ IsFiniteSet(old) /\ IsFiniteSet(rows)
  BY <1>1, FS_Subset DEF Ledger, Shape
<1>6. usage' = {r.e : r \in {q \in rows' : q.e.kind = "usage"}} /\ CursorsDiffer'
  <2>1. MaxEvents \in Nat
    BY IngestionAssumption
  <2>2. \A r \in rows : r.e.t \in Nat
    BY IngestionAssumption DEF Ledger, Shape, Event
  <2>3. \A r \in rows : r \notin old <=> r.e.t >= cutoff
    BY <2>1, <2>2
  <2>4. CursorsDiffer'
    BY <1>1 DEF Ledger, CountsAgree, CursorsDiffer
  <2> HIDE DEF old
  <2>5. kept = {r.e : r \in {q \in rows : q.e.kind = "usage" /\ q.e.t >= cutoff /\ q.e.s \notin stale}}
    BY DEF Ledger, CountsAgree
  <2>6. {q \in rows' : q.e.kind = "usage"}
          = {q \in rows : q.e.kind = "usage" /\ q.e.t >= cutoff /\ q.e.s \notin stale}
    BY <1>1, <2>3
  <2> QED
    BY <1>1, <2>4, <2>5, <2>6
<1>7. ASSUME NEW s \in Sessions, s \in stale \/ sess[s] = None
      PROVE  sess'[s] = None /\ RowsOf(s)' = {} /\ trimmed'[s] = 0
  <2>1. CASE s \in stale
    BY <1>1, <2>1 DEF RowsOf
  <2>2. CASE s \notin stale /\ sess[s] = None
    <3>1. RowsOf(s) = {} /\ trimmed[s] = 0
      BY <2>2 DEF Ledger, CountsAgree
    <3>2. {r \in old : r.e.s = s} = {} /\ RowsOf(s)' = {}
      BY <1>1, <3>1 DEF RowsOf
    <3> QED
      BY <1>1, <2>2, <3>1, <3>2, FS_EmptySet
  <2> QED
    BY <1>7, <2>1, <2>2
<1>8. ASSUME NEW s \in Sessions, s \notin stale, sess[s] # None
      PROVE  /\ sess'[s] \in Stats /\ sess'[s] # None
             /\ sess'[s].tokens = Cardinality(UsageOf(s)')
             /\ sess'[s].count = Cardinality(RowsOf(s)') + trimmed'[s]
             /\ sess'[s].count > 0 /\ sess'[s].last \in 1 .. MaxEvents
             /\ trimmed'[s] \in Nat
  <2>1. sess[s] \in Stats
    BY <1>8 DEF Ledger, Shape
  <2>2. sess'[s] = [sess[s] EXCEPT !.tokens = Cardinality({e \in kept : e.s = s})]
    BY <1>1, <1>8
  <2>3. {e \in kept : e.s = s} = UsageOf(s)'
    BY <1>1 DEF UsageOf
  <2>4. IsFiniteSet(UsageOf(s)') /\ Cardinality(UsageOf(s)') \in Nat
    <3>1. UsageOf(s)' \subseteq usage
      BY <1>1 DEF UsageOf
    <3>2. IsFiniteSet(usage)
      BY FiniteTables DEF Ledger
    <3> QED
      BY <3>1, <3>2, FS_Subset, FS_CardinalityType
  <2>5. /\ sess'[s].tokens = Cardinality(UsageOf(s)') /\ sess'[s].count = sess[s].count
        /\ sess'[s].last = sess[s].last /\ sess'[s] \in Stats
    BY <2>1, <2>2, <2>3, <2>4 DEF Stats
  <2>6. sess'[s] # None
    BY <2>5, IngestionAssumption
  <2> DEFINE lost == {r \in old : r.e.s = s}
  <2>7. IsFiniteSet(lost) /\ Cardinality(lost) \in Nat
    BY <1>5, FS_Subset, FS_CardinalityType
  <2>8. RowsOf(s) = RowsOf(s)' \cup lost /\ RowsOf(s)' \cap lost = {}
    BY <1>1, <1>8 DEF RowsOf
  <2>9. IsFiniteSet(RowsOf(s)')
    BY <1>5, FS_Subset DEF RowsOf
  <2>10. trimmed'[s] = trimmed[s] + Cardinality(lost)
    BY <1>1, <1>8
  <2> HIDE DEF lost
  <2>11. Cardinality(RowsOf(s)) = Cardinality(RowsOf(s)') + Cardinality(lost)
    BY <2>7, <2>8, <2>9, ApartAddsUp
  <2>12. /\ sess[s].count = Cardinality(RowsOf(s)) + trimmed[s]
         /\ sess[s].count > 0 /\ sess[s].last \in 1 .. MaxEvents
    BY <1>8 DEF Ledger, CountsAgree
  <2>13. trimmed[s] \in Nat /\ Cardinality(RowsOf(s)') \in Nat
    BY <2>9, FS_CardinalityType DEF Ledger, Shape
  <2> QED
    BY <2>5, <2>6, <2>7, <2>10, <2>11, <2>12, <2>13
<1>9. sess' \in [Sessions -> Stats \cup {None}] /\ trimmed' \in [Sessions -> Nat]
  <2>1. \A s \in Sessions : sess'[s] \in Stats \cup {None} /\ trimmed'[s] \in Nat
    BY <1>7, <1>8
  <2>2. /\ sess' = [s \in Sessions |-> sess'[s]]
        /\ trimmed' = [s \in Sessions |-> trimmed'[s]]
    <3> DEFINE F(s) == IF s \in stale \/ sess[s] = None THEN None
                       ELSE [sess[s] EXCEPT !.tokens = Cardinality({e \in kept : e.s = s})]
               G(s) == IF s \in stale THEN 0
                       ELSE trimmed[s] + Cardinality({r \in old : r.e.s = s})
    <3>1. sess' = [s \in Sessions |-> F(s)] /\ trimmed' = [s \in Sessions |-> G(s)]
      BY <1>1
    <3> HIDE DEF F, G
    <3> QED
      BY <3>1
  <2> QED
    BY <2>1, <2>2
<1>10. Shape'
  BY <1>1, <1>5, <1>9 DEF Ledger, Shape
<1>11. CountsAgree'
  BY <1>6, <1>7, <1>8 DEF CountsAgree
<1> QED
  BY <1>4, <1>10, <1>11 DEF Ledger

\* A log that is unlinked takes no row with it.
LEMMA UnlinkKeepsLedger ==
  ASSUME Ledger, NEW s \in Sessions, DeleteProjectSourceLogs(s)
  PROVE  Ledger'
<1>1. /\ log' = [log EXCEPT ![s] = None] /\ archived' = [archived EXCEPT ![s] = {}]
      /\ src' = [src EXCEPT ![s] = None]
      /\ UNCHANGED <<now, hosting, registry, up, rows, sess, usage, cursor, gone, trimmed>>
  BY DEF DeleteProjectSourceLogs, NoFile, db, hist
<1>2. Booked' = Booked
  BY <1>1 DEF Booked, Accounted, Stored
<1>3. LinesInOrder' /\ CursorsBehind'
  BY <1>1, <1>2, ForgettingKeeps DEF Ledger, Shape
<1>4. Shape'
  BY <1>1 DEF Ledger, Shape
<1> QED
  BY <1>1, <1>3, <1>4, StillAgree DEF Ledger

\* The daemon dies between two reads, or starts.
LEMMA RestartKeepsLedger ==
  ASSUME Ledger, Crash \/ StartTelemetryRuntime
  PROVE  Ledger'
<1>1. /\ UNCHANGED <<now, hosting, log, archived, registry, rows, sess, usage, cursor, gone, trimmed>>
      /\ up' \in BOOLEAN /\ (src' = src \/ src' = [s \in Sessions |-> None])
  BY DEF Crash, Down, StartTelemetryRuntime, disk, db, hist
<1>2. Booked' = Booked
  BY <1>1 DEF Booked, Accounted, Stored
<1>3. LinesInOrder' /\ CursorsBehind'
  BY <1>1, <1>2, ForgettingKeeps DEF Ledger
<1>4. Shape'
  BY <1>1 DEF Ledger, Shape
<1> QED
  BY <1>1, <1>3, <1>4, StillAgree DEF Ledger

\* What does not touch the telemetry.
LEMMA StillLedger ==
  ASSUME Ledger, UNCHANGED <<disk, registry, up, src, db, hist>>
  PROVE  Ledger'
<1>1. Booked' = Booked
  BY DEF db, hist, Booked, Accounted, Stored
<1>2. LinesInOrder' /\ CursorsBehind'
  BY <1>1, ForgettingKeeps DEF Ledger, disk, db, hist
<1>3. Shape'
  BY DEF disk, db, hist, Ledger, Shape
<1> QED
  BY <1>2, <1>3, StillAgree DEF db, hist, Ledger

\* Every step of the host and of the daemon keeps the ledger.
LEMMA NextKeepsLedger == ASSUME Ledger, Next PROVE Ledger'
<1>1. ASSUME NEW s \in Sessions, StartSession(s) \/ Emit(s) \/ HostDies(s) PROVE Ledger'
  BY <1>1, HostKeepsLedger
<1>2. ASSUME NEW s \in Sessions, AddSource(s) PROVE Ledger'
  BY <1>2, AddSourceKeepsLedger
<1>3. ASSUME NEW s \in Sessions, ReadSource(s) PROVE Ledger'
  BY <1>3, ReadSourceKeepsLedger
<1>4. ASSUME NEW s \in Sessions, CrashInRead(s) PROVE Ledger'
  BY <1>4, CrashInReadKeepsLedger
<1>5. ASSUME NEW s \in Sessions, DeleteSession(s) PROVE Ledger'
  BY <1>5, DeleteKeepsLedger
<1>6. ASSUME NEW s \in Sessions, DeleteProjectSourceLogs(s) PROVE Ledger'
  BY <1>6, UnlinkKeepsLedger
<1>7. ASSUME NEW cutoff \in 1 .. MaxEvents, Prune(cutoff) PROVE Ledger'
  BY <1>7, PruneKeepsLedger
<1>8. CASE Crash \/ StartTelemetryRuntime
  BY <1>8, RestartKeepsLedger
<1> QED
  BY <1>1, <1>2, <1>3, <1>4, <1>5, <1>6, <1>7, <1>8 DEF Next

\* The steps of the page and of its stream.
Viewing == OpenPage \/ Page \/ Drop \/ ShowReconnecting

\* A page looks and does not touch.
LEMMA ViewingReadsOnly ==
  ASSUME Viewing
  PROVE  UNCHANGED <<disk, registry, up, src, db, hist>>
<1>1. CASE Page
  BY <1>1 DEF Page, AnswerBoot, FinishBoot, Connect, Receive, AnswerResync, AnswerCatchup,
              TakeResync, TakeCatchup, TakeEvents, Drop, vars
<1>2. CASE Drop
  BY <1>2 DEF Drop
<1>3. CASE OpenPage \/ ShowReconnecting
  BY <1>3 DEF OpenPage, ShowReconnecting, vars
<1> QED
  BY <1>1, <1>2, <1>3 DEF Viewing

\* Whatever the host, the daemon and the page do, wherever they die.
THEOREM LedgerInvariance == DashSafety => []Ledger
<1>1. DashInit => Ledger
  BY LedgerBegins DEF DashInit
<1>2. Ledger /\ [DashNext]_dvars => Ledger'
  <2> SUFFICES ASSUME Ledger, [DashNext]_dvars PROVE Ledger'
    OBVIOUS
  <2>1. CASE Viewing \/ UNCHANGED dvars
    BY <2>1, ViewingReadsOnly, StillLedger DEF dvars, vars
  <2>2. CASE Next
    BY <2>2, NextKeepsLedger
  <2>3. Viewing \/ Next \/ UNCHANGED dvars
    BY DEF DashNext, Viewing, Next
  <2> QED
    BY <2>1, <2>2, <2>3
<1> QED
  BY <1>1, <1>2, PTL DEF DashSafety

\* An offset never gets ahead of the rows: whatever a cursor that fits the log has passed
\* is in the table or was removed on request.
THEOREM NothingIsSkipped == DashSafety => []NothingSkipped
<1>1. ASSUME Ledger PROVE NothingSkipped
  <2>1. ASSUME NEW s \in Sessions, NEW c \in {src[s], cursor[s]}, Points(log[s], c)
        PROVE  \A i \in 1 .. c.offset : Accounted(log[s].lines[i])
    <3>1. Trusted(log[s], c, Booked)
      BY <1>1, <2>1 DEF Ledger, CursorsBehind, Points, NoFile
    <3> QED
      BY <2>1, <3>1 DEF Trusted, Points, Booked
  <2> QED
    BY <2>1 DEF NothingSkipped
<1> QED
  BY <1>1, LedgerInvariance, PTL

\* The totals of a session are the sum over the rows it still has, its count exceeds them
\* by what was pruned, and a rowid is the cursor of one event.
THEOREM TablesAgree == DashSafety => [](CursorsDiffer /\ TotalsAreSums /\ ShortfallIsPruned)
<1>1. ASSUME Ledger PROVE CursorsDiffer /\ TotalsAreSums /\ ShortfallIsPruned
  <2>1. \A s \in Sessions : UsageOf(s) = {r.e : r \in {q \in RowsOf(s) : q.e.kind = "usage"}}
    BY <1>1, FiniteTables DEF Ledger
  <2>2. TotalsAreSums
    BY <1>1, <2>1 DEF Ledger, CountsAgree, TotalsAreSums
  <2> QED
    BY <1>1, <2>2 DEF Ledger, CountsAgree, ShortfallIsPruned
<1> QED
  BY <1>1, LedgerInvariance, PTL

-----------------------------------------------------------------------------
(* The page *)

FiniteRows == {R \in SUBSET Row : IsFiniteSet(R)}
Frame      == [type : {"hive"}, row : Row] \cup [type : {"hello"}, cursor : Nat]
                \cup [type : {"delete"}, sessions : SUBSET Sessions]
Answer     == [events : FiniteRows, next : Nat, hw : Nat, more : BOOLEAN]
DrainOf    == [after : Nat, hw : Nat \cup {None}, gens : SUBSET Nat, page : Answer \cup {None}]
Greeting   == [cursor : Nat, gen : Nat]

\* What the page and its stream hold.
PageShape ==
  /\ conn \in {"closed", "open", "closing"} /\ wire \in Seq(Frame) /\ Len(wire) <= WireSize
  /\ hello = "waiting" => waiting \in Greeting
  /\ gen \in Nat /\ status \in {"connecting", "live", "reconnecting", "syncing"}
  /\ recent \in FiniteRows
  /\ ring \in FiniteRows /\ Cardinality(ring) <= RingSize /\ last \in Nat
  /\ resync \in DrainOf \cup {None} /\ catchup \in DrainOf \cup {None}

\* The smaller of two numbers.
LEMMA SmallerOfTwo ==
  ASSUME NEW a \in Int, NEW b \in Int
  PROVE  Min({a, b}) \in {a, b} /\ Min({a, b}) <= a /\ Min({a, b}) <= b
<1>1. \E x \in {a, b} : \A y \in {a, b} : x =< y
  OBVIOUS
<1> QED
  BY <1>1 DEF Min

\* The largest of a number and of the rowids of finitely many rows.
LEMMA LargestRowid ==
  ASSUME NEW R \in FiniteRows, NEW n \in Nat
  PROVE  Max({n} \cup {r.id : r \in R}) \in Nat
<1> DEFINE g == [r \in R |-> r.id]
           S == {r.id : r \in R}
<1>1. g \in Surjection(R, S) /\ S \subseteq Nat /\ IsFiniteSet(R)
  BY DEF Surjection, FiniteRows, Row
<1> HIDE DEF g, S
<1>2. IsFiniteSet(S) /\ IsFiniteSet({n})
  BY <1>1, FS_Surjection, FS_Singleton
<1>3. IsFiniteSet({n} \cup S) /\ {n} \cup S # {} /\ \A x \in {n} \cup S : x \in Int
  <2>1. IsFiniteSet({n} \cup S)
    BY <1>2, FS_Union
  <2> QED
    BY <1>1, <2>1
<1>4. Max({n} \cup S) \in {n} \cup S
  BY <1>3, MaxIsLargest
<1> QED
  BY <1>1, <1>4 DEF S

\* The ring takes what arrives and stays within its size.
LEMMA RingFits ==
  ASSUME ring \in FiniteRows, last \in Nat, NEW R \in FiniteRows, IngestEvents(R)
  PROVE  ring' \in FiniteRows /\ Cardinality(ring') <= RingSize /\ last' \in Nat
<1> DEFINE all == ring \cup {r \in R : \A q \in ring : q.e # r.e}
<1>1. all \in FiniteRows
  <2>1. IsFiniteSet({r \in R : \A q \in ring : q.e # r.e})
    BY FS_Subset DEF FiniteRows
  <2> QED
    BY <2>1, FS_Union DEF FiniteRows
<1>2. PICK keep \in kSubset(Min({RingSize, Cardinality(all)}), all) : ring' = keep
  BY DEF IngestEvents
<1>3. last' = Max({last} \cup {r.id : r \in R})
  BY DEF IngestEvents
<1> HIDE DEF all
<1>4. keep \subseteq all /\ Cardinality(keep) = Min({RingSize, Cardinality(all)})
  BY DEF kSubset
<1>5. RingSize \in Nat /\ Cardinality(all) \in Nat
  BY <1>1, DashboardAssumption, FS_CardinalityType DEF FiniteRows
<1>6. Cardinality(keep) <= RingSize
  <2>1. RingSize \in Int /\ Cardinality(all) \in Int
    BY <1>5
  <2>2. Min({RingSize, Cardinality(all)}) <= RingSize
    BY <2>1, SmallerOfTwo
  <2> QED
    BY <1>4, <2>2
<1>7. keep \in FiniteRows
  BY <1>1, <1>4, FS_Subset DEF FiniteRows
<1> QED
  BY <1>2, <1>3, <1>6, <1>7, LargestRowid

\* What the daemon answers.
LEMMA TablesAnswer ==
  ASSUME Ledger
  PROVE  Top \in Nat /\ rows \in FiniteRows /\ (\A R \in SUBSET rows : R \in FiniteRows)
<1>1. rows \in FiniteRows
  BY DEF Ledger, Shape, FiniteRows, Row
<1>2. \A R \in SUBSET rows : R \in FiniteRows
  BY <1>1, FS_Subset DEF FiniteRows
<1>3. CASE rows = {}
  BY <1>1, <1>2, <1>3 DEF Top
<1>4. CASE rows # {}
  <2> DEFINE g == [r \in rows |-> r.id]
             S == {r.id : r \in rows}
  <2>1. g \in Surjection(rows, S) /\ S \subseteq Nat /\ IsFiniteSet(rows) /\ S # {}
    BY <1>1, <1>4 DEF Surjection, FiniteRows, Row
  <2>2. Top = Max(S)
    BY <1>4 DEF Top
  <2> HIDE DEF g, S
  <2>3. IsFiniteSet(S) /\ \A x \in S : x \in Int
    BY <2>1, FS_Surjection
  <2>4. Max(S) \in S
    BY <2>1, <2>3, MaxIsLargest
  <2> QED
    BY <1>1, <1>2, <2>1, <2>2, <2>4
<1> QED
  BY <1>3, <1>4

\* An answer to a drain holds rows of the table, and its numbers are rowids or 0.
LEMMA AnswerTyped ==
  ASSUME Ledger, NEW d \in DrainOf
  PROVE  AnswerTo(d) \in Answer
<1> DEFINE hw     == HighWater(d)
           range  == {r \in rows : r.id > d.after /\ r.id <= hw}
           events == Earliest(PageSize, range)
           next   == IF events = {} THEN d.after ELSE Max({r.id : r \in events})
<1>1. Top \in Nat /\ d.after \in Nat /\ d.hw \in Nat \cup {None}
  BY TablesAnswer DEF DrainOf
<1>2. hw \in Nat
  BY <1>1 DEF HighWater
<1>3. events \in SUBSET rows
  BY DEF Earliest
<1>4. events \in FiniteRows
  BY <1>3, TablesAnswer
<1>5. AnswerTo(d) = [events |-> events, next |-> next, hw |-> hw, more |-> next < hw]
  BY DEF AnswerTo
<1> HIDE DEF events, hw
<1>6. next \in Nat
  <2>1. CASE events = {}
    BY <1>1, <2>1
  <2>2. CASE events # {}
    <3> DEFINE g == [r \in events |-> r.id]
               S == {r.id : r \in events}
    <3>1. g \in Surjection(events, S) /\ S \subseteq Nat /\ IsFiniteSet(events) /\ S # {}
      BY <1>4, <2>2 DEF Surjection, FiniteRows, Row
    <3>2. next = Max(S)
      BY <2>2
    <3> HIDE DEF g, S, next
    <3>3. IsFiniteSet(S) /\ \A x \in S : x \in Int
      BY <3>1, FS_Surjection
    <3>4. Max(S) \in S
      BY <3>1, <3>3, MaxIsLargest
    <3> QED
      BY <3>1, <3>2, <3>4
  <2> QED
    BY <2>1, <2>2
<1> HIDE DEF next
<1>7. (next < hw) \in BOOLEAN
  BY <1>2, <1>6
<1> QED
  BY <1>2, <1>4, <1>5, <1>6, <1>7 DEF Answer

\* A part of a finite set that is not all of it has fewer members.
LEMMA PartIsSmaller ==
  ASSUME NEW S, IsFiniteSet(S), NEW T \in SUBSET S, T # S
  PROVE  IsFiniteSet(T) /\ Cardinality(T) \in Nat /\ Cardinality(T) < Cardinality(S)
<1>1. IsFiniteSet(T) /\ Cardinality(T) <= Cardinality(S) /\ Cardinality(T) # Cardinality(S)
  BY FS_Subset
<1>2. Cardinality(T) \in Nat /\ Cardinality(S) \in Nat
  BY <1>1, FS_CardinalityType
<1> QED
  BY <1>1, <1>2

\* Finitely many rows with different rowids are listed by their ranks.
LEMMA ListedById ==
  ASSUME NEW R \in FiniteRows, \A p, q \in R : p.id = q.id => p = q
  PROVE  ById(R) \in Seq(R)
<1> DEFINE n       == Cardinality(R)
           Less(r) == {q \in R : q.id < r.id}
           g       == [r \in R |-> Cardinality(Less(r))]
           T       == {g[r] : r \in R}
<1>1. IsFiniteSet(R) /\ n \in Nat /\ \A r \in R : r.id \in Nat
  BY FS_CardinalityType DEF FiniteRows, Row
<1>2. \A r \in R : IsFiniteSet(Less(r)) /\ g[r] = Cardinality(Less(r)) /\ g[r] \in Nat /\ g[r] < n
  <2> TAKE r \in R
  <2>1. Less(r) \subseteq R /\ Less(r) # R
    BY <1>1
  <2> HIDE DEF Less
  <2> QED
    BY <1>1, <2>1, PartIsSmaller
<1>3. \A p, q \in R : g[p] = g[q] => p = q
  <2>1. ASSUME NEW p \in R, NEW q \in R, p.id < q.id PROVE g[p] < g[q]
    <3>1. Less(p) \subseteq Less(q) /\ p \in Less(q) /\ p \notin Less(p)
      BY <1>1, <2>1
    <3> HIDE DEF Less
    <3>2. Cardinality(Less(p)) < Cardinality(Less(q))
      BY <1>2, <3>1, PartIsSmaller
    <3> QED
      BY <1>2, <3>2
  <2> HIDE DEF g
  <2>2. ASSUME NEW p \in R, NEW q \in R, g[p] = g[q] PROVE p = q
    <3>1. g[p] \in Nat /\ g[q] \in Nat
      BY <1>2
    <3>2. ~(p.id < q.id)
      BY <2>1, <2>2, <3>1
    <3>3. ~(q.id < p.id)
      BY <2>1, <2>2, <3>1
    <3> QED
      BY <1>1, <3>2, <3>3
  <2> QED
    BY <2>2
<1>4. DOMAIN g = R
  OBVIOUS
<1> HIDE DEF g
<1>5. IsFiniteSet(T) /\ Cardinality(T) = n
  BY <1>1, <1>3, <1>4, ListedOnce
<1>6. T \subseteq 0 .. n - 1
  <2>1. \A r \in R : g[r] \in Nat /\ g[r] < n
    BY <1>2
  <2>2. \A r \in R : g[r] \in 0 .. n - 1
    <3> HIDE DEF n
    <3> QED
      BY <1>1, <2>1
  <2> QED
    BY <2>2
<1>7. IsFiniteSet(0 .. n - 1) /\ Cardinality(0 .. n - 1) = n
  <2>1. 0 \in Int /\ n - 1 \in Int
    BY <1>1
  <2>2. CASE 0 > n - 1
    BY <1>1, <2>1, <2>2, FS_Interval
  <2>3. CASE ~(0 > n - 1)
    <3>1. IsFiniteSet(0 .. n - 1) /\ Cardinality(0 .. n - 1) = n - 1 - 0 + 1
      BY <2>1, <2>3, FS_Interval
    <3> QED
      BY <1>1, <3>1
  <2> QED
    BY <2>2, <2>3
<1>8. T = 0 .. n - 1
  <2> SUFFICES ASSUME T # 0 .. n - 1 PROVE FALSE
    OBVIOUS
  <2> HIDE DEF T, n
  <2>1. Cardinality(T) < Cardinality(0 .. n - 1)
    BY <1>6, <1>7, PartIsSmaller
  <2> QED
    BY <1>1, <1>5, <1>7, <2>1
<1>9. \A i \in 1 .. n : \E r \in R : Cardinality(Less(r)) = i - 1
  <2> TAKE i \in 1 .. n
  <2>1. i - 1 \in 0 .. n - 1
    BY <1>1
  <2>2. i - 1 \in T
    BY <1>8, <2>1
  <2> QED
    BY <1>2, <2>2
<1>10. ById(R) = [i \in 1 .. n |-> CHOOSE r \in R : Cardinality(Less(r)) = i - 1]
  BY DEF ById
<1>11. \A i \in 1 .. n : (CHOOSE r \in R : Cardinality(Less(r)) = i - 1) \in R
  BY <1>9
<1> DEFINE h(i) == CHOOSE r \in R : Cardinality(Less(r)) = i - 1
<1> HIDE DEF n, h
<1>12. ById(R) = [i \in 1 .. n |-> h(i)] /\ \A i \in 1 .. n : h(i) \in R
  BY <1>10, <1>11 DEF h
<1>13. ById(R) \in [1 .. n -> R]
  BY <1>12
<1> QED
  BY <1>1, <1>13

\* The stream takes typed frames and no more than fit.
LEMMA BroadcastFits ==
  ASSUME PageShape, NEW frames \in Seq(Frame), Broadcast(frames)
  PROVE  /\ conn' \in {"closed", "open", "closing"}
         /\ wire' \in Seq(Frame) /\ Len(wire') <= WireSize
<1> DEFINE all == wire \o frames
<1>1. wire \in Seq(Frame) /\ conn \in {"closed", "open", "closing"} /\ Len(wire) <= WireSize
  BY DEF PageShape
<1>2. WireSize \in Nat \ {0}
  BY DashboardAssumption
<1>3. CASE UNCHANGED <<conn, wire>>
  BY <1>1, <1>3
<1>4. CASE Len(all) <= WireSize /\ wire' = all /\ UNCHANGED conn
  BY <1>1, <1>4, ConcatProperties
<1>5. CASE ~(Len(all) <= WireSize) /\ wire' = SubSeq(all, 1, WireSize) /\ conn' = "closing"
  <2>1. all \in Seq(Frame)
    BY <1>1, ConcatProperties
  <2> HIDE DEF all
  <2>2. Len(all) \in Nat /\ \A i \in 1 .. Len(all) : all[i] \in Frame
    BY <2>1
  <2>3. \A i \in 1 .. WireSize : all[i] \in Frame
    BY <1>2, <1>5, <2>2
  <2>4. SubSeq(all, 1, WireSize) \in Seq(Frame) /\ Len(SubSeq(all, 1, WireSize)) = WireSize - 1 + 1
    <3>1. 1 \in Int /\ WireSize \in Int /\ 1 <= WireSize
      BY <1>2
    <3> QED
      BY <2>3, <3>1, SubSeqProperties
  <2> QED
    BY <1>2, <1>5, <2>4
<1> QED
  BY <1>3, <1>4, <1>5 DEF Broadcast

\* The page does not move.
LEMMA StillShaped ==
  ASSUME PageShape, UNCHANGED page,
         conn' \in {"closed", "open", "closing"}, wire' \in Seq(Frame), Len(wire') <= WireSize
  PROVE  PageShape'
BY DEF PageShape, page

\* The broadcast of what a read inserted, in the order of the rowids.
LEMMA RowsBroadcast ==
  ASSUME PageShape, Ledger', BroadcastRows, UNCHANGED page
  PROVE  PageShape'
<1> DEFINE R      == rows' \ rows
           frames == [i \in DOMAIN ById(R) |-> Hive(ById(R)[i])]
<1>1. R \in FiniteRows
  <2>1. rows' \subseteq Row /\ IsFiniteSet(rows')
    BY DEF Ledger, Shape, Row
  <2> QED
    BY <2>1, FS_Subset DEF FiniteRows
<1>2. \A p, q \in R : p.id = q.id => p = q
  <2>1. \A p, q \in R : p.id = q.id => p.e = q.e
    BY DEF Ledger, CountsAgree, CursorsDiffer
  <2> QED
    BY <1>1, <2>1 DEF FiniteRows, Row
<1>3. Broadcast(frames)
  BY DEF BroadcastRows
<1> HIDE DEF R
<1>4. ById(R) \in Seq(R)
  BY <1>1, <1>2, ListedById
<1>5. frames \in Seq(Frame)
  <2>1. \A r \in R : Hive(r) \in Frame
    BY <1>1 DEF Hive, Frame, FiniteRows
  <2> DEFINE b == ById(R)
  <2>2. b \in Seq(R)
    BY <1>4
  <2> HIDE DEF b
  <2>3. DOMAIN b = 1 .. Len(b) /\ Len(b) \in Nat /\ \A i \in 1 .. Len(b) : Hive(b[i]) \in Frame
    BY <2>1, <2>2
  <2>4. [i \in 1 .. Len(b) |-> Hive(b[i])] \in Seq(Frame)
    BY <2>3
  <2> QED
    BY <2>3, <2>4 DEF b
<1> HIDE DEF frames
<1> QED
  BY <1>3, <1>5, BroadcastFits, StillShaped

\* The broadcast of the sessions that are gone.
LEMMA DeletesBroadcast ==
  ASSUME PageShape, BroadcastDelete, UNCHANGED page
  PROVE  PageShape'
<1> DEFINE S == {s \in Sessions : sess[s] # None /\ sess'[s] = None}
           frames == IF S = {} THEN <<>> ELSE <<Delete(S)>>
<1>1. Broadcast(frames)
  BY DEF BroadcastDelete
<1>2. Delete(S) \in Frame
  BY DEF Delete, Frame
<1> HIDE DEF S
<1>3. frames \in Seq(Frame)
  BY <1>2
<1> HIDE DEF frames
<1> QED
  BY <1>1, <1>3, BroadcastFits, StillShaped

\* A stream that ends, whoever ended it.
LEMMA EndShaped ==
  ASSUME PageShape,
         Disconnected, UNCHANGED <<boot, recent, hello, waiting, status, ring, last, resync, catchup>>
  PROVE  PageShape'
<1>1. wire' \in Seq(Frame) /\ Len(wire') = 0 /\ gen' \in Nat /\ conn' = "closed"
  BY DEF Disconnected, PageShape
<1>2. 0 <= WireSize
  BY DashboardAssumption
<1> QED
  BY <1>1, <1>2 DEF PageShape

\* The drain that fills the gap before the first hello.
LEMMA GapShaped ==
  ASSUME PageShape, NEW h \in Greeting, NEW from \in Nat, FillGap(h, from)
  PROVE  /\ status' \in {"connecting", "live", "reconnecting", "syncing"}
         /\ catchup' \in DrainOf \cup {None}
<1>1. Drain(from, h.cursor, {h.gen}) \in DrainOf
  BY DEF Drain, DrainOf, Greeting, NoPage
<1> QED
  BY <1>1 DEF FillGap, PageShape

\* The first load.
LEMMA BootShaped ==
  ASSUME PageShape, Ledger, OpenPage \/ AnswerBoot \/ FinishBoot \/ ShowReconnecting
  PROVE  PageShape'
<1>1. CASE OpenPage \/ ShowReconnecting
  BY <1>1 DEF OpenPage, ShowReconnecting, PageShape
<1>2. CASE AnswerBoot
  <2>1. Newest(BootSize, rows) \in SUBSET rows /\ {} \in SUBSET rows
    BY DEF Newest
  <2>2. recent' \in FiniteRows
    BY <1>2, <2>1, TablesAnswer DEF AnswerBoot
  <2> QED
    BY <1>2, <2>2 DEF AnswerBoot, PageShape
<1>3. CASE FinishBoot
  <2>1. ring' \in FiniteRows /\ Cardinality(ring') <= RingSize /\ last' \in Nat
    BY <1>3, RingFits DEF FinishBoot, PageShape
  <2>2. recent' \in FiniteRows
    BY <1>3, FS_EmptySet DEF FinishBoot, FiniteRows
  <2>3. /\ hello' = "waiting" => waiting' \in Greeting
        /\ status' \in {"connecting", "live", "reconnecting", "syncing"}
        /\ catchup' \in DrainOf \cup {None}
    <3>1. CASE hello = "waiting" /\ hello' = "done" /\ waiting' = None /\ FillGap(waiting, last')
      <4>1. waiting \in Greeting
        BY <3>1 DEF PageShape
      <4> QED
        BY <2>1, <3>1, <4>1, GapShaped
    <3>2. CASE hello # "waiting" /\ UNCHANGED <<hello, waiting, status, catchup>>
      BY <3>2 DEF PageShape
    <3> QED
      BY <1>3, <3>1, <3>2 DEF FinishBoot
  <2> QED
    BY <1>3, <2>1, <2>2, <2>3 DEF FinishBoot, PageShape
<1> QED
  BY <1>1, <1>2, <1>3

\* A stream that opens begins with a hello.
LEMMA ConnectShaped ==
  ASSUME PageShape, Ledger, Connect
  PROVE  PageShape'
<1>1. Top \in Nat /\ WireSize \in Nat \ {0}
  BY TablesAnswer, DashboardAssumption
<1>2. Hello(Top) \in Frame
  BY <1>1 DEF Hello, Frame
<1>3. wire' \in Seq(Frame) /\ Len(wire') = 1
  BY <1>2 DEF Connect
<1>4. gen' \in Nat
  BY DEF Connect, PageShape
<1>5. resync' \in DrainOf \cup {None}
  <2>1. Drain(last, None, {gen'}) \in DrainOf
    BY <1>4 DEF Drain, DrainOf, PageShape, NoPage
  <2>2. ASSUME resync \in DrainOf PROVE [resync EXCEPT !.gens = @ \cup {gen'}] \in DrainOf
    BY <1>4, <2>2 DEF DrainOf
  <2> QED
    BY <2>1, <2>2 DEF Connect, PageShape, NoDrain
<1>6. /\ hello' = "waiting" => waiting' \in Greeting
      /\ status' \in {"connecting", "live", "reconnecting", "syncing"} /\ conn' = "open"
      /\ UNCHANGED <<recent, ring, last, catchup>>
  BY DEF Connect, PageShape
<1>7. Len(wire') <= WireSize
  BY <1>1, <1>3
<1> QED
  BY <1>3, <1>4, <1>5, <1>6, <1>7 DEF PageShape

\* The page takes a frame.
LEMMA ReceiveShaped ==
  ASSUME PageShape, Receive
  PROVE  PageShape'
<1> DEFINE f == Head(wire)
<1>1. /\ wire' \in Seq(Frame) /\ Len(wire') <= WireSize /\ f \in Frame
  <2>1. wire \in Seq(Frame) /\ wire # <<>> /\ Len(wire) <= WireSize /\ wire' = Tail(wire)
    BY DEF PageShape, Receive
  <2>2. WireSize \in Nat
    BY DashboardAssumption
  <2>3. f \in Frame /\ Tail(wire) \in Seq(Frame) /\ Len(Tail(wire)) = Len(wire) - 1
    BY <2>1, HeadTailProperties
  <2> QED
    BY <2>1, <2>2, <2>3
<1>2. UNCHANGED <<conn, recent, gen, resync>>
  BY DEF Receive
<1>3. ReceiveHello(f) \/ ReceiveHive(f) \/ ReceiveDelete(f)
  BY DEF Receive
<1> HIDE DEF f
<1>4. /\ hello' = "waiting" => waiting' \in Greeting
      /\ status' \in {"connecting", "live", "reconnecting", "syncing"}
      /\ ring' \in FiniteRows /\ Cardinality(ring') <= RingSize /\ last' \in Nat
      /\ catchup' \in DrainOf \cup {None}
  <2>1. CASE ReceiveHello(f)
    <3>1. [cursor |-> f.cursor, gen |-> gen] \in Greeting /\ last \in Nat
      BY <1>1, <2>1 DEF ReceiveHello, Frame, Greeting, PageShape
    <3>2. UNCHANGED <<ring, last>>
      BY <2>1 DEF ReceiveHello
    <3>3. CASE hello # "pending" /\ UNCHANGED <<hello, waiting, status, catchup>>
      BY <3>2, <3>3 DEF PageShape
    <3>4. CASE hello' = "done" /\ FillGap([cursor |-> f.cursor, gen |-> gen], last)
      <4>1. /\ status' \in {"connecting", "live", "reconnecting", "syncing"}
            /\ catchup' \in DrainOf \cup {None}
        BY <3>1, <3>4, GapShaped
      <4> QED
        BY <3>2, <3>4, <4>1 DEF PageShape
    <3>5. CASE /\ hello' = "waiting" /\ waiting' = [cursor |-> f.cursor, gen |-> gen]
               /\ UNCHANGED <<status, catchup>>
      BY <3>1, <3>2, <3>5 DEF PageShape
    <3> QED
      BY <2>1, <3>3, <3>4, <3>5 DEF ReceiveHello
  <2>2. CASE ReceiveHive(f)
    <3>1. {f.row} \in FiniteRows
      BY <1>1, <2>2, FS_Singleton DEF ReceiveHive, Frame, FiniteRows
    <3>2. ring' \in FiniteRows /\ Cardinality(ring') <= RingSize /\ last' \in Nat
      BY <2>2, <3>1, RingFits DEF ReceiveHive, PageShape
    <3> QED
      BY <2>2, <3>2 DEF ReceiveHive, PageShape
  <2>3. CASE ReceiveDelete(f)
    <3>1. /\ ring' \subseteq ring
          /\ ring \in FiniteRows /\ Cardinality(ring) <= RingSize
      BY <2>3 DEF ReceiveDelete, PageShape
    <3>2. /\ ring' \in FiniteRows /\ Cardinality(ring') <= Cardinality(ring)
          /\ Cardinality(ring') \in Nat /\ Cardinality(ring) \in Nat /\ RingSize \in Nat
      BY <3>1, FS_Subset, FS_CardinalityType, DashboardAssumption DEF FiniteRows
    <3>3. Cardinality(ring') <= RingSize
      BY <3>1, <3>2
    <3> QED
      BY <2>3, <3>2, <3>3 DEF ReceiveDelete, PageShape
  <2> QED
    BY <1>3, <2>1, <2>2, <2>3
<1> QED
  BY <1>1, <1>2, <1>4 DEF PageShape

\* Drains are answered and taken page by page.
LEMMA DrainShaped ==
  ASSUME PageShape, Ledger, AnswerResync \/ AnswerCatchup \/ TakeResync \/ TakeCatchup
  PROVE  PageShape'
<1>1. CASE AnswerResync
  <2>1. resync \in DrainOf
    BY <1>1 DEF AnswerResync, PageShape, NoDrain
  <2>2. [resync EXCEPT !.page = AnswerTo(resync)] \in DrainOf
    <3> DEFINE a == AnswerTo(resync)
    <3>1. a \in Answer
      BY <2>1, AnswerTyped
    <3> HIDE DEF a
    <3>2. [resync EXCEPT !.page = a] \in DrainOf
      BY <2>1, <3>1 DEF DrainOf
    <3> QED
      BY <3>2 DEF a
  <2> QED
    BY <1>1, <2>2 DEF AnswerResync, PageShape
<1>2. CASE AnswerCatchup
  <2>1. catchup \in DrainOf
    BY <1>2 DEF AnswerCatchup, PageShape, NoDrain
  <2>2. [catchup EXCEPT !.page = AnswerTo(catchup)] \in DrainOf
    <3> DEFINE a == AnswerTo(catchup)
    <3>1. a \in Answer
      BY <2>1, AnswerTyped
    <3> HIDE DEF a
    <3>2. [catchup EXCEPT !.page = a] \in DrainOf
      BY <2>1, <3>1 DEF DrainOf
    <3> QED
      BY <3>2 DEF a
  <2> QED
    BY <1>2, <2>2 DEF AnswerCatchup, PageShape
<1>3. ASSUME NEW d \in DrainOf \cup {None}, TakeEvents(d)
      PROVE  /\ ring' \in FiniteRows /\ Cardinality(ring') <= RingSize /\ last' \in Nat
             /\ status' \in {"connecting", "live", "reconnecting", "syncing"}
             /\ UNCHANGED <<conn, wire, recent, hello, waiting, gen>>
             /\ Advanced(d) \in DrainOf \cup {None}
  <2>1. d \in DrainOf /\ d.page \in Answer
    BY <1>3 DEF TakeEvents, NoDrain, NoPage, DrainOf
  <2>2. ring' \in FiniteRows /\ Cardinality(ring') <= RingSize /\ last' \in Nat
    <3>1. CASE Acceptable(d)
      <4>1. d.page.events \in FiniteRows
        BY <2>1 DEF Answer
      <4> QED
        BY <1>3, <3>1, <4>1, RingFits DEF TakeEvents, PageShape
    <3>2. CASE ~Acceptable(d)
      BY <1>3, <3>2 DEF TakeEvents, PageShape
    <3> QED
      BY <3>1, <3>2
  <2>3. Drain(d.page.next, d.page.hw, d.gens) \in DrainOf
    BY <2>1 DEF Drain, DrainOf, Answer, NoPage
  <2>4. Advanced(d) \in DrainOf \cup {None}
    BY <2>3 DEF Advanced, NoDrain
  <2> QED
    BY <1>3, <2>2, <2>4 DEF TakeEvents, PageShape
<1>4. CASE TakeResync
  BY <1>3, <1>4 DEF TakeResync, PageShape
<1>5. CASE TakeCatchup
  BY <1>3, <1>5 DEF TakeCatchup, PageShape
<1> QED
  BY <1>1, <1>2, <1>4, <1>5

\* The daemon dies, and its streams with it.
LEMMA CutShaped == ASSUME PageShape, Cut PROVE PageShape'
<1>1. CASE conn = "closed" /\ UNCHANGED <<conn, wire, page>>
  BY <1>1, StillShaped DEF PageShape
<1>2. CASE Disconnected /\ UNCHANGED <<boot, recent, hello, waiting, status, ring, last, resync, catchup>>
  BY <1>2, EndShaped
<1> QED
  BY <1>1, <1>2 DEF Cut

\* A page begins empty.
LEMMA PageBegins == DashInit => PageShape
<1>1. 0 <= WireSize /\ 0 <= RingSize
  BY DashboardAssumption
<1>2. Cardinality({}) = 0 /\ {} \in FiniteRows
  BY FS_EmptySet DEF FiniteRows
<1> QED
  BY <1>1, <1>2 DEF DashInit, PageShape, NoDrain

\* What the page and its stream hold, whatever arrives in whatever order.
THEOREM PageInvariance == DashSafety => []PageShape
<1>1. DashInit => PageShape
  BY PageBegins
<1>2. Ledger /\ Ledger' /\ PageShape /\ [DashNext]_dvars => PageShape'
  <2> SUFFICES ASSUME Ledger, Ledger', PageShape, [DashNext]_dvars PROVE PageShape'
    OBVIOUS
  <2>1. CASE Still /\ UNCHANGED page
    BY <2>1, StillShaped DEF Still, PageShape
  <2>2. CASE BroadcastRows /\ UNCHANGED page
    BY <2>2, RowsBroadcast
  <2>3. CASE BroadcastDelete /\ UNCHANGED page
    BY <2>3, DeletesBroadcast
  <2>4. CASE Cut
    BY <2>4, CutShaped
  <2>5. CASE OpenPage \/ AnswerBoot \/ FinishBoot \/ ShowReconnecting
    BY <2>5, BootShaped
  <2>6. CASE Connect
    BY <2>6, ConnectShaped
  <2>7. CASE Receive
    BY <2>7, ReceiveShaped
  <2>8. CASE AnswerResync \/ AnswerCatchup \/ TakeResync \/ TakeCatchup
    BY <2>8, DrainShaped
  <2>9. CASE Drop
    BY <2>9, EndShaped DEF Drop
  <2>10. CASE UNCHANGED dvars
    BY <2>10, StillShaped DEF dvars, PageShape
  <2> QED
    BY <2>1, <2>2, <2>3, <2>4, <2>5, <2>6, <2>7, <2>8, <2>9, <2>10 DEF DashNext, Page
<1> QED
  BY <1>1, <1>2, LedgerInvariance, PTL DEF DashSafety

\* The cursors, totals and counts of the sessions agree with the rows that are there, and
\* the ring of the page and the buffer of its stream stay within their sizes.
THEOREM EverythingAddsUp == DashSafety => []RowsAddUp
<1>1. ASSUME Ledger, PageShape, CursorsDiffer /\ TotalsAreSums /\ ShortfallIsPruned
      PROVE  RowsAddUp
  <2>1. \A s \in Sessions : sess[s] # None =>
          sess[s] \in [count : Nat \ {0}, tokens : Nat, last : 1 .. MaxEvents]
    <3> TAKE s \in Sessions
    <3> HAVE sess[s] # None
    <3>1. sess[s] \in Stats /\ sess[s].count > 0 /\ sess[s].last \in 1 .. MaxEvents
      BY <1>1 DEF Ledger, Shape, CountsAgree
    <3> QED
      BY <3>1 DEF Stats
  <2>2. \A s \in Sessions : log[s] # NoFile => log[s] \in File
    BY <1>1 DEF Ledger, Shape, NoFile
  <2>3. TypeOK
    BY <1>1, <2>1, <2>2 DEF Ledger, Shape, TypeOK
  <2>4. DashTypeOK
    BY <1>1, <2>3 DEF PageShape, DashTypeOK
  <2> QED
    BY <1>1, <2>4 DEF RowsAddUp
<1> QED
  BY <1>1, LedgerInvariance, TablesAgree, PageInvariance, PTL

-----------------------------------------------------------------------------
(* No hole in the page                                                     *)
(*                                                                         *)
(* A row reaches the page with the first load, with a drain or with the    *)
(* stream.  Two numbers tell by which: the first load has brought what is  *)
(* above the floor f, and nothing at or below f comes any more (Over); up  *)
(* to the bound b, the largest rowid when the stream was opened, rows come *)
(* with the load or a drain, in the order of their rowids (Behind), and    *)
(* behind b with the stream, again in order (Ahead).  The cursor of the    *)
(* page says how far the stream has come, so that after a lost stream the  *)
(* next drain begins where nothing is missing.  All this is FeedInv.  It   *)
(* needs a table that only grows: the rowid of a deleted newest row is     *)
(* given away again.                                                       *)

\* A cursor is a rowid, or 0 before there is one.
IsCursor(n) == n = 0 \/ \E r \in rows : r.id = n

\* The page has this row, or its ring is full of newer ones and would not keep it.
Held(r) == r \in ring \/ (Cardinality(ring) = RingSize /\ \A q \in ring : r.id < q.id)

\* Is a row in one of the first n frames.
OnWire(r, n) == \E i \in 1 .. n : wire[i].type = "hive" /\ wire[i].row = r

Drains == {resync, catchup} \ {None}

FramesKnown ==
  \A i \in 1 .. Len(wire) :
    /\ wire[i].type # "delete"
    /\ wire[i].type = "hive" => wire[i].row \in rows
    /\ wire[i].type = "hello" => IsCursor(wire[i].cursor)

\* The hello of the first stream is its first frame.
HelloFirst ==
  /\ hello \in {"pending", "waiting", "done"}
  /\ gen = 0 => conn = "closed" /\ hello = "pending"
  /\ conn = "closed" => wire = <<>>
  /\ hello = "pending" /\ conn # "closed" => Len(wire) > 0 /\ wire[1].type = "hello"
  /\ hello = "waiting" => boot # "done" /\ IsCursor(waiting.cursor)

\* One drain at a time, none before the first hello, and none behind a page that is live.
OneDrain ==
  /\ resync = None \/ catchup = None
  /\ hello # "done" => Drains = {}
  /\ catchup # None => boot = "done"
  /\ Drains # {} => status # "live"

\* An answer has all rows behind the cursor of the drain up to its own, and announces
\* another one as long as its cursor has not reached the bound.
AnswerFits(d) ==
  /\ d.after <= d.page.next /\ d.page.next <= d.page.hw /\ IsCursor(d.page.hw)
  /\ d.page.more = (d.page.next < d.page.hw)
  /\ d.page.more => d.after < d.page.next
  /\ d.hw \in {None, d.page.hw}
  /\ d.page.events = {r \in rows : d.after < r.id /\ r.id <= d.page.next}

DrainFits(d) ==
  /\ d.after <= Top
  /\ d.hw # None => d.after <= d.hw /\ IsCursor(d.hw)
  /\ d.page # None => AnswerFits(d)

\* The first load leaves out what is older than all it has, and only if it is full.
LoadFits ==
  /\ recent \subseteq rows
  /\ recent # {} => boot = "answered"
  /\ \A r \in rows \ recent :
       \/ \A q \in recent : q.id < r.id
       \/ Cardinality(recent) >= BootSize /\ \A q \in recent : r.id < q.id

FeedShape ==
  /\ ring \subseteq rows /\ last <= Top
  /\ FramesKnown /\ HelloFirst /\ OneDrain /\ LoadFits
  /\ \A d \in Drains : DrainFits(d)

\* What the first load leaves out is older than all else that the page has got or is to get
\* from its stream.
LeftOut == {r \in rows \ recent : \E q \in recent : r.id < q.id}

FirstLoadReaches ==
  boot = "answered" /\ BootSize < RingSize =>
    \A r \in LeftOut :
      /\ \A q \in ring : r.id < q.id
      /\ \A i \in 1 .. Len(wire) : wire[i].type = "hive" => r.id < wire[i].row.id
      /\ resync # None => r.id <= resync.after

\* Nothing at or below the floor f, which the first load has set, arrives any more.
Over(f) ==
  /\ f <= last
  /\ boot # "done" => f = 0
  /\ f # 0 => ring # {}
  /\ \A q \in ring : f < q.id
  /\ \A i \in 1 .. Len(wire) : wire[i].type = "hive" => f < wire[i].row.id
  /\ \A d \in Drains : f <= d.after

\* Up to the bound b it is not the stream that brings the rows.
Bound(d) == IF d.page # None THEN d.page.hw ELSE IF d.hw # None THEN d.hw ELSE Top

Within(b) ==
  /\ b <= Top
  /\ \A d \in Drains : b <= Bound(d)
  /\ hello = "waiting" => b <= waiting.cursor
  /\ hello = "pending" /\ conn # "closed" => b <= wire[1].cursor

\* So far the first load or a drain has come.
Reached(b) ==
  IF resync # None THEN resync.after
  ELSE IF catchup # None THEN catchup.after
  ELSE IF hello = "done" THEN b
  ELSE last

Behind(f, b) == \A r \in rows : f < r.id /\ r.id <= Reached(b) => Held(r)

\* Behind the bound, the rows come in their order: what is not ahead of the page's cursor
\* or of a frame is there or on its way, and an open stream has all the rest.
Ahead(f, b) ==
  \A r \in rows : f < r.id /\ b < r.id =>
    /\ Held(r) \/ last < r.id
    /\ \A i \in 1 .. Len(wire) :
         wire[i].type = "hive" /\ r.id < wire[i].row.id => Held(r) \/ OnWire(r, i - 1)
    /\ conn = "open" => Held(r) \/ OnWire(r, Len(wire))

Feeds(f, b) == Over(f) /\ Within(b) /\ Behind(f, b) /\ Ahead(f, b)

\* Every row is out of reach, held, asked for or on its way.
FeedInv == FeedShape /\ \E f, b \in 0 .. Top : Feeds(f, b)

\* Rowids are numbers up to the largest, and each row has its own.
LEMMA TableFacts ==
  ASSUME Ledger
  PROVE  /\ Top \in Nat /\ IsCursor(Top)
         /\ \A r \in rows : r.id \in Nat \ {0} /\ r.id <= Top
         /\ \A p, q \in rows : p.id = q.id => p = q
         /\ \A p, q \in rows : p.e = q.e => p = q
<1>1. rows \in FiniteRows /\ IsFiniteSet(rows) /\ Top \in Nat
  BY TablesAnswer DEF FiniteRows
<1>2. \A r \in rows : r.id \in Nat \ {0} /\ r = [id |-> r.id, e |-> r.e]
  BY <1>1 DEF FiniteRows, Row
<1>3. \A p, q \in rows : p.id = q.id <=> p.e = q.e
  BY DEF Ledger, CountsAgree, CursorsDiffer
<1>4. IsCursor(Top) /\ \A r \in rows : r.id <= Top
  <2>1. CASE rows = {}
    BY <2>1 DEF IsCursor, Top
  <2>2. CASE rows # {}
    <3> DEFINE g == [r \in rows |-> r.id]
               S == {r.id : r \in rows}
    <3>1. g \in Surjection(rows, S) /\ S \subseteq Nat /\ S # {} /\ \A r \in rows : r.id \in S
      BY <1>2, <2>2 DEF Surjection
    <3>2. Top = Max(S)
      BY <2>2 DEF Top
    <3>3. \A x \in S : \E r \in rows : r.id = x
      OBVIOUS
    <3> HIDE DEF g, S
    <3>4. IsFiniteSet(S) /\ \A x \in S : x \in Int
      BY <1>1, <3>1, FS_Surjection
    <3>5. Max(S) \in S /\ \A x \in S : Max(S) >= x
      BY <3>1, <3>4, MaxIsLargest
    <3>6. \A r \in rows : r.id <= Top
      BY <1>2, <3>1, <3>2, <3>5
    <3>7. \E r \in rows : r.id = Top
      BY <3>2, <3>3, <3>5
    <3> QED
      BY <3>6, <3>7 DEF IsCursor
  <2> QED
    BY <2>1, <2>2
<1>5. \A p, q \in rows : p.id = q.id => p = q
  BY <1>2, <1>3
<1>6. \A p, q \in rows : p.e = q.e => p = q
  BY <1>2, <1>3
<1> QED
  BY <1>1, <1>2, <1>4, <1>5, <1>6

\* The same of the next state.
LEMMA NextTableFacts ==
  ASSUME Ledger'
  PROVE  /\ Top' \in Nat /\ IsCursor(Top)' /\ rows' \in FiniteRows
         /\ \A r \in rows' : r.id \in Nat \ {0} /\ r.id <= Top'
         /\ \A p, q \in rows' : p.id = q.id => p = q
         /\ \A p, q \in rows' : p.e = q.e => p = q
<1>1. (/\ Top \in Nat /\ IsCursor(Top)
       /\ \A r \in rows : r.id \in Nat \ {0} /\ r.id <= Top
       /\ \A p, q \in rows : p.id = q.id => p = q
       /\ \A p, q \in rows : p.e = q.e => p = q)'
  BY TableFacts, PTL
<1>2. (Top \in Nat /\ rows \in FiniteRows /\ \A R \in SUBSET rows : R \in FiniteRows)'
  BY TablesAnswer, PTL
<1> QED
  BY <1>1, <1>2

\* A cursor is no larger than the largest rowid.
LEMMA CursorsBelowTop ==
  ASSUME Ledger, NEW n, IsCursor(n)
  PROVE  n \in Nat /\ n <= Top
BY TableFacts DEF IsCursor

\* The largest of a number and of rowids is that number or one of them.
LEMMA LargestIsRowid ==
  ASSUME NEW R \in FiniteRows, NEW n \in Nat
  PROVE  LET m == Max({n} \cup {r.id : r \in R})
         IN  m >= n /\ (\A r \in R : m >= r.id) /\ (m = n \/ \E r \in R : m = r.id)
<1> DEFINE g == [r \in R |-> r.id]
           S == {r.id : r \in R}
<1>1. g \in Surjection(R, S) /\ S \subseteq Nat /\ IsFiniteSet(R)
  BY DEF Surjection, FiniteRows, Row
<1>2. (\A r \in R : r.id \in S) /\ \A x \in S : \E r \in R : x = r.id
  OBVIOUS
<1> HIDE DEF g, S
<1>3. IsFiniteSet(S) /\ IsFiniteSet({n})
  BY <1>1, FS_Surjection, FS_Singleton
<1>4. IsFiniteSet({n} \cup S) /\ {n} \cup S # {} /\ \A x \in {n} \cup S : x \in Int
  <2>1. IsFiniteSet({n} \cup S)
    BY <1>3, FS_Union
  <2> QED
    BY <1>1, <2>1
<1>5. Max({n} \cup S) \in {n} \cup S /\ \A x \in {n} \cup S : Max({n} \cup S) >= x
  BY <1>4, MaxIsLargest
<1> DEFINE m == Max({n} \cup S)
<1>6. m \in {n} \cup S /\ \A x \in {n} \cup S : m >= x
  BY <1>5
<1> HIDE DEF m
<1>7. m >= n /\ (\A r \in R : m >= r.id) /\ (m = n \/ \E r \in R : m = r.id)
  BY <1>2, <1>6
<1> QED
  BY <1>7 DEF m, S

\* A set of rows of one size inside another of the same size is all of it.
LEMMA SameSize ==
  ASSUME NEW S, IsFiniteSet(S), NEW T \in SUBSET S, Cardinality(T) >= Cardinality(S)
  PROVE  T = S
<1> SUFFICES ASSUME T # S PROVE FALSE
  OBVIOUS
<1>1. Cardinality(T) \in Nat /\ Cardinality(T) < Cardinality(S)
  BY PartIsSmaller
<1>2. Cardinality(S) \in Nat
  BY FS_CardinalityType
<1> QED
  BY <1>1, <1>2

\* What arrives is held, and what was held stays so: of rows with different rowids the
\* ring keeps the newest.
LEMMA IngestHolds ==
  ASSUME Ledger, PageShape, ring \subseteq rows, NEW R \in SUBSET rows, IngestEvents(R)
  PROVE  /\ ring' \subseteq ring \cup R
         /\ ring \cup R # {} => ring' # {}
         /\ \A x \in rows : x \in R \/ Held(x) => Held(x)'
         /\ \A x \in rows : \A T \in SUBSET (ring \cup R) :
              Cardinality(T) >= RingSize /\ (\A q \in T : x.id < q.id) => Held(x)'
         /\ last' >= last /\ (\A r \in R : last' >= r.id)
         /\ last' = last \/ \E r \in R : last' = r.id
<1> DEFINE all == ring \cup {r \in R : \A q \in ring : q.e # r.e}
<1>1. all = ring \cup R /\ all \subseteq rows /\ IsFiniteSet(all) /\ R \in FiniteRows
  <2>1. \A r \in R : r \in ring \/ \A q \in ring : q.e # r.e
    BY TableFacts
  <2>2. all = ring \cup R
    BY <2>1
  <2>3. R \in FiniteRows /\ ring \cup R \in FiniteRows
    BY TablesAnswer
  <2> QED
    BY <2>2, <2>3 DEF FiniteRows
<1>2. PICK keep \in kSubset(Min({RingSize, Cardinality(all)}), all) :
        (\A r \in keep, q \in all \ keep : r.id >= q.id) /\ ring' = keep
  BY DEF IngestEvents
<1>3. last' = Max({last} \cup {r.id : r \in R})
  BY DEF IngestEvents
<1> HIDE DEF all
<1> DEFINE n == Cardinality(all)
           k == Cardinality(keep)
<1>4. n \in Nat /\ RingSize \in Nat \ {0} /\ keep \subseteq all /\ IsFiniteSet(keep) /\ k \in Nat
  <2>1. keep \subseteq all
    BY <1>2 DEF kSubset
  <2> QED
    BY <1>1, <2>1, FS_Subset, FS_CardinalityType, DashboardAssumption
<1>5. k \in {RingSize, n} /\ k <= RingSize /\ k <= n
  <2>1. k = Min({RingSize, n})
    BY <1>2 DEF kSubset
  <2> HIDE DEF n, k
  <2> QED
    BY <1>4, <2>1, SmallerOfTwo
<1>6. \A x \in all : x.id \in Nat
  BY <1>1, TableFacts
<1>7. k < RingSize => keep = all
  <2> HAVE k < RingSize
  <2>1. k >= n
    BY <1>4, <1>5
  <2> QED
    BY <1>1, <1>4, <2>1, SameSize
<1>8. ASSUME NEW x \in rows, NEW T \in SUBSET all, Cardinality(T) >= RingSize, \A q \in T : x.id < q.id
      PROVE  k = RingSize /\ \A q \in keep : x.id < q.id
  <2>1. IsFiniteSet(T) /\ Cardinality(T) \in Nat /\ Cardinality(T) <= n
    BY <1>1, FS_Subset, FS_CardinalityType
  <2>2. k = RingSize
    BY <1>4, <1>5, <1>8, <2>1
  <2> SUFFICES ASSUME NEW q \in keep, ~(x.id < q.id) PROVE FALSE
    BY <2>2
  <2>3. q \notin T
    BY <1>8
  <2>4. PICK p \in T : p \notin keep
    <3> SUFFICES ASSUME T \subseteq keep PROVE FALSE
      OBVIOUS
    <3>1. Cardinality(T) < Cardinality(keep)
      BY <1>4, <2>3, PartIsSmaller
    <3> QED
      BY <1>4, <1>8, <2>1, <2>2, <3>1
  <2>5. q.id >= p.id /\ x.id < p.id
    BY <1>2, <1>8, <2>4
  <2>6. x.id \in Nat /\ q.id \in Nat /\ p.id \in Nat
    BY <1>4, <1>6, <2>4, TableFacts
  <2> QED
    BY <2>5, <2>6
<1>9. ASSUME NEW x \in all
      PROVE  x \in keep \/ (k = RingSize /\ \A q \in keep : x.id < q.id)
  <2> SUFFICES ASSUME x \notin keep PROVE k = RingSize /\ \A q \in keep : x.id < q.id
    OBVIOUS
  <2>1. k = RingSize
    BY <1>4, <1>5, <1>7
  <2>2. ASSUME NEW q \in keep PROVE x.id < q.id
    <3>1. q.id >= x.id /\ q # x /\ q \in rows /\ x \in rows
      BY <1>1, <1>2, <1>4
    <3>2. q.id # x.id /\ q.id \in Nat /\ x.id \in Nat
      BY <3>1, TableFacts
    <3> QED
      BY <3>1, <3>2
  <2> QED
    BY <2>1, <2>2
<1>10. ASSUME NEW x \in rows, x \in R \/ Held(x)
       PROVE  x \in keep \/ (k = RingSize /\ \A q \in keep : x.id < q.id)
  <2>1. CASE x \in all
    BY <1>9, <2>1
  <2>2. CASE x \notin all
    <3>1. Cardinality(ring) = RingSize /\ (\A q \in ring : x.id < q.id) /\ ring \subseteq all
      BY <1>1, <1>10, <2>2 DEF Held
    <3> HIDE DEF k
    <3> QED
      BY <1>4, <1>8, <3>1
  <2> QED
    BY <2>1, <2>2
<1>11. all # {} => keep # {}
  <2> SUFFICES ASSUME keep = {}, all # {} PROVE FALSE
    OBVIOUS
  <2>1. k = 0 /\ n = 0
    BY <1>4, <1>5, FS_EmptySet
  <2> QED
    BY <1>1, <2>1, FS_EmptySet
<1>12. last' >= last /\ (\A r \in R : last' >= r.id) /\ (last' = last \/ \E r \in R : last' = r.id)
  BY <1>1, <1>3, LargestIsRowid DEF PageShape
<1> HIDE DEF n
<1> QED
  BY <1>1, <1>2, <1>4, <1>8, <1>10, <1>11, <1>12 DEF Held

\* The list by rowids is in the order of the rowids and leaves nothing out.
LEMMA ListInOrder ==
  ASSUME NEW R \in FiniteRows, \A p, q \in R : p.id = q.id => p = q
  PROVE  /\ \A r \in R : \E i \in 1 .. Len(ById(R)) : ById(R)[i] = r
         /\ \A i \in 1 .. Len(ById(R)) : \A r \in R :
              r.id < ById(R)[i].id => \E j \in 1 .. i - 1 : ById(R)[j] = r
<1> DEFINE n       == Cardinality(R)
           Less(r) == {q \in R : q.id < r.id}
           h(i)    == CHOOSE r \in R : Cardinality(Less(r)) = i - 1
<1>1. IsFiniteSet(R) /\ n \in Nat /\ \A r \in R : r.id \in Nat
  BY FS_CardinalityType DEF FiniteRows, Row
<1>2. \A r \in R : IsFiniteSet(Less(r)) /\ Cardinality(Less(r)) \in Nat /\ Cardinality(Less(r)) < n
  <2> TAKE r \in R
  <2>1. Less(r) \subseteq R /\ Less(r) # R
    BY <1>1
  <2> HIDE DEF Less
  <2> QED
    BY <1>1, <2>1, PartIsSmaller
<1>3. ASSUME NEW p \in R, NEW q \in R, p.id < q.id PROVE Cardinality(Less(p)) < Cardinality(Less(q))
  <2>1. Less(p) \subseteq Less(q) /\ p \in Less(q) /\ p \notin Less(p)
    BY <1>1, <1>3
  <2> HIDE DEF Less
  <2> QED
    BY <1>2, <2>1, PartIsSmaller
<1>4. ById(R) = [i \in 1 .. n |-> h(i)]
  BY DEF ById
<1>5. ById(R) \in Seq(R)
  BY ListedById
<1>6. Len(ById(R)) = n /\ \A i \in 1 .. n : ById(R)[i] = h(i) /\ ById(R)[i] \in R
  <2> DEFINE s == ById(R)
  <2>0. s \in Seq(R)
    BY <1>5
  <2>1. s = [i \in 1 .. n |-> h(i)]
    BY <1>4
  <2> HIDE DEF s, h, n
  <2>2. Len(s) = n
    BY <1>1, <2>0, <2>1
  <2>3. \A i \in 1 .. n : s[i] = h(i)
    BY <2>1
  <2>4. \A i \in 1 .. n : s[i] \in R
    BY <2>0, <2>2
  <2> QED
    BY <2>2, <2>3, <2>4 DEF s
<1>7. ASSUME NEW r \in R
      PROVE  /\ Cardinality(Less(r)) + 1 \in 1 .. n
             /\ h(Cardinality(Less(r)) + 1) = r
  <2> DEFINE i == Cardinality(Less(r)) + 1
  <2>1. i \in 1 .. n /\ Cardinality(Less(r)) = i - 1
    <3> HIDE DEF n, Less
    <3> QED
      BY <1>1, <1>2
  <2>2. h(i) \in R /\ Cardinality(Less(h(i))) = i - 1
    BY <2>1
  <2> HIDE DEF h, i
  <2>3. ~(h(i).id < r.id) /\ ~(r.id < h(i).id)
    <3> HIDE DEF Less
    <3>1. Cardinality(Less(r)) \in Nat /\ Cardinality(Less(h(i))) = Cardinality(Less(r))
      BY <1>2, <2>1, <2>2
    <3> QED
      BY <1>3, <2>2, <3>1
  <2>4. h(i) = r
    BY <1>1, <2>2, <2>3
  <2> QED
    BY <2>1, <2>4 DEF i
<1>8. ASSUME NEW r \in R PROVE \E i \in 1 .. Len(ById(R)) : ById(R)[i] = r
  <2> HIDE DEF h, Less, n
  <2> QED
    BY <1>6, <1>7
<1>9. ASSUME NEW i \in 1 .. Len(ById(R)), NEW r \in R, r.id < ById(R)[i].id
      PROVE  \E j \in 1 .. i - 1 : ById(R)[j] = r
  <2> DEFINE q == ById(R)[i]
             j == Cardinality(Less(r)) + 1
  <2>0. i \in 1 .. n /\ i \in Nat /\ i - 1 \in Nat
    <3> HIDE DEF n
    <3> QED
      BY <1>1, <1>6
  <2>1. q \in R /\ q = h(i)
    <3> HIDE DEF h, n
    <3> QED
      BY <1>6, <2>0
  <2>2. \E p \in R : Cardinality(Less(p)) = i - 1
    <3>1. ASSUME \A p \in R : Cardinality(Less(p)) # i - 1 PROVE FALSE
      <4> DEFINE g == [p \in R |-> Cardinality(Less(p))]
                 T == {g[p] : p \in R}
      <4>1. \A a, c \in R : g[a] = g[c] => a = c
        <5> SUFFICES ASSUME NEW a \in R, NEW c \in R, g[a] = g[c] PROVE a = c
          OBVIOUS
        <5>1. Cardinality(Less(a)) = Cardinality(Less(c)) /\ Cardinality(Less(a)) \in Nat
          BY <1>2
        <5> HIDE DEF Less
        <5>2. ~(a.id < c.id) /\ ~(c.id < a.id)
          BY <1>3, <5>1
        <5> QED
          BY <1>1, <5>2
      <4>2. DOMAIN g = R /\ \A p \in R : g[p] \in Nat /\ g[p] < n /\ g[p] # i - 1
        <5> HIDE DEF Less, n
        <5> QED
          BY <1>2, <3>1
      <4> HIDE DEF g
      <4>3. IsFiniteSet(T) /\ Cardinality(T) = n
        BY <1>1, <4>1, <4>2, ListedOnce
      <4> DEFINE U == (0 .. n - 1)
      <4>4. T \subseteq U /\ T # U
        <5> HIDE DEF n
        <5>1. \A p \in R : g[p] \in 0 .. n - 1
          BY <1>1, <4>2
        <5>2. i - 1 \in 0 .. n - 1 /\ i - 1 \notin T
          BY <1>1, <2>0, <4>2
        <5> QED
          BY <5>1, <5>2
      <4>5. IsFiniteSet(U) /\ Cardinality(U) = n
        <5> HIDE DEF n
        <5>1. IsFiniteSet(0 .. n - 1) /\ Cardinality(0 .. n - 1) = n - 1 - 0 + 1
          BY <1>1, <2>0, FS_Interval
        <5> QED
          BY <1>1, <5>1
      <4> HIDE DEF T, U
      <4>6. Cardinality(T) < Cardinality(U)
        BY <4>4, <4>5, PartIsSmaller
      <4> QED
        BY <1>1, <4>3, <4>5, <4>6
    <3> QED
      BY <3>1
  <2>3. Cardinality(Less(q)) = i - 1
    BY <2>1, <2>2
  <2>4. Cardinality(Less(r)) < Cardinality(Less(q)) /\ Cardinality(Less(r)) \in Nat
    <3> HIDE DEF Less
    <3> QED
      BY <1>2, <1>3, <1>9, <2>1
  <2>5. j \in 1 .. i - 1 /\ j \in 1 .. n
    <3> HIDE DEF Less, n, q
    <3> QED
      BY <1>1, <2>0, <2>3, <2>4
  <2>6. ById(R)[j] = r
    <3> HIDE DEF Less, n, h
    <3> QED
      BY <1>6, <1>7, <2>5
  <2> QED
    BY <2>5, <2>6
<1> QED
  BY <1>8, <1>9

\* Of the finitely many rows that satisfy a condition, one is the newest.
LEMMA NewestRow ==
  ASSUME NEW R \in FiniteRows, R # {}
  PROVE  /\ \E r \in R : \A q \in R : q.id <= r.id
         /\ \E r \in R : \A q \in R : r.id <= q.id
<1> DEFINE n    == [r \in R |-> r.id]
           S    == {r.id : r \in R}
           o    == [r \in R |-> 0 - r.id]
           T    == {0 - r.id : r \in R}
<1>1. IsFiniteSet(R) /\ \A r \in R : r.id \in Nat
  BY DEF FiniteRows, Row
<1>2. n \in Surjection(R, S) /\ o \in Surjection(R, T)
  BY DEF Surjection
<1>3. S # {} /\ (\A x \in S : \E r \in R : x = r.id) /\ \A r \in R : r.id \in S
  OBVIOUS
<1>4. T # {} /\ (\A x \in T : \E r \in R : x = 0 - r.id) /\ \A r \in R : 0 - r.id \in T
  OBVIOUS
<1> HIDE DEF n, o, S, T
<1>5. IsFiniteSet(S) /\ IsFiniteSet(T)
  BY <1>1, <1>2, FS_Surjection
<1>6. (\A x \in S : x \in Int) /\ \A x \in T : x \in Int
  BY <1>1, <1>3, <1>4
<1>7. Max(S) \in S /\ \A y \in S : Max(S) >= y
  BY <1>3, <1>5, <1>6, MaxIsLargest
<1>8. Max(T) \in T /\ \A y \in T : Max(T) >= y
  BY <1>4, <1>5, <1>6, MaxIsLargest
<1>9. PICK r \in R : Max(S) = r.id
  BY <1>3, <1>7
<1>10. PICK p \in R : Max(T) = 0 - p.id
  BY <1>4, <1>8
<1>11. \A q \in R : q.id <= r.id
  BY <1>1, <1>3, <1>7, <1>9
<1>12. \A q \in R : p.id <= q.id
  <2> TAKE q \in R
  <2>1. 0 - p.id >= 0 - q.id
    BY <1>4, <1>8, <1>10
  <2> QED
    BY <1>1, <2>1
<1> QED
  BY <1>11, <1>12

\* The newest rows are as many as asked for if one is left out, and that one is older.
LEMMA NewestFill ==
  ASSUME NEW R \in FiniteRows, NEW n \in Nat, NEW r \in R, r \notin Newest(n, R)
  PROVE  Cardinality(Newest(n, R)) >= n /\ \A q \in Newest(n, R) : r.id < q.id
<1> DEFINE Newer(p) == {q \in R : q.id > p.id}
           Left     == {p \in R : Cardinality(Newer(p)) >= n}
<1>1. IsFiniteSet(R) /\ \A p \in R : p.id \in Nat
  BY DEF FiniteRows, Row
<1>2. \A p \in R : IsFiniteSet(Newer(p)) /\ Cardinality(Newer(p)) \in Nat
  BY <1>1, FS_Subset, FS_CardinalityType
<1>3. Newest(n, R) = {p \in R : Cardinality(Newer(p)) < n}
  BY DEF Newest
<1>4. \A p \in R : p \in Left <=> p \notin Newest(n, R)
  <2> HIDE DEF Newer
  <2> QED
    BY <1>2, <1>3
<1>5. Left \in FiniteRows /\ r \in Left
  <2>1. Left \subseteq R /\ r \in Left
    BY <1>4
  <2> HIDE DEF Left
  <2> QED
    BY <1>1, <2>1, FS_Subset DEF FiniteRows
<1>6. PICK p \in Left : \A q \in Left : q.id <= p.id
  <2> HIDE DEF Left
  <2> QED
    BY <1>5, NewestRow
<1>7. p \in R /\ Cardinality(Newer(p)) >= n
  OBVIOUS
<1>8. Newer(p) \subseteq Newest(n, R)
  <2> SUFFICES ASSUME NEW q \in R, q.id > p.id, q \notin Newest(n, R) PROVE FALSE
    OBVIOUS
  <2>1. q \in Left
    BY <1>4
  <2>2. q.id <= p.id
    BY <1>6, <2>1
  <2> QED
    BY <1>1, <1>7, <2>2
<1>9. IsFiniteSet(Newest(n, R))
  BY <1>1, <1>3, FS_Subset
<1> HIDE DEF Newer, Left
<1>10. Cardinality(Newest(n, R)) >= n
  <2>1. Cardinality(Newer(p)) <= Cardinality(Newest(n, R)) /\ Cardinality(Newest(n, R)) \in Nat
    BY <1>8, <1>9, FS_Subset, FS_CardinalityType
  <2> QED
    BY <1>2, <1>7, <2>1
<1>11. ASSUME NEW q \in Newest(n, R) PROVE r.id < q.id
  <2> SUFFICES ASSUME q.id <= r.id PROVE FALSE
    <3>1. q \in R
      BY <1>3
    <3> QED
      BY <1>1, <3>1
  <2>1. q \in R /\ Cardinality(Newer(q)) < n
    BY <1>3
  <2>2. Newer(r) \subseteq Newer(q)
    BY <1>1, <2>1 DEF Newer
  <2>3. Cardinality(Newer(r)) <= Cardinality(Newer(q))
    BY <1>2, <2>1, <2>2, FS_Subset
  <2>4. Cardinality(Newer(r)) >= n
    BY <1>2, <1>3
  <2> QED
    BY <1>2, <2>1, <2>3, <2>4
<1> QED
  BY <1>10, <1>11

\* An answer to a drain of rows that are there.
LEMMA AnswersFit ==
  ASSUME Ledger, NEW d \in DrainOf, d.page = None, DrainFits(d)
  PROVE  /\ DrainFits([d EXCEPT !.page = AnswerTo(d)])
         /\ Bound([d EXCEPT !.page = AnswerTo(d)]) = Bound(d)
<1> DEFINE hw     == HighWater(d)
           range  == {r \in rows : r.id > d.after /\ r.id <= hw}
           events == Earliest(PageSize, range)
           next   == IF events = {} THEN d.after ELSE Max({r.id : r \in events})
           a      == AnswerTo(d)
           n      == [d EXCEPT !.page = a]
<1>1. /\ Top \in Nat /\ d.after \in Nat /\ d.hw \in Nat \cup {None}
      /\ d.after <= Top /\ PageSize \in Nat \ {0} /\ \A r \in rows : r.id \in Nat
  BY TableFacts, DashboardAssumption DEF DrainOf, DrainFits
<1>2. /\ hw = Bound(d) /\ IsCursor(hw) /\ d.after <= hw /\ d.hw \in {None, hw}
  <2>1. CASE d.hw = None
    BY <1>1, <2>1, TableFacts DEF HighWater, Bound
  <2>2. CASE d.hw # None
    <3>1. d.after <= d.hw /\ IsCursor(d.hw) /\ d.hw <= Top /\ d.hw \in Nat
      BY <2>2, CursorsBelowTop DEF DrainFits
    <3>2. hw = d.hw
      BY <1>1, <2>2, <3>1 DEF HighWater
    <3> QED
      BY <2>2, <3>1, <3>2 DEF Bound
  <2> QED
    BY <2>1, <2>2
<1>3. hw \in Nat /\ hw <= Top
  BY <1>2, CursorsBelowTop
<1>4. range \in FiniteRows /\ range \subseteq rows
  <2>1. range \in SUBSET rows
    OBVIOUS
  <2> QED
    BY <2>1, TablesAnswer
<1>5. IsFiniteSet(range) /\ events \subseteq range /\ events \in FiniteRows /\ IsFiniteSet(events)
  <2>1. events \subseteq range /\ IsFiniteSet(range)
    BY <1>4 DEF Earliest, FiniteRows
  <2> HIDE DEF events, range
  <2> QED
    BY <1>4, <2>1, FS_Subset DEF FiniteRows
<1>6. a = [events |-> events, next |-> next, hw |-> hw, more |-> next < hw] /\ a # None
  <2>1. a = [events |-> events, next |-> next, hw |-> hw, more |-> next < hw]
    BY DEF AnswerTo
  <2>2. a \in Answer
    BY AnswerTyped
  <2> HIDE DEF a
  <2>3. a \in AnswerType
    BY <2>2 DEF Answer, AnswerType, FiniteRows
  <2> QED
    BY <2>1, <2>3, DashboardAssumption
<1> HIDE DEF hw
<1> DEFINE g == [d EXCEPT !.page = a]
<1>7. g.after = d.after /\ g.hw = d.hw /\ g.page = a /\ g = [d EXCEPT !.page = AnswerTo(d)]
  <2> HIDE DEF a
  <2>1. g.after = d.after /\ g.hw = d.hw /\ g.page = a
    BY DEF DrainOf
  <2> QED
    BY <2>1 DEF a
<1> HIDE DEF g
<1>8. CASE range = {}
  <2>1. events = {}
    BY <1>5, <1>8
  <2>2. hw = d.after
    <3>1. hw = 0 \/ \E r \in rows : r.id = hw
      BY <1>2 DEF IsCursor
    <3> QED
      BY <1>1, <1>2, <1>3, <1>8, <3>1
  <2>3. a.next = d.after /\ a.events = {} /\ a.hw = hw /\ a.more = (d.after < hw)
    <3> HIDE DEF a, events
    <3> QED
      BY <1>6, <2>1
  <2> HIDE DEF a, events, range, next
  <2>4. a.events = {r \in rows : d.after < r.id /\ r.id <= d.after}
    BY <1>1, <2>3
  <2> QED
    BY <1>1, <1>2, <1>3, <1>6, <1>7, <2>2, <2>3, <2>4 DEF DrainFits, AnswerFits, Bound
<1>9. CASE range # {}
  <2>1. PICK p \in range : \A q \in range : p.id <= q.id
    <3> HIDE DEF range
    <3> QED
      BY <1>4, <1>9, NewestRow
  <2>2. p \in events
    <3>1. {q \in range : q.id < p.id} = {}
      BY <1>1, <2>1
    <3>2. Cardinality({q \in range : q.id < p.id}) < PageSize
      BY <1>1, <3>1, FS_EmptySet
    <3> QED
      BY <3>2 DEF Earliest
  <2> DEFINE o == [r \in events |-> r.id]
             S == {r.id : r \in events}
  <2>3. o \in Surjection(events, S) /\ next = Max(S) /\ S # {}
    BY <2>2 DEF Surjection
  <2>4. (\A x \in S : \E r \in events : x = r.id) /\ \A r \in events : r.id \in S
    OBVIOUS
  <2> HIDE DEF o, S, next
  <2>5. IsFiniteSet(S) /\ \A x \in S : x \in Int
    <3>1. IsFiniteSet(S)
      BY <1>5, <2>3, FS_Surjection
    <3>2. \A r \in events : r.id \in Nat
      BY <1>1, <1>4, <1>5
    <3> HIDE DEF events
    <3> QED
      BY <2>4, <3>1, <3>2
  <2>6. next \in S /\ \A x \in S : next >= x
    BY <2>3, <2>5, MaxIsLargest
  <2>7. PICK m \in events : next = m.id
    BY <2>4, <2>6
  <2>8. m \in range /\ d.after < next /\ next <= hw /\ next \in Nat
    BY <1>1, <1>5, <2>7
  <2>9. events = {r \in rows : d.after < r.id /\ r.id <= next}
    <3>1. ASSUME NEW r \in events PROVE r \in rows /\ d.after < r.id /\ r.id <= next
      <4>1. r \in range
        BY <1>5
      <4>2. next >= r.id
        BY <2>4, <2>6
      <4> QED
        BY <1>1, <2>8, <4>1, <4>2
    <3>2. ASSUME NEW r \in rows, d.after < r.id, r.id <= next PROVE r \in events
      <4>1. r \in range
        BY <1>1, <1>3, <2>8, <3>2
      <4>2. {q \in range : q.id < r.id} \subseteq {q \in range : q.id < m.id}
        BY <1>1, <2>7, <2>8, <3>2
      <4>3. Cardinality({q \in range : q.id < m.id}) < PageSize
        BY <2>7 DEF Earliest
      <4> DEFINE A == {q \in range : q.id < r.id}
                 B == {q \in range : q.id < m.id}
      <4>4. IsFiniteSet(B) /\ IsFiniteSet(A)
        BY <1>5, FS_Subset
      <4>5. A \subseteq B /\ Cardinality(B) < PageSize
        BY <4>2, <4>3
      <4>6. Cardinality(A) < PageSize
        <5> HIDE DEF A, B
        <5>1. Cardinality(A) <= Cardinality(B) /\ Cardinality(A) \in Nat /\ Cardinality(B) \in Nat
          BY <4>4, <4>5, FS_Subset, FS_CardinalityType
        <5> QED
          BY <1>1, <4>5, <5>1
      <4> QED
        BY <4>1, <4>6 DEF Earliest
    <3> HIDE DEF events
    <3> QED
      BY <1>4, <1>5, <3>1, <3>2
  <2>10. a.next = next /\ a.events = events /\ a.hw = hw /\ a.more = (next < hw)
    <3> HIDE DEF a, events
    <3> QED
      BY <1>6
  <2> HIDE DEF a, events, range
  <2> QED
    BY <1>1, <1>2, <1>3, <1>6, <1>7, <2>8, <2>9, <2>10 DEF DrainFits, AnswerFits, Bound
<1> QED
  BY <1>8, <1>9

\* Without deletions the table only grows, behind its largest rowid.
RowsGrow == rows \subseteq rows' /\ \A r \in rows' \ rows : Top < r.id

\* Then the largest rowid does not fall, and a cursor stays one.
LEMMA CursorsStay ==
  ASSUME Ledger, Ledger', RowsGrow
  PROVE  Top <= Top' /\ \A n : IsCursor(n) => IsCursor(n)'
<1>1. \A n : IsCursor(n) => IsCursor(n)'
  BY DEF IsCursor, RowsGrow
<1>2. IsCursor(Top) /\ Top \in Nat
  BY TableFacts
<1>3. Top' \in Nat /\ \A r \in rows' : r.id <= Top'
  BY NextTableFacts
<1>4. Top <= Top'
  BY <1>2, <1>3 DEF IsCursor, RowsGrow
<1> QED
  BY <1>1, <1>4

\* What a drain has and what it may ask for stay so.
LEMMA DrainsStay ==
  ASSUME Ledger, Ledger', RowsGrow, NEW d \in DrainOf, DrainFits(d)
  PROVE  /\ DrainFits(d)' /\ Bound(d) <= Bound(d)'
         /\ d.after \in Nat /\ d.after <= Top /\ Bound(d) \in Nat /\ Bound(d) <= Top
<1>1. Top \in Nat /\ Top' \in Nat /\ Top <= Top' /\ d.after \in Nat /\ d.after <= Top
  BY TableFacts, NextTableFacts, CursorsStay DEF DrainFits, DrainOf
<1>2. \A r \in rows' : r \in rows \/ (Top < r.id /\ r.id \in Nat)
  <2>1. \A r \in rows' : r.id \in Nat
    BY NextTableFacts
  <2> QED
    BY <2>1 DEF RowsGrow
<1>3. d.hw # None => d.hw \in Nat /\ d.hw <= Top /\ IsCursor(d.hw)'
  BY CursorsBelowTop, CursorsStay DEF DrainFits
<1>4. d.page # None => d.page.hw \in Nat /\ d.page.hw <= Top /\ IsCursor(d.page.hw)'
  BY CursorsBelowTop, CursorsStay DEF DrainFits, AnswerFits
<1>5. d.page # None => d.page.next \in Nat
  BY DEF DrainOf, Answer
<1>6. d.page # None => AnswerFits(d)'
  <2> SUFFICES ASSUME d.page # None PROVE AnswerFits(d)'
    OBVIOUS
  <2>1. AnswerFits(d)
    BY DEF DrainFits
  <2>2. {r \in rows' : d.after < r.id /\ r.id <= d.page.next}
          = {r \in rows : d.after < r.id /\ r.id <= d.page.next}
    <3>1. d.page.next <= Top
      BY <1>1, <1>4, <1>5, <2>1 DEF AnswerFits
    <3> QED
      BY <1>1, <1>2, <1>5, <3>1 DEF RowsGrow
  <2> QED
    BY <1>4, <2>1, <2>2 DEF AnswerFits
<1>7. DrainFits(d)'
  BY <1>1, <1>3, <1>6 DEF DrainFits
<1>8. Bound(d) \in Nat /\ Bound(d) <= Top /\ Bound(d) <= Bound(d)'
  BY <1>1, <1>3, <1>4 DEF Bound
<1> QED
  BY <1>1, <1>7, <1>8

\* What the answer to the first load left out stays older, and what is new is newer.
LEMMA LoadStays ==
  ASSUME Ledger, Ledger', RowsGrow, LoadFits, UNCHANGED <<recent, boot>>
  PROVE  LoadFits'
<1>1. Top \in Nat /\ \A r \in rows : r.id \in Nat /\ r.id <= Top
  BY TableFacts
<1>2. \A r \in rows' : r \in rows \/ Top < r.id
  BY DEF RowsGrow
<1>3. \A r \in rows' : r.id \in Nat
  BY NextTableFacts
<1>4. ASSUME NEW r \in rows' \ recent
      PROVE  \/ \A q \in recent : q.id < r.id
             \/ Cardinality(recent) >= BootSize /\ \A q \in recent : r.id < q.id
  <2>1. CASE r \in rows
    BY <2>1 DEF LoadFits
  <2>2. CASE r \notin rows
    <3>1. \A q \in recent : q.id < r.id
      BY <1>1, <1>2, <1>3, <2>2 DEF LoadFits
    <3> QED
      BY <3>1
  <2> QED
    BY <2>1, <2>2
<1>5. recent' \subseteq rows' /\ (recent' # {} => boot' = "answered")
  BY DEF LoadFits, RowsGrow
<1> QED
  BY <1>4, <1>5 DEF LoadFits

\* How far the rows have come is a number below the largest rowid.
LEMMA ReachedBelowTop ==
  ASSUME Ledger, PageShape, FeedShape, NEW b \in Nat, Within(b)
  PROVE  Reached(b) \in Nat /\ Reached(b) <= Top /\ last \in Nat /\ last <= Top /\ b <= Top
<1>1. last \in Nat /\ last <= Top /\ b <= Top
  BY DEF PageShape, FeedShape, Within
<1>2. \A d \in Drains : d.after \in Nat /\ d.after <= Top
  BY DEF FeedShape, DrainFits, PageShape, Drains, DrainOf
<1> QED
  BY <1>1, <1>2 DEF Reached, Drains

\* The parts that do not look at the stream, while the table grows.
LEMMA PageStays ==
  ASSUME Ledger, Ledger', PageShape, FeedShape, RowsGrow,
         UNCHANGED <<boot, recent, hello, waiting, ring, last, resync, catchup>>,
         status' \in {status, "reconnecting"},
         NEW f \in Nat, NEW b \in Nat, Feeds(f, b)
  PROVE  /\ ring' \subseteq rows' /\ last' <= Top' /\ OneDrain' /\ LoadFits'
         /\ (\A d \in Drains : DrainFits(d))'
         /\ b <= Top' /\ (\A d \in Drains : b <= Bound(d))'
         /\ Behind(f, b)'
         /\ \A r : Held(r)' <=> Held(r)
         /\ \A r \in rows' : r \in rows \/ (Top < r.id /\ last < r.id /\ r.id \in Nat)
<1>1. Top \in Nat /\ Top' \in Nat /\ Top <= Top'
  BY TableFacts, NextTableFacts, CursorsStay
<1>2. Reached(b) \in Nat /\ Reached(b) <= Top /\ last \in Nat /\ last <= Top /\ b <= Top
  BY ReachedBelowTop DEF Feeds
<1>3. ring' \subseteq rows' /\ last' <= Top'
  BY <1>1, <1>2 DEF FeedShape, RowsGrow
<1>4. OneDrain'
  BY DEF FeedShape, OneDrain, Drains
<1>5. LoadFits'
  BY LoadStays DEF FeedShape
<1>6. Drains' = Drains /\ \A d \in Drains : d \in DrainOf
  BY DEF Drains, PageShape
<1>7. (\A d \in Drains : DrainFits(d))'
  BY <1>6, DrainsStay DEF FeedShape
<1>8. b <= Top' /\ (\A d \in Drains : b <= Bound(d))'
  <2>1. \A d \in Drains : Bound(d) <= Bound(d)' /\ Bound(d) \in Nat /\ b <= Bound(d)
    BY <1>6, DrainsStay DEF FeedShape, Feeds, Within
  <2>2. \A d \in Drains : DrainFits(d)' /\ Bound(d)' \in Nat
    <3> TAKE d \in Drains
    <3>1. DrainFits(d)' /\ d \in DrainOf
      BY <1>6, DrainsStay DEF FeedShape
    <3> QED
      BY <1>1, <3>1 DEF Bound, DrainOf, Answer
  <2> QED
    BY <1>1, <1>2, <1>6, <2>1, <2>2
<1>9. \A r : Held(r)' <=> Held(r)
  BY DEF Held
<1>10. \A r \in rows' : r \in rows \/ (Top < r.id /\ last < r.id /\ r.id \in Nat)
  <2>1. \A r \in rows' : r.id \in Nat
    BY NextTableFacts
  <2> QED
    BY <1>1, <1>2, <2>1 DEF RowsGrow
<1>11. Behind(f, b)'
  <2>1. Reached(b)' = Reached(b)
    BY DEF Reached
  <2>2. \A r \in rows' : r.id <= Reached(b) => r \in rows
    BY <1>1, <1>2, <1>10
  <2> QED
    BY <1>9, <2>1, <2>2 DEF Feeds, Behind
<1> QED
  BY <1>3, <1>4, <1>5, <1>7, <1>8, <1>9, <1>10, <1>11

\* The stream is closed, by whomever, while the table grows or not.
LEMMA EndFeeds ==
  ASSUME Ledger, Ledger', PageShape, FeedShape, RowsGrow,
         UNCHANGED <<boot, recent, hello, waiting, ring, last, resync, catchup>>,
         status' \in {status, "reconnecting"},
         conn' = "closed", wire' = <<>>, gen' = gen + 1 \/ (gen' = gen /\ conn = "closed"),
         NEW f \in Nat, NEW b \in Nat, Feeds(f, b)
  PROVE  FeedShape' /\ Feeds(f, b)'
<1>1. /\ ring' \subseteq rows' /\ last' <= Top' /\ OneDrain' /\ LoadFits'
      /\ (\A d \in Drains : DrainFits(d))'
      /\ b <= Top' /\ (\A d \in Drains : b <= Bound(d))'
      /\ Behind(f, b)'
      /\ \A r : Held(r)' <=> Held(r)
      /\ \A r \in rows' : r \in rows \/ (Top < r.id /\ last < r.id /\ r.id \in Nat)
  BY PageStays
<1>2. Len(wire') = 0
  OBVIOUS
<1>3. FramesKnown'
  BY <1>2 DEF FramesKnown
<1>4. HelloFirst'
  <2>1. gen \in Nat
    BY DEF PageShape
  <2>3. hello' = "waiting" => boot' # "done" /\ IsCursor(waiting.cursor)'
    BY CursorsStay DEF FeedShape, HelloFirst, IsCursor, RowsGrow
  <2> QED
    BY <2>1, <2>3 DEF FeedShape, HelloFirst
<1>5. Over(f)'
  BY <1>2 DEF Feeds, Over, Drains
<1>6. Within(b)'
  BY <1>1 DEF Feeds, Within
<1>7. Ahead(f, b)'
  BY <1>1, <1>2 DEF Feeds, Ahead
<1> QED
  BY <1>1, <1>3, <1>4, <1>5, <1>6, <1>7 DEF FeedShape, Feeds

\* Neither the table nor the stream moves.
LEMMA StillFeeds ==
  ASSUME Ledger, Ledger', PageShape, FeedShape,
         UNCHANGED <<rows, conn, wire, recent, hello, waiting, gen, ring, last, resync, catchup>>,
         boot' = boot \/ (boot = "unopened" /\ boot' = "asked"),
         status' \in {status, "reconnecting"},
         NEW f \in Nat, NEW b \in Nat, Feeds(f, b)
  PROVE  FeedShape' /\ Feeds(f, b)'
<1>1. Top' = Top /\ Drains' = Drains
  BY DEF Top, Drains
<1>2. FramesKnown' /\ HelloFirst' /\ OneDrain' /\ LoadFits'
  BY <1>1 DEF FeedShape, FramesKnown, HelloFirst, OneDrain, LoadFits, IsCursor, Drains
<1>3. (\A d \in Drains : DrainFits(d))'
  BY <1>1 DEF FeedShape, DrainFits, AnswerFits, IsCursor
<1>4. FeedShape'
  BY <1>1, <1>2, <1>3 DEF FeedShape
<1>5. Over(f)' /\ Within(b)'
  BY <1>1 DEF Feeds, Over, Within, Bound, Drains
<1>6. Behind(f, b)' /\ Ahead(f, b)'
  BY DEF Feeds, Behind, Ahead, Held, OnWire, Reached
<1> QED
  BY <1>4, <1>5, <1>6 DEF Feeds


\* A read only adds rows, behind the largest rowid.
LEMMA CommitGrows ==
  ASSUME Shape, NEW s \in Sessions, NEW f \in File, NEW lo \in 0 .. Len(f.lines),
         NEW hi \in lo .. Len(f.lines), Commit(s, f, lo, hi)
  PROVE  RowsGrow
<1>1. Top \in Nat /\ \A i \in NewIn(f, lo, hi) : Cardinality(NewIn(f, lo, i)) \in Nat \ {0}
  BY RowidsGrow
<1>2. rows' = rows \cup {[id |-> Top + Cardinality(NewIn(f, lo, i)), e |-> f.lines[i]] : i \in NewIn(f, lo, hi)}
  BY DEF Commit, InsertEvent
<1>3. \A i \in NewIn(f, lo, hi) : Top < Top + Cardinality(NewIn(f, lo, i))
  BY <1>1
<1> QED
  BY <1>2, <1>3 DEF RowsGrow

\* readSource, batch by batch, or as far as the daemon lived.
LEMMA ReadGrows ==
  ASSUME Shape, NEW s \in Sessions, NEW f \in File, NEW c \in Cursor, Remembers(c, now),
         Read(s, f, c)
  PROVE  RowsGrow
<1> DEFINE lo == ReadFrom(f, c)
           hi == ReadTo(s, f, lo)
<1>1. lo \in 0 .. Len(f.lines)
  BY ReadsFrom DEF Remembers
<1>2. hi \in lo .. Len(f.lines)
  BY <1>1, ReadsTo
<1>3. Commit(s, f, lo, hi) \/ rows' = rows
  BY DEF Read, db
<1> HIDE DEF hi, lo
<1>4. CASE Commit(s, f, lo, hi)
  BY <1>1, <1>2, <1>4, CommitGrows
<1>5. CASE rows' = rows
  BY <1>5 DEF RowsGrow
<1> QED
  BY <1>3, <1>4, <1>5

\* Whatever a step of the daemon finds.
LEMMA DaemonGrows ==
  ASSUME Ledger, NEW s \in Sessions, AddSource(s) \/ ReadSource(s) \/ CrashInRead(s)
  PROVE  RowsGrow
<1>1. CASE AddSource(s)
  <2>1. PICK i \in Inodes :
          Read(s, IF log[s] = NoFile THEN NewFile(i) ELSE log[s],
                  IF cursor[s] = None THEN Fresh ELSE cursor[s])
    BY <1>1 DEF AddSource
  <2> DEFINE f == IF log[s] = NoFile THEN NewFile(i) ELSE log[s]
             c == IF cursor[s] = None THEN Fresh ELSE cursor[s]
  <2>2. f \in File /\ c \in Cursor
    BY IngestionAssumption DEF Ledger, Shape, NewFile, NoFile, File, Fresh, Cursor
  <2>3. Remembers(c, now)
    BY DEF Ledger, CursorsBehind, Fresh, Remembers
  <2>4. Read(s, f, c)
    BY <2>1
  <2> HIDE DEF f, c
  <2> QED
    BY <2>2, <2>3, <2>4, ReadGrows DEF Ledger
<1>2. CASE ReadSource(s)
  <2>1. src[s] # None /\ log[s] # None /\ Read(s, log[s], src[s])
    BY <1>2 DEF ReadSource, NoFile
  <2>2. log[s] \in File /\ src[s] \in Cursor /\ Remembers(src[s], now)
    BY <2>1 DEF Ledger, Shape, CursorsBehind
  <2> QED
    BY <2>1, <2>2, ReadGrows DEF Ledger
<1>3. CASE CrashInRead(s)
  <2> DEFINE f  == log[s]
             c  == src[s]
             lo == ReadFrom(f, c)
  <2>1. f # None /\ c # None /\ \E hi \in Committed(s, f, lo) : Commit(s, f, lo, hi)
    BY <1>3 DEF CrashInRead, NoFile
  <2>2. f \in File /\ c \in Cursor /\ Remembers(c, now)
    BY <2>1 DEF Ledger, Shape, CursorsBehind
  <2> HIDE DEF f, c
  <2>3. lo \in 0 .. Len(f.lines)
    BY <2>2, ReadsFrom DEF Remembers
  <2> HIDE DEF lo
  <2>4. PICK hi \in Committed(s, f, lo) : Commit(s, f, lo, hi)
    BY <2>1
  <2>5. hi \in lo .. Len(f.lines)
    BY <2>2, <2>3, <2>4, CommitsInside
  <2> QED
    BY <2>2, <2>3, <2>4, <2>5, CommitGrows DEF Ledger
<1> QED
  BY <1>1, <1>2, <1>3

\* What a read broadcasts: the new rows behind the frames that are there, in the order of
\* their rowids, and all of them unless the stream is cut off.
LEMMA RowsArrive ==
  ASSUME Ledger, Ledger', PageShape, RowsGrow, BroadcastRows
  PROVE  LET m == Len(wire)
             k == Len(wire')
         IN  /\ m \in Nat /\ k \in Nat /\ m <= k
             /\ \A i \in 1 .. m : wire'[i] = wire[i]
             /\ \A i \in m + 1 .. k :
                  /\ wire'[i].type = "hive" /\ wire'[i].row \in rows' \ rows
                  /\ \A r \in rows' \ rows : r.id < wire'[i].row.id =>
                       \E j \in m + 1 .. i - 1 : wire'[j].type = "hive" /\ wire'[j].row = r
             /\ conn' = "closed" <=> conn = "closed"
             /\ conn = "closed" => wire' = wire
             /\ conn' = "open" => /\ conn = "open"
                                  /\ \A r \in rows' \ rows : \E j \in m + 1 .. k :
                                       wire'[j].type = "hive" /\ wire'[j].row = r
             /\ k > m => conn = "open"
<1> DEFINE R      == rows' \ rows
           new    == ById(R)
           n      == Len(new)
           frames == [i \in DOMAIN new |-> Hive(new[i])]
           all    == wire \o frames
           m      == Len(wire)
           k      == Len(wire')
<1>1. R \in FiniteRows /\ \A p, q \in R : p.id = q.id => p = q
  <2>1. rows' \in FiniteRows /\ \A p, q \in rows' : p.id = q.id => p = q
    BY NextTableFacts
  <2> QED
    BY <2>1, FS_Subset DEF FiniteRows
<1>2. Broadcast(frames)
  BY DEF BroadcastRows
<1> HIDE DEF R
<1>3. /\ new \in Seq(R) /\ n \in Nat /\ DOMAIN new = 1 .. n
      /\ \A r \in R : \E i \in 1 .. n : new[i] = r
      /\ \A i \in 1 .. n : \A r \in R : r.id < new[i].id => \E j \in 1 .. i - 1 : new[j] = r
  <2>1. ById(R) \in Seq(R)
    BY <1>1, ListedById
  <2>2. /\ \A r \in R : \E i \in 1 .. n : new[i] = r
        /\ \A i \in 1 .. n : \A r \in R : r.id < new[i].id => \E j \in 1 .. i - 1 : new[j] = r
    BY <1>1, ListInOrder
  <2> HIDE DEF new
  <2>3. new \in Seq(R)
    BY <2>1 DEF new
  <2>4. n \in Nat /\ DOMAIN new = 1 .. n
    BY <2>3
  <2> QED
    BY <2>2, <2>3, <2>4
<1> HIDE DEF new
<1>4. \A i \in 1 .. n : new[i] \in R
  BY <1>3
<1>5. Len(frames) = n /\ (\A i \in 1 .. n : frames[i] = Hive(new[i])) /\ frames \in Seq({Hive(r) : r \in R})
  <2>1. \A i \in 1 .. n : Hive(new[i]) \in {Hive(r) : r \in R}
    BY <1>4
  <2>2. frames = [i \in 1 .. n |-> Hive(new[i])]
    BY <1>3
  <2> HIDE DEF n, frames
  <2>3. frames \in Seq({Hive(r) : r \in R}) /\ DOMAIN frames = 1 .. n
    <3> DEFINE H == {Hive(r) : r \in R}
               h(i) == Hive(new[i])
    <3>1. frames = [i \in 1 .. n |-> h(i)] /\ \A i \in 1 .. n : h(i) \in H
      BY <2>1, <2>2
    <3> HIDE DEF H, h
    <3>2. frames \in Seq(H) /\ DOMAIN frames = 1 .. n
      BY <1>3, <3>1
    <3> QED
      BY <3>2 DEF H
  <2>4. \A i \in 1 .. n : frames[i] = Hive(new[i])
    BY <2>2
  <2> QED
    BY <1>3, <2>3, <2>4
<1> HIDE DEF frames, n
<1>6. wire \in Seq(Frame) /\ m \in Nat /\ WireSize \in Nat /\ m <= WireSize
  BY DashboardAssumption DEF PageShape
<1>7. /\ Len(all) = m + n /\ \A i \in 1 .. m : all[i] = wire[i]
      /\ \A i \in m + 1 .. m + n : all[i] = Hive(new[i - m])
  <2>1. all \in Seq(Frame \cup {Hive(r) : r \in R}) /\ Len(all) = m + n
    BY <1>5, <1>6
  <2>2. \A i \in 1 .. m : all[i] = wire[i]
    BY <1>3, <1>5, <1>6
  <2>3. \A i \in m + 1 .. m + n : all[i] = frames[i - m] /\ i - m \in 1 .. n
    BY <1>3, <1>5, <1>6
  <2> QED
    BY <1>5, <2>1, <2>2, <2>3
<1>8. \/ (conn # "open" \/ n = 0) /\ UNCHANGED <<conn, wire>>
      \/ conn = "open" /\ wire' = all /\ UNCHANGED conn
      \/ /\ conn = "open" /\ Len(all) > WireSize
         /\ wire' = SubSeq(all, 1, WireSize) /\ conn' = "closing"
  <2>1. frames = <<>> => n = 0
    BY <1>5
  <2>2. Len(all) <= WireSize \/ Len(all) > WireSize
    BY <1>3, <1>6, <1>7
  <2> HIDE DEF all
  <2> QED
    BY <1>2, <2>1, <2>2 DEF Broadcast, all
<1> HIDE DEF all
<1>9. /\ k \in Nat /\ m <= k /\ k <= m + n
      /\ \A i \in 1 .. m : wire'[i] = wire[i]
      /\ \A i \in m + 1 .. k : wire'[i] = Hive(new[i - m])
      /\ conn' = "open" => conn = "open" /\ k = m + n
      /\ conn' = "closed" <=> conn = "closed"
      /\ conn = "closed" => wire' = wire
      /\ k > m => conn = "open"
  <2>1. CASE (conn # "open" \/ n = 0) /\ UNCHANGED <<conn, wire>>
    BY <1>3, <1>6, <2>1
  <2>2. CASE conn = "open" /\ wire' = all /\ UNCHANGED conn
    BY <1>3, <1>6, <1>7, <2>2
  <2>3. CASE conn = "open" /\ Len(all) > WireSize /\ wire' = SubSeq(all, 1, WireSize) /\ conn' = "closing"
    <3>1. m + n \in Nat /\ WireSize < m + n
      BY <1>3, <1>6, <1>7, <2>3
    <3>2. \A i \in 1 .. m + n : all[i] = all[i] /\ all[i] \in {all[j] : j \in 1 .. m + n}
      OBVIOUS
    <3>3. wire' = [i \in 1 .. WireSize |-> all[i]]
      BY <1>6, <2>3 DEF SubSeq
    <3>4. k = WireSize /\ \A i \in 1 .. WireSize : wire'[i] = all[i]
      <4>1. wire' \in Seq({all[j] : j \in 1 .. m + n})
        BY <1>6, <3>1, <3>3
      <4> QED
        BY <1>6, <3>3, <4>1
    <3>5. \A i \in 1 .. WireSize : i \in 1 .. m \/ i \in m + 1 .. m + n
      BY <1>3, <1>6, <3>1
    <3>6. (\A i \in 1 .. m : i \in 1 .. WireSize) /\ \A i \in m + 1 .. WireSize : i \in 1 .. WireSize /\ i \in m + 1 .. m + n
      BY <1>3, <1>6, <3>1
    <3>7. k \in Nat /\ m <= k /\ k <= m + n
      BY <1>3, <1>6, <3>1, <3>4
    <3>8. \A i \in m + 1 .. k : wire'[i] = Hive(new[i - m])
      BY <1>7, <3>4, <3>6
    <3>9. \A i \in 1 .. m : wire'[i] = wire[i]
      BY <1>7, <3>4, <3>6
    <3> QED
      BY <2>3, <3>7, <3>8, <3>9
  <2> QED
    BY <1>8, <2>1, <2>2, <2>3
<1> HIDE DEF k, m
<1>10. m \in Nat /\ n \in Nat
  BY <1>3, <1>6
<1>11. \A i \in m + 1 .. k : i \in Nat /\ i - m \in 1 .. n
  BY <1>9, <1>10
<1>12. ASSUME NEW i \in m + 1 .. k
       PROVE  /\ wire'[i].type = "hive" /\ wire'[i].row \in R /\ wire'[i].row = new[i - m]
  <2>1. wire'[i] = Hive(new[i - m]) /\ new[i - m] \in R
    BY <1>4, <1>9, <1>11
  <2> QED
    BY <2>1 DEF Hive
<1>13. ASSUME NEW i \in m + 1 .. k, NEW r \in R, r.id < wire'[i].row.id
       PROVE  \E j \in m + 1 .. i - 1 : wire'[j].type = "hive" /\ wire'[j].row = r
  <2>1. r.id < new[i - m].id /\ i - m \in 1 .. n /\ i \in Nat
    BY <1>11, <1>12, <1>13
  <2>2. PICK j \in 1 .. (i - m) - 1 : new[j] = r
    BY <1>3, <2>1
  <2>3. m + j \in m + 1 .. i - 1 /\ m + j \in m + 1 .. k /\ (m + j) - m = j
    BY <1>9, <1>10, <2>1
  <2>4. wire'[m + j].type = "hive" /\ wire'[m + j].row = r
    BY <1>12, <2>2, <2>3
  <2> QED
    BY <2>3, <2>4
<1>14. ASSUME conn' = "open", NEW r \in R
       PROVE  \E j \in m + 1 .. k : wire'[j].type = "hive" /\ wire'[j].row = r
  <2>1. PICK j \in 1 .. n : new[j] = r
    BY <1>3
  <2>2. m + j \in m + 1 .. k /\ (m + j) - m = j
    BY <1>9, <1>10, <1>14
  <2>3. wire'[m + j].type = "hive" /\ wire'[m + j].row = r
    BY <1>12, <2>1, <2>2
  <2> QED
    BY <2>2, <2>3
<1> QED
  BY <1>9, <1>10, <1>12, <1>13, <1>14 DEF R, m, k

\* A read, with what it broadcasts.
LEMMA RowsFeed ==
  ASSUME Ledger, Ledger', PageShape, FeedShape, RowsGrow, BroadcastRows, UNCHANGED page,
         NEW f \in Nat, NEW b \in Nat, Feeds(f, b)
  PROVE  FeedShape' /\ Feeds(f, b)'
<1> DEFINE m == Len(wire)
           k == Len(wire')
<1>0. UNCHANGED <<boot, recent, hello, waiting, gen, status, ring, last, resync, catchup>>
  BY DEF page
<1>1. /\ ring' \subseteq rows' /\ last' <= Top' /\ OneDrain' /\ LoadFits'
      /\ (\A d \in Drains : DrainFits(d))'
      /\ b <= Top' /\ (\A d \in Drains : b <= Bound(d))'
      /\ Behind(f, b)'
      /\ \A r : Held(r)' <=> Held(r)
      /\ \A r \in rows' : r \in rows \/ (Top < r.id /\ last < r.id /\ r.id \in Nat)
  BY <1>0, PageStays
<1>2. /\ m \in Nat /\ k \in Nat /\ m <= k
      /\ \A i \in 1 .. m : wire'[i] = wire[i]
      /\ \A i \in m + 1 .. k :
           /\ wire'[i].type = "hive" /\ wire'[i].row \in rows' \ rows
           /\ \A r \in rows' \ rows : r.id < wire'[i].row.id =>
                \E j \in m + 1 .. i - 1 : wire'[j].type = "hive" /\ wire'[j].row = r
      /\ conn' = "closed" <=> conn = "closed"
      /\ conn = "closed" => wire' = wire
      /\ conn' = "open" => /\ conn = "open"
                           /\ \A r \in rows' \ rows : \E j \in m + 1 .. k :
                                wire'[j].type = "hive" /\ wire'[j].row = r
      /\ k > m => conn = "open"
  BY RowsArrive
<1>3. /\ Top \in Nat /\ last \in Nat /\ last <= Top
      /\ (\A r \in rows : r.id \in Nat /\ r.id <= Top) /\ \A r \in rows' : r.id \in Nat
  <2>1. \A r \in rows' : r.id \in Nat
    BY NextTableFacts
  <2> QED
    BY <2>1, TableFacts DEF FeedShape, PageShape
<1>4. \A n : IsCursor(n) => IsCursor(n)'
  BY CursorsStay
<1> HIDE DEF m, k
<1>5. \A i \in 1 .. k : i \in 1 .. m \/ (i \in m + 1 .. k /\ k > m)
  BY <1>2
<1>6. FramesKnown'
  <2> SUFFICES ASSUME NEW i \in 1 .. k
               PROVE  /\ wire'[i].type # "delete"
                      /\ wire'[i].type = "hive" => wire'[i].row \in rows'
                      /\ wire'[i].type = "hello" =>
                           wire'[i].cursor = 0 \/ \E r \in rows' : r.id = wire'[i].cursor
    BY DEF FramesKnown, IsCursor, k
  <2>1. CASE i \in 1 .. m
    <3>1. /\ wire[i].type # "delete"
          /\ wire[i].type = "hive" => wire[i].row \in rows
          /\ wire[i].type = "hello" => IsCursor(wire[i].cursor)
      BY <2>1 DEF FeedShape, FramesKnown, m
    <3>2. wire'[i] = wire[i]
      BY <1>2, <2>1
    <3> QED
      BY <3>1, <3>2 DEF IsCursor, RowsGrow
  <2>2. CASE i \in m + 1 .. k
    BY <1>2, <2>2
  <2> QED
    BY <1>5, <2>1, <2>2
<1>7. HelloFirst'
  <2>1. HelloFirst
    BY DEF FeedShape
  <2>2. hello' = "waiting" => boot' # "done" /\ IsCursor(waiting.cursor)'
    BY <1>0, <1>4, <2>1 DEF HelloFirst, IsCursor
  <2>3. hello' = "pending" /\ conn' # "closed" => Len(wire') > 0 /\ wire'[1].type = "hello"
    <3> HAVE hello' = "pending" /\ conn' # "closed"
    <3>1. m > 0 /\ wire[1].type = "hello"
      BY <1>0, <1>2, <2>1 DEF HelloFirst, m
    <3>2. wire'[1] = wire[1] /\ k > 0
      BY <1>2, <3>1
    <3> QED
      BY <3>1, <3>2 DEF k
  <2> QED
    BY <1>0, <1>2, <2>1, <2>2, <2>3 DEF HelloFirst
<1>8. Over(f)'
  <2>1. Over(f)
    BY DEF Feeds
  <2>2. \A i \in 1 .. k : wire'[i].type = "hive" => f < wire'[i].row.id
    <3> TAKE i \in 1 .. k
    <3>1. CASE i \in 1 .. m
      BY <1>2, <2>1, <3>1 DEF Over, m
    <3>2. CASE i \in m + 1 .. k
      <4>1. wire'[i].row \in rows' /\ last < wire'[i].row.id /\ wire'[i].row.id \in Nat
        BY <1>1, <1>2, <3>2
      <4> QED
        BY <1>3, <2>1, <4>1 DEF Over
    <3> QED
      BY <1>5, <3>1, <3>2
  <2>3. Drains' = Drains
    BY <1>0 DEF Drains
  <2> QED
    BY <1>0, <2>1, <2>2, <2>3 DEF Over, k
<1>9. Within(b)'
  <2>1. hello' = "pending" /\ conn' # "closed" => b <= wire'[1].cursor
    <3> HAVE hello' = "pending" /\ conn' # "closed"
    <3>1. m > 0 /\ b <= wire[1].cursor
      BY <1>0, <1>2 DEF HelloFirst, FeedShape, Feeds, Within, m
    <3>2. wire'[1] = wire[1]
      BY <1>2, <3>1
    <3> QED
      BY <3>1, <3>2
  <2> QED
    BY <1>0, <1>1, <2>1 DEF Feeds, Within
<1>10. ASSUME NEW r \in rows', f < r.id, b < r.id
       PROVE  /\ Held(r) \/ last < r.id
              /\ \A i \in 1 .. k : wire'[i].type = "hive" /\ r.id < wire'[i].row.id =>
                   Held(r) \/ \E j \in 1 .. i - 1 : wire'[j].type = "hive" /\ wire'[j].row = r
              /\ conn' = "open" =>
                   Held(r) \/ \E j \in 1 .. k : wire'[j].type = "hive" /\ wire'[j].row = r
  <2>1. CASE r \in rows
    <3>1. /\ Held(r) \/ last < r.id
          /\ \A i \in 1 .. m : wire[i].type = "hive" /\ r.id < wire[i].row.id =>
               Held(r) \/ \E j \in 1 .. i - 1 : wire[j].type = "hive" /\ wire[j].row = r
          /\ conn = "open" =>
               Held(r) \/ \E j \in 1 .. m : wire[j].type = "hive" /\ wire[j].row = r
      BY <1>10, <2>1 DEF Feeds, Ahead, OnWire, m
    <3>2. ASSUME NEW i \in 1 .. m, wire'[i].type = "hive", r.id < wire'[i].row.id, ~Held(r)
          PROVE  \E j \in 1 .. i - 1 : wire'[j].type = "hive" /\ wire'[j].row = r
      <4>1. PICK j \in 1 .. i - 1 : wire[j].type = "hive" /\ wire[j].row = r
        BY <1>2, <3>1, <3>2
      <4>2. wire'[j] = wire[j]
        BY <1>2
      <4> QED
        BY <4>1, <4>2
    <3>3. ASSUME NEW i \in m + 1 .. k + 1, conn = "open", ~Held(r)
          PROVE  \E j \in 1 .. i - 1 : wire'[j].type = "hive" /\ wire'[j].row = r
      <4>1. PICK j \in 1 .. m : wire[j].type = "hive" /\ wire[j].row = r
        BY <3>1, <3>3
      <4>2. wire'[j] = wire[j] /\ j \in 1 .. i - 1
        BY <1>2
      <4> QED
        BY <4>1, <4>2
    <3>4. k + 1 \in m + 1 .. k + 1 /\ (k + 1) - 1 = k /\ \A i \in m + 1 .. k : i \in m + 1 .. k + 1
      BY <1>2
    <3>5. conn' = "open" => Held(r) \/ \E j \in 1 .. (k + 1) - 1 : wire'[j].type = "hive" /\ wire'[j].row = r
      BY <1>2, <3>3, <3>4
    <3>6. \A i \in m + 1 .. k : Held(r) \/ \E j \in 1 .. i - 1 : wire'[j].type = "hive" /\ wire'[j].row = r
      BY <1>2, <1>5, <3>3, <3>4
    <3> QED
      BY <1>5, <3>1, <3>2, <3>4, <3>5, <3>6
  <2>2. CASE r \notin rows
    <3>1. last < r.id /\ Top < r.id
      BY <1>1, <2>2
    <3>2. ASSUME NEW i \in 1 .. k, wire'[i].type = "hive", r.id < wire'[i].row.id
          PROVE  \E j \in 1 .. i - 1 : wire'[j].type = "hive" /\ wire'[j].row = r
      <4>1. CASE i \in 1 .. m
        <5>1. wire[i].row \in rows /\ wire'[i] = wire[i]
          BY <1>2, <3>2, <4>1 DEF FeedShape, FramesKnown, m
        <5> QED
          BY <1>3, <3>1, <3>2, <5>1
      <4>2. CASE i \in m + 1 .. k
        <5>1. PICK j \in m + 1 .. i - 1 : wire'[j].type = "hive" /\ wire'[j].row = r
          BY <1>2, <2>2, <3>2, <4>2
        <5>2. j \in 1 .. i - 1
          BY <1>2
        <5> QED
          BY <5>1, <5>2
      <4> QED
        BY <1>5, <4>1, <4>2
    <3>3. ASSUME conn' = "open" PROVE \E j \in 1 .. k : wire'[j].type = "hive" /\ wire'[j].row = r
      <4>1. PICK j \in m + 1 .. k : wire'[j].type = "hive" /\ wire'[j].row = r
        BY <1>2, <2>2, <3>3
      <4>2. j \in 1 .. k
        BY <1>2
      <4> QED
        BY <4>1, <4>2
    <3> QED
      BY <3>1, <3>2, <3>3
  <2> QED
    BY <2>1, <2>2
<1>11. Ahead(f, b)'
  <2> SUFFICES ASSUME NEW r \in rows', f < r.id, b < r.id
               PROVE  /\ Held(r)' \/ last' < r.id
                      /\ \A i \in 1 .. Len(wire') :
                           wire'[i].type = "hive" /\ r.id < wire'[i].row.id => Held(r)' \/ OnWire(r, i - 1)'
                      /\ conn' = "open" => Held(r)' \/ OnWire(r, Len(wire))'
    BY DEF Ahead, OnWire
  <2> QED
    BY <1>0, <1>1, <1>10 DEF OnWire, k
<1> QED
  BY <1>0, <1>1, <1>6, <1>7, <1>8, <1>9, <1>11 DEF FeedShape, Feeds

\* A drain is not the absence of one.
LEMMA DrainIsSome ==
  ASSUME NEW a \in Nat, NEW h \in Nat \cup {None}, NEW G \in SUBSET Nat
  PROVE  /\ Drain(a, h, G) # None /\ Drain(a, h, G) \in DrainOf
         /\ Drain(a, h, G).after = a /\ Drain(a, h, G).hw = h /\ Drain(a, h, G).page = None
<1>1. Drain(a, h, G) \in DrainType
  BY DEF Drain, DrainType, NoPage
<1>2. Drain(a, h, G) # None
  BY <1>1, DashboardAssumption
<1> QED
  BY <1>2 DEF Drain, DrainOf, NoPage

\* The answer to the first load.
LEMMA BootAnswered ==
  ASSUME Ledger, Ledger', PageShape, FeedShape, AnswerBoot,
         NEW f \in Nat, NEW b \in Nat, Feeds(f, b)
  PROVE  FeedShape' /\ Feeds(f, b)'
<1>1. /\ boot = "asked" /\ boot' = "answered"
      /\ UNCHANGED <<rows, conn, wire, hello, waiting, gen, status, ring, last, resync, catchup>>
      /\ recent' = IF up THEN Newest(BootSize, rows) ELSE {}
  BY DEF AnswerBoot, vars, db
<1>2. Top' = Top /\ Drains' = Drains
  BY <1>1 DEF Top, Drains
<1>3. LoadFits'
  <2>1. recent' \subseteq rows'
    BY <1>1 DEF Newest
  <2>2. ASSUME NEW r \in rows \ recent'
        PROVE  \/ \A q \in recent' : q.id < r.id
               \/ Cardinality(recent') >= BootSize /\ \A q \in recent' : r.id < q.id
    <3>1. CASE up
      <4>1. rows \in FiniteRows /\ BootSize \in Nat /\ r \notin Newest(BootSize, rows)
        BY <1>1, <2>2, <3>1, TablesAnswer, DashboardAssumption
      <4>2. /\ Cardinality(Newest(BootSize, rows)) >= BootSize
            /\ \A q \in Newest(BootSize, rows) : r.id < q.id
        BY <4>1, NewestFill
      <4> QED
        BY <1>1, <3>1, <4>2
    <3>2. CASE ~up
      BY <1>1, <3>2
    <3> QED
      BY <3>1, <3>2
  <2> QED
    BY <1>1, <2>1, <2>2 DEF LoadFits
<1>4. FramesKnown' /\ HelloFirst' /\ OneDrain'
  BY <1>1, <1>2 DEF FeedShape, FramesKnown, HelloFirst, OneDrain, IsCursor, Drains
<1>5. (\A d \in Drains : DrainFits(d))'
  BY <1>1, <1>2 DEF FeedShape, DrainFits, AnswerFits, IsCursor
<1>6. FeedShape'
  BY <1>1, <1>2, <1>3, <1>4, <1>5 DEF FeedShape
<1>7. Over(f)' /\ Within(b)'
  BY <1>1, <1>2 DEF Feeds, Over, Within, Bound, Drains
<1>8. Behind(f, b)' /\ Ahead(f, b)'
  BY <1>1 DEF Feeds, Behind, Ahead, Held, OnWire, Reached
<1> QED
  BY <1>6, <1>7, <1>8 DEF Feeds

\* The first load is in the page.  What it left out, if the ring could hold more, is under
\* the floor from now on.
LEMMA BootFinished ==
  ASSUME Ledger, Ledger', PageShape, FeedShape, FirstLoadReaches, FinishBoot,
         NEW f \in Nat, NEW b \in Nat, Feeds(f, b)
  PROVE  FeedShape' /\ \E g \in Nat : Feeds(g, b)'
<1>1. /\ boot = "answered" /\ boot' = "done" /\ recent' = {} /\ IngestEvents(recent)
      /\ UNCHANGED <<rows, conn, wire, gen, resync>>
  BY DEF FinishBoot, vars, db
<1>2. /\ Top \in Nat /\ Top' = Top /\ last \in Nat /\ last <= Top
      /\ \A r \in rows : r.id \in Nat \ {0} /\ r.id <= Top
      /\ recent \subseteq rows /\ ring \subseteq rows /\ recent \in FiniteRows
      /\ BootSize \in Nat /\ RingSize \in Nat
  BY <1>1, TableFacts, DashboardAssumption DEF FeedShape, LoadFits, PageShape, Top
<1>3. /\ ring' \subseteq ring \cup recent
      /\ ring \cup recent # {} => ring' # {}
      /\ \A x \in rows : x \in recent \/ Held(x) => Held(x)'
      /\ \A x \in rows : \A T \in SUBSET (ring \cup recent) :
           Cardinality(T) >= RingSize /\ (\A q \in T : x.id < q.id) => Held(x)'
      /\ last' >= last /\ (\A r \in recent : last' >= r.id)
      /\ last' = last \/ \E r \in recent : last' = r.id
  BY <1>1, <1>2, IngestHolds
<1>4. last' \in Nat /\ last' <= Top
  BY <1>2, <1>3
<1>5. f = 0 /\ catchup = None /\ (hello # "done" => resync = None)
  BY <1>1 DEF Feeds, Over, FeedShape, OneDrain, Drains
<1>6. PICK g \in Nat :
        /\ g = 0 \/ (BootSize < RingSize /\ \E r \in LeftOut : r.id = g)
        /\ BootSize < RingSize => \A r \in LeftOut : r.id <= g
  <2>1. CASE BootSize < RingSize
    <3>1. LeftOut \in FiniteRows
      <4>1. LeftOut \in SUBSET rows
        BY DEF LeftOut
      <4> QED
        BY <4>1, TablesAnswer
    <3> DEFINE m == Max({0} \cup {r.id : r \in LeftOut})
    <3>2. m >= 0 /\ (\A r \in LeftOut : m >= r.id) /\ (m = 0 \/ \E r \in LeftOut : m = r.id)
      BY <3>1, LargestIsRowid
    <3> HIDE DEF m
    <3>3. \A r \in LeftOut : r.id \in Nat
      BY <1>2 DEF LeftOut
    <3>4. m \in Nat
      BY <3>2, <3>3
    <3>5. \A r \in LeftOut : r.id <= m
      BY <3>2, <3>3, <3>4
    <3> QED
      BY <2>1, <3>2, <3>4, <3>5
  <2>2. CASE ~(BootSize < RingSize)
    BY <2>2
  <2> QED
    BY <2>1, <2>2
<1>7. \A r \in LeftOut : recent # {} /\ \A q \in recent : r.id < q.id
  <2> TAKE r \in LeftOut
  <2>1. r \in rows \ recent /\ \E q \in recent : r.id < q.id
    BY DEF LeftOut
  <2>2. \A q \in recent : q.id \in Nat /\ r.id \in Nat
    BY <1>2, <2>1
  <2> QED
    BY <2>1, <2>2 DEF FeedShape, LoadFits
<1>8. ASSUME NEW r \in rows, g < r.id
      PROVE  Held(r)' \/ \A q \in recent : q.id < r.id
  <2> SUFFICES ASSUME r \notin recent, NEW q \in recent, ~(q.id < r.id) PROVE Held(r)'
    BY <1>3
  <2>1. Cardinality(recent) >= BootSize /\ \A p \in recent : r.id < p.id
    BY DEF FeedShape, LoadFits
  <2>2. CASE BootSize < RingSize
    <3>1. r \in LeftOut
      BY <2>1 DEF LeftOut
    <3>2. r.id <= g /\ r.id \in Nat
      BY <1>2, <1>6, <2>2, <3>1
    <3> QED
      BY <1>8, <3>2
  <2>3. CASE ~(BootSize < RingSize)
    <3>1. Cardinality(recent) \in Nat
      BY <1>2, FS_CardinalityType DEF FiniteRows
    <3>2. Cardinality(recent) >= RingSize
      BY <1>2, <2>1, <2>3, <3>1
    <3> QED
      BY <1>3, <2>1, <3>2
  <2> QED
    BY <2>2, <2>3
<1>9. ASSUME NEW r \in rows, g < r.id, r.id <= last'
      PROVE  Held(r)' \/ r.id <= last
  <2>1. Held(r)' \/ \A q \in recent : q.id < r.id
    BY <1>8, <1>9
  <2>2. r.id \in Nat /\ \A q \in recent : q.id \in Nat
    BY <1>2
  <2> QED
    BY <1>2, <1>3, <1>9, <2>1, <2>2
<1>10. /\ g <= last' /\ (g # 0 => ring' # {})
       /\ \A q \in ring' : g < q.id
       /\ \A i \in 1 .. Len(wire) : wire[i].type = "hive" => g < wire[i].row.id
       /\ resync # None => g <= resync.after
  <2>1. CASE g = 0
    <3>1. \A q \in ring' : g < q.id
      BY <1>2, <1>3, <2>1
    <3>2. \A i \in 1 .. Len(wire) : wire[i].type = "hive" => g < wire[i].row.id
      BY <1>2, <2>1 DEF FeedShape, FramesKnown
    <3>3. resync # None => g <= resync.after
      BY <2>1 DEF PageShape, DrainOf
    <3> QED
      BY <1>4, <2>1, <3>1, <3>2, <3>3
  <2>2. CASE g # 0
    <3>1. PICK r \in LeftOut : BootSize < RingSize /\ r.id = g
      BY <1>6, <2>2
    <3>2. /\ \A q \in ring : r.id < q.id
          /\ \A i \in 1 .. Len(wire) : wire[i].type = "hive" => r.id < wire[i].row.id
          /\ resync # None => r.id <= resync.after
      BY <1>1, <3>1 DEF FirstLoadReaches
    <3>3. recent # {} /\ \A q \in recent : r.id < q.id
      BY <1>7
    <3>4. \A q \in ring' : g < q.id
      BY <1>3, <3>1, <3>2, <3>3
    <3>5. g <= last'
      <4>1. PICK q \in recent : g < q.id /\ last' >= q.id /\ q.id \in Nat
        BY <1>2, <1>3, <3>1, <3>3
      <4> QED
        BY <1>4, <4>1
    <3> QED
      BY <1>3, <3>1, <3>2, <3>3, <3>4, <3>5
  <2> QED
    BY <2>1, <2>2
<1>11. \/ /\ hello = "waiting" /\ hello' = "done" /\ waiting.cursor \in Nat
          /\ waiting.cursor > last' /\ status' = "syncing"
          /\ catchup' = Drain(last', waiting.cursor, {waiting.gen})
       \/ /\ hello = "waiting" /\ hello' = "done" /\ waiting.cursor \in Nat
          /\ waiting.cursor <= last' /\ UNCHANGED <<status, catchup>>
       \/ hello # "waiting" /\ UNCHANGED <<hello, waiting, status, catchup>>
  <2>1. hello = "waiting" => waiting.cursor \in Nat
    BY DEF PageShape, Greeting
  <2>2. \/ hello = "waiting" /\ hello' = "done" /\ FillGap(waiting, last')
        \/ hello # "waiting" /\ UNCHANGED <<hello, waiting, status, catchup>>
    BY DEF FinishBoot
  <2> QED
    BY <1>4, <2>1, <2>2 DEF FillGap
<1>12. /\ IsCursor(waiting.cursor) \/ hello # "waiting"
       /\ b <= Top /\ (hello = "waiting" => b <= waiting.cursor)
  BY DEF FeedShape, HelloFirst, Feeds, Within
<1>13. \A r : OnWire(r, Len(wire))' <=> OnWire(r, Len(wire))
  BY <1>1 DEF OnWire
<1>14. Ahead(g, b)'
  <2> SUFFICES ASSUME NEW r \in rows, g < r.id, b < r.id
               PROVE  /\ Held(r)' \/ last' < r.id
                      /\ \A i \in 1 .. Len(wire) :
                           wire[i].type = "hive" /\ r.id < wire[i].row.id => Held(r)' \/ OnWire(r, i - 1)
                      /\ conn = "open" => Held(r)' \/ OnWire(r, Len(wire))
    BY <1>1 DEF Ahead, OnWire
  <2>1. /\ Held(r) \/ last < r.id
        /\ \A i \in 1 .. Len(wire) :
             wire[i].type = "hive" /\ r.id < wire[i].row.id => Held(r) \/ OnWire(r, i - 1)
        /\ conn = "open" => Held(r) \/ OnWire(r, Len(wire))
    BY <1>2, <1>5 DEF Feeds, Ahead
  <2>2. Held(r) => Held(r)'
    BY <1>3
  <2>3. Held(r)' \/ last' < r.id
    BY <1>3, <1>8, <2>1, <2>2
  <2> QED
    BY <2>1, <2>2, <2>3
<1>15. Behind(g, b)' /\ FeedShape' /\ Over(g)' /\ Within(b)'
  <2>1. ASSUME NEW r \in rows, g < r.id, r.id <= Reached(b) PROVE Held(r)'
    BY <1>2, <1>3, <1>5, <2>1 DEF Feeds, Behind
  <2>2. /\ ring' \subseteq rows' /\ last' <= Top' /\ FramesKnown' /\ LoadFits'
    BY <1>1, <1>2, <1>3, <1>4 DEF FeedShape, FramesKnown, LoadFits, IsCursor
  <2>3. /\ gen = 0 => conn = "closed" /\ hello = "pending"
        /\ conn = "closed" => wire = <<>>
        /\ hello = "pending" /\ conn # "closed" => Len(wire) > 0 /\ wire[1].type = "hello"
        /\ hello \in {"pending", "waiting", "done"}
    BY DEF FeedShape, HelloFirst
  <2>4. CASE hello = "waiting" /\ catchup' = Drain(last', waiting.cursor, {waiting.gen})
             /\ hello' = "done" /\ waiting.cursor \in Nat
             /\ waiting.cursor > last' /\ status' = "syncing"
    <3>1. /\ catchup'.after = last' /\ catchup'.hw = waiting.cursor /\ catchup'.page = None
          /\ catchup'.hw # None /\ resync' = None
      BY <1>1, <1>5, <2>4, IngestionAssumption DEF Drain, NoPage
    <3>2. Drains' \subseteq {catchup'} /\ None \notin Drains'
      BY <3>1 DEF Drains
    <3>3. (\A d \in Drains : DrainFits(d))'
      <4>1. catchup'.after <= Top' /\ catchup'.after <= catchup'.hw
        BY <1>2, <1>4, <2>4, <3>1
      <4>2. catchup'.hw = 0 \/ \E r \in rows' : r.id = catchup'.hw
        BY <1>1, <1>12, <2>4, <3>1 DEF IsCursor
      <4> QED
        BY <3>1, <3>2, <4>1, <4>2 DEF DrainFits, IsCursor
    <3>4. OneDrain' /\ HelloFirst'
      BY <1>1, <2>3, <2>4, <3>1, <3>2 DEF OneDrain, HelloFirst
    <3>5. Within(b)'
      BY <1>2, <1>12, <2>4, <3>1, <3>2 DEF Within, Bound
    <3>6. Over(g)'
      BY <1>1, <1>10, <3>1, <3>2 DEF Over
    <3>7. Behind(g, b)'
      <4> SUFFICES ASSUME NEW r \in rows, g < r.id, r.id <= last' PROVE Held(r)'
        <5>1. catchup' # None
          <6>1. waiting.gen \in Nat
            BY <2>4 DEF PageShape, Greeting
          <6> QED
            BY <1>4, <2>4, <6>1, DrainIsSome
        <5> QED
          BY <1>1, <3>1, <5>1 DEF Behind, Reached
      <4>1. Reached(b) = last
        BY <1>5, <2>4 DEF Reached
      <4> QED
        BY <1>9, <2>1, <4>1
    <3> QED
      BY <2>2, <3>3, <3>4, <3>5, <3>6, <3>7 DEF FeedShape
  <2>5. CASE /\ catchup' = catchup /\ status' = status
             /\ \/ hello = "waiting" /\ hello' = "done" /\ waiting.cursor <= last' /\ waiting.cursor \in Nat
                \/ hello # "waiting" /\ UNCHANGED <<hello, waiting>>
    <3>1. Drains' = Drains
      BY <1>1, <2>5 DEF Drains
    <3>2. (\A d \in Drains : DrainFits(d))'
      BY <1>1, <1>2, <3>1 DEF FeedShape, DrainFits, AnswerFits, IsCursor
    <3>3. OneDrain' /\ HelloFirst'
      BY <1>1, <1>5, <2>3, <2>5, <3>1 DEF OneDrain, FeedShape, HelloFirst, Drains
    <3>4. Within(b)'
      BY <1>1, <1>2, <2>5, <3>1 DEF Feeds, Within, Bound
    <3>5. Over(g)'
      BY <1>1, <1>5, <1>10, <3>1 DEF Over, Drains
    <3>6. Behind(g, b)'
      <4> SUFFICES ASSUME NEW r \in rows, g < r.id, r.id <= Reached(b)' PROVE Held(r)'
        BY <1>1 DEF Behind, Reached
      <4>1. CASE hello = "waiting"
        <5>1. Reached(b)' = b /\ Reached(b) = last
          BY <1>1, <1>5, <2>5, <4>1 DEF Reached
        <5>2. r.id <= last'
          BY <1>2, <1>4, <1>12, <2>5, <4>1, <5>1
        <5> QED
          BY <1>9, <2>1, <5>1, <5>2
      <4>2. CASE hello = "pending"
        <5>1. Reached(b)' = last' /\ Reached(b) = last
          BY <1>1, <1>5, <2>5, <4>2 DEF Reached
        <5> QED
          BY <1>9, <2>1, <5>1
      <4>3. CASE hello = "done"
        <5>1. Reached(b)' = Reached(b)
          BY <1>1, <1>5, <2>5, <4>3 DEF Reached
        <5> QED
          BY <2>1, <5>1
      <4> QED
        BY <2>3, <4>1, <4>2, <4>3
    <3> QED
      BY <2>2, <3>2, <3>3, <3>4, <3>5, <3>6 DEF FeedShape
  <2> QED
    BY <1>11, <2>4, <2>5
<1> QED
  BY <1>14, <1>15 DEF Feeds

\* A stream opens: what it does not bring is up to the drain it starts, or to the first load.
LEMMA ConnectFeeds ==
  ASSUME Ledger, Ledger', PageShape, FeedShape, ~Racing, Connect,
         NEW f \in Nat, NEW b \in Nat, Feeds(f, b)
  PROVE  FeedShape' /\ Feeds(f, Top)'
<1>1. /\ conn = "closed" /\ conn' = "open" /\ wire' = <<Hello(Top)>> /\ gen' = gen + 1
      /\ resync = None /\ catchup = None
      /\ UNCHANGED <<rows, boot, recent, ring, last, catchup>>
  BY DEF Connect, vars, db, NoDrain
<1>2. /\ Top \in Nat /\ IsCursor(Top) /\ Top' = Top /\ last \in Nat /\ last <= Top /\ gen \in Nat
      /\ gen' \in Nat \ {0} /\ \A r \in rows : r.id \in Nat /\ r.id <= Top
  BY <1>1, TableFacts DEF FeedShape, PageShape, Top
<1>3. /\ Len(wire') = 1 /\ wire'[1].type = "hello" /\ wire'[1].cursor = Top
      /\ \A i \in 1 .. Len(wire') : i = 1
  BY <1>1 DEF Hello
<1>4. ring' \subseteq rows' /\ last' <= Top' /\ LoadFits' /\ FramesKnown'
  BY <1>1, <1>2, <1>3 DEF FeedShape, FramesKnown, LoadFits, IsCursor
<1>5. f <= last /\ (boot # "done" => f = 0) /\ (f # 0 => ring # {}) /\ \A q \in ring : f < q.id
  BY DEF Feeds, Over
<1>6. Ahead(f, Top)'
  BY <1>1, <1>2 DEF Ahead
<1>7. ASSUME NEW r \in rows, f < r.id, r.id <= last PROVE Held(r)
  <2>1. Reached(b) = IF hello = "done" THEN b ELSE last
    BY <1>1 DEF Reached
  <2>2. CASE r.id <= Reached(b)
    BY <1>7, <2>2 DEF Feeds, Behind
  <2>3. CASE ~(r.id <= Reached(b))
    <3>1. b < r.id
      BY <1>2, <1>7, <2>1, <2>3
    <3>2. Held(r) \/ last < r.id
      BY <1>7, <3>1 DEF Feeds, Ahead
    <3> QED
      BY <1>2, <1>7, <3>2
  <2> QED
    BY <2>2, <2>3
<1>8. CASE gen = 0
  <2>1. hello = "pending" /\ UNCHANGED <<hello, waiting, resync>>
    BY <1>8 DEF Connect, FeedShape, HelloFirst
  <2>2. Drains' = {}
    BY <1>1, <2>1 DEF Drains
  <2>3. HelloFirst' /\ OneDrain' /\ (\A d \in Drains : DrainFits(d))'
    BY <1>1, <1>2, <1>3, <2>1, <2>2 DEF HelloFirst, OneDrain
  <2>4. Over(f)' /\ Within(Top)'
    BY <1>1, <1>2, <1>3, <1>5, <2>1, <2>2 DEF Over, Within
  <2>5. Behind(f, Top)'
    BY <1>1, <1>7, <2>1 DEF Behind, Reached, Held
  <2> QED
    BY <1>4, <1>6, <2>3, <2>4, <2>5 DEF FeedShape, Feeds
<1>9. CASE gen # 0
  <2>1. /\ status' = "syncing" /\ hello' = "done" /\ resync' = Drain(last, None, {gen'})
    BY <1>1, <1>9 DEF Connect, NoDrain
  <2>2. /\ resync' # None /\ resync'.after = last /\ resync'.hw = None /\ resync'.page = None
    <3>1. {gen'} \in SUBSET Nat
      BY <1>2
    <3>2. Drain(last, None, {gen'}) \in DrainType
      BY <1>2, <3>1 DEF Drain, DrainType, NoPage
    <3>3. Drain(last, None, {gen'}) # None
      BY <3>2, DashboardAssumption
    <3> QED
      BY <2>1, <3>3 DEF Drain, NoPage
  <2>3. Drains' = {resync'}
    BY <1>1, <2>2 DEF Drains
  <2>4. (\A d \in Drains : DrainFits(d))'
    BY <1>1, <1>2, <2>2, <2>3 DEF DrainFits
  <2>5. HelloFirst' /\ OneDrain'
    BY <1>1, <1>2, <1>3, <2>1, <2>3 DEF HelloFirst, OneDrain
  <2>6. Over(f)' /\ Within(Top)'
    BY <1>1, <1>2, <1>3, <1>5, <2>1, <2>2, <2>3 DEF Over, Within, Bound
  <2>7. Behind(f, Top)'
    BY <1>1, <1>7, <2>2 DEF Behind, Reached, Held
  <2> QED
    BY <1>4, <1>6, <2>4, <2>5, <2>6, <2>7 DEF FeedShape, Feeds
<1> QED
  BY <1>8, <1>9

\* The page takes a frame.
LEMMA ReceiveFeeds ==
  ASSUME Ledger, Ledger', PageShape, FeedShape, ~Racing, Receive,
         NEW f \in Nat, NEW b \in Nat, Feeds(f, b)
  PROVE  FeedShape' /\ Feeds(f, b)'
<1> DEFINE m == Len(wire)
           k == Len(wire')
           x == Head(wire)
           There(r, n) == \E j \in 1 .. n : wire'[j].type = "hive" /\ wire'[j].row = r
<1>1. /\ UNCHANGED <<rows, conn, boot, recent, gen, resync>>
      /\ wire # <<>> /\ wire' = Tail(wire)
      /\ ReceiveHello(x) \/ ReceiveHive(x) \/ ReceiveDelete(x)
  BY DEF Receive, vars, db
<1>2. /\ m \in Nat \ {0} /\ k = m - 1 /\ x = wire[1]
      /\ \A i \in 1 .. k : wire'[i] = wire[i + 1]
  <2>1. wire \in Seq(Frame)
    BY DEF PageShape
  <2> QED
    BY <1>1, <2>1
<1> HIDE DEF k, x
<1>3. /\ Top \in Nat /\ Top' = Top /\ last \in Nat /\ last <= Top /\ gen \in Nat /\ ring \subseteq rows
      /\ \A r \in rows : r.id \in Nat \ {0} /\ r.id <= Top
      /\ b <= Top
  BY <1>1, TableFacts DEF FeedShape, PageShape, Top, Feeds, Within
<1>4. /\ x.type # "delete"
      /\ x.type = "hive" => x.row \in rows /\ f < x.row.id
      /\ x.type = "hello" => IsCursor(x.cursor)
  <2>1. 1 \in 1 .. m
    BY <1>2
  <2> QED
    BY <1>2, <2>1 DEF FeedShape, FramesKnown, Feeds, Over
<1>5. \A i \in 1 .. k : i + 1 \in 1 .. m /\ (i + 1) - 1 = i
  BY <1>2
<1>6. FramesKnown'
  BY <1>1, <1>2, <1>5 DEF FeedShape, FramesKnown, IsCursor, k
<1>7. /\ conn # "closed" /\ gen # 0
      /\ hello = "pending" => x.type = "hello" /\ b <= x.cursor
      /\ hello \in {"pending", "waiting", "done"} /\ (hello = "waiting" => boot # "done")
      /\ hello # "done" => Drains = {}
  BY <1>1, <1>2 DEF FeedShape, HelloFirst, OneDrain, Feeds, Within
<1>8. ASSUME NEW r \in rows, NEW i \in 1 .. m, OnWire(r, i)
      PROVE  (x.type = "hive" /\ x.row = r) \/ There(r, i - 1)
  <2>1. PICK j \in 1 .. i : wire[j].type = "hive" /\ wire[j].row = r
    BY <1>8 DEF OnWire
  <2>2. CASE j = 1
    BY <1>2, <2>1, <2>2
  <2>3. CASE j # 1
    <3>1. j - 1 \in 1 .. i - 1 /\ j - 1 \in 1 .. k /\ (j - 1) + 1 = j
      BY <1>2, <2>3
    <3>2. wire'[j - 1] = wire[j]
      BY <1>2, <3>1
    <3> QED
      BY <2>1, <3>1, <3>2 DEF OnWire
  <2> QED
    BY <2>2, <2>3
<1>9. ASSUME NEW r \in rows, f < r.id, b < r.id
      PROVE  /\ Held(r) \/ last < r.id
             /\ x.type = "hive" /\ r.id < x.row.id => Held(r)
             /\ \A i \in 1 .. k : wire'[i].type = "hive" /\ r.id < wire'[i].row.id =>
                  Held(r) \/ (x.type = "hive" /\ x.row = r) \/ There(r, i - 1)
             /\ conn = "open" => Held(r) \/ (x.type = "hive" /\ x.row = r) \/ There(r, k)
  <2>1. /\ Held(r) \/ last < r.id
        /\ \A i \in 1 .. m :
             wire[i].type = "hive" /\ r.id < wire[i].row.id => Held(r) \/ OnWire(r, i - 1)
        /\ conn = "open" => Held(r) \/ OnWire(r, m)
    BY <1>9 DEF Feeds, Ahead
  <2>2. x.type = "hive" /\ r.id < x.row.id => Held(r)
    <3>1. ~OnWire(r, 1 - 1)
      BY DEF OnWire
    <3>2. 1 \in 1 .. m
      BY <1>2
    <3> QED
      BY <1>2, <2>1, <3>1, <3>2
  <2>3. ASSUME NEW i \in 1 .. k, wire'[i].type = "hive", r.id < wire'[i].row.id, ~Held(r)
        PROVE  (x.type = "hive" /\ x.row = r) \/ There(r, i - 1)
    <3>1. i + 1 \in 1 .. m /\ i \in 1 .. m /\ (i + 1) - 1 = i /\ wire'[i] = wire[i + 1]
      BY <1>2
    <3>2. OnWire(r, i)
      BY <2>1, <2>3, <3>1
    <3> QED
      BY <1>8, <3>1, <3>2
  <2>4. ASSUME conn = "open", ~Held(r)
        PROVE  (x.type = "hive" /\ x.row = r) \/ There(r, k)
    <3>1. m \in 1 .. m /\ m - 1 = k
      BY <1>2
    <3> QED
      BY <1>8, <2>1, <2>4, <3>1
  <2> QED
    BY <2>1, <2>2, <2>3, <2>4
<1> HIDE DEF m, There
<1>10. CASE ReceiveHello(x)
  <2>1. x.type = "hello" /\ UNCHANGED <<ring, last>> /\ IsCursor(x.cursor) /\ x.cursor \in Nat
    BY <1>4, <1>10, CursorsBelowTop DEF ReceiveHello
  <2>2. \A r : Held(r)' <=> Held(r)
    BY <2>1 DEF Held
  <2>3. ring' \subseteq rows' /\ last' <= Top' /\ LoadFits'
    BY <1>1, <1>3, <2>1 DEF FeedShape, LoadFits
  <2>4. Ahead(f, b)'
    <3> SUFFICES ASSUME NEW r \in rows, f < r.id, b < r.id
                 PROVE  /\ Held(r)' \/ last' < r.id
                        /\ \A i \in 1 .. k :
                             wire'[i].type = "hive" /\ r.id < wire'[i].row.id => Held(r)' \/ There(r, i - 1)
                        /\ conn' = "open" => Held(r)' \/ There(r, k)
      BY <1>1 DEF Ahead, OnWire, There, k
    <3> QED
      BY <1>1, <1>9, <2>1, <2>2
  <2>5. /\ f <= last /\ (boot # "done" => f = 0) /\ (f # 0 => ring # {}) /\ (\A q \in ring : f < q.id)
        /\ \A i \in 1 .. k : wire'[i].type = "hive" => f < wire'[i].row.id
        /\ \A d \in Drains : f <= d.after
    BY <1>2, <1>5 DEF Feeds, Over, m
  <2>6. \A r \in rows : f < r.id /\ r.id <= Reached(b) => Held(r)
    BY DEF Feeds, Behind
  <2>7. CASE hello # "pending" /\ UNCHANGED <<hello, waiting, status, catchup>>
    <3>1. Drains' = Drains
      BY <1>1, <2>7 DEF Drains
    <3>2. HelloFirst' /\ OneDrain' /\ (\A d \in Drains : DrainFits(d))'
      BY <1>1, <1>3, <1>7, <2>7, <3>1 DEF FeedShape, HelloFirst, OneDrain, Drains, DrainFits, AnswerFits, IsCursor
    <3>3. Over(f)' /\ Within(b)'
      BY <1>1, <1>3, <2>1, <2>5, <2>7, <3>1 DEF Over, Feeds, Within, Bound, k
    <3>4. Behind(f, b)'
      BY <1>1, <2>1, <2>2, <2>6, <2>7 DEF Behind, Reached
    <3> QED
      BY <1>6, <2>3, <2>4, <3>2, <3>3, <3>4 DEF FeedShape, Feeds
  <2>8. CASE /\ hello = "pending" /\ Loaded
             /\ hello' = "done" /\ FillGap([cursor |-> x.cursor, gen |-> gen], last)
             /\ UNCHANGED waiting
    <3>1. resync' = None /\ resync = None /\ catchup = None /\ Reached(b) = last /\ b <= x.cursor
      BY <1>1, <1>7, <2>8 DEF Drains, Reached
    <3>2. CASE x.cursor > last /\ status' = "syncing" /\ catchup' = Drain(last, x.cursor, {gen})
      <4>1. /\ catchup' # None /\ catchup'.after = last /\ catchup'.hw = x.cursor /\ catchup'.page = None
            /\ x.cursor # None
        <5>1. {gen} \in SUBSET Nat /\ x.cursor \in Nat \cup {None} /\ x.cursor # None
          BY <1>3, <2>1, IngestionAssumption
        <5> QED
          BY <1>3, <3>2, <5>1, DrainIsSome
      <4>2. Drains' = {catchup'}
        BY <3>1, <4>1 DEF Drains
      <4>3. (\A d \in Drains : DrainFits(d))'
        <5>1. catchup'.after <= Top' /\ catchup'.after <= catchup'.hw
          BY <1>3, <2>1, <3>2, <4>1
        <5>2. catchup'.hw = 0 \/ \E r \in rows' : r.id = catchup'.hw
          BY <1>1, <2>1, <4>1 DEF IsCursor
        <5> QED
          BY <4>1, <4>2, <5>1, <5>2 DEF DrainFits, IsCursor
      <4>4. HelloFirst' /\ OneDrain'
        BY <1>1, <1>7, <2>8, <3>1, <3>2, <4>2 DEF HelloFirst, OneDrain, Loaded
      <4>5. Over(f)' /\ Within(b)'
        BY <1>1, <1>3, <2>1, <2>5, <2>8, <3>1, <4>1, <4>2 DEF Over, Within, Bound, k
      <4>6. Behind(f, b)'
        BY <1>1, <2>2, <2>6, <3>1, <4>1 DEF Behind, Reached
      <4> QED
        BY <1>6, <2>3, <2>4, <4>3, <4>4, <4>5, <4>6 DEF FeedShape, Feeds
    <3>3. CASE x.cursor <= last /\ UNCHANGED <<status, catchup>>
      <4>1. Drains' = {} /\ catchup' = None
        BY <3>1, <3>3 DEF Drains
      <4>2. (\A d \in Drains : DrainFits(d))' /\ HelloFirst' /\ OneDrain'
        BY <1>1, <1>7, <2>8, <3>1, <4>1 DEF HelloFirst, OneDrain
      <4>3. Over(f)' /\ Within(b)'
        BY <1>1, <1>3, <2>1, <2>5, <2>8, <4>1 DEF Over, Within, k
      <4>4. Behind(f, b)'
        <5>1. b <= last
          BY <1>3, <2>1, <3>1, <3>3
        <5>2. Reached(b)' = b
          BY <2>8, <3>1, <4>1 DEF Reached
        <5>3. \A r \in rows : r.id <= b => r.id <= last
          BY <1>3, <5>1
        <5> QED
          BY <1>1, <2>2, <2>6, <3>1, <5>2, <5>3 DEF Behind
      <4> QED
        BY <1>6, <2>3, <2>4, <4>2, <4>3, <4>4 DEF FeedShape, Feeds
    <3>4. x.cursor > last \/ x.cursor <= last
      BY <1>3, <2>1
    <3> QED
      BY <1>3, <2>1, <2>8, <3>2, <3>3, <3>4 DEF FillGap
  <2>9. CASE /\ hello = "pending" /\ ~Loaded
             /\ hello' = "waiting" /\ waiting' = [cursor |-> x.cursor, gen |-> gen]
             /\ UNCHANGED <<status, catchup>>
    <3>1. /\ resync' = None /\ resync = None /\ catchup = None /\ catchup' = None
          /\ Reached(b) = last /\ Reached(b)' = last
      <4>1. resync' = None /\ resync = None /\ catchup = None /\ catchup' = None
        BY <1>1, <1>7, <2>9 DEF Drains
      <4>2. hello # "done" /\ hello' # "done" /\ last' = last
        BY <2>1, <2>9
      <4> QED
        BY <4>1, <4>2 DEF Reached
    <3>2. Drains' = {}
      BY <3>1 DEF Drains
    <3>3. (\A d \in Drains : DrainFits(d))' /\ HelloFirst' /\ OneDrain'
      BY <1>1, <1>7, <2>1, <2>9, <3>1, <3>2 DEF HelloFirst, OneDrain, Loaded, IsCursor
    <3>4. Over(f)' /\ Within(b)'
      BY <1>1, <1>3, <1>7, <2>1, <2>5, <2>9, <3>2 DEF Over, Within, k
    <3>5. Behind(f, b)'
      BY <1>1, <2>2, <2>6, <3>1 DEF Behind
    <3> QED
      BY <1>6, <2>3, <2>4, <3>3, <3>4, <3>5 DEF FeedShape, Feeds
  <2> QED
    BY <1>10, <2>7, <2>8, <2>9 DEF ReceiveHello
<1>11. CASE ReceiveHive(x)
  <2> DEFINE q == x.row
             R == {q}
  <2>1. /\ x.type = "hive" /\ boot = "done" /\ IngestEvents(R) /\ q \in rows /\ f < q.id
        /\ hello = "done" /\ UNCHANGED <<hello, waiting, status, catchup>>
    BY <1>4, <1>7, <1>11 DEF ReceiveHive, Loaded
  <2>2. /\ ring' \subseteq ring \cup R
        /\ ring \cup R # {} => ring' # {}
        /\ \A y \in rows : y \in R \/ Held(y) => Held(y)'
        /\ last' >= last /\ (\A r \in R : last' >= r.id)
        /\ last' = last \/ \E r \in R : last' = r.id
    <3>1. R \in SUBSET rows
      BY <2>1
    <3> HIDE DEF R
    <3> QED
      BY <1>3, <2>1, <3>1, IngestHolds
  <2>3. /\ ring' # {} /\ ring' \subseteq rows /\ last' \in Nat /\ last' <= Top /\ last' >= last
        /\ last' = last \/ last' = q.id
        /\ \A y \in rows : y = q \/ Held(y) => Held(y)'
        /\ \A y \in ring' : y \in ring \/ y = q
    BY <1>3, <2>1, <2>2
  <2> HIDE DEF q, R
  <2>4. Drains' = Drains
    BY <1>1, <2>1 DEF Drains
  <2>5. HelloFirst' /\ OneDrain' /\ LoadFits' /\ (\A d \in Drains : DrainFits(d))'
    BY <1>1, <1>3, <1>7, <2>1, <2>4 DEF FeedShape, HelloFirst, OneDrain, LoadFits, Drains, DrainFits, AnswerFits, IsCursor
  <2>6. Over(f)'
    <3>1. /\ f <= last /\ (\A y \in ring : f < y.id)
          /\ \A i \in 1 .. k : wire'[i].type = "hive" => f < wire'[i].row.id
          /\ \A d \in Drains : f <= d.after
      BY <1>2, <1>5 DEF Feeds, Over, m
    <3>2. f <= last'
      BY <1>3, <2>3, <3>1
    <3> QED
      BY <1>1, <2>1, <2>3, <2>4, <3>1, <3>2 DEF Over, k
  <2>7. Within(b)'
    BY <1>1, <1>3, <2>1, <2>4 DEF Feeds, Within, Bound
  <2>8. Behind(f, b)'
    <3>1. Reached(b)' = Reached(b)
      BY <1>1, <2>1 DEF Reached
    <3> QED
      BY <1>1, <2>3, <3>1 DEF Feeds, Behind
  <2>9. Ahead(f, b)'
    <3> SUFFICES ASSUME NEW r \in rows, f < r.id, b < r.id
                 PROVE  /\ Held(r)' \/ last' < r.id
                        /\ \A i \in 1 .. k :
                             wire'[i].type = "hive" /\ r.id < wire'[i].row.id => Held(r)' \/ There(r, i - 1)
                        /\ conn' = "open" => Held(r)' \/ There(r, k)
      BY <1>1 DEF Ahead, OnWire, There, k
    <3>1. /\ Held(r) \/ last < r.id
          /\ r.id < q.id => Held(r)
          /\ \A i \in 1 .. k : wire'[i].type = "hive" /\ r.id < wire'[i].row.id =>
               Held(r) \/ q = r \/ There(r, i - 1)
          /\ conn = "open" => Held(r) \/ q = r \/ There(r, k)
      BY <1>9, <2>1 DEF q
    <3>2. Held(r) \/ q = r => Held(r)'
      BY <2>3
    <3>3. Held(r)' \/ last' < r.id
      <4>1. r.id = q.id => r = q
        BY <2>1, TableFacts DEF q
      <4>2. q.id \in Nat /\ r.id \in Nat
        BY <1>3, <2>1 DEF q
      <4> QED
        BY <1>3, <2>3, <3>1, <3>2, <4>1, <4>2
    <3> QED
      BY <1>1, <3>1, <3>2, <3>3
  <2>10. ring' \subseteq rows' /\ last' <= Top'
    BY <1>1, <1>3, <2>3
  <2> QED
    BY <1>6, <2>5, <2>6, <2>7, <2>8, <2>9, <2>10 DEF FeedShape, Feeds
<1> QED
  BY <1>1, <1>4, <1>10, <1>11 DEF ReceiveDelete

\* A drain with its answer asks for the same rows.
LEMMA AnsweredDrain ==
  ASSUME Ledger, NEW d \in DrainOf, d.page = None, DrainFits(d),
         NEW e, e = [d EXCEPT !.page = AnswerTo(d)]
  PROVE  e # None /\ e.after = d.after /\ DrainFits(e) /\ Bound(e) = Bound(d)
<1> DEFINE a == AnswerTo(d)
<1>1. a \in Answer
  BY AnswerTyped
<1>2. DrainFits([d EXCEPT !.page = AnswerTo(d)]) /\ Bound([d EXCEPT !.page = AnswerTo(d)]) = Bound(d)
  BY AnswersFit
<1>3. e = [d EXCEPT !.page = a]
  OBVIOUS
<1> HIDE DEF a
<1>4. e.after = d.after /\ e \in DrainType
  <2>1. a \in AnswerType
    BY <1>1 DEF Answer, AnswerType, FiniteRows
  <2> QED
    BY <1>3, <2>1 DEF DrainOf, DrainType
<1> QED
  BY <1>2, <1>4, DashboardAssumption

\* The daemon answers a drain.
LEMMA DrainAnswered ==
  ASSUME Ledger, Ledger', PageShape, FeedShape, AnswerResync \/ AnswerCatchup,
         NEW f \in Nat, NEW b \in Nat, Feeds(f, b)
  PROVE  FeedShape' /\ Feeds(f, b)'
<1>1. UNCHANGED <<rows, conn, wire, boot, recent, hello, waiting, gen, status, ring, last>>
  BY DEF AnswerResync, AnswerCatchup, vars, db
<1>2. Top' = Top
  BY <1>1 DEF Top
<1>3. PICK d \in DrainOf, e \in {resync', catchup'} :
        /\ d # None /\ e # None /\ e.after = d.after /\ DrainFits(e) /\ Bound(e) = Bound(d)
        /\ Drains = {d} /\ Drains' = {e}
        /\ \/ resync = d /\ resync' = e /\ catchup = None /\ catchup' = None
           \/ catchup = d /\ catchup' = e /\ resync = None /\ resync' = None
  <2>1. CASE AnswerResync
    <3>1. /\ resync \in DrainOf /\ resync # None /\ resync.page = None
          /\ resync' = [resync EXCEPT !.page = AnswerTo(resync)]
          /\ catchup = None /\ catchup' = None
      BY <2>1 DEF AnswerResync, NoDrain, NoPage, PageShape, FeedShape, OneDrain
    <3>2. DrainFits(resync)
      BY <3>1 DEF FeedShape, Drains
    <3>3. resync' # None /\ resync'.after = resync.after /\ DrainFits(resync') /\ Bound(resync') = Bound(resync)
      BY <3>1, <3>2, AnsweredDrain
    <3> QED
      BY <3>1, <3>3 DEF Drains
  <2>2. CASE AnswerCatchup
    <3>1. /\ catchup \in DrainOf /\ catchup # None /\ catchup.page = None
          /\ catchup' = [catchup EXCEPT !.page = AnswerTo(catchup)]
          /\ resync = None /\ resync' = None
      BY <2>2 DEF AnswerCatchup, NoDrain, NoPage, PageShape, FeedShape, OneDrain
    <3>2. DrainFits(catchup)
      BY <3>1 DEF FeedShape, Drains
    <3>3. catchup' # None /\ catchup'.after = catchup.after /\ DrainFits(catchup') /\ Bound(catchup') = Bound(catchup)
      BY <3>1, <3>2, AnsweredDrain
    <3> QED
      BY <3>1, <3>3 DEF Drains
  <2> QED
    BY <2>1, <2>2
<1>4. FramesKnown' /\ HelloFirst' /\ LoadFits' /\ ring' \subseteq rows' /\ last' <= Top'
  BY <1>1, <1>2 DEF FeedShape, FramesKnown, HelloFirst, LoadFits, IsCursor
<1>5. OneDrain'
  BY <1>1, <1>3 DEF FeedShape, OneDrain
<1>6. (\A x \in Drains : DrainFits(x))'
  BY <1>1, <1>2, <1>3 DEF DrainFits, AnswerFits, IsCursor
<1>7. Over(f)'
  BY <1>1, <1>3 DEF Feeds, Over
<1>8. Within(b)'
  BY <1>1, <1>2, <1>3 DEF Feeds, Within, Bound
<1>9. Behind(f, b)'
  <2>1. Reached(b)' = Reached(b)
    BY <1>1, <1>3 DEF Reached
  <2> QED
    BY <1>1, <2>1 DEF Feeds, Behind, Held
<1>10. Ahead(f, b)'
  BY <1>1 DEF Feeds, Ahead, Held, OnWire
<1> QED
  BY <1>4, <1>5, <1>6, <1>7, <1>8, <1>9, <1>10 DEF FeedShape, Feeds

\* The page takes an answer.  Up to the bound of a drain that is over, the rows have come.
LEMMA DrainTaken ==
  ASSUME Ledger, Ledger', PageShape, FeedShape, TakeResync \/ TakeCatchup,
         NEW f \in Nat, NEW b \in Nat, Feeds(f, b)
  PROVE  FeedShape' /\ \E c \in Nat : Feeds(f, c)'
<1>1. /\ UNCHANGED <<rows, conn, wire, boot, recent, hello, waiting, gen>>
  BY DEF TakeResync, TakeCatchup, TakeEvents, vars, db
<1>2. /\ Top \in Nat /\ Top' = Top /\ last \in Nat /\ last <= Top /\ ring \subseteq rows
      /\ \A r \in rows : r.id \in Nat \ {0} /\ r.id <= Top
      /\ b <= Top
  BY <1>1, TableFacts DEF FeedShape, PageShape, Top, Feeds, Within
<1>3. PICK d \in DrainOf :
        /\ d # None /\ d.page # None /\ TakeEvents(d) /\ Drains = {d}
        /\ \/ resync = d /\ resync' = Advanced(d) /\ catchup = None /\ catchup' = None
           \/ catchup = d /\ catchup' = Advanced(d) /\ resync = None /\ resync' = None
  <2>1. CASE TakeResync
    BY <2>1 DEF TakeResync, TakeEvents, NoDrain, NoPage, PageShape, FeedShape, OneDrain, Drains
  <2>2. CASE TakeCatchup
    BY <2>2 DEF TakeCatchup, TakeEvents, NoDrain, NoPage, PageShape, FeedShape, OneDrain, Drains
  <2> QED
    BY <2>1, <2>2
<1> DEFINE after == d.after
           next  == d.page.next
           hw    == d.page.hw
           R     == d.page.events
<1>4. /\ after \in Nat /\ next \in Nat /\ hw \in Nat /\ d.page.more \in BOOLEAN
      /\ after <= next /\ next <= hw /\ IsCursor(hw) /\ hw <= Top
      /\ d.page.more = (next < hw) /\ (d.page.more => after < next)
      /\ d.hw \in {None, hw}
      /\ R = {r \in rows : after < r.id /\ r.id <= next}
      /\ d.gens \in SUBSET Nat
  <2>1. AnswerFits(d)
    BY <1>3 DEF FeedShape, DrainFits
  <2>2. d.page \in Answer
    BY <1>3 DEF DrainOf
  <2>3. hw <= Top
    BY <2>1, CursorsBelowTop DEF AnswerFits
  <2> QED
    BY <2>1, <2>2, <2>3 DEF AnswerFits, DrainOf, Answer
<1>5. Acceptable(d)
  BY <1>4 DEF Acceptable
<1>6. /\ IngestEvents(R) /\ hello = "done" /\ status # "live"
      /\ status' = IF ~d.page.more /\ gen \in d.gens THEN "live" ELSE status
  BY <1>3, <1>5 DEF TakeEvents, Finishes, FeedShape, OneDrain
<1>7. Reached(b) = after
  BY <1>3 DEF Reached
<1>8. /\ f <= last /\ (boot # "done" => f = 0) /\ (f # 0 => ring # {}) /\ (\A q \in ring : f < q.id)
      /\ \A i \in 1 .. Len(wire) : wire[i].type = "hive" => f < wire[i].row.id
      /\ f <= after
  BY <1>3 DEF Feeds, Over
<1>9. b <= hw
  BY <1>3 DEF Feeds, Within, Bound
<1>10. R \in SUBSET rows
  BY <1>4
<1> HIDE DEF after, next, hw, R
<1>11. /\ ring' \subseteq ring \cup R
       /\ ring \cup R # {} => ring' # {}
       /\ \A x \in rows : x \in R \/ Held(x) => Held(x)'
       /\ last' >= last /\ (\A r \in R : last' >= r.id)
       /\ last' = last \/ \E r \in R : last' = r.id
  BY <1>2, <1>6, <1>10, IngestHolds
<1>12. ring' \subseteq rows /\ last' \in Nat /\ last' <= Top /\ (last' = last \/ last' <= next)
  BY <1>2, <1>4, <1>10, <1>11
<1>13. ASSUME NEW r \in rows, f < r.id, r.id <= next PROVE Held(r)'
  <2>1. CASE r.id <= after
    BY <1>7, <1>11, <1>13, <2>1 DEF Feeds, Behind
  <2>2. CASE ~(r.id <= after)
    BY <1>2, <1>4, <1>11, <1>13, <2>2
  <2> QED
    BY <2>1, <2>2
<1>14. /\ FramesKnown' /\ HelloFirst' /\ LoadFits' /\ ring' \subseteq rows' /\ last' <= Top'
  BY <1>1, <1>2, <1>12 DEF FeedShape, FramesKnown, HelloFirst, LoadFits, IsCursor
<1>15. /\ f <= last' /\ (f # 0 => ring' # {}) /\ (\A q \in ring' : f < q.id)
       /\ f <= next
  <2>1. \A q \in R : f < q.id
    BY <1>2, <1>4, <1>8, <1>10
  <2> QED
    BY <1>2, <1>4, <1>8, <1>11, <1>12, <2>1
<1>16. ASSUME NEW c \in Nat, b <= c PROVE Ahead(f, c)'
  <2> SUFFICES ASSUME NEW r \in rows, f < r.id, c < r.id
               PROVE  /\ Held(r)' \/ last' < r.id
                      /\ \A i \in 1 .. Len(wire) :
                           wire[i].type = "hive" /\ r.id < wire[i].row.id => Held(r)' \/ OnWire(r, i - 1)
                      /\ conn = "open" => Held(r)' \/ OnWire(r, Len(wire))
    BY <1>1 DEF Ahead, OnWire
  <2>1. b < r.id
    BY <1>2, <1>16
  <2>2. /\ Held(r) \/ last < r.id
        /\ \A i \in 1 .. Len(wire) :
             wire[i].type = "hive" /\ r.id < wire[i].row.id => Held(r) \/ OnWire(r, i - 1)
        /\ conn = "open" => Held(r) \/ OnWire(r, Len(wire))
    BY <2>1 DEF Feeds, Ahead
  <2>3. Held(r) => Held(r)'
    BY <1>11
  <2>4. Held(r)' \/ last' < r.id
    BY <1>2, <1>4, <1>12, <1>13, <2>2, <2>3
  <2> QED
    BY <2>2, <2>3, <2>4
<1>17. CASE d.page.more
  <2>1. Advanced(d) = Drain(next, hw, d.gens) /\ status' = status
    BY <1>5, <1>6, <1>17 DEF Advanced, next, hw
  <2> DEFINE e == Advanced(d)
  <2>2. /\ e # None /\ e.after = next /\ e.hw = hw /\ e.page = None /\ hw # None
    BY <1>4, <2>1, DrainIsSome, IngestionAssumption
  <2> HIDE DEF e
  <2>3. /\ \/ resync' = e /\ catchup' = None
           \/ catchup' = e /\ resync' = None
        /\ resync' # None \/ (catchup' # None /\ catchup # None)
        /\ Drains' = {e}
    BY <1>3, <2>2 DEF e, Drains
  <2>4. OneDrain'
    BY <1>1, <1>6, <2>1, <2>3 DEF FeedShape, OneDrain
  <2>5. (\A d_1 \in Drains : DrainFits(d_1))'
    <3>1. e.after <= Top /\ e.after <= e.hw /\ (e.hw = 0 \/ \E r \in rows : r.id = e.hw)
      BY <1>2, <1>4, <2>2 DEF IsCursor
    <3> QED
      BY <1>1, <1>2, <2>2, <2>3, <3>1 DEF DrainFits, IsCursor
  <2>6. Over(f)'
    BY <1>1, <1>8, <1>15, <2>2, <2>3 DEF Over
  <2>7. Within(b)'
    BY <1>1, <1>2, <1>6, <1>9, <2>2, <2>3 DEF Within, Bound
  <2>8. Behind(f, b)'
    <3>1. Reached(b)' = next
      BY <2>2, <2>3 DEF Reached
    <3> QED
      BY <1>1, <1>13, <3>1 DEF Behind
  <2>9. Ahead(f, b)'
    BY <1>2, <1>16
  <2> QED
    BY <1>14, <2>4, <2>5, <2>6, <2>7, <2>8, <2>9 DEF FeedShape, Feeds
<1>18. CASE ~d.page.more
  <2>1. Advanced(d) = None /\ next = hw
    <3>1. ~(next < hw)
      BY <1>4, <1>18
    <3>2. Advanced(d) = None
      BY <1>18 DEF Advanced, NoDrain
    <3> QED
      BY <1>4, <3>1, <3>2
  <2>2. resync' = None /\ catchup' = None /\ Drains' = {}
    BY <1>3, <2>1 DEF Drains
  <2>3. OneDrain' /\ (\A d_1 \in Drains : DrainFits(d_1))'
    BY <1>1, <1>6, <2>2 DEF OneDrain
  <2>4. Over(f)'
    BY <1>1, <1>8, <1>15, <2>2 DEF Over
  <2>5. Within(hw)'
    BY <1>1, <1>2, <1>4, <1>6, <2>2 DEF Within
  <2>6. Behind(f, hw)'
    <3>1. Reached(hw)' = next
      BY <1>1, <1>6, <2>1, <2>2 DEF Reached
    <3> QED
      BY <1>1, <1>13, <3>1 DEF Behind
  <2>7. Ahead(f, hw)'
    BY <1>4, <1>9, <1>16
  <2> QED
    BY <1>4, <1>14, <2>3, <2>4, <2>5, <2>6, <2>7 DEF FeedShape, Feeds
<1> QED
  BY <1>17, <1>18

\* Nothing is deleted and nothing is pruned.
NothingDeleted == {"delete", "prune"} \cap world = {}

\* A mishap that is not to happen stays away.
LEMMA WorldShrinks ==
  ASSUME [DashNext]_dvars
  PROVE  world' \subseteq world
<1> USE DEF Occurs
<1>1. ASSUME NEW s \in Sessions, StartSession(s) \/ Emit(s) \/ HostDies(s) PROVE world' \subseteq world
  BY <1>1 DEF StartSession, Emit, HostDies
<1>2. ASSUME NEW s \in Sessions, AddSource(s) \/ ReadSource(s) \/ CrashInRead(s) PROVE world' \subseteq world
  BY <1>2 DEF AddSource, ReadSource, CrashInRead
<1>3. ASSUME NEW s \in Sessions, DeleteSession(s) \/ DeleteProjectSourceLogs(s) PROVE world' \subseteq world
  BY <1>3 DEF DeleteSession, DeleteProjectSourceLogs
<1>4. ASSUME NEW cutoff, Prune(cutoff) PROVE world' \subseteq world
  BY <1>4 DEF Prune
<1>5. CASE Crash \/ StartTelemetryRuntime
  BY <1>5 DEF Crash, StartTelemetryRuntime
<1>6. CASE OpenPage \/ ShowReconnecting \/ UNCHANGED dvars
  BY <1>6 DEF OpenPage, ShowReconnecting, dvars, vars
<1>7. CASE Drop
  BY <1>7 DEF Drop
<1>8. CASE Page
  BY <1>7, <1>8 DEF Page, AnswerBoot, FinishBoot, Connect, Receive, AnswerResync, AnswerCatchup,
                    TakeResync, TakeCatchup, TakeEvents, vars
<1> QED
  BY <1>1, <1>2, <1>3, <1>4, <1>5, <1>6, <1>7, <1>8 DEF DashNext

\* A page begins without rows.
LEMMA FeedBegins == DashInit => FeedInv
<1> SUFFICES ASSUME DashInit PROVE FeedInv
  OBVIOUS
<1>1. /\ rows = {} /\ conn = "closed" /\ wire = <<>> /\ boot = "unopened" /\ recent = {}
      /\ hello = "pending" /\ gen = 0 /\ status = "connecting" /\ ring = {} /\ last = 0
      /\ resync = None /\ catchup = None
  BY DEF DashInit, Init, NoDrain
<1>2. Top = 0 /\ Drains = {}
  BY <1>1 DEF Top, Drains
<1>3. Len(wire) = 0
  BY <1>1
<1>4. FeedShape
  BY <1>1, <1>2, <1>3 DEF FeedShape, FramesKnown, HelloFirst, OneDrain, LoadFits
<1>5. Feeds(0, 0)
  BY <1>1, <1>2, <1>3 DEF Feeds, Over, Within, Behind, Ahead
<1> QED
  BY <1>2, <1>4, <1>5 DEF FeedInv

\* Every step of the system, except one that deletes.
LEMMA NextFeeds ==
  ASSUME Ledger, Ledger', PageShape, FeedShape, FirstLoadReaches, NothingDeleted, ~Racing,
         [DashNext]_dvars, NEW f \in Nat, NEW b \in Nat, Feeds(f, b)
  PROVE  FeedShape' /\ \E g, c \in Nat : Feeds(g, c)'
<1>1. CASE /\ UNCHANGED rows /\ Still
           /\ \/ UNCHANGED page
              \/ /\ UNCHANGED <<recent, hello, waiting, gen, ring, last, resync, catchup>>
                 /\ boot' = boot \/ (boot = "unopened" /\ boot' = "asked")
                 /\ status' \in {status, "reconnecting"}
  <2>1. /\ UNCHANGED <<rows, conn, wire, recent, hello, waiting, gen, ring, last, resync, catchup>>
        /\ boot' = boot \/ (boot = "unopened" /\ boot' = "asked")
        /\ status' \in {status, "reconnecting"}
    BY <1>1 DEF Still, page
  <2>2. FeedShape' /\ Feeds(f, b)'
    BY <2>1, StillFeeds
  <2> QED
    BY <2>2
<1>2. ASSUME NEW s \in Sessions, AddSource(s) \/ ReadSource(s), BroadcastRows, UNCHANGED page
      PROVE  FeedShape' /\ \E g, c \in Nat : Feeds(g, c)'
  <2>1. RowsGrow
    BY <1>2, DaemonGrows
  <2>2. FeedShape' /\ Feeds(f, b)'
    BY <1>2, <2>1, RowsFeed
  <2> QED
    BY <2>2
<1>3. ASSUME RowsGrow, Cut \/ (Disconnected /\ UNCHANGED <<boot, recent, hello, waiting, status, ring, last, resync, catchup>>)
      PROVE  FeedShape' /\ \E g, c \in Nat : Feeds(g, c)'
  <2>1. conn = "closed" => wire = <<>>
    BY DEF FeedShape, HelloFirst
  <2>2. /\ UNCHANGED <<boot, recent, hello, waiting, ring, last, resync, catchup>> /\ status' = status
        /\ conn' = "closed" /\ wire' = <<>> /\ (gen' = gen + 1 \/ (gen' = gen /\ conn = "closed"))
    BY <1>3, <2>1 DEF Cut, Disconnected, page
  <2>3. status' \in {status, "reconnecting"}
    BY <2>2
  <2>4. FeedShape' /\ Feeds(f, b)'
    BY <1>3, <2>2, <2>3, EndFeeds
  <2> QED
    BY <2>4
<1>4. ASSUME NEW s \in Sessions, CrashInRead(s), Cut
      PROVE  FeedShape' /\ \E g, c \in Nat : Feeds(g, c)'
  BY <1>3, <1>4, DaemonGrows
<1>5. CASE Crash /\ Cut
  <2>1. RowsGrow
    BY <1>5 DEF Crash, db, RowsGrow
  <2> QED
    BY <1>3, <1>5, <2>1
<1>6. CASE Drop
  <2>1. /\ RowsGrow /\ Disconnected
        /\ UNCHANGED <<boot, recent, hello, waiting, status, ring, last, resync, catchup>>
    BY <1>6 DEF Drop, db, RowsGrow
  <2> QED
    BY <1>3, <2>1
<1>7. ASSUME NEW s \in Sessions, (StartSession(s) \/ Emit(s) \/ HostDies(s)) /\ Still /\ UNCHANGED page
      PROVE  FeedShape' /\ \E g, c \in Nat : Feeds(g, c)'
  <2>1. UNCHANGED rows
    BY <1>7 DEF StartSession, Emit, HostDies, db
  <2> QED
    BY <1>1, <1>7, <2>1
<1>8. ASSUME NEW s \in Sessions, DeleteProjectSourceLogs(s) /\ Still /\ UNCHANGED page
      PROVE  FeedShape' /\ \E g, c \in Nat : Feeds(g, c)'
  <2>1. UNCHANGED rows
    BY <1>8 DEF DeleteProjectSourceLogs, db
  <2> QED
    BY <1>1, <1>8, <2>1
<1>9. CASE StartTelemetryRuntime /\ Still /\ UNCHANGED page
  <2>1. UNCHANGED rows
    BY <1>9 DEF StartTelemetryRuntime, db
  <2> QED
    BY <1>1, <1>9, <2>1
<1>10. CASE OpenPage
  <2>1. /\ UNCHANGED rows /\ Still /\ boot = "unopened" /\ boot' = "asked"
        /\ UNCHANGED <<recent, hello, waiting, gen, ring, last, resync, catchup>> /\ status' = status
    BY <1>10 DEF OpenPage, Still, vars, db
  <2> QED
    BY <1>1, <2>1
<1>11. CASE ShowReconnecting
  <2>1. /\ UNCHANGED rows /\ Still /\ boot' = boot /\ status' = "reconnecting"
        /\ UNCHANGED <<recent, hello, waiting, gen, ring, last, resync, catchup>>
    BY <1>11 DEF ShowReconnecting, Still, vars, db
  <2> QED
    BY <1>1, <2>1
<1>12. CASE UNCHANGED dvars
  <2>1. UNCHANGED rows /\ Still /\ UNCHANGED page
    BY <1>12 DEF dvars, vars, db, Still, page
  <2> QED
    BY <1>1, <2>1
<1>13. CASE AnswerBoot
  <2>1. FeedShape' /\ Feeds(f, b)'
    BY <1>13, BootAnswered
  <2> QED
    BY <2>1
<1>14. CASE FinishBoot
  BY <1>14, BootFinished
<1>15. CASE Connect
  <2>1. FeedShape' /\ Feeds(f, Top)' /\ Top' \in Nat
    BY <1>15, ConnectFeeds, NextTableFacts
  <2> QED
    BY <2>1
<1>16. CASE Receive
  <2>1. FeedShape' /\ Feeds(f, b)'
    BY <1>16, ReceiveFeeds
  <2> QED
    BY <2>1
<1>17. CASE AnswerResync \/ AnswerCatchup
  <2>1. FeedShape' /\ Feeds(f, b)'
    BY <1>17, DrainAnswered
  <2> QED
    BY <2>1
<1>18. CASE TakeResync \/ TakeCatchup
  BY <1>18, DrainTaken
<1>19. ASSUME NEW s \in Sessions, DeleteSession(s) PROVE FALSE
  BY <1>19 DEF DeleteSession, Occurs, NothingDeleted
<1>20. ASSUME NEW cutoff, Prune(cutoff) PROVE FALSE
  BY <1>20 DEF Prune, Occurs, NothingDeleted
<1> QED
  BY <1>2, <1>4, <1>5, <1>6, <1>7, <1>8, <1>9, <1>10, <1>11, <1>12, <1>13, <1>14, <1>15,
     <1>16, <1>17, <1>18, <1>19, <1>20 DEF DashNext, Page

\* A page that says "live" and has taken every frame has no hole.
LEMMA FeedsLeaveNoHole ==
  ASSUME Ledger, PageShape, FeedInv
  PROVE  LiveMeansComplete
<1>1. PICK f \in 0 .. Top, b \in 0 .. Top : Feeds(f, b)
  BY DEF FeedInv
<1>2. /\ FeedShape /\ RingSize \in Nat \ {0} /\ Top \in Nat /\ f \in Nat /\ b \in Nat
      /\ ring \in FiniteRows /\ ring \subseteq rows /\ \A r \in rows : r.id \in Nat \ {0}
  BY TableFacts, DashboardAssumption DEF FeedInv, FeedShape, PageShape
<1> SUFFICES ASSUME status = "live", boot = "done", conn = "open", wire = <<>>,
                    NEW r \in Newest(RingSize, rows), r.e \notin Shown,
                    ring = {} \/ \E q \in ring : q.id < r.id
             PROVE  FALSE
  BY DEF LiveMeansComplete, Settled, Loaded, Missing
<1>3. Len(wire) = 0 /\ r \in rows /\ r \notin ring /\ r.id \in Nat \ {0}
  BY <1>2 DEF Newest, Shown
<1>4. Drains = {} /\ hello = "done"
  BY <1>2, <1>3 DEF FeedShape, OneDrain, HelloFirst
<1>5. Reached(b) = b
  BY <1>4 DEF Reached, Drains
<1>6. (Cardinality(ring) = RingSize /\ \A q \in ring : r.id < q.id) => FALSE
  <2> SUFFICES ASSUME Cardinality(ring) = RingSize, \A q \in ring : r.id < q.id
               PROVE  FALSE
    OBVIOUS
  <2>1. ring # {}
    <3> SUFFICES ASSUME ring = {}
                 PROVE  FALSE
      OBVIOUS
    <3>1. Cardinality(ring) = 0
      BY FS_EmptySet
    <3> QED
      BY <1>2, <3>1
  <2>2. PICK q \in ring : q.id < r.id
    BY <2>1
  <2>3. q.id \in Nat /\ r.id < q.id
    BY <1>2
  <2> QED
    BY <1>3, <2>2, <2>3
<1>7. CASE f < r.id
  <2>1. CASE r.id <= b
    <3>1. Held(r)
      BY <1>1, <1>3, <1>5, <1>7, <2>1 DEF Feeds, Behind
    <3>2. Cardinality(ring) = RingSize /\ \A q \in ring : r.id < q.id
      BY <1>3, <3>1 DEF Held
    <3> QED
      BY <1>6, <3>2
  <2>2. CASE b < r.id
    <3>1. Held(r) \/ OnWire(r, 0)
      BY <1>1, <1>3, <1>7, <2>2 DEF Feeds, Ahead
    <3>2. Cardinality(ring) = RingSize /\ \A q \in ring : r.id < q.id
      BY <1>3, <3>1 DEF Held, OnWire
    <3> QED
      BY <1>6, <3>2
  <2> QED
    BY <1>2, <1>3, <2>1, <2>2
<1>8. CASE ~(f < r.id)
  <2>1. f # 0 /\ \A q \in ring : f < q.id
    BY <1>1, <1>2, <1>3, <1>8 DEF Feeds, Over
  <2>2. ring # {}
    BY <1>1, <2>1 DEF Feeds, Over
  <2>3. PICK q \in ring : q.id < r.id
    BY <2>2
  <2>4. q.id \in Nat /\ f < q.id
    BY <1>2, <2>1
  <2> QED
    BY <1>2, <1>3, <1>8, <2>3, <2>4
<1> QED
  BY <1>7, <1>8

\* Every row is out of reach, held, asked for or on its way.
THEOREM FeedInvariance ==
  ASSUME ~Racing
  PROVE  DashSafety /\ NothingDeleted /\ []FirstLoadReaches => []FeedInv
<1>1. DashInit => FeedInv
  BY FeedBegins
<1>2. /\ FeedInv /\ NothingDeleted /\ FirstLoadReaches
      /\ Ledger /\ Ledger' /\ PageShape /\ PageShape' /\ [DashNext]_dvars
      => FeedInv' /\ NothingDeleted'
  <2> SUFFICES ASSUME FeedInv, NothingDeleted, FirstLoadReaches, Ledger, Ledger', PageShape,
                      PageShape', [DashNext]_dvars
               PROVE  FeedInv' /\ NothingDeleted'
    OBVIOUS
  <2>1. PICK f \in 0 .. Top, b \in 0 .. Top : Feeds(f, b)
    BY DEF FeedInv
  <2>2. f \in Nat /\ b \in Nat /\ FeedShape
    BY TableFacts DEF FeedInv
  <2>3. FeedShape' /\ \E g, c \in Nat : Feeds(g, c)'
    BY <2>1, <2>2, NextFeeds
  <2>4. PICK g \in Nat, c \in Nat : Feeds(g, c)'
    BY <2>3
  <2>5. g \in 0 .. Top' /\ c \in 0 .. Top'
    <3>1. g <= last' /\ c <= Top' /\ last' <= Top' /\ last' \in Nat
      BY <2>3, <2>4 DEF Feeds, Over, Within, FeedShape, PageShape
    <3>2. Top' \in Nat
      BY NextTableFacts
    <3> QED
      BY <3>1, <3>2
  <2>6. FeedInv'
    BY <2>3, <2>4, <2>5 DEF FeedInv
  <2>7. NothingDeleted'
    BY WorldShrinks DEF NothingDeleted
  <2> QED
    BY <2>6, <2>7
<1> QED
  BY <1>1, <1>2, LedgerInvariance, PageInvariance, PTL DEF DashSafety

\* A page that says "live" and has taken every frame has no hole behind its oldest row,
\* through lost streams, crashes of the daemon and of hosts, and logs that are unlinked:
\* as long as nothing is deleted, and the first load reaches back to what the stream brings.
THEOREM LivePageIsComplete ==
  ASSUME ~Racing
  PROVE  DashSafety /\ NothingDeleted /\ []FirstLoadReaches => []LiveMeansComplete
<1>1. Ledger /\ PageShape /\ FeedInv => LiveMeansComplete
  BY FeedsLeaveNoHole
<1> QED
  BY <1>1, FeedInvariance, LedgerInvariance, PageInvariance, PTL

\* A first load that fills the ring reaches back far enough.
THEOREM LargeLoadIsComplete ==
  ASSUME ~Racing, BootSize >= RingSize
  PROVE  DashSafety /\ NothingDeleted => []LiveMeansComplete
<1>1. FirstLoadReaches
  BY DashboardAssumption DEF FirstLoadReaches
<1>2. []FirstLoadReaches
  BY <1>1, PTL
<1>3. DashSafety /\ NothingDeleted /\ []FirstLoadReaches => []LiveMeansComplete
  BY LivePageIsComplete
<1> QED
  BY <1>2, <1>3, PTL
=============================================================================
