--------------------------- MODULE TaskLog_proofs ---------------------------
(***************************************************************************)
(* Proofs about TaskLog, for any streams, lines and sizes of the queue and *)
(* of the batch: what the payload writes is stored once and in the order   *)
(* of its stream, and what a follower prints is what was written.          *)
(***************************************************************************)
EXTENDS TaskLog, FiniteSetTheorems, TLAPS

PartsInv ==
    /\ TypeOK /\ LinesKept /\ Numbered /\ InOrder /\ StoredInOrder /\ OutcomeLast
    /\ FollowerRight /\ PrintedRight

\* A row with the line of another one is that row, since the lines of a stream are
\* stored in their order.
LEMMA Once == TypeOK /\ StoredInOrder => StoredOnce
<1>. SUFFICES ASSUME TypeOK, StoredInOrder, NEW r \in table, NEW q \in table, r.line = q.line
              PROVE  r = q
  BY DEF StoredOnce
<1>1. r.id \in Nat /\ q.id \in Nat /\ r.line.n \in Nat
  BY LogAssumption DEF TypeOK, LogRow, Line, Note
<1>2. ~(r.id < q.id) /\ ~(q.id < r.id)
  BY <1>1 DEF StoredInOrder, Before
<1>. QED  BY <1>1, <1>2 DEF StoredInOrder

LEMMA Parts == PartsInv <=> LogInv
BY Once DEF PartsInv, LogInv

LEMMA PartsPrimed == PartsInv' => LogInv'
BY Parts, PTL

\* What is known of the lines that are stored or on their way.
LEMMA Elements ==
    ASSUME TypeOK, Numbered
    PROVE  /\ \A r \in table : r \in LogRow /\ r.id \in Nat /\ r.seq \in Nat /\ r.line.n \in Nat
           /\ \A x \in Moving : x \in Entry
           /\ \A s \in Streams : Held(s) \subseteq Moving
           /\ Moving = ToSet(buf) \cup ToSet(queue) \cup UNION {Held(s) : s \in Streams}
<1>1. \A r \in table : r \in LogRow /\ r.id \in Nat /\ r.seq \in Nat /\ r.line.n \in Nat
  BY LogAssumption, SMTT(30) DEF TypeOK, LogRow, Line, Note, NullSeq
<1>2. \A x \in ToSet(buf) \cup ToSet(queue) : x \in Entry
  BY DEF TypeOK, ToSet
<1>3. ASSUME NEW s \in Streams, NEW x \in Held(s)
      PROVE  x \in Entry
  <2>1. x = reader[s].entry /\ reader[s].entry \in Entry \cup {NoEntry} /\ x \in Moving
    BY <1>3 DEF TypeOK, Held, Moving, Waiting
  <2>2. NoEntry.line = Note /\ NoEntry.seq = 0 /\ NullSeq # 0
    BY LogAssumption DEF NoEntry, NullSeq
  <2>. QED  BY <2>1, <2>2 DEF Numbered
<1>. QED  BY <1>1, <1>2, <1>3 DEF Moving, Waiting

\* The fields of an entry.
LEMMA EntryIs ==
    ASSUME NEW x \in Entry
    PROVE  /\ x.seq \in 1..MaxLines /\ x.seq \in Nat /\ x.line \in Line
           /\ x.line.from \in Streams /\ x.line.n \in Nat /\ x.line # Note
           /\ x.line.n \in 1..MaxLines
BY LogAssumption DEF Entry, Line, Note
-----------------------------------------------------------------------------
(* Frames.                                                                 *)

FollowerType ==
    [at : {"open", "status", "logs", "done", "failed"}, last : Nat, saw : {"active", "stale", "ended"}]

\* Whatever moves on, as long as it keeps its number.
LEMMA NumbersKept ==
    ASSUME Numbered, seq' = seq,
           \A s \in Streams : reader'[s].count = reader[s].count,
           \A x \in (table \cup Moving)' : \E y \in table \cup Moving : y.seq = x.seq /\ y.line = x.line,
           \A x \in Moving : x.line.from \in Streams,
           \A x \in table : x.line = Note \/ x.line.from \in Streams,
           \A s \in Streams : \A x \in Held(s)' : x \in Held(s)
    PROVE  Numbered'
<1>1. \A x \in (table \cup Moving)' :
         IF x.line = Note THEN x.seq = NullSeq
         ELSE x.seq <= seq' /\ x.line.n <= reader'[x.line.from].count
  <2>. SUFFICES ASSUME NEW x \in (table \cup Moving)'
                PROVE  IF x.line = Note THEN x.seq = NullSeq
                       ELSE x.seq <= seq' /\ x.line.n <= reader'[x.line.from].count
    OBVIOUS
  <2>1. PICK y \in table \cup Moving : y.seq = x.seq /\ y.line = x.line
    OBVIOUS
  <2>. QED  BY <2>1 DEF Numbered
<1>2. ASSUME NEW x \in (table \cup Moving)', NEW y \in (table \cup Moving)'
      PROVE  /\ x.seq = y.seq <=> x.line = y.line
             /\ x.seq < y.seq => Before(x.line, y.line)
  <2>1. PICK u \in table \cup Moving : u.seq = x.seq /\ u.line = x.line
    OBVIOUS
  <2>2. PICK v \in table \cup Moving : v.seq = y.seq /\ v.line = y.line
    OBVIOUS
  <2>. QED  BY <2>1, <2>2 DEF Numbered
<1>3. \A s \in Streams : reader'[s].count <= seq' /\ \A x \in Held(s)' : x.line.from = s
  BY DEF Numbered
<1>. QED  BY <1>1, <1>2, <1>3 DEF Numbered

\* No line gets lost on the way.
LEMMA LinesAreKept ==
    ASSUME LinesKept,
           cancelled => cancelled', gaveUp => gaveUp', row = "gone" => row' = "gone",
           \A s \in Streams : reader'[s].count = reader[s].count,
           \A x \in table \cup Moving : \E y \in (table \cup Moving)' : y.line = x.line
    PROVE  LinesKept'
<1>. SUFFICES ASSUME ~cancelled', ~gaveUp', row' # "gone", NEW s \in Streams, NEW n \in 1..reader'[s].count
              PROVE  \E x \in (table \cup Moving)' : x.line = [from |-> s, n |-> n]
  BY DEF LinesKept
<1>1. PICK x \in table \cup Moving : x.line = [from |-> s, n |-> n]
  BY DEF LinesKept
<1>. QED  BY <1>1

\* A step that leaves the lines where they are.
LEMMA PipeSame ==
    ASSUME LogInv, UNCHANGED <<seq, queue, buf, table, lastId>>,
           \A s \in Streams : Held(s)' = Held(s) /\ reader'[s].count = reader[s].count,
           cancelled => cancelled', gaveUp => gaveUp', row = "gone" => row' = "gone"
    PROVE  LinesKept' /\ Numbered' /\ InOrder' /\ StoredInOrder'
<1>1. Moving' = Moving /\ Waiting' = Waiting
  BY DEF Moving, Waiting, ToSet
<1>2. LinesKept'
  BY <1>1, LinesAreKept DEF LogInv
<1>3. Numbered'
  <2>1. Numbered /\ TypeOK
    BY DEF LogInv
  <2>2. \A x \in Moving : x.line.from \in Streams
    BY <2>1, Elements, EntryIs
  <2>3. \A x \in table : x.line = Note \/ x.line.from \in Streams
    BY <2>1, Elements DEF LogRow, Line
  <2>. QED  BY <1>1, <2>1, <2>2, <2>3, NumbersKept
<1>4. InOrder'
  BY <1>1 DEF LogInv, InOrder
<1>5. StoredInOrder'
  BY <1>1 DEF LogInv, StoredInOrder
<1>. QED  BY <1>2, <1>3, <1>4, <1>5

\* A step that neither stores nor prints, nor ends the task.
LEMMA FollowSame ==
    ASSUME LogInv, UNCHANGED <<table, lastId, row, follower, printed>>, logger = "done" => logger' = "done"
    PROVE  OutcomeLast' /\ FollowerRight' /\ PrintedRight'
BY DEF LogInv, OutcomeLast, FollowerRight, PrintedRight, OneStream, ToSet
-----------------------------------------------------------------------------
(* Sequences.                                                              *)

LEMMA AppendIs ==
    ASSUME NEW S, NEW q \in Seq(S), NEW e \in S
    PROVE  /\ Append(q, e) \in Seq(S) /\ Len(Append(q, e)) = Len(q) + 1
           /\ DOMAIN Append(q, e) = 1..Len(q) + 1 /\ DOMAIN q = 1..Len(q) /\ Len(q) \in Nat
           /\ \A i \in DOMAIN q : Append(q, e)[i] = q[i]
           /\ Append(q, e)[Len(q) + 1] = e
           /\ ToSet(Append(q, e)) = ToSet(q) \cup {e}
<1>1. /\ Append(q, e) \in Seq(S) /\ Len(Append(q, e)) = Len(q) + 1
      /\ DOMAIN Append(q, e) = 1..Len(q) + 1 /\ DOMAIN q = 1..Len(q) /\ Len(q) \in Nat
      /\ \A i \in DOMAIN q : Append(q, e)[i] = q[i]
      /\ Append(q, e)[Len(q) + 1] = e
  OBVIOUS
<1>2. ASSUME NEW x
      PROVE  x \in ToSet(Append(q, e)) <=> x \in ToSet(q) \cup {e}
  <2>1. x \in ToSet(Append(q, e)) <=> \E i \in 1..Len(q) + 1 : x = Append(q, e)[i]
    BY <1>1 DEF ToSet
  <2>2. x \in ToSet(q) <=> \E i \in 1..Len(q) : x = q[i]
    BY <1>1 DEF ToSet
  <2>3. \A i \in 1..Len(q) + 1 : i \in 1..Len(q) \/ i = Len(q) + 1
    BY <1>1
  <2>4. Len(q) + 1 \in 1..Len(q) + 1 /\ \A i \in 1..Len(q) : i \in 1..Len(q) + 1
    BY <1>1
  <2>. QED  BY <1>1, <2>1, <2>2, <2>3, <2>4
<1>. QED  BY <1>1, <1>2

LEMMA TailIs ==
    ASSUME NEW S, NEW q \in Seq(S), q # <<>>
    PROVE  /\ Head(q) \in S /\ Tail(q) \in Seq(S) /\ Len(Tail(q)) = Len(q) - 1 /\ Len(q) \in Nat \ {0}
           /\ DOMAIN q = 1..Len(q) /\ DOMAIN Tail(q) = 1..Len(q) - 1 /\ Head(q) = q[1]
           /\ \A i \in DOMAIN Tail(q) : i + 1 \in DOMAIN q /\ Tail(q)[i] = q[i + 1]
           /\ ToSet(q) = {Head(q)} \cup ToSet(Tail(q))
<1>1. /\ Head(q) \in S /\ Tail(q) \in Seq(S) /\ Len(Tail(q)) = Len(q) - 1 /\ Len(q) \in Nat \ {0}
      /\ DOMAIN q = 1..Len(q) /\ DOMAIN Tail(q) = 1..Len(q) - 1 /\ Head(q) = q[1]
      /\ \A i \in DOMAIN Tail(q) : i + 1 \in DOMAIN q /\ Tail(q)[i] = q[i + 1]
  OBVIOUS
<1>2. ASSUME NEW x
      PROVE  x \in ToSet(q) <=> x \in {Head(q)} \cup ToSet(Tail(q))
  <2>1. x \in ToSet(q) <=> \E i \in 1..Len(q) : x = q[i]
    BY <1>1 DEF ToSet
  <2>2. x \in ToSet(Tail(q)) <=> \E i \in 1..Len(q) - 1 : x = q[i + 1]
    BY <1>1 DEF ToSet
  <2>3. \A i \in 1..Len(q) : i = 1 \/ (i - 1 \in 1..Len(q) - 1 /\ (i - 1) + 1 = i)
    BY <1>1
  <2>4. 1 \in 1..Len(q) /\ \A i \in 1..Len(q) - 1 : i + 1 \in 1..Len(q)
    BY <1>1
  <2>. QED  BY <1>1, <2>1, <2>2, <2>3, <2>4
<1>. QED  BY <1>1, <1>2

LEMMA ConcatIs ==
    ASSUME NEW S, NEW p \in Seq(S), NEW q \in Seq(S)
    PROVE  /\ p \o q \in Seq(S) /\ Len(p \o q) = Len(p) + Len(q)
           /\ DOMAIN (p \o q) = 1..Len(p) + Len(q)
           /\ \A i \in 1..Len(p) + Len(q) : (p \o q)[i] = IF i <= Len(p) THEN p[i] ELSE q[i - Len(p)]
           /\ p = <<>> => p \o q = q
OBVIOUS
-----------------------------------------------------------------------------
(* The readers.                                                            *)

Reader == [at : {"read", "send", "blocked", "done"}, count : 0..MaxLines, entry : Entry \cup {NoEntry}]

\* A step of one reader.
LEMMA ReaderIs ==
    ASSUME TypeOK, NEW s \in Streams, NEW r \in Reader, reader' = [reader EXCEPT ![s] = r]
    PROVE  /\ reader' \in [Streams -> Reader] /\ reader[s] \in Reader
           /\ reader'[s] = r
           /\ Held(s)' = IF r.at \in {"send", "blocked"} THEN {r.entry} ELSE {}
           /\ \A t \in Streams \ {s} : reader'[t] = reader[t] /\ Held(t)' = Held(t)
BY DEF TypeOK, Reader, Held

\* The number is taken.
LEMMA LogKeeps ==
    ASSUME LogInv, NEW s \in Streams, Log(s)
    PROVE  LogInv'
<1>1. /\ TypeOK /\ Numbered /\ MaxLines \in Nat
      /\ seq \in 0..MaxLines /\ reader[s] \in Reader /\ reader[s].count \in 0..MaxLines
  BY LogAssumption DEF LogInv, TypeOK, Reader
<1>2. PICK n : n = reader[s].count + 1
  OBVIOUS
<1>3. PICK e : e = [seq |-> seq + 1, line |-> [from |-> s, n |-> n]]
  OBVIOUS
<1>4. PICK r : r = [at |-> "send", count |-> n, entry |-> e]
  OBVIOUS
<1>5. /\ seq' = seq + 1 /\ seq < MaxLines /\ reader' = [reader EXCEPT ![s] = r] /\ reader[s].at = "read"
      /\ UNCHANGED <<queue, closed, logger, buf, table, lastId, row, cancelled, follower, printed, gaveUp>>
  BY <1>2, <1>3, <1>4 DEF Log
<1>6. n \in 1..MaxLines /\ n <= seq'
  BY <1>1, <1>2, <1>5 DEF Numbered
<1>7. e \in Entry /\ r \in Reader /\ e.seq = seq + 1 /\ e.line = [from |-> s, n |-> n] /\ e.line \in Line
  BY <1>1, <1>3, <1>4, <1>5, <1>6 DEF Entry, Line, Reader
<1>8. /\ Held(s)' = {e} /\ Held(s) = {} /\ reader'[s].count = n
      /\ \A t \in Streams \ {s} : reader'[t] = reader[t] /\ Held(t)' = Held(t)
  BY <1>1, <1>4, <1>5, <1>7, ReaderIs DEF Held
<1>9. Moving' = Moving \cup {e} /\ Waiting' = Waiting \cup {e}
  BY <1>5, <1>8 DEF Moving, Waiting
<1>10. TypeOK'
  BY <1>1, <1>5, <1>7, ReaderIs DEF TypeOK, Reader
<1>11. LinesKept'
  <2>. SUFFICES ASSUME ~cancelled', ~gaveUp', row' # "gone", NEW t \in Streams, NEW m \in 1..reader'[t].count
                PROVE  \E x \in (table \cup Moving)' : x.line = [from |-> t, n |-> m]
    BY DEF LinesKept
  <2>1. CASE t = s /\ m = n
    BY <1>7, <1>9, <2>1
  <2>2. CASE ~(t = s /\ m = n)
    <3>1. m \in 1..reader[t].count
      BY <1>1, <1>2, <1>8, <2>2
    <3>2. PICK x \in table \cup Moving : x.line = [from |-> t, n |-> m]
      BY <1>5, <3>1 DEF LogInv, LinesKept
    <3>. QED  BY <1>5, <1>9, <3>2
  <2>. QED  BY <2>1, <2>2
\* The new line comes after the others of its stream, and its number after all others.
<1>12. \A x \in table \cup Moving :
         /\ x.seq # e.seq /\ x.line # e.line /\ Before(x.line, e.line)
         /\ e.seq < x.seq => x.line = Note
  <2>. SUFFICES ASSUME NEW x \in table \cup Moving
                PROVE  /\ x.seq # e.seq /\ x.line # e.line /\ Before(x.line, e.line)
                       /\ e.seq < x.seq => x.line = Note
    OBVIOUS
  <2>1. CASE x.line = Note
    BY <1>1, <1>5, <1>7, <2>1, LogAssumption DEF Numbered, NullSeq, Note, Before, Line
  <2>2. CASE x.line # Note
    <3>1. x.seq \in Nat /\ x.line.n \in Nat
      BY <1>1, Elements, EntryIs
    <3>2. x.seq <= seq /\ x.line.n <= reader[x.line.from].count
      BY <1>1, <2>2 DEF Numbered
    <3>. QED  BY <1>1, <1>2, <1>7, <3>1, <3>2 DEF Before
  <2>. QED  BY <2>1, <2>2
<1>13. Numbered'
  <2>1. ASSUME NEW x \in (table \cup Moving)'
        PROVE  IF x.line = Note THEN x.seq = NullSeq
               ELSE x.seq <= seq' /\ x.line.n <= reader'[x.line.from].count
    <3>1. CASE x = e
      BY <1>1, <1>5, <1>6, <1>7, <1>8, <3>1, EntryIs
    <3>2. CASE x \in table \cup Moving /\ x.line # Note
      <4>1. x.seq \in Nat /\ x.line.n \in Nat /\ x.line.from \in Streams
        BY <1>1, <3>2, Elements, EntryIs DEF LogRow, Line
      <4>2. x.seq <= seq /\ x.line.n <= reader[x.line.from].count
        BY <1>1, <3>2 DEF Numbered
      <4>3. reader[x.line.from].count <= reader'[x.line.from].count /\ reader[x.line.from].count \in Nat
            /\ reader'[x.line.from].count \in Nat
        <5>1. ASSUME NEW t \in Streams
              PROVE  reader[t].count <= reader'[t].count /\ reader[t].count \in Nat /\ reader'[t].count \in Nat
          <6>1. reader[t].count \in 0..MaxLines
            BY <1>1 DEF TypeOK
          <6>. QED  BY <1>1, <1>2, <1>8, <6>1
        <5>. QED  BY <4>1, <5>1
      <4>4. x.seq <= seq' /\ x.line.n <= reader'[x.line.from].count
        <5>1. x.seq <= seq'
          BY <1>1, <1>5, <4>1, <4>2
        <5>2. x.line.n <= reader'[x.line.from].count
          BY <4>1, <4>2, <4>3
        <5>. QED  BY <5>1, <5>2
      <4>. QED  BY <3>2, <4>4
    <3>3. CASE x \in table \cup Moving /\ x.line = Note
      BY <1>1, <3>3 DEF Numbered
    <3>. QED  BY <1>5, <1>9, <2>1, <3>1, <3>2, <3>3
  <2>2. ASSUME NEW x \in (table \cup Moving)', NEW y \in (table \cup Moving)'
        PROVE  /\ x.seq = y.seq <=> x.line = y.line
               /\ x.seq < y.seq => Before(x.line, y.line)
    <3>1. CASE x \in table \cup Moving /\ y \in table \cup Moving
      BY <1>1, <3>1 DEF Numbered
    <3>2. CASE x \in table \cup Moving /\ y = e
      BY <1>12, <3>2
    <3>3. CASE x = e /\ y \in table \cup Moving
      BY <1>7, <1>12, <3>3, LogAssumption DEF Before, Note, Line
    <3>4. CASE x = e /\ y = e
      BY <1>1, <1>7, <3>4
    <3>. QED  BY <1>5, <1>9, <2>2, <3>1, <3>2, <3>3, <3>4
  <2>3. ASSUME NEW t \in Streams
        PROVE  reader'[t].count <= seq' /\ \A x \in Held(t)' : x.line.from = t
    BY <1>1, <1>5, <1>6, <1>7, <1>8, <2>3 DEF Numbered, TypeOK
  <2>. QED  BY <2>1, <2>2, <2>3 DEF Numbered
<1>14. InOrder'
  <2>1. \A x \in ToSet(buf) \cup ToSet(queue) : Before(x.line, e.line)
    BY <1>12 DEF Moving, Waiting
  <2>. QED  BY <1>5, <1>8, <1>9, <2>1 DEF LogInv, InOrder
<1>15. StoredInOrder'
  BY <1>5, <1>9, <1>12 DEF LogInv, StoredInOrder
<1>. QED
  BY <1>5, <1>10, <1>11, <1>13, <1>14, <1>15, FollowSame, PartsPrimed DEF PartsInv

\* The line in hand joins the queue, behind the others of its stream.
LEMMA SendKeeps ==
    ASSUME LogInv, NEW s \in Streams, Send(s)
    PROVE  LogInv'
<1>1. /\ TypeOK /\ Numbered /\ reader[s] \in Reader /\ queue \in Seq(Entry)
      /\ QueueSize \in Nat /\ Len(queue) < QueueSize /\ reader[s].at \in {"send", "blocked"}
      /\ UNCHANGED <<seq, closed, logger, buf, table, lastId, row, cancelled, follower, printed, gaveUp>>
  BY LogAssumption DEF LogInv, TypeOK, Reader, Send
<1>2. PICK e \in Entry : e = reader[s].entry /\ Held(s) = {e} /\ e.line.from = s
  <2>1. Held(s) = {reader[s].entry}
    BY <1>1 DEF Held
  <2>. QED  BY <1>1, <2>1, Elements DEF Numbered
<1>3. PICK r \in Reader : /\ reader' = [reader EXCEPT ![s] = r] /\ r.at = "read" /\ r.count = reader[s].count
  <2>1. [reader[s] EXCEPT !.at = "read", !.entry = NoEntry] \in Reader
        /\ [reader[s] EXCEPT !.at = "read", !.entry = NoEntry].at = "read"
        /\ [reader[s] EXCEPT !.at = "read", !.entry = NoEntry].count = reader[s].count
    BY <1>1 DEF Reader
  <2>. QED  BY <2>1 DEF Send, Release
<1>4. /\ Held(s)' = {} /\ reader' \in [Streams -> Reader]
      /\ \A t \in Streams : reader'[t].count = reader[t].count
      /\ \A t \in Streams \ {s} : Held(t)' = Held(t)
  BY <1>1, <1>3, ReaderIs
<1>5. queue' = Append(queue, e)
  BY <1>2 DEF Send
<1>6. /\ queue' \in Seq(Entry) /\ Len(queue') = Len(queue) + 1 /\ ToSet(queue') = ToSet(queue) \cup {e}
      /\ DOMAIN queue' = 1..Len(queue) + 1 /\ DOMAIN queue = 1..Len(queue) /\ Len(queue) \in Nat
      /\ \A i \in DOMAIN queue : queue'[i] = queue[i]
      /\ queue'[Len(queue) + 1] = e
  BY <1>1, <1>5, AppendIs
<1>7. Waiting' = Waiting /\ Moving' = Moving
  <2>1. (UNION {Held(t)' : t \in Streams}) \cup {e} = UNION {Held(t) : t \in Streams}
    BY <1>2, <1>4
  <2>. QED  BY <1>1, <1>6, <2>1 DEF Waiting, Moving
<1>8. TypeOK'
  BY <1>1, <1>4, <1>6 DEF TypeOK, Reader
<1>9. LinesKept'
  BY <1>1, <1>4, <1>7, LinesAreKept DEF LogInv
<1>10. Numbered'
  <2>1. \A x \in Moving : x.line.from \in Streams
    BY <1>1, Elements, EntryIs
  <2>2. \A x \in table : x.line = Note \/ x.line.from \in Streams
    BY <1>1, Elements DEF LogRow, Line
  <2>. QED  BY <1>1, <1>4, <1>7, <2>1, <2>2, NumbersKept
<1>11. InOrder'
  <2>1. ASSUME NEW i \in DOMAIN queue', NEW j \in DOMAIN queue', i < j
        PROVE  Before(queue'[i].line, queue'[j].line)
    <3>1. CASE j \in DOMAIN queue
      <4>1. i \in DOMAIN queue
        BY <1>6, <2>1, <3>1
      <4>. QED  BY <1>6, <2>1, <3>1, <4>1 DEF LogInv, InOrder
    <3>2. CASE j = Len(queue) + 1
      <4>1. i \in DOMAIN queue /\ queue[i] \in ToSet(queue)
        BY <1>6, <2>1, <3>2 DEF ToSet
      <4>. QED  BY <1>2, <1>6, <3>2, <4>1 DEF LogInv, InOrder
    <3>. QED  BY <1>6, <2>1, <3>1, <3>2
  <2>2. ASSUME NEW x \in ToSet(queue'), NEW t \in Streams, NEW y \in Held(t)'
        PROVE  Before(x.line, y.line)
    <3>1. t # s /\ y \in Held(t)
      BY <1>4, <2>2
    <3>2. CASE x = e
      BY <1>1, <1>2, <3>1, <3>2 DEF Before, Numbered
    <3>3. CASE x \in ToSet(queue)
      BY <3>1, <3>3 DEF LogInv, InOrder
    <3>. QED  BY <1>6, <2>2, <3>2, <3>3
  <2>3. \A i, j \in DOMAIN buf' : i < j => Before(buf'[i].line, buf'[j].line)
    BY <1>1 DEF LogInv, InOrder
  <2>4. \A x \in ToSet(buf'), y \in Waiting' : Before(x.line, y.line)
    BY <1>1, <1>7 DEF LogInv, InOrder
  <2>. QED  BY <2>1, <2>2, <2>3, <2>4 DEF InOrder, ToSet
<1>12. StoredInOrder'
  BY <1>1, <1>7 DEF LogInv, StoredInOrder
<1>. QED
  BY <1>1, <1>8, <1>9, <1>10, <1>11, <1>12, FollowSame, PartsPrimed DEF PartsInv

\* Once the task is cancelled a line may go.
LEMMA DropLineKeeps ==
    ASSUME LogInv, NEW s \in Streams, DropLine(s)
    PROVE  LogInv'
<1>1. /\ TypeOK /\ Numbered /\ reader[s] \in Reader /\ reader[s].at = "blocked" /\ cancelled
      /\ UNCHANGED <<seq, queue, closed, logger, buf, table, lastId, row, cancelled, follower, printed, gaveUp>>
  BY DEF LogInv, TypeOK, Reader, DropLine
<1>2. PICK r \in Reader : /\ reader' = [reader EXCEPT ![s] = r] /\ r.at = "read" /\ r.count = reader[s].count
  <2>1. [reader[s] EXCEPT !.at = "read", !.entry = NoEntry] \in Reader
        /\ [reader[s] EXCEPT !.at = "read", !.entry = NoEntry].at = "read"
        /\ [reader[s] EXCEPT !.at = "read", !.entry = NoEntry].count = reader[s].count
    BY <1>1 DEF Reader
  <2>. QED  BY <2>1 DEF DropLine, Release
<1>3. /\ reader' \in [Streams -> Reader]
      /\ \A t \in Streams : reader'[t].count = reader[t].count /\ Held(t)' \subseteq Held(t)
  BY <1>1, <1>2, ReaderIs
<1>4. Waiting' \subseteq Waiting /\ Moving' \subseteq Moving
  <2>1. UNION {Held(t)' : t \in Streams} \subseteq UNION {Held(t) : t \in Streams}
    BY <1>3
  <2>. QED  BY <1>1, <2>1 DEF Waiting, Moving
<1>5. TypeOK'
  BY <1>1, <1>3 DEF TypeOK, Reader
<1>6. LinesKept'
  BY <1>1 DEF LinesKept
<1>7. Numbered'
  <2>1. \A x \in Moving : x.line.from \in Streams
    BY <1>1, Elements, EntryIs
  <2>2. \A x \in table : x.line = Note \/ x.line.from \in Streams
    BY <1>1, Elements DEF LogRow, Line
  <2>. QED  BY <1>1, <1>3, <1>4, <2>1, <2>2, NumbersKept
<1>8. InOrder'
  BY <1>1, <1>3, <1>4 DEF LogInv, InOrder
<1>9. StoredInOrder'
  BY <1>1, <1>4 DEF LogInv, StoredInOrder
<1>. QED
  BY <1>1, <1>5, <1>6, <1>7, <1>8, <1>9, FollowSame, PartsPrimed DEF PartsInv

\* A reader waits, or comes to its end.
LEMMA ReaderWaits ==
    ASSUME LogInv, NEW s \in Streams, Block(s) \/ EndOutput(s)
    PROVE  LogInv'
<1>1. /\ TypeOK /\ reader[s] \in Reader /\ reader[s].at \in {"send", "read"}
      /\ UNCHANGED <<seq, queue, closed, logger, buf, table, lastId, row, cancelled, follower, printed, gaveUp>>
  BY DEF LogInv, TypeOK, Reader, Block, EndOutput
<1>2. PICK r \in Reader :
        /\ reader' = [reader EXCEPT ![s] = r] /\ r.count = reader[s].count /\ r.entry = reader[s].entry
        /\ r.at \in {"send", "blocked"} <=> reader[s].at \in {"send", "blocked"}
  <2>1. PICK a \in {"blocked", "done"} : /\ reader' = [reader EXCEPT ![s].at = a]
                                         /\ a = "blocked" <=> reader[s].at = "send"
    BY <1>1 DEF Block, EndOutput
  <2>2. [reader[s] EXCEPT !.at = a] \in Reader
        /\ [reader[s] EXCEPT !.at = a].at = a
        /\ [reader[s] EXCEPT !.at = a].count = reader[s].count
        /\ [reader[s] EXCEPT !.at = a].entry = reader[s].entry
    BY <1>1 DEF Reader
  <2>3. reader' = [reader EXCEPT ![s] = [reader[s] EXCEPT !.at = a]]
    BY <2>1
  <2>. QED  BY <1>1, <2>1, <2>2, <2>3
<1>3. /\ reader' \in [Streams -> Reader]
      /\ \A t \in Streams : reader'[t].count = reader[t].count /\ Held(t)' = Held(t)
  <2>1. reader' \in [Streams -> Reader] /\ \A t \in Streams \ {s} : reader'[t] = reader[t] /\ Held(t)' = Held(t)
    BY <1>1, <1>2, ReaderIs
  <2>2. reader'[s] = r /\ Held(s)' = IF r.at \in {"send", "blocked"} THEN {r.entry} ELSE {}
    BY <1>1, <1>2, ReaderIs
  <2>3. Held(s)' = Held(s) /\ reader'[s].count = reader[s].count
    BY <1>2, <2>2 DEF Held
  <2>. QED  BY <2>1, <2>3
<1>4. TypeOK'
  BY <1>1, <1>3 DEF TypeOK, Reader
<1>. QED
  BY <1>1, <1>3, <1>4, PipeSame, FollowSame, PartsPrimed DEF PartsInv

LEMMA CloseKeeps == LogInv /\ Close => LogInv'
<1>. SUFFICES ASSUME LogInv, Close PROVE LogInv'
  OBVIOUS
<1>1. TypeOK'
  BY DEF LogInv, TypeOK, Close
<1>2. /\ UNCHANGED <<reader, seq, queue, buf, table, lastId, row, cancelled, gaveUp, follower, printed, logger>>
      /\ \A s \in Streams : Held(s)' = Held(s)
  BY DEF Close, Held
<1>. QED  BY <1>1, <1>2, PipeSame, FollowSame, PartsPrimed DEF PartsInv
-----------------------------------------------------------------------------
(* The logger.                                                             *)

\* The logger goes on without a line, or fails to store its batch.
LEMMA LoggerGoesOn ==
    ASSUME LogInv, StartFlush \/ StartDrain \/ DrainFlush \/ DrainEnds \/ FlushFails
    PROVE  LogInv'
<1>1. /\ UNCHANGED <<reader, seq, queue, closed, buf, table, lastId, row, cancelled, follower, printed>>
      /\ logger # "done" /\ logger' \in {"loop", "flush", "drain", "last", "done"}
      /\ gaveUp' \in BOOLEAN /\ (gaveUp => gaveUp')
  BY DEF LogInv, TypeOK, StartFlush, StartDrain, DrainFlush, DrainEnds, FlushFails
<1>2. TypeOK'
  BY <1>1 DEF LogInv, TypeOK
<1>3. \A s \in Streams : Held(s)' = Held(s)
  BY <1>1 DEF Held
<1>. QED  BY <1>1, <1>2, <1>3, PipeSame, FollowSame, PartsPrimed DEF PartsInv

\* The first line of the queue becomes the last one of the batch.
LEMMA ReceiveKeeps == LogInv /\ Receive => LogInv'
<1>. SUFFICES ASSUME LogInv, Receive PROVE LogInv'
  OBVIOUS
<1>1. /\ TypeOK /\ Numbered /\ queue \in Seq(Entry) /\ buf \in Seq(Entry) /\ queue # <<>>
      /\ BatchSize \in Nat /\ Len(buf) < BatchSize /\ logger # "done"
      /\ UNCHANGED <<reader, seq, closed, logger, table, lastId, row, cancelled, follower, printed, gaveUp>>
  BY LogAssumption DEF LogInv, TypeOK, Receive
<1>2. PICK h : h = Head(queue)
  OBVIOUS
<1>3. /\ h \in Entry /\ queue' \in Seq(Entry) /\ Len(queue') = Len(queue) - 1 /\ Len(queue) \in Nat \ {0}
      /\ DOMAIN queue = 1..Len(queue) /\ DOMAIN queue' = 1..Len(queue) - 1 /\ h = queue[1]
      /\ \A i \in DOMAIN queue' : i + 1 \in DOMAIN queue /\ queue'[i] = queue[i + 1]
      /\ ToSet(queue) = {h} \cup ToSet(queue')
  BY <1>1, <1>2, TailIs DEF Receive
<1>4. /\ buf' \in Seq(Entry) /\ Len(buf') = Len(buf) + 1 /\ ToSet(buf') = ToSet(buf) \cup {h}
      /\ DOMAIN buf' = 1..Len(buf) + 1 /\ DOMAIN buf = 1..Len(buf) /\ Len(buf) \in Nat
      /\ \A i \in DOMAIN buf : buf'[i] = buf[i]
      /\ buf'[Len(buf) + 1] = h
  <2>1. buf' = Append(buf, h)
    BY <1>2 DEF Receive
  <2>. QED  BY <1>1, <1>3, <2>1, AppendIs
<1>5. \A s \in Streams : Held(s)' = Held(s)
  BY <1>1 DEF Held
<1>6. Moving' = Moving /\ Waiting = Waiting' \cup {h}
  BY <1>1, <1>3, <1>4, <1>5 DEF Moving, Waiting
<1>7. TypeOK'
  BY <1>1, <1>3, <1>4, LogAssumption DEF TypeOK
<1>8. LinesKept'
  BY <1>1, <1>6, LinesAreKept DEF LogInv
<1>9. Numbered'
  <2>1. \A x \in Moving : x.line.from \in Streams
    BY <1>1, Elements, EntryIs
  <2>2. \A x \in table : x.line = Note \/ x.line.from \in Streams
    BY <1>1, Elements DEF LogRow, Line
  <2>. QED  BY <1>1, <1>5, <1>6, <2>1, <2>2, NumbersKept
<1>10. \A y \in Waiting' : Before(h.line, y.line)
  <2>. SUFFICES ASSUME NEW y \in Waiting' PROVE Before(h.line, y.line)
    OBVIOUS
  <2>1. CASE y \in ToSet(queue')
    <3>1. PICK i \in DOMAIN queue' : y = queue[i + 1] /\ i + 1 \in DOMAIN queue /\ 1 < i + 1
      BY <1>3, <2>1 DEF ToSet
    <3>2. 1 \in DOMAIN queue
      BY <1>3
    <3>. QED  BY <1>3, <3>1, <3>2 DEF LogInv, InOrder
  <2>2. CASE \E s \in Streams : y \in Held(s)
    BY <1>3, <2>2 DEF LogInv, InOrder
  <2>. QED  BY <1>5, <2>1, <2>2 DEF Waiting
<1>11. InOrder'
  <2>1. ASSUME NEW i \in DOMAIN queue', NEW j \in DOMAIN queue', i < j
        PROVE  Before(queue'[i].line, queue'[j].line)
    <3>1. i + 1 < j + 1
      BY <1>3, <2>1
    <3>. QED  BY <1>3, <2>1, <3>1 DEF LogInv, InOrder
  <2>2. ASSUME NEW i \in DOMAIN buf', NEW j \in DOMAIN buf', i < j
        PROVE  Before(buf'[i].line, buf'[j].line)
    <3>1. CASE j \in DOMAIN buf
      <4>1. i \in DOMAIN buf
        BY <1>4, <2>2, <3>1
      <4>. QED  BY <1>4, <2>2, <3>1, <4>1 DEF LogInv, InOrder
    <3>2. CASE j = Len(buf) + 1
      <4>1. i \in DOMAIN buf /\ buf[i] \in ToSet(buf) /\ h \in Waiting
        BY <1>4, <1>6, <2>2, <3>2 DEF ToSet
      <4>. QED  BY <1>4, <3>2, <4>1 DEF LogInv, InOrder
    <3>. QED  BY <1>4, <2>2, <3>1, <3>2
  <2>3. \A x \in ToSet(buf'), y \in Waiting' : Before(x.line, y.line)
    BY <1>4, <1>6, <1>10 DEF LogInv, InOrder
  <2>4. \A x \in ToSet(queue'), s \in Streams : \A y \in Held(s)' : Before(x.line, y.line)
    BY <1>3, <1>5 DEF LogInv, InOrder
  <2>. QED  BY <2>1, <2>2, <2>3, <2>4 DEF InOrder, ToSet
<1>12. StoredInOrder'
  <2>1. \A r \in table, x \in ToSet(buf') : Before(r.line, x.line) \/ \E q \in table : q.line = x.line
    BY <1>4, <1>6 DEF LogInv, StoredInOrder
  <2>2. \A r \in table, x \in Waiting' : Before(r.line, x.line)
    BY <1>6 DEF LogInv, StoredInOrder
  <2>3. /\ \A r \in table : r.id \in 1..lastId
        /\ \A r, q \in table :
             /\ r.id = q.id => r = q
             /\ r.id < q.id => Before(r.line, q.line) /\ r.line # Note
    BY DEF LogInv, StoredInOrder
  <2>. QED  BY <1>1, <2>1, <2>2, <2>3 DEF StoredInOrder, ToSet
<1>. QED
  BY <1>1, <1>7, <1>8, <1>9, <1>11, <1>12, FollowSame, PartsPrimed DEF PartsInv

\* The ids of a batch grow with the positions of its lines.
LEMMA Ranks ==
    ASSUME TypeOK
    PROVE  /\ IsFiniteSet(Fresh(buf)) /\ Cardinality(Fresh(buf)) \in Nat
           /\ \A i \in Fresh(buf) : Rank(i) \in 1..Cardinality(Fresh(buf))
           /\ \A i, j \in Fresh(buf) : i < j => Rank(i) < Rank(j)
<1>1. PICK n \in Nat : DOMAIN buf = 1..n
  BY DEF TypeOK
<1>2. Fresh(buf) \subseteq 1..n /\ \A i \in Fresh(buf) : i \in Int
  BY <1>1 DEF Fresh
<1>3. IsFiniteSet(1..n)
  BY FS_Interval
<1>4. IsFiniteSet(Fresh(buf)) /\ Cardinality(Fresh(buf)) \in Nat
  BY <1>2, <1>3, FS_Subset, FS_CardinalityType
<1>5. ASSUME NEW i \in Fresh(buf)
      PROVE  /\ IsFiniteSet({k \in Fresh(buf) : k <= i})
             /\ Rank(i) \in 1..Cardinality(Fresh(buf)) /\ Rank(i) \in Nat
  <2>1. /\ {k \in Fresh(buf) : k <= i} \in SUBSET Fresh(buf)
        /\ i \in {k \in Fresh(buf) : k <= i}
    BY <1>2
  <2>2. /\ IsFiniteSet({k \in Fresh(buf) : k <= i}) /\ Rank(i) <= Cardinality(Fresh(buf))
    BY <1>4, <2>1, FS_Subset DEF Rank
  <2>3. Rank(i) \in Nat /\ Rank(i) # 0
    BY <2>1, <2>2, FS_CardinalityType, FS_EmptySet DEF Rank
  <2>. QED  BY <1>4, <2>2, <2>3
<1>6. ASSUME NEW i \in Fresh(buf), NEW j \in Fresh(buf), i < j
      PROVE  Rank(i) < Rank(j)
  <2>1. PICK A : A = {k \in Fresh(buf) : k <= i}
    OBVIOUS
  <2>2. PICK B : B = {k \in Fresh(buf) : k <= j}
    OBVIOUS
  <2>3. A \subseteq B /\ j \in B /\ j \notin A
    BY <1>2, <1>6, <2>1, <2>2
  <2>4. IsFiniteSet(B) /\ A # B /\ Rank(i) = Cardinality(A) /\ Rank(j) = Cardinality(B)
    BY <1>5, <2>1, <2>2, <2>3 DEF Rank
  <2>5. Cardinality(A) <= Cardinality(B) /\ Cardinality(A) # Cardinality(B)
    <3>1. A \in SUBSET B
      BY <2>3
    <3>2. Cardinality(B) = Cardinality(A) => B = A
      BY <2>4, <3>1, FS_Subset
    <3>3. Cardinality(A) <= Cardinality(B)
      BY <2>4, <3>1, FS_Subset
    <3>. QED  BY <2>4, <3>2, <3>3
  <2>6. Rank(i) \in Nat /\ Rank(j) \in Nat
    BY <1>5
  <2>. QED  BY <2>4, <2>5, <2>6
<1>. QED  BY <1>4, <1>5, <1>6

\* The batch is stored, all of it or what a statement without an answer has left over.
LEMMA InsertKeeps == LogInv /\ (Flush \/ FlushUnanswered) => LogInv'
<1>. SUFFICES ASSUME LogInv, Flush \/ FlushUnanswered PROVE LogInv'
  OBVIOUS
<1>1. /\ TypeOK /\ Numbered /\ logger \in {"flush", "last"} /\ row # "gone" /\ lastId \in Nat
      /\ logger' \in {"loop", "flush", "drain", "last"}
      /\ (buf' = buf \/ buf' = <<>>)
      /\ UNCHANGED <<reader, seq, queue, closed, row, cancelled, follower, printed, gaveUp>>
  BY DEF LogInv, TypeOK, Flush, FlushUnanswered, InsertLogBatch
<1>2. PICK b \in Seq(Entry) : b = buf
  BY DEF LogInv, TypeOK
<1>3. PICK F : F = Fresh(buf)
  OBVIOUS
<1>4. F = {i \in DOMAIN b : \A r \in table : r.seq # b[i].seq}
  BY <1>2, <1>3 DEF Fresh
<1>5. PICK new : new = [i \in F |-> [id |-> lastId + Rank(i), seq |-> b[i].seq, line |-> b[i].line]]
  OBVIOUS
<1>6. /\ table' = table \cup {new[i] : i \in F} /\ lastId' = lastId + Cardinality(F)
      /\ IsFiniteSet(F) /\ Cardinality(F) \in Nat
      /\ \A i \in F : Rank(i) \in 1..Cardinality(F)
      /\ \A i, j \in F : i < j => Rank(i) < Rank(j)
  BY <1>1, <1>2, <1>3, <1>5, Ranks DEF Flush, FlushUnanswered, InsertLogBatch
<1>7. \A i \in F : /\ i \in DOMAIN b /\ i \in Int /\ b[i] \in ToSet(b) /\ b[i] \in Moving /\ b[i] \in Entry
                   /\ b[i].line \in Line /\ b[i].seq \in 1..MaxLines
  <2>1. PICK n \in Nat : DOMAIN b = 1..n
    OBVIOUS
  <2>. QED  BY <1>2, <1>4, <2>1, EntryIs DEF ToSet, Moving
<1>8. \A i \in F : /\ new[i] \in LogRow /\ new[i].id \in lastId + 1 .. lastId'
                   /\ new[i].id = lastId + Rank(i) /\ new[i].seq = b[i].seq /\ new[i].line = b[i].line
  <2>. SUFFICES ASSUME NEW i \in F
                PROVE  /\ new[i] \in LogRow /\ new[i].id \in lastId + 1 .. lastId'
                       /\ new[i].id = lastId + Rank(i) /\ new[i].seq = b[i].seq /\ new[i].line = b[i].line
    OBVIOUS
  <2>1. new[i] = [id |-> lastId + Rank(i), seq |-> b[i].seq, line |-> b[i].line]
    BY <1>5
  <2>2. lastId + Rank(i) \in Nat /\ lastId + Rank(i) \in lastId + 1 .. lastId'
    BY <1>1, <1>6
  <2>3. b[i].seq \in 1..NullSeq
    BY <1>7, LogAssumption DEF NullSeq
  <2>. QED  BY <1>7, <2>1, <2>2, <2>3 DEF LogRow
<1>9. lastId' \in Nat /\ lastId <= lastId'
  BY <1>1, <1>6
\* A fresh line is nobody's in the table, and comes after those of its stream.
<1>10. \A i \in F, r \in table : r.line # b[i].line /\ Before(r.line, b[i].line) /\ r.line # Note
  <2>. SUFFICES ASSUME NEW i \in F, NEW r \in table
                PROVE  r.line # b[i].line /\ Before(r.line, b[i].line) /\ r.line # Note
    OBVIOUS
  <2>1. \A q \in table : q.line # b[i].line
    BY <1>1, <1>4, <1>7 DEF Numbered
  <2>2. b[i] \in ToSet(buf)
    BY <1>2, <1>7
  <2>3. Before(r.line, b[i].line)
    BY <2>1, <2>2 DEF LogInv, StoredInOrder
  <2>4. r.line # Note
    BY <1>1 DEF LogInv, OutcomeLast
  <2>. QED  BY <2>1, <2>3, <2>4
<1>11. /\ \A s \in Streams : Held(s)' = Held(s)
       /\ Waiting' = Waiting /\ Moving' \subseteq Moving
  <2>1. \A s \in Streams : Held(s)' = Held(s)
    BY <1>1 DEF Held
  <2>2. ToSet(buf') \subseteq ToSet(buf)
    BY <1>1 DEF ToSet
  <2>. QED  BY <1>1, <2>1, <2>2 DEF Waiting, Moving
<1>12. TypeOK'
  <2>1. IsFiniteSet(table')
    <3>1. new \in Surjection(F, {new[i] : i \in F})
      BY <1>5 DEF Surjection
    <3>2. IsFiniteSet({new[i] : i \in F})
      BY <1>6, <3>1, FS_Surjection
    <3>. QED  BY <1>1, <1>6, <3>2, FS_Union DEF TypeOK
  <2>2. table' \subseteq LogRow
    BY <1>1, <1>6, <1>8 DEF TypeOK
  <2>3. buf' \in Seq(Entry) /\ Len(buf') <= BatchSize
    <3>1. BatchSize \in Nat
      BY LogAssumption
    <3>2. buf \in Seq(Entry) /\ Len(buf) <= BatchSize
      BY <1>1 DEF TypeOK
    <3>3. <<>> \in Seq(Entry) /\ Len(<<>>) <= BatchSize
      BY <3>1
    <3>4. CASE buf' = buf
      BY <3>2, <3>4
    <3>5. CASE buf' = <<>>
      BY <3>3, <3>5
    <3>. QED  BY <1>1, <3>4, <3>5
  <2>. QED  BY <1>1, <1>9, <2>1, <2>2, <2>3 DEF TypeOK
<1>13. LinesKept'
  <2>1. ASSUME NEW x \in table \cup Moving
        PROVE  \E y \in (table \cup Moving)' : y.line = x.line
    <3>1. CASE x \in table \/ x \in Waiting
      BY <1>6, <1>11, <3>1 DEF Moving
    <3>2. CASE x \in ToSet(buf)
      <4>1. PICK i \in DOMAIN b : x = b[i]
        BY <1>2, <3>2 DEF ToSet
      <4>2. CASE i \in F
        BY <1>6, <1>8, <4>1, <4>2
      <4>3. CASE i \notin F
        <5>1. PICK r \in table : r.seq = x.seq
          BY <1>4, <4>1, <4>3
        <5>2. r.line = x.line
          BY <1>1, <5>1 DEF Numbered
        <5>. QED  BY <1>6, <5>2
      <4>. QED  BY <4>2, <4>3
    <3>. QED  BY <3>1, <3>2 DEF Moving
  <2>. QED  BY <1>1, <2>1, LinesAreKept DEF LogInv
<1>14. Numbered'
  <2>1. \A x \in (table \cup Moving)' : \E y \in table \cup Moving : y.seq = x.seq /\ y.line = x.line
    BY <1>6, <1>7, <1>8, <1>11
  <2>2. \A x \in Moving : x.line.from \in Streams
    BY <1>1, Elements, EntryIs
  <2>3. \A x \in table : x.line = Note \/ x.line.from \in Streams
    BY <1>1, Elements DEF LogRow, Line
  <2>. QED  BY <1>1, <1>11, <2>1, <2>2, <2>3, NumbersKept
<1>15. InOrder'
  <2>1. \A i, j \in DOMAIN buf' : i < j => Before(buf'[i].line, buf'[j].line)
    BY <1>1 DEF LogInv, InOrder
  <2>2. \A x \in ToSet(buf'), y \in Waiting' : Before(x.line, y.line)
    BY <1>1, <1>11 DEF LogInv, InOrder, ToSet
  <2>3. /\ \A i, j \in DOMAIN queue' : i < j => Before(queue'[i].line, queue'[j].line)
        /\ \A x \in ToSet(queue'), s \in Streams : \A y \in Held(s)' : Before(x.line, y.line)
    BY <1>1, <1>11 DEF LogInv, InOrder
  <2>. QED  BY <2>1, <2>2, <2>3 DEF InOrder, ToSet
<1>16. \A r \in table' : r \in table \/ \E i \in F : r = new[i]
  BY <1>6
<1>17. StoredInOrder'
  <2>1. \A r \in table' : r.id \in 1..lastId'
    <3>1. \A r \in table : r.id \in 1..lastId'
      BY <1>1, <1>9 DEF LogInv, StoredInOrder
    <3>2. \A i \in F : new[i].id \in 1..lastId'
      BY <1>1, <1>8, <1>9
    <3>. QED  BY <1>16, <3>1, <3>2
  <2>2. ASSUME NEW r \in table', NEW q \in table'
        PROVE  /\ r.id = q.id => r = q
               /\ r.id < q.id => Before(r.line, q.line) /\ r.line # Note
    <3>1. CASE r \in table /\ q \in table
      BY <3>1 DEF LogInv, StoredInOrder
    <3>2. CASE r \in table /\ \E i \in F : q = new[i]
      <4>1. PICK i \in F : q = new[i]
        BY <3>2
      <4>2. r.id \in 1..lastId
        BY <3>2 DEF LogInv, StoredInOrder
      <4>3. r.id # q.id
        BY <1>1, <1>8, <4>1, <4>2
      <4>. QED  BY <1>8, <1>10, <3>2, <4>1, <4>3
    <3>3. CASE (\E i \in F : r = new[i]) /\ q \in table
      <4>1. PICK i \in F : r = new[i]
        BY <3>3
      <4>2. q.id \in 1..lastId
        BY <3>3 DEF LogInv, StoredInOrder
      <4>3. r.id # q.id /\ ~(r.id < q.id)
        BY <1>1, <1>8, <4>1, <4>2
      <4>. QED  BY <4>3
    <3>4. CASE \E i, j \in F : r = new[i] /\ q = new[j]
      <4>1. PICK i \in F, j \in F : r = new[i] /\ q = new[j]
        BY <3>4
      <4>2. i \in Int /\ j \in Int /\ Rank(i) \in Nat /\ Rank(j) \in Nat /\ r.line # Note
        <5>1. i \in Int /\ j \in Int /\ Rank(i) \in Nat /\ Rank(j) \in Nat
          BY <1>6, <1>7
        <5>2. b[i].line # Note
          BY <1>7, EntryIs
        <5>. QED  BY <1>8, <4>1, <5>1, <5>2
      <4>3. CASE i = j
        BY <1>1, <1>8, <4>1, <4>2, <4>3
      <4>4. CASE i < j
        <5>1. r.id # q.id
          BY <1>1, <1>6, <1>8, <4>1, <4>2, <4>4, SMTT(30)
        <5>2. Before(b[i].line, b[j].line)
          BY <1>2, <1>7, <4>4 DEF LogInv, InOrder
        <5>. QED  BY <1>8, <4>1, <4>2, <5>1, <5>2
      <4>5. CASE j < i
        <5>1. r.id # q.id /\ ~(r.id < q.id)
          BY <1>1, <1>6, <1>8, <4>1, <4>2, <4>5, SMTT(30)
        <5>. QED  BY <5>1
      <4>. QED  BY <4>2, <4>3, <4>4, <4>5
    <3>. QED  BY <1>16, <3>1, <3>2, <3>3, <3>4
  <2>3. \A r \in table', x \in Waiting' : Before(r.line, x.line)
    <3>1. \A i \in F, x \in Waiting : Before(b[i].line, x.line)
      BY <1>2, <1>7 DEF LogInv, InOrder
    <3>. QED  BY <1>8, <1>11, <1>16, <3>1 DEF LogInv, StoredInOrder
  <2>4. ASSUME NEW r \in table', NEW x \in ToSet(buf')
        PROVE  \E q \in table' : q.line = x.line
    <3>1. PICK i \in DOMAIN b : x = b[i]
      BY <1>1, <1>2, <2>4 DEF ToSet
    <3>2. CASE i \in F
      BY <1>6, <1>8, <3>1, <3>2
    <3>3. CASE i \notin F
      <4>1. PICK q \in table : q.seq = x.seq
        BY <1>4, <3>1, <3>3
      <4>2. x \in Moving
        BY <1>2, <3>1 DEF Moving, ToSet
      <4>3. q.line = x.line
        BY <1>1, <4>1, <4>2 DEF Numbered
      <4>. QED  BY <1>6, <4>3
    <3>. QED  BY <3>2, <3>3
  <2>. QED  BY <2>1, <2>2, <2>3, <2>4 DEF StoredInOrder, ToSet
<1>18. OutcomeLast'
  <2>1. \A i \in F : new[i].line # Note
    BY <1>7, <1>8, LogAssumption DEF Line, Note
  <2>. QED  BY <1>1, <1>16, <2>1 DEF LogInv, OutcomeLast
<1>19. FollowerRight'
  <2>1. follower.last \in Nat /\ follower.last <= lastId
    BY <1>1 DEF LogInv, TypeOK, FollowerRight
  <2>2. \A i \in F : ~(new[i].id <= follower.last)
    BY <1>1, <1>8, <2>1
  <2>3. follower.last <= lastId'
    BY <1>1, <1>9, <2>1
  <2>. QED  BY <1>1, <1>16, <2>2, <2>3 DEF LogInv, FollowerRight, ToSet
<1>20. PrintedRight'
  <2>1. \A l \in ToSet(printed) : \E r \in table : r.line = l
    BY <1>1 DEF LogInv, PrintedRight
  <2>2. ASSUME NEW i \in DOMAIN printed, NEW k \in F, new[k].line.from = printed[i].from
        PROVE  ~(new[k].line.n < printed[i].n)
    <3>1. PICK q \in table : q.line = printed[i]
      BY <2>1 DEF ToSet
    <3>2. Before(q.line, b[k].line)
      BY <1>10
    <3>3. q.line.n \in Nat /\ b[k].line.n \in Nat
      BY <1>1, <1>7, Elements, EntryIs
    <3>. QED  BY <1>8, <2>2, <3>1, <3>2, <3>3 DEF Before
  <2>3. \A k \in F : new[k].line \notin ToSet(printed)
    BY <1>8, <1>10, <2>1
  <2>4. \A i \in DOMAIN printed : \A r \in table' :
          r.line.from = printed[i].from /\ r.line.n < printed[i].n => \E k \in 1..i : printed[k] = r.line
    BY <1>16, <2>2 DEF LogInv, PrintedRight
  <2>5. OneStream => \A r \in table' : r.line \in ToSet(printed) => r.id <= follower.last
    BY <1>16, <2>3 DEF LogInv, PrintedRight
  <2>6. \A l \in ToSet(printed) : \E r \in table' : r.line = l
    BY <1>6, <2>1
  <2>7. OneStream' <=> OneStream
    BY <1>1 DEF OneStream, ToSet
  <2>. QED  BY <1>1, <2>4, <2>5, <2>6, <2>7 DEF PrintedRight, ToSet
<1>. QED
  BY <1>12, <1>13, <1>14, <1>15, <1>17, <1>18, <1>19, <1>20, PartsPrimed DEF PartsInv

\* A step that touches only the row of the task, the cancellation and the follower.
LEMMA TaskSame ==
    ASSUME LogInv, UNCHANGED <<output, table, lastId>>,
           cancelled => cancelled', row = "gone" => row' = "gone"
    PROVE  LinesKept' /\ Numbered' /\ InOrder' /\ StoredInOrder'
<1>1. UNCHANGED <<reader, seq, queue, buf, table, lastId, gaveUp>>
  BY DEF output
<1>2. \A s \in Streams : Held(s)' = Held(s) /\ reader'[s].count = reader[s].count
  BY <1>1 DEF Held
<1>. QED  BY <1>1, <1>2, PipeSame

\* The outcome is stored, or the cancellation asked for.
LEMMA CompleteKeeps == LogInv /\ (Complete \/ Cancel) => LogInv'
<1>. SUFFICES ASSUME LogInv, Complete \/ Cancel PROVE LogInv'
  OBVIOUS
<1>1. /\ TypeOK /\ UNCHANGED <<output, table, lastId, follower, printed>>
      /\ cancelled' \in BOOLEAN /\ (cancelled => cancelled')
      /\ (row' = row \/ (row = "running" /\ row' = "ended" /\ logger = "done"))
  BY DEF LogInv, TypeOK, Complete, Cancel
<1>2. TypeOK'
  BY <1>1 DEF TypeOK, output
<1>3. LinesKept' /\ Numbered' /\ InOrder' /\ StoredInOrder'
  BY <1>1, TaskSame
<1>4. OutcomeLast' /\ FollowerRight' /\ PrintedRight'
  <2>1. OutcomeLast'
    BY <1>1 DEF LogInv, OutcomeLast, output
  <2>2. FollowerRight'
    BY <1>1 DEF LogInv, FollowerRight, ToSet
  <2>3. OneStream' <=> OneStream
    BY <1>1 DEF OneStream, ToSet
  <2>4. row' # "gone" => row # "gone"
    BY <1>1
  <2>5. PrintedRight'
    BY <1>1, <2>3, <2>4 DEF LogInv, PrintedRight, ToSet
  <2>. QED  BY <2>1, <2>2, <2>5
<1>. QED  BY <1>2, <1>3, <1>4, PartsPrimed DEF PartsInv

\* The lines go with their task.
LEMMA RemoveKeeps == LogInv /\ RemoveRow => LogInv'
<1>. SUFFICES ASSUME LogInv, RemoveRow PROVE LogInv'
  OBVIOUS
<1>1. /\ TypeOK /\ Numbered /\ table' = {} /\ row' = "gone"
      /\ UNCHANGED <<reader, seq, queue, closed, logger, buf, gaveUp, lastId, cancelled, follower, printed>>
  BY DEF LogInv, RemoveRow, output
<1>2. TypeOK'
  BY <1>1, FS_EmptySet DEF TypeOK
<1>3. /\ \A s \in Streams : Held(s)' = Held(s)
      /\ Moving' = Moving /\ Waiting' = Waiting
  BY <1>1 DEF Held, Moving, Waiting, ToSet
<1>4. LinesKept'
  BY <1>1 DEF LinesKept
<1>5. Numbered'
  <2>1. \A x \in Moving : x.line.from \in Streams
    BY <1>1, Elements, EntryIs
  <2>2. \A x \in table : x.line = Note \/ x.line.from \in Streams
    BY <1>1, Elements DEF LogRow, Line
  <2>. QED  BY <1>1, <1>3, <2>1, <2>2, NumbersKept
<1>6. InOrder'
  BY <1>1, <1>3 DEF LogInv, InOrder, ToSet
<1>7. StoredInOrder'
  BY <1>1 DEF StoredInOrder
<1>8. OutcomeLast'
  BY <1>1 DEF OutcomeLast
<1>9. FollowerRight'
  BY <1>1 DEF LogInv, FollowerRight
<1>10. PrintedRight'
  BY <1>1 DEF PrintedRight
<1>. QED
  BY <1>2, <1>4, <1>5, <1>6, <1>7, <1>8, <1>9, <1>10, PartsPrimed DEF PartsInv

\* The note has the largest id, and no number.
LEMMA NoteKeeps == LogInv /\ AddNote => LogInv'
<1>. SUFFICES ASSUME LogInv, AddNote PROVE LogInv'
  OBVIOUS
<1>1. PICK r : r = [id |-> lastId + 1, seq |-> NullSeq, line |-> Note]
  OBVIOUS
<1>2. /\ TypeOK /\ Numbered /\ row = "ended" /\ \A q \in table : q.line # Note
      /\ table' = table \cup {r} /\ lastId' = lastId + 1 /\ lastId \in Nat /\ seq \in 0..MaxLines
      /\ UNCHANGED <<reader, seq, queue, closed, logger, buf, gaveUp, row, cancelled, follower, printed>>
      /\ MaxLines \in Nat /\ r.id = lastId + 1 /\ r.seq = NullSeq /\ r.line = Note
  BY <1>1, LogAssumption DEF LogInv, TypeOK, AddNote, output
<1>3. /\ \A s \in Streams : Held(s)' = Held(s)
      /\ Moving' = Moving /\ Waiting' = Waiting
  BY <1>2 DEF Held, Moving, Waiting, ToSet
<1>4. \A x \in Moving : x.line # Note /\ x.seq \in 1..MaxLines /\ x.line.from \in Streams
  BY <1>2, Elements, EntryIs
<1>5. \A q \in table : q.line # Note /\ q.line.from \in Streams /\ q.seq \in Nat /\ q.seq <= seq
  BY <1>2, Elements DEF LogRow, Line, Numbered
<1>6. TypeOK'
  <2>1. r \in LogRow
    BY <1>1, <1>2 DEF LogRow, NullSeq
  <2>2. IsFiniteSet(table')
    BY <1>2, FS_AddElement DEF TypeOK
  <2>. QED  BY <1>2, <2>1, <2>2 DEF TypeOK
<1>7. LinesKept'
  BY <1>2, <1>3, LinesAreKept DEF LogInv
<1>8. \A x \in table \cup Moving :
         /\ x.seq # r.seq /\ ~(r.seq < x.seq) /\ x.line # r.line
         /\ Before(x.line, r.line) /\ Before(r.line, x.line)
  <2>1. \A x \in table \cup Moving : x.seq < r.seq /\ x.seq \in Nat
    BY <1>2, <1>4, <1>5 DEF NullSeq
  <2>2. \A x \in table \cup Moving : x.line.from # r.line.from
    BY <1>2, <1>4, <1>5, LogAssumption DEF Note
  <2>3. NullSeq \in Nat
    BY <1>2 DEF NullSeq
  <2>. QED  BY <1>2, <1>4, <1>5, <2>1, <2>2, <2>3 DEF Before
<1>9. Numbered'
  <2>1. ASSUME NEW x \in (table \cup Moving)'
        PROVE  IF x.line = Note THEN x.seq = NullSeq
               ELSE x.seq <= seq' /\ x.line.n <= reader'[x.line.from].count
    BY <1>2, <1>3, <2>1 DEF Numbered
  <2>2. ASSUME NEW x \in (table \cup Moving)', NEW y \in (table \cup Moving)'
        PROVE  /\ x.seq = y.seq <=> x.line = y.line
               /\ x.seq < y.seq => Before(x.line, y.line)
    <3>1. CASE x \in table \cup Moving /\ y \in table \cup Moving
      BY <1>2, <3>1 DEF Numbered
    <3>2. CASE x \in table \cup Moving /\ y = r
      BY <1>8, <3>2
    <3>3. CASE x = r /\ y \in table \cup Moving
      BY <1>8, <3>3
    <3>4. CASE x = r /\ y = r
      BY <1>2, <3>4 DEF NullSeq
    <3>. QED  BY <1>2, <1>3, <2>2, <3>1, <3>2, <3>3, <3>4
  <2>3. \A s \in Streams : reader'[s].count <= seq' /\ \A x \in Held(s)' : x.line.from = s
    BY <1>2, <1>3 DEF Numbered
  <2>. QED  BY <2>1, <2>2, <2>3 DEF Numbered
<1>10. InOrder'
  BY <1>2, <1>3 DEF LogInv, InOrder, ToSet
<1>11. StoredInOrder'
  <2>1. \A q \in table : q.id \in 1..lastId /\ q.id < r.id
    BY <1>2 DEF LogInv, StoredInOrder
  <2>2. \A q \in table' : q.id \in 1..lastId'
    BY <1>2, <2>1
  <2>3. ASSUME NEW p \in table', NEW q \in table'
        PROVE  /\ p.id = q.id => p = q
               /\ p.id < q.id => Before(p.line, q.line) /\ p.line # Note
    <3>1. CASE p \in table /\ q \in table
      BY <3>1 DEF LogInv, StoredInOrder
    <3>2. CASE p \in table /\ q = r
      BY <1>2, <1>8, <2>1, <3>2
    <3>3. CASE p = r /\ q \in table
      BY <1>2, <2>1, <3>3
    <3>4. CASE p = r /\ q = r
      BY <1>2, <3>4
    <3>. QED  BY <1>2, <3>1, <3>2, <3>3, <3>4
  <2>4. \A q \in table', x \in Waiting' : Before(q.line, x.line)
    <3>1. \A x \in Waiting : Before(r.line, x.line)
      BY <1>8 DEF Moving
    <3>. QED  BY <1>2, <1>3, <3>1 DEF LogInv, StoredInOrder
  <2>5. \A q \in table', x \in ToSet(buf') : Before(q.line, x.line) \/ \E p \in table' : p.line = x.line
    <3>1. \A x \in ToSet(buf) : Before(r.line, x.line)
      BY <1>8 DEF Moving
    <3>2. \A q \in table, x \in ToSet(buf) : Before(q.line, x.line) \/ \E p \in table : p.line = x.line
      BY DEF LogInv, StoredInOrder
    <3>. QED  BY <1>2, <3>1, <3>2
  <2>. QED  BY <2>2, <2>3, <2>4, <2>5 DEF StoredInOrder, ToSet
<1>12. OutcomeLast'
  BY <1>2 DEF LogInv, OutcomeLast
<1>13. FollowerRight'
  <2>1. follower.last \in Nat /\ follower.last <= lastId
    BY <1>2 DEF LogInv, TypeOK, FollowerRight
  <2>2. ~(r.id <= follower.last) /\ follower.last <= lastId'
    BY <1>2, <2>1
  <2>. QED  BY <1>2, <2>2 DEF LogInv, FollowerRight, ToSet
<1>14. PrintedRight'
  <2>1. \A l \in ToSet(printed) : \E q \in table : q.line = l
    BY <1>2 DEF LogInv, PrintedRight
  <2>2. r.line \notin ToSet(printed)
    BY <1>2, <2>1
  <2>3. \A i \in DOMAIN printed : r.line.from # printed[i].from
    <3>1. \A i \in DOMAIN printed : printed[i].from \in Streams
      BY <1>5, <2>1 DEF ToSet
    <3>. QED  BY <1>2, <3>1, LogAssumption DEF Note
  <2>4. \A i \in DOMAIN printed : \A q \in table' :
          q.line.from = printed[i].from /\ q.line.n < printed[i].n => \E k \in 1..i : printed[k] = q.line
    BY <1>2, <2>3 DEF LogInv, PrintedRight
  <2>5. OneStream => \A q \in table' : q.line \in ToSet(printed) => q.id <= follower.last
    BY <1>2, <2>2 DEF LogInv, PrintedRight
  <2>6. \A l \in ToSet(printed) : \E q \in table' : q.line = l
    BY <1>2, <2>1
  <2>7. OneStream' <=> OneStream
    BY <1>2 DEF OneStream, ToSet
  <2>. QED  BY <1>2, <2>4, <2>5, <2>6, <2>7 DEF PrintedRight, ToSet
<1>. QED
  BY <1>6, <1>7, <1>9, <1>10, <1>11, <1>12, <1>13, <1>14, PartsPrimed DEF PartsInv

\* The follower reads the status, fails, or asks for the cancellation.
LEMMA FollowerWaits == LogInv /\ (NotFound \/ ReadStatus \/ Interrupt) => LogInv'
<1>. SUFFICES ASSUME LogInv, NotFound \/ ReadStatus \/ Interrupt PROVE LogInv'
  OBVIOUS
<1>1. /\ TypeOK /\ UNCHANGED <<output, table, lastId, row, printed>>
      /\ cancelled' \in BOOLEAN /\ (cancelled => cancelled')
      /\ follower'.last = follower.last
      /\ follower' \in FollowerType
      /\ follower'.at \notin {"done", "open"}
      /\ follower'.saw = "ended" => row # "running"
  BY DEF LogInv, TypeOK, FollowerType, FollowerRight, Derived, NotFound, ReadStatus, Interrupt
<1>2. TypeOK'
  BY <1>1 DEF TypeOK, FollowerType, output
<1>3. LinesKept' /\ Numbered' /\ InOrder' /\ StoredInOrder'
  BY <1>1, TaskSame
<1>4. OutcomeLast'
  BY <1>1 DEF LogInv, OutcomeLast, output
<1>5. FollowerRight'
  BY <1>1 DEF LogInv, FollowerRight, ToSet
<1>6. PrintedRight'
  <2>1. OneStream' <=> OneStream
    BY <1>1 DEF OneStream, ToSet
  <2>. QED  BY <1>1, <2>1 DEF LogInv, PrintedRight, ToSet
<1>. QED  BY <1>2, <1>3, <1>4, <1>5, <1>6, PartsPrimed DEF PartsInv
-----------------------------------------------------------------------------
(* The follower.                                                           *)

\* A query returns every row after the last ID, once, and in the order of the numbers.
LEMMA RowsAre ==
    ASSUME LogInv, NEW after \in Nat, NEW rows \in Stored(after)
    PROVE  /\ rows \in Seq(table) /\ DOMAIN rows = 1..Len(rows) /\ Len(rows) \in Nat
           /\ \A i \in DOMAIN rows : rows[i] \in After(after) /\ rows[i] \in table /\ rows[i].seq \in Nat
           /\ \A i, j \in DOMAIN rows : i < j <=> rows[i].seq < rows[j].seq
           /\ \A i, j \in DOMAIN rows : rows[i].seq = rows[j].seq => i = j
           /\ \A r \in After(after) : \E i \in DOMAIN rows : rows[i] = r
<1>1. TypeOK /\ Numbered /\ IsFiniteSet(table)
  BY DEF LogInv, TypeOK
<1>2. PICK A : A = After(after)
  OBVIOUS
<1>3. A \subseteq table /\ A \in SUBSET table
  BY <1>2 DEF After
<1>4. IsFiniteSet(A) /\ Cardinality(A) \in Nat
  BY <1>1, <1>3, FS_Subset, FS_CardinalityType
<1>5. PICK n \in Nat : n = Cardinality(A)
  BY <1>4
<1>6. rows \in [1..n -> A] /\ \A i, j \in 1..n : i < j => rows[i].seq < rows[j].seq
  BY <1>2, <1>5 DEF Stored
<1>7. \A i \in 1..n : rows[i] \in A /\ rows[i] \in table /\ rows[i].seq \in Nat
  BY <1>1, <1>3, <1>6, Elements
<1>8. \A i, j \in 1..n : /\ i < j <=> rows[i].seq < rows[j].seq
                         /\ rows[i].seq = rows[j].seq => i = j
  <2>. SUFFICES ASSUME NEW i \in 1..n, NEW j \in 1..n
                PROVE  /\ i < j <=> rows[i].seq < rows[j].seq
                       /\ rows[i].seq = rows[j].seq => i = j
    OBVIOUS
  <2>1. (i < j => rows[i].seq < rows[j].seq) /\ (j < i => rows[j].seq < rows[i].seq)
    BY <1>6
  <2>2. i < j \/ j < i \/ i = j
    OBVIOUS
  <2>. QED  BY <1>7, <2>1, <2>2
<1>9. rows \in Injection(1..n, A)
  BY <1>6, <1>8 DEF Injection, IsInjective
<1>10. Cardinality(1..n) = n
  BY FS_Interval
<1>11. rows \in Surjection(1..n, A)
  BY <1>4, <1>5, <1>9, <1>10, FS_Injection
<1>12. \A r \in A : \E i \in 1..n : rows[i] = r
  BY <1>11 DEF Surjection
<1>13. rows \in Seq(table) /\ DOMAIN rows = 1..n /\ Len(rows) = n
  <2>1. rows \in [1..n -> table]
    BY <1>3, <1>6
  <2>. QED  BY <2>1
<1>. QED  BY <1>2, <1>7, <1>8, <1>12, <1>13

\* What is printed before and after.
LEMMA PrintedIs ==
    ASSUME LogInv, NEW rows \in Seq(table), printed' = printed \o Lines(rows)
    PROVE  /\ printed' \in Seq(Line \cup {Note})
           /\ DOMAIN printed = 1..Len(printed) /\ Len(printed) \in Nat
           /\ DOMAIN rows = 1..Len(rows) /\ Len(rows) \in Nat
           /\ DOMAIN printed' = 1..Len(printed) + Len(rows)
           /\ \A i \in DOMAIN printed : printed'[i] = printed[i]
           /\ \A j \in DOMAIN rows : printed'[Len(printed) + j] = rows[j].line
           /\ \A i \in DOMAIN printed' : i \in DOMAIN printed
                                         \/ \E j \in DOMAIN rows : i = Len(printed) + j
           /\ ToSet(printed') = ToSet(printed) \cup {rows[j].line : j \in DOMAIN rows}
<1>1. printed \in Seq(Line \cup {Note}) /\ table \subseteq LogRow
  BY DEF LogInv, TypeOK
<1>2. PICK m \in Nat : m = Len(printed)
  BY <1>1
<1>3. PICK n \in Nat : n = Len(rows)
  OBVIOUS
<1>4. DOMAIN printed = 1..m /\ DOMAIN rows = 1..n /\ \A j \in 1..n : rows[j].line \in Line \cup {Note}
  BY <1>1, <1>2, <1>3 DEF LogRow
<1>5. PICK L : L = Lines(rows)
  OBVIOUS
<1>6. L = [j \in 1..n |-> rows[j].line]
  BY <1>4, <1>5 DEF Lines
<1>7. L \in Seq(Line \cup {Note}) /\ Len(L) = n /\ \A j \in 1..n : L[j] = rows[j].line
  <2>1. L \in [1..n -> Line \cup {Note}]
    BY <1>4, <1>6
  <2>. QED  BY <1>6, <2>1
<1>8. printed' = printed \o L
  BY <1>5
<1>9. /\ printed' \in Seq(Line \cup {Note}) /\ DOMAIN printed' = 1..m + n
      /\ \A i \in 1..m + n : printed'[i] = IF i <= m THEN printed[i] ELSE L[i - m]
  <2>1. PICK S : S = Line \cup {Note}
    OBVIOUS
  <2>2. printed \in Seq(S) /\ L \in Seq(S)
    BY <1>1, <1>7, <2>1
  <2>3. /\ printed \o L \in Seq(S) /\ DOMAIN (printed \o L) = 1..Len(printed) + Len(L)
        /\ \A i \in 1..Len(printed) + Len(L) :
             (printed \o L)[i] = IF i <= Len(printed) THEN printed[i] ELSE L[i - Len(printed)]
    BY <2>2, ConcatIs, Zenon
  <2>. QED  BY <1>2, <1>7, <1>8, <2>1, <2>3, Zenon
<1>10. \A i \in 1..m : printed'[i] = printed[i]
  <2>1. \A i \in 1..m : i \in 1..m + n /\ i <= m
    OBVIOUS
  <2>. QED  BY <1>9, <2>1
<1>11. \A j \in 1..n : printed'[m + j] = rows[j].line
  <2>1. \A j \in 1..n : m + j \in 1..m + n /\ ~(m + j <= m) /\ (m + j) - m = j
    OBVIOUS
  <2>. QED  BY <1>7, <1>9, <2>1
<1>12. \A i \in 1..m + n : i \in 1..m \/ \E j \in 1..n : i = m + j
  <2>. SUFFICES ASSUME NEW i \in 1..m + n, i \notin 1..m PROVE \E j \in 1..n : i = m + j
    OBVIOUS
  <2>. WITNESS i - m \in 1..n
  <2>. QED  OBVIOUS
<1>13. \A l : l \in ToSet(printed') <=> l \in ToSet(printed) \cup {rows[j].line : j \in 1..n}
  <2>. SUFFICES ASSUME NEW l
                PROVE  l \in ToSet(printed') <=> l \in ToSet(printed) \cup {rows[j].line : j \in 1..n}
    OBVIOUS
  <2>1. l \in ToSet(printed') <=> \E i \in 1..m + n : l = printed'[i]
    BY <1>9 DEF ToSet
  <2>2. l \in ToSet(printed) <=> \E i \in 1..m : l = printed[i]
    BY <1>4 DEF ToSet
  <2>3. (\A i \in 1..m : i \in 1..m + n) /\ (\A j \in 1..n : m + j \in 1..m + n)
    OBVIOUS
  <2>4. ASSUME NEW i \in 1..m + n, l = printed'[i]
        PROVE  l \in ToSet(printed) \cup {rows[j].line : j \in 1..n}
    BY <1>10, <1>11, <1>12, <2>2, <2>4
  <2>5. ASSUME l \in ToSet(printed) \cup {rows[j].line : j \in 1..n}
        PROVE  \E i \in 1..m + n : l = printed'[i]
    <3>1. CASE \E i \in 1..m : l = printed[i]
      BY <1>10, <2>3, <3>1
    <3>2. CASE \E j \in 1..n : l = rows[j].line
      BY <1>11, <2>3, <3>2
    <3>. QED  BY <2>2, <2>5, <3>1, <3>2
  <2>. QED  BY <2>1, <2>4, <2>5
<1>14. ToSet(printed') = ToSet(printed) \cup {rows[j].line : j \in DOMAIN rows}
  BY <1>4, <1>13
<1>15. /\ \A i \in DOMAIN printed' : i \in DOMAIN printed \/ \E j \in DOMAIN rows : i = Len(printed) + j
       /\ \A j \in DOMAIN rows : printed'[Len(printed) + j] = rows[j].line
  BY <1>2, <1>4, <1>9, <1>11, <1>12
<1>. QED  BY <1>2, <1>3, <1>4, <1>9, <1>10, <1>14, <1>15

\* What a follower does that prints: as nextask log, or as it follows on.
Prints(rows) ==
    /\ rows \in Stored(follower.last)
    /\ printed' = printed \o Lines(rows)
    /\ follower' \in FollowerType
    /\ \/ After(follower'.last) = {} /\ follower'.last <= lastId
       \/ rows = <<>> /\ follower'.last = follower.last
       \/ rows # <<>> /\ follower'.last = rows[Len(rows)].id
    /\ follower'.at \notin {"open", "logs"}
    /\ follower'.at = "done" => follower'.saw # "active"
    /\ follower'.saw = "ended" => row # "running"
    /\ UNCHANGED <<output, table, lastId, row, cancelled>>

LEMMA FollowerPrints == LogInv /\ (Open \/ ReadLogs) => \E rows \in Stored(follower.last) : Prints(rows)
<1>. SUFFICES ASSUME LogInv, Open \/ ReadLogs PROVE \E rows \in Stored(follower.last) : Prints(rows)
  OBVIOUS
<1>1. /\ TypeOK /\ FollowerRight /\ StoredInOrder /\ lastId \in Nat
      /\ follower.last \in Nat /\ follower.saw \in {"active", "stale", "ended"}
  BY DEF LogInv, TypeOK
<1>2. CASE ReadLogs
  <2>1. PICK rows \in Stored(follower.last) :
          /\ printed' = printed \o Lines(rows)
          /\ follower' = [at |-> IF follower.saw = "active" THEN "status" ELSE "done",
                          saw |-> follower.saw,
                          last |-> IF rows = <<>> THEN follower.last ELSE Last(rows).id]
    BY <1>2 DEF ReadLogs
  <2>2. rows # <<>> => Last(rows) = rows[Len(rows)] /\ rows[Len(rows)].id \in Nat
    <3>1. rows \in Seq(table) /\ (rows # <<>> => Len(rows) \in DOMAIN rows)
      BY <1>1, RowsAre
    <3>. QED  BY <1>1, <3>1, Elements DEF Last, LogInv
  <2>3. /\ follower'.last = (IF rows = <<>> THEN follower.last ELSE rows[Len(rows)].id)
        /\ follower'.at = (IF follower.saw = "active" THEN "status" ELSE "done") /\ follower'.saw = follower.saw
        /\ follower' \in FollowerType
    BY <1>1, <2>1, <2>2 DEF FollowerType
  <2>4. follower.saw = "ended" => row # "running"
    BY <1>1, <1>2 DEF FollowerRight, ReadLogs
  <2>. QED  BY <1>1, <1>2, <2>1, <2>3, <2>4 DEF Prints, ReadLogs
<1>3. CASE Open
  <2>1. follower.last = 0 /\ printed = <<>>
    BY <1>1, <1>3 DEF FollowerRight, Open
  <2>2. PICK rows \in Stored(0) : printed' = Lines(rows)
    BY <1>3 DEF Open
  <2>3. PICK status \in {"active", "stale"} \cup Derived, last \in {0} \cup {r.id : r \in table} :
          /\ After(last) = {}
          /\ follower' = [at |-> IF status = "active" THEN "status" ELSE "done", saw |-> status, last |-> last]
    BY <1>3 DEF Open
  <2>4. last \in Nat /\ last <= lastId
    BY <1>1, <2>3 DEF StoredInOrder
  <2>5. printed' = printed \o Lines(rows)
    <3>1. rows \in Seq(table)
      BY RowsAre
    <3>3. Lines(rows) \in [1..Len(rows) -> Line \cup {Note}] /\ Len(rows) \in Nat
      BY <1>1, <3>1 DEF Lines, TypeOK, LogRow
    <3>4. Lines(rows) \in Seq(Line \cup {Note})
      BY <3>3
    <3>. QED  BY <2>1, <2>2, <3>4, ConcatIs
  <2>6. /\ follower'.last = last /\ follower'.at = (IF status = "active" THEN "status" ELSE "done")
        /\ follower'.saw = status /\ status \in {"active", "stale", "ended"}
        /\ status = "ended" => row # "running"
    BY <2>3 DEF Derived
  <2>7. follower' \in FollowerType
    BY <2>3, <2>4, <2>6 DEF FollowerType
  <2>8. /\ follower'.at \notin {"open", "logs"}
        /\ follower'.at = "done" => follower'.saw # "active"
        /\ follower'.saw = "ended" => row # "running"
    BY <2>6
  <2>9. After(follower'.last) = {} /\ follower'.last <= lastId
    BY <2>3, <2>4, <2>6
  <2>. QED  BY <1>3, <2>1, <2>2, <2>5, <2>7, <2>8, <2>9 DEF Prints, Open
<1>. QED  BY <1>2, <1>3

\* What a follower has printed and what is stored after it, as one.
LEMMA AllPrinted ==
    ASSUME LogInv, NEW rows \in Stored(follower.last), Prints(rows)
    PROVE  \A r \in table : r.line \in ToSet(printed')
<1>1. follower.last \in Nat
  BY DEF LogInv, TypeOK
<1>2. rows \in Seq(table) /\ \A r \in After(follower.last) : \E i \in DOMAIN rows : rows[i] = r
  BY <1>1, RowsAre
<1>3. ToSet(printed') = ToSet(printed) \cup {rows[j].line : j \in DOMAIN rows}
  BY <1>2, PrintedIs DEF Prints
<1>. SUFFICES ASSUME NEW r \in table PROVE r.line \in ToSet(printed')
  OBVIOUS
<1>4. r.id \in Nat
  BY Elements DEF LogInv
<1>5. CASE r.id <= follower.last
  BY <1>3, <1>5 DEF LogInv, FollowerRight
<1>6. CASE r.id > follower.last
  BY <1>2, <1>3, <1>6 DEF After
<1>. QED  BY <1>1, <1>4, <1>5, <1>6

\* With the output of one stream, a row that comes later has the larger id.
LEMMA LaterIsLarger ==
    ASSUME LogInv, NEW r \in table, NEW q \in table, r.seq < q.seq,
           {r.line.from, q.line.from} \subseteq Streams => r.line.from = q.line.from
    PROVE  r.id < q.id
<1>1. TypeOK /\ Numbered /\ StoredInOrder
  BY DEF LogInv
<1>2. /\ r.id \in Nat /\ r.seq \in Nat /\ r.line.n \in Nat /\ r.line \in Line \cup {Note} /\ r.seq <= NullSeq
      /\ q.id \in Nat /\ q.seq \in Nat /\ q.line.n \in Nat /\ q.line \in Line \cup {Note} /\ q.seq <= NullSeq
      /\ NullSeq \in Nat
  BY <1>1, Elements, LogAssumption DEF LogRow, NullSeq
<1>3. r.id # q.id
  BY <1>1, <1>2 DEF StoredInOrder
<1>4. ASSUME q.id < r.id PROVE FALSE
  <2>1. Before(q.line, r.line) /\ q.line # Note
    BY <1>1, <1>4 DEF StoredInOrder
  <2>2. r.line # Note
    BY <1>1, <1>2 DEF Numbered
  <2>3. q.line.from = r.line.from
    BY <1>2, <2>1, <2>2 DEF Line
  <2>4. Before(r.line, q.line)
    BY <1>1 DEF Numbered
  <2>. QED  BY <1>2, <2>1, <2>3, <2>4 DEF Before
<1>. QED  BY <1>2, <1>3, <1>4

LEMMA PrintsKeeps ==
    ASSUME LogInv, NEW rows \in Stored(follower.last), Prints(rows)
    PROVE  LogInv'
<1>1. /\ TypeOK /\ Numbered /\ StoredInOrder /\ FollowerRight /\ PrintedRight /\ StoredOnce
      /\ follower.last \in Nat /\ lastId \in Nat /\ follower'.last \in Nat
      /\ UNCHANGED <<output, table, lastId, row, cancelled>>
  BY DEF LogInv, TypeOK, FollowerType, Prints
<1>2. /\ rows \in Seq(table) /\ DOMAIN rows = 1..Len(rows) /\ Len(rows) \in Nat
      /\ \A i \in DOMAIN rows : rows[i] \in After(follower.last) /\ rows[i] \in table /\ rows[i].seq \in Nat
      /\ \A i, j \in DOMAIN rows : i < j <=> rows[i].seq < rows[j].seq
      /\ \A r \in After(follower.last) : \E i \in DOMAIN rows : rows[i] = r
  BY <1>1, RowsAre
<1>3. /\ printed' \in Seq(Line \cup {Note})
      /\ DOMAIN printed = 1..Len(printed) /\ Len(printed) \in Nat
      /\ DOMAIN printed' = 1..Len(printed) + Len(rows)
      /\ \A i \in DOMAIN printed : printed'[i] = printed[i]
      /\ \A j \in DOMAIN rows : printed'[Len(printed) + j] = rows[j].line
      /\ \A i \in DOMAIN printed' : i \in DOMAIN printed \/ \E j \in DOMAIN rows : i = Len(printed) + j
      /\ ToSet(printed') = ToSet(printed) \cup {rows[j].line : j \in DOMAIN rows}
  BY <1>2, PrintedIs DEF Prints
<1>4. TypeOK'
  BY <1>1, <1>3 DEF TypeOK, FollowerType, output, Prints
<1>5. LinesKept' /\ Numbered' /\ InOrder' /\ StoredInOrder'
  BY <1>1, TaskSame
<1>6. OutcomeLast'
  BY <1>1 DEF LogInv, OutcomeLast, output
<1>7. rows # <<>> => Len(rows) \in DOMAIN rows /\ rows[Len(rows)] \in table /\ rows[Len(rows)].id \in Nat
                     /\ rows[Len(rows)].id > follower.last /\ rows[Len(rows)].id <= lastId
  <2>1. rows # <<>> => Len(rows) \in DOMAIN rows
    BY <1>2
  <2>2. \A r \in After(follower.last) : r.id \in Nat /\ r.id > follower.last /\ r.id <= lastId
    BY <1>1 DEF After, StoredInOrder
  <2>. QED  BY <1>2, <2>1, <2>2
<1>8. FollowerRight'
  <2>1. follower'.last <= lastId
    <3>1. follower.last <= lastId
      BY <1>1 DEF FollowerRight
    <3>. QED  BY <1>7, <3>1 DEF Prints
  <2>2. \A r \in table : r.line \in ToSet(printed')
    BY AllPrinted
  <2>3. /\ ~(follower'.at \in {"logs", "open"})
        /\ follower'.at = "done" => follower'.saw # "active"
        /\ follower'.saw = "ended" => row # "running"
    BY DEF Prints
  <2>. QED  BY <1>1, <2>1, <2>2, <2>3 DEF FollowerRight, ToSet
<1>9. \A l \in ToSet(printed') : row # "gone" => \E r \in table : r.line = l
  BY <1>1, <1>2, <1>3 DEF PrintedRight
<1>10. ASSUME NEW i \in DOMAIN printed', NEW r \in table,
              r.line.from = printed'[i].from, r.line.n < printed'[i].n
       PROVE  \E k \in 1..i : printed'[k] = r.line
  <2>1. CASE i \in DOMAIN printed
    <3>1. PICK k \in 1..i : printed[k] = r.line
      BY <1>1, <1>3, <1>10, <2>1 DEF PrintedRight
    <3>2. k \in DOMAIN printed
      BY <1>3, <2>1
    <3>. QED  BY <1>3, <3>1, <3>2
  <2>2. CASE \E j \in DOMAIN rows : i = Len(printed) + j
    <3>1. PICK j \in DOMAIN rows : i = Len(printed) + j
      BY <2>2
    <3>2. CASE r.id <= follower.last
      <4>1. PICK k \in DOMAIN printed : printed[k] = r.line
        BY <1>1, <3>2 DEF FollowerRight, ToSet
      <4>2. k \in 1..i
        BY <1>2, <1>3, <3>1, <4>1
      <4>. QED  BY <1>3, <4>1, <4>2
    <3>3. CASE r.id > follower.last
      <4>1. PICK m \in DOMAIN rows : rows[m] = r
        BY <1>2, <3>3 DEF After
      <4>2. r.line.from = rows[j].line.from /\ r.line.n < rows[j].line.n
        BY <1>3, <1>10, <3>1
      <4>3. r.line.n \in Nat /\ rows[j].line.n \in Nat /\ rows[j] \in table
        BY <1>1, <1>2, Elements
      <4>4. ~(rows[j].seq < r.seq)
        BY <1>1, <4>2, <4>3 DEF Numbered, Before
      <4>5. m <= j
        BY <1>2, <4>1, <4>4
      <4>6. Len(printed) + m \in 1..i /\ printed'[Len(printed) + m] = r.line
        BY <1>2, <1>3, <3>1, <4>1, <4>5
      <4>. QED  BY <4>6
    <3>4. r.id \in Nat
      BY <1>1, Elements
    <3>. QED  BY <1>1, <3>2, <3>3, <3>4
  <2>. QED  BY <1>3, <1>10, <2>1, <2>2
<1>11. ASSUME OneStream', NEW r \in table, r.line \in ToSet(printed')
       PROVE  r.id <= follower'.last
  <2>1. r.id \in Nat
    BY <1>1, Elements
  <2>2. OneStream
    BY <1>3, <1>11 DEF OneStream, ToSet
  <2>3. CASE After(follower'.last) = {}
    BY <1>1, <2>1, <2>3 DEF After
  <2>4. CASE rows = <<>> /\ follower'.last = follower.last
    <3>1. r.line \in ToSet(printed)
      BY <1>2, <1>3, <1>11, <2>4
    <3>. QED  BY <1>1, <2>2, <2>4, <3>1 DEF PrintedRight
  <2>5. CASE rows # <<>> /\ follower'.last = rows[Len(rows)].id
    <3>1. CASE r.line \in ToSet(printed)
      <4>1. r.id <= follower.last
        BY <1>1, <2>2, <3>1 DEF PrintedRight
      <4>. QED  BY <1>1, <1>7, <2>1, <2>5, <4>1
    <3>2. CASE \E j \in DOMAIN rows : r.line = rows[j].line
      <4>1. PICK j \in DOMAIN rows : r.line = rows[j].line
        BY <3>2
      <4>2. r = rows[j]
        BY <1>1, <1>2, <4>1 DEF StoredOnce
      <4>3. CASE j = Len(rows)
        BY <2>1, <2>5, <4>2, <4>3
      <4>4. CASE j < Len(rows)
        <5>1. r.seq < rows[Len(rows)].seq
          BY <1>2, <1>7, <2>5, <4>2, <4>4
        <5>2. {r.line.from, rows[Len(rows)].line.from} \subseteq Streams
                => r.line.from = rows[Len(rows)].line.from
          <6>1. rows[Len(rows)].line \in ToSet(printed')
            BY <1>3, <1>7, <2>5
          <6>. QED  BY <1>11, <6>1 DEF OneStream, ToSet
        <5>3. r.id < rows[Len(rows)].id
          BY <1>7, <2>5, <5>1, <5>2, LaterIsLarger
        <5>. QED  BY <1>7, <2>1, <2>5, <5>3
      <4>. QED  BY <1>2, <4>3, <4>4
    <3>. QED  BY <1>3, <1>11, <3>1, <3>2
  <2>. QED  BY <2>3, <2>4, <2>5 DEF Prints
<1>12. PrintedRight'
  <2>1. \A l \in ToSet(printed)' : row' # "gone" => \E r \in table' : r.line = l
    BY <1>1, <1>9 DEF ToSet
  <2>2. \A i \in DOMAIN printed' : \A r \in table' :
          r.line.from = printed'[i].from /\ r.line.n < printed'[i].n => \E k \in 1..i : printed'[k] = r.line
    BY <1>1, <1>10
  <2>3. OneStream' => \A r \in table' : r.line \in ToSet(printed)' => r.id <= follower'.last
    BY <1>1, <1>11 DEF ToSet
  <2>. QED  BY <2>1, <2>2, <2>3 DEF PrintedRight
<1>. QED  BY <1>4, <1>5, <1>6, <1>8, <1>12, PartsPrimed DEF PartsInv
-----------------------------------------------------------------------------
LEMMA InitIsRight == Init => LogInv
<1>. SUFFICES ASSUME Init PROVE LogInv
  OBVIOUS
<1>1. /\ table = {} /\ queue = <<>> /\ buf = <<>> /\ printed = <<>> /\ seq = 0 /\ lastId = 0
      /\ row = "running" /\ MaxLines \in Nat /\ QueueSize \in Nat /\ BatchSize \in Nat
      /\ follower.last = 0 /\ follower.saw = "active" /\ follower.at \in {"open", "status"}
      /\ \A s \in Streams : reader[s].at = "read" /\ reader[s].count = 0 /\ Held(s) = {}
  BY LogAssumption DEF Init, Held
<1>2. ToSet(queue) = {} /\ ToSet(buf) = {} /\ ToSet(printed) = {} /\ DOMAIN queue = {} /\ DOMAIN buf = {}
      /\ DOMAIN printed = {}
  BY <1>1 DEF ToSet
<1>3. Waiting = {} /\ Moving = {}
  BY <1>1, <1>2 DEF Waiting, Moving
<1>4. TypeOK
  <2>1. <<>> \in Seq(Entry) /\ <<>> \in Seq(Line \cup {Note}) /\ Len(<<>>) = 0
    OBVIOUS
  <2>2. queue \in Seq(Entry) /\ buf \in Seq(Entry) /\ printed \in Seq(Line \cup {Note})
        /\ Len(queue) <= QueueSize /\ Len(buf) <= BatchSize
    BY <1>1, <2>1
  <2>3. reader \in [Streams -> [at : {"read", "send", "blocked", "done"},
                                count : 0..MaxLines, entry : Entry \cup {NoEntry}]]
    BY <1>1 DEF Init
  <2>4. follower \in FollowerType
    <3>1. PICK first \in {"open", "status"} : follower = [at |-> first, last |-> 0, saw |-> "active"]
      BY DEF Init
    <3>. QED  BY <3>1 DEF FollowerType
  <2>5. /\ seq \in 0..MaxLines /\ logger = "loop"
        /\ closed \in BOOLEAN /\ cancelled \in BOOLEAN /\ gaveUp \in BOOLEAN
    <3>1. closed = FALSE /\ cancelled = FALSE /\ gaveUp = FALSE /\ logger = "loop"
      BY Zenon DEF Init
    <3>2. seq \in 0..MaxLines
      BY <1>1
    <3>. QED  BY <3>1, <3>2, Zenon
  <2>6. IsFiniteSet(table) /\ table \subseteq LogRow
    BY <1>1, FS_EmptySet
  <2>. QED  BY <1>1, <2>2, <2>3, <2>4, <2>5, <2>6 DEF TypeOK, FollowerType
<1>5. LinesKept
  BY <1>1 DEF LinesKept
<1>6. Numbered
  BY <1>1, <1>3 DEF Numbered
<1>7. InOrder
  BY <1>1, <1>2, <1>3 DEF InOrder
<1>8. StoredInOrder
  BY <1>1 DEF StoredInOrder
<1>9. OutcomeLast
  BY <1>1 DEF OutcomeLast
<1>10. FollowerRight
  BY <1>1 DEF FollowerRight
<1>11. PrintedRight
  BY <1>1, <1>2 DEF PrintedRight
<1>. QED
  BY <1>4, <1>5, <1>6, <1>7, <1>8, <1>9, <1>10, <1>11, Parts DEF PartsInv

LEMMA StepKeeps == LogInv /\ [Next]_vars => LogInv'
<1>. SUFFICES ASSUME LogInv, [Next]_vars PROVE LogInv'
  OBVIOUS
<1>1. ASSUME NEW s \in Streams, Log(s)
      PROVE  LogInv'
  BY <1>1, LogKeeps
<1>2. ASSUME NEW s \in Streams, ReaderStep(s)
      PROVE  LogInv'
  BY <1>2, SendKeeps, DropLineKeeps, ReaderWaits DEF ReaderStep
<1>3. ASSUME NEW s \in Streams, EndOutput(s)
      PROVE  LogInv'
  BY <1>3, ReaderWaits
<1>4. CASE Close
  BY <1>4, CloseKeeps
<1>5. CASE Run
  BY <1>5, LoggerGoesOn, ReceiveKeeps, InsertKeeps DEF Run
<1>6. CASE Complete \/ Cancel
  BY <1>6, CompleteKeeps
<1>7. CASE AddNote
  BY <1>7, NoteKeeps
<1>8. CASE RemoveRow
  BY <1>8, RemoveKeeps
<1>9. CASE Open \/ ReadLogs
  BY <1>9, FollowerPrints, PrintsKeeps
<1>10. CASE NotFound \/ ReadStatus \/ Interrupt
  BY <1>10, FollowerWaits
<1>11. CASE UNCHANGED vars
  <2>1. UNCHANGED <<output, table, lastId, row, cancelled, follower, printed>>
    BY <1>11 DEF vars, output
  <2>2. TypeOK'
    BY <2>1 DEF LogInv, TypeOK, output
  <2>3. logger = "done" => logger' = "done"
    BY <2>1 DEF output
  <2>. QED  BY <2>1, <2>2, <2>3, TaskSame, FollowSame, PartsPrimed DEF PartsInv
<1>. QED
  BY <1>1, <1>2, <1>3, <1>4, <1>5, <1>6, <1>7, <1>8, <1>9, <1>10, <1>11 DEF Next, Follow

\* What the readers of the payload have read is stored, once, or on its way to the
\* table, until the task is cancelled or removed or the drain meets its deadline: no
\* retry of a batch whose answer was lost, no interrupted flush and no full queue
\* loses or doubles a line (enqueue, run, drain, InsertLogBatch).
THEOREM OutputIsKept == Spec => []LogInv
<1>1. Init => LogInv
  BY InitIsRight
<1>2. LogInv /\ [Next]_vars => LogInv'
  BY StepKeeps
<1>. QED  BY <1>1, <1>2, PTL DEF Spec

\* A follower that ends with the task has printed every line of the payload that is
\* stored, since the outcome is stored after the last line and the status is read
\* before the lines; one that ends on a stale heartbeat has printed all that comes
\* before what it has printed (execute, streamTask, isTerminal).
THEOREM FollowersSeeAll == Spec => []FollowerComplete
<1>1. Init => FollowerComplete
  BY DEF Init, FollowerComplete
<1>2. LogInv /\ FollowerComplete /\ [Next]_vars => FollowerComplete'
  <2>. SUFFICES ASSUME LogInv, FollowerComplete, [Next]_vars, follower'.at = "done", NEW r \in table',
                       r.line \notin ToSet(printed)' \cup {Note}
                PROVE  follower'.saw = "stale" /\ \A l \in ToSet(printed)' : Before(l, r.line)
    BY DEF FollowerComplete
  <2>1. LogInv'
    BY StepKeeps
  <2>2. follower'.saw # "ended"
    <3>1. CASE Open \/ ReadLogs
      <4>1. PICK rows \in Stored(follower.last) : Prints(rows)
        BY <3>1, FollowerPrints
      <4>. QED  BY <4>1, AllPrinted DEF Prints, ToSet
    <3>2. CASE ~(Open \/ ReadLogs) /\ follower'.saw = "ended"
      <4>0. ~(NotFound \/ ReadStatus \/ Interrupt)
        BY DEF LogInv, TypeOK, NotFound, ReadStatus, Interrupt
      <4>1. follower' = follower /\ printed' = printed
        BY <3>2, <4>0 DEF Next, Log, ReaderStep, Send, Block, DropLine, EndOutput, Close, Run, Receive,
                    StartFlush, StartDrain, DrainFlush, DrainEnds, Flush, FlushUnanswered, FlushFails, Complete,
                    AddNote, RemoveRow, Cancel, Follow, vars
      <4>2. row # "running" /\ (row = "ended" => logger = "done") /\ row \in {"running", "ended", "gone"}
        BY <3>2, <4>1 DEF LogInv, TypeOK, FollowerRight, OutcomeLast
      <4>3. ~Flush /\ ~FlushUnanswered
        BY <4>2 DEF Flush, FlushUnanswered, InsertLogBatch
      <4>4. r \in table \/ r.line = Note
        BY <3>2, <4>0, <4>3 DEF Next, Log, ReaderStep, Send, Block, DropLine, EndOutput, Close, Run, Receive,
                    StartFlush, StartDrain, DrainFlush, DrainEnds, FlushFails, Complete,
                    AddNote, RemoveRow, Cancel, Follow, vars
      <4>. QED  BY <3>2, <4>1, <4>4 DEF FollowerComplete, ToSet
    <3>. QED  BY <3>1, <3>2
  <2>3. follower'.saw = "stale"
    BY <2>1, <2>2 DEF LogInv, TypeOK, FollowerRight
  <2>4. ASSUME NEW i \in DOMAIN printed', printed'[i].from = r.line.from
        PROVE  printed'[i].n < r.line.n
    <3>1. /\ printed' \in Seq(Line \cup {Note}) /\ printed'[i] \in Line \cup {Note}
          /\ r.line \in Line \cup {Note} /\ r.line # printed'[i]
      BY <2>1 DEF LogInv, TypeOK, LogRow, ToSet
    <3>2. r.line \in Line /\ printed'[i] \in Line
      BY <2>4, <3>1, LogAssumption DEF Line, Note
    <3>3. r.line.n \in Nat /\ printed'[i].n \in Nat /\ r.line.n # printed'[i].n
      BY <2>4, <3>1, <3>2, LogAssumption DEF Line
    <3>4. ~(r.line.n < printed'[i].n)
      <4>1. r.line.n < printed'[i].n => \E k \in 1..i : printed'[k] = r.line
        BY <2>1, <2>4 DEF LogInv, PrintedRight
      <4>2. DOMAIN printed' = 1..Len(printed') /\ Len(printed') \in Nat /\ \A k \in 1..i : k \in DOMAIN printed'
        BY <3>1
      <4>. QED  BY <4>1, <4>2 DEF ToSet
    <3>. QED  BY <3>3, <3>4
  <2>. QED  BY <2>3, <2>4 DEF Before, ToSet
<1>. QED  BY <1>1, <1>2, OutputIsKept, PTL DEF Spec

\* What a query adds is new, and follows what is printed.
LEMMA PrintsAsWritten ==
    ASSUME LogInv, PrintedAsWritten, NEW rows \in Stored(follower.last), Prints(rows)
    PROVE  PrintedAsWritten'
<1>1. /\ Numbered /\ PrintedRight /\ LogInv'
      /\ follower.last \in Nat /\ UNCHANGED <<table, row>>
      /\ row # "gone" \/ table = {}
  BY PrintsKeeps DEF LogInv, TypeOK, OutcomeLast, Prints
<1>2. /\ rows \in Seq(table) /\ DOMAIN rows = 1..Len(rows) /\ Len(rows) \in Nat
      /\ \A i \in DOMAIN rows : rows[i] \in After(follower.last) /\ rows[i] \in table
      /\ \A i, j \in DOMAIN rows : rows[i].seq = rows[j].seq => i = j
  BY <1>1, RowsAre
<1>3. /\ DOMAIN printed = 1..Len(printed) /\ Len(printed) \in Nat
      /\ DOMAIN printed' = 1..Len(printed) + Len(rows)
      /\ \A i \in DOMAIN printed : printed'[i] = printed[i]
      /\ \A j \in DOMAIN rows : printed'[Len(printed) + j] = rows[j].line
      /\ \A i \in DOMAIN printed' : i \in DOMAIN printed \/ \E j \in DOMAIN rows : i = Len(printed) + j
      /\ ToSet(printed') = ToSet(printed) \cup {rows[j].line : j \in DOMAIN rows}
  BY <1>2, PrintedIs DEF Prints
<1>4. PrintedInOrder'
  <2>1. CASE row # "gone"
    <3>. SUFFICES ASSUME NEW i \in DOMAIN printed', NEW j \in DOMAIN printed',
                         printed'[i].from = printed'[j].from, printed'[j].n < printed'[i].n
                  PROVE  \E k \in 1..i : printed'[k] = printed'[j]
      BY DEF PrintedInOrder
    <3>1. PICK r \in table : r.line = printed'[j]
      BY <1>1, <2>1 DEF LogInv, PrintedRight, ToSet
    <3>. QED  BY <1>1, <3>1 DEF LogInv, PrintedRight
  <2>2. CASE table = {}
    <3>1. DOMAIN rows = {}
      BY <1>2, <2>2
    <3>2. \A i \in DOMAIN printed' : i \in DOMAIN printed /\ printed'[i] = printed[i]
      BY <1>3, <3>1
    <3>. SUFFICES ASSUME NEW i \in DOMAIN printed', NEW j \in DOMAIN printed',
                         printed'[i].from = printed'[j].from, printed'[j].n < printed'[i].n, i < j
                  PROVE  \E k \in 1..i : printed'[k] = printed'[j]
      BY DEF PrintedInOrder
    <3>3. PICK k \in 1..i : printed[k] = printed[j]
      BY <3>2 DEF PrintedAsWritten, PrintedInOrder
    <3>4. k \in DOMAIN printed
      BY <1>3, <3>2
    <3>. QED  BY <1>3, <3>2, <3>3, <3>4
  <2>. QED  BY <1>1, <2>1, <2>2
<1>5. ASSUME OneStream' PROVE IsInjective(printed)' 
  <2>1. OneStream
    BY <1>3, <1>5 DEF OneStream, ToSet
  <2>2. \A i, j \in DOMAIN printed : printed[i] = printed[j] => i = j
    BY <2>1 DEF PrintedAsWritten, PrintedOnce, IsInjective
  <2>3. \A i \in DOMAIN printed, j \in DOMAIN rows : printed[i] # rows[j].line
    <3>. SUFFICES ASSUME NEW i \in DOMAIN printed, NEW j \in DOMAIN rows, printed[i] = rows[j].line
                  PROVE  FALSE
      OBVIOUS
    <3>1. rows[j].line \in ToSet(printed)
      BY DEF ToSet
    <3>2. rows[j].id <= follower.last /\ rows[j].id > follower.last /\ rows[j].id \in Nat
      BY <1>1, <1>2, <2>1, <3>1, Elements DEF PrintedRight, After, LogInv
    <3>. QED  BY <1>1, <3>2
  <2>4. \A i, j \in DOMAIN rows : rows[i].line = rows[j].line => i = j
    BY <1>1, <1>2 DEF Numbered
  <2>5. ASSUME NEW i \in DOMAIN printed', NEW j \in DOMAIN printed', printed'[i] = printed'[j]
        PROVE  i = j
    <3>1. CASE i \in DOMAIN printed /\ j \in DOMAIN printed
      BY <1>3, <2>2, <2>5, <3>1
    <3>2. CASE \E u, v \in DOMAIN rows : i = Len(printed) + u /\ j = Len(printed) + v
      BY <1>3, <2>4, <2>5, <3>2
    <3>3. CASE i \in DOMAIN printed /\ \E v \in DOMAIN rows : j = Len(printed) + v
      BY <1>3, <2>3, <2>5, <3>3
    <3>4. CASE j \in DOMAIN printed /\ \E u \in DOMAIN rows : i = Len(printed) + u
      BY <1>3, <2>3, <2>5, <3>4
    <3>. QED  BY <1>3, <2>5, <3>1, <3>2, <3>3, <3>4
  <2>. QED  BY <2>5 DEF IsInjective
<1>. QED  BY <1>4, <1>5 DEF PrintedAsWritten, PrintedOnce

\* The lines of a stream are printed in the order in which they were written and,
\* where one stream alone is printed, once each, whatever batches, retries, interrupts
\* and repeated reads lie between (logLine.seq, get_logs_since.sql, streamTask).
THEOREM FollowersSeeItAsWritten == Spec => []PrintedAsWritten
<1>1. Init => PrintedAsWritten
  BY DEF Init, PrintedAsWritten, PrintedInOrder, PrintedOnce, IsInjective
<1>2. LogInv /\ PrintedAsWritten /\ [Next]_vars => PrintedAsWritten'
  <2>. SUFFICES ASSUME LogInv, PrintedAsWritten, [Next]_vars
                PROVE  PrintedAsWritten'
    OBVIOUS
  <2>1. CASE Open \/ ReadLogs
    BY <2>1, FollowerPrints, PrintsAsWritten
  <2>2. CASE ~(Open \/ ReadLogs)
    <3>1. printed' = printed
      BY <2>2 DEF Next, Log, ReaderStep, Send, Block, DropLine, EndOutput, Close, Run, Receive,
                  StartFlush, StartDrain, DrainFlush, DrainEnds, Flush, FlushUnanswered, FlushFails, Complete,
                  AddNote, RemoveRow, Cancel, Follow, NotFound, ReadStatus, Interrupt, vars
    <3>2. (OneStream' <=> OneStream) /\ (IsInjective(printed)' <=> IsInjective(printed))
      BY <3>1 DEF OneStream, ToSet, IsInjective
    <3>. QED  BY <3>1, <3>2 DEF PrintedAsWritten, PrintedInOrder, PrintedOnce
  <2>. QED  BY <2>1, <2>2
<1>. QED  BY <1>1, <1>2, OutputIsKept, PTL DEF Spec
=============================================================================
