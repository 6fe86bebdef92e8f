------------------------------ MODULE TaskLog ------------------------------
(***************************************************************************)
(* The output of one task: the readers of the payload's streams number the  *)
(* lines and queue them, the goroutine of TaskLogger stores them in batches *)
(* with retries and drains at the end, and a follower (log --attach,        *)
(* enqueue --attach) prints what is stored until the task has ended or      *)
(* looks stale, which a task whose worker is alive may do at any time.      *)
(* A statement takes effect while its caller waits for it, or never, and    *)
(* the ID of a removed task is not enqueued again.                          *)
(***************************************************************************)
EXTENDS Integers, FiniteSets, Sequences, SequencesExt

CONSTANTS
    Streams,     \* the readers of stdout and stderr
    MaxLines,    \* bound: lines of the payload
    QueueSize,   \* cfg.BufferSize
    BatchSize,   \* cfg.FlushLines
    Removable    \* the row of the task may be deleted while it runs

ASSUME LogAssumption ==
    /\ {MaxLines, QueueSize, BatchSize} \subseteq Nat \ {0}
    /\ Removable \in BOOLEAN /\ "nextask" \notin Streams

VARIABLES
    reader,      \* each stream's reader, the lines it has read, and the one in hand
    seq,         \* l.seq
    queue,       \* l.lines
    closed,      \* Close has closed l.lines and stopped flushCtx
    logger,      \* where run is
    buf,         \* its batch
    table,       \* the task's rows of task_logs
    lastId,      \* the sequence behind task_logs.id
    row,         \* the task: "running", "ended" or "gone"
    cancelled,   \* taskCtx is cancelled
    follower,    \* what the follower does next, its lastLogID, and the status it read
    printed,     \* history: the lines it has printed
    gaveUp       \* history: the drain ended at its deadline

output == <<reader, seq, queue, closed, logger, buf, gaveUp>>
vars   == <<reader, seq, queue, closed, logger, buf, table, lastId, row, cancelled,
            follower, printed, gaveUp>>

Line == [from : Streams, n : 1..MaxLines]
Note == [from |-> "nextask", n |-> 1]      \* the line finishTask adds

NullSeq == MaxLines + 1                   \* NULL, which the queries sort last

Entry == [seq : 1..MaxLines, line : Line]
NoEntry == [seq |-> 0, line |-> Note]
LogRow == [id : Nat, seq : 1..NullSeq, line : Line \cup {Note}]

TypeOK ==
    /\ reader \in [Streams -> [at : {"read", "send", "blocked", "done"},
                               count : 0..MaxLines, entry : Entry \cup {NoEntry}]]
    /\ seq \in 0..MaxLines
    /\ queue \in Seq(Entry) /\ Len(queue) <= QueueSize
    /\ closed \in BOOLEAN
    /\ logger \in {"loop", "flush", "drain", "last", "done"}
    /\ buf \in Seq(Entry) /\ Len(buf) <= BatchSize
    /\ table \subseteq LogRow /\ IsFiniteSet(table)
    /\ lastId \in Nat
    /\ row \in {"running", "ended", "gone"}
    /\ cancelled \in BOOLEAN /\ gaveUp \in BOOLEAN
    /\ follower \in [at : {"open", "status", "logs", "done", "failed"}, last : Nat,
                    saw : {"active", "stale", "ended"}]
    /\ printed \in Seq(Line \cup {Note})

Init ==
    /\ reader = [s \in Streams |-> [at |-> "read", count |-> 0, entry |-> NoEntry]]
    /\ seq = 0 /\ queue = <<>> /\ closed = FALSE
    /\ logger = "loop" /\ buf = <<>>
    /\ table = {} /\ lastId = 0
    /\ row = "running" /\ cancelled = FALSE
    /\ \E first \in {"open", "status"} :
           follower = [at |-> first, last |-> 0, saw |-> "active"]
    /\ printed = <<>> /\ gaveUp = FALSE
-----------------------------------------------------------------------------
(* The readers: scanLines, Log and enqueue.                                *)

\* The number is taken before the line is sent, so two readers may send in the
\* other order.
Log(s) ==
    /\ reader[s].at = "read"
    /\ seq < MaxLines
    /\ seq' = seq + 1
    /\ LET n == reader[s].count + 1
       IN  reader' = [reader EXCEPT ![s] = [at |-> "send", count |-> n,
                          entry |-> [seq |-> seq + 1, line |-> [from |-> s, n |-> n]]]]
    /\ UNCHANGED <<queue, closed, logger, buf, table, lastId, row, cancelled,
                   follower, printed, gaveUp>>

Release(s) == reader' = [reader EXCEPT ![s] = [@ EXCEPT !.at = "read", !.entry = NoEntry]]

Send(s) ==
    /\ reader[s].at \in {"send", "blocked"}
    /\ Len(queue) < QueueSize
    /\ queue' = Append(queue, reader[s].entry)
    /\ Release(s)
    /\ UNCHANGED <<seq, closed, logger, buf, table, lastId, row, cancelled,
                   follower, printed, gaveUp>>

Block(s) ==
    /\ reader[s].at = "send"
    /\ Len(queue) = QueueSize
    /\ reader' = [reader EXCEPT ![s].at = "blocked"]
    /\ UNCHANGED <<seq, queue, closed, logger, buf, table, lastId, row, cancelled,
                   follower, printed, gaveUp>>

\* Only the local copy is kept once the task is cancelled.
DropLine(s) ==
    /\ reader[s].at = "blocked"
    /\ cancelled
    /\ Release(s)
    /\ UNCHANGED <<seq, queue, closed, logger, buf, table, lastId, row, cancelled,
                   follower, printed, gaveUp>>

EndOutput(s) ==
    /\ reader[s].at = "read"
    /\ reader' = [reader EXCEPT ![s].at = "done"]
    /\ UNCHANGED <<seq, queue, closed, logger, buf, table, lastId, row, cancelled,
                   follower, printed, gaveUp>>

\* runCommand has waited for the readers; execute closes the logger.
Close ==
    /\ \A s \in Streams : reader[s].at = "done"
    /\ ~closed
    /\ closed' = TRUE
    /\ UNCHANGED <<reader, seq, queue, logger, buf, table, lastId, row, cancelled,
                   follower, printed, gaveUp>>
-----------------------------------------------------------------------------
(* The goroutine of the logger.                                            *)

Receive ==
    /\ logger \in {"loop", "drain"}
    /\ Len(buf) < BatchSize
    /\ queue # <<>>
    /\ buf' = Append(buf, Head(queue))
    /\ queue' = Tail(queue)
    /\ UNCHANGED <<reader, seq, closed, logger, table, lastId, row, cancelled,
                   follower, printed, gaveUp>>

\* A full batch, or the timer with a batch that is not empty.
StartFlush ==
    /\ logger = "loop" /\ buf # <<>>
    /\ ~closed
    /\ logger' = "flush"
    /\ UNCHANGED <<reader, seq, queue, closed, buf, table, lastId, row, cancelled,
                   follower, printed, gaveUp>>

\* flushCtx is cancelled.
StartDrain ==
    /\ logger = "loop" /\ closed
    /\ logger' = "drain"
    /\ UNCHANGED <<reader, seq, queue, closed, buf, table, lastId, row, cancelled,
                   follower, printed, gaveUp>>

\* A full batch, or the rest once the closed queue is empty.
DrainFlush ==
    /\ logger = "drain"
    /\ Len(buf) = BatchSize \/ (queue = <<>> /\ buf # <<>>)
    /\ logger' = "last"
    /\ UNCHANGED <<reader, seq, queue, closed, buf, table, lastId, row, cancelled,
                   follower, printed, gaveUp>>

DrainEnds ==
    /\ logger = "drain"
    /\ queue = <<>> /\ buf = <<>>
    /\ logger' = "done"
    /\ UNCHANGED <<reader, seq, queue, closed, buf, table, lastId, row, cancelled,
                   follower, printed, gaveUp>>

\* ON CONFLICT (task_id, seq) DO NOTHING: the positions of a batch that are stored.
Fresh(batch) == {i \in DOMAIN batch : \A r \in table : r.seq # batch[i].seq}

\* The ids grow in the order of the batch; those that no row gets are left out.
Rank(i) == Cardinality({j \in Fresh(buf) : j <= i})

InsertLogBatch ==
    /\ row # "gone"
    /\ table' = table \cup {[id |-> lastId + Rank(i), seq |-> buf[i].seq, line |-> buf[i].line] :
                            i \in Fresh(buf)}
    /\ lastId' = lastId + Cardinality(Fresh(buf))

\* A stored batch is not taken out of the buffer.
Flush_faulty ==
    /\ logger \in {"flush", "last"}
    /\ InsertLogBatch
    /\ logger' = IF logger = "flush" THEN "loop" ELSE "drain"
    /\ UNCHANGED <<reader, seq, queue, closed, buf, row, cancelled, follower, printed, gaveUp>>

Flush ==
    /\ logger \in {"flush", "last"}
    /\ InsertLogBatch
    /\ buf' = <<>>
    /\ logger' = IF logger = "flush" THEN "loop" ELSE "drain"
    /\ UNCHANGED <<reader, seq, queue, closed, row, cancelled, follower, printed, gaveUp>>

\* The batch is stored but the answer is lost: it is sent again.
FlushUnanswered ==
    /\ logger \in {"flush", "last"}
    /\ Fresh(buf) # {}
    /\ InsertLogBatch
    /\ UNCHANGED <<reader, seq, queue, closed, logger, buf, row, cancelled,
                   follower, printed, gaveUp>>

\* A batch that could not be stored is forgotten.
FlushFails_faulty ==
    /\ logger \in {"flush", "last"}
    /\ logger' = IF logger = "flush" THEN "loop" ELSE "done"
    /\ gaveUp' = (gaveUp \/ logger = "last")
    /\ buf' = <<>>
    /\ UNCHANGED <<reader, seq, queue, closed, table, lastId, row, cancelled,
                   follower, printed>>

\* The drain goes on for as long as the database is away.
FlushRetried_faulty ==
    /\ logger \in {"flush", "last"}
    /\ logger' = IF logger = "flush" THEN "loop" ELSE "drain"
    /\ UNCHANGED <<reader, seq, queue, closed, buf, table, lastId, row, cancelled,
                   follower, printed, gaveUp>>

\* A failed batch stays first in line, until the one deadline of the drain.
FlushFails ==
    /\ logger \in {"flush", "last"}
    /\ logger' = IF logger = "flush" THEN "loop" ELSE "done"
    /\ gaveUp' = (gaveUp \/ logger = "last")
    /\ UNCHANGED <<reader, seq, queue, closed, buf, table, lastId, row, cancelled,
                   follower, printed>>

Run == \/ Receive \/ StartFlush \/ StartDrain \/ DrainFlush \/ DrainEnds
       \/ Flush \/ FlushUnanswered \/ FlushFails
-----------------------------------------------------------------------------
(* The worker around it, and other commands.                               *)

\* The outcome is stored after the logger has closed.
Complete ==
    /\ logger = "done"
    /\ row = "running"
    /\ row' = "ended"
    /\ UNCHANGED <<output, table, lastId, cancelled, follower, printed>>

\* finishTask adds a line of its own, without a sequence number.
AddNote ==
    /\ row = "ended"
    /\ \A r \in table : r.line # Note
    /\ table' = table \cup {[id |-> lastId + 1, seq |-> NullSeq, line |-> Note]}
    /\ lastId' = lastId + 1
    /\ UNCHANGED <<output, row, cancelled, follower, printed>>

\* ON DELETE CASCADE, and the foreign key rejects every later line.
RemoveRow ==
    /\ Removable
    /\ row # "gone"
    /\ row' = "gone" /\ table' = {}
    /\ UNCHANGED <<output, lastId, cancelled, follower, printed>>

Cancel ==
    /\ ~cancelled
    /\ cancelled' = TRUE
    /\ UNCHANGED <<output, table, lastId, row, follower, printed>>
-----------------------------------------------------------------------------
(* The follower.                                                           *)

\* What get_task makes of the status: a running task whose worker has not beaten
\* for a while is stale, whether the worker is alive or not.
Derived == IF row = "running" THEN {"active", "stale"} ELSE {"ended"}

\* WHERE id > after, ORDER BY seq ASC NULLS LAST.
After(after) == {r \in table : r.id > after}
Stored(after) ==
    {rows \in [1..Cardinality(After(after)) -> After(after)] :
         \A i, j \in DOMAIN rows : i < j => rows[i].seq < rows[j].seq}

Lines(rows) == [i \in DOMAIN rows |-> rows[i].line]

\* nextask log prints what there is, remembers the largest ID, and attaches if
\* the task was active when it was read.
Open ==
    /\ follower.at = "open"
    /\ row # "gone"
    /\ \E rows \in Stored(0) : printed' = Lines(rows)
    /\ \E status \in {"active", "stale"} \cup Derived, last \in {0} \cup {r.id : r \in table} :
           /\ After(last) = {}
           /\ follower' = [at |-> IF status = "active" THEN "status" ELSE "done", saw |-> status, last |-> last]
    /\ UNCHANGED <<output, table, lastId, row, cancelled>>

NotFound ==
    /\ follower.at \in {"open", "status"}
    /\ row = "gone"
    /\ follower' = [follower EXCEPT !.at = "failed"]
    /\ UNCHANGED <<output, table, lastId, row, cancelled, printed>>

\* streamTask reads the task first...
ReadStatus ==
    /\ follower.at = "status"
    /\ row # "gone"
    /\ \E status \in Derived : follower' = [follower EXCEPT !.at = "logs", !.saw = status]
    /\ UNCHANGED <<output, table, lastId, row, cancelled, printed>>

\* The task is read after its lines, so that the last of them are missed.
ReadLogs_faulty ==
    /\ follower.at = "logs"
    /\ \E rows \in Stored(follower.last), saw \in {follower.saw, "ended"} :
           /\ printed' = printed \o Lines(rows)
           /\ follower' = [at |-> IF saw = "active" THEN "status" ELSE "done", saw |-> saw,
                           last |-> IF rows = <<>> THEN follower.last ELSE Last(rows).id]
    /\ UNCHANGED <<output, table, lastId, row, cancelled>>

\* ...and then the lines after the last one that was printed.  A task that looked
\* stale ends the stream as one that has ended does (isTerminal).
ReadLogs ==
    /\ follower.at = "logs"
    /\ \E rows \in Stored(follower.last) :
           /\ printed' = printed \o Lines(rows)
           /\ follower' = [at |-> IF follower.saw = "active" THEN "status" ELSE "done",
                           saw |-> follower.saw,
                           last |-> IF rows = <<>> THEN follower.last ELSE Last(rows).id]
    /\ UNCHANGED <<output, table, lastId, row, cancelled>>

\* The second stream starts from the beginning.
Interrupt_faulty ==
    /\ follower.at \in {"status", "logs"}
    /\ ~cancelled
    /\ cancelled' = TRUE
    /\ follower' = [follower EXCEPT !.at = "status", !.last = 0]
    /\ UNCHANGED <<output, table, lastId, row, printed>>

\* Ctrl+C on enqueue --attach asks for cancellation and follows on.
Interrupt ==
    /\ follower.at \in {"status", "logs"}
    /\ ~cancelled
    /\ cancelled' = TRUE
    /\ follower' = [follower EXCEPT !.at = "status"]
    /\ UNCHANGED <<output, table, lastId, row, printed>>

Follow == Open \/ NotFound \/ ReadStatus \/ ReadLogs
-----------------------------------------------------------------------------
ReaderStep(s) == Send(s) \/ Block(s) \/ DropLine(s)

Next ==
    \/ \E s \in Streams : Log(s) \/ ReaderStep(s) \/ EndOutput(s)
    \/ Close \/ Run \/ Complete \/ AddNote \/ RemoveRow \/ Cancel
    \/ Follow \/ Interrupt

Spec == Init /\ [][Next]_vars

\* The processes run, whether the database answers or not.
FairSpec ==
    /\ Spec
    /\ WF_vars(Run) /\ WF_vars(Follow)
    /\ \A s \in Streams : WF_vars(ReaderStep(s))
-----------------------------------------------------------------------------
(* Properties.                                                             *)

Held(s) == IF reader[s].at \in {"send", "blocked"} THEN {reader[s].entry} ELSE {}

\* The lines on their way to the table: queued, in the batch, or in a reader's hand.
Waiting == ToSet(queue) \cup UNION {Held(s) : s \in Streams}
Moving == ToSet(buf) \cup Waiting

\* Retries of a batch whose answer was lost, and the drain after an interrupted
\* flush, store no line twice (InsertLogBatch).
StoredOnce == \A r, q \in table : r.line = q.line => r = q

\* "A full DB queue applies backpressure until cancellation": as long as the task
\* is neither cancelled nor removed and the drain has not met its deadline, every
\* line read so far is stored or on its way (enqueue, run, drain).
LinesKept ==
    ~cancelled /\ ~gaveUp /\ row # "gone" =>
        \A s \in Streams : \A n \in 1..reader[s].count :
            \E x \in table \cup Moving : x.line = [from |-> s, n |-> n]

\* What makes these so.  A number is for one line, and grows along each stream.
Before(l, m) == l.from = m.from => l.n < m.n

Numbered ==
    /\ \A x \in table \cup Moving :
         IF x.line = Note THEN x.seq = NullSeq
         ELSE x.seq <= seq /\ x.line.n <= reader[x.line.from].count
    /\ \A x, y \in table \cup Moving :
         /\ x.seq = y.seq <=> x.line = y.line
         /\ x.seq < y.seq => Before(x.line, y.line)
    /\ \A s \in Streams : reader[s].count <= seq /\ \A x \in Held(s) : x.line.from = s

\* The lines of a stream do not overtake one another on their way to the table.
InOrder ==
    /\ \A i, j \in DOMAIN buf : i < j => Before(buf[i].line, buf[j].line)
    /\ \A i, j \in DOMAIN queue : i < j => Before(queue[i].line, queue[j].line)
    /\ \A x \in ToSet(buf), y \in Waiting : Before(x.line, y.line)
    /\ \A x \in ToSet(queue), s \in Streams : \A y \in Held(s) : Before(x.line, y.line)

\* Nor in the table; a batch may be there already, whose answer was lost.
StoredInOrder ==
    /\ \A r \in table : r.id \in 1..lastId
    /\ \A r, q \in table :
         /\ r.id = q.id => r = q
         /\ r.id < q.id => Before(r.line, q.line) /\ r.line # Note
    /\ \A r \in table, x \in Waiting : Before(r.line, x.line)
    /\ \A r \in table, x \in ToSet(buf) : Before(r.line, x.line) \/ \E q \in table : q.line = x.line

\* The output comes before the outcome, and the outcome before the note.
OutcomeLast ==
    /\ row = "ended" => logger = "done"
    /\ row = "gone" => table = {}
    /\ \A r \in table : r.line = Note => row = "ended"

\* A follower has printed what is up to its last ID, and it ends after the task
\* or on a status of stale.
FollowerRight ==
    /\ follower.last <= lastId
    /\ \A r \in table : r.id <= follower.last => r.line \in ToSet(printed)
    /\ follower.saw = "ended" => row # "running"
    /\ follower.at = "done" => follower.saw # "active"
    /\ follower.at = "open" => follower.last = 0 /\ printed = <<>>

OneStream == \A l, m \in ToSet(printed) : {l.from, m.from} \subseteq Streams => l.from = m.from

\* What it has printed is stored, as is what comes before, which it has printed before;
\* with one stream, nothing that is printed comes after its last ID.
PrintedRight ==
    /\ row # "gone" => \A l \in ToSet(printed) : \E r \in table : r.line = l
    /\ \A i \in DOMAIN printed : \A r \in table :
         r.line.from = printed[i].from /\ r.line.n < printed[i].n => \E k \in 1..i : printed[k] = r.line
    /\ OneStream => \A r \in table : r.line \in ToSet(printed) => r.id <= follower.last

\* Types; what the payload writes is stored once or on its way; and the reasons for that
\* and for what the follower prints.
LogInv ==
    /\ TypeOK /\ StoredOnce /\ LinesKept
    /\ Numbered /\ InOrder /\ StoredInOrder /\ OutcomeLast
    /\ FollowerRight /\ PrintedRight

\* A follower that ends with the task has printed every line of the payload that is
\* stored: the status is read before the lines, and the lines are stored before the
\* status.  One that ends on a stale heartbeat, whose worker may be alive and store
\* more, has missed nothing but lines that come after all it has printed of their stream.
FollowerComplete ==
    follower.at = "done" =>
        \A r \in table :
            \/ r.line \in ToSet(printed) \cup {Note}
            \/ follower.saw = "stale" /\ \A l \in ToSet(printed) : Before(l, r.line)

\* As long as there is output of one stream only, no line is printed again, not
\* after an interrupt either (streamTask).
PrintedOnce == OneStream => IsInjective(printed)

\* The lines of one stream are printed in the order they were written, whatever
\* batches, retries and repeated reads lie between (logLine.seq).
PrintedInOrder == \A i, j \in DOMAIN printed :
    /\ printed[i].from = printed[j].from
    /\ printed[j].n < printed[i].n
    /\ i < j
    => \E k \in 1..i : printed[k] = printed[j]

\* The follower prints what a stream has written: each line once, and in order.
PrintedAsWritten == PrintedInOrder /\ PrintedOnce

\* Close returns, also when no batch can be stored (TaskLogger.Close, drain).
LoggerCloses == closed ~> logger = "done"

\* A follower ends after the task has ended or was removed.
FollowerEnds == row # "running" ~> follower.at \in {"done", "failed"}

\* Both ends of the output come to an end.
OutputEnds == LoggerCloses /\ FollowerEnds

\* A reader is not held up for ever by a full queue while the database stores a
\* batch that is tried again and again and the task has its row ("If the database
\* is down, retries apply backpressure").
OutputAccepted ==
    SF_vars(Flush) =>
        \A s \in Streams : reader[s].at = "blocked" ~> reader[s].at # "blocked" \/ row = "gone"
=============================================================================
