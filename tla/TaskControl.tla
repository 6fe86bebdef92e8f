---------------------------- MODULE TaskControl ----------------------------
(***************************************************************************)
(* Commands over the tasks table and the notifications that go with them:  *)
(* enqueue, cancel and remove as sequences of statements, the wake and     *)
(* cancel hints that LISTEN delivers or loses, and workers that wait for   *)
(* hints, obey them, and poll the table.  Claims and outcomes are single   *)
(* steps here; WorkerLifecycle refines them.                               *)
(***************************************************************************)
EXTENDS TaskStore

CONSTANTS
    Clients,     \* running commands
    Faults,      \* what can lose its connection: "listener", "command"
    MaxStamp     \* bound: no row is inserted from this time on

ASSUME ControlAssumption == Faults \subseteq {"listener", "command"} /\ MaxStamp \in Nat

VARIABLES
    rows,       \* the tasks table
    clock,      \* the last timestamp handed out by NOW()
    client,     \* what each command is about to do, and what it has read
    pc,         \* where each worker is in Run
    job,        \* the claim a worker is handling
    cancelled,  \* wasCancelled in processTask
    connected,  \* the worker's listener has a connection
    listening,  \* the task channels a worker listens to
    dropping,   \* the task channels whose removal is queued
    hints,      \* cancel events queued for a worker, by task ID
    wake        \* a wake event is queued for a worker

\* Observability variables.
VARIABLES
    granted,    \* incarnations for which a cancel command was accepted
    promised    \* incarnations reported cancelled while they were pending

store   == <<rows, clock>>
local   == <<pc, job, cancelled>>
signals == <<connected, listening, dropping, hints, wake>>
history == <<granted, promised>>
vars    == <<rows, clock, client, pc, job, cancelled, connected, listening,
             dropping, hints, wake, granted, promised>>

Incarnation == [task : Tasks, createdAt : Nat]

Command == [at   : {"ready", "wake", "cancel", "notify", "confirm", "remove"},
            task : Tasks \cup {None},
            seen : Status \cup {None},
            createdAt : Nat]

Ready == [at |-> "ready", task |-> None, seen |-> None, createdAt |-> 0]

TypeOK ==
    /\ rows \in [Tasks -> Row]
    /\ clock \in Nat
    /\ client \in [Clients -> Command]
    /\ pc \in [Workers -> {"claim", "none", "idle", "listen", "check", "run"}]
    /\ job \in [Workers -> Claim \cup {None}]
    /\ cancelled \in [Workers -> BOOLEAN]
    /\ connected \in [Workers -> BOOLEAN]
    /\ listening \in [Workers -> SUBSET Tasks]
    /\ dropping \in [Workers -> SUBSET Tasks]
    /\ hints \in [Workers -> SUBSET Tasks]
    /\ wake \in [Workers -> BOOLEAN]
    /\ granted \in SUBSET Incarnation
    /\ promised \in SUBSET Incarnation
    /\ \A w \in Workers : /\ pc[w] \in {"listen", "check", "run"} => job[w] \in Claim
                          /\ cancelled[w] => pc[w] = "run"

Init ==
    /\ rows = [t \in Tasks |-> NoRow]
    /\ clock = 0
    /\ client = [c \in Clients |-> Ready]
    /\ pc = [w \in Workers |-> "claim"]
    /\ job = [w \in Workers |-> None]
    /\ cancelled = [w \in Workers |-> FALSE]
    /\ connected = [w \in Workers |-> TRUE]
    /\ listening = [w \in Workers |-> {}]
    /\ dropping = [w \in Workers |-> {}]
    /\ hints = [w \in Workers |-> {}]
    /\ wake = [w \in Workers |-> FALSE]
    /\ granted = {}
    /\ promised = {}
-----------------------------------------------------------------------------
(* Notifications.                                                          *)

\* pg_notify reaches the sessions that listen at that moment, and nobody else.
SendWake == wake' = [w \in Workers |-> wake[w] \/ connected[w]]

SendCancel(t) ==
    hints' = [w \in Workers |-> IF connected[w] /\ t \in listening[w]
                                THEN hints[w] \cup {t} ELSE hints[w]]

\* The queue of the worker is full and the event is dropped.
DropHint(w, t) ==
    /\ t \in hints[w]
    /\ wake[w] \/ hints[w] # {t}
    /\ hints' = [hints EXCEPT ![w] = @ \ {t}]
    /\ UNCHANGED <<store, client, local, connected, listening, dropping, wake, history>>

\* The events on their way are lost with the connection, the ones that the
\* process has read already are not.
Disconnect(w) ==
    /\ "listener" \in Faults
    /\ connected[w]
    /\ connected' = [connected EXCEPT ![w] = FALSE]
    /\ \E kept \in {hints[w], {}} : hints' = [hints EXCEPT ![w] = kept]
    /\ \E kept \in {wake[w], FALSE} : wake' = [wake EXCEPT ![w] = kept]
    /\ UNCHANGED <<store, client, local, listening, dropping, history>>

\* All channels are listened to again, and nothing is said of what was missed.
Reconnect(w) ==
    /\ ~connected[w]
    /\ connected' = [connected EXCEPT ![w] = TRUE]
    /\ UNCHANGED <<store, client, local, listening, dropping, hints, wake, history>>

\* A queued removal is carried out, perhaps after a later Add of the channel.
Unlisten(w, t) ==
    /\ connected[w]
    /\ t \in dropping[w]
    /\ dropping' = [dropping EXCEPT ![w] = @ \ {t}]
    /\ listening' = [listening EXCEPT ![w] = @ \ {t}]
    /\ UNCHANGED <<store, client, local, connected, hints, wake, history>>
-----------------------------------------------------------------------------
(* nextask enqueue: insert and commit, then wake the workers.              *)

EnqueueInsert(c, t) ==
    /\ client[c].at = "ready"
    /\ rows[t].status = "absent"
    /\ clock < MaxStamp
    /\ clock' = clock + 1
    /\ rows' = [rows EXCEPT ![t] = Inserted(clock + 1)]
    /\ client' = [client EXCEPT ![c] = [@ EXCEPT !.at = "wake", !.task = t]]
    /\ UNCHANGED <<local, signals, history>>

EnqueueWake(c) ==
    /\ client[c].at = "wake"
    /\ SendWake
    /\ client' = [client EXCEPT ![c] = Ready]
    /\ UNCHANGED <<store, local, connected, listening, dropping, hints, history>>

\* The command prints a warning, or is killed.
EnqueueWakeFails(c) ==
    /\ "command" \in Faults
    /\ client[c].at = "wake"
    /\ client' = [client EXCEPT ![c] = Ready]
    /\ UNCHANGED <<store, local, signals, history>>
-----------------------------------------------------------------------------
(* nextask cancel, and an interrupted enqueue --attach.                    *)

\* request_cancel.sql reads the status in the snapshot of the statement...
CancelRead(c, t) ==
    /\ client[c].at = "ready"
    /\ rows[t].status # "absent"
    /\ client' = [client EXCEPT ![c] = [at |-> "cancel", task |-> t,
                                        seen |-> rows[t].status,
                                        createdAt |-> rows[t].createdAt]]
    /\ UNCHANGED <<store, local, signals, history>>

\* The UPDATE goes by the status that was read.
CancelWritten_faulty(c) ==
    LET t == client[c].task
    IN  IF rows[t].createdAt = client[c].createdAt /\ rows[t].status = client[c].seen
        THEN [rows EXCEPT ![t] = CancelApplied(@)]
        ELSE rows

\* ...and its UPDATE sees the row as it is once it has the lock, if it is still
\* the row of the snapshot.
CancelWritten(c) ==
    LET t == client[c].task
    IN  IF rows[t].createdAt = client[c].createdAt
        THEN [rows EXCEPT ![t] = CancelApplied(@)]
        ELSE rows

CancelWrite(c) ==
    LET target == [task |-> client[c].task, createdAt |-> client[c].createdAt]
    IN
    /\ client[c].at = "cancel"
    /\ rows' = CancelWritten(c)
    /\ client' = [client EXCEPT ![c] =
                     IF @.seen = "running" THEN [@ EXCEPT !.at = "notify"] ELSE Ready]
    /\ granted' = IF client[c].seen \in {"pending", "running"}
                  THEN granted \cup {target} ELSE granted
    /\ promised' = IF client[c].seen = "pending"
                   THEN promised \cup {target} ELSE promised
    /\ UNCHANGED <<clock, local, signals>>

CancelNotify(c) ==
    /\ client[c].at = "notify"
    /\ SendCancel(client[c].task)
    /\ client' = [client EXCEPT ![c].at = "confirm"]
    /\ UNCHANGED <<store, local, connected, listening, dropping, wake, history>>

\* The stored state decides, by task ID.
CancelConfirm(c) ==
    /\ client[c].at = "confirm"
    /\ rows[client[c].task].status \notin {"pending", "running"}
    /\ client' = [client EXCEPT ![c] = Ready]
    /\ UNCHANGED <<store, local, signals, history>>
-----------------------------------------------------------------------------
(* nextask remove: look first, then delete.                                *)

\* A running task is refused unless it looks stale, which it may do at any time.
RemoveRead(c, t) ==
    /\ client[c].at = "ready"
    /\ rows[t].status # "absent"
    /\ client' = [client EXCEPT ![c] = [at |-> "remove", task |-> t,
                                        seen |-> rows[t].status,
                                        createdAt |-> rows[t].createdAt]]
    /\ UNCHANGED <<store, local, signals, history>>

RemoveDelete(c) ==
    /\ client[c].at = "remove"
    /\ rows' = [rows EXCEPT ![client[c].task] = NoRow]
    /\ client' = [client EXCEPT ![c] = Ready]
    /\ UNCHANGED <<clock, local, signals, history>>

\* A timeout, an interrupt or an error ends a command between two statements.
GiveUp(c) ==
    /\ client[c].at \in {"cancel", "notify", "confirm", "remove"}
    /\ client' = [client EXCEPT ![c] = Ready]
    /\ UNCHANGED <<store, local, signals, history>>
-----------------------------------------------------------------------------
(* Workers.                                                                *)

Goto(w, label) == pc' = [pc EXCEPT ![w] = label]

Pending == {t \in Tasks : rows[t].status = "pending"}

ClaimOldest(w) ==
    /\ pc[w] = "claim"
    /\ \E t \in Pending :
           /\ \A u \in Pending : rows[t].createdAt <= rows[u].createdAt
           /\ LET c == [task |-> t, worker |-> w, createdAt |-> rows[t].createdAt,
                        startedAt |-> clock + 1]
              IN  /\ rows' = [rows EXCEPT ![t] = Claimed(@, c)]
                  /\ job' = [job EXCEPT ![w] = c]
    /\ clock' = clock + 1
    /\ Goto(w, "listen")
    /\ UNCHANGED <<client, cancelled, signals, history>>

\* The answer is "no task", and the worker has not begun to wait yet.
ClaimNone(w) ==
    /\ pc[w] = "claim"
    /\ Pending = {}
    /\ Goto(w, "none")
    /\ UNCHANGED <<store, client, job, cancelled, signals, history>>

\* Events that came before the wait do not end it.
Wait_faulty(w) ==
    /\ pc[w] = "none"
    /\ Goto(w, "idle")
    /\ wake' = [wake EXCEPT ![w] = FALSE]
    /\ UNCHANGED <<store, client, job, cancelled, connected, listening, dropping, hints, history>>

Wait(w) ==
    /\ pc[w] = "none"
    /\ Goto(w, "idle")
    /\ UNCHANGED <<store, client, job, cancelled, signals, history>>

\* One event, of whatever kind, is taken from the queue.
Take(w) ==
    \/ /\ wake[w]
       /\ wake' = [wake EXCEPT ![w] = FALSE]
       /\ UNCHANGED hints
    \/ /\ \E t \in hints[w] : hints' = [hints EXCEPT ![w] = @ \ {t}]
       /\ UNCHANGED wake

IdleEnds(w) ==
    /\ pc[w] = "idle"
    /\ Take(w)
    /\ Goto(w, "claim")
    /\ UNCHANGED <<store, client, job, cancelled, connected, listening, dropping, history>>

\* Add returns once LISTEN is confirmed, at once if the channel is still there.
Subscribe(w) ==
    /\ pc[w] = "listen"
    /\ connected[w]
    /\ listening' = [listening EXCEPT ![w] = @ \cup {job[w].task}]
    /\ Goto(w, "check")
    /\ UNCHANGED <<store, client, job, cancelled, connected, dropping, hints, wake, history>>

\* finishTask, and the deferred removal of the channel.
Finish(w, o) ==
    LET t == job[w].task IN
    /\ rows' = [rows EXCEPT ![t] = Completed(@, [claim |-> job[w], status |-> o])]
    /\ job' = [job EXCEPT ![w] = None]
    /\ cancelled' = [cancelled EXCEPT ![w] = FALSE]
    /\ dropping' = [dropping EXCEPT ![w] = IF t \in listening[w] THEN @ \cup {t} ELSE @]
    /\ Goto(w, "claim")
    /\ UNCHANGED <<clock, client, connected, listening, hints, wake, history>>

\* Add was waiting when the connection was lost.
SubscribeFails(w) ==
    /\ "listener" \in Faults
    /\ pc[w] = "listen"
    /\ Finish(w, "failed")

CheckCancel(w) ==
    /\ pc[w] = "check"
    /\ IF rows[job[w].task].cancel
       THEN Finish(w, "cancelled")
       ELSE /\ Goto(w, "run")
            /\ UNCHANGED <<store, client, job, cancelled, signals, history>>

\* Any cancel event cancels the payload.
Hint_faulty(w) ==
    /\ pc[w] = "run"
    /\ ~cancelled[w]
    /\ Take(w)
    /\ cancelled' = [cancelled EXCEPT ![w] = hints[w] # hints'[w]]
    /\ UNCHANGED <<store, client, pc, job, connected, listening, dropping, history>>

\* A hint for the task ID in hand cancels the payload; every other event is
\* taken from the queue and forgotten.
Hint(w) ==
    /\ pc[w] = "run"
    /\ ~cancelled[w]
    /\ Take(w)
    /\ cancelled' = [cancelled EXCEPT ![w] = job[w].task \in hints[w] \ hints'[w]]
    /\ UNCHANGED <<store, client, pc, job, connected, listening, dropping, history>>

\* The durable check of every second.
Poll(w) ==
    /\ pc[w] = "run"
    /\ ~cancelled[w]
    /\ rows[job[w].task].cancel
    /\ cancelled' = [cancelled EXCEPT ![w] = TRUE]
    /\ UNCHANGED <<store, client, pc, job, signals, history>>

End(w, o) ==
    /\ pc[w] = "run"
    /\ Finish(w, IF cancelled[w] THEN "cancelled" ELSE o)
-----------------------------------------------------------------------------
CommandStep(c) ==
    \/ \E t \in Tasks : EnqueueInsert(c, t) \/ CancelRead(c, t) \/ RemoveRead(c, t)
    \/ EnqueueWake(c) \/ EnqueueWakeFails(c)
    \/ CancelWrite(c) \/ CancelNotify(c) \/ CancelConfirm(c)
    \/ RemoveDelete(c) \/ GiveUp(c)

ListenerStep(w) ==
    \/ Disconnect(w) \/ Reconnect(w)
    \/ \E t \in Tasks : DropHint(w, t) \/ Unlisten(w, t)

\* Steps a worker takes by itself.  A payload is assumed to end.
Progress(w) ==
    \/ ClaimOldest(w) \/ ClaimNone(w) \/ Wait(w) \/ IdleEnds(w)
    \/ Subscribe(w) \/ CheckCancel(w)
    \/ \E o \in {"completed", "failed"} : End(w, o)

Next == \/ \E c \in Clients : CommandStep(c)
        \/ \E w \in Workers : \/ ListenerStep(w) \/ Progress(w)
                              \/ SubscribeFails(w) \/ Hint(w) \/ Poll(w)

Spec == Init /\ [][Next]_vars

\* Workers work, listeners reconnect, and an enqueue that has committed goes on
\* to its notification.
Fairness ==
    /\ \A w \in Workers : WF_vars(Progress(w)) /\ WF_vars(Reconnect(w))
    /\ \A c \in Clients : WF_vars(EnqueueWake(c) \/ EnqueueWakeFails(c))

FairSpec == Spec /\ Fairness
-----------------------------------------------------------------------------
(* Properties.                                                             *)

Shown(i) == rows[i.task].createdAt = i.createdAt

\* A cancel command that was told "pending" or "running" has left a mark, even
\* if the task was claimed between the two halves of request_cancel.sql: the
\* incarnation it asked about has ended or carries the request.
RequestAcknowledged == \A i \in granted :
    Shown(i) => rows[i.task].status \in Terminal \/ rows[i.task].cancel

\* What makes it so.  Every row has a time of its own in the past, and a row with an
\* older time never comes back.
StampsPast ==
    /\ \A t \in Tasks : rows[t].createdAt <= clock
    /\ \A t \in Tasks : rows[t].status = "absent" <=> rows[t].createdAt = 0
    /\ \A i \in granted : i.createdAt \in 1..clock

\* What a cancel command has read of an incarnation is past or still so, and the
\* request it notifies about was granted.
LooksTrue == \A c \in Clients : LET look == client[c] IN
    /\ look.at = "cancel" =>
           /\ look.task \in Tasks /\ look.seen \in Status \ {"absent"}
           /\ look.createdAt \in 1..clock
           /\ Shown(look) /\ look.seen \in Terminal => rows[look.task].status \in Terminal
    /\ look.at \in {"notify", "confirm"} => \E i \in granted : i.task = look.task
    /\ look.at = "remove" => look.task \in Tasks

\* Nothing asks for the end of a task, in its row, in a worker's queue or in a worker,
\* unless somebody has; a pending row is cancelled at once and carries no request.
MarksRequested ==
    /\ \A t \in Tasks : rows[t].cancel =>
           rows[t].status # "pending" /\ \E i \in granted : i.task = t
    /\ \A w \in Workers : \A t \in hints[w] : \E i \in granted : i.task = t
    /\ \A w \in Workers : cancelled[w] => \E i \in granted : i.task = job[w].task

\* Types, a job in hand exactly while a worker works, acknowledged requests that
\* have left their mark, and the reasons; together they are inductive.
ControlInv == TypeOK /\ RequestAcknowledged /\ StampsPast /\ LooksTrue /\ MarksRequested

\* Nobody is cancelled by a request for another task: a worker that still hears
\* the channel of the task before does not take its hint for this one.
CancelledWasRequested == \A t \in Tasks :
    rows[t].status = "cancelled" => \E i \in granted : i.task = t

\* Once the listeners stay connected, an enqueued task does not stay pending
\* ("Once a task is enqueued, an available worker picks it up").
PendingClaimed ==
    <>[](\A w \in Workers : connected[w]) =>
        \A t \in Tasks : rows[t].status = "pending" ~> rows[t].status # "pending"
-----------------------------------------------------------------------------
(* Statements of the repository that the code does not keep.  No run checks *)
(* them; the README says what happens instead.                              *)

\* "For pending tasks: directly sets status to cancelled": the task of a cancel
\* command that reported "Task cancelled" at once is cancelled (RequestCancel).
PromisedIsCancelled == \A i \in promised :
    Shown(i) => rows[i.task].status = "cancelled"

\* "cannot remove running task": no command deletes a running row (removeCmd).
NoRunningRemoved == [][\A t \in Tasks :
    rows[t].status = "running" => rows'[t].status # "absent"]_vars

\* "Wake/cancel notifications are hints backed by database state": a worker
\* cancels a payload only if its row carries the request (watchWorker).
HintsBacked == [][\A w \in Workers :
    ~cancelled[w] /\ cancelled'[w] /\ IsClaim(rows[job[w].task], job[w])
        => rows[job[w].task].cancel]_vars
=============================================================================
