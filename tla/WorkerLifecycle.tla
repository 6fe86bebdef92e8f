-------------------------- MODULE WorkerLifecycle --------------------------
(***************************************************************************)
(* Worker processes over the tasks table: claim, execute, journal the      *)
(* outcome, store it, acknowledge it, and after a crash replay what the    *)
(* journal of the work directory still holds.  Workers may share a work    *)
(* directory.  Clients insert, cancel and delete rows at any time.         *)
(*                                                                         *)
(* One step is one SQL statement, one change of the journal directory, or  *)
(* one event of the payload.  Claiming takes two steps, because other      *)
(* statements see the row lock it holds in between.                        *)
(***************************************************************************)
EXTENDS TaskStore

CONSTANTS
    Dirs,        \* work directories
    WorkdirOf,   \* the directory each worker is configured with
    Accepts,     \* the task IDs each worker's tag filter lets it claim
    Once,        \* workers started with --once
    ExitIfIdle,  \* workers started with --exit-if-idle
    RemovesDir,  \* workers started with --rm
    MaxStamp     \* bound on the timestamps the clock hands out

ASSUME ConfigAssumption ==
    /\ WorkdirOf \in [Workers -> Dirs]
    /\ Accepts \in [Workers -> SUBSET Tasks]
    /\ Once \subseteq Workers
    /\ ExitIfIdle \subseteq Workers
    /\ RemovesDir \subseteq Workers
    /\ MaxStamp \in Nat

VARIABLES
    rows,       \* the tasks table
    clock,      \* the last timestamp handed out by NOW()
    pc,         \* where each worker is in Run
    job,        \* the claim a worker is handling
    result,     \* its outcome; set early when a cancellation was seen
    stop,       \* the worker's context is cancelled
    made,       \* this execution created its task directory
    todo,       \* journal records that recoverCompletions has listed
    journal,    \* the .json records of each directory
    dirs,       \* the task directories that exist in each directory
    payloads    \* claims whose command is running

\* Observability variables: they only remember what happened.
VARIABLES
    granted,    \* claims committed by claim_task.sql
    executions, \* claims whose payload was ever started
    journaled,  \* outcomes ever published in a journal
    discarded   \* outcomes reported as obsolete

store   == <<rows, clock>>
local   == <<pc, job, result, stop, made, todo>>
files   == <<journal, dirs, payloads>>
history == <<granted, executions, journaled, discarded>>
vars    == <<rows, clock, pc, job, result, stop, made, todo, journal, dirs,
             payloads, granted, executions, journaled, discarded>>

\* Labels: between tasks, with a claim in hand and before its outcome is
\* journaled, after that, and while replaying a record of the journal.
Between   == {"off", "recover", "claim", "idle"}
Executing == {"subscribe", "check", "setup", "exec", "journal"}
Finishing == {"cleanup", "save", "ack"}
Replaying == {"resave", "reack"}
PC == Between \cup {"locked"} \cup Executing \cup Finishing \cup Replaying

TypeOK ==
    /\ rows \in [Tasks -> Row]
    /\ clock \in Nat
    /\ pc \in [Workers -> PC]
    /\ job \in [Workers -> Claim \cup {None}]
    /\ result \in [Workers -> Terminal \cup {None}]
    /\ stop \in [Workers -> BOOLEAN]
    /\ made \in [Workers -> BOOLEAN]
    /\ todo \in [Workers -> SUBSET Completion]
    /\ journal \in [Dirs -> SUBSET Completion]
    /\ dirs \in [Dirs -> SUBSET Tasks]
    /\ payloads \in SUBSET Claim
    /\ granted \in SUBSET Claim
    /\ executions \in SUBSET Claim
    /\ journaled \in SUBSET Completion
    /\ discarded \in SUBSET Completion
    /\ \A w \in Workers :
           /\ pc[w] \notin Between => job[w] \in Claim
           /\ pc[w] \in {"journal"} \cup Finishing \cup Replaying => result[w] \in Terminal

Init ==
    /\ rows = [t \in Tasks |-> NoRow]
    /\ clock = 0
    /\ pc = [w \in Workers |-> "off"]
    /\ job = [w \in Workers |-> None]
    /\ result = [w \in Workers |-> None]
    /\ stop = [w \in Workers |-> FALSE]
    /\ made = [w \in Workers |-> FALSE]
    /\ todo = [w \in Workers |-> {}]
    /\ journal = [d \in Dirs |-> {}]
    /\ dirs = [d \in Dirs |-> {}]
    /\ payloads = {}
    /\ granted = {}
    /\ executions = {}
    /\ journaled = {}
    /\ discarded = {}
-----------------------------------------------------------------------------
(* Clients: one action per statement.                                      *)

\* The subquery does not skip rows that another claim has locked.
Locked_faulty(t) == FALSE

\* A claim in flight holds the row lock of the task it has picked.
Locked(t) == \E w \in Workers : pc[w] = "locked" /\ job[w].task = t

Enqueue(t) ==
    /\ rows[t].status = "absent"
    /\ clock < MaxStamp
    /\ clock' = clock + 1
    /\ rows' = [rows EXCEPT ![t] = Inserted(clock + 1)]
    /\ UNCHANGED <<local, files, history>>

RequestCancel(t) ==
    /\ rows[t].status # "absent"
    /\ ~Locked(t)
    /\ rows' = [rows EXCEPT ![t] = CancelApplied(@)]
    /\ UNCHANGED <<clock, local, files, history>>

\* The remove command refuses a row it saw running, but it deletes in a second
\* statement that has no condition on the status.
DeleteTask(t) ==
    /\ rows[t].status # "absent"
    /\ ~Locked(t)
    /\ rows' = [rows EXCEPT ![t] = NoRow]
    /\ UNCHANGED <<clock, local, files, history>>
-----------------------------------------------------------------------------
(* Starting, stopping and crashing.                                        *)

Goto(w, label) == pc' = [pc EXCEPT ![w] = label]

\* The process ends: everything it kept in memory is gone.
Leave(w) ==
    /\ Goto(w, "off")
    /\ job' = [job EXCEPT ![w] = None]
    /\ result' = [result EXCEPT ![w] = None]
    /\ stop' = [stop EXCEPT ![w] = FALSE]
    /\ made' = [made EXCEPT ![w] = FALSE]
    /\ todo' = [todo EXCEPT ![w] = {}]
    /\ UNCHANGED <<store, files, history>>

Start(w) ==
    /\ pc[w] = "off"
    /\ Goto(w, "recover")
    /\ todo' = [todo EXCEPT ![w] = journal[WorkdirOf[w]]]
    /\ UNCHANGED <<store, job, result, stop, made, files, history>>

\* SIGTERM, a stop notification, or a notifier that gave up reconnecting.
StopSignal(w) ==
    /\ pc[w] # "off"
    /\ ~stop[w]
    /\ stop' = [stop EXCEPT ![w] = TRUE]
    /\ UNCHANGED <<store, pc, job, result, made, todo, files, history>>

\* The wait for work does not look at the context.
Exit_faulty(w) ==
    /\ stop[w]
    /\ pc[w] \in {"recover", "claim"}
    /\ Leave(w)

\* Run returns at the places that look at its context.
Exit(w) ==
    /\ stop[w]
    /\ pc[w] \in {"recover", "claim", "idle"}
    /\ Leave(w)

\* A crash, and every error return that leaves the row and the journal as they
\* are (a journal that cannot be written, an outcome that cannot be stored).
\* The payload runs in a process group of its own and survives its worker.
Crash(w) ==
    /\ pc[w] # "off"
    /\ Leave(w)

OrphanEnds(c) ==
    /\ c \in payloads
    /\ ~\E w \in Workers : pc[w] = "exec" /\ job[w] = c
    /\ payloads' = payloads \ {c}
    /\ UNCHANGED <<store, local, journal, dirs, history>>
-----------------------------------------------------------------------------
(* recoverCompletions: list, then read, store and acknowledge one by one.  *)

\* A vanished record is looked for again and again.
RecoverGone_faulty(w) ==
    /\ pc[w] = "recover"
    /\ ~stop[w]
    /\ \E c \in todo[w] \ journal[WorkdirOf[w]] : todo' = todo
    /\ UNCHANGED <<store, pc, job, result, stop, made, files, history>>

\* Another worker of the directory acknowledged the record first.
RecoverGone(w) ==
    /\ pc[w] = "recover"
    /\ ~stop[w]
    /\ \E c \in todo[w] \ journal[WorkdirOf[w]] :
           todo' = [todo EXCEPT ![w] = @ \ {c}]
    /\ UNCHANGED <<store, pc, job, result, stop, made, files, history>>

RecoverRead(w) ==
    /\ pc[w] = "recover"
    /\ ~stop[w]
    /\ \E c \in todo[w] \cap journal[WorkdirOf[w]] :
           /\ todo' = [todo EXCEPT ![w] = @ \ {c}]
           /\ job' = [job EXCEPT ![w] = c.claim]
           /\ result' = [result EXCEPT ![w] = c.status]
    /\ Goto(w, "resave")
    /\ UNCHANGED <<store, stop, made, files, history>>

RecoverDone(w) ==
    /\ pc[w] = "recover"
    /\ ~stop[w]
    /\ todo[w] = {}
    /\ Goto(w, "claim")
    /\ UNCHANGED <<store, job, result, stop, made, todo, files, history>>
-----------------------------------------------------------------------------
(* The claim loop.                                                         *)

\* Rows that FOR UPDATE SKIP LOCKED can return to w.
Claimable(w) == {t \in Accepts[w] : rows[t].status = "pending" /\ ~Locked(t)}

\* The subquery locks the oldest claimable row; NOW() is the statement's start.
ClaimLock(w) ==
    /\ pc[w] = "claim"
    /\ ~stop[w]
    /\ clock < MaxStamp
    /\ \E t \in Claimable(w) :
           /\ \A u \in Claimable(w) : rows[t].createdAt <= rows[u].createdAt
           /\ job' = [job EXCEPT ![w] =
                         [task |-> t, worker |-> w,
                          createdAt |-> rows[t].createdAt,
                          startedAt |-> clock + 1]]
    /\ clock' = clock + 1
    /\ Goto(w, "locked")
    /\ UNCHANGED <<rows, result, stop, made, todo, files, history>>

\* The UPDATE around the subquery, and its commit.
ClaimWritten(w) ==
    /\ pc[w] = "locked"
    /\ rows' = [rows EXCEPT ![job[w].task] = Claimed(@, job[w])]
    /\ granted' = granted \cup {job[w]}

ClaimCommit(w) ==
    /\ ClaimWritten(w)
    /\ Goto(w, "subscribe")
    /\ UNCHANGED <<clock, job, result, stop, made, todo, files,
                   executions, journaled, discarded>>

\* The commit succeeds and the answer is lost: claimTask retries, and nobody
\* will ever execute the row it has just claimed.
ClaimReplyLost(w) ==
    /\ ClaimWritten(w)
    /\ Goto(w, "claim")
    /\ job' = [job EXCEPT ![w] = None]
    /\ UNCHANGED <<clock, result, stop, made, todo, files,
                   executions, journaled, discarded>>

ClaimAborted(w) ==
    /\ pc[w] = "locked"
    /\ Goto(w, "claim")
    /\ job' = [job EXCEPT ![w] = None]
    /\ UNCHANGED <<store, result, stop, made, todo, files, history>>

ClaimNone(w) ==
    /\ pc[w] = "claim"
    /\ ~stop[w]
    /\ Claimable(w) = {}
    /\ IF w \in Once
       THEN Leave(w)
       ELSE /\ Goto(w, "idle")
            /\ UNCHANGED <<store, job, result, stop, made, todo, files, history>>

\* Any notification on the worker's channels ends the wait.
Wake(w) ==
    /\ pc[w] = "idle"
    /\ Goto(w, "claim")
    /\ UNCHANGED <<store, job, result, stop, made, todo, files, history>>

IdleTimeout(w) ==
    /\ pc[w] = "idle"
    /\ w \in ExitIfIdle
    /\ Leave(w)
-----------------------------------------------------------------------------
(* processTask, up to the outcome.                                         *)

Dir(w) == WorkdirOf[w]

Subscribe(w) ==
    /\ pc[w] = "subscribe"
    /\ Goto(w, "check")
    /\ UNCHANGED <<store, job, result, stop, made, todo, files, history>>

\* LISTEN or the durable check fails, also because the worker is stopping.
SubscribeOrCheckFails(w) ==
    /\ pc[w] \in {"subscribe", "check"}
    /\ Goto(w, "journal")
    /\ result' = [result EXCEPT ![w] = "failed"]
    /\ UNCHANGED <<store, job, stop, made, todo, files, history>>

\* The durable request is looked up by task ID alone.
CheckCancel(w) ==
    /\ pc[w] = "check"
    /\ IF rows[job[w].task].cancel
       THEN /\ Goto(w, "journal")
            /\ result' = [result EXCEPT ![w] = "cancelled"]
       ELSE /\ Goto(w, "setup")
            /\ UNCHANGED result
    /\ UNCHANGED <<store, job, stop, made, todo, files, history>>

\* A cancel notification for the task ID, or the periodic durable check.  The
\* notification is obeyed without a look at the row, so there is no condition.
CancelSeen(w) ==
    /\ pc[w] \in {"setup", "exec"}
    /\ result[w] = None
    /\ result' = [result EXCEPT ![w] = "cancelled"]
    /\ UNCHANGED <<store, pc, job, stop, made, todo, files, history>>

\* What processTask hands to finishTask when the executor returned o.
Final(w, o) == IF result[w] = None THEN o ELSE "cancelled"

\* Mkdir refuses an existing task directory; then the command is started.
SetupRuns(w) ==
    /\ pc[w] = "setup"
    /\ job[w].task \notin dirs[Dir(w)]
    /\ dirs' = [dirs EXCEPT ![Dir(w)] = @ \cup {job[w].task}]
    /\ made' = [made EXCEPT ![w] = TRUE]
    /\ payloads' = payloads \cup {job[w]}
    /\ executions' = executions \cup {job[w]}
    /\ Goto(w, "exec")
    /\ UNCHANGED <<store, job, result, stop, todo, journal,
                   granted, journaled, discarded>>

\* The executor returns before the command runs, with or without having
\* created the directory.
SetupFails(w, created) ==
    /\ pc[w] = "setup"
    /\ created => job[w].task \notin dirs[Dir(w)]
    /\ dirs' = [dirs EXCEPT ![Dir(w)] = IF created THEN @ \cup {job[w].task} ELSE @]
    /\ made' = [made EXCEPT ![w] = created]
    /\ result' = [result EXCEPT ![w] = Final(w, "failed")]
    /\ Goto(w, "journal")
    /\ UNCHANGED <<store, job, stop, todo, journal, payloads, history>>

\* The executor removes its directory before the outcome is journaled.
ExecEnds_faulty(w, o) ==
    /\ pc[w] = "exec"
    /\ payloads' = payloads \ {job[w]}
    /\ dirs' = [dirs EXCEPT ![Dir(w)] = @ \ {job[w].task}]
    /\ result' = [result EXCEPT ![w] = Final(w, o)]
    /\ Goto(w, "journal")
    /\ UNCHANGED <<store, job, stop, made, todo, journal, history>>

ExecEnds(w, o) ==
    /\ pc[w] = "exec"
    /\ payloads' = payloads \ {job[w]}
    /\ result' = [result EXCEPT ![w] = Final(w, o)]
    /\ Goto(w, "journal")
    /\ UNCHANGED <<store, job, stop, made, todo, journal, dirs, history>>
-----------------------------------------------------------------------------
(* finishTask: journal, clean up, store, acknowledge.                      *)

InHand(w) == [claim |-> job[w], status |-> result[w]]

\* The record that the journal of d holds for a claim, or else this new one:
\* Link never replaces a file, and the file name is a function of the claim.
Published(d, c) ==
    IF \E p \in journal[d] : p.claim = c.claim
    THEN CHOOSE p \in journal[d] : p.claim = c.claim
    ELSE c

JournalSave(w) ==
    /\ pc[w] = "journal"
    /\ LET c == Published(Dir(w), InHand(w)) IN
           /\ journal' = [journal EXCEPT ![Dir(w)] = @ \cup {c}]
           /\ journaled' = journaled \cup {c}
           /\ result' = [result EXCEPT ![w] = c.status]
    /\ Goto(w, "cleanup")
    /\ UNCHANGED <<store, job, stop, made, todo, dirs, payloads,
                   granted, executions, discarded>>

\* The directory is removed whoever created it.
Cleanup_faulty(w) ==
    /\ pc[w] = "cleanup"
    /\ dirs' = [dirs EXCEPT ![Dir(w)] =
                   IF w \in RemovesDir THEN @ \ {job[w].task} ELSE @]
    /\ made' = [made EXCEPT ![w] = FALSE]
    /\ Goto(w, "save")
    /\ UNCHANGED <<store, job, result, stop, todo, journal, payloads, history>>

Cleanup(w) ==
    /\ pc[w] = "cleanup"
    /\ dirs' = [dirs EXCEPT ![Dir(w)] =
                   IF w \in RemovesDir /\ made[w] THEN @ \ {job[w].task} ELSE @]
    /\ made' = [made EXCEPT ![w] = FALSE]
    /\ Goto(w, "save")
    /\ UNCHANGED <<store, job, result, stop, todo, journal, payloads, history>>

Saving(w) == pc[w] \in {"save", "resave"}

ResultWritten(w) ==
    rows' = [rows EXCEPT ![job[w].task] = Completed(@, InHand(w))]

SaveResult(w) ==
    /\ Saving(w)
    /\ ResultWritten(w)
    /\ Goto(w, IF pc[w] = "save" THEN "ack" ELSE "reack")
    /\ discarded' = IF Confirmed(rows[job[w].task], InHand(w))
                    THEN discarded ELSE discarded \cup {InHand(w)}
    /\ UNCHANGED <<clock, job, result, stop, made, todo, files,
                   granted, executions, journaled>>

\* The outcome is stored and the answer is lost: the statement is retried.
SaveReplyLost(w) ==
    /\ Saving(w)
    /\ ResultWritten(w)
    /\ UNCHANGED <<clock, local, files, history>>

\* The shutdown deadline passes: the record stays in the journal.
SaveGivesUp(w) ==
    /\ Saving(w)
    /\ stop[w]
    /\ Leave(w)

\* A live worker returns to its loop (or ends, with --once), a recovering one
\* to the next record.
Acknowledge(w) ==
    /\ pc[w] \in {"ack", "reack"}
    /\ journal' = [journal EXCEPT ![Dir(w)] = @ \ {InHand(w)}]
    /\ job' = [job EXCEPT ![w] = None]
    /\ result' = [result EXCEPT ![w] = None]
    /\ Goto(w, CASE pc[w] = "reack" -> "recover"
                 [] pc[w] = "ack" /\ w \in Once -> "off"
                 [] OTHER -> "claim")
    /\ stop' = [stop EXCEPT ![w] = @ /\ (pc[w] = "reack" \/ w \notin Once)]
    /\ UNCHANGED <<store, made, todo, dirs, payloads, history>>
-----------------------------------------------------------------------------
ClientStep == \E t \in Tasks : Enqueue(t) \/ RequestCancel(t) \/ DeleteTask(t)

RecoverStep(w) == RecoverGone(w) \/ RecoverRead(w) \/ RecoverDone(w)

ClaimStep(w) == \/ ClaimLock(w) \/ ClaimCommit(w) \/ ClaimReplyLost(w)
                \/ ClaimAborted(w) \/ ClaimNone(w)

ProcessStep(w) ==
    \/ Subscribe(w) \/ SubscribeOrCheckFails(w) \/ CheckCancel(w)
    \/ SetupRuns(w)
    \/ \E created \in BOOLEAN : SetupFails(w, created)
    \/ \E o \in {"completed", "failed"} : ExecEnds(w, o)

FinishStep(w) == JournalSave(w) \/ Cleanup(w) \/ SaveResult(w)
                 \/ SaveGivesUp(w) \/ Acknowledge(w)

\* Steps the process takes by itself once they are possible.
Progress(w) == Exit(w) \/ RecoverStep(w) \/ ClaimStep(w) \/ ProcessStep(w)
               \/ FinishStep(w)

WorkerStep(w) == \/ Progress(w)
                 \/ Start(w) \/ StopSignal(w) \/ Crash(w)
                 \/ Wake(w) \/ IdleTimeout(w) \/ CancelSeen(w)
                 \/ SaveReplyLost(w)

Next == \/ ClientStep
        \/ \E w \in Workers : WorkerStep(w)
        \/ \E c \in payloads : OrphanEnds(c)

Spec == Init /\ [][Next]_vars
-----------------------------------------------------------------------------
(* Safety.                                                                 *)

SameIncarnation(c, e) == c.task = e.task /\ c.createdAt = e.createdAt

\* No incarnation of a task ID is ever executed twice: its payload was started
\* under one claim only, and a worker about to start a payload holds a claim
\* that nobody has run (claim_task.sql, Worker.processTask).
AtMostOnce ==
    /\ \A c, e \in executions : SameIncarnation(c, e) => c = e
    /\ \A w \in Workers : pc[w] \in {"subscribe", "check", "setup"} =>
           ~\E e \in executions : SameIncarnation(job[w], e)

\* An outcome that was journaled is not lost: as long as the row is still the
\* claim it belongs to, the row shows this outcome or the journal of the
\* directory still holds it (completion.go, journal.go: a record is removed
\* only after the database has answered).
ResultDurable ==
    \A c \in journaled :
        IsClaim(rows[c.claim.task], c.claim) =>
            \/ rows[c.claim.task].status = c.status
            \/ c \in journal[WorkdirOf[c.claim.worker]]

\* The converse: an outcome that a worker stored is one that was journaled
\* before, for exactly that claim ("finishTask journals an outcome before
\* cleanup or any database write").
OutcomeJournaled ==
    \A t \in Tasks :
        rows[t].status \in Terminal /\ rows[t].worker # None =>
            \E c \in journaled : /\ c.claim.task = t /\ IsClaim(rows[t], c.claim)
                                 /\ c.status = rows[t].status

\* "False means the task was deleted, replaced, or finished with a different
\* result": an outcome reported as obsolete is not the one its row shows, also
\* after a retry of an attempt that did commit (db.CompleteClaim).
DiscardedIsObsolete ==
    \A c \in discarded :
        ~(IsClaim(rows[c.claim.task], c.claim) /\ rows[c.claim.task].status = c.status)

\* Two payloads never share a task directory, and nobody removes the directory
\* of a running payload, also when the ID was removed and enqueued again, the
\* workers share the work directory, and payloads outlive crashed workers
\* (Executor.createTaskDir, Executor.cleanup).
PayloadOwnsDir ==
    /\ \A c, e \in payloads :
           c.task = e.task /\ WorkdirOf[c.worker] = WorkdirOf[e.worker] => c = e
    /\ \A c \in payloads : c.task \in dirs[WorkdirOf[c.worker]]

\* Every task directory removed with --rm belongs to an execution whose outcome
\* is journaled ("Workers use execute so they can journal the result before
\* removing any files").
FilesKeptUntilJournaled ==
    \A c \in executions :
        \/ c.task \in dirs[WorkdirOf[c.worker]]
        \/ \E e \in journaled : e.claim = c
-----------------------------------------------------------------------------
(* Liveness.  A worker takes its own steps as long as it lives; a payload is
   only sure to end when it was told to (SIGINT, then SIGKILL to its group), a
   durable cancellation is polled every second, and nothing makes a client act,
   a worker crash, or an operator restart one.                              *)

Told(w) == stop[w] \/ result[w] = "cancelled"

\* Only notifications cancel a running payload.
CancelPoll_faulty(w) == FALSE

CancelPoll(w) == pc[w] = "exec" /\ rows[job[w].task].cancel /\ CancelSeen(w)

Fairness == \A w \in Workers :
    /\ WF_vars(Progress(w) /\ (pc[w] = "exec" => Told(w)))
    /\ WF_vars(CancelPoll(w))

FairSpec == Spec /\ Fairness

\* A worker that is told to stop ends, wherever the signal meets it: waiting,
\* retrying a claim, running a payload or storing an outcome.
StopTerminates == \A w \in Workers : stop[w] ~> pc[w] = "off"

\* A live worker holds the claim that the row of t shows.
Held(t) == \E w \in Workers :
    /\ pc[w] \in {"subscribe", "check", "setup", "exec", "journal", "cleanup", "save"}
    /\ IsClaim(rows[t], job[w])

\* A cancellation that is stored while a live worker holds the task takes
\* effect without any notification: the task does not stay running.
RequestObeyed == \A t \in Tasks :
    (rows[t].status = "running" /\ rows[t].cancel /\ Held(t))
        ~> ~(rows[t].status = "running" /\ Held(t))

\* Recovery ends, also when other workers of the directory acknowledge the
\* records that this one has listed.
RecoveryEnds == \A w \in Workers : pc[w] = "recover" ~> pc[w] \in {"claim", "off"}
-----------------------------------------------------------------------------
(* What the queue promises, and that this system keeps it.                 *)

\* The payload of the incarnation that t's row shows was started.
Ran(t) == \E c \in executions : c.task = t /\ c.createdAt = rows[t].createdAt

Queue == INSTANCE TaskQueue WITH
    state <- [t \in Tasks |-> rows[t].status],
    ran   <- [t \in Tasks |-> Ran(t)]

\* Every step of the workers, crashes and replays included, is a step of the
\* abstract queue or invisible to its clients.
QueueSpec == Queue!Spec
-----------------------------------------------------------------------------
(* The inductive invariant behind the theorems, in three layers: who holds
   which claim, what is journaled for it, and whose directories exist.      *)

RowsClaimed == \A t \in Tasks :
    /\ rows[t].createdAt <= clock
    /\ rows[t].status = "absent" <=> rows[t].createdAt = 0
    /\ rows[t].status \in {"absent", "pending"} => rows[t].worker = None
    /\ rows[t].status = "running" => \E g \in granted : g.task = t /\ IsClaim(rows[t], g)

LocksHeld ==
    /\ \A w \in Workers : pc[w] = "locked" =>
           /\ job[w].worker = w
           /\ rows[job[w].task].status = "pending"
           /\ rows[job[w].task].createdAt = job[w].createdAt
    /\ \A w, v \in Workers :
           pc[w] = "locked" /\ pc[v] = "locked" /\ job[w].task = job[v].task => w = v

ClaimsHeld == \A w \in Workers :
    /\ pc[w] \in Executing \cup Finishing => job[w] \in granted /\ job[w].worker = w
    /\ pc[w] \in Replaying => job[w] \in granted

GrantedOnce ==
    /\ \A g \in granted :
           /\ g.createdAt > 0 /\ g.createdAt <= clock
           /\ rows[g.task].createdAt = g.createdAt => IsClaim(rows[g.task], g)
    /\ \A g, h \in granted : SameIncarnation(g, h) => g = h

StartedOnce ==
    /\ executions \subseteq granted
    /\ payloads \subseteq executions
    /\ \A w \in Workers :
           /\ pc[w] \in {"subscribe", "check", "setup"} => job[w] \notin executions
           /\ pc[w] = "exec" => job[w] \in executions

RecordsGranted ==
    /\ \A d \in Dirs : \A c \in journal[d] : c.claim \in granted
    /\ \A w \in Workers : \A c \in todo[w] : c.claim \in granted

ClaimInv == /\ RowsClaimed /\ LocksHeld /\ ClaimsHeld /\ GrantedOnce
            /\ StartedOnce /\ RecordsGranted

\* One outcome per claim, published in the directory of the claim's worker.
OutcomesJournaled ==
    /\ \A c \in journaled : /\ c.claim \in granted
                            /\ c.status = "completed" => c.claim \in executions
    /\ \A c, e \in journaled : c.claim = e.claim => c = e
    /\ \A d \in Dirs : \A c \in journal[d] : c \in journaled /\ WorkdirOf[c.claim.worker] = d
    /\ \A w \in Workers : \A c \in todo[w] :
           c \in journaled /\ WorkdirOf[c.claim.worker] = Dir(w)

OutcomesInHand == \A w \in Workers :
    /\ pc[w] \in Executing => \A c \in journaled : c.claim # job[w]
    /\ pc[w] = "journal" /\ result[w] = "completed" => job[w] \in executions
    /\ pc[w] \in Finishing \cup Replaying =>
           InHand(w) \in journaled /\ WorkdirOf[job[w].worker] = Dir(w)
    /\ pc[w] \in {"ack", "reack"} /\ IsClaim(rows[job[w].task], job[w])
           => rows[job[w].task].status = result[w]

DiscardedGone == \A c \in discarded :
    c.claim \in granted /\ ~IsClaim(rows[c.claim.task], c.claim)

JournalInv == /\ OutcomesJournaled /\ OutcomesInHand /\ DiscardedGone
              /\ ResultDurable /\ OutcomeJournaled

\* The directory that a worker has made is its own until it is cleaned up.
DirsMade ==
    /\ \A w \in Workers :
           /\ made[w] => pc[w] \in {"exec", "journal", "cleanup"} /\ job[w].task \in dirs[Dir(w)]
           /\ pc[w] = "exec" => made[w]
    /\ \A w, v \in Workers :
           made[w] /\ made[v] /\ Dir(w) = Dir(v) /\ job[w].task = job[v].task => w = v

UsesDirOf(c, w) == c.task = job[w].task /\ WorkdirOf[c.worker] = Dir(w)

DirsOwned == \A w \in Workers : made[w] =>
    /\ \A c \in payloads : UsesDirOf(c, w) => pc[w] = "exec" /\ c = job[w]
    /\ \A c \in executions : UsesDirOf(c, w) =>
           c = job[w] \/ \E e \in journaled : e.claim = c

DirInv == DirsMade /\ DirsOwned /\ PayloadOwnsDir /\ FilesKeptUntilJournaled

IInv == TypeOK /\ ClaimInv /\ JournalInv /\ DirInv
=============================================================================
