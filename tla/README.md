# A TLA+ verification of nextask

nextask is a task queue on PostgreSQL. Clients put shell commands into the table
`tasks`; workers claim them one at a time, run each in a directory of its own,
store the outcome and stream the output back through the table `task_logs`.
There is no server: clients and workers are processes that share a database and
use `LISTEN`/`NOTIFY` as hints. This directory holds the specification of that
system, the TLC configurations that check it on small instances, and TLAPS
proofs of its most important theorems.

    tlasany M.tla                        # parse a module
    tlc -config shared_dir.cfg MCWorkerLifecycle.tla
    tlapm WorkerLifecycle_proofs.tla     # check the proofs of a module

## 1. Inventory of the system

State is either shared (database, work directory), or private to a process.

| Component (source) | State | Operations | Correct when |
|---|---|---|---|
| Task table (`internal/db/tasks.go`, `completion.go`, `queries/*.sql`) | one row per task ID: status, claim columns (`worker_id`, `created_at`, `started_at`), `cancel_requested_at` | insert, claim (`FOR UPDATE SKIP LOCKED`), request cancel, complete a claim, delete | one claim per incarnation of an ID; an outcome reaches exactly the claim it belongs to |
| Worker life cycle (`internal/worker/worker.go`, `task.go`, `completion.go`) | the claim in hand, its outcome, the cancelled context | start, recover, claim, process, finish, stop | nothing runs twice; a stop ends the worker wherever it arrives |
| Completion journal (`worker/journal.go`) | one immutable `.json` file per finished claim, in `<workdir>` | save (link, never replace), list, read, acknowledge | an outcome is on its row or in the journal |
| Executor (`worker/executor.go`) | task directory, payload | create directory, run, `--rm` cleanup | directories are never shared, never removed early |
| Notifications (`worker/control.go`, `db/notifier.go`, `db/events.go`) | connection, channels, queued requests and events | Add, Remove, reconnect, dispatch, drop when full | a hint only ever speeds things up |
| Commands (`cli/enqueue.go`, `cancel.go`, `remove.go`) | what a command has read so far | sequences of statements and notifications | a reply is true of the stored state |
| State watcher, wait, attach, worker stop (`cli/watch.go`, `wait.go`, `attach.go`, `worker_stop.go`) | coalesced hint, set of tasks still waited for | check at once, after a hint, on a timer | ends exactly when the stored state says so |
| Task output (`worker/logger.go`, `db/logs.go`, `cli/logs.go`) | bounded queue, one batch, last log ID | log, flush with retries, drain, follow by ID | stored lines are neither lost nor repeated |
| Worker registry (`db/workers.go`, heartbeat in `worker.go`) | worker row, last heartbeat | register, heartbeat, unregister, derived `stale` | a live worker's task is not stale |
| Retry (`db/retry.go`, `db/errors.go`) | back-off | retry transient errors | a retried statement is harmless if it did commit |
| Process supervision (`taskexec/process.go`) | process group, timer | run, SIGINT, grace, SIGKILL | returns, and no process is left that writes |
| Artifacts (`storage/*`) | walk, staged copies, remote objects | periodic and final upload, fetch | the final pass sees the final files; a fetch replaces nothing it did not see |
| Integrations (`integrations/*`) | snapshot ref, rewritten command | prepare inside the enqueue transaction | a visible task is complete |
| Daemon (`cli/worker_daemon.go`) | child, readiness pipe | start, await, release or stop | released iff ready |
| Configuration (`config/*`, `urltemplate/*`) | layers of settings | merge, resolve | the documented layer wins |

How they interact: a client writes a row and then notifies; a worker claims,
listens on the channel of the task, checks the row for a cancellation, runs the
payload, journals, cleans up, stores, acknowledges. The journal directory is the
only thing that survives a worker, and the payload may survive it too, because
it runs in a process group of its own. Several workers may have the same work
directory; then each replays the journal records of all. IDs can be removed and
enqueued again, so everything that goes by task ID alone is suspect.

What is hard, and where most of the properties aim: lost answers of committed
statements, crashes between two steps of `finishTask`, records replayed by
another worker or for a row that was replaced meanwhile, lost or stale hints,
decisions taken on what an earlier statement has read. `PROJECT.json` lists
these hazards with their source lines, and the properties that cover them.

## 2. What is modelled

### `TaskStore`: rows and statements
The columns that decide anything (status, `created_at`, `worker_id`,
`started_at`, `cancel_requested_at`) and each SQL statement as a function on the
row it finds: `Inserted`, `Claimed`, `CancelApplied`, `Completed`, `Confirmed`.
An *incarnation* of an ID is identified by `created_at`, a *claim* by the four
columns that `complete_claim.sql` compares. `exit_code` and `finished_at` are
fixed together with the status before the first attempt to store an outcome, so
the status stands for the three.

### `TaskQueue`: what the queue promises
The abstract specification, as a client that polls the table sees it: a task is
submitted, withdrawn while pending, taken, its payload is started at most once,
it is settled at most once per incarnation (as completed only if the payload was
started), and removed. No workers, no journal, no locks.

### `WorkerLifecycle`: workers, journal, directories
`pc[w]` is the place in `Worker.Run`:

| label | code |
|---|---|
| `off` | no process |
| `recover`, `resave`, `reack` | `recoverCompletions`: next record; `saveCompletion` and `acknowledgeCompletion` of it |
| `claim`, `locked` | `claimTask`; between the row lock of the subquery and the commit of the update |
| `idle` | the `select` that waits for work |
| `subscribe`, `check`, `setup`, `exec` | `processTask`: `notifier.Add`, `CancelRequested`, `Executor.execute` before and after the command has started |
| `journal`, `cleanup`, `save`, `ack` | the four steps of `finishTask` |

One action is one SQL statement, one change of the journal directory, or one
event of a payload. `ClaimReplyLost` and `SaveReplyLost` are attempts that
commit and whose answer is lost, followed by the retry. `Crash` can happen at
every label; it is also every error return that leaves row and journal alone.
A crashed worker's payload stays in `payloads` until `OrphanEnds`. `Start`
lists the journal, so a restarted worker replays what it and its neighbours
left. `RequestCancel` and `DeleteTask` are the statements alone and are enabled
on any row not locked: `nextask remove` checks the status first, but in another
statement.

### `TaskControl`: commands and hints
The same table seen from the commands: `enqueue` (commit, then wake), `cancel`
(snapshot and update of `request_cancel.sql` as two steps, then the hint, then
the wait for a terminal row) and `remove` (look, then delete) run as sequences
of statements; between two of them a command may give up. Hints reach only the
workers that are connected and listen at that moment. `Disconnect` loses events
on their way, `Reconnect` says nothing about the gap, `DropHint` is the full
queue of `watchWorker`, and `Unlisten` carries out a queued removal late, even
after the channel was added again. Claim and outcome are single steps here,
but between the answer "no task" and the wait (`none`) events may arrive.
Queued events are kept as a set per worker plus one flag for wake-ups: their
order is abstracted, which allows more orders than the code.

### `Notifier`: the goroutine that listens
`at` is the place of `Notifier.run`: the top of its loop, `processRequests`
(`serve`), the wait of half a second, `deliver` (blocked on the event channel),
`reconnect`, the deferred calls. `adds` and `removes` are the two request
channels, `queue` and `backlog` the events on this and on the server's side of
the connection, `session` the channels the server has, `channels` the map. A
caller of `Add` sends, waits for its answer, its own context or the end of the
goroutine; `Remove` is dropped when its channel is full. LISTEN may fail after
some of the channels; `FailPendingAdds` is called wherever the code calls it.

### `StateWatch` and `TaskWait`: commands that wait
`StateWatch` is the loop of `stateWatcher.Run` with the check left open: one hint
in a channel of capacity one, the ticker, the closed listener with its one last
look, the end of the context, a transient error that repeats the check. `TaskWait`
EXTENDS it with the check of `nextask wait`: discovery by tag, one read per task
and step, the report of each task, the first failure, `--any`. The tasks are an
environment: they appear, run, end, look stale, recover and vanish. `attach`,
`cancel` and `worker stop` use the same loop with checks that are modelled in
`TaskLog`, `TaskControl` and `WorkerRegistry`.

### `TaskLog`: output from the payload to a follower
The readers of two streams number a line and then send it, so the other one may
overtake; the goroutine of `TaskLogger` batches, flushes, keeps a failed batch
first in line, and drains under one deadline; `FlushUnanswered` stores a batch
whose answer is lost. The follower of `log --attach` and `enqueue --attach` reads
the status, then the rows after the largest ID it has seen, ordered by `seq`, and ends
when the status was a final one. As in `get_task.sql` a running row may look stale at any
time (`Derived`), since the age of a heartbeat says nothing about the logger: the follower
then ends as well (`attach.go:41`, `wait.go:210`), while the worker may be alive and go on. The
row of the task may be deleted, which takes its lines along and rejects later
ones. A statement takes effect while its caller waits for it or never; the
follower polls (the hints are in `StateWatch`).

### `WorkerRegistry`: registration, heartbeats, staleness
Time passes in ticks; `Tick` waits for what is `Urgent`: a due heartbeat, a call
at its limit, an expired timeout. One process goes through `Worker.Run` from
`RegisterWorker` to the deferred calls in their order, the heartbeat goroutine
makes up to `MaxTries` attempts within its deadline, the database is away once,
`worker stop` looks, subscribes, signals and waits. `TaskStale` is the derived
status of the task queries (cut to whole seconds), `WorkerStale` that of the
worker list.

### `ProcessGroup`: `taskexec.Run`, nested
Level `i` is one call of `taskexec.Run`. Its shell is the payload, or a wrapper
(`nextask integration ...`) that makes the call of level `i + 1`. A call waits for the
shell and for the end of the output pipe, then for its group; on cancellation it
sends SIGINT, waits for its grace period (longer around wrappers with a final
pass), and sends SIGKILL. Time is in ticks again; `Lag` is how late a wrapper may
notice a signal. Nothing is assumed to reap orphans.

### `DaemonStart`: `worker --daemon`
The command, the child and the pipe between them: who holds which end, the one
byte, the startup timeout, interrupts, release, SIGTERM and kill. The child may
hang while it starts or while it stops, crash at any time, and lose its reader.

### `EnqueuePrepare`: enqueue with integrations
One transaction: the INSERT that reserves the ID (and makes others wait), the
integrations from the last to the first, the snapshot that is pushed to a ref
that must not exist, the execution command, COMMIT with or without an answer.
Then the worker, which checks out the recorded commit, `remove`, and others who
push to the branch. Three enqueues share an ID, two of them one database.

### `ConfigLayers`: which layer wins
Four files, the environment and the defaults, merged as `Load` does it. A value is
the layer it comes from and whether it is the zero value; a file is what it says
of a plain field and of the git remote under its new and its old name.

### `ArtifactSync` and `ArtifactFetch`: uploads and downloads
`ArtifactSync`: a payload writes the halves of its files, replaces and removes
them, while periodic passes and then the final pass walk, and a few goroutines
stat, open, copy, compare, ask for the digest and put. Content is a pair of
versions, so a torn copy is visible. `ArtifactFetch`: list, check the targets,
download to a temporary file with the checks before and after, link or rename;
objects are replaced meanwhile, and another program writes in the directory.

### The modules for TLC
`MCWorkerLifecycle`, `MCTaskControl`, `MCTaskWait`, `MCWorkerRegistry` give
constants their values. `MCProcesses` and `MCEnqueuePrepare` each hold two small
specifications that share nothing (`ProcessGroup` and `DaemonStart`;
`EnqueuePrepare` and `ConfigLayers`): `part` says which one a behaviour exercises,
the other rests in its initial state. `MCArtifacts` does the same with families:
`Up(c)` is `ArtifactSync` and `Down(c)` is `ArtifactFetch` with the constants
`Settings[c]`, and `setting` says which one a behaviour exercises. The run has five
settings, the proofs any. The properties are the conjunctions of the parts'
properties, named there.

## 3. Properties and runs

Each run takes between a few seconds and three minutes. The parts of a
combined property are definitions of their own in the module of the component.
An invariant that a theorem of section 4 states is inductive: besides the
property proper it has the parts that make it so, and TLC checks them too.

| run | instance | properties |
|---|---|---|
| `shared_dir` | 2 workers, 1 directory, 1 ID, `--exit-if-idle --rm`, 4 timestamps | `IInv` (the invariant of the proofs, types included), `AtMostOnce`, `ResultDurable`, `DiscardedIsObsolete`, `PayloadOwnsDir`, `FilesKeptUntilJournaled`; `QueueSpec`, the refinement of `TaskQueue` |
| `progress` | 2 workers, one `--once`, 2 timestamps, fairness | `StopTerminates`, `RequestObeyed`, `RecoveryEnds` |
| `control` | 1 worker, 2 commands, 2 IDs, all faults | `ControlInv`: an accepted cancellation is on the row of its incarnation until that has ended, and what commands have read stays true of the past; `CancelledWasRequested`: a hint for the previous task does not cancel this one |
| `wake` | 1 ID, 2 workers, 1 command, no faults, fairness | `PendingClaimed`: no lost wake-up between claim and wait |
| `notifier` | 3 channels, 2 callers, queues of one | `NotifierInv`: the server's session is the map, and the map has what was confirmed; `AddEnds`, `CloseEnds` |
| `wait` | 2 tasks, `wait a b a`, `wait --any`, `wait --tag`, a deadline | `WaitInv`: first failure, one report per task, a last look before failing; `SuccessIsReal`; `WaitEnds` without any hint |
| `log` | 2 streams, 3 lines, queue 1, batch 2, removable row | `LogInv`: each line stored once, none lost while there is neither cancellation nor removal nor a missed deadline, and the reasons for it; `FollowerComplete`: with the end of the task everything stored is printed, with a stale heartbeat all up to some line of each stream; `PrintedAsWritten`; `OutputEnds`; `OutputAccepted` |
| `registry` | 1 process, interval and threshold 3, outage of 1 tick | `RegistryInv`: `stopped` means that nothing is left, and how old a row can be when the next beat is due; `LiveNotStale`; `LeftIsReported` |
| `processes` | git around S3 around a payload; a daemon start | `ProcessesInv`: success is real; `NothingLeft`, and how long each level takes; `FinalPassKept`; `WaitsEnd`; `UnconfirmedEnds` |
| `prepare` | 3 enqueues of one ID in 2 databases, 1 ref; 4 files and 3 variables | `PrepareInv`: what a worker sees is complete, what failed is not seen; `OwnSnapshot`; `LayersRespected` (with the types of `ConfigLayers` and what holds while it loads); `EnqueuesEnd` |
| `artifacts` | 2 files and 1 or 2 goroutines, symbolic links, `min_age`; 2 fetches of 2 or 4 names | `ArtifactsInv`: no torn content, and the reasons for it (`SyncInv`, `FetchInv`); `SuccessIsComplete`; `NothingOverwritten`; `UploadsProgress` |
| `wake_lost` | 1 worker whose listener may reconnect | `PendingClaimed` fails, see below |

`wake_lost` shows a disagreement between the code and its README ("an available
worker picks it up"): the wake-up is sent while the listener reconnects,
`notifier.go` listens again without telling anybody, and `worker.go:244-255` has
no timer, so the task stays pending next to an idle worker until another event.

### Bounds

`MaxStamp` limits insertions and claims: 4 timestamps are two full incarnations
of one ID (inserted, claimed, removed, inserted, claimed), the least that lets a
late outcome, record, payload or hint meet a replaced row. Two workers are
enough for every conflict of that code, which is always between two claims, two
users of a directory, or a replay and a live worker; several tasks in one
journal, and workers with directories of their own, are covered by the proofs,
which hold for any number. `progress` uses 2 timestamps: liveness needs one
incarnation and as many crashes as one likes. The constraint
`OneStopFirstCancel` of `shared_dir` leaves out two workers that are told to stop at
the same time, and cancellations stored for the second incarnation: a stop
concerns one worker's own steps, and the two incarnations are treated alike by
the code that reads the mark. `TaskControl` bounds insertions
only, so a claim is never disabled by the bound. The constraint `OneTaskOrClient`
lets two commands race over one task and its second incarnation, or one command
act on two tasks that a worker takes one after the other: the properties
relate a command to one task, or a worker to the task before.

`notifier`: queues of one element are full at once, and two callers are the least
for which an `Add` of the other can be in the way; channels beyond three would
only repeat partial failures. `wait`: one failed read and one task enqueued
while waiting; each of these resets one check. `log`: three lines, a queue of
one and a batch of two make the queue full, a batch full, and a drain with a
rest. `registry`: the interval, the threshold and the limits of a call are a few
ticks in the order of the defaults (delay < limit of a call < interval), and
`AgeCap` is above every age that is compared. One outage shorter than an
interval is what `LiveNotStale` can promise: with longer ones a live worker does
become stale. `processes`: one tick of grace more than a final pass needs, and
one of lag per level. `prepare`: two failed calls and two foreign pushes, the
least that replaces and then deletes a branch. `ConfigLayers`: a file sets the field, or the
remote under its names; the two never influence each other, and the proof does without that. `artifacts`: two
versions of a file, so that an upload can be torn and an object go back; two foreign
writes in the destination where names fold, so that a file can come and go between two
looks, and one where they do not; one failed request.

Deadlock checking is off: each of these systems may come to rest, with all tasks
settled, all commands returned and all workers stopped. Symmetry is used in
`shared_dir` and `control`, whose configuration treats the permuted values alike
and whose properties are invariants or a refinement without liveness.

### Fairness

`WorkerLifecycle!Fairness` is weak fairness of a live worker's own steps: its
loop is sequential code that always has a next step, and statements are retried
until the database answers (`db.RetryValue` without a limit), which assumes that
it answers eventually. A payload is not assumed to end by itself; it is assumed
to end once it was told to, which is what SIGINT and then SIGKILL to its group
are for (`WaitsEnd` checks that assumption on `ProcessGroup`). No fairness is
assumed of clients, crashes, starts, stop signals, notifications, or lost
answers. `TaskControl!Fairness` adds that payloads end, that listeners reconnect
and that an enqueue that has committed reaches its notification.

The other specifications ask for weak fairness of goroutines and commands that
are scheduled, and of clocks that tick, and for nothing of payloads, other
programs and users:
- `Notifier`: the goroutine, callers that have been answered, and the reader of the
  event channel until `Close` is called (`watchWorker` and the drain goroutine of
  `stateWatcher` are loops of their own), not after it.
- `TaskWait`: the command and its ticker; no hint is relied on.
- `TaskLog`: the processes. That a database which answers now and then stores a
  batch is an assumption of `OutputAccepted` alone (`SF_vars(Flush)`).
- `WorkerRegistry`: a context that has ended is noticed, time passes, the one
  outage ends, listeners reconnect.
- `ProcessGroup`: the calls, the wrappers and time; the payload may ignore SIGINT
  and fork.
- `DaemonStart`: the command only. `CallEnds` assumes in addition that its two
  timers fire, `UnconfirmedEnds` that a child which does not hang goes on.
- `EnqueuePrepare`: each enqueue, that is, git and the database answer; the git
  calls have no timeout of their own.
- `ArtifactSync`: the uploader and the age of files; the payload may run for ever.

### Where the code and its documentation part

Found while modelling. Each has a property in its module that no run checks,
because it does not hold; checking it in the configuration named here gives
the counterexample.

| property | to see it | what happens |
|---|---|---|
| `PromisedIsCancelled` | `control` | `request_cancel.sql` answers from its snapshot but updates the row as it is after waiting for a claim: "Task cancelled" for a task that runs, may still complete, and gets no hint (`tasks.go:242`). |
| `NoRunningRemoved` | `control` | `remove` looks (`remove.go:41`), the task is claimed, `remove` deletes (`remove.go:46`); or the task looks stale while its worker is alive. |
| `HintsBacked` | `control` | A cancel hint of an earlier incarnation of the ID cancels the payload of the next, whose row carries no request (`task.go:67`). |
| `NotifierInv` | `notifier` with `Reuse = TRUE` | A channel is removed and added again; the two queues are served in random order (`notifier.go:190`), and the confirmed `Add` (`:85`) is undone by the older removal. |
| `GivesUpForReason` | `notifier` | The timeout of one connection attempt is not transient (`errors.go:139`), so the notifier ends (`notifier.go:168`) instead of reconnecting. |
| `TagWaitIsComplete` | `wait` | `wait --tag` ends although a task was added between its discovery and its last check (`wait.go:110`; `doc/cli.md:37`). |
| `TimeoutNamesTasks` | `wait` | The deadline passes during the check that saw the last task end: the result is a timeout that names nothing (`watch.go:98`, `wait.go:206`). |
| `PrintedOnce` without its premise | `log` | Two streams store their lines in another order than they numbered them; the follower remembers the ID of the last row by `seq` and prints rows again (`attach.go:39`). |
| `FollowerComplete` without its second case | `log` | A follower that meets an expired heartbeat prints "Task stale" and ends (`attach.go:41`, `:51`); a worker that is alive, as after an outage, stores later lines, which it does not print. |
| `OutputAccepted` without the deleted row | `log` | Once the row of a running task is deleted every batch is rejected; the payload blocks on its output until it is cancelled (`logger.go:172`). |
| `LiveNotStale` | `registry` with two processes of one ID | One process that stops marks the row of the other as stopped, whose heartbeats then update nothing (`worker.go:75`). |
| `StaleMissedBeats` | `registry` with `Unit = 2` | The threshold is cut to whole seconds (`tasks.go:236`): a task is stale before the documented number of beats was missed; below a second at once. |
| `StopTakesEffect` | `registry` | The stop signal is a notification only; one that is sent while the worker connects or reconnects is lost (`worker_stop.go:69`). |
| `NothingLeft` | `processes` with `N = 2`, `Final = <<0, 0>>` | Around a git wrapper that is alone, or innermost, the grace periods are equal: the outer SIGKILL hits the wrapper before the wrapper has killed the payload (`process.go:71`). |
| `WaitsEnd` | `processes` with `MayEscape = TRUE` | A child that leaves the group keeps the output pipe open, and `cmd.Wait` waits for it (`process.go:83`). |
| `ReplacesOriginal` | `artifacts`, of `ArtifactFetch` | With `--overwrite` a file that is written between the second check and the rename is replaced unseen (`fetch.go:199`). |

## 4. What is proved

The theorems hold for any sets of tasks, workers, commands, channels, enqueues,
processes, artifacts or paths, any texts of files, any sizes of queues and any bound. They rest on the assumptions the
modules name, which TLC evaluates on every run:

| assumption | what it asks | why the code justifies it |
|---|---|---|
| `NoneAssumption`, `ConfigAssumption` | SQL NULL is no worker, claim or status; every worker has a directory and a filter | columns and flags |
| `ControlAssumption` | names of the faults, a bound | only the bound of TLC |
| `NotifierAssumption` | initial channels are channels, queues have room for one element | `notifier.go:16-24` |
| `EnqueueAssumption` | finitely many enqueues; an enqueue has one ID, one ref and a sequence of integrations | `integrations.go` resolves them before the transaction |
| `TextsAssumption` | a file says of each setting nothing, a zero value, a good or a refused one | `files.go:60-77` |
| `LogAssumption` | queue and batch have room for a line; `nextask` is the name of no stream | `logger.go:61-90`, `completion.go:47` |
| `WaitAssumption` | finitely many tasks; no exit code is NULL; IDs on a command line are IDs of tasks | `exit_code INTEGER`, arguments |
| `GroupAssumption` | there is a level, ticks are numbers, the worker's own call has no final pass | `process.go:15`, `s3.go:43-53` |
| `ArtifactsAssumption` | the constants of each setting are of their kinds (`SyncAssumption`, `FetchAssumption`): patterns select files, names are positive numbers with one path each, no name is the mark for "no file" | `s3.go:115-131` checks the options; names are ranks in the sorted listing, `fetch.go:86` |
| `RegistryAssumption` | intervals and limits are positive | `config.go:232-238` replaces zero by the default |

Five theorems have hypotheses of their own, and each is one that the code does
not establish: `Reuse = FALSE`, `DistinctIds`, `~MayEscape` and `Cleans` exclude the
behaviours that section 3 lists as real, and those about time say what
delays are survived. `Prompt` is `~MayEscape` and `(N - 1) * Lag < Extra`: all
wrappers together pass SIGINT on within the second that `Run` adds to a declared cleanup
(`process.go:73`). `Cleans` says that the innermost wrapper makes a final pass, so that
this second is added at every level; it holds of a task with `s3` that is not
wrapped around `git`, and of one without integrations. The configuration `processes`
satisfies both (`2 * 1 < 3`, `Final[3] = 2`). The two in `LiveWorkersAreFresh`
say which outage a heartbeat survives. With the defaults (beats every 60 s,
threshold 3, `connectTimeout` 10 s) they read: the outage and an answer
together take less than 60 s, and 10 + 2 * 60 s + an answer are no more than 180 s.
The configuration `registry` satisfies them with little room (1 + 6 + 1 <= 9).

| module | theorem | statement |
|---|---|---|
| `WorkerLifecycle_proofs` | `TypeCorrect` | `Spec => []TypeOK` |
| | `NeverTwice` | `Spec => []AtMostOnce` |
| | `NeverLost` | `Spec => []ResultDurable` |
| | `NeverUnjournaled` | `Spec => []OutcomeJournaled` |
| | `NeverDiscardedInVain` | `Spec => []DiscardedIsObsolete` |
| | `DirectoriesOwned` | `Spec => []PayloadOwnsDir` |
| | `FilesKept` | `Spec => []FilesKeptUntilJournaled` |
| | `Inductive` | `Spec => []IInv` |
| | `Implements` | `Spec => QueueSpec` |
| `Notifier_proofs` | `AddedStaysSubscribed` | `Reuse = FALSE` gives `Spec => []NotifierInv` |
| `TaskControl_proofs` | `RequestsLeaveTheirMark` | `Spec => []ControlInv` |
| | `OnlyRequestedAreCancelled` | `Spec => []CancelledWasRequested` |
| `Integrations_proofs` | `OnlyPreparedIsSeen` | `Spec => []PrepareInv` |
| | `SnapshotIsOwn` | `Spec => []OwnSnapshot` |
| | `PrecedenceHolds` | `PartsSpec => []LayersRespected` |
| | `ArtifactsAreWhole` | `ArtifactsSpec => []ArtifactsInv` |
| | `SuccessHasItAll` | `ArtifactsSpec => []SuccessIsComplete` |
| | `WhatIsThereStays` | `ArtifactsSpec => NothingOverwritten` |
| `TaskWait_proofs` | `WaitIsRight` | `Spec => []WaitInv` |
| | `SuccessIsEarned` | `Spec => []SuccessIsReal` |
| `TaskLog_proofs` | `OutputIsKept` | `Spec => []LogInv` |
| | `FollowersSeeAll` | `Spec => []FollowerComplete` |
| | `FollowersSeeItAsWritten` | `Spec => []PrintedAsWritten` |
| `MCProcesses_proofs` | `ProcessesRight` | `PartsSpec => []ProcessesInv` |
| | `FinalPassesKept` | `Prompt` gives `PartsSpec => []FinalPassKept` |
| | `NothingIsLeft` | `Prompt` and `Cleans` give `PartsSpec => []NothingLeft` |
| `WorkerRegistry_proofs` | `StoppedMeansStopped` | `DistinctIds` gives `Spec => []RegistryInv` |
| | `LiveWorkersAreFresh` | `DistinctIds`, `Punctual` and `ConnectLimit + 2 * Interval + Delay <= StaleInterval` give `Spec => []LiveNotStale` |

None of the properties of `WorkerLifecycle` is
inductive by itself. The invariant `IInv` has, besides the types, three layers, proved in this order, each step by step over the actions of `Next`:

1. `ClaimInv`, who holds which claim. A worker in `locked` has the row lock, so
   the row is still pending and of the incarnation it has read (`LocksHeld`);
   hence a claim that commits is the first of its incarnation, at most one claim
   per incarnation is ever granted, and if the row still shows that incarnation
   it shows that claim (`GrantedOnce`). A payload is started from a granted claim
   that has not been started (`StartedOnce`), which gives `AtMostOnce`.
2. `JournalInv`, what is journaled for a claim. While a claim is executing
   nothing is journaled for it, afterwards its outcome is, in the directory of
   its worker (`OutcomesInHand`, `OutcomesJournaled`): so there is one outcome per
   claim, and the branch of `save` that returns an earlier record is never
   taken. When a record is about to be acknowledged, a row that still is its
   claim shows its outcome; that is why removing the record loses nothing.
   `ResultDurable` needs `OutcomeJournaled` and one outcome per claim: a row that
   is already terminal when an outcome arrives was given the same one.
   An outcome is discarded only if the row is not its claim any more, and by
   `GrantedOnce` it never will be again (`DiscardedGone`).
3. `DirInv`, whose directories exist. A worker that has made a directory is the
   only one that has (`DirsMade`), and every other execution that used it has
   ended and is journaled (`DirsOwned`). `PayloadOwnsDir` holds because `Mkdir`
   refuses a directory that is left over, which the directory of a payload that
   outlived its worker is.

`Implements` maps each row to its status and to "some started claim belongs to
this incarnation"; the proof matches every action with an abstract one or a
stutter, using `IInv` (a completed outcome has been started) and `NeverTwice`.

`AddedStaysSubscribed` says that the server's session is the map (`SessionMatches`)
and that the map has every channel whose `Add` returned success and that nobody
removed (`Subscribed`). The second needs two more parts. `AddsOwned`: a queued
request is the one its caller waits for, it has no answer yet, and an answer "ok"
stays true until the caller takes it; a caller that leaves turns its request into
nobody's. `CallsApart`: no removal in the queue is for a channel that is wanted or
in a call, and two calls have no channel in common. This part is where the
theorem needs that no channel is used twice: `wait` never removes one
(`wait.go:159`), and a worker adds the channel of a task ID when it has claimed the
task (`task.go:25`), so it uses one twice only if the ID was removed and enqueued
anew. With `Reuse = TRUE` the invariant is false, as the
table above says.

`RequestsLeaveTheirMark` is about the two halves of `request_cancel.sql`. A command
that has read a pending or running row knows an incarnation; the row may have moved on,
been removed and enqueued again when its update is carried out, but the
incarnation has only moved forward (`LooksTrue`), timestamps grow (`StampsPast`), and a
row carries a mark only for a request that was granted (`MarksRequested`). The proof sorts the
steps in two kinds, each with one lemma: those that change rows and tell workers
nothing (`TableStep`), and those that leave the rows and tell a worker only what
has been asked for (`SignalStep`). `OnlyRequestedAreCancelled` adds that granted
requests are never forgotten: a worker whose channels are removed late still hears
hints for the task before, but acts on those for the task in hand only.

`OnlyPreparedIsSeen` needs to know who holds the reserved key: a held row and its open
transaction name each other, and a row is seen only after a COMMIT (`RowsOwned`).
Then the command of each enqueue is the end of its selection (`CommandsBuilt`), and
the git wrapper stands in it only with a recorded snapshot that is on its ref unless
somebody else touched the branch (`SnapshotsRecorded`). The proof is
organised by enqueue and row: a step of one enqueue leaves what is known of the
others alone (`OwnStep`, `FreeRowStep`). `SnapshotIsOwn` is about the worker, which
restores the recorded commit and not the tip of the branch.

`PrecedenceHolds` is about `ConfigLayers`, whose properties say what counts when everything
is loaded, while the code merges one layer after the other and never looks back. What
holds in between is that a value comes from the highest layer that has spoken so
far, zero or not, under either name of the remote (`LayersSoFar`, `FromHighest`); the
proof adds one layer above all others per step. Defaults come last because a zero in
a high layer still hides a value in a lower one (`FromDefault`).

`WaitIsRight` holds in spite of checks that fail halfway and are repeated, since each
report takes its task out of those that are waited for (`ReportsRight`); a task may end,
vanish and appear again at any time (`ChangeKeeps`). In the last look the tasks read so far had not ended
after the listener's end was noticed (`LastLook`), which makes the failure
right. `SuccessIsEarned` follows from it: a code counts as success only where the row
did (`RowsRight`), and a command line names its tasks once (`Distinct`).

`OutputIsKept` follows a line from its reader to the table: in a hand, in the queue or in
the batch (`Moving`), its number is its own and smaller than that of every later line of its
stream (`Numbered`), and no place on the way lets a line overtake one of its stream
(`InOrder`). Two streams do overtake each other, so the numbers of the table say
less than its IDs: what is known is that IDs grow along each stream, with
the one exception of a batch that is stored already and whose answer was lost (`StoredInOrder`).
That `InsertLogBatch` gives each new line of a batch a larger ID than the one before is
a lemma on the cardinality of the lines up to it (`Ranks`). A follower has printed all rows up to
the ID it remembers, and ends after the task or on a status of stale (`FollowerRight`), and of each line it has printed also the
earlier ones of its stream, before it (`PrintedRight`). One lemma covers `nextask log` and every later
query (`PrintsKeeps`), and rests on what a query returns: each row after the ID once, which is a
counting argument on the sorted rows (`RowsAre`). `FollowersSeeAll` adds that
once the status is read as ended the only row that can still appear is the note of
`finishTask`, and that after a stale end what is missing comes after what is printed
(`PrintedRight`); `FollowersSeeItAsWritten` that with one stream a later row has the larger
ID (`LaterIsLarger`), so that nothing behind the remembered ID has been printed.

`StoppedMeansStopped` is one invariant per process (`RowsRight`, `CallsBounded`), which
`DistinctIds` makes independent of the others. `LiveWorkersAreFresh` bounds
the age of the row when the beat is due that is next or under way (`OnTime`), in three
phases: no beat was missed, so that the age is at most the time to
connect and one interval; one was missed in the outage, so that the next one is
due only after the outage must be over; the outage is over. A tick adds as much
to the age as it takes from the time left; a beat that succeeds goes back to the
first phase. That the ticker goes on during a call, and keeps one tick, is part
of the invariant.

`ProcessesRight` says of every level where its call, its goroutine and its shell can be
(`CallsRight`), which keeps success honest: a wrapper exits with 0 only after the
call below it has, and after its final pass (`SuccessPassedOn`). The other two need
`OnTime`. It compares the time since a group was told to stop with the most that its
call can take: each wrapper below reacts within `Lag`, the payload is killed after
`StopTimeout`, and the final passes follow (`Bound`). While a wrapper lives, its level
is at most one `Lag` ahead of the one below, or of the final pass it makes (`Since`). Time
passes only when nothing urgent is left to do; the proof of that step takes the
lowest level that would be late and shows that it waits for one below it that is
late as well, or is the payload's, whose grace period is over. A grace period is `Extra` longer than the `Bound`
without the lags, so it never ends before the call does, for levels above a final
pass: no pass is killed, and under `Cleans` no wrapper, hence no call is lost with its caller
(`NoneLost`) and every shell that is alive has its callers above it (`Nested`). The cleanup
declared for a level is a sum over the levels below; that it is a number, and that it
is the sum for the level below and one more final pass, is proved by induction (`CleanupsAre`), from
well-founded induction on sets of numbers. `DaemonStart` needs that an answer
is the child's and that a child which has ended on its own has cleared its row (`HandshakeRight`).

`ArtifactsAreWhole` has one invariant for each side of the store. Of an upload,
`SyncInv` says that there is one pass at a time and in it one goroutine per file, so that a
final pass begins after the payload and the periodic passes have ended (`PassesApart`); and that
a copy lies between the stored object and the file, half by half, and is whole once it
has been compared (`CopiesBetween`). From the second part follows that a put never goes
back: the object is not newer than the copy that replaces it. The first part makes
the final pass quiet: nothing changes a file any more, so what a goroutine holds is the file as it is,
and every selected file is still to be met, in a hand, or settled, unless the pass has
failed (`FinalSoFar`). `SuccessHasItAll` is inductive together with this invariant, since the end
of a final pass is the last step that is not a file growing older. All steps of a goroutine
rest on one lemma (`JobStep`), which asks what the job becomes and whether an object is stored.
Of a fetch, `FetchInv` says that stamps grow and that everything a fetch has seen is older than
everything it has published (`StampsGrow`), that it takes the names one by one (`OneByOne`), and
what the two comparisons leave known until the publication (`Compared`). With `--overwrite`
a file that is replaced was seen before the first publication and is still the same at
the first comparison, hence not the fetch's own (`SeenIsForeign`), although a file may
be written between the last comparison and the rename; without it nothing was seen, and a link
replaces nothing. A step of a fetch or of another program leaves what is known of the
other fetches alone, as its stamps are new (`Undisturbed`).

Only model-checked: the liveness properties (temporal reasoning under fairness
is out of the prover's reach).
No module of the project declares a recursive operator; what a fold computes over a sequence for
every input is left to TLC, since the induction theorems of the library that take an operator cannot be
instantiated by the provers. (Induction over a set of numbers can be proved, see `Induction` in `MCProcesses_proofs`.)

## 5. Assumptions and limits

General:
- A statement is atomic except where the code's behaviour depends on its parts:
  the row lock of a claim, and snapshot against update of a cancellation.
- Two incarnations of an ID have different `created_at`, and two claims
  different `started_at`. PostgreSQL's clock has microseconds; a clock that is
  set back could violate this.
- Processes crash, the kernel does not: `save` publishes its record in one step,
  and the fsync calls are not distinguished from their effect.
- Components are composed where they interact through state that both change:
  the table with workers and clients, hints with commands, the watcher with
  `wait`, the logger with its follower, uploads with the payload, the fetch with
  the store. The others meet through one fact each, which one side proves or
  checks and the other assumes: a payload that is told to stop ends
  (`WaitsEnd`), an `Add` returns (`AddEnds`), a heartbeat keeps a row fresh
  (`LiveNotStale`).

By module:
- `WorkerLifecycle`: a worker keeps its ID over a restart, where the code picks a
  new one unless it is given, so the model allows more. `CancelSeen` lets any
  running payload be cancelled at any time, since a stale hint can do so;
  `TaskControl` says when. Journal records are valid: one that cannot be read is an
  error return before the worker's first step (`completion.go:115`) and keeps it
  from starting at all.
- `TaskControl`: the row lock of a claim is not modelled, so neither is a worker
  that skips a locked row, sleeps, and is not woken when that claim rolls back
  (`claim_task.sql:9`). Heartbeats are not modelled: `remove` may take any running
  task for a stale one. Queued events are a set and a flag: more orders than in
  the code.
- `Notifier`: an event is a number; which channel it is for matters to `TaskControl`
  only.
- `TaskWait`: other exit codes than 0, 1 and 7 behave like 7.
- `TaskLog`: that lines are printed once is stated for behaviours in which at most
  one stream has output; with two it does not hold. Heartbeats are not modelled: a
  running task may look stale to the follower whenever it reads, so nothing is said
  of when it does. The ID of a removed task is not enqueued again; in the code a logger
  that is still draining would then store its lines under the new row, where their
  numbers may collide with those of the new run (`logs.go:55`).
- `WorkerRegistry`: one process, one outage. `notifier.Close` returns within its 5 s
  (`worker.go:160`): a timeout there adds an error to the result and changes nothing else, and
  that it is not needed is `CloseEnds` of `Notifier`. Two processes with one ID are a
  configuration that the table above describes.
- `ProcessGroup`: a fork into the group, and one out of it (`MayEscape`); what
  PID 1 does with orphans is left open. A periodic pass is cancelled when the command
  returns, and the wait for it (`storage/run.go:57`) takes no time; a pass that is slow to
  notice its cancellation takes that time from the grace period.
- `DaemonStart`: a readiness byte other than the expected one is left out; what the
  worker does inside is the subject of `WorkerLifecycle` and `WorkerRegistry`.
- `EnqueuePrepare`: a push or a COMMIT takes effect before the command fails or dies, or
  never. A worktree that is edited while the snapshot is made, and the
  checksum of a restored directory, are not modelled; a snapshot is an atom.
- `ConfigLayers`: flags, unknown settings, numeric checks and the case of keys are
  left out: `Validate` always succeeds, whereas the code refuses effective values such as a
  negative interval after the merge (`config.go:189`, `settings.go:87`).
- `ArtifactSync`, `ArtifactFetch`: equal stamps stand for equal inode, size and
  mtime. A put that the server executes after its client has given up and sent
  another is not modelled. The listing of a fetch is atomic, and every target
  that is no regular file is a `link`.

## 6. Not modelled

- Credentials and endpoints (`integrations/*_endpoint.go`, `credentials.go`,
  `db/endpoint.go`): resolution of strings without state of their own.
- Listing and display (`cli/list.go`, `show.go`, `worker_list.go`, `table.go`, ...):
  read-only statements and formatting.
- URL templates and glob patterns: text processing; the models use the sets of
  names they select.
- The git plumbing below a snapshot: an external program.

## 7. Plan

1. The claim lock of `WorkerLifecycle` and the wake-ups of `TaskControl` in one
   module, for the sleep after a skipped row.
