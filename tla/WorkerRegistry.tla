--------------------------- MODULE WorkerRegistry ---------------------------
(***************************************************************************)
(* The workers table, the heartbeats that keep its rows fresh, the status   *)
(* "stale" that readers derive from it, and `worker stop`.  Time passes in  *)
(* ticks.  A process is one run of Worker.Run; what its tasks do is the     *)
(* subject of WorkerLifecycle.                                              *)
(***************************************************************************)
EXTENDS Naturals

CONSTANTS
    Procs,        \* processes that run a worker
    Id,           \* Id[p]: the worker ID that process p drew or was given
    Target,       \* the ID that `worker stop` names
    Interval,     \* ticks between two heartbeats
    Threshold,    \* stale_threshold: intervals without a heartbeat
    Unit,         \* ticks in a second
    Delay,        \* ticks within which a database that is up answers
    ConnectLimit, \* ticks of connectTimeout
    CallLimit,    \* ticks of the deadline of a heartbeat
    MaxTries,     \* attempts of a heartbeat
    StopTimeout,  \* ticks of --timeout of `worker stop`
    MaxDown,      \* bound: ticks of the one outage of the database
    MaxLost       \* bound: connections the notifiers lose, in all

Max2(a, b) == IF a >= b THEN a ELSE b

ASSUME RegistryAssumption ==
    /\ \A n \in {Interval, Threshold, Unit, Delay, ConnectLimit, CallLimit, MaxTries, StopTimeout} :
         n \in Nat \ {0}
    /\ MaxDown \in Nat /\ MaxLost \in Nat

VARIABLES
    row,        \* workers: [status, age]; age is the time since last_heartbeat
    task,       \* the last task claimed by a process, by its stored status
    pc,         \* where Worker.Run is
    waited,     \* ticks the call of Run has taken that has a limit
    cancelled,  \* the context of Run has ended
    listening,  \* the notifier's session has the worker's channel
    beat,       \* runHeartbeat: [at, left, ticked, took, tries]
    up,         \* the database answers
    downs,      \* ticks of the outage, the bound when it is over
    lost,       \* connections lost
    stop        \* stopWorker: [at, left]

vars == <<row, task, pc, waited, cancelled, listening, beat, up, downs, lost, stop>>

Ids == {Id[p] : p \in Procs} \cup {Target}
StaleDuration == Interval * Threshold
\* Ages above this one are not told apart.
AgeCap == StaleDuration + Interval + Unit

Ended == {"ended", "crashed"}
Running == {"connecting", "recovering", "idle", "working", "returning", "unregistering"}
NoBeat == [at |-> "off", left |-> 0, ticked |-> FALSE, took |-> 0, tries |-> 0]
FirstBeat == [at |-> "wait", left |-> Interval, ticked |-> FALSE, took |-> 0, tries |-> 0]

TypeOK ==
    /\ row \in [Ids -> [status : {"none", "running", "stopped"}, age : 0..AgeCap]]
    /\ task \in [Procs -> {"none", "running"}]
    /\ pc \in [Procs -> {"new"} \cup Running \cup Ended]
    /\ waited \in [Procs -> 0..Max2(ConnectLimit, Delay)]
    /\ cancelled \in [Procs -> BOOLEAN] /\ listening \in [Procs -> BOOLEAN]
    /\ beat \in [Procs -> [at : {"off", "wait", "call"}, left : 0..Interval, ticked : BOOLEAN,
                           took : 0..Max2(CallLimit, Delay), tries : 0..MaxTries]]
    /\ up \in BOOLEAN /\ downs \in 0..MaxDown /\ lost \in 0..MaxLost
    /\ stop \in [at : {"start", "subscribing", "waiting", "stopped", "already", "error", "unconfirmed", "interrupted"},
                 left : 0..StopTimeout]

Init ==
    /\ row = [i \in Ids |-> [status |-> "none", age |-> 0]]
    /\ task = [p \in Procs |-> "none"]
    /\ pc = [p \in Procs |-> "new"]
    /\ waited = [p \in Procs |-> 0]
    /\ cancelled = [p \in Procs |-> FALSE] /\ listening = [p \in Procs |-> FALSE]
    /\ beat = [p \in Procs |-> NoBeat]
    /\ up = TRUE /\ downs = 0 /\ lost = 0
    /\ stop = [at |-> "start", left |-> StopTimeout]

Goto(p, s) == pc' = [pc EXCEPT ![p] = s] /\ waited' = [waited EXCEPT ![p] = 0]
-----------------------------------------------------------------------------
(* Readers.  The interval of a task query is cut to whole seconds, the one  *)
(* of the worker list is not.                                               *)

StaleInterval == (StaleDuration \div Unit) * Unit
\* Like the worker list, the task queries require a row that says running.
TaskStale_faulty(p) == task[p] = "running" /\ row[Id[p]].status = "running" /\ row[Id[p]].age > StaleInterval
TaskStale(p) == task[p] = "running" /\ row[Id[p]].age > StaleInterval
WorkerStale(i) == row[i].status = "running" /\ row[i].age > StaleDuration
-----------------------------------------------------------------------------
(* The process.                                                            *)

RegisterWorker(p) ==
    /\ pc[p] = "new" /\ up
    /\ row' = [row EXCEPT ![Id[p]] = [status |-> "running", age |-> 0]]
    /\ Goto(p, "connecting")
    /\ UNCHANGED <<task, cancelled, listening, beat, up, downs, lost, stop>>

\* LISTEN is executed, then the heartbeat starts.
Connect(p) ==
    /\ pc[p] = "connecting" /\ up /\ ~cancelled[p]
    /\ listening' = [listening EXCEPT ![p] = TRUE]
    /\ beat' = [beat EXCEPT ![p] = FirstBeat]
    /\ Goto(p, "recovering")
    /\ UNCHANGED <<row, task, cancelled, up, downs, lost, stop>>

\* The first connection is tried once, so Run returns when it fails.
ConnectFails(p) ==
    /\ pc[p] = "connecting"
    /\ ~up \/ waited[p] = ConnectLimit \/ cancelled[p]
    /\ cancelled' = [cancelled EXCEPT ![p] = TRUE]
    /\ Goto(p, "returning")
    /\ UNCHANGED <<row, task, listening, beat, up, downs, lost, stop>>

RecoverCompletions(p) ==
    /\ pc[p] = "recovering" /\ (up \/ cancelled[p])
    /\ Goto(p, IF cancelled[p] THEN "returning" ELSE "idle")
    /\ UNCHANGED <<row, task, cancelled, listening, beat, up, downs, lost, stop>>

ClaimTask(p) ==
    /\ pc[p] = "idle" /\ up /\ ~cancelled[p] /\ task[p] = "none"
    /\ task' = [task EXCEPT ![p] = "running"]
    /\ Goto(p, "working")
    /\ UNCHANGED <<row, cancelled, listening, beat, up, downs, lost, stop>>

\* The result is stored, or stays in the journal when the worker stops first.
FinishTask(p) ==
    /\ pc[p] = "working" /\ (up \/ cancelled[p])
    /\ task' = IF up THEN [task EXCEPT ![p] = "none"] ELSE task
    /\ Goto(p, "idle")
    /\ UNCHANGED <<row, cancelled, listening, beat, up, downs, lost, stop>>

\* --once, --exit-if-idle or the end of the context: the first deferred calls cancel it.
Return(p) ==
    /\ pc[p] = "idle"
    /\ cancelled' = [cancelled EXCEPT ![p] = TRUE]
    /\ Goto(p, "returning")
    /\ UNCHANGED <<row, task, listening, beat, up, downs, lost, stop>>

\* The row says stopped while the heartbeat goroutine is still in a call.
CloseAll_faulty(p) ==
    /\ pc[p] = "returning"
    /\ listening' = [listening EXCEPT ![p] = FALSE]
    /\ Goto(p, "unregistering")
    /\ UNCHANGED <<row, task, cancelled, beat, up, downs, lost, stop>>

\* The heartbeat has ended, then watchWorker and the notifier.
CloseAll(p) ==
    /\ pc[p] = "returning" /\ beat[p].at = "off"
    /\ listening' = [listening EXCEPT ![p] = FALSE]
    /\ Goto(p, "unregistering")
    /\ UNCHANGED <<row, task, cancelled, beat, up, downs, lost, stop>>

UnregisterWorker(p) ==
    /\ pc[p] = "unregistering"
    /\ row' = IF up THEN [row EXCEPT ![Id[p]].status = "stopped"] ELSE row
    /\ Goto(p, "ended")
    /\ UNCHANGED <<task, cancelled, listening, beat, up, downs, lost, stop>>

\* --timeout, an interrupt or a listener that gave up ends the context at any time.
Cancel(p) ==
    /\ pc[p] \in Running /\ ~cancelled[p]
    /\ cancelled' = [cancelled EXCEPT ![p] = TRUE]
    /\ UNCHANGED <<row, task, pc, waited, listening, beat, up, downs, lost, stop>>

Crash(p) ==
    /\ pc[p] \in Running
    /\ beat' = [beat EXCEPT ![p] = NoBeat]
    /\ listening' = [listening EXCEPT ![p] = FALSE]
    /\ Goto(p, "crashed")
    /\ UNCHANGED <<row, task, cancelled, up, downs, lost, stop>>
-----------------------------------------------------------------------------
(* The heartbeat.                                                          *)

HeartbeatTick(p) ==
    /\ beat[p].at = "wait" /\ beat[p].ticked
    /\ beat' = [beat EXCEPT ![p].at = "call", ![p].ticked = FALSE, ![p].took = 0, ![p].tries = 0]
    /\ UNCHANGED <<row, task, pc, waited, cancelled, listening, up, downs, lost, stop>>

UpdateHeartbeat(p) ==
    /\ beat[p].at = "call" /\ up /\ ~cancelled[p]
    /\ row' = IF row[Id[p]].status = "running" THEN [row EXCEPT ![Id[p]].age = 0] ELSE row
    /\ beat' = [beat EXCEPT ![p].at = "wait"]
    /\ UNCHANGED <<task, pc, waited, cancelled, listening, up, downs, lost, stop>>

\* An attempt that fails for good ends the goroutine instead of the call.
HeartbeatFails_faulty(p) ==
    /\ beat[p].at = "call" /\ ~up
    /\ beat' = [beat EXCEPT ![p] = NoBeat]
    /\ UNCHANGED <<row, task, pc, waited, cancelled, listening, up, downs, lost, stop>>

\* An attempt fails; after the last one, or at the deadline, the beat is skipped.
HeartbeatFails(p) ==
    /\ beat[p].at = "call" /\ ~up /\ ~cancelled[p]
    /\ beat' = [beat EXCEPT ![p].tries = @ + 1,
                            ![p].at = IF beat[p].tries + 1 = MaxTries \/ beat[p].took = CallLimit
                                      THEN "wait" ELSE "call"]
    /\ UNCHANGED <<row, task, pc, waited, cancelled, listening, up, downs, lost, stop>>

\* The end of the context also ends the call.
HeartbeatEnds(p) ==
    /\ beat[p].at # "off" /\ cancelled[p]
    /\ beat' = [beat EXCEPT ![p] = NoBeat]
    /\ UNCHANGED <<row, task, pc, waited, cancelled, listening, up, downs, lost, stop>>
-----------------------------------------------------------------------------
(* The session of the notifier.                                            *)

LoseSession(p) ==
    /\ listening[p] /\ lost < MaxLost
    /\ lost' = lost + 1
    /\ listening' = [listening EXCEPT ![p] = FALSE]
    /\ UNCHANGED <<row, task, pc, waited, cancelled, beat, up, downs, stop>>

Reconnect(p) ==
    /\ pc[p] \in {"recovering", "idle", "working"} /\ up /\ ~listening[p] /\ ~cancelled[p]
    /\ listening' = [listening EXCEPT ![p] = TRUE]
    /\ UNCHANGED <<row, task, pc, waited, cancelled, beat, up, downs, lost, stop>>
-----------------------------------------------------------------------------
(* `worker stop`.  Its deadline covers every step.                         *)

StopTo(s) ==
    /\ stop' = [stop EXCEPT !.at = s]
    /\ UNCHANGED <<row, task, pc, waited, listening, beat, up, downs, lost>>

StopLooks ==
    /\ stop.at = "start" /\ up
    /\ StopTo(CASE row[Target].status = "none"    -> "error"
                [] row[Target].status = "stopped" -> "already"
                [] row[Target].status = "running" -> "subscribing")
    /\ UNCHANGED cancelled

\* The signal reaches the sessions that listen now; it is stored nowhere.
StopSignals ==
    /\ stop.at = "subscribing" /\ up
    /\ cancelled' = [p \in Procs |-> cancelled[p] \/ (Id[p] = Target /\ listening[p])]
    /\ StopTo("waiting")

StopChecks ==
    /\ stop.at = "waiting" /\ up
    /\ row[Target].status = "stopped"
    /\ StopTo("stopped")
    /\ UNCHANGED cancelled

\* Before the signal is sent an interrupt or the deadline is an error.
StopEnds ==
    /\ stop.at \in {"start", "subscribing", "waiting"}
    /\ StopTo(IF stop.at # "waiting" THEN "error" ELSE IF stop.left = 0 THEN "unconfirmed" ELSE "interrupted")
    /\ UNCHANGED cancelled

StopWorker == StopLooks \/ StopSignals \/ StopChecks \/ StopEnds
-----------------------------------------------------------------------------
(* Time and the database.                                                  *)

\* What has to happen before time goes on.
Urgent ==
    \/ \E p \in Procs :
         \/ beat[p].at = "wait" /\ beat[p].ticked
         \/ beat[p].at = "call" /\ beat[p].took >= (IF up THEN Delay ELSE CallLimit)
         \/ beat[p].at # "off" /\ cancelled[p]
         \/ pc[p] = "connecting" /\ waited[p] = ConnectLimit
    \/ stop.at \in {"start", "subscribing", "waiting"} /\ stop.left = 0

Aged(p) ==
    LET b == beat[p] IN
    IF b.at = "off" THEN b
    ELSE [b EXCEPT !.left = IF @ = 1 THEN Interval ELSE @ - 1,
                   !.ticked = @ \/ b.left = 1,
                   !.took = IF b.at = "call" /\ @ < Max2(CallLimit, Delay) THEN @ + 1 ELSE @]

Tick ==
    /\ ~Urgent
    /\ up \/ downs < MaxDown
    /\ downs' = IF up THEN downs ELSE downs + 1
    /\ row' = [i \in Ids |-> [row[i] EXCEPT !.age = IF row[i].status # "none" /\ @ < AgeCap THEN @ + 1 ELSE @]]
    /\ waited' = [p \in Procs |-> IF pc[p] = "connecting" THEN waited[p] + 1 ELSE 0]
    /\ beat' = [p \in Procs |-> Aged(p)]
    /\ stop' = [stop EXCEPT !.left = IF @ > 0 /\ stop.at # "start" THEN @ - 1 ELSE @]
    /\ UNCHANGED <<task, pc, cancelled, listening, up, lost>>

Fail ==
    /\ up /\ downs < MaxDown
    /\ up' = FALSE
    /\ listening' = [p \in Procs |-> FALSE]
    /\ UNCHANGED <<row, task, pc, waited, cancelled, beat, downs, lost, stop>>

Recover ==
    /\ ~up /\ up' = TRUE
    /\ downs' = MaxDown
    /\ UNCHANGED <<row, task, pc, waited, cancelled, listening, beat, lost, stop>>
-----------------------------------------------------------------------------
Run(p) ==
    \/ RegisterWorker(p) \/ Connect(p) \/ ConnectFails(p) \/ RecoverCompletions(p)
    \/ ClaimTask(p) \/ FinishTask(p) \/ Return(p) \/ CloseAll(p) \/ UnregisterWorker(p)

Heartbeat(p) == HeartbeatTick(p) \/ UpdateHeartbeat(p) \/ HeartbeatFails(p) \/ HeartbeatEnds(p)

Next ==
    \/ \E p \in Procs : Run(p) \/ Cancel(p) \/ Crash(p) \/ Heartbeat(p) \/ LoseSession(p) \/ Reconnect(p)
    \/ StopWorker \/ Tick \/ Fail \/ Recover

Spec == Init /\ [][Next]_vars

\* What the scheduler and the supervisor of payloads guarantee: an ended context
\* ends the task, the heartbeat and Run.  Nothing else has to happen.
Winds(p) ==
    /\ cancelled[p]
    /\ ConnectFails(p) \/ RecoverCompletions(p) \/ FinishTask(p) \/ Return(p) \/ CloseAll(p) \/ UnregisterWorker(p)

Fairness ==
    /\ \A p \in Procs : WF_vars(Winds(p)) /\ WF_vars(Heartbeat(p)) /\ WF_vars(Reconnect(p))
    /\ \A p \in Procs : WF_vars(Connect(p) \/ RecoverCompletions(p))
    /\ WF_vars(Tick) /\ WF_vars(Recover) /\ WF_vars(StopWorker)

FairSpec == Spec /\ Fairness
-----------------------------------------------------------------------------
(* Properties.                                                             *)

\* A task is not called stale while its worker runs it, though the database is away for a
\* part of an interval and a heartbeat is missed.
LiveNotStale == \A p \in Procs : pc[p] = "working" /\ ~cancelled[p] => ~TaskStale(p)

\* Once the row says stopped, or `worker stop` says so, nothing of the worker is left:
\* no payload, no heartbeat and no session that could take a signal.
StoppedIsQuiet ==
    \A p \in Procs :
        row[Id[p]].status = "stopped" \/ (Id[p] = Target /\ stop.at \in {"stopped", "already"})
        => pc[p] \in {"new"} \cup Ended /\ beat[p].at = "off" /\ ~listening[p]

\* What makes these so, when no two processes draw one ID.  A row belongs to one process.
DistinctIds == \A p, q \in Procs : Id[p] = Id[q] => p = q

RowsRight ==
    /\ \A p \in Procs :
         /\ pc[p] = "new" => row[Id[p]].status = "none"
         /\ pc[p] \in Running => row[Id[p]].status = "running"
         /\ row[Id[p]].status = "stopped" => pc[p] = "ended"
    /\ stop.at \in {"stopped", "already"} => row[Target].status = "stopped"

CallsBounded == \A p \in Procs :
    /\ waited[p] <= ConnectLimit
    /\ beat[p].at # "off" => beat[p].left > 0
    /\ beat[p].at = "call" => beat[p].tries < MaxTries
    /\ pc[p] \in {"new", "connecting", "unregistering"} \cup Ended => beat[p].at = "off" /\ ~listening[p]
    /\ pc[p] \in {"recovering", "idle", "working"} /\ ~cancelled[p] => beat[p].at # "off"

\* An answer and the outage take less than an interval.
Punctual == Delay + MaxDown < Interval

\* The age of the row when the beat is due that is next, or under way.
DueBy(p, bound) ==
    LET b == beat[p] age == row[Id[p]].age IN
    /\ b.at = "call" => age <= bound + b.took
    /\ b.at = "wait" => age + (IF b.ticked THEN 0 ELSE b.left) <= bound

\* No beat was missed; one was, in the outage; the outage is over.
OnTime(p) ==
    LET b == beat[p] IN
    /\ b.ticked => b.at = "wait" /\ b.left = Interval
    /\ b.at = "call" => b.left + b.took = Interval
    /\ \/ DueBy(p, ConnectLimit + Interval) /\ (b.at = "call" => b.took <= Delay + downs)
       \/ /\ DueBy(p, ConnectLimit + 2 * Interval)
          /\ ~up /\ b.at = "wait" /\ ~b.ticked /\ b.left + downs + Delay >= Interval
       \/ /\ DueBy(p, ConnectLimit + 2 * Interval) /\ (b.at = "call" => b.took <= Delay)
          /\ up /\ downs = MaxDown

BeatsOnTime == \A p \in Procs : ~cancelled[p] =>
    /\ pc[p] = "connecting" => row[Id[p]].age <= waited[p]
    /\ beat[p].at # "off" => OnTime(p)

\* Types, a row that says stopped only of a worker that is, and the reasons for that and
\* for LiveNotStale.
RegistryInv ==
    /\ TypeOK /\ StoppedIsQuiet /\ RowsRight /\ CallsBounded
    /\ up => downs \in {0, MaxDown}
    /\ Punctual => BeatsOnTime

\* A task that its worker has left running, in a crash or with a result that could not
\* be stored, is reported stale in the end.
LeftIsReported == \A p \in Procs : pc[p] \in Ended /\ task[p] = "running" ~> TaskStale(p)
-----------------------------------------------------------------------------
(* Statements of the repository that the code does not keep.  No run checks *)
(* them; the README says what happens instead.                              *)

\* "Missed heartbeat intervals": no fewer than Threshold of them make a task stale.
StaleMissedBeats == \A p \in Procs : TaskStale(p) => row[Id[p]].age > Interval * Threshold

\* Once the signal is sent the request remains in effect: every process of that ID ends.
StopTakesEffect ==
    \A p \in Procs : Id[p] = Target /\ stop.at = "waiting" /\ pc[p] \in Running ~> pc[p] \in Ended
=============================================================================
