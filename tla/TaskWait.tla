------------------------------ MODULE TaskWait ------------------------------
(***************************************************************************)
(* nextask wait: the waiter's task set and completion policy as the check   *)
(* of a StateWatch, over tasks that others enqueue, run, lose and remove.   *)
(***************************************************************************)
EXTENDS StateWatch, FiniteSets, SequencesExt

CONSTANTS
    Tasks,
    Commands,    \* command lines: the IDs in order, <<>> with --tag, and --any
    MaxBorn,     \* bound: tasks enqueued
    MaxFaults,   \* bound: reads that fail
    None

ExitCodes == {0, 1, 7}

ASSUME WaitAssumption ==
    /\ IsFiniteSet(Tasks)
    /\ None \notin ExitCodes
    /\ \A c \in Commands : c.given \in Seq(Tasks) /\ c.any \in BOOLEAN
    /\ MaxBorn \in Nat /\ MaxFaults \in Nat

VARIABLES
    command,     \* the command line of this wait
    rows,        \* what GetTask shows of each task
    born,        \* tasks enqueued so far
    faults,      \* reads that failed so far
    order,       \* w.order
    remaining,   \* w.remaining
    next,        \* position of check in w.order, 0 before discovery
    failCode,    \* w.failCode
    reports,     \* history: the tasks reported with their codes
    succeeded,   \* history: the tasks that have ended with success
    unsettled    \* history: tasks not reportable when the last look began, or since

table   == <<rows, born, succeeded, unsettled>>
waiter  == <<command, order, remaining, next, failCode, reports>>
vars    == <<watchVars, command, rows, born, faults, order, remaining, next, failCode,
             reports, succeeded, unsettled>>

Terminal == {"completed", "failed", "cancelled", "stale"}

\* A row shows "stale" while its worker's heartbeat is too old.
Row == [status : {"absent", "pending", "running"} \cup Terminal,
        code : ExitCodes \cup {None}, born : Nat]
NoRow == [status |-> "absent", code |-> None, born |-> 0]

TypeOK ==
    /\ WatchTypeOK
    /\ command \in Commands
    /\ rows \in [Tasks -> Row]
    /\ born \in 0..MaxBorn /\ faults \in 0..MaxFaults
    /\ order \in Seq(Tasks) /\ IsInjective(order)
    /\ remaining \subseteq ToSet(order)
    /\ next \in 0..Len(order) + 1
    /\ failCode \in ExitCodes
    /\ reports \in Seq([task : Tasks, code : ExitCodes])
    /\ succeeded \in SUBSET Tasks
    /\ unsettled \in SUBSET Tasks

\* The IDs in the order in which they are first named.
Distinct(given) ==
    {s \in SeqOf(ToSet(given), Len(given)) :
        /\ IsInjective(s) /\ ToSet(s) = ToSet(given)
        /\ \A i, j \in DOMAIN s : i < j =>
               \E k \in DOMAIN given : given[k] = s[i] /\ \A m \in 1..k : given[m] # s[j]}

\* Any tasks may exist already, and duplicate arguments count once.
Init ==
    /\ WatchInit
    /\ command \in Commands
    /\ \E old \in SUBSET Tasks :
           rows = [t \in Tasks |-> IF t \in old THEN [NoRow EXCEPT !.status = "pending"] ELSE NoRow]
    /\ born = 0 /\ faults = 0
    /\ order \in Distinct(command.given)
    /\ remaining = ToSet(command.given)
    /\ next = 0
    /\ failCode = 0
    /\ reports = <<>>
    /\ succeeded = {}
    /\ unsettled = {}

ByTag == command.given = <<>>

\* A task that is not there counts as success.
ExitCode_faulty(row) ==
    CASE row.code # None       -> row.code
      [] row.status = "stale"  -> 1
      [] OTHER                 -> 0

\* taskExitCode, and 1 for a task that is not there.
ExitCode(row) ==
    CASE row.status = "absent" -> 1
      [] row.code # None       -> row.code
      [] row.status = "stale"  -> 1
      [] OTHER                 -> 0

Reportable(row) == row.status \in Terminal \cup {"absent"}
-----------------------------------------------------------------------------
(* The tasks.                                                              *)

\* A task that was cancelled while it was pending has no exit code: it counts as success.
EndedWell(row) == row.status = "completed" \/ (row.status = "cancelled" /\ row.code = None)

Change(t, row) ==
    /\ watch \notin Returned
    /\ rows' = [rows EXCEPT ![t] = row]
    /\ succeeded' = IF EndedWell(row) THEN succeeded \cup {t} ELSE succeeded
    /\ unsettled' = IF lastCheck /\ ~Reportable(row) THEN unsettled \cup {t} ELSE unsettled
    /\ UNCHANGED <<watchVars, waiter, faults>>

Enqueue(t) ==
    /\ rows[t].status = "absent"
    /\ born < MaxBorn
    /\ born' = born + 1
    /\ Change(t, [status |-> "pending", code |-> None, born |-> born + 1])

Start(t) ==
    /\ rows[t].status = "pending"
    /\ Change(t, [rows[t] EXCEPT !.status = "running"])
    /\ UNCHANGED born

\* complete_claim.sql, also for a worker that was taken for dead.  7 stands for
\* every code but 0, that of a payload that was cancelled too.
Finish(t) ==
    /\ rows[t].status \in {"running", "stale"}
    /\ \E s \in {<<"completed", 0>>, <<"failed", 7>>} :
           Change(t, [rows[t] EXCEPT !.status = s[1], !.code = s[2]])
    /\ UNCHANGED born

\* A pending task is cancelled without an exit code.
CancelPending(t) ==
    /\ rows[t].status = "pending"
    /\ Change(t, [rows[t] EXCEPT !.status = "cancelled"])
    /\ UNCHANGED born

\* The worker's heartbeat becomes too old, or comes at last.
Heartbeat(t) ==
    /\ rows[t].status \in {"running", "stale"}
    /\ Change(t, [rows[t] EXCEPT !.status = IF @ = "running" THEN "stale" ELSE "running"])
    /\ UNCHANGED born

RemoveTask(t) ==
    /\ rows[t].status \notin {"absent", "running"}
    /\ Change(t, NoRow)
    /\ UNCHANGED born
-----------------------------------------------------------------------------
(* The waiter.                                                             *)

\* The matching tasks it has not seen yet, and the lists of them, newest first.
Unseen == {t \in Tasks : rows[t].status # "absent" /\ t \notin ToSet(order)}
Listed == {s \in SetToSeqs(Unseen) : \A i, j \in DOMAIN s : i < j => rows[s[i]].born >= rows[s[j]].born}

\* ListTasks and the Add of the new channels, before the first task is checked.
Discover ==
    /\ watch = "check" /\ next = 0
    /\ ByTag
    /\ order # <<>> \/ Unseen # {}
    /\ \E new \in Listed :
           /\ order' = order \o new
           /\ remaining' = remaining \cup ToSet(new)
    /\ next' = 1
    /\ UNCHANGED <<watchVars, table, faults, command, failCode, reports>>

NoneFound ==
    /\ watch = "check" /\ next = 0
    /\ ByTag
    /\ order = <<>> /\ Unseen = {}
    /\ Checked("permanent")
    /\ UNCHANGED <<table, waiter, faults>>

\* The connection is lost during Add, which is no transient error.
DiscoverFails ==
    /\ watch = "check" /\ next = 0
    /\ ByTag /\ Unseen # {}
    /\ faults < MaxFaults
    /\ faults' = faults + 1
    /\ Checked("permanent")
    /\ UNCHANGED <<table, waiter>>

Begin ==
    /\ watch = "check" /\ next = 0
    /\ ~ByTag
    /\ next' = 1
    /\ UNCHANGED <<watchVars, table, faults, command, order, remaining, failCode, reports>>

Due == watch = "check" /\ next \in 1..Len(order)

Skip ==
    /\ Due
    /\ order[next] \notin remaining
    /\ next' = next + 1
    /\ UNCHANGED <<watchVars, table, faults, command, order, remaining, failCode, reports>>

CheckRunning ==
    /\ Due
    /\ order[next] \in remaining
    /\ ~Reportable(rows[order[next]])
    /\ next' = next + 1
    /\ UNCHANGED <<watchVars, table, faults, command, order, remaining, failCode, reports>>

FirstNonZero(current, new) == IF current # 0 \/ new = 0 THEN current ELSE new

\* The task is reported again when a later read of the same check fails.
CheckEnded_faulty ==
    LET t == order[next] IN
    /\ Due
    /\ t \in remaining
    /\ Reportable(rows[t])
    /\ remaining' = IF next = Len(order) THEN {} ELSE remaining
    /\ failCode' = FirstNonZero(failCode, ExitCode(rows[t]))
    /\ reports' = Append(reports, [task |-> t, code |-> ExitCode(rows[t])])
    /\ IF command.any THEN Checked("done") /\ next' = 0
              ELSE UNCHANGED watchVars /\ next' = next + 1
    /\ UNCHANGED <<table, faults, command, order>>

CheckEnded ==
    LET t == order[next] IN
    /\ Due
    /\ t \in remaining
    /\ Reportable(rows[t])
    /\ remaining' = remaining \ {t}
    /\ failCode' = FirstNonZero(failCode, ExitCode(rows[t]))
    /\ reports' = Append(reports, [task |-> t, code |-> ExitCode(rows[t])])
    /\ IF command.any THEN Checked("done") /\ next' = 0
              ELSE UNCHANGED watchVars /\ next' = next + 1
    /\ UNCHANGED <<table, faults, command, order>>

\* GetTask or ListTasks fails for a transient reason: the check starts again.
CheckFails ==
    /\ watch = "check" /\ next <= Len(order)
    /\ faults < MaxFaults
    /\ faults' = faults + 1
    /\ next' = 0
    /\ Checked("transient")
    /\ UNCHANGED <<table, command, order, remaining, failCode, reports>>

CheckDone ==
    /\ watch = "check" /\ next = Len(order) + 1
    /\ next' = 0
    /\ Checked(IF remaining = {} THEN "done" ELSE "continue")
    /\ UNCHANGED <<table, faults, command, order, remaining, failCode, reports>>

\* The status runWait ends with.
Status ==
    CASE watch = "done"                -> failCode
      [] watch \in {"error", "closed"} -> 1
      [] watch = "deadline"            -> 124
      [] watch = "interrupt"           -> 0
-----------------------------------------------------------------------------
WatchStep == /\ Select
             /\ next' = 0
             /\ unsettled' = IF lastCheck' /\ ~lastCheck THEN {t \in Tasks : ~Reportable(rows[t])} ELSE unsettled
             /\ UNCHANGED <<rows, born, succeeded, faults, command, order, remaining, failCode, reports>>

Around == /\ \/ Hint
             \/ ListenerCloses
             \/ EndContext
          /\ UNCHANGED <<table, waiter, faults>>

Check == Begin \/ Discover \/ NoneFound \/ Skip \/ CheckRunning \/ CheckEnded \/ CheckDone

TaskStep == \E t \in Tasks : \/ Enqueue(t) \/ Start(t) \/ Finish(t)
                             \/ CancelPending(t) \/ Heartbeat(t) \/ RemoveTask(t)

Next == TaskStep \/ Check \/ DiscoverFails \/ CheckFails \/ WatchStep \/ Around

Spec == Init /\ [][Next]_vars

\* The command runs, its ticker ticks; no hint and no other process is relied on.
FairSpec == Spec /\ WF_vars(Check) /\ WF_vars(WatchStep)
-----------------------------------------------------------------------------
(* Properties.                                                             *)

\* "returns the first failure code it sees": the code of the earliest report
\* that failed, however the checks were interrupted and repeated (firstNonZero).
FirstFailure ==
    \/ failCode = 0 /\ \A i \in DOMAIN reports : reports[i].code = 0
    \/ \E i \in DOMAIN reports : /\ reports[i].code = failCode /\ failCode # 0
                                 /\ \A j \in 1..i - 1 : reports[j].code = 0

\* A check that fails half way and is retried reports no task twice
\* (waiter.check and stateWatcher.Run).
ReportedOnce == \A i, j \in DOMAIN reports : reports[i].task = reports[j].task => i = j

\* wait ends with success only when every task it was to wait for, or one with
\* --any, has in fact ended with success (waiter.check).
SuccessIsReal ==
    watch \in Returned \ {"interrupt"} /\ Status = 0 =>
        IF command.any THEN ToSet(order) \cap succeeded # {} ELSE ToSet(order) \subseteq succeeded

\* A listener that closes is no reason to fail when the tasks had all ended
\* before: there is one more look at the stored state, after the listener's end
\* was noticed, and it finds a task that has not ended (stateWatcher.Run).
LooksBeforeFailing == watch = "closed" => ToSet(order) \cap unsettled # {}

\* What makes these so.  A row has an exit code only if it has ended, and one that counts
\* as success belongs to a task that has ended well.
RowsRight == \A t \in Tasks :
    /\ rows[t].code # None => rows[t].status \in {"completed", "failed"}
    /\ rows[t].status = "completed" => rows[t].code # None
    /\ EndedWell(rows[t]) => t \in succeeded
    /\ rows[t].status = "failed" => rows[t].code = 7

\* A task is waited for until it is reported, and reported as a success only if it was one.
ReportsRight ==
    /\ order = <<>> => ByTag /\ next = 0
    /\ \A i \in DOMAIN reports : reports[i].task \in ToSet(order) \ remaining
    /\ \A t \in ToSet(order) \ remaining : \E i \in DOMAIN reports : reports[i].task = t
    /\ \A i \in DOMAIN reports : reports[i].code = 0 => reports[i].task \in succeeded
    /\ watch = "done" => IF command.any THEN reports # <<>> ELSE remaining = {}

\* In the last look every task that is still waited for is read after the end of the
\* listener was noticed.
LastLook ==
    /\ lastCheck => {t \in Tasks : ~Reportable(rows[t])} \subseteq unsettled
    /\ lastCheck /\ watch = "check" =>
           \A i \in 1..next - 1 : order[i] \in remaining => order[i] \in unsettled

\* Types, reports that are right, no failure without a last look, and the reasons.
WaitInv ==
    /\ TypeOK /\ FirstFailure /\ ReportedOnce /\ LooksBeforeFailing
    /\ RowsRight /\ ReportsRight /\ LastLook

\* "polling covers lost hints": once every task has ended for good, wait returns,
\* without a single hint (stateWatcher.Run).
WaitEnds == <>[](\A t \in Tasks : Reportable(rows[t])) => <>(watch \in Returned)
-----------------------------------------------------------------------------
(* Statements of the repository that the code does not keep.  No run checks *)
(* them; the README says what happens instead.                              *)

\* "Waiting by tag includes matching tasks added while waiting.  It ends when all
\* selected tasks finish" (runTaskWait).
TagWaitIsComplete ==
    watch = "done" /\ ByTag /\ ~command.any => \A t \in Tasks : Reportable(rows[t])

\* "timeout: %s still running": a timeout is reported while a task is still
\* waited for (handleTimeout).
TimeoutNamesTasks == watch = "deadline" => remaining # {}
=============================================================================
