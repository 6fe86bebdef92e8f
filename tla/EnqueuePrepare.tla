--------------------------- MODULE EnqueuePrepare ---------------------------
(***************************************************************************)
(* `enqueue --with git --with s3`: the ID is reserved by an INSERT in an    *)
(* open transaction, the integrations prepare the command from the last to  *)
(* the first, git publishes a snapshot on a remote, and the transaction     *)
(* commits.  The wrapper restores the recorded commit on the worker.        *)
(* Several enqueues share rows, refs or both: one ref serves the same ID of *)
(* two databases, and outlives the removal of the task.                     *)
(***************************************************************************)
EXTENDS Naturals, Sequences, FiniteSets

CONSTANTS
    Enqueues, Tasks, Refs,
    TaskOf, RefOf,       \* the row that an enqueue inserts, the ref it pushes
    With,                \* With[e]: the integrations in the order of selection
    Nobody,
    MaxForeign, MaxFaults  \* bounds: pushes by others, failed calls

ASSUME EnqueueAssumption ==
    /\ IsFiniteSet(Enqueues) /\ Nobody \notin Enqueues
    /\ TaskOf \in [Enqueues -> Tasks] /\ RefOf \in [Enqueues -> Refs]
    /\ With \in [Enqueues -> Seq({"git", "s3"})]
    /\ MaxForeign \in Nat /\ MaxFaults \in Nat

VARIABLES
    at,        \* each enqueue: "start", "prepare", "push", "store", "commit", "ok", "failed" or "dead"
    command,   \* what its integrations have made of the command: wrappers, outermost first
    commit,    \* it has recorded its snapshot
    answered,  \* the statement of COMMIT was answered, or never sent
    row,       \* each row: [at, by, command]
    reach,     \* the snapshots reachable from each ref; {} when there is no such ref
    tip,       \* the snapshot at the tip of each ref
    touched,   \* refs that somebody else has pushed to or deleted
    ran,       \* the snapshot a task's command was started in
    foreign, faults

vars == <<at, command, commit, answered, row, reach, tip, touched, ran, foreign, faults>>

NoRow == [at |-> "none", by |-> Nobody, command |-> <<>>]
Row == [at : {"none", "held", "pending", "running", "failed", "completed"},
        by : Enqueues \cup {Nobody}, command : Seq({"git", "s3"})]
UsesGit(e) == \E i \in DOMAIN With[e] : With[e][i] = "git"
\* A snapshot is named by the enqueue that made it; Nobody stands for those of others.
TypeOK ==
    /\ at \in [Enqueues -> {"start", "prepare", "push", "store", "commit", "ok", "failed", "dead"}]
    /\ command \in [Enqueues -> Seq({"git", "s3"})]
    /\ commit \in [Enqueues -> BOOLEAN] /\ answered \in [Enqueues -> BOOLEAN]
    /\ row \in [Tasks -> Row]
    /\ reach \in [Refs -> SUBSET (Enqueues \cup {Nobody})] /\ tip \in [Refs -> Enqueues \cup {Nobody}]
    /\ \A r \in Refs : reach[r] # {} => tip[r] \in reach[r]
    /\ touched \in [Refs -> BOOLEAN] /\ ran \in [Tasks -> Enqueues \cup {Nobody}]
    /\ foreign \in 0..MaxForeign /\ faults \in 0..MaxFaults

Init ==
    /\ at = [e \in Enqueues |-> "start"] /\ command = [e \in Enqueues |-> <<>>]
    /\ commit = [e \in Enqueues |-> FALSE] /\ answered = [e \in Enqueues |-> TRUE]
    /\ row = [t \in Tasks |-> NoRow]
    /\ reach = [r \in Refs |-> {}] /\ tip = [r \in Refs |-> Nobody]
    /\ touched = [r \in Refs |-> FALSE] /\ ran = [t \in Tasks |-> Nobody]
    /\ foreign = 0 /\ faults = 0
-----------------------------------------------------------------------------
(* The enqueue command.                                                    *)

Remote == <<reach, tip, touched, foreign>>
Goes(e, s) == at' = [at EXCEPT ![e] = s]
\* Rolling back removes the row of an open transaction.
RolledBack(e) == [t \in Tasks |-> IF row[t].at = "held" /\ row[t].by = e THEN NoRow ELSE row[t]]
\* The transaction stays open.
Fails_faulty(e) == Goes(e, "failed") /\ UNCHANGED row

Fails(e) == Goes(e, "failed") /\ row' = RolledBack(e)

\* INSERT: the key of an open transaction is waited for, an existing one is an error.
CreateTask(e) ==
    LET t == TaskOf[e] IN
    /\ at[e] = "start" /\ row[t].at # "held"
    /\ IF row[t].at = "none"
       THEN Goes(e, "prepare") /\ row' = [row EXCEPT ![t] = [at |-> "held", by |-> e, command |-> <<>>]]
       ELSE Fails(e)
    /\ UNCHANGED <<command, commit, answered, Remote, ran, faults>>

\* The integration that prepares next: the last one that has not.
NextStep(e) == With[e][Len(With[e]) - Len(command[e])]

\* s3 only wraps the command; git reads the repository and asks for its ref first.
Prepare(e) ==
    /\ at[e] = "prepare"
    /\ IF Len(command[e]) = Len(With[e])
       THEN Goes(e, "store") /\ UNCHANGED <<command, row>>
       ELSE IF NextStep(e) = "s3"
       THEN command' = [command EXCEPT ![e] = <<"s3">> \o @] /\ UNCHANGED <<at, row>>
       ELSE /\ IF reach[RefOf[e]] # {} THEN Fails(e) ELSE Goes(e, "push") /\ UNCHANGED row
            /\ UNCHANGED command
    /\ UNCHANGED <<commit, answered, Remote, ran, faults>>

Published(e) ==
    /\ reach' = [reach EXCEPT ![RefOf[e]] = {e}]
    /\ tip' = [tip EXCEPT ![RefOf[e]] = e]
    /\ UNCHANGED touched

\* An ordinary forced push.
Push_faulty(e) ==
    /\ at[e] = "push"
    /\ Published(e)
    /\ commit' = [commit EXCEPT ![e] = TRUE]
    /\ command' = [command EXCEPT ![e] = <<"git">> \o @]
    /\ Goes(e, "prepare") /\ UNCHANGED row
    /\ UNCHANGED <<answered, ran, foreign, faults>>

\* The push creates the ref or fails.
Push(e) ==
    /\ at[e] = "push"
    /\ IF reach[RefOf[e]] = {}
       THEN /\ Published(e)
            /\ commit' = [commit EXCEPT ![e] = TRUE]
            /\ command' = [command EXCEPT ![e] = <<"git">> \o @]
            /\ Goes(e, "prepare") /\ UNCHANGED row
       ELSE Fails(e) /\ UNCHANGED <<reach, tip, touched, commit, command>>
    /\ UNCHANGED <<answered, ran, foreign, faults>>

\* The command as it was entered is stored.
SetTaskExecution_faulty(e) ==
    /\ at[e] = "store"
    /\ Goes(e, "commit")
    /\ UNCHANGED <<command, commit, answered, row, Remote, ran, faults>>

SetTaskExecution(e) ==
    /\ at[e] = "store"
    /\ Goes(e, "commit")
    /\ row' = [row EXCEPT ![TaskOf[e]].command = command[e]]
    /\ UNCHANGED <<command, commit, answered, Remote, ran, faults>>

Visible(e) == row' = [row EXCEPT ![TaskOf[e]].at = "pending"]

Commit(e) ==
    /\ at[e] = "commit"
    /\ Goes(e, "ok") /\ Visible(e)
    /\ UNCHANGED <<command, commit, answered, Remote, ran, faults>>

Fault == faults < MaxFaults /\ faults' = faults + 1

\* The answer to COMMIT is lost: it may have been executed.
CommitReplyLost(e) ==
    /\ at[e] = "commit" /\ Fault
    /\ answered' = [answered EXCEPT ![e] = FALSE]
    /\ Goes(e, "failed") /\ (Visible(e) \/ row' = RolledBack(e))
    /\ UNCHANGED <<command, commit, Remote, ran>>

MayArrive(e) ==
    \/ UNCHANGED <<reach, tip, touched>>
    \/ at[e] = "push" /\ reach[RefOf[e]] = {} /\ Published(e)

\* A statement or a git command fails, or the user interrupts; a push may have arrived.
StepFails(e) ==
    /\ at[e] \in {"start", "prepare", "push", "store"} /\ Fault
    /\ Fails(e)
    /\ MayArrive(e)
    /\ UNCHANGED <<command, commit, answered, ran, foreign>>

\* The command is killed and the server rolls back, unless COMMIT has arrived; a push
\* may have arrived, too.
Die(e) ==
    /\ at[e] \in {"prepare", "push", "store", "commit"} /\ Fault
    /\ Goes(e, "dead")
    /\ \/ row' = RolledBack(e) /\ UNCHANGED answered
       \/ at[e] = "commit" /\ Visible(e) /\ answered' = [answered EXCEPT ![e] = FALSE]
    /\ MayArrive(e)
    /\ UNCHANGED <<command, commit, ran, foreign>>

Enqueue(e) == CreateTask(e) \/ Prepare(e) \/ Push(e) \/ SetTaskExecution(e) \/ Commit(e)
-----------------------------------------------------------------------------
(* The worker, `remove`, and others who use the remote.                    *)

ClaimTask(t) ==
    /\ row[t].at = "pending"
    /\ row' = [row EXCEPT ![t].at = "running"]
    /\ UNCHANGED <<at, command, commit, answered, Remote, ran, faults>>

HasGit(t) == \E i \in DOMAIN row[t].command : row[t].command[i] = "git"

\* The tip of the branch is checked out.
Restore_faulty(t) ==
    LET r == RefOf[row[t].by] IN
    /\ row[t].at = "running"
    /\ IF HasGit(t) /\ reach[r] = {}
       THEN row' = [row EXCEPT ![t].at = "failed"] /\ UNCHANGED ran
       ELSE /\ row' = [row EXCEPT ![t].at = "completed"]
            /\ ran' = [ran EXCEPT ![t] = IF HasGit(t) THEN tip[r] ELSE row[t].by]
    /\ UNCHANGED <<at, command, commit, answered, Remote, faults>>

\* The ref is fetched; the recorded commit has to be there and is checked out.
Restore(t) ==
    LET r == RefOf[row[t].by] IN
    /\ row[t].at = "running"
    /\ IF HasGit(t) /\ row[t].by \notin reach[r]
       THEN row' = [row EXCEPT ![t].at = "failed"] /\ UNCHANGED ran
       ELSE /\ row' = [row EXCEPT ![t].at = "completed"]
            /\ ran' = [ran EXCEPT ![t] = row[t].by]
    /\ UNCHANGED <<at, command, commit, answered, Remote, faults>>

RemoveTask(t) ==
    /\ row[t].at \in {"pending", "failed", "completed"}
    /\ row' = [row EXCEPT ![t] = NoRow] /\ ran' = [ran EXCEPT ![t] = Nobody]
    /\ UNCHANGED <<at, command, commit, answered, Remote, faults>>

\* Somebody adds a commit to the branch, replaces it or deletes it.
OtherPush(r) ==
    /\ foreign < MaxForeign /\ foreign' = foreign + 1
    /\ \/ reach' = [reach EXCEPT ![r] = @ \cup {Nobody}] /\ tip' = [tip EXCEPT ![r] = Nobody]
       \/ reach' = [reach EXCEPT ![r] = {Nobody}] /\ tip' = [tip EXCEPT ![r] = Nobody]
       \/ reach[r] # {} /\ reach' = [reach EXCEPT ![r] = {}] /\ UNCHANGED tip
    /\ touched' = [touched EXCEPT ![r] = TRUE]
    /\ UNCHANGED <<at, command, commit, answered, row, ran, faults>>

Next ==
    \/ \E e \in Enqueues : Enqueue(e) \/ CommitReplyLost(e) \/ StepFails(e) \/ Die(e)
    \/ \E t \in Tasks : ClaimTask(t) \/ Restore(t) \/ RemoveTask(t)
    \/ \E r \in Refs : OtherPush(r)

Spec == Init /\ [][Next]_vars
\* git and the database answer.
FairSpec == Spec /\ \A e \in Enqueues : WF_vars(Enqueue(e))
-----------------------------------------------------------------------------
(* Properties.                                                             *)

\* The transaction of the enqueue is open.
Open == {"prepare", "push", "store", "commit"}
Seen(t) == row[t].at \in {"pending", "running", "failed", "completed"}

\* A worker sees a task only with its whole execution command, and with its snapshot published.
SeenIsPrepared ==
    \A t \in Tasks : Seen(t) =>
        row[t].command = With[row[t].by] /\ (UsesGit(row[t].by) => commit[row[t].by])

\* The branch of a task that waits holds its snapshot, unless somebody else touched it.
SnapshotKept ==
    \A t \in Tasks : row[t].at \in {"pending", "running"} /\ UsesGit(row[t].by) =>
        touched[RefOf[row[t].by]] \/ row[t].by \in reach[RefOf[row[t].by]]

\* A task runs in the files of its own enqueue, whatever happened to the branch.
RunsOwnSnapshot == \A t \in Tasks : row[t].at = "completed" => ran[t] = row[t].by

\* A refused or failed enqueue queues nothing, except when its COMMIT was not answered.
FailedIsUnseen ==
    \A e \in Enqueues : at[e] \in {"failed", "dead"} /\ answered[e] => \A t \in Tasks : row[t].by # e

\* What makes these so.  A row and its enqueue know each other: it is held exactly while the
\* transaction is open, and seen only once that has committed, perhaps without an answer.
RowsOwned ==
    /\ \A t \in Tasks : IF row[t].at = "none" THEN row[t] = NoRow
                        ELSE row[t].by \in Enqueues /\ TaskOf[row[t].by] = t
    /\ \A t \in Tasks : row[t].at = "held" => at[row[t].by] \in Open
    /\ \A t \in Tasks : Seen(t) =>
           at[row[t].by] = "ok" \/ (at[row[t].by] \in {"failed", "dead"} /\ ~answered[row[t].by])
    /\ \A e \in Enqueues : at[e] \in Open =>
           row[TaskOf[e]].at = "held" /\ row[TaskOf[e]].by = e

\* The command is built from the end of the selection, and whole when it is stored.
CommandsBuilt == \A e \in Enqueues :
    /\ Len(command[e]) <= Len(With[e])
    /\ \A i \in 1..Len(command[e]) : command[e][i] = With[e][Len(With[e]) - Len(command[e]) + i]
    /\ at[e] = "push" => Len(command[e]) < Len(With[e]) /\ NextStep(e) = "git"
    /\ at[e] \in {"store", "commit"} => Len(command[e]) = Len(With[e])
    /\ at[e] = "commit" => row[TaskOf[e]].command = command[e]

\* The git wrapper is added together with the recorded snapshot, whose branch nobody
\* else can replace by creating it.
SnapshotsRecorded == \A e \in Enqueues :
    /\ (\E i \in 1..Len(command[e]) : command[e][i] = "git") => commit[e]
    /\ commit[e] => touched[RefOf[e]] \/ e \in reach[RefOf[e]]

\* Types; a worker sees a task only with its whole command and a published snapshot, and
\* nothing of an enqueue that was refused or has failed; and the reasons.
PrepareInv ==
    /\ TypeOK /\ SeenIsPrepared /\ FailedIsUnseen
    /\ RowsOwned /\ CommandsBuilt /\ SnapshotsRecorded

\* A task that waits keeps its snapshot unless others touch the branch, and runs in no other.
OwnSnapshot == SnapshotKept /\ RunsOwnSnapshot

\* An enqueue ends although it may have to wait for another one.
EnqueueEnds == \A e \in Enqueues : <>(at[e] \in {"ok", "failed", "dead"})
=============================================================================
