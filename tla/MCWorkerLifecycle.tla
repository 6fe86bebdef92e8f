------------------------- MODULE MCWorkerLifecycle -------------------------
(***************************************************************************)
(* Instances of WorkerLifecycle for TLC.                                   *)
(***************************************************************************)
EXTENDS WorkerLifecycle, TLC

CONSTANT dir

\* Every worker runs in the same work directory and claims every task.
MCDirs == {dir}
MCWorkdirOf == [w \in Workers |-> dir]
MCAccepts == [w \in Workers |-> Tasks]

\* Every worker, or none, is started with an option.
MCAll == Workers
MCNone == {}

\* A bound of the larger run: one worker at a time has been told to stop, and
\* cancellations of a running task are stored for the first incarnation only.
OneStopFirstCancel ==
    /\ \E w \in Workers : ~stop[w]
    /\ \A t \in Tasks : rows[t].cancel => rows[t].createdAt = 1

Symmetry == Permutations(Workers) \cup Permutations(Tasks)
=============================================================================
