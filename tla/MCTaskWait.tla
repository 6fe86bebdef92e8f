----------------------------- MODULE MCTaskWait -----------------------------
(***************************************************************************)
(* Instances of TaskWait for TLC.                                          *)
(***************************************************************************)
EXTENDS TaskWait

CONSTANTS t1, t2

\* `wait` for two tasks, one named twice, for any of them, and by tag.
TwoGiven == [given |-> <<t1, t2, t1>>, any |-> FALSE]
AnyGiven == [given |-> <<t1, t2>>, any |-> TRUE]
Tagged   == [given |-> <<>>, any |-> FALSE]

AllCommands == {TwoGiven, AnyGiven, Tagged}
=============================================================================
