--------------------------- MODULE MCTaskControl ---------------------------
(***************************************************************************)
(* Instances of TaskControl for TLC.                                       *)
(***************************************************************************)
EXTENDS TaskControl, FiniteSets, TLC

\* The tasks that have left a trace anywhere.
Touched ==
    {t \in Tasks : \/ rows[t] # NoRow
                   \/ \E w \in Workers :
                        \/ t \in listening[w] \cup dropping[w] \cup hints[w]
                        \/ job[w] # None /\ job[w].task = t
                   \/ \E g \in granted : g.task = t}

\* A bound of the runs: several commands run at once only while there is one
\* task; a second task is enqueued before the first claim, and while at most one
\* command runs.
OneTaskOrClient ==
    \/ Cardinality(Touched) <= 1
    \/ /\ Cardinality({c \in Clients : client[c] # Ready}) <= 1
       /\ \A t \in Tasks : rows[t].createdAt <= 2

Symmetry == Permutations(Workers) \cup Permutations(Clients) \cup Permutations(Tasks)
=============================================================================
