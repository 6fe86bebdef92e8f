----------------------------- MODULE TaskQueue -----------------------------
(***************************************************************************)
(* What the queue promises about one task ID, whatever workers crash,      *)
(* restart, answer late or share a directory: a submitted task is taken    *)
(* at most once, an outcome is stored only on a task that was taken, it is *)
(* stored once and never changes, "completed" means that the payload of    *)
(* this very incarnation ran, and only removal frees the ID.               *)
(***************************************************************************)
CONSTANT Tasks

VARIABLES
    state,   \* state[t] is the status a client reads for t
    ran      \* ran[t]: the payload of the current incarnation was started

vars == <<state, ran>>

Outcomes == {"completed", "failed", "cancelled"}

TypeOK ==
    /\ state \in [Tasks -> {"absent", "pending", "running"} \cup Outcomes]
    /\ ran \in [Tasks -> BOOLEAN]

Init ==
    /\ state = [t \in Tasks |-> "absent"]
    /\ ran = [t \in Tasks |-> FALSE]

Submit(t) ==
    /\ state[t] = "absent"
    /\ state' = [state EXCEPT ![t] = "pending"]
    /\ ran' = [ran EXCEPT ![t] = FALSE]

Withdraw(t) ==
    /\ state[t] = "pending"
    /\ state' = [state EXCEPT ![t] = "cancelled"]
    /\ UNCHANGED ran

Take(t) ==
    /\ state[t] = "pending"
    /\ state' = [state EXCEPT ![t] = "running"]
    /\ UNCHANGED ran

Run(t) ==
    /\ state[t] = "running"
    /\ ~ran[t]
    /\ ran' = [ran EXCEPT ![t] = TRUE]
    /\ UNCHANGED state

Settle(t, o) ==
    /\ state[t] = "running"
    /\ o = "completed" => ran[t]
    /\ state' = [state EXCEPT ![t] = o]
    /\ UNCHANGED ran

Remove(t) ==
    /\ state[t] # "absent"
    /\ state' = [state EXCEPT ![t] = "absent"]
    /\ ran' = [ran EXCEPT ![t] = FALSE]

Next == \E t \in Tasks :
    \/ Submit(t) \/ Withdraw(t) \/ Take(t) \/ Run(t) \/ Remove(t)
    \/ \E o \in Outcomes : Settle(t, o)

Spec == Init /\ [][Next]_vars
=============================================================================
