---------------------------- MODULE DaemonStart ----------------------------
(***************************************************************************)
(* `worker --daemon`: the command starts the worker as a child, waits on a  *)
(* pipe for one byte that confirms its readiness, and releases it; a child  *)
(* that exits first, the startup timeout and an interrupt end in stopping   *)
(* and reaping it.  The child is the same program: it writes the byte once  *)
(* it has registered and recovered, and works only if that succeeded.       *)
(***************************************************************************)
EXTENDS Naturals

VARIABLES
    caller,  \* startDaemon: "start", "open", "await", "stopping", "killing", "ok", "error" or "dead"
    live,    \* its context: FALSE after an interrupt or the startup timeout
    child,   \* "none", "starting", "registered", "working", "winding", "exited" or "reaped"
    hangs,   \* where the child hangs, if anywhere: "start" or "stop"
    row,     \* its row of the registry: "none", "running" or "stopped"
    forced,  \* the child has crashed or was killed
    term,    \* SIGTERM was sent to the child
    pipe,    \* the pipe: [byte, writers, reader]
    answer   \* what the reading goroutine has put in done: "none", "ready" or "failed"

vars == <<caller, live, child, hangs, row, forced, term, pipe, answer>>
registry == <<hangs, row, forced>>

TypeOK ==
    /\ caller \in {"start", "open", "await", "stopping", "killing", "ok", "error", "dead"}
    /\ live \in BOOLEAN /\ term \in BOOLEAN
    /\ child \in {"none", "starting", "registered", "working", "winding", "exited", "reaped"}
    /\ hangs \in {"never", "start", "stop"} /\ row \in {"none", "running", "stopped"} /\ forced \in BOOLEAN
    /\ pipe \in [byte : BOOLEAN, writers : SUBSET {"caller", "child"}, reader : BOOLEAN]
    /\ answer \in {"none", "ready", "failed"}
    /\ child \in {"exited", "reaped"} => "child" \notin pipe.writers
    /\ child = "working" => "child" \notin pipe.writers

Init ==
    /\ caller = "start" /\ live = TRUE
    /\ child = "none" /\ term = FALSE
    /\ hangs \in {"never", "start", "stop"} /\ row = "none" /\ forced = FALSE
    /\ pipe = [byte |-> FALSE, writers |-> {}, reader |-> FALSE]
    /\ answer = "none"

\* The timeout of 30 s, or an interrupt of the command.
ContextEnds ==
    /\ live /\ caller \in {"start", "open", "await"}
    /\ live' = FALSE
    /\ UNCHANGED <<caller, child, registry, term, pipe, answer>>
-----------------------------------------------------------------------------
(* The caller.                                                             *)

Start ==
    /\ caller = "start"
    /\ IF live
       THEN /\ caller' = "open" /\ child' = "starting"
            /\ pipe' = [byte |-> FALSE, writers |-> {"caller", "child"}, reader |-> TRUE]
       ELSE caller' = "error" /\ UNCHANGED <<child, pipe>>
    /\ UNCHANGED <<live, registry, term, answer>>

\* The pipe or the process cannot be created.
StartFails ==
    /\ caller = "start"
    /\ caller' = "error"
    /\ UNCHANGED <<live, child, registry, term, pipe, answer>>

CloseWriter ==
    /\ caller = "open"
    /\ caller' = "await"
    /\ pipe' = [pipe EXCEPT !.writers = @ \ {"caller"}]
    /\ UNCHANGED <<live, child, registry, term, answer>>

\* The goroutine: one byte, the end of the pipe, or the end of the reader.
Reads ==
    /\ caller \in {"await", "stopping"} /\ answer = "none"
    /\ \/ pipe.reader /\ pipe.byte /\ answer' = "ready"
       \/ pipe.reader /\ ~pipe.byte /\ pipe.writers = {} /\ answer' = "failed"
       \/ ~pipe.reader /\ answer' = "failed"
    /\ UNCHANGED <<caller, live, child, registry, term, pipe>>

Alive == {"starting", "registered", "working", "winding"}
Release == caller' = "ok" /\ UNCHANGED <<child, term>>
\* stopDaemon begins with SIGTERM.
Stop == caller' = "stopping" /\ term' = TRUE /\ UNCHANGED child

\* The select takes the answer; a context that has ended counts first.
SelectDone ==
    /\ caller = "await" /\ answer # "none"
    /\ IF live /\ answer = "ready" THEN Release /\ pipe' = [pipe EXCEPT !.reader = FALSE]
                                    ELSE Stop /\ UNCHANGED pipe
    /\ UNCHANGED <<live, registry, answer>>

\* The select takes the end of the context, and the reader is closed.
SelectContext ==
    /\ caller = "await" /\ ~live /\ pipe.reader
    /\ pipe' = [pipe EXCEPT !.reader = FALSE]
    /\ Stop
    /\ UNCHANGED <<live, registry, answer>>

\* Wait returns.
Reap ==
    /\ caller \in {"stopping", "killing"} /\ child = "exited"
    /\ child' = "reaped" /\ caller' = "error"
    /\ pipe' = [pipe EXCEPT !.reader = FALSE]
    /\ UNCHANGED <<live, registry, term, answer>>

\* The child goes on after 5 s.
Kill ==
    /\ caller = "stopping" /\ child \in Alive
    /\ caller' = "killing"
    /\ child' = "exited" /\ forced' = TRUE
    /\ pipe' = [pipe EXCEPT !.writers = @ \ {"child"}]
    /\ UNCHANGED <<live, hangs, row, term, answer>>

\* The command is killed.
Die ==
    /\ caller \in {"open", "await", "stopping"}
    /\ caller' = "dead"
    /\ pipe' = [pipe EXCEPT !.reader = FALSE, !.writers = @ \ {"caller"}]
    /\ UNCHANGED <<live, child, registry, term, answer>>
-----------------------------------------------------------------------------
(* The child.                                                              *)

Child(state, p) == child' = state /\ pipe' = p /\ UNCHANGED <<caller, live, hangs, term, answer>>
Closed == [pipe EXCEPT !.writers = @ \ {"child"}]

RegisterWorker ==
    /\ child = "starting"
    /\ Child("registered", pipe) /\ row' = "running" /\ UNCHANGED forced

\* That the byte cannot be written is ignored.
Ready_faulty ==
    /\ child = "registered" /\ hangs # "start"
    /\ Child("working", [Closed EXCEPT !.byte = pipe.reader])
    /\ UNCHANGED <<row, forced>>

\* Startup and recovery are done: the byte is written; without a reader that is an error.
Ready ==
    /\ child = "registered" /\ hangs # "start"
    /\ IF pipe.reader THEN Child("working", [Closed EXCEPT !.byte = TRUE]) ELSE Child("winding", Closed)
    /\ UNCHANGED <<row, forced>>

\* Startup or recovery fails, a worker ends on its own, or SIGTERM is noticed.
Winds ==
    /\ child \in {"starting", "registered", "working"}
    /\ Child("winding", pipe)
    /\ UNCHANGED <<row, forced>>

\* The row is marked stopped before the process is gone.
Exits ==
    /\ child = "winding" /\ hangs # "stop"
    /\ Child("exited", Closed)
    /\ row' = IF row = "running" THEN "stopped" ELSE row
    /\ UNCHANGED forced

Crash ==
    /\ child \in Alive
    /\ Child("exited", Closed)
    /\ forced' = TRUE /\ UNCHANGED row

StartDaemon == Start \/ StartFails \/ CloseWriter \/ Reads \/ SelectDone \/ SelectContext \/ Reap

Next == ContextEnds \/ StartDaemon \/ Kill \/ Die \/ RegisterWorker \/ Ready \/ Winds \/ Exits \/ Crash

Spec == Init /\ [][Next]_vars

\* The command is scheduled; no timer has to fire, and the child may hang.
FairSpec == Spec /\ WF_vars(StartDaemon)
-----------------------------------------------------------------------------
(* Properties.                                                             *)

\* The answer is that of the child; a child that ended on its own has cleared its row, and
\* is reaped only by a caller that then reports an error.
HandshakeRight ==
    /\ caller = "start" => child = "none" /\ answer = "none"
    /\ child = "none" => caller \in {"start", "error"} /\ row = "none"
    /\ answer = "ready" => pipe.byte
    /\ child \in {"exited", "reaped"} => forced \/ row # "running"
    /\ child = "reaped" => caller = "error"

\* Success is reported for a child that had confirmed its readiness.
StartedWasReady == caller = "ok" => pipe.byte /\ answer = "ready"

\* After an error there is no child that goes on and no zombie, and a child that could end has cleared its row.
FailedIsReaped ==
    caller = "error" => child \in {"none", "reaped"} /\ (forced \/ row # "running")

\* A child that ends before it is ready is noticed although no timer fires.
ExitNoticed == child = "exited" /\ ~pipe.byte /\ caller \in {"open", "await"} ~> caller \in {"error", "dead"}

\* Once its timers fire the command returns, although the child may hang.
CallEnds ==
    WF_vars(ContextEnds) /\ WF_vars(Kill) => (caller = "open" ~> caller \in {"ok", "error", "dead"})

\* A worker whose command ended before it was confirmed does not stay, unless it hangs.
UnconfirmedEnds ==
    WF_vars(RegisterWorker \/ Ready \/ (term /\ Winds) \/ Exits) =>
        (caller \in {"dead", "error"} /\ ~pipe.byte /\ hangs = "never" ~> child \notin Alive)
=============================================================================
