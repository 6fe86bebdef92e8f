---------------------------- MODULE MCProcesses ----------------------------
(***************************************************************************)
(* ProcessGroup and DaemonStart for TLC: the two places that start, signal  *)
(* and reap processes.  They share nothing, so a behaviour is one of either *)
(* and the other rests in its initial state.                                *)
(***************************************************************************)
EXTENDS ProcessGroup

VARIABLES part, caller, live, child, hangs, row, forced, term, pipe, answer

Daemon == INSTANCE DaemonStart

\* A git wrapper around an S3 wrapper around the payload.
GitAroundS3 == <<0, 0, 2>>

daemonVars == <<caller, live, child, hangs, row, forced, term, pipe, answer>>
all == <<part, vars, daemonVars>>

PartsInit ==
    /\ part \in {"group", "daemon"}
    /\ Init /\ Daemon!Init
    /\ part = "group" => hangs = "never"

PartsNext ==
    \/ part = "group" /\ Next /\ UNCHANGED <<part, daemonVars>>
    \/ part = "daemon" /\ Daemon!Next /\ UNCHANGED <<part, vars>>

\* The fairness of the two specifications.
PartsSpec ==
    /\ PartsInit /\ [][PartsNext]_all
    /\ \A i \in Levels : WF_all(part = "group" /\ Call(i) /\ UNCHANGED <<part, daemonVars>>)
    /\ \A i \in Levels : WF_all(part = "group" /\ Wrapper(i) /\ UNCHANGED <<part, daemonVars>>)
    /\ WF_all(part = "group" /\ Tick /\ UNCHANGED <<part, daemonVars>>)
    /\ WF_all(part = "daemon" /\ Daemon!StartDaemon /\ UNCHANGED <<part, vars>>)

-----------------------------------------------------------------------------
(* Properties.                                                             *)

\* Types, and success is real: of a call whose payload succeeded and was not told to stop,
\* of a worker that has confirmed its readiness.
ProcessesInv ==
    /\ GroupInv
    /\ Daemon!TypeOK /\ Daemon!HandshakeRight /\ Daemon!StartedWasReady

\* When the worker's call has returned no process of the task is left that could write; after
\* an error of the daemon no child goes on, none is a zombie, and one that could has cleared
\* its row.
NothingLeft == OnTime /\ Nested /\ NothingSurvives /\ Daemon!FailedIsReaped

\* The waits end: a cancelled call whatever the payload does, the wait for a worker that has
\* ended although no timer fires, and the one for a worker that hangs once the timers do.
WaitsEnd == CancelEnds /\ Daemon!ExitNoticed /\ Daemon!CallEnds

\* A worker whose command ended before it was confirmed does not stay, unless it hangs.
UnconfirmedEnds == Daemon!UnconfirmedEnds
=============================================================================
