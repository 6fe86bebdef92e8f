------------------------------ MODULE Notifier ------------------------------
(***************************************************************************)
(* db.Notifier: one goroutine owns the listening connection, serves queued *)
(* requests to add and remove channels, hands events to its reader through *)
(* a bounded channel, and reconnects.  Callers of Add wait for an answer,  *)
(* for their own context, or for the end of the goroutine.                 *)
(***************************************************************************)
EXTENDS Naturals, Sequences, FiniteSets

CONSTANTS
    Channels,    \* names of channels
    Initial,     \* the channels NewNotifier listens to
    Callers,     \* goroutines that call Add and Remove
    Reuse,       \* a channel that was used before may be added again
    AddSize,     \* capacity of addCh
    RemoveSize,  \* capacity of removeCh
    QueueSize,   \* capacity of C
    MaxBacklog,  \* bound: events the server has sent and nobody has read yet
    Faults,      \* how an attempt to reconnect may fail: "permanent", "timeout"
    None

ASSUME NotifierAssumption ==
    /\ Initial \subseteq Channels
    /\ Reuse \in BOOLEAN
    /\ {AddSize, RemoveSize, QueueSize, MaxBacklog} \subseteq Nat \ {0}
    /\ Faults \subseteq {"permanent", "timeout"}
    /\ None \notin Callers

VARIABLES
    at,         \* where the goroutine is in run
    conn,       \* its connection: usable, lost but not noticed, or nil
    session,    \* the channels the server has for that connection
    channels,   \* n.channels
    adds,       \* addCh
    removes,    \* removeCh
    queue,      \* the number of events in C
    backlog,    \* events sent over the connection and not read yet
    stopping,   \* its context is cancelled
    caller,     \* what each caller is doing: "idle", "send", "answer"
    batch,      \* the channels of the Add a caller is in
    answer,     \* req.result of that Add
    used,       \* channels a caller has added before
    wanted,     \* history: channels added with success and not removed since
    gaveUp      \* history: why it stopped reconnecting, or "no"

loop   == <<at, conn, session, channels>>
boxes  == <<adds, removes, queue, backlog>>
calls  == <<caller, batch, answer, used, wanted, gaveUp>>
vars   == <<at, conn, session, channels, adds, removes, queue, backlog, stopping,
            caller, batch, answer, used, wanted, gaveUp>>

Request == [from : Callers \cup {None}, channels : SUBSET Channels]

TypeOK ==
    /\ at \in {"top", "serve", "wait", "deliver", "reconnect", "closing", "exited"}
    /\ conn \in {"up", "lost", "none"}
    /\ session \in SUBSET Channels /\ channels \in SUBSET Channels
    /\ adds \in Seq(Request) /\ Len(adds) <= AddSize
    /\ removes \in Seq(Channels) /\ Len(removes) <= RemoveSize
    /\ queue \in 0..QueueSize /\ backlog \in 0..MaxBacklog
    /\ stopping \in BOOLEAN
    /\ caller \in [Callers -> {"idle", "send", "answer"}]
    /\ batch \in [Callers -> SUBSET Channels]
    /\ answer \in [Callers -> {"none", "ok", "error"}]
    /\ used \in SUBSET Channels /\ wanted \in SUBSET Channels
    /\ gaveUp \in {"no"} \cup Faults
    /\ at \in {"top", "serve", "wait", "deliver"} => conn # "none"

Init ==
    /\ at = "top" /\ conn = "up"
    /\ session = Initial /\ channels = Initial
    /\ adds = <<>> /\ removes = <<>> /\ queue = 0 /\ backlog = 0
    /\ stopping = FALSE
    /\ caller = [c \in Callers |-> "idle"]
    /\ batch = [c \in Callers |-> {}]
    /\ answer = [c \in Callers |-> "none"]
    /\ used = Initial /\ wanted = Initial /\ gaveUp = "no"
-----------------------------------------------------------------------------
(* The goroutine.                                                          *)

Answered(r, result) ==
    IF r.from = None THEN answer ELSE [answer EXCEPT ![r.from] = result]

\* Every request in addCh is answered with an error.
FailPendingAdds ==
    /\ adds' = <<>>
    /\ answer' = [c \in Callers |->
                     IF \E i \in DOMAIN adds : adds[i].from = c THEN "error" ELSE answer[c]]

Top ==
    /\ at = "top"
    /\ IF stopping
       THEN at' = "closing" /\ FailPendingAdds
       ELSE at' = "serve" /\ UNCHANGED <<adds, answer>>
    /\ UNCHANGED <<conn, session, channels, removes, queue, backlog, stopping,
                   caller, batch, used, wanted, gaveUp>>

\* processRequests takes an Add.  LISTEN fails when the connection is lost, and
\* when a context ends, which may close it; the channels before the failure stay.
ServeAdd ==
    LET r   == Head(adds)
        new == r.channels \ channels
    IN
    /\ at = "serve"
    /\ adds # <<>>
    /\ adds' = Tail(adds)
    /\ \/ /\ (conn = "up" /\ ~stopping) \/ new = {}
          /\ channels' = channels \cup new
          /\ session' = session \cup new
          /\ answer' = Answered(r, "ok")
          /\ UNCHANGED conn
       \/ /\ new # {}
          /\ conn' \in (IF stopping THEN {conn, "lost"} ELSE {"lost"})
          /\ \E listened \in (IF conn = "up" THEN SUBSET new \ {new} ELSE {{}}) :
                 /\ channels' = channels \cup listened
                 /\ session' = IF conn' = "up" THEN session \cup listened ELSE {}
          /\ answer' = Answered(r, "error")
    /\ UNCHANGED <<at, removes, queue, backlog, stopping, caller, batch, used, wanted, gaveUp>>

\* processRequests takes a Remove; an error of UNLISTEN is ignored, and there is
\* no UNLISTEN once the context is cancelled.
ServeRemove ==
    /\ at = "serve"
    /\ removes # <<>>
    /\ removes' = Tail(removes)
    /\ channels' = channels \ {Head(removes)}
    /\ session' = IF stopping THEN session ELSE session \ {Head(removes)}
    /\ UNCHANGED <<at, conn, adds, queue, backlog, stopping, calls>>

ServeNone ==
    /\ at = "serve"
    /\ adds = <<>> /\ removes = <<>>
    /\ at' = "wait"
    /\ UNCHANGED <<conn, session, channels, boxes, stopping, calls>>

WaitEvent ==
    /\ at = "wait"
    /\ conn = "up" /\ backlog > 0
    /\ at' = "deliver"
    /\ backlog' = backlog - 1
    /\ UNCHANGED <<conn, session, channels, adds, removes, queue, stopping, calls>>

\* The wait of half a second is over, even if the connection was lost in it.
WaitTimeout ==
    /\ at = "wait"
    /\ ~stopping
    /\ at' = "top"
    /\ UNCHANGED <<conn, session, channels, boxes, stopping, calls>>

\* The connection is lost: it is closed, and queued Adds fail.
WaitLost ==
    /\ at = "wait"
    /\ ~stopping
    /\ conn = "lost"
    /\ conn' = "none"
    /\ at' = "reconnect"
    /\ FailPendingAdds
    /\ UNCHANGED <<session, channels, removes, queue, backlog, stopping,
                   caller, batch, used, wanted, gaveUp>>

\* The goroutine blocks here as long as C is full.
Deliver ==
    /\ at = "deliver"
    /\ queue < QueueSize
    /\ queue' = queue + 1
    /\ at' = "top"
    /\ UNCHANGED <<conn, session, channels, adds, removes, backlog, stopping, calls>>

\* Only the channels of NewNotifier are listened to again.
Reconnect_faulty ==
    /\ at = "reconnect"
    /\ ~stopping
    /\ at' = "top" /\ conn' = "up"
    /\ session' = Initial
    /\ UNCHANGED <<channels, boxes, stopping, calls>>

\* connect listens to every channel of the map.  Attempts that fail for a
\* transient reason change nothing.
Reconnect ==
    /\ at = "reconnect"
    /\ ~stopping
    /\ at' = "top" /\ conn' = "up"
    /\ session' = channels
    /\ UNCHANGED <<channels, boxes, stopping, calls>>

\* The database refuses for good, or the attempt reaches its own timeout: an
\* expired context is not transient.
GiveUp ==
    /\ at = "reconnect"
    /\ at' = "closing"
    /\ gaveUp' \in Faults
    /\ FailPendingAdds
    /\ UNCHANGED <<conn, session, channels, removes, queue, backlog, stopping,
                   caller, batch, used, wanted>>

\* The context ends a wait, a delivery or an attempt to reconnect.
Stop_faulty ==
    /\ at \in {"wait", "reconnect"}
    /\ stopping
    /\ at' = "closing"
    /\ FailPendingAdds
    /\ UNCHANGED <<conn, session, channels, removes, queue, backlog, stopping,
                   caller, batch, used, wanted, gaveUp>>

Stop ==
    /\ at \in {"wait", "deliver", "reconnect"}
    /\ stopping
    /\ at' = "closing"
    /\ FailPendingAdds
    /\ UNCHANGED <<conn, session, channels, removes, queue, backlog, stopping,
                   caller, batch, used, wanted, gaveUp>>

\* The deferred calls: the connection, C and exited are closed.
Exit ==
    /\ at = "closing"
    /\ at' = "exited" /\ conn' = "none" /\ session' = {} /\ backlog' = 0
    /\ UNCHANGED <<channels, adds, removes, queue, stopping, calls>>

Run == \/ Top \/ ServeAdd \/ ServeRemove \/ ServeNone
       \/ WaitEvent \/ WaitTimeout \/ WaitLost \/ Deliver
       \/ Reconnect \/ GiveUp \/ Stop \/ Exit
-----------------------------------------------------------------------------
(* The server, the reader of C, and Close.                                 *)

Event ==
    /\ conn = "up" /\ session # {}
    /\ backlog < MaxBacklog
    /\ backlog' = backlog + 1
    /\ UNCHANGED <<loop, adds, removes, queue, stopping, calls>>

Lose ==
    /\ conn = "up"
    /\ conn' = "lost" /\ session' = {} /\ backlog' = 0
    /\ UNCHANGED <<at, channels, adds, removes, queue, stopping, calls>>

\* The caller of Add is also the reader, and reads between its calls.
Read_faulty ==
    /\ queue > 0
    /\ \A c \in Callers : caller[c] = "idle"
    /\ queue' = queue - 1
    /\ UNCHANGED <<loop, adds, removes, backlog, stopping, calls>>

\* A goroutine of its own drains C, also while a caller waits in Add.
Read ==
    /\ queue > 0
    /\ queue' = queue - 1
    /\ UNCHANGED <<loop, adds, removes, backlog, stopping, calls>>

Close ==
    /\ ~stopping
    /\ stopping' = TRUE
    /\ UNCHANGED <<loop, boxes, calls>>
-----------------------------------------------------------------------------
(* Callers.                                                                *)

Add(c, s) ==
    /\ caller[c] = "idle"
    /\ s # {}
    /\ Reuse \/ s \cap used = {}
    /\ caller' = [caller EXCEPT ![c] = "send"]
    /\ batch' = [batch EXCEPT ![c] = s]
    /\ answer' = [answer EXCEPT ![c] = "none"]
    /\ used' = used \cup s
    /\ UNCHANGED <<loop, boxes, stopping, wanted, gaveUp>>

AddSend(c) ==
    /\ caller[c] = "send"
    /\ Len(adds) < AddSize
    /\ adds' = Append(adds, [from |-> c, channels |-> batch[c]])
    /\ caller' = [caller EXCEPT ![c] = "answer"]
    /\ UNCHANGED <<loop, removes, queue, backlog, stopping, batch, answer, used, wanted, gaveUp>>

AddReturns(c) ==
    /\ caller[c] = "answer"
    /\ answer[c] # "none"
    /\ caller' = [caller EXCEPT ![c] = "idle"]
    /\ wanted' = IF answer[c] = "ok" THEN wanted \cup batch[c] ELSE wanted
    /\ UNCHANGED <<loop, boxes, stopping, batch, answer, used, gaveUp>>

\* A request that nobody waits for any longer is still served.
Abandoned(c) ==
    [i \in DOMAIN adds |-> IF adds[i].from = c THEN [adds[i] EXCEPT !.from = None] ELSE adds[i]]

\* The goroutine has ended, perhaps with the request in addCh.
AddClosed(c) ==
    /\ caller[c] \in {"send", "answer"}
    /\ at = "exited"
    /\ caller' = [caller EXCEPT ![c] = "idle"]
    /\ adds' = Abandoned(c)
    /\ UNCHANGED <<loop, removes, queue, backlog, stopping, batch, answer, used, wanted, gaveUp>>

\* The caller's own context ends.
AddExpires(c) ==
    /\ caller[c] \in {"send", "answer"}
    /\ caller' = [caller EXCEPT ![c] = "idle"]
    /\ adds' = Abandoned(c)
    /\ UNCHANGED <<loop, removes, queue, backlog, stopping, batch, answer, used, wanted, gaveUp>>

\* Remove is dropped when removeCh is full.
Remove(c, ch) ==
    /\ caller[c] = "idle"
    /\ ch \in wanted \ Initial
    /\ wanted' = wanted \ {ch}
    /\ removes' = IF Len(removes) < RemoveSize THEN Append(removes, ch) ELSE removes
    /\ UNCHANGED <<loop, adds, queue, backlog, stopping, caller, batch, answer, used, gaveUp>>

Call(c) == \/ \E s \in SUBSET Channels : Add(c, s)
           \/ \E ch \in Channels : Remove(c, ch)
           \/ AddExpires(c)

CallReturns(c) == AddSend(c) \/ AddReturns(c) \/ AddClosed(c)

Next == \/ Run \/ Event \/ Lose \/ Read \/ Close
        \/ \E c \in Callers : Call(c) \/ CallReturns(c)

Spec == Init /\ [][Next]_vars

\* The goroutine and the callers are scheduled; the database comes back, or
\* refuses for good.  C is read until Close is called, and perhaps not after it.
FairSpec ==
    /\ Spec
    /\ WF_vars(Run) /\ WF_vars(~stopping /\ Read)
    /\ \A c \in Callers : WF_vars(CallReturns(c))
-----------------------------------------------------------------------------
(* Properties.                                                             *)

\* While the connection is up the server has exactly the channels of the map,
\* after a partly failed Add, a removal or a reconnect alike (connect,
\* addChannels, processRequests).
SessionMatches == conn = "up" /\ ~stopping => session = channels

\* "Blocks until all LISTENs are confirmed": a channel that was added with
\* success and not removed since is in the map that every connection takes.
Subscribed == wanted \subseteq channels

\* What makes it so.  A queued Add is the one its caller waits for, and that has
\* no answer yet; an answer "ok" is true when it is given and stays so.
AddsOwned ==
    /\ \A i \in DOMAIN adds : adds[i].from # None =>
           /\ caller[adds[i].from] = "answer"
           /\ answer[adds[i].from] = "none"
           /\ adds[i].channels = batch[adds[i].from]
    /\ \A i, j \in DOMAIN adds : adds[i].from # None /\ adds[i].from = adds[j].from => i = j
    /\ \A c \in Callers : caller[c] = "send" => answer[c] = "none"
    /\ \A c \in Callers : caller[c] = "answer" /\ answer[c] = "ok" => batch[c] \subseteq channels

\* Nobody adds what another call adds, what is subscribed, or what is about to be
\* removed; that holds because channels are not used again.
CallsApart ==
    /\ wanted \subseteq used
    /\ \A c \in Callers : caller[c] # "idle" => batch[c] \subseteq used \ wanted
    /\ \A c, d \in Callers :
           caller[c] # "idle" /\ caller[d] # "idle" /\ c # d => batch[c] \cap batch[d] = {}
    /\ \A i \in DOMAIN removes :
           /\ removes[i] \in used \ wanted
           /\ \A c \in Callers : caller[c] # "idle" => removes[i] \notin batch[c]

\* Types, a session that has what was asked for and confirmed, and the reasons;
\* together they are inductive.
NotifierInv == TypeOK /\ SessionMatches /\ Subscribed /\ AddsOwned /\ CallsApart

\* Add always returns, also when it meets the loss of the connection, a full C,
\* the end of the goroutine, or an addCh that nobody will read again.
AddEnds == \A c \in Callers : caller[c] # "idle" ~> caller[c] = "idle"

\* Close ends the goroutine wherever it is, even if nobody reads C.
CloseEnds == stopping ~> at = "exited"
-----------------------------------------------------------------------------
(* Statements of the repository that the code does not keep.  No run checks *)
(* them; the README says what happens instead.                              *)

\* "a notifier listening on the given channels with auto-reconnect": it stops
\* reconnecting only when its owner asks or the database refuses for good.
GivesUpForReason == at = "closing" => stopping \/ gaveUp = "permanent"
=============================================================================
