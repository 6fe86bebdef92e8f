--------------------------- MODULE Notifier_proofs ---------------------------
(***************************************************************************)
(* Proofs about Notifier, for any channels, callers and sizes of its        *)
(* queues: as long as no channel is used twice, a channel that Add has       *)
(* confirmed stays in the map and in every session, through partial         *)
(* failures, removals, lost connections and abandoned calls.                *)
(***************************************************************************)
EXTENDS Notifier, TLAPS

-----------------------------------------------------------------------------
(* Queues.                                                                 *)

\* What serving the first request leaves.
LEMMA QueueServed ==
    ASSUME NEW S, NEW q \in Seq(S), q # <<>>
    PROVE  /\ 1 \in DOMAIN q /\ Head(q) = q[1] /\ Head(q) \in S
           /\ Tail(q) \in Seq(S) /\ Len(Tail(q)) <= Len(q)
           /\ \A i \in DOMAIN Tail(q) : i + 1 \in DOMAIN q /\ Tail(q)[i] = q[i + 1] /\ i # 0
OBVIOUS

\* What a new request adds.
LEMMA QueueExtended ==
    ASSUME NEW S, NEW q \in Seq(S), NEW x \in S
    PROVE  /\ Append(q, x) \in Seq(S) /\ Len(Append(q, x)) = Len(q) + 1
           /\ \A i \in DOMAIN Append(q, x) :
                  \/ i \in DOMAIN q /\ Append(q, x)[i] = q[i]
                  \/ i = Len(q) + 1 /\ i \notin DOMAIN q /\ Append(q, x)[i] = x
OBVIOUS

\* A caller that leaves takes no request with it, and owns none any longer.
LEMMA AbandonedRequests ==
    ASSUME TypeOK, NEW c \in Callers
    PROVE  /\ Abandoned(c) \in Seq(Request) /\ Len(Abandoned(c)) = Len(adds)
           /\ DOMAIN Abandoned(c) = DOMAIN adds
           /\ \A i \in DOMAIN adds :
                  /\ Abandoned(c)[i].channels = adds[i].channels
                  /\ Abandoned(c)[i].from # None =>
                         Abandoned(c)[i].from = adds[i].from /\ adds[i].from # c
<1>1. adds \in Seq(Request)
  BY DEF TypeOK
<1>2. \A i \in DOMAIN adds : adds[i] \in Request
  BY <1>1
<1>3. \A i \in DOMAIN adds :
          (IF adds[i].from = c THEN [adds[i] EXCEPT !.from = None] ELSE adds[i]) \in Request
  BY <1>2 DEF Request
<1>4. DOMAIN adds = 1..Len(adds) /\ Len(adds) \in Nat
  BY <1>1
<1>5. Abandoned(c) \in [1..Len(adds) -> Request]
  BY <1>3, <1>4 DEF Abandoned
<1>6. Abandoned(c) \in Seq(Request) /\ Len(Abandoned(c)) = Len(adds)
  BY <1>4, <1>5
<1>7. DOMAIN Abandoned(c) = DOMAIN adds
  BY DEF Abandoned
<1>8. \A i \in DOMAIN adds :
          /\ Abandoned(c)[i].channels = adds[i].channels
          /\ Abandoned(c)[i].from # None =>
                 Abandoned(c)[i].from = adds[i].from /\ adds[i].from # c
  BY <1>2 DEF Abandoned, Request
<1>. QED  BY <1>6, <1>7, <1>8
-----------------------------------------------------------------------------
(* Steps that leave the calls alone.                                       *)

\* The calls as the invariant sees them do not change.
Quiet == UNCHANGED <<channels, adds, removes, caller, batch, answer, used, wanted>>

LEMMA QuietCalls ==
    ASSUME Subscribed, AddsOwned, CallsApart, Quiet
    PROVE  Subscribed' /\ AddsOwned' /\ CallsApart'
BY DEF Subscribed, AddsOwned, CallsApart, Quiet

\* Failing every queued Add answers the callers that wait, and no other.
LEMMA FailedAdds ==
    ASSUME TypeOK, Subscribed, AddsOwned, CallsApart, FailPendingAdds,
           UNCHANGED <<channels, removes, caller, batch, used, wanted>>
    PROVE  /\ adds' \in Seq(Request) /\ Len(adds') = 0
           /\ answer' \in [Callers -> {"none", "ok", "error"}]
           /\ Subscribed' /\ AddsOwned' /\ CallsApart'
<1>1. adds' = <<>> /\ DOMAIN adds' = {}
  BY DEF FailPendingAdds
<1>2. answer' \in [Callers -> {"none", "ok", "error"}]
  BY DEF FailPendingAdds, TypeOK
<1>3. \A c \in Callers : answer'[c] # answer[c] =>
          answer'[c] = "error" /\ \E i \in DOMAIN adds : adds[i].from = c
  BY DEF FailPendingAdds, TypeOK
<1>4. \A c \in Callers : answer'[c] # answer[c] => caller[c] = "answer"
  BY <1>3, NotifierAssumption DEF AddsOwned
<1>5. AddsOwned'
  BY <1>1, <1>3, <1>4 DEF AddsOwned
<1>6. Subscribed' /\ CallsApart'
  BY DEF Subscribed, CallsApart
<1>. QED  BY <1>1, <1>2, <1>5, <1>6
-----------------------------------------------------------------------------
(* The goroutine.                                                          *)

LEMMA ServeAddInv ==
    ASSUME NotifierInv, ServeAdd
    PROVE  NotifierInv'
<1>. DEFINE r == Head(adds)
            new == r.channels \ channels
<1>. USE DEF NotifierInv
<1>1. /\ adds \in Seq(Request) /\ adds # <<>>
      /\ adds' = Tail(adds)
      /\ UNCHANGED <<at, removes, queue, backlog, stopping, caller, batch, used, wanted, gaveUp>>
  BY DEF ServeAdd, TypeOK
<1>2. /\ 1 \in DOMAIN adds /\ r = adds[1] /\ r \in Request
      /\ Tail(adds) \in Seq(Request) /\ Len(Tail(adds)) <= Len(adds)
      /\ \A i \in DOMAIN Tail(adds) :
             i + 1 \in DOMAIN adds /\ Tail(adds)[i] = adds[i + 1] /\ i # 0
  BY <1>1, QueueServed
<1>3. /\ channels \subseteq channels' /\ channels' \subseteq Channels
      /\ conn' \in {"up", "lost", "none"} /\ conn' # "none"
      /\ session' \subseteq Channels
      /\ conn' = "up" /\ ~stopping => session' = channels'
      /\ \/ answer' = Answered(r, "ok") /\ r.channels \subseteq channels'
         \/ answer' = Answered(r, "error")
  <2>1. CASE /\ (conn = "up" /\ ~stopping) \/ new = {}
             /\ channels' = channels \cup new
             /\ session' = session \cup new
             /\ answer' = Answered(r, "ok")
             /\ UNCHANGED conn
    BY <1>1, <1>2, <2>1 DEF TypeOK, Request, SessionMatches, ServeAdd
  <2>2. CASE /\ new # {}
             /\ conn' \in (IF stopping THEN {conn, "lost"} ELSE {"lost"})
             /\ \E listened \in (IF conn = "up" THEN SUBSET new \ {new} ELSE {{}}) :
                    /\ channels' = channels \cup listened
                    /\ session' = IF conn' = "up" THEN session \cup listened ELSE {}
             /\ answer' = Answered(r, "error")
    <3>1. PICK listened \in SUBSET new :
              /\ channels' = channels \cup listened
              /\ session' = IF conn' = "up" THEN session \cup listened ELSE {}
      BY <2>2
    <3>. QED
      BY <1>1, <1>2, <2>2, <3>1 DEF TypeOK, Request, SessionMatches, ServeAdd
  <2>. QED  BY <2>1, <2>2 DEF ServeAdd
<1>4. /\ answer' \in [Callers -> {"none", "ok", "error"}]
      /\ \A c \in Callers : answer'[c] # answer[c] => c = r.from /\ r.from # None
      /\ \A c \in Callers : c = r.from /\ answer'[c] = "ok" => r.channels \subseteq channels'
  <2>1. r.from \in Callers \cup {None}
    BY <1>2 DEF Request
  <2>2. PICK result \in {"ok", "error"} :
            answer' = Answered(r, result) /\ (result = "ok" => r.channels \subseteq channels')
    BY <1>3
  <2>3. answer \in [Callers -> {"none", "ok", "error"}]
    BY DEF TypeOK
  <2>4. CASE r.from = None
    BY <2>2, <2>3, <2>4, NotifierAssumption DEF Answered
  <2>5. CASE r.from \in Callers
    <3>1. answer' = [answer EXCEPT ![r.from] = result]
      BY <2>2, <2>5, NotifierAssumption DEF Answered
    <3>. QED
      BY <2>2, <2>3, <2>5, <3>1, NotifierAssumption
  <2>. QED  BY <2>1, <2>4, <2>5
<1>5. TypeOK'
  <2>1. adds' \in Seq(Request) /\ Len(adds') <= AddSize
    <3>1. Len(adds) \in Nat /\ Len(Tail(adds)) \in Nat /\ AddSize \in Nat /\ Len(adds) <= AddSize
      BY <1>1, <1>2, NotifierAssumption DEF TypeOK
    <3>. QED  BY <1>1, <1>2, <3>1
  <2>. QED  BY <1>1, <1>3, <1>4, <2>1 DEF TypeOK
<1>6. SessionMatches' /\ Subscribed'
  BY <1>1, <1>3 DEF SessionMatches, Subscribed
<1>7. AddsOwned'
  <2>1. \A i \in DOMAIN adds' : adds'[i] = adds[i + 1] /\ i + 1 \in DOMAIN adds /\ i + 1 # 1 /\ i \in Nat
    BY <1>1, <1>2
  <2>2. \A i \in DOMAIN adds' : adds'[i].from # None =>
            /\ caller'[adds'[i].from] = "answer"
            /\ answer'[adds'[i].from] = "none"
            /\ adds'[i].channels = batch'[adds'[i].from]
    <3>1. SUFFICES ASSUME NEW i \in DOMAIN adds', adds'[i].from # None
                   PROVE  /\ caller'[adds'[i].from] = "answer"
                          /\ answer'[adds'[i].from] = "none"
                          /\ adds'[i].channels = batch'[adds'[i].from]
      OBVIOUS
    <3>2. adds[i + 1].from # r.from
      BY <1>2, <2>1, <3>1 DEF AddsOwned
    <3>3. adds[i + 1] \in Request
      BY <1>1, <2>1
    <3>4. adds[i + 1].from \in Callers
      BY <2>1, <3>1, <3>3 DEF Request
    <3>5. answer'[adds[i + 1].from] = answer[adds[i + 1].from]
      BY <1>4, <3>2, <3>4
    <3>. QED
      BY <1>1, <2>1, <3>1, <3>5 DEF AddsOwned
  <2>3. \A i, j \in DOMAIN adds' : adds'[i].from # None /\ adds'[i].from = adds'[j].from => i = j
    <3>1. SUFFICES ASSUME NEW i \in DOMAIN adds', NEW j \in DOMAIN adds',
                          adds'[i].from # None, adds'[i].from = adds'[j].from
                   PROVE  i = j
      OBVIOUS
    <3>2. i + 1 = j + 1
      BY <2>1, <3>1 DEF AddsOwned
    <3>. QED  BY <2>1, <3>2
  <2>4. \A c \in Callers : c = r.from => caller[c] = "answer" /\ r.channels = batch[c]
    BY <1>2, NotifierAssumption DEF AddsOwned
  <2>5. \A c \in Callers : caller'[c] = "send" => answer'[c] = "none"
    BY <1>1, <1>4, <2>4 DEF AddsOwned
  <2>6. \A c \in Callers : caller'[c] = "answer" /\ answer'[c] = "ok" => batch'[c] \subseteq channels'
    BY <1>1, <1>3, <1>4, <2>4 DEF AddsOwned
  <2>. QED  BY <2>2, <2>3, <2>5, <2>6 DEF AddsOwned
<1>8. CallsApart'
  BY <1>1 DEF CallsApart
<1>. QED  BY <1>5, <1>6, <1>7, <1>8
\* A Remove that is served takes away nothing that anybody has or waits for.
LEMMA ServeRemoveInv ==
    ASSUME NotifierInv, ServeRemove
    PROVE  NotifierInv'
<1>. USE DEF NotifierInv
<1>1. /\ removes \in Seq(Channels) /\ removes # <<>>
      /\ removes' = Tail(removes) /\ channels' = channels \ {Head(removes)}
      /\ session' = IF stopping THEN session ELSE session \ {Head(removes)}
      /\ UNCHANGED <<at, conn, adds, queue, backlog, stopping, caller, batch, answer,
                     used, wanted, gaveUp>>
  BY DEF ServeRemove, TypeOK, calls
<1>2. /\ 1 \in DOMAIN removes /\ Head(removes) = removes[1]
      /\ Tail(removes) \in Seq(Channels) /\ Len(Tail(removes)) <= Len(removes)
      /\ \A i \in DOMAIN Tail(removes) :
             i + 1 \in DOMAIN removes /\ Tail(removes)[i] = removes[i + 1]
  BY <1>1, QueueServed
<1>3. /\ Head(removes) \in used \ wanted
      /\ \A c \in Callers : caller[c] # "idle" => Head(removes) \notin batch[c]
  BY <1>2 DEF CallsApart
<1>4. TypeOK'
  <2>1. Len(removes) \in Nat /\ Len(Tail(removes)) \in Nat /\ RemoveSize \in Nat
        /\ Len(removes) <= RemoveSize
    BY <1>1, <1>2, NotifierAssumption DEF TypeOK
  <2>2. removes' \in Seq(Channels) /\ Len(removes') <= RemoveSize
    BY <1>1, <1>2, <2>1
  <2>. QED  BY <1>1, <2>2 DEF TypeOK
<1>5. SessionMatches' /\ Subscribed'
  BY <1>1, <1>3 DEF SessionMatches, Subscribed
<1>6. AddsOwned'
  BY <1>1, <1>3 DEF AddsOwned
<1>7. CallsApart'
  <2>1. \A i \in DOMAIN removes' :
            /\ removes'[i] \in used \ wanted
            /\ \A c \in Callers : caller[c] # "idle" => removes'[i] \notin batch[c]
    BY <1>1, <1>2 DEF CallsApart
  <2>. QED  BY <1>1, <2>1 DEF CallsApart
<1>. QED  BY <1>4, <1>5, <1>6, <1>7

\* Every other step of the goroutine moves it, answers queued Adds with an error,
\* or takes the whole map to a new session.
LEMMA RunInv ==
    ASSUME NotifierInv, Run
    PROVE  NotifierInv'
<1>. USE DEF NotifierInv
<1>1. CASE ServeAdd
  BY <1>1, ServeAddInv
<1>2. CASE ServeRemove
  BY <1>2, ServeRemoveInv
<1>3. CASE ServeNone \/ WaitEvent \/ WaitTimeout \/ Deliver \/ Reconnect \/ Exit
  <2>1. Quiet
    BY <1>3 DEF ServeNone, WaitEvent, WaitTimeout, Deliver, Reconnect, Exit, Quiet, boxes, calls
  <2>2. Subscribed' /\ AddsOwned' /\ CallsApart'
    BY <2>1, QuietCalls
  <2>3. queue' \in 0..QueueSize /\ backlog' \in 0..MaxBacklog
    BY <1>3, NotifierAssumption
    DEF TypeOK, ServeNone, WaitEvent, WaitTimeout, Deliver, Reconnect, Exit, boxes
  <2>4. TypeOK'
    BY <1>3, <2>1, <2>3
    DEF TypeOK, Quiet, ServeNone, WaitEvent, WaitTimeout, Deliver, Reconnect, Exit, calls
  <2>5. SessionMatches'
    BY <1>3 DEF SessionMatches, ServeNone, WaitEvent, WaitTimeout, Deliver, Reconnect, Exit
  <2>. QED  BY <2>2, <2>4, <2>5
<1>4. CASE Top /\ ~stopping
  <2>1. /\ Quiet /\ at' = "serve" /\ at = "top"
        /\ UNCHANGED <<conn, session, queue, backlog, stopping, gaveUp>>
    BY <1>4 DEF Top, Quiet
  <2>2. Subscribed' /\ AddsOwned' /\ CallsApart'
    BY <2>1, QuietCalls
  <2>3. TypeOK' /\ SessionMatches'
    BY <2>1 DEF TypeOK, SessionMatches, Quiet
  <2>. QED  BY <2>2, <2>3
<1>5. CASE (Top /\ stopping) \/ WaitLost \/ GiveUp \/ Stop
  <2>1. /\ FailPendingAdds
        /\ UNCHANGED <<session, channels, removes, queue, backlog, stopping,
                       caller, batch, used, wanted>>
        /\ at' \in {"closing", "reconnect"}
        /\ conn' \in {conn, "none"} /\ gaveUp' \in {gaveUp} \cup Faults
    BY <1>5 DEF Top, WaitLost, GiveUp, Stop
  <2>2. /\ adds' \in Seq(Request) /\ Len(adds') = 0
        /\ answer' \in [Callers -> {"none", "ok", "error"}]
        /\ Subscribed' /\ AddsOwned' /\ CallsApart'
    BY <2>1, FailedAdds
  <2>3. Len(adds') <= AddSize
    BY <2>2, NotifierAssumption
  <2>4. TypeOK'
    BY <2>1, <2>2, <2>3 DEF TypeOK
  <2>5. SessionMatches'
    BY <2>1 DEF SessionMatches
  <2>. QED  BY <2>2, <2>4, <2>5
<1>. QED  BY <1>1, <1>2, <1>3, <1>4, <1>5 DEF Run

\* The server, the reader and Close leave the calls alone.
LEMMA AroundInv ==
    ASSUME NotifierInv, Event \/ Lose \/ Read \/ Close
    PROVE  NotifierInv'
<1>. USE DEF NotifierInv
<1>1. Quiet
  BY DEF Event, Lose, Read, Close, Quiet, loop, boxes, calls
<1>2. Subscribed' /\ AddsOwned' /\ CallsApart'
  BY <1>1, QuietCalls
<1>3. queue' \in 0..QueueSize /\ backlog' \in 0..MaxBacklog
  BY NotifierAssumption DEF TypeOK, Event, Lose, Read, Close, boxes
<1>4. TypeOK'
  BY <1>1, <1>3 DEF TypeOK, Quiet, Event, Lose, Read, Close, loop, calls
<1>5. SessionMatches'
  BY DEF SessionMatches, Event, Lose, Read, Close, loop
<1>. QED  BY <1>2, <1>4, <1>5
-----------------------------------------------------------------------------
(* Callers.                                                                *)

\* A new Add is for channels that no other call has had.
LEMMA AddInv ==
    ASSUME NotifierInv, Reuse = FALSE, NEW c \in Callers, NEW s \in SUBSET Channels, Add(c, s)
    PROVE  NotifierInv'
<1>. USE DEF NotifierInv
<1>1. /\ caller[c] = "idle" /\ s \cap used = {}
      /\ caller' = [caller EXCEPT ![c] = "send"]
      /\ batch' = [batch EXCEPT ![c] = s]
      /\ answer' = [answer EXCEPT ![c] = "none"]
      /\ used' = used \cup s
      /\ UNCHANGED <<at, conn, session, channels, adds, removes, queue, backlog, stopping,
                     wanted, gaveUp>>
  BY DEF Add, loop, boxes
<1>2. /\ caller \in [Callers -> {"idle", "send", "answer"}]
      /\ batch \in [Callers -> SUBSET Channels]
      /\ answer \in [Callers -> {"none", "ok", "error"}]
      /\ adds \in Seq(Request)
  BY DEF TypeOK
<1>3. /\ caller'[c] = "send" /\ batch'[c] = s /\ answer'[c] = "none"
      /\ \A d \in Callers : d # c =>
             caller'[d] = caller[d] /\ batch'[d] = batch[d] /\ answer'[d] = answer[d]
  BY <1>1, <1>2
<1>4. TypeOK'
  BY <1>1, <1>2 DEF TypeOK
<1>5. SessionMatches' /\ Subscribed'
  BY <1>1 DEF SessionMatches, Subscribed
<1>6. AddsOwned'
  <2>1. \A i \in DOMAIN adds : adds[i].from # None => adds[i].from \in Callers /\ adds[i].from # c
    <3>1. \A i \in DOMAIN adds : adds[i] \in Request
      BY <1>2
    <3>2. \A i \in DOMAIN adds : adds[i].from # None => caller[adds[i].from] = "answer"
      BY DEF AddsOwned
    <3>. QED  BY <1>1, <3>1, <3>2 DEF Request
  <2>. QED  BY <1>1, <1>3, <2>1 DEF AddsOwned
<1>7. CallsApart'
  <2>1. wanted' \subseteq used'
    BY <1>1 DEF CallsApart
  <2>2. \A d \in Callers : caller'[d] # "idle" => batch'[d] \subseteq used' \ wanted'
    BY <1>1, <1>3 DEF CallsApart
  <2>3. \A d, e \in Callers :
            caller'[d] # "idle" /\ caller'[e] # "idle" /\ d # e => batch'[d] \cap batch'[e] = {}
    BY <1>1, <1>3 DEF CallsApart
  <2>4. \A i \in DOMAIN removes' :
            /\ removes'[i] \in used' \ wanted'
            /\ \A d \in Callers : caller'[d] # "idle" => removes'[i] \notin batch'[d]
    BY <1>1, <1>3 DEF CallsApart
  <2>. QED  BY <2>1, <2>2, <2>3, <2>4 DEF CallsApart
<1>. QED  BY <1>4, <1>5, <1>6, <1>7

\* The request that enters addCh is the only one of its caller.
LEMMA AddSendInv ==
    ASSUME NotifierInv, NEW c \in Callers, AddSend(c)
    PROVE  NotifierInv'
<1>. USE DEF NotifierInv
<1>. DEFINE new == [from |-> c, channels |-> batch[c]]
<1>1. /\ caller[c] = "send" /\ Len(adds) < AddSize
      /\ adds' = Append(adds, new)
      /\ caller' = [caller EXCEPT ![c] = "answer"]
      /\ UNCHANGED <<at, conn, session, channels, removes, queue, backlog, stopping,
                     batch, answer, used, wanted, gaveUp>>
  BY DEF AddSend, loop
<1>2. /\ caller \in [Callers -> {"idle", "send", "answer"}]
      /\ batch \in [Callers -> SUBSET Channels]
      /\ adds \in Seq(Request)
  BY DEF TypeOK
<1>3. /\ new \in Request /\ new.from = c /\ new.channels = batch[c] /\ c # None
      /\ caller'[c] = "answer"
      /\ \A d \in Callers : d # c => caller'[d] = caller[d]
  BY <1>1, <1>2, NotifierAssumption DEF Request
<1>. HIDE DEF new
<1>4. /\ adds' \in Seq(Request) /\ Len(adds') = Len(adds) + 1
      /\ \A i \in DOMAIN adds' :
             \/ i \in DOMAIN adds /\ adds'[i] = adds[i]
             \/ i = Len(adds) + 1 /\ i \notin DOMAIN adds /\ adds'[i] = new
  BY <1>1, <1>2, <1>3, QueueExtended
<1>5. TypeOK'
  <2>1. Len(adds') <= AddSize
    BY <1>1, <1>2, <1>4, NotifierAssumption
  <2>. QED  BY <1>1, <1>2, <1>4, <2>1 DEF TypeOK
<1>6. SessionMatches' /\ Subscribed'
  BY <1>1 DEF SessionMatches, Subscribed
<1>7. AddsOwned'
  <2>1. \A i \in DOMAIN adds : adds[i].from # None => adds[i].from \in Callers /\ adds[i].from # c
    <3>1. \A i \in DOMAIN adds : adds[i] \in Request
      BY <1>2
    <3>2. \A i \in DOMAIN adds : adds[i].from # None => caller[adds[i].from] = "answer"
      BY DEF AddsOwned
    <3>. QED  BY <1>1, <3>1, <3>2 DEF Request
  <2>2. answer[c] = "none"
    BY <1>1 DEF AddsOwned
  <2>3. \A i \in DOMAIN adds' : adds'[i].from # None =>
            /\ caller'[adds'[i].from] = "answer"
            /\ answer'[adds'[i].from] = "none"
            /\ adds'[i].channels = batch'[adds'[i].from]
    BY <1>1, <1>3, <1>4, <2>1, <2>2 DEF AddsOwned
  <2>4. \A i, j \in DOMAIN adds' :
            adds'[i].from # None /\ adds'[i].from = adds'[j].from => i = j
    BY <1>3, <1>4, <2>1 DEF AddsOwned
  <2>5. /\ \A d \in Callers : caller'[d] = "send" => answer'[d] = "none"
        /\ \A d \in Callers : caller'[d] = "answer" /\ answer'[d] = "ok" => batch'[d] \subseteq channels'
    BY <1>1, <1>3, <2>2 DEF AddsOwned
  <2>. QED  BY <2>3, <2>4, <2>5 DEF AddsOwned
<1>8. CallsApart'
  BY <1>1, <1>3 DEF CallsApart
<1>. QED  BY <1>5, <1>6, <1>7, <1>8

\* An answer "ok" makes the batch wanted; it is in the map, and nobody else adds
\* it or has asked to remove it.
LEMMA AddReturnsInv ==
    ASSUME NotifierInv, NEW c \in Callers, AddReturns(c)
    PROVE  NotifierInv'
<1>. USE DEF NotifierInv
<1>1. /\ caller[c] = "answer" /\ answer[c] # "none"
      /\ caller' = [caller EXCEPT ![c] = "idle"]
      /\ wanted' = IF answer[c] = "ok" THEN wanted \cup batch[c] ELSE wanted
      /\ UNCHANGED <<at, conn, session, channels, adds, removes, queue, backlog, stopping,
                     batch, answer, used, gaveUp>>
  BY DEF AddReturns, loop, boxes
<1>2. /\ caller \in [Callers -> {"idle", "send", "answer"}]
      /\ batch \in [Callers -> SUBSET Channels]
      /\ adds \in Seq(Request)
  BY DEF TypeOK
<1>3. /\ caller'[c] = "idle"
      /\ \A d \in Callers : d # c => caller'[d] = caller[d]
  BY <1>1, <1>2
<1>4. TypeOK'
  BY <1>1, <1>2 DEF TypeOK
<1>5. SessionMatches'
  BY <1>1 DEF SessionMatches
<1>6. Subscribed'
  BY <1>1 DEF Subscribed, AddsOwned
<1>7. AddsOwned'
  <2>1. \A i \in DOMAIN adds : adds[i].from # None => adds[i].from \in Callers /\ adds[i].from # c
    <3>1. \A i \in DOMAIN adds : adds[i] \in Request
      BY <1>2
    <3>2. \A i \in DOMAIN adds : adds[i].from # None => answer[adds[i].from] = "none"
      BY DEF AddsOwned
    <3>. QED  BY <1>1, <3>1, <3>2 DEF Request
  <2>. QED  BY <1>1, <1>3, <2>1 DEF AddsOwned
<1>8. CallsApart'
  <2>1. wanted' \subseteq used'
    BY <1>1 DEF CallsApart
  <2>2. \A d \in Callers : caller'[d] # "idle" => batch'[d] \subseteq used' \ wanted'
    BY <1>1, <1>3 DEF CallsApart
  <2>3. \A d, e \in Callers :
            caller'[d] # "idle" /\ caller'[e] # "idle" /\ d # e => batch'[d] \cap batch'[e] = {}
    BY <1>1, <1>3 DEF CallsApart
  <2>4. \A i \in DOMAIN removes' :
            /\ removes'[i] \in used' \ wanted'
            /\ \A d \in Callers : caller'[d] # "idle" => removes'[i] \notin batch'[d]
    BY <1>1, <1>3 DEF CallsApart
  <2>. QED  BY <2>1, <2>2, <2>3, <2>4 DEF CallsApart
<1>. QED  BY <1>4, <1>5, <1>6, <1>7, <1>8

\* A caller that leaves without an answer loses its claim on the answer.
LEMMA AddLeftInv ==
    ASSUME NotifierInv, NEW c \in Callers, AddClosed(c) \/ AddExpires(c)
    PROVE  NotifierInv'
<1>. USE DEF NotifierInv
<1>1. /\ caller[c] # "idle"
      /\ caller' = [caller EXCEPT ![c] = "idle"]
      /\ adds' = Abandoned(c)
      /\ UNCHANGED <<at, conn, session, channels, removes, queue, backlog, stopping,
                     batch, answer, used, wanted, gaveUp>>
  BY DEF AddClosed, AddExpires, loop
<1>2. /\ caller \in [Callers -> {"idle", "send", "answer"}]
      /\ adds \in Seq(Request)
  BY DEF TypeOK
<1>3. /\ caller'[c] = "idle"
      /\ \A d \in Callers : d # c => caller'[d] = caller[d]
  BY <1>1, <1>2
<1>4. /\ adds' \in Seq(Request) /\ Len(adds') = Len(adds)
      /\ DOMAIN adds' = DOMAIN adds
      /\ \A i \in DOMAIN adds :
             /\ adds'[i].channels = adds[i].channels
             /\ adds'[i].from # None => adds'[i].from = adds[i].from /\ adds[i].from # c
  BY <1>1, AbandonedRequests
<1>5. TypeOK'
  BY <1>1, <1>2, <1>4 DEF TypeOK
<1>6. SessionMatches' /\ Subscribed'
  BY <1>1 DEF SessionMatches, Subscribed
<1>7. AddsOwned'
  <2>1. \A i \in DOMAIN adds' : adds'[i].from # None =>
            /\ adds'[i].from \in Callers /\ adds'[i].from # c
            /\ adds'[i].from = adds[i].from /\ adds[i].from # None
    <3>1. \A i \in DOMAIN adds : adds[i] \in Request
      BY <1>2
    <3>. QED  BY <1>4, <3>1 DEF Request
  <2>2. \A i \in DOMAIN adds' : adds'[i].from # None =>
            /\ caller'[adds'[i].from] = "answer"
            /\ answer'[adds'[i].from] = "none"
            /\ adds'[i].channels = batch'[adds'[i].from]
    BY <1>1, <1>3, <1>4, <2>1 DEF AddsOwned
  <2>3. \A i, j \in DOMAIN adds' :
            adds'[i].from # None /\ adds'[i].from = adds'[j].from => i = j
    BY <1>4, <2>1 DEF AddsOwned
  <2>4. /\ \A d \in Callers : caller'[d] = "send" => answer'[d] = "none"
        /\ \A d \in Callers : caller'[d] = "answer" /\ answer'[d] = "ok" => batch'[d] \subseteq channels'
    BY <1>1, <1>3 DEF AddsOwned
  <2>. QED  BY <2>2, <2>3, <2>4 DEF AddsOwned
<1>8. CallsApart'
  BY <1>1, <1>3 DEF CallsApart
<1>. QED  BY <1>5, <1>6, <1>7, <1>8

\* A channel that a caller gives up is wanted by nobody, and in nobody's Add.
LEMMA RemoveInv ==
    ASSUME NotifierInv, NEW c \in Callers, NEW ch \in Channels, Remove(c, ch)
    PROVE  NotifierInv'
<1>. USE DEF NotifierInv
<1>1. /\ ch \in wanted /\ wanted' = wanted \ {ch}
      /\ removes' = IF Len(removes) < RemoveSize THEN Append(removes, ch) ELSE removes
      /\ UNCHANGED <<at, conn, session, channels, adds, queue, backlog, stopping,
                     caller, batch, answer, used, gaveUp>>
  BY DEF Remove, loop
<1>2. removes \in Seq(Channels) /\ Len(removes) <= RemoveSize
  BY DEF TypeOK
<1>3. /\ removes' \in Seq(Channels) /\ Len(removes') <= RemoveSize
      /\ \A i \in DOMAIN removes' :
             removes'[i] = ch \/ (i \in DOMAIN removes /\ removes'[i] = removes[i])
  <2>1. CASE Len(removes) < RemoveSize
    <3>1. /\ Append(removes, ch) \in Seq(Channels)
          /\ Len(Append(removes, ch)) = Len(removes) + 1
          /\ \A i \in DOMAIN Append(removes, ch) :
                 \/ i \in DOMAIN removes /\ Append(removes, ch)[i] = removes[i]
                 \/ Append(removes, ch)[i] = ch
      BY <1>2, QueueExtended
    <3>2. Len(removes) \in Nat /\ RemoveSize \in Nat
      BY <1>2, NotifierAssumption
    <3>. QED  BY <1>1, <2>1, <3>1, <3>2
  <2>2. CASE ~(Len(removes) < RemoveSize)
    BY <1>1, <1>2, <2>2
  <2>. QED  BY <2>1, <2>2
<1>4. TypeOK'
  BY <1>1, <1>3 DEF TypeOK
<1>5. SessionMatches' /\ Subscribed'
  BY <1>1 DEF SessionMatches, Subscribed
<1>6. AddsOwned'
  BY <1>1 DEF AddsOwned
<1>7. CallsApart'
  <2>1. /\ wanted' \subseteq used'
        /\ \A d \in Callers : caller'[d] # "idle" => batch'[d] \subseteq used' \ wanted'
        /\ \A d, e \in Callers :
               caller'[d] # "idle" /\ caller'[e] # "idle" /\ d # e => batch'[d] \cap batch'[e] = {}
    BY <1>1 DEF CallsApart
  <2>2. \A i \in DOMAIN removes' :
            /\ removes'[i] \in used' \ wanted'
            /\ \A d \in Callers : caller'[d] # "idle" => removes'[i] \notin batch'[d]
    BY <1>1, <1>3 DEF CallsApart
  <2>. QED  BY <2>1, <2>2 DEF CallsApart
<1>. QED  BY <1>4, <1>5, <1>6, <1>7
-----------------------------------------------------------------------------
(* The invariant.                                                          *)

\* The listener starts with the channels it was made for, and nobody waits.
LEMMA NotifierInit ==
    ASSUME Init
    PROVE  NotifierInv
<1>1. TypeOK
  <2>1. /\ <<>> \in Seq(Request) /\ <<>> \in Seq(Channels) /\ Len(<<>>) = 0
        /\ AddSize \in Nat /\ RemoveSize \in Nat /\ QueueSize \in Nat /\ MaxBacklog \in Nat
    BY NotifierAssumption
  <2>2. Len(adds) <= AddSize /\ Len(removes) <= RemoveSize
        /\ queue \in 0..QueueSize /\ backlog \in 0..MaxBacklog
    BY <2>1 DEF Init
  <2>. QED  BY <2>1, <2>2, NotifierAssumption DEF Init, TypeOK
<1>2. SessionMatches /\ Subscribed /\ AddsOwned /\ CallsApart
  BY DEF Init, SessionMatches, Subscribed, AddsOwned, CallsApart
<1>. QED  BY <1>1, <1>2 DEF NotifierInv

\* No step of the goroutine, the server, the reader or a caller breaks it.
LEMMA NotifierStep ==
    ASSUME Reuse = FALSE, NotifierInv, [Next]_vars
    PROVE  NotifierInv'
<1>1. CASE Run
  BY <1>1, RunInv
<1>2. CASE Event \/ Lose \/ Read \/ Close
  BY <1>2, AroundInv
<1>3. ASSUME NEW c \in Callers, Call(c) \/ CallReturns(c)
      PROVE  NotifierInv'
  <2>1. ASSUME NEW s \in SUBSET Channels, Add(c, s) PROVE NotifierInv'
    BY <2>1, AddInv
  <2>2. ASSUME NEW ch \in Channels, Remove(c, ch) PROVE NotifierInv'
    BY <2>2, RemoveInv
  <2>3. CASE AddSend(c)
    BY <2>3, AddSendInv
  <2>4. CASE AddReturns(c)
    BY <2>4, AddReturnsInv
  <2>5. CASE AddClosed(c) \/ AddExpires(c)
    BY <2>5, AddLeftInv
  <2>. QED  BY <1>3, <2>1, <2>2, <2>3, <2>4, <2>5 DEF Call, CallReturns
<1>4. CASE UNCHANGED vars
  <2>1. Subscribed' /\ AddsOwned' /\ CallsApart'
    BY <1>4, QuietCalls DEF vars, Quiet, NotifierInv
  <2>2. TypeOK' /\ SessionMatches'
    BY <1>4 DEF vars, NotifierInv, TypeOK, SessionMatches
  <2>. QED  BY <2>1, <2>2 DEF NotifierInv
<1>. QED  BY <1>1, <1>2, <1>3, <1>4 DEF Next

\* While the connection is up the server has the channels of the map, and every
\* channel whose Add returned success and that nobody removed is one of them
\* (connect, addChannels, processRequests, Add): for any callers, any batches
\* and any sizes of the queues, as long as no channel is used a second time.
THEOREM AddedStaysSubscribed ==
    ASSUME Reuse = FALSE
    PROVE  Spec => []NotifierInv
<1>1. Init => NotifierInv
  BY NotifierInit
<1>2. NotifierInv /\ [Next]_vars => NotifierInv'
  BY NotifierStep
<1>. QED  BY <1>1, <1>2, PTL DEF Spec
=============================================================================
