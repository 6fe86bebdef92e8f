------------------------- MODULE WorkerRegistry_proofs -------------------------
(***************************************************************************)
(* Proofs about WorkerRegistry, for any processes with an ID of their own   *)
(* and any intervals and limits: a worker whose row says stopped has left   *)
(* nothing behind, and, when answers and the outage are short beside the    *)
(* interval, the task of a live worker never looks stale.                   *)
(***************************************************************************)
EXTENDS WorkerRegistry, TLAPS

LEMMA Bounds ==
    /\ Interval \in Nat \ {0} /\ Unit \in Nat \ {0} /\ Threshold \in Nat \ {0}
    /\ Delay \in Nat \ {0} /\ ConnectLimit \in Nat \ {0} /\ CallLimit \in Nat \ {0}
    /\ MaxTries \in Nat \ {0} /\ StopTimeout \in Nat \ {0} /\ MaxDown \in Nat /\ MaxLost \in Nat
    /\ AgeCap \in Nat /\ StaleInterval \in Nat
    /\ Max2(CallLimit, Delay) \in Nat /\ CallLimit <= Max2(CallLimit, Delay) /\ Delay <= Max2(CallLimit, Delay)
    /\ Max2(ConnectLimit, Delay) \in Nat /\ ConnectLimit <= Max2(ConnectLimit, Delay)
<1>1. /\ Interval \in Nat \ {0} /\ Unit \in Nat \ {0} /\ Threshold \in Nat \ {0}
      /\ Delay \in Nat \ {0} /\ ConnectLimit \in Nat \ {0} /\ CallLimit \in Nat \ {0}
      /\ MaxTries \in Nat \ {0} /\ StopTimeout \in Nat \ {0} /\ MaxDown \in Nat /\ MaxLost \in Nat
  BY RegistryAssumption
<1>2. StaleDuration \in Nat
  BY <1>1 DEF StaleDuration
<1>3. AgeCap \in Nat
  BY <1>1, <1>2 DEF AgeCap
<1>4. StaleInterval \in Nat
  <2>1. StaleDuration \div Unit \in Nat
    BY <1>1, <1>2
  <2>. QED  BY <1>1, <2>1 DEF StaleInterval
<1>. QED  BY <1>1, <1>3, <1>4 DEF Max2
-----------------------------------------------------------------------------
(* One process.                                                            *)

\* What RegistryInv says of a process: its row, its calls and its beats.
RowOf(p) ==
    /\ pc[p] = "new" => row[Id[p]].status = "none"
    /\ pc[p] \in Running => row[Id[p]].status = "running"
    /\ row[Id[p]].status = "stopped" => pc[p] = "ended"

CallsOf(p) ==
    /\ waited[p] <= ConnectLimit
    /\ beat[p].at # "off" => beat[p].left > 0
    /\ beat[p].at = "call" => beat[p].tries < MaxTries
    /\ pc[p] \in {"new", "connecting", "unregistering"} \cup Ended => beat[p].at = "off" /\ ~listening[p]
    /\ pc[p] \in {"recovering", "idle", "working"} /\ ~cancelled[p] => beat[p].at # "off"

BeatOf(p) == ~cancelled[p] =>
    /\ pc[p] = "connecting" => row[Id[p]].age <= waited[p]
    /\ beat[p].at # "off" => OnTime(p)

ProcInv(p) == RowOf(p) /\ CallsOf(p) /\ (Punctual => BeatOf(p))

OutageInv == up => downs \in {0, MaxDown}
StopInv == stop.at \in {"stopped", "already"} => row[Target].status = "stopped"

PartsInv == TypeOK /\ (\A p \in Procs : ProcInv(p)) /\ OutageInv /\ StopInv

\* StoppedIsQuiet follows from what is known of each process.
LEMMA Parts == PartsInv => RegistryInv
<1>. SUFFICES ASSUME PartsInv PROVE RegistryInv
  OBVIOUS
<1>. USE DEF PartsInv
<1>1. RowsRight
  BY DEF RowsRight, ProcInv, RowOf, StopInv
<1>2. CallsBounded
  BY DEF CallsBounded, ProcInv, CallsOf
<1>3. Punctual => BeatsOnTime
  BY DEF BeatsOnTime, ProcInv, BeatOf
<1>4. StoppedIsQuiet
  <2>. SUFFICES ASSUME NEW p \in Procs,
                       row[Id[p]].status = "stopped" \/ (Id[p] = Target /\ stop.at \in {"stopped", "already"})
                PROVE  pc[p] \in {"new"} \cup Ended /\ beat[p].at = "off" /\ ~listening[p]
    BY DEF StoppedIsQuiet
  <2>1. pc[p] = "ended"
    BY <1>1 DEF RowsRight
  <2>. QED  BY <1>2, <2>1 DEF CallsBounded, Ended
<1>. QED  BY <1>1, <1>2, <1>3, <1>4 DEF RegistryInv, OutageInv

LEMMA PartsHold ==
    ASSUME RegistryInv
    PROVE  TypeOK /\ (\A p \in Procs : ProcInv(p)) /\ OutageInv /\ StopInv
BY DEF RegistryInv, RowsRight, CallsBounded, BeatsOnTime, ProcInv, RowOf, CallsOf, BeatOf, OutageInv, StopInv

\* A step of one process leaves everything of the others as it is.
SameView(q) ==
    /\ pc'[q] = pc[q] /\ waited'[q] = waited[q] /\ cancelled'[q] = cancelled[q]
    /\ listening'[q] = listening[q] /\ beat'[q] = beat[q] /\ row'[Id[q]] = row[Id[q]]

LEMMA ProcStep ==
    ASSUME RegistryInv, NEW p \in Procs, TypeOK', ProcInv(p)',
           \A q \in Procs : q # p => SameView(q),
           row'[Target] = row[Target] \/ (row[Target].status = "stopped" => row'[Target].status = "stopped"),
           UNCHANGED <<up, downs, stop>>
    PROVE  RegistryInv'
<1>1. (\A q \in Procs : ProcInv(q)) /\ OutageInv /\ StopInv
  BY PartsHold
<1>2. ASSUME NEW q \in Procs, q # p
      PROVE  ProcInv(q)'
  <2>1. SameView(q) /\ ProcInv(q)
    BY <1>1, <1>2
  <2>2. RowOf(q)' /\ CallsOf(q)'
    BY <2>1 DEF SameView, ProcInv, RowOf, CallsOf
  <2>3. Punctual => BeatOf(q)'
    BY <2>1 DEF SameView, ProcInv, BeatOf, OnTime, DueBy
  <2>. QED  BY <2>2, <2>3 DEF ProcInv, Punctual
<1>3. \A q \in Procs : ProcInv(q)'
  BY <1>2
<1>4. OutageInv' /\ StopInv'
  BY <1>1 DEF OutageInv, StopInv
<1>5. PartsInv'
  BY <1>3, <1>4 DEF PartsInv
<1>. QED  BY <1>5, Parts, PTL

\* What is known of a process that takes a step.
LEMMA Known ==
    ASSUME RegistryInv, NEW p \in Procs
    PROVE  /\ TypeOK /\ RowOf(p) /\ CallsOf(p) /\ (Punctual => BeatOf(p)) /\ OutageInv /\ StopInv
           /\ Id[p] \in Ids /\ Target \in Ids
           /\ row[Id[p]] \in [status : {"none", "running", "stopped"}, age : 0..AgeCap]
           /\ beat[p] \in [at : {"off", "wait", "call"}, left : 0..Interval, ticked : BOOLEAN,
                           took : 0..Max2(CallLimit, Delay), tries : 0..MaxTries]
           /\ waited[p] \in Nat /\ cancelled[p] \in BOOLEAN /\ listening[p] \in BOOLEAN
           /\ pc[p] \in {"new"} \cup Running \cup Ended
<1>1. TypeOK /\ ProcInv(p) /\ OutageInv /\ StopInv
  BY PartsHold
<1>2. Id[p] \in Ids /\ Target \in Ids
  BY DEF Ids
<1>. QED  BY <1>1, <1>2, Bounds DEF TypeOK, ProcInv

\* No other process writes to a row.
LEMMA Apart ==
    ASSUME DistinctIds, NEW p \in Procs, NEW q \in Procs, q # p
    PROVE  Id[q] # Id[p]
BY DEF DistinctIds
-----------------------------------------------------------------------------
(* Registration and the run.                                               *)

LEMMA RegisterKeeps ==
    ASSUME RegistryInv, DistinctIds, NEW p \in Procs, RegisterWorker(p)
    PROVE  RegistryInv'
<1>1. TypeOK'
  BY Known, Bounds DEF RegisterWorker, Goto, TypeOK, Running
<1>2. ProcInv(p)'
  BY Known, Bounds DEF RegisterWorker, Goto, TypeOK, ProcInv, RowOf, CallsOf, BeatOf, Running, Ended
<1>3. \A q \in Procs : q # p => SameView(q)
  BY Known, Apart DEF RegisterWorker, Goto, TypeOK, SameView
<1>4. row[Target].status = "stopped" => row'[Target].status = "stopped"
  BY Known DEF RegisterWorker, RowOf, TypeOK
<1>. QED  BY <1>1, <1>2, <1>3, <1>4, ProcStep DEF RegisterWorker

LEMMA ConnectKeeps ==
    ASSUME RegistryInv, NEW p \in Procs, Connect(p)
    PROVE  RegistryInv'
<1>0. /\ FirstBeat.at = "wait" /\ FirstBeat.left = Interval /\ ~FirstBeat.ticked /\ FirstBeat.took = 0 /\ FirstBeat.tries = 0
      /\ FirstBeat \in [at : {"off", "wait", "call"}, left : 0..Interval, ticked : BOOLEAN,
                    took : 0..Max2(CallLimit, Delay), tries : 0..MaxTries]
  BY Bounds DEF FirstBeat
<1>1. TypeOK'
  <2>1. /\ UNCHANGED <<row, task, cancelled, up, downs, lost, stop>>
        /\ beat' = [beat EXCEPT ![p] = FirstBeat]
        /\ listening' = [listening EXCEPT ![p] = TRUE]
        /\ pc' = [pc EXCEPT ![p] = "recovering"] /\ waited' = [waited EXCEPT ![p] = 0]
    BY DEF Connect, Goto
  <2>. QED  BY <1>0, <2>1, Known, Bounds DEF TypeOK, Running
<1>2. beat'[p] = FirstBeat /\ pc'[p] = "recovering" /\ waited'[p] = 0 /\ row' = row
  BY Known DEF Connect, Goto, TypeOK
<1>3. RowOf(p)' /\ CallsOf(p)'
  BY <1>0, <1>2, Known, Bounds DEF Connect, RowOf, CallsOf, Running, Ended
<1>4. Punctual => BeatOf(p)'
  BY <1>0, <1>2, Known, Bounds DEF Connect, CallsOf, BeatOf, OnTime, DueBy
<1>5. \A q \in Procs : q # p => SameView(q)
  BY DEF Connect, Goto, TypeOK, SameView
<1>. QED  BY <1>1, <1>3, <1>4, <1>5, ProcStep DEF Connect, ProcInv, Punctual

\* Steps of the run that touch neither the row nor the heartbeat.
RunOn(p) == \/ ConnectFails(p) \/ RecoverCompletions(p) \/ ClaimTask(p) \/ FinishTask(p) \/ Return(p)
            \/ CloseAll(p) \/ Cancel(p)

LEMMA RunOnKeeps ==
    ASSUME RegistryInv, NEW p \in Procs, RunOn(p)
    PROVE  RegistryInv'
<1>. USE DEF RunOn, ConnectFails, RecoverCompletions, ClaimTask, FinishTask, Return, CloseAll, Cancel, Goto
<1>1. TypeOK'
  <2>1. TypeOK /\ UNCHANGED <<row, beat, up, downs, lost, stop>>
    BY Known
  <2>2. /\ pc' \in [Procs -> {"new"} \cup Running \cup Ended]
        /\ waited' \in [Procs -> 0..Max2(ConnectLimit, Delay)]
    BY Bounds, <2>1 DEF TypeOK, Running
  <2>3. /\ task' \in [Procs -> {"none", "running"}]
        /\ cancelled' \in [Procs -> BOOLEAN] /\ listening' \in [Procs -> BOOLEAN]
    BY <2>1 DEF TypeOK
  <2>. QED  BY <2>1, <2>2, <2>3 DEF TypeOK
<1>2. UNCHANGED <<row, beat, up, downs, stop>>
  OBVIOUS
<1>3. RowOf(p)' /\ CallsOf(p)'
  BY Known, Bounds DEF TypeOK, RowOf, CallsOf, Running, Ended
<1>4. pc'[p] # "connecting" \/ (pc'[p] = pc[p] /\ waited'[p] = waited[p])
  BY Known DEF TypeOK
<1>5. ~cancelled'[p] => ~cancelled[p]
  BY Known DEF TypeOK
<1>6. Punctual => BeatOf(p)'
  BY <1>2, <1>4, <1>5, Known DEF BeatOf, OnTime, DueBy
<1>7. \A q \in Procs : q # p => SameView(q)
  BY Known DEF TypeOK, SameView
<1>. QED  BY <1>1, <1>2, <1>3, <1>6, <1>7, ProcStep DEF ProcInv, Punctual

LEMMA UnregisterKeeps ==
    ASSUME RegistryInv, DistinctIds, NEW p \in Procs, UnregisterWorker(p)
    PROVE  RegistryInv'
<1>1. TypeOK'
  <2>1. row' \in [Ids -> [status : {"none", "running", "stopped"}, age : 0..AgeCap]]
    BY Known DEF UnregisterWorker, TypeOK
  <2>2. /\ UNCHANGED <<task, cancelled, listening, beat, up, downs, lost, stop>>
        /\ pc' = [pc EXCEPT ![p] = "ended"] /\ waited' = [waited EXCEPT ![p] = 0]
    BY DEF UnregisterWorker, Goto
  <2>. QED  BY <2>1, <2>2, Known, Bounds DEF TypeOK, Ended
<1>2. ProcInv(p)'
  BY Known, Bounds DEF UnregisterWorker, Goto, TypeOK, ProcInv, RowOf, CallsOf, BeatOf, Running, Ended
<1>3. \A q \in Procs : q # p => SameView(q)
  BY Known, Apart DEF UnregisterWorker, Goto, TypeOK, SameView
<1>4. row[Target].status = "stopped" => row'[Target].status = "stopped"
  BY Known DEF UnregisterWorker, TypeOK
<1>. QED  BY <1>1, <1>2, <1>3, <1>4, ProcStep DEF UnregisterWorker

LEMMA CrashKeeps ==
    ASSUME RegistryInv, NEW p \in Procs, Crash(p)
    PROVE  RegistryInv'
<1>1. TypeOK'
  BY Known, Bounds DEF Crash, Goto, TypeOK, Ended, NoBeat
<1>2. ProcInv(p)'
  BY Known, Bounds DEF Crash, Goto, TypeOK, ProcInv, RowOf, CallsOf, BeatOf, Running, Ended, NoBeat
<1>3. \A q \in Procs : q # p => SameView(q)
  BY Known DEF Crash, Goto, TypeOK, SameView
<1>. QED  BY <1>1, <1>2, <1>3, ProcStep DEF Crash
-----------------------------------------------------------------------------
(* The heartbeat.                                                          *)

BeatType == [at : {"off", "wait", "call"}, left : 0..Interval, ticked : BOOLEAN,
             took : 0..Max2(CallLimit, Delay), tries : 0..MaxTries]

LEMMA BeatTyped ==
    ASSUME RegistryInv, NEW p \in Procs
    PROVE  /\ beat \in [Procs -> BeatType] /\ beat[p] \in BeatType
           /\ 0 \in 0..MaxTries /\ 0 \in 0..Max2(CallLimit, Delay)
           /\ \A n \in Nat : n < MaxTries => n + 1 \in 0..MaxTries
BY Known, Bounds DEF BeatType, TypeOK

\* A step of the heartbeat that leaves the row.
LEMMA BeatStep ==
    ASSUME RegistryInv, NEW p \in Procs, NEW b \in BeatType, beat' = [beat EXCEPT ![p] = b],
           UNCHANGED <<row, task, pc, waited, cancelled, listening, up, downs, lost, stop>>,
           CallsOf(p)', Punctual => BeatOf(p)'
    PROVE  RegistryInv'
<1>1. TypeOK'
  BY Known DEF TypeOK, BeatType
<1>2. RowOf(p)'
  BY Known DEF RowOf
<1>3. \A q \in Procs : q # p => SameView(q)
  BY Known DEF TypeOK, SameView
<1>. QED  BY <1>1, <1>2, <1>3, ProcStep DEF ProcInv, Punctual

LEMMA HeartbeatTickKeeps ==
    ASSUME RegistryInv, NEW p \in Procs, HeartbeatTick(p)
    PROVE  RegistryInv'
<1>. PICK b : b = [beat[p] EXCEPT !.at = "call", !.ticked = FALSE, !.took = 0, !.tries = 0]
  OBVIOUS
<1>1. /\ beat[p].at = "wait" /\ beat[p].ticked
      /\ beat' = [beat EXCEPT ![p] = b]
      /\ UNCHANGED <<row, task, pc, waited, cancelled, listening, up, downs, lost, stop>>
  BY Known DEF HeartbeatTick, TypeOK
<1>2. /\ b \in BeatType /\ b.at = "call" /\ b.left = beat[p].left /\ ~b.ticked /\ b.took = 0 /\ b.tries = 0
      /\ beat'[p] = b
  BY <1>1, BeatTyped DEF BeatType
<1>3. CallsOf(p)'
  BY <1>1, <1>2, Known, Bounds DEF CallsOf
<1>4. Punctual => BeatOf(p)'
  <2>. SUFFICES ASSUME Punctual, ~cancelled[p]
                PROVE  (pc[p] = "connecting" => row[Id[p]].age <= waited[p]) /\ OnTime(p)'
    BY <1>1 DEF BeatOf
  <2>1. OnTime(p) /\ (pc[p] = "connecting" => row[Id[p]].age <= waited[p])
    BY <1>1, Known DEF BeatOf
  <2>2. downs \in Nat
    BY Known, Bounds DEF TypeOK
  <2>. QED  BY <1>1, <1>2, <2>1, <2>2, Known, Bounds DEF OnTime, DueBy
<1>. QED  BY <1>1, <1>2, <1>3, <1>4, BeatStep

\* A beat that arrives makes the row young again.
LEMMA UpdateHeartbeatKeeps ==
    ASSUME RegistryInv, DistinctIds, NEW p \in Procs, UpdateHeartbeat(p)
    PROVE  RegistryInv'
<1>. PICK b : b = [beat[p] EXCEPT !.at = "wait"]
  OBVIOUS
<1>1. /\ beat[p].at = "call" /\ up /\ ~cancelled[p]
      /\ beat' = [beat EXCEPT ![p] = b]
      /\ row' = IF row[Id[p]].status = "running" THEN [row EXCEPT ![Id[p]].age = 0] ELSE row
      /\ UNCHANGED <<task, pc, waited, cancelled, listening, up, downs, lost, stop>>
  BY Known DEF UpdateHeartbeat, TypeOK
<1>2. /\ b \in BeatType /\ b.at = "wait" /\ b.left = beat[p].left /\ b.ticked = beat[p].ticked
      /\ beat'[p] = b
  BY <1>1, BeatTyped DEF BeatType
<1>3. /\ \A i \in Ids : row'[i].status = row[i].status
      /\ row[Id[p]].status = "running" => row'[Id[p]].age = 0
      /\ row' \in [Ids -> [status : {"none", "running", "stopped"}, age : 0..AgeCap]]
  <2>1. /\ row \in [Ids -> [status : {"none", "running", "stopped"}, age : 0..AgeCap]]
        /\ Id[p] \in Ids /\ 0 \in 0..AgeCap
    BY Known, Bounds DEF TypeOK
  <2>. QED  BY <1>1, <2>1
<1>4. TypeOK'
  BY <1>1, <1>2, <1>3, Known DEF TypeOK, BeatType
<1>5. RowOf(p)' /\ CallsOf(p)'
  BY <1>1, <1>2, <1>3, Known DEF RowOf, CallsOf
<1>6. Punctual => BeatOf(p)'
  <2>. SUFFICES ASSUME Punctual
                PROVE  pc[p] # "connecting" /\ OnTime(p)'
    BY <1>1 DEF BeatOf
  <2>1. OnTime(p) /\ pc[p] # "connecting"
    BY <1>1, Known DEF BeatOf, CallsOf
  <2>2. row'[Id[p]].age = 0
    BY <1>1, <1>3, Known DEF RowOf, CallsOf, Running, Ended
  <2>. QED  BY <1>1, <1>2, <2>1, <2>2, Known, Bounds DEF OnTime, DueBy
<1>7. \A q \in Procs : q # p => SameView(q)
  BY <1>1, Known, Apart DEF TypeOK, SameView
<1>8. row[Target].status = "stopped" => row'[Target].status = "stopped"
  BY <1>3, Known
<1>. QED  BY <1>1, <1>4, <1>5, <1>6, <1>7, <1>8, ProcStep DEF ProcInv, Punctual

\* A beat is missed only in the outage, and then the next one comes after it.
LEMMA HeartbeatFailsKeeps ==
    ASSUME RegistryInv, NEW p \in Procs, HeartbeatFails(p)
    PROVE  RegistryInv'
<1>. DEFINE over == beat[p].tries + 1 = MaxTries \/ beat[p].took = CallLimit
<1>. PICK b : b = [beat[p] EXCEPT !.tries = @ + 1, !.at = IF over THEN "wait" ELSE "call"]
  OBVIOUS
<1>1. /\ beat[p].at = "call" /\ ~up /\ ~cancelled[p]
      /\ beat' = [beat EXCEPT ![p] = b]
      /\ UNCHANGED <<row, task, pc, waited, cancelled, listening, up, downs, lost, stop>>
  BY Known DEF HeartbeatFails, TypeOK
<1>2. beat[p].tries < MaxTries /\ beat[p].left > 0
  BY <1>1, Known DEF CallsOf
<1>3. /\ b \in BeatType /\ b.left = beat[p].left /\ b.ticked = beat[p].ticked /\ b.took = beat[p].took
      /\ b.tries = beat[p].tries + 1 /\ b.at = IF over THEN "wait" ELSE "call"
      /\ beat'[p] = b
  <2>1. PICK n \in 0..MaxTries : n = beat[p].tries + 1
    BY <1>2, BeatTyped DEF BeatType
  <2>2. PICK w \in {"off", "wait", "call"} : w = IF over THEN "wait" ELSE "call"
    OBVIOUS
  <2>3. b = [beat[p] EXCEPT !.tries = n, !.at = w]
    BY <2>1, <2>2
  <2>. HIDE DEF over
  <2>. QED  BY <1>1, <2>1, <2>2, <2>3, BeatTyped DEF BeatType
<1>4. b.at = "wait" \/ (b.at = "call" /\ b.tries < MaxTries)
  BY <1>2, <1>3, Known, Bounds
<1>5. CallsOf(p)'
  BY <1>1, <1>2, <1>3, <1>4, Known DEF CallsOf, Ended
<1>6. Punctual => BeatOf(p)'
  <2>. SUFFICES ASSUME Punctual
                PROVE  pc[p] # "connecting" /\ OnTime(p)'
    BY <1>1 DEF BeatOf
  <2>1. OnTime(p) /\ pc[p] # "connecting"
    BY <1>1, Known DEF BeatOf, CallsOf
  <2>2. downs \in Nat
    BY Known, Bounds DEF TypeOK
  <2>. QED  BY <1>1, <1>2, <1>3, <1>4, <2>1, <2>2, Known, Bounds DEF OnTime, DueBy
<1>. QED  BY <1>1, <1>3, <1>5, <1>6, BeatStep

LEMMA HeartbeatEndsKeeps ==
    ASSUME RegistryInv, NEW p \in Procs, HeartbeatEnds(p)
    PROVE  RegistryInv'
<1>1. NoBeat \in BeatType /\ NoBeat.at = "off"
  BY Bounds DEF NoBeat, BeatType
<1>2. /\ beat' = [beat EXCEPT ![p] = NoBeat] /\ beat'[p] = NoBeat /\ cancelled'[p]
      /\ UNCHANGED <<row, task, pc, waited, cancelled, listening, up, downs, lost, stop>>
  BY Known DEF HeartbeatEnds, TypeOK
<1>3. CallsOf(p)' /\ BeatOf(p)'
  BY <1>1, <1>2, Known DEF CallsOf, BeatOf
<1>. QED  BY <1>1, <1>2, <1>3, BeatStep
-----------------------------------------------------------------------------
(* Sessions and `worker stop`.                                             *)

LEMMA SessionKeeps ==
    ASSUME RegistryInv, NEW p \in Procs, LoseSession(p) \/ Reconnect(p)
    PROVE  RegistryInv'
<1>1. TypeOK' /\ UNCHANGED <<row, task, pc, waited, cancelled, beat, up, downs, stop>>
  <2>1. TypeOK /\ UNCHANGED <<row, task, pc, waited, cancelled, beat, up, downs, stop>>
    BY Known DEF LoseSession, Reconnect
  <2>2. listening' \in [Procs -> BOOLEAN]
    BY <2>1 DEF LoseSession, Reconnect, TypeOK
  <2>3. lost' \in 0..MaxLost
    BY <2>1, Bounds DEF LoseSession, Reconnect, TypeOK
  <2>. QED  BY <2>1, <2>2, <2>3 DEF TypeOK
<1>2. RowOf(p)' /\ CallsOf(p)'
  BY <1>1, Known DEF LoseSession, Reconnect, TypeOK, RowOf, CallsOf, Ended
<1>3. Punctual => BeatOf(p)'
  BY <1>1, Known DEF BeatOf, OnTime, DueBy
<1>4. \A q \in Procs : q # p => SameView(q)
  BY <1>1, Known DEF LoseSession, Reconnect, TypeOK, SameView
<1>. QED  BY <1>1, <1>2, <1>3, <1>4, ProcStep DEF ProcInv, Punctual

\* The signal ends contexts; it does nothing else.
LEMMA StopKeeps ==
    ASSUME RegistryInv, StopWorker
    PROVE  RegistryInv'
<1>0. TypeOK /\ (\A p \in Procs : ProcInv(p)) /\ OutageInv /\ StopInv /\ Target \in Ids
  BY PartsHold DEF Ids
<1>1. /\ UNCHANGED <<row, task, pc, waited, listening, beat, up, downs, lost>>
      /\ cancelled' \in [Procs -> BOOLEAN] /\ \A p \in Procs : ~cancelled'[p] => ~cancelled[p]
  BY <1>0 DEF StopWorker, StopLooks, StopSignals, StopChecks, StopEnds, StopTo, TypeOK
<1>2. /\ stop'.at \in {"subscribing", "waiting", "stopped", "already", "error", "unconfirmed", "interrupted"}
      /\ stop' = [stop EXCEPT !.at = stop'.at]
      /\ stop'.at \in {"stopped", "already"} => row[Target].status = "stopped"
  BY <1>0 DEF StopWorker, StopLooks, StopSignals, StopChecks, StopEnds, StopTo, TypeOK
<1>3. TypeOK'
  BY <1>0, <1>1, <1>2 DEF TypeOK
<1>4. ASSUME NEW p \in Procs PROVE ProcInv(p)'
  <2>1. RowOf(p)' /\ CallsOf(p)'
    BY <1>0, <1>1 DEF ProcInv, RowOf, CallsOf
  <2>2. Punctual => BeatOf(p)'
    BY <1>0, <1>1 DEF ProcInv, BeatOf, OnTime, DueBy
  <2>. QED  BY <2>1, <2>2 DEF ProcInv, Punctual
<1>5. OutageInv' /\ StopInv'
  BY <1>0, <1>1, <1>2 DEF OutageInv, StopInv
<1>6. PartsInv'
  BY <1>3, <1>4, <1>5 DEF PartsInv
<1>. QED  BY <1>6, Parts, PTL
-----------------------------------------------------------------------------
(* Time and the database.                                                  *)

\* What a tick makes of a heartbeat: the ticker goes on also while a call is made.
LEMMA AgedIs ==
    ASSUME RegistryInv, NEW p \in Procs, ~Urgent
    PROVE  /\ Aged(p) \in BeatType /\ Aged(p).at = beat[p].at
           /\ beat[p].at # "off" => Aged(p).left > 0
           /\ beat[p].at = "call" => Aged(p).tries < MaxTries
           /\ beat[p].at # "off" /\ beat[p].left > 1 =>
                  Aged(p).left = beat[p].left - 1 /\ (Aged(p).ticked <=> beat[p].ticked)
           /\ beat[p].at # "off" /\ beat[p].left = 1 => Aged(p).left = Interval /\ Aged(p).ticked
           /\ beat[p].at = "wait" => ~beat[p].ticked
           /\ beat[p].at = "call" => Aged(p).took = beat[p].took + 1 /\ (up => beat[p].took < Delay)
<1>1. /\ beat[p] \in BeatType
      /\ beat[p].at # "off" => beat[p].left > 0
      /\ beat[p].at = "call" => beat[p].tries < MaxTries
  BY BeatTyped, Known DEF CallsOf
<1>2. /\ beat[p].at = "wait" => ~beat[p].ticked
      /\ beat[p].at = "call" => ~(beat[p].took >= (IF up THEN Delay ELSE CallLimit))
  BY DEF Urgent
<1>3. beat[p].at = "call" => beat[p].took < Max2(CallLimit, Delay) /\ (up => beat[p].took < Delay)
  BY <1>1, <1>2, Bounds DEF BeatType
<1>4. CASE beat[p].at = "off"
  BY <1>1, <1>4 DEF Aged
<1>5. CASE beat[p].at # "off"
  <2>1. PICK l \in 0..Interval : l = IF beat[p].left = 1 THEN Interval ELSE beat[p].left - 1
    BY <1>1, <1>5, Bounds DEF BeatType
  <2>2. PICK k \in BOOLEAN : k = (beat[p].ticked \/ beat[p].left = 1)
    OBVIOUS
  <2>3. PICK c \in 0..Max2(CallLimit, Delay) :
            c = IF beat[p].at = "call" /\ beat[p].took < Max2(CallLimit, Delay)
                THEN beat[p].took + 1 ELSE beat[p].took
    BY <1>1, Bounds DEF BeatType
  <2>4. Aged(p) = [beat[p] EXCEPT !.left = l, !.ticked = k, !.took = c]
    BY <1>5, <2>1, <2>2, <2>3 DEF Aged
  <2>5. /\ Aged(p) \in BeatType /\ Aged(p).at = beat[p].at /\ Aged(p).tries = beat[p].tries
        /\ Aged(p).left = l /\ Aged(p).ticked = k /\ Aged(p).took = c
    <3>1. PICK b \in BeatType : b = beat[p]
      BY <1>1
    <3>2. Aged(p) = [b EXCEPT !.left = l, !.ticked = k, !.took = c]
      BY <2>4, <3>1
    <3>. QED  BY <3>1, <3>2 DEF BeatType
  <2>6. l > 0 /\ (beat[p].left > 1 => l = beat[p].left - 1) /\ (beat[p].left = 1 => l = Interval)
    BY <1>1, <1>5, <2>1, Bounds DEF BeatType
  <2>7. beat[p].ticked \in BOOLEAN /\ beat[p].left \in Nat
    BY <1>1 DEF BeatType
  <2>8. (beat[p].left > 1 => (k <=> beat[p].ticked)) /\ (beat[p].left = 1 => k)
    <3>1. beat[p].left > 1 => beat[p].left # 1
      BY <2>7
    <3>. QED  BY <2>2, <3>1, Zenon
  <2>. QED  BY <1>1, <1>2, <1>3, <1>5, <2>3, <2>5, <2>6, <2>8
<1>. QED  BY <1>4, <1>5

\* A row is older by a tick at most.
LEMMA Older ==
    ASSUME RegistryInv, Tick, NEW i \in Ids
    PROVE  /\ row'[i] \in [status : {"none", "running", "stopped"}, age : 0..AgeCap]
           /\ row'[i].status = row[i].status
           /\ row'[i].age <= row[i].age + 1
<1>1. row[i] \in [status : {"none", "running", "stopped"}, age : 0..AgeCap]
  BY DEF RegistryInv, TypeOK
<1>2. PICK a \in 0..AgeCap : /\ a = IF row[i].status # "none" /\ row[i].age < AgeCap
                                    THEN row[i].age + 1 ELSE row[i].age
                             /\ a <= row[i].age + 1
  BY <1>1, Bounds
<1>3. row'[i] = [row[i] EXCEPT !.age = a]
  BY <1>2 DEF Tick
<1>. QED  BY <1>1, <1>2, <1>3

LEMMA TickTypes ==
    ASSUME RegistryInv, Tick
    PROVE  TypeOK'
<1>1. TypeOK /\ ~Urgent
  BY DEF RegistryInv, Tick
<1>2. row' \in [Ids -> [status : {"none", "running", "stopped"}, age : 0..AgeCap]]
  <2>1. row' = [i \in Ids |-> row'[i]]
    BY DEF Tick
  <2>. QED  BY <2>1, Older
<1>3. beat' \in [Procs -> BeatType]
  BY <1>1, AgedIs DEF Tick
<1>4. waited' \in [Procs -> 0..Max2(ConnectLimit, Delay)]
  <2>1. ASSUME NEW p \in Procs
        PROVE  (IF pc[p] = "connecting" THEN waited[p] + 1 ELSE 0) \in 0..Max2(ConnectLimit, Delay)
    <3>1. waited[p] \in Nat /\ waited[p] <= ConnectLimit
      BY Known DEF CallsOf
    <3>2. pc[p] = "connecting" => waited[p] # ConnectLimit
      BY <1>1 DEF Urgent
    <3>. QED  BY <3>1, <3>2, Bounds
  <2>. QED  BY <2>1 DEF Tick
<1>5. downs' \in 0..MaxDown
  BY <1>1, Bounds DEF Tick, TypeOK
<1>6. stop' \in [at : {"start", "subscribing", "waiting", "stopped", "already", "error", "unconfirmed", "interrupted"},
                 left : 0..StopTimeout]
  <2>1. PICK l \in 0..StopTimeout : l = IF stop.left > 0 /\ stop.at # "start" THEN stop.left - 1 ELSE stop.left
    BY <1>1, Bounds DEF TypeOK
  <2>2. stop' = [stop EXCEPT !.left = l]
    BY <2>1 DEF Tick
  <2>. QED  BY <1>1, <2>2 DEF TypeOK
<1>. QED  BY <1>1, <1>2, <1>3, <1>4, <1>5, <1>6 DEF Tick, TypeOK, BeatType

\* Time brings a beat nearer by as much as it makes the row older.
LEMMA TickBeats ==
    ASSUME RegistryInv, Tick, Punctual, NEW p \in Procs, OnTime(p), beat[p].at # "off"
    PROVE  OnTime(p)'
<1>. PICK b, a, b1, a1 : b = beat[p] /\ a = row[Id[p]].age /\ b1 = Aged(p) /\ a1 = row'[Id[p]].age
  OBVIOUS
<1>1. ~Urgent /\ beat'[p] = b1 /\ row'[Id[p]].age = a1
  BY DEF Tick
<1>2. /\ b1 \in BeatType /\ b \in BeatType /\ b1.at = b.at /\ b.left > 0 /\ b1.left > 0
      /\ b.left > 1 => b1.left = b.left - 1 /\ (b1.ticked <=> b.ticked)
      /\ b.left = 1 => b1.left = Interval /\ b1.ticked
      /\ b.at = "wait" => ~b.ticked
      /\ b.at = "call" => b1.took = b.took + 1 /\ (up => b.took < Delay)
  BY <1>1, AgedIs, BeatTyped, Known DEF CallsOf
<1>3. a \in Nat /\ a1 \in Nat /\ a1 <= a + 1
  BY Known, Older, Bounds
<1>4. /\ downs \in Nat /\ downs' \in Nat /\ downs' <= MaxDown /\ downs <= downs'
      /\ up' = up /\ (~up => downs' = downs + 1) /\ (up => downs' = downs)
  BY Known, TickTypes, Bounds DEF Tick, TypeOK
<1>5. b.left \in 1..Interval /\ b.took \in Nat /\ b1.took \in Nat /\ b.at \in {"wait", "call"} /\ b.ticked \in BOOLEAN
  BY <1>2, Bounds DEF BeatType
<1>6. /\ b.ticked => b.at = "wait" /\ b.left = Interval
      /\ b.at = "call" => b.left + b.took = Interval
  BY DEF OnTime
<1>7. Delay + MaxDown < Interval
  BY DEF Punctual
<1>8. CASE b.at = "call"
  <2>0. ~b.ticked
    BY <1>6, <1>8
  <2>1. CASE a <= ConnectLimit + Interval + b.took /\ b.took <= Delay + downs
    <3>1. b1.took <= Delay + downs' /\ b1.took < Interval
      BY <1>2, <1>4, <1>5, <1>7, <1>8, <2>1, Bounds
    <3>2. b.left > 1
      BY <1>2, <1>5, <1>6, <1>8, <3>1, Bounds
    <3>3. b1.left + b1.took = Interval /\ ~b1.ticked /\ b1.at = "call"
      BY <1>2, <1>5, <1>6, <1>8, <2>0, <3>2, Bounds
    <3>4. a1 <= ConnectLimit + Interval + b1.took
      BY <1>2, <1>3, <1>5, <1>8, <2>1, Bounds
    <3>. QED  BY <1>1, <3>1, <3>3, <3>4 DEF OnTime, DueBy
  <2>2. CASE a <= ConnectLimit + 2 * Interval + b.took /\ b.took <= Delay /\ up /\ downs = MaxDown
    <3>1. b1.took <= Delay /\ b1.took < Interval
      BY <1>2, <1>5, <1>7, <1>8, <2>2, Bounds
    <3>2. b.left > 1
      BY <1>2, <1>5, <1>6, <1>8, <3>1, Bounds
    <3>3. b1.left + b1.took = Interval /\ ~b1.ticked /\ b1.at = "call"
      BY <1>2, <1>5, <1>6, <1>8, <2>0, <3>2, Bounds
    <3>4. a1 <= ConnectLimit + 2 * Interval + b1.took
      BY <1>2, <1>3, <1>5, <1>8, <2>2, Bounds
    <3>. QED  BY <1>1, <1>4, <2>2, <3>1, <3>3, <3>4 DEF OnTime, DueBy
  <2>. QED  BY <1>8, <2>1, <2>2 DEF OnTime, DueBy
<1>9. CASE b.at = "wait"
  <2>0. ~b.ticked
    BY <1>2, <1>9
  <2>1. CASE a + b.left <= ConnectLimit + Interval
    <3>1. a1 + (IF b1.ticked THEN 0 ELSE b1.left) <= ConnectLimit + Interval
      BY <1>2, <1>3, <1>5, <1>9, <2>0, <2>1, Bounds
    <3>2. b1.ticked => b1.at = "wait" /\ b1.left = Interval
      BY <1>2, <1>5, <1>9, <2>0, Bounds
    <3>. QED  BY <1>1, <1>2, <1>9, <3>1, <3>2 DEF OnTime, DueBy
  <2>2. CASE a + b.left <= ConnectLimit + 2 * Interval /\ ~up /\ b.left + downs + Delay >= Interval
    <3>1. b.left > 1
      BY <1>4, <1>5, <1>7, <2>2, Bounds
    <3>2. ~b1.ticked /\ b1.left = b.left - 1 /\ b1.at = "wait"
      BY <1>2, <1>9, <2>0, <3>1
    <3>3. a1 + b1.left <= ConnectLimit + 2 * Interval /\ b1.left + downs' + Delay >= Interval
      BY <1>3, <1>4, <1>5, <2>2, <3>2, Bounds
    <3>. QED  BY <1>1, <1>4, <2>2, <3>2, <3>3 DEF OnTime, DueBy
  <2>3. CASE a + b.left <= ConnectLimit + 2 * Interval /\ up /\ downs = MaxDown
    <3>1. a1 + (IF b1.ticked THEN 0 ELSE b1.left) <= ConnectLimit + 2 * Interval
      BY <1>2, <1>3, <1>5, <1>9, <2>0, <2>3, Bounds
    <3>2. b1.ticked => b1.at = "wait" /\ b1.left = Interval
      BY <1>2, <1>5, <1>9, <2>0, Bounds
    <3>. QED  BY <1>1, <1>2, <1>4, <1>9, <2>3, <3>1, <3>2 DEF OnTime, DueBy
  <2>. QED  BY <1>9, <2>0, <2>1, <2>2, <2>3 DEF OnTime, DueBy
<1>. QED  BY <1>5, <1>8, <1>9

LEMMA TickKeeps ==
    ASSUME RegistryInv, Tick
    PROVE  RegistryInv'
<1>1. ASSUME NEW p \in Procs PROVE ProcInv(p)'
  <2>1. /\ row'[Id[p]].status = row[Id[p]].status /\ row'[Id[p]].age <= row[Id[p]].age + 1
        /\ row'[Id[p]].age \in Nat /\ row[Id[p]].age \in Nat
    BY Known, Older, Bounds
  <2>2. /\ beat'[p] = Aged(p) /\ waited'[p] = IF pc[p] = "connecting" THEN waited[p] + 1 ELSE 0
        /\ UNCHANGED <<pc, cancelled, listening, Id>> /\ ~Urgent
    BY DEF Tick
  <2>3. RowOf(p)'
    BY <2>1, <2>2, Known DEF RowOf
  <2>4. CallsOf(p)'
    <3>1. pc[p] = "connecting" => waited[p] # ConnectLimit
      BY <2>2 DEF Urgent
    <3>2. waited'[p] <= ConnectLimit
      BY <2>2, <3>1, Known, Bounds DEF CallsOf
    <3>3. /\ Aged(p).at = beat[p].at
          /\ beat[p].at # "off" => Aged(p).left > 0
          /\ beat[p].at = "call" => Aged(p).tries < MaxTries
      BY <2>2, AgedIs
    <3>. QED  BY <2>2, <3>2, <3>3, Known DEF CallsOf
  <2>5. ASSUME Punctual PROVE BeatOf(p)'
    <3>1. ~cancelled[p] /\ pc[p] = "connecting" => row'[Id[p]].age <= waited'[p]
      BY <2>1, <2>2, <2>5, Known DEF BeatOf
    <3>2. ~cancelled[p] /\ beat[p].at # "off" => OnTime(p)'
      BY <2>5, Known, TickBeats DEF BeatOf
    <3>3. Aged(p).at = beat[p].at
      BY <2>2, AgedIs
    <3>. QED  BY <2>2, <3>1, <3>2, <3>3 DEF BeatOf
  <2>. QED  BY <2>3, <2>4, <2>5 DEF ProcInv, Punctual
<1>2. OutageInv'
  BY PartsHold, Bounds DEF Tick, OutageInv, TypeOK
<1>3. StopInv'
  <2>1. Target \in Ids /\ stop'.at = stop.at
    BY PartsHold DEF Ids, Tick, TypeOK
  <2>. QED  BY <2>1, PartsHold, Older DEF StopInv
<1>4. PartsInv'
  BY <1>1, <1>2, <1>3, TickTypes DEF PartsInv
<1>. QED  BY <1>4, Parts, PTL

\* The one outage begins and ends.
LEMMA OutageKeeps ==
    ASSUME RegistryInv, Fail \/ Recover
    PROVE  RegistryInv'
<1>1. /\ UNCHANGED <<row, task, pc, waited, cancelled, beat, lost, stop>>
      /\ \A p \in Procs : listening'[p] => listening[p]
      /\ \/ up /\ ~up' /\ downs' = downs /\ downs < MaxDown
         \/ ~up /\ up' /\ downs' = MaxDown
  BY PartsHold DEF Fail, Recover, TypeOK
<1>2. TypeOK'
  <2>1. TypeOK
    BY PartsHold
  <2>2. up' \in BOOLEAN
    BY <1>1, Zenon DEF Fail, Recover
  <2>3. downs' \in 0..MaxDown
    BY <1>1, <2>1, Bounds DEF TypeOK
  <2>4. listening' \in [Procs -> BOOLEAN]
    BY <2>1 DEF Fail, Recover, TypeOK
  <2>. QED  BY <1>1, <2>1, <2>2, <2>3, <2>4 DEF TypeOK
<1>3. downs \in Nat /\ downs' \in Nat /\ downs <= MaxDown /\ (up => downs \in {0, MaxDown})
  BY <1>1, PartsHold, Bounds DEF TypeOK, OutageInv
<1>4. ASSUME NEW p \in Procs PROVE ProcInv(p)'
  <2>1. RowOf(p)' /\ CallsOf(p)'
    BY <1>1, <1>2, Known DEF RowOf, CallsOf, TypeOK
  <2>2. ASSUME Punctual PROVE BeatOf(p)'
    <3>1. ASSUME OnTime(p) PROVE OnTime(p)'
      <4>1. CASE DueBy(p, ConnectLimit + Interval) /\ (beat[p].at = "call" => beat[p].took <= Delay + downs)
        <5>1. beat[p].at = "call" => beat[p].took <= Delay + downs'
          BY <1>1, <1>3, <4>1, Known, Bounds
        <5>2. DueBy(p, ConnectLimit + Interval)'
          BY <1>1, <4>1 DEF DueBy
        <5>. QED  BY <1>1, <3>1, <5>1, <5>2 DEF OnTime
      <4>2. CASE /\ DueBy(p, ConnectLimit + 2 * Interval)
                 /\ ~up /\ beat[p].at = "wait" /\ ~beat[p].ticked
        <5>1. DueBy(p, ConnectLimit + 2 * Interval)'
          BY <1>1, <4>2 DEF DueBy
        <5>. QED  BY <1>1, <3>1, <4>2, <5>1 DEF OnTime
      <4>3. CASE up /\ downs = MaxDown
        BY <1>1, <1>3, <4>3, Bounds
      <4>. QED  BY <3>1, <4>1, <4>2, <4>3 DEF OnTime
    <3>. QED  BY <1>1, <2>2, <3>1, Known DEF BeatOf
  <2>. QED  BY <2>1, <2>2 DEF ProcInv, Punctual
<1>5. OutageInv' /\ StopInv'
  BY <1>1, PartsHold DEF OutageInv, StopInv
<1>6. PartsInv'
  BY <1>2, <1>4, <1>5 DEF PartsInv
<1>. QED  BY <1>6, Parts, PTL

LEMMA StutterKeeps ==
    ASSUME RegistryInv, UNCHANGED vars
    PROVE  RegistryInv'
<1>1. TypeOK'
  BY PartsHold DEF vars, TypeOK
<1>2. ASSUME NEW p \in Procs PROVE ProcInv(p)'
  BY PartsHold DEF vars, ProcInv, RowOf, CallsOf, BeatOf, OnTime, DueBy, Punctual
<1>3. OutageInv' /\ StopInv'
  BY PartsHold DEF vars, OutageInv, StopInv
<1>4. PartsInv'
  BY <1>1, <1>2, <1>3 DEF PartsInv
<1>. QED  BY <1>4, Parts, PTL

LEMMA InitRight ==
    ASSUME Init
    PROVE  RegistryInv
<1>1. NoBeat \in BeatType /\ NoBeat.at = "off"
  BY Bounds DEF NoBeat, BeatType
<1>2. TypeOK
  BY <1>1, Bounds DEF Init, TypeOK, BeatType
<1>3. ASSUME NEW p \in Procs PROVE ProcInv(p)
  <2>1. Id[p] \in Ids
    BY DEF Ids
  <2>2. /\ row[Id[p]].status = "none" /\ pc[p] = "new" /\ waited[p] = 0 /\ beat[p].at = "off"
        /\ ~listening[p]
    BY <1>1, <2>1 DEF Init
  <2>. QED  BY <2>2, Bounds DEF ProcInv, RowOf, CallsOf, BeatOf, Running
<1>4. OutageInv /\ StopInv
  BY DEF Init, OutageInv, StopInv
<1>. QED  BY <1>2, <1>3, <1>4, Parts DEF PartsInv
-----------------------------------------------------------------------------
(* The theorems.                                                           *)

\* When every process has an ID of its own, a row that says stopped, and the word of `worker
\* stop`, mean that no payload, no heartbeat and no session of the worker is left, through
\* crashes, outages and lost sessions (Worker.Run, UnregisterWorker, stopWorker).
THEOREM StoppedMeansStopped ==
    ASSUME DistinctIds
    PROVE  Spec => []RegistryInv
<1>1. ASSUME RegistryInv, Next
      PROVE  RegistryInv'
  <2>1. CASE \E p \in Procs : Run(p) \/ Cancel(p)
    BY <1>1, <2>1, RegisterKeeps, ConnectKeeps, RunOnKeeps, UnregisterKeeps DEF Run, RunOn
  <2>2. CASE \E p \in Procs : Crash(p) \/ LoseSession(p) \/ Reconnect(p)
    BY <1>1, <2>2, CrashKeeps, SessionKeeps
  <2>3. CASE \E p \in Procs : Heartbeat(p)
    BY <1>1, <2>3, HeartbeatTickKeeps, UpdateHeartbeatKeeps, HeartbeatFailsKeeps, HeartbeatEndsKeeps
       DEF Heartbeat
  <2>4. CASE StopWorker \/ Tick \/ Fail \/ Recover
    BY <1>1, <2>4, StopKeeps, TickKeeps, OutageKeeps
  <2>. QED  BY <1>1, <2>1, <2>2, <2>3, <2>4 DEF Next
<1>. QED  BY <1>1, InitRight, StutterKeeps, PTL DEF Spec

\* When answers and the outage together are shorter than the interval, and the threshold has
\* room for the first connection, one missed beat and the answer to the next, a task is
\* never called stale while its worker runs it (runHeartbeat, staleStatusExpr).
THEOREM LiveWorkersAreFresh ==
    ASSUME DistinctIds, Punctual,
           ConnectLimit + 2 * Interval + Delay <= StaleInterval
    PROVE  Spec => []LiveNotStale
<1>1. ASSUME RegistryInv
      PROVE  LiveNotStale
  <2>. SUFFICES ASSUME NEW p \in Procs, pc[p] = "working", ~cancelled[p]
                PROVE  ~TaskStale(p)
    BY DEF LiveNotStale
  <2>1. beat[p].at # "off" /\ OnTime(p) /\ beat[p].left > 0
    BY <1>1, Known DEF CallsOf, BeatOf
  <2>2. /\ row[Id[p]].age \in Nat /\ beat[p].left \in Nat /\ beat[p].took \in Nat
        /\ beat[p].at \in {"off", "wait", "call"} /\ beat[p].ticked \in BOOLEAN
    BY <1>1, Known, Bounds
  <2>3. downs \in Nat /\ downs <= MaxDown
    BY <1>1, Known, Bounds DEF TypeOK
  <2>4. row[Id[p]].age <= ConnectLimit + 2 * Interval + Delay
    <3>1. CASE beat[p].at = "call"
      BY <2>1, <2>2, <2>3, <3>1, Bounds DEF OnTime, DueBy, Punctual
    <3>2. CASE beat[p].at = "wait"
      <4>1. row[Id[p]].age <= ConnectLimit + Interval \/ row[Id[p]].age <= ConnectLimit + 2 * Interval
        BY <2>1, <2>2, <3>2, Bounds DEF OnTime, DueBy
      <4>. QED  BY <2>2, <4>1, Bounds
    <3>. QED  BY <2>1, <2>2, <3>1, <3>2
  <2>. QED  BY <2>2, <2>4, Bounds DEF TaskStale
<1>. QED  BY <1>1, StoppedMeansStopped, PTL
=============================================================================
