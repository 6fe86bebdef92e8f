----------------------- MODULE WorkerLifecycle_proofs -----------------------
(***************************************************************************)
(* Proofs about WorkerLifecycle for any number of tasks, workers and       *)
(* directories: types and who holds which claim, what is journaled and     *)
(* stored, whose task directories exist, the inductive invariant IInv and  *)
(* the properties that follow from it, and that WorkerLifecycle implements *)
(* TaskQueue.                                                              *)
(***************************************************************************)
EXTENDS WorkerLifecycle, TLAPS

-----------------------------------------------------------------------------
(* The operators of TaskStore.                                             *)

\* Every statement on a row returns a row, so the table keeps its type.
LEMMA RowTypes ==
    ASSUME NEW row \in Row
    PROVE  /\ NoRow \in Row
           /\ \A n \in Nat : Inserted(n) \in Row
           /\ CancelApplied(row) \in Row
           /\ \A c \in Claim : Claimed(row, c) \in Row
           /\ \A c \in Completion : Completed(row, c) \in Row
<1>1. NoRow \in Row
  BY DEF NoRow, Row, Status
<1>2. \A n \in Nat : Inserted(n) \in Row
  BY DEF Inserted, NoRow, Row, Status
<1>3. CancelApplied(row) \in Row
  BY DEF CancelApplied, Row, Status, Terminal
<1>4. \A c \in Claim : Claimed(row, c) \in Row
  BY DEF Claimed, Claim, Row, Status
<1>5. \A c \in Completion : Completed(row, c) \in Row
  BY DEF Completed, Completion, Row, Status
<1>. QED  BY <1>1, <1>2, <1>3, <1>4, <1>5

\* The timestamps and the worker of a row identify one claim of its task.
LEMMA ClaimIdentity ==
    ASSUME NEW row, NEW c \in Claim, NEW e \in Claim, c.task = e.task,
           IsClaim(row, c), IsClaim(row, e)
    PROVE  c = e
<1>1. \A x \in Claim : x = [task |-> x.task, worker |-> x.worker,
                            createdAt |-> x.createdAt, startedAt |-> x.startedAt]
  BY DEF Claim
<1>2. c.worker = e.worker /\ c.createdAt = e.createdAt /\ c.startedAt = e.startedAt
  BY DEF IsClaim
<1>. QED  BY <1>1, <1>2, Zenon
-----------------------------------------------------------------------------
(* Type correctness.                                                       *)

LEMMA InitTypeOK == Init => TypeOK
BY DEF Init, TypeOK, PC, Between, Finishing, Replaying, Row, NoRow, Status

\* A statement of a client keeps the types.
LEMMA ClientTypeOK == TypeOK /\ ClientStep => TypeOK'
<1>. SUFFICES ASSUME TypeOK, NEW t \in Tasks,
                     Enqueue(t) \/ RequestCancel(t) \/ DeleteTask(t)
              PROVE  TypeOK'
  BY DEF ClientStep
<1>1. /\ rows' \in [Tasks -> Row]
      /\ clock' \in Nat
  <2>1. CASE Enqueue(t)
    <3>1. Inserted(clock + 1) \in Row
      <4>1. clock + 1 \in Nat
        BY DEF TypeOK
      <4>. QED  BY <4>1 DEF Inserted, NoRow, Row, Status
    <3>. QED  BY <2>1, <3>1 DEF Enqueue, TypeOK
  <2>2. CASE RequestCancel(t)
    <3>1. CancelApplied(rows[t]) \in Row
      <4>1. /\ rows[t] \in Row
            /\ "cancelled" \in Status
        BY DEF TypeOK, Status, Terminal
      <4>2. /\ [rows[t] EXCEPT !.status = "cancelled"] \in Row
            /\ [rows[t] EXCEPT !.cancel = TRUE] \in Row
        BY <4>1 DEF Row
      <4>. QED  BY <4>1, <4>2 DEF CancelApplied
    <3>. QED  BY <2>2, <3>1 DEF RequestCancel, TypeOK
  <2>3. CASE DeleteTask(t)
    BY <2>3 DEF DeleteTask, TypeOK, NoRow, Row, Status
  <2>. QED  BY <2>1, <2>2, <2>3
<1>2. UNCHANGED <<local, files, history>>
  BY DEF Enqueue, RequestCancel, DeleteTask
<1>. QED  BY <1>1, <1>2 DEF TypeOK, local, files, history

\* The worker ends.
LEMMA LeaveTypeOK == ASSUME TypeOK, NEW w \in Workers, Leave(w) PROVE TypeOK'
BY DEF TypeOK, Leave, Goto, PC, Between, Executing, Finishing, Replaying, store, files, history

\* The steps of recovery and of the claim loop keep the types.
LEMMA LoopTypeOK ==
    ASSUME TypeOK, NEW w \in Workers,
           \/ Start(w) \/ StopSignal(w) \/ Exit(w) \/ Crash(w) \/ Wake(w)
           \/ IdleTimeout(w) \/ RecoverStep(w) \/ ClaimStep(w)
    PROVE  TypeOK'
<1>1. CASE Start(w)
  <2>1. journal[WorkdirOf[w]] \in SUBSET Completion
    BY ConfigAssumption DEF TypeOK
  <2>. QED
    BY <1>1, <2>1 DEF Start, TypeOK, Goto, PC, Between, Finishing, Replaying, store, files, history
<1>8. CASE StopSignal(w)
  BY <1>8 DEF StopSignal, TypeOK, store, files, history
<1>9. CASE Wake(w)
  BY <1>9 DEF Wake, TypeOK, Goto, PC, Between, Finishing, Replaying, store, files, history
<1>10. CASE RecoverGone(w)
  <2>1. todo' \in [Workers -> SUBSET Completion]
    BY <1>10 DEF RecoverGone, TypeOK
  <2>. QED  BY <1>10, <2>1 DEF RecoverGone, TypeOK, store, files, history
<1>11. CASE RecoverDone(w)
  BY <1>11 DEF RecoverDone, TypeOK, Goto, PC, Between, Finishing, Replaying, store, files, history
<1>2. CASE Exit(w) \/ Crash(w) \/ IdleTimeout(w)
  BY <1>2, LeaveTypeOK DEF Exit, Crash, IdleTimeout
<1>3. CASE RecoverRead(w)
  BY <1>3, ConfigAssumption
     DEF RecoverRead, TypeOK, Goto, PC, Between, Executing, Finishing, Replaying, Completion, store, files, history
<1>4. CASE ClaimLock(w)
  <2>1. PICK t \in Tasks : job' = [job EXCEPT ![w] =
            [task |-> t, worker |-> w, createdAt |-> rows[t].createdAt,
             startedAt |-> clock + 1]]
    BY <1>4, ConfigAssumption DEF ClaimLock, Claimable
  <2>2. [task |-> t, worker |-> w, createdAt |-> rows[t].createdAt,
         startedAt |-> clock + 1] \in Claim
    BY DEF TypeOK, Row, Claim
  <2>. QED
    BY <1>4, <2>1, <2>2 DEF ClaimLock, TypeOK, Goto, PC, Between, Executing, Finishing, Replaying, files, history
<1>5. CASE ClaimCommit(w) \/ ClaimReplyLost(w)
  <2>1. job[w] \in Claim
    BY <1>5 DEF TypeOK, Between, ClaimCommit, ClaimReplyLost, ClaimWritten
  <2>2. Claimed(rows[job[w].task], job[w]) \in Row
    BY <2>1, RowTypes DEF TypeOK, Claim
  <2>. QED
    BY <1>5, <2>1, <2>2
       DEF ClaimCommit, ClaimReplyLost, ClaimWritten, TypeOK, Goto, PC, Between, Executing, Finishing, Replaying, files
<1>6. CASE ClaimAborted(w)
  BY <1>6 DEF ClaimAborted, TypeOK, Goto, PC, Between, Executing, Finishing, Replaying, store, files, history
<1>7. CASE ClaimNone(w)
  BY <1>7, LeaveTypeOK DEF ClaimNone, TypeOK, Goto, PC, Between, Executing, Finishing, Replaying, store, files, history
<1>. QED
  BY <1>1, <1>2, <1>3, <1>4, <1>5, <1>6, <1>7, <1>8, <1>9, <1>10, <1>11
     DEF RecoverStep, ClaimStep

\* So do the steps of processTask.
LEMMA ProcessTypeOK ==
    ASSUME TypeOK, NEW w \in Workers, ProcessStep(w) \/ CancelSeen(w)
    PROVE  TypeOK'
<1>1. CASE Subscribe(w) \/ SubscribeOrCheckFails(w) \/ CheckCancel(w) \/ CancelSeen(w)
  BY <1>1 DEF Subscribe, SubscribeOrCheckFails, CheckCancel, CancelSeen, TypeOK, Goto,
              PC, Between, Executing, Finishing, Replaying, Terminal, store, files, history
<1>2. CASE SetupRuns(w)
  <2>1. job[w] \in Claim /\ job[w].task \in Tasks /\ Dir(w) \in Dirs
    BY <1>2, ConfigAssumption DEF SetupRuns, TypeOK, Between, Claim, Dir
  <2>. QED
    BY <1>2, <2>1 DEF SetupRuns, TypeOK, Goto, PC, Between, Executing, Finishing,
                      Replaying, store
<1>3. ASSUME NEW created \in BOOLEAN, SetupFails(w, created) PROVE TypeOK'
  <2>1. job[w] \in Claim /\ job[w].task \in Tasks /\ Dir(w) \in Dirs
    BY <1>3, ConfigAssumption DEF SetupFails, TypeOK, Between, Claim, Dir
  <2>2. Final(w, "failed") \in Terminal
    BY DEF Final, Terminal
  <2>. QED
    BY <1>3, <2>1, <2>2 DEF SetupFails, TypeOK, Goto, PC, Between, Executing, Finishing,
                            Replaying, store, history
<1>4. ASSUME NEW o \in {"completed", "failed"}, ExecEnds(w, o) PROVE TypeOK'
  <2>1. Final(w, o) \in Terminal
    BY DEF Final, Terminal
  <2>. QED
    BY <1>4, <2>1 DEF ExecEnds, TypeOK, Goto, PC, Between, Executing, Finishing,
                      Replaying, store, history
<1>. QED  BY <1>1, <1>2, <1>3, <1>4 DEF ProcessStep

\* What a worker finishes with is an outcome of a claim, and so is what the
\* journal publishes for it.
LEMMA InHandType ==
    ASSUME TypeOK, NEW w \in Workers,
           pc[w] \in {"journal"} \cup Finishing \cup Replaying
    PROVE  /\ job[w] \in Claim /\ job[w].task \in Tasks /\ result[w] \in Terminal
           /\ InHand(w) \in Completion
           /\ Dir(w) \in Dirs
           /\ Published(Dir(w), InHand(w)) \in Completion
           /\ Published(Dir(w), InHand(w)).claim = job[w]
<1>1. job[w] \in Claim /\ job[w].task \in Tasks /\ result[w] \in Terminal
  BY DEF TypeOK, Between, Finishing, Replaying, Claim
<1>2. InHand(w) \in Completion
  BY <1>1 DEF InHand, Completion
<1>3. Dir(w) \in Dirs
  BY ConfigAssumption DEF Dir
<1>4. journal[Dir(w)] \subseteq Completion
  BY <1>3 DEF TypeOK
<1>5. InHand(w).claim = job[w]
  BY DEF InHand
<1>6. /\ Published(Dir(w), InHand(w)) \in Completion
      /\ Published(Dir(w), InHand(w)).claim = InHand(w).claim
  <2>1. CASE \E p \in journal[Dir(w)] : p.claim = InHand(w).claim
    BY <1>4, <2>1, Zenon DEF Published
  <2>2. CASE ~\E p \in journal[Dir(w)] : p.claim = InHand(w).claim
    BY <1>2, <2>2 DEF Published
  <2>. QED  BY <2>1, <2>2
<1>. QED  BY <1>1, <1>2, <1>3, <1>5, <1>6

\* And the steps of finishTask, live or replayed.
LEMMA FinishTypeOK ==
    ASSUME TypeOK, NEW w \in Workers, FinishStep(w) \/ SaveReplyLost(w)
    PROVE  TypeOK'
<1>. DEFINE hand == InHand(w)
            kept == Published(Dir(w), InHand(w))
<1>0. pc[w] \in {"journal"} \cup Finishing \cup Replaying
  BY DEF FinishStep, SaveReplyLost, JournalSave, Cleanup, SaveResult, SaveGivesUp,
         Acknowledge, Saving, Finishing, Replaying
<1>1. /\ job[w] \in Claim /\ job[w].task \in Tasks /\ result[w] \in Terminal
      /\ hand \in Completion /\ Dir(w) \in Dirs /\ kept \in Completion
  BY <1>0, InHandType
<1>. HIDE DEF hand, kept
<1>2. CASE JournalSave(w)
  <2>1. kept.status \in Terminal
    BY <1>1 DEF Completion
  <2>2. /\ journal' = [journal EXCEPT ![Dir(w)] = @ \cup {kept}]
        /\ journaled' = journaled \cup {kept}
        /\ result' = [result EXCEPT ![w] = kept.status]
    BY <1>2 DEF JournalSave, kept
  <2>. QED
    BY <1>1, <1>2, <2>1, <2>2
       DEF JournalSave, TypeOK, Goto, PC, Between, Executing, Finishing, Replaying, store
<1>3. CASE Cleanup(w)
  BY <1>1, <1>3 DEF Cleanup, TypeOK, Goto, PC, Between, Executing, Finishing, Replaying,
                    store, history
<1>4. CASE SaveResult(w) \/ SaveReplyLost(w)
  <2>1. Completed(rows[job[w].task], hand) \in Row
    BY <1>1, RowTypes DEF TypeOK
  <2>2. rows' \in [Tasks -> Row]
    BY <1>4, <2>1 DEF SaveResult, SaveReplyLost, ResultWritten, TypeOK, hand
  <2>3. CASE SaveReplyLost(w)
    BY <2>2, <2>3 DEF SaveReplyLost, TypeOK, local, files, history
  <2>4. CASE SaveResult(w)
    <3>1. discarded' \in SUBSET Completion
      BY <1>1, <2>4 DEF SaveResult, TypeOK, hand
    <3>. QED
      BY <2>2, <2>4, <3>1 DEF SaveResult, Saving, TypeOK, Goto, PC, Between, Executing,
                              Finishing, Replaying, files
  <2>. QED  BY <1>4, <2>3, <2>4
<1>5. CASE SaveGivesUp(w)
  BY <1>5, LeaveTypeOK DEF SaveGivesUp
<1>6. CASE Acknowledge(w)
  BY <1>1, <1>6 DEF Acknowledge, TypeOK, Goto, PC, Between, Executing, Finishing,
                    Replaying, store, history
<1>. QED  BY <1>2, <1>3, <1>4, <1>5, <1>6 DEF FinishStep

\* Every variable keeps its type, a worker outside its loop holds a claim, and
\* one that has finished executing holds an outcome (Worker.Run).
THEOREM TypeCorrect == Spec => []TypeOK
<1>1. TypeOK /\ [Next]_vars => TypeOK'
  <2>. SUFFICES ASSUME TypeOK, [Next]_vars PROVE TypeOK'
    OBVIOUS
  <2>1. CASE ClientStep
    BY <2>1, ClientTypeOK
  <2>2. ASSUME NEW w \in Workers, WorkerStep(w) PROVE TypeOK'
    BY <2>2, LoopTypeOK, ProcessTypeOK, FinishTypeOK DEF WorkerStep, Progress
  <2>3. ASSUME NEW c \in payloads, OrphanEnds(c) PROVE TypeOK'
    BY <2>3 DEF OrphanEnds, TypeOK, store, local, history
  <2>4. CASE UNCHANGED vars
    BY <2>4 DEF vars, TypeOK
  <2>. QED  BY <2>1, <2>2, <2>3, <2>4 DEF Next
<1>. QED  BY InitTypeOK, <1>1, PTL DEF Spec
-----------------------------------------------------------------------------
(* Who holds which claim.                                                  *)

\* What the statements of clients and of finishTask leave alone in a row.
LEMMA CancelFacts ==
    ASSUME NEW row \in Row
    PROVE  /\ CancelApplied(row).createdAt = row.createdAt
           /\ CancelApplied(row).worker = row.worker
           /\ CancelApplied(row).status =
                  IF row.status = "pending" /\ ~row.cancel THEN "cancelled" ELSE row.status
           /\ \A c \in Claim : IsClaim(CancelApplied(row), c) <=> IsClaim(row, c)
<1>1. /\ row.status \in Status /\ row.cancel \in BOOLEAN
  BY DEF Row
<1>2. /\ CancelApplied(row).createdAt = row.createdAt
      /\ CancelApplied(row).worker = row.worker
      /\ CancelApplied(row).startedAt = row.startedAt
      /\ CancelApplied(row).status =
             IF row.status = "pending" /\ ~row.cancel THEN "cancelled" ELSE row.status
  BY DEF CancelApplied, Row, Status, Terminal
<1>. QED  BY <1>1, <1>2 DEF IsClaim, Status, Terminal

LEMMA CompletedFacts ==
    ASSUME NEW row \in Row, NEW d \in Completion
    PROVE  /\ Completed(row, d).createdAt = row.createdAt
           /\ Completed(row, d).worker = row.worker
           /\ Completed(row, d).status =
                  IF IsClaim(row, d.claim) /\ row.status = "running"
                  THEN d.status ELSE row.status
           /\ \A c \in Claim : IsClaim(Completed(row, d), c) <=> IsClaim(row, c)
<1>1. row.status \in Status /\ d.status \in Terminal
  BY DEF Row, Completion
<1>2. /\ Completed(row, d).createdAt = row.createdAt
      /\ Completed(row, d).worker = row.worker
      /\ Completed(row, d).startedAt = row.startedAt
      /\ Completed(row, d).status =
             IF IsClaim(row, d.claim) /\ row.status = "running" THEN d.status ELSE row.status
  BY DEF Completed, Row
<1>. QED  BY <1>1, <1>2 DEF IsClaim, Status, Terminal

LEMMA ClaimedFacts ==
    ASSUME NEW row \in Row, NEW c, c.createdAt = row.createdAt
    PROVE  /\ Claimed(row, c).status = "running"
           /\ Claimed(row, c).createdAt = row.createdAt
           /\ IsClaim(Claimed(row, c), c)
BY DEF Claimed, Row, IsClaim

\* A claim that is being written is not one that was granted before.
LEMMA FreshClaim ==
    ASSUME TypeOK, ClaimInv, NEW w \in Workers, pc[w] = "locked"
    PROVE  /\ job[w] \in Claim /\ job[w].task \in Tasks
           /\ \A g \in granted : ~SameIncarnation(g, job[w])
<1>1. job[w] \in Claim /\ job[w].task \in Tasks
  BY DEF TypeOK, Between, Claim
<1>2. \A g \in granted : g \in Claim /\ g.worker \in Workers
  BY DEF TypeOK, Claim
<1>3. ASSUME NEW g \in granted, SameIncarnation(g, job[w]) PROVE FALSE
  <2>1. IsClaim(rows[g.task], g) /\ rows[g.task].worker = None
    BY <1>3, <1>1 DEF ClaimInv, GrantedOnce, LocksHeld, RowsClaimed, SameIncarnation
  <2>. QED  BY <2>1, <1>2, NoneAssumption DEF IsClaim
<1>. QED  BY <1>1, <1>3

LEMMA InitClaimInv == Init => ClaimInv
BY DEF Init, ClaimInv, RowsClaimed, LocksHeld, ClaimsHeld, GrantedOnce, StartedOnce,
       RecordsGranted, NoRow, Executing, Finishing, Replaying

\* The statements of clients respect the claims and the locks.
LEMMA ClientClaimInv == TypeOK /\ ClaimInv /\ ClientStep => ClaimInv'
<1>. SUFFICES ASSUME TypeOK, ClaimInv, NEW t \in Tasks,
                     Enqueue(t) \/ RequestCancel(t) \/ DeleteTask(t)
              PROVE  ClaimInv'
  BY DEF ClientStep
<1>1. /\ UNCHANGED <<pc, job, todo, journal, payloads, granted, executions>>
      /\ \A u \in Tasks : u # t => rows'[u] = rows[u]
      /\ clock \in Nat /\ clock' \in Nat /\ clock <= clock'
      /\ rows[t] \in Row /\ \A u \in Tasks : rows[u].createdAt \in Nat
      /\ \A w \in Workers : pc[w] = "locked" => job[w].task # t
  BY DEF Row, Enqueue, RequestCancel, DeleteTask, TypeOK, local, files, history, Locked,
         ClaimInv, LocksHeld
<1>2. \A g \in granted : g \in Claim /\ g.task \in Tasks /\ g.createdAt \in Nat
  BY DEF TypeOK, Claim
<1>3. \A g \in granted : rows'[t].createdAt = g.createdAt /\ g.task = t => IsClaim(rows'[t], g)
  <2>1. CASE Enqueue(t)
    BY <2>1, <1>2 DEF Enqueue, Inserted, NoRow, TypeOK, ClaimInv, GrantedOnce, Claim
  <2>2. CASE RequestCancel(t)
    <3>1. rows'[t] = CancelApplied(rows[t])
      BY <2>2 DEF RequestCancel, TypeOK
    <3>. QED  BY <3>1, <1>1, <1>2, CancelFacts DEF ClaimInv, GrantedOnce
  <2>3. CASE DeleteTask(t)
    BY <2>3, <1>2 DEF DeleteTask, NoRow, TypeOK, ClaimInv, GrantedOnce, Claim
  <2>. QED  BY <2>1, <2>2, <2>3
<1>4. RowsClaimed'
  <2>1. CASE Enqueue(t)
    BY <2>1, <1>1 DEF Enqueue, Inserted, NoRow, TypeOK, ClaimInv, RowsClaimed
  <2>2. CASE RequestCancel(t)
    <3>1. rows'[t] = CancelApplied(rows[t]) /\ clock' = clock
      BY <2>2 DEF RequestCancel, TypeOK
    <3>. QED
      BY <2>2, <3>1, <1>1, <1>2, CancelFacts DEF RequestCancel, TypeOK, ClaimInv, RowsClaimed
  <2>3. CASE DeleteTask(t)
    BY <2>3, <1>1 DEF DeleteTask, NoRow, TypeOK, ClaimInv, RowsClaimed
  <2>. QED  BY <2>1, <2>2, <2>3
<1>5. LocksHeld'
  <2>1. \A w \in Workers : pc[w] = "locked" => job[w].task \in Tasks
    BY DEF TypeOK, Between, Claim
  <2>. QED  BY <1>1, <2>1 DEF ClaimInv, LocksHeld
<1>7. ClaimsHeld' /\ StartedOnce' /\ RecordsGranted'
  BY <1>1 DEF ClaimInv, ClaimsHeld, StartedOnce, RecordsGranted
<1>6. GrantedOnce'
  BY <1>1, <1>2, <1>3 DEF ClaimInv, GrantedOnce
<1>. QED  BY <1>4, <1>5, <1>6, <1>7 DEF ClaimInv

\* Steps that neither write the table nor start a payload.
LEMMA QuietClaimInv ==
    ASSUME TypeOK, ClaimInv, NEW w \in Workers,
           \/ Leave(w) \/ Start(w) \/ StopSignal(w) \/ Wake(w) \/ RecoverStep(w)
           \/ ClaimAborted(w) \/ Subscribe(w) \/ SubscribeOrCheckFails(w) \/ CheckCancel(w)
           \/ CancelSeen(w) \/ JournalSave(w) \/ Cleanup(w) \/ Acknowledge(w)
           \/ \E created \in BOOLEAN : SetupFails(w, created)
           \/ \E o \in {"completed", "failed"} : ExecEnds(w, o)
    PROVE  ClaimInv'
<1>1. /\ UNCHANGED <<rows, clock, granted, executions>>
      /\ \A v \in Workers : v # w => /\ pc'[v] = pc[v] /\ job'[v] = job[v]
                                     /\ todo'[v] = todo[v]
      /\ payloads' \subseteq payloads
  BY DEF Leave, Start, StopSignal, Wake, RecoverStep, RecoverGone, RecoverRead, RecoverDone,
         ClaimAborted, Subscribe, SubscribeOrCheckFails, CheckCancel, CancelSeen,
         JournalSave, Cleanup, Acknowledge, SetupFails, ExecEnds, Goto, TypeOK,
         store, files, history
<1>2. /\ pc'[w] = "locked" => pc[w] = "locked" /\ job'[w] = job[w]
      /\ pc'[w] \in {"subscribe", "check", "setup"} => 
             pc[w] \in {"subscribe", "check", "setup"} /\ job'[w] = job[w]
      /\ pc'[w] = "exec" => pc[w] = "exec" /\ job'[w] = job[w]
      /\ pc'[w] \in Executing \cup Finishing =>
             pc[w] \in Executing \cup Finishing /\ job'[w] = job[w]
      /\ pc'[w] \in Replaying => \/ pc[w] \in Replaying /\ job'[w] = job[w]
                                 \/ \E c \in todo[w] : job'[w] = c.claim
      /\ \A c \in todo'[w] : c \in todo[w] \/ c \in journal[WorkdirOf[w]]
  <2>1. CASE Leave(w) \/ Start(w) \/ StopSignal(w) \/ Wake(w) \/ ClaimAborted(w)
    BY <2>1 DEF Leave, Start, StopSignal, Wake, ClaimAborted, Goto, TypeOK, Executing,
                Finishing, Replaying
  <2>2. CASE RecoverStep(w)
    BY <2>2 DEF RecoverStep, RecoverGone, RecoverRead, RecoverDone, Goto, TypeOK,
                Executing, Finishing, Replaying
  <2>3. CASE Subscribe(w) \/ SubscribeOrCheckFails(w) \/ CheckCancel(w) \/ CancelSeen(w)
    BY <2>3 DEF Subscribe, SubscribeOrCheckFails, CheckCancel, CancelSeen, Goto, TypeOK,
                Executing, Finishing, Replaying
  <2>4. CASE \/ JournalSave(w) \/ Cleanup(w) \/ Acknowledge(w)
             \/ \E created \in BOOLEAN : SetupFails(w, created)
             \/ \E o \in {"completed", "failed"} : ExecEnds(w, o)
    BY <2>4 DEF JournalSave, Cleanup, Acknowledge, SetupFails, ExecEnds, Goto, TypeOK,
                Executing, Finishing, Replaying
  <2>. QED  BY <2>1, <2>2, <2>3, <2>4
<1>3. RowsClaimed' /\ GrantedOnce'
  BY <1>1 DEF ClaimInv, RowsClaimed, GrantedOnce
<1>4. LocksHeld' /\ ClaimsHeld'
  BY <1>1, <1>2 DEF ClaimInv, LocksHeld, ClaimsHeld, RecordsGranted
<1>5. StartedOnce'
  BY <1>1, <1>2 DEF ClaimInv, StartedOnce
<1>6. RecordsGranted'
  <2>1. \A d \in Dirs : \A c \in journal'[d] :
            c \in journal[d] \/ c.claim \in granted
    <3>1. CASE JournalSave(w)
      <4>1. Published(Dir(w), InHand(w)).claim \in granted
        BY <3>1, InHandType DEF JournalSave, ClaimInv, ClaimsHeld, Executing
      <4>. QED  BY <3>1, <4>1 DEF JournalSave, TypeOK
    <3>2. CASE Acknowledge(w)
      BY <3>2 DEF Acknowledge, TypeOK
    <3>3. CASE ~JournalSave(w) /\ ~Acknowledge(w)
      BY <3>3 DEF Leave, Start, StopSignal, Wake, RecoverStep, RecoverGone, RecoverRead,
                  RecoverDone, ClaimAborted, Subscribe, SubscribeOrCheckFails, CheckCancel,
                  CancelSeen, Cleanup, SetupFails, ExecEnds, files
    <3>. QED  BY <3>1, <3>2, <3>3
  <2>. QED  BY <1>1, <1>2, <2>1, ConfigAssumption DEF ClaimInv, RecordsGranted
<1>. QED  BY <1>3, <1>4, <1>5, <1>6 DEF ClaimInv

\* The steps of a claim.
LEMMA LockClaimInv ==
    ASSUME TypeOK, ClaimInv, NEW w \in Workers, ClaimLock(w)
    PROVE  ClaimInv'
<1>1. PICK t \in Claimable(w) : job' = [job EXCEPT ![w] =
          [task |-> t, worker |-> w, createdAt |-> rows[t].createdAt,
           startedAt |-> clock + 1]]
  BY DEF ClaimLock
<1>2. /\ t \in Tasks /\ rows[t].status = "pending" /\ ~Locked(t)
      /\ rows[t].createdAt \in Nat
  BY ConfigAssumption DEF Claimable, TypeOK, Row
<1>3. /\ UNCHANGED <<rows, todo, journal, payloads, granted, executions>>
      /\ clock \in Nat /\ clock' = clock + 1
      /\ pc[w] = "claim" /\ pc' = [pc EXCEPT ![w] = "locked"]
      /\ pc'[w] = "locked"
      /\ job'[w].task = t /\ job'[w].worker = w /\ job'[w].createdAt = rows[t].createdAt
      /\ \A v \in Workers : v # w => job'[v] = job[v] /\ pc'[v] = pc[v]
  BY <1>1 DEF ClaimLock, Goto, TypeOK, files, history
<1>4. RowsClaimed' /\ GrantedOnce'
  <2>1. /\ \A u \in Tasks : rows[u].createdAt \in Nat
        /\ \A g \in granted : g.createdAt \in Nat
    BY DEF TypeOK, Row, Claim
  <2>. QED  BY <1>3, <2>1 DEF ClaimInv, RowsClaimed, GrantedOnce
<1>5. LocksHeld'
  BY <1>2, <1>3 DEF ClaimInv, LocksHeld, Locked
<1>6. ClaimsHeld' /\ StartedOnce' /\ RecordsGranted'
  BY <1>3 DEF ClaimInv, ClaimsHeld, StartedOnce, RecordsGranted, Executing, Finishing, Replaying
<1>. QED  BY <1>4, <1>5, <1>6 DEF ClaimInv

LEMMA WrittenClaimInv ==
    ASSUME TypeOK, ClaimInv, NEW w \in Workers, ClaimCommit(w) \/ ClaimReplyLost(w)
    PROVE  ClaimInv'
<1>. DEFINE g0 == job[w]
            t0 == job[w].task
<1>1. /\ pc[w] = "locked" /\ rows' = [rows EXCEPT ![t0] = Claimed(@, g0)]
      /\ granted' = granted \cup {g0}
      /\ UNCHANGED <<clock, todo, journal, payloads, executions>>
      /\ \A v \in Workers : v # w => pc'[v] = pc[v] /\ job'[v] = job[v]
      /\ \/ pc'[w] = "subscribe" /\ job'[w] = g0
         \/ pc'[w] = "claim"
  BY DEF ClaimCommit, ClaimReplyLost, ClaimWritten, Goto, TypeOK, files
<1>2. /\ g0 \in Claim /\ t0 \in Tasks /\ g0.worker = w
      /\ \A g \in granted : ~SameIncarnation(g, g0)
  BY <1>1, FreshClaim DEF ClaimInv, LocksHeld
<1>3. /\ rows[t0] \in Row /\ rows[t0].status = "pending" /\ rows[t0].createdAt = g0.createdAt
      /\ clock \in Nat /\ g0.createdAt \in Nat
      /\ \A g \in granted : g \in Claim /\ g.task \in Tasks
      /\ \A v \in Workers : v # w /\ pc[v] = "locked" => job[v].task # t0
  BY <1>1, <1>2 DEF TypeOK, Claim, ClaimInv, LocksHeld
<1>4. /\ rows'[t0].status = "running" /\ rows'[t0].createdAt = g0.createdAt
      /\ IsClaim(rows'[t0], g0)
      /\ \A u \in Tasks : u # t0 => rows'[u] = rows[u]
  <2>1. /\ rows'[t0] = Claimed(rows[t0], g0)
        /\ \A u \in Tasks : u # t0 => rows'[u] = rows[u]
    BY <1>1, <1>2 DEF TypeOK
  <2>. QED  BY <1>3, <2>1, ClaimedFacts
<1>5. g0 \notin granted
  BY <1>2 DEF SameIncarnation
<1>. HIDE DEF g0, t0
<1>6. t0 = g0.task
  BY DEF g0, t0
<1>7. RowsClaimed'
  BY <1>1, <1>2, <1>3, <1>4, <1>6 DEF ClaimInv, RowsClaimed
<1>8. LocksHeld'
  <2>1. \A v \in Workers : pc[v] = "locked" => job[v].task \in Tasks
    BY DEF TypeOK, Between, Claim
  <2>. QED  BY <1>1, <1>3, <1>4, <2>1 DEF ClaimInv, LocksHeld
<1>9. ClaimsHeld' /\ RecordsGranted'
  BY <1>1, <1>2 DEF ClaimInv, ClaimsHeld, RecordsGranted, Executing, Finishing, Replaying
<1>10. GrantedOnce'
  <2>1. g0.createdAt > 0 /\ g0.createdAt <= clock
    BY <1>2, <1>3 DEF ClaimInv, RowsClaimed, TypeOK
  <2>. QED
    BY <1>1, <1>2, <1>3, <1>4, <1>6, <2>1 DEF ClaimInv, GrantedOnce, SameIncarnation
<1>11. StartedOnce'
  BY <1>1, <1>5 DEF ClaimInv, StartedOnce
<1>. QED  BY <1>7, <1>8, <1>9, <1>10, <1>11 DEF ClaimInv

\* Starting a payload: no other worker holds the same claim.
LEMMA SetupClaimInv ==
    ASSUME TypeOK, ClaimInv, NEW w \in Workers, SetupRuns(w)
    PROVE  ClaimInv'
<1>1. /\ pc[w] = "setup" /\ pc'[w] = "exec" /\ UNCHANGED <<rows, clock, granted, job, todo, journal>>
      /\ \A v \in Workers : v # w => pc'[v] = pc[v]
      /\ executions' = executions \cup {job[w]} /\ payloads' = payloads \cup {job[w]}
  BY DEF SetupRuns, Goto, TypeOK, store
<1>2. job[w] \in granted /\ job[w].worker = w
  BY <1>1 DEF ClaimInv, ClaimsHeld, Executing
<1>3. \A v \in Workers : pc[v] \in {"subscribe", "check", "setup"} => job[v].worker = v
  BY DEF ClaimInv, ClaimsHeld, Executing
<1>4. RowsClaimed' /\ GrantedOnce' /\ RecordsGranted'
  BY <1>1 DEF ClaimInv, RowsClaimed, GrantedOnce, RecordsGranted
<1>5. LocksHeld' /\ ClaimsHeld'
  BY <1>1, <1>2 DEF ClaimInv, LocksHeld, ClaimsHeld, Executing, Finishing, Replaying
<1>6. StartedOnce'
  BY <1>1, <1>2, <1>3 DEF ClaimInv, StartedOnce
<1>. QED  BY <1>4, <1>5, <1>6 DEF ClaimInv

\* Storing an outcome keeps every claim on its row.
LEMMA SaveClaimInv ==
    ASSUME TypeOK, ClaimInv, NEW w \in Workers, SaveResult(w) \/ SaveReplyLost(w)
    PROVE  ClaimInv'
<1>. DEFINE t0 == job[w].task
<1>1. /\ pc[w] \in {"save", "resave"} /\ rows' = [rows EXCEPT ![t0] = Completed(@, InHand(w))]
      /\ UNCHANGED <<clock, job, granted, executions, payloads, todo, journal>>
      /\ \A v \in Workers : v # w => pc'[v] = pc[v]
      /\ \/ pc'[w] = pc[w]
         \/ pc[w] = "save" /\ pc'[w] = "ack"
         \/ pc[w] = "resave" /\ pc'[w] = "reack"
  BY DEF SaveResult, SaveReplyLost, Saving, ResultWritten, Goto, TypeOK, local, files, history
<1>2. /\ t0 \in Tasks /\ InHand(w) \in Completion /\ rows[t0] \in Row
      /\ InHand(w).status \in Terminal
  BY <1>1, InHandType DEF Finishing, Replaying, TypeOK, Completion
<1>3. /\ rows'[t0] = Completed(rows[t0], InHand(w))
      /\ \A u \in Tasks : u # t0 => rows'[u] = rows[u]
  BY <1>1, <1>2 DEF TypeOK
<1>4. /\ rows'[t0].createdAt = rows[t0].createdAt
      /\ rows'[t0].worker = rows[t0].worker
      /\ rows'[t0].status # rows[t0].status =>
             rows[t0].status = "running" /\ rows'[t0].status \in Terminal
      /\ \A c \in Claim : IsClaim(rows'[t0], c) <=> IsClaim(rows[t0], c)
  BY <1>2, <1>3, CompletedFacts
<1>5. \A g \in granted : g \in Claim /\ g.task \in Tasks
  BY DEF TypeOK, Claim
<1>. HIDE DEF t0
<1>6. RowsClaimed'
  BY <1>1, <1>2, <1>3, <1>4, <1>5 DEF ClaimInv, RowsClaimed, Terminal
<1>7. GrantedOnce'
  BY <1>1, <1>3, <1>4, <1>5 DEF ClaimInv, GrantedOnce
<1>8. LocksHeld'
  <2>1. \A v \in Workers : pc[v] = "locked" => job[v].task \in Tasks
    BY DEF TypeOK, Between, Claim
  <2>. QED  BY <1>1, <1>3, <1>4, <2>1 DEF ClaimInv, LocksHeld
<1>9. ClaimsHeld'
  BY <1>1 DEF ClaimInv, ClaimsHeld, Executing, Finishing, Replaying
<1>10. StartedOnce' /\ RecordsGranted'
  BY <1>1 DEF ClaimInv, StartedOnce, RecordsGranted
<1>. QED  BY <1>6, <1>7, <1>8, <1>9, <1>10 DEF ClaimInv

LEMMA StepClaimInv == TypeOK /\ ClaimInv /\ [Next]_vars => ClaimInv'
<1>. SUFFICES ASSUME TypeOK, ClaimInv, [Next]_vars PROVE ClaimInv'
  OBVIOUS
<1>1. CASE ClientStep
  BY <1>1, ClientClaimInv
<1>2. ASSUME NEW w \in Workers, WorkerStep(w) PROVE ClaimInv'
  <2>1. CASE Exit(w) \/ Crash(w) \/ IdleTimeout(w) \/ SaveGivesUp(w)
    BY <2>1, QuietClaimInv DEF Exit, Crash, IdleTimeout, SaveGivesUp
  <2>2. CASE ClaimStep(w)
    <3>1. CASE ClaimNone(w)
      <4>1. CASE w \in Once
        BY <3>1, <4>1, QuietClaimInv DEF ClaimNone
      <4>2. CASE w \notin Once
        <5>1. pc' = [pc EXCEPT ![w] = "idle"]
          BY <3>1, <4>2 DEF ClaimNone, Goto
        <5>2. UNCHANGED <<rows, clock, job, todo, journal, payloads, granted, executions>>
          BY <3>1, <4>2 DEF ClaimNone, store, files, history
        <5>. QED
          BY <5>1, <5>2 DEF TypeOK, ClaimInv, RowsClaimed, LocksHeld, ClaimsHeld, GrantedOnce,
                            StartedOnce, RecordsGranted, Executing, Finishing, Replaying
      <4>. QED  BY <4>1, <4>2
    <3>. QED
      BY <2>2, <3>1, LockClaimInv, WrittenClaimInv, QuietClaimInv DEF ClaimStep
  <2>3. CASE ProcessStep(w)
    BY <2>3, SetupClaimInv, QuietClaimInv DEF ProcessStep
  <2>4. CASE FinishStep(w)
    BY <2>4, <2>1, SaveClaimInv, QuietClaimInv DEF FinishStep
  <2>. QED
    BY <1>2, <2>1, <2>2, <2>3, <2>4, SaveClaimInv, QuietClaimInv DEF WorkerStep, Progress
<1>3. ASSUME NEW c \in payloads, OrphanEnds(c) PROVE ClaimInv'
  BY <1>3 DEF OrphanEnds, ClaimInv, RowsClaimed, LocksHeld, ClaimsHeld, GrantedOnce,
              StartedOnce, RecordsGranted, store, local, history
<1>4. CASE UNCHANGED vars
  BY <1>4 DEF vars, ClaimInv, RowsClaimed, LocksHeld, ClaimsHeld, GrantedOnce,
              StartedOnce, RecordsGranted
<1>. QED  BY <1>1, <1>2, <1>3, <1>4 DEF Next

LEMMA ClaimCorrect == Spec => [](TypeOK /\ ClaimInv)
<1>1. Init => ClaimInv
  BY InitClaimInv
<1>. QED  BY <1>1, StepClaimInv, TypeCorrect, PTL DEF Spec

\* No incarnation of a task ID is executed twice, and a worker that is about to
\* start a payload holds a claim that nobody has run (claim_task.sql, processTask).
THEOREM NeverTwice == Spec => []AtMostOnce
<1>1. TypeOK /\ ClaimInv => AtMostOnce
  BY DEF TypeOK, ClaimInv, GrantedOnce, StartedOnce, ClaimsHeld, Executing, AtMostOnce,
         SameIncarnation
<1>. QED  BY <1>1, ClaimCorrect, PTL
-----------------------------------------------------------------------------
(* What is journaled and stored.                                           *)

\* A completion is known by its claim and its status.
LEMMA CompletionIdentity ==
    ASSUME NEW c \in Completion
    PROVE  /\ c = [claim |-> c.claim, status |-> c.status]
           /\ c.claim \in Claim /\ c.claim.task \in Tasks /\ c.claim.worker \in Workers
           /\ c.status \in Terminal
BY DEF Completion, Claim

LEMMA InitJournalInv == Init => JournalInv
BY DEF Init, JournalInv, OutcomesJournaled, OutcomesInHand, DiscardedGone, ResultDurable,
       OutcomeJournaled, NoRow, Executing, Finishing, Replaying, Terminal

\* A statement of a client takes a row from its claim, or leaves both the claim
\* and the status as they are.
LEMMA ClientJournalInv == TypeOK /\ ClaimInv /\ JournalInv /\ ClientStep => JournalInv'
<1>. SUFFICES ASSUME TypeOK, ClaimInv, JournalInv, NEW t \in Tasks,
                     Enqueue(t) \/ RequestCancel(t) \/ DeleteTask(t)
              PROVE  JournalInv'
  BY DEF ClientStep
<1>1. /\ UNCHANGED <<pc, job, result, todo, journal, granted, executions, journaled, discarded>>
      /\ \A u \in Tasks : u # t => rows'[u] = rows[u]
      /\ rows[t] \in Row
  BY DEF Enqueue, RequestCancel, DeleteTask, TypeOK, local, files, history
<1>2. \A g \in granted : /\ g \in Claim /\ g.task \in Tasks /\ g.worker \in Workers
                         /\ g.createdAt \in Nat /\ g.createdAt <= clock /\ g.worker # None
  BY NoneAssumption DEF TypeOK, Claim, ClaimInv, GrantedOnce
<1>3. \A g \in granted : g.task = t /\ IsClaim(rows'[t], g) =>
          IsClaim(rows[t], g) /\ rows'[t].status = rows[t].status
  <2>1. CASE Enqueue(t)
    BY <2>1, <1>2 DEF Enqueue, Inserted, NoRow, TypeOK, IsClaim
  <2>2. CASE RequestCancel(t)
    <3>1. rows'[t] = CancelApplied(rows[t])
      BY <2>2 DEF RequestCancel, TypeOK
    <3>. QED
      BY <3>1, <1>1, <1>2, CancelFacts DEF IsClaim, ClaimInv, RowsClaimed
  <2>3. CASE DeleteTask(t)
    BY <2>3 DEF DeleteTask, NoRow, TypeOK, IsClaim
  <2>. QED  BY <2>1, <2>2, <2>3
<1>4. rows'[t].status \in Terminal /\ rows'[t].worker # None =>
          /\ rows'[t].status = rows[t].status /\ rows'[t].worker = rows[t].worker
          /\ \A c \in Claim : IsClaim(rows[t], c) => IsClaim(rows'[t], c)
  <2>1. CASE Enqueue(t)
    BY <2>1 DEF Enqueue, Inserted, NoRow, TypeOK
  <2>2. CASE RequestCancel(t)
    <3>1. rows'[t] = CancelApplied(rows[t])
      BY <2>2 DEF RequestCancel, TypeOK
    <3>. QED  BY <3>1, <1>1, CancelFacts DEF ClaimInv, RowsClaimed
  <2>3. CASE DeleteTask(t)
    BY <2>3 DEF DeleteTask, NoRow, TypeOK
  <2>. QED  BY <2>1, <2>2, <2>3
<1>5. OutcomesJournaled'
  BY <1>1 DEF JournalInv, OutcomesJournaled, Dir
<1>6. \A g \in granted : IsClaim(rows'[g.task], g) =>
          IsClaim(rows[g.task], g) /\ rows'[g.task].status = rows[g.task].status
  BY <1>1, <1>2, <1>3
<1>7. DiscardedGone'
  BY <1>1, <1>6 DEF JournalInv, DiscardedGone
<1>8. ResultDurable'
  BY <1>1, <1>6 DEF JournalInv, ResultDurable, OutcomesJournaled
<1>9. OutcomesInHand'
  <2>1. \A w \in Workers : pc[w] \in {"ack", "reack"} => job[w] \in granted
    BY DEF ClaimInv, ClaimsHeld, Finishing, Replaying
  <2>. QED  BY <1>1, <1>6, <2>1 DEF JournalInv, OutcomesInHand, InHand, Dir
<1>10. OutcomeJournaled'
  <2>1. \A c \in journaled : c.claim \in Claim
    BY CompletionIdentity DEF TypeOK
  <2>. QED  BY <1>1, <1>4, <2>1 DEF JournalInv, OutcomeJournaled
<1>. QED  BY <1>5, <1>7, <1>8, <1>9, <1>10 DEF JournalInv

\* Steps that write neither the table nor the journal.
LEMMA QuietJournalInv ==
    ASSUME TypeOK, ClaimInv, JournalInv, NEW w \in Workers,
           \/ Leave(w) \/ Start(w) \/ StopSignal(w) \/ Wake(w) \/ RecoverStep(w)
           \/ ClaimLock(w) \/ ClaimAborted(w) \/ ClaimNone(w)
           \/ ProcessStep(w) \/ CancelSeen(w) \/ Cleanup(w)
    PROVE  JournalInv'
<1>1. /\ UNCHANGED <<rows, journal, granted, journaled, discarded>>
      /\ \A v \in Workers : v # w => /\ pc'[v] = pc[v] /\ job'[v] = job[v]
                                     /\ result'[v] = result[v] /\ todo'[v] = todo[v]
      /\ executions \subseteq executions'
  BY DEF Leave, Start, StopSignal, Wake, RecoverStep, RecoverGone, RecoverRead, RecoverDone,
         ClaimLock, ClaimAborted, ClaimNone, ProcessStep, Subscribe, SubscribeOrCheckFails,
         CheckCancel, CancelSeen, Cleanup, SetupRuns, SetupFails, ExecEnds, Goto, TypeOK,
         store, files, history
<1>2. /\ pc'[w] \in Executing => pc[w] \in Executing /\ job'[w] = job[w]
      /\ pc'[w] = "journal" /\ result'[w] = "completed" =>
             \/ pc[w] = "journal" /\ result'[w] = result[w] /\ job'[w] = job[w]
             \/ pc[w] = "exec" /\ job'[w] = job[w]
      /\ pc'[w] \in Finishing \cup Replaying =>
             \/ /\ pc[w] \in Finishing \cup Replaying
                /\ job'[w] = job[w] /\ result'[w] = result[w]
             \/ /\ pc[w] = "recover"
                /\ \E c \in todo[w] : job'[w] = c.claim /\ result'[w] = c.status
      /\ pc'[w] \in {"ack", "reack"} => 
             pc[w] = pc'[w] /\ job'[w] = job[w] /\ result'[w] = result[w]
      /\ \A c \in todo'[w] : c \in todo[w] \/ c \in journal[Dir(w)]
  <2>1. CASE Leave(w)
    BY <2>1 DEF Leave, Goto, TypeOK, Executing, Finishing, Replaying
  <2>2. CASE Start(w) \/ StopSignal(w) \/ Wake(w)
    BY <2>2 DEF Start, StopSignal, Wake, Goto, TypeOK, Executing, Finishing, Replaying, Dir
  <2>3. CASE RecoverStep(w)
    BY <2>3 DEF RecoverStep, RecoverGone, RecoverRead, RecoverDone, Goto, TypeOK,
                Executing, Finishing, Replaying
  <2>4. CASE ClaimLock(w) \/ ClaimAborted(w) \/ ClaimNone(w)
    BY <2>1, <2>4 DEF ClaimLock, ClaimAborted, ClaimNone, Goto, TypeOK, Executing,
                Finishing, Replaying
  <2>5. CASE Subscribe(w) \/ SubscribeOrCheckFails(w) \/ CheckCancel(w) \/ CancelSeen(w)
             \/ SetupRuns(w) \/ Cleanup(w)
    BY <2>5 DEF Subscribe, SubscribeOrCheckFails, CheckCancel, CancelSeen, SetupRuns, Cleanup,
                Goto, TypeOK, Executing, Finishing, Replaying
  <2>6. CASE \/ \E created \in BOOLEAN : SetupFails(w, created)
             \/ \E o \in {"completed", "failed"} : ExecEnds(w, o)
    BY <2>6 DEF SetupFails, ExecEnds, Final, Goto, TypeOK, Executing, Finishing, Replaying
  <2>. QED  BY <2>1, <2>2, <2>3, <2>4, <2>5, <2>6 DEF ProcessStep
<1>3. ResultDurable' /\ OutcomeJournaled' /\ DiscardedGone'
  BY <1>1 DEF JournalInv, ResultDurable, OutcomeJournaled, DiscardedGone
<1>4. OutcomesJournaled'
  <2>1. Dir(w) \in Dirs
    BY ConfigAssumption DEF Dir
  <2>. QED  BY <1>1, <1>2, <2>1 DEF JournalInv, OutcomesJournaled, Dir
<1>5. OutcomesInHand'
  <2>1. pc[w] = "exec" => job[w] \in executions
    BY DEF ClaimInv, StartedOnce
  <2>2. ASSUME pc'[w] \in Finishing \cup Replaying
        PROVE  InHand(w)' \in journaled /\ WorkdirOf[job'[w].worker] = Dir(w)
    <3>1. CASE /\ pc[w] \in Finishing \cup Replaying
               /\ job'[w] = job[w] /\ result'[w] = result[w]
      BY <3>1 DEF JournalInv, OutcomesInHand, InHand
    <3>2. ASSUME NEW c \in todo[w], job'[w] = c.claim, result'[w] = c.status
          PROVE  InHand(w)' \in journaled /\ WorkdirOf[job'[w].worker] = Dir(w)
      <4>1. c \in Completion /\ c \in journaled /\ WorkdirOf[c.claim.worker] = Dir(w)
        BY <3>2 DEF TypeOK, JournalInv, OutcomesJournaled
      <4>2. InHand(w)' = [claim |-> c.claim, status |-> c.status]
        BY <3>2 DEF InHand
      <4>. QED  BY <3>2, <4>1, <4>2, CompletionIdentity, Zenon
    <3>. QED  BY <1>2, <2>2, <3>1, <3>2
  <2>3. ASSUME NEW v \in Workers, v # w PROVE InHand(v)' = InHand(v)
    BY <1>1, <2>3 DEF InHand
  <2>4. /\ pc'[w] \in Executing => \A c \in journaled : c.claim # job'[w]
        /\ pc'[w] = "journal" /\ result'[w] = "completed" => job'[w] \in executions'
        /\ pc'[w] \in {"ack", "reack"} /\ IsClaim(rows[job'[w].task], job'[w])
               => rows[job'[w].task].status = result'[w]
    BY <1>1, <1>2, <2>1 DEF JournalInv, OutcomesInHand
  <2>. QED
    BY <1>1, <2>2, <2>3, <2>4 DEF JournalInv, OutcomesInHand, Dir
<1>. QED  BY <1>3, <1>4, <1>5 DEF JournalInv

\* A worker publishes the outcome in its hand: nobody has published another one
\* for the same claim, so Published never answers with a previous record.
LEMMA SaveJournalInv ==
    ASSUME TypeOK, ClaimInv, JournalInv, NEW w \in Workers, JournalSave(w)
    PROVE  /\ JournalInv'
           /\ journaled' = journaled \cup {InHand(w)}
<1>. DEFINE hand == InHand(w)
<1>1. /\ pc[w] = "journal" /\ Dir(w) \in Dirs /\ job[w] \in Claim
      /\ job[w] \in granted /\ job[w].worker = w
      /\ hand \in Completion /\ hand.claim = job[w] /\ hand.status = result[w]
      /\ \A c \in journaled : c.claim # job[w]
  BY InHandType DEF JournalSave, ClaimInv, ClaimsHeld, Executing, JournalInv, OutcomesInHand,
                    InHand
<1>2. \A p \in journal[Dir(w)] : p.claim # hand.claim
  BY <1>1 DEF JournalInv, OutcomesJournaled
<1>3. Published(Dir(w), hand) = hand
  BY <1>2 DEF Published
<1>4. /\ journal' = [journal EXCEPT ![Dir(w)] = @ \cup {hand}]
      /\ journaled' = journaled \cup {hand}
      /\ result' = [result EXCEPT ![w] = hand.status]
      /\ pc' = [pc EXCEPT ![w] = "cleanup"]
      /\ UNCHANGED <<rows, clock, job, todo, granted, executions, discarded>>
  BY <1>3 DEF JournalSave, Goto, store
<1>5. /\ result' = result
      /\ \A v \in Workers : InHand(v)' = InHand(v)
  BY <1>1, <1>4 DEF TypeOK, InHand
<1>6. \A v \in Workers : pc[v] \in Executing /\ job[v] = job[w] => v = w
  BY <1>1 DEF ClaimInv, ClaimsHeld
<1>. HIDE DEF hand
<1>7. journal'[Dir(w)] = journal[Dir(w)] \cup {hand}
      /\ \A d \in Dirs : d # Dir(w) => journal'[d] = journal[d]
  BY <1>1, <1>4 DEF TypeOK
<1>8. OutcomesJournaled'
  <2>1. hand.status = "completed" => job[w] \in executions
    BY <1>1 DEF JournalInv, OutcomesInHand
  <2>. QED  BY <1>1, <1>4, <1>7, <2>1 DEF JournalInv, OutcomesJournaled, Dir
<1>9. OutcomesInHand'
  <2>1. /\ pc'[w] = "cleanup"
        /\ \A v \in Workers : v # w => pc'[v] = pc[v]
    BY <1>4 DEF TypeOK
  <2>2. InHand(w) = hand
    BY DEF hand
  <2>. QED
    BY <1>1, <1>4, <1>5, <1>6, <2>1, <2>2
       DEF JournalInv, OutcomesInHand, Executing, Finishing, Replaying, Dir
<1>10. ResultDurable'
  BY <1>1, <1>4, <1>7, ConfigAssumption DEF JournalInv, ResultDurable, OutcomesJournaled, TypeOK, Dir
<1>11. OutcomeJournaled' /\ DiscardedGone'
  BY <1>4 DEF JournalInv, OutcomeJournaled, DiscardedGone
<1>. QED  BY <1>4, <1>8, <1>9, <1>10, <1>11 DEF JournalInv, hand

\* Writing a new claim on a row cannot revive an outcome: the claim is fresh.
LEMMA WrittenJournalInv ==
    ASSUME TypeOK, ClaimInv, JournalInv, NEW w \in Workers,
           ClaimCommit(w) \/ ClaimReplyLost(w)
    PROVE  JournalInv'
<1>. DEFINE g0 == job[w]
            t0 == job[w].task
<1>1. /\ pc[w] = "locked" /\ rows' = [rows EXCEPT ![t0] = Claimed(@, g0)]
      /\ granted' = granted \cup {g0}
      /\ UNCHANGED <<result, todo, journal, executions, journaled, discarded>>
      /\ \A v \in Workers : v # w => pc'[v] = pc[v] /\ job'[v] = job[v]
      /\ \/ pc'[w] = "subscribe" /\ job'[w] = g0
         \/ pc'[w] = "claim"
  BY DEF ClaimCommit, ClaimReplyLost, ClaimWritten, Goto, TypeOK, files
<1>2. /\ g0 \in Claim /\ t0 \in Tasks
      /\ \A g \in granted : ~SameIncarnation(g, g0)
      /\ rows[t0] \in Row /\ rows[t0].createdAt = g0.createdAt
  BY <1>1, FreshClaim DEF ClaimInv, LocksHeld, TypeOK
<1>3. /\ rows'[t0] = Claimed(rows[t0], g0)
      /\ \A u \in Tasks : u # t0 => rows'[u] = rows[u]
  BY <1>1, <1>2 DEF TypeOK
<1>4. /\ rows'[t0].status = "running" /\ rows'[t0].createdAt = g0.createdAt
  BY <1>2, <1>3, ClaimedFacts
<1>. HIDE DEF g0, t0
<1>5. \A g \in granted : IsClaim(rows'[g.task], g) =>
          g.task \in Tasks /\ IsClaim(rows[g.task], g) /\ rows'[g.task] = rows[g.task]
  <2>1. \A g \in granted : g.task \in Tasks
    BY DEF TypeOK, Claim
  <2>. QED  BY <1>2, <1>3, <1>4, <2>1 DEF IsClaim, SameIncarnation, t0, g0
<1>6. \A c \in journaled : c.claim \in granted /\ c.claim # g0
  BY <1>2 DEF JournalInv, OutcomesJournaled, SameIncarnation
<1>7. OutcomesJournaled'
  BY <1>1 DEF JournalInv, OutcomesJournaled, Dir
<1>8. DiscardedGone'
  BY <1>1, <1>5 DEF JournalInv, DiscardedGone
<1>9. ResultDurable'
  BY <1>1, <1>5, <1>6 DEF JournalInv, ResultDurable
<1>10. OutcomeJournaled'
  BY <1>1, <1>3, <1>4 DEF JournalInv, OutcomeJournaled, Terminal
<1>11. OutcomesInHand'
  <2>1. \A v \in Workers : pc[v] \in {"ack", "reack"} => job[v] \in granted
    BY DEF ClaimInv, ClaimsHeld, Finishing, Replaying
  <2>2. ASSUME NEW v \in Workers, v # w PROVE InHand(v)' = InHand(v)
    BY <1>1, <2>2 DEF InHand
  <2>. QED
    BY <1>1, <1>5, <1>6, <2>1, <2>2
       DEF JournalInv, OutcomesInHand, Executing, Finishing, Replaying, Dir
<1>. QED  BY <1>7, <1>8, <1>9, <1>10, <1>11 DEF JournalInv

\* The outcome that a row shows for the claim in hand is the one in hand.
LEMMA SettledByHand ==
    ASSUME TypeOK, ClaimInv, JournalInv, NEW w \in Workers, pc[w] \in Finishing \cup Replaying,
           IsClaim(rows[job[w].task], job[w]), rows[job[w].task].status # "running"
    PROVE  rows[job[w].task].status = result[w]
<1>1. /\ job[w] \in Claim /\ job[w].task \in Tasks /\ job[w].worker # None
      /\ InHand(w) \in journaled /\ InHand(w).claim = job[w] /\ InHand(w).status = result[w]
  BY InHandType, NoneAssumption DEF JournalInv, OutcomesInHand, InHand, Claim
<1>2. rows[job[w].task].status \in Terminal /\ rows[job[w].task].worker # None
  BY <1>1 DEF TypeOK, Row, Status, IsClaim, ClaimInv, RowsClaimed
<1>3. PICK c \in journaled : /\ c.claim.task = job[w].task
                             /\ IsClaim(rows[job[w].task], c.claim)
                             /\ c.status = rows[job[w].task].status
  BY <1>1, <1>2 DEF JournalInv, OutcomeJournaled
<1>4. c.claim = job[w]
  BY <1>1, <1>3, ClaimIdentity, CompletionIdentity DEF TypeOK
<1>. QED  BY <1>1, <1>3, <1>4 DEF JournalInv, OutcomesJournaled

\* Storing an outcome settles exactly the claim that it belongs to.
LEMMA StoreJournalInv ==
    ASSUME TypeOK, ClaimInv, JournalInv, NEW w \in Workers, SaveResult(w) \/ SaveReplyLost(w)
    PROVE  JournalInv'
<1>. DEFINE t0 == job[w].task
            row == rows[t0]
            hand == InHand(w)
<1>1. /\ pc[w] \in {"save", "resave"} /\ rows' = [rows EXCEPT ![t0] = Completed(@, hand)]
      /\ UNCHANGED <<job, result, granted, executions, todo, journal, journaled>>
      /\ \A v \in Workers : v # w => pc'[v] = pc[v]
      /\ \/ pc'[w] = pc[w]
         \/ pc[w] = "save" /\ pc'[w] = "ack"
         \/ pc[w] = "resave" /\ pc'[w] = "reack"
      /\ \/ discarded' = discarded
         \/ discarded' = discarded \cup {hand} /\ ~Confirmed(row, hand)
  BY DEF SaveResult, SaveReplyLost, Saving, ResultWritten, Goto, TypeOK, local, files, history
<1>2. /\ t0 \in Tasks /\ hand \in Completion /\ row \in Row
      /\ hand.status = result[w] /\ hand.claim = job[w] /\ job[w] \in Claim
      /\ job[w] \in granted /\ result[w] \in Terminal
  BY <1>1, InHandType DEF Finishing, Replaying, TypeOK, InHand, ClaimInv, ClaimsHeld
<1>3. hand \in journaled
  BY <1>1 DEF JournalInv, OutcomesInHand, Finishing, Replaying
<1>4. /\ rows'[t0] = Completed(row, hand)
      /\ \A u \in Tasks : u # t0 => rows'[u] = rows[u]
  BY <1>1, <1>2 DEF TypeOK
<1>5. IsClaim(row, job[w]) /\ row.status # "running" => row.status = result[w]
  BY <1>1, SettledByHand DEF Finishing, Replaying
<1>6. /\ rows'[t0].worker = row.worker
      /\ rows'[t0].status = IF IsClaim(row, job[w]) THEN result[w] ELSE row.status
      /\ \A c \in Claim : IsClaim(rows'[t0], c) <=> IsClaim(row, c)
  BY <1>2, <1>4, <1>5, CompletedFacts
<1>7. \A c \in journaled : /\ c \in Completion /\ c.claim \in Claim /\ c.claim.task \in Tasks
                           /\ c.claim = job[w] => c = hand
                           /\ c.claim.task = t0 /\ IsClaim(row, c.claim) /\ IsClaim(row, job[w])
                                  => c = hand
  BY <1>2, <1>3, CompletionIdentity, ClaimIdentity DEF TypeOK, JournalInv, OutcomesJournaled
<1>8. \A g \in granted : g \in Claim /\ g.task \in Tasks
  BY DEF TypeOK, Claim
<1>9. hand.claim.task = t0
  BY <1>2
<1>. HIDE DEF t0, row, hand
<1>10. OutcomesJournaled'
  BY <1>1 DEF JournalInv, OutcomesJournaled, Dir
<1>11. ResultDurable'
  BY <1>1, <1>2, <1>4, <1>6, <1>7 DEF JournalInv, ResultDurable, row
<1>12. OutcomeJournaled'
  <2>1. ASSUME NEW t \in Tasks, rows'[t].status \in Terminal, rows'[t].worker # None
        PROVE  \E c \in journaled : /\ c.claim.task = t /\ IsClaim(rows'[t], c.claim)
                                    /\ c.status = rows'[t].status
    <3>1. CASE t # t0
      BY <1>4, <2>1, <3>1 DEF JournalInv, OutcomeJournaled
    <3>2. CASE t = t0 /\ IsClaim(row, job[w])
      BY <1>2, <1>3, <1>6, <1>9, <3>2
    <3>3. CASE t = t0 /\ ~IsClaim(row, job[w])
      BY <1>6, <1>7, <2>1, <3>3 DEF JournalInv, OutcomeJournaled, row
    <3>. QED  BY <3>1, <3>2, <3>3
  <2>. QED  BY <1>1, <2>1 DEF OutcomeJournaled
<1>13. DiscardedGone'
  <2>1. ~Confirmed(row, hand) => ~IsClaim(row, job[w])
    BY <1>2, <1>5 DEF Confirmed
  <2>. QED
    BY <1>1, <1>2, <1>4, <1>6, <1>8, <1>9, <2>1 DEF JournalInv, DiscardedGone, row
<1>14. OutcomesInHand'
  <2>1. \A v \in Workers : InHand(v)' = InHand(v)
    BY <1>1 DEF InHand
  <2>2. ASSUME NEW v \in Workers, pc'[v] \in {"ack", "reack"},
               IsClaim(rows'[job[v].task], job[v])
        PROVE  rows'[job[v].task].status = result[v]
    <3>1. /\ job[v] \in Claim /\ job[v].task \in Tasks /\ InHand(v) \in journaled
          /\ InHand(v).claim = job[v] /\ InHand(v).status = result[v]
      <4>1. pc[v] \in Finishing \cup Replaying
        BY <1>1, <2>2 DEF Finishing, Replaying
      <4>. QED  BY <4>1, InHandType DEF JournalInv, OutcomesInHand, InHand
    <3>2. CASE job[v].task # t0
      <4>1. v # w
        BY <3>2 DEF t0
      <4>. QED  BY <1>1, <1>4, <2>2, <3>1, <3>2, <4>1 DEF JournalInv, OutcomesInHand
    <3>3. CASE job[v].task = t0 /\ IsClaim(row, job[w])
      <4>1. IsClaim(row, job[v])
        BY <1>6, <2>2, <3>1, <3>3
      <4>2. InHand(v) = hand
        BY <1>7, <3>1, <3>3, <4>1
      <4>. QED  BY <1>2, <1>6, <3>1, <3>3, <4>2
    <3>4. CASE job[v].task = t0 /\ ~IsClaim(row, job[w])
      <4>1. IsClaim(row, job[v]) /\ v # w
        BY <1>6, <2>2, <3>1, <3>4
      <4>. QED  BY <1>1, <1>6, <2>2, <3>4, <4>1 DEF JournalInv, OutcomesInHand, row
    <3>. QED  BY <3>2, <3>3, <3>4
  <2>. QED
    BY <1>1, <2>1, <2>2 DEF JournalInv, OutcomesInHand, Executing, Finishing, Replaying, Dir
<1>. QED  BY <1>10, <1>11, <1>12, <1>13, <1>14 DEF JournalInv

\* A record is removed only when the row no longer needs it.
LEMMA AcknowledgeJournalInv ==
    ASSUME TypeOK, ClaimInv, JournalInv, NEW w \in Workers, Acknowledge(w)
    PROVE  JournalInv'
<1>. DEFINE hand == InHand(w)
<1>1. /\ pc[w] \in {"ack", "reack"} /\ Dir(w) \in Dirs
      /\ job[w] \in Claim /\ hand.claim = job[w] /\ hand.status = result[w]
      /\ pc'[w] \in {"recover", "off", "claim"}
      /\ \A v \in Workers : v # w => /\ pc'[v] = pc[v] /\ job'[v] = job[v]
                                     /\ result'[v] = result[v]
      /\ journal' = [journal EXCEPT ![Dir(w)] = @ \ {hand}]
      /\ UNCHANGED <<rows, todo, granted, executions, journaled, discarded>>
  BY InHandType DEF Acknowledge, Goto, TypeOK, Finishing, Replaying, store, history, InHand
<1>2. IsClaim(rows[hand.claim.task], hand.claim) => rows[hand.claim.task].status = hand.status
  BY <1>1 DEF JournalInv, OutcomesInHand
<1>. HIDE DEF hand
<1>3. /\ journal'[Dir(w)] = journal[Dir(w)] \ {hand}
      /\ \A d \in Dirs : d # Dir(w) => journal'[d] = journal[d]
  BY <1>1 DEF TypeOK
<1>4. OutcomesJournaled'
  BY <1>1, <1>3 DEF JournalInv, OutcomesJournaled, Dir
<1>5. OutcomesInHand'
  <2>1. ASSUME NEW v \in Workers, v # w PROVE InHand(v)' = InHand(v)
    BY <1>1, <2>1 DEF InHand
  <2>. QED
    BY <1>1, <2>1 DEF JournalInv, OutcomesInHand, Executing, Finishing, Replaying, Dir
<1>6. ResultDurable'
  <2>1. \A c \in journaled : WorkdirOf[c.claim.worker] \in Dirs
    BY ConfigAssumption, CompletionIdentity DEF TypeOK
  <2>. QED  BY <1>1, <1>2, <1>3, <2>1 DEF JournalInv, ResultDurable
<1>7. OutcomeJournaled' /\ DiscardedGone'
  BY <1>1 DEF JournalInv, OutcomeJournaled, DiscardedGone
<1>. QED  BY <1>4, <1>5, <1>6, <1>7 DEF JournalInv

LEMMA StepJournalInv == TypeOK /\ ClaimInv /\ JournalInv /\ [Next]_vars => JournalInv'
<1>. SUFFICES ASSUME TypeOK, ClaimInv, JournalInv, [Next]_vars PROVE JournalInv'
  OBVIOUS
<1>1. CASE ClientStep
  BY <1>1, ClientJournalInv
<1>2. ASSUME NEW w \in Workers, WorkerStep(w) PROVE JournalInv'
  <2>1. CASE Exit(w) \/ Crash(w) \/ IdleTimeout(w) \/ SaveGivesUp(w)
    BY <2>1, QuietJournalInv DEF Exit, Crash, IdleTimeout, SaveGivesUp
  <2>2. CASE ClaimStep(w)
    BY <2>2, WrittenJournalInv, QuietJournalInv DEF ClaimStep
  <2>3. CASE FinishStep(w)
    BY <2>3, <2>1, SaveJournalInv, StoreJournalInv, AcknowledgeJournalInv, QuietJournalInv
       DEF FinishStep
  <2>. QED
    BY <1>2, <2>1, <2>2, <2>3, StoreJournalInv, QuietJournalInv DEF WorkerStep, Progress
<1>3. ASSUME NEW c \in payloads, OrphanEnds(c) PROVE JournalInv'
  BY <1>3 DEF OrphanEnds, JournalInv, OutcomesJournaled, OutcomesInHand, DiscardedGone,
              ResultDurable, OutcomeJournaled, InHand, Dir, store, local, history
<1>4. CASE UNCHANGED vars
  BY <1>4 DEF vars, JournalInv, OutcomesJournaled, OutcomesInHand, DiscardedGone,
              ResultDurable, OutcomeJournaled, InHand, Dir
<1>. QED  BY <1>1, <1>2, <1>3, <1>4 DEF Next

LEMMA JournalCorrect == Spec => [](TypeOK /\ ClaimInv /\ JournalInv)
<1>1. Init => JournalInv
  BY InitJournalInv
<1>. QED  BY <1>1, StepJournalInv, ClaimCorrect, PTL DEF Spec

\* A journaled outcome is not lost: while the row is still the claim it belongs
\* to, the row shows it or the journal holds it (finishTask, recoverCompletions).
THEOREM NeverLost == Spec => []ResultDurable
BY JournalCorrect, PTL DEF JournalInv

\* An outcome that a worker stored was journaled before, for that very claim
\* (finishTask, complete_claim.sql).
THEOREM NeverUnjournaled == Spec => []OutcomeJournaled
BY JournalCorrect, PTL DEF JournalInv

\* An outcome reported as obsolete is not the one its row shows (CompleteClaim).
THEOREM NeverDiscardedInVain == Spec => []DiscardedIsObsolete
<1>1. JournalInv => DiscardedIsObsolete
  BY DEF JournalInv, DiscardedGone, DiscardedIsObsolete
<1>. QED  BY <1>1, JournalCorrect, PTL
-----------------------------------------------------------------------------
(* Task directories.                                                       *)

LEMMA InitDirInv == Init => DirInv
BY DEF Init, DirInv, DirsMade, DirsOwned, PayloadOwnsDir, FilesKeptUntilJournaled

\* Steps that touch neither the directories nor the payloads.
LEMMA QuietDirInv ==
    ASSUME TypeOK, DirInv, NEW w \in Workers,
           \/ Leave(w) \/ Start(w) \/ StopSignal(w) \/ Wake(w) \/ RecoverStep(w)
           \/ ClaimStep(w) \/ Subscribe(w) \/ SubscribeOrCheckFails(w) \/ CheckCancel(w)
           \/ CancelSeen(w) \/ SaveResult(w) \/ SaveReplyLost(w) \/ Acknowledge(w)
    PROVE  DirInv'
<1>1. /\ UNCHANGED <<dirs, payloads, executions, journaled>>
      /\ \A v \in Workers : v # w => /\ pc'[v] = pc[v] /\ job'[v] = job[v]
                                     /\ made'[v] = made[v]
  BY DEF Leave, Start, StopSignal, Wake, RecoverStep, RecoverGone, RecoverRead, RecoverDone,
         ClaimStep, ClaimLock, ClaimCommit, ClaimReplyLost, ClaimWritten, ClaimAborted,
         ClaimNone, Subscribe, SubscribeOrCheckFails, CheckCancel, CancelSeen, SaveResult,
         SaveReplyLost, Acknowledge, Goto, TypeOK, store, local, files, history
<1>2. /\ made'[w] => made[w] /\ pc'[w] = pc[w] /\ job'[w] = job[w]
      /\ pc'[w] = "exec" => pc[w] = "exec" /\ made'[w] = made[w]
  BY DEF DirInv, DirsMade, Leave, Start, StopSignal, Wake, RecoverStep, RecoverGone,
         RecoverRead, RecoverDone, ClaimStep, ClaimLock, ClaimCommit, ClaimReplyLost,
         ClaimWritten, ClaimAborted, ClaimNone, Subscribe, SubscribeOrCheckFails, CheckCancel,
         CancelSeen, SaveResult, SaveReplyLost, Saving, Acknowledge, Goto, TypeOK, local
<1>3. PayloadOwnsDir' /\ FilesKeptUntilJournaled'
  BY <1>1 DEF DirInv, PayloadOwnsDir, FilesKeptUntilJournaled
<1>4. DirsMade' /\ DirsOwned'
  BY <1>1, <1>2 DEF DirInv, DirsMade, DirsOwned, UsesDirOf, Dir
<1>. QED  BY <1>3, <1>4 DEF DirInv

\* A worker that makes the task directory is alone there: no payload runs in it
\* and every earlier execution there is journaled, or the directory would exist.
LEMMA SetupDirInv ==
    ASSUME TypeOK, ClaimInv, DirInv, NEW w \in Workers,
           SetupRuns(w) \/ \E created \in BOOLEAN : SetupFails(w, created)
    PROVE  DirInv'
<1>1. CASE SetupFails(w, FALSE)
  <2>1. /\ dirs' = dirs
        /\ made'[w] = FALSE /\ pc'[w] = "journal"
        /\ \A v \in Workers : v # w => pc'[v] = pc[v] /\ made'[v] = made[v]
        /\ UNCHANGED <<job, payloads, executions, journaled>>
    BY <1>1 DEF SetupFails, Goto, TypeOK, history
  <2>. QED
    BY <2>1 DEF DirInv, DirsMade, DirsOwned, UsesDirOf, Dir, PayloadOwnsDir,
                FilesKeptUntilJournaled
<1>2. CASE SetupRuns(w) \/ SetupFails(w, TRUE)
  <2>1. /\ job[w].task \notin dirs[Dir(w)]
        /\ dirs' = [dirs EXCEPT ![Dir(w)] = @ \cup {job[w].task}]
        /\ made'[w] = TRUE
        /\ \A v \in Workers : v # w => pc'[v] = pc[v] /\ made'[v] = made[v]
        /\ UNCHANGED <<job, journaled>>
        /\ \/ /\ pc'[w] = "exec"
              /\ payloads' = payloads \cup {job[w]} /\ executions' = executions \cup {job[w]}
           \/ pc'[w] = "journal" /\ UNCHANGED <<payloads, executions>>
        /\ pc[w] = "setup"
    BY <1>2 DEF SetupRuns, SetupFails, Goto, TypeOK, history
  <2>2. job[w] \in Claim /\ job[w].worker = w /\ Dir(w) \in Dirs
    BY <2>1, ConfigAssumption DEF TypeOK, ClaimInv, ClaimsHeld, Executing, Dir
  <2>3. /\ dirs'[Dir(w)] = dirs[Dir(w)] \cup {job[w].task}
        /\ \A d \in Dirs : dirs[d] \subseteq dirs'[d]
    BY <2>1, <2>2 DEF TypeOK
  <2>4. /\ \A c \in payloads : ~UsesDirOf(c, w)
        /\ \A c \in executions : UsesDirOf(c, w) => \E e \in journaled : e.claim = c
        /\ \A v \in Workers : made[v] => ~(Dir(v) = Dir(w) /\ job[v].task = job[w].task)
    BY <2>1 DEF DirInv, DirsMade, PayloadOwnsDir, FilesKeptUntilJournaled, UsesDirOf
  <2>5. \A v \in Workers : v # w /\ made[v] => ~UsesDirOf(job[w], v)
    BY <2>2, <2>4 DEF UsesDirOf, Dir
  <2>6. /\ \A c \in payloads : c \in Claim /\ WorkdirOf[c.worker] \in Dirs
        /\ \A c \in executions : c \in Claim /\ WorkdirOf[c.worker] \in Dirs
        /\ \A v \in Workers : Dir(v) \in Dirs
    BY ConfigAssumption DEF TypeOK, Claim, Dir
  <2>7. DirsMade'
    BY <2>1, <2>2, <2>3, <2>4, <2>6 DEF DirInv, DirsMade, Dir
  <2>8. DirsOwned'
    <3>1. ASSUME NEW v \in Workers, made'[v], NEW c \in payloads', UsesDirOf(c, v)'
          PROVE  pc'[v] = "exec" /\ c = job'[v]
      BY <2>1, <2>4, <2>5, <3>1 DEF DirInv, DirsOwned, UsesDirOf, Dir
    <3>2. ASSUME NEW v \in Workers, made'[v], NEW c \in executions', UsesDirOf(c, v)'
          PROVE  c = job'[v] \/ \E e \in journaled' : e.claim = c
      BY <2>1, <2>4, <2>5, <3>2 DEF DirInv, DirsOwned, UsesDirOf, Dir
    <3>. QED  BY <3>1, <3>2 DEF DirsOwned
  <2>9. PayloadOwnsDir'
    <3>1. \A c \in payloads : c.task = job[w].task => WorkdirOf[c.worker] # WorkdirOf[job[w].worker]
      BY <2>2, <2>4 DEF UsesDirOf, Dir
    <3>. QED
      BY <2>1, <2>2, <2>3, <2>6, <3>1 DEF DirInv, PayloadOwnsDir, Dir
  <2>10. FilesKeptUntilJournaled'
    BY <2>1, <2>2, <2>3, <2>6 DEF DirInv, FilesKeptUntilJournaled, Dir
  <2>. QED  BY <2>7, <2>8, <2>9, <2>10 DEF DirInv
<1>. QED  BY <1>1, <1>2

\* The payload ends, of a worker or without one; the outcome is journaled.
LEMMA EndDirInv ==
    ASSUME TypeOK, DirInv,
           \/ \E c \in payloads : OrphanEnds(c)
           \/ \E w \in Workers : JournalSave(w) \/ \E o \in {"completed", "failed"} : ExecEnds(w, o)
    PROVE  DirInv'
<1>1. ASSUME NEW c \in payloads, OrphanEnds(c) PROVE DirInv'
  BY <1>1 DEF OrphanEnds, DirInv, DirsMade, DirsOwned, UsesDirOf, Dir, PayloadOwnsDir,
              FilesKeptUntilJournaled, local, history
<1>2. ASSUME NEW w \in Workers,
             JournalSave(w) \/ \E o \in {"completed", "failed"} : ExecEnds(w, o)
      PROVE  DirInv'
  <2>1. /\ pc[w] \in {"exec", "journal"} /\ pc'[w] \in {"journal", "cleanup"}
        /\ \A v \in Workers : v # w => pc'[v] = pc[v]
        /\ UNCHANGED <<job, made, dirs, executions>>
        /\ payloads' \subseteq payloads /\ (pc[w] = "exec" => job[w] \notin payloads')
        /\ journaled \subseteq journaled'
    BY <1>2 DEF JournalSave, ExecEnds, Goto, TypeOK, history
  <2>2. DirsMade'
    BY <2>1 DEF DirInv, DirsMade, Dir
  <2>3. DirsOwned'
    BY <2>1 DEF DirInv, DirsOwned, UsesDirOf, Dir
  <2>4. PayloadOwnsDir' /\ FilesKeptUntilJournaled'
    BY <2>1 DEF DirInv, PayloadOwnsDir, FilesKeptUntilJournaled
  <2>. QED  BY <2>2, <2>3, <2>4 DEF DirInv
<1>. QED  BY <1>1, <1>2

\* Cleaning up removes a directory that nobody needs any more.
LEMMA CleanupDirInv ==
    ASSUME TypeOK, ClaimInv, JournalInv, DirInv, NEW w \in Workers, Cleanup(w)
    PROVE  DirInv'
<1>1. /\ pc[w] = "cleanup" /\ pc'[w] = "save" /\ made'[w] = FALSE
      /\ \A v \in Workers : v # w => pc'[v] = pc[v] /\ made'[v] = made[v]
      /\ UNCHANGED <<job, payloads, executions, journaled>>
      /\ \A d \in Dirs : \A t \in dirs[d] :
             t \in dirs'[d] \/ (made[w] /\ d = Dir(w) /\ t = job[w].task)
  BY DEF Cleanup, Goto, TypeOK, history
<1>2. InHand(w) \in journaled /\ InHand(w).claim = job[w]
  BY <1>1 DEF JournalInv, OutcomesInHand, Finishing, InHand
<1>3. /\ \A c \in payloads : WorkdirOf[c.worker] \in Dirs
      /\ \A c \in executions : WorkdirOf[c.worker] \in Dirs
      /\ \A v \in Workers : Dir(v) \in Dirs
  BY ConfigAssumption DEF TypeOK, Claim, Dir
<1>4. DirsMade'
  BY <1>1, <1>3 DEF DirInv, DirsMade, Dir
<1>5. DirsOwned'
  BY <1>1 DEF DirInv, DirsOwned, UsesDirOf, Dir
<1>6. PayloadOwnsDir'
  <2>1. made[w] => \A c \in payloads : ~UsesDirOf(c, w)
    BY <1>1 DEF DirInv, DirsOwned
  <2>. QED  BY <1>1, <1>3, <2>1 DEF DirInv, PayloadOwnsDir, UsesDirOf
<1>7. FilesKeptUntilJournaled'
  <2>1. made[w] => \A c \in executions : UsesDirOf(c, w) => \E e \in journaled : e.claim = c
    BY <1>2 DEF DirInv, DirsOwned
  <2>. QED  BY <1>1, <1>3, <2>1 DEF DirInv, FilesKeptUntilJournaled, UsesDirOf
<1>. QED  BY <1>4, <1>5, <1>6, <1>7 DEF DirInv

LEMMA StepDirInv == TypeOK /\ ClaimInv /\ JournalInv /\ DirInv /\ [Next]_vars => DirInv'
<1>. SUFFICES ASSUME TypeOK, ClaimInv, JournalInv, DirInv, [Next]_vars PROVE DirInv'
  OBVIOUS
<1>1. CASE ClientStep
  BY <1>1 DEF ClientStep, Enqueue, RequestCancel, DeleteTask, DirInv, DirsMade, DirsOwned,
              UsesDirOf, Dir, PayloadOwnsDir, FilesKeptUntilJournaled, local, files, history
<1>2. ASSUME NEW w \in Workers, WorkerStep(w) PROVE DirInv'
  <2>1. CASE Exit(w) \/ Crash(w) \/ IdleTimeout(w) \/ SaveGivesUp(w)
    BY <2>1, QuietDirInv DEF Exit, Crash, IdleTimeout, SaveGivesUp
  <2>2. CASE ProcessStep(w)
    BY <2>2, SetupDirInv, EndDirInv, QuietDirInv DEF ProcessStep
  <2>3. CASE FinishStep(w)
    BY <2>3, <2>1, EndDirInv, CleanupDirInv, QuietDirInv DEF FinishStep
  <2>. QED
    BY <1>2, <2>1, <2>2, <2>3, QuietDirInv DEF WorkerStep, Progress
<1>3. ASSUME NEW c \in payloads, OrphanEnds(c) PROVE DirInv'
  BY <1>3, EndDirInv
<1>4. CASE UNCHANGED vars
  BY <1>4 DEF vars, DirInv, DirsMade, DirsOwned, UsesDirOf, Dir, PayloadOwnsDir,
              FilesKeptUntilJournaled
<1>. QED  BY <1>1, <1>2, <1>3, <1>4 DEF Next

\* The inductive invariant holds of every state the workers and clients reach.
THEOREM Inductive == Spec => []IInv
<1>1. Init => DirInv
  BY InitDirInv
<1>2. Spec => [](TypeOK /\ ClaimInv /\ JournalInv /\ DirInv)
  BY <1>1, StepDirInv, JournalCorrect, PTL DEF Spec
<1>. QED  BY <1>2, PTL DEF IInv

\* Two payloads never share a task directory, and nobody removes the directory
\* of a running payload (Executor.createTaskDir, Executor.cleanup).
THEOREM DirectoriesOwned == Spec => []PayloadOwnsDir
BY Inductive, PTL DEF IInv, DirInv

\* A task directory is removed only after the outcome of the execution that used
\* it was journaled (finishTask).
THEOREM FilesKept == Spec => []FilesKeptUntilJournaled
BY Inductive, PTL DEF IInv, DirInv
-----------------------------------------------------------------------------
(* The refinement of TaskQueue: the table read by clients, and whether the  *)
(* payload of a row's incarnation was started, change only as the abstract *)
(* queue allows.                                                           *)

LEMMA InitQueue == Init => Queue!Init
<1>. SUFFICES ASSUME Init PROVE Queue!Init
  OBVIOUS
<1>1. \A t \in Tasks : rows[t].status = "absent" /\ Ran(t) = FALSE
  BY DEF Init, NoRow, Ran
<1>. QED  BY <1>1 DEF Queue!Init

\* A step that changes neither the status nor the incarnation of a row, and
\* starts no payload of the incarnation that a row shows, is invisible.
LEMMA Invisible ==
    ASSUME \A t \in Tasks : rows'[t].status = rows[t].status /\ (Ran(t)' <=> Ran(t))
    PROVE  UNCHANGED Queue!vars
<1>1. \A t \in Tasks : Ran(t)' = Ran(t)
  BY DEF Ran
<1>2. [t \in Tasks |-> Ran(t)]' = [t \in Tasks |-> Ran(t)]
  BY <1>1
<1>3. [t \in Tasks |-> rows[t].status]' = [t \in Tasks |-> rows[t].status]
  OBVIOUS
<1>. QED  BY <1>2, <1>3 DEF Queue!vars

\* A step that changes the row of one task, and how.
LEMMA Visible ==
    ASSUME NEW t \in Tasks,
           \A u \in Tasks : u # t => rows'[u].status = rows[u].status /\ (Ran(u)' <=> Ran(u))
    PROVE  /\ rows[t].status = "absent" /\ rows'[t].status = "pending" /\ ~Ran(t)'
                  => Queue!Submit(t)
           /\ rows[t].status = "pending" /\ rows'[t].status = "cancelled" /\ (Ran(t)' <=> Ran(t))
                  => Queue!Withdraw(t)
           /\ rows[t].status = "pending" /\ rows'[t].status = "running" /\ (Ran(t)' <=> Ran(t))
                  => Queue!Take(t)
           /\ rows[t].status = "running" /\ rows'[t].status = "running" /\ ~Ran(t) /\ Ran(t)'
                  => Queue!Run(t)
           /\ \A o \in Queue!Outcomes :
                  /\ rows[t].status = "running" /\ rows'[t].status = o
                  /\ (Ran(t)' <=> Ran(t)) /\ (o = "completed" => Ran(t))
                  => Queue!Settle(t, o)
           /\ rows[t].status # "absent" /\ rows'[t].status = "absent" /\ ~Ran(t)'
                  => Queue!Remove(t)
<1>. DEFINE S == [u \in Tasks |-> rows[u].status]
            R == [u \in Tasks |-> Ran(u)]
<1>1. ASSUME NEW s, rows'[t].status = s PROVE S' = [S EXCEPT ![t] = s]
  BY <1>1
<1>2. ASSUME NEW r \in BOOLEAN, Ran(t)' <=> r PROVE R' = [R EXCEPT ![t] = r]
  <2>1. \A u \in Tasks : u # t => Ran(u)' = Ran(u)
    BY DEF Ran
  <2>2. Ran(t)' = r
    BY <1>2 DEF Ran
  <2>. QED  BY <2>1, <2>2
<1>3. (Ran(t)' <=> Ran(t)) => R' = R
  <2>1. \A u \in Tasks : u # t => Ran(u)' = Ran(u)
    BY DEF Ran
  <2>2. (Ran(t)' <=> Ran(t)) => Ran(t)' = Ran(t)
    BY DEF Ran
  <2>. QED  BY <2>1, <2>2
<1>. QED
  BY <1>1, <1>2, <1>3 DEF Queue!Submit, Queue!Withdraw, Queue!Take, Queue!Run, Queue!Settle,
                          Queue!Remove

\* The statements of clients submit, withdraw and remove.
LEMMA ClientQueue ==
    ASSUME TypeOK, IInv, ClientStep
    PROVE  [Queue!Next]_(Queue!vars)
<1>1. PICK t \in Tasks : Enqueue(t) \/ RequestCancel(t) \/ DeleteTask(t)
  BY DEF ClientStep
<1>2. /\ executions' = executions
      /\ \A u \in Tasks : u # t => rows'[u] = rows[u]
      /\ rows[t] \in Row
  BY <1>1 DEF Enqueue, RequestCancel, DeleteTask, TypeOK, history
<1>3. \A u \in Tasks : u # t => rows'[u].status = rows[u].status /\ (Ran(u)' <=> Ran(u))
  BY <1>2 DEF Ran
<1>4. \A c \in executions : /\ c \in Claim /\ c.createdAt \in Nat
                            /\ c.createdAt > 0 /\ c.createdAt <= clock
  BY DEF TypeOK, Claim, IInv, ClaimInv, GrantedOnce, StartedOnce
<1>5. CASE Enqueue(t)
  <2>1. /\ rows[t].status = "absent" /\ rows'[t].status = "pending"
        /\ rows'[t].createdAt = clock + 1 /\ clock \in Nat
    BY <1>5 DEF Enqueue, Inserted, NoRow, TypeOK
  <2>2. ~Ran(t)'
    BY <1>2, <1>4, <2>1 DEF Ran
  <2>. QED  BY <1>3, <2>1, <2>2, Visible DEF Queue!Next
<1>6. CASE RequestCancel(t)
  <2>1. rows'[t] = CancelApplied(rows[t])
    BY <1>6 DEF RequestCancel, TypeOK
  <2>2. Ran(t)' <=> Ran(t)
    BY <1>2, <2>1, CancelFacts DEF Ran
  <2>3. CASE rows'[t].status = rows[t].status
    <3>1. UNCHANGED Queue!vars
      BY <1>3, <2>2, <2>3, Invisible
    <3>. QED  BY <3>1
  <2>4. CASE rows[t].status = "pending" /\ rows'[t].status = "cancelled"
    BY <1>3, <2>2, <2>4, Visible DEF Queue!Next
  <2>. QED  BY <1>2, <2>1, <2>3, <2>4, CancelFacts
<1>7. CASE DeleteTask(t)
  <2>1. /\ rows[t].status # "absent" /\ rows'[t].status = "absent"
        /\ rows'[t].createdAt = 0
    BY <1>7 DEF DeleteTask, NoRow, TypeOK
  <2>2. ~Ran(t)'
    BY <1>2, <1>4, <2>1 DEF Ran
  <2>. QED  BY <1>3, <2>1, <2>2, Visible DEF Queue!Next
<1>. QED  BY <1>1, <1>5, <1>6, <1>7

\* A claim takes the task, also when its answer is lost.
LEMMA WrittenQueue ==
    ASSUME TypeOK, IInv, NEW w \in Workers, ClaimCommit(w) \/ ClaimReplyLost(w)
    PROVE  Queue!Next
<1>0. pc[w] = "locked"
  BY DEF ClaimCommit, ClaimReplyLost, ClaimWritten
<1>1. PICK t \in Tasks : t = job[w].task
  BY <1>0, FreshClaim DEF IInv
<1>2. /\ rows' = [rows EXCEPT ![t] = Claimed(@, job[w])]
      /\ executions' = executions
  BY <1>1 DEF ClaimCommit, ClaimReplyLost, ClaimWritten
<1>3. /\ rows[t] \in Row /\ rows[t].status = "pending"
      /\ rows[t].createdAt = job[w].createdAt
  BY <1>0, <1>1 DEF IInv, ClaimInv, LocksHeld, TypeOK
<1>4. /\ rows'[t] = Claimed(rows[t], job[w])
      /\ \A u \in Tasks : u # t => rows'[u] = rows[u]
  BY <1>2 DEF TypeOK
<1>5. rows'[t].status = "running" /\ rows'[t].createdAt = rows[t].createdAt
  BY <1>3, <1>4, ClaimedFacts
<1>6. \A u \in Tasks : Ran(u)' <=> Ran(u)
  BY <1>2, <1>4, <1>5 DEF Ran
<1>. QED  BY <1>3, <1>4, <1>5, <1>6, Visible DEF Queue!Next

\* A payload is the run of the incarnation it was claimed for; when the row has
\* been replaced since, clients do not see it.
LEMMA SetupQueue ==
    ASSUME TypeOK, IInv, NEW w \in Workers, SetupRuns(w)
    PROVE  [Queue!Next]_(Queue!vars)
<1>0. pc[w] = "setup"
  BY DEF SetupRuns
<1>9. PICK t \in Tasks : t = job[w].task
  BY <1>0 DEF TypeOK, Between, Claim
<1>1. /\ pc[w] = "setup" /\ rows' = rows /\ executions' = executions \cup {job[w]}
  BY DEF SetupRuns, store
<1>2. /\ job[w] \in Claim /\ t = job[w].task /\ job[w] \in granted /\ job[w] \notin executions
      /\ rows[t] \in Row
      /\ \A c \in journaled : c.claim # job[w]
  BY <1>1, <1>9 DEF TypeOK, Between, Claim, IInv, ClaimInv, ClaimsHeld, StartedOnce, Executing,
              JournalInv, OutcomesInHand
<1>3. \A u \in Tasks : u # t => (Ran(u)' <=> Ran(u))
  BY <1>1, <1>2 DEF Ran
<1>4. CASE rows[t].createdAt = job[w].createdAt
  <2>1. IsClaim(rows[t], job[w])
    BY <1>2, <1>4 DEF IInv, ClaimInv, GrantedOnce
  <2>2. rows[t].status \notin Terminal
    <3>1. SUFFICES ASSUME rows[t].status \in Terminal PROVE FALSE
      OBVIOUS
    <3>2. rows[t].worker # None
      BY <1>2, <2>1, NoneAssumption DEF IsClaim, Claim
    <3>3. PICK c \in journaled : c.claim.task = t /\ IsClaim(rows[t], c.claim)
      BY <1>2, <3>1, <3>2 DEF IInv, JournalInv, OutcomeJournaled
    <3>4. c.claim = job[w]
      BY <1>2, <2>1, <3>3, ClaimIdentity, CompletionIdentity DEF TypeOK
    <3>. QED  BY <1>2, <3>4
  <2>3. rows[t].status = "running"
    <3>1. rows[t].worker # None
      BY <1>2, <2>1, NoneAssumption DEF IsClaim, Claim
    <3>. QED  BY <1>2, <2>2, <3>1 DEF IInv, ClaimInv, RowsClaimed, Row, Status
  <2>4. ~Ran(t)
    <3>1. \A c \in executions : c \in granted
      BY DEF IInv, ClaimInv, StartedOnce
    <3>. QED  BY <1>2, <1>4, <3>1 DEF Ran, IInv, ClaimInv, GrantedOnce, SameIncarnation
  <2>5. Ran(t)'
    BY <1>1, <1>2, <1>4 DEF Ran
  <2>. QED  BY <1>1, <1>2, <1>3, <2>3, <2>4, <2>5, Visible DEF Queue!Next
<1>5. CASE rows[t].createdAt # job[w].createdAt
  <2>1. Ran(t)' <=> Ran(t)
    BY <1>1, <1>2, <1>5 DEF Ran
  <2>2. UNCHANGED Queue!vars
    BY <1>1, <1>3, <2>1, Invisible
  <2>. QED  BY <2>2
<1>. QED  BY <1>4, <1>5

\* Storing an outcome settles the task that is still running under this claim.
LEMMA StoreQueue ==
    ASSUME TypeOK, IInv, NEW w \in Workers, SaveResult(w) \/ SaveReplyLost(w)
    PROVE  [Queue!Next]_(Queue!vars)
<1>. DEFINE hand == InHand(w)
<1>0. pc[w] \in Finishing \cup Replaying
  BY DEF SaveResult, SaveReplyLost, Saving, Finishing, Replaying
<1>6. PICK t \in Tasks : t = job[w].task
  BY <1>0, InHandType
<1>1. /\ pc[w] \in Finishing \cup Replaying /\ rows' = [rows EXCEPT ![t] = Completed(@, hand)]
      /\ executions' = executions
  BY <1>6 DEF SaveResult, SaveReplyLost, Saving, ResultWritten, Finishing, Replaying, history
<1>2. /\ hand \in Completion /\ rows[t] \in Row
      /\ hand.status = result[w] /\ hand.claim = job[w] /\ result[w] \in Terminal
      /\ hand \in journaled
  BY <1>1, InHandType DEF TypeOK, InHand, IInv, JournalInv, OutcomesInHand
<1>3. /\ rows'[t] = Completed(rows[t], hand)
      /\ \A u \in Tasks : u # t => rows'[u] = rows[u]
  BY <1>1, <1>2 DEF TypeOK
<1>4. /\ rows'[t].createdAt = rows[t].createdAt
      /\ rows'[t].status = IF IsClaim(rows[t], job[w]) /\ rows[t].status = "running"
                           THEN result[w] ELSE rows[t].status
  BY <1>2, <1>3, CompletedFacts
<1>5. result[w] = "completed" => job[w] \in executions
  BY <1>2 DEF IInv, JournalInv, OutcomesJournaled
<1>. HIDE DEF hand
<1>7. \A u \in Tasks : Ran(u)' <=> Ran(u)
  BY <1>1, <1>3, <1>4 DEF Ran
<1>8. CASE IsClaim(rows[t], job[w]) /\ rows[t].status = "running"
  <2>1. result[w] = "completed" => Ran(t)
    BY <1>5, <1>6, <1>8 DEF Ran, IsClaim
  <2>2. result[w] \in Queue!Outcomes
    BY <1>2 DEF Terminal, Queue!Outcomes
  <2>. QED  BY <1>2, <1>3, <1>4, <1>7, <1>8, <2>1, <2>2, Visible DEF Queue!Next
<1>9. CASE ~(IsClaim(rows[t], job[w]) /\ rows[t].status = "running")
  <2>1. UNCHANGED Queue!vars
    BY <1>3, <1>4, <1>7, <1>9, Invisible
  <2>. QED  BY <2>1
<1>. QED  BY <1>8, <1>9

\* Every other step is invisible.
LEMMA QuietQueue ==
    ASSUME UNCHANGED <<rows, executions>>
    PROVE  UNCHANGED Queue!vars
<1>1. \A t \in Tasks : rows'[t].status = rows[t].status /\ (Ran(t)' <=> Ran(t))
  BY DEF Ran
<1>. QED  BY <1>1, Invisible

LEMMA StepQueue ==
    ASSUME TypeOK, IInv, [Next]_vars
    PROVE  [Queue!Next]_(Queue!vars)
<1>1. CASE ClientStep
  BY <1>1, ClientQueue
<1>2. ASSUME NEW w \in Workers, WorkerStep(w) PROVE [Queue!Next]_(Queue!vars)
  <2>1. CASE ClaimCommit(w) \/ ClaimReplyLost(w)
    BY <2>1, WrittenQueue
  <2>2. CASE SetupRuns(w)
    BY <2>2, SetupQueue
  <2>3. CASE SaveResult(w) \/ SaveReplyLost(w)
    BY <2>3, StoreQueue
  <2>4. CASE \/ Start(w) \/ StopSignal(w) \/ Crash(w) \/ Wake(w) \/ IdleTimeout(w)
             \/ CancelSeen(w) \/ Exit(w) \/ SaveGivesUp(w) \/ RecoverStep(w)
    <3>1. UNCHANGED <<rows, executions>>
      BY <2>4 DEF Start, StopSignal, Crash, Wake, IdleTimeout, CancelSeen, Exit, SaveGivesUp,
                  RecoverStep, RecoverGone, RecoverRead, RecoverDone, Leave, store, history
    <3>. QED  BY <3>1, QuietQueue
  <2>5. CASE \/ ClaimLock(w) \/ ClaimAborted(w) \/ ClaimNone(w)
             \/ Subscribe(w) \/ SubscribeOrCheckFails(w) \/ CheckCancel(w)
             \/ \E created \in BOOLEAN : SetupFails(w, created)
             \/ \E o \in {"completed", "failed"} : ExecEnds(w, o)
             \/ JournalSave(w) \/ Cleanup(w) \/ Acknowledge(w)
    <3>1. UNCHANGED <<rows, executions>>
      BY <2>5 DEF ClaimLock, ClaimAborted, ClaimNone, Leave, Subscribe, SubscribeOrCheckFails,
                  CheckCancel, SetupFails, ExecEnds, JournalSave, Cleanup, Acknowledge,
                  store, history
    <3>. QED  BY <3>1, QuietQueue
  <2>. QED
    BY <1>2, <2>1, <2>2, <2>3, <2>4, <2>5
       DEF WorkerStep, Progress, ClaimStep, ProcessStep, FinishStep
<1>3. ASSUME NEW c \in payloads, OrphanEnds(c) PROVE [Queue!Next]_(Queue!vars)
  <2>1. UNCHANGED <<rows, executions>>
    BY <1>3 DEF OrphanEnds, store, history
  <2>. QED  BY <2>1, QuietQueue
<1>4. CASE UNCHANGED vars
  <2>1. UNCHANGED <<rows, executions>>
    BY <1>4 DEF vars
  <2>. QED  BY <2>1, QuietQueue
<1>. QED  BY <1>1, <1>2, <1>3, <1>4 DEF Next

\* The workers implement the queue, crashes, replays, shared directories and
\* lost answers included.
THEOREM Implements == Spec => QueueSpec
<1>1. TypeOK /\ IInv /\ [Next]_vars => [Queue!Next]_(Queue!vars)
  BY StepQueue
<1>2. Spec => [](TypeOK /\ IInv)
  BY TypeCorrect, Inductive, PTL
<1>. QED  BY InitQueue, <1>1, <1>2, PTL DEF Spec, QueueSpec, Queue!Spec
=============================================================================
