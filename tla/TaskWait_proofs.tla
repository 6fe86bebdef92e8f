---------------------------- MODULE TaskWait_proofs ----------------------------
(***************************************************************************)
(* Proofs about TaskWait, for any tasks and command lines, with any faults: *)
(* what wait reports and how it ends is right.                             *)
(***************************************************************************)
EXTENDS TaskWait, SequenceTheorems, FiniteSetTheorems, TLAPS

-----------------------------------------------------------------------------
(* Sequences.                                                              *)

LEMMA ToSetIs ==
    ASSUME NEW S, NEW s \in Seq(S)
    PROVE  /\ DOMAIN s = 1..Len(s) /\ Len(s) \in Nat
           /\ \A i \in 1..Len(s) : s[i] \in S /\ s[i] \in ToSet(s)
           /\ \A e \in ToSet(s) : e \in S /\ \E i \in 1..Len(s) : s[i] = e
           /\ s = <<>> <=> Len(s) = 0
<1>1. DOMAIN s = 1..Len(s) /\ Len(s) \in Nat /\ s \in [1..Len(s) -> S]
  BY LenProperties
<1>2. s = <<>> <=> Len(s) = 0
  BY EmptySeq
<1>. QED  BY <1>1, <1>2 DEF ToSet

\* An element is appended at the end.
LEMMA AppendIs ==
    ASSUME NEW S, NEW s \in Seq(S), NEW e \in S
    PROVE  /\ Append(s, e) \in Seq(S) /\ Append(s, e) # <<>>
           /\ DOMAIN s = 1..Len(s) /\ Len(s) \in Nat
           /\ DOMAIN Append(s, e) = 1..Len(s) + 1
           /\ \A i \in 1..Len(s) : Append(s, e)[i] = s[i]
           /\ Append(s, e)[Len(s) + 1] = e
<1>1. Append(s, e) \in Seq(S) /\ Append(s, e) # <<>> /\ Len(Append(s, e)) = Len(s) + 1
      /\ (\A i \in 1..Len(s) : Append(s, e)[i] = s[i]) /\ Append(s, e)[Len(s) + 1] = e
  BY AppendProperties
<1>2. DOMAIN s = 1..Len(s) /\ Len(s) \in Nat
  BY LenProperties
<1>3. DOMAIN Append(s, e) = 1..Len(Append(s, e))
  BY <1>1, LenProperties
<1>. QED  BY <1>1, <1>2, <1>3

\* Lists without duplicates and without a common element make one without duplicates.
LEMMA ConcatIs ==
    ASSUME NEW S, NEW s \in Seq(S), NEW r \in Seq(S),
           IsInjective(s), IsInjective(r), ToSet(s) \cap ToSet(r) = {}
    PROVE  /\ s \o r \in Seq(S) /\ IsInjective(s \o r)
           /\ ToSet(s \o r) = ToSet(s) \cup ToSet(r)
           /\ s \o r = <<>> => s = <<>> /\ r = <<>>
<1>1. /\ s \o r \in Seq(S)
      /\ Len(s \o r) = Len(s) + Len(r)
      /\ \A i \in 1..Len(s) + Len(r) : (s \o r)[i] = IF i <= Len(s) THEN s[i] ELSE r[i - Len(s)]
  BY ConcatProperties
<1>2. DOMAIN s = 1..Len(s) /\ DOMAIN r = 1..Len(r) /\ DOMAIN (s \o r) = 1..Len(s) + Len(r)
  BY <1>1, ToSetIs
<1>3. PICK m \in Nat, n \in Nat : m = Len(s) /\ n = Len(r)
  BY ToSetIs
<1>4. ASSUME NEW i \in 1..m + n
      PROVE  \/ i \in 1..m /\ (s \o r)[i] = s[i]
             \/ i - m \in 1..n /\ (s \o r)[i] = r[i - m]
  BY <1>1, <1>3
<1>5. \A i \in 1..m : i \in 1..m + n /\ (s \o r)[i] = s[i]
  BY <1>1, <1>3
<1>6. ASSUME NEW i \in 1..n
      PROVE  i + m \in 1..m + n /\ (s \o r)[i + m] = r[i]
  <2>1. i + m \in 1..m + n /\ ~(i + m <= m) /\ i + m - m = i
    OBVIOUS
  <2>. QED  BY <2>1, <1>1, <1>3
<1>7. ToSet(s \o r) = ToSet(s) \cup ToSet(r)
  <2>1. \A e \in ToSet(s \o r) : e \in ToSet(s) \cup ToSet(r)
    BY <1>2, <1>3, <1>4 DEF ToSet
  <2>2. \A e \in ToSet(s) : e \in ToSet(s \o r)
    BY <1>2, <1>3, <1>5 DEF ToSet
  <2>3. \A e \in ToSet(r) : e \in ToSet(s \o r)
    BY <1>2, <1>3, <1>6 DEF ToSet
  <2>. QED  BY <2>1, <2>2, <2>3
<1>8. IsInjective(s \o r)
  <2>. SUFFICES ASSUME NEW i \in 1..m + n, NEW j \in 1..m + n, (s \o r)[i] = (s \o r)[j]
                PROVE  i = j
    BY <1>2, <1>3 DEF IsInjective
  <2>1. CASE i \in 1..m /\ (s \o r)[i] = s[i]
    <3>1. s[i] \in ToSet(s)
      BY <2>1, <1>2, <1>3 DEF ToSet
    <3>2. CASE j \in 1..m /\ (s \o r)[j] = s[j]
      BY <2>1, <3>2, <1>2, <1>3 DEF IsInjective
    <3>3. CASE j - m \in 1..n /\ (s \o r)[j] = r[j - m]
      <4>1. r[j - m] \in ToSet(r)
        BY <3>3, <1>2, <1>3 DEF ToSet
      <4>. QED  BY <2>1, <3>1, <3>3, <4>1
    <3>. QED  BY <3>2, <3>3, <1>4
  <2>2. CASE i - m \in 1..n /\ (s \o r)[i] = r[i - m]
    <3>1. r[i - m] \in ToSet(r)
      BY <2>2, <1>2, <1>3 DEF ToSet
    <3>2. CASE j \in 1..m /\ (s \o r)[j] = s[j]
      <4>1. s[j] \in ToSet(s)
        BY <3>2, <1>2, <1>3 DEF ToSet
      <4>. QED  BY <2>2, <3>1, <3>2, <4>1
    <3>3. CASE j - m \in 1..n /\ (s \o r)[j] = r[j - m]
      <4>1. i - m = j - m
        BY <2>2, <3>3, <1>2, <1>3 DEF IsInjective
      <4>. QED  BY <4>1
    <3>. QED  BY <3>2, <3>3, <1>4
  <2>. QED  BY <2>1, <2>2, <1>4
<1>9. s \o r = <<>> => s = <<>> /\ r = <<>>
  BY ConcatEqualIffEmpty
<1>. QED  BY <1>1, <1>7, <1>8, <1>9

\* A list of the tasks that are new to the waiter has no duplicate and leaves none out.
LEMMA ListedIs ==
    ASSUME NEW new \in Listed
    PROVE  /\ new \in Seq(Tasks) /\ IsInjective(new)
           /\ ToSet(new) \subseteq Unseen
           /\ Unseen # {} => new # <<>>
<1>1. IsFiniteSet(Unseen) /\ Unseen \subseteq Tasks
  BY WaitAssumption, FS_Subset DEF Unseen
<1>2. PICK n \in Nat : n = Cardinality(Unseen)
  BY <1>1, FS_CardinalityType
<1>3. new \in [1..n -> Unseen] /\ \A i, j \in 1..n : i # j => new[i] # new[j]
  BY <1>2 DEF Listed, SetToSeqs
<1>4. new \in Seq(Unseen) /\ Len(new) = n
  BY <1>3
<1>5. new \in Seq(Tasks)
  BY <1>1, <1>4, SeqMonotonic
<1>6. Unseen # {} => n # 0
  BY <1>1, <1>2, FS_EmptySet
<1>7. DOMAIN new = 1..n
  BY <1>3
<1>8. IsInjective(new) /\ ToSet(new) \subseteq Unseen
  BY <1>3, <1>7 DEF IsInjective, ToSet
<1>9. Unseen # {} => new # <<>>
  BY <1>4, <1>6, EmptySeq
<1>. QED  BY <1>5, <1>8, <1>9
-----------------------------------------------------------------------------
(* The watch.                                                              *)

\* What follows a check: only a check that is done ends the watch so, only the last look
\* closes it, and only a transient failure has it check again.
LEMMA CheckedEnds ==
    ASSUME WatchTypeOK, NEW o \in {"transient", "permanent", "done", "continue"}, Checked(o)
    PROVE  /\ WatchTypeOK' /\ watch = "check"
           /\ lastCheck' = lastCheck
           /\ watch' = "done" => o = "done"
           /\ watch' = "closed" => o = "continue" /\ lastCheck
           /\ watch' = "check" => o = "transient"
BY WatchAssumption DEF Checked, AfterCheck, WatchTypeOK, Returned

\* The loop goes on to a check, or ends with its context.
LEMMA SelectEnds ==
    ASSUME WatchTypeOK, Select
    PROVE  /\ WatchTypeOK' /\ watch \notin Returned
           /\ lastCheck => lastCheck'
           /\ watch' \notin {"done", "closed"}
BY WatchAssumption DEF Select, SelectHint, SelectClosed, SelectTick, ContextEnds, WatchTypeOK, Returned

LEMMA AroundKeeps ==
    ASSUME WatchTypeOK, Hint \/ ListenerCloses \/ EndContext
    PROVE  WatchTypeOK' /\ watch' = watch /\ lastCheck' = lastCheck
BY WatchAssumption DEF Hint, ListenerCloses, EndContext, WatchTypeOK, Returned
-----------------------------------------------------------------------------
(* The tasks change.                                                       *)

\* What a row must be: a row with an exit code that fits its status.
Right(row) ==
    /\ row \in Row
    /\ row.code # None => row.status \in {"completed", "failed"}
    /\ row.status = "completed" => row.code # None
    /\ row.status = "failed" => row.code = 7

\* Whatever becomes of a task, wait stays right: no history shrinks, and in the last look
\* a task that starts again is a task that has not ended.
LEMMA ChangeKeeps ==
    ASSUME WaitInv, NEW t \in Tasks, NEW row, Right(row), born' \in 0..MaxBorn,
           Change(t, row)
    PROVE  WaitInv'
<1>. USE DEF WaitInv
<1>1. /\ rows' = [rows EXCEPT ![t] = row] /\ rows \in [Tasks -> Row] /\ row \in Row
      /\ succeeded \subseteq succeeded' /\ succeeded' \subseteq Tasks
      /\ unsettled \subseteq unsettled' /\ unsettled' \subseteq Tasks
      /\ EndedWell(row) => t \in succeeded'
      /\ lastCheck /\ ~Reportable(row) => t \in unsettled'
      /\ watch \notin Returned
      /\ UNCHANGED <<watchVars, waiter, faults>>
  BY DEF Change, TypeOK, Right
<1>2. TypeOK'
  <2>1. rows' \in [Tasks -> Row]
    BY <1>1
  <2>. QED  BY <1>1, <2>1 DEF TypeOK, WatchTypeOK, watchVars, waiter
<1>3. FirstFailure' /\ ReportedOnce'
  BY <1>1 DEF FirstFailure, ReportedOnce, waiter
<1>4. LooksBeforeFailing'
  BY <1>1 DEF LooksBeforeFailing, watchVars, Returned
<1>5. RowsRight'
  <2>. SUFFICES ASSUME NEW u \in Tasks
                PROVE  /\ rows'[u].code # None => rows'[u].status \in {"completed", "failed"}
                       /\ rows'[u].status = "completed" => rows'[u].code # None
                       /\ EndedWell(rows'[u]) => u \in succeeded'
                       /\ rows'[u].status = "failed" => rows'[u].code = 7
    BY DEF RowsRight
  <2>1. CASE u = t
    BY <1>1, <2>1 DEF Right
  <2>2. CASE u # t
    <3>1. rows'[u] = rows[u]
      BY <1>1, <2>2
    <3>. QED  BY <1>1, <3>1 DEF RowsRight
  <2>. QED  BY <2>1, <2>2
<1>6. ReportsRight'
  BY <1>1 DEF ReportsRight, ByTag, watchVars, waiter, Returned
<1>7. LastLook'
  <2>1. ASSUME lastCheck', NEW u \in Tasks, ~Reportable(rows'[u])
        PROVE  u \in unsettled'
    <3>1. CASE u = t
      BY <1>1, <2>1, <3>1 DEF watchVars
    <3>2. CASE u # t
      <4>1. rows'[u] = rows[u]
        BY <1>1, <3>2
      <4>. QED  BY <1>1, <2>1, <4>1 DEF LastLook, watchVars
    <3>. QED  BY <3>1, <3>2
  <2>2. ASSUME lastCheck', watch' = "check", NEW i \in 1..next' - 1, order'[i] \in remaining'
        PROVE  order'[i] \in unsettled'
    <3>1. lastCheck /\ watch = "check" /\ i \in 1..next - 1 /\ order[i] \in remaining
      BY <1>1, <2>2 DEF watchVars, waiter
    <3>2. order[i] \in unsettled /\ order' = order
      BY <1>1, <3>1 DEF LastLook, waiter
    <3>. QED  BY <1>1, <3>2
  <2>. QED  BY <2>1, <2>2 DEF LastLook
<1>. QED  BY <1>2, <1>3, <1>4, <1>5, <1>6, <1>7

LEMMA TaskStepKeeps ==
    ASSUME WaitInv, TaskStep
    PROVE  WaitInv'
<1>. PICK t \in Tasks : \/ Enqueue(t) \/ Start(t) \/ Finish(t)
                        \/ CancelPending(t) \/ Heartbeat(t) \/ RemoveTask(t)
  BY DEF TaskStep
<1>1. /\ rows \in [Tasks -> Row] /\ rows[t] \in Row
      /\ rows[t].code # None => rows[t].status \in {"completed", "failed"}
      /\ born \in 0..MaxBorn
  BY DEF WaitInv, TypeOK, RowsRight
<1>2. MaxBorn \in Nat /\ None \notin ExitCodes
  BY WaitAssumption
<1>. USE DEF Row, Terminal, ExitCodes
<1>3. CASE Enqueue(t)
  <2>1. Right([status |-> "pending", code |-> None, born |-> born + 1]) /\ born' \in 0..MaxBorn
    BY <1>1, <1>2, <1>3 DEF Enqueue, Right
  <2>. QED  BY <1>3, <2>1, ChangeKeeps DEF Enqueue
<1>4. CASE Start(t)
  <2>1. Right([rows[t] EXCEPT !.status = "running"]) /\ born' \in 0..MaxBorn
    BY <1>1, <1>4 DEF Start, Right
  <2>. QED  BY <1>4, <2>1, ChangeKeeps DEF Start
<1>5. CASE Finish(t)
  <2>1. PICK s \in {<<"completed", 0>>, <<"failed", 7>>} :
            Change(t, [rows[t] EXCEPT !.status = s[1], !.code = s[2]])
    BY <1>5 DEF Finish
  <2>2. (s[1] = "completed" /\ s[2] = 0) \/ (s[1] = "failed" /\ s[2] = 7)
    OBVIOUS
  <2>3. Right([rows[t] EXCEPT !.status = s[1], !.code = s[2]]) /\ born' \in 0..MaxBorn
    BY <1>1, <1>2, <1>5, <2>2 DEF Finish, Right
  <2>. QED  BY <2>1, <2>3, ChangeKeeps
<1>6. CASE CancelPending(t)
  <2>1. Right([rows[t] EXCEPT !.status = "cancelled"]) /\ born' \in 0..MaxBorn
    BY <1>1, <1>6 DEF CancelPending, Right
  <2>. QED  BY <1>6, <2>1, ChangeKeeps DEF CancelPending
<1>7. CASE Heartbeat(t)
  <2>. DEFINE beat == IF rows[t].status = "running" THEN "stale" ELSE "running"
  <2>1. Right([rows[t] EXCEPT !.status = beat]) /\ born' \in 0..MaxBorn
    BY <1>1, <1>7 DEF Heartbeat, Right
  <2>2. Change(t, [rows[t] EXCEPT !.status = beat])
    BY <1>7 DEF Heartbeat
  <2>. QED  BY <2>1, <2>2, ChangeKeeps
<1>8. CASE RemoveTask(t)
  <2>1. Right(NoRow) /\ born' \in 0..MaxBorn
    BY <1>1, <1>8 DEF RemoveTask, Right, NoRow
  <2>. QED  BY <1>8, <2>1, ChangeKeeps DEF RemoveTask
<1>. QED  BY <1>3, <1>4, <1>5, <1>6, <1>7, <1>8
-----------------------------------------------------------------------------
(* The check.                                                              *)

\* Only the waiter moves on; what it has reported stays.
LEMMA QuietStep ==
    ASSUME WaitInv, UNCHANGED <<table, command, order, remaining, failCode, reports>>,
           WatchTypeOK', faults' \in 0..MaxFaults, next' \in 0..Len(order) + 1,
           order = <<>> => next' = 0,
           lastCheck' = lastCheck,
           watch' = "done" => IF command.any THEN reports # <<>> ELSE remaining = {},
           watch' = "closed" => ToSet(order) \cap unsettled # {},
           lastCheck /\ watch' = "check" =>
               \A i \in 1..next' - 1 : order[i] \in remaining => order[i] \in unsettled
    PROVE  WaitInv'
<1>. USE DEF WaitInv, table
<1>1. TypeOK'
  BY DEF TypeOK
<1>2. FirstFailure' /\ ReportedOnce'
  BY DEF FirstFailure, ReportedOnce
<1>3. LooksBeforeFailing'
  BY DEF LooksBeforeFailing
<1>4. RowsRight'
  BY DEF RowsRight
<1>5. ReportsRight'
  BY DEF ReportsRight, ByTag
<1>6. LastLook'
  BY DEF LastLook
<1>. QED  BY <1>1, <1>2, <1>3, <1>4, <1>5, <1>6

\* With no task there is nothing to check: the wait is by tag, before discovery.
LEMMA Bounds ==
    ASSUME WaitInv
    PROVE  /\ order \in Seq(Tasks) /\ Len(order) \in Nat /\ WatchTypeOK
           /\ faults \in 0..MaxFaults
           /\ next \in Int /\ next \in 0..Len(order) + 1
           /\ order = <<>> <=> Len(order) = 0
           /\ order = <<>> => ByTag /\ next = 0
           /\ \A i \in 1..Len(order) : order[i] \in Tasks /\ order[i] \in ToSet(order)
           /\ \A t \in ToSet(order) : t \in Tasks /\ \E i \in 1..Len(order) : order[i] = t
<1>1. /\ order \in Seq(Tasks) /\ next \in 0..Len(order) + 1 /\ WatchTypeOK
      /\ faults \in 0..MaxFaults
  BY DEF WaitInv, TypeOK
<1>2. order = <<>> => ByTag /\ next = 0
  BY DEF WaitInv, ReportsRight
<1>. QED  BY <1>1, <1>2, ToSetIs

LEMMA BeginKeeps ==
    ASSUME WaitInv, Begin
    PROVE  WaitInv'
<1>1. next' = 1 /\ order # <<>> /\ 1 \in 0..Len(order) + 1 /\ 1..1 - 1 = {}
  BY Bounds DEF Begin
<1>2. /\ WatchTypeOK' /\ watch = "check" /\ watch' = watch /\ lastCheck' = lastCheck
      /\ UNCHANGED <<table, faults, command, order, remaining, failCode, reports>>
  BY Bounds DEF Begin, WatchTypeOK, watchVars
<1>. QED  BY <1>1, <1>2, Bounds, QuietStep

\* Without a task, or when it cannot listen for one, wait ends with the error.
LEMMA NoneFoundKeeps ==
    ASSUME WaitInv, NoneFound \/ DiscoverFails
    PROVE  WaitInv'
<1>1. Checked("permanent") /\ next' = next
      /\ UNCHANGED <<table, command, order, remaining, failCode, reports>>
  BY DEF NoneFound, DiscoverFails, waiter
<1>2. WatchTypeOK' /\ watch' \notin {"done", "closed", "check"} /\ lastCheck' = lastCheck
  BY <1>1, Bounds, CheckedEnds
<1>3. faults' \in 0..MaxFaults
  BY Bounds, WaitAssumption DEF NoneFound, DiscoverFails
<1>. QED  BY <1>1, <1>2, <1>3, Bounds, QuietStep

\* A task that was reported already, or is not to be reported yet, is passed over.
LEMMA PassKeeps ==
    ASSUME WaitInv, Skip \/ CheckRunning
    PROVE  WaitInv'
<1>1. /\ Due /\ next' = next + 1 /\ UNCHANGED watchVars
      /\ UNCHANGED <<table, faults, command, order, remaining, failCode, reports>>
      /\ order[next] \in remaining => ~Reportable(rows[order[next]])
  BY DEF Skip, CheckRunning
<1>2. PICK n \in Nat : n = Len(order)
  BY Bounds
<1>3. watch = "check" /\ next \in 1..n
  BY <1>1, <1>2 DEF Due
<1>4. next' \in 0..n + 1 /\ n # 0 /\ (\A i \in 1..next' - 1 : i \in 1..next - 1 \/ i = next)
  BY <1>1, <1>3
<1>5. ASSUME lastCheck, NEW i \in 1..next' - 1, order[i] \in remaining
      PROVE  order[i] \in unsettled
  <2>1. CASE i \in 1..next - 1
    BY <1>3, <1>5, <2>1 DEF WaitInv, LastLook
  <2>2. CASE i = next
    <3>1. order[i] \in Tasks /\ ~Reportable(rows[order[i]])
      BY <1>1, <1>2, <1>3, <1>5, <2>2, Bounds
    <3>. QED  BY <1>5, <3>1 DEF WaitInv, LastLook
  <2>. QED  BY <1>4, <2>1, <2>2
<1>6. WatchTypeOK' /\ watch' = "check" /\ lastCheck' = lastCheck
  BY <1>1, <1>3, Bounds DEF WatchTypeOK, watchVars
<1>7. next' \in 0..Len(order) + 1 /\ order # <<>>
  BY <1>2, <1>4, Bounds
<1>. QED  BY <1>1, <1>5, <1>6, <1>7, Bounds, QuietStep

\* A check that ends, or fails and starts again.
LEMMA CheckFailsKeeps ==
    ASSUME WaitInv, CheckFails
    PROVE  WaitInv'
<1>1. /\ WatchTypeOK' /\ watch' \notin {"done", "closed"} /\ lastCheck' = lastCheck /\ next' = 0
      /\ UNCHANGED <<table, command, order, remaining, failCode, reports>>
  BY Bounds, CheckedEnds DEF CheckFails
<1>2. faults' \in 0..MaxFaults
  BY Bounds, WaitAssumption DEF CheckFails
<1>3. 0 \in 0..Len(order) + 1 /\ 1..0 - 1 = {}
  BY Bounds
<1>. QED  BY <1>1, <1>2, <1>3, QuietStep

LEMMA CheckDoneKeeps ==
    ASSUME WaitInv, CheckDone
    PROVE  WaitInv'
<1>1. /\ watch = "check" /\ next = Len(order) + 1 /\ next' = 0
      /\ UNCHANGED <<table, faults, command, order, remaining, failCode, reports>>
  BY DEF CheckDone, Checked
<1>2. PICK o \in {"done", "continue"} : Checked(o) /\ (o = "done" <=> remaining = {})
  BY DEF CheckDone
<1>3. PICK n \in Nat : n = Len(order)
  BY Bounds
<1>4. n # 0 /\ 0 \in 0..Len(order) + 1 /\ 1..next - 1 = 1..n /\ 1..0 - 1 = {}
  BY <1>1, <1>3, Bounds
<1>5. /\ WatchTypeOK' /\ lastCheck' = lastCheck /\ watch' # "check"
      /\ watch' = "done" => remaining = {}
      /\ watch' = "closed" => remaining # {} /\ lastCheck
  BY <1>2, Bounds, CheckedEnds
<1>6. ASSUME watch' = "done"
      PROVE  IF command.any THEN reports # <<>> ELSE remaining = {}
  <2>1. order[1] \in ToSet(order) \ remaining
    BY <1>3, <1>4, <1>5, <1>6, Bounds
  <2>2. PICK i \in DOMAIN reports : reports[i].task = order[1]
    BY <2>1 DEF WaitInv, ReportsRight
  <2>3. reports \in Seq([task : Tasks, code : ExitCodes])
    BY DEF WaitInv, TypeOK
  <2>4. reports # <<>>
    BY <2>2, <2>3, ToSetIs
  <2>. QED  BY <1>5, <1>6, <2>4
<1>7. ASSUME watch' = "closed"
      PROVE  ToSet(order) \cap unsettled # {}
  <2>1. PICK t \in remaining : TRUE
    BY <1>5, <1>7
  <2>2. t \in ToSet(order)
    BY DEF WaitInv, TypeOK
  <2>3. PICK i \in 1..n : order[i] = t
    BY <1>3, <2>2, Bounds
  <2>4. t \in unsettled
    BY <1>1, <1>4, <1>5, <1>7, <2>3 DEF WaitInv, LastLook
  <2>. QED  BY <2>2, <2>4
<1>. QED  BY <1>1, <1>4, <1>5, <1>6, <1>7, Bounds, QuietStep

\* Discovery adds tasks that are waited for from now on, each of them once.
LEMMA DiscoverKeeps ==
    ASSUME WaitInv, Discover
    PROVE  WaitInv'
<1>. PICK new \in Listed : order' = order \o new /\ remaining' = remaining \cup ToSet(new)
  BY DEF Discover
<1>1. /\ watch = "check" /\ next' = 1
      /\ ByTag /\ (order # <<>> \/ Unseen # {})
      /\ UNCHANGED <<watchVars, table, faults, command, failCode, reports>>
  BY DEF Discover
<1>2. /\ new \in Seq(Tasks) /\ IsInjective(new) /\ ToSet(new) \cap ToSet(order) = {}
      /\ Unseen # {} => new # <<>>
  BY ListedIs DEF Unseen
<1>3. /\ order' \in Seq(Tasks) /\ IsInjective(order')
      /\ ToSet(order') = ToSet(order) \cup ToSet(new)
      /\ order' # <<>>
  <2>1. order \in Seq(Tasks) /\ IsInjective(order)
    BY DEF WaitInv, TypeOK
  <2>. QED  BY <1>1, <1>2, <2>1, ConcatIs
<1>. USE DEF WaitInv, table, watchVars
<1>4. TypeOK'
  <2>1. next' \in 0..Len(order') + 1
    BY <1>1, <1>3, ToSetIs
  <2>2. remaining' \subseteq ToSet(order')
    BY <1>3 DEF TypeOK
  <2>. QED  BY <1>1, <1>3, <2>1, <2>2 DEF TypeOK, WatchTypeOK
<1>5. FirstFailure' /\ ReportedOnce' /\ LooksBeforeFailing' /\ RowsRight'
  BY <1>1 DEF FirstFailure, ReportedOnce, LooksBeforeFailing, RowsRight
<1>6. ReportsRight'
  <2>1. ToSet(order') \ remaining' = ToSet(order) \ remaining
    BY <1>2, <1>3
  <2>. QED  BY <1>1, <1>3, <2>1 DEF ReportsRight
<1>7. LastLook'
  <2>1. 1..1 - 1 = {}
    OBVIOUS
  <2>. QED  BY <1>1, <2>1 DEF LastLook
<1>. QED  BY <1>4, <1>5, <1>6, <1>7
-----------------------------------------------------------------------------
(* The report.                                                             *)

\* The status of a row that wait may report, and success only where it is deserved.
LEMMA ExitCodeIs ==
    ASSUME WaitInv, NEW t \in Tasks, Reportable(rows[t])
    PROVE  /\ ExitCode(rows[t]) \in ExitCodes
           /\ ExitCode(rows[t]) = 0 => t \in succeeded
<1>1. /\ rows[t] \in Row
      /\ rows[t].code # None => rows[t].status \in {"completed", "failed"}
      /\ rows[t].status = "completed" => rows[t].code # None
      /\ rows[t].status = "failed" => rows[t].code = 7
      /\ EndedWell(rows[t]) => t \in succeeded
  BY DEF WaitInv, TypeOK, RowsRight
<1>2. None \notin ExitCodes
  BY WaitAssumption
<1>3. CASE rows[t].status = "absent"
  BY <1>1, <1>3 DEF ExitCode, ExitCodes
<1>4. CASE rows[t].status \in Terminal /\ rows[t].code # None
  <2>1. ExitCode(rows[t]) = rows[t].code /\ rows[t].code \in ExitCodes
    BY <1>1, <1>4 DEF ExitCode, Row, Terminal
  <2>2. rows[t].code = 0 => rows[t].status = "completed"
    BY <1>1, <1>4
  <2>. QED  BY <1>1, <2>1, <2>2 DEF EndedWell
<1>5. CASE rows[t].status \in Terminal /\ rows[t].code = None
  <2>1. rows[t].status # "failed" /\ rows[t].status # "completed"
    BY <1>1, <1>2, <1>5 DEF ExitCodes
  <2>2. ExitCode(rows[t]) = 1 \/ (ExitCode(rows[t]) = 0 /\ rows[t].status = "cancelled")
    BY <1>5, <2>1 DEF ExitCode, Terminal
  <2>. QED  BY <1>1, <1>5, <2>2 DEF EndedWell, ExitCodes
<1>. QED  BY <1>3, <1>4, <1>5 DEF Reportable

\* A report is made once, of a task that ends being waited for, and counts for the
\* exit code only if no failure came before.
LEMMA CheckEndedKeeps ==
    ASSUME WaitInv, CheckEnded
    PROVE  WaitInv'
<1>. DEFINE t == order[next]
            code == ExitCode(rows[t])
            n == Len(order)
            m == Len(reports)
            Report == [task : Tasks, code : ExitCodes]
<1>0. PICK e : e = [task |-> t, code |-> code]
  OBVIOUS
<1>1. /\ watch = "check" /\ next \in 1..n /\ t \in remaining /\ Reportable(rows[t])
      /\ remaining' = remaining \ {t}
      /\ failCode' = FirstNonZero(failCode, code)
      /\ reports' = Append(reports, e)
      /\ UNCHANGED <<table, faults, command, order>>
      /\ \/ command.any /\ Checked("done") /\ next' = 0
         \/ ~command.any /\ UNCHANGED watchVars /\ next' = next + 1
  BY <1>0 DEF CheckEnded, Due
<1>2. n \in Nat /\ n # 0 /\ t \in Tasks /\ t \in ToSet(order) /\ order # <<>>
  BY <1>1, Bounds
<1>3. code \in ExitCodes /\ (code = 0 => t \in succeeded)
  BY <1>1, <1>2, ExitCodeIs
<1>4. reports \in Seq(Report) /\ e \in Report /\ e.task = t /\ e.code = code
  BY <1>0, <1>2, <1>3 DEF WaitInv, TypeOK
<1>5. /\ reports' \in Seq(Report) /\ reports' # <<>>
      /\ m \in Nat /\ DOMAIN reports = 1..m /\ DOMAIN reports' = 1..m + 1
      /\ \A i \in 1..m : reports'[i] = reports[i]
      /\ reports'[m + 1] = e
  BY <1>1, <1>4, AppendIs
<1>6. \A i \in DOMAIN reports' : i \in 1..m \/ i = m + 1
  BY <1>5
<1>7. \A i \in 1..m : /\ i \in DOMAIN reports' /\ i \in DOMAIN reports
                      /\ reports'[i] = reports[i]
                      /\ reports[i].task \in ToSet(order) \ remaining
                      /\ reports[i].task # t
                      /\ reports[i].code = 0 => reports[i].task \in succeeded
  BY <1>1, <1>5 DEF WaitInv, ReportsRight
<1>8. /\ WatchTypeOK' /\ lastCheck' = lastCheck /\ watch' # "closed"
      /\ watch' = "done" => command.any
      /\ watch' = "check" => ~command.any /\ next' = next + 1
      /\ next' \in 0..n + 1
  <2>1. CASE command.any /\ Checked("done") /\ next' = 0
    <3>1. WatchTypeOK' /\ lastCheck' = lastCheck /\ watch' \notin {"closed", "check"}
      BY <2>1, Bounds, CheckedEnds
    <3>. QED  BY <2>1, <3>1, <1>2
  <2>2. CASE ~command.any /\ UNCHANGED watchVars /\ next' = next + 1
    BY <2>2, <1>1, <1>2, Bounds DEF WatchTypeOK, watchVars
  <2>. QED  BY <1>1, <2>1, <2>2
<1>9. TypeOK'
  <2>1. failCode' \in ExitCodes
    BY <1>1, <1>3 DEF FirstNonZero, WaitInv, TypeOK
  <2>. QED  BY <1>1, <1>5, <1>8, <2>1 DEF WaitInv, TypeOK, table
<1>10. FirstFailure'
  <2>1. CASE failCode = 0 /\ \A i \in DOMAIN reports : reports[i].code = 0
    <3>1. failCode' = code
      BY <1>1, <2>1 DEF FirstNonZero
    <3>2. CASE code = 0
      BY <1>4, <1>5, <1>6, <1>7, <2>1, <3>1, <3>2 DEF FirstFailure
    <3>3. CASE code # 0
      <4>1. m + 1 \in DOMAIN reports' /\ \A j \in 1..m + 1 - 1 : j \in 1..m
        BY <1>5
      <4>2. reports'[m + 1].code = failCode' /\ \A j \in 1..m + 1 - 1 : reports'[j].code = 0
        BY <1>4, <1>5, <1>7, <2>1, <3>1, <4>1
      <4>. QED  BY <3>1, <3>3, <4>1, <4>2 DEF FirstFailure
    <3>. QED  BY <3>2, <3>3
  <2>2. CASE failCode # 0
    <3>1. PICK i \in DOMAIN reports : /\ reports[i].code = failCode
                                      /\ \A j \in 1..i - 1 : reports[j].code = 0
      BY <2>2 DEF WaitInv, FirstFailure
    <3>2. failCode' = failCode
      BY <1>1, <2>2 DEF FirstNonZero
    <3>3. i \in 1..m /\ \A j \in 1..i - 1 : j \in 1..m
      BY <1>5
    <3>4. i \in DOMAIN reports' /\ reports'[i].code = failCode' /\ failCode' # 0
          /\ \A j \in 1..i - 1 : reports'[j].code = 0
      BY <1>7, <2>2, <3>1, <3>2, <3>3
    <3>. QED  BY <3>4 DEF FirstFailure
  <2>. QED  BY <2>1, <2>2 DEF WaitInv, FirstFailure
<1>11. ReportedOnce'
  <2>. SUFFICES ASSUME NEW i \in DOMAIN reports', NEW j \in DOMAIN reports',
                       reports'[i].task = reports'[j].task
                PROVE  i = j
    BY DEF ReportedOnce
  <2>. QED  BY <1>4, <1>5, <1>6, <1>7 DEF WaitInv, ReportedOnce
<1>12. LooksBeforeFailing' /\ RowsRight'
  BY <1>1, <1>8 DEF WaitInv, LooksBeforeFailing, RowsRight, table
<1>13. ReportsRight'
  <2>1. order' = order /\ command' = command /\ succeeded' = succeeded
        /\ m + 1 \in DOMAIN reports'
    BY <1>1, <1>5 DEF table
  <2>2. ASSUME NEW i \in DOMAIN reports'
        PROVE  /\ reports'[i].task \in ToSet(order) \ remaining'
               /\ reports'[i].code = 0 => reports'[i].task \in succeeded
    BY <1>1, <1>2, <1>3, <1>4, <1>5, <1>6, <1>7
  <2>3. ASSUME NEW u \in ToSet(order) \ remaining'
        PROVE  \E i \in DOMAIN reports' : reports'[i].task = u
    <3>1. CASE u = t
      BY <1>4, <1>5, <2>1, <3>1
    <3>2. CASE u # t
      <4>1. PICK i \in DOMAIN reports : reports[i].task = u
        BY <1>1, <2>3, <3>2 DEF WaitInv, ReportsRight
      <4>. QED  BY <1>5, <1>7, <4>1
    <3>. QED  BY <3>1, <3>2
  <2>. QED  BY <1>2, <1>5, <1>8, <2>1, <2>2, <2>3 DEF ReportsRight
<1>14. LastLook'
  <2>1. ASSUME lastCheck, watch' = "check", NEW i \in 1..next' - 1, order[i] \in remaining'
        PROVE  order[i] \in unsettled
    <3>1. i \in 1..next - 1 \/ i = next
      BY <1>1, <1>2, <1>8, <2>1
    <3>2. order[i] \in remaining /\ i # next
      BY <1>1, <2>1
    <3>. QED  BY <1>1, <2>1, <3>1, <3>2 DEF WaitInv, LastLook
  <2>2. lastCheck => {u \in Tasks : ~Reportable(rows[u])} \subseteq unsettled
    BY DEF WaitInv, LastLook
  <2>. QED  BY <1>1, <1>8, <2>1, <2>2 DEF LastLook, table
<1>. QED  BY <1>9, <1>10, <1>11, <1>12, <1>13, <1>14 DEF WaitInv
-----------------------------------------------------------------------------
(* The watch and what is around it.                                        *)

LEMMA WatchKeeps ==
    ASSUME WaitInv, WatchStep
    PROVE  WaitInv'
<1>1. /\ WatchTypeOK' /\ watch \notin Returned /\ (lastCheck => lastCheck')
      /\ watch' \notin {"done", "closed"}
  BY Bounds, SelectEnds DEF WatchStep
<1>2. /\ next' = 0
      /\ UNCHANGED <<rows, born, succeeded, faults, command, order, remaining, failCode, reports>>
      /\ unsettled' = IF lastCheck' /\ ~lastCheck THEN {t \in Tasks : ~Reportable(rows[t])}
                                                  ELSE unsettled
  BY DEF WatchStep
<1>3. 0 \in 0..Len(order) + 1 /\ 1..0 - 1 = {}
  BY Bounds
<1>. USE DEF WaitInv
<1>4. TypeOK'
  BY <1>1, <1>2, <1>3 DEF TypeOK
<1>5. FirstFailure' /\ ReportedOnce' /\ RowsRight'
  BY <1>2 DEF FirstFailure, ReportedOnce, RowsRight
<1>6. LooksBeforeFailing'
  BY <1>1 DEF LooksBeforeFailing
<1>7. ReportsRight'
  BY <1>1, <1>2 DEF ReportsRight, ByTag
<1>8. LastLook'
  BY <1>1, <1>2, <1>3 DEF LastLook
<1>. QED  BY <1>4, <1>5, <1>6, <1>7, <1>8

LEMMA AroundStepKeeps ==
    ASSUME WaitInv, Around
    PROVE  WaitInv'
<1>1. WatchTypeOK' /\ watch' = watch /\ lastCheck' = lastCheck
  BY Bounds, AroundKeeps DEF Around
<1>2. UNCHANGED <<table, waiter, faults>>
  BY DEF Around
<1>. USE DEF WaitInv, table, waiter
<1>3. TypeOK'
  BY <1>1, <1>2 DEF TypeOK
<1>4. FirstFailure' /\ ReportedOnce' /\ RowsRight' /\ LooksBeforeFailing'
  BY <1>1, <1>2 DEF FirstFailure, ReportedOnce, RowsRight, LooksBeforeFailing
<1>5. ReportsRight' /\ LastLook'
  BY <1>1, <1>2 DEF ReportsRight, ByTag, LastLook
<1>. QED  BY <1>3, <1>4, <1>5

LEMMA StutterKeeps ==
    ASSUME WaitInv, UNCHANGED vars
    PROVE  WaitInv'
BY DEF WaitInv, vars, watchVars, TypeOK, WatchTypeOK, FirstFailure, ReportedOnce, LooksBeforeFailing,
       RowsRight, ReportsRight, LastLook, ByTag

LEMMA InitRight ==
    ASSUME Init
    PROVE  WaitInv
<1>1. command \in Commands /\ command.given \in Seq(Tasks)
  BY WaitAssumption DEF Init
<1>2. /\ order \in SeqOf(ToSet(command.given), Len(command.given))
      /\ IsInjective(order) /\ ToSet(order) = ToSet(command.given)
  BY DEF Init, Distinct
<1>3. Len(command.given) \in Nat /\ \A t \in ToSet(command.given) : t \in Tasks
  BY <1>1, ToSetIs
<1>4. PICK k \in Nat : order \in [1..k -> ToSet(command.given)]
  BY <1>2, <1>3 DEF SeqOf
<1>5. order \in Seq(Tasks) /\ Len(order) \in Nat
  BY <1>3, <1>4
<1>6. order = <<>> => command.given = <<>>
  <2>1. ASSUME order = <<>>, command.given # <<>>
        PROVE  FALSE
    <3>1. 1 \in 1..Len(command.given)
      BY <1>1, <2>1, EmptySeq
    <3>2. command.given[1] \in ToSet(order)
      BY <1>1, <1>2, <3>1, ToSetIs
    <3>3. DOMAIN order = {}
      BY <2>1
    <3>. QED  BY <3>2, <3>3 DEF ToSet
  <2>. QED  BY <2>1
<1>7. TypeOK
  <2>1. rows \in [Tasks -> Row]
    BY DEF Init, NoRow, Row
  <2>2. WatchTypeOK
    BY DEF Init, WatchInit, WatchTypeOK
  <2>3. /\ reports = <<>> /\ failCode \in ExitCodes
        /\ born \in 0..MaxBorn /\ faults \in 0..MaxFaults /\ next \in 0..Len(order) + 1
    BY <1>5, WaitAssumption DEF Init, ExitCodes
  <2>. QED  BY <1>1, <1>2, <1>5, <2>1, <2>2, <2>3 DEF Init, TypeOK
<1>8. DOMAIN reports = {} /\ remaining = ToSet(order) /\ watch = "check" /\ ~lastCheck
      /\ failCode = 0 /\ next = 0
  BY <1>2 DEF Init, WatchInit
<1>9. FirstFailure /\ ReportedOnce /\ LooksBeforeFailing /\ LastLook /\ ReportsRight
  BY <1>6, <1>8 DEF FirstFailure, ReportedOnce, LooksBeforeFailing, LastLook, ReportsRight, ByTag
<1>10. RowsRight
  BY DEF Init, NoRow, RowsRight, EndedWell
<1>. QED  BY <1>7, <1>9, <1>10 DEF WaitInv
-----------------------------------------------------------------------------
(* The theorems.                                                           *)

\* However checks fail and start again and tasks come, go and come back, wait reports each
\* task once, ends with the code of the first failure it reported, and gives up on a closed
\* listener only after a last look that found a task which had not ended
\* (waiter.check, stateWatcher.Run).
THEOREM WaitIsRight == Spec => []WaitInv
<1>1. ASSUME WaitInv, [Next]_vars
      PROVE  WaitInv'
  BY <1>1, TaskStepKeeps, BeginKeeps, DiscoverKeeps, NoneFoundKeeps, PassKeeps, CheckEndedKeeps,
     CheckDoneKeeps, CheckFailsKeeps, WatchKeeps, AroundStepKeeps, StutterKeeps DEF Next, Check
<1>. QED  BY <1>1, InitRight, PTL DEF Spec

\* Status 0 means what it says: without --any every task that was waited for has ended
\* with success, with --any one of them has (waiter.check, taskExitCode).
THEOREM SuccessIsEarned == Spec => []SuccessIsReal
<1>1. ASSUME WaitInv
      PROVE  SuccessIsReal
  <2>. SUFFICES ASSUME watch \in Returned \ {"interrupt"}, Status = 0
                PROVE  IF command.any THEN ToSet(order) \cap succeeded # {}
                                      ELSE ToSet(order) \subseteq succeeded
    BY DEF SuccessIsReal
  <2>1. watch = "done" /\ failCode = 0
    BY DEF Status, Returned
  <2>2. \A i \in DOMAIN reports : reports[i].task \in ToSet(order) /\ reports[i].task \in succeeded
    BY <1>1, <2>1 DEF WaitInv, FirstFailure, ReportsRight
  <2>3. CASE command.any
    <3>1. reports # <<>> /\ reports \in Seq([task : Tasks, code : ExitCodes])
      BY <1>1, <2>1, <2>3 DEF WaitInv, ReportsRight, TypeOK
    <3>2. 1 \in DOMAIN reports
      BY <3>1, EmptySeq, LenProperties
    <3>. QED  BY <2>2, <2>3, <3>2
  <2>4. CASE ~command.any
    <3>1. remaining = {} /\ \A t \in ToSet(order) \ remaining : \E i \in DOMAIN reports : reports[i].task = t
      BY <1>1, <2>1, <2>4 DEF WaitInv, ReportsRight
    <3>. QED  BY <2>2, <2>4, <3>1
  <2>. QED  BY <2>3, <2>4
<1>. QED  BY <1>1, WaitIsRight, PTL
=============================================================================
