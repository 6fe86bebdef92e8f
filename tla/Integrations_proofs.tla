------------------------- MODULE Integrations_proofs -------------------------
(***************************************************************************)
(* Proofs about EnqueuePrepare, for any enqueues, rows, refs and selections *)
(* of integrations: a task that a worker sees is complete, an enqueue that  *)
(* failed is not seen, and a task runs in the files it was enqueued with.   *)
(* About ConfigLayers, for any texts of the files: the documented layer     *)
(* wins, and is shown as the origin.  And about ArtifactSync and            *)
(* ArtifactFetch, for any settings: contents are whole, success is          *)
(* complete, and nothing is overwritten that should stay.                   *)
(***************************************************************************)
EXTENDS MCEnqueuePrepare, MCArtifacts, SequenceTheorems, WellFoundedInduction, TLAPS

Wrapper == {"git", "s3"}

\* The branch of d holds its snapshot, or others have touched it.
Safe(d) == touched[RefOf[d]] \/ d \in reach[RefOf[d]]

\* The state of e does not change, and neither does its row.
Same(e) ==
    /\ at'[e] = at[e] /\ command'[e] = command[e] /\ commit'[e] = commit[e]
    /\ answered'[e] = answered[e]
-----------------------------------------------------------------------------
(* Sequences of wrappers.                                                  *)

\* One more wrapper is put around the command.
LEMMA Wrapped ==
    ASSUME NEW x \in Wrapper, NEW s \in Seq(Wrapper)
    PROVE  /\ <<x>> \o s \in Seq(Wrapper)
           /\ Len(<<x>> \o s) = Len(s) + 1
           /\ \A i \in 1..Len(s) + 1 : (<<x>> \o s)[i] = IF i = 1 THEN x ELSE s[i - 1]
<1>1. <<x>> \in Seq(Wrapper) /\ Len(<<x>>) = 1 /\ <<x>>[1] = x
  OBVIOUS
<1>2. Len(s) \in Nat
  OBVIOUS
<1>. QED  BY <1>1, <1>2, ConcatProperties

\* A command that has every wrapper is the selection, with the snapshot recorded if git
\* is in it.
LEMMA WholeCommand ==
    ASSUME PrepareInv, NEW e \in Enqueues, Len(command[e]) = Len(With[e])
    PROVE  command[e] = With[e] /\ (UsesGit(e) => commit[e])
<1>1. command[e] \in Seq(Wrapper) /\ With[e] \in Seq(Wrapper)
  BY EnqueueAssumption DEF PrepareInv, TypeOK, Wrapper
<1>2. Len(With[e]) \in Nat
  BY <1>1
<1>3. \A i \in 1..Len(command[e]) : command[e][i] = With[e][i]
  <2>1. \A i \in 1..Len(command[e]) :
            command[e][i] = With[e][Len(With[e]) - Len(command[e]) + i]
    BY DEF PrepareInv, CommandsBuilt
  <2>. QED  BY <1>2, <2>1
<1>4. command[e] = With[e]
  BY <1>1, <1>3, SeqEqual
<1>5. UsesGit(e) => commit[e]
  BY <1>1, <1>4 DEF UsesGit, PrepareInv, SnapshotsRecorded
<1>. QED  BY <1>4, <1>5
-----------------------------------------------------------------------------
(* The remote: a ref that holds a snapshot is not created again, and a push *)
(* of others leaves its mark.                                              *)

LEMMA PublishKeeps ==
    ASSUME PrepareInv, NEW e \in Enqueues, reach[RefOf[e]] = {}, Published(e)
    PROVE  /\ \A d \in Enqueues : Safe(d) => Safe(d)'
           /\ Safe(e)'
           /\ reach' \in [Refs -> SUBSET (Enqueues \cup {Nobody})]
           /\ tip' \in [Refs -> Enqueues \cup {Nobody}]
           /\ \A r \in Refs : reach'[r] # {} => tip'[r] \in reach'[r]
<1>1. RefOf \in [Enqueues -> Refs]
  BY EnqueueAssumption
<1>2. /\ reach \in [Refs -> SUBSET (Enqueues \cup {Nobody})]
      /\ tip \in [Refs -> Enqueues \cup {Nobody}]
      /\ \A r \in Refs : reach[r] # {} => tip[r] \in reach[r]
  BY DEF PrepareInv, TypeOK
<1>. QED  BY <1>1, <1>2 DEF Published, Safe
-----------------------------------------------------------------------------
(* The parts of the invariant.                                             *)

\* A command s that is being built from the selection w.
EndOf(s, w) == Len(s) <= Len(w) /\ \A i \in 1..Len(s) : s[i] = w[Len(w) - Len(s) + i]
GitNext(s, w) == Len(s) < Len(w) /\ w[Len(w) - Len(s)] = "git"
HasWrapper(s, x) == \E i \in 1..Len(s) : s[i] = x

\* The parts that say what each enqueue has done depend on nothing but its own state, its
\* row and its branch.
EnqueueInv(e) ==
    /\ at[e] \in Open => row[TaskOf[e]].at = "held" /\ row[TaskOf[e]].by = e
    /\ EndOf(command[e], With[e])
    /\ at[e] = "push" => GitNext(command[e], With[e])
    /\ at[e] \in {"store", "commit"} => Len(command[e]) = Len(With[e])
    /\ at[e] = "commit" => row[TaskOf[e]].command = command[e]
    /\ HasWrapper(command[e], "git") => commit[e]
    /\ commit[e] => Safe(e)

\* ...and what each row shows, on its enqueue.
RowInv(t) ==
    /\ IF row[t].at = "none" THEN row[t] = NoRow
       ELSE row[t].by \in Enqueues /\ TaskOf[row[t].by] = t
    /\ row[t].at = "held" => at[row[t].by] \in Open
    /\ Seen(t) => /\ at[row[t].by] = "ok" \/ (at[row[t].by] \in {"failed", "dead"} /\ ~answered[row[t].by])
                  /\ row[t].command = With[row[t].by]
                  /\ UsesGit(row[t].by) => commit[row[t].by]

PartsInv == TypeOK /\ (\A e \in Enqueues : EnqueueInv(e)) /\ (\A t \in Tasks : RowInv(t))

LEMMA Parts == PrepareInv <=> PartsInv
<1>. USE DEF PartsInv
<1>1. PrepareInv => PartsInv
  BY DEF PrepareInv, RowsOwned, CommandsBuilt, SnapshotsRecorded, SeenIsPrepared, EnqueueInv,
         EndOf, GitNext, NextStep, HasWrapper, RowInv, Safe
<1>2. ASSUME TypeOK, \A e \in Enqueues : EnqueueInv(e), \A t \in Tasks : RowInv(t)
      PROVE  PrepareInv
  <2>1. RowsOwned
    BY <1>2 DEF RowsOwned, EnqueueInv, RowInv
  <2>2. CommandsBuilt
    BY <1>2 DEF CommandsBuilt, EnqueueInv, EndOf, GitNext, NextStep
  <2>3. SnapshotsRecorded
    BY <1>2 DEF SnapshotsRecorded, EnqueueInv, HasWrapper, Safe
  <2>4. SeenIsPrepared
    BY <1>2 DEF SeenIsPrepared, RowInv
  <2>5. FailedIsUnseen
    <3>1. SUFFICES ASSUME NEW e \in Enqueues, at[e] \in {"failed", "dead"}, answered[e],
                          NEW t \in Tasks, row[t].by = e
                   PROVE  FALSE
      BY DEF FailedIsUnseen
    <3>2. row[t].at # "none"
      BY <1>2, <3>1, EnqueueAssumption DEF RowInv, NoRow
    <3>3. row[t].at \in {"held", "pending", "running", "failed", "completed"}
      BY <1>2, <3>2 DEF TypeOK, Row
    <3>. QED  BY <1>2, <3>1, <3>3 DEF RowInv, Seen, Open
  <2>. QED  BY <1>2, <2>1, <2>2, <2>3, <2>4, <2>5 DEF PrepareInv
<1>. QED  BY <1>1, <1>2
-----------------------------------------------------------------------------
(* What an enqueue does.                                                   *)

\* A step of e on its own state and its own row, which it has taken or finds free.
LEMMA OwnStep ==
    ASSUME PrepareInv, TypeOK', NEW e \in Enqueues,
           \A d \in Enqueues \ {e} : Same(d),
           \A d \in Enqueues : Safe(d) => Safe(d)',
           \A t \in Tasks \ {TaskOf[e]} : row'[t] = row[t],
           row[TaskOf[e]].at # "none" /\ row[TaskOf[e]].by # e => row'[TaskOf[e]] = row[TaskOf[e]],
           EnqueueInv(e)', RowInv(TaskOf[e])'
    PROVE  PrepareInv'
<1>1. TypeOK /\ (\A d \in Enqueues : EnqueueInv(d)) /\ (\A t \in Tasks : RowInv(t))
  BY Parts DEF PartsInv
<1>2. TaskOf \in [Enqueues -> Tasks]
  BY EnqueueAssumption
<1>3. ASSUME NEW d \in Enqueues \ {e}  PROVE EnqueueInv(d)'
  <2>1. d \in Enqueues /\ TaskOf[d] \in Tasks /\ EnqueueInv(d) /\ Same(d) /\ (Safe(d) => Safe(d)')
    BY <1>1, <1>2, <1>3
  <2>2. at[d] \in Open => row[TaskOf[d]].at = "held" /\ row[TaskOf[d]].by = d
    BY <2>1 DEF EnqueueInv
  <2>3. at[d] \in Open => row'[TaskOf[d]] = row[TaskOf[d]]
    <3>1. CASE TaskOf[d] = TaskOf[e]
      BY <1>3, <2>2, <3>1
    <3>2. CASE TaskOf[d] # TaskOf[e]
      BY <2>1, <3>2
    <3>. QED  BY <3>1, <3>2
  <2>4. UNCHANGED <<at[d], command[d], commit[d]>>
    BY <2>1 DEF Same
  <2>5. at[d] = "commit" => row'[TaskOf[d]].command = command[d]
    BY <2>1, <2>3 DEF EnqueueInv, Open
  <2>. QED  BY <2>1, <2>2, <2>3, <2>4, <2>5 DEF EnqueueInv
<1>4. ASSUME NEW t \in Tasks \ {TaskOf[e]}  PROVE RowInv(t)'
  <2>1. row'[t] = row[t] /\ RowInv(t)
    BY <1>1
  <2>2. row[t].at # "none" => row[t].by \in Enqueues \ {e}
    BY <2>1 DEF RowInv
  <2>3. row[t].at # "none" => Same(row[t].by)
    BY <2>2
  <2>. QED  BY <2>1, <2>2, <2>3 DEF RowInv, Seen, Same
<1>5. PartsInv'
  BY <1>3, <1>4 DEF PartsInv
<1>. QED  BY <1>5, Parts, PTL

\* The types of what an enqueue may leave alone.
RemoteOK ==
    /\ reach \in [Refs -> SUBSET (Enqueues \cup {Nobody})] /\ tip \in [Refs -> Enqueues \cup {Nobody}]
    /\ \A r \in Refs : reach[r] # {} => tip[r] \in reach[r]
    /\ touched \in [Refs -> BOOLEAN] /\ ran \in [Tasks -> Enqueues \cup {Nobody}]
    /\ foreign \in 0..MaxForeign /\ faults \in 0..MaxFaults

LEMMA RemoteSame ==
    ASSUME PrepareInv, UNCHANGED <<reach, tip, touched, ran, foreign, faults>>
    PROVE  RemoteOK' /\ \A d \in Enqueues : Safe(d) => Safe(d)'
BY DEF PrepareInv, TypeOK, RemoteOK, Safe

\* The end of an enqueue without success: its row goes with the transaction.
LEMMA FailsInv ==
    ASSUME PrepareInv, NEW e \in Enqueues, NEW s \in {"failed", "dead"},
           at[e] \in {"start"} \cup Open, Goes(e, s), row' = RolledBack(e),
           UNCHANGED <<command, commit>>,
           UNCHANGED answered \/ answered' = [answered EXCEPT ![e] = FALSE],
           RemoteOK', \A d \in Enqueues : Safe(d) => Safe(d)'
    PROVE  PrepareInv'
<1>. DEFINE t == TaskOf[e]
<1>1. TypeOK /\ (\A d \in Enqueues : EnqueueInv(d)) /\ (\A u \in Tasks : RowInv(u)) /\ t \in Tasks
  BY Parts, EnqueueAssumption DEF PartsInv
<1>2. NoRow \in Row
  BY DEF NoRow, Row
<1>3. /\ at' \in [Enqueues -> {"start", "prepare", "push", "store", "commit", "ok", "failed", "dead"}]
      /\ at'[e] = s /\ answered' \in [Enqueues -> BOOLEAN]
      /\ \A d \in Enqueues \ {e} : Same(d)
  BY <1>1 DEF Goes, TypeOK, Same
<1>4. row' \in [Tasks -> Row]
  BY <1>1, <1>2 DEF RolledBack, TypeOK
<1>5. TypeOK'
  BY <1>1, <1>3, <1>4 DEF TypeOK, RemoteOK
<1>6. \A u \in Tasks : row'[u] = row[u] \/ (u = t /\ row[u].by = e /\ row'[u] = NoRow)
  BY <1>1 DEF RolledBack, RowInv
<1>7. EnqueueInv(e)'
  BY <1>1, <1>3 DEF EnqueueInv, Open
<1>8. RowInv(t)'
  <2>1. CASE row'[t] = NoRow
    BY <2>1 DEF RowInv, NoRow, Seen
  <2>2. CASE row'[t] = row[t] /\ row'[t] # NoRow
    <3>1. row[t].by \in Enqueues /\ TaskOf[row[t].by] = t
      BY <1>1, <2>2 DEF RowInv
    <3>2. row[t].at \in {"held", "pending", "running", "failed", "completed"}
      BY <1>1, <2>2 DEF TypeOK, Row, RowInv
    <3>3. row[t].by # e
      <4>1. SUFFICES ASSUME row[t].by = e  PROVE FALSE
        OBVIOUS
      <4>2. row[t].at # "held"
        BY <1>1, <2>2, <4>1 DEF RolledBack
      <4>. QED  BY <1>1, <3>2, <4>1, <4>2 DEF RowInv, Seen, Open
    <3>4. Same(row[t].by)
      BY <1>3, <3>1, <3>3
    <3>. QED  BY <1>1, <2>2, <3>1, <3>4 DEF RowInv, Seen, Same
  <2>3. row'[t] = NoRow \/ row'[t] = row[t]
    BY <1>1, <1>6
  <2>. QED  BY <2>1, <2>2, <2>3
<1>9. /\ \A u \in Tasks \ {t} : row'[u] = row[u]
      /\ row[t].by # e => row'[t] = row[t]
  BY <1>1, <1>6
<1>. QED  BY <1>3, <1>5, <1>7, <1>8, <1>9, OwnStep

\* INSERT holds the key, or fails because it exists.
LEMMA CreateTaskInv ==
    ASSUME PrepareInv, NEW e \in Enqueues, CreateTask(e)
    PROVE  PrepareInv'
<1>. DEFINE t == TaskOf[e]
<1>1. TypeOK /\ (\A d \in Enqueues : EnqueueInv(d)) /\ (\A u \in Tasks : RowInv(u)) /\ t \in Tasks
  BY Parts, EnqueueAssumption DEF PartsInv
<1>2. /\ at[e] = "start"
      /\ UNCHANGED <<command, commit, answered, reach, tip, touched, foreign, ran, faults>>
  BY DEF CreateTask, Remote
<1>3. RemoteOK' /\ \A d \in Enqueues : Safe(d) => Safe(d)'
  BY <1>2, RemoteSame
<1>4. CASE row[t].at # "none"
  BY <1>2, <1>3, <1>4, FailsInv DEF CreateTask, Fails
<1>5. CASE row[t].at = "none"
  <2>1. /\ at' = [at EXCEPT ![e] = "prepare"]
        /\ row' = [row EXCEPT ![t] = [at |-> "held", by |-> e, command |-> <<>>]]
    BY <1>5 DEF CreateTask, Goes
  <2>2. [at |-> "held", by |-> e, command |-> <<>>] \in Row
    BY DEF Row
  <2>3. TypeOK'
    BY <1>1, <1>2, <1>3, <2>1, <2>2 DEF TypeOK, RemoteOK
  <2>4. row'[t].at = "held" /\ row'[t].by = e /\ at'[e] = "prepare"
    BY <1>1, <2>1 DEF TypeOK
  <2>5. EnqueueInv(e)'
    BY <1>1, <1>2, <1>3, <2>4 DEF EnqueueInv
  <2>6. RowInv(t)'
    BY <1>1, <2>4 DEF RowInv, Seen, Open
  <2>7. \A d \in Enqueues \ {e} : Same(d)
    BY <1>1, <1>2, <2>1 DEF TypeOK, Same
  <2>8. \A u \in Tasks \ {t} : row'[u] = row[u]
    BY <1>1, <2>1 DEF TypeOK
  <2>. QED  BY <1>3, <1>5, <2>3, <2>5, <2>6, <2>7, <2>8, OwnStep
<1>. QED  BY <1>4, <1>5

\* A step inside the transaction that keeps the row.
LEMMA OpenStep ==
    ASSUME PrepareInv, TypeOK', NEW e \in Enqueues, at[e] \in Open, at'[e] \in Open,
           \A d \in Enqueues \ {e} : Same(d),
           \A d \in Enqueues : Safe(d) => Safe(d)',
           UNCHANGED row, EnqueueInv(e)'
    PROVE  PrepareInv'
<1>1. PartsInv /\ TaskOf[e] \in Tasks
  BY Parts, EnqueueAssumption
<1>2. RowInv(TaskOf[e])'
  BY <1>1 DEF PartsInv, EnqueueInv, RowInv, Seen
<1>. QED  BY <1>2, OwnStep

\* The wrappers are put around the command one by one.
LEMMA WrapInv ==
    ASSUME PrepareInv, TypeOK', NEW e \in Enqueues, NEW x \in Wrapper,
           at[e] \in {"prepare", "push"}, at'[e] = "prepare",
           \A d \in Enqueues \ {e} : Same(d),
           \A d \in Enqueues : Safe(d) => Safe(d)',
           Len(command[e]) < Len(With[e]), NextStep(e) = x,
           command'[e] = <<x>> \o command[e],
           commit'[e] = commit[e] \/ (commit'[e] /\ Safe(e)'),
           x = "git" => commit'[e],
           UNCHANGED row
    PROVE  PrepareInv'
<1>1. PartsInv /\ EnqueueInv(e)
  BY Parts DEF PartsInv
<1>2. command[e] \in Seq(Wrapper) /\ With[e] \in Seq(Wrapper)
  BY <1>1, EnqueueAssumption DEF PartsInv, TypeOK, Wrapper
<1>3. PICK s : s = command[e]
  OBVIOUS
<1>4. PICK w : w = With[e]
  OBVIOUS
<1>5. PICK n \in Nat : n = Len(s)
  BY <1>2, <1>3
<1>6. PICK m \in Nat : m = Len(w)
  BY <1>2, <1>4
<1>7. s = command[e] /\ w = With[e] /\ n = Len(s) /\ m = Len(w)
  BY <1>3, <1>4, <1>5, <1>6
<1>8. PICK new : new = command'[e]
  OBVIOUS
<1>9. /\ new = command'[e] /\ Len(new) = n + 1
      /\ \A i \in 1..n + 1 : new[i] = IF i = 1 THEN x ELSE s[i - 1]
  BY <1>2, <1>7, <1>8, Wrapped
<1>10. n < m /\ w[m - n] = x /\ \A i \in 1..n : s[i] = w[m - n + i]
  BY <1>1, <1>7 DEF NextStep, EnqueueInv, EndOf
<1>11. EndOf(new, w)
  <2>1. ASSUME NEW i \in 1..n + 1  PROVE new[i] = w[m - (n + 1) + i]
    <3>1. CASE i = 1
      BY <1>7, <1>9, <1>10, <3>1
    <3>2. CASE i # 1
      <4>1. i - 1 \in 1..n /\ m - n + (i - 1) = m - (n + 1) + i
        BY <1>7, <3>2
      <4>. QED  BY <1>9, <1>10, <3>2, <4>1
    <3>. QED  BY <3>1, <3>2
  <2>2. n + 1 <= m
    BY <1>10
  <2>3. Len(new) = n + 1 /\ Len(w) = m
    BY <1>7, <1>9
  <2>. QED  BY <2>1, <2>2, <2>3 DEF EndOf
<1>12. HasWrapper(new, "git") => commit'[e]
  <2>1. SUFFICES ASSUME NEW i \in 1..n + 1, new[i] = "git"  PROVE commit'[e]
    BY <1>9 DEF HasWrapper
  <2>2. CASE i = 1
    BY <1>9, <2>1, <2>2
  <2>3. CASE i # 1
    <3>1. i - 1 \in 1..n /\ s[i - 1] = "git"
      BY <1>7, <1>9, <2>1, <2>3
    <3>. QED  BY <1>1, <1>7, <3>1 DEF HasWrapper, EnqueueInv
  <2>. QED  BY <2>2, <2>3
<1>13. commit'[e] => Safe(e)'
  BY <1>1 DEF EnqueueInv
<1>14. at[e] \in Open /\ at'[e] \in Open
  BY DEF Open
<1>15. row'[TaskOf[e]].at = "held" /\ row'[TaskOf[e]].by = e
  BY <1>1, <1>14 DEF EnqueueInv
<1>16. EnqueueInv(e)'
  BY <1>7, <1>9, <1>11, <1>12, <1>13, <1>15 DEF EnqueueInv
<1>. QED  BY <1>14, <1>16, OpenStep

LEMMA PrepareStepInv ==
    ASSUME PrepareInv, NEW e \in Enqueues, Prepare(e)
    PROVE  PrepareInv'
<1>1. PartsInv /\ EnqueueInv(e) /\ TypeOK
  BY Parts DEF PartsInv
<1>2. /\ at[e] = "prepare" /\ at[e] \in Open
      /\ UNCHANGED <<commit, answered, reach, tip, touched, foreign, ran, faults>>
  BY DEF Prepare, Remote, Open
<1>3. RemoteOK' /\ \A d \in Enqueues : Safe(d) => Safe(d)'
  BY <1>2, RemoteSame
<1>4. command[e] \in Seq(Wrapper) /\ With[e] \in Seq(Wrapper)
  BY <1>1, EnqueueAssumption DEF TypeOK, Wrapper
<1>5. Len(command[e]) \in Nat /\ Len(With[e]) \in Nat
  BY <1>4
<1>6. CASE Len(command[e]) = Len(With[e])
  <2>1. at' = [at EXCEPT ![e] = "store"] /\ UNCHANGED <<command, row>>
    BY <1>6 DEF Prepare, Goes
  <2>2. TypeOK' /\ at'[e] = "store" /\ \A d \in Enqueues \ {e} : Same(d)
    BY <1>1, <1>2, <1>3, <2>1 DEF TypeOK, RemoteOK, Same
  <2>3. EnqueueInv(e)'
    BY <1>1, <1>2, <1>3, <1>6, <2>1, <2>2 DEF EnqueueInv, Open
  <2>. QED  BY <1>2, <1>3, <2>1, <2>2, <2>3, OpenStep DEF Open
<1>7. CASE Len(command[e]) # Len(With[e])
  <2>1. Len(command[e]) < Len(With[e])
    BY <1>1, <1>5, <1>7 DEF EnqueueInv, EndOf
  <2>2. NextStep(e) \in Wrapper
    <3>1. PICK n \in Nat : n = Len(command[e])
      BY <1>5
    <3>2. PICK m \in Nat : m = Len(With[e])
      BY <1>5
    <3>3. n < m
      BY <2>1, <3>1, <3>2
    <3>4. m - n \in 1..m
      BY <3>3
    <3>. QED  BY <1>4, <3>1, <3>2, <3>4 DEF NextStep
  <2>3. CASE NextStep(e) = "s3"
    <3>1. command' = [command EXCEPT ![e] = <<"s3">> \o @] /\ UNCHANGED <<at, row>>
      BY <1>7, <2>3 DEF Prepare
    <3>2. <<"s3">> \o command[e] \in Seq(Wrapper)
      BY <1>4, Wrapped DEF Wrapper
    <3>3. TypeOK' /\ \A d \in Enqueues \ {e} : Same(d)
      BY <1>1, <1>2, <1>3, <3>1, <3>2 DEF TypeOK, RemoteOK, Same, Wrapper
    <3>4. command'[e] = <<"s3">> \o command[e]
      BY <1>1, <3>1 DEF TypeOK
    <3>. QED  BY <1>2, <1>3, <2>1, <2>3, <3>1, <3>3, <3>4, WrapInv DEF Wrapper
  <2>4. CASE NextStep(e) = "git" /\ reach[RefOf[e]] # {}
    <3>1. Fails(e) /\ UNCHANGED command
      BY <1>7, <2>4 DEF Prepare
    <3>. QED  BY <1>2, <1>3, <3>1, FailsInv DEF Fails
  <2>5. CASE NextStep(e) = "git" /\ reach[RefOf[e]] = {}
    <3>1. at' = [at EXCEPT ![e] = "push"] /\ UNCHANGED <<command, row>>
      BY <1>7, <2>5 DEF Prepare, Goes
    <3>2. TypeOK' /\ at'[e] = "push" /\ \A d \in Enqueues \ {e} : Same(d)
      BY <1>1, <1>2, <1>3, <3>1 DEF TypeOK, RemoteOK, Same
    <3>3. GitNext(command[e], With[e])
      BY <2>1, <2>5 DEF GitNext, NextStep
    <3>4. EnqueueInv(e)'
      BY <1>1, <1>2, <1>3, <3>1, <3>2, <3>3 DEF EnqueueInv, Open
    <3>. QED  BY <1>2, <1>3, <3>1, <3>2, <3>4, OpenStep DEF Open
  <2>. QED  BY <2>2, <2>3, <2>4, <2>5 DEF Wrapper
<1>. QED  BY <1>6, <1>7

\* The push creates the ref, or fails.
LEMMA PushInv ==
    ASSUME PrepareInv, NEW e \in Enqueues, Push(e)
    PROVE  PrepareInv'
<1>1. PartsInv /\ EnqueueInv(e) /\ TypeOK
  BY Parts DEF PartsInv
<1>2. at[e] = "push" /\ at[e] \in Open /\ UNCHANGED <<answered, ran, foreign, faults>>
  BY DEF Push, Open
<1>3. CASE reach[RefOf[e]] = {}
  <2>1. /\ Published(e) /\ UNCHANGED row
        /\ commit' = [commit EXCEPT ![e] = TRUE]
        /\ command' = [command EXCEPT ![e] = <<"git">> \o @]
        /\ at' = [at EXCEPT ![e] = "prepare"]
    BY <1>3 DEF Push, Goes
  <2>2. <<"git">> \o command[e] \in Seq(Wrapper)
    BY <1>1, Wrapped DEF TypeOK, Wrapper
  <2>3. RemoteOK' /\ Safe(e)' /\ \A d \in Enqueues : Safe(d) => Safe(d)'
    BY <1>1, <1>2, <1>3, <2>1, PublishKeeps DEF RemoteOK, TypeOK, Published
  <2>4. TypeOK' /\ \A d \in Enqueues \ {e} : Same(d)
    BY <1>1, <1>2, <2>1, <2>2, <2>3 DEF TypeOK, RemoteOK, Same, Wrapper
  <2>5. commit'[e] /\ at'[e] = "prepare" /\ command'[e] = <<"git">> \o command[e]
    BY <1>1, <2>1 DEF TypeOK
  <2>6. Len(command[e]) < Len(With[e]) /\ NextStep(e) = "git"
    BY <1>1, <1>2 DEF EnqueueInv, GitNext, NextStep
  <2>. QED  BY <1>2, <2>1, <2>3, <2>4, <2>5, <2>6, WrapInv DEF Wrapper
<1>4. CASE reach[RefOf[e]] # {}
  <2>1. Fails(e) /\ UNCHANGED <<reach, tip, touched, commit, command>>
    BY <1>4 DEF Push
  <2>2. RemoteOK' /\ \A d \in Enqueues : Safe(d) => Safe(d)'
    BY <1>2, <2>1, RemoteSame
  <2>. QED  BY <1>2, <2>1, <2>2, FailsInv DEF Fails
<1>. QED  BY <1>3, <1>4

\* The command is stored in the open row.
LEMMA SetTaskExecutionInv ==
    ASSUME PrepareInv, NEW e \in Enqueues, SetTaskExecution(e)
    PROVE  PrepareInv'
<1>. DEFINE t == TaskOf[e]
<1>1. PartsInv /\ EnqueueInv(e) /\ TypeOK /\ t \in Tasks /\ RowInv(t)
  BY Parts, EnqueueAssumption DEF PartsInv
<1>2. /\ at[e] = "store" /\ at' = [at EXCEPT ![e] = "commit"]
      /\ row' = [row EXCEPT ![t].command = command[e]]
      /\ UNCHANGED <<command, commit, answered, reach, tip, touched, foreign, ran, faults>>
  BY DEF SetTaskExecution, Goes, Remote
<1>3. RemoteOK' /\ \A d \in Enqueues : Safe(d) => Safe(d)'
  BY <1>2, RemoteSame
<1>4. /\ row'[t] \in Row /\ row'[t].at = row[t].at /\ row'[t].by = row[t].by
      /\ row'[t].command = command[e] /\ row' \in [Tasks -> Row]
      /\ \A u \in Tasks \ {t} : row'[u] = row[u]
  BY <1>1, <1>2 DEF TypeOK, Row
<1>5. TypeOK' /\ at'[e] = "commit" /\ \A d \in Enqueues \ {e} : Same(d)
  BY <1>1, <1>2, <1>3, <1>4 DEF TypeOK, RemoteOK, Same
<1>6. row[t].at = "held" /\ row[t].by = e
  BY <1>1, <1>2 DEF EnqueueInv, Open
<1>7. EnqueueInv(e)'
  BY <1>1, <1>2, <1>3, <1>4, <1>5, <1>6 DEF EnqueueInv
<1>8. RowInv(t)'
  BY <1>4, <1>5, <1>6 DEF RowInv, Seen, Open
<1>. QED  BY <1>3, <1>4, <1>5, <1>6, <1>7, <1>8, OwnStep

\* The transaction has committed, with or without an answer: the row is complete.
LEMMA CommittedInv ==
    ASSUME PrepareInv, NEW e \in Enqueues, NEW s \in {"ok", "failed", "dead"},
           at[e] = "commit", Goes(e, s), Visible(e),
           UNCHANGED <<command, commit, reach, tip, touched, foreign, ran>>, faults' \in 0..MaxFaults,
           (s = "ok" /\ answered' = answered) \/ answered' = [answered EXCEPT ![e] = FALSE]
    PROVE  PrepareInv'
<1>. DEFINE t == TaskOf[e]
<1>1. PartsInv /\ EnqueueInv(e) /\ TypeOK /\ t \in Tasks
  BY Parts, EnqueueAssumption DEF PartsInv
<1>2. RemoteOK' /\ \A d \in Enqueues : Safe(d) => Safe(d)'
  BY <1>1 DEF TypeOK, RemoteOK, Safe
<1>3. row' = [row EXCEPT ![t].at = "pending"] /\ at' = [at EXCEPT ![e] = s]
  BY DEF Goes, Visible
<1>4. /\ row[t].at = "held" /\ row[t].by = e /\ row[t].command = command[e]
      /\ Len(command[e]) = Len(With[e])
  BY <1>1 DEF EnqueueInv, Open
<1>5. row[t].command = With[e] /\ (UsesGit(e) => commit[e])
  BY <1>4, WholeCommand
<1>6. /\ row'[t].at = "pending" /\ row'[t].by = e /\ row'[t].command = With[e]
      /\ row' \in [Tasks -> Row]
      /\ \A u \in Tasks \ {t} : row'[u] = row[u]
  BY <1>1, <1>3, <1>4, <1>5 DEF TypeOK, Row
<1>7. /\ at' \in [Enqueues -> {"start", "prepare", "push", "store", "commit", "ok", "failed", "dead"}]
      /\ answered' \in [Enqueues -> BOOLEAN]
      /\ at'[e] = "ok" \/ (at'[e] \in {"failed", "dead"} /\ ~answered'[e])
      /\ \A d \in Enqueues \ {e} : Same(d)
  BY <1>1, <1>3 DEF TypeOK, Same
<1>8. TypeOK'
  BY <1>1, <1>2, <1>6, <1>7 DEF TypeOK, RemoteOK
<1>9. EnqueueInv(e)'
  BY <1>1, <1>2, <1>7 DEF EnqueueInv, Open
<1>10. RowInv(t)'
  BY <1>5, <1>6, <1>7 DEF RowInv, Seen
<1>. QED  BY <1>2, <1>4, <1>6, <1>7, <1>8, <1>9, <1>10, OwnStep

LEMMA CommitInv ==
    ASSUME PrepareInv, NEW e \in Enqueues,
           Commit(e) \/ CommitReplyLost(e) \/ (Die(e) /\ row' # RolledBack(e))
    PROVE  PrepareInv'
<1>1. TypeOK /\ MaxFaults \in Nat
  BY EnqueueAssumption DEF PrepareInv
<1>2. faults' \in 0..MaxFaults
  BY <1>1 DEF Commit, CommitReplyLost, Die, Fault, TypeOK
<1>3. CASE (Commit(e) \/ CommitReplyLost(e) \/ (Die(e) /\ row' # RolledBack(e))) /\ Visible(e)
  BY <1>2, <1>3, CommittedInv DEF Commit, CommitReplyLost, Die, MayArrive, Remote
<1>4. CASE CommitReplyLost(e) /\ row' = RolledBack(e)
  <2>1. RemoteOK' /\ \A d \in Enqueues : Safe(d) => Safe(d)'
    BY <1>1, <1>2, <1>4 DEF CommitReplyLost, Remote, TypeOK, RemoteOK, Safe
  <2>. QED  BY <1>4, <2>1, FailsInv DEF CommitReplyLost, Open
<1>. QED  BY <1>3, <1>4 DEF Commit, CommitReplyLost, Die

\* A call fails or the command is killed; a push may have arrived.
LEMMA StepFailsInv ==
    ASSUME PrepareInv, NEW e \in Enqueues, StepFails(e) \/ (Die(e) /\ row' = RolledBack(e))
    PROVE  PrepareInv'
<1>1. TypeOK /\ MaxFaults \in Nat
  BY EnqueueAssumption DEF PrepareInv
<1>2. /\ faults' \in 0..MaxFaults /\ UNCHANGED <<command, commit, ran, foreign>>
      /\ UNCHANGED answered \/ answered' = [answered EXCEPT ![e] = FALSE]
      /\ at[e] \in {"start"} \cup Open /\ row' = RolledBack(e)
      /\ Goes(e, "failed") \/ Goes(e, "dead")
  BY <1>1 DEF StepFails, Die, Fault, TypeOK, Fails, Open
<1>3. RemoteOK' /\ \A d \in Enqueues : Safe(d) => Safe(d)'
  <2>1. CASE UNCHANGED <<reach, tip, touched>>
    BY <1>1, <1>2, <2>1 DEF TypeOK, RemoteOK, Safe
  <2>2. CASE reach[RefOf[e]] = {} /\ Published(e)
    BY <1>1, <1>2, <2>2, PublishKeeps DEF RemoteOK, TypeOK, Published
  <2>. QED  BY <2>1, <2>2 DEF StepFails, Die, MayArrive
<1>. QED  BY <1>2, <1>3, FailsInv
-----------------------------------------------------------------------------
(* What others do.                                                         *)

\* A step on a row that no transaction holds.
LEMMA FreeRowStep ==
    ASSUME PrepareInv, TypeOK', NEW t \in Tasks, row[t].at # "held",
           UNCHANGED <<at, command, commit, answered>>,
           \A d \in Enqueues : Safe(d) => Safe(d)',
           \A u \in Tasks \ {t} : row'[u] = row[u],
           RowInv(t)'
    PROVE  PrepareInv'
<1>1. PartsInv /\ TaskOf \in [Enqueues -> Tasks]
  BY Parts, EnqueueAssumption
<1>2. ASSUME NEW d \in Enqueues  PROVE EnqueueInv(d)'
  <2>1. EnqueueInv(d) /\ (Safe(d) => Safe(d)') /\ TaskOf[d] \in Tasks
    BY <1>1 DEF PartsInv
  <2>2. at[d] \in Open => row'[TaskOf[d]] = row[TaskOf[d]]
    BY <2>1 DEF EnqueueInv
  <2>3. at[d] = "commit" => at[d] \in Open
    BY DEF Open
  <2>. QED  BY <2>1, <2>2, <2>3 DEF EnqueueInv
<1>3. ASSUME NEW u \in Tasks \ {t}  PROVE RowInv(u)'
  BY <1>1, <1>3 DEF PartsInv, RowInv, Seen
<1>4. PartsInv'
  BY <1>2, <1>3 DEF PartsInv
<1>. QED  BY <1>4, Parts, PTL

LEMMA WorkerStepInv ==
    ASSUME PrepareInv, NEW t \in Tasks, ClaimTask(t) \/ Restore(t) \/ RemoveTask(t)
    PROVE  PrepareInv'
<1>1. PartsInv /\ TypeOK /\ RowInv(t) /\ NoRow \in Row
  BY Parts DEF PartsInv, NoRow, Row
<1>2. /\ Seen(t) /\ row[t].at # "held" /\ row[t].by \in Enqueues
      /\ UNCHANGED <<at, command, commit, answered, reach, tip, touched, foreign, faults>>
  BY <1>1 DEF ClaimTask, Restore, RemoveTask, Remote, Seen, RowInv
<1>3. /\ row' \in [Tasks -> Row] /\ \A u \in Tasks \ {t} : row'[u] = row[u]
      /\ \/ row'[t] = NoRow
         \/ /\ row'[t].at \in {"running", "failed", "completed"}
            /\ row'[t].by = row[t].by /\ row'[t].command = row[t].command
  <2>1. CASE RemoveTask(t)
    BY <1>1, <2>1 DEF RemoveTask, TypeOK
  <2>2. CASE ClaimTask(t) \/ Restore(t)
    <3>1. PICK s \in {"running", "failed", "completed"} : row' = [row EXCEPT ![t].at = s]
      BY <2>2 DEF ClaimTask, Restore
    <3>. QED  BY <1>1, <3>1 DEF TypeOK, Row
  <2>. QED  BY <2>1, <2>2
<1>4. ran' \in [Tasks -> Enqueues \cup {Nobody}]
  BY <1>1, <1>2 DEF ClaimTask, Restore, RemoveTask, TypeOK
<1>5. TypeOK'
  BY <1>1, <1>2, <1>3, <1>4 DEF TypeOK
<1>6. RowInv(t)'
  BY <1>1, <1>2, <1>3 DEF RowInv, Seen, NoRow
<1>7. \A d \in Enqueues : Safe(d) => Safe(d)'
  BY <1>2 DEF Safe
<1>. QED  BY <1>2, <1>3, <1>5, <1>6, <1>7, FreeRowStep

LEMMA OtherPushInv ==
    ASSUME PrepareInv, NEW r \in Refs, OtherPush(r)
    PROVE  PrepareInv'
<1>1. PartsInv /\ TypeOK /\ RefOf \in [Enqueues -> Refs] /\ MaxForeign \in Nat
  BY Parts, EnqueueAssumption DEF PartsInv
<1>2. UNCHANGED <<at, command, commit, answered, row, ran, faults>>
  BY DEF OtherPush
<1>3. /\ reach' \in [Refs -> SUBSET (Enqueues \cup {Nobody})]
      /\ tip' \in [Refs -> Enqueues \cup {Nobody}]
      /\ \A s \in Refs : reach'[s] # {} => tip'[s] \in reach'[s]
      /\ \A s \in Refs \ {r} : reach'[s] = reach[s]
  <2>1. CASE \E new \in {reach[r] \cup {Nobody}, {Nobody}} :
                 reach' = [reach EXCEPT ![r] = new] /\ tip' = [tip EXCEPT ![r] = Nobody]
    <3>1. PICK new \in {reach[r] \cup {Nobody}, {Nobody}} :
              reach' = [reach EXCEPT ![r] = new] /\ tip' = [tip EXCEPT ![r] = Nobody]
      BY <2>1
    <3>2. Nobody \in new /\ new \subseteq Enqueues \cup {Nobody}
      BY <1>1 DEF TypeOK
    <3>. QED  BY <1>1, <3>1, <3>2 DEF TypeOK
  <2>2. CASE reach' = [reach EXCEPT ![r] = {}] /\ UNCHANGED tip
    BY <1>1, <2>2 DEF TypeOK
  <2>. QED  BY <2>1, <2>2 DEF OtherPush
<1>4. touched' = [touched EXCEPT ![r] = TRUE] /\ foreign' \in 0..MaxForeign
  BY <1>1 DEF OtherPush, TypeOK
<1>5. TypeOK'
  BY <1>1, <1>2, <1>3, <1>4 DEF TypeOK
<1>6. \A d \in Enqueues : Safe(d) => Safe(d)'
  BY <1>1, <1>3, <1>4 DEF TypeOK, Safe
<1>7. \A d \in Enqueues : EnqueueInv(d)'
  BY <1>1, <1>2, <1>6 DEF PartsInv, EnqueueInv
<1>8. \A t \in Tasks : RowInv(t)'
  BY <1>1, <1>2 DEF PartsInv, RowInv, Seen
<1>9. PartsInv'
  BY <1>5, <1>7, <1>8 DEF PartsInv
<1>. QED  BY <1>9, Parts, PTL
-----------------------------------------------------------------------------
LEMMA PrepareInit == Init => PrepareInv
<1>. SUFFICES ASSUME Init  PROVE PartsInv
  BY Parts
<1>1. NoRow \in Row
  BY DEF NoRow, Row
<1>2. With \in [Enqueues -> Seq(Wrapper)] /\ \A e \in Enqueues : Len(With[e]) \in Nat
  BY EnqueueAssumption DEF Wrapper
<1>3. TypeOK
  BY <1>1, EnqueueAssumption DEF Init, TypeOK
<1>4. ASSUME NEW e \in Enqueues  PROVE EnqueueInv(e)
  BY <1>2 DEF Init, EnqueueInv, Open, EndOf, HasWrapper
<1>5. ASSUME NEW t \in Tasks  PROVE RowInv(t)
  BY DEF Init, RowInv, NoRow, Seen
<1>. QED  BY <1>3, <1>4, <1>5 DEF PartsInv

LEMMA PrepareStutter == PrepareInv /\ UNCHANGED vars => PrepareInv'
BY DEF PrepareInv, TypeOK, SeenIsPrepared, FailedIsUnseen, RowsOwned, CommandsBuilt,
       SnapshotsRecorded, Seen, NextStep, vars

LEMMA PrepareNext == PrepareInv /\ [Next]_vars => PrepareInv'
BY CreateTaskInv, PrepareStepInv, PushInv, SetTaskExecutionInv, CommitInv, StepFailsInv,
   WorkerStepInv, OtherPushInv, PrepareStutter DEF Next, Enqueue

\* A worker sees a task only with its whole execution command and a published snapshot,
\* and nothing of an enqueue that was refused or failed with an answer (enqueue.go,
\* integrations.go), for any enqueues that share IDs, databases and refs.
THEOREM OnlyPreparedIsSeen == Spec => []PrepareInv
<1>. QED  BY PrepareInit, PrepareNext, PTL DEF Spec

LEMMA PreparedIsKept == PrepareInv => SnapshotKept
BY DEF PrepareInv, SnapshotKept, SeenIsPrepared, SnapshotsRecorded, RowsOwned, Seen

\* Only a worker completes a row, and nothing else changes one that is complete.
LEMMA CompletedRows ==
    ASSUME PrepareInv, NEW e \in Enqueues,
           Enqueue(e) \/ CommitReplyLost(e) \/ StepFails(e) \/ Die(e),
           NEW t \in Tasks, row'[t].at = "completed"
    PROVE  row'[t] = row[t] /\ UNCHANGED ran
<1>1. PartsInv /\ TypeOK /\ EnqueueInv(e) /\ row[t] \in Row
  BY Parts DEF PartsInv, TypeOK
<1>2. UNCHANGED ran
  BY DEF Enqueue, CreateTask, Prepare, Push, SetTaskExecution, Commit, CommitReplyLost, StepFails,
         Die
<1>3. CASE UNCHANGED row \/ row' = RolledBack(e)
  <2>1. NoRow.at = "none"
    BY DEF NoRow
  <2>2. RolledBack(e)[t] = NoRow \/ RolledBack(e)[t] = row[t]
    BY DEF RolledBack
  <2>. QED  BY <1>2, <1>3, <2>1, <2>2
<1>4. CASE CreateTask(e) /\ row[TaskOf[e]].at = "none"
  BY <1>1, <1>2, <1>4 DEF CreateTask, TypeOK
<1>5. CASE SetTaskExecution(e)
  BY <1>1, <1>2, <1>5 DEF SetTaskExecution, TypeOK, Row, EnqueueInv, Open
<1>6. CASE Visible(e)
  <2>1. row' = [row EXCEPT ![TaskOf[e]].at = "pending"] /\ row \in [Tasks -> Row]
    BY <1>1, <1>6 DEF Visible, TypeOK
  <2>2. t # TaskOf[e]
    BY <1>1, <2>1 DEF Row
  <2>. QED  BY <1>2, <2>1, <2>2
<1>7. row'[t] = row[t]
  BY <1>3, <1>4, <1>5, <1>6 DEF Enqueue, CreateTask, Prepare, Push, Commit, CommitReplyLost,
         StepFails, Die, Fails
<1>. QED  BY <1>2, <1>7

LEMMA RunsOwnNext == PrepareInv /\ RunsOwnSnapshot /\ [Next]_vars => RunsOwnSnapshot'
<1>1. SUFFICES ASSUME PrepareInv, RunsOwnSnapshot, [Next]_vars,
                      NEW t \in Tasks, row'[t].at = "completed"
               PROVE  ran'[t] = row'[t].by
  BY DEF RunsOwnSnapshot
<1>2. row \in [Tasks -> Row] /\ ran \in [Tasks -> Enqueues \cup {Nobody}]
  BY <1>1 DEF PrepareInv, TypeOK
<1>3. CASE row'[t] = row[t] /\ ran'[t] = ran[t]
  BY <1>1, <1>3 DEF RunsOwnSnapshot
<1>4. ASSUME NEW e \in Enqueues, Enqueue(e) \/ CommitReplyLost(e) \/ StepFails(e) \/ Die(e)
      PROVE  ran'[t] = row'[t].by
  BY <1>1, <1>3, <1>4, CompletedRows
<1>5. ASSUME NEW u \in Tasks, ClaimTask(u) \/ Restore(u) \/ RemoveTask(u)
      PROVE  ran'[t] = row'[t].by
  <2>1. CASE ClaimTask(u)
    BY <1>1, <1>2, <1>3, <2>1 DEF ClaimTask, Row
  <2>2. CASE Restore(u)
    <3>1. CASE u = t
      BY <1>1, <1>2, <2>2, <3>1 DEF Restore, Row
    <3>2. CASE u # t
      BY <1>2, <1>3, <2>2, <3>2 DEF Restore
    <3>. QED  BY <3>1, <3>2
  <2>3. CASE RemoveTask(u)
    BY <1>1, <1>2, <1>3, <2>3 DEF RemoveTask, NoRow
  <2>. QED  BY <1>5, <2>1, <2>2, <2>3
<1>6. CASE (\E r \in Refs : OtherPush(r)) \/ UNCHANGED vars
  BY <1>3, <1>6 DEF OtherPush, vars
<1>. QED  BY <1>1, <1>4, <1>5, <1>6 DEF Next

\* A waiting task keeps its snapshot unless others touch its branch, and runs in the files
\* of its own enqueue, whatever happened to the branch (git_snapshot.go, git_runtime.go).
THEOREM SnapshotIsOwn == Spec => []OwnSnapshot
<1>1. Init => RunsOwnSnapshot
  BY DEF Init, RunsOwnSnapshot, NoRow
<1>2. PrepareInv /\ RunsOwnSnapshot => OwnSnapshot
  BY PreparedIsKept DEF OwnSnapshot
<1>. QED  BY <1>1, <1>2, RunsOwnNext, OnlyPreparedIsSeen, PTL DEF Spec
-----------------------------------------------------------------------------
(* The settings: ConfigLayers, for any texts of the files.                 *)

ConfigInv == Config!TypeOK /\ Config!LayersSoFar

\* What the environment says of k is the number of one variable, above those of the files.
LEMMA EnvIsOne ==
    ASSUME NEW set \in SUBSET Config!EnvVars, NEW k \in Config!Keys
    PROVE  /\ Config!EnvOf(k, set) \subseteq 5..7
           /\ \A v, w \in Config!EnvOf(k, set) : v = w
BY DEF Config!EnvOf, Config!EnvVars

LEMMA LayersAreNumbers ==
    ASSUME Config!TypeOK, NEW k \in Config!Keys
    PROVE  Config!Layers(k) \subseteq 1..7
BY EnvIsOne DEF Config!TypeOK, Config!Layers, Config!Files

\* The highest layer is the one that nothing is above.
LEMMA HighestIs ==
    ASSUME Config!TypeOK, NEW k \in Config!Keys, NEW i, Config!IsHighest(i, k)
    PROVE  Config!Highest(Config!Layers(k)) = i
<1>1. Config!Layers(k) \subseteq 1..7
  BY LayersAreNumbers
<1>2. PICK S : S = Config!Layers(k)
  OBVIOUS
<1>3. S \subseteq 1..7 /\ i \in S /\ \A j \in S : j <= i
  BY <1>1, <1>2 DEF Config!IsHighest
<1>4. PICK h : h = CHOOSE x \in S : \A j \in S : j <= x
  OBVIOUS
<1>5. h \in S /\ \A j \in S : j <= h
  BY <1>3, <1>4
<1>6. h = i
  BY <1>3, <1>5
<1>. QED  BY <1>2, <1>3, <1>4, <1>6 DEF Config!Highest
-----------------------------------------------------------------------------
(* The steps of loading.                                                   *)

LEMMA ConfigStarts == Config!Init => ConfigInv
<1>1. SUFFICES ASSUME Config!Init PROVE ConfigInv
  OBVIOUS
<1>2. Config!TypeOK
  BY <1>1 DEF Config!Init, Config!TypeOK, Config!Unset, Config!Default, Config!Keys, Config!Files
<1>3. \A i \in Config!Files : text[i] = Config!Silent
  BY <1>1 DEF Config!Init
<1>4. Config!Valid(Config!Silent)
  BY DEF Config!Valid, Config!Silent
<1>5. ASSUME NEW k \in Config!Keys  PROVE Config!Layers(k) = {}
  BY <1>1, <1>3 DEF Config!Init, Config!Layers, Config!Silent, Config!Speaks, Config!EnvOf, Config!Names, Config!Keys
<1>6. Config!LayersSoFar
  BY <1>1, <1>3, <1>4, <1>5 DEF Config!Init, Config!LayersSoFar, Config!FromHighest, Config!Unset
<1>. QED  BY <1>2, <1>6 DEF ConfigInv

\* A file that is decoded is a new highest layer for what it speaks of.
LEMMA DecodeFileInv == ConfigInv /\ Config!DecodeFile => ConfigInv'
<1>1. SUFFICES ASSUME ConfigInv, Config!DecodeFile PROVE ConfigInv'
  OBVIOUS
<1>2. /\ Config!TypeOK /\ Config!LayersSoFar /\ result = "loading"
      /\ layer \in Config!Files /\ layer \in 1..4 /\ env' = env /\ env = {}
  BY <1>1 DEF ConfigInv, Config!DecodeFile, Config!LayersSoFar, Config!Files
<1>3. PICK t \in Texts :
         /\ text' = [text EXCEPT ![layer] = t]
         /\ IF Config!Valid(t)
            THEN /\ cfg' = Config!Merged(layer, t) /\ sources' = Config!Recorded(layer, t)
                 /\ layer' = layer + 1 /\ result' = result
            ELSE result' = "error" /\ UNCHANGED <<cfg, sources, layer>>
  BY <1>1 DEF Config!DecodeFile
<1>4. t \in [Config!Keys -> Config!Entries]
  BY TextsAssumption DEF Config!ConfigAssumption
<1>5. /\ text' \in [Config!Files -> Texts \cup {Config!Silent}] /\ text'[layer] = t
      /\ \A i \in Config!Files \ {layer} : text'[i] = text[i]
  BY <1>2, <1>3 DEF Config!TypeOK
<1>6. CASE ~Config!Valid(t)
  BY <1>2, <1>3, <1>5, <1>6 DEF ConfigInv, Config!TypeOK, Config!LayersSoFar
<1>7. CASE Config!Valid(t)
  <2>1. /\ cfg' = Config!Merged(layer, t) /\ sources' = Config!Recorded(layer, t)
        /\ layer' = layer + 1 /\ result' = "loading"
    BY <1>2, <1>3, <1>7
  <2>2. /\ cfg' \in [Config!Keys -> [from : 0..7, zero : BOOLEAN]]
        /\ sources' \in [Config!Keys -> 0..7]
    BY <1>2, <2>1 DEF Config!TypeOK, Config!Merged, Config!Recorded, Config!Value
  <2>3. Config!TypeOK'
    BY <1>2, <1>5, <2>1, <2>2 DEF Config!TypeOK
  <2>4. /\ text[layer] = Config!Silent
        /\ \A i \in Config!Files : Config!Valid(text[i]) /\ (text[i] # Config!Silent => i < layer)
    BY <1>2 DEF Config!LayersSoFar
  <2>5. \A i \in Config!Files : Config!Valid(text'[i]) /\ (text'[i] # Config!Silent => i < layer')
    BY <1>2, <1>5, <1>7, <2>1, <2>4
  <2>6. ASSUME NEW k \in Config!Keys
        PROVE  sources'[k] = cfg'[k].from /\ Config!FromHighest(k)'
    <3>1. sources[k] = cfg[k].from /\ Config!FromHighest(k)
      BY <1>2, <2>6 DEF Config!LayersSoFar
    <3>2. Config!Layers(k) \subseteq Config!Files /\ Config!Layers(k)' \subseteq Config!Files
      BY <1>2 DEF Config!Layers, Config!EnvOf
    <3>. DEFINE says == \E n \in Config!Names(k) : Config!Speaks(t, n)
    <3>3. Config!Layers(k)' = Config!Layers(k) \cup (IF says THEN {layer} ELSE {})
      <4>1. ~\E n \in Config!Names(k) : Config!Speaks(text[layer], n)
        BY <2>4 DEF Config!Speaks, Config!Silent, Config!Names, Config!Keys
      <4>2. Config!EnvOf(k, env) = {} /\ Config!EnvOf(k, env') = {}
        BY <1>2 DEF Config!EnvOf
      <4>. QED  BY <1>2, <1>5, <4>1, <4>2 DEF Config!Layers
    <3>4. \A i \in Config!Layers(k) : i < layer
      <4>1. SUFFICES ASSUME NEW i \in Config!Files, text[i] = Config!Silent, i \in Config!Layers(k)
                     PROVE  FALSE
        BY <2>4, <3>2
      <4>2. Config!EnvOf(k, env) = {}
        BY <1>2 DEF Config!EnvOf
      <4>. QED  BY <4>1, <4>2 DEF Config!Layers, Config!Speaks, Config!Silent, Config!Names, Config!Keys
    <3>5. CASE ~says
      <4>1. cfg'[k] = cfg[k] /\ sources'[k] = sources[k]
        BY <2>1, <3>5 DEF Config!Merged, Config!Recorded, Config!Aliased, Config!Names
      <4>2. Config!Layers(k)' = Config!Layers(k)
        BY <3>3, <3>5
      <4>3. \A i \in Config!Layers(k) : Config!SaysZero(i, k)' = Config!SaysZero(i, k)
        BY <1>2, <1>5, <3>2, <3>4 DEF Config!SaysZero, Config!Speaks, Config!Files
      <4>. QED  BY <3>1, <4>1, <4>2, <4>3 DEF Config!FromHighest, Config!IsHighest
    <3>6. CASE says
      <4>1. PICK l : l = layer
        OBVIOUS
      <4>2. cfg'[k].from = l /\ sources'[k] = l
        BY <2>1, <3>6, <4>1 DEF Config!Merged, Config!Recorded, Config!Aliased, Config!Names, Config!Value
      <4>3. cfg'[k].zero <=> Config!SaysZero(l, k)'
        <5>1. cfg'[k].zero <=> IF k = "git.remote" /\ Config!Aliased(t) THEN t["source.remote"] = "zero"
                              ELSE t[k] = "zero"
          BY <2>1, <3>6 DEF Config!Merged, Config!Value, Config!Names, Config!Aliased
        <5>2. k = "git.remote" => (Config!Aliased(t) <=> ~Config!Speaks(t, k))
          BY <3>6 DEF Config!Aliased, Config!Names
        <5>. QED  BY <1>2, <1>5, <4>1, <5>1, <5>2 DEF Config!SaysZero, Config!Speaks
      <4>4. l \in Config!Layers(k)' /\ \A j \in Config!Layers(k)' : j <= l
        BY <1>2, <3>2, <3>3, <3>4, <3>6, <4>1 DEF Config!Files
      <4>. QED  BY <4>2, <4>3, <4>4 DEF Config!FromHighest, Config!IsHighest, Config!SaysZero, Config!Speaks
    <3>. QED  BY <3>5, <3>6
  <2>7. Config!LayersSoFar'
    BY <1>2, <2>1, <2>5, <2>6 DEF Config!LayersSoFar
  <2>. QED  BY <2>3, <2>7 DEF ConfigInv
<1>. QED  BY <1>6, <1>7

\* A variable that sets k, chosen from those that do: there is no other.
LEMMA ChosenVariable ==
    ASSUME NEW set \in SUBSET Config!EnvVars, NEW k \in Config!Keys, k \in Config!Overridden(set),
           NEW v, v = CHOOSE x \in Config!EnvOf(k, set) : TRUE
    PROVE  v \in 5..7 /\ Config!EnvOf(k, set) = {v}
<1>1. Config!EnvOf(k, set) # {}
  BY DEF Config!Overridden
<1>2. v \in Config!EnvOf(k, set)
  BY <1>1
<1>. QED  BY <1>2, EnvIsOne

\* The environment is above every file.
LEMMA ApplyEnvInv == ConfigInv /\ Config!ApplyEnv => ConfigInv'
<1>1. SUFFICES ASSUME ConfigInv, Config!ApplyEnv PROVE ConfigInv'
  OBVIOUS
<1>2. /\ Config!TypeOK /\ Config!LayersSoFar /\ result = "loading" /\ layer = 5
      /\ layer' = 6 /\ text' = text /\ result' = result
  BY <1>1 DEF ConfigInv, Config!ApplyEnv
<1>3. env = {}
  BY <1>2 DEF Config!LayersSoFar
<1>. DEFINE V(k, set) == CHOOSE v \in Config!EnvOf(k, set) : TRUE
<1>4. PICK set \in SUBSET Config!EnvVars :
         /\ env' = set
         /\ cfg' = [k \in Config!Keys |-> IF k \in Config!Overridden(set)
                                          THEN [from |-> V(k, set), zero |-> FALSE] ELSE cfg[k]]
         /\ sources' = [k \in Config!Keys |-> IF k \in Config!Overridden(set) THEN V(k, set) ELSE sources[k]]
  BY <1>1 DEF Config!ApplyEnv
<1>5. ASSUME NEW k \in Config!Keys
      PROVE  /\ cfg'[k] \in [from : 0..7, zero : BOOLEAN] /\ sources'[k] \in 0..7
             /\ sources'[k] = cfg'[k].from /\ Config!FromHighest(k)'
  <2>1. /\ cfg[k] \in [from : 0..7, zero : BOOLEAN] /\ sources[k] \in 0..7
        /\ sources[k] = cfg[k].from /\ Config!FromHighest(k)
    BY <1>2, <1>5 DEF Config!LayersSoFar, Config!TypeOK
  <2>2. /\ Config!Layers(k) \subseteq 1..4
        /\ Config!Layers(k)' = Config!Layers(k) \cup Config!EnvOf(k, set)
    BY <1>2, <1>3, <1>4 DEF Config!Layers, Config!EnvOf, Config!Files
  <2>3. CASE k \in Config!Overridden(set)
    <3>1. PICK v : v = V(k, set)
      OBVIOUS
    <3>2. v \in 5..7 /\ Config!EnvOf(k, set) = {v}
      BY <2>3, <3>1, ChosenVariable
    <3>3. cfg'[k] = [from |-> v, zero |-> FALSE] /\ sources'[k] = v
      BY <1>4, <2>3, <3>1
    <3>4. v \in Config!Layers(k)' /\ \A j \in Config!Layers(k)' : j <= v
      BY <2>2, <3>2
    <3>5. ~Config!SaysZero(cfg[k].from, k)'
      BY <3>2, <3>3 DEF Config!SaysZero, Config!Files
    <3>. QED  BY <3>2, <3>3, <3>4, <3>5 DEF Config!FromHighest, Config!IsHighest
  <2>4. CASE k \notin Config!Overridden(set)
    <3>1. cfg'[k] = cfg[k] /\ sources'[k] = sources[k]
      BY <1>4, <2>4
    <3>2. Config!Layers(k)' = Config!Layers(k)
      BY <2>2, <2>4 DEF Config!Overridden
    <3>. QED  BY <1>2, <2>1, <3>1, <3>2 DEF Config!FromHighest, Config!IsHighest, Config!SaysZero, Config!Speaks
  <2>. QED  BY <2>3, <2>4
<1>6. /\ cfg' \in [Config!Keys -> [from : 0..7, zero : BOOLEAN]] /\ sources' \in [Config!Keys -> 0..7]
  BY <1>4, <1>5
<1>7. Config!TypeOK'
  BY <1>2, <1>4, <1>6 DEF Config!TypeOK
<1>8. Config!LayersSoFar'
  <2>1. \A i \in Config!Files : Config!Valid(text[i]) /\ (text[i] # Config!Silent => i < 5)
    BY <1>2 DEF Config!LayersSoFar
  <2>2. \A i \in Config!Files : Config!Valid(text[i]) /\ (text[i] # Config!Silent => i < 6)
    BY <2>1 DEF Config!Files
  <2>. QED  BY <1>2, <1>5, <2>2 DEF Config!LayersSoFar
<1>. QED  BY <1>7, <1>8 DEF ConfigInv

\* A field that is zero when everything was read gets its default.
LEMMA ApplyDefaultsInv == ConfigInv /\ Config!ApplyDefaults => ConfigInv'
<1>1. SUFFICES ASSUME ConfigInv, Config!ApplyDefaults PROVE ConfigInv'
  OBVIOUS
<1>. DEFINE w == "worker.workdir"
<1>2. /\ Config!TypeOK /\ Config!LayersSoFar /\ result = "loading" /\ layer = 6
      /\ layer' = 7 /\ text' = text /\ env' = env /\ result' = result /\ w \in Config!Keys
      /\ cfg' = [cfg EXCEPT ![w] = IF cfg[w].zero THEN [from |-> Config!Default, zero |-> FALSE] ELSE cfg[w]]
      /\ sources' = [sources EXCEPT ![w] = IF cfg[w].zero THEN Config!Default ELSE sources[w]]
  BY <1>1 DEF ConfigInv, Config!ApplyDefaults, Config!Keys
<1>3. /\ cfg \in [Config!Keys -> [from : 0..7, zero : BOOLEAN]] /\ sources \in [Config!Keys -> 0..7]
      /\ \A k \in Config!Keys : sources[k] = cfg[k].from /\ Config!FromHighest(k)
      /\ \A i \in Config!Files : Config!Valid(text[i]) /\ (text[i] # Config!Silent => i < 6)
  BY <1>2 DEF Config!TypeOK, Config!LayersSoFar
<1>4. \A k \in Config!Keys : /\ Config!Layers(k)' = Config!Layers(k)
                             /\ \A i : Config!SaysZero(i, k)' = Config!SaysZero(i, k)
  BY <1>2 DEF Config!Layers, Config!SaysZero
<1>5. /\ cfg'[w] = IF cfg[w].zero THEN [from |-> Config!Default, zero |-> FALSE] ELSE cfg[w]
      /\ sources'[w] = IF cfg[w].zero THEN Config!Default ELSE sources[w]
      /\ \A k \in Config!Keys \ {w} : cfg'[k] = cfg[k] /\ sources'[k] = sources[k]
  BY <1>2, <1>3
<1>6. sources'[w] = cfg'[w].from /\ Config!FromDefault(w)'
  <2>1. Config!FromHighest(w) /\ sources[w] = cfg[w].from /\ cfg[w].zero \in BOOLEAN
    BY <1>2, <1>3
  <2>2. CASE Config!Layers(w) = {}
    BY <1>2, <1>4, <1>5, <2>1, <2>2 DEF Config!FromHighest, Config!FromDefault, Config!Unset
  <2>3. CASE Config!Layers(w) # {}
    <3>1. /\ Config!IsHighest(cfg[w].from, w)
          /\ cfg[w].zero <=> Config!SaysZero(cfg[w].from, w)
      BY <2>1, <2>3 DEF Config!FromHighest
    <3>2. ~cfg'[w].zero
      BY <1>5, <2>1
    <3>3. cfg'[w].from = IF cfg[w].zero THEN Config!Default ELSE cfg[w].from
      BY <1>5
    <3>4. PICK i : i = cfg[w].from
      OBVIOUS
    <3>5. i \in Config!Layers(w)' /\ Config!IsHighest(i, w)'
      BY <1>2, <1>4, <3>1, <3>4 DEF Config!IsHighest
    <3>6. Config!SaysZero(i, w)' <=> cfg[w].zero
      BY <1>2, <1>4, <3>1, <3>4
    <3>. QED  BY <1>5, <2>1, <3>2, <3>3, <3>4, <3>5, <3>6 DEF Config!FromDefault
  <2>. QED  BY <2>2, <2>3
<1>7. ASSUME NEW k \in Config!Keys \ {w}
      PROVE  sources'[k] = cfg'[k].from /\ Config!FromHighest(k)'
  BY <1>2, <1>3, <1>4, <1>5, <1>7 DEF Config!FromHighest, Config!IsHighest, Config!SaysZero
<1>8. Config!TypeOK'
  <2>1. cfg' \in [Config!Keys -> [from : 0..7, zero : BOOLEAN]] /\ sources' \in [Config!Keys -> 0..7]
    BY <1>2, <1>3 DEF Config!Default
  <2>. QED  BY <1>2, <2>1 DEF Config!TypeOK
<1>9. Config!LayersSoFar'
  <2>1. \A i \in Config!Files : Config!Valid(text[i]) /\ (text[i] # Config!Silent => i < 7)
    BY <1>3 DEF Config!Files
  <2>. QED  BY <1>2, <1>6, <1>7, <2>1 DEF Config!LayersSoFar
<1>. QED  BY <1>8, <1>9 DEF ConfigInv

LEMMA ValidateInv == ConfigInv /\ Config!Validate => ConfigInv'
<1>1. SUFFICES ASSUME ConfigInv, Config!Validate PROVE ConfigInv'
  OBVIOUS
<1>2. /\ Config!TypeOK /\ Config!LayersSoFar /\ result = "loading" /\ layer = 7 /\ result' = "ok"
      /\ UNCHANGED <<text, env, layer, cfg, sources>> /\ "worker.workdir" \in Config!Keys
  BY <1>1 DEF ConfigInv, Config!Validate, Config!Keys
<1>3. ~cfg["worker.workdir"].zero
  BY <1>2 DEF Config!LayersSoFar, Config!FromDefault
<1>4. Config!TypeOK'
  BY <1>2, <1>3 DEF Config!TypeOK
<1>5. Config!LayersSoFar'
  BY <1>2 DEF Config!LayersSoFar, Config!FromDefault, Config!FromHighest, Config!IsHighest,
              Config!Layers, Config!SaysZero
<1>. QED  BY <1>4, <1>5 DEF ConfigInv

LEMMA ConfigInvNext == ConfigInv /\ [PartsNext]_all => ConfigInv'
<1>1. SUFFICES ASSUME ConfigInv, [PartsNext]_all PROVE ConfigInv'
  OBVIOUS
<1>2. CASE Config!Next
  BY <1>1, <1>2, DecodeFileInv, ApplyEnvInv, ApplyDefaultsInv, ValidateInv DEF Config!Next
<1>3. CASE UNCHANGED configVars
  BY <1>1, <1>3 DEF configVars, ConfigInv, Config!TypeOK, Config!LayersSoFar, Config!FromDefault,
     Config!FromHighest, Config!IsHighest, Config!Layers, Config!SaysZero
<1>. QED  BY <1>1, <1>2, <1>3 DEF PartsNext, all

\* The precedence that is documented follows.
LEMMA PrecedenceFollows == ConfigInv => LayersRespected
<1>1. SUFFICES ASSUME ConfigInv, result = "ok"
               PROVE  Config!HighestWins /\ Config!SourceIsWinner /\ Config!BadNeverHidden
  BY DEF ConfigInv, LayersRespected, Config!HighestWins, Config!SourceIsWinner, Config!BadNeverHidden
<1>2. Config!TypeOK /\ Config!LayersSoFar /\ layer = 7
  BY <1>1 DEF ConfigInv, Config!LayersSoFar
<1>3. ASSUME NEW k \in Config!Keys
      PROVE  /\ cfg[k].from = Config!Winner(k)
             /\ Config!Winner(k) # Config!Default => (cfg[k].zero <=> Config!SaysZero(Config!Winner(k), k))
  <2>1. IF k = "worker.workdir" THEN Config!FromDefault(k) ELSE Config!FromHighest(k)
    BY <1>1, <1>2, <1>3 DEF Config!LayersSoFar
  <2>2. CASE Config!Layers(k) = {}
    <3>1. Config!Highest(Config!Layers(k)) = Config!Default
      BY <2>2 DEF Config!Highest
    <3>2. Config!Winner(k) = Config!Default
      BY <3>1 DEF Config!Winner
    <3>. QED  BY <2>1, <2>2, <3>2 DEF Config!FromDefault, Config!FromHighest, Config!Unset
  <2>3. CASE Config!Layers(k) # {}
    <3>1. PICK i : /\ Config!IsHighest(i, k)
                   /\ IF k = "worker.workdir"
                      THEN ~cfg[k].zero /\ cfg[k].from = IF Config!SaysZero(i, k) THEN Config!Default ELSE i
                      ELSE cfg[k].from = i /\ (cfg[k].zero <=> Config!SaysZero(i, k))
      BY <2>1, <2>3 DEF Config!FromDefault, Config!FromHighest
    <3>2. Config!Highest(Config!Layers(k)) = i
      BY <1>2, <3>1, HighestIs
    <3>3. Config!Winner(k) = IF k = "worker.workdir" /\ Config!SaysZero(i, k) THEN Config!Default ELSE i
      BY <3>2 DEF Config!Winner
    <3>. QED  BY <3>1, <3>3
  <2>. QED  BY <2>2, <2>3
<1>4. Config!HighestWins
  BY <1>3 DEF Config!HighestWins
<1>5. Config!SourceIsWinner
  BY <1>1, <1>2 DEF Config!SourceIsWinner, Config!LayersSoFar
<1>6. Config!BadNeverHidden
  BY <1>1, <1>2 DEF Config!BadNeverHidden, Config!LayersSoFar, Config!Valid
<1>. QED  BY <1>4, <1>5, <1>6

\* Whatever the files and the environment say: the environment wins over the project files,
\* these over the user files and all over the defaults, under either name of the remote; the
\* origin that is shown is that layer, and a refused value is never hidden by another layer
\* (config.go, files.go, settings.go).
THEOREM PrecedenceHolds == PartsSpec => []LayersRespected
<1>1. PartsInit => ConfigInv
  BY ConfigStarts DEF PartsInit
<1>. QED  BY <1>1, ConfigInvNext, PrecedenceFollows, PTL DEF PartsSpec
-----------------------------------------------------------------------------
(* ArtifactSync: what a step leaves true.                                  *)

LEMMA UploadSettings ==
    ASSUME NEW c \in Syncs
    PROVE  /\ Settings[c].kind \in [Settings[c].files -> {"file", "big", "link", "special"}]
           /\ Settings[c].include \subseteq Settings[c].files
           /\ Settings[c].finalInclude \subseteq Settings[c].files
           /\ Settings[c].links \in {"skip", "error"} /\ Settings[c].versions \in Nat
BY ArtifactsAssumption DEF Up!SyncAssumption

\* The content of a file or of a copy, at two times.
LEMMA NotAfterTransitive ==
    ASSUME NEW c \in Syncs, NEW x, NEW y, NEW z, Up(c)!NotAfter(x, y), Up(c)!NotAfter(y, z),
           x.head \in Nat, x.tail \in Nat, y.head \in Nat, y.tail \in Nat, z.head \in Nat, z.tail \in Nat
    PROVE  Up(c)!NotAfter(x, z)
BY DEF Up!NotAfter

\* The types, as far as they are needed for copies.
LEMMA UploadTypes ==
    ASSUME NEW c \in Syncs, Up(c)!TypeOK
    PROVE  /\ \A f \in Settings[c].files :
                /\ file[f].head \in Nat /\ file[f].tail \in Nat
                /\ object[f] # NoFile => object[f].head \in Nat /\ object[f].tail \in Nat
           /\ \A u \in Settings[c].uploaders :
                job[u].staged \in Up(c)!Content => job[u].staged.head \in Nat /\ job[u].staged.tail \in Nat
<1>1. Settings[c].versions \in Nat
  BY UploadSettings
<1>2. 0..Settings[c].versions \subseteq Nat
  BY <1>1
<1>. QED  BY <1>2 DEF Up!TypeOK, Up!Content, Up!Versions, Up!Job

\* The payload writes: contents grow, and there is no final pass yet.
LEMMA PayloadStep ==
    ASSUME NEW c \in Syncs, Up(c)!SyncInv, Up(c)!Running, Up(c)!TypeOK',
           \A f \in Settings[c].files : /\ Up(c)!Whole(file'[f])
                                        /\ Up(c)!NotAfter(file[f], file'[f])
    PROVE  Up(c)!SyncInv'
<1>1. /\ UNCHANGED <<payload, pass, timer, job, object, outcome, lost>> /\ payload = "running"
  BY DEF Up!Running
<1>2. /\ Up(c)!TypeOK /\ Up(c)!ObjectsWhole /\ Up(c)!PassesApart /\ Up(c)!CopiesBetween
  BY DEF Up!SyncInv
<1>3. Up(c)!ObjectsWhole' /\ Up(c)!PassesApart'
  BY <1>1, <1>2 DEF Up!ObjectsWhole, Up!PassesApart, Up!Handles, Up!Whole
<1>4. ~(pass.at # "off" /\ pass.kind = "final")
  BY <1>1, <1>2 DEF Up!PassesApart
<1>5. Up(c)!FinalSoFar'
  BY <1>1, <1>4 DEF Up!FinalSoFar
<1>6. Settings[c].versions \in Nat /\ 0..Settings[c].versions \subseteq Nat
  BY UploadSettings
<1>7. \A f \in Settings[c].files : file'[f].head \in Nat /\ file'[f].tail \in Nat
  BY <1>6 DEF Up!TypeOK, Up!Versions
<1>8. ASSUME NEW f \in Settings[c].files, NEW x, x.head \in Nat, x.tail \in Nat, Up(c)!NotAfter(x, file[f])
      PROVE  Up(c)!NotAfter(x, file'[f])
  BY <1>2, <1>7, <1>8, UploadTypes, NotAfterTransitive
<1>9. Up(c)!CopiesBetween'
  <2>1. ASSUME NEW f \in Settings[c].files
        PROVE  /\ Up(c)!Whole(file[f])'
               /\ object'[f] # NoFile => Up(c)!NotAfter(object[f], file[f])'
    BY <1>1, <1>2, <1>8, <2>1, UploadTypes DEF Up!CopiesBetween, Up!Whole, Up!NotAfter
  <2>2. ASSUME NEW u \in Settings[c].uploaders, job[u].at \in {"read", "check", "stat", "put"}
        PROVE  Up(c)!NotAfter(job[u].staged, file[job[u].name])'
    <3>1. job[u].name \in Settings[c].files
      BY <1>2, <2>2 DEF Up!PassesApart
    <3>2. job[u].staged \in Up(c)!Content /\ Up(c)!NotAfter(job[u].staged, file[job[u].name])
      BY <1>2, <2>2 DEF Up!CopiesBetween
    <3>. QED  BY <1>1, <1>2, <1>8, <3>1, <3>2, UploadTypes DEF Up!NotAfter
  <2>. QED  BY <1>1, <1>2, <2>1, <2>2 DEF Up!CopiesBetween, Up!Whole, Up!NotAfter
<1>. QED  BY <1>3, <1>5, <1>9 DEF Up!SyncInv

\* The four ways in which the payload changes a file.
LEMMA PayloadInv ==
    ASSUME NEW c \in Syncs, Up(c)!SyncInv, NEW f \in Settings[c].files,
           Up(c)!Publish(f) \/ Up(c)!WriteHead(f) \/ Up(c)!WriteTail(f) \/ Up(c)!Unlink(f)
    PROVE  Up(c)!SyncInv'
<1>1. /\ Up(c)!TypeOK /\ Up(c)!Running
      /\ \A g \in Settings[c].files : Up(c)!Whole(file[g])
  BY DEF Up!SyncInv, Up!CopiesBetween, Up!Publish, Up!WriteHead, Up!WriteTail, Up!Unlink
<1>2. Settings[c].versions \in Nat
  BY UploadSettings
<1>3. PICK n : n = Settings[c].versions
  OBVIOUS
<1>4. /\ n \in Nat /\ n = Settings[c].versions
      /\ file \in [Settings[c].files -> [there : BOOLEAN, head : 0..n, tail : 0..n, born : 0..n, aged : BOOLEAN]]
  BY <1>1, <1>2, <1>3 DEF Up!TypeOK, Up!Versions
<1>5. PICK new : new = file'[f]
  OBVIOUS
<1>. DEFINE old == file[f]
            v == old.head + 1
<1>6. /\ old \in [there : BOOLEAN, head : 0..n, tail : 0..n, born : 0..n, aged : BOOLEAN]
      /\ old.head \in {old.tail, old.tail + 1}
  BY <1>1, <1>4 DEF Up!Whole
<1>7. file' = [file EXCEPT ![f] = new]
  BY <1>4, <1>5 DEF Up!Publish, Up!WriteHead, Up!WriteTail, Up!Unlink
<1>8. \/ old.head < n /\ new = [there |-> TRUE, head |-> v, tail |-> v, born |-> v, aged |-> FALSE]
      \/ old.head = old.tail /\ old.head < n /\ new = [old EXCEPT !.head = v, !.aged = FALSE]
      \/ new = [old EXCEPT !.tail = old.head, !.aged = FALSE]
      \/ new = [old EXCEPT !.there = FALSE]
  <2>1. CASE Up(c)!Publish(f)
    BY <1>4, <1>5, <2>1 DEF Up!Publish
  <2>2. CASE Up(c)!WriteHead(f)
    BY <1>4, <1>5, <1>6, <2>2 DEF Up!WriteHead
  <2>3. CASE Up(c)!WriteTail(f)
    BY <1>4, <1>5, <1>6, <2>3 DEF Up!WriteTail
  <2>4. CASE Up(c)!Unlink(f)
    BY <1>4, <1>5, <2>4 DEF Up!Unlink
  <2>. QED  BY <2>1, <2>2, <2>3, <2>4
<1>9. /\ new \in [there : BOOLEAN, head : 0..n, tail : 0..n, born : 0..n, aged : BOOLEAN]
      /\ new.head \in {new.tail, new.tail + 1} /\ old.head <= new.head /\ old.tail <= new.tail
  <2>1. CASE old.head < n /\ new = [there |-> TRUE, head |-> v, tail |-> v, born |-> v, aged |-> FALSE]
    <3>1. new \in [there : BOOLEAN, head : 0..n, tail : 0..n, born : 0..n, aged : BOOLEAN]
      BY <1>4, <1>6, <2>1
    <3>. QED  BY <1>4, <1>6, <2>1, <3>1
  <2>2. CASE old.head = old.tail /\ old.head < n /\ new = [old EXCEPT !.head = v, !.aged = FALSE]
    <3>1. v \in 0..n
      BY <1>4, <1>6, <2>2
    <3>2. PICK w \in 0..n : w = v
      BY <3>1
    <3>3. new = [old EXCEPT !.head = w, !.aged = FALSE]
      BY <2>2, <3>2
    <3>4. new \in [there : BOOLEAN, head : 0..n, tail : 0..n, born : 0..n, aged : BOOLEAN]
      BY <1>6, <3>3
    <3>. QED  BY <1>4, <1>6, <2>2, <3>4
  <2>3. CASE new = [old EXCEPT !.tail = old.head, !.aged = FALSE]
    <3>1. new \in [there : BOOLEAN, head : 0..n, tail : 0..n, born : 0..n, aged : BOOLEAN]
      BY <1>4, <1>6, <2>3
    <3>. QED  BY <1>4, <1>6, <2>3, <3>1
  <2>4. CASE new = [old EXCEPT !.there = FALSE]
    <3>1. new \in [there : BOOLEAN, head : 0..n, tail : 0..n, born : 0..n, aged : BOOLEAN]
      BY <1>4, <1>6, <2>4
    <3>. QED  BY <1>4, <1>6, <2>4, <3>1
  <2>. QED  BY <1>8, <2>1, <2>2, <2>3, <2>4
<1>10. file' \in [Settings[c].files -> [there : BOOLEAN, head : 0..n, tail : 0..n, born : 0..n, aged : BOOLEAN]]
  BY <1>4, <1>7, <1>9
<1>11. Up(c)!TypeOK'
  BY <1>1, <1>4, <1>10 DEF Up!TypeOK, Up!Versions, Up!Running, Up!Job, Up!Content
<1>12. \A g \in Settings[c].files : Up(c)!Whole(file'[g]) /\ Up(c)!NotAfter(file[g], file'[g])
  <2>1. SUFFICES ASSUME NEW g \in Settings[c].files
                 PROVE  Up(c)!Whole(file'[g]) /\ Up(c)!NotAfter(file[g], file'[g])
    OBVIOUS
  <2>2. CASE g = f
    BY <1>4, <1>7, <1>9, <2>2 DEF Up!Whole, Up!NotAfter
  <2>3. CASE g # f
    <3>1. file'[g] = file[g] /\ file[g].head \in Nat /\ file[g].tail \in Nat
      BY <1>4, <1>7, <2>3
    <3>. QED  BY <1>1, <3>1 DEF Up!Whole, Up!NotAfter
  <2>. QED  BY <2>2, <2>3
<1>. QED  BY <1>1, <1>11, <1>12, PayloadStep

LEMMA AgeInv ==
    ASSUME NEW c \in Syncs, Up(c)!SyncInv, NEW f \in Settings[c].files, Up(c)!Age(f)
    PROVE  Up(c)!SyncInv'
<1>1. /\ Up(c)!TypeOK /\ UNCHANGED <<payload, pass, timer, job, object, outcome, lost>>
      /\ file' = [file EXCEPT ![f].aged = TRUE]
  BY DEF Up!SyncInv, Up!Age
<1>2. /\ file' \in [Settings[c].files -> [there : BOOLEAN, head : Up(c)!Versions, tail : Up(c)!Versions,
                                         born : Up(c)!Versions, aged : BOOLEAN]]
      /\ \A g \in Settings[c].files : /\ file'[g].there = file[g].there
                                      /\ file'[g].head = file[g].head /\ file'[g].tail = file[g].tail
  <2>1. PICK V : V = Up(c)!Versions
    OBVIOUS
  <2>2. file \in [Settings[c].files -> [there : BOOLEAN, head : V, tail : V, born : V, aged : BOOLEAN]]
    BY <1>1, <2>1 DEF Up!TypeOK
  <2>3. file' \in [Settings[c].files -> [there : BOOLEAN, head : V, tail : V, born : V, aged : BOOLEAN]]
    BY <1>1, <2>2
  <2>. QED  BY <1>1, <2>1, <2>2, <2>3
<1>3. Up(c)!TypeOK'
  BY <1>1, <1>2 DEF Up!TypeOK, Up!Job, Up!Content, Up!Versions
<1>4. Up(c)!PassesApart
  BY DEF Up!SyncInv
<1>5. Up(c)!ObjectsWhole' /\ Up(c)!PassesApart'
  BY <1>1 DEF Up!SyncInv, Up!ObjectsWhole, Up!PassesApart, Up!Handles, Up!Whole
<1>6. \A u \in Settings[c].uploaders : job[u].at # "idle" => job[u].name \in Settings[c].files
  BY <1>4 DEF Up!PassesApart
<1>7. Up(c)!CopiesBetween'
  BY <1>1, <1>2, <1>6 DEF Up!SyncInv, Up!CopiesBetween, Up!Whole, Up!NotAfter
<1>8. Up(c)!FinalSoFar'
  <2>1. \A g \in Settings[c].files : Up(c)!Settled(g) => Up(c)!Settled(g)'
    BY <1>1, <1>2 DEF Up!Settled, Up!ContentOf
  <2>2. \A g \in Settings[c].include \cup Settings[c].finalInclude : g \in Settings[c].files
    BY UploadSettings
  <2>. QED  BY <1>1, <1>2, <1>6, <2>1, <2>2 DEF Up!SyncInv, Up!FinalSoFar, Up!ContentOf, Up!Handles
<1>. QED  BY <1>3, <1>5, <1>7, <1>8 DEF Up!SyncInv
-----------------------------------------------------------------------------
(* The passes.                                                             *)

\* A step that changes neither files nor objects nor copies.
LEMMA PassStep ==
    ASSUME NEW c \in Syncs, Up(c)!SyncInv, UNCHANGED <<file, object>>,
           UNCHANGED job,
           Up(c)!TypeOK', Up(c)!PassesApart', Up(c)!FinalSoFar'
    PROVE  Up(c)!SyncInv'
BY DEF Up!SyncInv, Up!ObjectsWhole, Up!CopiesBetween, Up!Whole, Up!NotAfter

LEMMA SettledSame ==
    ASSUME NEW c \in Syncs, UNCHANGED <<file, object>>, NEW f
    PROVE  Up(c)!Settled(f) <=> Up(c)!Settled(f)'
BY DEF Up!Settled, Up!ContentOf

\* The final pass as it is, or with another end.
LEMMA FinalSoFarSame ==
    ASSUME NEW c \in Syncs, Up(c)!SyncInv, UNCHANGED <<file, object, job>>,
           pass.at # "off", pass'.kind = pass.kind, pass'.todo = pass.todo,
           ~pass'.failed => ~pass.failed
    PROVE  Up(c)!FinalSoFar'
BY SettledSame DEF Up!SyncInv, Up!FinalSoFar, Up!Handles, Up!ContentOf

LEMMA EndsInv ==
    ASSUME NEW c \in Syncs, Up(c)!SyncInv, Up(c)!Ends
    PROVE  Up(c)!SyncInv'
<1>1. /\ Up(c)!TypeOK /\ Up(c)!PassesApart /\ payload = "running" /\ payload' = "ended"
      /\ pass' = IF pass.at = "off" THEN pass ELSE [pass EXCEPT !.live = FALSE]
      /\ UNCHANGED <<file, timer, job, object, outcome, lost>>
  BY DEF Up!SyncInv, Up!Ends
<1>2. Up(c)!TypeOK'
  BY <1>1 DEF Up!TypeOK, Up!Job, Up!Content, Up!Versions
<1>3. /\ pass'.at = pass.at /\ pass'.kind = pass.kind /\ pass'.todo = pass.todo /\ pass'.failed = pass.failed
  BY <1>1 DEF Up!TypeOK
<1>4. Up(c)!PassesApart'
  BY <1>1, <1>3 DEF Up!PassesApart, Up!Handles
<1>5. Up(c)!FinalSoFar'
  BY <1>1, <1>3, FinalSoFarSame DEF Up!FinalSoFar
<1>. QED  BY <1>1, <1>2, <1>4, <1>5, PassStep

\* A pass is started when there is none.
LEMMA StartInv ==
    ASSUME NEW c \in Syncs, Up(c)!SyncInv, Up(c)!StartPeriodic \/ Up(c)!StartFinal
    PROVE  Up(c)!SyncInv'
<1>1. /\ Up(c)!TypeOK /\ Up(c)!PassesApart /\ UNCHANGED <<file, payload, job, object, outcome, lost>>
  BY DEF Up!SyncInv, Up!StartPeriodic, Up!StartFinal
<1>2. pass.at = "off"
  BY <1>1 DEF Up!TypeOK, Up!StartPeriodic, Up!StartFinal, Up!PassesApart
<1>3. \A u \in Settings[c].uploaders : job[u].at = "idle"
  BY <1>1, <1>2 DEF Up!TypeOK
<1>4. \/ /\ pass' = Up(c)!Scan("periodic") /\ timer' = "syncing" /\ outcome = "none"
      \/ /\ pass' = Up(c)!Scan("final") /\ timer' = "ended" /\ payload = "ended" /\ outcome = "none"
  BY <1>1 DEF Up!StartPeriodic, Up!StartFinal, Up!PassesApart
<1>5. Up(c)!TypeOK'
  <2>1. pass' \in [at : {"walk"}, kind : {"periodic", "final"}, todo : SUBSET Settings[c].files,
                   failed : BOOLEAN, live : BOOLEAN]
    <3>1. PICK F : F = Settings[c].files
      OBVIOUS
    <3>2. \E k \in {"periodic", "final"} : pass' = [at |-> "walk", kind |-> k, todo |-> F, failed |-> FALSE, live |-> TRUE]
      BY <1>4, <3>1 DEF Up!Scan
    <3>. QED  BY <3>1, <3>2
  <2>. QED  BY <1>1, <1>4, <2>1 DEF Up!TypeOK, Up!Job, Up!Content, Up!Versions
<1>6. Up(c)!PassesApart'
  BY <1>1, <1>3, <1>4 DEF Up!PassesApart, Up!Scan, Up!Handles
<1>7. Up(c)!FinalSoFar'
  BY <1>1, <1>3, <1>4, UploadSettings DEF Up!FinalSoFar, Up!Scan
<1>. QED  BY <1>1, <1>5, <1>6, <1>7, PassStep

LEMMA TimerStopsInv ==
    ASSUME NEW c \in Syncs, Up(c)!SyncInv, Up(c)!TimerStops
    PROVE  Up(c)!SyncInv'
<1>1. /\ Up(c)!TypeOK /\ Up(c)!PassesApart /\ timer = "waiting" /\ timer' = "ended"
      /\ UNCHANGED <<file, payload, pass, job, object, outcome, lost>>
  BY DEF Up!SyncInv, Up!TimerStops
<1>2. pass.at = "off"
  BY <1>1 DEF Up!PassesApart
<1>3. Up(c)!TypeOK'
  BY <1>1 DEF Up!TypeOK, Up!Job, Up!Content, Up!Versions
<1>4. Up(c)!PassesApart'
  BY <1>1, <1>2 DEF Up!PassesApart, Up!Handles
<1>5. Up(c)!FinalSoFar'
  BY <1>1, <1>2 DEF Up!FinalSoFar
<1>. QED  BY <1>1, <1>3, <1>4, <1>5, PassStep

LEMMA EndWalkInv ==
    ASSUME NEW c \in Syncs, Up(c)!SyncInv, Up(c)!EndWalk \/ Up(c)!FinalTimeout
    PROVE  Up(c)!SyncInv'
<1>1. /\ Up(c)!TypeOK /\ Up(c)!PassesApart /\ pass.at # "off"
      /\ UNCHANGED <<file, payload, timer, job, object, outcome, lost>>
  BY DEF Up!SyncInv, Up!EndWalk, Up!FinalTimeout
<1>2. /\ pass' \in [at : {"walk", "drain"}, kind : {"periodic", "final"}, todo : SUBSET Settings[c].files,
                    failed : BOOLEAN, live : BOOLEAN]
      /\ pass'.kind = pass.kind /\ pass'.todo = pass.todo
      /\ ~pass'.failed => ~pass.failed /\ (pass'.at = "drain" => pass.todo = {})
  <2>1. CASE Up(c)!EndWalk
    BY <1>1, <2>1 DEF Up!EndWalk, Up!TypeOK
  <2>2. CASE Up(c)!FinalTimeout
    BY <1>1, <2>2 DEF Up!FinalTimeout, Up!TypeOK, Up!PassesApart
  <2>. QED  BY <2>1, <2>2
<1>3. Up(c)!TypeOK'
  BY <1>1, <1>2 DEF Up!TypeOK, Up!Job, Up!Content, Up!Versions
<1>4. Up(c)!PassesApart'
  BY <1>1, <1>2 DEF Up!PassesApart, Up!Handles
<1>5. Up(c)!FinalSoFar'
  BY <1>1, <1>2, FinalSoFarSame
<1>. QED  BY <1>1, <1>3, <1>4, <1>5, PassStep

\* A final pass that ends well has seen to every selected file.
LEMMA EndPassInv ==
    ASSUME NEW c \in Syncs, Up(c)!SyncInv, Up(c)!EndPass
    PROVE  /\ Up(c)!SyncInv'
           /\ outcome' # outcome /\ outcome' = "ok" =>
                \A f \in Settings[c].include \cup Settings[c].finalInclude : Up(c)!Settled(f)
<1>1. /\ Up(c)!TypeOK /\ Up(c)!PassesApart /\ Up(c)!FinalSoFar /\ pass.at = "drain"
      /\ \A u \in Settings[c].uploaders : job[u].at = "idle"
      /\ pass' = [pass EXCEPT !.at = "off"]
      /\ timer' = IF pass.kind = "final" THEN timer ELSE "waiting"
      /\ outcome' = IF pass.kind = "final" THEN (IF pass.failed THEN "failed" ELSE "ok") ELSE outcome
      /\ UNCHANGED <<file, payload, job, object, lost>>
  BY DEF Up!SyncInv, Up!EndPass
<1>2. pass'.at = "off" /\ pass' \in [at : {"off"}, kind : {"periodic", "final"}, todo : SUBSET Settings[c].files,
                    failed : BOOLEAN, live : BOOLEAN]
  BY <1>1 DEF Up!TypeOK
<1>3. Up(c)!TypeOK'
  BY <1>1, <1>2 DEF Up!TypeOK, Up!Job, Up!Content, Up!Versions
<1>4. pass.kind \in {"periodic", "final"}
  BY <1>1 DEF Up!TypeOK
<1>5. Up(c)!PassesApart'
  BY <1>1, <1>2, <1>4 DEF Up!PassesApart, Up!Handles
<1>6. Up(c)!FinalSoFar'
  BY <1>2 DEF Up!FinalSoFar
<1>7. outcome' # outcome /\ outcome' = "ok" =>
        \A f \in Settings[c].include \cup Settings[c].finalInclude : Up(c)!Settled(f)
  BY <1>1 DEF Up!PassesApart, Up!FinalSoFar, Up!Handles
<1>. QED  BY <1>1, <1>3, <1>5, <1>6, <1>7, PassStep
-----------------------------------------------------------------------------
(* One file.                                                               *)

Copying == {"read", "check", "stat", "put"}

\* What is right of a job s for the file f, and of the jobs of a final pass.
CopyRight(c, s, f) ==
    /\ s.at \in {"open"} \cup Copying => Settings[c].kind[f] = "file" /\ Up(c)!Whole(s.before)
    /\ s.at \in Copying => /\ s.staged \in Up(c)!Content /\ Up(c)!NotAfter(s.staged, file[f])
                           /\ object[f] # NoFile => Up(c)!NotAfter(object[f], s.staged)
    /\ s.at \in {"stat", "put"} => Up(c)!Whole(s.staged)

InFinal == pass.at # "off" /\ pass.kind = "final"

CopyFinal(c, s, f) == InFinal /\ s.at \in Copying => s.staged = Up(c)!ContentOf(f)

LEMMA JobRight ==
    ASSUME NEW c \in Syncs, Up(c)!SyncInv, NEW u \in Settings[c].uploaders, job[u].at # "idle"
    PROVE  /\ job[u].name \in Settings[c].files /\ pass.at # "off"
           /\ CopyRight(c, job[u], job[u].name) /\ CopyFinal(c, job[u], job[u].name)
BY DEF Up!SyncInv, Up!TypeOK, Up!PassesApart, Up!CopiesBetween, Up!FinalSoFar, CopyRight, CopyFinal,
       InFinal, Copying

\* A file is met by the walk: it is handed to an uploader, or there is nothing to do.
LEMMA VisitInv ==
    ASSUME NEW c \in Syncs, Up(c)!SyncInv, NEW f \in Settings[c].files, Up(c)!Visit(f)
    PROVE  Up(c)!SyncInv'
<1>1. /\ Up(c)!TypeOK /\ Up(c)!PassesApart /\ Up(c)!CopiesBetween /\ Up(c)!FinalSoFar
      /\ pass.at = "walk" /\ f \in pass.todo /\ pass' = [pass EXCEPT !.todo = pass.todo \ {f}]
      /\ UNCHANGED <<file, payload, timer, object, outcome, lost>>
  BY DEF Up!SyncInv, Up!Visit
<1>2. /\ pass' \in [at : {"walk"}, kind : {"periodic", "final"}, todo : SUBSET Settings[c].files,
                    failed : BOOLEAN, live : BOOLEAN]
      /\ pass'.at = "walk" /\ pass'.kind = pass.kind /\ pass'.failed = pass.failed /\ pass'.todo = pass.todo \ {f}
  BY <1>1 DEF Up!TypeOK
<1>3. \A v \in Settings[c].uploaders : job[v].at # "idle" => job[v].name # f
  BY <1>1 DEF Up!PassesApart
<1>4. CASE ~(file[f].there /\ Up(c)!Selected(f))
  <2>1. job' = job
    BY <1>4 DEF Up!Visit
  <2>2. Up(c)!TypeOK'
    BY <1>1, <1>2, <2>1 DEF Up!TypeOK, Up!Job, Up!Content, Up!Versions
  <2>3. Up(c)!PassesApart'
    BY <1>1, <1>2, <2>1 DEF Up!PassesApart, Up!Handles
  <2>4. InFinal /\ f \in Settings[c].include \cup Settings[c].finalInclude => Up(c)!Settled(f)
    BY <1>4 DEF InFinal, Up!Selected, Up!Settled
  <2>5. Up(c)!FinalSoFar'
    BY <1>1, <1>2, <2>1, <2>4, SettledSame DEF Up!FinalSoFar, Up!Handles, Up!ContentOf, InFinal
  <2>. QED  BY <1>1, <2>1, <2>2, <2>3, <2>5, PassStep
<1>5. CASE file[f].there /\ Up(c)!Selected(f)
  <2>1. PICK u \in Settings[c].uploaders :
          job[u].at = "idle" /\ job' = [job EXCEPT ![u] = [Up(c)!IdleJob EXCEPT !.at = "lstat", !.name = f]]
    BY <1>5 DEF Up!Visit
  <2>2. PICK s : s = [at |-> "lstat", name |-> f, before |-> NoFile, staged |-> NoFile]
    OBVIOUS
  <2>3. s \in Up(c)!Job /\ s.at = "lstat" /\ s.name = f
    BY <2>2 DEF Up!Job
  <2>4. /\ job' = [job EXCEPT ![u] = s] /\ job' \in [Settings[c].uploaders -> Up(c)!Job]
        /\ job'[u] = s /\ \A v \in Settings[c].uploaders \ {u} : job'[v] = job[v]
    <3>1. [Up(c)!IdleJob EXCEPT !.at = "lstat", !.name = f] = s
      <4>1. PICK r : r = [[at |-> "idle", name |-> NoFile, before |-> NoFile, staged |-> NoFile]
                            EXCEPT !.at = "lstat", !.name = f]
        OBVIOUS
      <4>2. r = [at |-> "lstat", name |-> f, before |-> NoFile, staged |-> NoFile]
        BY <4>1
      <4>. QED  BY <2>2, <4>1, <4>2 DEF Up!IdleJob
    <3>2. job' = [job EXCEPT ![u] = s] /\ job \in [Settings[c].uploaders -> Up(c)!Job]
      BY <1>1, <2>1, <3>1 DEF Up!TypeOK
    <3>. QED  BY <2>3, <3>2
  <2>5. Up(c)!TypeOK'
    BY <1>1, <1>2, <2>4 DEF Up!TypeOK, Up!Job, Up!Content, Up!Versions
  <2>6. Up(c)!PassesApart'
    <3>1. \A v, w \in Settings[c].uploaders :
            job'[v].at # "idle" /\ job'[w].at # "idle" /\ job'[v].name = job'[w].name => v = w
      BY <1>1, <1>3, <2>3, <2>4 DEF Up!PassesApart, Up!Handles
    <3>2. \A v \in Settings[c].uploaders : job'[v].at # "idle" => job'[v].name \in Settings[c].files \ pass'.todo
      BY <1>1, <1>2, <2>3, <2>4 DEF Up!PassesApart
    <3>. QED  BY <1>1, <1>2, <3>1, <3>2 DEF Up!PassesApart, Up!Handles
  <2>7. Up(c)!CopiesBetween'
    BY <1>1, <2>3, <2>4 DEF Up!CopiesBetween, Up!Whole, Up!NotAfter
  <2>8. Up(c)!FinalSoFar'
    <3>1. \A v \in Settings[c].uploaders : job[v].at # "idle" => v # u
      BY <2>1
    <3>. QED  BY <1>1, <1>2, <2>3, <2>4, <3>1, SettledSame
              DEF Up!FinalSoFar, Up!Handles, Up!ContentOf
  <2>. QED  BY <1>1, <2>5, <2>6, <2>7, <2>8 DEF Up!SyncInv, Up!ObjectsWhole, Up!Whole
<1>. QED  BY <1>4, <1>5

\* A step of the uploader u, whose job becomes s; a copy is stored when it is whole.
Stores(c, u) == job[u].at \in {"stat", "put"} /\ object' = [object EXCEPT ![job[u].name] = job[u].staged]

LEMMA StoreKeeps ==
    ASSUME NEW c \in Syncs, Up(c)!SyncInv, NEW u \in Settings[c].uploaders, Stores(c, u),
           UNCHANGED file
    PROVE  /\ object' \in [Settings[c].files -> Up(c)!Content \cup {NoFile}]
           /\ object'[job[u].name] = job[u].staged
           /\ \A f \in Settings[c].files \ {job[u].name} : object'[f] = object[f]
           /\ Up(c)!ObjectsWhole' /\ Up(c)!NeverOlder
           /\ \A f \in Settings[c].files : object'[f] # NoFile => Up(c)!NotAfter(object'[f], file[f])
<1>1. /\ Up(c)!TypeOK /\ job[u].name \in Settings[c].files /\ CopyRight(c, job[u], job[u].name)
  BY JobRight DEF Stores, Up!SyncInv
<1>2. /\ job[u].staged \in Up(c)!Content /\ Up(c)!Whole(job[u].staged)
      /\ Up(c)!NotAfter(job[u].staged, file[job[u].name])
      /\ object[job[u].name] # NoFile => Up(c)!NotAfter(object[job[u].name], job[u].staged)
  BY <1>1 DEF Stores, CopyRight, Copying, Up!TypeOK, Up!Job
<1>3. /\ object' \in [Settings[c].files -> Up(c)!Content \cup {NoFile}]
      /\ object'[job[u].name] = job[u].staged
      /\ \A f \in Settings[c].files \ {job[u].name} : object'[f] = object[f]
  BY <1>1, <1>2 DEF Stores, Up!TypeOK
<1>4. Up(c)!ObjectsWhole'
  BY <1>2, <1>3 DEF Up!SyncInv, Up!ObjectsWhole, Up!Whole
<1>5. Up(c)!NeverOlder
  <2>1. SUFFICES ASSUME NEW f \in Settings[c].files, object[f] # NoFile
                 PROVE  object'[f].head + object'[f].tail >= object[f].head + object[f].tail
    BY DEF Up!NeverOlder
  <2>2. object[f].head \in Nat /\ object[f].tail \in Nat
    BY <1>1, <2>1, UploadTypes
  <2>3. job[u].staged \in Up(c)!Content => job[u].staged.head \in Nat /\ job[u].staged.tail \in Nat
    BY <1>1, UploadTypes
  <2>4. CASE f = job[u].name
    <3>1. job[u].staged \in Up(c)!Content
      BY <1>1 DEF CopyRight, Stores, Copying
    <3>. QED  BY <1>2, <1>3, <2>1, <2>2, <2>3, <2>4, <3>1 DEF Up!NotAfter
  <2>5. CASE f # job[u].name
    BY <1>3, <2>2, <2>5
  <2>. QED  BY <2>4, <2>5
<1>6. \A f \in Settings[c].files : object'[f] # NoFile => Up(c)!NotAfter(object'[f], file[f])
  BY <1>2, <1>3 DEF Up!SyncInv, Up!CopiesBetween
<1>. QED  BY <1>3, <1>4, <1>5, <1>6

LEMMA JobStep ==
    ASSUME NEW c \in Syncs, Up(c)!SyncInv, NEW u \in Settings[c].uploaders, job[u].at # "idle",
           NEW f, f = job[u].name,
           NEW s \in Up(c)!Job, job' = [job EXCEPT ![u] = s],
           UNCHANGED <<file, payload, timer, outcome>>, lost' \in 0..Settings[c].faults,
           UNCHANGED pass \/ (s.at = "idle" /\ pass' = [pass EXCEPT !.failed = TRUE]),
           UNCHANGED object \/ (s.at = "idle" /\ Stores(c, u)),
           s.at # "idle" => s.name = f,
           CopyRight(c, s, f), CopyFinal(c, s, f),
           s.at = "idle" /\ UNCHANGED pass /\ InFinal /\ ~pass.failed => Up(c)!Settled(f)'
    PROVE  Up(c)!SyncInv'
<1>1. /\ Up(c)!TypeOK /\ Up(c)!PassesApart /\ Up(c)!CopiesBetween /\ Up(c)!FinalSoFar /\ Up(c)!ObjectsWhole
      /\ f \in Settings[c].files /\ pass.at # "off"
  BY JobRight DEF Up!SyncInv
<1>2. /\ job' \in [Settings[c].uploaders -> Up(c)!Job] /\ job'[u] = s
      /\ \A v \in Settings[c].uploaders \ {u} : job'[v] = job[v]
  BY <1>1 DEF Up!TypeOK
<1>3. \A v \in Settings[c].uploaders \ {u} : job[v].at # "idle" => job[v].name # f /\ job[v].name \in Settings[c].files
  BY <1>1 DEF Up!PassesApart, Up!Handles
<1>4. /\ pass' \in [at : {"walk", "drain"}, kind : {"periodic", "final"}, todo : SUBSET Settings[c].files,
                    failed : BOOLEAN, live : BOOLEAN]
      /\ pass'.at = pass.at /\ pass'.kind = pass.kind /\ pass'.todo = pass.todo
      /\ ~pass'.failed => pass' = pass
  <2>1. pass \in [at : {"walk", "drain"}, kind : {"periodic", "final"}, todo : SUBSET Settings[c].files,
                  failed : BOOLEAN, live : BOOLEAN]
    BY <1>1 DEF Up!TypeOK
  <2>. QED  BY <2>1
<1>5. /\ object' \in [Settings[c].files -> Up(c)!Content \cup {NoFile}] /\ Up(c)!ObjectsWhole'
      /\ \A g \in Settings[c].files \ {f} : object'[g] = object[g]
      /\ s.at # "idle" => object' = object
      /\ \A g \in Settings[c].files : object'[g] # NoFile => Up(c)!NotAfter(object'[g], file[g])
  <2>1. CASE UNCHANGED object
    BY <1>1, <2>1 DEF Up!TypeOK, Up!ObjectsWhole, Up!CopiesBetween, Up!Whole
  <2>2. CASE s.at = "idle" /\ Stores(c, u)
    BY <2>2, StoreKeeps
  <2>. QED  BY <2>1, <2>2
<1>6. Up(c)!TypeOK'
  BY <1>1, <1>2, <1>4, <1>5 DEF Up!TypeOK, Up!Job, Up!Content, Up!Versions
<1>7. Up(c)!PassesApart'
  <2>1. \A v \in Settings[c].uploaders : job'[v].at # "idle" => job[v].at # "idle" /\ job'[v].name = job[v].name
    BY <1>2
  <2>. QED  BY <1>1, <1>4, <2>1 DEF Up!PassesApart, Up!Handles
<1>8. Up(c)!CopiesBetween'
  <2>1. \A g \in Settings[c].files : /\ Up(c)!Whole(file[g])'
                                     /\ object'[g] # NoFile => Up(c)!NotAfter(object[g], file[g])'
    BY <1>1, <1>5 DEF Up!CopiesBetween, Up!Whole, Up!NotAfter
  <2>2. ASSUME NEW v \in Settings[c].uploaders, job'[v].at # "idle"
        PROVE  CopyRight(c, job[v], job[v].name)'
    <3>1. CASE v = u
      <4>1. job'[v] = s /\ s.name = f /\ object' = object
        BY <1>2, <1>5, <2>2, <3>1
      <4>. QED  BY <4>1 DEF CopyRight, Copying, Up!Whole, Up!NotAfter
    <3>2. CASE v # u
      <4>1. job'[v] = job[v] /\ job[v].at # "idle" /\ object'[job[v].name] = object[job[v].name]
        BY <1>2, <1>3, <1>5, <2>2, <3>2
      <4>2. CopyRight(c, job[v], job[v].name)
        BY <4>1, JobRight
      <4>. QED  BY <4>1, <4>2 DEF CopyRight, Copying, Up!Whole, Up!NotAfter
    <3>. QED  BY <3>1, <3>2
  <2>. QED  BY <2>1, <2>2 DEF Up!CopiesBetween, CopyRight, Copying
<1>9. Up(c)!FinalSoFar'
  <2>1. SUFFICES ASSUME InFinal PROVE Up(c)!FinalSoFar'
    BY <1>4 DEF InFinal, Up!FinalSoFar
  <2>2. ASSUME NEW v \in Settings[c].uploaders, job'[v].at \in Copying
        PROVE  job'[v].staged = Up(c)!ContentOf(job[v].name)'
    <3>1. CASE v = u
      BY <1>2, <2>1, <2>2, <3>1 DEF CopyFinal, Copying, Up!ContentOf
    <3>2. CASE v # u
      BY <1>1, <1>2, <2>1, <2>2, <3>2 DEF Up!FinalSoFar, InFinal, Copying, Up!ContentOf
    <3>. QED  BY <3>1, <3>2
  <2>3. ASSUME ~pass'.failed, NEW g \in Settings[c].include \cup Settings[c].finalInclude
        PROVE  g \in pass'.todo \/ Up(c)!Settled(g)' \/ \E v \in Settings[c].uploaders : Up(c)!Handles(v, g)'
    <3>1. pass' = pass /\ g \in Settings[c].files
      BY <1>4, <2>3, UploadSettings
    <3>2. CASE g = f
      <4>1. CASE s.at = "idle"
        BY <2>1, <2>3, <3>1, <3>2, <4>1
      <4>2. CASE s.at # "idle"
        BY <1>2, <3>2, <4>2 DEF Up!Handles
      <4>. QED  BY <4>1, <4>2
    <3>3. CASE g # f
      <4>1. g \in pass.todo \/ Up(c)!Settled(g) \/ \E v \in Settings[c].uploaders \ {u} : Up(c)!Handles(v, g)
        BY <1>1, <2>1, <2>3, <3>1, <3>3 DEF Up!FinalSoFar, InFinal, Up!Handles
      <4>2. Up(c)!Settled(g) => Up(c)!Settled(g)'
        BY <1>5, <3>1, <3>3 DEF Up!Settled, Up!ContentOf
      <4>3. \A v \in Settings[c].uploaders \ {u} : Up(c)!Handles(v, g) => Up(c)!Handles(v, g)'
        BY <1>2 DEF Up!Handles
      <4>. QED  BY <3>1, <4>1, <4>2, <4>3
    <3>. QED  BY <3>2, <3>3
  <2>. QED  BY <2>2, <2>3 DEF Up!FinalSoFar, Copying
<1>. QED  BY <1>5, <1>6, <1>7, <1>8, <1>9 DEF Up!SyncInv

\* A job that is given up, and a pass that fails.
LEMMA UploadFails ==
    ASSUME NEW c \in Syncs, Up(c)!SyncInv, NEW u \in Settings[c].uploaders, job[u].at # "idle",
           job' = [job EXCEPT ![u] = Up(c)!IdleJob], pass' = [pass EXCEPT !.failed = TRUE],
           UNCHANGED <<file, payload, timer, outcome>>, lost' \in 0..Settings[c].faults,
           UNCHANGED object \/ Stores(c, u)
    PROVE  Up(c)!SyncInv'
<1>1. PICK s, f : s = Up(c)!IdleJob /\ f = job[u].name
  OBVIOUS
<1>2. s \in Up(c)!Job /\ s.at = "idle"
  BY <1>1 DEF Up!IdleJob, Up!Job
<1>3. CopyRight(c, s, f) /\ CopyFinal(c, s, f)
  BY <1>2 DEF CopyRight, CopyFinal, Copying
<1>4. pass'.failed
  BY DEF Up!SyncInv, Up!TypeOK
<1>5. pass' = pass /\ ~pass.failed => FALSE
  BY <1>4
<1>. QED  BY <1>1, <1>2, <1>3, <1>5, JobStep

\* A job that goes on.
LEMMA GoOnInv ==
    ASSUME NEW c \in Syncs, Up(c)!SyncInv, NEW u \in Settings[c].uploaders, job[u].at # "idle",
           NEW s \in Up(c)!Job, s.at # "idle", s.name = job[u].name, Up(c)!GoOn(u, s),
           CopyRight(c, s, job[u].name), CopyFinal(c, s, job[u].name)
    PROVE  Up(c)!SyncInv'
<1>1. PICK f : f = job[u].name
  OBVIOUS
<1>2. lost' \in 0..Settings[c].faults
  BY DEF Up!SyncInv, Up!TypeOK, Up!GoOn
<1>. QED  BY <1>1, <1>2, JobStep DEF Up!GoOn, Up!Step

\* A job with which nothing is left to do.
LEMMA SkipInv ==
    ASSUME NEW c \in Syncs, Up(c)!SyncInv, NEW u \in Settings[c].uploaders, job[u].at # "idle",
           Up(c)!Skip(u), InFinal => Up(c)!Settled(job[u].name)
    PROVE  Up(c)!SyncInv'
<1>1. PICK s, f : s = Up(c)!IdleJob /\ f = job[u].name
  OBVIOUS
<1>2. s \in Up(c)!Job /\ s.at = "idle"
  BY <1>1 DEF Up!IdleJob, Up!Job
<1>3. CopyRight(c, s, f) /\ CopyFinal(c, s, f)
  BY <1>2 DEF CopyRight, CopyFinal, Copying
<1>4. lost' \in 0..Settings[c].faults
  BY DEF Up!SyncInv, Up!TypeOK, Up!GoOn, Up!Skip
<1>5. InFinal => Up(c)!Settled(f)'
  BY <1>1, SettledSame DEF Up!Skip, Up!GoOn, Up!Step
<1>. QED  BY <1>1, <1>2, <1>3, <1>4, <1>5, JobStep DEF Up!Skip, Up!GoOn, Up!Step

LEMMA LstatInv ==
    ASSUME NEW c \in Syncs, Up(c)!SyncInv, NEW u \in Settings[c].uploaders, Up(c)!Lstat(u)
    PROVE  Up(c)!SyncInv'
<1>1. PICK f : f = job[u].name
  OBVIOUS
<1>2. job[u].at = "lstat" /\ f \in Settings[c].files
  BY <1>1, JobRight DEF Up!Lstat
<1>3. CASE Up(c)!Fails(u)
  BY <1>2, <1>3, UploadFails DEF Up!Fails, Up!Step, Up!SyncInv, Up!TypeOK
<1>4. CASE file[f].there /\ Up(c)!Skip(u)
           /\ (Settings[c].kind[f] = "big" \/ (Settings[c].kind[f] = "link" /\ Settings[c].links = "skip"))
  <2>1. Up(c)!Settled(f)
    BY <1>4 DEF Up!Settled
  <2>. QED  BY <1>1, <1>2, <1>4, <2>1, SkipInv
<1>5. CASE Up(c)!TooYoung(f) /\ Up(c)!Skip(u)
  <2>1. ~InFinal
    BY <1>5 DEF Up!TooYoung, InFinal
  <2>. QED  BY <1>2, <1>5, <2>1, SkipInv
<1>6. CASE Settings[c].kind[f] = "file" /\ Up(c)!GoOn(u, [job[u] EXCEPT !.at = "open", !.before = Up(c)!Info(f)])
  <2>1. PICK s : s = [job[u] EXCEPT !.at = "open", !.before = Up(c)!Info(f)]
    OBVIOUS
  <2>2. /\ Up(c)!Info(f) \in [born : Up(c)!Versions, head : Up(c)!Versions, tail : Up(c)!Versions]
        /\ job[u] \in Up(c)!Job
    BY <1>2 DEF Up!SyncInv, Up!TypeOK, Up!Info
  <2>3. s \in Up(c)!Job /\ s.at = "open" /\ s.name = f /\ s.before = Up(c)!Info(f)
    BY <1>1, <2>1, <2>2 DEF Up!Job
  <2>4. Up(c)!Whole(Up(c)!Info(f))
    BY <1>2 DEF Up!SyncInv, Up!CopiesBetween, Up!Whole, Up!Info
  <2>5. CopyRight(c, s, f) /\ CopyFinal(c, s, f)
    BY <1>6, <2>3, <2>4 DEF CopyRight, CopyFinal, Copying
  <2>. QED  BY <1>1, <1>2, <1>6, <2>1, <2>3, <2>5, GoOnInv
<1>. QED  BY <1>1, <1>3, <1>4, <1>5, <1>6 DEF Up!Lstat

LEMMA OpenInv ==
    ASSUME NEW c \in Syncs, Up(c)!SyncInv, NEW u \in Settings[c].uploaders, Up(c)!Open(u)
    PROVE  Up(c)!SyncInv'
<1>1. PICK f : f = job[u].name
  OBVIOUS
<1>2. /\ job[u].at = "open" /\ f \in Settings[c].files /\ job[u] \in Up(c)!Job
      /\ CopyRight(c, job[u], f)
  BY <1>1, JobRight DEF Up!Open, Up!SyncInv, Up!TypeOK
<1>3. CASE Up(c)!Fails(u)
  BY <1>2, <1>3, UploadFails DEF Up!Fails, Up!Step, Up!SyncInv, Up!TypeOK
<1>4. CASE Up(c)!GoOn(u, [job[u] EXCEPT !.at = "read", !.staged = Up(c)!ContentOf(f)])
  <2>1. PICK s : s = [job[u] EXCEPT !.at = "read", !.staged = Up(c)!ContentOf(f)]
    OBVIOUS
  <2>2. Up(c)!ContentOf(f) \in Up(c)!Content
    BY <1>2 DEF Up!SyncInv, Up!TypeOK, Up!ContentOf, Up!Content
  <2>3. s \in Up(c)!Job /\ s.at = "read" /\ s.name = f /\ s.before = job[u].before /\ s.staged = Up(c)!ContentOf(f)
    BY <1>1, <1>2, <2>1, <2>2 DEF Up!Job
  <2>4. file[f].head \in Nat /\ file[f].tail \in Nat
    BY <1>2, UploadTypes DEF Up!SyncInv
  <2>5. /\ Up(c)!NotAfter(Up(c)!ContentOf(f), file[f])
        /\ object[f] # NoFile => Up(c)!NotAfter(object[f], Up(c)!ContentOf(f))
    BY <1>2, <2>4 DEF Up!NotAfter, Up!ContentOf, Up!SyncInv, Up!CopiesBetween
  <2>6. CopyRight(c, s, f) /\ CopyFinal(c, s, f)
    BY <1>2, <2>2, <2>3, <2>5 DEF CopyRight, CopyFinal, Copying
  <2>. QED  BY <1>1, <1>2, <1>4, <2>1, <2>3, <2>6, GoOnInv
<1>. QED  BY <1>1, <1>3, <1>4 DEF Up!Open

LEMMA ReadInv ==
    ASSUME NEW c \in Syncs, Up(c)!SyncInv, NEW u \in Settings[c].uploaders, Up(c)!Read(u)
    PROVE  Up(c)!SyncInv'
<1>1. PICK f : f = job[u].name
  OBVIOUS
<1>2. /\ job[u].at = "read" /\ f \in Settings[c].files /\ job[u] \in Up(c)!Job
      /\ CopyRight(c, job[u], f) /\ CopyFinal(c, job[u], f)
  BY <1>1, JobRight DEF Up!Read, Up!SyncInv, Up!TypeOK
<1>3. CASE Up(c)!Fails(u)
  BY <1>2, <1>3, UploadFails DEF Up!Fails, Up!Step, Up!SyncInv, Up!TypeOK
<1>4. ASSUME NEW t \in {job[u].staged.tail, file[f].tail},
             Up(c)!GoOn(u, [job[u] EXCEPT !.at = "check", !.staged.tail = t])
      PROVE  Up(c)!SyncInv'
  <2>1. PICK s : s = [job[u] EXCEPT !.at = "check", !.staged.tail = t]
    OBVIOUS
  <2>2. /\ job[u].staged \in Up(c)!Content /\ Up(c)!NotAfter(job[u].staged, file[f])
        /\ object[f] # NoFile => Up(c)!NotAfter(object[f], job[u].staged)
        /\ InFinal => job[u].staged = Up(c)!ContentOf(f)
    BY <1>2 DEF CopyRight, CopyFinal, Copying
  <2>3. t \in Up(c)!Versions
    BY <1>2, <1>4, <2>2 DEF Up!SyncInv, Up!TypeOK, Up!Content
  <2>4. s.staged = [job[u].staged EXCEPT !.tail = t]
    BY <1>2, <2>1 DEF Up!Job
  <2>5. s.staged \in Up(c)!Content /\ s.staged.head = job[u].staged.head /\ s.staged.tail = t
    BY <2>2, <2>3, <2>4 DEF Up!Content
  <2>6. s \in Up(c)!Job /\ s.at = "check" /\ s.name = f /\ s.before = job[u].before
    <3>1. s = [job[u] EXCEPT !.at = "check", !.staged = s.staged]
      BY <2>1, <2>4
    <3>2. PICK d : d = s.staged
      OBVIOUS
    <3>3. d \in Up(c)!Content /\ s = [job[u] EXCEPT !.at = "check", !.staged = d]
      BY <2>5, <3>1, <3>2
    <3>. QED  BY <1>1, <1>2, <3>3 DEF Up!Job
  <2>7. /\ file[f].head \in Nat /\ file[f].tail \in Nat
        /\ job[u].staged.head \in Nat /\ job[u].staged.tail \in Nat
        /\ object[f] # NoFile => object[f].head \in Nat /\ object[f].tail \in Nat
    BY <1>2, <2>2, UploadTypes DEF Up!SyncInv
  <2>8. /\ Up(c)!NotAfter(s.staged, file[f])
        /\ object[f] # NoFile => Up(c)!NotAfter(object[f], s.staged)
    BY <1>2, <1>4, <2>2, <2>5, <2>7 DEF Up!NotAfter
  <2>9. InFinal => s.staged = Up(c)!ContentOf(f)
    BY <1>4, <2>2, <2>5 DEF Up!ContentOf, Up!Content
  <2>10. CopyRight(c, s, f) /\ CopyFinal(c, s, f)
    BY <1>2, <2>5, <2>6, <2>8, <2>9 DEF CopyRight, CopyFinal, Copying
  <2>. QED  BY <1>1, <1>2, <1>4, <2>1, <2>6, <2>10, GoOnInv
<1>5. CASE Up(c)!GoOn(u, [job[u] EXCEPT !.at = "check",
                             !.staged.tail = IF Up(c)!StillThere(u) THEN file[f].tail ELSE job[u].staged.tail])
  BY <1>4, <1>5
<1>. QED  BY <1>1, <1>3, <1>5 DEF Up!Read

LEMMA CheckUnchangedInv ==
    ASSUME NEW c \in Syncs, Up(c)!SyncInv, NEW u \in Settings[c].uploaders, Up(c)!CheckUnchanged(u)
    PROVE  Up(c)!SyncInv'
<1>1. PICK f : f = job[u].name
  OBVIOUS
<1>2. /\ job[u].at = "check" /\ f \in Settings[c].files /\ job[u] \in Up(c)!Job
      /\ CopyRight(c, job[u], f) /\ CopyFinal(c, job[u], f)
  BY <1>1, JobRight DEF Up!CheckUnchanged, Up!SyncInv, Up!TypeOK
<1>3. CASE Up(c)!Fails(u)
  BY <1>2, <1>3, UploadFails DEF Up!Fails, Up!Step, Up!SyncInv, Up!TypeOK
<1>4. CASE /\ job[u].staged = [head |-> job[u].before.head, tail |-> job[u].before.tail]
           /\ Up(c)!GoOn(u, [job[u] EXCEPT !.at = "stat"])
  <2>1. PICK s : s = [job[u] EXCEPT !.at = "stat"]
    OBVIOUS
  <2>2. s \in Up(c)!Job /\ s.at = "stat" /\ s.name = f /\ s.before = job[u].before /\ s.staged = job[u].staged
    BY <1>1, <1>2, <2>1 DEF Up!Job
  <2>3. Up(c)!Whole(job[u].staged)
    BY <1>2, <1>4 DEF CopyRight, Copying, Up!Whole
  <2>4. CopyRight(c, s, f) /\ CopyFinal(c, s, f)
    BY <1>2, <2>2, <2>3 DEF CopyRight, CopyFinal, Copying
  <2>. QED  BY <1>1, <1>2, <1>4, <2>1, <2>2, <2>4, GoOnInv
<1>. QED  BY <1>3, <1>4 DEF Up!CheckUnchanged

LEMMA StatObjectInv ==
    ASSUME NEW c \in Syncs, Up(c)!SyncInv, NEW u \in Settings[c].uploaders, Up(c)!StatObject(u)
    PROVE  Up(c)!SyncInv'
<1>1. PICK f : f = job[u].name
  OBVIOUS
<1>2. /\ job[u].at = "stat" /\ f \in Settings[c].files /\ job[u] \in Up(c)!Job
      /\ CopyRight(c, job[u], f) /\ CopyFinal(c, job[u], f)
  BY <1>1, JobRight DEF Up!StatObject, Up!SyncInv, Up!TypeOK
<1>3. CASE object[f] = job[u].staged /\ Up(c)!Skip(u)
  <2>1. ASSUME InFinal PROVE Up(c)!Settled(f)
    BY <1>2, <1>3, <2>1 DEF CopyRight, CopyFinal, Copying, Up!Settled
  <2>. QED  BY <1>1, <1>2, <1>3, <2>1, SkipInv
<1>4. CASE Up(c)!GoOn(u, [job[u] EXCEPT !.at = "put"])
  <2>1. PICK s : s = [job[u] EXCEPT !.at = "put"]
    OBVIOUS
  <2>2. s \in Up(c)!Job /\ s.at = "put" /\ s.name = f /\ s.before = job[u].before /\ s.staged = job[u].staged
    BY <1>1, <1>2, <2>1 DEF Up!Job
  <2>3. CopyRight(c, s, f) /\ CopyFinal(c, s, f)
    BY <1>2, <2>2 DEF CopyRight, CopyFinal, Copying
  <2>. QED  BY <1>1, <1>2, <1>4, <2>1, <2>2, <2>3, GoOnInv
<1>. QED  BY <1>1, <1>3, <1>4 DEF Up!StatObject

LEMMA PutObjectInv ==
    ASSUME NEW c \in Syncs, Up(c)!SyncInv, NEW u \in Settings[c].uploaders, Up(c)!PutObject(u)
    PROVE  Up(c)!SyncInv' /\ Up(c)!NeverOlder
<1>1. PICK s, f : s = Up(c)!IdleJob /\ f = job[u].name
  OBVIOUS
<1>2. s \in Up(c)!Job /\ s.at = "idle"
  BY <1>1 DEF Up!IdleJob, Up!Job
<1>3. /\ Stores(c, u) /\ job' = [job EXCEPT ![u] = s]
      /\ UNCHANGED <<file, payload, timer, outcome, pass, lost>>
  BY <1>1 DEF Up!PutObject, Up!Step, Stores
<1>4. CopyRight(c, s, f) /\ CopyFinal(c, s, f)
  BY <1>2 DEF CopyRight, CopyFinal, Copying
<1>5. lost' \in 0..Settings[c].faults /\ job[u].at = "put"
  BY <1>3 DEF Up!SyncInv, Up!TypeOK, Up!PutObject
<1>6. object'[f] = job[u].staged /\ Up(c)!NeverOlder
  BY <1>1, <1>3, StoreKeeps
<1>7. ASSUME InFinal PROVE Up(c)!Settled(f)'
  <2>1. Settings[c].kind[f] = "file" /\ job[u].staged = Up(c)!ContentOf(f)
    BY <1>1, <1>5, <1>7, JobRight DEF CopyRight, CopyFinal, Copying
  <2>. QED  BY <1>3, <1>6, <2>1 DEF Up!Settled, Up!ContentOf
<1>. QED  BY <1>1, <1>2, <1>3, <1>4, <1>5, <1>6, <1>7, JobStep

\* The object may have been stored although its answer is lost.
LEMMA RequestUploadFails ==
    ASSUME NEW c \in Syncs, Up(c)!SyncInv, NEW u \in Settings[c].uploaders,
           Up(c)!RequestFails(u) \/ Up(c)!RequestCancelled(u)
    PROVE  Up(c)!SyncInv' /\ (UNCHANGED object \/ Up(c)!NeverOlder)
<1>1. /\ job[u].at \in {"stat", "put"} /\ job' = [job EXCEPT ![u] = Up(c)!IdleJob]
      /\ pass' = [pass EXCEPT !.failed = TRUE] /\ UNCHANGED <<file, payload, timer, outcome>>
      /\ UNCHANGED object \/ Stores(c, u)
  BY DEF Up!RequestFails, Up!RequestCancelled, Up!Unanswered, Up!Step, Stores
<1>2. lost' \in 0..Settings[c].faults
  <2>1. lost \in 0..Settings[c].faults /\ Settings[c].faults \in Nat
    BY ArtifactsAssumption DEF Up!SyncInv, Up!TypeOK, Up!SyncAssumption
  <2>. QED  BY <2>1 DEF Up!RequestFails, Up!RequestCancelled
<1>3. Up(c)!SyncInv'
  BY <1>1, <1>2, UploadFails
<1>. QED  BY <1>1, <1>3, StoreKeeps
-----------------------------------------------------------------------------
(* The upload as a whole.                                                  *)

\* While objects are as they were, none is older.
LEMMA SameObjects ==
    ASSUME NEW c \in Syncs, Up(c)!SyncInv, UNCHANGED object
    PROVE  Up(c)!NeverOlder
<1>1. \A f \in Settings[c].files : object[f] # NoFile => object[f].head \in Nat /\ object[f].tail \in Nat
  BY UploadTypes DEF Up!SyncInv
<1>. QED  BY <1>1 DEF Up!NeverOlder

LEMMA SyncInit ==
    ASSUME NEW c \in Syncs, Up(c)!Init
    PROVE  Up(c)!SyncInv
<1>1. Settings[c].versions \in Nat /\ Settings[c].faults \in Nat
  BY ArtifactsAssumption DEF Up!SyncAssumption
<1>2. Up(c)!TypeOK
  <2>1. 0 \in Up(c)!Versions
    BY <1>1 DEF Up!Versions
  <2>2. Up(c)!IdleJob \in Up(c)!Job /\ Up(c)!IdleJob.at = "idle"
    BY DEF Up!IdleJob, Up!Job
  <2>3. pass \in [at : {"off", "walk", "drain"}, kind : {"periodic", "final"}, todo : SUBSET Settings[c].files,
                 failed : BOOLEAN, live : BOOLEAN]
    BY DEF Up!Init, Up!NoPass
  <2>. QED  BY <1>1, <2>1, <2>2, <2>3 DEF Up!Init, Up!TypeOK
<1>3. \A u \in Settings[c].uploaders : job[u].at = "idle"
  BY DEF Up!Init, Up!IdleJob
<1>4. \A f \in Settings[c].files : object[f] = NoFile /\ file[f].head = 0 /\ file[f].tail = 0
  BY DEF Up!Init
<1>5. Up(c)!ObjectsWhole
  BY <1>4 DEF Up!ObjectsWhole
<1>6. Up(c)!PassesApart /\ Up(c)!FinalSoFar
  BY <1>3 DEF Up!Init, Up!NoPass, Up!PassesApart, Up!FinalSoFar
<1>7. Up(c)!CopiesBetween
  BY <1>3, <1>4 DEF Up!CopiesBetween, Up!Whole
<1>. QED  BY <1>2, <1>5, <1>6, <1>7 DEF Up!SyncInv

\* Every step keeps the invariant, and no object becomes older.
LEMMA SyncStep ==
    ASSUME NEW c \in Syncs, Up(c)!SyncInv, Up(c)!Next
    PROVE  Up(c)!SyncInv' /\ Up(c)!NeverOlder
<1>1. ASSUME NEW f \in Settings[c].files,
             Up(c)!Publish(f) \/ Up(c)!WriteHead(f) \/ Up(c)!WriteTail(f) \/ Up(c)!Unlink(f)
      PROVE  Up(c)!SyncInv' /\ Up(c)!NeverOlder
  BY <1>1, PayloadInv, SameObjects
     DEF Up!Publish, Up!WriteHead, Up!WriteTail, Up!Unlink, Up!Running
<1>2. ASSUME NEW f \in Settings[c].files, Up(c)!Age(f) PROVE Up(c)!SyncInv' /\ Up(c)!NeverOlder
  BY <1>2, AgeInv, SameObjects DEF Up!Age
<1>3. CASE Up(c)!Ends
  BY <1>3, EndsInv, SameObjects DEF Up!Ends
<1>4. CASE Up(c)!StartPeriodic \/ Up(c)!StartFinal
  BY <1>4, StartInv, SameObjects DEF Up!StartPeriodic, Up!StartFinal
<1>5. CASE Up(c)!TimerStops
  BY <1>5, TimerStopsInv, SameObjects DEF Up!TimerStops
<1>6. ASSUME NEW f \in Settings[c].files, Up(c)!Visit(f) PROVE Up(c)!SyncInv' /\ Up(c)!NeverOlder
  BY <1>6, VisitInv, SameObjects DEF Up!Visit
<1>7. CASE Up(c)!EndWalk \/ Up(c)!FinalTimeout
  BY <1>7, EndWalkInv, SameObjects DEF Up!EndWalk, Up!FinalTimeout
<1>8. CASE Up(c)!EndPass
  BY <1>8, EndPassInv, SameObjects DEF Up!EndPass
<1>9. ASSUME NEW u \in Settings[c].uploaders, Up(c)!Upload(u) \/ Up(c)!RequestFails(u)
      PROVE  Up(c)!SyncInv' /\ Up(c)!NeverOlder
  <2>1. CASE Up(c)!Lstat(u)
    BY <2>1, LstatInv, SameObjects DEF Up!Lstat, Up!Fails, Up!Skip, Up!GoOn
  <2>2. CASE Up(c)!Open(u)
    BY <2>2, OpenInv, SameObjects DEF Up!Open, Up!Fails, Up!GoOn
  <2>3. CASE Up(c)!Read(u)
    BY <2>3, ReadInv, SameObjects DEF Up!Read, Up!Fails, Up!GoOn
  <2>4. CASE Up(c)!CheckUnchanged(u)
    BY <2>4, CheckUnchangedInv, SameObjects DEF Up!CheckUnchanged, Up!Fails, Up!GoOn
  <2>5. CASE Up(c)!StatObject(u)
    BY <2>5, StatObjectInv, SameObjects DEF Up!StatObject, Up!Skip, Up!GoOn
  <2>6. CASE Up(c)!PutObject(u)
    BY <2>6, PutObjectInv
  <2>7. CASE Up(c)!RequestFails(u) \/ Up(c)!RequestCancelled(u)
    BY <2>7, RequestUploadFails, SameObjects
  <2>. QED  BY <1>9, <2>1, <2>2, <2>3, <2>4, <2>5, <2>6, <2>7 DEF Up!Upload
<1>. QED  BY <1>1, <1>2, <1>3, <1>4, <1>5, <1>6, <1>7, <1>8, <1>9 DEF Up!Next, Up!Sync

\* The end of a final pass is the last step but for files that age.
LEMMA FinalStep ==
    ASSUME NEW c \in Syncs, Up(c)!SyncInv, Up(c)!FinalIsComplete, Up(c)!Next
    PROVE  Up(c)!FinalIsComplete'
<1>1. /\ Up(c)!TypeOK /\ Up(c)!PassesApart
      /\ Settings[c].include \cup Settings[c].finalInclude \subseteq Settings[c].files
  BY UploadSettings DEF Up!SyncInv
<1>2. SUFFICES ASSUME outcome' = "ok" PROVE Up(c)!FinalIsComplete'
  BY DEF Up!FinalIsComplete
<1>3. CASE Up(c)!EndPass
  <2>1. \A f \in Settings[c].include \cup Settings[c].finalInclude : Up(c)!Settled(f)
    BY <1>2, <1>3, EndPassInv DEF Up!FinalIsComplete
  <2>. QED  BY <1>3, <2>1, SettledSame DEF Up!EndPass, Up!FinalIsComplete
<1>4. CASE ~Up(c)!EndPass
  <2>1. outcome = "ok"
    BY <1>2, <1>4 DEF Up!Next, Up!Sync, Up!Upload, Up!Publish, Up!WriteHead, Up!WriteTail, Up!Unlink, Up!Running,
       Up!Age, Up!Ends, Up!StartPeriodic, Up!TimerStops, Up!StartFinal, Up!Visit, Up!EndWalk, Up!FinalTimeout,
       Up!Lstat, Up!Open, Up!Read, Up!CheckUnchanged, Up!StatObject, Up!PutObject, Up!RequestFails,
       Up!RequestCancelled, Up!Unanswered, Up!Fails, Up!Skip, Up!GoOn, Up!Step
  <2>2. payload = "ended" /\ pass.at = "off" /\ \A u \in Settings[c].uploaders : job[u].at = "idle"
    BY <1>1, <2>1 DEF Up!PassesApart, Up!TypeOK
  <2>3. UNCHANGED file \/ \E f \in Settings[c].files : Up(c)!Age(f)
    BY <2>2 DEF Up!Next, Up!Sync, Up!Upload, Up!Publish, Up!WriteHead, Up!WriteTail, Up!Unlink, Up!Running,
       Up!Ends, Up!StartPeriodic, Up!TimerStops, Up!StartFinal, Up!Visit, Up!EndWalk, Up!FinalTimeout,
       Up!EndPass, Up!Lstat, Up!Open, Up!Read, Up!CheckUnchanged, Up!StatObject, Up!PutObject, Up!RequestFails,
       Up!RequestCancelled, Up!Unanswered
  <2>4. UNCHANGED object
    BY <2>2 DEF Up!Next, Up!Sync, Up!Upload, Up!Publish, Up!WriteHead, Up!WriteTail, Up!Unlink, Up!Running,
       Up!Age, Up!Ends, Up!StartPeriodic, Up!TimerStops, Up!StartFinal, Up!Visit, Up!EndWalk, Up!FinalTimeout,
       Up!EndPass, Up!Lstat, Up!Open, Up!Read, Up!CheckUnchanged, Up!StatObject, Up!PutObject, Up!RequestFails,
       Up!RequestCancelled, Up!Unanswered
  <2>5. \A f \in Settings[c].files : Up(c)!Settled(f) => Up(c)!Settled(f)'
    <3>1. \A f \in Settings[c].files : /\ file'[f].there = file[f].there
                                       /\ file'[f].head = file[f].head /\ file'[f].tail = file[f].tail
      BY <1>1, <2>3 DEF Up!Age, Up!TypeOK
    <3>. QED  BY <2>4, <3>1 DEF Up!Settled, Up!ContentOf
  <2>. QED  BY <1>1, <2>1, <2>5 DEF Up!FinalIsComplete
<1>. QED  BY <1>3, <1>4
-----------------------------------------------------------------------------
(* ArtifactFetch: the order of the downloads, and what a step leaves alone. *)

LEMMA FetchSettings ==
    ASSUME NEW c \in Fetches
    PROVE  /\ Settings[c].names \subseteq Nat \ {0} /\ NoFile \notin Settings[c].names
           /\ Settings[c].path \in [Settings[c].names -> Settings[c].paths]
           /\ Settings[c].chosen \subseteq Settings[c].names /\ Settings[c].hasDigest \subseteq Settings[c].names
           /\ Settings[c].versions \in Nat /\ Settings[c].writes \in Nat /\ Settings[c].faults \in Nat
BY ArtifactsAssumption DEF Down!FetchAssumption

LEMMA FirstIsIn ==
    ASSUME NEW c \in Fetches, NEW S \in SUBSET Settings[c].names, S # {}
    PROVE  Down(c)!First(S) \in S
<1>1. S \subseteq Nat
  BY FetchSettings
<1>2. PICK x \in S : \A y \in S : ~(<<y, x>> \in OpToRel(<, Nat))
  BY <1>1, NatLessThanWellFounded, WFMin, Zenon
<1>3. \A y \in S : ~(y < x)
  BY <1>1, <1>2, Zenon DEF OpToRel
<1>4. \A y \in S : x <= y
  BY <1>1, <1>3
<1>. QED  BY <1>4 DEF Down!First

\* What a fetch takes next.
LEMMA CurrentName ==
    ASSUME NEW c \in Fetches, Down(c)!FetchInv, NEW f \in Settings[c].fetchers,
           fetch[f].at \in {"check"} \cup Down(c)!Publishing
    PROVE  /\ Down(c)!Current(f) \in fetch[f].left /\ Down(c)!Current(f) \in fetch[f].names
           /\ Down(c)!Current(f) \in Settings[c].names
           /\ Settings[c].path[Down(c)!Current(f)] \in Settings[c].paths
<1>1. /\ fetch[f].left # {} /\ fetch[f].left \subseteq fetch[f].names
      /\ fetch[f].names \subseteq Settings[c].chosen
  BY DEF Down!FetchInv, Down!OneByOne, Down!TypeOK, Down!Job
<1>2. fetch[f].left \in SUBSET Settings[c].names
  BY <1>1, FetchSettings
<1>3. Down(c)!Current(f) \in fetch[f].left
  BY <1>1, <1>2, FirstIsIn DEF Down!Current
<1>. QED  BY <1>1, <1>2, <1>3, FetchSettings

\* A fetch that does not move: stamps only grow.
LEMMA Undisturbed ==
    ASSUME NEW c \in Fetches, Down(c)!FetchInv, NEW g \in Settings[c].fetchers, fetch'[g] = fetch[g],
           clock' \in Nat, clock <= clock',
           \A p \in Settings[c].paths : \/ dest'[p] = dest[p] \/ dest'[p] = NoFile
                                        \/ dest'[p].stamp \in Nat /\ clock < dest'[p].stamp
    PROVE  Down(c)!StampsGrow(g)' /\ Down(c)!OneByOne(g)' /\ Down(c)!Compared(g)'
<1>1. /\ Down(c)!StampsGrow(g) /\ Down(c)!OneByOne(g) /\ Down(c)!Compared(g) /\ clock \in Nat
      /\ \A n \in Settings[c].names : /\ fetch[g].original[n] \in Nat /\ fetch[g].published[n] \in Nat
                                      /\ Settings[c].path[n] \in Settings[c].paths
  BY FetchSettings DEF Down!FetchInv, Down!TypeOK, Down!Job
<1>2. Down(c)!StampsGrow(g)'
  BY <1>1 DEF Down!StampsGrow
<1>3. Down(c)!OneByOne(g)' /\ Down(c)!Compared(g)'
  BY <1>1 DEF Down!OneByOne, Down!Compared, Down!Current
<1>. QED  BY <1>2, <1>3

\* A step of the fetch f that publishes nothing; s is what it becomes.
LEMMA FetchStep ==
    ASSUME NEW c \in Fetches, Down(c)!FetchInv, NEW f \in Settings[c].fetchers, NEW s \in Down(c)!Job,
           fetch' = [fetch EXCEPT ![f] = s], UNCHANGED <<stored, dest, clock, writes>>,
           failures' \in 0..Settings[c].faults, s.left \subseteq s.names,
           s.at # "dead" => (s.temp <=> s.at \in {"copy", "after", "publish"}),
           s.published = fetch[f].published,
           Down(c)!StampsGrow(f)', Down(c)!OneByOne(f)', Down(c)!Compared(f)'
    PROVE  Down(c)!FetchInv' /\ Down(c)!KeepsUnasked /\ Down(c)!KeepsOwn
<1>1. Down(c)!TypeOK /\ Down(c)!PublishedWhole
  BY DEF Down!FetchInv
<1>2. /\ fetch' \in [Settings[c].fetchers -> Down(c)!Job] /\ fetch'[f] = s
      /\ \A g \in Settings[c].fetchers \ {f} : fetch'[g] = fetch[g]
  BY <1>1 DEF Down!TypeOK
<1>3. Down(c)!TypeOK'
  BY <1>1, <1>2 DEF Down!TypeOK, Down!Job, Down!File, Down!Body
<1>4. Down(c)!PublishedWhole'
  BY <1>1 DEF Down!PublishedWhole
<1>5. \A g \in Settings[c].fetchers : Down(c)!StampsGrow(g)' /\ Down(c)!OneByOne(g)' /\ Down(c)!Compared(g)'
  <2>1. SUFFICES ASSUME NEW g \in Settings[c].fetchers, g # f
                 PROVE  Down(c)!StampsGrow(g)' /\ Down(c)!OneByOne(g)' /\ Down(c)!Compared(g)'
    OBVIOUS
  <2>2. clock \in Nat /\ clock' \in Nat /\ clock <= clock'
    BY <1>1 DEF Down!TypeOK
  <2>. QED  BY <1>2, <2>1, <2>2, Undisturbed
<1>6. Down(c)!KeepsUnasked /\ Down(c)!KeepsOwn
  BY <1>2 DEF Down!KeepsUnasked, Down!KeepsOwn, Down!Publishes
<1>. QED  BY <1>3, <1>4, <1>5, <1>6 DEF Down!FetchInv

\* What stays as long as stamps do.
LEMMA StampsSame ==
    ASSUME NEW c \in Fetches, Down(c)!FetchInv, NEW f \in Settings[c].fetchers, UNCHANGED <<dest, clock>>,
           fetch'[f].original = fetch[f].original, fetch'[f].published = fetch[f].published
    PROVE  Down(c)!StampsGrow(f)'
BY DEF Down!FetchInv, Down!StampsGrow

\* The fetch ends, in success or not, or its process does.
LEMMA FetchStops ==
    ASSUME NEW c \in Fetches, Down(c)!FetchInv, NEW f \in Settings[c].fetchers, NEW s \in Down(c)!Job,
           fetch' = [fetch EXCEPT ![f] = s], UNCHANGED <<stored, dest, clock, writes>>,
           failures' \in 0..Settings[c].faults, s.names = fetch[f].names, s.left = fetch[f].left,
           s.original = fetch[f].original, s.published = fetch[f].published,
           s.at \in {"failed", "dead"}, s.at = "failed" => ~s.temp
    PROVE  Down(c)!FetchInv' /\ Down(c)!KeepsUnasked /\ Down(c)!KeepsOwn
<1>1. Down(c)!TypeOK /\ Down(c)!Compared(f) /\ fetch[f].left \subseteq fetch[f].names
  BY DEF Down!FetchInv, Down!TypeOK
<1>2. fetch'[f] = s
  BY <1>1 DEF Down!TypeOK
<1>3. Down(c)!StampsGrow(f)'
  BY <1>2, StampsSame
<1>4. Down(c)!OneByOne(f)' /\ Down(c)!Compared(f)'
  BY <1>1, <1>2 DEF Down!OneByOne, Down!Compared, Down!Publishing
<1>. QED  BY <1>1, <1>3, <1>4, FetchStep

LEMMA FetchFails ==
    ASSUME NEW c \in Fetches, Down(c)!FetchInv, NEW f \in Settings[c].fetchers,
           Down(c)!Fails(f) \/ Down(c)!CallFails(f) \/ Down(c)!Die(f)
    PROVE  Down(c)!FetchInv' /\ Down(c)!KeepsUnasked /\ Down(c)!KeepsOwn
<1>1. fetch[f] \in Down(c)!Job /\ failures \in 0..Settings[c].faults /\ Settings[c].faults \in Nat
  BY FetchSettings DEF Down!FetchInv, Down!TypeOK
<1>2. CASE Down(c)!Fails(f) \/ Down(c)!CallFails(f)
  <2>1. PICK s : s = [fetch[f] EXCEPT !.at = "failed", !.temp = FALSE]
    OBVIOUS
  <2>2. /\ s \in Down(c)!Job /\ s.at = "failed" /\ ~s.temp
        /\ s.names = fetch[f].names /\ s.left = fetch[f].left
        /\ s.original = fetch[f].original /\ s.published = fetch[f].published
    BY <1>1, <2>1 DEF Down!Job
  <2>3. /\ fetch' = [fetch EXCEPT ![f] = s] /\ UNCHANGED <<stored, dest, clock, writes>>
        /\ failures' \in 0..Settings[c].faults
    BY <1>1, <1>2, <2>1 DEF Down!Fails, Down!CallFails, Down!GoOn, Down!Becomes
  <2>. QED  BY <2>2, <2>3, FetchStops
<1>3. CASE Down(c)!Die(f)
  <2>1. PICK s : s = [fetch[f] EXCEPT !.at = "dead"]
    OBVIOUS
  <2>2. /\ s \in Down(c)!Job /\ s.at = "dead"
        /\ s.names = fetch[f].names /\ s.left = fetch[f].left
        /\ s.original = fetch[f].original /\ s.published = fetch[f].published
    BY <1>1, <2>1 DEF Down!Job
  <2>3. /\ fetch' = [fetch EXCEPT ![f] = s] /\ UNCHANGED <<stored, dest, clock, writes>>
        /\ failures' \in 0..Settings[c].faults
    BY <1>1, <1>3, <2>1 DEF Down!Die, Down!Becomes
  <2>. QED  BY <2>2, <2>3, FetchStops
<1>. QED  BY <1>2, <1>3

LEMMA ListInv ==
    ASSUME NEW c \in Fetches, Down(c)!FetchInv, NEW f \in Settings[c].fetchers, Down(c)!List(f)
    PROVE  Down(c)!FetchInv' /\ Down(c)!KeepsUnasked /\ Down(c)!KeepsOwn
<1>1. /\ fetch[f] \in Down(c)!Job /\ fetch[f].at = "list" /\ ~fetch[f].temp /\ fetch \in [Settings[c].fetchers -> Down(c)!Job]
      /\ Down(c)!OneByOne(f) /\ Down(c)!Compared(f) /\ failures \in 0..Settings[c].faults
  BY DEF Down!FetchInv, Down!TypeOK, Down!List
<1>2. CASE Down(c)!Fails(f)
  BY <1>2, FetchFails
<1>3. ASSUME NEW S \in SUBSET Settings[c].chosen, S # {},
             Down(c)!GoOn(f, [fetch[f] EXCEPT !.at = "check", !.names = S, !.left = S])
      PROVE  Down(c)!FetchInv' /\ Down(c)!KeepsUnasked /\ Down(c)!KeepsOwn
  <2>1. PICK s : s = [fetch[f] EXCEPT !.at = "check", !.names = S, !.left = S]
    OBVIOUS
  <2>2. /\ s \in Down(c)!Job /\ s.at = "check" /\ ~s.temp /\ s.names = S /\ s.left = S
        /\ s.original = fetch[f].original /\ s.published = fetch[f].published
    BY <1>1, <2>1 DEF Down!Job
  <2>3. /\ fetch' = [fetch EXCEPT ![f] = s] /\ UNCHANGED <<stored, dest, clock, writes, failures>>
        /\ fetch'[f] = s
    BY <1>1, <1>3, <2>1 DEF Down!GoOn, Down!Becomes
  <2>4. Down(c)!StampsGrow(f)'
    BY <2>2, <2>3, StampsSame
  <2>5. Down(c)!OneByOne(f)' /\ Down(c)!Compared(f)'
    BY <1>1, <1>3, <2>2, <2>3 DEF Down!OneByOne, Down!Compared, Down!Publishing
  <2>. QED  BY <1>1, <2>2, <2>3, <2>4, <2>5, FetchStep
<1>4. PICK S : S = {n \in Settings[c].names : stored[n] > 0} \cap Settings[c].chosen
  OBVIOUS
<1>. QED  BY <1>2, <1>3, <1>4 DEF Down!List

LEMMA CheckTargetInv ==
    ASSUME NEW c \in Fetches, Down(c)!FetchInv, NEW f \in Settings[c].fetchers, Down(c)!CheckTarget(f)
    PROVE  Down(c)!FetchInv' /\ Down(c)!KeepsUnasked /\ Down(c)!KeepsOwn
<1>1. /\ fetch[f] \in Down(c)!Job /\ fetch[f].at = "check" /\ ~fetch[f].temp
      /\ fetch \in [Settings[c].fetchers -> Down(c)!Job] /\ fetch[f].left \subseteq fetch[f].names
      /\ Down(c)!StampsGrow(f) /\ Down(c)!OneByOne(f) /\ Down(c)!Compared(f) /\ failures \in 0..Settings[c].faults
      /\ dest \in [Settings[c].paths -> Down(c)!File \cup {NoFile}] /\ clock \in Nat
  BY DEF Down!FetchInv, Down!TypeOK, Down!CheckTarget
<1>2. PICK n : n = Down(c)!Current(f)
  OBVIOUS
<1>3. /\ n \in Settings[c].names /\ n \in fetch[f].left /\ n \in fetch[f].names
      /\ Settings[c].path[n] \in Settings[c].paths
  BY <1>1, <1>2, CurrentName
<1>4. CASE Down(c)!Fails(f)
  BY <1>4, FetchFails
<1>5. CASE ~Down(c)!Fails(f)
  <2>1. PICK rest : rest = fetch[f].left \ {n}
    OBVIOUS
  <2>2. PICK seen : seen = IF Down(c)!Target(f) = NoFile THEN 0 ELSE Down(c)!Target(f).stamp
    OBVIOUS
  <2>3. PICK todo : todo = IF rest = {} THEN fetch[f].names ELSE rest
    OBVIOUS
  <2>4. PICK next : next = IF rest # {} THEN "check" ELSE IF f \in Settings[c].dryRun THEN "ok" ELSE "before"
    OBVIOUS
  <2>5. PICK s : s = [[fetch[f] EXCEPT !.original[n] = seen, !.left = todo] EXCEPT !.at = next]
    OBVIOUS
  <2>6. /\ ~(Down(c)!Target(f) # NoFile /\ (Down(c)!Target(f).kind # "file" \/ f \notin Settings[c].overwrite))
        /\ Down(c)!GoOn(f, s)
    BY <1>2, <1>5, <2>1, <2>2, <2>3, <2>4, <2>5 DEF Down!CheckTarget
  <2>7. seen \in Nat /\ seen <= clock /\ (f \notin Settings[c].overwrite => seen = 0)
    <3>1. CASE Down(c)!Target(f) = NoFile
      BY <1>1, <2>2, <3>1
    <3>2. CASE Down(c)!Target(f) # NoFile
      <4>1. Down(c)!Target(f) \in Down(c)!File
        BY <1>1, <1>2, <1>3, <3>2 DEF Down!Target
      <4>. QED  BY <1>1, <2>2, <2>6, <3>2, <4>1 DEF Down!File
    <3>. QED  BY <3>1, <3>2
  <2>8. /\ todo # {} /\ todo \subseteq fetch[f].names /\ fetch[f].names \subseteq Settings[c].chosen
        /\ (rest # {} /\ next = "check") \/ (todo = fetch[f].names /\ next \in {"ok", "before"})
        /\ next = "ok" => f \in Settings[c].dryRun
    BY <1>1, <1>3, <2>1, <2>3, <2>4 DEF Down!Job
  <2>9. PICK o : o = [fetch[f].original EXCEPT ![n] = seen]
    OBVIOUS
  <2>10. o \in [Settings[c].names -> Nat] /\ o[n] = seen /\ \A m \in Settings[c].names \ {n} : o[m] = fetch[f].original[m]
    BY <1>1, <1>3, <2>7, <2>9 DEF Down!Job
  <2>11. /\ s \in Down(c)!Job /\ s.at = next /\ ~s.temp /\ s.names = fetch[f].names /\ s.left = todo
         /\ s.original = o /\ s.published = fetch[f].published
    <3>1. s = [fetch[f] EXCEPT !.original = o, !.left = todo, !.at = next]
      BY <1>1, <2>5, <2>9 DEF Down!Job
    <3>. QED  BY <1>1, <2>8, <2>10, <3>1 DEF Down!Job
  <2>12. /\ fetch' = [fetch EXCEPT ![f] = s] /\ UNCHANGED <<stored, dest, clock, writes, failures>>
         /\ fetch'[f] = s
    BY <1>1, <2>6 DEF Down!GoOn, Down!Becomes
  <2>13. \A m \in Settings[c].names : fetch[f].published[m] = 0
    BY <1>1 DEF Down!OneByOne
  <2>14. Down(c)!StampsGrow(f)'
    BY <1>1, <2>7, <2>10, <2>11, <2>12, <2>13 DEF Down!StampsGrow
  <2>15. Down(c)!OneByOne(f)'
    <3>1. fetch[f].names \subseteq Settings[c].names
      BY <2>8, FetchSettings
    <3>. QED  BY <2>8, <2>11, <2>12, <2>13, <3>1 DEF Down!OneByOne, Down!Publishing
  <2>16. Down(c)!Compared(f)'
    BY <1>1, <2>7, <2>8, <2>10, <2>11, <2>12 DEF Down!Compared
  <2>. QED  BY <1>1, <2>8, <2>11, <2>12, <2>14, <2>15, <2>16, FetchStep
<1>. QED  BY <1>4, <1>5

\* A step from one download state to the next, with the same names and stamps.
LEMMA FetchGoesOn ==
    ASSUME NEW c \in Fetches, Down(c)!FetchInv, NEW f \in Settings[c].fetchers,
           fetch[f].at \in Down(c)!Publishing \ {"print"},
           NEW s \in Down(c)!Job, Down(c)!GoOn(f, s), s.at \in Down(c)!Publishing \ {"print"},
           s.names = fetch[f].names, s.left = fetch[f].left,
           s.original = fetch[f].original, s.published = fetch[f].published,
           s.temp <=> s.at \in {"copy", "after", "publish"}, NEW n, n = Down(c)!Current(f),
           s.at \in {"get", "copy", "after", "publish"} /\ s.original[n] # 0 =>
               \A m \in Settings[c].names : Settings[c].path[m] = Settings[c].path[n] => s.published[m] = 0,
           s.at \in {"copy", "after", "publish"} => s.body \in Down(c)!Body,
           s.at \in {"after", "publish"} /\ n \in Settings[c].hasDigest => s.body.part = "whole"
    PROVE  Down(c)!FetchInv' /\ Down(c)!KeepsUnasked /\ Down(c)!KeepsOwn
<1>1. /\ fetch[f] \in Down(c)!Job /\ fetch \in [Settings[c].fetchers -> Down(c)!Job]
      /\ fetch[f].left \subseteq fetch[f].names
      /\ Down(c)!OneByOne(f) /\ Down(c)!Compared(f) /\ failures \in 0..Settings[c].faults
  BY DEF Down!FetchInv, Down!TypeOK
<1>2. /\ fetch' = [fetch EXCEPT ![f] = s] /\ UNCHANGED <<stored, dest, clock, writes, failures>>
      /\ fetch'[f] = s
  BY <1>1 DEF Down!GoOn, Down!Becomes
<1>3. Down(c)!StampsGrow(f)'
  BY <1>2, StampsSame
<1>4. Down(c)!Current(f)' = n
  BY <1>2 DEF Down!Current
<1>5. Down(c)!OneByOne(f)'
  BY <1>1, <1>2, <1>4 DEF Down!OneByOne, Down!Publishing
<1>6. Down(c)!Compared(f)'
  BY <1>1, <1>2, <1>4 DEF Down!Compared
<1>. QED  BY <1>1, <1>2, <1>3, <1>5, <1>6, FetchStep

\* A file that was seen, and still is there: the fetch has not published under its path.
LEMMA SeenIsForeign ==
    ASSUME NEW c \in Fetches, Down(c)!FetchInv, NEW f \in Settings[c].fetchers,
           fetch[f].at \in Down(c)!Publishing, NEW n, n = Down(c)!Current(f),
           fetch[f].original[n] # 0, Down(c)!CheckUnchanged(f)
    PROVE  \A m \in Settings[c].names : Settings[c].path[m] = Settings[c].path[n] => fetch[f].published[m] = 0
<1>1. /\ fetch[f] \in Down(c)!Job /\ Down(c)!StampsGrow(f) /\ n \in Settings[c].names
      /\ dest \in [Settings[c].paths -> Down(c)!File \cup {NoFile}] /\ clock \in Nat
      /\ Settings[c].path[n] \in Settings[c].paths
  BY CurrentName DEF Down!FetchInv, Down!TypeOK
<1>2. PICK d : d = dest[Settings[c].path[n]]
  OBVIOUS
<1>3. d # NoFile /\ d.stamp = fetch[f].original[n]
  BY <1>2 DEF Down!CheckUnchanged, Down!Target
<1>4. SUFFICES ASSUME NEW m \in Settings[c].names, Settings[c].path[m] = Settings[c].path[n],
                      fetch[f].published[m] # 0
               PROVE  FALSE
  OBVIOUS
<1>5. fetch[f].published[m] \in Nat /\ fetch[f].original[n] \in Nat
  BY <1>1 DEF Down!Job
<1>6. fetch[f].original[n] < fetch[f].published[m] /\ d.stamp >= fetch[f].published[m]
  BY <1>1, <1>2, <1>3, <1>4, <1>5 DEF Down!StampsGrow
<1>. QED  BY <1>3, <1>5, <1>6

LEMMA DownloadInv ==
    ASSUME NEW c \in Fetches, Down(c)!FetchInv, NEW f \in Settings[c].fetchers,
           Down(c)!Begin(f) \/ Down(c)!Get(f) \/ Down(c)!Copy(f) \/ Down(c)!CheckAgain(f)
    PROVE  Down(c)!FetchInv' /\ Down(c)!KeepsUnasked /\ Down(c)!KeepsOwn
<1>1. PICK n : n = Down(c)!Current(f)
  OBVIOUS
<1>2. fetch[f].at \in {"before", "get", "copy", "after"}
  BY DEF Down!Begin, Down!Get, Down!Copy, Down!CheckAgain
<1>3. /\ fetch[f] \in Down(c)!Job /\ Down(c)!Compared(f) /\ n \in Settings[c].names
      /\ stored \in [Settings[c].names -> 0..Settings[c].versions]
      /\ fetch[f].temp <=> fetch[f].at \in {"copy", "after"}
      /\ fetch[f].at \in Down(c)!Publishing \ {"print"}
  BY <1>1, <1>2, CurrentName DEF Down!FetchInv, Down!TypeOK, Down!Publishing
<1>4. CASE Down(c)!Fails(f)
  BY <1>4, FetchFails
<1>5. CASE fetch[f].at = "before" /\ Down(c)!CheckUnchanged(f) /\ Down(c)!GoOn(f, [fetch[f] EXCEPT !.at = "get"])
  <2>1. PICK s : s = [fetch[f] EXCEPT !.at = "get"]
    OBVIOUS
  <2>2. /\ s \in Down(c)!Job /\ s.at = "get" /\ ~s.temp
        /\ s.names = fetch[f].names /\ s.left = fetch[f].left
        /\ s.original = fetch[f].original /\ s.published = fetch[f].published
    BY <1>3, <1>5, <2>1 DEF Down!Job
  <2>3. s.original[n] # 0 =>
          \A m \in Settings[c].names : Settings[c].path[m] = Settings[c].path[n] => s.published[m] = 0
    BY <1>1, <1>3, <1>5, <2>2, SeenIsForeign
  <2>4. s.at \in Down(c)!Publishing \ {"print"} /\ Down(c)!GoOn(f, s) /\ (s.temp <=> s.at \in {"copy", "after", "publish"})
    BY <1>5, <2>1, <2>2 DEF Down!Publishing
  <2>5. s.at \notin {"copy", "after", "publish"}
    BY <2>2
  <2>. QED  BY <1>1, <1>3, <2>2, <2>3, <2>4, <2>5, FetchGoesOn
<1>6. ASSUME fetch[f].at = "get",
             Down(c)!GoOn(f, [fetch[f] EXCEPT !.at = "copy", !.temp = TRUE,
                                              !.body = [version |-> stored[n], part |-> "whole"]])
      PROVE  Down(c)!FetchInv' /\ Down(c)!KeepsUnasked /\ Down(c)!KeepsOwn
  <2>1. PICK b : b = [version |-> stored[n], part |-> "whole"]
    OBVIOUS
  <2>2. b \in Down(c)!Body
    BY <1>3, <2>1 DEF Down!Body
  <2>3. PICK s : s = [fetch[f] EXCEPT !.at = "copy", !.temp = TRUE, !.body = b]
    OBVIOUS
  <2>4. /\ s \in Down(c)!Job /\ s.at = "copy" /\ s.temp /\ s.body = b
        /\ s.names = fetch[f].names /\ s.left = fetch[f].left
        /\ s.original = fetch[f].original /\ s.published = fetch[f].published
    BY <1>3, <2>2, <2>3 DEF Down!Job
  <2>5. s.original[n] # 0 =>
          \A m \in Settings[c].names : Settings[c].path[m] = Settings[c].path[n] => s.published[m] = 0
    BY <1>1, <1>3, <1>6, <2>4 DEF Down!Compared
  <2>6. s.at \in Down(c)!Publishing \ {"print"} /\ Down(c)!GoOn(f, s) /\ (s.temp <=> s.at \in {"copy", "after", "publish"})
    BY <1>6, <2>1, <2>3, <2>4 DEF Down!Publishing
  <2>7. s.at \notin {"after", "publish"}
    BY <2>4
  <2>. QED  BY <1>1, <1>3, <2>2, <2>4, <2>5, <2>6, <2>7, FetchGoesOn
<1>7. ASSUME fetch[f].at = "copy", NEW b \in Down(c)!Arrives(f), Down(c)!Verified(f, b),
             Down(c)!GoOn(f, [fetch[f] EXCEPT !.at = "after", !.body = b])
      PROVE  Down(c)!FetchInv' /\ Down(c)!KeepsUnasked /\ Down(c)!KeepsOwn
  <2>1. fetch[f].body \in Down(c)!Body
    BY <1>3, <1>7 DEF Down!Compared
  <2>2. PICK p \in {"whole", "short", "mixed"} : b = [fetch[f].body EXCEPT !.part = p]
    BY <1>7 DEF Down!Arrives
  <2>3. b \in Down(c)!Body /\ (n \in Settings[c].hasDigest => b.part = "whole")
    BY <1>1, <1>7, <2>1, <2>2 DEF Down!Body, Down!Verified
  <2>4. PICK s : s = [fetch[f] EXCEPT !.at = "after", !.body = b]
    OBVIOUS
  <2>5. /\ s \in Down(c)!Job /\ s.at = "after" /\ s.temp /\ s.body = b
        /\ s.names = fetch[f].names /\ s.left = fetch[f].left
        /\ s.original = fetch[f].original /\ s.published = fetch[f].published
    BY <1>3, <1>7, <2>3, <2>4 DEF Down!Job
  <2>6. s.original[n] # 0 =>
          \A m \in Settings[c].names : Settings[c].path[m] = Settings[c].path[n] => s.published[m] = 0
    BY <1>1, <1>3, <1>7, <2>5 DEF Down!Compared
  <2>7. s.at \in Down(c)!Publishing \ {"print"} /\ Down(c)!GoOn(f, s) /\ (s.temp <=> s.at \in {"copy", "after", "publish"})
    BY <1>7, <2>4, <2>5 DEF Down!Publishing
  <2>. QED  BY <1>1, <1>3, <2>3, <2>5, <2>6, <2>7, FetchGoesOn
<1>8. CASE fetch[f].at = "after" /\ Down(c)!CheckUnchanged(f) /\ Down(c)!GoOn(f, [fetch[f] EXCEPT !.at = "publish"])
  <2>1. PICK s : s = [fetch[f] EXCEPT !.at = "publish"]
    OBVIOUS
  <2>2. /\ s \in Down(c)!Job /\ s.at = "publish" /\ s.temp /\ s.body = fetch[f].body
        /\ s.names = fetch[f].names /\ s.left = fetch[f].left
        /\ s.original = fetch[f].original /\ s.published = fetch[f].published
    BY <1>3, <1>8, <2>1 DEF Down!Job
  <2>3. s.original[n] # 0 =>
          \A m \in Settings[c].names : Settings[c].path[m] = Settings[c].path[n] => s.published[m] = 0
    BY <1>1, <1>3, <1>8, <2>2 DEF Down!Compared
  <2>4. s.at \in Down(c)!Publishing \ {"print"} /\ Down(c)!GoOn(f, s) /\ (s.temp <=> s.at \in {"copy", "after", "publish"})
    BY <1>8, <2>1, <2>2 DEF Down!Publishing
  <2>5. s.body \in Down(c)!Body /\ (n \in Settings[c].hasDigest => s.body.part = "whole")
    BY <1>1, <1>3, <1>8, <2>2 DEF Down!Compared
  <2>. QED  BY <1>1, <1>3, <2>2, <2>3, <2>4, <2>5, FetchGoesOn
<1>. QED  BY <1>1, <1>4, <1>5, <1>6, <1>7, <1>8 DEF Down!Begin, Down!Get, Down!Copy, Down!CheckAgain

LEMMA ReportInv ==
    ASSUME NEW c \in Fetches, Down(c)!FetchInv, NEW f \in Settings[c].fetchers, Down(c)!Report(f)
    PROVE  Down(c)!FetchInv' /\ Down(c)!KeepsUnasked /\ Down(c)!KeepsOwn
<1>1. PICK n : n = Down(c)!Current(f)
  OBVIOUS
<1>2. fetch[f].at = "print"
  BY DEF Down!Report
<1>3. /\ fetch[f] \in Down(c)!Job /\ fetch \in [Settings[c].fetchers -> Down(c)!Job] /\ ~fetch[f].temp
      /\ fetch[f].left \subseteq fetch[f].names /\ fetch[f].names \subseteq Settings[c].names
      /\ Down(c)!OneByOne(f) /\ Down(c)!Compared(f) /\ failures \in 0..Settings[c].faults
  BY <1>2, FetchSettings DEF Down!FetchInv, Down!TypeOK, Down!Job
<1>4. PICK rest : rest = fetch[f].left \ {n}
  OBVIOUS
<1>5. PICK next : next = IF rest = {} THEN "ok" ELSE "before"
  OBVIOUS
<1>6. PICK s : s = [fetch[f] EXCEPT !.left = rest, !.at = next]
  OBVIOUS
<1>7. /\ s \in Down(c)!Job /\ s.at = next /\ ~s.temp /\ s.names = fetch[f].names /\ s.left = rest
      /\ s.original = fetch[f].original /\ s.published = fetch[f].published
  BY <1>3, <1>4, <1>5, <1>6 DEF Down!Job
<1>8. /\ fetch' = [fetch EXCEPT ![f] = s] /\ UNCHANGED <<stored, dest, clock, writes, failures>>
      /\ fetch'[f] = s
  BY <1>1, <1>3, <1>4, <1>5, <1>6 DEF Down!Report, Down!GoOn, Down!Becomes
<1>9. Down(c)!StampsGrow(f)'
  BY <1>7, <1>8, StampsSame
<1>10. \A m \in fetch[f].names : fetch[f].published[m] \in Nat /\ (fetch[f].published[m] = 0 <=> m \in rest)
  BY <1>1, <1>2, <1>3, <1>4 DEF Down!OneByOne, Down!Publishing, Down!Job
<1>11. Down(c)!OneByOne(f)'
  BY <1>5, <1>7, <1>8, <1>10 DEF Down!OneByOne, Down!Publishing
<1>12. Down(c)!Compared(f)'
  BY <1>3, <1>5, <1>7, <1>8 DEF Down!Compared
<1>13. next \in {"ok", "before"} /\ s.left \subseteq s.names
  BY <1>3, <1>4, <1>5, <1>7
<1>. QED  BY <1>3, <1>7, <1>8, <1>9, <1>11, <1>12, <1>13, FetchStep

\* Publication: the place is free, or others have written there before the fetch began.
LEMMA PublishInv ==
    ASSUME NEW c \in Fetches, Down(c)!FetchInv, NEW f \in Settings[c].fetchers, Down(c)!Publish(f)
    PROVE  Down(c)!FetchInv' /\ Down(c)!KeepsUnasked /\ Down(c)!KeepsOwn
<1>1. PICK n : n = Down(c)!Current(f)
  OBVIOUS
<1>2. fetch[f].at = "publish"
  BY DEF Down!Publish
<1>3. /\ fetch[f] \in Down(c)!Job /\ fetch \in [Settings[c].fetchers -> Down(c)!Job]
      /\ fetch[f].left \subseteq fetch[f].names /\ fetch[f].names \subseteq Settings[c].names
      /\ Down(c)!StampsGrow(f) /\ Down(c)!OneByOne(f) /\ Down(c)!Compared(f)
      /\ dest \in [Settings[c].paths -> Down(c)!File \cup {NoFile}] /\ clock \in Nat
      /\ Down(c)!TypeOK /\ Down(c)!PublishedWhole
  BY FetchSettings DEF Down!FetchInv, Down!TypeOK, Down!Job
<1>4. n \in fetch[f].left /\ n \in Settings[c].names /\ Settings[c].path[n] \in Settings[c].paths
  BY <1>1, <1>2, CurrentName DEF Down!Publishing
<1>5. CASE Down(c)!Fails(f)
  BY <1>5, FetchFails
<1>6. CASE ~Down(c)!Fails(f)
  <2>1. PICK p : p = Settings[c].path[n]
    OBVIOUS
  <2>2. PICK time : time = clock + 1
    OBVIOUS
  <2>3. PICK entry : entry = [stamp |-> time, kind |-> "file", from |-> n, body |-> fetch[f].body]
    OBVIOUS
  <2>4. PICK s : s = [fetch[f] EXCEPT !.at = "print", !.temp = FALSE, !.published[n] = time]
    OBVIOUS
  <2>5. /\ fetch[f].original[n] # 0 \/ dest[p] = NoFile
        /\ clock' = time /\ dest' = [dest EXCEPT ![p] = entry]
        /\ fetch' = [fetch EXCEPT ![f] = s] /\ UNCHANGED <<stored, writes, failures>>
    BY <1>1, <1>6, <2>1, <2>2, <2>3, <2>4 DEF Down!Publish, Down!Renames, Down!Target, Down!Becomes
  <2>6. /\ time \in Nat /\ time \in 1..time /\ clock < time /\ fetch[f].body \in Down(c)!Body
        /\ n \in Settings[c].hasDigest => fetch[f].body.part = "whole"
    BY <1>1, <1>2, <1>3, <2>2 DEF Down!Compared
  <2>7. PICK o : o = [fetch[f].published EXCEPT ![n] = time]
    OBVIOUS
  <2>8. o \in [Settings[c].names -> Nat] /\ o[n] = time /\ \A m \in Settings[c].names \ {n} : o[m] = fetch[f].published[m]
    BY <1>3, <1>4, <2>6, <2>7 DEF Down!Job
  <2>9. /\ s \in Down(c)!Job /\ s.at = "print" /\ ~s.temp /\ s.names = fetch[f].names /\ s.left = fetch[f].left
        /\ s.original = fetch[f].original /\ s.published = o
    <3>1. s = [fetch[f] EXCEPT !.at = "print", !.temp = FALSE, !.published = o]
      BY <1>3, <2>4, <2>7 DEF Down!Job
    <3>. QED  BY <1>3, <2>8, <3>1 DEF Down!Job
  <2>10. /\ entry.stamp = time /\ entry.from = n /\ entry.body = fetch[f].body
         /\ entry \in [stamp : 1..time, kind : {"file", "link"}, from : Settings[c].names \cup {NoFile},
                       body : Down(c)!Body \cup {NoFile}]
    BY <1>4, <2>3, <2>6
  <2>11. /\ dest'[p] = entry /\ \A q \in Settings[c].paths \ {p} : dest'[q] = dest[q]
         /\ fetch'[f] = s /\ \A g \in Settings[c].fetchers \ {f} : fetch'[g] = fetch[g]
         /\ fetch' \in [Settings[c].fetchers -> Down(c)!Job]
    BY <1>3, <1>4, <2>1, <2>5, <2>9
  <2>12. Down(c)!TypeOK'
    <3>1. dest' \in [Settings[c].paths -> Down(c)!File' \cup {NoFile}]
      <4>1. Down(c)!File \subseteq Down(c)!File' /\ entry \in Down(c)!File'
        BY <1>3, <2>2, <2>5, <2>6, <2>10 DEF Down!File, Down!Body
      <4>. QED  BY <1>3, <2>5, <4>1
    <3>2. clock' \in Nat /\ \A g \in Settings[c].fetchers :
             /\ fetch'[g].left \subseteq fetch'[g].names
             /\ fetch'[g].at # "dead" => (fetch'[g].temp <=> fetch'[g].at \in {"copy", "after", "publish"})
      BY <1>3, <2>5, <2>6, <2>9, <2>11 DEF Down!TypeOK
    <3>. QED  BY <1>3, <2>5, <2>11, <3>1, <3>2 DEF Down!TypeOK, Down!Job, Down!Body
  <2>13. Down(c)!PublishedWhole'
    BY <1>3, <2>6, <2>10, <2>11 DEF Down!PublishedWhole
  <2>14. Down(c)!StampsGrow(f)'
    <3>1. /\ \A m \in Settings[c].names : fetch[f].original[m] \in Nat /\ fetch[f].published[m] \in Nat
          /\ \A m \in Settings[c].names : Settings[c].path[m] \in Settings[c].paths
      BY <1>3, FetchSettings DEF Down!Job
    <3>2. \A m \in Settings[c].names : fetch'[f].original[m] <= clock' /\ fetch'[f].published[m] <= clock'
      BY <1>3, <2>2, <2>5, <2>8, <2>9, <2>11, <3>1 DEF Down!StampsGrow
    <3>3. ASSUME NEW k \in Settings[c].names, fetch'[f].published[k] > 0
          PROVE  /\ \A m \in Settings[c].names : fetch'[f].original[m] < fetch'[f].published[k]
                 /\ dest'[Settings[c].path[k]] # NoFile =>
                      /\ dest'[Settings[c].path[k]].stamp >= fetch'[f].published[k]
                      /\ dest'[Settings[c].path[k]].stamp = fetch'[f].published[k]
                           => dest'[Settings[c].path[k]].from = k
      <4>1. CASE k = n
        BY <1>3, <2>1, <2>2, <2>6, <2>8, <2>9, <2>10, <2>11, <3>1, <4>1 DEF Down!StampsGrow
      <4>2. CASE k # n
        <5>1. fetch'[f].published[k] = fetch[f].published[k] /\ fetch[f].published[k] <= clock
          BY <1>3, <2>8, <2>9, <2>11, <4>2 DEF Down!StampsGrow
        <5>2. \A m \in Settings[c].names : fetch'[f].original[m] < fetch'[f].published[k]
          BY <1>3, <2>9, <2>11, <3>3, <5>1 DEF Down!StampsGrow
        <5>3. CASE Settings[c].path[k] = p
          BY <1>3, <2>2, <2>6, <2>10, <2>11, <3>1, <5>1, <5>2, <5>3
        <5>4. CASE Settings[c].path[k] # p
          BY <1>3, <2>11, <3>1, <3>3, <5>1, <5>2, <5>4 DEF Down!StampsGrow
        <5>. QED  BY <5>3, <5>4
      <4>. QED  BY <4>1, <4>2
    <3>. QED  BY <3>2, <3>3 DEF Down!StampsGrow
  <2>15. Down(c)!OneByOne(f)'
    <3>1. Down(c)!Current(f)' = n
      BY <1>1, <2>9, <2>11 DEF Down!Current
    <3>2. fetch[f].left # {} /\ \A m \in fetch[f].names : fetch[f].published[m] = 0 <=> m \in fetch[f].left
      BY <1>2, <1>3 DEF Down!OneByOne, Down!Publishing
    <3>3. \A m \in fetch[f].names : o[m] = 0 <=> m \in fetch[f].left /\ m # n
      BY <1>3, <2>6, <2>8, <3>2
    <3>. QED  BY <2>9, <2>11, <3>1, <3>2, <3>3 DEF Down!OneByOne, Down!Publishing
  <2>16. Down(c)!Compared(f)'
    BY <1>3, <2>9, <2>11 DEF Down!Compared
  <2>17. ASSUME NEW g \in Settings[c].fetchers, g # f
         PROVE  Down(c)!StampsGrow(g)' /\ Down(c)!OneByOne(g)' /\ Down(c)!Compared(g)'
    <3>1. fetch'[g] = fetch[g] /\ clock' \in Nat /\ clock <= clock'
      BY <1>3, <2>2, <2>5, <2>11, <2>17
    <3>2. \A q \in Settings[c].paths : \/ dest'[q] = dest[q] \/ dest'[q] = NoFile
                                       \/ dest'[q].stamp \in Nat /\ clock < dest'[q].stamp
      BY <2>6, <2>10, <2>11
    <3>. QED  BY <3>1, <3>2, Undisturbed
  <2>18. Down(c)!KeepsUnasked
    <3>1. SUFFICES ASSUME f \notin Settings[c].overwrite
                   PROVE  \A q \in Settings[c].paths : dest[q] # NoFile => dest'[q] = dest[q]
      BY <2>11 DEF Down!KeepsUnasked, Down!Publishes
    <3>2. dest[p] = NoFile
      BY <1>3, <1>4, <2>5, <3>1 DEF Down!Compared
    <3>. QED  BY <2>11, <3>2
  <2>19. Down(c)!KeepsOwn
    <3>1. SUFFICES ASSUME NEW m \in Settings[c].names, dest[Settings[c].path[m]] # NoFile,
                          dest[Settings[c].path[m]].stamp = fetch[f].published[m]
                   PROVE  dest'[Settings[c].path[m]] = dest[Settings[c].path[m]]
      BY <2>11 DEF Down!KeepsOwn, Down!Publishes
    <3>2. Settings[c].path[m] \in Settings[c].paths /\ Settings[c].path[m] # p => dest'[Settings[c].path[m]] = dest[Settings[c].path[m]]
      BY <2>11
    <3>3. Settings[c].path[m] \in Settings[c].paths
      BY FetchSettings
    <3>4. ASSUME Settings[c].path[m] = p PROVE FALSE
      <4>1. fetch[f].published[m] = 0
        BY <1>1, <1>2, <1>3, <2>1, <2>5, <3>1, <3>4 DEF Down!Compared
      <4>2. dest[p] \in Down(c)!File
        BY <1>3, <3>1, <3>3, <3>4
      <4>3. dest[p].stamp \in 1..clock
        BY <4>2 DEF Down!File
      <4>. QED  BY <1>3, <3>1, <3>4, <4>1, <4>3
    <3>. QED  BY <3>2, <3>3, <3>4
  <2>. QED  BY <2>12, <2>13, <2>14, <2>15, <2>16, <2>17, <2>18, <2>19 DEF Down!FetchInv
<1>. QED  BY <1>5, <1>6

LEMMA UploadedInv ==
    ASSUME NEW c \in Fetches, Down(c)!FetchInv, NEW n \in Settings[c].names, Down(c)!Upload(n)
    PROVE  Down(c)!FetchInv' /\ Down(c)!KeepsUnasked /\ Down(c)!KeepsOwn
<1>1. /\ Down(c)!TypeOK /\ Down(c)!PublishedWhole /\ stored[n] < Settings[c].versions
      /\ stored' = [stored EXCEPT ![n] = stored[n] + 1] /\ UNCHANGED <<dest, fetch, clock, writes, failures>>
      /\ Settings[c].versions \in Nat
  BY FetchSettings DEF Down!FetchInv, Down!Upload
<1>2. stored' \in [Settings[c].names -> 0..Settings[c].versions]
  <2>1. stored[n] + 1 \in 0..Settings[c].versions
    BY <1>1 DEF Down!TypeOK
  <2>. QED  BY <1>1, <2>1 DEF Down!TypeOK
<1>3. Down(c)!TypeOK' /\ Down(c)!PublishedWhole'
  BY <1>1, <1>2 DEF Down!TypeOK, Down!File, Down!Job, Down!Body, Down!PublishedWhole
<1>4. ASSUME NEW g \in Settings[c].fetchers
      PROVE  Down(c)!StampsGrow(g)' /\ Down(c)!OneByOne(g)' /\ Down(c)!Compared(g)'
  BY <1>1, Undisturbed DEF Down!TypeOK
<1>5. Down(c)!KeepsUnasked /\ Down(c)!KeepsOwn
  BY <1>1 DEF Down!KeepsUnasked, Down!KeepsOwn, Down!Publishes
<1>. QED  BY <1>3, <1>4, <1>5 DEF Down!FetchInv

\* What other programs do in the destination directory.
LEMMA ElsewhereInv ==
    ASSUME NEW c \in Fetches, Down(c)!FetchInv, NEW p \in Settings[c].paths, Down(c)!Write(p) \/ Down(c)!Delete(p)
    PROVE  Down(c)!FetchInv' /\ Down(c)!KeepsUnasked /\ Down(c)!KeepsOwn
<1>1. /\ Down(c)!TypeOK /\ Down(c)!PublishedWhole /\ clock \in Nat /\ writes < Settings[c].writes
      /\ clock' = clock + 1 /\ writes' = writes + 1 /\ UNCHANGED <<stored, fetch, failures>>
  BY DEF Down!FetchInv, Down!TypeOK, Down!Write, Down!Delete, Down!Elsewhere
<1>2. PICK time : time = clock + 1
  OBVIOUS
<1>3. time \in Nat /\ time \in 1..time /\ clock < time
  BY <1>1, <1>2
<1>4. PICK entry : /\ dest' = [dest EXCEPT ![p] = entry]
                   /\ \/ entry = NoFile
                      \/ \E k \in {"file", "link"} : entry = [stamp |-> time, kind |-> k, from |-> NoFile, body |-> NoFile]
  BY <1>2 DEF Down!Write, Down!Delete, Down!Elsewhere
<1>5. /\ dest'[p] = entry /\ \A q \in Settings[c].paths \ {p} : dest'[q] = dest[q]
      /\ dest \in [Settings[c].paths -> Down(c)!File \cup {NoFile}]
  BY <1>1, <1>4 DEF Down!TypeOK
<1>6. Down(c)!TypeOK'
  <2>1. dest' \in [Settings[c].paths -> Down(c)!File' \cup {NoFile}]
    <3>1. Down(c)!File \subseteq Down(c)!File' /\ entry \in Down(c)!File' \cup {NoFile}
      <4>1. clock' = time
        BY <1>1, <1>2
      <4>2. 1..clock \subseteq 1..time
        BY <1>1, <1>2
      <4>. QED  BY <1>3, <1>4, <4>1, <4>2 DEF Down!File, Down!Body
    <3>. QED  BY <1>4, <1>5, <3>1
  <2>2. writes' \in 0..Settings[c].writes
    BY <1>1, FetchSettings DEF Down!TypeOK
  <2>. QED  BY <1>1, <1>2, <1>3, <2>1, <2>2 DEF Down!TypeOK, Down!Job, Down!Body
<1>7. Down(c)!PublishedWhole'
  <2>1. entry # NoFile => entry.from = NoFile
    BY <1>4
  <2>2. NoFile \notin Settings[c].hasDigest
    BY FetchSettings
  <2>. QED  BY <1>1, <1>5, <2>1, <2>2 DEF Down!PublishedWhole
<1>8. ASSUME NEW g \in Settings[c].fetchers
      PROVE  Down(c)!StampsGrow(g)' /\ Down(c)!OneByOne(g)' /\ Down(c)!Compared(g)'
  <2>1. \A q \in Settings[c].paths : \/ dest'[q] = dest[q] \/ dest'[q] = NoFile
                                     \/ dest'[q].stamp \in Nat /\ clock < dest'[q].stamp
    BY <1>3, <1>4, <1>5
  <2>. QED  BY <1>1, <1>2, <1>3, <2>1, Undisturbed
<1>9. Down(c)!KeepsUnasked /\ Down(c)!KeepsOwn
  BY <1>1 DEF Down!KeepsUnasked, Down!KeepsOwn, Down!Publishes
<1>. QED  BY <1>6, <1>7, <1>8, <1>9 DEF Down!FetchInv
-----------------------------------------------------------------------------
(* The fetch as a whole.                                                   *)

LEMMA FetchInit ==
    ASSUME NEW c \in Fetches, Down(c)!Init
    PROVE  Down(c)!FetchInv
<1>1. Settings[c].versions \in Nat /\ Settings[c].writes \in Nat /\ Settings[c].faults \in Nat
  BY FetchSettings
<1>2. PICK s : s = [at |-> "list", names |-> {}, left |-> {}, original |-> [n \in Settings[c].names |-> 0],
                    published |-> [n \in Settings[c].names |-> 0], body |-> NoFile, temp |-> FALSE]
  OBVIOUS
<1>3. /\ s \in Down(c)!Job /\ s.at = "list" /\ s.left = {} /\ s.names = {} /\ ~s.temp
      /\ \A n \in Settings[c].names : s.original[n] = 0 /\ s.published[n] = 0
  BY <1>2 DEF Down!Job
<1>4. \A f \in Settings[c].fetchers : fetch[f] = s
  BY <1>2 DEF Down!Init
<1>5. Down(c)!TypeOK
  <2>1. fetch \in [Settings[c].fetchers -> Down(c)!Job]
    BY <1>2, <1>3 DEF Down!Init
  <2>2. /\ stored \in [Settings[c].names -> 0..Settings[c].versions]
        /\ dest \in [Settings[c].paths -> Down(c)!File \cup {NoFile}]
        /\ clock \in Nat /\ writes \in 0..Settings[c].writes /\ failures \in 0..Settings[c].faults
    BY <1>1 DEF Down!Init
  <2>. QED  BY <1>3, <1>4, <2>1, <2>2 DEF Down!TypeOK
<1>6. Down(c)!PublishedWhole
  BY DEF Down!Init, Down!PublishedWhole
<1>7. ASSUME NEW f \in Settings[c].fetchers
      PROVE  Down(c)!StampsGrow(f) /\ Down(c)!OneByOne(f) /\ Down(c)!Compared(f)
  <2>1. Down(c)!StampsGrow(f)
    BY <1>3, <1>4 DEF Down!Init, Down!StampsGrow
  <2>2. Down(c)!OneByOne(f) /\ Down(c)!Compared(f)
    BY <1>3, <1>4 DEF Down!OneByOne, Down!Compared, Down!Publishing
  <2>. QED  BY <2>1, <2>2
<1>. QED  BY <1>5, <1>6, <1>7 DEF Down!FetchInv

LEMMA FetchNext ==
    ASSUME NEW c \in Fetches, Down(c)!FetchInv, Down(c)!Next
    PROVE  Down(c)!FetchInv' /\ Down(c)!KeepsUnasked /\ Down(c)!KeepsOwn
<1>1. ASSUME NEW f \in Settings[c].fetchers, Down(c)!Fetch(f)
      PROVE  Down(c)!FetchInv' /\ Down(c)!KeepsUnasked /\ Down(c)!KeepsOwn
  BY <1>1, ListInv, CheckTargetInv, DownloadInv, PublishInv, ReportInv, FetchFails DEF Down!Fetch
<1>. QED  BY <1>1, UploadedInv, ElsewhereInv DEF Down!Next

\* Success, from what a fetch has published and from the stamps.
LEMMA FetchIsComplete ==
    ASSUME NEW c \in Fetches, Down(c)!FetchInv
    PROVE  Down(c)!SuccessIsComplete
<1>1. SUFFICES ASSUME NEW f \in Settings[c].fetchers \ Settings[c].dryRun, fetch[f].at = "ok",
                      NEW n \in fetch[f].names
               PROVE  /\ fetch[f].published[n] > 0
                      /\ dest[Settings[c].path[n]] # NoFile /\ dest[Settings[c].path[n]].stamp <= fetch[f].published[n]
                           => dest[Settings[c].path[n]].from = n
  BY DEF Down!SuccessIsComplete
<1>2. /\ Down(c)!StampsGrow(f) /\ Down(c)!OneByOne(f) /\ n \in Settings[c].names
      /\ fetch[f].published[n] \in Nat /\ Settings[c].path[n] \in Settings[c].paths
      /\ dest \in [Settings[c].paths -> Down(c)!File \cup {NoFile}] /\ clock \in Nat
  BY <1>1, FetchSettings DEF Down!FetchInv, Down!TypeOK, Down!Job
<1>3. fetch[f].published[n] > 0
  BY <1>1, <1>2 DEF Down!OneByOne
<1>4. dest[Settings[c].path[n]] # NoFile => dest[Settings[c].path[n]].stamp \in Nat
  BY <1>2 DEF Down!File
<1>. QED  BY <1>2, <1>3, <1>4 DEF Down!StampsGrow
-----------------------------------------------------------------------------
(* Either side, with any of the settings.                                  *)

\* The other side rests: a step is one of the chosen setting.
LEMMA OneSetting ==
    /\ \A c \in Syncs, d \in Fetches : c # d
    /\ ArtifactsInit => \/ \E c \in Syncs : setting = c /\ Up(c)!Init
                        \/ \E d \in Fetches : setting = d /\ Down(d)!Init
    /\ ArtifactsNext => /\ setting' = setting
                        /\ \/ \E c \in Syncs : setting = c /\ Up(c)!Next
                           \/ \E d \in Fetches : setting = d /\ Down(d)!Next
BY ArtifactsAssumption DEF ArtifactsInit, ArtifactsNext

\* The part about uploads of SuccessIsComplete: it is inductive with the invariant.
UploadIsComplete == \A c \in Syncs : setting = c => Up(c)!FinalIsComplete

LEMMA ArtifactsStart ==
    ASSUME ArtifactsInit
    PROVE  ArtifactsInv /\ UploadIsComplete
<1>1. ASSUME NEW c \in Syncs, setting = c, Up(c)!Init
      PROVE  ArtifactsInv /\ UploadIsComplete
  <2>1. Up(c)!SyncInv /\ Up(c)!FinalIsComplete
    BY <1>1, SyncInit DEF Up!Init, Up!FinalIsComplete
  <2>. QED  BY <1>1, <2>1, OneSetting DEF ArtifactsInv, UploadIsComplete
<1>2. ASSUME NEW d \in Fetches, setting = d, Down(d)!Init
      PROVE  ArtifactsInv /\ UploadIsComplete
  <2>1. Down(d)!FetchInv
    BY <1>2, FetchInit
  <2>. QED  BY <1>2, <2>1, OneSetting DEF ArtifactsInv, UploadIsComplete
<1>. QED  BY <1>1, <1>2, OneSetting

LEMMA ArtifactsStutter ==
    ASSUME ArtifactsInv, UploadIsComplete, UNCHANGED artifactVars
    PROVE  ArtifactsInv' /\ UploadIsComplete'
<1>1. /\ UNCHANGED setting
      /\ UNCHANGED <<file, payload, pass, timer, job, object, outcome, lost>>
      /\ UNCHANGED <<stored, dest, fetch, clock, writes, failures>>
  BY DEF artifactVars, syncVars, fetchVars
<1>2. ASSUME NEW c \in Syncs, setting = c
      PROVE  Up(c)!SyncInv' /\ Up(c)!FinalIsComplete'
  <2>1. Up(c)!SyncInv /\ Up(c)!FinalIsComplete
    BY <1>2 DEF ArtifactsInv, UploadIsComplete
  <2>2. Up(c)!TypeOK' /\ Up(c)!PassesApart'
    BY <1>1, <2>1 DEF Up!SyncInv, Up!TypeOK, Up!Job, Up!Content, Up!Versions, Up!PassesApart, Up!Handles
  <2>3. Up(c)!FinalSoFar'
    BY <1>1, <2>1, SettledSame DEF Up!SyncInv, Up!FinalSoFar, Up!Handles, Up!ContentOf
  <2>4. Up(c)!FinalIsComplete'
    BY <1>1, <2>1, SettledSame DEF Up!FinalIsComplete
  <2>. QED  BY <1>1, <2>1, <2>2, <2>3, <2>4, PassStep
<1>3. ASSUME NEW d \in Fetches, setting = d
      PROVE  Down(d)!FetchInv'
  <2>1. Down(d)!FetchInv
    BY <1>3 DEF ArtifactsInv
  <2>2. Down(d)!TypeOK' /\ Down(d)!PublishedWhole'
    BY <1>1, <2>1 DEF Down!FetchInv, Down!TypeOK, Down!File, Down!Job, Down!Body, Down!PublishedWhole
  <2>3. ASSUME NEW g \in Settings[d].fetchers
        PROVE  Down(d)!StampsGrow(g)' /\ Down(d)!OneByOne(g)' /\ Down(d)!Compared(g)'
    BY <1>1, <2>1, <2>3, Undisturbed DEF Down!FetchInv, Down!TypeOK
  <2>. QED  BY <2>2, <2>3 DEF Down!FetchInv
<1>. QED  BY <1>1, <1>2, <1>3 DEF ArtifactsInv, UploadIsComplete

\* Every step keeps the invariant, what success says, and what is there.
LEMMA ArtifactsStep ==
    ASSUME ArtifactsInv, UploadIsComplete, ArtifactsNext
    PROVE  ArtifactsInv' /\ UploadIsComplete' /\ KeepsWhatIsThere
<1>1. ASSUME NEW c \in Syncs, setting = c, Up(c)!Next
      PROVE  ArtifactsInv' /\ UploadIsComplete' /\ KeepsWhatIsThere
  <2>1. Up(c)!SyncInv' /\ Up(c)!NeverOlder /\ Up(c)!FinalIsComplete'
    BY <1>1, SyncStep, FinalStep DEF ArtifactsInv, UploadIsComplete
  <2>2. setting' = c /\ \A d \in Syncs \cup Fetches : setting = d <=> d = c
    BY <1>1, OneSetting
  <2>. QED  BY <2>1, <2>2, OneSetting DEF ArtifactsInv, UploadIsComplete, KeepsWhatIsThere
<1>2. ASSUME NEW d \in Fetches, setting = d, Down(d)!Next
      PROVE  ArtifactsInv' /\ UploadIsComplete' /\ KeepsWhatIsThere
  <2>1. Down(d)!FetchInv' /\ Down(d)!KeepsUnasked /\ Down(d)!KeepsOwn
    BY <1>2, FetchNext DEF ArtifactsInv
  <2>2. setting' = d /\ \A c \in Syncs \cup Fetches : setting = c <=> c = d
    BY <1>2, OneSetting
  <2>. QED  BY <2>1, <2>2, OneSetting DEF ArtifactsInv, UploadIsComplete, KeepsWhatIsThere
<1>. QED  BY <1>1, <1>2, OneSetting

LEMMA SuccessFromInv ==
    ASSUME ArtifactsInv, UploadIsComplete
    PROVE  SuccessIsComplete
BY FetchIsComplete DEF ArtifactsInv, UploadIsComplete, SuccessIsComplete

\* Stored and published contents are whole, with the reasons for it: uploads compare a copy
\* with the file after they have read it, fetches verify what arrives before they publish it
\* (Syncer.upload; fetchFile and s3Store.Get).
THEOREM ArtifactsAreWhole == ArtifactsSpec => []ArtifactsInv
<1>1. ArtifactsInit => ArtifactsInv /\ UploadIsComplete
  BY ArtifactsStart
<1>2. ArtifactsInv /\ UploadIsComplete /\ [ArtifactsNext]_artifactVars => (ArtifactsInv /\ UploadIsComplete)'
  BY ArtifactsStep, ArtifactsStutter
<1>. QED  BY <1>1, <1>2, PTL DEF ArtifactsSpec

\* A final pass without an error has left every selected file in the store as it is; a fetch
\* without an error has published every selected object, and it is there unless others wrote
\* later (Syncer.Sync and Run; Fetch).
THEOREM SuccessHasItAll == ArtifactsSpec => []SuccessIsComplete
<1>1. ArtifactsInit => ArtifactsInv /\ UploadIsComplete
  BY ArtifactsStart
<1>2. ArtifactsInv /\ UploadIsComplete /\ [ArtifactsNext]_artifactVars => (ArtifactsInv /\ UploadIsComplete)'
  BY ArtifactsStep, ArtifactsStutter
<1>3. ArtifactsInv /\ UploadIsComplete => SuccessIsComplete
  BY SuccessFromInv
<1>. QED  BY <1>1, <1>2, <1>3, PTL DEF ArtifactsSpec

\* No object is replaced by an older content, no file by a fetch that was not asked to, and
\* none by the fetch that has published it (s3Store.Put after Syncer.upload; the link or rename
\* of fetchFile after checkFetchUnchanged).
THEOREM WhatIsThereStays == ArtifactsSpec => NothingOverwritten
<1>1. ArtifactsInit => ArtifactsInv /\ UploadIsComplete
  BY ArtifactsStart
<1>2. ArtifactsInv /\ UploadIsComplete /\ [ArtifactsNext]_artifactVars => (ArtifactsInv /\ UploadIsComplete)'
  BY ArtifactsStep, ArtifactsStutter
<1>3. ArtifactsInv /\ UploadIsComplete /\ [ArtifactsNext]_artifactVars => [KeepsWhatIsThere]_artifactVars
  BY ArtifactsStep
<1>. QED  BY <1>1, <1>2, <1>3, PTL DEF ArtifactsSpec, NothingOverwritten
=============================================================================
