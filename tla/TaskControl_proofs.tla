-------------------------- MODULE TaskControl_proofs --------------------------
(***************************************************************************)
(* Proofs about TaskControl, for any tasks, workers and commands, with any  *)
(* faults: an acknowledged request to cancel leaves its mark on the row it  *)
(* was about, and nobody is cancelled whom nobody asked to cancel.          *)
(***************************************************************************)
EXTENDS TaskControl, TLAPS

-----------------------------------------------------------------------------
(* The statements, on the row they find.                                   *)

\* Every statement on a row returns a row.
LEMMA RowTypes ==
    ASSUME NEW row \in Row
    PROVE  /\ NoRow \in Row
           /\ \A n \in Nat : Inserted(n) \in Row
           /\ CancelApplied(row) \in Row
           /\ \A c \in Claim : Claimed(row, c) \in Row
           /\ \A c \in Completion : Completed(row, c) \in Row
<1>1. NoRow \in Row
  BY DEF NoRow, Row, Status
<1>2. \A n \in Nat : Inserted(n) \in Row
  BY DEF Inserted, NoRow, Row, Status
<1>3. CancelApplied(row) \in Row
  BY DEF CancelApplied, Row, Status, Terminal
<1>4. \A c \in Claim : Claimed(row, c) \in Row
  BY DEF Claimed, Claim, Row, Status
<1>5. \A c \in Completion : Completed(row, c) \in Row
  BY DEF Completed, Completion, Row, Status
<1>. QED  BY <1>1, <1>2, <1>3, <1>4, <1>5

\* request_cancel.sql keeps the incarnation, and leaves a task that has not ended
\* marked.
LEMMA CancelApplies ==
    ASSUME NEW row \in Row, row.status # "absent", row.status = "pending" => ~row.cancel
    PROVE  LET new == CancelApplied(row) IN
           /\ new.createdAt = row.createdAt
           /\ new.status \in Terminal \/ (new.status = "running" /\ new.cancel)
           /\ row.status \in Terminal => new = row
           /\ row.cancel => new.cancel
BY DEF CancelApplied, Row, Status, Terminal

\* complete_claim.sql ends a running row, or leaves the row alone.
LEMMA CompletedKeeps ==
    ASSUME NEW row \in Row, NEW c \in Completion
    PROVE  \/ Completed(row, c) = row
           \/ /\ row.status = "running"
              /\ Completed(row, c).status = c.status
              /\ Completed(row, c).createdAt = row.createdAt
              /\ Completed(row, c).cancel = row.cancel
BY DEF Completed, Completion, Row
-----------------------------------------------------------------------------
(* Steps of the table.                                                     *)

Asked(t) == \E i \in granted : i.task = t

\* What a step may make of the row of t: a row of a new incarnation, none, or the
\* same incarnation further on, with every mark it had.
Moves(t) ==
    \/ rows'[t] = rows[t]
    \/ rows'[t] = NoRow
    \/ rows[t].status = "absent" /\ clock < clock' /\ rows'[t] = Inserted(clock')
    \/ /\ rows[t].status # "absent"
       /\ rows'[t].createdAt = rows[t].createdAt
       /\ rows'[t].status \notin {"absent", "pending"}
       /\ rows[t].status \in Terminal => rows'[t].status \in Terminal
       /\ rows[t].cancel => rows'[t].cancel
       /\ rows'[t].cancel => rows[t].cancel \/ Asked(t)'

\* Such steps keep what was acknowledged, past, read and marked.
LEMMA MovesKeep ==
    ASSUME ControlInv, TypeOK', clock <= clock', granted \subseteq granted',
           \A t \in Tasks : Moves(t)
    PROVE  /\ \A i \in granted : Shown(i)' =>
                  rows'[i.task].status \in Terminal \/ rows'[i.task].cancel
           /\ \A t \in Tasks : rows'[t].createdAt <= clock'
           /\ \A t \in Tasks : rows'[t].status = "absent" <=> rows'[t].createdAt = 0
           /\ \A i \in granted : i.createdAt \in 1..clock'
           /\ \A t \in Tasks : rows'[t].cancel => rows'[t].status # "pending" /\ Asked(t)'
           /\ \A t \in Tasks, n \in 1..clock :
                  rows'[t].createdAt = n =>
                      /\ rows[t].createdAt = n
                      /\ rows[t].status \in Terminal => rows'[t].status \in Terminal
<1>. USE DEF ControlInv
<1>1. /\ rows \in [Tasks -> Row] /\ rows' \in [Tasks -> Row]
      /\ clock \in Nat /\ clock' \in Nat
      /\ \A i \in granted : i.task \in Tasks /\ i.createdAt \in Nat
  BY DEF TypeOK, Incarnation
<1>2. \A t \in Tasks :
          /\ rows[t].createdAt \in Nat /\ rows'[t].createdAt \in Nat
          /\ rows[t].createdAt <= clock
          /\ rows[t].status = "absent" <=> rows[t].createdAt = 0
          /\ rows[t].cancel => rows[t].status # "pending" /\ Asked(t)
  BY <1>1 DEF Row, StampsPast, MarksRequested, Asked
<1>3. \A t \in Tasks : rows'[t] = Inserted(clock') =>
          /\ rows'[t].createdAt = clock' /\ rows'[t].status = "pending" /\ ~rows'[t].cancel
  BY DEF Inserted, NoRow
<1>4. \A t \in Tasks : rows'[t] = NoRow =>
          /\ rows'[t].createdAt = 0 /\ rows'[t].status = "absent" /\ ~rows'[t].cancel
  BY DEF NoRow
<1>5. \A t \in Tasks : Asked(t) => Asked(t)'
  BY DEF Asked
<1>6. \A t \in Tasks : /\ rows'[t].createdAt <= clock'
                       /\ rows'[t].status = "absent" <=> rows'[t].createdAt = 0
                       /\ rows'[t].cancel => rows'[t].status # "pending" /\ Asked(t)'
  BY <1>1, <1>2, <1>3, <1>4, <1>5 DEF Moves
<1>7. \A t \in Tasks, n \in 1..clock : rows'[t].createdAt = n =>
          /\ rows[t].createdAt = n
          /\ rows[t].status \in Terminal => rows'[t].status \in Terminal
          /\ \/ rows'[t] = rows[t]
             \/ /\ rows'[t].status \notin {"absent", "pending"}
                /\ rows[t].cancel => rows'[t].cancel
  BY <1>1, <1>2, <1>3, <1>4 DEF Moves
<1>8. \A i \in granted : i.createdAt \in 1..clock /\ i.createdAt \in 1..clock'
  BY <1>1 DEF StampsPast
<1>9. ASSUME NEW i \in granted, Shown(i)'
      PROVE  rows'[i.task].status \in Terminal \/ rows'[i.task].cancel
  <2>1. i.task \in Tasks /\ i.createdAt \in 1..clock /\ rows'[i.task].createdAt = i.createdAt
    BY <1>1, <1>8, <1>9 DEF Shown
  <2>2. Shown(i) /\ (rows[i.task].status \in Terminal \/ rows[i.task].cancel)
    BY <1>7, <2>1 DEF Shown, RequestAcknowledged
  <2>. QED  BY <1>7, <2>1, <2>2
<1>. QED  BY <1>6, <1>7, <1>8, <1>9

\* A command after such a step: what it has read stays true.
LEMMA LookKept ==
    ASSUME ControlInv, TypeOK', clock <= clock', granted \subseteq granted',
           \A t \in Tasks : Moves(t),
           NEW c \in Clients, client'[c] = client[c] \/ client'[c].at \in {"ready", "wake"}
    PROVE  LET look == client'[c] IN
           /\ look.at = "cancel" =>
                  /\ look.task \in Tasks /\ look.seen \in Status \ {"absent"}
                  /\ look.createdAt \in 1..clock'
                  /\ rows'[look.task].createdAt = look.createdAt /\ look.seen \in Terminal =>
                         rows'[look.task].status \in Terminal
           /\ look.at \in {"notify", "confirm"} => \E i \in granted' : i.task = look.task
           /\ look.at = "remove" => look.task \in Tasks
<1>1. CASE client'[c].at \in {"ready", "wake"}
  BY <1>1
<1>2. CASE client'[c] = client[c]
  <2>. DEFINE look == client[c]
  <2>1. /\ look.at = "cancel" =>
               /\ look.task \in Tasks /\ look.seen \in Status \ {"absent"}
               /\ look.createdAt \in 1..clock
               /\ Shown(look) /\ look.seen \in Terminal => rows[look.task].status \in Terminal
        /\ look.at \in {"notify", "confirm"} => \E i \in granted : i.task = look.task
        /\ look.at = "remove" => look.task \in Tasks
    BY DEF ControlInv, LooksTrue
  <2>2. clock \in Nat /\ clock' \in Nat
    BY DEF ControlInv, TypeOK
  <2>3. ASSUME look.at = "cancel", rows'[look.task].createdAt = look.createdAt,
               look.seen \in Terminal
        PROVE  rows'[look.task].status \in Terminal
    <3>1. /\ rows[look.task].createdAt = look.createdAt
          /\ rows[look.task].status \in Terminal => rows'[look.task].status \in Terminal
      BY <2>1, <2>3, MovesKeep
    <3>. QED  BY <2>1, <2>3, <3>1 DEF Shown
  <2>. QED  BY <1>2, <2>1, <2>2, <2>3
<1>. QED  BY <1>1, <1>2

\* A step of the table that grants no new request, and tells workers nothing new.
LEMMA TableStep ==
    ASSUME ControlInv, TypeOK', clock <= clock', granted' = granted,
           \A t \in Tasks : Moves(t),
           \A c \in Clients : client'[c] = client[c] \/ client'[c].at \in {"ready", "wake"},
           \A w \in Workers : hints'[w] = hints[w],
           \A w \in Workers : cancelled'[w] => cancelled[w] /\ job'[w] = job[w]
    PROVE  ControlInv'
<1>1. RequestAcknowledged'
  BY MovesKeep DEF RequestAcknowledged, Shown
<1>2. StampsPast'
  BY MovesKeep DEF StampsPast
<1>3. LooksTrue'
  <2>1. granted \subseteq granted'
    OBVIOUS
  <2>. QED  BY <2>1, LookKept DEF LooksTrue, Shown
<1>4. MarksRequested'
  <2>1. \A t \in Tasks : rows'[t].cancel => rows'[t].status # "pending" /\ Asked(t)'
    BY MovesKeep
  <2>. QED  BY <2>1 DEF MarksRequested, ControlInv, Asked
<1>. QED  BY <1>1, <1>2, <1>3, <1>4 DEF ControlInv

\* Every other step keeps the table, the requests and what commands have read; what
\* it tells a worker to cancel has been asked for.
LEMMA SignalStep ==
    ASSUME ControlInv, TypeOK', UNCHANGED <<rows, clock, granted>>,
           \A c \in Clients :
               \/ client'[c] = client[c]
               \/ client'[c].at \in {"ready", "wake"}
               \/ /\ client[c].at = "notify" /\ client'[c].at = "confirm"
                  /\ client'[c].task = client[c].task,
           \A w \in Workers : \A t \in hints'[w] : t \in hints[w] \/ Asked(t),
           \A w \in Workers : cancelled'[w] =>
               (cancelled[w] /\ job'[w] = job[w]) \/ Asked(job'[w].task)
    PROVE  ControlInv'
<1>1. RequestAcknowledged' /\ StampsPast'
  BY DEF ControlInv, RequestAcknowledged, StampsPast, Shown
<1>2. LooksTrue'
  BY DEF ControlInv, LooksTrue, Shown
<1>3. MarksRequested'
  BY DEF ControlInv, MarksRequested, Asked
<1>. QED  BY <1>1, <1>2, <1>3 DEF ControlInv
-----------------------------------------------------------------------------
(* Commands.                                                               *)

LEMMA EnqueueInsertInv ==
    ASSUME ControlInv, NEW c \in Clients, NEW t \in Tasks, EnqueueInsert(c, t)
    PROVE  ControlInv'
<1>1. /\ rows \in [Tasks -> Row] /\ clock \in Nat /\ client \in [Clients -> Command]
      /\ clock' = clock + 1
      /\ rows[t].status = "absent"
      /\ rows' = [rows EXCEPT ![t] = Inserted(clock + 1)]
      /\ client' = [client EXCEPT ![c] = [@ EXCEPT !.at = "wake", !.task = t]]
      /\ UNCHANGED <<local, signals, history>>
  BY DEF ControlInv, TypeOK, EnqueueInsert
<1>2. Inserted(clock + 1) \in Row
  <2>1. rows[t] \in Row /\ clock + 1 \in Nat
    BY <1>1
  <2>. QED  BY <2>1, RowTypes
<1>3. [client[c] EXCEPT !.at = "wake", !.task = t] \in Command
  BY <1>1 DEF Command
<1>4. TypeOK'
  BY <1>1, <1>2, <1>3 DEF ControlInv, TypeOK, local, signals, history
<1>5. \A u \in Tasks : Moves(u)
  BY <1>1 DEF Moves
<1>6. \A d \in Clients : client'[d] = client[d] \/ client'[d].at \in {"ready", "wake"}
  BY <1>1, <1>3 DEF Command
<1>. QED
  BY <1>1, <1>4, <1>5, <1>6, TableStep DEF local, signals, history

\* A read is true when it is made.
LEMMA ReadInv ==
    ASSUME ControlInv, NEW c \in Clients, NEW t \in Tasks, CancelRead(c, t) \/ RemoveRead(c, t)
    PROVE  ControlInv'
<1>1. /\ rows \in [Tasks -> Row] /\ clock \in Nat /\ client \in [Clients -> Command]
      /\ rows[t].status # "absent"
      /\ UNCHANGED <<store, local, signals, history>>
  BY DEF ControlInv, TypeOK, CancelRead, RemoveRead
<1>2. PICK at \in {"cancel", "remove"} :
          client' = [client EXCEPT ![c] = [at |-> at, task |-> t, seen |-> rows[t].status,
                                           createdAt |-> rows[t].createdAt]]
  BY DEF CancelRead, RemoveRead
<1>3. /\ rows[t].createdAt \in 1..clock
      /\ rows[t].status \in Status
  BY <1>1 DEF ControlInv, StampsPast, Row
<1>4. [at |-> at, task |-> t, seen |-> rows[t].status, createdAt |-> rows[t].createdAt] \in Command
  BY <1>1, <1>3 DEF Command
<1>5. TypeOK'
  BY <1>1, <1>2, <1>4 DEF ControlInv, TypeOK, store, local, signals, history
<1>6. LooksTrue'
  BY <1>1, <1>2, <1>3 DEF ControlInv, LooksTrue, Shown, store, history
<1>7. RequestAcknowledged' /\ StampsPast' /\ MarksRequested'
  BY <1>1 DEF ControlInv, RequestAcknowledged, StampsPast, MarksRequested, Shown,
              store, local, signals, history
<1>. QED  BY <1>5, <1>6, <1>7 DEF ControlInv

\* A command that ends, or goes on to confirm, tells workers nothing.
LEMMA CommandEndsInv ==
    ASSUME ControlInv, NEW c \in Clients,
           EnqueueWake(c) \/ EnqueueWakeFails(c) \/ CancelConfirm(c) \/ GiveUp(c)
    PROVE  ControlInv'
<1>1. /\ client \in [Clients -> Command] /\ wake \in [Workers -> BOOLEAN]
      /\ connected \in [Workers -> BOOLEAN]
      /\ client' = [client EXCEPT ![c] = Ready]
      /\ UNCHANGED <<store, local, connected, listening, dropping, hints, history>>
      /\ UNCHANGED wake \/ SendWake
  BY DEF ControlInv, TypeOK, EnqueueWake, EnqueueWakeFails, CancelConfirm, GiveUp, signals
<1>2. Ready \in Command /\ Ready.at = "ready"
  BY DEF Ready, Command
<1>3. wake' \in [Workers -> BOOLEAN]
  BY <1>1 DEF SendWake
<1>4. client' \in [Clients -> Command]
  BY <1>1, <1>2
<1>5. TypeOK'
  BY <1>1, <1>3, <1>4 DEF ControlInv, TypeOK, store, local, history
<1>6. \A d \in Clients : client'[d] = client[d] \/ client'[d].at \in {"ready", "wake"}
  BY <1>1, <1>2
<1>. QED
  BY <1>1, <1>5, <1>6, SignalStep DEF store, local, history

\* The hint is about a request that was granted.
LEMMA CancelNotifyInv ==
    ASSUME ControlInv, NEW c \in Clients, CancelNotify(c)
    PROVE  ControlInv'
<1>1. /\ client \in [Clients -> Command] /\ hints \in [Workers -> SUBSET Tasks]
      /\ client[c].at = "notify"
      /\ client' = [client EXCEPT ![c].at = "confirm"]
      /\ SendCancel(client[c].task)
      /\ UNCHANGED <<store, local, connected, listening, dropping, wake, history>>
  BY DEF ControlInv, TypeOK, CancelNotify
<1>2. /\ client'[c] \in Command /\ client'[c].at = "confirm"
      /\ client'[c].task = client[c].task
      /\ \A d \in Clients : d # c => client'[d] = client[d]
      /\ client' \in [Clients -> Command]
  BY <1>1 DEF Command
<1>3. Asked(client[c].task)
  BY <1>1 DEF ControlInv, LooksTrue, Asked
<1>4. client[c].task \in Tasks
  BY <1>3 DEF Asked, ControlInv, TypeOK, Incarnation
<1>5. hints' \in [Workers -> SUBSET Tasks]
  BY <1>1, <1>4 DEF SendCancel
<1>6. TypeOK'
  BY <1>1, <1>2, <1>5 DEF ControlInv, TypeOK, store, local, history
<1>7. \A w \in Workers : \A t \in hints'[w] : t \in hints[w] \/ Asked(t)
  BY <1>1, <1>3 DEF SendCancel
<1>. QED
  BY <1>1, <1>2, <1>6, <1>7, SignalStep DEF store, local, history

\* The UPDATE of request_cancel.sql finds the row that was read, or the same
\* incarnation further on: whatever the command is then told, the mark is there.
LEMMA CancelWriteInv ==
    ASSUME ControlInv, NEW c \in Clients, CancelWrite(c)
    PROVE  ControlInv'
<1>0. PICK look : look = client[c]
  OBVIOUS
<1>. DEFINE t == look.task
            target == [task |-> t, createdAt |-> look.createdAt]
            asks == look.seen \in {"pending", "running"}
<1>1. /\ rows \in [Tasks -> Row] /\ clock \in Nat /\ client \in [Clients -> Command]
      /\ granted \in SUBSET Incarnation /\ promised \in SUBSET Incarnation
  BY DEF ControlInv, TypeOK
<1>2. /\ look.at = "cancel"
      /\ rows' = CancelWritten(c)
      /\ client' = [client EXCEPT ![c] =
             IF look.seen = "running" THEN [look EXCEPT !.at = "notify"] ELSE Ready]
      /\ granted' = IF asks THEN granted \cup {target} ELSE granted
      /\ promised' = IF look.seen = "pending" THEN promised \cup {target} ELSE promised
      /\ UNCHANGED <<clock, local, signals>>
  BY <1>0, <1>1 DEF CancelWrite
<1>3. /\ t \in Tasks /\ look.seen \in Status \ {"absent"} /\ look.createdAt \in 1..clock
      /\ rows[t].createdAt = look.createdAt /\ look.seen \in Terminal => rows[t].status \in Terminal
  BY <1>0, <1>2 DEF ControlInv, LooksTrue, Shown
<1>4. rows[t] \in Row /\ CancelApplied(rows[t]) \in Row
  BY <1>1, <1>3, RowTypes
<1>5. target \in Incarnation
  BY <1>1, <1>3 DEF Incarnation
<1>6. rows' \in [Tasks -> Row]
  BY <1>1, <1>2, <1>3, <1>4, <1>0 DEF CancelWritten
<1>7. client' \in [Clients -> Command]
  BY <1>0, <1>1, <1>2 DEF Command, Ready
<1>8. TypeOK'
  BY <1>1, <1>2, <1>5, <1>6, <1>7 DEF ControlInv, TypeOK, local, signals
<1>9. granted \subseteq granted' /\ clock <= clock'
  BY <1>1, <1>2
<1>10. ASSUME rows[t].createdAt = look.createdAt
       PROVE  /\ rows[t].status # "absent"
              /\ rows'[t].createdAt = rows[t].createdAt
              /\ rows'[t].status \in Terminal \/ (rows'[t].status = "running" /\ rows'[t].cancel)
              /\ rows[t].status \in Terminal => rows'[t] = rows[t]
              /\ rows[t].cancel => rows'[t].cancel
  <2>1. rows'[t] = CancelApplied(rows[t])
    BY <1>1, <1>2, <1>3, <1>10, <1>0 DEF CancelWritten
  <2>2. rows[t].status # "absent"
    BY <1>1, <1>3, <1>10 DEF ControlInv, StampsPast
  <2>3. rows[t].status = "pending" => ~rows[t].cancel
    BY <1>3 DEF ControlInv, MarksRequested
  <2>. QED  BY <1>4, <2>1, <2>2, <2>3, CancelApplies
<1>11. \A u \in Tasks : u # t \/ rows[t].createdAt # look.createdAt => rows'[u] = rows[u]
  BY <1>1, <1>2, <1>3, <1>0 DEF CancelWritten
<1>12. rows[t].createdAt = look.createdAt /\ rows[t].status \notin Terminal => Asked(t)'
  <2>1. asks \/ look.seen \in Terminal
    BY <1>3 DEF Status, Terminal
  <2>2. ASSUME asks  PROVE Asked(t)'
    <3>1. target \in granted' /\ target.task = t
      BY <1>2, <2>2
    <3>. QED  BY <3>1 DEF Asked
  <2>. QED  BY <1>3, <2>1, <2>2
<1>13. \A u \in Tasks : Moves(u)
  <2>1. CASE rows[t].createdAt = look.createdAt
    <3>1. rows'[t].cancel => rows[t].cancel \/ Asked(t)'
      BY <1>10, <1>12, <2>1
    <3>2. Moves(t)
      BY <1>10, <2>1, <3>1 DEF Moves, Terminal
    <3>3. \A u \in Tasks : u # t => Moves(u)
      BY <1>11 DEF Moves
    <3>. QED  BY <3>2, <3>3
  <2>2. CASE rows[t].createdAt # look.createdAt
    BY <1>11, <2>2 DEF Moves
  <2>. QED  BY <2>1, <2>2
<1>14. RequestAcknowledged'
  <2>1. SUFFICES ASSUME NEW i \in granted', rows'[i.task].createdAt = i.createdAt
                 PROVE  rows'[i.task].status \in Terminal \/ rows'[i.task].cancel
    BY DEF RequestAcknowledged, Shown
  <2>2. CASE i \in granted
    BY <1>8, <1>9, <1>13, <2>1, <2>2, MovesKeep DEF Shown
  <2>3. CASE i \notin granted
    <3>1. i.task = t /\ i.createdAt = look.createdAt
      BY <1>2, <2>1, <2>3
    <3>2. rows[t].createdAt = look.createdAt
      BY <1>2, <1>3, <2>1, <3>1, <1>0 DEF CancelWritten
    <3>. QED  BY <1>10, <3>1, <3>2
  <2>. QED  BY <2>2, <2>3
<1>15. StampsPast'
  <2>1. \A i \in granted' : i.createdAt \in 1..clock'
    BY <1>1, <1>2, <1>3, <1>8, <1>9, <1>13, MovesKeep
  <2>. QED  BY <1>8, <1>9, <1>13, <2>1, MovesKeep DEF StampsPast
<1>16. LooksTrue'
  <2>1. ASSUME NEW d \in Clients, d # c
        PROVE  client'[d] = client[d]
    BY <1>1, <1>2, <2>1
  <2>2. client'[c].at \in {"ready", "notify"}
    BY <1>0, <1>1, <1>2 DEF Ready, Command
  <2>3. client'[c].at = "notify" => \E i \in granted' : i.task = client'[c].task
    <3>1. client'[c].at = "notify" => look.seen = "running" /\ client'[c].task = t
      BY <1>0, <1>1, <1>2 DEF Ready, Command
    <3>2. look.seen = "running" => target \in granted' /\ target.task = t
      BY <1>2
    <3>. QED  BY <3>1, <3>2
  <2>4. ASSUME NEW d \in Clients
        PROVE  LET seen == client'[d] IN
               /\ seen.at = "cancel" =>
                      /\ seen.task \in Tasks /\ seen.seen \in Status \ {"absent"}
                      /\ seen.createdAt \in 1..clock'
                      /\ rows'[seen.task].createdAt = seen.createdAt /\ seen.seen \in Terminal =>
                             rows'[seen.task].status \in Terminal
               /\ seen.at \in {"notify", "confirm"} => \E i \in granted' : i.task = seen.task
               /\ seen.at = "remove" => seen.task \in Tasks
    <3>1. CASE d = c
      BY <2>2, <2>3, <3>1
    <3>2. CASE d # c
      BY <1>8, <1>9, <1>13, <2>1, <3>2, LookKept
    <3>. QED  BY <3>1, <3>2
  <2>. QED  BY <2>4 DEF LooksTrue, Shown
<1>17. MarksRequested'
  <2>1. \A u \in Tasks : rows'[u].cancel => rows'[u].status # "pending" /\ Asked(u)'
    BY <1>8, <1>9, <1>13, MovesKeep
  <2>2. \A u \in Tasks : Asked(u) => Asked(u)'
    BY <1>9 DEF Asked
  <2>3. /\ \A w \in Workers : \A u \in hints[w] : Asked(u)
        /\ \A w \in Workers : cancelled[w] => Asked(job[w].task)
        /\ \A w \in Workers : hints[w] \in SUBSET Tasks
    BY DEF ControlInv, TypeOK, MarksRequested, Asked
  <2>4. \A w \in Workers : cancelled[w] => Asked(job[w].task)'
    BY <1>2, <1>9, <2>3 DEF Asked, local
  <2>. QED  BY <1>2, <2>1, <2>2, <2>3, <2>4 DEF MarksRequested, Asked, local, signals
<1>. QED  BY <1>8, <1>14, <1>15, <1>16, <1>17 DEF ControlInv

\* remove deletes whatever row is there.
LEMMA RemoveDeleteInv ==
    ASSUME ControlInv, NEW c \in Clients, RemoveDelete(c)
    PROVE  ControlInv'
<1>1. /\ rows \in [Tasks -> Row] /\ clock \in Nat /\ client \in [Clients -> Command]
      /\ rows' = [rows EXCEPT ![client[c].task] = NoRow]
      /\ client' = [client EXCEPT ![c] = Ready]
      /\ UNCHANGED <<clock, local, signals, history>>
  BY DEF ControlInv, TypeOK, RemoveDelete
<1>2. Ready \in Command /\ Ready.at = "ready" /\ NoRow \in Row
  BY DEF Ready, Command, NoRow, Row, Status
<1>3. TypeOK'
  BY <1>1, <1>2 DEF ControlInv, TypeOK, local, signals, history
<1>4. \A u \in Tasks : Moves(u)
  BY <1>1 DEF Moves
<1>5. \A d \in Clients : client'[d] = client[d] \/ client'[d].at \in {"ready", "wake"}
  BY <1>1, <1>2
<1>. QED
  BY <1>1, <1>3, <1>4, <1>5, TableStep DEF local, signals, history

LEMMA CommandStepInv ==
    ASSUME ControlInv, NEW c \in Clients, CommandStep(c)
    PROVE  ControlInv'
BY EnqueueInsertInv, ReadInv, CommandEndsInv, CancelNotifyInv, CancelWriteInv, RemoveDeleteInv
   DEF CommandStep
-----------------------------------------------------------------------------
(* Listeners and workers.                                                  *)

\* No hint is new.
NoNewHint == \A w \in Workers : hints'[w] \subseteq hints[w]

\* Connections, queues and removals: hints only disappear.
LEMMA ListenerStepInv ==
    ASSUME ControlInv, NEW w \in Workers, ListenerStep(w)
    PROVE  ControlInv'
<1>1. /\ connected \in [Workers -> BOOLEAN] /\ listening \in [Workers -> SUBSET Tasks]
      /\ dropping \in [Workers -> SUBSET Tasks] /\ hints \in [Workers -> SUBSET Tasks]
      /\ wake \in [Workers -> BOOLEAN]
      /\ UNCHANGED <<store, client, local, history>>
  BY DEF ControlInv, TypeOK, ListenerStep, Disconnect, Reconnect, DropHint, Unlisten
<1>2. /\ connected' \in [Workers -> BOOLEAN] /\ listening' \in [Workers -> SUBSET Tasks]
      /\ dropping' \in [Workers -> SUBSET Tasks] /\ hints' \in [Workers -> SUBSET Tasks]
      /\ wake' \in [Workers -> BOOLEAN]
      /\ NoNewHint
  <2>1. CASE Disconnect(w)
    <3>1. PICK kept \in {hints[w], {}} : hints' = [hints EXCEPT ![w] = kept]
      BY <2>1 DEF Disconnect
    <3>2. hints' \in [Workers -> SUBSET Tasks] /\ NoNewHint
      BY <1>1, <3>1 DEF NoNewHint
    <3>. QED  BY <1>1, <2>1, <3>2 DEF Disconnect
  <2>2. CASE Reconnect(w)
    BY <1>1, <2>2 DEF Reconnect, NoNewHint
  <2>3. CASE \E t \in Tasks : DropHint(w, t)
    BY <1>1, <2>3 DEF DropHint, NoNewHint
  <2>4. CASE \E t \in Tasks : Unlisten(w, t)
    BY <1>1, <2>4 DEF Unlisten, NoNewHint
  <2>. QED  BY <2>1, <2>2, <2>3, <2>4 DEF ListenerStep
<1>3. TypeOK'
  BY <1>1, <1>2 DEF ControlInv, TypeOK, store, local, history
<1>. QED
  BY <1>1, <1>2, <1>3, SignalStep DEF store, local, history, NoNewHint

\* A claim takes a pending row, which carries no request.
LEMMA ClaimOldestInv ==
    ASSUME ControlInv, NEW w \in Workers, ClaimOldest(w)
    PROVE  ControlInv'
<1>1. /\ rows \in [Tasks -> Row] /\ clock \in Nat /\ pc[w] = "claim"
      /\ job \in [Workers -> Claim \cup {None}]
      /\ pc \in [Workers -> {"claim", "none", "idle", "listen", "check", "run"}]
      /\ ~cancelled[w]
  BY DEF ControlInv, TypeOK, ClaimOldest
<1>2. PICK t \in Tasks, claim \in {[task |-> u, worker |-> w, createdAt |-> rows[u].createdAt,
                                      startedAt |-> clock + 1] : u \in Tasks} :
          /\ rows[t].status = "pending"
          /\ claim = [task |-> t, worker |-> w, createdAt |-> rows[t].createdAt,
                      startedAt |-> clock + 1]
          /\ rows' = [rows EXCEPT ![t] = Claimed(@, claim)]
          /\ job' = [job EXCEPT ![w] = claim]
  BY DEF ClaimOldest, Pending
<1>3. clock' = clock + 1 /\ Goto(w, "listen") /\ UNCHANGED <<client, cancelled, signals, history>>
  BY DEF ClaimOldest
<1>4. claim \in Claim
  BY <1>1, <1>2 DEF Claim, Row
<1>5. Claimed(rows[t], claim) \in Row
  <2>1. rows[t] \in Row
    BY <1>1
  <2>. QED  BY <1>4, <2>1, RowTypes
<1>6. \A v \in Workers : v # w => pc'[v] = pc[v] /\ job'[v] = job[v]
  BY <1>1, <1>2, <1>3 DEF Goto
<1>7. pc'[w] = "listen" /\ job'[w] \in Claim
  BY <1>1, <1>2, <1>3, <1>4 DEF Goto
<1>8. TypeOK'
  <2>1. /\ rows' \in [Tasks -> Row] /\ clock' \in Nat
        /\ pc' \in [Workers -> {"claim", "none", "idle", "listen", "check", "run"}]
        /\ job' \in [Workers -> Claim \cup {None}]
    BY <1>1, <1>2, <1>3, <1>4, <1>5 DEF Goto
  <2>2. \A v \in Workers : /\ pc'[v] \in {"listen", "check", "run"} => job'[v] \in Claim
                           /\ cancelled'[v] => pc'[v] = "run"
    BY <1>1, <1>3, <1>6, <1>7 DEF ControlInv, TypeOK
  <2>. QED  BY <1>3, <2>1, <2>2 DEF ControlInv, TypeOK, signals, history
<1>9. \A u \in Tasks : Moves(u)
  <2>1. ~rows[t].cancel
    BY <1>2 DEF ControlInv, MarksRequested
  <2>2. /\ rows'[t].status = "running" /\ rows'[t].createdAt = rows[t].createdAt
        /\ rows'[t].cancel = rows[t].cancel
    BY <1>1, <1>2 DEF Claimed, Row
  <2>3. Moves(t)
    BY <1>2, <2>1, <2>2 DEF Moves, Terminal
  <2>4. \A u \in Tasks : u # t => Moves(u)
    BY <1>1, <1>2 DEF Moves
  <2>. QED  BY <2>3, <2>4
<1>10. \A v \in Workers : cancelled'[v] => cancelled[v] /\ job'[v] = job[v]
  BY <1>1, <1>3, <1>6
<1>11. clock <= clock'
  BY <1>1, <1>3
<1>. QED
  BY <1>3, <1>8, <1>9, <1>10, <1>11, TableStep DEF signals, history

\* The worker moves on without a statement; what it takes from its queue may cancel
\* the job in hand, or end its wait.
LEMMA WorkerMovesInv ==
    ASSUME ControlInv, NEW w \in Workers,
           \/ ClaimNone(w) \/ Wait(w) \/ IdleEnds(w) \/ Subscribe(w)
           \/ CheckCancel(w) /\ ~rows[job[w].task].cancel
           \/ Hint(w) \/ Poll(w)
    PROVE  ControlInv'
<1>. DEFINE label == {"claim", "none", "idle", "listen", "check", "run"}
<1>1. /\ pc \in [Workers -> label] /\ listening \in [Workers -> SUBSET Tasks]
      /\ hints \in [Workers -> SUBSET Tasks] /\ wake \in [Workers -> BOOLEAN]
      /\ cancelled \in [Workers -> BOOLEAN] /\ job \in [Workers -> Claim \cup {None}]
      /\ pc[w] \in {"listen", "check", "run"} => job[w] \in Claim /\ job[w].task \in Tasks
      /\ cancelled[w] => pc[w] = "run"
  BY DEF ControlInv, TypeOK, Claim
<1>2. UNCHANGED <<store, client, job, connected, dropping, history>>
  BY DEF ClaimNone, Wait, IdleEnds, Subscribe, CheckCancel, Hint, Poll, signals, Finish
<1>3. hints' \in [Workers -> SUBSET Tasks] /\ wake' \in [Workers -> BOOLEAN] /\ NoNewHint
  <2>1. CASE UNCHANGED <<hints, wake>>
    BY <1>1, <2>1 DEF NoNewHint
  <2>2. CASE Take(w)
    BY <1>1, <2>2 DEF Take, NoNewHint
  <2>. QED  BY <2>1, <2>2 DEF ClaimNone, Wait, IdleEnds, Subscribe, CheckCancel, Hint, Poll, signals
<1>4. /\ pc' \in [Workers -> label] /\ cancelled' \in [Workers -> BOOLEAN]
      /\ \A v \in Workers \ {w} : pc'[v] = pc[v] /\ cancelled'[v] = cancelled[v]
      /\ pc'[w] \in {"listen", "check", "run"} => pc[w] \in {"listen", "check", "run"}
      /\ cancelled'[w] => pc'[w] = "run"
  <2>1. CASE \/ ClaimNone(w) \/ Wait(w) \/ IdleEnds(w) \/ Subscribe(w)
             \/ CheckCancel(w) /\ ~rows[job[w].task].cancel
    <3>1. PICK to \in label :
              /\ Goto(w, to)
              /\ to \in {"listen", "check", "run"} => pc[w] \in {"listen", "check", "run"}
      BY <2>1 DEF ClaimNone, Wait, IdleEnds, Subscribe, CheckCancel
    <3>2. UNCHANGED cancelled /\ ~cancelled[w]
      BY <1>1, <2>1 DEF ClaimNone, Wait, IdleEnds, Subscribe, CheckCancel
    <3>. QED  BY <1>1, <3>1, <3>2 DEF Goto
  <2>2. CASE Hint(w) \/ Poll(w)
    <3>1. pc[w] = "run" /\ UNCHANGED pc
      BY <2>2 DEF Hint, Poll
    <3>2. PICK b \in BOOLEAN : cancelled' = [cancelled EXCEPT ![w] = b]
      <4>. DEFINE heard == job[w].task \in hints[w] \ hints'[w]
      <4>1. CASE Hint(w)
        <5>1. heard \in BOOLEAN
          OBVIOUS
        <5>2. cancelled' = [cancelled EXCEPT ![w] = heard]
          BY <4>1 DEF Hint
        <5>. HIDE DEF heard
        <5>. QED  BY <5>1, <5>2
      <4>2. CASE Poll(w)
        BY <4>2 DEF Poll
      <4>. QED  BY <2>2, <4>1, <4>2
    <3>. QED  BY <1>1, <3>1, <3>2
  <2>. QED  BY <2>1, <2>2
<1>5. listening' \in [Workers -> SUBSET Tasks]
  BY <1>1 DEF ClaimNone, Wait, IdleEnds, Subscribe, CheckCancel, Hint, Poll, signals, Finish
<1>6. cancelled'[w] => cancelled[w] \/ Asked(job[w].task)
  <2>1. CASE Hint(w)
    BY <1>1, <1>3, <2>1 DEF Hint, ControlInv, MarksRequested, Asked
  <2>2. CASE Poll(w)
    BY <1>1, <2>2 DEF Poll, ControlInv, MarksRequested, Asked
  <2>. QED  BY <2>1, <2>2 DEF ClaimNone, Wait, IdleEnds, Subscribe, CheckCancel
<1>7. TypeOK'
  <2>1. \A v \in Workers : /\ pc'[v] \in {"listen", "check", "run"} => job'[v] \in Claim
                           /\ cancelled'[v] => pc'[v] = "run"
    BY <1>1, <1>2, <1>4 DEF ControlInv, TypeOK
  <2>. QED  BY <1>2, <1>3, <1>4, <1>5, <2>1 DEF ControlInv, TypeOK, store, history
<1>8. \A v \in Workers : cancelled'[v] =>
          (cancelled[v] /\ job'[v] = job[v]) \/ Asked(job'[v].task)
  BY <1>2, <1>4, <1>6
<1>. QED
  BY <1>2, <1>3, <1>7, <1>8, SignalStep DEF store, history, NoNewHint

\* complete_claim.sql, and the end of the job.
LEMMA FinishInv ==
    ASSUME ControlInv, NEW w \in Workers, NEW o \in Terminal, job[w] \in Claim, Finish(w, o)
    PROVE  ControlInv'
<1>1. PICK t, c : t = job[w].task /\ c = [claim |-> job[w], status |-> o]
  OBVIOUS
<1>2. /\ rows \in [Tasks -> Row] /\ clock \in Nat
      /\ t \in Tasks /\ c \in Completion
      /\ rows' = [rows EXCEPT ![t] = Completed(@, c)]
      /\ job' = [job EXCEPT ![w] = None]
      /\ cancelled' = [cancelled EXCEPT ![w] = FALSE]
      /\ dropping' = [dropping EXCEPT ![w] = IF t \in listening[w] THEN @ \cup {t} ELSE @]
      /\ pc' = [pc EXCEPT ![w] = "claim"]
      /\ UNCHANGED <<clock, client, connected, listening, hints, wake, history>>
  BY <1>1 DEF ControlInv, TypeOK, Finish, Goto, Claim, Completion
<1>3. rows[t] \in Row /\ Completed(rows[t], c) \in Row
  <2>1. rows[t] \in Row
    BY <1>2
  <2>. QED  BY <1>2, <2>1, RowTypes
<1>4. TypeOK'
  <2>1. /\ job \in [Workers -> Claim \cup {None}] /\ cancelled \in [Workers -> BOOLEAN]
        /\ dropping \in [Workers -> SUBSET Tasks]
        /\ pc \in [Workers -> {"claim", "none", "idle", "listen", "check", "run"}]
    BY DEF ControlInv, TypeOK
  <2>2. /\ rows' \in [Tasks -> Row] /\ job' \in [Workers -> Claim \cup {None}]
        /\ cancelled' \in [Workers -> BOOLEAN] /\ dropping' \in [Workers -> SUBSET Tasks]
        /\ pc' \in [Workers -> {"claim", "none", "idle", "listen", "check", "run"}]
    BY <1>2, <1>3, <2>1
  <2>3. \A v \in Workers : /\ pc'[v] \in {"listen", "check", "run"} => job'[v] \in Claim
                           /\ cancelled'[v] => pc'[v] = "run"
    BY <1>2, <2>1 DEF ControlInv, TypeOK
  <2>. QED  BY <1>2, <2>2, <2>3 DEF ControlInv, TypeOK, history
<1>5. \A u \in Tasks : Moves(u)
  <2>1. \/ Completed(rows[t], c) = rows[t]
        \/ /\ rows[t].status = "running"
           /\ Completed(rows[t], c).status \in Terminal
           /\ Completed(rows[t], c).createdAt = rows[t].createdAt
           /\ Completed(rows[t], c).cancel = rows[t].cancel
    BY <1>2, <1>3, CompletedKeeps DEF Completion
  <2>2. Moves(t)
    BY <1>2, <2>1 DEF Moves, Terminal
  <2>3. \A u \in Tasks : u # t => Moves(u)
    BY <1>2 DEF Moves
  <2>. QED  BY <2>2, <2>3
<1>6. \A v \in Workers : cancelled'[v] => cancelled[v] /\ job'[v] = job[v]
  <2>1. cancelled \in [Workers -> BOOLEAN] /\ job \in [Workers -> Claim \cup {None}]
    BY DEF ControlInv, TypeOK
  <2>. QED  BY <1>2, <2>1
<1>. QED
  BY <1>2, <1>4, <1>5, <1>6, TableStep DEF history

\* The three ways in which a worker reports an outcome.
Reports(w, o) ==
    /\ Finish(w, o)
    /\ \/ o \in {"completed", "failed"}
       \/ o = "cancelled" /\ (cancelled[w] \/ rows[job[w].task].cancel)

\* A job is in hand, and "cancelled" is reported only of one that was asked for.
LEMMA ReportsWhat ==
    ASSUME ControlInv, NEW w \in Workers,
           \/ SubscribeFails(w)
           \/ CheckCancel(w) /\ rows[job[w].task].cancel
           \/ \E o \in {"completed", "failed"} : End(w, o)
    PROVE  \E o \in Terminal : job[w] \in Claim /\ Reports(w, o)
<1>1. job[w] \in Claim
  BY DEF ControlInv, TypeOK, SubscribeFails, CheckCancel, End
<1>2. CASE SubscribeFails(w)
  BY <1>1, <1>2 DEF SubscribeFails, Reports, Terminal
<1>3. CASE CheckCancel(w) /\ rows[job[w].task].cancel
  BY <1>1, <1>3 DEF CheckCancel, Reports, Terminal
<1>4. ASSUME NEW o \in {"completed", "failed"}, End(w, o)
      PROVE  \E p \in Terminal : job[w] \in Claim /\ Reports(w, p)
  <2>1. CASE cancelled[w]
    BY <1>1, <1>4, <2>1 DEF End, Reports, Terminal
  <2>2. CASE ~cancelled[w]
    BY <1>1, <1>4, <2>2 DEF End, Reports, Terminal
  <2>. QED  BY <2>1, <2>2
<1>. QED  BY <1>2, <1>3, <1>4

\* What a worker does is a claim, a report, or neither.
LEMMA WorkerCases ==
    ASSUME NEW w \in Workers,
           \/ ListenerStep(w) \/ Progress(w)
           \/ SubscribeFails(w) \/ Hint(w) \/ Poll(w)
    PROVE  \/ ListenerStep(w)
           \/ ClaimOldest(w)
           \/ \/ ClaimNone(w) \/ Wait(w) \/ IdleEnds(w) \/ Subscribe(w)
              \/ CheckCancel(w) /\ ~rows[job[w].task].cancel
              \/ Hint(w) \/ Poll(w)
           \/ \/ SubscribeFails(w)
              \/ CheckCancel(w) /\ rows[job[w].task].cancel
              \/ \E o \in {"completed", "failed"} : End(w, o)
BY DEF Progress

LEMMA WorkerStepInv ==
    ASSUME ControlInv, NEW w \in Workers,
           \/ ListenerStep(w) \/ Progress(w)
           \/ SubscribeFails(w) \/ Hint(w) \/ Poll(w)
    PROVE  ControlInv'
<1>1. CASE \/ SubscribeFails(w)
           \/ CheckCancel(w) /\ rows[job[w].task].cancel
           \/ \E o \in {"completed", "failed"} : End(w, o)
  <2>1. PICK o \in Terminal : job[w] \in Claim /\ Finish(w, o)
    BY <1>1, ReportsWhat DEF Reports
  <2>. QED  BY <2>1, FinishInv
<1>. QED
  BY <1>1, ListenerStepInv, ClaimOldestInv, WorkerMovesInv, WorkerCases
-----------------------------------------------------------------------------
LEMMA ControlInit == Init => ControlInv
<1>. SUFFICES ASSUME Init  PROVE ControlInv
  OBVIOUS
<1>1. NoRow \in Row /\ NoRow.createdAt = 0 /\ NoRow.status = "absent" /\ ~NoRow.cancel
  BY DEF NoRow, Row, Status
<1>2. Ready \in Command /\ Ready.at = "ready"
  BY DEF Ready, Command
<1>3. TypeOK
  BY <1>1, <1>2 DEF Init, TypeOK
<1>4. RequestAcknowledged /\ StampsPast /\ MarksRequested
  BY <1>1 DEF Init, RequestAcknowledged, StampsPast, MarksRequested
<1>5. LooksTrue
  BY <1>2 DEF Init, LooksTrue
<1>. QED  BY <1>3, <1>4, <1>5 DEF ControlInv

LEMMA ControlStutter == ControlInv /\ UNCHANGED vars => ControlInv'
BY DEF ControlInv, TypeOK, RequestAcknowledged, StampsPast, LooksTrue, MarksRequested, Shown, vars

LEMMA ControlStep == ControlInv /\ [Next]_vars => ControlInv'
BY CommandStepInv, WorkerStepInv, ControlStutter DEF Next

\* An accepted request to cancel leaves its mark, whatever happens to the row between
\* the two halves of request_cancel.sql and whichever hints are lost (cancel.go,
\* request_cancel.sql, task.go): in every reachable state the incarnation it asked
\* about is gone, has ended or carries the request.
THEOREM RequestsLeaveTheirMark == Spec => []ControlInv
<1>. QED  BY ControlInit, ControlStep, PTL DEF Spec

\* A request is never forgotten.
LEMMA GrantedGrows == [Next]_vars => granted \subseteq granted'
BY DEF Next, CommandStep, ListenerStep, Progress, EnqueueInsert, CancelRead, RemoveRead,
       EnqueueWake, EnqueueWakeFails, CancelWrite, CancelNotify, CancelConfirm, RemoveDelete,
       GiveUp, Disconnect, Reconnect, DropHint, Unlisten, ClaimOldest, ClaimNone, Wait,
       IdleEnds, Subscribe, SubscribeFails, CheckCancel, Hint, Poll, End, Finish, history, vars

\* A row becomes cancelled in the hands of a command whose request is accepted, or of a
\* worker that has seen one for the task.
LEMMA CancelledStep ==
    ASSUME ControlInv, CancelledWasRequested, [Next]_vars
    PROVE  CancelledWasRequested'
<1>. SUFFICES ASSUME NEW t \in Tasks, rows'[t].status = "cancelled"
              PROVE  Asked(t)'
  BY DEF CancelledWasRequested, Asked
<1>1. Asked(t) => Asked(t)'
  BY GrantedGrows DEF Asked
<1>2. rows \in [Tasks -> Row] /\ rows[t] \in Row
  BY DEF ControlInv, TypeOK
<1>3. CASE rows'[t] = rows[t]
  BY <1>1, <1>3 DEF CancelledWasRequested, Asked
<1>4. ASSUME rows'[t] # rows[t], NEW c \in Clients, CommandStep(c)
      PROVE  Asked(t)'
  <2>1. ASSUME NEW u \in Tasks, EnqueueInsert(c, u)  PROVE FALSE
    BY <1>2, <1>4, <2>1 DEF EnqueueInsert, Inserted, NoRow
  <2>2. CASE RemoveDelete(c)
    BY <1>2, <1>4, <2>2 DEF RemoveDelete, NoRow
  <2>3. CASE CancelWrite(c)
    <3>1. PICK look : look = client[c]
      OBVIOUS
    <3>2. /\ t = look.task /\ rows[t].createdAt = look.createdAt
          /\ rows'[t] = CancelApplied(rows[t])
      BY <1>2, <1>4, <2>3, <3>1 DEF CancelWrite, CancelWritten
    <3>3. rows[t].status = "pending"
      BY <1>2, <1>4, <3>2 DEF CancelApplied, Row
    <3>4. look.seen \in {"pending", "running"}
      BY <2>3, <3>1, <3>2, <3>3 DEF CancelWrite, ControlInv, LooksTrue, Shown, Status, Terminal
    <3>5. [task |-> t, createdAt |-> look.createdAt] \in granted'
      BY <2>3, <3>1, <3>2, <3>4 DEF CancelWrite
    <3>. QED  BY <3>5 DEF Asked
  <2>4. CASE UNCHANGED store
    BY <1>4, <2>4 DEF store
  <2>. QED
    BY <1>4, <2>1, <2>2, <2>3, <2>4
       DEF CommandStep, CancelRead, RemoveRead, EnqueueWake, EnqueueWakeFails, CancelNotify,
           CancelConfirm, GiveUp
<1>5. ASSUME rows'[t] # rows[t], NEW w \in Workers,
             \/ ListenerStep(w) \/ Progress(w) \/ SubscribeFails(w) \/ Hint(w) \/ Poll(w)
      PROVE  Asked(t)'
  <2>1. CASE ClaimOldest(w)
    <3>1. PICK u \in Tasks : \E claim : rows' = [rows EXCEPT ![u] = Claimed(@, claim)]
      BY <2>1 DEF ClaimOldest, Pending
    <3>2. rows'[t].status = "running"
      BY <1>2, <1>5, <3>1 DEF Claimed, Row
    <3>. QED  BY <3>2
  <2>2. CASE \/ SubscribeFails(w)
             \/ CheckCancel(w) /\ rows[job[w].task].cancel
             \/ \E o \in {"completed", "failed"} : End(w, o)
    <3>1. PICK o \in Terminal : job[w] \in Claim /\ Reports(w, o)
      BY <2>2, ReportsWhat
    <3>2. PICK c : c = [claim |-> job[w], status |-> o]
      OBVIOUS
    <3>3. t = job[w].task /\ rows'[t] = Completed(rows[t], c)
      BY <1>2, <1>5, <3>1, <3>2 DEF Reports, Finish
    <3>4. c \in Completion /\ c.status = o
      BY <3>1, <3>2 DEF Completion
    <3>5. o = "cancelled"
      BY <1>2, <1>5, <3>3, <3>4, CompletedKeeps
    <3>6. cancelled[w] \/ rows[t].cancel
      BY <3>1, <3>3, <3>5 DEF Reports
    <3>. QED  BY <1>1, <3>3, <3>6 DEF ControlInv, MarksRequested, Asked
  <2>3. CASE UNCHANGED store
    BY <1>5, <2>3 DEF store
  <2>. QED
    BY <1>5, <2>1, <2>2, <2>3, WorkerCases
       DEF ListenerStep, Disconnect, Reconnect, DropHint, Unlisten, ClaimNone, Wait, IdleEnds,
           Subscribe, CheckCancel, Hint, Poll
<1>. QED  BY <1>3, <1>4, <1>5 DEF Next, vars

\* Nobody is cancelled whom nobody asked to cancel, with channels that are still heard
\* after their task (notifier.go), queues that drop events and task IDs that are used
\* again: every cancelled row has a granted request for its task.
THEOREM OnlyRequestedAreCancelled == Spec => []CancelledWasRequested
<1>1. Init => CancelledWasRequested
  BY DEF Init, CancelledWasRequested, NoRow
<1>2. ControlInv /\ CancelledWasRequested /\ [Next]_vars => CancelledWasRequested'
  BY CancelledStep
<1>. QED  BY <1>1, <1>2, RequestsLeaveTheirMark, PTL DEF Spec
=============================================================================
