---------------------------- MODULE ArtifactSync ----------------------------
(***************************************************************************)
(* Upload of selected files while a payload still writes them: periodic     *)
(* passes, then one final pass, each with a few goroutines that stat, open, *)
(* stage, compare and put one file at a time.  The content of a file is the *)
(* versions of its two halves; a writer in place changes the first, then    *)
(* the second, so equal contents stand for equal size and mtime.            *)
(***************************************************************************)
EXTENDS Naturals, FiniteSets

CONSTANTS
    Files, Kind,           \* Kind[f]: "file", "big", "link" or "special"
    Include, FinalInclude, \* names matched by include, and by final_include alone
    Uploaders,             \* the goroutines of a pass
    LinkPolicy,            \* symlinks: "skip" or "error"
    MinAge,                \* min_age is set
    NoFile,
    MaxVersion, MaxFaults  \* bounds: versions of a file, failed requests

SyncAssumption ==
    /\ Kind \in [Files -> {"file", "big", "link", "special"}]
    /\ Include \subseteq Files /\ FinalInclude \subseteq Files
    /\ IsFiniteSet(Uploaders) /\ Uploaders # {}
    /\ LinkPolicy \in {"skip", "error"} /\ MinAge \in BOOLEAN
    /\ MaxVersion \in Nat /\ MaxFaults \in Nat

VARIABLES
    file,     \* the task directory: [there, head, tail, born, aged]
    payload,  \* "running" or "ended"
    pass,     \* the pass: [at, kind, todo, failed, live]
    timer,    \* the goroutine of the periodic passes: "waiting", "syncing" or "ended"
    job,      \* what an uploader does: [at, name, before, staged]
    object,   \* the stored objects: [head, tail], or NoFile
    outcome,  \* how the final pass ended: "none", "ok" or "failed"
    lost      \* failed requests

vars == <<file, payload, pass, timer, job, object, outcome, lost>>

Versions == 0..MaxVersion
Content == [head : Versions, tail : Versions]
ContentOf(f) == [head |-> file[f].head, tail |-> file[f].tail]
\* What os.SameFile, the size and the mtime tell of a file.
Info(f) == [born |-> file[f].born, head |-> file[f].head, tail |-> file[f].tail]
IdleJob == [at |-> "idle", name |-> NoFile, before |-> NoFile, staged |-> NoFile]
NoPass == [at |-> "off", kind |-> "periodic", todo |-> {}, failed |-> FALSE, live |-> TRUE]

Job == [at : {"idle", "lstat", "open", "read", "check", "stat", "put"}, name : Files \cup {NoFile},
        before : [born : Versions, head : Versions, tail : Versions] \cup {NoFile},
        staged : Content \cup {NoFile}]

TypeOK ==
    /\ file \in [Files -> [there : BOOLEAN, head : Versions, tail : Versions, born : Versions, aged : BOOLEAN]]
    /\ payload \in {"running", "ended"}
    /\ pass \in [at : {"off", "walk", "drain"}, kind : {"periodic", "final"}, todo : SUBSET Files,
                 failed : BOOLEAN, live : BOOLEAN]
    /\ timer \in {"waiting", "syncing", "ended"}
    /\ job \in [Uploaders -> Job]
    /\ object \in [Files -> Content \cup {NoFile}]
    /\ outcome \in {"none", "ok", "failed"}
    /\ lost \in 0..MaxFaults
    /\ pass.at = "off" => \A u \in Uploaders : job[u].at = "idle"

Init ==
    /\ file = [f \in Files |-> [there |-> FALSE, head |-> 0, tail |-> 0, born |-> 0, aged |-> FALSE]]
    /\ payload = "running"
    /\ pass = NoPass /\ timer = "waiting"
    /\ job = [u \in Uploaders |-> IdleJob]
    /\ object = [f \in Files |-> NoFile]
    /\ outcome = "none" /\ lost = 0
-----------------------------------------------------------------------------
(* The payload.                                                            *)

Running == payload = "running" /\ UNCHANGED <<payload, pass, timer, job, object, outcome, lost>>

\* A file appears, or is replaced by another one, with a whole content.
Publish(f) ==
    /\ Running
    /\ file[f].head < MaxVersion
    /\ LET v == file[f].head + 1
       IN file' = [file EXCEPT ![f] = [there |-> TRUE, head |-> v, tail |-> v, born |-> v, aged |-> FALSE]]

WriteHead(f) ==
    /\ Running
    /\ file[f].there /\ file[f].head = file[f].tail /\ file[f].head < MaxVersion
    /\ file' = [file EXCEPT ![f].head = @ + 1, ![f].aged = FALSE]

WriteTail(f) ==
    /\ Running
    /\ file[f].there /\ file[f].head > file[f].tail
    /\ file' = [file EXCEPT ![f].tail = file[f].head, ![f].aged = FALSE]

Unlink(f) ==
    /\ Running
    /\ file[f].there /\ file[f].head = file[f].tail
    /\ file' = [file EXCEPT ![f].there = FALSE]

Age(f) ==
    /\ MinAge /\ file[f].there /\ ~file[f].aged
    /\ file' = [file EXCEPT ![f].aged = TRUE]
    /\ UNCHANGED <<payload, pass, timer, job, object, outcome, lost>>

\* The command has returned: periodic passes are cancelled.
Ends ==
    /\ payload = "running"
    /\ payload' = "ended"
    /\ pass' = IF pass.at = "off" THEN pass ELSE [pass EXCEPT !.live = FALSE]
    /\ UNCHANGED <<file, timer, job, object, outcome, lost>>
-----------------------------------------------------------------------------
(* A pass.                                                                 *)

Scan(kind) == [at |-> "walk", kind |-> kind, todo |-> Files, failed |-> FALSE, live |-> TRUE]

StartPeriodic ==
    /\ timer = "waiting" /\ payload = "running" /\ Include # {}
    /\ timer' = "syncing"
    /\ pass' = Scan("periodic")
    /\ UNCHANGED <<file, payload, job, object, outcome, lost>>

TimerStops ==
    /\ timer = "waiting" /\ (payload = "ended" \/ Include = {})
    /\ timer' = "ended"
    /\ UNCHANGED <<file, payload, pass, job, object, outcome, lost>>

StartFinal ==
    /\ payload = "ended" /\ outcome = "none" /\ timer = "ended" /\ pass.at = "off"
    /\ pass' = Scan("final")
    /\ UNCHANGED <<file, payload, timer, job, object, outcome, lost>>

Selected(f) == f \in Include \/ (pass.kind = "final" /\ f \in FinalInclude)

\* The walk meets an entry: a selected one is handed to an uploader.
Visit(f) ==
    /\ pass.at = "walk" /\ pass.live /\ f \in pass.todo
    /\ pass' = [pass EXCEPT !.todo = @ \ {f}]
    /\ IF file[f].there /\ Selected(f)
       THEN \E u \in Uploaders : job[u].at = "idle"
                /\ job' = [job EXCEPT ![u] = [IdleJob EXCEPT !.at = "lstat", !.name = f]]
       ELSE UNCHANGED job
    /\ UNCHANGED <<file, payload, timer, object, outcome, lost>>

\* The end of the context ends the walk as an error.
EndWalk ==
    /\ pass.at = "walk" /\ (pass.todo = {} \/ ~pass.live)
    /\ pass' = [pass EXCEPT !.at = "drain", !.failed = @ \/ pass.todo # {}]
    /\ UNCHANGED <<file, payload, timer, job, object, outcome, lost>>

\* A failed pass is the last one.
EndPass_faulty ==
    /\ pass.at = "drain" /\ \A u \in Uploaders : job[u].at = "idle"
    /\ pass' = [pass EXCEPT !.at = "off"]
    /\ timer' = IF pass.kind = "final" THEN timer ELSE IF pass.failed THEN "ended" ELSE "waiting"
    /\ outcome' = IF pass.kind = "final" THEN (IF pass.failed THEN "failed" ELSE "ok") ELSE outcome
    /\ UNCHANGED <<file, payload, job, object, lost>>

EndPass ==
    /\ pass.at = "drain" /\ \A u \in Uploaders : job[u].at = "idle"
    /\ pass' = [pass EXCEPT !.at = "off"]
    /\ timer' = IF pass.kind = "final" THEN timer ELSE "waiting"
    /\ outcome' = IF pass.kind = "final" THEN (IF pass.failed THEN "failed" ELSE "ok") ELSE outcome
    /\ UNCHANGED <<file, payload, job, object, lost>>

\* The deadline of the final pass.
FinalTimeout ==
    /\ pass.at # "off" /\ pass.kind = "final" /\ pass.live
    /\ pass' = [pass EXCEPT !.live = FALSE]
    /\ UNCHANGED <<file, payload, timer, job, object, outcome, lost>>
-----------------------------------------------------------------------------
(* One file.                                                               *)

Step(u, s) == job' = [job EXCEPT ![u] = s] /\ UNCHANGED <<file, payload, timer, outcome>>
GoOn(u, s) == Step(u, s) /\ UNCHANGED <<pass, object, lost>>
Skip(u) == GoOn(u, IdleJob)
Fails(u) == Step(u, IdleJob) /\ pass' = [pass EXCEPT !.failed = TRUE] /\ UNCHANGED <<object, lost>>

\* The final pass skips young files too.
TooYoung_faulty(f) == MinAge /\ ~file[f].aged

TooYoung(f) == pass.kind # "final" /\ MinAge /\ ~file[f].aged

Lstat(u) ==
    LET f == job[u].name IN
    /\ job[u].at = "lstat"
    /\ \/ ~file[f].there /\ Fails(u)
       \/ file[f].there /\ (Kind[f] = "special" \/ (Kind[f] = "link" /\ LinkPolicy = "error")) /\ Fails(u)
       \/ file[f].there /\ (Kind[f] = "big" \/ (Kind[f] = "link" /\ LinkPolicy = "skip")) /\ Skip(u)
       \/ file[f].there /\ Kind[f] = "file" /\ TooYoung(f) /\ Skip(u)
       \/ file[f].there /\ Kind[f] = "file" /\ ~TooYoung(f)
          /\ GoOn(u, [job[u] EXCEPT !.at = "open", !.before = Info(f)])

Open(u) ==
    LET f == job[u].name IN
    /\ job[u].at = "open"
    /\ IF file[f].there /\ file[f].born = job[u].before.born
       THEN GoOn(u, [job[u] EXCEPT !.at = "read", !.staged = ContentOf(f)])
       ELSE Fails(u)

\* The open file: the one at the path, unless that was replaced or removed.
StillThere(u) == file[job[u].name].there /\ file[job[u].name].born = job[u].before.born

\* The second half is read after the first; a replaced file keeps its content.
Read(u) ==
    LET f == job[u].name IN
    /\ job[u].at = "read"
    /\ IF pass.live
       THEN GoOn(u, [job[u] EXCEPT !.at = "check",
                                   !.staged.tail = IF StillThere(u) THEN file[f].tail ELSE @])
       ELSE Fails(u)

\* Only the size is compared.
CheckUnchanged_faulty(u) ==
    /\ job[u].at = "check"
    /\ GoOn(u, [job[u] EXCEPT !.at = "stat"])

\* Size and mtime have to be those seen before the file was opened.
CheckUnchanged(u) ==
    /\ job[u].at = "check"
    /\ IF \/ StillThere(u) /\ Info(job[u].name) # job[u].before
          \/ job[u].staged # [head |-> job[u].before.head, tail |-> job[u].before.tail]
       THEN Fails(u)
       ELSE GoOn(u, [job[u] EXCEPT !.at = "stat"])

\* An object with this digest is not sent again.
StatObject(u) ==
    /\ job[u].at = "stat" /\ pass.live
    /\ IF object[job[u].name] = job[u].staged THEN Skip(u) ELSE GoOn(u, [job[u] EXCEPT !.at = "put"])

PutObject(u) ==
    /\ job[u].at = "put" /\ pass.live
    /\ Step(u, IdleJob)
    /\ object' = [object EXCEPT ![job[u].name] = job[u].staged]
    /\ UNCHANGED <<pass, lost>>

\* A request without an answer: the object may have been stored.
Unanswered(u) ==
    /\ job[u].at \in {"stat", "put"}
    /\ Step(u, IdleJob)
    /\ pass' = [pass EXCEPT !.failed = TRUE]
    /\ \/ UNCHANGED object
       \/ job[u].at = "put" /\ object' = [object EXCEPT ![job[u].name] = job[u].staged]

RequestFails(u) == pass.live /\ lost < MaxFaults /\ lost' = lost + 1 /\ Unanswered(u)

\* The context of the pass has ended.
RequestCancelled(u) == ~pass.live /\ Unanswered(u) /\ UNCHANGED lost

Upload(u) ==
    \/ Lstat(u) \/ Open(u) \/ Read(u) \/ CheckUnchanged(u)
    \/ StatObject(u) \/ PutObject(u) \/ RequestCancelled(u)

Sync == StartPeriodic \/ TimerStops \/ StartFinal \/ (\E f \in Files : Visit(f)) \/ EndWalk \/ EndPass

Next ==
    \/ \E f \in Files : Publish(f) \/ WriteHead(f) \/ WriteTail(f) \/ Unlink(f) \/ Age(f)
    \/ Ends \/ Sync \/ FinalTimeout
    \/ \E u \in Uploaders : Upload(u) \/ RequestFails(u)

Spec == Init /\ [][Next]_vars
\* The uploader is scheduled and files age; the payload may run for ever.
FairSpec ==
    /\ Spec
    /\ WF_vars(Sync) /\ \A u \in Uploaders : WF_vars(Upload(u))
    /\ \A f \in Files : WF_vars(Age(f))
-----------------------------------------------------------------------------
(* Properties.                                                             *)

\* A content that a file has at some time: its second half may be one version behind.
Whole(c) == c.head \in {c.tail, c.tail + 1}

\* Every stored object is a content the file once had, never a mixture of two.
ObjectsWhole == \A f \in Files : object[f] # NoFile => Whole(object[f])

NeverOlder ==
    \A f \in Files : object[f] # NoFile => object'[f].head + object'[f].tail >= object[f].head + object[f].tail

\* An object is never replaced by an older content.
ObjectsAdvance == [][NeverOlder]_object

\* The store has f as it is, and it is of a kind that can be stored.
Settled(f) ==
    /\ file[f].there /\ Kind[f] = "file" => object[f] = ContentOf(f)
    /\ file[f].there => Kind[f] # "special" /\ (LinkPolicy = "error" => Kind[f] # "link")

\* A final pass that reports no error has left every selected file in the store as it is.
FinalIsComplete == outcome = "ok" => \A f \in Include \cup FinalInclude : Settled(f)

\* What makes these so.  There is one pass at a time, and a file has one uploader in it.
Handles(u, f) == job[u].at # "idle" /\ job[u].name = f

PassesApart ==
    /\ pass.at # "off" => IF pass.kind = "periodic" THEN timer = "syncing"
                          ELSE payload = "ended" /\ timer = "ended" /\ outcome = "none"
    /\ pass.at = "drain" /\ ~pass.failed => pass.todo = {}
    /\ outcome # "none" => payload = "ended" /\ timer = "ended" /\ pass.at = "off"
    /\ \A u \in Uploaders : job[u].at # "idle" =>
         /\ job[u].name \in Files \ pass.todo
         /\ \A v \in Uploaders : Handles(v, job[u].name) => v = u

\* A copy is between the stored object and the file, and whole once it was compared.
NotAfter(c, d) == c.head <= d.head /\ c.tail <= d.tail

CopiesBetween ==
    /\ \A f \in Files : /\ Whole(file[f])
                        /\ object[f] # NoFile => NotAfter(object[f], file[f])
    /\ \A u \in Uploaders : LET f == job[u].name IN
         /\ job[u].at \in {"open", "read", "check", "stat", "put"} =>
              Kind[f] = "file" /\ Whole(job[u].before)
         /\ job[u].at \in {"read", "check", "stat", "put"} =>
              /\ job[u].staged \in Content /\ NotAfter(job[u].staged, file[f])
              /\ object[f] # NoFile => NotAfter(object[f], job[u].staged)
         /\ job[u].at \in {"stat", "put"} => Whole(job[u].staged)

\* Nothing changes a file during the final pass.
FinalSoFar == pass.at # "off" /\ pass.kind = "final" =>
    /\ \A u \in Uploaders : job[u].at \in {"read", "check", "stat", "put"} =>
         job[u].staged = ContentOf(job[u].name)
    /\ ~pass.failed => \A f \in Include \cup FinalInclude :
         f \in pass.todo \/ Settled(f) \/ \E u \in Uploaders : Handles(u, f)

\* The four hold together.
SyncInv == TypeOK /\ ObjectsWhole /\ PassesApart /\ CopiesBetween /\ FinalSoFar

\* While the payload runs on, the periodic passes catch up with a file that stays as it is.
PeriodicCatchesUp ==
    \A f \in Include :
        <>[](payload = "running" /\ file[f].there /\ file[f].head = MaxVersion /\ file[f].tail = MaxVersion)
        => <>(object[f] = [head |-> MaxVersion, tail |-> MaxVersion])

\* A run with a final pass ends once the payload has.
FinalEnds == payload = "ended" ~> outcome # "none"
=============================================================================
