---------------------------- MODULE ProcessGroup ----------------------------
(***************************************************************************)
(* taskexec.Run: a shell and its children as one process group, told to     *)
(* stop with SIGINT and, after a grace period, with SIGKILL.  A runtime     *)
(* wrapper (`nextask _run`) is the shell of its level and makes the call of *)
(* the next level, whose group is another one; after that call it may run a *)
(* bounded final pass.  Level 1 is called by the worker, the shell of the   *)
(* last level runs the payload.  Time passes in ticks.                      *)
(***************************************************************************)
EXTENDS Integers

CONSTANTS
    N,          \* levels: 1 + the number of wrappers
    Final,      \* Final[i]: ticks of the final pass after the call of level i, 0 for none
    OnFinalError, \* "fail" or "warn"
    StopTimeout, Extra, \* ticks of StopTimeout, and those added when a cleanup is declared
    Lag,        \* ticks within which a wrapper acts on SIGINT
    MayEscape   \* a child of the payload may leave the group and keep the pipe open

Levels == 1..N

ASSUME GroupAssumption ==
    /\ N \in Nat \ {0}
    /\ Final \in [Levels -> Nat] /\ Final[1] = 0
    /\ OnFinalError \in {"fail", "warn"}
    /\ StopTimeout \in Nat \ {0} /\ Extra \in Nat /\ Lag \in Nat
    /\ MayEscape \in BOOLEAN

VARIABLES
    ctx,    \* the context of the call of a level has ended
    run,    \* where that call is
    sup,    \* its goroutine that signals the group
    left,   \* ticks left of its grace period
    shell,  \* the first process of the group
    code,   \* how the shell, and then the call, ended
    notice, \* ticks left until a wrapper acts on a SIGINT; NoSignal if there is none
    final,  \* the final pass after the call: [at, left]
    kids,   \* background children of the payload in its group
    away    \* a child of the payload that left the group

vars == <<ctx, run, sup, left, shell, code, notice, final, kids, away>>

NoSignal == Lag + 1

\* Prepare wraps from the inside out: every wrapper adds its own final pass to
\* the cleanup of the command it is given.
Cleanups[k \in 0..N - 1] == IF k = 0 THEN 0 ELSE Cleanups[k - 1] + Final[N - k + 1]
Cleanup(i) == Cleanups[N - i]

\* The declared cleanup is not part of the grace period.
Grace_faulty(i) == StopTimeout

Grace(i) == StopTimeout + Cleanup(i) + (IF Cleanup(i) > 0 THEN Extra ELSE 0)

TypeOK ==
    /\ ctx \in [Levels -> BOOLEAN]
    /\ run \in [Levels -> {"idle", "wait", "children", "closing", "returned", "lost"}]
    /\ sup \in [Levels -> {"off", "watch", "grace", "stopped"}]
    /\ left \in [Levels -> Nat] /\ \A i \in Levels : left[i] <= Grace(i)
    /\ shell \in [Levels -> {"none", "alive", "gone"}]
    /\ code \in [Levels -> {"none", "ok", "fail", "signal"}]
    /\ notice \in [Levels -> 0..NoSignal]
    /\ final \in [Levels -> [at : {"none", "running", "ok", "failed", "skipped", "killed"}, left : Nat]]
    /\ \A i \in Levels : final[i].left <= Final[i]
    /\ kids \in {"none", "alive", "zombie"}
    /\ away \in {"none", "alive"}

Init ==
    /\ ctx = [i \in Levels |-> FALSE]
    /\ run = [i \in Levels |-> "idle"]
    /\ sup = [i \in Levels |-> "off"]
    /\ left = [i \in Levels |-> 0]
    /\ shell = [i \in Levels |-> "none"]
    /\ code = [i \in Levels |-> "none"]
    /\ notice = [i \in Levels |-> NoSignal]
    /\ final = [i \in Levels |-> [at |-> "none", left |-> 0]]
    /\ kids = "none" /\ away = "none"

\* The caller of a level is the worker or the wrapper that is the shell above it.
CallerAlive(i) == IF i = 1 THEN TRUE ELSE shell[i - 1] = "alive"
\* kill(-pid, 0) also counts a zombie.
GroupThere(i) == shell[i] = "alive" \/ (i = N /\ kids # "none")
PipeOpen(i) == shell[i] = "alive" \/ (i = N /\ (kids = "alive" \/ away = "alive"))
-----------------------------------------------------------------------------
(* The call of a level.                                                    *)

Start(i) ==
    /\ run[i] = "idle" /\ CallerAlive(i)
    /\ IF ctx[i]
       THEN /\ run' = [run EXCEPT ![i] = "returned"]
            /\ code' = [code EXCEPT ![i] = "signal"]
            /\ UNCHANGED <<sup, shell>>
       ELSE /\ run' = [run EXCEPT ![i] = "wait"]
            /\ sup' = [sup EXCEPT ![i] = "watch"]
            /\ shell' = [shell EXCEPT ![i] = "alive"]
            /\ UNCHANGED code
    /\ UNCHANGED <<ctx, left, notice, final, kids, away>>

\* A wrapper that cannot resolve its options or restore its snapshot makes no call.
SetupFails(i) ==
    /\ i > 1 /\ run[i] = "idle" /\ CallerAlive(i)
    /\ run' = [run EXCEPT ![i] = "returned"]
    /\ code' = [code EXCEPT ![i] = "fail"]
    /\ final' = [final EXCEPT ![i].at = "skipped"]
    /\ UNCHANGED <<ctx, sup, left, shell, notice, kids, away>>

\* The shell is waited for, not its children.
WaitReturns_faulty(i) ==
    /\ run[i] = "wait" /\ shell[i] = "gone"
    /\ run' = [run EXCEPT ![i] = "closing"]
    /\ UNCHANGED <<ctx, sup, left, shell, code, notice, final, kids, away>>

\* cmd.Wait: the shell has ended and the copies of its output have met the end of the pipe.
WaitReturns(i) ==
    /\ run[i] = "wait" /\ shell[i] = "gone" /\ ~PipeOpen(i)
    /\ run' = [run EXCEPT ![i] = "children"]
    /\ UNCHANGED <<ctx, sup, left, shell, code, notice, final, kids, away>>

\* A group that is still there is never given up.
ChildrenGone_faulty(i) ==
    /\ run[i] = "children" /\ ~GroupThere(i) /\ (i = N => kids = "none" /\ away = "none")
    /\ run' = [run EXCEPT ![i] = "closing"]
    /\ UNCHANGED <<ctx, sup, left, shell, code, notice, final, kids, away>>

ChildrenGone(i) ==
    /\ run[i] = "children"
    /\ ~GroupThere(i) \/ sup[i] = "stopped"
    /\ run' = [run EXCEPT ![i] = "closing"]
    /\ UNCHANGED <<ctx, sup, left, shell, code, notice, final, kids, away>>

\* A shell that exits with 0 although it was told to stop has not succeeded.
Return(i) ==
    /\ run[i] = "closing" /\ sup[i] = "stopped"
    /\ run' = [run EXCEPT ![i] = "returned"]
    /\ code' = IF ctx[i] /\ code[i] = "ok" THEN [code EXCEPT ![i] = "signal"] ELSE code
    /\ UNCHANGED <<ctx, sup, left, shell, notice, final, kids, away>>
-----------------------------------------------------------------------------
(* Its goroutine.                                                          *)

Interrupt(i) ==
    /\ sup[i] = "watch" /\ ctx[i]
    /\ sup' = [sup EXCEPT ![i] = "grace"]
    /\ left' = [left EXCEPT ![i] = Grace(i)]
    /\ notice' = IF i < N /\ shell[i] = "alive" THEN [notice EXCEPT ![i] = Lag] ELSE notice
    /\ UNCHANGED <<ctx, run, shell, code, final, kids, away>>

\* With a wrapper its goroutines are gone; the group of the next level is not touched.
Kill(i) ==
    /\ sup[i] = "grace" /\ left[i] = 0
    /\ shell' = [shell EXCEPT ![i] = "gone"]
    /\ code' = IF shell[i] = "alive" THEN [code EXCEPT ![i] = "signal"] ELSE code
    /\ IF i < N /\ shell[i] = "alive"
       THEN /\ run' = [run EXCEPT ![i + 1] = IF @ = "returned" THEN @ ELSE "lost"]
            /\ sup' = [sup EXCEPT ![i] = "stopped", ![i + 1] = "off"]
            /\ final' = [final EXCEPT ![i + 1].at = IF @ = "running" THEN "killed" ELSE @]
       ELSE /\ sup' = [sup EXCEPT ![i] = "stopped"]
            /\ UNCHANGED <<run, final>>
    /\ kids' = IF i = N /\ kids = "alive" THEN "zombie" ELSE kids
    /\ UNCHANGED <<ctx, left, notice, away>>

Done(i) ==
    /\ run[i] = "closing" /\ sup[i] \in {"watch", "grace"}
    /\ sup' = [sup EXCEPT ![i] = "stopped"]
    /\ UNCHANGED <<ctx, run, left, shell, code, notice, final, kids, away>>
-----------------------------------------------------------------------------
(* A wrapper, the shell of level i, which makes the call of level i + 1.   *)

Notice(i) ==
    /\ i < N /\ notice[i] # NoSignal /\ shell[i] = "alive"
    /\ ctx' = [ctx EXCEPT ![i + 1] = TRUE]
    /\ notice' = [notice EXCEPT ![i] = NoSignal]
    /\ UNCHANGED <<run, sup, left, shell, code, final, kids, away>>

\* Before it has installed its handler SIGINT ends it.
DieEarly(i) ==
    /\ i < N /\ notice[i] # NoSignal /\ shell[i] = "alive" /\ run[i + 1] = "idle"
    /\ shell' = [shell EXCEPT ![i] = "gone"]
    /\ code' = [code EXCEPT ![i] = "signal"]
    /\ UNCHANGED <<ctx, run, sup, left, notice, final, kids, away>>

StartFinal(i) ==
    /\ run[i] = "returned" /\ CallerAlive(i) /\ Final[i] > 0 /\ final[i].at = "none"
    /\ final' = [final EXCEPT ![i] = [at |-> "running", left |-> Final[i]]]
    /\ UNCHANGED <<ctx, run, sup, left, shell, code, notice, kids, away>>

\* The deadline of the pass is its own, whatever the context of the call.
EndFinal(i) ==
    /\ final[i].at = "running"
    /\ \E r \in (IF final[i].left > 0 THEN {"ok", "failed"} ELSE {"failed"}) :
         final' = [final EXCEPT ![i].at = r]
    /\ UNCHANGED <<ctx, run, sup, left, shell, code, notice, kids, away>>

FinalDone(i) == Final[i] = 0 \/ final[i].at \in {"ok", "failed", "skipped"}

\* A failed final pass is only logged.
WrapperCode_faulty(i) == IF code[i + 1] = "ok" THEN "ok" ELSE "fail"

WrapperCode(i) ==
    IF code[i + 1] = "ok" /\ ~(final[i + 1].at = "failed" /\ OnFinalError = "fail") THEN "ok" ELSE "fail"

WrapperExits(i) ==
    /\ i < N /\ shell[i] = "alive" /\ run[i + 1] = "returned" /\ FinalDone(i + 1)
    /\ shell' = [shell EXCEPT ![i] = "gone"]
    /\ code' = [code EXCEPT ![i] = WrapperCode(i)]
    /\ UNCHANGED <<ctx, run, sup, left, notice, final, kids, away>>
-----------------------------------------------------------------------------
(* The payload, which may ignore SIGINT, and its children.                 *)

PayloadExits ==
    /\ shell[N] = "alive"
    /\ shell' = [shell EXCEPT ![N] = "gone"]
    /\ code' \in {[code EXCEPT ![N] = c] : c \in {"ok", "fail"}}
    /\ UNCHANGED <<ctx, run, sup, left, notice, final, kids, away>>

Fork ==
    /\ shell[N] = "alive"
    /\ \/ kids = "none" /\ kids' = "alive" /\ UNCHANGED away
       \/ MayEscape /\ away' = "alive" /\ UNCHANGED kids
    /\ UNCHANGED <<ctx, run, sup, left, shell, code, notice, final>>

KidExits ==
    /\ kids = "alive" /\ kids' = "zombie"
    /\ UNCHANGED <<ctx, run, sup, left, shell, code, notice, final, away>>

Reap ==
    /\ kids = "zombie" /\ kids' = "none"
    /\ UNCHANGED <<ctx, run, sup, left, shell, code, notice, final, away>>

\* The task is cancelled or the worker stops.
Cancel ==
    /\ ~ctx[1] /\ run[1] # "returned"
    /\ ctx' = [ctx EXCEPT ![1] = TRUE]
    /\ UNCHANGED <<run, sup, left, shell, code, notice, final, kids, away>>
-----------------------------------------------------------------------------
(* Time passes once everything that does not take time has happened.       *)

Urgent(i) ==
    \/ run[i] = "wait" /\ shell[i] = "gone" /\ ~PipeOpen(i)
    \/ run[i] \in {"children", "closing"} /\ CallerAlive(i) /\ (GroupThere(i) => sup[i] = "stopped")
    \/ sup[i] = "watch" /\ ctx[i]
    \/ sup[i] = "grace" /\ left[i] = 0
    \/ i < N /\ notice[i] = 0 /\ shell[i] = "alive"
    \/ i > 1 /\ run[i] = "idle" /\ CallerAlive(i) /\ ctx[i]
    \/ i > 1 /\ run[i] = "returned" /\ CallerAlive(i) /\ (final[i].at = "running" => final[i].left = 0)

Tick ==
    /\ ~\E i \in Levels : Urgent(i)
    /\ left' = [i \in Levels |-> IF sup[i] = "grace" THEN left[i] - 1 ELSE left[i]]
    /\ notice' = [i \in Levels |-> IF notice[i] \in 1..Lag THEN notice[i] - 1 ELSE notice[i]]
    /\ final' = [i \in Levels |-> IF final[i].at = "running" THEN [final[i] EXCEPT !.left = @ - 1] ELSE final[i]]
    /\ UNCHANGED <<ctx, run, sup, shell, code, kids, away>>

Call(i) == Start(i) \/ WaitReturns(i) \/ ChildrenGone(i) \/ Return(i) \/ Interrupt(i) \/ Kill(i) \/ Done(i)
Wrapper(i) == Notice(i) \/ StartFinal(i) \/ EndFinal(i) \/ WrapperExits(i)

Next ==
    \/ \E i \in Levels : Call(i) \/ Wrapper(i) \/ SetupFails(i) \/ DieEarly(i)
    \/ PayloadExits \/ Fork \/ KidExits \/ Reap \/ Cancel \/ Tick

Spec == Init /\ [][Next]_vars

\* The program is scheduled and the clock runs; the payload and PID 1 owe nothing.
FairSpec ==
    /\ Spec
    /\ \A i \in Levels : WF_vars(Call(i)) /\ WF_vars(Wrapper(i))
    /\ WF_vars(Tick)
-----------------------------------------------------------------------------
(* Properties.                                                             *)

InCall(i) == run[i] \in {"wait", "children", "closing"}

\* A call goes on while its caller is there, its goroutine has stopped only when its
\* shell is gone, and what can still write is waited for (Run).
CallsRight ==
    /\ \A i \in Levels :
         /\ run[i] = "idle" => shell[i] = "none" /\ code[i] = "none" /\ sup[i] = "off"
         /\ InCall(i) => CallerAlive(i) /\ sup[i] # "off" /\ shell[i] # "none"
         /\ sup[i] \in {"watch", "grace"} => InCall(i)
         /\ run[i] \in {"children", "closing", "returned"} \/ sup[i] = "stopped" => shell[i] # "alive"
         /\ run[i] = "closing" /\ sup[i] # "stopped" => ~GroupThere(i)
         /\ run[i] = "lost" => i > 1 /\ shell[i - 1] = "gone"
         /\ sup[i] = "grace" => ctx[i]
         /\ shell[i] = "alive" => code[i] = "none"
    /\ run[N] \in {"idle", "children", "closing", "returned"} \/ sup[N] = "stopped" => kids # "alive"
    /\ run[N] = "idle" => kids = "none"
    /\ away = "alive" => MayEscape

\* A final pass is made by a wrapper that is there, after its call.
PassesRight ==
    \A i \in Levels :
      /\ final[i].at # "none" => run[i] = "returned"
      /\ final[i].at \in {"running", "ok", "failed", "killed"} => Final[i] > 0
      /\ final[i].at = "running" => CallerAlive(i)

\* The success of a level is that of the levels below, whose final passes are done.
SuccessPassedOn ==
    \A i \in Levels : code[i] = "ok" =>
      /\ \A j \in i..N : code[j] = "ok"
      /\ \A j \in (i + 1)..N : /\ run[j] = "returned" /\ FinalDone(j)
                               /\ OnFinalError = "fail" => final[j].at # "failed"

\* Success means that the payload succeeded, was not told to stop, and that a final
\* pass whose failure counts did not fail.
SuccessIsWhole ==
    run[1] = "returned" /\ code[1] = "ok"
    => ~ctx[1] /\ code[N] = "ok" /\ (OnFinalError = "fail" => \A i \in Levels : final[i].at # "failed")

GroupInv == TypeOK /\ CallsRight /\ PassesRight /\ SuccessPassedOn /\ SuccessIsWhole

\* The grace period covers the cleanup it was extended for: the final pass of a
\* wrapper is not killed, though the payload ignores SIGINT.
FinalPassKept == \A i \in Levels : final[i].at # "killed"

\* The time since the group of a level was told to stop, and the most that its call can
\* take: each wrapper below it reacts, the payload is killed, and the final passes are made.
Spent(i) == Grace(i) - left[i]
Bound(i) == StopTimeout + Cleanup(i) + (N - i) * Lag

\* How far the level below is, which the wrapper waits for.
Since(i) ==
    IF final[i].at = "none" THEN Bound(i)
    ELSE Bound(i) + Final[i] - (IF final[i].at = "running" THEN final[i].left ELSE 0)

OnTime ==
    \A i \in Levels : sup[i] = "grace" =>
      /\ Spent(i) <= Bound(i)
      /\ i < N /\ shell[i] = "alive" =>
           IF notice[i] # NoSignal THEN Spent(i) + notice[i] <= Lag
           ELSE /\ ctx[i + 1]
                /\ run[i + 1] = "idle" \/ sup[i + 1] = "watch" => Spent(i) <= Lag
                /\ sup[i + 1] = "grace" => Spent(i) <= Lag + Spent(i + 1)
                /\ Spent(i) <= Lag + Since(i + 1)

\* A shell is alive only below shells that are.
Nested == \A i, j \in Levels : i < j /\ shell[j] = "alive" => shell[i] = "alive"

\* When the worker's call has returned, no process of the task is left that could
\* write files: not the shell, its children, a wrapper or the payload below it.
NothingSurvives ==
    run[1] = "returned" => kids # "alive" /\ \A i \in Levels : shell[i] # "alive"

\* Cancellation ends the call, whatever the payload does and though nothing reaps zombies.
CancelEnds == ctx[1] ~> run[1] = "returned"
=============================================================================
