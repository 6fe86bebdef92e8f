------------------------- MODULE MCProcesses_proofs -------------------------
(***************************************************************************)
(* Proofs about ProcessGroup and DaemonStart, as MCProcesses runs them side *)
(* by side: for any number of wrappers, any final passes and any lag, what  *)
(* is called a success is one, the final passes are not killed, and nothing *)
(* of a task is left when its call has returned.                            *)
(***************************************************************************)
EXTENDS MCProcesses, WellFoundedInduction, TLAPS

(* Induction over sets of numbers.                                         *)

LEMMA Smallest ==
    ASSUME NEW T, T \subseteq Nat, T # {}
    PROVE  \E x \in T : \A y \in T : x <= y
<1>1. PICK x \in T : \A y \in T : ~(<<y, x>> \in OpToRel(<, Nat))
  BY NatLessThanWellFounded, WFMin, Zenon
<1>2. \A y \in T : ~(y < x)
  BY <1>1, Zenon DEF OpToRel
<1>3. ASSUME NEW y \in T PROVE x <= y
  BY <1>2
<1>. QED  BY <1>3

LEMMA Induction ==
    ASSUME NEW S, 0 \in S, \A n \in Nat : n \in S => n + 1 \in S
    PROVE  Nat \subseteq S
<1>1. PICK T : T = Nat \ S
  OBVIOUS
<1>. SUFFICES ASSUME T # {} PROVE FALSE
  BY <1>1
<1>2. PICK x \in T : \A y \in T : x <= y
  BY <1>1, Smallest
<1>3. x \in Nat /\ x # 0 /\ x - 1 \in Nat /\ (x - 1) + 1 = x
  BY <1>1
<1>4. x - 1 \notin T
  BY <1>2, <1>3
<1>. QED  BY <1>1, <1>3, <1>4

LEMMA Largest ==
    ASSUME NEW n \in Nat, NEW T, T \subseteq 1..n, T # {}
    PROVE  \E x \in T : \A y \in T : y <= x
<1>1. PICK U : U = {n - x : x \in T}
  OBVIOUS
<1>2. \A x \in T : x \in Nat /\ n - x \in Nat
  OBVIOUS
<1>3. U \subseteq Nat /\ U # {}
  BY <1>1, <1>2
<1>4. PICK u \in U : \A v \in U : u <= v
  BY <1>3, Smallest
<1>5. PICK x \in T : u = n - x
  BY <1>1
<1>6. ASSUME NEW y \in T PROVE y <= x
  BY <1>1, <1>2, <1>4, <1>5
<1>. QED  BY <1>6
-----------------------------------------------------------------------------
(* The cleanup that Prepare declares.                                      *)

LEMMA CleanupsAre ==
    /\ Cleanups \in [0..N - 1 -> Nat]
    /\ \A k \in 0..N - 1 : Cleanups[k] = IF k = 0 THEN 0 ELSE Cleanups[k - 1] + Final[N - k + 1]
<1>1. N \in Nat \ {0} /\ \A k \in 1..N - 1 : N - k + 1 \in Levels /\ Final[N - k + 1] \in Nat
  BY GroupAssumption DEF Levels
<1>2. PICK Sums : Sums = [n \in Nat |-> {g \in [0..n -> Nat] :
                      \A k \in 0..n : g[k] = IF k = 0 THEN 0 ELSE g[k - 1] + Final[N - k + 1]}]
  OBVIOUS
<1>3. PICK S : S = {n \in Nat : n < N => Sums[n] # {}}
  OBVIOUS
<1>4. 0 \in S
  <2>1. [k \in 0..0 |-> 0] \in Sums[0]
    BY <1>2
  <2>. QED  BY <1>3, <2>1
<1>5. ASSUME NEW n \in Nat, n \in S PROVE n + 1 \in S
  <2>. SUFFICES ASSUME n + 1 < N PROVE Sums[n + 1] # {}
    BY <1>3
  <2>1. PICK g : g \in Sums[n]
    BY <1>1, <1>3, <1>5
  <2>2. g \in [0..n -> Nat] /\ \A k \in 0..n : g[k] = IF k = 0 THEN 0 ELSE g[k - 1] + Final[N - k + 1]
    BY <1>2, <2>1
  <2>3. PICK f : f = [k \in 0..n + 1 |-> IF k = n + 1 THEN g[n] + Final[N - n] ELSE g[k]]
    OBVIOUS
  <2>4. Final[N - n] \in Nat /\ N - (n + 1) + 1 = N - n
    BY <1>1
  <2>5. f \in [0..n + 1 -> Nat]
    BY <2>2, <2>3, <2>4
  <2>6. \A k \in 0..n : f[k] = g[k] /\ k # n + 1
    BY <2>3
  <2>7. ASSUME NEW k \in 0..n + 1
        PROVE  f[k] = IF k = 0 THEN 0 ELSE f[k - 1] + Final[N - k + 1]
    <3>1. CASE k = n + 1
      <4>1. k # 0 /\ k - 1 = n /\ n \in 0..n /\ N - k + 1 = N - n
        BY <1>1, <3>1
      <4>2. f[k] = g[n] + Final[N - n]
        BY <2>3, <3>1
      <4>. QED  BY <2>6, <4>1, <4>2
    <3>2. CASE k \in 0..n
      <4>1. k = 0 \/ k - 1 \in 0..n
        BY <3>2
      <4>. QED  BY <2>2, <2>6, <3>2, <4>1
    <3>. QED  BY <3>1, <3>2
  <2>8. f \in Sums[n + 1]
    BY <1>2, <2>5, <2>7
  <2>. QED  BY <2>8
<1>6. PICK f : f \in Sums[N - 1]
  <2>1. N - 1 \in S
    BY <1>1, <1>4, <1>5, Induction
  <2>. QED  BY <1>1, <1>3, <2>1
<1>7. f = [k \in 0..N - 1 |-> IF k = 0 THEN 0 ELSE f[k - 1] + Final[N - k + 1]]
  BY <1>1, <1>2, <1>6
<1>8. Cleanups = [k \in 0..N - 1 |-> IF k = 0 THEN 0 ELSE Cleanups[k - 1] + Final[N - k + 1]]
  BY <1>7 DEF Cleanups
<1>9. PICK T : T = {n \in Nat : n < N => Cleanups[n] \in Nat}
  OBVIOUS
<1>10. Nat \subseteq T
  <2>1. 0 \in T
    <3>1. 0 \in 0..N - 1
      BY <1>1
    <3>2. Cleanups[0] = 0
      BY <1>8, <3>1, Zenon
    <3>. QED  BY <1>9, <3>2
  <2>2. ASSUME NEW n \in Nat, n \in T PROVE n + 1 \in T
    <3>. SUFFICES ASSUME n + 1 < N PROVE Cleanups[n + 1] \in Nat
      BY <1>9
    <3>1. Cleanups[n] \in Nat /\ Cleanups[n + 1] = Cleanups[n] + Final[N - (n + 1) + 1]
      <4>1. Cleanups[n] \in Nat
        BY <1>1, <1>9, <2>2
      <4>2. n + 1 \in 0..N - 1 /\ n + 1 # 0 /\ (n + 1) - 1 = n
        BY <1>1
      <4>3. Cleanups[n + 1] = Cleanups[(n + 1) - 1] + Final[N - (n + 1) + 1]
        BY <1>8, <4>2, Zenon
      <4>. QED  BY <4>1, <4>2, <4>3
    <3>. QED  BY <1>1, <3>1
  <2>. QED  BY <2>1, <2>2, Induction
<1>11. \A k \in 0..N - 1 : k \in Nat /\ k < N
  BY <1>1
<1>12. \A k \in 0..N - 1 : Cleanups[k] \in Nat
  BY <1>9, <1>10, <1>11
<1>. QED  BY <1>8, <1>12

LEMMA LevelsAre ==
    /\ N \in Nat \ {0} /\ 1 \in Levels /\ N \in Levels
    /\ \A i \in Levels : i \in Nat /\ 1 <= i /\ i <= N
    /\ \A i \in Levels : i < N => i + 1 \in Levels /\ Final[i + 1] \in Nat
    /\ \A i \in Levels : i > 1 => i - 1 \in Levels
    /\ \A i \in Levels : Final[i] \in Nat
    /\ StopTimeout \in Nat \ {0} /\ Extra \in Nat /\ Lag \in Nat /\ Final[1] = 0
BY GroupAssumption DEF Levels

LEMMA CleanupIs ==
    /\ \A i \in Levels : Cleanup(i) \in Nat /\ Grace(i) \in Nat
    /\ \A i \in Levels : i < N => Cleanup(i) = Cleanup(i + 1) + Final[i + 1]
    /\ Cleanup(N) = 0
<1>1. ASSUME NEW i \in Levels
      PROVE  Cleanup(i) \in Nat /\ Grace(i) \in Nat
  <2>1. N - i \in 0..N - 1
    BY LevelsAre
  <2>2. Cleanup(i) \in Nat
    BY <2>1, CleanupsAre DEF Cleanup
  <2>. QED  BY <2>2, LevelsAre DEF Grace
<1>2. ASSUME NEW i \in Levels, i < N
      PROVE  Cleanup(i) = Cleanup(i + 1) + Final[i + 1]
  <2>1. N - i \in 0..N - 1 /\ N - i # 0 /\ (N - i) - 1 = N - (i + 1) /\ N - (N - i) + 1 = i + 1
    BY <1>2, LevelsAre
  <2>2. Cleanups[N - i] = Cleanups[(N - i) - 1] + Final[N - (N - i) + 1]
    BY <2>1, CleanupsAre, Zenon
  <2>. QED  BY <2>1, <2>2 DEF Cleanup
<1>3. Cleanup(N) = 0
  <2>1. N - N = 0 /\ 0 \in 0..N - 1
    BY LevelsAre
  <2>. QED  BY <2>1, CleanupsAre DEF Cleanup
<1>. QED  BY <1>1, <1>2, <1>3

\* The longest that a call goes on is made up of the same for the level below.
LEMMA BoundIs ==
    /\ \A i \in Levels : Bound(i) \in Nat /\ StopTimeout <= Bound(i)
    /\ \A i \in Levels : i < N => Bound(i) = Lag + Bound(i + 1) + Final[i + 1]
    /\ Bound(N) = StopTimeout /\ Grace(N) = StopTimeout
<1>1. PICK lags : lags = [k \in Nat |-> k * Lag]
  OBVIOUS
<1>2. \A i \in Levels : N - i \in Nat /\ Bound(i) = StopTimeout + Cleanup(i) + lags[N - i]
  BY <1>1, LevelsAre DEF Bound
<1>3. \A k \in Nat : lags[k] \in Nat /\ lags[k + 1] = lags[k] + Lag
  <2>1. \A a, b \in Nat : a * b \in Nat /\ (a + 1) * b = a * b + b
    OBVIOUS
  <2>. QED  BY <1>1, <2>1, LevelsAre
<1>4. lags[0] = 0
  <2>1. \A b \in Nat : 0 * b = 0
    OBVIOUS
  <2>. QED  BY <1>1, <2>1, LevelsAre
<1>5. ASSUME NEW i \in Levels
      PROVE  Bound(i) \in Nat /\ StopTimeout <= Bound(i)
  BY <1>2, <1>3, CleanupIs, LevelsAre
<1>6. ASSUME NEW i \in Levels, i < N
      PROVE  Bound(i) = Lag + Bound(i + 1) + Final[i + 1]
  <2>1. (N - (i + 1)) + 1 = N - i /\ i + 1 \in Levels /\ Final[i + 1] \in Nat
    BY <1>6, LevelsAre
  <2>2. Cleanup(i) = Cleanup(i + 1) + Final[i + 1] /\ Cleanup(i + 1) \in Nat
    BY <1>6, <2>1, CleanupIs
  <2>3. N - (i + 1) \in Nat
    BY <1>2, <2>1
  <2>4. lags[N - i] = lags[N - (i + 1)] + Lag /\ lags[N - (i + 1)] \in Nat
    BY <1>3, <2>1, <2>3
  <2>. QED  BY <1>2, <2>1, <2>2, <2>4, LevelsAre
<1>7. Bound(N) = StopTimeout /\ Grace(N) = StopTimeout
  <2>1. N - N = 0
    BY LevelsAre
  <2>. QED  BY <1>2, <1>4, <2>1, CleanupIs, LevelsAre DEF Grace
<1>. QED  BY <1>5, <1>6, <1>7
-----------------------------------------------------------------------------
(* The calls of the levels.                                                *)

LEMMA KillTyped ==
    ASSUME TypeOK, NEW i \in Levels, Kill(i)
    PROVE  /\ TypeOK'
           /\ sup[i] = "grace" /\ left[i] = 0
           /\ ctx' = ctx /\ left' = left /\ notice' = notice /\ away' = away
           /\ kids' = IF i = N /\ kids = "alive" THEN "zombie" ELSE kids
           /\ \A j \in Levels :
                /\ shell'[j] = IF j = i THEN "gone" ELSE shell[j]
                /\ code'[j] = IF j = i /\ shell[j] = "alive" THEN "signal" ELSE code[j]
                /\ run'[j] = IF j = i + 1 /\ shell[i] = "alive" /\ run[j] # "returned" THEN "lost" ELSE run[j]
                /\ sup'[j] = IF j = i THEN "stopped"
                             ELSE IF j = i + 1 /\ shell[i] = "alive" THEN "off" ELSE sup[j]
                /\ final'[j] = IF j = i + 1 /\ shell[i] = "alive" /\ final[j].at = "running"
                               THEN [final[j] EXCEPT !.at = "killed"] ELSE final[j]
<1>. USE LevelsAre DEF TypeOK
<1>1. /\ sup[i] = "grace" /\ left[i] = 0
      /\ ctx' = ctx /\ left' = left /\ notice' = notice /\ away' = away
      /\ kids' = IF i = N /\ kids = "alive" THEN "zombie" ELSE kids
      /\ shell' = [shell EXCEPT ![i] = "gone"]
      /\ code' = IF shell[i] = "alive" THEN [code EXCEPT ![i] = "signal"] ELSE code
  BY Zenon DEF Kill
<1>2. /\ shell' \in [Levels -> {"none", "alive", "gone"}]
      /\ code' \in [Levels -> {"none", "ok", "fail", "signal"}]
      /\ kids' \in {"none", "alive", "zombie"}
      /\ \A j \in Levels : /\ shell'[j] = IF j = i THEN "gone" ELSE shell[j]
                           /\ code'[j] = IF j = i /\ shell[j] = "alive" THEN "signal" ELSE code[j]
  BY <1>1
<1>3. CASE i < N /\ shell[i] = "alive"
  <2>1. /\ run' = [run EXCEPT ![i + 1] = IF @ = "returned" THEN @ ELSE "lost"]
        /\ sup' = [sup EXCEPT ![i] = "stopped", ![i + 1] = "off"]
        /\ final' = [final EXCEPT ![i + 1].at = IF @ = "running" THEN "killed" ELSE @]
    BY <1>3, Zenon DEF Kill
  <2>2. i + 1 \in Levels /\ i + 1 # i
    BY <1>3
  <2>3. /\ run' \in [Levels -> {"idle", "wait", "children", "closing", "returned", "lost"}]
        /\ \A j \in Levels : run'[j] = IF j = i + 1 /\ run[j] # "returned" THEN "lost" ELSE run[j]
    BY <2>1, <2>2
  <2>4. /\ sup' \in [Levels -> {"off", "watch", "grace", "stopped"}]
        /\ \A j \in Levels : sup'[j] = IF j = i THEN "stopped" ELSE IF j = i + 1 THEN "off" ELSE sup[j]
    BY <2>1, <2>2
  <2>5. PICK f : f = [final[i + 1] EXCEPT !.at = IF @ = "running" THEN "killed" ELSE @]
    OBVIOUS
  <2>6. /\ f \in [at : {"none", "running", "ok", "failed", "skipped", "killed"}, left : Nat]
        /\ f.left = final[i + 1].left
        /\ final[i + 1].at = "running" => f = [final[i + 1] EXCEPT !.at = "killed"]
        /\ final[i + 1].at # "running" => f = final[i + 1]
    BY <2>2, <2>5
  <2>7. final' = [final EXCEPT ![i + 1] = f]
    BY <2>1, <2>5, Zenon
  <2>8. /\ final' \in [Levels -> [at : {"none", "running", "ok", "failed", "skipped", "killed"}, left : Nat]]
        /\ \A j \in Levels : final'[j] = IF j = i + 1 THEN f ELSE final[j]
    BY <2>2, <2>6, <2>7
  <2>9. \A j \in Levels : final'[j].left <= Final[j]
    BY <2>6, <2>8
  <2>10. TypeOK'
    BY <1>1, <1>2, <2>3, <2>4, <2>8, <2>9
  <2>11. ASSUME NEW j \in Levels
         PROVE  final'[j] = IF j = i + 1 /\ shell[i] = "alive" /\ final[j].at = "running"
                            THEN [final[j] EXCEPT !.at = "killed"] ELSE final[j]
    <3>1. CASE j = i + 1
      BY <1>3, <2>6, <2>8, <3>1, Zenon
    <3>2. CASE j # i + 1
      BY <2>8, <3>2, Zenon
    <3>. QED  BY <3>1, <3>2
  <2>12. ASSUME NEW j \in Levels
         PROVE  /\ shell'[j] = IF j = i THEN "gone" ELSE shell[j]
                /\ code'[j] = IF j = i /\ shell[j] = "alive" THEN "signal" ELSE code[j]
                /\ run'[j] = IF j = i + 1 /\ shell[i] = "alive" /\ run[j] # "returned" THEN "lost" ELSE run[j]
                /\ sup'[j] = IF j = i THEN "stopped"
                             ELSE IF j = i + 1 /\ shell[i] = "alive" THEN "off" ELSE sup[j]
    BY <1>2, <1>3, <2>3, <2>4
  <2>. QED  BY <1>1, <2>10, <2>11, <2>12, Zenon
<1>4. CASE ~(i < N /\ shell[i] = "alive")
  <2>1. run' = run /\ sup' = [sup EXCEPT ![i] = "stopped"] /\ final' = final
    BY <1>4, Zenon DEF Kill
  <2>2. /\ sup' \in [Levels -> {"off", "watch", "grace", "stopped"}]
        /\ \A j \in Levels : sup'[j] = IF j = i THEN "stopped" ELSE sup[j]
    BY <2>1
  <2>3. TypeOK'
    BY <1>1, <1>2, <2>1, <2>2
  <2>4. \A j \in Levels : ~(j = i + 1 /\ shell[i] = "alive")
    BY <1>4
  <2>5. ASSUME NEW j \in Levels
        PROVE  /\ shell'[j] = IF j = i THEN "gone" ELSE shell[j]
               /\ code'[j] = IF j = i /\ shell[j] = "alive" THEN "signal" ELSE code[j]
               /\ run'[j] = IF j = i + 1 /\ shell[i] = "alive" /\ run[j] # "returned" THEN "lost" ELSE run[j]
               /\ sup'[j] = IF j = i THEN "stopped"
                            ELSE IF j = i + 1 /\ shell[i] = "alive" THEN "off" ELSE sup[j]
    BY <1>2, <2>1, <2>2, <2>4
  <2>6. \A j \in Levels : final'[j] = IF j = i + 1 /\ shell[i] = "alive" /\ final[j].at = "running"
                                      THEN [final[j] EXCEPT !.at = "killed"] ELSE final[j]
    BY <2>1, <2>4, Zenon
  <2>. QED  BY <1>1, <2>3, <2>5, <2>6, Zenon
<1>. QED  BY <1>3, <1>4

\* A kill, level by level: with a wrapper its call of the next level is gone.
LEMMA KillIs ==
    ASSUME TypeOK, NEW i \in Levels, Kill(i)
    PROVE  /\ sup[i] = "grace" /\ left[i] = 0
           /\ ctx' = ctx /\ left' = left /\ notice' = notice /\ away' = away
           /\ kids' = IF i = N /\ kids = "alive" THEN "zombie" ELSE kids
           /\ \A j \in Levels :
                /\ shell'[j] = IF j = i THEN "gone" ELSE shell[j]
                /\ code'[j] = IF j = i /\ shell[j] = "alive" THEN "signal" ELSE code[j]
                /\ run'[j] = IF j = i + 1 /\ shell[i] = "alive" /\ run[j] # "returned" THEN "lost" ELSE run[j]
                /\ sup'[j] = IF j = i THEN "stopped"
                             ELSE IF j = i + 1 /\ shell[i] = "alive" THEN "off" ELSE sup[j]
BY KillTyped, Zenon

LEMMA KilledPass ==
    ASSUME TypeOK, NEW i \in Levels, Kill(i), NEW j \in Levels
    PROVE  final'[j] = IF j = i + 1 /\ shell[i] = "alive" /\ final[j].at = "running"
                       THEN [final[j] EXCEPT !.at = "killed"] ELSE final[j]
<1>1. \A k \in Levels :
        final'[k] = IF k = i + 1 /\ shell[i] = "alive" /\ final[k].at = "running"
                    THEN [final[k] EXCEPT !.at = "killed"] ELSE final[k]
  BY KillTyped
<1>. QED  BY <1>1, Zenon

LEMMA OtherPass ==
    ASSUME TypeOK, NEW i \in Levels, Kill(i), NEW j \in Levels,
           j # i + 1 \/ final[j].at # "running"
    PROVE  final'[j] = final[j]
<1>1. ~(j = i + 1 /\ shell[i] = "alive" /\ final[j].at = "running")
  BY Zenon
<1>. QED  BY <1>1, KilledPass, Zenon

LEMMA TypeStep ==
    ASSUME TypeOK, PassesRight, CallsRight, Next
    PROVE  TypeOK'
<1>. USE LevelsAre, CleanupIs DEF TypeOK
<1>1. ASSUME NEW i \in Levels, Call(i) PROVE TypeOK'
  <2>. \A j \in Levels : Grace(j)' = Grace(j)
    BY DEF Grace, Cleanup
  <2>1. CASE Start(i)
    <3>1. CASE ctx[i]
      BY <2>1, <3>1 DEF Start
    <3>2. CASE ~ctx[i]
      BY <2>1, <3>2 DEF Start
    <3>. QED  BY <3>1, <3>2
  <2>2. CASE WaitReturns(i)
    BY <2>2 DEF WaitReturns
  <2>3. CASE ChildrenGone(i)
    BY <2>3 DEF ChildrenGone
  <2>4. CASE Return(i)
    BY <2>4 DEF Return
  <2>5. CASE Interrupt(i)
    BY <2>5 DEF Interrupt, NoSignal
  <2>6. CASE Kill(i)
    BY <2>6, KillTyped, Zenon
  <2>7. CASE Done(i)
    BY <2>7 DEF Done
  <2>. QED  BY <1>1, <2>1, <2>2, <2>3, <2>4, <2>5, <2>6, <2>7 DEF Call
<1>2. ASSUME NEW i \in Levels, Wrapper(i) \/ SetupFails(i) \/ DieEarly(i) PROVE TypeOK'
  <2>1. CASE Notice(i)
    BY <2>1 DEF Notice, NoSignal
  <2>2. CASE StartFinal(i)
    BY <2>2 DEF StartFinal
  <2>3. CASE EndFinal(i)
    BY <2>3 DEF EndFinal
  <2>4. CASE WrapperExits(i)
    BY <2>4 DEF WrapperExits, WrapperCode
  <2>5. CASE SetupFails(i)
    BY <2>5 DEF SetupFails
  <2>6. CASE DieEarly(i)
    BY <2>6 DEF DieEarly
  <2>. QED  BY <1>2, <2>1, <2>2, <2>3, <2>4, <2>5, <2>6 DEF Wrapper
<1>3. CASE PayloadExits
  BY <1>3 DEF PayloadExits
<1>4. CASE Fork
  BY <1>4 DEF Fork
<1>5. CASE KidExits
  BY <1>5 DEF KidExits
<1>6. CASE Reap
  BY <1>6 DEF Reap
<1>7. CASE Cancel
  BY <1>7 DEF Cancel
<1>8. CASE Tick
  <2>1. \A i \in Levels : sup[i] = "grace" => left[i] # 0
    BY <1>8 DEF Tick, Urgent
  <2>2. \A i \in Levels : final[i].at = "running" => final[i].left # 0
    BY <1>8 DEF Tick, Urgent, PassesRight
  <2>3. left' \in [Levels -> Nat] /\ \A i \in Levels : left'[i] <= Grace(i)
    BY <1>8, <2>1 DEF Tick
  <2>4. notice' \in [Levels -> 0..NoSignal]
    BY <1>8 DEF Tick, NoSignal
  <2>5. final' = [i \in Levels |-> IF final[i].at = "running" THEN [at |-> final[i].at, left |-> final[i].left - 1]
                                                           ELSE final[i]]
    BY <1>8 DEF Tick
  <2>6. /\ final' \in [Levels -> [at : {"none", "running", "ok", "failed", "skipped", "killed"}, left : Nat]]
        /\ \A i \in Levels : final'[i].left <= Final[i]
    <3>1. ASSUME NEW i \in Levels
          PROVE  /\ final'[i] \in [at : {"none", "running", "ok", "failed", "skipped", "killed"}, left : Nat]
                 /\ final'[i].left <= Final[i]
      <4>1. CASE final[i].at = "running"
        <5>1. final[i].left \in Nat \ {0} /\ final[i].left <= Final[i] /\ Final[i] \in Nat
          BY <2>2, <4>1
        <5>2. final'[i] = [at |-> "running", left |-> final[i].left - 1]
          BY <2>5, <4>1
        <5>3. PICK k \in Nat : k = final[i].left - 1 /\ k <= Final[i]
          BY <5>1
        <5>. QED  BY <5>2, <5>3
      <4>2. CASE final[i].at # "running"
        BY <2>5, <4>2
      <4>. QED  BY <4>1, <4>2
    <3>. QED  BY <2>5, <3>1
  <2>7. \A i \in Levels : Grace(i)' = Grace(i)
    BY DEF Grace, Cleanup
  <2>8. ctx' = ctx /\ run' = run /\ sup' = sup /\ shell' = shell /\ code' = code /\ kids' = kids /\ away' = away
    BY <1>8 DEF Tick
  <2>. QED  BY <2>3, <2>4, <2>6, <2>7, <2>8
<1>. QED  BY <1>1, <1>2, <1>3, <1>4, <1>5, <1>6, <1>7, <1>8 DEF Next

LEMMA CallsStep ==
    ASSUME TypeOK, CallsRight, Next
    PROVE  CallsRight'
<1>. /\ ctx \in [Levels -> BOOLEAN] /\ notice \in [Levels -> 0..NoSignal] /\ left \in [Levels -> Nat]
     /\ run \in [Levels -> {"idle", "wait", "children", "closing", "returned", "lost"}]
     /\ sup \in [Levels -> {"off", "watch", "grace", "stopped"}]
     /\ shell \in [Levels -> {"none", "alive", "gone"}]
     /\ code \in [Levels -> {"none", "ok", "fail", "signal"}]
     /\ kids \in {"none", "alive", "zombie"} /\ away \in {"none", "alive"}
  BY DEF TypeOK
<1>. USE DEF CallsRight, InCall, CallerAlive, GroupThere, PipeOpen
<1>1. ASSUME NEW i \in Levels, Call(i) PROVE CallsRight'
  <2>1. CASE Start(i)
    <3>1. CASE ctx[i]
      <4>1. /\ run[i] = "idle" /\ UNCHANGED <<ctx, sup, shell, kids, away>>
            /\ \A j \in Levels : run'[j] = (IF j = i THEN "returned" ELSE run[j])
                              /\ code'[j] = (IF j = i THEN "signal" ELSE code[j])
        BY LevelsAre, <2>1, <3>1 DEF Start
      <4>. QED  BY LevelsAre, <4>1
    <3>2. CASE ~ctx[i]
      <4>1. /\ run[i] = "idle" /\ CallerAlive(i) /\ UNCHANGED <<ctx, code, kids, away>>
            /\ \A j \in Levels : /\ run'[j] = (IF j = i THEN "wait" ELSE run[j])
                                 /\ sup'[j] = (IF j = i THEN "watch" ELSE sup[j])
                                 /\ shell'[j] = (IF j = i THEN "alive" ELSE shell[j])
        BY LevelsAre, <2>1, <3>2 DEF Start
      <4>2. run[i] = "idle" => shell[i] = "none" /\ code[i] = "none"
        OBVIOUS
      <4>. QED  BY LevelsAre, <4>1, <4>2
    <3>. QED  BY <3>1, <3>2
  <2>2. CASE WaitReturns(i)
    BY LevelsAre, <2>2 DEF WaitReturns
  <2>3. CASE ChildrenGone(i)
    BY LevelsAre, <2>3 DEF ChildrenGone
  <2>4. CASE Return(i)
    BY LevelsAre, <2>4 DEF Return
  <2>5. CASE Interrupt(i)
    BY LevelsAre, <2>5 DEF Interrupt
  <2>6. CASE Kill(i)
    <3>1. shell[i] # "none" /\ InCall(i) /\ CallerAlive(i)
      BY <2>6, LevelsAre, KillIs
    <3>0. i \in Nat /\ N \in Nat /\ 1 <= i /\ i <= N /\ N \in Levels
      BY LevelsAre
    <3>2. ASSUME NEW j \in Levels
          PROVE  /\ run'[j] = "idle" => shell'[j] = "none" /\ code'[j] = "none" /\ sup'[j] = "off"
                 /\ InCall(j)' => CallerAlive(j)' /\ sup'[j] # "off" /\ shell'[j] # "none"
                 /\ sup'[j] \in {"watch", "grace"} => InCall(j)'
      <4>0. j \in Nat /\ 1 <= j /\ j <= N /\ (j > 1 => j - 1 \in Levels)
        BY LevelsAre
      <4>1. CASE j = i
        BY <2>6, <3>0, <3>1, <4>0, <4>1, KillIs
      <4>2. CASE j = i + 1
        BY <2>6, <3>0, <3>1, <4>0, <4>2, KillIs
      <4>3. CASE j # i /\ j # i + 1
        BY <2>6, <3>0, <3>1, <4>0, <4>3, KillIs
      <4>. QED  BY <4>1, <4>2, <4>3
    <3>3. ASSUME NEW j \in Levels
          PROVE  /\ run'[j] \in {"children", "closing", "returned"} \/ sup'[j] = "stopped" => shell'[j] # "alive"
                 /\ run'[j] = "closing" /\ sup'[j] # "stopped" => ~GroupThere(j)'
                 /\ run'[j] = "lost" => j > 1 /\ shell'[j - 1] = "gone"
                 /\ sup'[j] = "grace" => ctx'[j]
                 /\ shell'[j] = "alive" => code'[j] = "none"
      <4>0. j \in Nat /\ 1 <= j /\ j <= N /\ (j > 1 => j - 1 \in Levels)
        BY LevelsAre
      <4>1. CASE j = i
        BY <2>6, <3>0, <3>1, <4>0, <4>1, KillIs
      <4>2. CASE j = i + 1
        <5>1. j - 1 = i /\ j # i /\ j # 1 /\ i # N
          BY <3>0, <4>0, <4>2
        <5>2. /\ ctx' = ctx /\ kids' = kids /\ shell'[j] = shell[j] /\ code'[j] = code[j] /\ shell'[i] = "gone"
              /\ \/ run'[j] = run[j] /\ sup'[j] = sup[j]
                 \/ run'[j] \in {"returned", "lost"} /\ sup'[j] = "off" /\ (run'[j] = "returned" => run[j] = "returned")
          BY <2>6, <3>0, <4>2, <5>1, KillIs
        <5>. QED  BY <3>0, <4>0, <4>2, <5>1, <5>2
      <4>3. CASE j # i /\ j # i + 1
        BY <2>6, <3>0, <3>1, <4>0, <4>3, KillIs
      <4>. QED  BY <4>1, <4>2, <4>3
    <3>4. /\ run'[N] \in {"idle", "children", "closing", "returned"} \/ sup'[N] = "stopped" => kids' # "alive"
          /\ run'[N] = "idle" => kids' = "none"
          /\ away' = "alive" => MayEscape
      BY <2>6, <3>0, <3>1, KillIs
    <3>. QED  BY <3>2, <3>3, <3>4
  <2>7. CASE Done(i)
    BY LevelsAre, <2>7 DEF Done
  <2>. QED  BY <1>1, <2>1, <2>2, <2>3, <2>4, <2>5, <2>6, <2>7 DEF Call
<1>2. ASSUME NEW i \in Levels, Wrapper(i) \/ SetupFails(i) \/ DieEarly(i) PROVE CallsRight'
  <2>1. CASE Notice(i)
    BY LevelsAre, <2>1 DEF Notice
  <2>2. CASE StartFinal(i)
    BY LevelsAre, <2>2 DEF StartFinal
  <2>3. CASE EndFinal(i)
    BY LevelsAre, <2>3 DEF EndFinal
  <2>4. CASE WrapperExits(i)
    BY LevelsAre, <2>4 DEF WrapperExits, WrapperCode
  <2>5. CASE SetupFails(i)
    BY LevelsAre, <2>5 DEF SetupFails
  <2>6. CASE DieEarly(i)
    BY LevelsAre, <2>6 DEF DieEarly
  <2>. QED  BY <1>2, <2>1, <2>2, <2>3, <2>4, <2>5, <2>6 DEF Wrapper
<1>3. CASE PayloadExits
  BY LevelsAre, <1>3 DEF PayloadExits
<1>4. CASE Fork
  BY LevelsAre, <1>4 DEF Fork
<1>5. CASE KidExits
  BY LevelsAre, <1>5 DEF KidExits
<1>6. CASE Reap
  BY LevelsAre, <1>6 DEF Reap
<1>7. CASE Cancel
  BY LevelsAre, <1>7 DEF Cancel
<1>8. CASE Tick
  BY LevelsAre, <1>8 DEF Tick
<1>. QED  BY <1>1, <1>2, <1>3, <1>4, <1>5, <1>6, <1>7, <1>8 DEF Next

LEMMA PassesStep ==
    ASSUME TypeOK, CallsRight, PassesRight, Next
    PROVE  PassesRight'
<1>. /\ ctx \in [Levels -> BOOLEAN] /\ notice \in [Levels -> 0..NoSignal] /\ left \in [Levels -> Nat]
     /\ run \in [Levels -> {"idle", "wait", "children", "closing", "returned", "lost"}]
     /\ sup \in [Levels -> {"off", "watch", "grace", "stopped"}]
     /\ shell \in [Levels -> {"none", "alive", "gone"}]
     /\ code \in [Levels -> {"none", "ok", "fail", "signal"}]
     /\ final \in [Levels -> [at : {"none", "running", "ok", "failed", "skipped", "killed"}, left : Nat]]
     /\ kids \in {"none", "alive", "zombie"} /\ away \in {"none", "alive"}
  BY DEF TypeOK
<1>. USE DEF PassesRight, CallerAlive
<1>1. ASSUME NEW i \in Levels, Call(i) PROVE PassesRight'
  <2>1. CASE Start(i)
    <3>1. /\ \A j \in Levels : run[j] = "returned" => run'[j] = "returned"
          /\ \A j \in Levels : shell[j] = "alive" => shell'[j] = "alive"
          /\ final' = final
      BY <2>1 DEF Start
    <3>. QED  BY <3>1, LevelsAre
  <2>2. CASE WaitReturns(i)
    BY <2>2, LevelsAre DEF WaitReturns
  <2>3. CASE ChildrenGone(i)
    BY <2>3, LevelsAre DEF ChildrenGone
  <2>4. CASE Return(i)
    BY <2>4, LevelsAre DEF Return
  <2>5. CASE Interrupt(i)
    BY <2>5, LevelsAre DEF Interrupt
  <2>6. CASE Kill(i)
    <3>1. ASSUME NEW j \in Levels
          PROVE  /\ final'[j].at # "none" => run'[j] = "returned"
                 /\ final'[j].at \in {"running", "ok", "failed", "killed"} => Final[j] > 0
                 /\ final'[j].at = "running" => CallerAlive(j)'
      <4>1. \/ final'[j] = final[j] /\ ~(j = i + 1 /\ shell[i] = "alive" /\ final[j].at = "running")
            \/ final'[j].at = "killed" /\ final[j].at = "running"
        <5>1. CASE j = i + 1 /\ shell[i] = "alive" /\ final[j].at = "running"
          <6>1. final'[j] = [final[j] EXCEPT !.at = "killed"]
            BY <2>6, <5>1, KilledPass
          <6>. QED  BY <5>1, <6>1
        <5>2. CASE ~(j = i + 1 /\ shell[i] = "alive" /\ final[j].at = "running")
          <6>1. final'[j] = final[j]
            BY <2>6, <5>2, KilledPass, Zenon
          <6>. QED  BY <5>2, <6>1
        <5>. QED  BY <5>1, <5>2
      <4>2. run[j] = "returned" => run'[j] = "returned"
        BY <2>6, KillIs
      <4>3. final'[j].at = "running" => CallerAlive(j)'
        BY <2>6, <4>1, LevelsAre, KillIs
      <4>. QED  BY <4>1, <4>2, <4>3
    <3>. QED  BY <3>1
  <2>7. CASE Done(i)
    BY <2>7, LevelsAre DEF Done
  <2>. QED  BY <1>1, <2>1, <2>2, <2>3, <2>4, <2>5, <2>6, <2>7 DEF Call
<1>2. ASSUME NEW i \in Levels, Wrapper(i) \/ SetupFails(i) \/ DieEarly(i) PROVE PassesRight'
  <2>1. CASE Notice(i)
    BY <2>1, LevelsAre DEF Notice
  <2>2. CASE StartFinal(i)
    BY <2>2, LevelsAre DEF StartFinal
  <2>3. CASE EndFinal(i)
    BY <2>3, LevelsAre DEF EndFinal
  <2>4. CASE WrapperExits(i)
    BY <2>4, LevelsAre DEF WrapperExits, FinalDone, WrapperCode
  <2>5. CASE SetupFails(i)
    BY <2>5, LevelsAre DEF SetupFails
  <2>6. CASE DieEarly(i)
    BY <2>6, LevelsAre DEF DieEarly
  <2>. QED  BY <1>2, <2>1, <2>2, <2>3, <2>4, <2>5, <2>6 DEF Wrapper
<1>3. CASE PayloadExits
  BY <1>3, LevelsAre DEF PayloadExits
<1>4. CASE Fork
  BY <1>4, LevelsAre DEF Fork
<1>5. CASE KidExits
  BY <1>5, LevelsAre DEF KidExits
<1>6. CASE Reap
  BY <1>6, LevelsAre DEF Reap
<1>7. CASE Cancel
  BY <1>7, LevelsAre DEF Cancel
<1>8. CASE Tick
  BY <1>8, LevelsAre DEF Tick
<1>. QED  BY <1>1, <1>2, <1>3, <1>4, <1>5, <1>6, <1>7, <1>8 DEF Next

LEMMA PassedOnStep ==
    ASSUME TypeOK, CallsRight, PassesRight, SuccessPassedOn, Next
    PROVE  SuccessPassedOn'
<1>. /\ ctx \in [Levels -> BOOLEAN] /\ notice \in [Levels -> 0..NoSignal] /\ left \in [Levels -> Nat]
     /\ run \in [Levels -> {"idle", "wait", "children", "closing", "returned", "lost"}]
     /\ sup \in [Levels -> {"off", "watch", "grace", "stopped"}]
     /\ shell \in [Levels -> {"none", "alive", "gone"}]
     /\ code \in [Levels -> {"none", "ok", "fail", "signal"}]
     /\ final \in [Levels -> [at : {"none", "running", "ok", "failed", "skipped", "killed"}, left : Nat]]
     /\ kids \in {"none", "alive", "zombie"} /\ away \in {"none", "alive"}
  BY DEF TypeOK
<1>. \A i \in Levels : \A j \in i..N : j \in Levels /\ (j # i => j \in (i + 1)..N)
  BY LevelsAre DEF Levels
<1>. USE DEF SuccessPassedOn, CallsRight, PassesRight, FinalDone
<1>1. ASSUME NEW i \in Levels, Call(i) PROVE SuccessPassedOn'
  <2>1. CASE Start(i)
    <3>1. /\ run[i] = "idle" /\ final' = final
          /\ \A j \in Levels : j # i => run'[j] = run[j] /\ code'[j] = code[j]
          /\ code'[i] # "ok"
      BY <2>1 DEF Start
    <3>2. code[i] # "ok"
      BY <3>1
    <3>. QED  BY <3>1, <3>2, LevelsAre
  <2>2. CASE WaitReturns(i)
    BY <2>2, LevelsAre DEF WaitReturns
  <2>3. CASE ChildrenGone(i)
    BY <2>3, LevelsAre DEF ChildrenGone
  <2>4. CASE Return(i)
    BY <2>4, LevelsAre DEF Return
  <2>5. CASE Interrupt(i)
    BY <2>5, LevelsAre DEF Interrupt
  <2>6. CASE Kill(i)
    <3>1. \A j \in Levels : code'[j] = "ok" <=> code[j] = "ok"
      BY <2>6, KillIs
    <3>2. \A j \in Levels : run[j] = "returned" => run'[j] = "returned"
      BY <2>6, KillIs
    <3>3. ASSUME NEW j \in Levels, FinalDone(j) PROVE final'[j] = final[j]
      <4>1. final[j].at # "running"
        BY <3>3
      <4>. QED  BY <2>6, <4>1, OtherPass
    <3>. QED  BY <3>1, <3>2, <3>3, LevelsAre
  <2>7. CASE Done(i)
    BY <2>7, LevelsAre DEF Done
  <2>. QED  BY <1>1, <2>1, <2>2, <2>3, <2>4, <2>5, <2>6, <2>7 DEF Call
<1>2. ASSUME NEW i \in Levels, Wrapper(i) \/ SetupFails(i) \/ DieEarly(i) PROVE SuccessPassedOn'
  <2>1. CASE Notice(i)
    BY <2>1, LevelsAre DEF Notice
  <2>2. CASE StartFinal(i)
    BY <2>2, LevelsAre DEF StartFinal
  <2>3. CASE EndFinal(i)
    BY <2>3, LevelsAre DEF EndFinal
  <2>4. CASE WrapperExits(i)
    BY <2>4, LevelsAre DEF WrapperExits, WrapperCode
  <2>5. CASE SetupFails(i)
    BY <2>5, LevelsAre DEF SetupFails
  <2>6. CASE DieEarly(i)
    BY <2>6, LevelsAre DEF DieEarly
  <2>. QED  BY <1>2, <2>1, <2>2, <2>3, <2>4, <2>5, <2>6 DEF Wrapper
<1>3. CASE PayloadExits
  <2>1. /\ shell[N] = "alive" /\ run' = run /\ final' = final
        /\ \A j \in Levels : j # N => code'[j] = code[j]
    BY <1>3 DEF PayloadExits
  <2>2. code[N] # "ok"
    BY <2>1, LevelsAre
  <2>3. \A j \in Levels : code[j] # "ok"
    BY <2>2, LevelsAre
  <2>. QED  BY <2>1, <2>3, LevelsAre
<1>4. CASE Fork
  BY <1>4, LevelsAre DEF Fork
<1>5. CASE KidExits
  BY <1>5, LevelsAre DEF KidExits
<1>6. CASE Reap
  BY <1>6, LevelsAre DEF Reap
<1>7. CASE Cancel
  BY <1>7, LevelsAre DEF Cancel
<1>8. CASE Tick
  BY <1>8, LevelsAre DEF Tick
<1>. QED  BY <1>1, <1>2, <1>3, <1>4, <1>5, <1>6, <1>7, <1>8 DEF Next

LEMMA WholeStep ==
    ASSUME TypeOK, CallsRight, PassesRight, SuccessPassedOn, SuccessIsWhole, Next,
           TypeOK', PassesRight', SuccessPassedOn'
    PROVE  SuccessIsWhole'
<1>. SUFFICES ASSUME run'[1] = "returned", code'[1] = "ok"
              PROVE  /\ ~ctx'[1] /\ code'[N] = "ok"
                     /\ OnFinalError = "fail" => \A i \in Levels : final'[i].at # "failed"
  BY DEF SuccessIsWhole
<1>1. code'[N] = "ok" /\ (OnFinalError = "fail" => \A i \in Levels : final'[i].at # "failed")
  <2>1. N \in 1..N /\ \A i \in Levels : i = 1 \/ i \in 2..N
    BY LevelsAre DEF Levels
  <2>2. code'[N] = "ok" /\ \A i \in 2..N : OnFinalError = "fail" => final'[i].at # "failed"
    BY <2>1, LevelsAre DEF SuccessPassedOn
  <2>3. final'[1].at # "failed"
    BY LevelsAre DEF PassesRight
  <2>. QED  BY <2>1, <2>2, <2>3
<1>. /\ ctx \in [Levels -> BOOLEAN] /\ notice \in [Levels -> 0..NoSignal] /\ left \in [Levels -> Nat]
     /\ run \in [Levels -> {"idle", "wait", "children", "closing", "returned", "lost"}]
     /\ sup \in [Levels -> {"off", "watch", "grace", "stopped"}]
     /\ shell \in [Levels -> {"none", "alive", "gone"}]
     /\ code \in [Levels -> {"none", "ok", "fail", "signal"}]
     /\ final \in [Levels -> [at : {"none", "running", "ok", "failed", "skipped", "killed"}, left : Nat]]
     /\ kids \in {"none", "alive", "zombie"} /\ away \in {"none", "alive"}
  BY DEF TypeOK
<1>. USE DEF SuccessIsWhole, CallsRight
<1>2. ASSUME NEW i \in Levels, Call(i) PROVE ~ctx'[1]
  <2>1. CASE Start(i)
    BY <2>1, LevelsAre DEF Start
  <2>2. CASE WaitReturns(i)
    BY <2>2, LevelsAre DEF WaitReturns
  <2>3. CASE ChildrenGone(i)
    BY <2>3, LevelsAre DEF ChildrenGone
  <2>4. CASE Return(i)
    BY <2>4, LevelsAre DEF Return
  <2>5. CASE Interrupt(i)
    BY <2>5, LevelsAre DEF Interrupt
  <2>6. CASE Kill(i)
    BY <2>6, LevelsAre, KillIs
  <2>7. CASE Done(i)
    BY <2>7, LevelsAre DEF Done
  <2>. QED  BY <1>2, <2>1, <2>2, <2>3, <2>4, <2>5, <2>6, <2>7 DEF Call
<1>3. ASSUME NEW i \in Levels, Wrapper(i) \/ SetupFails(i) \/ DieEarly(i) PROVE ~ctx'[1]
  <2>1. CASE Notice(i)
    BY <2>1, LevelsAre DEF Notice
  <2>2. CASE StartFinal(i)
    BY <2>2, LevelsAre DEF StartFinal
  <2>3. CASE EndFinal(i)
    BY <2>3, LevelsAre DEF EndFinal
  <2>4. CASE WrapperExits(i)
    BY <2>4, LevelsAre DEF WrapperExits, FinalDone, WrapperCode
  <2>5. CASE SetupFails(i)
    BY <2>5, LevelsAre DEF SetupFails
  <2>6. CASE DieEarly(i)
    BY <2>6, LevelsAre DEF DieEarly
  <2>. QED  BY <1>3, <2>1, <2>2, <2>3, <2>4, <2>5, <2>6 DEF Wrapper
<1>4. CASE PayloadExits
  BY <1>4, LevelsAre DEF PayloadExits
<1>5. CASE Fork
  BY <1>5, LevelsAre DEF Fork
<1>6. CASE KidExits
  BY <1>6, LevelsAre DEF KidExits
<1>7. CASE Reap
  BY <1>7, LevelsAre DEF Reap
<1>8. CASE Cancel
  BY <1>8, LevelsAre DEF Cancel
<1>9. CASE Tick
  BY <1>9, LevelsAre DEF Tick
<1>10. ~ctx'[1]
  BY <1>2, <1>3, <1>4, <1>5, <1>6, <1>7, <1>8, <1>9 DEF Next
<1>. QED  BY <1>1, <1>10

LEMMA OnTimeStep ==
    ASSUME TypeOK, CallsRight, PassesRight, OnTime, ~MayEscape, Next
    PROVE  OnTime'
<1>. /\ ctx \in [Levels -> BOOLEAN] /\ notice \in [Levels -> 0..NoSignal] /\ left \in [Levels -> Nat]
     /\ run \in [Levels -> {"idle", "wait", "children", "closing", "returned", "lost"}]
     /\ sup \in [Levels -> {"off", "watch", "grace", "stopped"}]
     /\ shell \in [Levels -> {"none", "alive", "gone"}]
     /\ code \in [Levels -> {"none", "ok", "fail", "signal"}]
     /\ final \in [Levels -> [at : {"none", "running", "ok", "failed", "skipped", "killed"}, left : Nat]]
     /\ kids \in {"none", "alive", "zombie"} /\ away \in {"none", "alive"}
  BY DEF TypeOK
<1>. \A i \in Levels : left[i] <= Grace(i) /\ final[i].left <= Final[i]
  BY DEF TypeOK
<1>. \A i \in Levels : /\ Bound(i) \in Nat /\ Grace(i) \in Nat /\ Final[i] \in Nat
                       /\ Bound(i)' = Bound(i) /\ Grace(i)' = Grace(i)
  BY BoundIs, CleanupIs, LevelsAre DEF Bound, Grace, Cleanup
<1>. NoSignal = Lag + 1 /\ NoSignal' = NoSignal
  BY DEF NoSignal
<1>. USE DEF OnTime, Spent, Since
<1>1. ASSUME NEW i \in Levels, Call(i) PROVE OnTime'
  <2>1. CASE Start(i)
    BY <2>1, LevelsAre DEF Start
  <2>2. CASE WaitReturns(i)
    BY <2>2, LevelsAre DEF WaitReturns
  <2>3. CASE ChildrenGone(i)
    BY <2>3, LevelsAre DEF ChildrenGone
  <2>4. CASE Return(i)
    BY <2>4, LevelsAre DEF Return
  <2>5. CASE Interrupt(i)
    BY <2>5, LevelsAre DEF Interrupt
  <2>6. CASE Kill(i)
    <3>1. ASSUME NEW j \in Levels, sup'[j] = "grace"
          PROVE  /\ Spent(j)' <= Bound(j)
                 /\ j < N /\ shell'[j] = "alive" =>
                      IF notice'[j] # NoSignal THEN Spent(j)' + notice'[j] <= Lag
                      ELSE /\ ctx'[j + 1]
                           /\ run'[j + 1] = "idle" \/ sup'[j + 1] = "watch" => Spent(j)' <= Lag
                           /\ sup'[j + 1] = "grace" => Spent(j)' <= Lag + Spent(j + 1)'
                           /\ Spent(j)' <= Lag + Since(j + 1)'
      <4>1. /\ j # i /\ sup[j] = "grace" /\ shell'[j] = shell[j]
            /\ ctx' = ctx /\ left' = left /\ notice' = notice
        BY <2>6, <3>1, KillIs
      <4>2. ASSUME j < N
            PROVE  /\ j + 1 \in Levels /\ run'[j + 1] = run[j + 1] /\ final'[j + 1] = final[j + 1]
                   /\ sup'[j + 1] = sup[j + 1] \/ sup'[j + 1] = "stopped"
        <5>1. j + 1 \in Levels /\ j + 1 # i + 1
          BY <4>1, <4>2, LevelsAre
        <5>2. final'[j + 1] = final[j + 1]
          BY <2>6, <5>1, OtherPass
        <5>3. run'[j + 1] = run[j + 1] /\ (sup'[j + 1] = sup[j + 1] \/ sup'[j + 1] = "stopped")
          BY <2>6, <5>1, KillIs
        <5>. QED  BY <5>1, <5>2, <5>3
      <4>. QED  BY <4>1, <4>2, LevelsAre
    <3>. QED  BY <3>1
  <2>7. CASE Done(i)
    BY <2>7, LevelsAre DEF Done
  <2>. QED  BY <1>1, <2>1, <2>2, <2>3, <2>4, <2>5, <2>6, <2>7 DEF Call
<1>2. ASSUME NEW i \in Levels, Wrapper(i) \/ SetupFails(i) \/ DieEarly(i) PROVE OnTime'
  <2>1. CASE Notice(i)
    BY <2>1, LevelsAre DEF Notice
  <2>2. CASE StartFinal(i)
    BY <2>2, LevelsAre DEF StartFinal
  <2>3. CASE EndFinal(i)
    BY <2>3, LevelsAre DEF EndFinal
  <2>4. CASE WrapperExits(i)
    BY <2>4, LevelsAre DEF WrapperExits, FinalDone, WrapperCode
  <2>5. CASE SetupFails(i)
    BY <2>5, LevelsAre DEF SetupFails
  <2>6. CASE DieEarly(i)
    BY <2>6, LevelsAre DEF DieEarly
  <2>. QED  BY <1>2, <2>1, <2>2, <2>3, <2>4, <2>5, <2>6 DEF Wrapper
<1>3. CASE PayloadExits
  BY <1>3, LevelsAre DEF PayloadExits
<1>4. CASE Fork
  BY <1>4, LevelsAre DEF Fork
<1>5. CASE KidExits
  BY <1>5, LevelsAre DEF KidExits
<1>6. CASE Reap
  BY <1>6, LevelsAre DEF Reap
<1>7. CASE Cancel
  BY <1>7, LevelsAre DEF Cancel
<1>8. CASE Tick
  <2>. DEFINE Early(i) == sup[i] = "grace" => Spent(i) + 1 <= Bound(i)
  <2>1. ASSUME NEW i \in Levels PROVE ~Urgent(i)
    BY <1>8 DEF Tick
  <2>2. ASSUME NEW i \in Levels, sup[i] = "grace", i < N
        PROVE  shell[i] = "alive" /\ notice[i] # 0
    BY <2>1, <2>2, LevelsAre DEF Urgent, CallsRight, InCall, GroupThere, PipeOpen
  <2>3. ASSUME NEW i \in Levels, sup[i] = "grace", i < N, notice[i] = NoSignal
        PROVE  \/ i + 1 \in Levels /\ sup[i + 1] = "grace" /\ final[i + 1].at = "none"
               \/ i + 1 \in Levels /\ final[i + 1].at = "running" /\ final[i + 1].left > 0
    <3>1. i + 1 \in Levels /\ i + 1 > 1 /\ (i + 1) - 1 = i /\ shell[i] = "alive" /\ ctx[i + 1]
      BY <2>2, <2>3, LevelsAre
    <3>2. run[i + 1] # "idle" /\ run[i + 1] # "lost" /\ sup[i + 1] # "watch"
      BY <2>1, <3>1 DEF Urgent, CallsRight, CallerAlive
    <3>3. CASE run[i + 1] = "returned"
      BY <2>1, <3>1, <3>3 DEF Urgent, CallerAlive
    <3>4. CASE InCall(i + 1)
      <4>1. sup[i + 1] # "stopped"
        <5>. SUFFICES ASSUME sup[i + 1] = "stopped" PROVE FALSE
          OBVIOUS
        <5>1. shell[i + 1] = "gone" /\ (i + 1 = N => kids # "alive") /\ away # "alive"
          BY <3>1, <3>4 DEF CallsRight
        <5>. QED  BY <2>1, <3>1, <3>4, <5>1 DEF Urgent, CallerAlive, InCall, PipeOpen
      <4>2. sup[i + 1] = "grace"
        BY <3>1, <3>2, <3>4, <4>1 DEF CallsRight
      <4>3. final[i + 1].at = "none"
        BY <3>1, <3>4 DEF PassesRight, InCall
      <4>. QED  BY <3>1, <4>2, <4>3
    <3>. QED  BY <3>1, <3>2, <3>3, <3>4 DEF InCall
  <2>4. \A i \in Levels : sup[i] = "grace" => left[i] # 0
    BY <2>1 DEF Urgent
  <2>5. ASSUME NEW i \in Levels, sup[i] = "grace", i < N, i + 1 \in Levels => Early(i + 1)
        PROVE  /\ notice[i] # NoSignal => Spent(i) + notice[i] <= Lag /\ notice[i] > 0
               /\ notice[i] = NoSignal /\ final[i + 1].at = "none" => Spent(i) + 1 <= Lag + Bound(i + 1)
               /\ Early(i)
    BY <2>2, <2>3, <2>5, LevelsAre, BoundIs
  <2>6. \A i \in Levels : Early(i)
    <3>. SUFFICES ASSUME {i \in Levels : ~Early(i)} # {} PROVE FALSE
      OBVIOUS
    <3>1. PICK i \in {j \in Levels : ~Early(j)} : \A j \in {j \in Levels : ~Early(j)} : j <= i
      BY Largest, LevelsAre DEF Levels
    <3>2. i = N
      BY <2>5, <3>1, LevelsAre
    <3>. QED  BY <2>4, <3>1, <3>2, BoundIs, LevelsAre
  <2>7. ctx' = ctx /\ run' = run /\ sup' = sup /\ shell' = shell
    BY <1>8 DEF Tick
  <2>8. ASSUME NEW i \in Levels
        PROVE  /\ sup[i] = "grace" => Spent(i)' = Spent(i) + 1
               /\ notice'[i] = IF notice[i] \in 1..Lag THEN notice[i] - 1 ELSE notice[i]
               /\ final'[i].at = final[i].at
               /\ final[i].at = "running" => final'[i].left = final[i].left - 1
    BY <1>8 DEF Tick
  <2>9. ASSUME NEW i \in Levels, sup[i] = "grace", i < N
        PROVE  IF notice'[i] # NoSignal THEN Spent(i)' + notice'[i] <= Lag
               ELSE /\ ctx'[i + 1]
                    /\ run'[i + 1] = "idle" \/ sup'[i + 1] = "watch" => Spent(i)' <= Lag
                    /\ sup'[i + 1] = "grace" => Spent(i)' <= Lag + Spent(i + 1)'
                    /\ Spent(i)' <= Lag + Since(i + 1)'
    <3>1. CASE notice[i] # NoSignal
      <4>1. notice'[i] # NoSignal /\ notice'[i] = notice[i] - 1
        BY <2>2, <2>8, <2>9, <3>1, LevelsAre
      <4>. QED  BY <2>2, <2>8, <2>9, <3>1, <4>1, LevelsAre
    <3>2. CASE notice[i] = NoSignal
      <4>1. notice'[i] = NoSignal /\ i + 1 \in Levels
        <5>1. NoSignal \notin 1..Lag /\ notice[i] \notin 1..Lag
          BY <3>2, LevelsAre
        <5>2. notice'[i] = notice[i]
          BY <2>8, <5>1
        <5>. QED  BY <2>9, <3>2, <5>2, LevelsAre
      <4>2. ctx[i + 1] /\ Spent(i) <= Lag + Since(i + 1)
            /\ (run[i + 1] = "idle" \/ sup[i + 1] = "watch" => Spent(i) <= Lag)
            /\ (sup[i + 1] = "grace" => Spent(i) <= Lag + Spent(i + 1))
        BY <2>2, <2>9, <3>2
      <4>3. CASE sup[i + 1] = "grace" /\ final[i + 1].at = "none"
        BY <2>5, <2>6, <2>7, <2>8, <2>9, <3>2, <4>1, <4>2, <4>3, LevelsAre DEF CallsRight
      <4>4. CASE final[i + 1].at = "running" /\ final[i + 1].left > 0
        BY <2>7, <2>8, <2>9, <4>1, <4>2, <4>4, LevelsAre DEF CallsRight, PassesRight, InCall
      <4>. QED  BY <2>3, <2>9, <3>2, <4>3, <4>4
    <3>. QED  BY <3>1, <3>2
  <2>. QED  BY <2>6, <2>7, <2>8, <2>9
<1>. QED  BY <1>1, <1>2, <1>3, <1>4, <1>5, <1>6, <1>7, <1>8 DEF Next
-----------------------------------------------------------------------------
(* What the grace periods are long enough for.                             *)

\* The wrappers pass SIGINT on so quickly that the tolerance makes up for it, and no
\* child leaves its group.
Prompt == ~MayEscape /\ (N - 1) * Lag < Extra

\* The innermost wrapper makes a final pass, for which every grace period is extended.
Cleans == N > 1 => Final[N] > 0

LEMMA GraceSuffices ==
    ASSUME TypeOK, OnTime, Prompt, NEW i \in Levels, Cleanup(i) > 0, sup[i] = "grace"
    PROVE  left[i] > 0
<1>1. Grace(i) = StopTimeout + Cleanup(i) + Extra
  BY DEF Grace
<1>2. PICK a : a = (N - i) * Lag
  OBVIOUS
<1>3. PICK b : b = (N - 1) * Lag
  OBVIOUS
<1>4. a \in Nat /\ b \in Nat /\ a <= b
  <2>1. \A x, y \in Nat : x * y \in Nat
    OBVIOUS
  <2>2. \A x, y, z \in Nat : (x + y) * z = x * z + y * z
    OBVIOUS
  <2>3. N - i \in Nat /\ i - 1 \in Nat /\ N - 1 = (N - i) + (i - 1) /\ Lag \in Nat
    BY LevelsAre
  <2>4. b = a + (i - 1) * Lag
    BY <1>2, <1>3, <2>2, <2>3
  <2>5. (i - 1) * Lag \in Nat /\ a \in Nat
    BY <1>2, <2>1, <2>3
  <2>. QED  BY <2>4, <2>5
<1>5. Bound(i) = StopTimeout + Cleanup(i) + a
  BY <1>2, Zenon DEF Bound
<1>6. b < Extra
  BY <1>3, Zenon DEF Prompt
<1>7. Spent(i) <= Bound(i)
  BY DEF OnTime
<1>8. left[i] \in Nat /\ StopTimeout \in Nat /\ Cleanup(i) \in Nat /\ Extra \in Nat
  BY LevelsAre, CleanupIs DEF TypeOK
<1>. QED  BY <1>1, <1>4, <1>5, <1>6, <1>7, <1>8 DEF Spent

LEMMA PassNotKilled ==
    ASSUME TypeOK, PassesRight, OnTime, Prompt, NEW i \in Levels, Kill(i), NEW j \in Levels, final'[j].at = "killed"
    PROVE  final[j].at = "killed"
<1>. SUFFICES ASSUME final[j].at # "killed" PROVE FALSE
  OBVIOUS
<1>1. j = i + 1 /\ final[j].at = "running"
  <2>. SUFFICES ASSUME ~(j = i + 1 /\ final[j].at = "running") PROVE FALSE
    OBVIOUS
  <2>. QED  BY OtherPass
<1>2. Final[j] > 0 /\ i < N
  BY <1>1, LevelsAre DEF PassesRight
<1>3. Cleanup(i) > 0
  BY <1>1, <1>2, CleanupIs, LevelsAre
<1>4. sup[i] = "grace" /\ left[i] = 0
  BY KillIs
<1>. QED  BY <1>3, <1>4, GraceSuffices

LEMMA KeptStep ==
    ASSUME TypeOK, PassesRight, OnTime, Prompt, FinalPassKept, Next
    PROVE  FinalPassKept'
<1>. /\ ctx \in [Levels -> BOOLEAN] /\ notice \in [Levels -> 0..NoSignal] /\ left \in [Levels -> Nat]
     /\ run \in [Levels -> {"idle", "wait", "children", "closing", "returned", "lost"}]
     /\ sup \in [Levels -> {"off", "watch", "grace", "stopped"}]
     /\ shell \in [Levels -> {"none", "alive", "gone"}]
     /\ code \in [Levels -> {"none", "ok", "fail", "signal"}]
     /\ final \in [Levels -> [at : {"none", "running", "ok", "failed", "skipped", "killed"}, left : Nat]]
     /\ kids \in {"none", "alive", "zombie"} /\ away \in {"none", "alive"}
  BY DEF TypeOK
<1>. USE DEF FinalPassKept
<1>1. ASSUME NEW i \in Levels, Call(i) PROVE FinalPassKept'
  <2>1. CASE Start(i)
    BY <2>1, LevelsAre DEF Start
  <2>2. CASE WaitReturns(i)
    BY <2>2, LevelsAre DEF WaitReturns
  <2>3. CASE ChildrenGone(i)
    BY <2>3, LevelsAre DEF ChildrenGone
  <2>4. CASE Return(i)
    BY <2>4, LevelsAre DEF Return
  <2>5. CASE Interrupt(i)
    BY <2>5, LevelsAre DEF Interrupt
  <2>6. CASE Kill(i)
    BY <2>6, PassNotKilled
  <2>7. CASE Done(i)
    BY <2>7, LevelsAre DEF Done
  <2>. QED  BY <1>1, <2>1, <2>2, <2>3, <2>4, <2>5, <2>6, <2>7 DEF Call
<1>2. ASSUME NEW i \in Levels, Wrapper(i) \/ SetupFails(i) \/ DieEarly(i) PROVE FinalPassKept'
  <2>1. CASE Notice(i)
    BY <2>1, LevelsAre DEF Notice
  <2>2. CASE StartFinal(i)
    BY <2>2, LevelsAre DEF StartFinal
  <2>3. CASE EndFinal(i)
    BY <2>3, LevelsAre DEF EndFinal
  <2>4. CASE WrapperExits(i)
    BY <2>4, LevelsAre DEF WrapperExits, FinalDone, WrapperCode
  <2>5. CASE SetupFails(i)
    BY <2>5, LevelsAre DEF SetupFails
  <2>6. CASE DieEarly(i)
    BY <2>6, LevelsAre DEF DieEarly
  <2>. QED  BY <1>2, <2>1, <2>2, <2>3, <2>4, <2>5, <2>6 DEF Wrapper
<1>3. CASE PayloadExits
  BY <1>3, LevelsAre DEF PayloadExits
<1>4. CASE Fork
  BY <1>4, LevelsAre DEF Fork
<1>5. CASE KidExits
  BY <1>5, LevelsAre DEF KidExits
<1>6. CASE Reap
  BY <1>6, LevelsAre DEF Reap
<1>7. CASE Cancel
  BY <1>7, LevelsAre DEF Cancel
<1>8. CASE Tick
  BY <1>8, LevelsAre DEF Tick
<1>. QED  BY <1>1, <1>2, <1>3, <1>4, <1>5, <1>6, <1>7, <1>8 DEF Next

LEMMA CleanupPositive ==
    ASSUME Cleans, NEW i \in Levels, i < N
    PROVE  Cleanup(i) > 0
<1>. SUFFICES ASSUME Cleanup(i) = 0 PROVE FALSE
  BY CleanupIs
<1>1. PICK T : T = {j \in Levels : j < N /\ Cleanup(j) = 0}
  OBVIOUS
<1>2. PICK k \in T : \A j \in T : j <= k
  BY <1>1, Largest, LevelsAre DEF Levels
<1>3. k + 1 \in Levels /\ Cleanup(k + 1) = 0 /\ Final[k + 1] = 0
  BY <1>1, <1>2, CleanupIs, LevelsAre
<1>4. k + 1 # N
  BY <1>2, <1>3, LevelsAre DEF Cleans
<1>. QED  BY <1>1, <1>2, <1>3, <1>4, LevelsAre

\* No call is lost with the wrapper that made it.
NoneLost == \A i \in Levels : run[i] # "lost"


LEMMA NoneLostStep ==
    ASSUME TypeOK, OnTime, Prompt, Cleans, NoneLost, Next
    PROVE  NoneLost'
<1>. /\ ctx \in [Levels -> BOOLEAN] /\ notice \in [Levels -> 0..NoSignal] /\ left \in [Levels -> Nat]
     /\ run \in [Levels -> {"idle", "wait", "children", "closing", "returned", "lost"}]
     /\ sup \in [Levels -> {"off", "watch", "grace", "stopped"}]
     /\ shell \in [Levels -> {"none", "alive", "gone"}]
     /\ code \in [Levels -> {"none", "ok", "fail", "signal"}]
     /\ final \in [Levels -> [at : {"none", "running", "ok", "failed", "skipped", "killed"}, left : Nat]]
     /\ kids \in {"none", "alive", "zombie"} /\ away \in {"none", "alive"}
  BY DEF TypeOK
<1>. USE DEF NoneLost
<1>1. ASSUME NEW i \in Levels, Call(i) PROVE NoneLost'
  <2>1. CASE Start(i)
    BY <2>1, LevelsAre DEF Start
  <2>2. CASE WaitReturns(i)
    BY <2>2, LevelsAre DEF WaitReturns
  <2>3. CASE ChildrenGone(i)
    BY <2>3, LevelsAre DEF ChildrenGone
  <2>4. CASE Return(i)
    BY <2>4, LevelsAre DEF Return
  <2>5. CASE Interrupt(i)
    BY <2>5, LevelsAre DEF Interrupt
  <2>6. CASE Kill(i)
    <3>1. CASE i = N \/ shell[i] # "alive"
      BY <2>6, <3>1, LevelsAre, KillIs
    <3>2. CASE i < N /\ shell[i] = "alive"
      <4>1. sup[i] = "grace" /\ left[i] = 0 /\ Cleanup(i) > 0
        BY <2>6, <3>2, KillIs, CleanupPositive
      <4>. QED  BY <4>1, GraceSuffices
    <3>. QED  BY <3>1, <3>2, LevelsAre
  <2>7. CASE Done(i)
    BY <2>7, LevelsAre DEF Done
  <2>. QED  BY <1>1, <2>1, <2>2, <2>3, <2>4, <2>5, <2>6, <2>7 DEF Call
<1>2. ASSUME NEW i \in Levels, Wrapper(i) \/ SetupFails(i) \/ DieEarly(i) PROVE NoneLost'
  <2>1. CASE Notice(i)
    BY <2>1, LevelsAre DEF Notice
  <2>2. CASE StartFinal(i)
    BY <2>2, LevelsAre DEF StartFinal
  <2>3. CASE EndFinal(i)
    BY <2>3, LevelsAre DEF EndFinal
  <2>4. CASE WrapperExits(i)
    BY <2>4, LevelsAre DEF WrapperExits, FinalDone, WrapperCode
  <2>5. CASE SetupFails(i)
    BY <2>5, LevelsAre DEF SetupFails
  <2>6. CASE DieEarly(i)
    BY <2>6, LevelsAre DEF DieEarly
  <2>. QED  BY <1>2, <2>1, <2>2, <2>3, <2>4, <2>5, <2>6 DEF Wrapper
<1>3. CASE PayloadExits
  BY <1>3, LevelsAre DEF PayloadExits
<1>4. CASE Fork
  BY <1>4, LevelsAre DEF Fork
<1>5. CASE KidExits
  BY <1>5, LevelsAre DEF KidExits
<1>6. CASE Reap
  BY <1>6, LevelsAre DEF Reap
<1>7. CASE Cancel
  BY <1>7, LevelsAre DEF Cancel
<1>8. CASE Tick
  BY <1>8, LevelsAre DEF Tick
<1>. QED  BY <1>1, <1>2, <1>3, <1>4, <1>5, <1>6, <1>7, <1>8 DEF Next

LEMMA NestedThen ==
    ASSUME TypeOK, CallsRight, NoneLost
    PROVE  Nested /\ NothingSurvives
<1>1. ASSUME NEW i \in Levels, shell[i] = "alive"
      PROVE  run[i] = "wait" /\ CallerAlive(i)
  BY <1>1 DEF TypeOK, CallsRight, NoneLost, InCall
<1>2. Nested
  <2>. SUFFICES ASSUME NEW i \in Levels, NEW j \in Levels, i < j, shell[j] = "alive", shell[i] # "alive"
                PROVE  FALSE
    BY DEF Nested
  <2>1. PICK T : T = {k \in Levels : k < j /\ shell[k] # "alive"}
    OBVIOUS
  <2>2. PICK k \in T : \A m \in T : m <= k
    <3>1. T \subseteq 1..N /\ i \in T
      BY <2>1 DEF Levels
    <3>. QED  BY <3>1, Largest, LevelsAre
  <2>3. k + 1 \in Levels /\ k + 1 <= j /\ k + 1 # 1 /\ (k + 1) - 1 = k
    BY <2>1, <2>2, LevelsAre
  <2>4. shell[k + 1] = "alive"
    BY <2>1, <2>2, <2>3, LevelsAre
  <2>. QED  BY <1>1, <2>1, <2>2, <2>3, <2>4 DEF CallerAlive
<1>3. NothingSurvives
  <2>. SUFFICES ASSUME run[1] = "returned"
                PROVE  kids # "alive" /\ \A i \in Levels : shell[i] # "alive"
    BY DEF NothingSurvives
  <2>1. shell[1] # "alive"
    BY LevelsAre DEF CallsRight
  <2>2. ASSUME NEW i \in Levels PROVE shell[i] # "alive"
    BY <1>2, <2>1, LevelsAre DEF Nested
  <2>3. run[N] # "wait"
    <3>1. CASE N = 1
      BY <3>1
    <3>2. CASE N > 1
      BY <2>2, <3>2, LevelsAre DEF CallsRight, InCall, CallerAlive
    <3>. QED  BY <3>1, <3>2, LevelsAre
  <2>4. kids # "alive"
    BY <2>3, LevelsAre DEF TypeOK, CallsRight, NoneLost
  <2>. QED  BY <2>2, <2>4
<1>. QED  BY <1>2, <1>3
-----------------------------------------------------------------------------
(* The start of a daemon.                                                  *)

LEMMA DaemonStep ==
    ASSUME Daemon!TypeOK, Daemon!HandshakeRight, Daemon!StartedWasReady, Daemon!FailedIsReaped, Daemon!Next
    PROVE  Daemon!TypeOK' /\ Daemon!HandshakeRight' /\ Daemon!StartedWasReady' /\ Daemon!FailedIsReaped'
<1>. USE DEF Daemon!TypeOK, Daemon!HandshakeRight, Daemon!StartedWasReady, Daemon!FailedIsReaped, Daemon!registry
<1>1. CASE Daemon!ContextEnds
  <2>1. /\ live' = FALSE /\ caller' = caller /\ child' = child /\ hangs' = hangs /\ row' = row
        /\ forced' = forced /\ term' = term /\ pipe' = pipe /\ answer' = answer
    BY <1>1 DEF Daemon!ContextEnds
  <2>2. Daemon!TypeOK'
    <3>1. live' \in BOOLEAN
      BY <2>1
    <3>2. term' \in BOOLEAN /\ forced' \in BOOLEAN
      BY <2>1, Zenon
    <3>3. pipe' \in [byte : BOOLEAN, writers : SUBSET {"caller", "child"}, reader : BOOLEAN]
      BY <2>1, Zenon
    <3>. QED  BY <2>1, <3>1, <3>2, <3>3
  <2>3. Daemon!HandshakeRight' /\ Daemon!StartedWasReady' /\ Daemon!FailedIsReaped'
    BY <2>1
  <2>. QED  BY <2>2, <2>3, Zenon
<1>2. CASE Daemon!Start
  <2>1. /\ caller = "start" /\ hangs' = hangs /\ row' = row /\ live' = live
        /\ forced' = forced /\ term' = term /\ answer' = answer
    BY <1>2 DEF Daemon!Start
  <2>2. CASE live
    <3>1. /\ caller' = "open" /\ child' = "starting"
          /\ pipe' = [byte |-> FALSE, writers |-> {"caller", "child"}, reader |-> TRUE]
      BY <1>2, <2>2 DEF Daemon!Start
    <3>. QED  BY <2>1, <3>1
  <2>3. CASE ~live
    <3>1. caller' = "error" /\ child' = child /\ pipe' = pipe
      BY <1>2, <2>3 DEF Daemon!Start
    <3>. QED  BY <2>1, <3>1
  <2>. QED  BY <2>2, <2>3
<1>3. CASE Daemon!StartFails
  BY <1>3 DEF Daemon!StartFails
<1>4. CASE Daemon!CloseWriter
  BY <1>4 DEF Daemon!CloseWriter
<1>5. CASE Daemon!Reads
  BY <1>5 DEF Daemon!Reads
<1>6. CASE Daemon!SelectDone
  <2>1. /\ caller = "await" /\ answer # "none" /\ live' = live /\ hangs' = hangs /\ row' = row
        /\ forced' = forced /\ answer' = answer /\ child' = child
    BY <1>6 DEF Daemon!SelectDone, Daemon!Release, Daemon!Stop
  <2>2. CASE live /\ answer = "ready"
    <3>1. /\ caller' = "ok" /\ term' = term
          /\ pipe' = [byte |-> pipe.byte, writers |-> pipe.writers, reader |-> FALSE]
      BY <1>6, <2>2 DEF Daemon!SelectDone, Daemon!Release
    <3>. QED  BY <2>1, <2>2, <3>1
  <2>3. CASE ~(live /\ answer = "ready")
    <3>1. caller' = "stopping" /\ term' = TRUE /\ pipe' = pipe
      BY <1>6, <2>3 DEF Daemon!SelectDone, Daemon!Stop
    <3>. QED  BY <2>1, <3>1
  <2>. QED  BY <2>2, <2>3
<1>7. CASE Daemon!SelectContext
  <2>1. /\ caller = "await" /\ live' = live /\ hangs' = hangs /\ row' = row
        /\ forced' = forced /\ answer' = answer /\ child' = child /\ caller' = "stopping" /\ term' = TRUE
        /\ pipe' = [byte |-> pipe.byte, writers |-> pipe.writers, reader |-> FALSE]
    BY <1>7 DEF Daemon!SelectContext, Daemon!Stop
  <2>. QED  BY <2>1
<1>8. CASE Daemon!Reap
  BY <1>8 DEF Daemon!Reap
<1>9. CASE Daemon!Kill
  BY <1>9 DEF Daemon!Kill, Daemon!Alive
<1>10. CASE Daemon!Die
  <2>1. /\ caller' = "dead" /\ child' = child /\ hangs' = hangs /\ row' = row /\ live' = live
        /\ forced' = forced /\ term' = term /\ answer' = answer
        /\ pipe' = [byte |-> pipe.byte, writers |-> pipe.writers \ {"caller"}, reader |-> FALSE]
    BY <1>10 DEF Daemon!Die
  <2>2. caller \in {"open", "await", "stopping"}
    BY <1>10 DEF Daemon!Die
  <2>. QED  BY <2>1, <2>2
<1>11. CASE Daemon!RegisterWorker
  BY <1>11 DEF Daemon!RegisterWorker, Daemon!Child, Daemon!Closed
<1>12. CASE Daemon!Ready
  <2>1. /\ child = "registered" /\ caller' = caller /\ hangs' = hangs /\ row' = row /\ live' = live
        /\ forced' = forced /\ term' = term /\ answer' = answer
    BY <1>12 DEF Daemon!Ready, Daemon!Child
  <2>2. /\ pipe.reader => child' = "working" /\ pipe' = [byte |-> TRUE, writers |-> pipe.writers \ {"child"}, reader |-> pipe.reader]
        /\ ~pipe.reader => child' = "winding" /\ pipe' = [byte |-> pipe.byte, writers |-> pipe.writers \ {"child"}, reader |-> pipe.reader]
    BY <1>12 DEF Daemon!Ready, Daemon!Child, Daemon!Closed
  <2>3. Daemon!TypeOK'
    <3>1. live' \in BOOLEAN /\ term' \in BOOLEAN /\ forced' \in BOOLEAN
      BY <2>1, Zenon
    <3>2. /\ pipe' \in [byte : BOOLEAN, writers : SUBSET {"caller", "child"}, reader : BOOLEAN]
          /\ "child" \notin pipe'.writers /\ child' \in {"working", "winding"}
      <4>1. CASE pipe.reader
        <5>1. PICK b \in BOOLEAN : b = TRUE
          OBVIOUS
        <5>2. pipe' = [byte |-> b, writers |-> pipe.writers \ {"child"}, reader |-> pipe.reader] /\ child' = "working"
          BY <2>2, <4>1, <5>1, Zenon
        <5>. QED  BY <5>2
      <4>2. CASE ~pipe.reader
        BY <2>2, <4>2
      <4>. QED  BY <4>1, <4>2
    <3>. QED  BY <2>1, <3>1, <3>2
  <2>4. Daemon!HandshakeRight' /\ Daemon!StartedWasReady' /\ Daemon!FailedIsReaped'
    BY <2>1, <2>2
  <2>. QED  BY <2>3, <2>4, Zenon
<1>13. CASE Daemon!Winds
  BY <1>13 DEF Daemon!Winds, Daemon!Child, Daemon!Closed
<1>14. CASE Daemon!Exits
  BY <1>14 DEF Daemon!Exits, Daemon!Child, Daemon!Closed
<1>15. CASE Daemon!Crash
  BY <1>15 DEF Daemon!Crash, Daemon!Alive, Daemon!Child, Daemon!Closed
<1>. QED  BY <1>1, <1>2, <1>3, <1>4, <1>5, <1>6, <1>7, <1>8, <1>9, <1>10, <1>11, <1>12, <1>13, <1>14, <1>15 DEF Daemon!Next, Daemon!StartDaemon
-----------------------------------------------------------------------------
(* The two together.                                                       *)

LEMMA GroupInit == Init => GroupInv /\ OnTime /\ FinalPassKept /\ NoneLost
<1>. SUFFICES ASSUME Init PROVE GroupInv /\ OnTime /\ FinalPassKept /\ NoneLost
  OBVIOUS
<1>1. TypeOK
  BY LevelsAre, CleanupIs DEF Init, TypeOK, NoSignal
<1>2. CallsRight /\ PassesRight /\ OnTime /\ FinalPassKept /\ NoneLost
  BY LevelsAre DEF Init, CallsRight, PassesRight, InCall, GroupThere, OnTime, FinalPassKept, NoneLost
<1>3. SuccessPassedOn /\ SuccessIsWhole
  BY LevelsAre DEF Init, SuccessPassedOn, SuccessIsWhole
<1>. QED  BY <1>1, <1>2, <1>3 DEF GroupInv

LEMMA GroupStep == GroupInv /\ Next => GroupInv'
BY TypeStep, CallsStep, PassesStep, PassedOnStep, WholeStep DEF GroupInv

LEMMA DaemonInit ==
    Daemon!Init => Daemon!TypeOK /\ Daemon!HandshakeRight /\ Daemon!StartedWasReady /\ Daemon!FailedIsReaped
<1>. SUFFICES ASSUME Daemon!Init
              PROVE  Daemon!TypeOK /\ Daemon!HandshakeRight /\ Daemon!StartedWasReady /\ Daemon!FailedIsReaped
  OBVIOUS
<1>1. PICK b \in BOOLEAN : b = FALSE
  OBVIOUS
<1>2. pipe = [byte |-> b, writers |-> {}, reader |-> b] /\ forced = b /\ term = b
  BY <1>1, Zenon DEF Daemon!Init
<1>3. live \in BOOLEAN
  BY DEF Daemon!Init
<1>4. /\ caller = "start" /\ child = "none" /\ hangs \in {"never", "start", "stop"}
      /\ row = "none" /\ answer = "none"
  BY DEF Daemon!Init
<1>. QED
  BY <1>2, <1>3, <1>4 DEF Daemon!TypeOK, Daemon!HandshakeRight, Daemon!StartedWasReady, Daemon!FailedIsReaped

LEMMA GroupRests ==
    ASSUME UNCHANGED vars
    PROVE  /\ GroupInv => GroupInv'
           /\ OnTime => OnTime'
           /\ FinalPassKept => FinalPassKept'
           /\ NoneLost => NoneLost'
<1>. USE DEF vars
<1>1. GroupInv => GroupInv'
  BY DEF GroupInv, TypeOK, CallsRight, PassesRight, SuccessPassedOn, SuccessIsWhole, FinalDone, InCall, CallerAlive,
         GroupThere, NoSignal, Grace, Cleanup
<1>2. OnTime => OnTime'
  BY DEF OnTime, Spent, Since, Bound, NoSignal, Grace, Cleanup
<1>3. (FinalPassKept => FinalPassKept') /\ (NoneLost => NoneLost')
  BY DEF FinalPassKept, NoneLost
<1>. QED  BY <1>1, <1>2, <1>3

LEMMA DaemonRests ==
    ASSUME UNCHANGED daemonVars
    PROVE  /\ Daemon!TypeOK => Daemon!TypeOK'
           /\ Daemon!HandshakeRight => Daemon!HandshakeRight'
           /\ Daemon!StartedWasReady => Daemon!StartedWasReady'
           /\ Daemon!FailedIsReaped => Daemon!FailedIsReaped'
BY DEF daemonVars, Daemon!TypeOK, Daemon!HandshakeRight, Daemon!StartedWasReady, Daemon!FailedIsReaped

LEMMA PartsInvariant == PartsSpec => [](ProcessesInv /\ Daemon!FailedIsReaped)
<1>. DEFINE Inv == ProcessesInv /\ Daemon!FailedIsReaped
<1>1. PartsInit => Inv
  BY GroupInit, DaemonInit DEF PartsInit, ProcessesInv
<1>2. Inv /\ [PartsNext]_all => Inv'
  <2>. SUFFICES ASSUME Inv, [PartsNext]_all PROVE Inv'
    OBVIOUS
  <2>1. GroupInv'
    BY GroupStep, GroupRests DEF ProcessesInv, PartsNext, all
  <2>2. Daemon!TypeOK' /\ Daemon!HandshakeRight' /\ Daemon!StartedWasReady' /\ Daemon!FailedIsReaped'
    BY DaemonStep, DaemonRests DEF ProcessesInv, PartsNext, all
  <2>. QED  BY <2>1, <2>2 DEF ProcessesInv
<1>. QED  BY <1>1, <1>2, PTL DEF PartsSpec

\* Types hold, a call goes on while its caller is there, and success is real: of a call whose
\* payload succeeded, was not told to stop and whose final passes were made, of a worker that
\* has confirmed its readiness.
THEOREM ProcessesRight == PartsSpec => []ProcessesInv
BY PartsInvariant, PTL

LEMMA OnTimeInvariant == ~MayEscape => (PartsSpec => []OnTime)
<1>. SUFFICES ASSUME ~MayEscape PROVE PartsSpec => []OnTime
  OBVIOUS
<1>1. PartsInit => OnTime
  BY GroupInit DEF PartsInit
<1>2. ProcessesInv /\ OnTime /\ [PartsNext]_all => OnTime'
  BY OnTimeStep, GroupRests DEF ProcessesInv, GroupInv, PartsNext, all
<1>. QED  BY <1>1, <1>2, ProcessesRight, PTL DEF PartsSpec

\* The final pass of a wrapper is not killed, though the payload ignores SIGINT: the grace
\* period of every level covers the passes below it and the time the wrappers take.
THEOREM FinalPassesKept == Prompt => (PartsSpec => []FinalPassKept)
<1>. SUFFICES ASSUME Prompt PROVE PartsSpec => []FinalPassKept
  OBVIOUS
<1>1. PartsInit => FinalPassKept
  BY GroupInit DEF PartsInit
<1>2. ProcessesInv /\ OnTime /\ FinalPassKept /\ [PartsNext]_all => FinalPassKept'
  BY KeptStep, GroupRests DEF ProcessesInv, GroupInv, PartsNext, all
<1>3. PartsSpec => []OnTime
  BY OnTimeInvariant DEF Prompt
<1>. QED  BY <1>1, <1>2, <1>3, ProcessesRight, PTL DEF PartsSpec

\* When the worker's call has returned no process of the task is left that could write, and
\* after an error of the daemon no child goes on: no wrapper is killed before it has killed
\* what it started.
THEOREM NothingIsLeft == Prompt /\ Cleans => (PartsSpec => []NothingLeft)
<1>. SUFFICES ASSUME Prompt, Cleans PROVE PartsSpec => []NothingLeft
  OBVIOUS
<1>1. PartsInit => NoneLost
  BY GroupInit DEF PartsInit
<1>2. ProcessesInv /\ OnTime /\ NoneLost /\ [PartsNext]_all => NoneLost'
  BY NoneLostStep, GroupRests DEF ProcessesInv, GroupInv, PartsNext, all
<1>3. ProcessesInv /\ OnTime /\ NoneLost /\ Daemon!FailedIsReaped => NothingLeft
  BY NestedThen DEF ProcessesInv, GroupInv, NothingLeft
<1>4. PartsSpec => []OnTime
  BY OnTimeInvariant DEF Prompt
<1>. QED  BY <1>1, <1>2, <1>3, <1>4, PartsInvariant, PTL DEF PartsSpec
=============================================================================
