--------------------------- MODULE SchedulerProofs ---------------------------
(* Theorems about the scheduler, for any tasks, periods, durations and number *)
(* of processors; the last ones for one processor and a light load.           *)
EXTENDS Scheduler, SequenceTheorems, TLAPS

(* What the removal of place n leaves: the others, in their order.            *)
LEMMA WithoutPlace ==
  ASSUME NEW S, NEW queue \in Seq(S), NEW n \in 1 .. Len(queue)
  PROVE  /\ Without(queue, n) \in Seq(S)
         /\ Len(Without(queue, n)) = Len(queue) - 1
         /\ \A m \in 1 .. Len(queue) - 1 :
              Without(queue, n)[m] = IF m < n THEN queue[m] ELSE queue[m + 1]
<1> DEFINE front == SubSeq(queue, 1, n - 1)
           back  == SubSeq(queue, n + 1, Len(queue))
<1>1. /\ Len(queue) \in Nat
      /\ \A i \in 1 .. Len(queue) : queue[i] \in S
  BY LenProperties
<1>2. /\ front \in Seq(S)
      /\ Len(front) = n - 1
      /\ \A i \in 1 .. n - 1 : front[i] = queue[i]
  <2>1. \A i \in 1 .. n - 1 : queue[i] \in S
    BY <1>1
  <2> HIDE DEF front
  <2>2. /\ front \in Seq(S)
        /\ Len(front) = IF 1 <= n - 1 THEN (n - 1) - 1 + 1 ELSE 0
        /\ \A i \in 1 .. (n - 1) - 1 + 1 : front[i] = queue[1 + i - 1]
    BY <2>1, <1>1, SubSeqProperties DEF front
  <2> QED  BY <2>2, <1>1
<1>3. /\ back \in Seq(S)
      /\ Len(back) = Len(queue) - n
      /\ \A i \in 1 .. Len(queue) - n : back[i] = queue[n + i]
  <2>1. \A i \in n + 1 .. Len(queue) : queue[i] \in S
    BY <1>1
  <2> HIDE DEF back
  <2>2. /\ back \in Seq(S)
        /\ Len(back) = IF n + 1 <= Len(queue) THEN Len(queue) - (n + 1) + 1 ELSE 0
        /\ \A i \in 1 .. Len(queue) - (n + 1) + 1 : back[i] = queue[n + 1 + i - 1]
    BY <2>1, <1>1, SubSeqProperties DEF back
  <2> QED  BY <2>2, <1>1
<1>4. Without(queue, n) = front \o back
  BY DEF Without
<1> HIDE DEF front, back
<1>5. /\ front \o back \in Seq(S)
      /\ Len(front \o back) = Len(front) + Len(back)
      /\ \A i \in 1 .. Len(front) + Len(back) :
           (front \o back)[i] = IF i <= Len(front) THEN front[i]
                                ELSE back[i - Len(front)]
  BY <1>2, <1>3, ConcatProperties
<1> QED  BY <1>1, <1>2, <1>3, <1>4, <1>5

(* The invariant: the types, and that the queue holds each thread with a job  *)
(* once.  OneJobPerThread is inductive on top of the types, because a thread  *)
(* enters the queue only as it stops waiting, and leaves it from its one      *)
(* place.                                                                     *)
IInv == TypeOK /\ OneJobPerThread

LEMMA InitInvariant == Init => IInv
BY TasksAssumption DEF Init, IInv, TypeOK, OneJobPerThread

(* sem_wait() returns in a thread that waits. *)
LEMMA BeginInvariant ==
  ASSUME IInv, NEW t \in Tasks, thread[t] = "wait", Begin(t),
         UNCHANGED semaphore, timer' \in [Tasks -> Nat],
         g_running' \in BOOLEAN, main' = main
  PROVE  IInv'
<1>1. /\ ready \in Seq(Tasks)
      /\ ready' = Append(ready, t)
      /\ thread \in [Tasks -> {"wait", "work", "done"}]
      /\ thread' = [thread EXCEPT ![t] = "work"]
  BY DEF IInv, TypeOK, Begin
<1>2. /\ Len(ready) \in Nat
      /\ DOMAIN ready = 1 .. Len(ready)
  BY <1>1, LenProperties
<1>3. /\ ready' \in Seq(Tasks)
      /\ Len(ready') = Len(ready) + 1
      /\ \A i \in 1 .. Len(ready) : ready'[i] = ready[i]
      /\ ready'[Len(ready) + 1] = t
  BY <1>1, AppendProperties
<1>4. DOMAIN ready' = 1 .. Len(ready) + 1
  BY <1>3, LenProperties
<1>5. \A n \in 1 .. Len(ready) : ready[n] # t
  BY <1>2 DEF IInv, OneJobPerThread
<1>6. TypeOK'
  BY <1>3, TasksAssumption DEF IInv, TypeOK, Begin
<1>7. ASSUME NEW u \in Tasks
      PROVE  thread'[u] = "work" <=> \E n \in DOMAIN ready' : ready'[n] = u
  <2>1. CASE u = t
    BY <2>1, <1>1, <1>2, <1>3, <1>4
  <2>2. CASE u # t
    <3>1. thread'[u] = thread[u]
      BY <2>2, <1>1
    <3>2. thread[u] = "work" <=> \E n \in 1 .. Len(ready) : ready[n] = u
      BY <1>2 DEF IInv, OneJobPerThread
    <3>3. (\E n \in 1 .. Len(ready) : ready[n] = u)
            <=> \E n \in 1 .. Len(ready) + 1 : ready'[n] = u
      BY <2>2, <1>2, <1>3
    <3> QED  BY <3>1, <3>2, <3>3, <1>4
  <2> QED  BY <2>1, <2>2
<1>8. ASSUME NEW m \in DOMAIN ready', NEW n \in DOMAIN ready', ready'[m] = ready'[n]
      PROVE  m = n
  <2>1. \A k, l \in 1 .. Len(ready) : ready[k] = ready[l] => k = l
    BY <1>2 DEF IInv, OneJobPerThread
  <2> QED  BY <2>1, <1>2, <1>3, <1>4, <1>5, <1>8
<1>9. \A u \in Tasks : thread'[u] = "wait" => semaphore'[u] = 0
  BY <1>1 DEF IInv, OneJobPerThread
<1> QED  BY <1>6, <1>7, <1>8, <1>9 DEF IInv, OneJobPerThread

(* A thread that has worked waits, or ends. *)
LEMMA LeaveInvariant ==
  ASSUME IInv, NEW t \in Tasks,
         NEW next \in {"wait", "done"}, next = "wait" => semaphore[t] = 0,
         Leave(t, next), UNCHANGED <<timer, g_running, main>>
  PROVE  IInv'
<1>1. /\ ready \in Seq(Tasks)
      /\ thread \in [Tasks -> {"wait", "work", "done"}]
      /\ thread' = [thread EXCEPT ![t] = next]
      /\ UNCHANGED <<semaphore, left>>
  BY DEF IInv, TypeOK, Leave
<1>2. /\ Len(ready) \in Nat
      /\ DOMAIN ready = 1 .. Len(ready)
  BY <1>1, LenProperties
<1>3. PICK n \in 1 .. Len(ready) : ready[n] = t /\ ready' = Without(ready, n)
  BY <1>2 DEF Leave
<1>4. /\ ready' \in Seq(Tasks)
      /\ Len(ready') = Len(ready) - 1
      /\ \A m \in 1 .. Len(ready) - 1 :
           ready'[m] = IF m < n THEN ready[m] ELSE ready[m + 1]
  BY <1>1, <1>3, WithoutPlace
<1>5. DOMAIN ready' = 1 .. Len(ready) - 1
  BY <1>4, LenProperties
<1>6. \A k, l \in 1 .. Len(ready) : ready[k] = ready[l] => k = l
  BY <1>2 DEF IInv, OneJobPerThread
<1>7. TypeOK'
  BY <1>1, <1>4 DEF IInv, TypeOK
<1>8. ASSUME NEW u \in Tasks
      PROVE  thread'[u] = "work" <=> \E m \in DOMAIN ready' : ready'[m] = u
  <2>1. CASE u = t
    <3>1. \A m \in 1 .. Len(ready) - 1 : ready'[m] # t
      BY <1>2, <1>3, <1>4, <1>6
    <3> QED  BY <2>1, <3>1, <1>1, <1>5
  <2>2. CASE u # t
    <3>1. thread'[u] = thread[u]
      BY <2>2, <1>1
    <3>2. thread[u] = "work" <=> \E m \in 1 .. Len(ready) : ready[m] = u
      BY <1>2 DEF IInv, OneJobPerThread
    <3>3. ASSUME NEW m \in 1 .. Len(ready), ready[m] = u
          PROVE  \E k \in 1 .. Len(ready) - 1 : ready'[k] = u
      <4>1. CASE m < n
        BY <4>1, <3>3, <1>2, <1>4
      <4>2. CASE m > n
        <5>1. m - 1 \in 1 .. Len(ready) - 1 /\ ready'[m - 1] = ready[m]
          BY <4>2, <1>2, <1>4
        <5> QED  BY <5>1, <3>3
      <4> QED  BY <4>1, <4>2, <3>3, <2>2, <1>2, <1>3
    <3>4. ASSUME NEW m \in 1 .. Len(ready) - 1, ready'[m] = u
          PROVE  \E k \in 1 .. Len(ready) : ready[k] = u
      BY <3>4, <1>2, <1>4
    <3> QED  BY <3>1, <3>2, <3>3, <3>4, <1>5
  <2> QED  BY <2>1, <2>2
<1>9. \A m, k \in DOMAIN ready' : ready'[m] = ready'[k] => m = k
  BY <1>2, <1>4, <1>5, <1>6
<1>10. \A u \in Tasks : thread'[u] = "wait" => semaphore'[u] = 0
  BY <1>1 DEF IInv, OneJobPerThread
<1> QED  BY <1>7, <1>8, <1>9, <1>10 DEF IInv, OneJobPerThread

(* A step that leaves the threads and the queue alone. *)
LEMMA SameQueueInvariant ==
  ASSUME IInv, UNCHANGED <<thread, ready>>, TypeOK',
         \A u \in Tasks : thread[u] = "wait" => semaphore'[u] = semaphore[u]
  PROVE  IInv'
BY DEF IInv, OneJobPerThread

LEMMA ReleaseInvariant ==
  ASSUME IInv, NEW t \in Tasks, Release(t)
  PROVE  IInv'
<1>1. /\ timer' \in [Tasks -> Nat]
      /\ UNCHANGED <<g_running, main>>
      /\ g_running \in BOOLEAN
      /\ thread[t] \in {"wait", "work", "done"}
  BY TasksAssumption DEF IInv, TypeOK, Release
<1>2. CASE thread[t] = "wait"
  BY <1>1, <1>2, BeginInvariant DEF Release
<1>3. CASE thread[t] = "work"
  <2>1. /\ UNCHANGED <<thread, left, ready>>
        /\ semaphore' = [semaphore EXCEPT ![t] = @ + 1]
    BY <1>3 DEF Release
  <2>2. semaphore' \in [Tasks -> Nat]
    <3>1. semaphore \in [Tasks -> Nat]
      BY DEF IInv, TypeOK
    <3> QED  BY <2>1, <3>1
  <2>3. TypeOK'
    BY <2>1, <2>2, <1>1 DEF IInv, TypeOK
  <2> QED  BY <2>1, <2>3, <1>3, SameQueueInvariant DEF IInv, TypeOK
<1>4. CASE thread[t] = "done"
  <2>1. UNCHANGED threadVars
    BY <1>4 DEF Release
  <2>2. TypeOK'
    BY <2>1, <1>1 DEF IInv, TypeOK, threadVars
  <2> QED  BY <2>1, <2>2, SameQueueInvariant DEF threadVars
<1> QED  BY <1>1, <1>2, <1>3, <1>4

LEMMA FinishInvariant ==
  ASSUME IInv, NEW t \in Tasks, Finish(t)
  PROVE  IInv'
<1>1. CASE ~g_running /\ Leave(t, "done")
  BY <1>1, LeaveInvariant DEF Finish
<1>2. CASE g_running /\ semaphore[t] = 0 /\ Leave(t, "wait")
  BY <1>2, LeaveInvariant DEF Finish
<1>3. CASE /\ g_running /\ semaphore[t] > 0
           /\ semaphore' = [semaphore EXCEPT ![t] = @ - 1]
           /\ left' = [left EXCEPT ![t] = duration[t]]
           /\ UNCHANGED <<thread, ready>>
  <2>1. thread[t] # "wait"
    BY <1>3 DEF IInv, OneJobPerThread
  <2>2. semaphore' \in [Tasks -> Nat] /\ left' \in [Tasks -> Nat]
    <3>1. semaphore \in [Tasks -> Nat] /\ left \in [Tasks -> Nat]
      BY DEF IInv, TypeOK
    <3> QED  BY <1>3, <3>1, TasksAssumption
  <2>3. UNCHANGED <<timer, g_running, main>>
    BY DEF Finish
  <2>4. TypeOK'
    BY <1>3, <2>2, <2>3 DEF IInv, TypeOK
  <2>5. \A u \in Tasks : thread[u] = "wait" => semaphore'[u] = semaphore[u]
    BY <1>3, <2>1 DEF IInv, TypeOK
  <2> QED  BY <1>3, <2>4, <2>5, SameQueueInvariant
<1> QED  BY <1>1, <1>2, <1>3 DEF Finish

LEMMA NextInvariant == IInv /\ [Next]_vars => IInv'
<1> SUFFICES ASSUME IInv, [Next]_vars PROVE IInv'
  OBVIOUS
<1>1. CASE Tick
  BY <1>1 DEF Tick, IInv, TypeOK, OneJobPerThread
<1>2. CASE Destroy \/ Return
  BY <1>2 DEF Destroy, Return, IInv, TypeOK, OneJobPerThread, threadVars
<1>3. ASSUME NEW t \in Tasks, Release(t) \/ Finish(t) PROVE IInv'
  BY <1>3, ReleaseInvariant, FinishInvariant
<1>4. CASE Interrupt
  <2>1. CASE UNCHANGED threadVars
    BY <1>4, <2>1 DEF Interrupt, IInv, TypeOK, OneJobPerThread, threadVars
  <2>2. ASSUME NEW t \in Tasks, thread[t] = "wait", Begin(t), UNCHANGED semaphore
        PROVE  IInv'
    BY <1>4, <2>2, BeginInvariant DEF Interrupt, IInv, TypeOK
  <2> QED  BY <1>4, <2>1, <2>2 DEF Interrupt
<1>5. CASE UNCHANGED vars
  BY <1>5 DEF vars, threadVars, IInv, TypeOK, OneJobPerThread
<1> QED  BY <1>1, <1>2, <1>3, <1>4, <1>5 DEF Next, Program

LEMMA Invariant == Spec => []IInv
BY InitInvariant, NextInvariant, PTL DEF Spec

(* The variables keep their types: no semaphore is taken below 0, and no      *)
(* thread works longer than its duration.                                     *)
THEOREM TypeCorrect == Spec => []TypeOK
<1>1. IInv => TypeOK
  BY DEF IInv
<1> QED  BY <1>1, Invariant, PTL

(* Releases that pile up, sem_wait() cut short by a signal, any number of     *)
(* processors: a thread with a job is in the queue once, one without is not,  *)
(* and none sleeps over a release.                                            *)
THEOREM NoWorkLostOrDoubled == Spec => []OneJobPerThread
<1>1. IInv => OneJobPerThread
  BY DEF IInv
<1> QED  BY <1>1, Invariant, PTL

(* After SIGINT a thread finishes the job it has and takes no other; one that *)
(* has ended stays so.                                                        *)
THEOREM LastCallIsLast == Spec => LastCall
<1> DEFINE Last == ~g_running => \A t \in Tasks :
             /\ thread[t] = "work" => /\ thread'[t] \in {"work", "done"}
                                      /\ left'[t] <= left[t]
             /\ thread[t] = "done" => thread'[t] = "done"
<1>1. IInv /\ [Next]_vars => [Last]_vars
  <2> SUFFICES ASSUME IInv, Next, ~g_running, NEW t \in Tasks
               PROVE  /\ thread[t] = "work" => /\ thread'[t] \in {"work", "done"}
                                               /\ left'[t] <= left[t]
                      /\ thread[t] = "done" => thread'[t] = "done"
    BY DEF vars
  <2> USE DEF IInv, TypeOK
  <2>1. CASE Tick
    BY <2>1 DEF Tick
  <2>2. CASE Destroy \/ Return
    BY <2>2 DEF Destroy, Return, threadVars
  <2>3. ASSUME NEW u \in Tasks, Release(u)
        PROVE  /\ thread[t] = "work" => thread'[t] = "work" /\ left'[t] = left[t]
               /\ thread[t] = "done" => thread'[t] = "done"
    BY <2>3 DEF Release, Begin, threadVars
  <2>4. ASSUME NEW u \in Tasks, Finish(u)
        PROVE  /\ thread[t] = "work" => /\ thread'[t] \in {"work", "done"}
                                        /\ left'[t] = left[t]
               /\ thread[t] = "done" => thread'[t] = "done"
    BY <2>4 DEF Finish, Leave
  <2>5. CASE Interrupt
    BY <2>5 DEF Interrupt, Begin, threadVars
  <2> QED  BY <2>1, <2>2, <2>3, <2>4, <2>5 DEF Next, Program
<1> QED  BY <1>1, Invariant, PTL DEF Spec, LastCall
------------------------------------------------------------------------------
(* How far a task can fall behind.  On one processor the work that is left    *)
(* does not depend on the order in which it is done, so that it can be        *)
(* counted from the last moment at which there was none.                      *)

(* sum adds up what a function gives to the tasks. *)
AddsUp(sum) ==
  /\ sum \in [[Tasks -> Nat] -> Nat]
  /\ sum[[t \in Tasks |-> 0]] = 0
  /\ \A f, g \in [Tasks -> Nat], t \in Tasks :
       (\A u \in Tasks \ {t} : f[u] = g[u]) => sum[f] + g[t] = sum[g] + f[t]
  /\ \A f, g \in [Tasks -> Nat] :
       (\A t \in Tasks : f[t] <= g[t]) => sum[f] <= sum[g]

(* The work of n[t] releases of each task t. *)
Work(n) == [t \in Tasks |-> n[t] * duration[t]]

(* In busy seconds no task t is released more than jobs[t] times, and twice   *)
(* at most, and the work of these releases is done in that time.              *)
LightLoad(sum, busy, jobs) ==
  /\ PROCESSORS = 1
  /\ AddsUp(sum)
  /\ busy \in Nat
  /\ jobs \in [Tasks -> {1, 2}]
  /\ \A t \in Tasks : busy <= jobs[t] * frequency[t]
  /\ sum[Work(jobs)] <= busy

Unfinished == [t \in Tasks |-> left[t] + semaphore[t] * duration[t]]

(* The processor has been busy for b seconds, in which each task has been     *)
(* released n[t] times: what is not finished is the rest of that work.  Only  *)
(* a thread about to leave the processor may be there without a release.      *)
Accounted(sum, busy, b, n) ==
  /\ sum[Unfinished] + b = sum[Work(n)]
  /\ b > 0 => sum[Unfinished] > 0 /\ b < busy
  /\ \A t \in Tasks : n[t] > 0 => n[t] * frequency[t] <= b + timer[t]
  /\ \A t \in Tasks :
       \/ semaphore[t] + (IF thread[t] = "work" THEN 1 ELSE 0) <= n[t]
       \/ b = 0 /\ left[t] = 0 /\ semaphore[t] <= n[t]

(* Before SIGINT no thread ends, and only the first of the queue has begun to *)
(* work.                                                                      *)
InOrder == /\ \A t \in Tasks : timer[t] <= frequency[t] /\ thread[t] # "done"
           /\ \A t \in Tasks : thread[t] # "work" => left[t] = 0
           /\ \A k \in DOMAIN ready : k > 1 => left[ready[k]] > 0

Load(sum, busy) ==
  g_running => /\ InOrder
               /\ \E b \in Nat, n \in [Tasks -> Nat] : Accounted(sum, busy, b, n)

(* Products of natural numbers. *)
LEMMA Products ==
  /\ \A m, d \in Nat : m * d \in Nat /\ (m + 1) * d = m * d + d
  /\ \A m \in Nat, d \in Nat \ {0} : m * d = 0 => m = 0
  /\ \A m, k \in Nat, d \in Nat : m <= k => m * d <= k * d
<1>1. \A m, d \in Nat : m * d \in Nat /\ (m + 1) * d = m * d + d
  OBVIOUS
<1>2. \A m \in Nat, d \in Nat \ {0} : m * d = 0 => m = 0
  OBVIOUS
<1>3. \A m, k \in Nat, d \in Nat : m <= k => m * d <= k * d
  OBVIOUS
<1> QED  BY <1>1, <1>2, <1>3

(* No part is more than the whole. *)
LEMMA PartOfSum ==
  ASSUME NEW sum, AddsUp(sum), NEW f \in [Tasks -> Nat], NEW t \in Tasks
  PROVE  f[t] <= sum[f]
<1> DEFINE g == [f EXCEPT ![t] = 0]
<1>1. g \in [Tasks -> Nat] /\ g[t] = 0 /\ \A u \in Tasks \ {t} : f[u] = g[u]
  OBVIOUS
<1> HIDE DEF g
<1>2. sum[f] + g[t] = sum[g] + f[t]
  BY <1>1, Zenon DEF AddsUp
<1>3. sum[f] \in Nat /\ sum[g] \in Nat /\ f[t] \in Nat
  BY <1>1, Zenon DEF AddsUp
<1> QED  BY <1>1, <1>2, <1>3

LEMMA WorkTyped ==
  ASSUME NEW n \in [Tasks -> Nat] PROVE Work(n) \in [Tasks -> Nat]
<1>1. \A t \in Tasks : n[t] * duration[t] \in Nat
  BY TasksAssumption, Products
<1> QED  BY <1>1 DEF Work

LEMMA UnfinishedTyped == /\ TypeOK => Unfinished \in [Tasks -> Nat]
                         /\ TypeOK' => Unfinished' \in [Tasks -> Nat]
<1>1. \A k, l \in Nat, t \in Tasks : k + l * duration[t] \in Nat
  <2> SUFFICES ASSUME NEW k \in Nat, NEW l \in Nat, NEW t \in Tasks
               PROVE  k + l * duration[t] \in Nat
    OBVIOUS
  <2>1. l * duration[t] \in Nat
    BY TasksAssumption, Products
  <2> QED  BY <2>1
<1> QED  BY <1>1 DEF Unfinished, TypeOK

(* In the time since the processor got busy no task is released more often    *)
(* than jobs says.                                                            *)
LEMMA FewReleases ==
  ASSUME IInv, InOrder, NEW sum, NEW busy, NEW jobs, LightLoad(sum, busy, jobs),
         NEW b \in Nat, NEW n \in [Tasks -> Nat], Accounted(sum, busy, b, n)
  PROVE  /\ \A t \in Tasks : n[t] <= jobs[t] /\ (b = 0 => n[t] <= 1)
         /\ sum[Work(n)] <= busy
<1>1. ASSUME NEW t \in Tasks PROVE n[t] <= jobs[t] /\ (b = 0 => n[t] <= 1)
  <2> DEFINE F == frequency[t]
             N == n[t]
             J == jobs[t]
  <2>1. /\ F \in Nat \ {0} /\ N \in Nat /\ J \in {1, 2} /\ busy \in Nat
        /\ busy <= J * F
        /\ timer[t] \in Nat /\ timer[t] <= F
        /\ N > 0 => N * F <= b + timer[t]
        /\ b > 0 => b < busy
    BY TasksAssumption DEF IInv, TypeOK, InOrder, LightLoad, Accounted
  <2> HIDE DEF F, N, J
  <2>2. b = 0 => N <= 1
    <3>1. N >= 2 => 2 * F <= N * F
      BY <2>1, Products, 2 \in Nat
    <3> QED  BY <3>1, <2>1
  <2>3. CASE J = 1
    <3>1. N >= 2 => 2 * F <= N * F
      BY <2>1, Products, 2 \in Nat
    <3> QED  BY <3>1, <2>1, <2>2, <2>3 DEF N, J
  <2>4. CASE J = 2
    <3>1. N >= 3 => 3 * F <= N * F
      BY <2>1, Products, 3 \in Nat
    <3> QED  BY <3>1, <2>1, <2>2, <2>4 DEF N, J
  <2> QED  BY <2>1, <2>3, <2>4
<1>2. jobs \in [Tasks -> Nat]
  BY DEF LightLoad
<1>3. \A t \in Tasks : Work(n)[t] <= Work(jobs)[t]
  <2> SUFFICES ASSUME NEW t \in Tasks PROVE n[t] * duration[t] <= jobs[t] * duration[t]
    BY DEF Work
  <2>1. n[t] \in Nat /\ jobs[t] \in Nat /\ duration[t] \in Nat /\ n[t] <= jobs[t]
    BY <1>1, <1>2, TasksAssumption
  <2> QED  BY <2>1, Products
<1>4. sum[Work(n)] <= sum[Work(jobs)] /\ sum[Work(jobs)] <= busy
  BY <1>2, <1>3, WorkTyped, Zenon DEF LightLoad, AddsUp
<1>5. sum[Work(n)] \in Nat /\ sum[Work(jobs)] \in Nat /\ busy \in Nat
  BY <1>2, WorkTyped, Zenon DEF LightLoad, AddsUp
<1> QED  BY <1>1, <1>4, <1>5

LEMMA LoadKeepsUp ==
  ASSUME IInv, NEW sum, NEW busy, NEW jobs, LightLoad(sum, busy, jobs), Load(sum, busy)
  PROVE  AtMostOneLate
<1> SUFFICES ASSUME g_running, NEW t \in Tasks PROVE semaphore[t] <= 1
  BY DEF AtMostOneLate
<1>1. PICK b \in Nat, n \in [Tasks -> Nat] : InOrder /\ Accounted(sum, busy, b, n)
  BY DEF Load
<1>2. n[t] <= jobs[t] /\ (b = 0 => n[t] <= 1)
  BY <1>1, FewReleases
<1>3. n[t] \in Nat /\ semaphore[t] \in Nat /\ jobs[t] \in {1, 2}
  BY DEF IInv, TypeOK, LightLoad
<1>4. \/ semaphore[t] + (IF thread[t] = "work" THEN 1 ELSE 0) <= n[t]
      \/ b = 0 /\ left[t] = 0 /\ semaphore[t] <= n[t]
  BY <1>1 DEF Accounted
<1>5. thread[t] = "work" \/ semaphore[t] = 0
  BY <1>1 DEF InOrder, IInv, TypeOK, OneJobPerThread
<1> QED  BY <1>2, <1>3, <1>4, <1>5

LEMMA LoadInit ==
  ASSUME Init, NEW sum, NEW busy, NEW jobs, LightLoad(sum, busy, jobs)
  PROVE  Load(sum, busy)
<1> DEFINE none == [t \in Tasks |-> 0]
<1>1. InOrder
  BY TasksAssumption DEF Init, InOrder
<1>2. none \in [Tasks -> Nat] /\ Work(none) = none /\ Unfinished = none
  BY TasksAssumption DEF Init, Work, Unfinished
<1>3. \A t \in Tasks : none[t] = 0
  OBVIOUS
<1>4. sum[none] = 0
  BY DEF LightLoad, AddsUp
<1> HIDE DEF none
<1>5. Accounted(sum, busy, 0, none)
  BY <1>2, <1>3, <1>4 DEF Accounted, Init
<1> QED  BY <1>1, <1>2, <1>5 DEF Load

LEMMA LoadRelease ==
  ASSUME IInv, g_running, NEW sum, NEW busy, NEW jobs, LightLoad(sum, busy, jobs),
         Load(sum, busy), NEW t \in Tasks, Release(t)
  PROVE  Load(sum, busy)'
<1>1. PICK b \in Nat, n \in [Tasks -> Nat] : InOrder /\ Accounted(sum, busy, b, n)
  BY DEF Load
<1> DEFINE m == [n EXCEPT ![t] = n[t] + 1]
<1>2. /\ m \in [Tasks -> Nat] /\ m[t] = n[t] + 1
      /\ \A u \in Tasks \ {t} : m[u] = n[u]
  OBVIOUS
<1> HIDE DEF m
<1>3. /\ TypeOK /\ TypeOK'
      /\ timer[t] = 0 /\ timer' = [timer EXCEPT ![t] = frequency[t]]
      /\ frequency \in [Tasks -> Nat \ {0}] /\ duration \in [Tasks -> Nat \ {0}]
  BY ReleaseInvariant, TasksAssumption DEF Release, IInv
<1>4. \/ /\ thread[t] = "wait" /\ semaphore[t] = 0 /\ left[t] = 0
         /\ Begin(t) /\ UNCHANGED semaphore
      \/ /\ thread[t] = "work"
         /\ semaphore' = [semaphore EXCEPT ![t] = @ + 1]
         /\ UNCHANGED <<thread, left, ready>>
  BY <1>1 DEF Release, InOrder, IInv, OneJobPerThread
<1>5. InOrder'
  <2>1. \A u \in Tasks : timer'[u] <= frequency[u]
    BY <1>1, <1>3 DEF InOrder
  <2>2. \A u \in Tasks : /\ thread'[u] # "done"
                         /\ thread'[u] # "work" => left'[u] = 0
    BY <1>1, <1>3, <1>4 DEF InOrder, Begin, TypeOK
  <2>3. ASSUME NEW k \in DOMAIN ready', k > 1 PROVE left'[ready'[k]] > 0
    <3>1. CASE Begin(t)
      <4>1. /\ Len(ready) \in Nat /\ DOMAIN ready = 1 .. Len(ready)
            /\ Len(ready') = Len(ready) + 1
            /\ \A i \in 1 .. Len(ready) : ready'[i] = ready[i]
            /\ ready'[Len(ready) + 1] = t
            /\ DOMAIN ready' = 1 .. Len(ready) + 1
        BY <1>3, <3>1, AppendProperties, LenProperties DEF TypeOK, Begin
      <4>2. left' = [left EXCEPT ![t] = duration[t]]
        BY <3>1 DEF Begin
      <4>3. CASE k = Len(ready) + 1
        BY <1>3, <4>1, <4>2, <4>3 DEF TypeOK
      <4>4. CASE k \in 1 .. Len(ready)
        <5>1. ready'[k] = ready[k] /\ ready[k] \in Tasks /\ left[ready[k]] > 0
          BY <1>1, <1>3, <2>3, <4>1, <4>4, LenProperties DEF InOrder, TypeOK
        <5>2. left'[ready[k]] = IF ready[k] = t THEN duration[t] ELSE left[ready[k]]
          BY <1>3, <4>2, <5>1 DEF TypeOK
        <5> QED  BY <1>3, <5>1, <5>2
      <4> QED  BY <2>3, <4>1, <4>3, <4>4
    <3>2. CASE UNCHANGED <<left, ready>>
      BY <1>1, <2>3, <3>2 DEF InOrder
    <3> QED  BY <1>4, <3>1, <3>2
  <2> QED  BY <2>1, <2>2, <2>3 DEF InOrder
<1>6. /\ Unfinished'[t] = Unfinished[t] + duration[t]
      /\ \A u \in Tasks \ {t} : Unfinished'[u] = Unfinished[u]
  <2>1. \A u \in Tasks \ {t} : left'[u] = left[u] /\ semaphore'[u] = semaphore[u]
    BY <1>3, <1>4 DEF Begin, TypeOK
  <2>2. \/ /\ left'[t] = duration[t] /\ semaphore'[t] = 0
           /\ left[t] = 0 /\ semaphore[t] = 0
        \/ left'[t] = left[t] /\ semaphore'[t] = semaphore[t] + 1
    BY <1>3, <1>4 DEF Begin, TypeOK
  <2>3. left'[t] + semaphore'[t] * duration[t]
          = (left[t] + semaphore[t] * duration[t]) + duration[t]
    <3>1. /\ left[t] \in Nat /\ semaphore[t] \in Nat /\ duration[t] \in Nat
      BY <1>3 DEF TypeOK
    <3>2. /\ semaphore[t] * duration[t] \in Nat
          /\ (semaphore[t] + 1) * duration[t] = semaphore[t] * duration[t] + duration[t]
          /\ 0 * duration[t] = 0
      BY <3>1, Products
    <3>3. CASE left'[t] = left[t] /\ semaphore'[t] = semaphore[t] + 1
      <4>1. semaphore'[t] * duration[t] = semaphore[t] * duration[t] + duration[t]
        BY <3>2, <3>3
      <4> QED  BY <3>1, <3>2, <3>3, <4>1
    <3>4. CASE /\ left'[t] = duration[t] /\ semaphore'[t] = 0
               /\ left[t] = 0 /\ semaphore[t] = 0
      BY <3>1, <3>2, <3>4
    <3> QED  BY <2>2, <3>3, <3>4
  <2> QED  BY <2>1, <2>3 DEF Unfinished
<1>7. /\ Work(m)[t] = Work(n)[t] + duration[t]
      /\ \A u \in Tasks \ {t} : Work(m)[u] = Work(n)[u]
  <2>1. (n[t] + 1) * duration[t] = n[t] * duration[t] + duration[t]
    BY <1>3, Products
  <2> QED  BY <1>2, <2>1 DEF Work
<1>8. sum[Unfinished'] + b = sum[Work(m)] /\ sum[Unfinished'] > 0
  <2> HIDE DEF m
  <2>1. /\ Unfinished \in [Tasks -> Nat] /\ Unfinished' \in [Tasks -> Nat]
        /\ Work(n) \in [Tasks -> Nat] /\ Work(m) \in [Tasks -> Nat]
    BY <1>2, <1>3, WorkTyped, UnfinishedTyped
  <2>2. /\ sum[Unfinished] + Unfinished'[t] = sum[Unfinished'] + Unfinished[t]
        /\ sum[Work(n)] + Work(m)[t] = sum[Work(m)] + Work(n)[t]
    BY <1>6, <1>7, <2>1, Zenon DEF LightLoad, AddsUp
  <2>3. /\ sum[Unfinished] \in Nat /\ sum[Unfinished'] \in Nat
        /\ sum[Work(n)] \in Nat /\ sum[Work(m)] \in Nat
        /\ Unfinished[t] \in Nat /\ Work(n)[t] \in Nat /\ duration[t] \in Nat \ {0}
    BY <1>3, <2>1, Zenon DEF LightLoad, AddsUp
  <2>4. sum[Unfinished] + b = sum[Work(n)]
    BY <1>1 DEF Accounted
  <2> QED  BY <1>6, <1>7, <2>2, <2>3, <2>4
<1>9. \A u \in Tasks : m[u] > 0 => m[u] * frequency[u] <= b + timer'[u]
  <2>1. ASSUME NEW u \in Tasks, u # t, m[u] > 0
        PROVE  m[u] * frequency[u] <= b + timer'[u]
    BY <1>1, <1>2, <1>3, <2>1 DEF Accounted, TypeOK
  <2>2. m[t] * frequency[t] <= b + timer'[t]
    <3>1. /\ m[t] * frequency[t] = n[t] * frequency[t] + frequency[t]
          /\ timer'[t] = frequency[t]
          /\ n[t] > 0 => n[t] * frequency[t] <= b
          /\ n[t] = 0 => n[t] * frequency[t] = 0
      <4>1. m[t] * frequency[t] = n[t] * frequency[t] + frequency[t]
        BY <1>2, <1>3, Products
      <4>2. timer'[t] = frequency[t]
        BY <1>3 DEF TypeOK
      <4>3. n[t] > 0 => n[t] * frequency[t] <= b
        BY <1>1, <1>3, Products DEF Accounted
      <4>4. n[t] = 0 => n[t] * frequency[t] = 0
        BY <1>3
      <4> QED  BY <4>1, <4>2, <4>3, <4>4
    <3>2. n[t] \in Nat /\ n[t] * frequency[t] \in Nat /\ frequency[t] \in Nat
      BY <1>3, Products
    <3> QED  BY <3>1, <3>2
  <2> QED  BY <2>1, <2>2
<1>10. ASSUME NEW u \in Tasks
       PROVE  \/ semaphore'[u] + (IF thread'[u] = "work" THEN 1 ELSE 0) <= m[u]
              \/ b = 0 /\ left'[u] = 0 /\ semaphore'[u] <= m[u]
  <2>1. /\ semaphore[u] \in Nat /\ n[u] \in Nat
        /\ \/ semaphore[u] + (IF thread[u] = "work" THEN 1 ELSE 0) <= n[u]
           \/ b = 0 /\ left[u] = 0 /\ semaphore[u] <= n[u]
    BY <1>1, <1>3 DEF Accounted, TypeOK
  <2>2. CASE u # t
    <3>1. /\ semaphore'[u] = semaphore[u] /\ thread'[u] = thread[u]
          /\ left'[u] = left[u] /\ m[u] = n[u]
      BY <1>2, <1>3, <1>4, <2>2 DEF Begin, TypeOK
    <3> QED  BY <2>1, <3>1
  <2>3. CASE u = t
    <3>1. m[u] = n[u] + 1
      BY <1>2, <2>3
    <3>2. \/ semaphore'[u] = 0 /\ semaphore[u] = 0
          \/ /\ semaphore'[u] = semaphore[u] + 1
             /\ thread[u] = "work" /\ thread'[u] = "work" /\ left'[u] = left[u]
      BY <1>3, <1>4, <2>3 DEF TypeOK
    <3> QED  BY <2>1, <3>1, <3>2
  <2> QED  BY <2>2, <2>3
<1>11. Accounted(sum, busy, b, m)'
  BY <1>1, <1>8, <1>9, <1>10 DEF Accounted
<1> QED  BY <1>2, <1>5, <1>11 DEF Load

LEMMA LoadFinish ==
  ASSUME IInv, g_running, NEW sum, NEW busy, NEW jobs, LightLoad(sum, busy, jobs),
         Load(sum, busy), NEW t \in Tasks, Finish(t)
  PROVE  Load(sum, busy)'
<1>1. PICK b \in Nat, n \in [Tasks -> Nat] : InOrder /\ Accounted(sum, busy, b, n)
  BY DEF Load
<1>2. /\ TypeOK /\ UNCHANGED timer /\ left[t] = 0 /\ duration \in [Tasks -> Nat \ {0}]
      /\ \/ semaphore[t] = 0 /\ Leave(t, "wait")
         \/ /\ semaphore[t] > 0
            /\ semaphore' = [semaphore EXCEPT ![t] = @ - 1]
            /\ left' = [left EXCEPT ![t] = duration[t]]
            /\ UNCHANGED <<thread, ready>>
  BY TasksAssumption DEF Finish, IInv
<1>3. /\ Len(ready) \in Nat /\ DOMAIN ready = 1 .. Len(ready)
      /\ \A k \in 1 .. Len(ready) : ready[k] \in Tasks
      /\ Len(ready) > 0 /\ ready[1] = t
      /\ thread[t] = "work"
  BY <1>2, LenProperties DEF Finish, OnProcessor, LightLoad, TypeOK, IInv, OneJobPerThread
<1>4. Unfinished' = Unfinished
  <2>1. CASE Leave(t, "wait")
    BY <2>1 DEF Leave, Unfinished
  <2>2. CASE /\ semaphore[t] > 0
             /\ semaphore' = [semaphore EXCEPT ![t] = @ - 1]
             /\ left' = [left EXCEPT ![t] = duration[t]]
    <3>1. ASSUME NEW u \in Tasks
          PROVE  left'[u] + semaphore'[u] * duration[u]
                   = left[u] + semaphore[u] * duration[u]
      <4>1. CASE u # t
        BY <4>1, <2>2, <1>2 DEF TypeOK
      <4>2. CASE u = t
        <5>1. /\ semaphore[t] - 1 \in Nat /\ duration[t] \in Nat
              /\ left'[t] = duration[t] /\ semaphore'[t] = semaphore[t] - 1
          BY <2>2, <1>2 DEF TypeOK
        <5>2. /\ ((semaphore[t] - 1) + 1) * duration[t]
                    = (semaphore[t] - 1) * duration[t] + duration[t]
              /\ (semaphore[t] - 1) * duration[t] \in Nat
          BY <5>1, Products
        <5>3. (semaphore[t] - 1) + 1 = semaphore[t]
          BY <1>2 DEF TypeOK
        <5> QED  BY <4>2, <5>1, <5>2, <5>3, <1>2
      <4> QED  BY <4>1, <4>2
    <3> QED  BY <3>1, Zenon DEF Unfinished
  <2> QED  BY <1>2, <2>1, <2>2
<1>5. InOrder'
  <2>1. CASE Leave(t, "wait")
    <3>1. PICK k \in DOMAIN ready : ready[k] = t /\ ready' = Without(ready, k)
      BY <2>1 DEF Leave
    <3>2. k = 1
      BY <1>3, <3>1 DEF IInv, OneJobPerThread
    <3>3. /\ Len(ready') = Len(ready) - 1
          /\ \A i \in 1 .. Len(ready) - 1 : ready'[i] = ready[i + 1]
          /\ DOMAIN ready' = 1 .. Len(ready) - 1
      <4>1. ready \in Seq(Tasks) /\ 1 \in 1 .. Len(ready) /\ ready' = Without(ready, 1)
        BY <1>2, <1>3, <3>1, <3>2 DEF TypeOK
      <4>2. /\ ready' \in Seq(Tasks)
            /\ Len(ready') = Len(ready) - 1
            /\ \A m \in 1 .. Len(ready) - 1 :
                 ready'[m] = IF m < 1 THEN ready[m] ELSE ready[m + 1]
        BY <4>1, WithoutPlace
      <4>3. DOMAIN ready' = 1 .. Len(ready')
        BY <4>2, LenProperties
      <4> QED  BY <4>2, <4>3
    <3>4. left' = left /\ thread' = [thread EXCEPT ![t] = "wait"]
      BY <2>1 DEF Leave
    <3>5. ASSUME NEW i \in DOMAIN ready', i > 1 PROVE left'[ready'[i]] > 0
      <4>1. i + 1 \in DOMAIN ready /\ i + 1 > 1 /\ ready'[i] = ready[i + 1]
        BY <1>3, <3>3, <3>5
      <4> QED  BY <1>1, <3>4, <4>1 DEF InOrder
    <3>6. \A u \in Tasks : /\ timer'[u] <= frequency[u] /\ thread'[u] # "done"
                           /\ thread'[u] # "work" => left'[u] = 0
      BY <1>1, <1>2, <3>4 DEF InOrder, TypeOK
    <3> QED  BY <3>5, <3>6 DEF InOrder
  <2>2. CASE /\ left' = [left EXCEPT ![t] = duration[t]]
             /\ UNCHANGED <<thread, ready>>
    <3>1. \A u \in Tasks : left'[u] = IF u = t THEN duration[t] ELSE left[u]
      BY <1>2, <2>2 DEF TypeOK
    <3> QED  BY <1>1, <1>2, <1>3, <2>2, <3>1 DEF InOrder
  <2> QED  BY <1>2, <2>1, <2>2
<1>6. ASSUME NEW u \in Tasks
      PROVE  \/ semaphore'[u] + (IF thread'[u] = "work" THEN 1 ELSE 0) <= n[u]
             \/ b = 0 /\ left'[u] = 0 /\ semaphore'[u] <= n[u]
  <2>1. /\ semaphore[u] \in Nat /\ n[u] \in Nat
        /\ \/ semaphore[u] + (IF thread[u] = "work" THEN 1 ELSE 0) <= n[u]
           \/ b = 0 /\ left[u] = 0 /\ semaphore[u] <= n[u]
    BY <1>1, <1>2 DEF Accounted, TypeOK
  <2>2. CASE u # t
    <3>1. /\ semaphore'[u] = semaphore[u] /\ thread'[u] = thread[u]
          /\ left'[u] = left[u]
      BY <1>2, <2>2 DEF Leave, TypeOK
    <3> QED  BY <2>1, <3>1
  <2>3. CASE u = t
    <3>1. \/ semaphore'[u] = 0 /\ thread'[u] = "wait"
          \/ semaphore[u] > 0 /\ semaphore'[u] = semaphore[u] - 1
      BY <1>2, <2>3 DEF Leave, TypeOK
    <3> QED  BY <2>1, <3>1
  <2> QED  BY <2>2, <2>3
<1>7. Accounted(sum, busy, b, n)'
  BY <1>1, <1>2, <1>4, <1>6 DEF Accounted
<1> QED  BY <1>5, <1>7 DEF Load

(* A second of work, or a second in which there is none.                      *)
LEMMA LoadTick ==
  ASSUME IInv, g_running, NEW sum, NEW busy, NEW jobs, LightLoad(sum, busy, jobs),
         Load(sum, busy), Tick
  PROVE  Load(sum, busy)'
<1> DEFINE none == [t \in Tasks |-> 0]
<1>1. PICK b \in Nat, n \in [Tasks -> Nat] : InOrder /\ Accounted(sum, busy, b, n)
  BY DEF Load
<1>2. /\ TypeOK /\ TypeOK'
      /\ timer' = [t \in Tasks |-> timer[t] - 1]
      /\ left' = [t \in Tasks |-> IF t \in OnProcessor THEN left[t] - 1 ELSE left[t]]
      /\ UNCHANGED <<semaphore, thread, ready, g_running>>
      /\ \A t \in Tasks : timer[t] > 0
      /\ \A t \in OnProcessor : left[t] > 0
      /\ \A t \in Tasks : duration[t] \in Nat \ {0} /\ frequency[t] \in Nat
  BY NextInvariant, TasksAssumption DEF Tick, IInv, Next, Program
<1>3. /\ Len(ready) \in Nat /\ DOMAIN ready = 1 .. Len(ready)
      /\ \A k \in 1 .. Len(ready) : ready[k] \in Tasks
      /\ OnProcessor = {ready[k] : k \in {m \in DOMAIN ready : m <= 1}}
  BY <1>2, LenProperties DEF TypeOK, OnProcessor, LightLoad
<1>4. /\ Unfinished \in [Tasks -> Nat] /\ Unfinished' \in [Tasks -> Nat]
      /\ Work(n) \in [Tasks -> Nat]
      /\ sum[Unfinished] \in Nat /\ sum[Unfinished'] \in Nat /\ sum[Work(n)] \in Nat
      /\ sum[Unfinished] + b = sum[Work(n)]
  <2>1. /\ Unfinished \in [Tasks -> Nat] /\ Unfinished' \in [Tasks -> Nat]
        /\ Work(n) \in [Tasks -> Nat]
    BY <1>2, UnfinishedTyped, WorkTyped
  <2> QED  BY <1>1, <2>1, Zenon DEF LightLoad, AddsUp, Accounted
<1>5. /\ none \in [Tasks -> Nat] /\ Work(none) = none /\ sum[none] = 0
      /\ \A t \in Tasks : none[t] = 0
  BY TasksAssumption DEF LightLoad, AddsUp, Work
<1> HIDE DEF none
<1>6. ASSUME NEW t \in Tasks, thread[t] # "work"
      PROVE  left[t] = 0 /\ semaphore[t] = 0
  BY <1>1, <1>2, <1>6 DEF InOrder, IInv, OneJobPerThread, TypeOK
<1>7. ASSUME NEW t \in Tasks, thread[t] = "work"
      PROVE  left[t] > 0
  <2>1. PICK k \in DOMAIN ready : ready[k] = t
    BY <1>7 DEF IInv, OneJobPerThread
  <2>2. CASE k = 1
    BY <1>2, <1>3, <2>1, <2>2
  <2>3. CASE k # 1
    BY <1>1, <1>3, <2>1, <2>3 DEF InOrder
  <2> QED  BY <2>2, <2>3
<1>8. InOrder'
  <2>1. \A t \in Tasks : /\ timer'[t] <= frequency[t] /\ thread'[t] # "done"
                         /\ thread'[t] # "work" => left'[t] = 0
    <3>1. ASSUME NEW t \in Tasks PROVE timer'[t] <= frequency[t] /\ thread'[t] # "done"
      BY <1>1, <1>2 DEF InOrder, TypeOK
    <3>2. ASSUME NEW t \in Tasks, thread[t] # "work" PROVE left'[t] = 0
      <4>1. t \notin OnProcessor
        BY <1>2, <1>6, <3>2
      <4> QED  BY <1>2, <1>6, <3>2, <4>1
    <3> QED  BY <3>1, <3>2, <1>2
  <2>2. ASSUME NEW k \in DOMAIN ready', k > 1 PROVE left'[ready'[k]] > 0
    <3>1. k \in DOMAIN ready /\ ready[k] \in Tasks /\ left[ready[k]] > 0
      BY <1>1, <1>2, <1>3, <2>2 DEF InOrder
    <3>2. ready[k] \notin OnProcessor
      BY <1>3, <2>2, <3>1 DEF IInv, OneJobPerThread
    <3> QED  BY <1>2, <3>1, <3>2
  <2> QED  BY <2>1, <2>2 DEF InOrder
<1>9. CASE ready = <<>>
  <2>1. \A t \in Tasks : thread[t] # "work"
    BY <1>9 DEF IInv, OneJobPerThread
  <2>2. Unfinished = none
    BY <1>2, <1>6, <2>1 DEF Unfinished, none
  <2>3. OnProcessor = {} /\ left' = left
    BY <1>2, <1>3, <1>9 DEF TypeOK
  <2>4. Unfinished' = none
    BY <1>2, <2>2, <2>3 DEF Unfinished
  <2>5. Accounted(sum, busy, 0, none)'
    BY <1>2, <1>5, <1>6, <2>1, <2>4 DEF Accounted
  <2> QED  BY <1>5, <1>8, <2>5 DEF Load
<1>10. CASE ready # <<>>
  <2> DEFINE h == ready[1]
  <2>1. 1 \in DOMAIN ready /\ h \in Tasks /\ OnProcessor = {h} /\ left[h] > 0
    <3>1. Len(ready) # 0
      BY <1>2, <1>10, EmptySeq DEF TypeOK
    <3>2. 1 \in DOMAIN ready /\ {m \in DOMAIN ready : m <= 1} = {1}
      BY <1>3, <3>1
    <3>3. h \in Tasks /\ OnProcessor = {h}
      BY <1>3, <3>2
    <3> QED  BY <1>2, <3>2, <3>3
  <2> HIDE DEF h
  <2>2. /\ Unfinished'[h] = Unfinished[h] - 1
        /\ \A u \in Tasks \ {h} : Unfinished'[u] = Unfinished[u]
    <3>1. left'[h] = left[h] - 1 /\ \A u \in Tasks \ {h} : left'[u] = left[u]
      BY <1>2, <2>1
    <3>2. semaphore[h] * duration[h] \in Nat /\ left[h] \in Nat
      BY <1>2, <2>1, Products DEF TypeOK
    <3>3. (left[h] - 1) + semaphore[h] * duration[h]
            = (left[h] + semaphore[h] * duration[h]) - 1
      BY <3>2
    <3> QED  BY <1>2, <2>1, <3>1, <3>3 DEF Unfinished
  <2>3. sum[Unfinished'] = sum[Unfinished] - 1
    <3>1. sum[Unfinished] + Unfinished'[h] = sum[Unfinished'] + Unfinished[h]
      BY <1>4, <2>1, <2>2, Zenon DEF LightLoad, AddsUp
    <3>2. Unfinished[h] \in Nat
      BY <1>4, <2>1
    <3> QED  BY <1>4, <2>2, <3>1, <3>2
  <2>4. CASE sum[Unfinished'] = 0
    <3>1. ASSUME NEW t \in Tasks PROVE left'[t] = 0 /\ semaphore'[t] = 0
      <4>1. Unfinished'[t] = 0
        <5>1. Unfinished'[t] <= sum[Unfinished']
          BY <1>4, PartOfSum DEF LightLoad
        <5> QED  BY <1>4, <2>4, <5>1
      <4>2. left'[t] + semaphore'[t] * duration[t] = 0
        BY <4>1 DEF Unfinished
      <4>3. /\ left'[t] \in Nat /\ semaphore'[t] \in Nat
            /\ duration[t] \in Nat \ {0}
        BY <1>2 DEF TypeOK
      <4>4. semaphore'[t] * duration[t] \in Nat
        BY <4>3, Products
      <4>5. left'[t] = 0 /\ semaphore'[t] * duration[t] = 0
        BY <4>2, <4>3, <4>4
      <4> QED  BY <4>3, <4>5, Products
    <3>2. Accounted(sum, busy, 0, none)'
      BY <1>5, <2>4, <3>1 DEF Accounted
    <3> QED  BY <1>5, <1>8, <3>2 DEF Load
  <2>5. CASE sum[Unfinished'] # 0
    <3>1. sum[Work(n)] <= busy
      BY <1>1, FewReleases
    <3>2. sum[Unfinished'] + (b + 1) = sum[Work(n)] /\ b + 1 < busy
          /\ sum[Unfinished'] > 0
      BY <1>4, <2>3, <2>5, <3>1 DEF LightLoad
    <3>3. ASSUME NEW t \in Tasks, n[t] > 0
          PROVE  n[t] * frequency[t] <= (b + 1) + timer'[t]
      <4>1. n[t] * frequency[t] <= b + timer[t] /\ timer'[t] = timer[t] - 1
        BY <1>1, <1>2, <3>3 DEF Accounted
      <4>2. n[t] * frequency[t] \in Nat /\ timer[t] \in Nat
        BY <1>2, Products DEF TypeOK
      <4> QED  BY <4>1, <4>2
    <3>4. ASSUME NEW t \in Tasks
          PROVE  semaphore'[t] + (IF thread'[t] = "work" THEN 1 ELSE 0) <= n[t]
      <4>1. /\ semaphore[t] \in Nat /\ n[t] \in Nat
            /\ semaphore'[t] = semaphore[t] /\ thread'[t] = thread[t]
            /\ \/ semaphore[t] + (IF thread[t] = "work" THEN 1 ELSE 0) <= n[t]
               \/ b = 0 /\ left[t] = 0 /\ semaphore[t] <= n[t]
        BY <1>1, <1>2 DEF Accounted, TypeOK
      <4>2. thread[t] = "work" => left[t] > 0
        BY <1>7
      <4> QED  BY <4>1, <4>2
    <3>5. Accounted(sum, busy, b + 1, n)'
      BY <3>2, <3>3, <3>4 DEF Accounted
    <3> QED  BY <1>8, <3>5 DEF Load
  <2> QED  BY <2>4, <2>5
<1> QED  BY <1>9, <1>10

LEMMA LoadNext ==
  ASSUME IInv, NEW sum, NEW busy, NEW jobs, LightLoad(sum, busy, jobs),
         Load(sum, busy), [Next]_vars
  PROVE  Load(sum, busy)'
<1>1. CASE ~g_running'
  BY <1>1 DEF Load
<1>2. CASE g_running'
  <2>1. g_running
    BY <1>2 DEF Next, Program, Tick, Destroy, Return, Release, Finish, Interrupt,
                threadVars, vars
  <2>2. CASE Tick
    BY <2>1, <2>2, LoadTick
  <2>3. ASSUME NEW t \in Tasks, Release(t) \/ Finish(t) PROVE Load(sum, busy)'
    BY <2>1, <2>3, LoadRelease, LoadFinish
  <2>4. CASE Destroy \/ Return \/ UNCHANGED vars
    <3>1. UNCHANGED <<timer, semaphore, thread, left, ready, g_running>>
      BY <2>4 DEF Destroy, Return, vars, threadVars
    <3>2. Unfinished' = Unfinished
      BY <3>1 DEF Unfinished
    <3> QED  BY <3>1, <3>2 DEF Load, InOrder, Accounted
  <2>5. ~Interrupt
    BY <1>2 DEF Interrupt
  <2> QED  BY <2>2, <2>3, <2>4, <2>5 DEF Next, Program
<1> QED  BY <1>1, <1>2

(* On one processor no task is ever late by more than one release, if in the  *)
(* longest time the processor can be busy no task is released more than       *)
(* twice.  Any tasks; their timers all start together, as main() starts them. *)
THEOREM LightLoadIsNeverFarBehind ==
  ASSUME NEW sum, NEW busy, NEW jobs, LightLoad(sum, busy, jobs)
  PROVE  Spec => []AtMostOneLate
<1>1. Init => Load(sum, busy)
  BY LoadInit
<1>2. IInv /\ Load(sum, busy) /\ [Next]_vars => Load(sum, busy)'
  BY LoadNext
<1>3. IInv /\ Load(sum, busy) => AtMostOneLate
  BY LoadKeepsUp
<1> QED  BY <1>1, <1>2, <1>3, Invariant, PTL DEF Spec

(* The tasks of lab3.cfg: the processor is busy for seven seconds at most.    *)
THEOREM Lab3IsNeverFarBehind ==
  ASSUME PROCESSORS = 1, Tasks = {0, 1, 2, 3},
         frequency[0] = 5, frequency[1] = 7, frequency[2] = 8, frequency[3] = 10,
         duration[0] = 1, duration[1] = 1, duration[2] = 2, duration[3] = 2
  PROVE  Spec => []AtMostOneLate
<1> DEFINE sum  == [f \in [Tasks -> Nat] |-> f[0] + f[1] + f[2] + f[3]]
           jobs == [t \in Tasks |-> IF t = 0 THEN 2 ELSE 1]
<1>1. AddsUp(sum)
  <2>1. \A f \in [Tasks -> Nat] : f[0] + f[1] + f[2] + f[3] \in Nat
    OBVIOUS
  <2>2. sum \in [[Tasks -> Nat] -> Nat] /\ sum[[t \in Tasks |-> 0]] = 0
    BY <2>1
  <2>3. ASSUME NEW f \in [Tasks -> Nat], NEW g \in [Tasks -> Nat], NEW t \in Tasks,
               \A u \in Tasks \ {t} : f[u] = g[u]
        PROVE  sum[f] + g[t] = sum[g] + f[t]
    BY <2>3
  <2>4. ASSUME NEW f \in [Tasks -> Nat], NEW g \in [Tasks -> Nat],
               \A t \in Tasks : f[t] <= g[t]
        PROVE  sum[f] <= sum[g]
    BY <2>4
  <2> QED  BY <2>2, <2>3, <2>4 DEF AddsUp
<1>2. jobs \in [Tasks -> {1, 2}] /\ \A t \in Tasks : 7 <= jobs[t] * frequency[t]
  OBVIOUS
<1>3. sum[Work(jobs)] <= 7
  <2>1. Work(jobs) \in [Tasks -> Nat]
    BY WorkTyped
  <2> QED  BY <2>1 DEF Work
<1> HIDE DEF sum, jobs
<1>4. LightLoad(sum, 7, jobs)
  BY <1>1, <1>2, <1>3 DEF LightLoad
<1> QED  BY <1>4, LightLoadIsNeverFarBehind
==============================================================================
