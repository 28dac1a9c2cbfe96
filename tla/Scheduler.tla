------------------------------ MODULE Scheduler ------------------------------
(* The program of src/03-posix: one thread per task, which waits on its       *)
(* semaphore and then works for the task's duration of processor time, and    *)
(* one timer per task, which posts the semaphore once per period.             *)
(*                                                                            *)
(* task_init_thread() gives each thread a priority by its period, but in an   *)
(* attribute without PTHREAD_EXPLICIT_SCHED: the threads inherit SCHED_FIFO   *)
(* and the one priority of main, so the processors go to the threads in the   *)
(* order in which these become ready.  The threads of the timers are short    *)
(* and are taken to find a processor of their own.                            *)
EXTENDS Integers, Sequences, FiniteSets

CONSTANTS
  Tasks,                  \* the ids: places after task_sort_by_frequency()
  frequency, duration,    \* of each task, in seconds
  PROCESSORS              \* processors left to the tasks

ASSUME TasksAssumption ==
  /\ IsFiniteSet(Tasks)
  /\ frequency \in [Tasks -> Nat \ {0}]
  /\ duration \in [Tasks -> Nat \ {0}]
ASSUME ProcessorsAssumption == PROCESSORS \in Nat \ {0}

VARIABLES
  timer,                  \* seconds until the timer of a task expires
  semaphore,              \* releases that wait for the thread
  thread,                 \* "wait" in sem_wait(), "work", "done"
  left,                   \* seconds of work left of the current job
  ready,                  \* the threads that work, in the order they got ready
  g_running,
  main                    \* "join", "freed" the semaphores, "returned"

threadVars == <<semaphore, thread, left, ready>>
vars       == <<timer, threadVars, g_running, main>>

Init == /\ timer = [t \in Tasks |-> 1]
        /\ semaphore = [t \in Tasks |-> 0]
        /\ thread = [t \in Tasks |-> "wait"]
        /\ left = [t \in Tasks |-> 0]
        /\ ready = <<>>
        /\ g_running = TRUE
        /\ main = "join"

Without(queue, n) ==
  SubSeq(queue, 1, n - 1) \o SubSeq(queue, n + 1, Len(queue))

OnProcessor == {ready[n] : n \in {m \in DOMAIN ready : m <= PROCESSORS}}

(* sem_wait() returns: the thread is ready, behind the others. *)
Begin(t) == /\ thread' = [thread EXCEPT ![t] = "work"]
            /\ left' = [left EXCEPT ![t] = duration[t]]
            /\ ready' = Append(ready, t)

------------------------------------------------------------------------------
(* Mutant of Release: a thread that works is made ready once more.            *)
ReleaseTwice(t) ==
  /\ main # "returned"
  /\ timer[t] = 0
  /\ timer' = [timer EXCEPT ![t] = frequency[t]]
  /\ IF thread[t] = "done" THEN UNCHANGED <<thread, left, ready>> ELSE Begin(t)
  /\ UNCHANGED <<semaphore, g_running, main>>

(* thread_release(): the timer has expired.  A thread that waits takes the    *)
(* release at once; nobody takes those of a thread that has ended.            *)
Release(t) ==
  /\ main # "returned"
  /\ timer[t] = 0
  /\ timer' = [timer EXCEPT ![t] = frequency[t]]
  /\ \/ /\ thread[t] = "wait"
        /\ Begin(t)
        /\ UNCHANGED semaphore
     \/ /\ thread[t] = "work"
        /\ semaphore' = [semaphore EXCEPT ![t] = @ + 1]
        /\ UNCHANGED <<thread, left, ready>>
     \/ /\ thread[t] = "done"
        /\ UNCHANGED threadVars
  /\ UNCHANGED <<g_running, main>>

(* Mutant of Leave: the thread asks again and again instead of sleeping.      *)
LeaveBusy(t, next) == /\ thread' = [thread EXCEPT ![t] = next]
                      /\ UNCHANGED <<ready, semaphore, left>>

(* The thread gives the processor away. *)
Leave(t, next) == /\ thread' = [thread EXCEPT ![t] = next]
                  /\ \E n \in DOMAIN ready :
                       /\ ready[n] = t
                       /\ ready' = Without(ready, n)
                  /\ UNCHANGED <<semaphore, left>>

(* Mutant of Finish: the releases that wait are worked off before the end.    *)
FinishBacklog(t) ==
  /\ t \in OnProcessor
  /\ left[t] = 0
  /\ \/ /\ semaphore[t] > 0
        /\ semaphore' = [semaphore EXCEPT ![t] = @ - 1]
        /\ left' = [left EXCEPT ![t] = duration[t]]
        /\ UNCHANGED <<thread, ready>>
     \/ /\ semaphore[t] = 0
        /\ Leave(t, IF g_running THEN "wait" ELSE "done")
  /\ UNCHANGED <<timer, g_running, main>>

(* Mutant of Finish: sem_wait() does not look at the releases that wait.      *)
FinishSleeps(t) ==
  /\ t \in OnProcessor
  /\ left[t] = 0
  /\ Leave(t, IF g_running THEN "wait" ELSE "done")
  /\ UNCHANGED <<timer, g_running, main>>

(* Mutant of Finish: the work goes on without a release.                      *)
FinishUnchecked(t) ==
  /\ t \in OnProcessor
  /\ left[t] = 0
  /\ IF g_running
     THEN /\ semaphore' = [semaphore EXCEPT ![t] = @ - 1]
          /\ left' = [left EXCEPT ![t] = duration[t]]
          /\ UNCHANGED <<thread, ready>>
     ELSE Leave(t, "done")
  /\ UNCHANGED <<timer, g_running, main>>

(* thread_work(): the job is done.  With a release waiting, sem_wait() does   *)
(* not give the processor away: the thread keeps its place.                   *)
Finish(t) ==
  /\ t \in OnProcessor
  /\ left[t] = 0
  /\ \/ /\ ~g_running
        /\ Leave(t, "done")
     \/ /\ g_running /\ semaphore[t] = 0
        /\ Leave(t, "wait")
     \/ /\ g_running /\ semaphore[t] > 0
        /\ semaphore' = [semaphore EXCEPT ![t] = @ - 1]
        /\ left' = [left EXCEPT ![t] = duration[t]]
        /\ UNCHANGED <<thread, ready>>
  /\ UNCHANGED <<timer, g_running, main>>

(* A second passes once all that is due has happened. *)
Tick ==
  /\ main # "returned"
  /\ \A t \in Tasks : timer[t] > 0
  /\ \A t \in OnProcessor : left[t] > 0
  /\ timer' = [t \in Tasks |-> timer[t] - 1]
  /\ left' = [t \in Tasks |-> IF t \in OnProcessor THEN left[t] - 1 ELSE left[t]]
  /\ UNCHANGED <<semaphore, thread, ready, g_running, main>>

------------------------------------------------------------------------------
(* end_scheduler(): SIGINT.  Whichever thread takes the signal is interrupted *)
(* in a sem_wait() that nobody checks, and works without a release.           *)
Interrupt ==
  /\ main # "returned"
  /\ g_running' = FALSE
  /\ \/ UNCHANGED threadVars
     \/ \E t \in Tasks : /\ thread[t] = "wait"
                         /\ Begin(t)
                         /\ UNCHANGED semaphore
  /\ UNCHANGED <<timer, main>>

(* task_join_and_destroy(), and the return from main().                       *)
Destroy == /\ main = "join"
           /\ \A t \in Tasks : thread[t] = "done"
           /\ main' = "freed"
           /\ UNCHANGED <<timer, threadVars, g_running>>

Return == /\ main = "freed"
          /\ main' = "returned"
          /\ UNCHANGED <<timer, threadVars, g_running>>

Program == Tick \/ Destroy \/ Return \/ \E t \in Tasks : Release(t) \/ Finish(t)

Next == Program \/ Interrupt

(* The processors work, the clock runs, and main() gets on while it does;      *)
(* nobody has to type Ctrl-C.                                                 *)
Fairness == WF_vars(Program) /\ WF_vars(Destroy) /\ WF_vars(Return)

Spec == Init /\ [][Next]_vars /\ Fairness

------------------------------------------------------------------------------
(* The types of the variables.                                                *)
TypeOK == /\ timer \in [Tasks -> Nat]
          /\ semaphore \in [Tasks -> Nat]
          /\ thread \in [Tasks -> {"wait", "work", "done"}]
          /\ left \in [Tasks -> Nat]
          /\ ready \in Seq(Tasks)
          /\ g_running \in BOOLEAN
          /\ main \in {"join", "freed", "returned"}

(* No thread is queued twice and none is left sleeping: the threads that are  *)
(* ready are those with a job, each once, and no release waits for a thread   *)
(* that waits for a release, also when releases pile up and a signal falls    *)
(* among them.  Jobs are not matched with releases.                           *)
OneJobPerThread ==
  /\ \A t \in Tasks : thread[t] = "work" <=> \E n \in DOMAIN ready : ready[n] = t
  /\ \A m, n \in DOMAIN ready : ready[m] = ready[n] => m = n
  /\ \A t \in Tasks : thread[t] = "wait" => semaphore[t] = 0

(* The tasks of lab3.cfg, served in order of release, are late by one release *)
(* at most.                                                                   *)
AtMostOneLate == g_running => \A t \in Tasks : semaphore[t] <= 1

(* "Last call for processor!": after SIGINT a thread finishes the job it has, *)
(* whatever releases wait for it, and one that waits gets one more.           *)
LastCall ==
  [][~g_running => \A t \in Tasks :
       /\ thread[t] = "work" => /\ thread'[t] \in {"work", "done"}
                                /\ left'[t] <= left[t]
       /\ thread[t] = "done" => thread'[t] = "done"]_vars

(* After SIGINT the program ends.                                             *)
EndsAfterSignal == ~g_running ~> main = "returned"
==============================================================================
