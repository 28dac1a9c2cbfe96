# Formal models of the SZRSV programs

The repository holds four independent exercises in real-time systems. This
directory models them in TLA+, checks the models with TLC and proves theorems
about all four of them with TLAPS.

| directory      | program                                                             | state of the model |
|----------------|---------------------------------------------------------------------|--------------------|
| `01-lift`      | one lift: control computer, car and hall keys as three UDP processes | modelled, but for shutdown |
| `02-liftovi`   | three lifts, calls assigned by the control computer                  | modelled, but for shutdown |
| `03-posix`     | rate-monotonic scheduler on POSIX threads and timers                 | modelled, but for start-up |
| `04-ada`       | two lifts and passengers as Ada tasks                                | modelled |

## Inventory

### 01-lift

* **lift** (`lift.c`). State: position (floor and quarter of a floor), what the
  car is doing, direction, one waiting command (`current_action`), the request
  to stop at the next floor (`current_stop`), lamps of the cabin keys. The main
  thread advances the car by a quarter of a floor, or carries out the waiting
  command, once per 5 s. The listener takes commands and lamp switches and
  answers status requests; a third thread reads the keys of the cabin and STOP.
  Correct when the car stays in the shaft and rests only level with a floor,
  its door moves only at rest, its report is true, and an emergency stop is
  not overridden.
* **upr** (`upr.c`, `set.c`). State: the list of requests, the last report. Its
  main thread asks for the status once per second and decides *on the report it
  has*; the listener takes reports and keys and switches lamps on. Correct when
  every request is served, at its floor, and nothing else makes the car travel
  or open its door.
* **tipke** (`tipke.c`). The hall keys and their lamps.
* **request list** (`set.c`). A set kept as a list, sorted by how far the lift
  has to travel to each request. Correct when no request is lost or doubled, the
  next stop is on the lift's way, and the order does not depend on how far the
  lift has got.
* **datagrams** (`list.c`, `time.c`, `udp.c`, `message.h`). Every process numbers
  its datagrams, keeps those not acknowledged, and forgets them after half a
  second. Nothing is ever sent again. Correct when ids are unique, an
  acknowledged datagram is not tracked and no deadline is early or overlooked.
* **shutdown** (`kraj`). SIGINT frees the lists and exits, in whatever thread the
  signal hits.

They interact by datagrams only: keys and reports to upr, commands and lamps
from it. Inside a process, threads share state under `m_action`,
`m_request_list`, `m_datagram_list`, `m_status` and `m_get_id`. Hard behaviours:
decisions on reports that are old, commands repeated after they have taken
effect, commands dropped because another one waits, lost datagrams, threads that
interleave between two critical sections.

### 02-liftovi

The same processes, with three cars. `upr.c` is new: it assigns each hall call
to a lift, notes the floors where each lift has to stop (`stani`), and enters
commands in a table `naredba` indexed by the lift's place, direction and door,
to be sent when a lift reports that place. State: table, stops, calls (0 none, 1
new, 2 assigned), keys of the cabins, last reports. `upr()` and its listener
share all of it under `m_action`, which `upr()` holds for the whole of its round
after the status requests; only the lamp of a key is sent after the lock is
released. Correct when no lift passes a stop or stops and opens where nobody
asked, nothing is forgotten that was not served, and every stop and call is
served in the end. The car differs by fields of its own for direction and
door, and by sleeping first. Datagram list, hall keys and sockets are those of
`01-lift`.

### 03-posix

`main.c` and `task.c` start one thread per task, by ascending period; one timer
per task posts its semaphore once per period; the thread works for the task's
duration of processor time and waits again. State: timers, semaphores, the
threads and their order before the processors, `g_running`. SIGINT clears
`g_running`; main joins the threads, frees the semaphores and returns. Correct
when no thread is queued twice or sleeps over a release that waits, no task falls
behind, a thread stops after the job it has, and the program ends when asked to.

### 04-ada

`liftovi.adb`: two lift tasks, a passenger task created every 20 s. Shared: the
hall calls `katovi`, the open doors `lift1_vrata` and `lift2_vrata`, and a
semaphore `sem` around decisions and new calls only. A lift reads the calls
floor by floor without `sem` and decides under it. Correct when no lift leaves
the building, nobody who waits or rides is forgotten, and everybody arrives.

## Modules

| module             | models                                                      |
|--------------------|-------------------------------------------------------------|
| `LiftTypes`        | enumerations and sizes of `constants.h`                     |
| `Shaft`            | abstract: what any lift promises                            |
| `LiftCar`          | `01-lift/lift.c`: main thread and commands; implements `Shaft` |
| `LiftCarProofs`    | theorems about `LiftCar`                                    |
| `RequestList`      | `set.c` as operators; `SetSort` as the stable sort          |
| `RequestSet`       | the list as upr uses it, `SetSort` one iteration at a time  |
| `RequestListProofs`| lemmas about `RequestList`: insertion, removal, the sort    |
| `RequestSetProofs` | theorems about `RequestSet`                                 |
| `LiftSystem`       | upr, lift (an instance of `LiftCar`) and tipke on channels  |
| `LiftSystemProofs` | theorems about `LiftSystem`                                 |
| `Datagrams`        | ids, list, acknowledgements and deadlines of one process    |
| `DatagramsProofs`  | theorems about `Datagrams`                                  |
| `LiftoviCar`       | `02-liftovi/lift.c`: a car as a record, its operations      |
| `Liftovi`          | `02-liftovi`: upr, the lifts and tipke on channels; each lift implements `LiftCar` |
| `LiftoviProofs`    | theorems about `Liftovi`                                    |
| `Scheduler`        | `03-posix`: timers, semaphores, threads, processors, SIGINT |
| `SchedulerProofs`  | theorems about `Scheduler`                                  |
| `AdaLifts`         | `liftovi.adb`                                               |
| `AdaLiftsProofs`   | theorems about `AdaLifts`                                   |
| `MCAdaLifts`, `MCScheduler` | the symmetry of passengers, the tasks of `lab3.cfg`, for TLC |

`LiftCar` implements `Shaft`, each lift of `Liftovi` implements `LiftCar`, and
the lift of `LiftSystem` is `LiftCar`: what the first two modules say holds in
all the programs written in C.

Definitions keep the names of the source where they have one. In brackets below:
the code.

**LiftCar.** One action per critical section of `m_action` or `m_status`:
`Advance` (the branch without a waiting command), `Execute` (one disjunct per
command), `Idle`, and `ReceiveAction`, `ReceiveStopAtFloor`, `ReceiveLamp` for
the listener, which here may be sent anything at any time. `current_action_timeout`
is left out: it is at most 0.3 s ahead when the main thread goes to sleep for 5 s,
so the test on it holds whenever the rest of the condition does. The branch
`A_LIFT_STANI_NA_KATU` of the main thread (lift.c:208-216) is dead: the listener
never puts that command in `current_action`. The branch `S_STOJI` of the step
(lift.c:117) is dead too: the process exits as it sets that state.

**RequestList, RequestSet.** A linked list is a sequence. `SetSort` has two
forms: the loop of `set.c`, an iteration per step (`SortStep`), and the operator
the other modules use, which puts each request at the place that the number of
requests `Sooner` than it gives (`Place`). That the two agree (`SortIsStable`) is
proved.

**LiftSystem.** A round of `upr()` is `Tick` (status request, sort, commands)
and, when the door is reported open, `Served` (the removal at its end): between
the two the listener may insert hall keys, which need `m_request_list` only, but
not cabin keys or reports, which need `m_action`. A listener that inserts a
request and then sends the lamp datagram does so in two actions. A channel is a
sequence: UDP between sockets of one machine keeps the order, and a full buffer
loses datagrams (`Lose`). Acknowledgements, and the status request to tipke,
change nothing here. `LiftRound` and the listeners of the lift are actions of
`LiftCar` joined with the channels.

**Datagrams.** Threads that call `GetNewMessageID`, stamp the deadline, lock,
send and insert, one action each, so that every order of two threads occurs. The
mutexes are variables. The list is a sequence with its head first, and `check_list`
walks it under the mutex, one datagram per step (`BeginWalk`, `RemoveExpired`,
`StepOver`, `EndWalk`), with `last` and `curr` as positions in it; the clock may go on
meanwhile, the time it compares with is read once. `at`, `acked` are history, for
the properties only.

**LiftoviCar, Liftovi.** A car is a record; `Round` is a round of `lift()` under
its `m_action`, `TakeAction` what the listener does with a command. A round of
`upr()` is one action, `UprRound`: it holds `m_action` from the assignment of
calls to the last command sent, and the listener cannot come between. Its parts
follow the code: `Assigned` and `LiftFor` (the search for a lift, with the first
of two equally near), `Wanted` (`stani` after keys and calls are taken over),
`StopsAhead` (the commands entered two quarters before a stop and at it),
`Errands` (what a standing lift is told), `Table` and `Due` (the table `naredba`,
a set of entries, and the entry for the lift's place, which is sent and erased),
`CallAfter` and `HallLampsOut` (calls served, lamps put out). The status request
that starts a round is sent with the end of the last one, so that a round begins
with the answers. `cekaj_do` delays nothing: line 276 sets it back to the
present, and its test (lines 365-367) always holds. The listener's two steps,
the key under `m_action` and the lamp after it, are two actions (`to_send`).
`CarOf(i)` is the refinement mapping of lift `i` to `LiftCar`.

**Scheduler.** `task_init_thread()` sets a priority per task in an attribute
without `PTHREAD_EXPLICIT_SCHED`: it has no effect, the threads inherit the
policy and the one priority of main, and the processors go to the threads in the
order they become ready (`ready`, of which the first `PROCESSORS` run). That
main is granted `SCHED_FIFO` at all is assumed. `Release` is an expiring timer,
`Finish` the end of a job and what `sem_wait()` does then, `Tick` a second of
work. `Interrupt` is SIGINT: it may return a thread from a `sem_wait()` whose
result nobody checks, and that thread then works without a release. The
threads of the timers are short and are taken to find a processor of their own.

**AdaLifts.** A round of a lift is `Publish`, the delay (`Wake`, with the move
and the accept that follow it), `Look` floor by floor (the two calls of a floor, which the code reads one
after the other, in one step), and `Decide` under `sem`,
with one disjunct per branch of the chain of conditions. Time enters in one
place: a lift delays five seconds and a passenger one, so every passenger looks
at the doors at least once between `Publish` and `Wake` (`unpolled`).

## Runs

All take less than four minutes with two workers.

| run | shows | states |
|-----|-------|------|
| `lift_car` | the car, commanded anything at any time: rests level (`RestsLevel`), an accepted emergency stop is the next thing it does (`EmergencyStopWins`), and it implements `Shaft` (`KeepsShaft`), which says that it stays inside | 4 thousand |
| `request_set` | insertions, removals and sorts in every order: nothing lost or doubled, also halfway through a sort (`NothingLost`); the loop ends and is the stable sort (`SortIsStable`); the next stop is the nearest on the path (`NextStopOnPath`); travelling towards the head of the list does not change the order (`OrderSurvivesTravel`) | 13 thousand |
| `system_busy` | three requests or STOP keys at once on four floors: the car travels only while somebody waits (`TravelsForSomeone`), has a request below whenever it descends (`DescendsToRequest`), opens its door only at a floor somebody waits at (`OpensForRequest`), and a request leaves the list only while the car stands level at its floor (`ServedAtFloor`) | 2.4 million |
| `system_served` | one request at a time, at any moment among the datagrams in flight, one datagram lost: it is served | 140 thousand |
| `liftovi` | two lifts on three floors, two keys or lost datagrams: a travelling lift has a stop before it (`NeverMissesStop`), no stop is left over from a trip (`NoLeftoverStop`), a door opens only at a stop unless a datagram was lost (`OpensForRequest`), what upr forgets was served with an open door, a call by a lift that came in its direction, also when one datagram is lost (`ServedWithDoorOpen`), the lamp of a call that waits, new or assigned, and of a cabin key is lit and stays so, or the last datagram about it lights it, unless one was lost (`LampShowsRequest`), every stop of a lift that has moved is served (`EveryStopServed`), each lift is a `LiftCar` (`CarsAreLiftCars`) | 960 thousand |
| `scheduler` | the four tasks of `lab3.cfg` on one processor, SIGINT at any moment in any thread: a thread with a job is queued once and none sleeps over a release that waits (`OneJobPerThread`, which does not match jobs with releases), no task late by more than one (`AtMostOneLate`), after the signal a thread that works finishes its job and ends (`LastCall`), the program ends (`EndsAfterSignal`) | 340 thousand |
| `datagrams` | two threads, four ids, deadlines across the turn of a second: ids are unique (`UniqueIds`), what is acknowledged is not tracked (`AckedNotTracked`), a datagram is given up not before its time, and not because one next to it is (`NoEarlyDrop`), and a walk of `check_list` leaves none behind that had expired when it began, whatever the order of the list (`NoneExpiredKept`) | 2.4 million |
| `ada_safe` | two lifts, two passengers, four floors, all interleavings: `InsideBuilding`, `PublishedDoorIsThere`, `NobodyForgotten`, `KeyRemembered` | 2.4 million |
| `ada_served` | whoever enters a lift arrives (`EveryRideEnds`), and a call above some lift is answered (`CallsAboveAnswered`) | 190 thousand |

Three runs show where the code does not do what its comments or messages say:

* `overshoot`: a key UP at the floor that a rising car has just left becomes the
  first request (its distance is 0) and hides the request at the floor above; the
  car passes it, and at the top travels up against the end for ever. `lift.c:131`
  calls it "Can't go higher!". Downwards it cannot happen, because `current_floor`
  is already the floor below (`DescendsToRequest`, which is proved).
* `door_never_opens` (02): a lift that has never moved reports direction
  `D_STOJI`, for which upr.c:335-356 enters a command in every round whatever the
  lift is doing. Called at its own floor it starts to open its door, and is then
  told to open in each round; the car drops each of the commands in a round of
  its own and has none left to open the door ("mora otvoriti vrata", upr.c:285).
* `call_unanswered` (02): upr notes that a lift has nothing to do by setting its
  direction to `D_STOJI` ("inace stoji", upr.c:308) and looks for such a lift when
  it assigns a call; the report in between overwrites the note, and a call behind
  a lift that has stopped is never assigned to it.

### Behaviour worth knowing

Seen while modelling, and not claimed otherwise by the code:

* 01: upr repeats "stop at the next floor" until the report changes; the last one
  arrives after the stop, is remembered in `current_stop`, and the next trip ends
  early, where nobody waits. The car then goes on: a round is lost, no request.
* 01: the hall lamp put out is that of the first request's direction and not of
  the request served (upr.c:171 and 177-187): a lamp can go out while its request
  waits.
* 01 and 02: "Elevator is going to stop!" (upr.c:427), but a lift that holds another
  command drops the emergency stop, and nobody repeats it.
* 02: a command is erased from `naredba` as it is sent and never sent again. One
  lost datagram can make a lift pass its stop and stand at the end of the shaft
  for good; the properties that need all datagrams say `losses = 0`.
* 02: with enough datagrams lost (some thirty in the trace TLC found) an order to
  open the door outlives the errand it was sent for, and the door opens at a floor
  that is not among the lift's stops. Without a loss it never does: this is proved.
* 02: as long as upr believes the door open it clears calls and keys for the floor
  without looking further. Five or six datagrams lost in a row let the lift close
  its door meanwhile, and a call pressed then is forgotten; one is not enough,
  because each repeated command to close costs the lift the round in which it
  would have closed.
* 02: a stop must be asked for between the lift's second and fourth quarter. With
  two rounds of `upr()` per round of `lift()`, as the periods are, the report of
  quarter 2 is always seen; with one it would not be (`MinTicks = 1` breaks
  `NeverMissesStop`).
* 02: a round of upr between the key and its lamp (upr.c:536-557) can serve the key
  first: the lamp is then lit after it was put out, and stays lit. `LampShowsRequest`
  therefore goes from the request to its lamp and not back.
* 02: a call served by a lift that has never moved is cleared for direction
  `D_STOJI` and stays 2 for its own (upr.c:228), while the lamp put out is UP
  (251-258). As long as no datagram is lost it does not come to that, because such a
  lift never gets its door open (`door_never_opens`); with two commands lost it does,
  and the call keeps its 2 until the next key sets it to 1.
* 03: a thread whose `sem_wait()` a signal interrupts works without a release
  (main.c:54).
* 03: priorities have no effect (see Scheduler above), so a short task may wait
  for all others. With the load of `lab3.cfg` none is late by more than one release.
* 03: the semaphores are freed while the timers that post them are armed
  (task.c:77).
* 04: a lift at rest with requests below does not go down unless there are both
  kinds (liftovi.adb:280 against 282). For that reason `ada_served` claims an
  answer only for calls above a lift.

### Bounds

* `FLOORS`: 3 or 4 instead of 10 (4 in the Ada program is the code's own). Three
  floors have a bottom, a top and a floor between; with four, two requests can lie
  on the way to a third.
* `MaxWaiting`, `MaxRequests`: requests waiting or on their way. Three are enough
  to have one served, one ahead and one behind. With several requests liveness
  fails (a car that has overshot never comes back), so `EveryRequestServed` is
  checked with one.
* `MinTicks`, `MaxTicks`: rounds of upr per round of the lift. In `01-lift` 4 and
  5 (1 s in 5 s, one of which may be lost to drift), in `02-liftovi` 2 (1 s in 2 s).
  There the two programs go in step: the work of a round comes on top of its period
  in the code, and a round of the lift with a single round of upr, which then occurs
  now and then, is not covered. The proofs take any number from 2 upwards.
* `ELEVATORS`: 2 instead of 3. A call sees a nearest lift and another one; the
  lifts share nothing. `MaxEvents` = 2: keys pressed and datagrams lost in a run, a
  lift therefore has two stops, or a key comes while another is served. One lift
  with three events, where stops lie on both sides, was checked for the safety
  properties as well (2 million states).
* `InTurn` = TRUE (`Liftovi`): the lifts read their sockets one after the other. They
  share no state, and upr reads all answers before its next round, so that the
  order among the lifts changes nothing.
* `Overlap = FALSE` (system runs): keys and rounds of the lift fall between two
  rounds of upr and not among the datagrams of one, which are exchanged in
  milliseconds. TRUE drops that and is used with one request.
* `Overlap = FALSE` (Ada): a lift wakes only while the other one is in its delay.
  `ada_safe` uses TRUE.
* `MaxLosses`: datagrams lost in a run. `MaxID`, `MaxTime`, `SECOND`, `TIMEOUT` in
  `Datagrams`: two turns of a second (of 3 units) and datagrams with 2 units to
  live; the arithmetic of the carry is the same at 10^9.
* `Scheduler` needs no bound: with the tasks of `lab3.cfg` the releases that wait
  stay few by themselves, and after SIGINT they are not worked off.
* `VIEW Control` leaves the lamps out of the state's fingerprint in runs whose
  properties are not about them; no guard reads a lamp. Passengers are alike and
  are never compared, so they may be permuted (`AnyPassenger`; safety runs only).

### Fairness

Every thread goes round for ever and holds its locks for a moment, so each
action of a thread is fair; a key need not be pressed, a signal need not come and
a datagram need not be lost. In `LiftSystem`, `Tick` and `LiftRound` are strongly
fair: their guards `Quiet` and `Settled` are the model's way to say that a round
of datagrams is over before the next second, and they become false and true
again. For the same reason the lifts of the Ada program are strongly fair when
they must not overlap. In `Liftovi` weak fairness of `Program` as a whole is enough:
a round of upr waits for the answers to the last one, a round of a lift for rounds
of upr and these for the lift, so that no part can be left behind. In `Scheduler`
weak fairness of `Program` makes the clock run and the threads work; those of
`Destroy` and `Return` say that main, which works on nothing, gets on meanwhile.

## Proofs

For every number of floors (at least two), of lifts, tasks, processors, senders
and passengers, every period and duration, every length of a run, and whatever
is pressed and lost. Where a statement needs more, it says so as a hypothesis:

* `MinTicks >= 2`, at least two rounds of `upr()` to a round of `lift()`, in
  `02-liftovi` (`UPR_FREQUENCY` 1 s and `LIFT_FREQUENCY` 2 s, constants.h:28-29);
* `MaxLosses < MinTicks` in `01-lift`, for the two theorems on where the car goes:
  fewer datagrams are lost in the run than `upr()` has rounds to one of `lift()`, up
  to three with its periods of 1 s and 5 s (`MinTicks` = 4, one round lost to
  drift);
* `LightLoad` in `03-posix`, for `AtMostOneLate` only.

* `LiftCarProofs`. `RestsLevel` and `InsideShaft` do not keep themselves: the
  guard "can't go higher" protects the first quarter of a floor only, so that the
  car cannot be above the top floor rests on its never being between floors
  there. `IInv` joins the type invariant, these parts and `ReportsTravel` and is
  inductive; from it come `TypeCorrect`, `AlwaysRestsLevel`, `AlwaysInsideShaft`,
  `EmergencyStopIsNext`, and `ImplementsShaft`, the refinement of `Shaft`, where
  each action of the car is matched with a step of `Shaft` or a stutter.
* `RequestListProofs`, `RequestSetProofs`. `NothingLost` is kept because both lists,
  the one taken apart and the one built, hold their requests once and share none;
  `NextStopOnPath` needs that the head of the sorted part is nearer than all that
  follow (`HeadIsNearest`) and that a nearest one exists (well-foundedness of the
  distances). The stable sort puts every request at a place of its own, because
  `Sooner` is a strict total order and a smaller set of sooner requests has fewer
  elements; that the loop computes it needs the invariant that the new list holds the requests of
  the first places and that those left over are in the order they came in
  (`SortedSoFar`). Going towards the head of the list changes no order of two
  distances (`TravelKeepsOrder`), and a list that is in order is left as it is
  (`SortedIsKept`). Theorems
  `TypeCorrect`, `SortKeepsRequests`, `PathIsServedFirst`, `TravelKeepsTheList`,
  `LoopIsStableSort`.
* `LiftSystemProofs`. Old reports and repeated commands are on their way at any
  moment, so the invariant speaks of them too (`ControlOK`): a report, on its way
  or last received, stays true long enough (a car reported with its door open has
  not left and is not about to, one reported closed is not told to close:
  `ReportsStayTrue`); one command is on its way at most, and none follows a door
  about to close (`OrdersFit`); a car that travels or is about to leaves for
  somebody (`LeavesForSomeone`); upr removes requests only after a report of the
  open door (`Serving`). With it the `IInv` of the car, whose steps the steps of the system
  are. Theorems `SystemTypeCorrect`, `NeverTravelsForNobody`,
  `RequestsServedAtFloor`, `CarIsLiftCar`, `SystemKeepsShaft`.

  Where the car goes depends on the pace of the threads, and needs `Course` on top:
  - a report that arrives is true, or one round of the lift old and then no round of
    `upr()` has passed since (`NewsTrue`); each round of `upr()` brings it a true
    report, but for datagrams lost (`InTime`), so that it is never more than one
    round of the lift behind (`Recent`), and before the first report the car has
    not moved (`Unmoved`);
  - a closed car that is told to go down or to open has a request below or at its
    floor, and an order that comes too late for that does not wait until the car
    stands again (`AimsFit`);
  - a car that descends to the last request is told to stop while it is half a floor
    above it, and the last round of `upr()` in which this can be done is one whose
    datagrams cannot all be lost (`StopsForLast`); that upr sees the request then
    rests on the sort, which on the way down puts no request above the car first
    while there is another (`HeadNotAbove`). Hence there always is one below
    (`Descends`).

  TLC checked `Course` before the proof, on all states of instances with no loss and
  `MinTicks` = 1 and with one loss and `MinTicks` = 2. Theorems
  `AlwaysDescendsToRequest`, `AlwaysOpensForRequest`. The hypothesis matters: with
  `MinTicks` = 1 and two losses TLC finds a request passed on the way down.
* `LiftoviProofs`, in four parts.
  - *Types and refinement.* What can reach a car is typed along its whole way:
    reports, stops, the entries of `naredba`, the datagrams (`IInv`), together with
    `Inside` for each car. Each step of the program is then a step of `LiftCar` for
    each lift, or leaves it alone (`NextSteps`), operation by operation. Theorems
    `ThreeLiftsTypeCorrect`, `LiftsStayInside`, `LiftsAreLiftCars`.
  - *What upr believes* (`Timely`). A report is what the lift shows, or what it
    showed before its last round, and then no round of `upr()` has followed; two
    rounds later upr knows. A stop on its way is therefore meant for the trip the
    lift is on. Theorems `NoStopLeftOver`, `ForgetsOnlyAtOpenDoors`.
  - *The course of a lift* (`Course`, as long as no datagram is lost). Six parts,
    none inductive without the others: the car is in a proper state (`Proper`); upr
    knows its state and direction too, or asks (`Informed`); the entries of
    `naredba` are stops at quarter 2 and doors ahead (`Entered`); a door opened
    before the first trip does not open (`NeverOpens`, the defect of run
    `door_never_opens`, which the other parts rest on); orders on their way and in
    the lift still fit its stops (`OrdersFit`); and a travelling lift has a stop
    ahead which, in the last quarters before it, is entered, on its way or
    accepted, at the latest moment each of these is in time (`HasStopAhead`). It was
    checked with TLC on one lift, four floors, three keys, and two or three rounds
    of upr per round of the lift (7.6 million states) before it was proved. Theorems
    `StopsAheadAreNotMissed`, `OpensOnlyForRequests`.
  - *Lamps.* A call that waits, new or assigned, and a cabin key have their lamp lit, or
    the last of the datagrams about it, owed by the listener or on its way, lights it
    (`HallOK`, `LampsFollow`, `WillBeLit`). What a round of `upr()` puts out must be what
    it clears. The two differ for a lift that has never moved, so this rests on upr
    never seeing its door open (`OpenDoorsMoved`): such a lift does not open
    (`NeverOpens`), and one that has opened reports the direction it came in. Theorem
    `WaitingKeysAreLit`, for `MinTicks >= 2` on account of `Course`.
* `DatagramsProofs`. Each mutex is held by the thread whose place says so, and an id
  below `ID` is given out to one thread or datagram only; hence `IdsAreUnique` and
  `AnswersAreFinal`. `Deadlines` says that a deadline, read as a number, is the
  moment it was stamped plus `TIMEOUT`, on both sides of the turn of a second. While
  `check_list` walks, the mutex keeps the others out (`Owners`), `last` is right in
  front of `curr` (`WalkInList`), so that unlinking takes out one datagram and keeps
  the order of the others (`UnlinkOne`), and nothing expired is left behind `curr`
  (`Walked`); hence `NothingDroppedEarly` and `ExpiredIsDropped`.
* `SchedulerProofs`. The invariant is `OneJobPerThread` with the types; `Leave` is
  the hard step, where the queue closes up behind the thread that leaves it.
  Theorems `TypeCorrect`, `NoWorkLostOrDoubled`, `LastCallIsLast`.

  How late a task can be depends on the order of the jobs; how much work is left
  does not. `AtMostOneLate` is proved from that: since the last moment at which
  nothing was left, the processor has been busy for `b` seconds and each task has
  been released `n[t]` times, and what is left is the work of these releases less
  `b` (`Accounted`). A release for each period bounds `n`, this bounds the work, and
  the work bounds `b`. So if in `busy` seconds the releases bring no more than `busy`
  seconds of work, and none comes more than twice (`LightLoad`), no task is late by
  more than one: `LightLoadIsNeverFarBehind`. The timers start together, as `main()`
  starts them. The
  sum of the work of all tasks would need induction over the set of tasks; it is
  a parameter, `sum`, with the facts that make it a sum (`AddsUp`).
  `Lab3IsNeverFarBehind` gives `sum` and `busy` = 7 for the four tasks of `lab3.cfg`,
  shows that they meet these hypotheses, and has the property without them.
* `AdaLiftsProofs`. `InsideBuilding` needs an invariant of the decision: what a
  lift saw above or below it, it saw at an existing floor on that side; a lift
  with a direction and a closed door has a floor ahead until it moves (`WayFree`).
  `NobodyForgotten` needs that during the delay the published door is the lift's
  door, and that only then is there anybody who has not looked yet
  (`DoorInDelay`); `KeyRemembered` needs in addition that whoever is in the queue of
  a lift has entered that lift and is there once (`QueueOK`). Theorems
  `TypeCorrect`, `StaysInBuilding`, `DoorIsReal`, `CallsAreKept`, `KeysAreKept`.

The proofs assume the named assumptions of the modules, which TLC evaluates on
its instances. Every safety invariant and action property of the runs is stated by
a theorem. Only model-checked is everything about liveness, as the prover has no
ENABLED: `EveryRequestServed`, `EveryStopServed`, `EndsAfterSignal`, `EveryRideEnds`,
`CallsAboveAnswered`.

## Not modelled

* `parse.c`, `udp.c`, `parser.c`: start-up and sockets. `PrintStatus`, `Ispis`, the
  thread that prints `g_aktivna_dretva`, debug output.
* Input that is not a floor: lift.c:418 and tipke.c:89 do not check it.
* `kraj` in both programs: SIGINT runs it in whatever thread takes the signal, in
  the middle of any instruction, where it locks mutexes that this thread may hold
  and calls `free` and `printf`. What it does then is undefined. With the signal
  taken outside, `upr()`, which tested the list under `m_action`, may still find it
  emptied under `m_request_list` (upr.c:103 and 215).
* The start-up of `03-posix`: a thread that looks for its own id before
  `pthread_create` has stored it (main.c:49).
* A round of upr in `01-lift` that finds a datagram of the last round still
  unanswered: with that the listener's two steps (insert, light the lamp) could
  fall around a whole round. `Liftovi` has the same two steps and lets them.
* The status request to the keys and their answer, which nobody uses.

## Plan

`Shutdown`: the threads of upr against `kraj` taken in a thread that holds no
mutex, to see which of them protects the request list.
