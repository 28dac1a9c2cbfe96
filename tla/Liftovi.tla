------------------------------- MODULE Liftovi -------------------------------
(* The three-lift program of src/02-liftovi: the control computer upr, the    *)
(* lifts (module LiftoviCar) and the keys in the hall, tipke.                 *)
(*                                                                            *)
(* upr() and its listener share everything under m_action, which upr() holds  *)
(* from the assignment of calls to the sending of commands: a round is one    *)
(* action.  cekaj_do is left out: line 276 sets it back to the present after  *)
(* line 202 has moved it ahead, so the test of lines 365-367 always holds.    *)
EXTENDS LiftoviCar, Sequences, FiniteSets

CONSTANTS
  ELEVATORS,           \* 3 in the code
  MaxEvents,           \* bound: keys pressed and datagrams lost in a run
  MinTicks, MaxTicks,  \* rounds of upr() per round of lift(): 2 by the periods
                       \* of the code
  InTurn               \* TRUE: the lifts read their sockets one after the other
                       \* (they share nothing), FALSE: in any order

ASSUME ElevatorsAssumption == ELEVATORS \in Nat \ {0}
ASSUME BoundsAssumption ==
  /\ {MaxEvents, MinTicks, MaxTicks} \subseteq Nat
  /\ MinTicks <= MaxTicks /\ MaxTicks > 0
  /\ InTurn \in BOOLEAN

Lifts == 0 .. ELEVATORS - 1

VARIABLES
  \* the lifts
  car, status,
  \* upr
  current,             \* the last report of each lift
  stani,               \* the floors each lift has to stop at
  naredba,             \* commands entered for a place
  tipke_u_liftu,       \* keys of each cabin that wait
  tipke_na_katu,       \* calls: 0 none, 1 new, 2 assigned
  to_send,             \* what the listener still has to send: <<>> or one
  \* tipke
  hall_status,         \* its status[][]
  \* the network: what is on its way to each socket
  to_lift, to_upr, to_tipke,
  \* bounds
  presses, losses, ticks

liftVars == <<car, status>>
uprVars  == <<current, stani, naredba, tipke_u_liftu, tipke_na_katu, to_send>>
netVars  == <<to_lift, to_upr, to_tipke>>
bounds   == <<presses, losses, ticks>>
vars     == <<liftVars, uprVars, hall_status, netVars, bounds>>

Keys     == [floor : Floors, direction : {D_UP, D_DOWN}]
Key(f, d) == [floor |-> f, direction |-> d]
HallKeys == Keys \ {Key(FLOORS - 1, D_UP), Key(0, D_DOWN)}

Msg(type, lift, data) == [type |-> type, lift |-> lift, data |-> data]
Action(i, a)          == Msg("LIFT_ACTION_START", i, a)

(* state = -1: the lift has not reported yet.                                 *)
UNKNOWN == "unknown"
A_LIFT_STATUS == "A_LIFT_STATUS"

(* upr() starts with a status request to each lift. *)
Init == /\ car = [i \in Lifts |-> InitialCar]
        /\ status = [i \in Lifts |-> {}]
        /\ current = [i \in Lifts |->
             [floor |-> 0, im_floor |-> 0, direction |-> D_UP,
              door |-> V_ZATVORENA, state |-> UNKNOWN]]
        /\ stani = [i \in Lifts |-> {}]
        /\ naredba = [i \in Lifts |-> {}]
        /\ tipke_u_liftu = [i \in Lifts |-> {}]
        /\ tipke_na_katu = [k \in Keys |-> 0]
        /\ to_send = <<>>
        /\ hall_status = {}
        /\ to_lift = [i \in Lifts |-> <<Action(i, A_LIFT_STATUS)>>]
        /\ to_upr = <<>>
        /\ to_tipke = <<>>
        /\ presses = 0 /\ losses = 0
        /\ ticks = [i \in Lifts |-> 0]

------------------------------------------------------------------------------
(* upr(), "tipke na katovima": the lift for a new call is the nearest of      *)
(* those that come its way or have nothing to do.                             *)
Dist(i, f) == IF f >= current[i].floor THEN f - current[i].floor
                                       ELSE current[i].floor - f

CanAnswer(i, k) ==
  /\ current[i].state # UNKNOWN
  /\ \/ current[i].direction = D_STOJI
     \/ /\ current[i].direction = k.direction
        /\ IF k.direction = D_UP THEN current[i].floor <= k.floor
                                 ELSE current[i].floor >= k.floor

Answering(k) == {i \in Lifts : CanAnswer(i, k)}

LiftFor(k) == CHOOSE i \in Answering(k) :
                \A m \in Answering(k) :
                  \/ Dist(i, k.floor) < Dist(m, k.floor)
                  \/ Dist(i, k.floor) = Dist(m, k.floor) /\ i <= m

Assigned == {k \in Keys : tipke_na_katu[k] = 1 /\ Answering(k) # {}}

(* Where lift i has to stop, once keys and calls are taken over.              *)
Wanted(i) == stani[i] \cup tipke_u_liftu[i]
               \cup {k.floor : k \in {h \in Assigned : LiftFor(h) = i}}

------------------------------------------------------------------------------
(* The table naredba of a lift is the set of its entries that are not 0. *)
Entry(f, im, d, door, a) == [place |-> <<f, im, d, door>>, action |-> a]

Enter(table, new) ==
  {e \in table : \A n \in new : n.place # e.place} \cup new

(* "azuriraj strukturu naredbe": the stops ahead of a lift, which are asked   *)
(* for two quarters before the floor, and the doors to open there.            *)
Ahead(i, want) ==
  LET r == current[i]
  IN  CASE r.state = S_STOJI_OTVOREN /\ r.floor \in want -> {}
        [] r.direction = D_UP   -> {f \in want : f > r.floor}
        [] r.direction = D_DOWN -> {f \in want : f < r.floor}
        [] OTHER                -> {}

(* Mutant of StopsAhead: the stop is asked for one quarter before the floor.  *)
StopsAheadLate(i, want) ==
  IF current[i].state = UNKNOWN THEN {} ELSE
  LET d == current[i].direction
  IN  UNION {{Entry(IF d = D_UP THEN f - 1 ELSE f, IF d = D_UP THEN 3 ELSE 1,
                    d, V_ZATVORENA, A_LIFT_STANI_NA_KATU),
              Entry(f, 0, d, V_ZATVORENA, A_LIFT_OTVORI)} :
             f \in Ahead(i, want)}

StopsAhead(i, want) ==
  IF current[i].state = UNKNOWN THEN {} ELSE
  LET d == current[i].direction
  IN  UNION {{Entry(IF d = D_UP THEN f - 1 ELSE f, 2, d, V_ZATVORENA,
                    A_LIFT_STANI_NA_KATU),
              Entry(f, 0, d, V_ZATVORENA, A_LIFT_OTVORI)} :
             f \in Ahead(i, want)}

(* "obradi liftove s otvorenim vratima": the door is open, the floor is done. *)
DoorOpen(i) == current[i].state = S_STOJI_OTVOREN

(* Mutant of Kept: a floor is done once the lift stands there.                *)
KeptTooFew(i, want) ==
  IF current[i].state \in {S_STOJI_OTVOREN, S_STOJI_ZATVOREN}
  THEN want \ {current[i].floor} ELSE want

Kept(i, want) == IF DoorOpen(i) THEN want \ {current[i].floor} ELSE want

(* "inace stoji": a lift without a floor to go to is noted to stand.          *)
NextDirection(i, want) ==
  IF current[i].state = S_STOJI_ZATVOREN /\ want = {}
  THEN D_STOJI ELSE current[i].direction

(* Mutant of Errand: a lift on its way up does not turn.                      *)
ErrandStubborn(i, want, direction) ==
  CASE current[i].floor \in want -> A_LIFT_OTVORI
    [] current[i].floor \notin want /\ direction # D_DOWN -> A_LIFT_GORE
    [] OTHER -> A_LIFT_DOLE

(* What a standing lift with floors to go to does next: go on in its          *)
(* direction, or turn; without one, go to the nearest floor.                  *)
Errand(i, want, direction) ==
  LET here  == current[i].floor
      above == {f \in want : f > here}
      below == {f \in want : f < here}
      nearer(S, T) == \E f \in S : \A g \in T : Dist(i, f) <= Dist(i, g)
      up == CASE direction = D_UP   -> above # {}
              [] direction = D_DOWN -> below = {}
              [] OTHER              -> ~nearer(below, above)
  IN  CASE here \in want -> A_LIFT_OTVORI
        [] here \notin want /\ up -> A_LIFT_GORE
        [] OTHER -> A_LIFT_DOLE

(* What lift i is told once it has opened its door, and once it stands.       *)
Errands(i, want) ==
  LET r    == current[i]
      kept == Kept(i, want)
      d    == NextDirection(i, want)
      at(door, a) == Entry(r.floor, r.im_floor, d, door, a)
      free == \/ r.state = S_STOJI_ZATVOREN
              \/ r.state # UNKNOWN /\ d = D_STOJI
  IN  (IF DoorOpen(i) THEN {at(V_OTVORENA, A_LIFT_ZATVORI)} ELSE {})
      \cup
      (IF free /\ kept # {} THEN {at(V_ZATVORENA, Errand(i, kept, d))} ELSE {})

(* "salji naredbe": the table after the round's entries, and the entry for    *)
(* the place where the lift is.                                               *)
Table(i, want) ==
  Enter(Enter(naredba[i], StopsAhead(i, want)), Errands(i, want))

Due(i, want) ==
  LET r == current[i]
  IN  {e \in Table(i, want) :
         e.place = <<r.floor, r.im_floor, NextDirection(i, want), r.door>>}

------------------------------------------------------------------------------
(* What a round sends: to a lift, the lamp to put out, the command, and the   *)
(* status request the next round starts with; to the keys, the lamps that the *)
(* lifts with an open door put out.                                           *)
LampsOut(i) == IF DoorOpen(i)
               THEN <<Msg("LIFT_GASI_LAMPICU", i, current[i].floor)>> ELSE <<>>

CommandSent(i, want) ==
  LET due == Due(i, want)
  IN  IF due = {} THEN <<>> ELSE <<Action(i, (CHOOSE e \in due : TRUE).action)>>

CallServed(i) == Key(current[i].floor, current[i].direction)

(* Mutant of LampServed: the lamp of the other direction is put out.          *)
LampServedSwapped(i) == Key(current[i].floor,
                            IF current[i].direction = D_DOWN THEN D_UP ELSE D_DOWN)

(* Lamps of a lift that has not moved yet go out as if it went up. *)
LampServed(i) == Key(current[i].floor,
                     IF current[i].direction = D_DOWN THEN D_DOWN ELSE D_UP)

(* The n-th of a set of lifts: the loops of upr() go through them in order.   *)
Nth(S, n) == CHOOSE i \in S : Cardinality({j \in S : j <= i}) = n

HallLampsOut ==
  LET open == {i \in Lifts : DoorOpen(i)}
  IN  [n \in 1 .. Cardinality(open) |->
         Msg("TIPKE_GASI_LAMPICU", Nth(open, n), LampServed(Nth(open, n)))]

(* Mutant of CallAfter: both calls of the floor are cleared. *)
CallAfterBoth(k) ==
  IF \E i \in Lifts : DoorOpen(i) /\ current[i].floor = k.floor THEN 0
  ELSE IF k \in Assigned THEN 2 ELSE tipke_na_katu[k]

(* A call is assigned before it may be cleared. *)
CallAfter(k) ==
  IF \E i \in Lifts : DoorOpen(i) /\ CallServed(i) = k THEN 0
  ELSE IF k \in Assigned THEN 2 ELSE tipke_na_katu[k]

(* What the last round asked for was answered or lost: the program runs on    *)
(* one machine, where a datagram takes far less than UPR_FREQUENCY.           *)
Answered == /\ \A i \in Lifts : to_lift[i] = <<>>
            /\ \A n \in DOMAIN to_upr : to_upr[n].type # "LIFT_STATUS_REPORT"
            /\ to_tipke = <<>>

UprRound ==
  LET want(i) == Wanted(i)
  IN  /\ Answered
      /\ \A i \in Lifts : Running(car[i]) => ticks[i] < MaxTicks
      /\ stani' = [i \in Lifts |-> Kept(i, want(i))]
      /\ tipke_u_liftu' = [i \in Lifts |-> Kept(i, tipke_u_liftu[i])]
      /\ tipke_na_katu' = [k \in Keys |-> CallAfter(k)]
      /\ current' = [i \in Lifts |->
                       [current[i] EXCEPT !.direction = NextDirection(i, want(i))]]
      /\ naredba' = [i \in Lifts |-> Table(i, want(i)) \ Due(i, want(i))]
      /\ to_lift' = [i \in Lifts |->
                       LampsOut(i) \o CommandSent(i, want(i))
                         \o <<Action(i, A_LIFT_STATUS)>>]
      /\ to_tipke' = HallLampsOut
      /\ ticks' = [i \in Lifts |-> IF Running(car[i]) THEN ticks[i] + 1 ELSE 0]
      /\ UNCHANGED <<liftVars, to_send, hall_status, to_upr, presses, losses>>

------------------------------------------------------------------------------
(* udp_listener() of upr.  A key is entered under m_action, its lamp is sent  *)
(* after the lock is released: upr() may come between.                        *)
Receive(type) == /\ to_upr # <<>>
                 /\ Head(to_upr).type = type
                 /\ to_upr' = Tail(to_upr)

HallKey ==
  /\ to_send = <<>>
  /\ Receive("TIPKE_KEY_PRESSED")
  /\ LET k == Head(to_upr).data
     IN  /\ tipke_na_katu' = [tipke_na_katu EXCEPT ![k] = 1]
         /\ to_send' = <<Msg("TIPKE_PALI_LAMPICU", Head(to_upr).lift, k)>>
  /\ UNCHANGED <<liftVars, current, stani, naredba, tipke_u_liftu, hall_status,
                 to_lift, to_tipke, bounds>>

CabinKey ==
  /\ to_send = <<>>
  /\ Receive("LIFT_KEY_PRESSED")
  /\ LET m == Head(to_upr)
     IN  /\ tipke_u_liftu' = [tipke_u_liftu EXCEPT ![m.lift] = @ \cup {m.data}]
         /\ to_send' = <<Msg("LIFT_PALI_LAMPICU", m.lift, m.data)>>
  /\ UNCHANGED <<liftVars, current, stani, naredba, tipke_na_katu, hall_status,
                 to_lift, to_tipke, bounds>>

SendLamp ==
  /\ to_send # <<>>
  /\ to_send' = <<>>
  /\ LET m == Head(to_send)
     IN  IF m.type = "LIFT_PALI_LAMPICU"
         THEN /\ to_lift' = [to_lift EXCEPT ![m.lift] = Append(@, m)]
              /\ UNCHANGED to_tipke
         ELSE to_tipke' = Append(to_tipke, m) /\ UNCHANGED to_lift
  /\ UNCHANGED <<liftVars, current, stani, naredba, tipke_u_liftu,
                 tipke_na_katu, hall_status, to_upr, bounds>>

(* from_string() overwrites the note of upr() that the lift has nothing to do *)
Report ==
  /\ to_send = <<>>
  /\ Receive("LIFT_STATUS_REPORT")
  /\ current' = [current EXCEPT ![Head(to_upr).lift] = Head(to_upr).data]
  /\ UNCHANGED <<liftVars, stani, naredba, tipke_u_liftu, tipke_na_katu,
                 to_send, hall_status, to_lift, to_tipke, bounds>>

Stop ==
  /\ to_send = <<>>
  /\ Receive("LIFT_STOP")
  /\ LET i == Head(to_upr).lift
     IN  to_lift' = [to_lift EXCEPT ![i] = Append(@, Action(i, A_LIFT_STANI))]
  /\ UNCHANGED <<liftVars, uprVars, hall_status, to_tipke, bounds>>

UprListener == HallKey \/ CabinKey \/ SendLamp \/ Report \/ Stop

------------------------------------------------------------------------------
(* lift.c: lift(), and the cases of its udp_listener(). *)
LiftRound(i) ==
  /\ Running(car[i])
  /\ ticks[i] >= MinTicks
  /\ car' = [car EXCEPT ![i] = Round(@)]
  /\ ticks' = [ticks EXCEPT ![i] = 0]
  /\ UNCHANGED <<status, uprVars, hall_status, netVars, presses, losses>>

TakeFrom(i, type) == /\ Running(car[i])
                     /\ to_lift[i] # <<>>
                     /\ Head(to_lift[i]).type = type
                     /\ to_lift' = [to_lift EXCEPT ![i] = Tail(@)]

LiftLamp(i) ==
  /\ \/ /\ TakeFrom(i, "LIFT_PALI_LAMPICU")
        /\ status' = [status EXCEPT ![i] = @ \cup {Head(to_lift[i]).data}]
     \/ /\ TakeFrom(i, "LIFT_GASI_LAMPICU")
        /\ status' = [status EXCEPT ![i] = @ \ {Head(to_lift[i]).data}]
  /\ UNCHANGED <<car, uprVars, hall_status, to_upr, to_tipke, bounds>>

LiftAction(i) ==
  /\ TakeFrom(i, "LIFT_ACTION_START")
  /\ Head(to_lift[i]).data # A_LIFT_STATUS
  /\ car' = [car EXCEPT ![i] = TakeAction(@, Head(to_lift[i]).data)]
  /\ UNCHANGED <<status, uprVars, hall_status, to_upr, to_tipke, bounds>>

LiftStatus(i) ==
  /\ TakeFrom(i, "LIFT_ACTION_START")
  /\ Head(to_lift[i]).data = A_LIFT_STATUS
  /\ to_upr' = Append(to_upr, Msg("LIFT_STATUS_REPORT", i, to_string(car[i])))
  /\ UNCHANGED <<liftVars, uprVars, hall_status, to_tipke, bounds>>

(* Nobody reads the socket of a process that has exited.                      *)
LiftGone(i) ==
  /\ ~Running(car[i])
  /\ to_lift[i] # <<>>
  /\ to_lift' = [to_lift EXCEPT ![i] = <<>>]
  /\ UNCHANGED <<liftVars, uprVars, hall_status, to_upr, to_tipke, bounds>>

LiftListener(i) ==
  /\ InTurn => \A j \in Lifts : j < i => to_lift[j] = <<>>
  /\ LiftLamp(i) \/ LiftAction(i) \/ LiftStatus(i) \/ LiftGone(i)

(* tipke.c: its udp_listener(). *)
TipkeListener ==
  /\ to_tipke # <<>>
  /\ to_tipke' = Tail(to_tipke)
  /\ LET m == Head(to_tipke)
     IN  hall_status' = IF m.type = "TIPKE_PALI_LAMPICU"
                        THEN hall_status \cup {m.data}
                        ELSE hall_status \ {m.data}
  /\ UNCHANGED <<liftVars, uprVars, to_lift, to_upr, bounds>>

------------------------------------------------------------------------------
(* The passengers' keys: key_listener() of lift.c, tipke() of tipke.c; and    *)
(* the network, which may lose what is first in a socket.                     *)
Send(m) == /\ presses + losses < MaxEvents
           /\ presses' = presses + 1
           /\ to_upr' = Append(to_upr, m)
           /\ UNCHANGED <<liftVars, uprVars, hall_status, to_lift, to_tipke,
                          losses, ticks>>

PressCabin(i, f) == Running(car[i]) /\ Send(Msg("LIFT_KEY_PRESSED", i, f))
PressStop(i)     == Running(car[i]) /\ Send(Msg("LIFT_STOP", i, 0))
PressHall(k)     == Send(Msg("TIPKE_KEY_PRESSED", 0, k))

Lose ==
  /\ presses + losses < MaxEvents
  /\ losses' = losses + 1
  /\ \/ /\ \E i \in Lifts : /\ to_lift[i] # <<>>
                            /\ to_lift' = [to_lift EXCEPT ![i] = Tail(@)]
        /\ UNCHANGED <<to_upr, to_tipke>>
     \/ /\ to_upr # <<>> /\ to_upr' = Tail(to_upr)
        /\ UNCHANGED <<to_lift, to_tipke>>
     \/ /\ to_tipke # <<>> /\ to_tipke' = Tail(to_tipke)
        /\ UNCHANGED <<to_lift, to_upr>>
  /\ UNCHANGED <<liftVars, uprVars, hall_status, presses, ticks>>

Program == \/ UprRound \/ UprListener \/ TipkeListener
           \/ \E i \in Lifts : LiftRound(i) \/ LiftListener(i)

Passengers == \/ \E i \in Lifts : PressStop(i) \/ \E f \in Floors : PressCabin(i, f)
              \/ \E k \in HallKeys : PressHall(k)

Next == Program \/ Passengers \/ Lose

(* The threads run.  Nothing more is needed: no part can be left behind, as a *)
(* round of upr() waits for the answers to the last one, a round of lift()    *)
(* for rounds of upr(), and these for lift().                                 *)
Fairness == WF_vars(Program)

Spec == Init /\ [][Next]_vars /\ Fairness

------------------------------------------------------------------------------
(* What may be on its way to a lift, to the keys and to upr. *)
Commands == QueuedActions \cup {A_LIFT_STANI_NA_KATU}

LiftMessages ==
  [type : {"LIFT_PALI_LAMPICU", "LIFT_GASI_LAMPICU"}, lift : Lifts, data : Floors]
  \cup [type : {"LIFT_ACTION_START"}, lift : Lifts,
        data : Commands \cup {A_LIFT_STATUS}]

TipkeMessages ==
  [type : {"TIPKE_PALI_LAMPICU", "TIPKE_GASI_LAMPICU"}, lift : Lifts, data : Keys]

UprMessages ==
  [type : {"LIFT_KEY_PRESSED", "LIFT_STOP"}, lift : Lifts, data : Floors]
  \cup [type : {"TIPKE_KEY_PRESSED"}, lift : {0}, data : Keys]
  \cup [type : {"LIFT_STATUS_REPORT"}, lift : Lifts, data : Reports]

LampsToLight == [type : {"LIFT_PALI_LAMPICU"}, lift : Lifts, data : Floors]
                  \cup [type : {"TIPKE_PALI_LAMPICU"}, lift : {0}, data : Keys]

Places == Floors \X Quarters \X Directions \X Doors

(* The types of the variables: a command entered for a place is one of the    *)
(* program's, and the listener owes at most one lamp.                         *)
TypeOK ==
  /\ car \in [Lifts -> Cars]
  /\ status \in [Lifts -> SUBSET Floors]
  /\ current \in [Lifts -> [floor : Floors, im_floor : Quarters,
                            direction : Directions, door : Doors,
                            state : LiftStates \cup {UNKNOWN}]]
  /\ stani \in [Lifts -> SUBSET Floors]
  /\ naredba \in [Lifts -> SUBSET [place : Places, action : Commands]]
  /\ tipke_u_liftu \in [Lifts -> SUBSET Floors]
  /\ tipke_na_katu \in [Keys -> 0 .. 2]
  /\ to_send \in {<<>>} \cup {<<m>> : m \in LampsToLight}
  /\ hall_status \in SUBSET Keys
  /\ to_lift \in [Lifts -> Seq(LiftMessages)]
  /\ to_upr \in Seq(UprMessages)
  /\ to_tipke \in Seq(TipkeMessages)
  /\ presses \in Nat /\ losses \in Nat
  /\ ticks \in [Lifts -> 0 .. MaxTicks]

(* Lift i seen as the car of src/01-lift, of module LiftCar. *)
CarOf(i) == INSTANCE LiftCar
  WITH current_floor <- car[i].floor, current_im_floor <- car[i].im_floor,
       current_state <- car[i].state, current_direction <- car[i].direction,
       current_action <- car[i].action, current_stop <- car[i].stop,
       status <- [f \in Floors |-> f \in status[i]], RUNNING <- Running(car[i])

CarsStart == \A i \in Lifts : CarOf(i)!Init
CarsStep  == \A i \in Lifts : UNCHANGED <<car[i], status[i]>> \/ CarOf(i)!Next

(* Whatever upr sends and the network loses, each lift is a car of module     *)
(* LiftCar: the car of src/01-lift and all that is proved of it.              *)
CarsAreLiftCars == CarsStart /\ [][CarsStep]_vars

(* Unless a datagram is lost, a travelling lift has a stop in front of it:    *)
(* none was passed because the report of quarter 2, for which the stop is     *)
(* entered in naredba, came too late.  With two rounds of upr() to each round *)
(* of lift(): where the work of a round makes upr() slower than its period, a *)
(* single round to one of lift() may come in between, and of that nothing is  *)
(* said here.                                                                 *)
Height(i) == 4 * car[i].floor + car[i].im_floor

NeverMissesStop ==
  losses = 0 => \A i \in Lifts :
    /\ car[i].state = S_IDE_GORE => \E f \in stani[i] : 4 * f > Height(i)
    /\ car[i].state = S_IDE_DOLE => \E f \in stani[i] : 4 * f < Height(i)

(* Unless a datagram is lost, no stop is left over from a trip: it would end  *)
(* the next one at the first floor on its way.                                *)
NoLeftoverStop ==
  losses = 0 => \A i \in Lifts :
    car[i].stop => car[i].state \in MovingStates \cup {S_STOJI}

(* Unless a datagram is lost, a door opens only at a floor the lift has to    *)
(* stop at, though the command was entered in naredba rounds ago and stays    *)
(* there until it is sent.                                                    *)
OpensForRequest ==
  [][losses' = 0 => \A i \in Lifts :
       car[i].state # S_OTVARA_VRATA /\ car'[i].state = S_OTVARA_VRATA
         => car[i].floor \in stani[i]]_vars

(* What upr forgets, it forgets while a lift stands at the floor with its     *)
(* door open, a call only when the lift came in the direction of the call,    *)
(* although it knows the lift from a report that is old: one lost datagram is *)
(* not enough for the door to have closed in the meantime.                    *)
OpenAt(i, f) == car[i].floor = f /\ car[i].door = V_OTVORENA

ServedWithDoorOpen ==
  [][losses' <= 1 =>
       /\ \A i \in Lifts :
            \A f \in (stani[i] \ stani'[i]) \cup (tipke_u_liftu[i] \ tipke_u_liftu'[i]) :
              OpenAt(i, f)
       /\ \A k \in Keys : tipke_na_katu[k] # 0 /\ tipke_na_katu'[k] = 0 =>
            \E i \in Lifts :
              OpenAt(i, k.floor) /\ car[i].direction = k.direction]_vars

(* A lamp in lit stays lit, or a message m on its way lights it for good:     *)
(* whatever in the queue puts it out is followed by an m.                     *)
WillBeLit(m, lit, queue, off) ==
  /\ m.data \in lit \/ \E n \in DOMAIN queue : queue[n] = m
  /\ \A n \in DOMAIN queue :
       queue[n].type = off /\ queue[n].data = m.data =>
         \E l \in DOMAIN queue : n < l /\ queue[l] = m

HallLamp(k)     == Msg("TIPKE_PALI_LAMPICU", 0, k)
CabinLamp(i, f) == Msg("LIFT_PALI_LAMPICU", i, f)

(* Unless a datagram is lost, the lamp of a call that waits, new or assigned, *)
(* and that of a cabin key that waits, is lit and nothing on its way puts it  *)
(* out, or the last message about it lights it, one the listener still has to *)
(* send included: a round of upr() between the key and its lamp, and a lift   *)
(* that opens its door for the other direction, put out no such lamp.         *)
LampShowsRequest ==
  losses = 0 =>
    /\ \A k \in HallKeys : tipke_na_katu[k] # 0 =>
         \/ to_send = <<HallLamp(k)>>
         \/ WillBeLit(HallLamp(k), hall_status, to_tipke, "TIPKE_GASI_LAMPICU")
    /\ \A i \in Lifts : Running(car[i]) => \A f \in tipke_u_liftu[i] :
         \/ to_send = <<CabinLamp(i, f)>>
         \/ WillBeLit(CabinLamp(i, f), status[i], to_lift[i], "LIFT_GASI_LAMPICU")

(* Unless a datagram is lost, a lift that has moved comes to serve all the    *)
(* floors it has to stop at.                                                  *)
EveryStopServed ==
  []<>(losses > 0 \/ \A i \in Lifts :
         Running(car[i]) /\ car[i].direction # D_STOJI => stani[i] = {})

(* upr.c:285: "Lift %d mora otvoriti vrata", the lift has to open its door.   *)
(* It does not when it has never moved: with direction D_STOJI upr() sends    *)
(* A_LIFT_OTVORI in each round, the car drops it in each of its rounds, and   *)
(* has none left to open the door.                                            *)
DoorOpens ==
  \A i \in Lifts : car[i].state = S_OTVARA_VRATA ~>
                     car[i].state # S_OTVARA_VRATA \/ losses > 0

(* upr.c:128: "nadji lift za (j, UP)", find a lift for the call, upr.c:308:   *)
(* "inace stoji", otherwise it stands.  The note that the lift stands is      *)
(* overwritten by the next report, before calls are assigned again: a call    *)
(* behind all lifts is never assigned.                                        *)
EveryCallAssigned ==
  \A k \in HallKeys : tipke_na_katu[k] = 1 ~>
    \/ tipke_na_katu[k] # 1
    \/ losses > 0
    \/ \A i \in Lifts : ~Running(car[i])
==============================================================================
