----------------------------- MODULE LiftoviCar ------------------------------
(* One car of the three-lift program, src/02-liftovi/lift.c, as a record and  *)
(* the operations that lift() and udp_listener() carry out on it under        *)
(* m_action.  The car of src/01-lift has no door of its own and keeps the     *)
(* fields in variables; Liftovi!CarsAreLiftCars relates the two.              *)
EXTENDS LiftTypes

V_ZATVORENA == "V_ZATVORENA"
V_OTVORENA  == "V_OTVORENA"
Doors       == {V_ZATVORENA, V_OTVORENA}

(* The part of struct lift_state_t that to_string() writes into a report.     *)
Reports == [floor : Floors, im_floor : Quarters, direction : Directions,
            door : Doors, state : LiftStates]

Cars == [floor : Floors, im_floor : Quarters, direction : Directions,
         door : Doors, state : LiftStates,
         action : QueuedActions \cup {A_UNDEF, A_OBRADENO},
         stop : BOOLEAN]

InitialCar == [floor |-> 0, im_floor |-> 0, direction |-> D_STOJI,
               door |-> V_ZATVORENA, state |-> S_STOJI_ZATVOREN,
               action |-> A_UNDEF, stop |-> FALSE]

to_string(c) == [floor |-> c.floor, im_floor |-> c.im_floor,
                 direction |-> c.direction, door |-> c.door, state |-> c.state]

------------------------------------------------------------------------------
(* lift(): nothing is waiting, the car advances by one step. *)

(* Mutant of Arrive: the stop that was asked for is not taken back.           *)
ArriveKeepsStop(c) == IF c.stop THEN [c EXCEPT !.state = S_STOJI_ZATVOREN] ELSE c

(* A floor is reached: the trip ends when a stop was asked for. *)
Arrive(c) ==
  IF c.stop THEN [c EXCEPT !.state = S_STOJI_ZATVOREN, !.stop = FALSE] ELSE c

(* Mutant of MoveUp: the fourth quarter is not the next floor.                *)
MoveUpInQuarters(c) ==
  IF c.floor < FLOORS - 1 THEN [c EXCEPT !.im_floor = c.im_floor + 1] ELSE c

MoveUp(c) ==
  CASE c.im_floor = 3 ->
         Arrive([c EXCEPT !.im_floor = 0, !.floor = c.floor + 1])
    [] c.im_floor # 3 /\ c.floor < FLOORS - 1 ->
         [c EXCEPT !.im_floor = c.im_floor + 1]
    [] OTHER -> c                            \* "Can't go higher!"

(* Mutant of MoveDown: the car stops a quarter too early. *)
MoveDownShort(c) ==
  CASE c.im_floor > 1 -> [c EXCEPT !.im_floor = c.im_floor - 1]
    [] c.im_floor = 1 -> Arrive(c)
    [] c.im_floor = 0 /\ c.floor > 0 ->
         [c EXCEPT !.im_floor = 3, !.floor = c.floor - 1]
    [] OTHER -> c

MoveDown(c) ==
  CASE c.im_floor > 1 -> [c EXCEPT !.im_floor = c.im_floor - 1]
    [] c.im_floor = 1 -> Arrive([c EXCEPT !.im_floor = 0])
    [] c.im_floor = 0 /\ c.floor > 0 ->
         [c EXCEPT !.im_floor = 3, !.floor = c.floor - 1]
    [] OTHER -> c                            \* "Can't go lower!"

Advance(c) ==
  CASE c.state = S_OTVARA_VRATA ->
         [c EXCEPT !.state = S_STOJI_OTVOREN, !.door = V_OTVORENA]
    [] c.state = S_ZATVARA_VRATA ->
         [c EXCEPT !.state = S_STOJI_ZATVOREN, !.door = V_ZATVORENA]
    [] c.state = S_IDE_GORE -> MoveUp(c)
    [] c.state = S_IDE_DOLE -> MoveDown(c)
    [] OTHER -> c

------------------------------------------------------------------------------
(* lift(): a command is waiting; one that does not fit the state of the car   *)
(* is dropped with a warning.                                                 *)
Carries(c) ==
  CASE c.action = A_LIFT_GORE   -> c.state = S_STOJI_ZATVOREN /\ c.floor # FLOORS - 1
    [] c.action = A_LIFT_DOLE   -> c.state = S_STOJI_ZATVOREN /\ c.floor # 0
    [] c.action = A_LIFT_OTVORI -> c.state = S_STOJI_ZATVOREN
    [] c.action = A_LIFT_ZATVORI -> c.state = S_STOJI_OTVOREN
    [] OTHER -> TRUE

Command(c) ==
  CASE c.action = A_LIFT_GORE ->
         [c EXCEPT !.direction = D_UP, !.state = S_IDE_GORE]
    [] c.action = A_LIFT_DOLE ->
         [c EXCEPT !.direction = D_DOWN, !.state = S_IDE_DOLE]
    [] c.action = A_LIFT_OTVORI  -> [c EXCEPT !.state = S_OTVARA_VRATA]
    [] c.action = A_LIFT_ZATVORI -> [c EXCEPT !.state = S_ZATVARA_VRATA]
    [] OTHER -> [c EXCEPT !.state = S_STOJI] \* A_LIFT_STANI

Execute(c) ==
  [IF Carries(c) THEN Command(c) ELSE c EXCEPT !.action = A_OBRADENO]

(* One round of lift(); until the first command it does nothing. *)
Round(c) == CASE c.action = A_UNDEF    -> c
              [] c.action = A_OBRADENO -> Advance(c)
              [] OTHER                 -> Execute(c)

(* errx(LIFT_FAILURE, "STOP") ends the process. *)
Running(c) == c.state # S_STOJI

------------------------------------------------------------------------------
(* udp_listener(), LIFT_ACTION_START: a command finds the place free or is    *)
(* dropped; a stop at the next floor does not wait for lift().                *)
TakeAction(c, a) ==
  CASE a = A_LIFT_STANI_NA_KATU -> [c EXCEPT !.stop = TRUE]
    [] a # A_LIFT_STANI_NA_KATU /\ c.action \in {A_UNDEF, A_OBRADENO} ->
         [c EXCEPT !.action = a]
    [] OTHER -> c
==============================================================================
