------------------------------- MODULE LiftCar -------------------------------
(* The lift process of src/01-lift/lift.c: the main thread lift(), which      *)
(* advances the car once per LIFT_FREQUENCY, and the part of udp_listener()   *)
(* that takes the commands of the control computer.  The environment may      *)
(* command anything at any time.                                              *)
(*                                                                            *)
(* Every access to the car is inside m_action and every access to the lamps   *)
(* inside m_status, so one critical section is one action.                    *)
(* current_action_timeout is left out: it lies at most ACTION_TIME (0.3 s)    *)
(* after the moment it is set and the main thread sleeps LIFT_FREQUENCY (5 s) *)
(* before it looks at it again with current_action = A_OBRADENO, so the test  *)
(* of lines 106-108 holds whenever the one of line 105 does.                  *)
EXTENDS LiftTypes

VARIABLES
  current_floor, current_im_floor,     \* position
  current_state, current_direction,
  current_action,                      \* command waiting for the main thread
  current_stop,                        \* stop at the next floor reached
  status,                              \* the lamps of the keys in the cabin
  RUNNING                              \* FALSE once the process has exited

position == <<current_floor, current_im_floor>>
carVars  == <<current_floor, current_im_floor, current_state,
              current_direction, current_action, current_stop>>
vars     == <<carVars, status, RUNNING>>

(* All lamps are off; as a set of functions TLC holds it as a table, which it   *)
(* needs to write states to disk under a VIEW without the lamps.              *)
Init == /\ current_floor = 0
        /\ current_im_floor = 0
        /\ current_state = S_STOJI_ZATVOREN
        /\ current_direction = D_STOJI
        /\ current_action = A_UNDEF
        /\ current_stop = FALSE
        /\ status \in [Floors -> {FALSE}]
        /\ RUNNING = TRUE

------------------------------------------------------------------------------
(* lift(): nothing is waiting, the car advances by one step. *)

(* Reaching a floor ends the trip only when a stop was asked for. *)
Arrive ==
  IF current_stop
  THEN current_state' = S_STOJI_ZATVOREN /\ current_stop' = FALSE
  ELSE UNCHANGED <<current_state, current_stop>>

DoorMoves ==
  /\ \/ current_state = S_OTVARA_VRATA /\ current_state' = S_STOJI_OTVOREN
     \/ current_state = S_ZATVARA_VRATA /\ current_state' = S_STOJI_ZATVOREN
  /\ UNCHANGED <<position, current_stop>>

MoveUp ==
  /\ current_state = S_IDE_GORE
  /\ \/ /\ current_im_floor < 3
        /\ current_floor < FLOORS - 1
        /\ current_im_floor' = current_im_floor + 1
        /\ UNCHANGED <<current_floor, current_state, current_stop>>
     \/ /\ current_im_floor < 3              \* "Can't go higher!"
        /\ current_floor >= FLOORS - 1
        /\ UNCHANGED <<position, current_state, current_stop>>
     \/ /\ current_im_floor >= 3
        /\ current_im_floor' = 0
        /\ current_floor' = current_floor + 1
        /\ Arrive

(* Mutant of MoveDown: nothing ends the way down at the bottom floor. *)
MoveDownPastBottom ==
  /\ current_state = S_IDE_DOLE
  /\ current_im_floor' = (current_im_floor + 3) % 4
  /\ current_floor' = current_floor - IF current_im_floor = 0 THEN 1 ELSE 0
  /\ IF current_im_floor = 1 THEN Arrive
     ELSE UNCHANGED <<current_state, current_stop>>

MoveDown ==
  /\ current_state = S_IDE_DOLE
  /\ \/ /\ current_im_floor = 0
        /\ current_floor > 0
        /\ current_im_floor' = 3
        /\ current_floor' = current_floor - 1
        /\ UNCHANGED <<current_state, current_stop>>
     \/ /\ current_im_floor = 0              \* "Can't go lower!"
        /\ current_floor <= 0
        /\ UNCHANGED <<position, current_state, current_stop>>
     \/ /\ current_im_floor > 0
        /\ current_im_floor' = current_im_floor - 1
        /\ UNCHANGED current_floor
        /\ IF current_im_floor' = 0
           THEN Arrive
           ELSE UNCHANGED <<current_state, current_stop>>

Rest ==
  /\ current_state \in {S_STOJI_ZATVOREN, S_STOJI_OTVOREN}
  /\ UNCHANGED <<position, current_state, current_stop>>

Advance ==
  /\ current_action = A_OBRADENO
  /\ DoorMoves \/ MoveUp \/ MoveDown \/ Rest
  /\ UNCHANGED <<current_action, current_direction, RUNNING>>

------------------------------------------------------------------------------
(* lift(): a command is waiting, it is carried out when the state allows it   *)
(* and dropped with a warning otherwise.                                      *)

(* Mutant of StartUp: an open door does not keep the car from leaving. *)
StartUpDoorOpen ==
  /\ current_action = A_LIFT_GORE
  /\ IF current_state \notin MovingStates /\ current_floor # FLOORS - 1
     THEN current_direction' = D_UP /\ current_state' = S_IDE_GORE
     ELSE UNCHANGED <<current_direction, current_state>>
  /\ UNCHANGED RUNNING

StartUp ==
  /\ current_action = A_LIFT_GORE
  /\ IF current_state = S_STOJI_ZATVOREN /\ current_floor # FLOORS - 1
     THEN current_direction' = D_UP /\ current_state' = S_IDE_GORE
     ELSE UNCHANGED <<current_direction, current_state>>
  /\ UNCHANGED RUNNING

StartDown ==
  /\ current_action = A_LIFT_DOLE
  /\ IF current_state = S_STOJI_ZATVOREN /\ current_floor # 0
     THEN current_direction' = D_DOWN /\ current_state' = S_IDE_DOLE
     ELSE UNCHANGED <<current_direction, current_state>>
  /\ UNCHANGED RUNNING

(* Mutant of OpenDoor: the state of the car is not looked at. *)
OpenDoorAnywhere ==
  /\ current_action = A_LIFT_OTVORI
  /\ current_state' = S_OTVARA_VRATA
  /\ UNCHANGED <<current_direction, RUNNING>>

OpenDoor ==
  /\ current_action = A_LIFT_OTVORI
  /\ current_state' = IF current_state = S_STOJI_ZATVOREN
                      THEN S_OTVARA_VRATA ELSE current_state
  /\ UNCHANGED <<current_direction, RUNNING>>

CloseDoor ==
  /\ current_action = A_LIFT_ZATVORI
  /\ current_state' = IF current_state = S_STOJI_OTVOREN
                      THEN S_ZATVARA_VRATA ELSE current_state
  /\ UNCHANGED <<current_direction, RUNNING>>

(* errx(LIFT_FAILURE, "STOP"): the process is gone. *)
EmergencyStop ==
  /\ current_action = A_LIFT_STANI
  /\ current_state' = S_STOJI
  /\ RUNNING' = FALSE
  /\ UNCHANGED current_direction

Execute ==
  /\ StartUp \/ StartDown \/ OpenDoor \/ CloseDoor \/ EmergencyStop
  /\ current_action' = A_OBRADENO
  /\ UNCHANGED <<position, current_stop>>

(* Until the first command the main thread goes round and does nothing. *)
Idle == /\ current_action = A_UNDEF
        /\ UNCHANGED <<carVars, RUNNING>>

(* One iteration of the main thread. *)
LiftThread == /\ RUNNING
              /\ Advance \/ Execute \/ Idle
              /\ UNCHANGED status

------------------------------------------------------------------------------
(* udp_listener(): the commands of the control computer. *)

(* Mutant of ReceiveAction: a new command replaces the waiting one. *)
ReceiveActionAlways(a) ==
  /\ RUNNING
  /\ current_action' = a
  /\ UNCHANGED <<position, current_state, current_direction, current_stop,
                 status, RUNNING>>

(* A command is taken only when no other one is waiting. *)
ReceiveAction(a) ==
  /\ RUNNING
  /\ current_action' = IF current_action \in {A_UNDEF, A_OBRADENO}
                       THEN a ELSE current_action
  /\ UNCHANGED <<position, current_state, current_direction, current_stop,
                 status, RUNNING>>

(* A_LIFT_STANI_NA_KATU does not wait for the main thread. *)
ReceiveStopAtFloor ==
  /\ RUNNING
  /\ current_stop' = TRUE
  /\ UNCHANGED <<position, current_state, current_direction, current_action,
                 status, RUNNING>>

(* LIFT_PALI_LAMPICU and LIFT_GASI_LAMPICU. *)
ReceiveLamp(floor, on) ==
  /\ RUNNING
  /\ status' = [status EXCEPT ![floor] = on]
  /\ UNCHANGED <<carVars, RUNNING>>

Listener == \/ \E a \in QueuedActions : ReceiveAction(a)
            \/ ReceiveStopAtFloor
            \/ \E f \in Floors, on \in BOOLEAN : ReceiveLamp(f, on)

Next == LiftThread \/ Listener

Spec == Init /\ [][Next]_vars

------------------------------------------------------------------------------
(* The types of the variables. *)
TypeOK == /\ current_floor \in Floors
          /\ current_im_floor \in Quarters
          /\ current_state \in LiftStates
          /\ current_direction \in Directions
          /\ current_action \in QueuedActions \cup {A_UNDEF, A_OBRADENO}
          /\ current_stop \in BOOLEAN
          /\ status \in [Floors -> BOOLEAN]
          /\ RUNNING \in BOOLEAN

(* Whatever is commanded, and in whatever order, the car is level with a      *)
(* floor unless it is travelling or was stopped by A_LIFT_STANI: no door is   *)
(* ever worked between two floors.                                            *)
RestsLevel ==
  current_state \notin MovingStates \cup {S_STOJI} => current_im_floor = 0

(* The car never rises above the level of the top floor, whose quarters do    *)
(* not exist; lift() guards only the first quarter of a floor.                *)
InsideShaft == current_floor = FLOORS - 1 => current_im_floor = 0

(* The direction in a status report is the one the car is travelling in; the  *)
(* control computer sorts its requests by it.                                 *)
ReportsTravel ==
  /\ current_state = S_IDE_GORE => current_direction = D_UP
  /\ current_state = S_IDE_DOLE => current_direction = D_DOWN

(* Once the emergency stop is waiting, the car neither moves nor works its    *)
(* door any more: the next thing that happens to it is S_STOJI.               *)
EmergencyStopWins ==
  [][current_action = A_LIFT_STANI =>
       /\ UNCHANGED position
       /\ current_state' \in {current_state, S_STOJI}
       /\ current_action' # A_LIFT_STANI => current_state' = S_STOJI]_vars

(* The car keeps the promises of Shaft. *)
Mode == CASE current_state = S_IDE_GORE       -> "up"
          [] current_state = S_IDE_DOLE       -> "down"
          [] current_state = S_STOJI_ZATVOREN -> "standing"
          [] current_state = S_OTVARA_VRATA   -> "opening"
          [] current_state = S_STOJI_OTVOREN  -> "open"
          [] current_state = S_ZATVARA_VRATA  -> "closing"
          [] OTHER                            -> "halted"

ShaftView == INSTANCE Shaft
  WITH quarter <- 4 * current_floor + current_im_floor, mode <- Mode

(* Every step of the car is a step Shaft allows: one quarter at a time inside *)
(* the shaft, at rest only level with a floor, the door in its cycle.         *)
KeepsShaft == ShaftView!Spec
==============================================================================
