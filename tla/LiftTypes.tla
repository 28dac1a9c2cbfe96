------------------------------ MODULE LiftTypes ------------------------------
(* The enumerations and sizes of constants.h, shared by the single-lift      *)
(* program (src/01-lift) and the three-lift program (src/02-liftovi).        *)
EXTENDS Integers

CONSTANT FLOORS          \* number of floors; 10 in the code

ASSUME FloorsAssumption == FLOORS \in Nat /\ FLOORS >= 2

Floors == 0 .. FLOORS - 1

(* current_im_floor: quarters of a floor above current_floor. *)
Quarters == 0 .. 3

(* Directions of travel and of a request. *)
D_UP    == "D_UP"
D_DOWN  == "D_DOWN"
D_STOJI == "D_STOJI"
Directions == {D_UP, D_DOWN, D_STOJI}

(* Lift states. *)
S_STOJI_OTVOREN  == "S_STOJI_OTVOREN"     \* standing, door open
S_STOJI_ZATVOREN == "S_STOJI_ZATVOREN"    \* standing, door closed
S_OTVARA_VRATA   == "S_OTVARA_VRATA"      \* opening the door
S_ZATVARA_VRATA  == "S_ZATVARA_VRATA"     \* closing the door
S_IDE_DOLE       == "S_IDE_DOLE"          \* going down
S_IDE_GORE       == "S_IDE_GORE"          \* going up
S_STOJI          == "S_STOJI"             \* emergency stop

DoorStates   == {S_OTVARA_VRATA, S_STOJI_OTVOREN, S_ZATVARA_VRATA}
MovingStates == {S_IDE_GORE, S_IDE_DOLE}
LiftStates   == DoorStates \cup MovingStates \cup {S_STOJI_ZATVOREN, S_STOJI}

(* Lift actions. *)
A_UNDEF              == "A_UNDEF"         \* nothing was ever commanded
A_OBRADENO           == "A_OBRADENO"      \* the last command was processed
A_LIFT_GORE          == "A_LIFT_GORE"
A_LIFT_DOLE          == "A_LIFT_DOLE"
A_LIFT_STANI_NA_KATU == "A_LIFT_STANI_NA_KATU"
A_LIFT_STANI         == "A_LIFT_STANI"
A_LIFT_OTVORI        == "A_LIFT_OTVORI"
A_LIFT_ZATVORI       == "A_LIFT_ZATVORI"

(* The commands the lift keeps in current_action until its main thread runs. *)
QueuedActions == {A_LIFT_GORE, A_LIFT_DOLE, A_LIFT_STANI,
                  A_LIFT_OTVORI, A_LIFT_ZATVORI}
==============================================================================
