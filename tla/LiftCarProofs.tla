--------------------------- MODULE LiftCarProofs ---------------------------
(* What a lift car guarantees for every number of floors and every sequence   *)
(* of commands.                                                               *)
EXTENDS LiftCar, TLAPS

USE DEF Floors, Quarters, D_UP, D_DOWN, D_STOJI, Directions,
        S_STOJI_OTVOREN, S_STOJI_ZATVOREN, S_OTVARA_VRATA, S_ZATVARA_VRATA,
        S_IDE_DOLE, S_IDE_GORE, S_STOJI, DoorStates, MovingStates, LiftStates,
        A_UNDEF, A_OBRADENO, A_LIFT_GORE, A_LIFT_DOLE, A_LIFT_STANI,
        A_LIFT_OTVORI, A_LIFT_ZATVORI, QueuedActions, FloorsAssumption

(* The inductive invariant.  TypeOK alone is not inductive: current_floor     *)
(* stays below FLOORS only because a car that is above the level of a floor   *)
(* is not at the top one (InsideShaft), and that in turn because it starts    *)
(* level with a floor (RestsLevel).                                           *)
IInv == /\ TypeOK
        /\ RestsLevel
        /\ InsideShaft
        /\ ReportsTravel

(* The initial state satisfies the inductive invariant. *)
LEMMA InitIInv == Init => IInv
<1> SUFFICES ASSUME Init PROVE IInv
  OBVIOUS
<1>1. current_floor \in Floors /\ current_im_floor \in Quarters
  BY FloorsAssumption DEF Init
<1>2. TypeOK
  BY <1>1 DEF Init, TypeOK
<1>3. RestsLevel /\ InsideShaft /\ ReportsTravel
  BY DEF Init, RestsLevel, InsideShaft, ReportsTravel
<1>4. QED
  BY <1>2, <1>3 DEF IInv

(* Advancing the car preserves the inductive invariant. *)
LEMMA AdvanceIInv == IInv /\ Advance /\ UNCHANGED status => IInv'
<1> SUFFICES ASSUME IInv, Advance, UNCHANGED status PROVE IInv'
  OBVIOUS
<1> USE FloorsAssumption DEF IInv, TypeOK, RestsLevel, InsideShaft,
                             ReportsTravel, Advance, position
<1>1. CASE DoorMoves
  BY <1>1 DEF DoorMoves
<1>2. CASE MoveUp
  <2>1. current_floor' \in Floors /\ current_im_floor' \in Quarters
    BY <1>2 DEF MoveUp
  <2>2. current_floor' = FLOORS - 1 => current_im_floor' = 0
    BY <1>2 DEF MoveUp
  <2>3. current_state' \in {S_IDE_GORE, S_STOJI_ZATVOREN}
    BY <1>2 DEF MoveUp, Arrive
  <2>4. current_state' = S_STOJI_ZATVOREN => current_im_floor' = 0
    BY <1>2 DEF MoveUp, Arrive
  <2>5. current_stop' \in BOOLEAN
    BY <1>2, Zenon DEF MoveUp, Arrive
  <2>6. TypeOK'
    BY <2>1, <2>3, <2>5
  <2>7. QED
    BY <1>2, <2>2, <2>3, <2>4, <2>6 DEF MoveUp
<1>3. CASE MoveDown
  <2>1. current_floor' \in Floors /\ current_im_floor' \in Quarters
    BY <1>3 DEF MoveDown
  <2>2. current_floor' = FLOORS - 1 => current_im_floor' = 0
    BY <1>3 DEF MoveDown
  <2>3. current_state' \in {S_IDE_DOLE, S_STOJI_ZATVOREN}
    BY <1>3 DEF MoveDown, Arrive
  <2>4. current_state' = S_STOJI_ZATVOREN => current_im_floor' = 0
    BY <1>3 DEF MoveDown, Arrive
  <2>5. current_stop' \in BOOLEAN
    BY <1>3, Zenon DEF MoveDown, Arrive
  <2>6. TypeOK'
    BY <2>1, <2>3, <2>5
  <2>7. QED
    BY <1>3, <2>2, <2>3, <2>4, <2>6 DEF MoveDown
<1>4. CASE Rest
  BY <1>4 DEF Rest
<1>5. QED
  BY <1>1, <1>2, <1>3, <1>4

(* Carrying out a command preserves the inductive invariant. *)
LEMMA ExecuteIInv == IInv /\ Execute /\ UNCHANGED status => IInv'
<1> SUFFICES ASSUME IInv, Execute, UNCHANGED status PROVE IInv'
  OBVIOUS
<1> USE FloorsAssumption DEF IInv, TypeOK, RestsLevel, InsideShaft,
                             ReportsTravel, Execute, position
<1>1. CASE StartUp
  BY <1>1 DEF StartUp
<1>2. CASE StartDown
  BY <1>2 DEF StartDown
<1>3. CASE OpenDoor
  BY <1>3 DEF OpenDoor
<1>4. CASE CloseDoor
  BY <1>4 DEF CloseDoor
<1>5. CASE EmergencyStop
  BY <1>5 DEF EmergencyStop
<1>6. QED
  BY <1>1, <1>2, <1>3, <1>4, <1>5

(* Taking a command from the network preserves the inductive invariant. *)
LEMMA ListenerIInv == IInv /\ Listener => IInv'
<1> SUFFICES ASSUME IInv, Listener PROVE IInv'
  OBVIOUS
<1> USE DEF IInv, TypeOK, RestsLevel, InsideShaft, ReportsTravel, position
<1>1. CASE \E a \in QueuedActions : ReceiveAction(a)
  BY <1>1 DEF ReceiveAction
<1>2. CASE ReceiveStopAtFloor
  BY <1>2 DEF ReceiveStopAtFloor
<1>3. CASE \E f \in Floors, on \in BOOLEAN : ReceiveLamp(f, on)
  BY <1>3 DEF ReceiveLamp, carVars
<1>4. QED
  BY <1>1, <1>2, <1>3 DEF Listener

(* Every step preserves the inductive invariant. *)
LEMMA NextIInv == IInv /\ [Next]_vars => IInv'
<1> SUFFICES ASSUME IInv, [Next]_vars PROVE IInv'
  OBVIOUS
<1>1. CASE UNCHANGED vars
  BY <1>1 DEF vars, carVars, IInv, TypeOK, RestsLevel, InsideShaft,
              ReportsTravel
<1>2. CASE LiftThread
  <2>1. CASE Idle
    BY <1>1, <1>2, <2>1 DEF LiftThread, Idle, vars
  <2>2. QED
    BY <1>2, <2>1, AdvanceIInv, ExecuteIInv DEF LiftThread
<1>3. CASE Listener
  BY <1>3, ListenerIInv
<1>4. QED
  BY <1>1, <1>2, <1>3 DEF Next

(* The inductive invariant holds in every reachable state. *)
LEMMA Invariance == Spec => []IInv
  BY InitIInv, NextIInv, PTL DEF Spec

(* The variables of lift.c keep their types: in particular current_floor,     *)
(* which lift() increments without a bound, stays a floor of the building.    *)
THEOREM TypeCorrect == Spec => []TypeOK
<1>1. IInv => TypeOK
  BY DEF IInv
<1>2. QED
  BY <1>1, Invariance, PTL

(* The car is level with a floor whenever it is not travelling, so no door is *)
(* worked between two floors, whatever the control computer commands.         *)
THEOREM AlwaysRestsLevel == Spec => []RestsLevel
<1>1. IInv => RestsLevel
  BY DEF IInv
<1>2. QED
  BY <1>1, Invariance, PTL

(* The car never rises above the top floor. *)
THEOREM AlwaysInsideShaft == Spec => []InsideShaft
<1>1. IInv => InsideShaft
  BY DEF IInv
<1>2. QED
  BY <1>1, Invariance, PTL

(* A waiting emergency stop is never replaced and is the next thing to        *)
(* happen to the car.                                                         *)
THEOREM EmergencyStopIsNext == Spec => EmergencyStopWins
<1> DEFINE Wins == current_action = A_LIFT_STANI =>
                     /\ UNCHANGED position
                     /\ current_state' \in {current_state, S_STOJI}
                     /\ current_action' # A_LIFT_STANI =>
                          current_state' = S_STOJI
<1>1. [Next]_vars => [Wins]_vars
  <2> SUFFICES ASSUME Next, current_action = A_LIFT_STANI PROVE Wins
    BY DEF Wins
  <2>1. CASE LiftThread
    BY <2>1 DEF LiftThread, Advance, Execute, Idle, StartUp, StartDown,
                OpenDoor, CloseDoor, EmergencyStop
  <2>2. CASE Listener
    BY <2>2 DEF Listener, ReceiveAction, ReceiveStopAtFloor, ReceiveLamp,
                carVars, position
  <2>3. QED
    BY <2>1, <2>2 DEF Next
<1>2. QED
  BY <1>1, PTL DEF Spec, EmergencyStopWins

------------------------------------------------------------------------------
(* The refinement of Shaft. *)

(* Level with a floor, seen by Shaft, is current_im_floor = 0. *)
LEMMA LevelIsAtFloor ==
  ASSUME NEW f \in Floors, NEW m \in Quarters
  PROVE  ShaftView!AtFloor(4 * f + m) <=> m = 0
<1>1. ASSUME m = 0 PROVE \E g \in Floors : 4 * f + m = 4 * g
  BY <1>1, FloorsAssumption
<1>2. ASSUME NEW g \in Floors, 4 * f + m = 4 * g PROVE m = 0
  BY <1>2, FloorsAssumption
<1>3. QED
  BY <1>1, <1>2 DEF ShaftView!AtFloor

(* Where a quarter down from a position of the car lies in the shaft. *)
LEMMA QuarterDown ==
  ASSUME NEW f \in Floors, NEW m \in Quarters, f = FLOORS - 1 => m = 0,
         NEW g \in Int, NEW n \in Int,
         \/ m = 0 /\ f > 0 /\ n = 3 /\ g = f - 1
         \/ m > 0 /\ n = m - 1 /\ g = f
  PROVE  /\ 4 * g + n = (4 * f + m) - 1
         /\ 4 * g + n \in 0 .. ShaftView!Top
<1> FLOORS \in Int
  BY FloorsAssumption
<1>1. 4 * g + n = (4 * f + m) - 1
  OBVIOUS
<1>2. 0 <= 4 * g + n
  OBVIOUS
<1>3. 4 * g + n <= 4 * (FLOORS - 1)
  OBVIOUS
<1>4. QED
  BY <1>1, <1>2, <1>3 DEF ShaftView!Top

(* The initial state of the car is the one of Shaft. *)
LEMMA InitShaft == Init => ShaftView!Init
  BY DEF Init, ShaftView!Init, Mode

(* Every step of the main thread that advances the car is a step of Shaft. *)
LEMMA AdvanceShaft ==
  IInv /\ IInv' /\ Advance => [ShaftView!Next]_(ShaftView!shaftVars)
<1> SUFFICES ASSUME IInv, IInv', Advance
             PROVE  ShaftView!Next \/ UNCHANGED ShaftView!shaftVars
  OBVIOUS
<1> USE FloorsAssumption
    DEF IInv, TypeOK, RestsLevel, InsideShaft, Mode, position, Advance
<1>1. CASE DoorMoves
  <2>1. ShaftView!AtFloor(4 * current_floor + current_im_floor)
    BY <1>1, LevelIsAtFloor DEF DoorMoves
  <2>2. <<Mode, Mode'>> \in ShaftView!DoorCycle
    BY <1>1 DEF DoorMoves, ShaftView!DoorCycle
  <2>3. UNCHANGED (4 * current_floor + current_im_floor)
    BY <1>1 DEF DoorMoves
  <2>4. ShaftView!WorkDoor
    BY <2>1, <2>2, <2>3 DEF ShaftView!WorkDoor
  <2>5. QED
    BY <2>4 DEF ShaftView!Next
<1>2. CASE MoveUp
  <2>1. ShaftView!AtFloor(4 * current_floor' + current_im_floor')
          <=> current_im_floor' = 0
    BY LevelIsAtFloor
  <2>2. ShaftView!Travel \/ UNCHANGED ShaftView!shaftVars
    BY <1>2, <2>1, SMTT(30) DEF MoveUp, Arrive, ShaftView!Travel, ShaftView!Top,
                      ShaftView!shaftVars
  <2>3. QED
    BY <2>2 DEF ShaftView!Next
<1>3. CASE MoveDown
  <2>1. ShaftView!AtFloor(4 * current_floor' + current_im_floor')
          <=> current_im_floor' = 0
    BY LevelIsAtFloor
  <2>2. Mode = "down"
    BY <1>3 DEF MoveDown
  <2>3. \/ current_state' = S_IDE_DOLE /\ Mode' = "down"
        \/ /\ current_state' = S_STOJI_ZATVOREN /\ Mode' = "standing"
           /\ current_im_floor' = 0
    BY <1>3 DEF MoveDown, Arrive
  <2>4. CASE UNCHANGED <<position, current_state>>
    BY <2>4 DEF ShaftView!shaftVars
  <2>5. ASSUME \/ /\ current_im_floor = 0 /\ current_floor > 0
                  /\ current_im_floor' = 3
                  /\ current_floor' = current_floor - 1
               \/ /\ current_im_floor > 0
                  /\ current_im_floor' = current_im_floor - 1
                  /\ current_floor' = current_floor
        PROVE  ShaftView!Travel
    <3> HIDE DEF Mode
    <3> DEFINE height == 4 * current_floor + current_im_floor
    <3>1. height' = height - 1 /\ height' \in 0 .. ShaftView!Top
      <4>1. /\ current_floor \in Floors /\ current_im_floor \in Quarters
            /\ current_floor = FLOORS - 1 => current_im_floor = 0
            /\ current_floor' \in Int /\ current_im_floor' \in Int
        OBVIOUS
      <4>2. QED
        BY ONLY <2>5, <4>1, QuarterDown
    <3>2. QED
      BY <2>1, <2>2, <2>3, <3>1 DEF ShaftView!Travel
  <2>6. QED
    BY <1>3, <2>4, <2>5, Zenon DEF MoveDown, ShaftView!Next
<1>4. CASE Rest
  BY <1>4 DEF Rest, ShaftView!shaftVars
<1>5. QED
  BY <1>1, <1>2, <1>3, <1>4

(* Every step of the main thread that carries out a command is a step of      *)
(* Shaft, or changes nothing Shaft can see.                                   *)
LEMMA ExecuteShaft ==
  IInv /\ Execute => [ShaftView!Next]_(ShaftView!shaftVars)
<1> SUFFICES ASSUME IInv, Execute
             PROVE  ShaftView!Next \/ UNCHANGED ShaftView!shaftVars
  OBVIOUS
<1> USE DEF IInv, TypeOK, RestsLevel, Mode, position, Execute
<1>1. UNCHANGED (4 * current_floor + current_im_floor)
  OBVIOUS
<1>2. current_state \notin MovingStates \cup {S_STOJI} =>
        ShaftView!AtFloor(4 * current_floor + current_im_floor)
  BY LevelIsAtFloor
<1>3. CASE StartUp
  BY <1>1, <1>3 DEF StartUp, ShaftView!Start, ShaftView!Next,
                    ShaftView!shaftVars
<1>4. CASE StartDown
  BY <1>1, <1>4 DEF StartDown, ShaftView!Start, ShaftView!Next,
                    ShaftView!shaftVars
<1>5. CASE OpenDoor
  BY <1>1, <1>2, <1>5 DEF OpenDoor, ShaftView!WorkDoor, ShaftView!DoorCycle,
                          ShaftView!Next, ShaftView!shaftVars
<1>6. CASE CloseDoor
  BY <1>1, <1>2, <1>6 DEF CloseDoor, ShaftView!WorkDoor, ShaftView!DoorCycle,
                          ShaftView!Next, ShaftView!shaftVars
<1>7. CASE EmergencyStop
  BY <1>1, <1>7 DEF EmergencyStop, ShaftView!Halt, ShaftView!Next,
                    ShaftView!shaftVars
<1>8. QED
  BY <1>3, <1>4, <1>5, <1>6, <1>7

(* The lift process implements Shaft: for every number of floors and every    *)
(* sequence of commands it moves by quarters inside the shaft, rests only     *)
(* level with a floor and works its door only there.                          *)
THEOREM ImplementsShaft == Spec => KeepsShaft
<1>1. IInv /\ IInv' /\ [Next]_vars => [ShaftView!Next]_(ShaftView!shaftVars)
  <2> SUFFICES ASSUME IInv, IInv', [Next]_vars
               PROVE  [ShaftView!Next]_(ShaftView!shaftVars)
    OBVIOUS
  <2>1. CASE UNCHANGED vars
    BY <2>1 DEF vars, carVars, Mode, ShaftView!shaftVars
  <2>2. CASE LiftThread
    <3>1. CASE Idle
      BY <2>1, <2>2, <3>1 DEF LiftThread, Idle, vars
    <3>2. QED
      BY <2>2, <3>1, AdvanceShaft, ExecuteShaft DEF LiftThread
  <2>3. CASE Listener
    BY <2>3 DEF Listener, ReceiveAction, ReceiveStopAtFloor, ReceiveLamp,
                carVars, position, Mode, ShaftView!shaftVars
  <2>4. QED
    BY <2>1, <2>2, <2>3 DEF Next
<1>2. QED
  BY <1>1, InitShaft, Invariance, PTL
  DEF Spec, KeepsShaft, ShaftView!Spec
==============================================================================
