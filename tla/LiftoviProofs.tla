---------------------------- MODULE LiftoviProofs ----------------------------
(* Theorems about the three-lift program, for any number of lifts and floors: *)
(* types, the refinement of LiftCar and the lamps at any pace of its threads, *)
(* stops and doors with two rounds of upr() or more to each round of lift()   *)
(* (constants.h:28-29: every second, and every two seconds).                  *)
EXTENDS Liftovi, SequenceTheorems, FiniteSetTheorems, TLAPS

------------------------------------------------------------------------------
(* The operations of a car.                                                   *)

(* As in the other program, only the first quarter of a floor is guarded: the *)
(* car stays in the shaft because it has no other quarter at the top.         *)
Inside(c) == c.floor = FLOORS - 1 => c.im_floor = 0

SafeCars == {c \in Cars : Inside(c)}

LEMMA ArriveInside ==
  ASSUME NEW c \in SafeCars
  PROVE  Arrive(c) \in SafeCars
BY DEF Arrive, SafeCars, Inside, Cars, LiftStates

LEMMA MovesInside ==
  ASSUME NEW c \in SafeCars
  PROVE  MoveUp(c) \in SafeCars /\ MoveDown(c) \in SafeCars
<1>1. /\ c \in Cars /\ FLOORS \in Nat /\ FLOORS >= 2
      /\ c.floor \in 0 .. FLOORS - 1 /\ c.im_floor \in 0 .. 3
      /\ c.floor = FLOORS - 1 => c.im_floor = 0
  BY FloorsAssumption DEF SafeCars, Inside, Cars, Floors, Quarters
<1>2. ASSUME NEW f \in Floors, NEW q \in Quarters, f = FLOORS - 1 => q = 0
      PROVE  [c EXCEPT !.im_floor = q, !.floor = f] \in SafeCars
  BY <1>1, <1>2 DEF SafeCars, Inside, Cars
<1>3. ASSUME NEW q \in Quarters, c.floor = FLOORS - 1 => q = 0
      PROVE  [c EXCEPT !.im_floor = q] \in SafeCars
  BY <1>1, <1>3 DEF SafeCars, Inside, Cars
<1>4. MoveUp(c) \in SafeCars
  <2>1. CASE c.im_floor = 3
    <3>1. c.floor + 1 \in Floors /\ 0 \in Quarters
      BY <1>1, <2>1 DEF Floors, Quarters
    <3>2. [c EXCEPT !.im_floor = 0, !.floor = c.floor + 1] \in SafeCars
      BY <1>2, <3>1
    <3>3. MoveUp(c) = Arrive([c EXCEPT !.im_floor = 0, !.floor = c.floor + 1])
      BY <2>1 DEF MoveUp
    <3> QED  BY <3>2, <3>3, ArriveInside
  <2>2. CASE c.im_floor # 3 /\ c.floor < FLOORS - 1
    <3>1. c.im_floor + 1 \in Quarters /\ c.floor # FLOORS - 1
      BY <1>1, <2>2 DEF Quarters
    <3>2. MoveUp(c) = [c EXCEPT !.im_floor = c.im_floor + 1]
      BY <2>2 DEF MoveUp
    <3> QED  BY <1>3, <3>1, <3>2
  <2>3. CASE c.im_floor # 3 /\ ~(c.floor < FLOORS - 1)
    BY <2>3 DEF MoveUp
  <2> QED  BY <2>1, <2>2, <2>3
<1>5. MoveDown(c) \in SafeCars
  <2>1. CASE c.im_floor > 1
    <3>1. c.im_floor - 1 \in Quarters /\ c.floor # FLOORS - 1
      BY <1>1, <2>1 DEF Quarters
    <3>2. MoveDown(c) = [c EXCEPT !.im_floor = c.im_floor - 1]
      BY <1>1, <2>1 DEF MoveDown
    <3> QED  BY <1>3, <3>1, <3>2
  <2>2. CASE c.im_floor = 1
    <3>1. 0 \in Quarters
      BY DEF Quarters
    <3>2. MoveDown(c) = Arrive([c EXCEPT !.im_floor = 0])
      BY <1>1, <2>2 DEF MoveDown
    <3> QED  BY <1>3, <3>1, <3>2, ArriveInside
  <2>3. CASE c.im_floor = 0 /\ c.floor > 0
    <3>1. c.floor - 1 \in Floors /\ 3 \in Quarters /\ c.floor - 1 # FLOORS - 1
      BY <1>1, <2>3 DEF Floors, Quarters
    <3>2. MoveDown(c) = [c EXCEPT !.im_floor = 3, !.floor = c.floor - 1]
      BY <1>1, <2>3 DEF MoveDown
    <3> QED  BY <1>2, <3>1, <3>2
  <2>4. CASE c.im_floor = 0 /\ ~(c.floor > 0)
    <3>1. MoveDown(c) = c
      BY <1>1, <2>4 DEF MoveDown
    <3> QED  BY <3>1
  <2> QED  BY <1>1, <2>1, <2>2, <2>3, <2>4
<1> QED  BY <1>4, <1>5

LEMMA RoundInside ==
  ASSUME NEW c \in SafeCars
  PROVE  Round(c) \in SafeCars
<1>1. Advance(c) \in SafeCars
  <2>1. ASSUME NEW s \in LiftStates, NEW d \in Doors
        PROVE  [c EXCEPT !.state = s, !.door = d] \in SafeCars
    BY <2>1 DEF SafeCars, Inside, Cars
  <2> QED  BY <2>1, MovesInside DEF Advance, LiftStates, DoorStates, Doors
<1>2. Command(c) \in SafeCars
  BY DEF Command, SafeCars, Inside, Cars, LiftStates, DoorStates,
         MovingStates, Directions
<1>3. Execute(c) \in SafeCars
  BY <1>2 DEF Execute, SafeCars, Inside, Cars
<1> QED  BY <1>1, <1>3 DEF Round

LEMMA TakeActionInside ==
  ASSUME NEW c \in SafeCars, NEW a \in Commands
  PROVE  TakeAction(c, a) \in SafeCars
BY DEF TakeAction, Commands, SafeCars, Inside, Cars, QueuedActions

------------------------------------------------------------------------------
(* A round of lift() and the commands it takes are those of LiftCar.          *)
LEMMA IdleIsLiftCar ==
  ASSUME NEW i \in Lifts, Running(car[i]), car[i].action = A_UNDEF,
         car'[i] = Round(car[i]), status'[i] = status[i]
  PROVE  CarOf(i)!LiftThread
<1>1. car'[i] = car[i]
  BY DEF Round, A_UNDEF, A_OBRADENO
<1>2. CarOf(i)!Idle
  BY <1>1 DEF CarOf!Idle, CarOf!carVars, CarOf!A_UNDEF, A_UNDEF
<1> QED  BY <1>1, <1>2 DEF CarOf!LiftThread

(* What the operations do to the fields that LiftCar has. *)
Same(c, d) == /\ d.floor = c.floor /\ d.im_floor = c.im_floor
              /\ d.state = c.state /\ d.direction = c.direction
              /\ d.action = c.action /\ d.stop = c.stop

LEMMA ArriveResult ==
  ASSUME NEW c \in Cars
  PROVE  /\ Arrive(c).floor = c.floor /\ Arrive(c).im_floor = c.im_floor
         /\ Arrive(c).direction = c.direction /\ Arrive(c).action = c.action
         /\ c.stop => Arrive(c).state = S_STOJI_ZATVOREN /\ Arrive(c).stop = FALSE
         /\ ~c.stop => Arrive(c).state = c.state /\ Arrive(c).stop = c.stop
BY DEF Arrive, Cars

LEMMA DoorResult ==
  ASSUME NEW c \in Cars, c.state \in {S_OTVARA_VRATA, S_ZATVARA_VRATA}
  PROVE  /\ Advance(c).floor = c.floor /\ Advance(c).im_floor = c.im_floor
         /\ Advance(c).direction = c.direction /\ Advance(c).action = c.action
         /\ Advance(c).stop = c.stop
         /\ Advance(c).state = IF c.state = S_OTVARA_VRATA THEN S_STOJI_OTVOREN
                               ELSE S_STOJI_ZATVOREN
<1>1. CASE c.state = S_OTVARA_VRATA
  <2>1. Advance(c) = [c EXCEPT !.state = S_STOJI_OTVOREN, !.door = V_OTVORENA]
    BY <1>1 DEF Advance, S_OTVARA_VRATA, S_ZATVARA_VRATA, S_IDE_GORE, S_IDE_DOLE
  <2> QED  BY <1>1, <2>1 DEF Cars
<1>2. CASE c.state = S_ZATVARA_VRATA
  <2>1. Advance(c) = [c EXCEPT !.state = S_STOJI_ZATVOREN, !.door = V_ZATVORENA]
    BY <1>2 DEF Advance, S_OTVARA_VRATA, S_ZATVARA_VRATA, S_IDE_GORE, S_IDE_DOLE
  <2>2. c.state # S_OTVARA_VRATA
    BY <1>2 DEF S_OTVARA_VRATA, S_ZATVARA_VRATA
  <2> QED  BY <2>2, <2>1 DEF Cars
<1> QED  BY <1>1, <1>2

LEMMA UpResult ==
  ASSUME NEW c \in SafeCars, c.state = S_IDE_GORE
  PROVE  LET d == Advance(c)
         IN  /\ d.direction = c.direction /\ d.action = c.action
             /\ \/ /\ c.im_floor < 3 /\ c.floor < FLOORS - 1
                   /\ d.im_floor = c.im_floor + 1 /\ d.floor = c.floor
                   /\ d.state = c.state /\ d.stop = c.stop
                \/ /\ c.im_floor < 3 /\ c.floor >= FLOORS - 1
                   /\ Same(c, d)
                \/ /\ c.im_floor >= 3
                   /\ d.im_floor = 0 /\ d.floor = c.floor + 1
                   /\ c.stop => d.state = S_STOJI_ZATVOREN /\ d.stop = FALSE
                   /\ ~c.stop => d.state = c.state /\ d.stop = c.stop
<1>1. /\ c \in Cars /\ FLOORS \in Nat
      /\ c.floor \in 0 .. FLOORS - 1 /\ c.im_floor \in 0 .. 3
      /\ c.floor = FLOORS - 1 => c.im_floor = 0
  BY FloorsAssumption DEF SafeCars, Inside, Cars, Floors, Quarters
<1>2. Advance(c) = MoveUp(c)
  BY DEF Advance, S_OTVARA_VRATA, S_ZATVARA_VRATA, S_IDE_GORE, S_IDE_DOLE
<1>3. CASE c.im_floor = 3
  <2> DEFINE e == [c EXCEPT !.im_floor = 0, !.floor = c.floor + 1]
  <2>1. MoveUp(c) = Arrive(e)
    BY <1>3 DEF MoveUp
  <2>2. e \in Cars
    <3>1. c.floor + 1 \in Floors /\ 0 \in Quarters
      BY <1>1, <1>3 DEF Floors, Quarters
    <3> QED  BY <1>1, <3>1 DEF Cars
  <2>3. /\ e.im_floor = 0 /\ e.floor = c.floor + 1 /\ e.state = c.state
        /\ e.direction = c.direction /\ e.action = c.action /\ e.stop = c.stop
    BY <1>1 DEF Cars
  <2> HIDE DEF e
  <2>4. LET d == Arrive(e)
        IN  /\ d.floor = e.floor /\ d.im_floor = e.im_floor
            /\ d.direction = e.direction /\ d.action = e.action
            /\ e.stop => d.state = S_STOJI_ZATVOREN /\ d.stop = FALSE
            /\ ~e.stop => d.state = e.state /\ d.stop = e.stop
    BY <2>2, ArriveResult
  <2>5. Advance(c) = Arrive(e)
    BY <1>2, <2>1
  <2>6. c.im_floor >= 3
    BY <1>1, <1>3
  <2> QED  BY <2>3, <2>4, <2>5, <2>6
<1>4. CASE c.im_floor # 3 /\ c.floor < FLOORS - 1
  <2>1. MoveUp(c) = [c EXCEPT !.im_floor = c.im_floor + 1]
    BY <1>4 DEF MoveUp
  <2>2. LET d == MoveUp(c)
        IN  /\ d.im_floor = c.im_floor + 1 /\ d.floor = c.floor
            /\ d.state = c.state /\ d.stop = c.stop
            /\ d.direction = c.direction /\ d.action = c.action
    BY <1>1, <2>1 DEF Cars
  <2>3. c.im_floor < 3
    BY <1>1, <1>4
  <2> QED  BY <1>2, <1>4, <2>2, <2>3
<1>5. CASE c.im_floor # 3 /\ ~(c.floor < FLOORS - 1)
  <2>1. MoveUp(c) = c
    BY <1>5 DEF MoveUp
  <2>2. c.im_floor < 3 /\ c.floor >= FLOORS - 1
    BY <1>1, <1>5
  <2> QED  BY <1>2, <2>1, <2>2 DEF Same
<1> QED  BY <1>3, <1>4, <1>5

LEMMA DownResult ==
  ASSUME NEW c \in SafeCars, c.state = S_IDE_DOLE
  PROVE  LET d == Advance(c)
         IN  /\ d.direction = c.direction /\ d.action = c.action
             /\ d.state = c.state \/ d.state = S_STOJI_ZATVOREN
             /\ c.im_floor > 1 =>
                  /\ d.im_floor = c.im_floor - 1 /\ d.floor = c.floor
                  /\ d.state = c.state /\ d.stop = c.stop
             /\ c.im_floor = 1 =>
                  /\ d.im_floor = 0 /\ d.floor = c.floor
                  /\ c.stop => d.state = S_STOJI_ZATVOREN /\ d.stop = FALSE
                  /\ ~c.stop => d.state = c.state /\ d.stop = c.stop
             /\ c.im_floor = 0 /\ c.floor > 0 =>
                  /\ d.im_floor = 3 /\ d.floor = c.floor - 1
                  /\ d.state = c.state /\ d.stop = c.stop
             /\ c.im_floor = 0 /\ ~(c.floor > 0) => Same(c, d)
<1> DEFINE d == Advance(c)
<1>1. /\ c \in Cars /\ FLOORS \in Nat
      /\ c.floor \in 0 .. FLOORS - 1 /\ c.im_floor \in 0 .. 3
  BY FloorsAssumption DEF SafeCars, Cars, Floors, Quarters
<1>2. d = MoveDown(c)
  BY DEF Advance, S_OTVARA_VRATA, S_ZATVARA_VRATA, S_IDE_GORE, S_IDE_DOLE
<1> HIDE DEF d
<1>3. ASSUME c.im_floor > 1
      PROVE  /\ d.im_floor = c.im_floor - 1 /\ d.floor = c.floor
             /\ d.state = c.state /\ d.stop = c.stop
             /\ d.direction = c.direction /\ d.action = c.action
  <2>1. MoveDown(c) = [c EXCEPT !.im_floor = c.im_floor - 1]
    BY <1>1, <1>3 DEF MoveDown
  <2> QED  BY <1>1, <1>2, <2>1 DEF Cars
<1>4. ASSUME c.im_floor = 1
      PROVE  /\ d.im_floor = 0 /\ d.floor = c.floor
             /\ d.direction = c.direction /\ d.action = c.action
             /\ c.stop => d.state = S_STOJI_ZATVOREN /\ d.stop = FALSE
             /\ ~c.stop => d.state = c.state /\ d.stop = c.stop
  <2> DEFINE e == [c EXCEPT !.im_floor = 0]
  <2>1. MoveDown(c) = Arrive(e)
    BY <1>1, <1>4 DEF MoveDown
  <2>2. e \in Cars
    <3>1. 0 \in Quarters
      BY DEF Quarters
    <3> QED  BY <1>1, <3>1 DEF Cars
  <2>3. /\ e.im_floor = 0 /\ e.floor = c.floor /\ e.state = c.state
        /\ e.direction = c.direction /\ e.action = c.action /\ e.stop = c.stop
    BY <1>1 DEF Cars
  <2> HIDE DEF e
  <2>4. /\ d.floor = e.floor /\ d.im_floor = e.im_floor
        /\ d.direction = e.direction /\ d.action = e.action
        /\ e.stop => d.state = S_STOJI_ZATVOREN /\ d.stop = FALSE
        /\ ~e.stop => d.state = e.state /\ d.stop = e.stop
    BY <1>2, <2>1, <2>2, ArriveResult
  <2> QED  BY <2>3, <2>4
<1>5. ASSUME c.im_floor = 0, c.floor > 0
      PROVE  /\ d.im_floor = 3 /\ d.floor = c.floor - 1
             /\ d.state = c.state /\ d.stop = c.stop
             /\ d.direction = c.direction /\ d.action = c.action
  <2>1. MoveDown(c) = [c EXCEPT !.im_floor = 3, !.floor = c.floor - 1]
    BY <1>1, <1>5 DEF MoveDown
  <2> QED  BY <1>1, <1>2, <2>1 DEF Cars
<1>6. ASSUME c.im_floor = 0, ~(c.floor > 0)
      PROVE  Same(c, d)
  <2>1. MoveDown(c) = c
    BY <1>1, <1>6 DEF MoveDown
  <2> QED  BY <1>2, <2>1 DEF Same
<1>7. \/ c.im_floor > 1 \/ c.im_floor = 1
      \/ c.im_floor = 0 /\ (c.floor > 0 \/ ~(c.floor > 0))
  BY <1>1
<1>8. /\ d.direction = c.direction /\ d.action = c.action
      /\ d.state = c.state \/ d.state = S_STOJI_ZATVOREN
  BY <1>3, <1>4, <1>5, <1>6, <1>7, Zenon DEF Same
<1> QED  BY <1>3, <1>4, <1>5, <1>6, <1>8, Zenon DEF d

LEMMA AdvanceIsLiftCar ==
  ASSUME NEW i \in Lifts, Running(car[i]), car[i].action = A_OBRADENO,
         car[i] \in SafeCars,
         car'[i] = Round(car[i]), status'[i] = status[i]
  PROVE  CarOf(i)!LiftThread
<1> DEFINE c == car[i]
           d == car'[i]
<1>1. d = Advance(c)
  BY DEF Round, A_UNDEF, A_OBRADENO
<1>2. /\ c \in Cars /\ c.state \in LiftStates /\ c.state # S_STOJI
      /\ c.floor \in Nat /\ c.im_floor \in Nat
  BY FloorsAssumption DEF SafeCars, Cars, Running, Floors, Quarters
<1>3. CASE c.state \in {S_OTVARA_VRATA, S_ZATVARA_VRATA}
  <2>1. CarOf(i)!DoorMoves
    BY <1>1, <1>2, <1>3, DoorResult
    DEF CarOf!DoorMoves, CarOf!position, CarOf!S_OTVARA_VRATA,
        CarOf!S_ZATVARA_VRATA, CarOf!S_STOJI_OTVOREN, CarOf!S_STOJI_ZATVOREN,
        S_OTVARA_VRATA, S_ZATVARA_VRATA, S_STOJI_OTVOREN, S_STOJI_ZATVOREN
  <2>2. d.action = c.action /\ d.direction = c.direction /\ Running(d)
    BY <1>1, <1>2, <1>3, DoorResult
    DEF Running, S_STOJI, S_OTVARA_VRATA, S_STOJI_OTVOREN, S_STOJI_ZATVOREN
  <2> QED  BY <2>1, <2>2 DEF CarOf!LiftThread, CarOf!Advance, A_OBRADENO, CarOf!A_OBRADENO
<1>4. CASE c.state = S_IDE_GORE
  <2>1. CarOf(i)!MoveUp
    BY <1>1, <1>4, UpResult
    DEF CarOf!MoveUp, CarOf!Arrive, CarOf!position, CarOf!S_IDE_GORE, Same,
        CarOf!S_STOJI_ZATVOREN, S_IDE_GORE, S_STOJI_ZATVOREN
  <2>2. d.action = c.action /\ d.direction = c.direction /\ Running(d)
    BY <1>1, <1>4, UpResult DEF Running, Same, S_STOJI, S_IDE_GORE, S_STOJI_ZATVOREN
  <2> QED  BY <2>1, <2>2 DEF CarOf!LiftThread, CarOf!Advance, A_OBRADENO, CarOf!A_OBRADENO
<1>5. CASE c.state = S_IDE_DOLE
  <2>1. CarOf(i)!MoveDown
    <3>1. CASE c.im_floor = 0
      <4>1. CASE c.floor > 0
        <5>1. /\ d.im_floor = 3 /\ d.floor = c.floor - 1
              /\ d.state = c.state /\ d.stop = c.stop
          BY <1>1, <1>5, <3>1, <4>1, DownResult, Zenon
        <5> QED  BY <1>5, <3>1, <4>1, <5>1
                 DEF CarOf!MoveDown, CarOf!S_IDE_DOLE, S_IDE_DOLE
      <4>2. CASE ~(c.floor > 0)
        <5>1. Same(c, d)
          BY <1>1, <1>5, <3>1, <4>2, DownResult, Zenon
        <5>2. c.floor <= 0
          BY <1>2, <4>2
        <5> QED  BY <1>5, <3>1, <5>1, <5>2
                 DEF CarOf!MoveDown, CarOf!position, CarOf!S_IDE_DOLE, S_IDE_DOLE, Same
      <4> QED  BY <4>1, <4>2
    <3>2. CASE c.im_floor = 1
      <4>1. /\ d.im_floor = 0 /\ d.floor = c.floor
            /\ c.stop => d.state = S_STOJI_ZATVOREN /\ d.stop = FALSE
            /\ ~c.stop => d.state = c.state /\ d.stop = c.stop
        BY <1>1, <1>5, <3>2, DownResult
      <4> QED  BY <1>5, <3>2, <4>1
               DEF CarOf!MoveDown, CarOf!Arrive, CarOf!S_IDE_DOLE, S_IDE_DOLE,
                   CarOf!S_STOJI_ZATVOREN, S_STOJI_ZATVOREN
    <3>3. CASE c.im_floor > 1
      <4>1. /\ d.im_floor = c.im_floor - 1 /\ d.floor = c.floor
            /\ d.state = c.state /\ d.stop = c.stop
        BY <1>1, <1>2, <1>5, <3>3, DownResult
      <4>2. c.im_floor > 0 /\ d.im_floor # 0
        BY <1>2, <3>3, <4>1
      <4> QED  BY <1>5, <4>1, <4>2
               DEF CarOf!MoveDown, CarOf!S_IDE_DOLE, S_IDE_DOLE
    <3>4. c.im_floor = 0 \/ c.im_floor = 1 \/ c.im_floor > 1
      BY <1>2
    <3> QED  BY <3>1, <3>2, <3>3, <3>4, Zenon
  <2>2. d.action = c.action /\ d.direction = c.direction /\ Running(d)
    <3>1. /\ d.direction = c.direction /\ d.action = c.action
          /\ d.state = S_IDE_DOLE \/ d.state = S_STOJI_ZATVOREN
      BY <1>1, <1>5, DownResult, Zenon
    <3> QED  BY <3>1 DEF Running, S_STOJI, S_IDE_DOLE, S_STOJI_ZATVOREN
  <2> QED  BY <2>1, <2>2 DEF CarOf!LiftThread, CarOf!Advance, A_OBRADENO, CarOf!A_OBRADENO
<1>6. CASE c.state \in {S_STOJI_ZATVOREN, S_STOJI_OTVOREN}
  <2>1. d = c
    BY <1>1, <1>6 DEF Advance, S_OTVARA_VRATA, S_ZATVARA_VRATA, S_IDE_GORE,
                      S_IDE_DOLE, S_STOJI_ZATVOREN, S_STOJI_OTVOREN
  <2>2. CarOf(i)!Rest
    BY <1>6, <2>1 DEF CarOf!Rest, CarOf!position, CarOf!S_STOJI_ZATVOREN,
                      CarOf!S_STOJI_OTVOREN, S_STOJI_ZATVOREN, S_STOJI_OTVOREN
  <2> QED  BY <2>1, <2>2 DEF CarOf!LiftThread, CarOf!Advance, A_OBRADENO, CarOf!A_OBRADENO
<1> QED  BY <1>2, <1>3, <1>4, <1>5, <1>6 DEF LiftStates, DoorStates, MovingStates

LEMMA ExecuteResult ==
  ASSUME NEW c \in Cars, c.action \in QueuedActions
  PROVE  LET d == Round(c)
         IN  /\ d.floor = c.floor /\ d.im_floor = c.im_floor
             /\ d.stop = c.stop /\ d.action = A_OBRADENO
             /\ ~Carries(c) => d.state = c.state /\ d.direction = c.direction
             /\ Carries(c) => d.state = Command(c).state
                           /\ d.direction = Command(c).direction
<1>1. Round(c) = Execute(c)
  BY DEF Round, A_UNDEF, A_OBRADENO, QueuedActions, A_LIFT_GORE, A_LIFT_DOLE,
         A_LIFT_STANI, A_LIFT_OTVORI, A_LIFT_ZATVORI
<1>2. CASE Carries(c)
  <2>1. Command(c) \in Cars /\ LET d == Command(c)
                               IN  /\ d.floor = c.floor /\ d.im_floor = c.im_floor
                                   /\ d.stop = c.stop
    BY DEF Command, Cars, LiftStates, DoorStates, MovingStates, Directions
  <2>2. Execute(c) = [Command(c) EXCEPT !.action = A_OBRADENO]
    BY <1>2 DEF Execute
  <2> DEFINE e == Command(c)
  <2> HIDE DEF e
  <2>3. LET d == [e EXCEPT !.action = A_OBRADENO]
        IN  /\ d.floor = e.floor /\ d.im_floor = e.im_floor /\ d.stop = e.stop
            /\ d.action = A_OBRADENO
            /\ d.state = e.state /\ d.direction = e.direction
    BY <2>1 DEF Cars, e
  <2> QED  BY <1>1, <1>2, <2>1, <2>2, <2>3 DEF e
<1>3. CASE ~Carries(c)
  <2>1. Execute(c) = [c EXCEPT !.action = A_OBRADENO]
    BY <1>3 DEF Execute
  <2> QED  BY <1>1, <1>3, <2>1 DEF Cars
<1> QED  BY <1>2, <1>3

LEMMA ExecuteIsLiftCar ==
  ASSUME NEW i \in Lifts, Running(car[i]), car[i].action \in QueuedActions,
         car[i] \in SafeCars,
         car'[i] = Round(car[i]), status'[i] = status[i]
  PROVE  CarOf(i)!LiftThread
<1> DEFINE c == car[i]
           d == car'[i]
<1>1. /\ d.floor = c.floor /\ d.im_floor = c.im_floor
      /\ d.stop = c.stop /\ d.action = A_OBRADENO
      /\ ~Carries(c) => d.state = c.state /\ d.direction = c.direction
      /\ Carries(c) => d.state = Command(c).state /\ d.direction = Command(c).direction
  BY ExecuteResult DEF SafeCars
<1>2. c \in Cars /\ c.state # S_STOJI
  BY DEF SafeCars, Running
<1>3. ASSUME CarOf(i)!StartUp \/ CarOf(i)!StartDown \/ CarOf(i)!OpenDoor
               \/ CarOf(i)!CloseDoor \/ CarOf(i)!EmergencyStop
      PROVE  CarOf(i)!LiftThread
  BY <1>1, <1>3 DEF CarOf!LiftThread, CarOf!Execute, CarOf!position,
                    CarOf!A_OBRADENO, A_OBRADENO
<1>4. CASE c.action = A_LIFT_GORE
  <2>1. /\ Carries(c) <=> c.state = S_STOJI_ZATVOREN /\ c.floor # FLOORS - 1
        /\ Command(c) = [c EXCEPT !.direction = D_UP, !.state = S_IDE_GORE]
    BY <1>4 DEF Carries, Command, A_LIFT_GORE, A_LIFT_DOLE, A_LIFT_OTVORI, A_LIFT_ZATVORI
  <2>2. Command(c).direction = D_UP /\ Command(c).state = S_IDE_GORE
    BY <1>2, <2>1 DEF Cars
  <2>3. CarOf(i)!StartUp
    BY <1>1, <1>2, <1>4, <2>1, <2>2
    DEF CarOf!StartUp, CarOf!A_LIFT_GORE, CarOf!S_STOJI_ZATVOREN, CarOf!D_UP,
        CarOf!S_IDE_GORE, A_LIFT_GORE, S_STOJI_ZATVOREN, D_UP, S_IDE_GORE,
        Running, S_STOJI
  <2> QED  BY <1>3, <2>3
<1>5. CASE c.action = A_LIFT_DOLE
  <2>1. /\ Carries(c) <=> c.state = S_STOJI_ZATVOREN /\ c.floor # 0
        /\ Command(c) = [c EXCEPT !.direction = D_DOWN, !.state = S_IDE_DOLE]
    BY <1>5 DEF Carries, Command, A_LIFT_GORE, A_LIFT_DOLE, A_LIFT_OTVORI, A_LIFT_ZATVORI
  <2>2. Command(c).direction = D_DOWN /\ Command(c).state = S_IDE_DOLE
    BY <1>2, <2>1 DEF Cars
  <2>3. CarOf(i)!StartDown
    BY <1>1, <1>2, <1>5, <2>1, <2>2
    DEF CarOf!StartDown, CarOf!A_LIFT_DOLE, CarOf!S_STOJI_ZATVOREN, CarOf!D_DOWN,
        CarOf!S_IDE_DOLE, A_LIFT_DOLE, S_STOJI_ZATVOREN, D_DOWN, S_IDE_DOLE,
        Running, S_STOJI
  <2> QED  BY <1>3, <2>3
<1>6. CASE c.action = A_LIFT_OTVORI
  <2>1. /\ Carries(c) <=> c.state = S_STOJI_ZATVOREN
        /\ Command(c) = [c EXCEPT !.state = S_OTVARA_VRATA]
    BY <1>6 DEF Carries, Command, A_LIFT_GORE, A_LIFT_DOLE, A_LIFT_OTVORI, A_LIFT_ZATVORI
  <2>2. Command(c).direction = c.direction /\ Command(c).state = S_OTVARA_VRATA
    BY <1>2, <2>1 DEF Cars
  <2>3. CarOf(i)!OpenDoor
    BY <1>1, <1>2, <1>6, <2>1, <2>2
    DEF CarOf!OpenDoor, CarOf!A_LIFT_OTVORI, CarOf!S_STOJI_ZATVOREN,
        CarOf!S_OTVARA_VRATA, A_LIFT_OTVORI, S_STOJI_ZATVOREN, S_OTVARA_VRATA,
        Running, S_STOJI
  <2> QED  BY <1>3, <2>3
<1>7. CASE c.action = A_LIFT_ZATVORI
  <2>1. /\ Carries(c) <=> c.state = S_STOJI_OTVOREN
        /\ Command(c) = [c EXCEPT !.state = S_ZATVARA_VRATA]
    BY <1>7 DEF Carries, Command, A_LIFT_GORE, A_LIFT_DOLE, A_LIFT_OTVORI, A_LIFT_ZATVORI
  <2>2. Command(c).direction = c.direction /\ Command(c).state = S_ZATVARA_VRATA
    BY <1>2, <2>1 DEF Cars
  <2>3. CarOf(i)!CloseDoor
    BY <1>1, <1>2, <1>7, <2>1, <2>2
    DEF CarOf!CloseDoor, CarOf!A_LIFT_ZATVORI, CarOf!S_STOJI_OTVOREN,
        CarOf!S_ZATVARA_VRATA, A_LIFT_ZATVORI, S_STOJI_OTVOREN, S_ZATVARA_VRATA,
        Running, S_STOJI
  <2> QED  BY <1>3, <2>3
<1>8. CASE c.action = A_LIFT_STANI
  <2>1. Carries(c) /\ Command(c) = [c EXCEPT !.state = S_STOJI]
    BY <1>8 DEF Carries, Command, A_LIFT_GORE, A_LIFT_DOLE, A_LIFT_OTVORI,
                A_LIFT_ZATVORI, A_LIFT_STANI
  <2>2. Command(c).direction = c.direction /\ Command(c).state = S_STOJI
    BY <1>2, <2>1 DEF Cars
  <2>3. CarOf(i)!EmergencyStop
    BY <1>1, <1>8, <2>1, <2>2
    DEF CarOf!EmergencyStop, CarOf!A_LIFT_STANI, CarOf!S_STOJI, A_LIFT_STANI,
        Running, S_STOJI
  <2> QED  BY <1>3, <2>3
<1> QED  BY <1>4, <1>5, <1>6, <1>7, <1>8 DEF QueuedActions

LEMMA RoundIsLiftCar ==
  ASSUME NEW i \in Lifts, Running(car[i]), car[i] \in SafeCars,
         car'[i] = Round(car[i]), status'[i] = status[i]
  PROVE  CarOf(i)!Next
<1>1. car[i].action \in QueuedActions \cup {A_UNDEF, A_OBRADENO}
  BY DEF SafeCars, Cars
<1>2. CarOf(i)!LiftThread
  BY <1>1, IdleIsLiftCar, AdvanceIsLiftCar, ExecuteIsLiftCar
<1> QED  BY <1>2 DEF CarOf!Next

LEMMA TakeActionIsLiftCar ==
  ASSUME NEW i \in Lifts, Running(car[i]), car[i] \in SafeCars,
         NEW a \in Commands,
         car'[i] = TakeAction(car[i], a), status'[i] = status[i]
  PROVE  CarOf(i)!Next
<1> DEFINE c == car[i]
           d == car'[i]
<1>1. c \in Cars
  BY DEF SafeCars
<1>2. CASE a = A_LIFT_STANI_NA_KATU
  <2>1. d = [c EXCEPT !.stop = TRUE]
    BY <1>2 DEF TakeAction
  <2>2. /\ d.floor = c.floor /\ d.im_floor = c.im_floor /\ d.state = c.state
        /\ d.direction = c.direction /\ d.action = c.action /\ d.stop = TRUE
    BY <1>1, <2>1 DEF Cars
  <2>3. CarOf(i)!ReceiveStopAtFloor
    BY <2>2 DEF CarOf!ReceiveStopAtFloor, CarOf!position, Running
  <2> QED  BY <2>3 DEF CarOf!Next, CarOf!Listener
<1>3. CASE a # A_LIFT_STANI_NA_KATU
  <2>1. a \in QueuedActions
    BY <1>3 DEF Commands
  <2>2. d = IF c.action \in {A_UNDEF, A_OBRADENO} THEN [c EXCEPT !.action = a] ELSE c
    BY <1>3 DEF TakeAction
  <2>3. /\ d.floor = c.floor /\ d.im_floor = c.im_floor /\ d.state = c.state
        /\ d.direction = c.direction /\ d.stop = c.stop
        /\ d.action = IF c.action \in {A_UNDEF, A_OBRADENO} THEN a ELSE c.action
    BY <1>1, <2>2 DEF Cars
  <2>4. CarOf(i)!ReceiveAction(a)
    BY <2>3 DEF CarOf!ReceiveAction, CarOf!position, Running,
                CarOf!A_UNDEF, CarOf!A_OBRADENO, A_UNDEF, A_OBRADENO
  <2>5. a \in CarOf(i)!QueuedActions
    BY <2>1 DEF CarOf!QueuedActions, QueuedActions, CarOf!A_LIFT_GORE,
       CarOf!A_LIFT_DOLE, CarOf!A_LIFT_STANI, CarOf!A_LIFT_OTVORI,
       CarOf!A_LIFT_ZATVORI, A_LIFT_GORE, A_LIFT_DOLE, A_LIFT_STANI,
       A_LIFT_OTVORI, A_LIFT_ZATVORI
  <2> QED  BY <2>4, <2>5 DEF CarOf!Next, CarOf!Listener
<1> QED  BY <1>2, <1>3

LEMMA LampIsLiftCar ==
  ASSUME NEW i \in Lifts, Running(car[i]), NEW f \in Floors, NEW on \in BOOLEAN,
         car'[i] = car[i],
         status'[i] = IF on THEN status[i] \cup {f} ELSE status[i] \ {f}
  PROVE  CarOf(i)!Next
<1>1. [g \in Floors |-> g \in status'[i]] =
        [[g \in Floors |-> g \in status[i]] EXCEPT ![f] = on]
  <2>1. ASSUME NEW g \in Floors
        PROVE  (g \in status'[i]) = (IF g = f THEN on ELSE g \in status[i])
    OBVIOUS
  <2> QED  BY <2>1
<1>2. CarOf(i)!ReceiveLamp(f, on)
  BY <1>1 DEF CarOf!ReceiveLamp, CarOf!carVars, Running
<1>3. f \in CarOf(i)!Floors
  BY DEF CarOf!Floors, Floors
<1> QED  BY <1>2, <1>3 DEF CarOf!Next, CarOf!Listener

------------------------------------------------------------------------------
(* The invariant: the cars, what upr knows and enters, and what is on its way *)
(* to the lifts and to upr.  A command reaches a lift from naredba or from    *)
(* the key STOP, and all that is entered there is a command for a place; the  *)
(* hall's keys and lamps have no part in it, but the floors of calls.         *)
Known    == [floor : Floors, im_floor : Quarters, direction : Directions,
             door : Doors, state : LiftStates \cup {UNKNOWN}]
Entries  == [place : Places, action : Commands]

IInv ==
  /\ car \in [Lifts -> SafeCars]
  /\ status \in [Lifts -> SUBSET Floors]
  /\ current \in [Lifts -> Known]
  /\ stani \in [Lifts -> SUBSET Floors]
  /\ naredba \in [Lifts -> SUBSET Entries]
  /\ tipke_u_liftu \in [Lifts -> SUBSET Floors]
  /\ to_send \in {<<>>} \cup {<<m>> : m \in LampsToLight}
  /\ to_lift \in [Lifts -> Seq(LiftMessages)]
  /\ to_upr \in Seq(UprMessages)

LEMMA MessageTypes ==
  /\ \A m \in LiftMessages :
       /\ m.type \in {"LIFT_PALI_LAMPICU", "LIFT_GASI_LAMPICU"} => m.data \in Floors
       /\ m.type = "LIFT_ACTION_START" => m.data \in Commands \cup {A_LIFT_STATUS}
  /\ \A m \in LampsToLight :
       /\ m.type = "LIFT_PALI_LAMPICU" =>
            /\ m \in LiftMessages /\ m.lift \in Lifts /\ m.data \in Floors
            /\ m = Msg("LIFT_PALI_LAMPICU", m.lift, m.data)
       /\ m.type # "LIFT_PALI_LAMPICU" =>
            /\ m \in TipkeMessages /\ m.data \in Keys
            /\ m = Msg("TIPKE_PALI_LAMPICU", 0, m.data)
  /\ \A m \in UprMessages :
       /\ m.lift \in Lifts
       /\ m.type \in {"LIFT_KEY_PRESSED", "LIFT_STOP"} => m.data \in Floors
       /\ m.type = "TIPKE_KEY_PRESSED" => m.data \in Keys /\ m.lift = 0
       /\ m.type = "LIFT_STATUS_REPORT" => m.data \in Reports
<1>1. 0 \in Lifts
  BY ElevatorsAssumption DEF Lifts
<1> QED  BY <1>1 DEF LiftMessages, TipkeMessages, UprMessages, LampsToLight, Msg

LEMMA MessagesMade ==
  ASSUME NEW i \in Lifts
  PROVE  /\ \A a \in Commands \cup {A_LIFT_STATUS} : Action(i, a) \in LiftMessages
         /\ \A f \in Floors : Msg("LIFT_GASI_LAMPICU", i, f) \in LiftMessages
         /\ \A f \in Floors : Msg("LIFT_PALI_LAMPICU", i, f) \in LampsToLight
         /\ \A f \in Floors : Msg("LIFT_KEY_PRESSED", i, f) \in UprMessages
         /\ \A f \in Floors : Msg("LIFT_STOP", i, f) \in UprMessages
         /\ \A k \in Keys : Msg("TIPKE_KEY_PRESSED", 0, k) \in UprMessages
         /\ \A k \in Keys : Msg("TIPKE_PALI_LAMPICU", 0, k) \in LampsToLight
         /\ \A k \in Keys : Msg("TIPKE_GASI_LAMPICU", i, k) \in TipkeMessages
         /\ \A r \in Reports : Msg("LIFT_STATUS_REPORT", i, r) \in UprMessages
BY DEF Msg, Action, LiftMessages, UprMessages, TipkeMessages, LampsToLight

LEMMA InitInvariant == Init => IInv
<1> SUFFICES ASSUME Init PROVE IInv
  OBVIOUS
<1>1. InitialCar \in SafeCars
  BY FloorsAssumption DEF InitialCar, SafeCars, Cars, Inside, Floors, Quarters,
     Directions, Doors, LiftStates
<1>2. ASSUME NEW i \in Lifts
      PROVE  <<Action(i, A_LIFT_STATUS)>> \in Seq(LiftMessages)
  BY MessagesMade
<1>3. [floor |-> 0, im_floor |-> 0, direction |-> D_UP,
       door |-> V_ZATVORENA, state |-> UNKNOWN] \in Known
  BY FloorsAssumption DEF Known, Floors, Quarters, Directions, Doors
<1>4. to_lift \in [Lifts -> Seq(LiftMessages)]
  BY <1>2 DEF Init
<1>5. to_upr \in Seq(UprMessages)
  BY EmptySeq DEF Init
<1> QED  BY <1>1, <1>3, <1>4, <1>5 DEF Init, IInv

(* What a round of upr() enters for a lift. *)
LEMMA WantedType ==
  ASSUME IInv, NEW i \in Lifts
  PROVE  Wanted(i) \subseteq Floors
BY DEF IInv, Wanted, Assigned, Keys

LEMMA NextDirectionType ==
  ASSUME IInv, NEW i \in Lifts, NEW want \in SUBSET Floors
  PROVE  NextDirection(i, want) \in Directions
BY DEF IInv, Known, NextDirection, Directions

LEMMA StopsAheadType ==
  ASSUME IInv, NEW i \in Lifts, NEW want \in SUBSET Floors
  PROVE  StopsAhead(i, want) \subseteq Entries
<1>1. /\ current[i].floor \in Floors /\ current[i].direction \in Directions
  BY DEF IInv, Known
<1>2. ASSUME NEW f \in Ahead(i, want)
      PROVE  /\ f \in Floors
             /\ (IF current[i].direction = D_UP THEN f - 1 ELSE f) \in Floors
  <2>1. /\ f \in Floors
        /\ current[i].direction = D_UP => f > current[i].floor
    BY <1>1, <1>2 DEF Ahead, D_UP, D_DOWN
  <2> QED  BY <1>1, <2>1, FloorsAssumption DEF Floors
<1>3. /\ 2 \in Quarters /\ 0 \in Quarters /\ V_ZATVORENA \in Doors
      /\ A_LIFT_STANI_NA_KATU \in Commands /\ A_LIFT_OTVORI \in Commands
  BY DEF Quarters, Doors, Commands, QueuedActions
<1>4. ASSUME NEW f \in Ahead(i, want)
      PROVE  /\ Entry(IF current[i].direction = D_UP THEN f - 1 ELSE f, 2,
                      current[i].direction, V_ZATVORENA,
                      A_LIFT_STANI_NA_KATU) \in Entries
             /\ Entry(f, 0, current[i].direction, V_ZATVORENA,
                      A_LIFT_OTVORI) \in Entries
  BY <1>1, <1>2, <1>3, <1>4 DEF Entry, Entries, Places
<1> QED  BY <1>4 DEF StopsAhead

LEMMA ErrandsType ==
  ASSUME IInv, NEW i \in Lifts, NEW want \in SUBSET Floors
  PROVE  Errands(i, want) \subseteq Entries
<1>1. current[i].floor \in Floors /\ current[i].im_floor \in Quarters
  BY DEF IInv, Known
<1>2. NextDirection(i, want) \in Directions
  BY NextDirectionType
<1>3. A_LIFT_ZATVORI \in Commands /\ V_OTVORENA \in Doors /\ V_ZATVORENA \in Doors
  BY DEF Commands, QueuedActions, Doors
<1>4. \A kept : Errand(i, kept, NextDirection(i, want)) \in Commands
  BY DEF Errand, Commands, QueuedActions
<1>5. ASSUME NEW door \in Doors, NEW a \in Commands
      PROVE  Entry(current[i].floor, current[i].im_floor,
                   NextDirection(i, want), door, a) \in Entries
  BY <1>1, <1>2, <1>5 DEF Entry, Entries, Places
<1> QED  BY <1>3, <1>4, <1>5 DEF Errands

LEMMA TableType ==
  ASSUME IInv, NEW i \in Lifts, NEW want \in SUBSET Floors
  PROVE  Table(i, want) \subseteq Entries
BY StopsAheadType, ErrandsType DEF IInv, Table, Enter

LEMMA SentParts ==
  ASSUME IInv, NEW i \in Lifts, NEW want \in SUBSET Floors
  PROVE  /\ LampsOut(i) \in Seq(LiftMessages)
         /\ CommandSent(i, want) \in Seq(LiftMessages)
         /\ <<Action(i, A_LIFT_STATUS)>> \in Seq(LiftMessages)
<1>1. LampsOut(i) \in Seq(LiftMessages)
  <2>1. current[i].floor \in Floors
    BY DEF IInv, Known
  <2>2. <<Msg("LIFT_GASI_LAMPICU", i, current[i].floor)>> \in Seq(LiftMessages)
    BY <2>1, MessagesMade
  <2> QED  BY <2>2, EmptySeq DEF LampsOut
<1>2. CommandSent(i, want) \in Seq(LiftMessages)
  <2>1. CASE Due(i, want) = {}
    BY <2>1, EmptySeq DEF CommandSent
  <2>2. CASE Due(i, want) # {}
    <3> DEFINE e == CHOOSE e \in Due(i, want) : TRUE
    <3>1. e \in Entries
      BY <2>2, TableType DEF Due
    <3>2. e.action \in Commands
      BY <3>1 DEF Entries
    <3>3. CommandSent(i, want) = <<Action(i, e.action)>>
      BY <2>2 DEF CommandSent
    <3> HIDE DEF e
    <3> QED  BY <3>2, <3>3, MessagesMade
  <2> QED  BY <2>1, <2>2
<1>3. <<Action(i, A_LIFT_STATUS)>> \in Seq(LiftMessages)
  BY MessagesMade
<1> QED  BY <1>1, <1>2, <1>3

LEMMA SentToLift ==
  ASSUME IInv, NEW i \in Lifts, NEW want \in SUBSET Floors
  PROVE  LampsOut(i) \o CommandSent(i, want) \o <<Action(i, A_LIFT_STATUS)>>
           \in Seq(LiftMessages)
BY SentParts, ConcatProperties

LEMMA UprRoundInvariant ==
  ASSUME IInv, UprRound
  PROVE  IInv'
<1>1. ASSUME NEW i \in Lifts
      PROVE  /\ Wanted(i) \in SUBSET Floors
             /\ Kept(i, Wanted(i)) \in SUBSET Floors
             /\ Kept(i, tipke_u_liftu[i]) \in SUBSET Floors
             /\ Table(i, Wanted(i)) \ Due(i, Wanted(i)) \in SUBSET Entries
  <2>1. Wanted(i) \in SUBSET Floors /\ tipke_u_liftu[i] \in SUBSET Floors
    BY WantedType DEF IInv
  <2> QED  BY <2>1, TableType DEF Kept
<1>2. ASSUME NEW i \in Lifts
      PROVE  [current[i] EXCEPT !.direction = NextDirection(i, Wanted(i))] \in Known
  <2>1. current[i] \in Known /\ NextDirection(i, Wanted(i)) \in Directions
    BY <1>1, NextDirectionType DEF IInv
  <2> QED  BY <2>1 DEF Known
<1>3. stani' \in [Lifts -> SUBSET Floors] /\ tipke_u_liftu' \in [Lifts -> SUBSET Floors]
  BY <1>1 DEF UprRound
<1>4. naredba' \in [Lifts -> SUBSET Entries]
  BY <1>1 DEF UprRound
<1>5. current' \in [Lifts -> Known]
  BY <1>2 DEF UprRound
<1>6. to_lift' \in [Lifts -> Seq(LiftMessages)]
  <2>1. ASSUME NEW i \in Lifts
        PROVE  LampsOut(i) \o CommandSent(i, Wanted(i)) \o <<Action(i, A_LIFT_STATUS)>>
                 \in Seq(LiftMessages)
    BY <1>1, SentToLift
  <2> QED  BY <2>1 DEF UprRound
<1>7. UNCHANGED <<car, status, to_send, to_upr>>
  BY DEF UprRound, liftVars
<1> QED  BY <1>3, <1>4, <1>5, <1>6, <1>7 DEF IInv

LEMMA ReceiveType ==
  ASSUME IInv, NEW type, Receive(type)
  PROVE  /\ Head(to_upr) \in UprMessages /\ Head(to_upr).type = type
         /\ to_upr' \in Seq(UprMessages)
BY HeadTailProperties DEF IInv, Receive

LEMMA UprListenerInvariant ==
  ASSUME IInv, UprListener
  PROVE  IInv'
<1>1. CASE HallKey
  <2>1. /\ Head(to_upr).data \in Keys /\ Head(to_upr).lift = 0
        /\ to_upr' \in Seq(UprMessages)
    BY <1>1, ReceiveType, MessageTypes DEF HallKey
  <2>2. /\ to_send' = <<Msg("TIPKE_PALI_LAMPICU", Head(to_upr).lift, Head(to_upr).data)>>
        /\ UNCHANGED <<car, status, current, stani, naredba, tipke_u_liftu, to_lift>>
    BY <1>1 DEF HallKey, liftVars
  <2>3. Msg("TIPKE_PALI_LAMPICU", Head(to_upr).lift, Head(to_upr).data) \in LampsToLight
    BY <2>1, ElevatorsAssumption, MessagesMade DEF Lifts
  <2> QED  BY <2>1, <2>2, <2>3 DEF IInv
<1>2. CASE CabinKey
  <2> DEFINE m == Head(to_upr)
  <2>1. m.data \in Floors /\ m.lift \in Lifts /\ to_upr' \in Seq(UprMessages)
    BY <1>2, ReceiveType, MessageTypes DEF CabinKey
  <2>2. /\ to_send' = <<Msg("LIFT_PALI_LAMPICU", m.lift, m.data)>>
        /\ tipke_u_liftu' = [tipke_u_liftu EXCEPT ![m.lift] = @ \cup {m.data}]
        /\ UNCHANGED <<car, status, current, stani, naredba, to_lift>>
    BY <1>2 DEF CabinKey, liftVars
  <2>3. Msg("LIFT_PALI_LAMPICU", m.lift, m.data) \in LampsToLight
    BY <2>1, MessagesMade
  <2>4. tipke_u_liftu' \in [Lifts -> SUBSET Floors]
    BY <2>1, <2>2 DEF IInv
  <2> QED  BY <2>1, <2>2, <2>3, <2>4 DEF IInv
<1>3. CASE SendLamp
  <2> DEFINE m == Head(to_send)
  <2>1. to_send # <<>> /\ to_send' = <<>> /\ m \in LampsToLight
    BY <1>3 DEF SendLamp, IInv
  <2>2. UNCHANGED <<car, status, current, stani, naredba, tipke_u_liftu, to_upr>>
    BY <1>3 DEF SendLamp, liftVars
  <2>3. to_lift' \in [Lifts -> Seq(LiftMessages)]
    <3>1. CASE m.type = "LIFT_PALI_LAMPICU"
      <4>1. m.lift \in Lifts /\ m \in LiftMessages
        BY <2>1, <3>1, MessageTypes
      <4>2. to_lift' = [to_lift EXCEPT ![m.lift] = Append(@, m)]
        BY <1>3, <3>1 DEF SendLamp
      <4>3. to_lift[m.lift] \in Seq(LiftMessages)
        BY <4>1 DEF IInv
      <4>4. Append(to_lift[m.lift], m) \in Seq(LiftMessages)
        BY <4>1, <4>3, AppendProperties
      <4> QED  BY <4>1, <4>2, <4>4 DEF IInv
    <3>2. CASE m.type # "LIFT_PALI_LAMPICU"
      BY <1>3, <3>2 DEF SendLamp, IInv
    <3> QED  BY <3>1, <3>2
  <2> QED  BY <2>1, <2>2, <2>3 DEF IInv
<1>4. CASE Report
  <2> DEFINE m == Head(to_upr)
  <2>1. m.data \in Known /\ m.lift \in Lifts /\ to_upr' \in Seq(UprMessages)
    <3>1. m.data \in Reports /\ m.lift \in Lifts /\ to_upr' \in Seq(UprMessages)
      BY <1>4, ReceiveType, MessageTypes DEF Report
    <3>2. Reports \subseteq Known
      BY DEF Reports, Known
    <3> QED  BY <3>1, <3>2
  <2>2. /\ current' = [current EXCEPT ![m.lift] = m.data]
        /\ UNCHANGED <<car, status, stani, naredba, tipke_u_liftu, to_send, to_lift>>
    BY <1>4 DEF Report, liftVars
  <2>3. current' \in [Lifts -> Known]
    BY <2>1, <2>2 DEF IInv
  <2> QED  BY <2>1, <2>2, <2>3 DEF IInv
<1>5. CASE Stop
  <2> DEFINE i == Head(to_upr).lift
  <2>1. i \in Lifts /\ to_upr' \in Seq(UprMessages)
    BY <1>5, ReceiveType, MessageTypes DEF Stop
  <2>2. /\ to_lift' = [to_lift EXCEPT ![i] = Append(@, Action(i, A_LIFT_STANI))]
        /\ UNCHANGED <<car, status, current, stani, naredba, tipke_u_liftu, to_send>>
    BY <1>5 DEF Stop, liftVars, uprVars
  <2>3. Action(i, A_LIFT_STANI) \in LiftMessages
    BY <2>1, MessagesMade DEF Commands, QueuedActions
  <2>4. Append(to_lift[i], Action(i, A_LIFT_STANI)) \in Seq(LiftMessages)
    BY <2>1, <2>3, AppendProperties DEF IInv
  <2>5. to_lift' \in [Lifts -> Seq(LiftMessages)]
    BY <2>1, <2>2, <2>4 DEF IInv
  <2> QED  BY <2>1, <2>2, <2>5 DEF IInv
<1> QED  BY <1>1, <1>2, <1>3, <1>4, <1>5 DEF UprListener

------------------------------------------------------------------------------
(* A lift: its invariant, and its step of LiftCar. *)
CarStep(i) == UNCHANGED <<car[i], status[i]>> \/ CarOf(i)!Next

LEMMA LiftRoundSteps ==
  ASSUME IInv, NEW i \in Lifts, LiftRound(i)
  PROVE  IInv' /\ \A j \in Lifts : CarStep(j)
<1>1. /\ Running(car[i]) /\ car' = [car EXCEPT ![i] = Round(@)]
      /\ UNCHANGED <<status, current, stani, naredba, tipke_u_liftu, to_send,
                     to_lift, to_upr>>
  BY DEF LiftRound, uprVars, netVars
<1>2. car[i] \in SafeCars /\ Round(car[i]) \in SafeCars
  BY RoundInside DEF IInv
<1>3. IInv'
  BY <1>1, <1>2 DEF IInv
<1>4. car'[i] = Round(car[i]) /\ status'[i] = status[i]
  BY <1>1 DEF IInv
<1>5. CarOf(i)!Next
  BY <1>1, <1>2, <1>4, RoundIsLiftCar
<1>6. \A j \in Lifts \ {i} : UNCHANGED <<car[j], status[j]>>
  BY <1>1 DEF IInv
<1> QED  BY <1>3, <1>5, <1>6 DEF CarStep

LEMMA TakeFromType ==
  ASSUME IInv, NEW i \in Lifts, NEW type, TakeFrom(i, type)
  PROVE  /\ Running(car[i])
         /\ Head(to_lift[i]) \in LiftMessages /\ Head(to_lift[i]).type = type
         /\ to_lift' \in [Lifts -> Seq(LiftMessages)]
<1>1. to_lift[i] \in Seq(LiftMessages) /\ to_lift[i] # <<>>
  BY DEF IInv, TakeFrom
<1>2. Head(to_lift[i]) \in LiftMessages /\ Tail(to_lift[i]) \in Seq(LiftMessages)
  BY <1>1, HeadTailProperties
<1> QED  BY <1>2 DEF IInv, TakeFrom

LEMMA LiftLampSteps ==
  ASSUME IInv, NEW i \in Lifts, LiftLamp(i)
  PROVE  IInv' /\ \A j \in Lifts : CarStep(j)
<1> DEFINE f == Head(to_lift[i]).data
<1>1. PICK on \in BOOLEAN :
        /\ TakeFrom(i, IF on THEN "LIFT_PALI_LAMPICU" ELSE "LIFT_GASI_LAMPICU")
        /\ status' = [status EXCEPT ![i] = IF on THEN @ \cup {f} ELSE @ \ {f}]
  BY DEF LiftLamp
<1>2. UNCHANGED <<car, current, stani, naredba, tipke_u_liftu, to_send, to_upr>>
  BY DEF LiftLamp, uprVars
<1>3. Running(car[i]) /\ f \in Floors /\ to_lift' \in [Lifts -> Seq(LiftMessages)]
  BY <1>1, TakeFromType, MessageTypes
<1>4. status'[i] = IF on THEN status[i] \cup {f} ELSE status[i] \ {f}
  BY <1>1 DEF IInv
<1>5. status' \in [Lifts -> SUBSET Floors]
  BY <1>1, <1>3 DEF IInv
<1>6. IInv'
  BY <1>2, <1>3, <1>5 DEF IInv
<1>7. CarOf(i)!Next
  BY <1>2, <1>3, <1>4, LampIsLiftCar
<1>8. \A j \in Lifts \ {i} : UNCHANGED <<car[j], status[j]>>
  BY <1>1, <1>2 DEF IInv
<1> QED  BY <1>6, <1>7, <1>8 DEF CarStep

LEMMA LiftActionSteps ==
  ASSUME IInv, NEW i \in Lifts, LiftAction(i)
  PROVE  IInv' /\ \A j \in Lifts : CarStep(j)
<1> DEFINE a == Head(to_lift[i]).data
<1>1. /\ TakeFrom(i, "LIFT_ACTION_START") /\ a # A_LIFT_STATUS
      /\ car' = [car EXCEPT ![i] = TakeAction(@, a)]
      /\ UNCHANGED <<status, current, stani, naredba, tipke_u_liftu, to_send, to_upr>>
  BY DEF LiftAction, uprVars
<1>2. /\ Running(car[i]) /\ a \in Commands
      /\ to_lift' \in [Lifts -> Seq(LiftMessages)]
  BY <1>1, TakeFromType, MessageTypes
<1>3. car[i] \in SafeCars
  BY DEF IInv
<1>4. TakeAction(car[i], a) \in SafeCars
  BY <1>2, <1>3, TakeActionInside
<1>5. IInv'
  BY <1>1, <1>2, <1>4 DEF IInv
<1>6. car'[i] = TakeAction(car[i], a) /\ status'[i] = status[i]
  BY <1>1 DEF IInv
<1>7. CarOf(i)!Next
  BY <1>2, <1>3, <1>6, TakeActionIsLiftCar
<1>8. \A j \in Lifts \ {i} : UNCHANGED <<car[j], status[j]>>
  BY <1>1 DEF IInv
<1> QED  BY <1>5, <1>7, <1>8 DEF CarStep

LEMMA LiftStatusSteps ==
  ASSUME IInv, NEW i \in Lifts, LiftStatus(i)
  PROVE  IInv' /\ \A j \in Lifts : CarStep(j)
<1>1. /\ TakeFrom(i, "LIFT_ACTION_START")
      /\ to_upr' = Append(to_upr, Msg("LIFT_STATUS_REPORT", i, to_string(car[i])))
      /\ UNCHANGED <<car, status, current, stani, naredba, tipke_u_liftu, to_send>>
  BY DEF LiftStatus, liftVars, uprVars
<1>2. to_lift' \in [Lifts -> Seq(LiftMessages)]
  BY <1>1, TakeFromType
<1>3. to_string(car[i]) \in Reports
  <2>1. car[i] \in Cars
    BY DEF IInv, SafeCars
  <2> QED  BY <2>1 DEF to_string, Reports, Cars
<1>4. Msg("LIFT_STATUS_REPORT", i, to_string(car[i])) \in UprMessages
  BY <1>3, MessagesMade
<1>5. to_upr' \in Seq(UprMessages)
  BY <1>1, <1>4, AppendProperties DEF IInv
<1> QED  BY <1>1, <1>2, <1>5 DEF IInv, CarStep

LEMMA LiftGoneSteps ==
  ASSUME IInv, NEW i \in Lifts, LiftGone(i)
  PROVE  IInv' /\ \A j \in Lifts : CarStep(j)
<1>1. <<>> \in Seq(LiftMessages)
  BY EmptySeq
<1> QED  BY <1>1 DEF LiftGone, liftVars, uprVars, IInv, CarStep

(* The keys and the network leave the lifts alone. *)
LEMMA SendInvariant ==
  ASSUME IInv, NEW m \in UprMessages, Send(m)
  PROVE  IInv' /\ UNCHANGED liftVars
<1>1. Append(to_upr, m) \in Seq(UprMessages)
  BY AppendProperties DEF IInv
<1> QED  BY <1>1 DEF Send, liftVars, uprVars, IInv

LEMMA PassengersInvariant ==
  ASSUME IInv, Passengers
  PROVE  IInv' /\ UNCHANGED liftVars
<1>1. ASSUME NEW i \in Lifts, PressStop(i) PROVE IInv' /\ UNCHANGED liftVars
  <2>1. Msg("LIFT_STOP", i, 0) \in UprMessages
    BY MessagesMade, FloorsAssumption DEF Floors
  <2> QED  BY <1>1, <2>1, SendInvariant DEF PressStop
<1>2. ASSUME NEW i \in Lifts, NEW f \in Floors, PressCabin(i, f)
      PROVE  IInv' /\ UNCHANGED liftVars
  BY <1>2, MessagesMade, SendInvariant DEF PressCabin
<1>3. ASSUME NEW k \in HallKeys, PressHall(k) PROVE IInv' /\ UNCHANGED liftVars
  <2>1. 0 \in Lifts /\ k \in Keys
    BY ElevatorsAssumption DEF Lifts, HallKeys
  <2>2. Msg("TIPKE_KEY_PRESSED", 0, k) \in UprMessages
    BY <2>1, MessagesMade
  <2> QED  BY <1>3, <2>2, SendInvariant DEF PressHall
<1> QED  BY <1>1, <1>2, <1>3 DEF Passengers

LEMMA LoseInvariant ==
  ASSUME IInv, Lose
  PROVE  IInv' /\ UNCHANGED liftVars
<1>1. UNCHANGED <<liftVars, uprVars>>
  BY DEF Lose
<1>2. to_lift' \in [Lifts -> Seq(LiftMessages)]
  <2>1. ASSUME NEW i \in Lifts, to_lift[i] # <<>>
        PROVE  Tail(to_lift[i]) \in Seq(LiftMessages)
    BY <2>1, HeadTailProperties DEF IInv
  <2> QED  BY <2>1 DEF Lose, IInv
<1>3. to_upr' \in Seq(UprMessages)
  BY HeadTailProperties DEF Lose, IInv
<1> QED  BY <1>1, <1>2, <1>3 DEF IInv, liftVars, uprVars

LEMMA NextSteps ==
  ASSUME IInv, [Next]_vars
  PROVE  IInv' /\ \A i \in Lifts : CarStep(i)
<1>1. ASSUME IInv', UNCHANGED liftVars PROVE IInv' /\ \A i \in Lifts : CarStep(i)
  BY <1>1 DEF liftVars, CarStep
<1>2. CASE UprRound
  BY <1>1, <1>2, UprRoundInvariant DEF UprRound
<1>3. CASE UprListener
  <2>1. UNCHANGED liftVars
    BY <1>3 DEF UprListener, HallKey, CabinKey, SendLamp, Report, Stop
  <2> QED  BY <1>1, <1>3, <2>1, UprListenerInvariant
<1>4. CASE TipkeListener
  <2>1. UNCHANGED <<liftVars, uprVars, to_lift, to_upr>>
    BY <1>4 DEF TipkeListener
  <2>2. IInv'
    BY <2>1 DEF liftVars, uprVars, IInv
  <2> QED  BY <1>1, <2>1, <2>2
<1>5. ASSUME NEW i \in Lifts, LiftRound(i)
      PROVE  IInv' /\ \A j \in Lifts : CarStep(j)
  BY <1>5, LiftRoundSteps
<1>6. ASSUME NEW i \in Lifts, LiftListener(i)
      PROVE  IInv' /\ \A j \in Lifts : CarStep(j)
  BY <1>6, LiftLampSteps, LiftActionSteps, LiftStatusSteps, LiftGoneSteps
  DEF LiftListener
<1>7. CASE Passengers \/ Lose
  BY <1>1, <1>7, PassengersInvariant, LoseInvariant
<1>8. CASE UNCHANGED vars
  <2>1. UNCHANGED <<liftVars, uprVars, to_lift, to_upr>>
    BY <1>8 DEF vars, netVars
  <2>2. IInv'
    BY <2>1 DEF liftVars, uprVars, IInv
  <2> QED  BY <1>1, <2>1, <2>2
<1> QED  BY <1>2, <1>3, <1>4, <1>5, <1>6, <1>7, <1>8 DEF Next, Program

LEMMA Invariant == Spec => []IInv
<1>1. IInv /\ [Next]_vars => IInv'
  BY NextSteps
<1> QED  BY <1>1, InitInvariant, PTL DEF Spec

------------------------------------------------------------------------------
(* However many lifts there are, and whatever is pressed, sent and lost, no   *)
(* lift leaves the shaft.                                                     *)
THEOREM LiftsStayInside == Spec => [](\A i \in Lifts : Inside(car[i]))
<1>1. IInv => \A i \in Lifts : Inside(car[i])
  BY DEF IInv, SafeCars
<1> QED  BY <1>1, Invariant, PTL

(* Each lift of the three-lift program implements the lift of the other one:  *)
(* what is proved of LiftCar holds of each.                                   *)
THEOREM LiftsAreLiftCars == Spec => CarsAreLiftCars
<1>1. ASSUME Init, NEW i \in Lifts PROVE CarOf(i)!Init
  <2>1. car[i] = InitialCar /\ status[i] = {}
    BY <1>1 DEF Init
  <2>2. CarOf(i)!Floors = Floors
    BY DEF CarOf!Floors, Floors
  <2>3. [f \in Floors |-> f \in status[i]] \in [Floors -> {FALSE}]
    <3>1. ASSUME NEW f \in Floors PROVE (f \in status[i]) = FALSE
      <4>1. ~ (f \in status[i])
        BY <2>1
      <4> QED  BY <4>1, SMT
    <3>2. \A f \in Floors : (f \in status[i]) \in {FALSE}
      BY <3>1, Zenon
    <3> QED  BY <3>2, Zenon
  <2>4. Running(car[i]) = TRUE
    BY <2>1 DEF Running, InitialCar, S_STOJI_ZATVOREN, S_STOJI
  <2>5. /\ car[i].floor = 0 /\ car[i].im_floor = 0
        /\ car[i].state = CarOf(i)!S_STOJI_ZATVOREN
        /\ car[i].direction = CarOf(i)!D_STOJI
        /\ car[i].action = CarOf(i)!A_UNDEF
        /\ car[i].stop = FALSE
    BY <2>1 DEF InitialCar, CarOf!S_STOJI_ZATVOREN, CarOf!D_STOJI,
                CarOf!A_UNDEF, S_STOJI_ZATVOREN, D_STOJI, A_UNDEF
  <2>6. [f \in Floors |-> f \in status[i]] \in [CarOf(i)!Floors -> {FALSE}]
    BY <2>2, <2>3, Zenon
  <2> QED  BY <2>4, <2>5, <2>6, Zenon DEF CarOf!Init
<1>2. Init => CarsStart
  BY <1>1 DEF CarsStart
<1>3. IInv /\ [Next]_vars => [CarsStep]_vars
  BY NextSteps DEF CarStep, CarsStep
<1> QED  BY <1>2, <1>3, Invariant, PTL DEF Spec, CarsAreLiftCars
------------------------------------------------------------------------------
(* The hall: calls, keys and lamps.  A round of upr() sends the keys one      *)
(* datagram for each lift with an open door, in the order of the lifts.       *)
LEMMA NthLift ==
  ASSUME NEW S \in SUBSET Lifts
  PROVE  /\ Cardinality(S) \in Nat
         /\ \A n \in 1 .. Cardinality(S) : Nth(S, n) \in S
<1> DEFINE upto(i) == {j \in S : j <= i}
           rank(i) == Cardinality(upto(i))
<1>1. IsFiniteSet(S) /\ Cardinality(S) \in Nat /\ S \subseteq Int
  <2>1. 0 \in Int /\ ELEVATORS - 1 \in Int
    BY ElevatorsAssumption
  <2>2. IsFiniteSet(Lifts)
    BY <2>1, FS_Interval DEF Lifts
  <2>3. IsFiniteSet(S)
    BY <2>2, FS_Subset
  <2> QED  BY <2>1, <2>3, FS_CardinalityType DEF Lifts
<1>2. \A i \in S : /\ upto(i) \in SUBSET S /\ i \in upto(i)
                   /\ \A j \in S : j < i => upto(j) \subseteq upto(i) /\ i \notin upto(j)
  <2>1. \A i, j \in S : \A k \in S : j < i /\ k <= j => k <= i
    BY <1>1
  <2>2. \A i, j \in S : i <= i /\ (j < i => ~(i <= j))
    BY <1>1
  <2> QED  BY <2>1, <2>2
<1> HIDE DEF upto
<1>3. \A i \in S : /\ IsFiniteSet(upto(i)) /\ rank(i) \in Nat
                   /\ rank(i) <= Cardinality(S)
  BY <1>1, <1>2, FS_Subset, FS_CardinalityType
<1>4. \A i \in S : rank(i) # 0
  BY <1>2, <1>3, FS_EmptySet
<1>5. ASSUME NEW i \in S, NEW j \in S, j < i PROVE rank(j) < rank(i)
  <2>1. upto(j) \subseteq upto(i) /\ upto(j) # upto(i)
    BY <1>2, <1>5
  <2>2. rank(j) <= rank(i) /\ rank(j) # rank(i)
    BY <1>3, <2>1, FS_Subset
  <2> QED  BY <1>3, <2>2
<1>6. ASSUME NEW n \in 1 .. Cardinality(S) PROVE \E i \in S : rank(i) = n
  <2> DEFINE place == [i \in S |-> rank(i)]
             N == 1 .. Cardinality(S)
  <2>1. IsFiniteSet(N) /\ Cardinality(N) = Cardinality(S)
    BY <1>1, FS_Interval
  <2>2. \A i \in S : rank(i) \in N
    BY <1>1, <1>3, <1>4
  <2> HIDE DEF rank
  <2>3. place \in [S -> N] /\ \A i \in S : place[i] = rank(i)
    BY <2>2
  <2>4. ASSUME NEW i \in S, NEW j \in S, rank(i) = rank(j) PROVE i = j
    <3>1. rank(i) \in Nat /\ rank(j) \in Nat
      BY <1>3 DEF rank
    <3>2. ~(i < j) /\ ~(j < i)
      BY <1>5, <2>4, <3>1
    <3> QED  BY <1>1, <3>2
  <2> HIDE DEF place, N
  <2>5. place \in Injection(S, N)
    BY <2>3, <2>4 DEF Injection, IsInjective
  <2>6. place \in Surjection(S, N)
    BY <1>1, <2>1, <2>5, FS_Injection
  <2> QED  BY <2>3, <2>6 DEF Surjection, N
<1>7. ASSUME NEW n \in 1 .. Cardinality(S) PROVE Nth(S, n) \in S
  BY <1>6 DEF Nth, rank, upto
<1> QED  BY <1>1, <1>7
LEMMA HallLampsType ==
  ASSUME IInv
  PROVE  /\ HallLampsOut \in Seq(TipkeMessages)
         /\ \A n \in DOMAIN HallLampsOut : \E i \in Lifts :
              /\ DoorOpen(i)
              /\ HallLampsOut[n] = Msg("TIPKE_GASI_LAMPICU", i, LampServed(i))
<1> DEFINE open == {i \in Lifts : DoorOpen(i)}
           lamp(i) == Msg("TIPKE_GASI_LAMPICU", i, LampServed(i))
<1>1. /\ Cardinality(open) \in Nat
      /\ \A n \in 1 .. Cardinality(open) : Nth(open, n) \in open
  BY NthLift
<1>2. ASSUME NEW i \in Lifts PROVE lamp(i) \in TipkeMessages
  <2>1. LampServed(i) \in Keys
    BY DEF IInv, Known, LampServed, Key, Keys
  <2> QED  BY <2>1, MessagesMade
<1>3. HallLampsOut = [n \in 1 .. Cardinality(open) |-> lamp(Nth(open, n))]
  BY DEF HallLampsOut
<1>4. open \subseteq Lifts /\ \A i \in open : DoorOpen(i)
  OBVIOUS
<1> HIDE DEF open, lamp
<1>5. \A n \in 1 .. Cardinality(open) : lamp(Nth(open, n)) \in TipkeMessages
  BY <1>1, <1>2, <1>4
<1>6. HallLampsOut \in Seq(TipkeMessages)
  BY <1>1, <1>3, <1>5, IsASeq
<1>7. ASSUME NEW n \in DOMAIN HallLampsOut
      PROVE  \E i \in Lifts : DoorOpen(i) /\ HallLampsOut[n] = lamp(i)
  BY <1>1, <1>3, <1>4, <1>7
<1> QED  BY <1>6, <1>7 DEF lamp

(* What the type invariant says beyond the lifts and what upr knows of them.  *)
HallOK ==
  /\ tipke_na_katu \in [Keys -> 0 .. 2]
  /\ hall_status \in SUBSET Keys
  /\ to_tipke \in Seq(TipkeMessages)
  /\ presses \in Nat /\ losses \in Nat
  /\ ticks \in [Lifts -> 0 .. MaxTicks]

LEMMA InitHall == Init => HallOK
BY EmptySeq, BoundsAssumption DEF Init, HallOK

LEMMA UprRoundHall ==
  ASSUME IInv, HallOK, UprRound
  PROVE  HallOK'
<1>1. tipke_na_katu' \in [Keys -> 0 .. 2]
  <2>1. \A k \in Keys : CallAfter(k) \in 0 .. 2
    BY DEF CallAfter, HallOK
  <2> QED  BY <2>1 DEF UprRound
<1>2. to_tipke' \in Seq(TipkeMessages)
  BY HallLampsType DEF UprRound
<1>3. ticks' \in [Lifts -> 0 .. MaxTicks]
  <2>1. \A i \in Lifts : Running(car[i]) => ticks[i] < MaxTicks
    BY DEF UprRound
  <2>2. ASSUME NEW i \in Lifts
        PROVE  (IF Running(car[i]) THEN ticks[i] + 1 ELSE 0) \in 0 .. MaxTicks
    <3>1. ticks[i] \in 0 .. MaxTicks /\ MaxTicks \in Nat
      BY BoundsAssumption DEF HallOK
    <3> QED  BY <2>1, <3>1
  <2> QED  BY <2>2 DEF UprRound
<1>4. UNCHANGED <<hall_status, presses, losses>>
  BY DEF UprRound
<1> QED  BY <1>1, <1>2, <1>3, <1>4 DEF HallOK

LEMMA UprListenerHall ==
  ASSUME IInv, HallOK, UprListener
  PROVE  HallOK'
<1>1. CASE HallKey
  <2>1. Head(to_upr).data \in Keys
    BY <1>1, ReceiveType, MessageTypes DEF HallKey
  <2>2. /\ tipke_na_katu' = [tipke_na_katu EXCEPT ![Head(to_upr).data] = 1]
        /\ UNCHANGED <<hall_status, to_tipke, bounds>>
    BY <1>1 DEF HallKey
  <2> QED  BY <2>1, <2>2 DEF HallOK, bounds
<1>2. CASE SendLamp
  <2>1. UNCHANGED <<tipke_na_katu, hall_status, bounds>>
    BY <1>2 DEF SendLamp
  <2>2. to_tipke' \in Seq(TipkeMessages)
    <3> DEFINE m == Head(to_send)
    <3>1. m \in LampsToLight
      BY <1>2 DEF SendLamp, IInv
    <3>2. CASE m.type = "LIFT_PALI_LAMPICU"
      BY <1>2, <3>2 DEF SendLamp, HallOK
    <3>3. CASE m.type # "LIFT_PALI_LAMPICU"
      <4>1. m \in TipkeMessages
        BY <3>1, <3>3, MessageTypes
      <4>2. to_tipke' = Append(to_tipke, m)
        BY <1>2, <3>3 DEF SendLamp
      <4> QED  BY <4>1, <4>2, AppendProperties DEF HallOK
    <3> QED  BY <3>2, <3>3
  <2> QED  BY <2>1, <2>2 DEF HallOK, bounds
<1>3. CASE CabinKey \/ Report \/ Stop
  BY <1>3 DEF CabinKey, Report, Stop, uprVars, HallOK, bounds
<1> QED  BY <1>1, <1>2, <1>3 DEF UprListener

LEMMA TipkeListenerHall ==
  ASSUME IInv, HallOK, TipkeListener
  PROVE  HallOK'
<1> DEFINE m == Head(to_tipke)
<1>1. m \in TipkeMessages /\ to_tipke' \in Seq(TipkeMessages)
  BY HeadTailProperties DEF TipkeListener, HallOK
<1>2. m.data \in Keys
  BY <1>1 DEF TipkeMessages
<1>3. hall_status' \in SUBSET Keys
  BY <1>2 DEF TipkeListener, HallOK
<1>4. UNCHANGED <<tipke_na_katu, presses, losses, ticks>>
  BY DEF TipkeListener, uprVars, bounds
<1> QED  BY <1>1, <1>3, <1>4 DEF HallOK

LEMMA NextHall ==
  ASSUME IInv, HallOK, [Next]_vars
  PROVE  HallOK'
<1>1. ASSUME NEW i \in Lifts, LiftRound(i) PROVE HallOK'
  <2>1. 0 \in 0 .. MaxTicks
    BY BoundsAssumption
  <2>2. /\ ticks' = [ticks EXCEPT ![i] = 0]
        /\ UNCHANGED <<tipke_na_katu, hall_status, to_tipke, presses, losses>>
    BY <1>1 DEF LiftRound, uprVars, netVars
  <2> QED  BY <2>1, <2>2 DEF HallOK
<1>2. ASSUME NEW i \in Lifts, LiftListener(i) PROVE HallOK'
  <2>1. UNCHANGED <<uprVars, hall_status, to_tipke, bounds>>
    BY <1>2 DEF LiftListener, LiftLamp, LiftAction, LiftStatus, LiftGone
  <2> QED  BY <2>1 DEF uprVars, bounds, HallOK
<1>3. CASE Passengers
  <2>1. UNCHANGED <<uprVars, hall_status, to_tipke, losses, ticks>> /\ presses' = presses + 1
    BY <1>3 DEF Passengers, PressStop, PressCabin, PressHall, Send
  <2> QED  BY <2>1 DEF uprVars, HallOK
<1>4. CASE Lose
  <2>1. UNCHANGED <<uprVars, hall_status, presses, ticks>> /\ losses' = losses + 1
    BY <1>4 DEF Lose
  <2>2. to_tipke' \in Seq(TipkeMessages)
    BY <1>4, HeadTailProperties DEF Lose, HallOK
  <2> QED  BY <2>1, <2>2 DEF uprVars, HallOK
<1>5. CASE UNCHANGED vars
  BY <1>5 DEF vars, uprVars, netVars, bounds, HallOK
<1> QED  BY <1>1, <1>2, <1>3, <1>4, <1>5, UprRoundHall, UprListenerHall,
            TipkeListenerHall DEF Next, Program

LEMMA HallInvariant == Spec => []HallOK
BY InitHall, Invariant, NextHall, PTL DEF Spec

(* However many lifts there are and whatever is lost: what upr enters for a   *)
(* place is a command of the program, what is on its way fits the process it  *)
(* goes to, and the listener owes at most one lamp.                           *)
THEOREM ThreeLiftsTypeCorrect == Spec => []TypeOK
<1>1. IInv /\ HallOK => TypeOK
  BY DEF IInv, HallOK, TypeOK, SafeCars, Known, Entries
<1> QED  BY <1>1, Invariant, HallInvariant, PTL
------------------------------------------------------------------------------
(* The lamps.  A round of upr() puts out only the lamps of what it forgets,   *)
(* and it begins with empty queues: it does not get between the two halves of *)
(* a key press.                                                               *)
HallLampFollows(k) ==
  \/ to_send = <<HallLamp(k)>>
  \/ WillBeLit(HallLamp(k), hall_status, to_tipke, "TIPKE_GASI_LAMPICU")

CabinLampFollows(i, f) ==
  \/ to_send = <<CabinLamp(i, f)>>
  \/ WillBeLit(CabinLamp(i, f), status[i], to_lift[i], "LIFT_GASI_LAMPICU")

HallLampsFollow  == \A k \in Keys : tipke_na_katu[k] # 0 => HallLampFollows(k)
CabinLampsFollow == \A i \in Lifts : Running(car[i]) =>
                      \A f \in tipke_u_liftu[i] : CabinLampFollows(i, f)

LampsFollow == losses = 0 => HallLampsFollow /\ CabinLampsFollow

(* The first message is carried out. *)
LEMMA WillBeLitTail ==
  ASSUME NEW S, NEW queue \in Seq(S), queue # <<>>, NEW m, NEW lit, NEW off,
         NEW rest, m.type # off,
         WillBeLit(m, lit, queue, off),
         m.data \in lit => \/ m.data \in rest
                           \/ Head(queue).type = off /\ Head(queue).data = m.data,
         Head(queue) = m => m.data \in rest
  PROVE  WillBeLit(m, rest, Tail(queue), off)
<1> DEFINE t == Tail(queue)
<1>1. /\ Len(queue) \in Nat /\ Len(queue) # 0 /\ DOMAIN queue = 1 .. Len(queue)
      /\ DOMAIN t = 1 .. Len(queue) - 1
      /\ \A n \in 1 .. Len(queue) - 1 : t[n] = queue[n + 1]
      /\ Head(queue) = queue[1]
  BY HeadTailProperties, LenProperties, EmptySeq
<1> HIDE DEF t
<1>2. ASSUME NEW n \in DOMAIN queue, n # 1
      PROVE  n - 1 \in DOMAIN t /\ t[n - 1] = queue[n]
  BY <1>1, <1>2
<1>3. ASSUME NEW n \in DOMAIN queue, queue[n] = m, n # 1
      PROVE  \E l \in DOMAIN t : t[l] = m
  BY <1>2, <1>3
<1>4. m.data \in rest \/ \E l \in DOMAIN t : t[l] = m
  <2>1. CASE m.data \in lit
    <3>1. CASE Head(queue).type = off /\ Head(queue).data = m.data
      <4>1. 1 \in DOMAIN queue /\ queue[1].type = off /\ queue[1].data = m.data
        BY <1>1, <3>1
      <4>2. PICK l \in DOMAIN queue : 1 < l /\ queue[l] = m
        BY <4>1, Zenon DEF WillBeLit
      <4>3. l # 1
        BY <4>2, <1>1
      <4> QED  BY <1>3, <4>2, <4>3
    <3> QED  BY <2>1, <3>1
  <2>2. CASE m.data \notin lit
    <3>1. PICK n \in DOMAIN queue : queue[n] = m
      BY <2>2, Zenon DEF WillBeLit
    <3> QED  BY <1>1, <1>3, <3>1
  <2> QED  BY <2>1, <2>2
<1>5. ASSUME NEW n \in DOMAIN t, t[n].type = off, t[n].data = m.data
      PROVE  \E l \in DOMAIN t : n < l /\ t[l] = m
  <2>1. n + 1 \in DOMAIN queue /\ queue[n + 1] = t[n] /\ n \in Nat
    BY <1>1
  <2>2. PICK l \in DOMAIN queue : n + 1 < l /\ queue[l] = m
    BY <1>5, <2>1, Zenon DEF WillBeLit
  <2>3. l # 1 /\ n < l - 1
    BY <1>1, <2>1, <2>2
  <2> QED  BY <1>2, <2>2, <2>3
<1> QED  BY <1>4, <1>5, Zenon DEF WillBeLit, t

(* A message is sent. *)
LEMMA WillBeLitAppend ==
  ASSUME NEW S, NEW queue \in Seq(S), NEW new \in S, NEW m, NEW lit, NEW off,
         m.type # off,
         \/ new = m
         \/ WillBeLit(m, lit, queue, off) /\ (new.type # off \/ new.data # m.data)
  PROVE  WillBeLit(m, lit, Append(queue, new), off)
<1> DEFINE q == Append(queue, new)
<1>1. /\ Len(queue) \in Nat /\ DOMAIN queue = 1 .. Len(queue)
      /\ DOMAIN q = 1 .. Len(queue) + 1
      /\ \A n \in 1 .. Len(queue) : q[n] = queue[n]
      /\ q[Len(queue) + 1] = new
  <2>1. /\ q \in Seq(S) /\ Len(q) = Len(queue) + 1
        /\ \A n \in 1 .. Len(queue) : q[n] = queue[n]
        /\ q[Len(queue) + 1] = new
    BY AppendProperties
  <2> QED  BY <2>1, LenProperties
<1> HIDE DEF q
<1>2. ASSUME NEW n \in DOMAIN q, n # Len(queue) + 1
      PROVE  n \in DOMAIN queue /\ q[n] = queue[n] /\ n < Len(queue) + 1
  BY <1>1, <1>2
<1>3. Len(queue) + 1 \in DOMAIN q
  BY <1>1
<1>4. \A n \in DOMAIN queue : n \in DOMAIN q /\ q[n] = queue[n]
  BY <1>1
<1>5. CASE new = m
  <2>1. ASSUME NEW n \in DOMAIN q, q[n].type = off
        PROVE  \E l \in DOMAIN q : n < l /\ q[l] = m
    <3>1. n # Len(queue) + 1
      BY <1>1, <1>5, <2>1
    <3> QED  BY <1>1, <1>2, <1>3, <1>5, <3>1, Zenon
  <2>2. \E n \in DOMAIN q : q[n] = m
    BY <1>1, <1>3, <1>5, Zenon
  <2> QED  BY <2>1, <2>2, Zenon DEF WillBeLit, q
<1>6. CASE WillBeLit(m, lit, queue, off) /\ (new.type # off \/ new.data # m.data)
  <2>1. m.data \in lit \/ \E n \in DOMAIN q : q[n] = m
    BY <1>4, <1>6, Zenon DEF WillBeLit
  <2>2. ASSUME NEW n \in DOMAIN q, q[n].type = off, q[n].data = m.data
        PROVE  \E l \in DOMAIN q : n < l /\ q[l] = m
    <3>1. n # Len(queue) + 1
      BY <1>1, <1>6, <2>2
    <3>2. n \in DOMAIN queue /\ q[n] = queue[n]
      BY <1>2, <3>1
    <3>3. PICK l \in DOMAIN queue : n < l /\ queue[l] = m
      BY <1>6, <2>2, <3>2, Zenon DEF WillBeLit
    <3> QED  BY <1>4, <3>3, Zenon
  <2> QED  BY <2>1, <2>2, Zenon DEF WillBeLit, q
<1> QED  BY <1>5, <1>6

(* Nothing is on its way that puts the lamp out, and it is lit. *)
LEMMA WillBeLitQuiet ==
  ASSUME NEW queue, NEW m, NEW lit, NEW off, m.data \in lit,
         \A n \in DOMAIN queue : ~(queue[n].type = off /\ queue[n].data = m.data)
  PROVE  WillBeLit(m, lit, queue, off)
BY Zenon DEF WillBeLit

LEMMA LampMessages ==
  /\ \A k : /\ HallLamp(k).type = "TIPKE_PALI_LAMPICU" /\ HallLamp(k).lift = 0
            /\ HallLamp(k).data = k
            /\ HallLamp(k).type # "TIPKE_GASI_LAMPICU"
            /\ HallLamp(k).type # "LIFT_PALI_LAMPICU"
  /\ \A i, f : /\ CabinLamp(i, f).type = "LIFT_PALI_LAMPICU"
               /\ CabinLamp(i, f).lift = i /\ CabinLamp(i, f).data = f
               /\ CabinLamp(i, f).type # "LIFT_GASI_LAMPICU"
               /\ CabinLamp(i, f).type # "TIPKE_PALI_LAMPICU"
BY DEF HallLamp, CabinLamp, Msg
(* upr() knows of no open door of a lift that has never moved: such a lift    *)
(* would have the lamp UP put out and no call cleared.                        *)
NoneOpensUnmoved == \A i \in Lifts : DoorOpen(i) => current[i].direction # D_STOJI

(* What a round of upr() does not forget, it does not put out. *)
LEMMA RoundKeepsHallLamp ==
  ASSUME IInv, HallOK, NoneOpensUnmoved, NEW k \in Keys, CallAfter(k) # 0
  PROVE  /\ tipke_na_katu[k] # 0
         /\ \A n \in DOMAIN HallLampsOut : HallLampsOut[n].data # k
<1>1. /\ tipke_na_katu[k] # 0
      /\ \A i \in Lifts : DoorOpen(i) => CallServed(i) # k
  BY DEF CallAfter, Assigned
<1>2. ASSUME NEW i \in Lifts, DoorOpen(i) PROVE LampServed(i) # k
  <2>1. current[i].direction \in {D_UP, D_DOWN}
    BY <1>2 DEF IInv, Known, Directions, NoneOpensUnmoved
  <2>2. LampServed(i) = CallServed(i)
    BY <2>1 DEF LampServed, CallServed, D_UP, D_DOWN
  <2> QED  BY <1>1, <1>2, <2>2
<1>3. ASSUME NEW n \in DOMAIN HallLampsOut
      PROVE  HallLampsOut[n].data # k
  <2>1. PICK i \in Lifts : /\ DoorOpen(i)
                           /\ HallLampsOut[n] = Msg("TIPKE_GASI_LAMPICU", i, LampServed(i))
    BY HallLampsType
  <2> QED  BY <1>2, <2>1 DEF Msg
<1> QED  BY <1>1, <1>3

LEMMA RoundKeepsCabinLamp ==
  ASSUME IInv, NEW i \in Lifts, NEW want \in SUBSET Floors,
         NEW f \in Kept(i, tipke_u_liftu[i])
  PROVE  LET q == LampsOut(i) \o CommandSent(i, want) \o <<Action(i, A_LIFT_STATUS)>>
         IN  /\ f \in tipke_u_liftu[i]
             /\ \A n \in DOMAIN q : ~(q[n].type = "LIFT_GASI_LAMPICU" /\ q[n].data = f)
<1> DEFINE Other == {m \in LiftMessages : ~(m.type = "LIFT_GASI_LAMPICU" /\ m.data = f)}
           q == LampsOut(i) \o CommandSent(i, want) \o <<Action(i, A_LIFT_STATUS)>>
<1>1. f \in tipke_u_liftu[i] /\ (DoorOpen(i) => f # current[i].floor)
  BY DEF Kept
<1>2. LampsOut(i) \in Seq(Other)
  <2>1. ASSUME DoorOpen(i)
        PROVE  Msg("LIFT_GASI_LAMPICU", i, current[i].floor) \in Other
    <3>1. current[i].floor \in Floors
      BY DEF IInv, Known
    <3>2. Msg("LIFT_GASI_LAMPICU", i, current[i].floor) \in LiftMessages
      BY <3>1, MessagesMade
    <3> QED  BY <1>1, <2>1, <3>2 DEF Msg
  <2>2. DoorOpen(i) => <<Msg("LIFT_GASI_LAMPICU", i, current[i].floor)>> \in Seq(Other)
    BY <2>1
  <2> HIDE DEF Other
  <2> QED  BY <2>2, EmptySeq DEF LampsOut
<1>3. CommandSent(i, want) \in Seq(Other)
  <2>1. CASE Due(i, want) = {}
    BY <2>1, EmptySeq DEF CommandSent
  <2>2. CASE Due(i, want) # {}
    <3> DEFINE e == CHOOSE e \in Due(i, want) : TRUE
    <3>1. e \in Due(i, want) /\ CommandSent(i, want) = <<Action(i, e.action)>>
      BY <2>2 DEF CommandSent
    <3> HIDE DEF e
    <3>2. e.action \in Commands
      BY <3>1, TableType DEF Due, Entries
    <3>3. Action(i, e.action) \in Other
      BY <3>2, MessagesMade DEF Action, Msg
    <3> HIDE DEF Other
    <3> QED  BY <3>1, <3>3
  <2> QED  BY <2>1, <2>2
<1>4. <<Action(i, A_LIFT_STATUS)>> \in Seq(Other)
  <2>1. Action(i, A_LIFT_STATUS) \in LiftMessages
    BY MessagesMade
  <2>2. Action(i, A_LIFT_STATUS) \in Other
    BY <2>1 DEF Action, Msg
  <2> QED  BY <2>2
<1> HIDE DEF Other
<1>5. q \in Seq(Other)
  BY <1>2, <1>3, <1>4, ConcatProperties
<1> HIDE DEF q
<1>6. ASSUME NEW n \in DOMAIN q PROVE q[n] \in Other
  BY <1>5, ElementOfSeq, LenProperties
<1>7. \A m \in Other : ~(m.type = "LIFT_GASI_LAMPICU" /\ m.data = f)
  BY DEF Other
<1> QED  BY <1>1, <1>6, <1>7 DEF q

LEMMA UprRoundLamps ==
  ASSUME IInv, HallOK, NoneOpensUnmoved, UprRound, HallLampsFollow, CabinLampsFollow
  PROVE  HallLampsFollow' /\ CabinLampsFollow'
<1>1. /\ \A i \in Lifts : to_lift[i] = <<>>
      /\ to_tipke = <<>>
      /\ UNCHANGED <<car, status, to_send, hall_status>>
      /\ tipke_na_katu' = [k \in Keys |-> CallAfter(k)]
      /\ tipke_u_liftu' = [i \in Lifts |-> Kept(i, tipke_u_liftu[i])]
      /\ to_tipke' = HallLampsOut
      /\ to_lift' = [i \in Lifts |-> LampsOut(i) \o CommandSent(i, Wanted(i))
                                       \o <<Action(i, A_LIFT_STATUS)>>]
  BY DEF UprRound, Answered, liftVars
<1>2. \A m, lit, off : WillBeLit(m, lit, <<>>, off) => m.data \in lit
  BY DEF WillBeLit
<1>3. ASSUME NEW k \in Keys, tipke_na_katu'[k] # 0 PROVE HallLampFollows(k)'
  <2>1. CallAfter(k) # 0
    BY <1>1, <1>3
  <2>2. /\ tipke_na_katu[k] # 0
        /\ \A n \in DOMAIN to_tipke' : to_tipke'[n].data # k
    BY <1>1, <2>1, RoundKeepsHallLamp
  <2>3. to_send = <<HallLamp(k)>> \/ k \in hall_status
    BY <1>1, <1>2, <2>2, LampMessages DEF HallLampsFollow, HallLampFollows
  <2>4. k \in hall_status =>
          WillBeLit(HallLamp(k), hall_status', to_tipke', "TIPKE_GASI_LAMPICU")
    BY <1>1, <2>2, LampMessages, WillBeLitQuiet
  <2> QED  BY <1>1, <2>3, <2>4 DEF HallLampFollows
<1>4. ASSUME NEW i \in Lifts, Running(car'[i]), NEW f \in tipke_u_liftu'[i]
      PROVE  CabinLampFollows(i, f)'
  <2>1. f \in Kept(i, tipke_u_liftu[i]) /\ Running(car[i])
    BY <1>1, <1>4
  <2>2. /\ f \in tipke_u_liftu[i]
        /\ \A n \in DOMAIN to_lift'[i] :
             ~(to_lift'[i][n].type = "LIFT_GASI_LAMPICU" /\ to_lift'[i][n].data = f)
    BY <1>1, <2>1, WantedType, RoundKeepsCabinLamp
  <2>3. to_send = <<CabinLamp(i, f)>> \/ f \in status[i]
    <3>1. \/ to_send = <<CabinLamp(i, f)>>
          \/ WillBeLit(CabinLamp(i, f), status[i], to_lift[i], "LIFT_GASI_LAMPICU")
      BY <2>1, <2>2 DEF CabinLampsFollow, CabinLampFollows
    <3>2. to_lift[i] = <<>> /\ CabinLamp(i, f).data = f
      BY <1>1, LampMessages
    <3> QED  BY <1>2, <3>1, <3>2
  <2>4. f \in status[i] =>
          WillBeLit(CabinLamp(i, f), status'[i], to_lift'[i], "LIFT_GASI_LAMPICU")
    <3>1. status'[i] = status[i] /\ CabinLamp(i, f).data = f
      BY <1>1, LampMessages
    <3> QED  BY <2>2, <3>1, WillBeLitQuiet, Zenon
  <2> QED  BY <1>1, <2>3, <2>4 DEF CabinLampFollows
<1> QED  BY <1>3, <1>4 DEF HallLampsFollow, CabinLampsFollow
LEMMA UprListenerLamps ==
  ASSUME IInv, HallOK, UprListener, HallLampsFollow, CabinLampsFollow
  PROVE  HallLampsFollow' /\ CabinLampsFollow'
<1>1. CASE HallKey
  <2> DEFINE h == Head(to_upr).data
  <2>1. h \in Keys /\ Head(to_upr).lift = 0
    BY <1>1, ReceiveType, MessageTypes DEF HallKey
  <2>2. /\ to_send = <<>> /\ to_send' = <<HallLamp(h)>>
        /\ tipke_na_katu' = [tipke_na_katu EXCEPT ![h] = 1]
        /\ UNCHANGED <<car, status, tipke_u_liftu, hall_status, to_lift, to_tipke>>
    BY <1>1, <2>1 DEF HallKey, HallLamp, liftVars
  <2>3. ASSUME NEW k \in Keys, tipke_na_katu'[k] # 0 PROVE HallLampFollows(k)'
    <3>1. CASE k = h
      BY <2>2, <3>1 DEF HallLampFollows
    <3>2. CASE k # h
      <4>1. tipke_na_katu[k] # 0
        BY <2>1, <2>2, <2>3, <3>2 DEF HallOK
      <4>2. WillBeLit(HallLamp(k), hall_status, to_tipke, "TIPKE_GASI_LAMPICU")
        BY <2>2, <4>1 DEF HallLampsFollow, HallLampFollows
      <4> QED  BY <2>2, <4>2 DEF HallLampFollows
    <3> QED  BY <3>1, <3>2
  <2>4. ASSUME NEW i \in Lifts, Running(car'[i]), NEW f \in tipke_u_liftu'[i]
        PROVE  CabinLampFollows(i, f)'
    <3>1. WillBeLit(CabinLamp(i, f), status[i], to_lift[i], "LIFT_GASI_LAMPICU")
      BY <2>2, <2>4 DEF CabinLampsFollow, CabinLampFollows
    <3> QED  BY <2>2, <3>1 DEF CabinLampFollows
  <2> QED  BY <2>3, <2>4 DEF HallLampsFollow, CabinLampsFollow
<1>2. CASE CabinKey
  <2> DEFINE m == Head(to_upr)
  <2>1. m.lift \in Lifts
    BY <1>2, ReceiveType, MessageTypes DEF CabinKey
  <2>2. /\ to_send = <<>> /\ to_send' = <<CabinLamp(m.lift, m.data)>>
        /\ tipke_u_liftu' = [tipke_u_liftu EXCEPT ![m.lift] = @ \cup {m.data}]
        /\ UNCHANGED <<car, status, tipke_na_katu, hall_status, to_lift, to_tipke>>
    BY <1>2 DEF CabinKey, CabinLamp, liftVars
  <2>3. ASSUME NEW k \in Keys, tipke_na_katu'[k] # 0 PROVE HallLampFollows(k)'
    <3>1. WillBeLit(HallLamp(k), hall_status, to_tipke, "TIPKE_GASI_LAMPICU")
      BY <2>2, <2>3 DEF HallLampsFollow, HallLampFollows
    <3> QED  BY <2>2, <3>1 DEF HallLampFollows
  <2>4. ASSUME NEW i \in Lifts, Running(car'[i]), NEW f \in tipke_u_liftu'[i]
        PROVE  CabinLampFollows(i, f)'
    <3>1. CASE i = m.lift /\ f = m.data
      BY <2>2, <3>1 DEF CabinLampFollows
    <3>2. CASE ~(i = m.lift /\ f = m.data)
      <4>1. f \in tipke_u_liftu[i]
        BY <2>1, <2>2, <2>4, <3>2 DEF IInv
      <4>2. WillBeLit(CabinLamp(i, f), status[i], to_lift[i], "LIFT_GASI_LAMPICU")
        BY <2>2, <2>4, <4>1 DEF CabinLampsFollow, CabinLampFollows
      <4> QED  BY <2>2, <4>2 DEF CabinLampFollows
    <3> QED  BY <3>1, <3>2
  <2> QED  BY <2>3, <2>4 DEF HallLampsFollow, CabinLampsFollow
<1>3. CASE SendLamp
  <2> DEFINE m == Head(to_send)
  <2>1. m \in LampsToLight /\ to_send = <<m>> /\ to_send' = <<>>
    BY <1>3 DEF SendLamp, IInv
  <2>2. UNCHANGED <<car, status, tipke_u_liftu, tipke_na_katu, hall_status>>
    BY <1>3 DEF SendLamp, liftVars
  <2>3. CASE m.type = "LIFT_PALI_LAMPICU"
    <3>1. m.lift \in Lifts /\ m \in LiftMessages
      BY <2>1, <2>3, MessageTypes
    <3>2. to_lift' = [to_lift EXCEPT ![m.lift] = Append(@, m)] /\ to_tipke' = to_tipke
      BY <1>3, <2>3 DEF SendLamp
    <3>3. ASSUME NEW k \in Keys, tipke_na_katu'[k] # 0 PROVE HallLampFollows(k)'
      <4>1. HallLampFollows(k) /\ to_send # <<HallLamp(k)>>
        BY <2>1, <2>2, <2>3, <3>3, LampMessages DEF HallLampsFollow
      <4> QED  BY <2>2, <3>2, <4>1 DEF HallLampFollows
    <3>4. ASSUME NEW i \in Lifts, Running(car'[i]), NEW f \in tipke_u_liftu'[i]
          PROVE  CabinLampFollows(i, f)'
      <4>1. CabinLampFollows(i, f)
        BY <2>2, <3>4 DEF CabinLampsFollow
      <4>2. \/ m = CabinLamp(i, f)
            \/ WillBeLit(CabinLamp(i, f), status[i], to_lift[i], "LIFT_GASI_LAMPICU")
        BY <2>1, <4>1 DEF CabinLampFollows
      <4>3. to_lift[i] \in Seq(LiftMessages)
        BY DEF IInv
      <4>4. m.type # "LIFT_GASI_LAMPICU"
        BY <2>3
      <4>5. WillBeLit(CabinLamp(i, f), status[i], Append(to_lift[i], m), "LIFT_GASI_LAMPICU")
        BY <3>1, <4>2, <4>3, <4>4, LampMessages, WillBeLitAppend
      <4>6. CASE i = m.lift
        <5>1. to_lift'[i] = Append(to_lift[i], m)
          BY <3>1, <3>2, <4>6 DEF IInv
        <5> QED  BY <2>2, <4>5, <5>1 DEF CabinLampFollows
      <4>7. CASE i # m.lift
        <5>1. to_lift'[i] = to_lift[i] /\ m # CabinLamp(i, f)
          BY <3>1, <3>2, <4>7, LampMessages DEF IInv
        <5> QED  BY <2>2, <4>2, <5>1 DEF CabinLampFollows
      <4> QED  BY <4>6, <4>7
    <3> QED  BY <3>3, <3>4 DEF HallLampsFollow, CabinLampsFollow
  <2>4. CASE m.type # "LIFT_PALI_LAMPICU"
    <3>1. m \in TipkeMessages /\ m.type # "TIPKE_GASI_LAMPICU"
      BY <2>1, <2>4, MessageTypes DEF Msg
    <3>2. to_lift' = to_lift /\ to_tipke' = Append(to_tipke, m)
      BY <1>3, <2>4 DEF SendLamp
    <3>3. ASSUME NEW k \in Keys, tipke_na_katu'[k] # 0 PROVE HallLampFollows(k)'
      <4>1. HallLampFollows(k)
        BY <2>2, <3>3 DEF HallLampsFollow
      <4>2. \/ m = HallLamp(k)
            \/ WillBeLit(HallLamp(k), hall_status, to_tipke, "TIPKE_GASI_LAMPICU")
        BY <2>1, <4>1 DEF HallLampFollows
      <4>3. to_tipke \in Seq(TipkeMessages)
        BY DEF HallOK
      <4>4. WillBeLit(HallLamp(k), hall_status, Append(to_tipke, m), "TIPKE_GASI_LAMPICU")
        BY <3>1, <4>2, <4>3, LampMessages, WillBeLitAppend
      <4> QED  BY <2>2, <3>2, <4>4 DEF HallLampFollows
    <3>4. ASSUME NEW i \in Lifts, Running(car'[i]), NEW f \in tipke_u_liftu'[i]
          PROVE  CabinLampFollows(i, f)'
      <4>1. CabinLampFollows(i, f) /\ to_send # <<CabinLamp(i, f)>>
        BY <2>1, <2>2, <2>4, <3>4, LampMessages DEF CabinLampsFollow
      <4> QED  BY <2>2, <3>2, <4>1 DEF CabinLampFollows
    <3> QED  BY <3>3, <3>4 DEF HallLampsFollow, CabinLampsFollow
  <2> QED  BY <2>3, <2>4
<1>4. CASE Report
  BY <1>4 DEF Report, liftVars, HallLampsFollow, CabinLampsFollow, HallLampFollows,
              CabinLampFollows
<1>5. CASE Stop
  <2> DEFINE s == Head(to_upr).lift
             a == Action(s, A_LIFT_STANI)
  <2>1. s \in Lifts /\ a \in LiftMessages /\ a.type # "LIFT_GASI_LAMPICU"
    <3>1. s \in Lifts
      BY <1>5, ReceiveType, MessageTypes DEF Stop
    <3>2. a \in LiftMessages
      BY <3>1, MessagesMade DEF Commands, QueuedActions
    <3> QED  BY <3>1, <3>2 DEF Action, Msg
  <2>2. /\ to_send = <<>>
        /\ to_lift' = [to_lift EXCEPT ![s] = Append(@, a)]
        /\ UNCHANGED <<car, status, tipke_u_liftu, tipke_na_katu, to_send, hall_status,
                       to_tipke>>
    BY <1>5 DEF Stop, liftVars, uprVars
  <2> HIDE DEF a
  <2>3. HallLampsFollow'
    BY <2>2 DEF HallLampsFollow, HallLampFollows
  <2>4. ASSUME NEW i \in Lifts, Running(car'[i]), NEW f \in tipke_u_liftu'[i]
        PROVE  CabinLampFollows(i, f)'
    <3>1. WillBeLit(CabinLamp(i, f), status[i], to_lift[i], "LIFT_GASI_LAMPICU")
      BY <2>2, <2>4 DEF CabinLampsFollow, CabinLampFollows
    <3>2. CASE i = s
      <4>1. to_lift'[i] = Append(to_lift[i], a) /\ to_lift[i] \in Seq(LiftMessages)
        BY <2>1, <2>2, <3>2 DEF IInv
      <4>2. WillBeLit(CabinLamp(i, f), status[i], Append(to_lift[i], a), "LIFT_GASI_LAMPICU")
        BY <2>1, <3>1, <4>1, LampMessages, WillBeLitAppend
      <4> QED  BY <2>2, <4>1, <4>2 DEF CabinLampFollows
    <3>3. CASE i # s
      <4>1. to_lift'[i] = to_lift[i]
        BY <2>1, <2>2, <3>3 DEF IInv
      <4> QED  BY <2>2, <3>1, <4>1 DEF CabinLampFollows
    <3> QED  BY <3>2, <3>3
  <2> QED  BY <2>3, <2>4 DEF CabinLampsFollow
<1> QED  BY <1>1, <1>2, <1>3, <1>4, <1>5 DEF UprListener
LEMMA TipkeListenerLamps ==
  ASSUME IInv, HallOK, TipkeListener, HallLampsFollow, CabinLampsFollow
  PROVE  HallLampsFollow' /\ CabinLampsFollow'
<1> DEFINE m == Head(to_tipke)
<1>1. /\ to_tipke # <<>> /\ to_tipke' = Tail(to_tipke)
      /\ hall_status' = IF m.type = "TIPKE_PALI_LAMPICU" THEN hall_status \cup {m.data}
                        ELSE hall_status \ {m.data}
      /\ UNCHANGED <<car, status, tipke_u_liftu, tipke_na_katu, to_send, to_lift>>
  BY DEF TipkeListener, liftVars, uprVars
<1>2. /\ to_tipke \in Seq(TipkeMessages)
      /\ m.type \in {"TIPKE_PALI_LAMPICU", "TIPKE_GASI_LAMPICU"}
  <2>1. to_tipke \in Seq(TipkeMessages)
    BY DEF HallOK
  <2>2. m \in TipkeMessages
    BY <1>1, <2>1, HeadTailProperties
  <2> QED  BY <2>1, <2>2 DEF TipkeMessages
<1>3. CabinLampsFollow'
  BY <1>1 DEF CabinLampsFollow, CabinLampFollows
<1> HIDE DEF m
<1>4. ASSUME NEW k \in Keys, tipke_na_katu'[k] # 0 PROVE HallLampFollows(k)'
  <2>1. CASE to_send = <<HallLamp(k)>>
    BY <1>1, <2>1 DEF HallLampFollows
  <2>2. CASE to_send # <<HallLamp(k)>>
    <3>1. WillBeLit(HallLamp(k), hall_status, to_tipke, "TIPKE_GASI_LAMPICU")
      BY <1>1, <1>4, <2>2 DEF HallLampsFollow, HallLampFollows
    <3>2. k \in hall_status => \/ k \in hall_status'
                               \/ m.type = "TIPKE_GASI_LAMPICU" /\ m.data = k
      BY <1>1, <1>2
    <3>3. m = HallLamp(k) => k \in hall_status'
      BY <1>1, LampMessages
    <3>4. WillBeLit(HallLamp(k), hall_status', Tail(to_tipke), "TIPKE_GASI_LAMPICU")
      BY <1>1, <1>2, <3>1, <3>2, <3>3, LampMessages, WillBeLitTail DEF m
    <3> QED  BY <1>1, <3>4 DEF HallLampFollows
  <2> QED  BY <2>1, <2>2
<1> QED  BY <1>3, <1>4 DEF HallLampsFollow

(* A lift takes a datagram from its socket: a lamp, or something else. *)
LEMMA TakeLamps ==
  ASSUME IInv, HallLampsFollow, CabinLampsFollow, NEW i \in Lifts, NEW type,
         TakeFrom(i, type),
         UNCHANGED <<tipke_u_liftu, tipke_na_katu, to_send, hall_status, to_tipke>>,
         \A j \in Lifts : Running(car'[j]) => Running(car[j]),
         status' = IF type = "LIFT_PALI_LAMPICU"
                   THEN [status EXCEPT ![i] = @ \cup {Head(to_lift[i]).data}]
                   ELSE IF type = "LIFT_GASI_LAMPICU"
                        THEN [status EXCEPT ![i] = @ \ {Head(to_lift[i]).data}]
                        ELSE status
  PROVE  HallLampsFollow' /\ CabinLampsFollow'
<1> DEFINE m == Head(to_lift[i])
<1>1. /\ to_lift[i] # <<>> /\ m.type = type
      /\ to_lift' = [to_lift EXCEPT ![i] = Tail(@)]
      /\ to_lift[i] \in Seq(LiftMessages)
  BY DEF TakeFrom, IInv
<1>2. HallLampsFollow'
  BY DEF HallLampsFollow, HallLampFollows
<1> HIDE DEF m
<1>3. ASSUME NEW j \in Lifts, Running(car'[j]), NEW f \in tipke_u_liftu'[j]
      PROVE  CabinLampFollows(j, f)'
  <2>1. CabinLampFollows(j, f)
    BY <1>3 DEF CabinLampsFollow
  <2>2. CASE to_send = <<CabinLamp(j, f)>>
    BY <2>2 DEF CabinLampFollows
  <2>3. CASE to_send # <<CabinLamp(j, f)>> /\ j # i
    <3>1. to_lift'[j] = to_lift[j] /\ status'[j] = status[j]
      BY <1>1, <2>3 DEF IInv
    <3> QED  BY <2>1, <2>3, <3>1 DEF CabinLampFollows
  <2>4. CASE to_send # <<CabinLamp(j, f)>> /\ j = i
    <3>1. WillBeLit(CabinLamp(i, f), status[i], to_lift[i], "LIFT_GASI_LAMPICU")
      BY <2>1, <2>4 DEF CabinLampFollows
    <3>2. to_lift'[i] = Tail(to_lift[i])
      BY <1>1 DEF IInv
    <3>3. status'[i] = IF type = "LIFT_PALI_LAMPICU" THEN status[i] \cup {m.data}
                       ELSE IF type = "LIFT_GASI_LAMPICU" THEN status[i] \ {m.data}
                            ELSE status[i]
      <4>1. CASE type = "LIFT_PALI_LAMPICU"
        <5>1. status' = [status EXCEPT ![i] = @ \cup {m.data}]
          BY <4>1 DEF m
        <5> QED  BY <4>1, <5>1 DEF IInv
      <4>2. CASE type = "LIFT_GASI_LAMPICU"
        <5>1. status' = [status EXCEPT ![i] = @ \ {m.data}]
          BY <4>2 DEF m
        <5> QED  BY <4>2, <5>1 DEF IInv
      <4>3. CASE type \notin {"LIFT_PALI_LAMPICU", "LIFT_GASI_LAMPICU"}
        BY <4>3
      <4> QED  BY <4>1, <4>2, <4>3
    <3>4. f \in status[i] => \/ f \in status'[i]
                             \/ m.type = "LIFT_GASI_LAMPICU" /\ m.data = f
      <4>1. type = "LIFT_PALI_LAMPICU" => status'[i] = status[i] \cup {m.data}
        BY <3>3
      <4>2. type = "LIFT_GASI_LAMPICU" => status'[i] = status[i] \ {m.data}
        BY <3>3
      <4>3. type \notin {"LIFT_PALI_LAMPICU", "LIFT_GASI_LAMPICU"} => status'[i] = status[i]
        BY <3>3
      <4>4. m.type = type
        BY <1>1
      <4> QED  BY <4>1, <4>2, <4>3, <4>4
    <3>5. m = CabinLamp(i, f) => f \in status'[i]
      BY <1>1, <3>3, LampMessages
    <3>6. WillBeLit(CabinLamp(i, f), status'[i], Tail(to_lift[i]), "LIFT_GASI_LAMPICU")
      BY <1>1, <3>1, <3>4, <3>5, LampMessages, WillBeLitTail DEF m
    <3> QED  BY <2>4, <3>2, <3>6 DEF CabinLampFollows
  <2> QED  BY <2>2, <2>3, <2>4
<1> QED  BY <1>2, <1>3 DEF CabinLampsFollow

LEMMA LiftLamps ==
  ASSUME IInv, HallLampsFollow, CabinLampsFollow, NEW i \in Lifts,
         LiftRound(i) \/ LiftListener(i)
  PROVE  HallLampsFollow' /\ CabinLampsFollow'
<1>1. CASE LiftRound(i)
  <2>1. /\ Running(car[i]) /\ car' = [car EXCEPT ![i] = Round(@)]
        /\ UNCHANGED <<status, tipke_u_liftu, tipke_na_katu, to_send, hall_status,
                       to_lift, to_tipke>>
    BY <1>1 DEF LiftRound, uprVars, netVars
  <2>2. \A j \in Lifts : Running(car'[j]) => Running(car[j])
    BY <2>1 DEF IInv
  <2> QED  BY <2>1, <2>2 DEF HallLampsFollow, CabinLampsFollow, HallLampFollows,
                             CabinLampFollows
<1>2. CASE LiftLamp(i)
  <2>1. UNCHANGED <<car, tipke_u_liftu, tipke_na_katu, to_send, hall_status, to_tipke>>
    BY <1>2 DEF LiftLamp, uprVars
  <2>2. PICK type \in {"LIFT_PALI_LAMPICU", "LIFT_GASI_LAMPICU"} :
          /\ TakeFrom(i, type)
          /\ status' = IF type = "LIFT_PALI_LAMPICU"
                       THEN [status EXCEPT ![i] = @ \cup {Head(to_lift[i]).data}]
                       ELSE [status EXCEPT ![i] = @ \ {Head(to_lift[i]).data}]
    BY <1>2 DEF LiftLamp
  <2> QED  BY <2>1, <2>2, TakeLamps
<1>3. CASE LiftAction(i)
  <2>1. /\ TakeFrom(i, "LIFT_ACTION_START") /\ Running(car[i])
        /\ car' = [car EXCEPT ![i] = TakeAction(@, Head(to_lift[i]).data)]
        /\ UNCHANGED <<status, tipke_u_liftu, tipke_na_katu, to_send, hall_status, to_tipke>>
    BY <1>3 DEF LiftAction, TakeFrom, uprVars
  <2>2. \A j \in Lifts : Running(car'[j]) => Running(car[j])
    BY <2>1 DEF IInv
  <2> QED  BY <2>1, <2>2, TakeLamps
<1>4. CASE LiftStatus(i)
  <2>1. /\ TakeFrom(i, "LIFT_ACTION_START")
        /\ UNCHANGED <<car, status, tipke_u_liftu, tipke_na_katu, to_send, hall_status,
                       to_tipke>>
    BY <1>4 DEF LiftStatus, liftVars, uprVars
  <2> QED  BY <2>1, TakeLamps
<1>5. CASE LiftGone(i)
  <2>1. /\ ~Running(car[i]) /\ to_lift' = [to_lift EXCEPT ![i] = <<>>]
        /\ UNCHANGED <<car, status, tipke_u_liftu, tipke_na_katu, to_send, hall_status,
                       to_tipke>>
    BY <1>5 DEF LiftGone, liftVars, uprVars
  <2>2. \A j \in Lifts : Running(car[j]) => to_lift'[j] = to_lift[j]
    BY <2>1 DEF IInv
  <2> QED  BY <2>1, <2>2 DEF HallLampsFollow, CabinLampsFollow, HallLampFollows,
                             CabinLampFollows
<1> QED  BY <1>1, <1>2, <1>3, <1>4, <1>5 DEF LiftListener

LEMMA NextLamps ==
  ASSUME IInv, HallOK, losses = 0 => NoneOpensUnmoved, LampsFollow, [Next]_vars
  PROVE  LampsFollow'
<1> SUFFICES ASSUME losses' = 0 PROVE HallLampsFollow' /\ CabinLampsFollow'
  BY DEF LampsFollow
<1>1. CASE Lose
  BY <1>1 DEF Lose, HallOK
<1> SUFFICES ASSUME ~Lose PROVE HallLampsFollow' /\ CabinLampsFollow'
  BY <1>1
<1>2. losses' = losses
  BY DEF Next, Program, UprRound, UprListener, HallKey, CabinKey, SendLamp, Report,
         Stop, TipkeListener, LiftRound, LiftListener, LiftLamp, LiftAction,
         LiftStatus, LiftGone, Passengers, PressStop, PressCabin, PressHall, Send,
         bounds, vars
<1>3. HallLampsFollow /\ CabinLampsFollow /\ NoneOpensUnmoved
  BY <1>2 DEF LampsFollow
<1>4. CASE Passengers
  <2>1. UNCHANGED <<liftVars, uprVars, hall_status, to_lift, to_tipke>>
    BY <1>4 DEF Passengers, PressStop, PressCabin, PressHall, Send
  <2> QED  BY <1>3, <2>1 DEF liftVars, uprVars, HallLampsFollow, CabinLampsFollow,
                             HallLampFollows, CabinLampFollows
<1>5. CASE UNCHANGED vars
  BY <1>3, <1>5 DEF vars, liftVars, uprVars, netVars, HallLampsFollow, CabinLampsFollow,
                    HallLampFollows, CabinLampFollows
<1> QED  BY <1>3, <1>4, <1>5, UprRoundLamps, UprListenerLamps, TipkeListenerLamps,
            LiftLamps DEF Next, Program

------------------------------------------------------------------------------
(* What upr knows of a lift is old: the report was written before the round   *)
(* that uses it.  With two rounds of upr() to a round of lift() it is at most *)
(* one round of lift() old when upr() decides, even if a datagram is lost.    *)

(* The door is open where the car says so, and the car is between two floors  *)
(* only while it travels, or when it was stopped for good.                    *)
Sound(c) ==
  /\ c.state \in {S_STOJI_OTVOREN, S_ZATVARA_VRATA} => c.door = V_OTVORENA
  /\ c.im_floor # 0 => c.state \in MovingStates \cup {S_STOJI}

SoundCars == {c \in SafeCars : Sound(c)}

(* The command c.action changes what is seen of car c into what is seen of d. *)
Obeys(c, d) ==
  \/ d.state = c.state /\ d.direction = c.direction
  \/ /\ c.state = S_STOJI_ZATVOREN
     /\ \/ c.action = A_LIFT_GORE /\ d.state = S_IDE_GORE /\ d.direction = D_UP
        \/ c.action = A_LIFT_DOLE /\ d.state = S_IDE_DOLE /\ d.direction = D_DOWN
        \/ /\ c.action = A_LIFT_OTVORI
           /\ d.state = S_OTVARA_VRATA /\ d.direction = c.direction
  \/ /\ c.state = S_STOJI_OTVOREN
     /\ d.state = S_ZATVARA_VRATA /\ d.direction = c.direction

LEMMA ExecuteFields ==
  ASSUME NEW c \in Cars, c.action \in QueuedActions, NEW d, d = Execute(c)
  PROVE  /\ d.floor = c.floor /\ d.im_floor = c.im_floor
         /\ d.door = c.door /\ d.stop = c.stop
         /\ d.action = A_OBRADENO
         /\ d.state = S_STOJI \/ Obeys(c, d)
         /\ d.direction = c.direction \/ Obeys(c, d)
<1> DEFINE x == IF Carries(c) THEN Command(c) ELSE c
<1>1. d = [x EXCEPT !.action = A_OBRADENO]
  BY DEF Execute
<1>2. /\ x \in Cars
      /\ x.floor = c.floor /\ x.im_floor = c.im_floor
      /\ x.door = c.door /\ x.stop = c.stop
      /\ x.state = S_STOJI \/ Obeys(c, x)
      /\ x.direction = c.direction \/ Obeys(c, x)
  <2>1. CASE ~Carries(c)
    BY <2>1 DEF Obeys
  <2>2. CASE Carries(c)
    <3>1. x = Command(c)
      BY <2>2
    <3> HIDE DEF x
    <3>2. CASE c.action = A_LIFT_GORE
      <4>1. x = [c EXCEPT !.direction = D_UP, !.state = S_IDE_GORE]
        BY <3>1, <3>2 DEF Command, A_LIFT_GORE, A_LIFT_DOLE, A_LIFT_OTVORI,
                          A_LIFT_ZATVORI
      <4>2. c.state = S_STOJI_ZATVOREN
        BY <2>2, <3>2 DEF Carries, A_LIFT_GORE, A_LIFT_DOLE, A_LIFT_OTVORI,
                          A_LIFT_ZATVORI
      <4> QED  BY <3>2, <4>1, <4>2 DEF Cars, Directions, LiftStates, MovingStates, Obeys
    <3>3. CASE c.action = A_LIFT_DOLE
      <4>1. x = [c EXCEPT !.direction = D_DOWN, !.state = S_IDE_DOLE]
        BY <3>1, <3>3 DEF Command, A_LIFT_GORE, A_LIFT_DOLE, A_LIFT_OTVORI,
                          A_LIFT_ZATVORI
      <4>2. c.state = S_STOJI_ZATVOREN
        BY <2>2, <3>3 DEF Carries, A_LIFT_GORE, A_LIFT_DOLE, A_LIFT_OTVORI,
                          A_LIFT_ZATVORI
      <4> QED  BY <3>3, <4>1, <4>2 DEF Cars, Directions, LiftStates, MovingStates, Obeys
    <3>4. CASE c.action = A_LIFT_OTVORI
      <4>1. x = [c EXCEPT !.state = S_OTVARA_VRATA]
        BY <3>1, <3>4 DEF Command, A_LIFT_GORE, A_LIFT_DOLE, A_LIFT_OTVORI,
                          A_LIFT_ZATVORI
      <4>2. c.state = S_STOJI_ZATVOREN
        BY <2>2, <3>4 DEF Carries, A_LIFT_GORE, A_LIFT_DOLE, A_LIFT_OTVORI,
                          A_LIFT_ZATVORI
      <4> QED  BY <3>4, <4>1, <4>2 DEF Cars, LiftStates, DoorStates, Obeys
    <3>5. CASE c.action = A_LIFT_ZATVORI
      <4>1. x = [c EXCEPT !.state = S_ZATVARA_VRATA]
        BY <3>1, <3>5 DEF Command, A_LIFT_GORE, A_LIFT_DOLE, A_LIFT_OTVORI,
                          A_LIFT_ZATVORI
      <4>2. c.state = S_STOJI_OTVOREN
        BY <2>2, <3>5 DEF Carries, A_LIFT_GORE, A_LIFT_DOLE, A_LIFT_OTVORI,
                          A_LIFT_ZATVORI
      <4> QED  BY <3>5, <4>1, <4>2 DEF Cars, LiftStates, DoorStates, Obeys
    <3>6. CASE c.action = A_LIFT_STANI
      <4>1. x = [c EXCEPT !.state = S_STOJI]
        BY <3>1, <3>6 DEF Command, A_LIFT_GORE, A_LIFT_DOLE, A_LIFT_OTVORI,
                          A_LIFT_ZATVORI, A_LIFT_STANI
      <4> QED  BY <4>1 DEF Cars, LiftStates
    <3> QED  BY <3>2, <3>3, <3>4, <3>5, <3>6, Zenon DEF QueuedActions
  <2> QED  BY <2>1, <2>2
<1> HIDE DEF x
<1>3. /\ d.floor = x.floor /\ d.im_floor = x.im_floor
      /\ d.door = x.door /\ d.stop = x.stop /\ d.state = x.state
      /\ d.direction = x.direction /\ d.action = A_OBRADENO
  BY <1>1, <1>2 DEF Cars
<1> QED  BY <1>2, <1>3 DEF Obeys

(* What a round of lift() may do to what others see of the car. *)
LEMMA RoundFields ==
  ASSUME NEW c \in SoundCars, Running(c), NEW d, d = Round(c)
  PROVE  /\ c.state = S_STOJI_OTVOREN => /\ d.floor = c.floor /\ d.door = V_OTVORENA
                                         /\ d.direction = c.direction
         /\ c.im_floor = 2 => /\ d.im_floor # 0
                              /\ d.state \in MovingStates \cup {S_STOJI}
         /\ d.stop => /\ c.stop
                      /\ c.state \in MovingStates =>
                           d.state \in MovingStates \cup {S_STOJI}
         /\ d.state = S_STOJI => /\ d.floor = c.floor /\ d.im_floor = c.im_floor
                                 /\ d.door = c.door /\ d.direction = c.direction
         /\ Sound(d)
<1>1. /\ c \in Cars /\ c \in SafeCars /\ Sound(c) /\ c.state \in LiftStates
      /\ c.floor \in Floors /\ c.im_floor \in 0 .. 3 /\ c.state # S_STOJI
  BY DEF SoundCars, SafeCars, Cars, Quarters, Running
<1>2. CASE c.action = A_UNDEF
  <2>1. d = c
    BY <1>2 DEF Round, A_UNDEF, A_OBRADENO
  <2> QED  BY <1>1, <2>1 DEF Sound
<1>3. CASE c.action = A_OBRADENO
  <2>1. d = Advance(c)
    BY <1>3 DEF Round, A_UNDEF, A_OBRADENO
  <2>2. CASE c.state = S_OTVARA_VRATA
    <3>1. d = [c EXCEPT !.state = S_STOJI_OTVOREN, !.door = V_OTVORENA]
      BY <2>1, <2>2 DEF Advance, S_OTVARA_VRATA, S_ZATVARA_VRATA, S_IDE_GORE,
                          S_IDE_DOLE
    <3>2. /\ d.floor = c.floor /\ d.im_floor = c.im_floor /\ d.stop = c.stop
          /\ d.state = S_STOJI_OTVOREN /\ d.door = V_OTVORENA
      BY <1>1, <3>1 DEF Cars
    <3>3. c.im_floor = 0
      BY <1>1, <2>2 DEF Sound, MovingStates, S_OTVARA_VRATA, S_ZATVARA_VRATA, S_IDE_GORE, S_IDE_DOLE,
                         S_STOJI_OTVOREN, S_STOJI_ZATVOREN, S_STOJI
    <3> QED  BY <2>2, <3>2, <3>3
             DEF Sound, MovingStates, S_OTVARA_VRATA, S_ZATVARA_VRATA, S_IDE_GORE, S_IDE_DOLE,
                         S_STOJI_OTVOREN, S_STOJI_ZATVOREN, S_STOJI
  <2>3. CASE c.state = S_ZATVARA_VRATA
    <3>1. d = [c EXCEPT !.state = S_STOJI_ZATVOREN, !.door = V_ZATVORENA]
      BY <2>1, <2>3 DEF Advance, S_OTVARA_VRATA, S_ZATVARA_VRATA, S_IDE_GORE,
                          S_IDE_DOLE
    <3>2. /\ d.floor = c.floor /\ d.im_floor = c.im_floor /\ d.stop = c.stop
          /\ d.state = S_STOJI_ZATVOREN
      BY <1>1, <3>1 DEF Cars
    <3>3. c.im_floor = 0
      BY <1>1, <2>3 DEF Sound, MovingStates, S_OTVARA_VRATA, S_ZATVARA_VRATA, S_IDE_GORE, S_IDE_DOLE,
                         S_STOJI_OTVOREN, S_STOJI_ZATVOREN, S_STOJI
    <3> QED  BY <2>3, <3>2, <3>3
             DEF Sound, MovingStates, S_OTVARA_VRATA, S_ZATVARA_VRATA, S_IDE_GORE, S_IDE_DOLE,
                         S_STOJI_OTVOREN, S_STOJI_ZATVOREN, S_STOJI
  <2>4. CASE c.state = S_IDE_GORE
    <3>1. \/ d.state = c.state /\ (d.stop => c.stop)
          \/ d.state = S_STOJI_ZATVOREN /\ d.im_floor = 0 /\ d.stop = FALSE
      BY <1>1, <2>1, <2>4, UpResult DEF Same, Cars
    <3>2. c.im_floor = 2 => d.state = c.state /\ d.im_floor # 0
      <4>1. \/ d.im_floor = c.im_floor + 1 /\ d.state = c.state
            \/ Same(c, d) \/ c.im_floor >= 3
        BY <1>1, <2>1, <2>4, UpResult, Zenon
      <4>2. Same(c, d) => d.im_floor = c.im_floor /\ d.state = c.state
        BY DEF Same
      <4> QED  BY <4>1, <4>2
    <3> QED  BY <2>4, <3>1, <3>2
             DEF Sound, MovingStates, S_OTVARA_VRATA, S_ZATVARA_VRATA, S_IDE_GORE, S_IDE_DOLE,
                         S_STOJI_OTVOREN, S_STOJI_ZATVOREN, S_STOJI
  <2>5. CASE c.state = S_IDE_DOLE
    <3>1. \/ d.state = c.state /\ (d.stop => c.stop)
          \/ d.state = S_STOJI_ZATVOREN /\ d.im_floor = 0 /\ d.stop = FALSE
      <4>1. CASE c.im_floor > 1
        BY <1>1, <2>1, <2>5, <4>1, DownResult, ZenonT(30)
      <4>2. CASE c.im_floor = 1
        <5>1. /\ d.im_floor = 0
              /\ c.stop => d.state = S_STOJI_ZATVOREN /\ d.stop = FALSE
              /\ ~c.stop => d.state = c.state /\ d.stop = c.stop
          BY <1>1, <2>1, <2>5, <4>2, DownResult, Zenon
        <5> QED  BY <5>1
      <4>3. CASE c.im_floor = 0
        <5>1. c.floor > 0 => d.state = c.state /\ d.stop = c.stop
          BY <1>1, <2>1, <2>5, <4>3, DownResult, Zenon
        <5>2. ~(c.floor > 0) => Same(c, d)
          BY <1>1, <2>1, <2>5, <4>3, DownResult, Zenon
        <5>3. d.state = c.state /\ d.stop = c.stop
          BY <5>1, <5>2 DEF Same
        <5>4. d.stop => c.stop
          BY <5>3
        <5> QED  BY <5>3, <5>4, Zenon
      <4>4. c.im_floor > 1 \/ c.im_floor = 1 \/ c.im_floor = 0
        BY <1>1
      <4> QED  BY <4>1, <4>2, <4>3, <4>4, Zenon
    <3>2. c.im_floor = 2 => d.state = c.state /\ d.im_floor # 0
      <4>1. c.im_floor > 1 => d.state = c.state /\ d.im_floor = c.im_floor - 1
        BY <1>1, <2>1, <2>5, DownResult, Zenon
      <4> QED  BY <4>1
    <3> QED  BY <2>5, <3>1, <3>2
             DEF Sound, MovingStates, S_OTVARA_VRATA, S_ZATVARA_VRATA, S_IDE_GORE, S_IDE_DOLE,
                         S_STOJI_OTVOREN, S_STOJI_ZATVOREN, S_STOJI
  <2>6. CASE c.state \notin {S_OTVARA_VRATA, S_ZATVARA_VRATA, S_IDE_GORE, S_IDE_DOLE}
    <3>1. d = c
      BY <2>1, <2>6 DEF Advance, S_OTVARA_VRATA, S_ZATVARA_VRATA, S_IDE_GORE,
                          S_IDE_DOLE
    <3> QED  BY <1>1, <3>1 DEF Sound
  <2> QED  BY <2>2, <2>3, <2>4, <2>5, <2>6
<1>4. CASE c.action \in QueuedActions
  <2>1. d = Execute(c)
    BY <1>4 DEF Round, QueuedActions, A_UNDEF, A_OBRADENO, A_LIFT_GORE, A_LIFT_DOLE,
                A_LIFT_STANI, A_LIFT_OTVORI, A_LIFT_ZATVORI
  <2>2. /\ d.floor = c.floor /\ d.im_floor = c.im_floor
        /\ d.door = c.door /\ d.stop = c.stop
        /\ d.state = S_STOJI \/ Obeys(c, d)
        /\ d.direction = c.direction \/ Obeys(c, d)
    BY <1>1, <1>4, <2>1, ExecuteFields
  <2> QED  BY <1>1, <2>2
           DEF Obeys, Sound, MovingStates, S_OTVARA_VRATA, S_ZATVARA_VRATA, S_IDE_GORE, S_IDE_DOLE,
                         S_STOJI_OTVOREN, S_STOJI_ZATVOREN, S_STOJI
<1>5. c.action \in QueuedActions \cup {A_UNDEF, A_OBRADENO}
  BY <1>1 DEF Cars
<1> QED  BY <1>2, <1>3, <1>4, <1>5
LEMMA RoundSound ==
  ASSUME NEW c \in SoundCars, Running(c)
  PROVE  Round(c) \in SoundCars
BY RoundInside, RoundFields DEF SoundCars

(* A command received does not show in what others see of the car. *)
LEMMA TakeActionSame ==
  ASSUME NEW c \in SoundCars, NEW a \in Commands, NEW d, d = TakeAction(c, a)
  PROVE  /\ d.floor = c.floor /\ d.im_floor = c.im_floor
         /\ d.door = c.door /\ d.state = c.state /\ d.direction = c.direction
         /\ d.stop = (c.stop \/ a = A_LIFT_STANI_NA_KATU)
         /\ d \in SoundCars
<1>1. c \in Cars /\ c \in SafeCars /\ Sound(c) /\ c.stop \in BOOLEAN
  BY DEF SoundCars, SafeCars, Cars
<1>2. /\ d.floor = c.floor /\ d.im_floor = c.im_floor
      /\ d.door = c.door /\ d.state = c.state /\ d.direction = c.direction
      /\ d.stop = (c.stop \/ a = A_LIFT_STANI_NA_KATU)
  <2>1. CASE a = A_LIFT_STANI_NA_KATU
    <3>1. d = [c EXCEPT !.stop = TRUE]
      BY <2>1 DEF TakeAction
    <3> QED  BY <1>1, <2>1, <3>1 DEF Cars
  <2>2. CASE a # A_LIFT_STANI_NA_KATU
    <3>1. d = [c EXCEPT !.action = a] \/ d = c
      BY <2>2 DEF TakeAction
    <3> QED  BY <1>1, <2>2, <3>1 DEF Cars
  <2> QED  BY <2>1, <2>2
<1>3. d \in SafeCars
  BY <1>1, TakeActionInside
<1> QED  BY <1>1, <1>2, <1>3 DEF SoundCars, Sound
(* What is in a queue. *)
LEMMA RangeOfQueues ==
  /\ Range(<<>>) = {}
  /\ \A S : \A q \in Seq(S) : \A m \in S : Range(Append(q, m)) = Range(q) \cup {m}
  /\ \A S : \A q \in Seq(S) : q # <<>> => Range(q) = {Head(q)} \cup Range(Tail(q))
<1>1. Range(<<>>) = {}
  BY DEF Range
<1>2. ASSUME NEW S, NEW q \in Seq(S), NEW m \in S
      PROVE  Range(Append(q, m)) = Range(q) \cup {m}
  <2> DEFINE t == Append(q, m)
  <2>1. /\ Len(q) \in Nat /\ DOMAIN q = 1 .. Len(q) /\ DOMAIN t = 1 .. Len(q) + 1
        /\ \A n \in 1 .. Len(q) : t[n] = q[n]
        /\ t[Len(q) + 1] = m
    <3>1. /\ t \in Seq(S) /\ Len(t) = Len(q) + 1
          /\ \A n \in 1 .. Len(q) : t[n] = q[n]
          /\ t[Len(q) + 1] = m
      BY AppendProperties
    <3> QED  BY <3>1, LenProperties
  <2> HIDE DEF t
  <2>2. DOMAIN t = DOMAIN q \cup {Len(q) + 1}
    BY <2>1
  <2>3. \A n \in DOMAIN q : t[n] = q[n]
    BY <2>1
  <2> QED  BY <2>1, <2>2, <2>3 DEF Range, t
<1>3. ASSUME NEW S, NEW q \in Seq(S), q # <<>>
      PROVE  Range(q) = {Head(q)} \cup Range(Tail(q))
  <2> DEFINE t == Tail(q)
  <2>1. /\ Len(q) \in Nat /\ Len(q) # 0 /\ DOMAIN q = 1 .. Len(q)
        /\ DOMAIN t = 1 .. Len(q) - 1
        /\ \A n \in 1 .. Len(q) - 1 : t[n] = q[n + 1]
        /\ Head(q) = q[1]
    BY <1>3, HeadTailProperties, LenProperties, EmptySeq
  <2> HIDE DEF t
  <2>2. ASSUME NEW n \in DOMAIN q PROVE q[n] \in {Head(q)} \cup Range(t)
    <3>1. CASE n = 1
      BY <2>1, <3>1
    <3>2. CASE n # 1
      <4>1. n - 1 \in DOMAIN t /\ t[n - 1] = q[n]
        BY <2>1, <2>2, <3>2
      <4> QED  BY <4>1 DEF Range
    <3> QED  BY <3>1, <3>2
  <2>3. ASSUME NEW n \in DOMAIN t PROVE t[n] \in Range(q)
    <3>1. n + 1 \in DOMAIN q /\ q[n + 1] = t[n]
      BY <2>1
    <3> QED  BY <3>1 DEF Range
  <2>4. Head(q) \in Range(q)
    <3>1. 1 \in DOMAIN q
      BY <2>1
    <3> QED  BY <2>1, <3>1 DEF Range
  <2> QED  BY <2>2, <2>3, <2>4 DEF Range, t
<1> QED  BY <1>1, <1>2, <1>3

(* A report, or what upr keeps of it, shows the car as it is, or as it was    *)
(* before its last round; one that was stopped for good may have had another. *)
(* What upr() notes of its own is the direction of a lift whose door is shut. *)
Spot(c)       == <<c.floor, c.im_floor, c.door>>
SeenNow(r, c) == /\ Spot(r) = Spot(c) /\ r.state = c.state
                 /\ r.state = S_STOJI_OTVOREN => r.direction = c.direction
SeenBefore(r, c) ==
  \E b \in SoundCars : /\ Running(b) /\ SeenNow(r, b)
                       /\ Spot(c) = Spot(Round(b)) /\ c.direction = Round(b).direction
                       /\ c.state \in {Round(b).state, S_STOJI}

LEMMA NewsFits ==
  ASSUME NEW r, NEW c \in SoundCars, SeenNow(r, c) \/ SeenBefore(r, c)
  PROVE  /\ r.state = S_STOJI_OTVOREN => /\ c.floor = r.floor /\ c.door = V_OTVORENA
                                         /\ c.direction = r.direction
         /\ r.im_floor = 2 => \/ c.state = S_STOJI
                              \/ c.state \in MovingStates /\ c.im_floor # 0
         /\ SeenNow(r, c) => c.im_floor = r.im_floor
<1>1. Sound(c)
  BY DEF SoundCars
<1>2. CASE SeenNow(r, c)
  <2>1. /\ r.floor = c.floor /\ r.im_floor = c.im_floor /\ r.door = c.door
        /\ r.state = c.state /\ (r.state = S_STOJI_OTVOREN => r.direction = c.direction)
    BY <1>2 DEF SeenNow, Spot
  <2> QED  BY <1>1, <2>1 DEF Sound
<1>3. CASE ~SeenNow(r, c) /\ SeenBefore(r, c)
  <2>1. PICK b \in SoundCars : /\ Running(b) /\ SeenNow(r, b)
                               /\ Spot(c) = Spot(Round(b))
                               /\ c.direction = Round(b).direction
                               /\ c.state \in {Round(b).state, S_STOJI}
    BY <1>3 DEF SeenBefore
  <2>2. /\ r.floor = b.floor /\ r.im_floor = b.im_floor /\ r.state = b.state
        /\ c.floor = Round(b).floor /\ c.im_floor = Round(b).im_floor
        /\ c.door = Round(b).door /\ c.direction = Round(b).direction
        /\ r.state = S_STOJI_OTVOREN => r.direction = b.direction
    BY <2>1 DEF SeenNow, Spot
  <2>3. /\ b.state = S_STOJI_OTVOREN =>
             /\ Round(b).floor = b.floor /\ Round(b).door = V_OTVORENA
             /\ Round(b).direction = b.direction
        /\ b.im_floor = 2 => /\ Round(b).im_floor # 0
                             /\ Round(b).state \in MovingStates \cup {S_STOJI}
    BY <2>1, RoundFields
  <2> QED  BY <1>3, <2>1, <2>2, <2>3
<1> QED  BY <1>2, <1>3

LEMMA RoundNews ==
  ASSUME NEW r, NEW c \in SoundCars, Running(c)
  PROVE  /\ SeenNow(r, c) => SeenBefore(r, Round(c))
         /\ SeenBefore(r, c) /\ Round(c).state = S_STOJI => SeenBefore(r, Round(c))
<1>1. SeenNow(r, c) => SeenBefore(r, Round(c))
  BY DEF SeenBefore
<1>2. ASSUME SeenBefore(r, c), Round(c).state = S_STOJI
      PROVE  SeenBefore(r, Round(c))
  <2>1. Spot(Round(c)) = Spot(c) /\ Round(c).direction = c.direction
    BY <1>2, RoundFields DEF Spot
  <2> QED  BY <1>2, <2>1 DEF SeenBefore
<1> QED  BY <1>1, <1>2

(* What upr knows of lift i, and the reports on their way.  While an answer   *)
(* is outstanding upr() waits; each round of upr() that has none uses up one  *)
(* of the rounds between two of lift(), and so does a lost answer.            *)
IsReport(m, i) == m.type = "LIFT_STATUS_REPORT" /\ m.lift = i
AsksStatus(m)  == m.type = "LIFT_ACTION_START" /\ m.data = A_LIFT_STATUS

Asked(i) == \/ \E m \in Range(to_lift[i]) : AsksStatus(m)
            \/ \E m \in Range(to_upr) : IsReport(m, i)

ReportsTrue(i) ==
  \A m \in Range(to_upr) : IsReport(m, i) =>
    \/ SeenNow(m.data, car[i])
    \/ SeenBefore(m.data, car[i]) /\ ticks[i] = 0

KnowsLift(i) ==
  \/ current[i].state = UNKNOWN /\ current[i].im_floor = 0
  \/ SeenNow(current[i], car[i])
  \/ SeenBefore(current[i], car[i]) /\ ticks[i] <= losses
  \/ Asked(i) /\ SeenBefore(current[i], car[i]) /\ ticks[i] <= losses + 1
  \/ Asked(i) /\ losses = 1 /\ ticks[i] = 0 /\ Running(car[i])

News(i) == losses <= 1 => ReportsTrue(i) /\ KnowsLift(i)

(* A stop that is on its way meets the car between two floors. *)
IsStop(m) == m.type = "LIFT_ACTION_START" /\ m.data = A_LIFT_STANI_NA_KATU

StopInTime(i) ==
  \/ car[i].state = S_STOJI
  \/ /\ car[i].state \in MovingStates
     /\ car[i].im_floor # 0
     /\ car[i].im_floor = 2 \/ ticks[i] <= 1

StopsFit(i) ==
  losses = 0 =>
    /\ \A m \in Range(to_lift[i]) : IsStop(m) => StopInTime(i)
    /\ car[i].stop => car[i].state \in MovingStates \cup {S_STOJI}

StopsPlaced(i) == \A e \in naredba[i] :
                    e.action = A_LIFT_STANI_NA_KATU => e.place[2] = 2

TimelyLift(i) == /\ car[i] \in SoundCars
                 /\ ~Running(car[i]) => ticks[i] = 0
                 /\ StopsPlaced(i)
                 /\ News(i)
                 /\ StopsFit(i)

Timely == \A i \in Lifts : TimelyLift(i)
(* A step that does not show on lift i, nor on what upr hears of it. *)
Unseen(i) ==
  /\ Spot(car'[i]) = Spot(car[i]) /\ Spot(current'[i]) = Spot(current[i])
  /\ car'[i].state = car[i].state /\ car'[i].direction = car[i].direction
  /\ current'[i].state = current[i].state
  /\ current'[i].direction = current[i].direction
  /\ ticks'[i] = ticks[i] /\ losses' = losses

LEMMA SpotFields ==
  \A c, d : Spot(c) = Spot(d) <=> /\ c.floor = d.floor /\ c.im_floor = d.im_floor
                                  /\ c.door = d.door
BY DEF Spot

LEMMA NewsStays ==
  ASSUME NEW i \in Lifts, News(i), Unseen(i), Asked(i) => Asked(i)',
         \A m \in Range(to_upr') : IsReport(m, i) => m \in Range(to_upr)
  PROVE  News(i)'
<1>1. \A r, c, d : Spot(c) = Spot(d) /\ c.state = d.state /\ c.direction = d.direction =>
        /\ SeenNow(r, c) <=> SeenNow(r, d)
        /\ SeenBefore(r, c) <=> SeenBefore(r, d)
        /\ SeenNow(c, r) <=> SeenNow(d, r)
        /\ SeenBefore(c, r) <=> SeenBefore(d, r)
        /\ Running(c) <=> Running(d)
  <2> TAKE r, c, d
  <2> HAVE Spot(c) = Spot(d) /\ c.state = d.state /\ c.direction = d.direction
  <2>1. (SeenNow(r, c) <=> SeenNow(r, d)) /\ (SeenNow(c, r) <=> SeenNow(d, r))
    BY Zenon DEF SeenNow
  <2>2. SeenBefore(r, c) <=> SeenBefore(r, d)
    BY Zenon DEF SeenBefore
  <2>3. \A b : SeenNow(c, b) <=> SeenNow(d, b)
    BY Zenon DEF SeenNow
  <2>4. SeenBefore(c, r) <=> SeenBefore(d, r)
    BY <2>3, Zenon DEF SeenBefore
  <2>5. Running(c) <=> Running(d)
    BY Zenon DEF Running
  <2> QED  BY <2>1, <2>2, <2>4, <2>5
<1>2. /\ \A r : SeenNow(r, car'[i]) <=> SeenNow(r, car[i])
      /\ \A r : SeenBefore(r, car'[i]) <=> SeenBefore(r, car[i])
      /\ SeenNow(current'[i], car'[i]) <=> SeenNow(current[i], car[i])
      /\ SeenBefore(current'[i], car'[i]) <=> SeenBefore(current[i], car[i])
      /\ Running(car'[i]) <=> Running(car[i])
      /\ current'[i].state = current[i].state
      /\ current'[i].im_floor = current[i].im_floor
      /\ ticks'[i] = ticks[i] /\ losses' = losses
  <2>1. /\ \A r : SeenNow(r, car'[i]) <=> SeenNow(r, car[i])
        /\ \A r : SeenBefore(r, car'[i]) <=> SeenBefore(r, car[i])
        /\ Running(car'[i]) <=> Running(car[i])
    BY <1>1, Zenon DEF Unseen
  <2>2. /\ SeenNow(current'[i], car[i]) <=> SeenNow(current[i], car[i])
        /\ SeenBefore(current'[i], car[i]) <=> SeenBefore(current[i], car[i])
    BY <1>1, Zenon DEF Unseen
  <2>3. /\ current'[i].state = current[i].state
        /\ current'[i].im_floor = current[i].im_floor
        /\ ticks'[i] = ticks[i] /\ losses' = losses
    BY SpotFields, Zenon DEF Unseen
  <2> QED  BY <2>1, <2>2, <2>3, Zenon
<1> SUFFICES ASSUME losses <= 1 PROVE ReportsTrue(i)' /\ KnowsLift(i)'
  BY <1>2 DEF News
<1>3. ReportsTrue(i) /\ KnowsLift(i)
  BY DEF News
<1>4. ReportsTrue(i)'
  BY <1>2, <1>3, Zenon DEF ReportsTrue, IsReport
<1>5. KnowsLift(i)'
  BY <1>2, <1>3, Zenon DEF KnowsLift
<1> QED  BY <1>4, <1>5

LEMMA StopsStay ==
  ASSUME NEW i \in Lifts, StopsFit(i), car'[i] = car[i], ticks'[i] = ticks[i],
         losses' = losses,
         \A m \in Range(to_lift'[i]) : IsStop(m) => m \in Range(to_lift[i])
  PROVE  StopsFit(i)'
BY Zenon DEF StopsFit, StopInTime, IsStop

LEMMA ThreeParts ==
  ASSUME NEW S, NEW p \in Seq(S), NEW q \in Seq(S), NEW r \in Seq(S)
  PROVE  Range(p \o q \o r) = Range(p) \cup Range(q) \cup Range(r)
<1>1. PICK pq \in Seq(S) : pq = p \o q
  BY ConcatProperties
<1>2. Range(pq) = Range(p) \cup Range(q)
  BY <1>1, RangeConcatenation
<1>3. Range(pq \o r) = Range(pq) \cup Range(r)
  BY RangeConcatenation
<1> QED  BY <1>1, <1>2, <1>3

(* A round of upr() sends a lift a status request, and a stop only if it was  *)
(* last heard of at quarter 2.                                                *)
LEMMA SentMembers ==
  ASSUME IInv, NEW i \in Lifts, NEW want \in SUBSET Floors
  PROVE  LET sent == LampsOut(i) \o CommandSent(i, want) \o <<Action(i, A_LIFT_STATUS)>>
         IN  /\ Action(i, A_LIFT_STATUS) \in Range(sent)
             /\ \A m \in Range(sent) :
                  IsStop(m) => \E e \in Due(i, want) : e.action = A_LIFT_STANI_NA_KATU
<1> DEFINE lamps  == LampsOut(i)
           orders == CommandSent(i, want)
           status_request == <<Action(i, A_LIFT_STATUS)>>
<1>1. /\ lamps \in Seq(LiftMessages) /\ orders \in Seq(LiftMessages)
      /\ status_request \in Seq(LiftMessages)
  BY SentParts
<1>2. Range(lamps \o orders \o status_request)
        = Range(lamps) \cup Range(orders) \cup Range(status_request)
  <2> HIDE DEF lamps, orders, status_request
  <2> QED  BY <1>1, ThreeParts
<1>3. /\ \A x : Range(<<x>>) = {x}
      /\ Range(<<>>) = {}
  BY DEF Range
<1>4. ASSUME NEW m \in Range(lamps) PROVE ~IsStop(m)
  <2>1. m = Msg("LIFT_GASI_LAMPICU", i, current[i].floor)
    BY <1>3, <1>4 DEF LampsOut
  <2> QED  BY <2>1 DEF Msg, IsStop
<1>5. ASSUME NEW m \in Range(orders), IsStop(m)
      PROVE  \E e \in Due(i, want) : e.action = A_LIFT_STANI_NA_KATU
  <2> DEFINE e == CHOOSE e \in Due(i, want) : TRUE
  <2>1. Due(i, want) # {} /\ m = Action(i, e.action)
    BY <1>3, <1>5 DEF CommandSent
  <2>2. e \in Due(i, want)
    BY <2>1
  <2> HIDE DEF e
  <2>3. e.action = A_LIFT_STANI_NA_KATU
    BY <1>5, <2>1 DEF IsStop, Action, Msg
  <2> QED  BY <2>2, <2>3
<1>6. /\ Range(status_request) = {Action(i, A_LIFT_STATUS)}
      /\ ~IsStop(Action(i, A_LIFT_STATUS))
  BY <1>3 DEF IsStop, Action, Msg, A_LIFT_STATUS, A_LIFT_STANI_NA_KATU
<1> HIDE DEF lamps, orders, status_request
<1>7. /\ Action(i, A_LIFT_STATUS) \in Range(lamps \o orders \o status_request)
      /\ \A m \in Range(lamps \o orders \o status_request) :
           IsStop(m) => \E e \in Due(i, want) : e.action = A_LIFT_STANI_NA_KATU
  BY <1>2, <1>4, <1>5, <1>6
<1> QED  BY <1>7 DEF lamps, orders, status_request

LEMMA StopEntries ==
  ASSUME IInv, NEW i \in Lifts, StopsPlaced(i), NEW want
  PROVE  \A e \in Table(i, want) : e.action = A_LIFT_STANI_NA_KATU => e.place[2] = 2
<1>1. \A e \in naredba[i] : e.action = A_LIFT_STANI_NA_KATU => e.place[2] = 2
  BY DEF StopsPlaced
<1>2. \A e \in StopsAhead(i, want) : e.action = A_LIFT_STANI_NA_KATU => e.place[2] = 2
  <2>1. \A f, d, a : /\ Entry(f, 2, d, V_ZATVORENA, a).place[2] = 2
                     /\ Entry(f, 0, d, V_ZATVORENA, A_LIFT_OTVORI).action
                          # A_LIFT_STANI_NA_KATU
    BY DEF Entry, A_LIFT_OTVORI, A_LIFT_STANI_NA_KATU
  <2>2. ASSUME NEW e \in StopsAhead(i, want)
        PROVE  \E f, g, d : e \in {Entry(f, 2, d, V_ZATVORENA, A_LIFT_STANI_NA_KATU),
                                  Entry(g, 0, d, V_ZATVORENA, A_LIFT_OTVORI)}
    BY <2>2, Zenon DEF StopsAhead
  <2> QED  BY <2>1, <2>2
<1>3. \A e \in Errands(i, want) : e.action # A_LIFT_STANI_NA_KATU
  <2>1. \A f, q, d, door, a : Entry(f, q, d, door, a).action = a
    BY DEF Entry
  <2>2. /\ A_LIFT_ZATVORI # A_LIFT_STANI_NA_KATU
        /\ \A w, d : Errand(i, w, d) # A_LIFT_STANI_NA_KATU
    BY DEF Errand, A_LIFT_ZATVORI, A_LIFT_OTVORI, A_LIFT_GORE, A_LIFT_DOLE,
           A_LIFT_STANI_NA_KATU
  <2> QED  BY <2>1, <2>2 DEF Errands
<1> QED  BY <1>1, <1>2, <1>3, Zenon DEF Table, Enter

(* A round of upr(): all that was asked is answered. *)
LEMMA UprRoundTimely ==
  ASSUME IInv, HallOK, NEW i \in Lifts, TimelyLift(i), UprRound
  PROVE  TimelyLift(i)'
<1> DEFINE want == Wanted(i)
           sent == LampsOut(i) \o CommandSent(i, want) \o <<Action(i, A_LIFT_STATUS)>>
<1>1. /\ to_lift[i] = <<>>
      /\ \A m \in Range(to_upr) : ~IsReport(m, i)
      /\ naredba'[i] = Table(i, want) \ Due(i, want)
      /\ current'[i] = [current[i] EXCEPT !.direction = NextDirection(i, want)]
      /\ to_lift'[i] = sent
      /\ ticks'[i] = IF Running(car[i]) THEN ticks[i] + 1 ELSE 0
      /\ UNCHANGED <<car, to_upr, losses>>
  BY DEF UprRound, Answered, IsReport, Range, liftVars
<1>2. /\ current[i] \in Known /\ want \in SUBSET Floors /\ car[i] \in SoundCars
      /\ ticks[i] \in Nat /\ losses \in Nat
      /\ StopsPlaced(i) /\ News(i) /\ StopsFit(i)
  BY WantedType, BoundsAssumption DEF IInv, HallOK, TimelyLift
<1>3. StopsPlaced(i)'
  <2>1. \A e \in Table(i, want) : e.action = A_LIFT_STANI_NA_KATU => e.place[2] = 2
    BY <1>2, StopEntries
  <2> QED  BY <1>1, <2>1 DEF StopsPlaced
<1>4. /\ Action(i, A_LIFT_STATUS) \in Range(sent)
      /\ \A m \in Range(sent) :
           IsStop(m) => \E e \in Due(i, want) : e.action = A_LIFT_STANI_NA_KATU
  BY <1>2, SentMembers
<1> HIDE DEF sent
<1>5. Asked(i)'
  <2>1. AsksStatus(Action(i, A_LIFT_STATUS))
    BY DEF AsksStatus, Action, Msg
  <2> QED  BY <1>1, <1>4, <2>1 DEF Asked
<1>6. ~Asked(i)
  <2>1. Range(to_lift[i]) = {}
    BY <1>1, RangeOfQueues
  <2> QED  BY <1>1, <2>1 DEF Asked
<1>7. /\ Spot(current'[i]) = Spot(current[i]) /\ current'[i].state = current[i].state
      /\ current'[i].im_floor = current[i].im_floor
      /\ current[i].state = S_STOJI_OTVOREN => current'[i].direction = current[i].direction
  BY <1>1, <1>2 DEF Known, Spot, NextDirection, S_STOJI_OTVOREN, S_STOJI_ZATVOREN
<1>8. ASSUME losses <= 1
      PROVE  \/ current[i].state = UNKNOWN /\ current[i].im_floor = 0
             \/ SeenNow(current[i], car[i])
             \/ SeenBefore(current[i], car[i]) /\ ticks[i] <= losses
  BY <1>2, <1>6, <1>8 DEF News, KnowsLift
<1>9. News(i)'
  <2> SUFFICES ASSUME losses <= 1 PROVE ReportsTrue(i)' /\ KnowsLift(i)'
    BY <1>1 DEF News
  <2>1. ReportsTrue(i)'
    BY <1>1 DEF ReportsTrue, IsReport
  <2> SUFFICES KnowsLift(i)'
    BY <2>1
  <2>2. CASE current[i].state = UNKNOWN /\ current[i].im_floor = 0
    BY <1>7, <2>2, Zenon DEF KnowsLift
  <2>3. CASE SeenNow(current[i], car[i])
    <3>1. SeenNow(current'[i], car'[i])
      BY <1>1, <1>7, <2>3 DEF SeenNow
    <3> QED  BY <3>1, Zenon DEF KnowsLift
  <2>4. CASE SeenBefore(current[i], car[i]) /\ ticks[i] <= losses
    <3>1. SeenBefore(current'[i], car'[i])
      BY <1>1, <1>7, <2>4 DEF SeenBefore, SeenNow
    <3>2. ticks'[i] <= losses' + 1
      BY <1>1, <1>2, <2>4
    <3> QED  BY <1>5, <3>1, <3>2, Zenon DEF KnowsLift
  <2> QED  BY <1>8, <2>2, <2>3, <2>4
<1>10. StopsFit(i)'
  <2> SUFFICES ASSUME losses = 0 PROVE StopsFit(i)'
    BY <1>1 DEF StopsFit
  <2>1. ASSUME NEW m \in Range(sent), IsStop(m) PROVE StopInTime(i)'
    <3>1. PICK e \in Due(i, want) : e.action = A_LIFT_STANI_NA_KATU
      BY <1>4, <2>1
    <3>2. e \in Table(i, want) /\ e.place[2] = current[i].im_floor
      BY <3>1 DEF Due
    <3>3. current[i].im_floor = 2
      BY <1>2, <3>1, <3>2, StopEntries
    <3>4. \/ SeenNow(current[i], car[i])
          \/ SeenBefore(current[i], car[i]) /\ ticks[i] <= 0
      BY <1>8, <3>3
    <3>5. /\ \/ car[i].state = S_STOJI
             \/ car[i].state \in MovingStates /\ car[i].im_floor # 0
          /\ SeenNow(current[i], car[i]) => car[i].im_floor = 2
      BY <1>2, <3>3, <3>4, NewsFits
    <3>6. ticks[i] <= 0 => ticks'[i] <= 1
      BY <1>1, <1>2
    <3>7. \/ car[i].state = S_STOJI
          \/ /\ car[i].state \in MovingStates
             /\ car[i].im_floor # 0
             /\ car[i].im_floor = 2 \/ ticks'[i] <= 1
      BY <3>4, <3>5, <3>6, Zenon
    <3> QED  BY <1>1, <3>7, Zenon DEF StopInTime
  <2>2. car[i].stop => car[i].state \in MovingStates \cup {S_STOJI}
    BY <1>2 DEF StopsFit
  <2> QED  BY <1>1, <2>1, <2>2 DEF StopsFit
<1>11. car'[i] \in SoundCars /\ (~Running(car'[i]) => ticks'[i] = 0)
  BY <1>1, <1>2
<1> QED  BY <1>3, <1>9, <1>10, <1>11 DEF TimelyLift
(* What a step may do to the queues without changing the news of lift i. *)
UprQueueKept(i) ==
  \/ to_upr' = to_upr
  \/ to_upr # <<>> /\ ~IsReport(Head(to_upr), i) /\ to_upr' = Tail(to_upr)
  \/ \E m \in UprMessages : ~IsReport(m, i) /\ to_upr' = Append(to_upr, m)

LiftQueueKept(i) ==
  \/ to_lift'[i] = to_lift[i]
  \/ /\ to_lift[i] # <<>> /\ ~AsksStatus(Head(to_lift[i]))
     /\ to_lift'[i] = Tail(to_lift[i])
  \/ \E m \in LiftMessages : ~IsStop(m) /\ to_lift'[i] = Append(to_lift[i], m)

LEMMA QueuesKept ==
  ASSUME IInv, NEW i \in Lifts, UprQueueKept(i), LiftQueueKept(i)
  PROVE  /\ Asked(i) => Asked(i)'
         /\ \A m \in Range(to_upr') : IsReport(m, i) => m \in Range(to_upr)
         /\ \A m \in Range(to_lift'[i]) : IsStop(m) => m \in Range(to_lift[i])
<1>1. to_upr \in Seq(UprMessages) /\ to_lift[i] \in Seq(LiftMessages)
  BY DEF IInv
<1>2. /\ to_upr # <<>> => Range(to_upr) = {Head(to_upr)} \cup Range(Tail(to_upr))
      /\ \A m \in UprMessages : Range(Append(to_upr, m)) = Range(to_upr) \cup {m}
  BY <1>1, RangeOfQueues
<1>3. /\ to_lift[i] # <<>> =>
           Range(to_lift[i]) = {Head(to_lift[i])} \cup Range(Tail(to_lift[i]))
      /\ \A m \in LiftMessages :
           Range(Append(to_lift[i], m)) = Range(to_lift[i]) \cup {m}
  BY <1>1, RangeOfQueues
<1>4. /\ \A m \in Range(to_upr) : IsReport(m, i) => m \in Range(to_upr')
      /\ \A m \in Range(to_upr') : IsReport(m, i) => m \in Range(to_upr)
  <2>1. CASE to_upr' = to_upr
    BY <2>1
  <2>2. CASE to_upr # <<>> /\ ~IsReport(Head(to_upr), i) /\ to_upr' = Tail(to_upr)
    BY <1>2, <2>2
  <2>3. ASSUME NEW m \in UprMessages, ~IsReport(m, i), to_upr' = Append(to_upr, m)
        PROVE  <1>4!1 /\ <1>4!2
    BY <1>2, <2>3
  <2> QED  BY <2>1, <2>2, <2>3 DEF UprQueueKept
<1>5. /\ \A m \in Range(to_lift[i]) : AsksStatus(m) => m \in Range(to_lift'[i])
      /\ \A m \in Range(to_lift'[i]) : IsStop(m) => m \in Range(to_lift[i])
  <2>1. CASE to_lift'[i] = to_lift[i]
    BY <2>1
  <2>2. CASE /\ to_lift[i] # <<>> /\ ~AsksStatus(Head(to_lift[i]))
             /\ to_lift'[i] = Tail(to_lift[i])
    BY <1>3, <2>2
  <2>3. ASSUME NEW m \in LiftMessages, ~IsStop(m), to_lift'[i] = Append(to_lift[i], m)
        PROVE  <1>5!1 /\ <1>5!2
    BY <1>3, <2>3
  <2> QED  BY <2>1, <2>2, <2>3 DEF LiftQueueKept
<1>6. Asked(i) => Asked(i)'
  BY <1>4, <1>5, Zenon DEF Asked, IsReport, AsksStatus
<1> QED  BY <1>4, <1>5, <1>6

LEMMA UntouchedLift ==
  ASSUME IInv, NEW i \in Lifts, TimelyLift(i), UprQueueKept(i), LiftQueueKept(i),
         car'[i] = car[i], current'[i] = current[i], naredba'[i] = naredba[i],
         ticks'[i] = ticks[i], losses' = losses
  PROVE  TimelyLift(i)'
<1>1. Unseen(i)
  BY DEF Unseen
<1>2. News(i)'
  BY <1>1, QueuesKept, NewsStays DEF TimelyLift
<1>3. StopsFit(i)'
  BY QueuesKept, StopsStay DEF TimelyLift
<1>4. StopsPlaced(i)'
  BY DEF TimelyLift, StopsPlaced
<1> QED  BY <1>2, <1>3, <1>4 DEF TimelyLift

LEMMA UprListenerTimely ==
  ASSUME IInv, HallOK, NEW i \in Lifts, TimelyLift(i), UprListener
  PROVE  TimelyLift(i)'
<1>1. \A type : Receive(type) /\ type # "LIFT_STATUS_REPORT" => UprQueueKept(i)
  BY DEF Receive, UprQueueKept, IsReport
<1>2. CASE HallKey \/ CabinKey
  <2>1. UprQueueKept(i)
    BY <1>1, <1>2 DEF HallKey, CabinKey
  <2>2. UNCHANGED <<car, current, naredba, to_lift, ticks, losses>>
    BY <1>2 DEF HallKey, CabinKey, liftVars, bounds
  <2> QED  BY <2>1, <2>2, UntouchedLift DEF LiftQueueKept
<1>3. CASE SendLamp
  <2> DEFINE m == Head(to_send)
  <2>1. m \in LampsToLight /\ UNCHANGED <<car, current, naredba, to_upr, ticks, losses>>
    BY <1>3 DEF SendLamp, IInv, liftVars, bounds
  <2>2. LiftQueueKept(i)
    <3>1. CASE m.type = "LIFT_PALI_LAMPICU"
      <4>1. m \in LiftMessages /\ m.lift \in Lifts /\ ~IsStop(m)
        BY <2>1, <3>1, MessageTypes DEF IsStop
      <4>2. to_lift' = [to_lift EXCEPT ![m.lift] = Append(@, m)]
        BY <1>3, <3>1 DEF SendLamp
      <4>3. to_lift'[i] = IF i = m.lift THEN Append(to_lift[i], m) ELSE to_lift[i]
        BY <4>1, <4>2 DEF IInv
      <4> QED  BY <4>1, <4>3 DEF LiftQueueKept
    <3>2. CASE m.type # "LIFT_PALI_LAMPICU"
      BY <1>3, <3>2 DEF SendLamp, LiftQueueKept
    <3> QED  BY <3>1, <3>2
  <2> QED  BY <2>1, <2>2, UntouchedLift DEF UprQueueKept
<1>4. CASE Stop
  <2> DEFINE s == Head(to_upr).lift
  <2>1. UprQueueKept(i)
    BY <1>1, <1>4 DEF Stop
  <2>2. /\ to_lift' = [to_lift EXCEPT ![s] = Append(@, Action(s, A_LIFT_STANI))]
        /\ UNCHANGED <<car, current, naredba, ticks, losses>>
    BY <1>4 DEF Stop, liftVars, uprVars, bounds
  <2>3. s \in Lifts
    BY <1>4, ReceiveType, MessageTypes DEF Stop
  <2>4. Action(s, A_LIFT_STANI) \in LiftMessages
    BY <2>3, MessagesMade DEF Commands, QueuedActions
  <2>5. ~IsStop(Action(s, A_LIFT_STANI))
    BY DEF IsStop, Action, Msg, A_LIFT_STANI, A_LIFT_STANI_NA_KATU
  <2>6. to_lift'[i] = IF i = s THEN Append(to_lift[i], Action(s, A_LIFT_STANI))
                      ELSE to_lift[i]
    BY <2>2, <2>3 DEF IInv
  <2>7. LiftQueueKept(i)
    BY <2>4, <2>5, <2>6 DEF LiftQueueKept
  <2> QED  BY <2>1, <2>2, <2>7, UntouchedLift
<1>5. CASE Report
  <2> DEFINE m == Head(to_upr)
  <2>1. /\ current' = [current EXCEPT ![m.lift] = m.data]
        /\ UNCHANGED <<car, naredba, to_lift, ticks, losses>>
        /\ to_upr # <<>> /\ to_upr' = Tail(to_upr) /\ m.type = "LIFT_STATUS_REPORT"
    BY <1>5 DEF Report, Receive, liftVars, bounds
  <2>2. m.lift \in Lifts
    BY <1>5, ReceiveType, MessageTypes DEF Report
  <2>3. to_upr \in Seq(UprMessages)
    BY DEF IInv
  <2>4. Range(to_upr) = {m} \cup Range(to_upr')
    BY <2>1, <2>3, RangeOfQueues
  <2> HIDE DEF m
  <2>5. CASE i # m.lift
    <3>1. UprQueueKept(i)
      BY <2>1, <2>5 DEF UprQueueKept, IsReport, m
    <3>2. current'[i] = current[i]
      BY <2>1, <2>2, <2>5 DEF IInv
    <3> QED  BY <2>1, <3>1, <3>2, UntouchedLift DEF LiftQueueKept
  <2>6. CASE i = m.lift
    <3>1. current'[i] = m.data
      BY <2>1, <2>2, <2>6 DEF IInv
    <3>2. News(i)'
      <4> SUFFICES ASSUME losses <= 1 PROVE ReportsTrue(i)' /\ KnowsLift(i)'
        BY <2>1 DEF News
      <4>1. ReportsTrue(i)
        BY DEF TimelyLift, News
      <4>2. IsReport(m, i) /\ m \in Range(to_upr)
        BY <2>1, <2>4, <2>6 DEF IsReport
      <4>3. \/ SeenNow(m.data, car[i])
            \/ SeenBefore(m.data, car[i]) /\ ticks[i] = 0
        BY <4>1, <4>2 DEF ReportsTrue
      <4>4. ReportsTrue(i)'
        BY <2>1, <2>4, <4>1 DEF ReportsTrue, IsReport
      <4>5. ticks[i] = 0 => ticks[i] <= losses
        BY DEF HallOK
      <4>6. \/ SeenNow(current'[i], car'[i])
            \/ SeenBefore(current'[i], car'[i]) /\ ticks'[i] <= losses'
        BY <2>1, <3>1, <4>3, <4>5
      <4>7. KnowsLift(i)'
        BY <4>6, Zenon DEF KnowsLift
      <4> QED  BY <4>4, <4>7
    <3>3. StopsFit(i)' /\ StopsPlaced(i)'
      BY <2>1 DEF TimelyLift, StopsFit, StopInTime, StopsPlaced
    <3> QED  BY <2>1, <3>2, <3>3 DEF TimelyLift
  <2> QED  BY <2>5, <2>6
<1> QED  BY <1>2, <1>3, <1>4, <1>5 DEF UprListener
(* A round of lift() comes after two of upr(): what was seen before the last  *)
(* round of lift() was answered since, or the answer was lost.                *)
LEMMA LiftRoundTimely ==
  ASSUME MinTicks >= 2, IInv, HallOK, NEW i \in Lifts, TimelyLift(i), LiftRound(i)
  PROVE  TimelyLift(i)'
<1> DEFINE c == car[i]
           d == Round(c)
<1>1. /\ Running(c) /\ car'[i] = d
      /\ ticks[i] >= 2 /\ ticks'[i] = 0
      /\ UNCHANGED <<current, naredba, to_lift, to_upr, losses>>
  <2>1. ticks[i] \in Nat /\ MinTicks \in Nat
    BY BoundsAssumption DEF HallOK
  <2> QED  BY <2>1 DEF LiftRound, IInv, HallOK, uprVars, netVars
<1>2. /\ c \in SoundCars /\ StopsPlaced(i) /\ News(i) /\ StopsFit(i)
      /\ losses \in Nat /\ ticks[i] \in Nat
  BY DEF TimelyLift, HallOK
<1> HIDE DEF c, d
<1>3. /\ \A r : SeenNow(r, c) => SeenBefore(r, d)
      /\ \A r : SeenBefore(r, c) /\ ~Running(d) => SeenBefore(r, d)
      /\ d \in SoundCars
  BY <1>1, <1>2, RoundNews, RoundSound DEF d, Running
<1>4. News(i)'
  <2> SUFFICES ASSUME losses <= 1 PROVE ReportsTrue(i)' /\ KnowsLift(i)'
    BY <1>1 DEF News
  <2>1. ReportsTrue(i) /\ KnowsLift(i)
    BY <1>2 DEF News
  <2>2. ~(ticks[i] = 0) /\ ~(ticks[i] <= losses) /\ 0 <= losses
        /\ (ticks[i] <= losses + 1 => losses = 1)
    BY <1>1, <1>2
  <2>3. \A m \in Range(to_upr) : IsReport(m, i) => SeenNow(m.data, c)
    BY <2>1, <2>2 DEF ReportsTrue, c
  <2>4. ReportsTrue(i)'
    BY <1>1, <1>3, <2>3 DEF ReportsTrue, IsReport
  <2>5. Asked(i)' <=> Asked(i)
    BY <1>1 DEF Asked, IsReport, AsksStatus
  <2>6. \/ current[i].state = UNKNOWN /\ current[i].im_floor = 0
        \/ SeenNow(current[i], c)
        \/ Asked(i) /\ SeenBefore(current[i], c) /\ losses = 1
    BY <2>1, <2>2, Zenon DEF KnowsLift, c
  <2>7. KnowsLift(i)'
    <3>1. CASE current[i].state = UNKNOWN /\ current[i].im_floor = 0
      BY <1>1, <3>1 DEF KnowsLift
    <3>2. CASE SeenBefore(current[i], d)
      BY <1>1, <2>2, <3>2 DEF KnowsLift
    <3>3. CASE Asked(i) /\ losses = 1 /\ Running(d)
      BY <1>1, <2>5, <3>3 DEF KnowsLift
    <3> QED  BY <1>3, <2>6, <3>1, <3>2, <3>3
  <2> QED  BY <2>4, <2>7
<1>5. StopsFit(i)'
  <2> SUFFICES ASSUME losses = 0 PROVE StopsFit(i)'
    BY <1>1 DEF StopsFit
  <2>1. /\ c.im_floor = 2 => d.im_floor # 0 /\ d.state \in MovingStates \cup {S_STOJI}
        /\ d.stop => /\ c.stop
                     /\ c.state \in MovingStates => d.state \in MovingStates \cup {S_STOJI}
    BY <1>1, <1>2, RoundFields DEF d
  <2>2. c.stop => c.state \in MovingStates
    BY <1>1, <1>2 DEF StopsFit, Running, c
  <2>3. ASSUME NEW m \in Range(to_lift[i]), IsStop(m) PROVE StopInTime(i)'
    <3>1. StopInTime(i)
      BY <1>2, <2>3 DEF StopsFit
    <3>2. c.im_floor = 2
      BY <1>1, <1>2, <3>1 DEF StopInTime, Running, c
    <3> QED  BY <1>1, <2>1, <3>2 DEF StopInTime
  <2> QED  BY <1>1, <2>1, <2>2, <2>3 DEF StopsFit, IsStop
<1>6. StopsPlaced(i)'
  BY <1>1, <1>2 DEF StopsPlaced
<1> QED  BY <1>1, <1>3, <1>4, <1>5, <1>6 DEF TimelyLift

(* The listener of lift i. *)
LEMMA LiftListenerTimely ==
  ASSUME IInv, HallOK, NEW i \in Lifts, TimelyLift(i), LiftListener(i)
  PROVE  TimelyLift(i)'
<1> DEFINE m == Head(to_lift[i])
<1>1. /\ to_lift[i] \in Seq(LiftMessages) /\ to_upr \in Seq(UprMessages)
      /\ car[i] \in SoundCars /\ StopsPlaced(i) /\ News(i) /\ StopsFit(i)
      /\ losses \in Nat /\ ticks[i] \in Nat
  BY DEF IInv, HallOK, TimelyLift
<1>2. to_lift[i] # <<>> => /\ Range(to_lift[i]) = {m} \cup Range(Tail(to_lift[i]))
                           /\ m \in LiftMessages
  BY <1>1, RangeOfQueues, HeadTailProperties
<1>3. ASSUME NEW type, TakeFrom(i, type)
      PROVE  /\ Running(car[i]) /\ to_lift[i] # <<>> /\ m.type = type
             /\ to_lift'[i] = Tail(to_lift[i])
  BY <1>3 DEF TakeFrom, IInv
<1> HIDE DEF m
<1>4. CASE LiftLamp(i)
  <2>1. UNCHANGED <<car, current, naredba, to_upr, ticks, losses>>
    BY <1>4 DEF LiftLamp, uprVars, bounds
  <2>2. /\ to_lift[i] # <<>> /\ to_lift'[i] = Tail(to_lift[i])
        /\ m.type # "LIFT_ACTION_START"
    BY <1>3, <1>4 DEF LiftLamp
  <2>3. LiftQueueKept(i)
    BY <2>2 DEF LiftQueueKept, AsksStatus, m
  <2> QED  BY <2>1, <2>3, UntouchedLift DEF UprQueueKept
<1>5. CASE LiftAction(i)
  <2> DEFINE a == m.data
             d == TakeAction(car[i], a)
  <2>1. /\ UNCHANGED <<current, naredba, to_upr, ticks, losses>>
        /\ car'[i] = d /\ a # A_LIFT_STATUS
    BY <1>5 DEF LiftAction, uprVars, bounds, IInv, m
  <2>2. /\ to_lift[i] # <<>> /\ to_lift'[i] = Tail(to_lift[i])
        /\ m.type = "LIFT_ACTION_START"
    BY <1>3, <1>5 DEF LiftAction
  <2>3. a \in Commands
    BY <1>2, <2>1, <2>2, MessageTypes
  <2>4. /\ d.floor = car[i].floor /\ d.im_floor = car[i].im_floor
        /\ d.door = car[i].door /\ d.state = car[i].state
        /\ d.direction = car[i].direction
        /\ d.stop = (car[i].stop \/ a = A_LIFT_STANI_NA_KATU)
        /\ d \in SoundCars
    BY <1>1, <2>3, TakeActionSame
  <2>5. ~AsksStatus(m)
    BY <2>1 DEF AsksStatus
  <2> HIDE DEF a, d
  <2>6. News(i)'
    <3>1. Unseen(i)
      BY <2>1, <2>4 DEF Unseen, Spot
    <3>2. LiftQueueKept(i) /\ UprQueueKept(i)
      BY <2>1, <2>2, <2>5 DEF LiftQueueKept, UprQueueKept, m
    <3> QED  BY <1>1, <3>1, <3>2, QueuesKept, NewsStays
  <2>7. StopsFit(i)'
    <3> SUFFICES ASSUME losses = 0 PROVE StopsFit(i)'
      BY <2>1 DEF StopsFit
    <3>1. StopInTime(i)' <=> StopInTime(i)
      BY <2>1, <2>4 DEF StopInTime
    <3>2. \A n \in Range(to_lift[i]) : IsStop(n) => StopInTime(i)
      BY <1>1 DEF StopsFit
    <3>3. \A n \in Range(to_lift'[i]) : IsStop(n) => StopInTime(i)'
      BY <1>2, <2>2, <3>1, <3>2
    <3>4. a = A_LIFT_STANI_NA_KATU => StopInTime(i)
      BY <1>2, <2>2, <3>2 DEF IsStop, a
    <3>5. d.stop => d.state \in MovingStates \cup {S_STOJI}
      BY <1>1, <2>4, <3>4 DEF StopsFit, StopInTime
    <3> QED  BY <2>1, <3>3, <3>5 DEF StopsFit, IsStop
  <2>8. StopsPlaced(i)'
    BY <1>1, <2>1 DEF StopsPlaced
  <2>9. ~Running(car'[i]) => ticks'[i] = 0
    BY <2>1, <2>4 DEF TimelyLift, Running
  <2> QED  BY <2>1, <2>4, <2>6, <2>7, <2>8, <2>9 DEF TimelyLift
<1>6. CASE LiftStatus(i)
  <2> DEFINE report == Msg("LIFT_STATUS_REPORT", i, to_string(car[i]))
  <2>1. /\ UNCHANGED <<car, current, naredba, ticks, losses>>
        /\ to_upr' = Append(to_upr, report)
    BY <1>6 DEF LiftStatus, liftVars, uprVars, bounds
  <2>2. to_lift[i] # <<>> /\ to_lift'[i] = Tail(to_lift[i])
    BY <1>3, <1>6 DEF LiftStatus
  <2>3. report \in UprMessages
    <3>1. car[i] \in Cars
      BY <1>1 DEF SoundCars, SafeCars
    <3>2. to_string(car[i]) \in Reports
      BY <3>1 DEF to_string, Reports, Cars
    <3> QED  BY <3>2, MessagesMade
  <2>4. IsReport(report, i) /\ SeenNow(report.data, car[i])
    BY DEF IsReport, Msg, SeenNow, Spot, to_string
  <2> HIDE DEF report
  <2>5. Range(to_upr') = Range(to_upr) \cup {report}
    BY <1>1, <2>1, <2>3, RangeOfQueues
  <2>6. News(i)'
    <3> SUFFICES ASSUME losses <= 1 PROVE ReportsTrue(i)' /\ KnowsLift(i)'
      BY <2>1 DEF News
    <3>1. ReportsTrue(i) /\ KnowsLift(i)
      BY <1>1 DEF News
    <3>2. ReportsTrue(i)'
      BY <2>1, <2>4, <2>5, <3>1 DEF ReportsTrue, IsReport
    <3>3. Asked(i)'
      BY <2>4, <2>5 DEF Asked, IsReport
    <3>4. KnowsLift(i)'
      BY <2>1, <3>1, <3>3, Zenon DEF KnowsLift
    <3> QED  BY <3>2, <3>4
  <2>7. StopsFit(i)'
    <3>1. \A n \in Range(to_lift'[i]) : IsStop(n) => n \in Range(to_lift[i])
      BY <1>2, <2>2
    <3> QED  BY <1>1, <2>1, <3>1, StopsStay
  <2>8. StopsPlaced(i)'
    BY <1>1, <2>1 DEF StopsPlaced
  <2> QED  BY <2>1, <2>6, <2>7, <2>8 DEF TimelyLift
<1>7. CASE LiftGone(i)
  <2>1. /\ UNCHANGED <<car, current, naredba, to_upr, ticks, losses>>
        /\ ~Running(car[i]) /\ to_lift'[i] = <<>>
    BY <1>7 DEF LiftGone, liftVars, uprVars, bounds, IInv
  <2>2. Range(to_lift'[i]) = {}
    BY <2>1, RangeOfQueues
  <2>3. ticks[i] = 0
    BY <2>1 DEF TimelyLift
  <2>4. News(i)'
    <3> SUFFICES ASSUME losses <= 1 PROVE ReportsTrue(i)' /\ KnowsLift(i)'
      BY <2>1 DEF News
    <3>1. ReportsTrue(i) /\ KnowsLift(i)
      BY <1>1 DEF News
    <3>2. ReportsTrue(i)'
      BY <2>1, <3>1 DEF ReportsTrue, IsReport
    <3>3. \/ current[i].state = UNKNOWN /\ current[i].im_floor = 0
          \/ SeenNow(current[i], car[i])
          \/ SeenBefore(current[i], car[i])
      BY <2>1, <3>1, Zenon DEF KnowsLift
    <3>4. ticks[i] <= losses
      BY <1>1, <2>3
    <3>5. KnowsLift(i)'
      BY <2>1, <3>3, <3>4, Zenon DEF KnowsLift
    <3> QED  BY <3>2, <3>5
  <2>5. StopsFit(i)'
    BY <1>1, <2>1, <2>2, StopsStay
  <2>6. StopsPlaced(i)'
    BY <1>1, <2>1 DEF StopsPlaced
  <2> QED  BY <2>1, <2>4, <2>5, <2>6 DEF TimelyLift
<1> QED  BY <1>4, <1>5, <1>6, <1>7 DEF LiftListener
(* What another lift does. *)
LEMMA OtherLiftTimely ==
  ASSUME IInv, HallOK, NEW i \in Lifts, TimelyLift(i), NEW j \in Lifts, j # i,
         LiftRound(j) \/ LiftListener(j)
  PROVE  TimelyLift(i)'
<1>1. /\ UNCHANGED <<current, naredba, losses>>
      /\ car'[i] = car[i] /\ ticks'[i] = ticks[i] /\ to_lift'[i] = to_lift[i]
  BY DEF LiftRound, LiftListener, LiftLamp, LiftAction, LiftStatus, LiftGone, TakeFrom,
         IInv, HallOK, liftVars, uprVars, netVars, bounds
<1>2. CASE ~LiftStatus(j)
  <2>1. to_upr' = to_upr
    BY <1>2 DEF LiftRound, LiftListener, LiftLamp, LiftAction, LiftGone, netVars
  <2> QED  BY <1>1, <2>1, UntouchedLift DEF UprQueueKept, LiftQueueKept
<1>3. CASE LiftStatus(j)
  <2> DEFINE report == Msg("LIFT_STATUS_REPORT", j, to_string(car[j]))
  <2>1. to_upr' = Append(to_upr, report)
    BY <1>3 DEF LiftStatus
  <2>2. report \in UprMessages
    <3>1. car[j] \in Cars
      BY DEF IInv, SafeCars
    <3>2. to_string(car[j]) \in Reports
      BY <3>1 DEF to_string, Reports, Cars
    <3> QED  BY <3>2, MessagesMade
  <2>3. ~IsReport(report, i)
    BY DEF IsReport, Msg
  <2> QED  BY <1>1, <2>1, <2>2, <2>3, UntouchedLift DEF UprQueueKept, LiftQueueKept
<1> QED  BY <1>2, <1>3

LEMMA PassengersTimely ==
  ASSUME IInv, HallOK, NEW i \in Lifts, TimelyLift(i), Passengers
  PROVE  TimelyLift(i)'
<1>1. ASSUME NEW m \in UprMessages, ~IsReport(m, i), Send(m) PROVE TimelyLift(i)'
  <2>1. /\ UNCHANGED <<car, current, naredba, to_lift, ticks, losses>>
        /\ to_upr' = Append(to_upr, m)
    BY <1>1 DEF Send, liftVars, uprVars
  <2> QED  BY <1>1, <2>1, UntouchedLift DEF UprQueueKept, LiftQueueKept
<1>2. ASSUME NEW j \in Lifts, PressStop(j) PROVE TimelyLift(i)'
  <2>1. Msg("LIFT_STOP", j, 0) \in UprMessages /\ ~IsReport(Msg("LIFT_STOP", j, 0), i)
    BY MessagesMade, FloorsAssumption DEF Floors, IsReport, Msg
  <2> QED  BY <1>1, <1>2, <2>1 DEF PressStop
<1>3. ASSUME NEW j \in Lifts, NEW f \in Floors, PressCabin(j, f) PROVE TimelyLift(i)'
  <2>1. /\ Msg("LIFT_KEY_PRESSED", j, f) \in UprMessages
        /\ ~IsReport(Msg("LIFT_KEY_PRESSED", j, f), i)
    BY MessagesMade DEF IsReport, Msg
  <2> QED  BY <1>1, <1>3, <2>1 DEF PressCabin
<1>4. ASSUME NEW k \in HallKeys, PressHall(k) PROVE TimelyLift(i)'
  <2>1. /\ Msg("TIPKE_KEY_PRESSED", 0, k) \in UprMessages
        /\ ~IsReport(Msg("TIPKE_KEY_PRESSED", 0, k), i)
    BY MessagesMade DEF IsReport, Msg, HallKeys
  <2> QED  BY <1>1, <1>4, <2>1 DEF PressHall
<1> QED  BY <1>2, <1>3, <1>4 DEF Passengers

(* The first datagram lost may be an answer: one round more is forgiven. *)
LEMMA LoseTimely ==
  ASSUME IInv, HallOK, NEW i \in Lifts, TimelyLift(i), Lose
  PROVE  TimelyLift(i)'
<1>1. /\ UNCHANGED <<car, current, naredba, ticks>> /\ losses' = losses + 1
      /\ losses \in Nat /\ ticks[i] \in Nat
  BY DEF Lose, liftVars, uprVars, HallOK
<1>2. \A m \in Range(to_upr') : m \in Range(to_upr)
  <2>1. to_upr # <<>> => Range(to_upr) = {Head(to_upr)} \cup Range(Tail(to_upr))
    BY RangeOfQueues DEF IInv
  <2>2. to_upr' = to_upr \/ (to_upr # <<>> /\ to_upr' = Tail(to_upr))
    BY Zenon DEF Lose
  <2> QED  BY <2>1, <2>2
<1>3. News(i)'
  <2> SUFFICES ASSUME losses = 0 PROVE ReportsTrue(i)' /\ KnowsLift(i)'
    BY <1>1 DEF News
  <2>1. ReportsTrue(i) /\ KnowsLift(i)
    BY DEF TimelyLift, News
  <2>2. ReportsTrue(i)'
    BY <1>1, <1>2, <2>1 DEF ReportsTrue, IsReport
  <2>3. \/ current[i].state = UNKNOWN /\ current[i].im_floor = 0
        \/ SeenNow(current[i], car[i])
        \/ SeenBefore(current[i], car[i]) /\ ticks[i] <= losses + 1
    BY <1>1, <2>1 DEF KnowsLift
  <2>4. KnowsLift(i)'
    BY <1>1, <2>3, Zenon DEF KnowsLift
  <2> QED  BY <2>2, <2>4
<1>4. StopsFit(i)'
  BY <1>1 DEF StopsFit
<1>5. StopsPlaced(i)'
  BY <1>1 DEF TimelyLift, StopsPlaced
<1> QED  BY <1>1, <1>3, <1>4, <1>5 DEF TimelyLift

LEMMA NextTimely ==
  ASSUME MinTicks >= 2, IInv, HallOK, Timely, [Next]_vars
  PROVE  Timely'
<1> SUFFICES ASSUME NEW i \in Lifts PROVE TimelyLift(i)'
  BY DEF Timely
<1>1. TimelyLift(i)
  BY DEF Timely
<1>2. CASE UprRound \/ UprListener
  BY <1>1, <1>2, UprRoundTimely, UprListenerTimely
<1>3. ASSUME NEW j \in Lifts, LiftRound(j) \/ LiftListener(j) PROVE TimelyLift(i)'
  BY <1>1, <1>3, OtherLiftTimely, LiftRoundTimely, LiftListenerTimely
<1>4. CASE Passengers \/ Lose
  BY <1>1, <1>4, PassengersTimely, LoseTimely
<1>5. CASE TipkeListener \/ UNCHANGED vars
  <2>1. UNCHANGED <<car, current, naredba, to_lift, to_upr, ticks, losses>>
    BY <1>5 DEF TipkeListener, vars, liftVars, uprVars, netVars, bounds
  <2> QED  BY <1>1, <2>1, UntouchedLift DEF UprQueueKept, LiftQueueKept
<1> QED  BY <1>2, <1>3, <1>4, <1>5 DEF Next, Program

LEMMA InitTimely == Init => Timely
<1> SUFFICES ASSUME Init, NEW i \in Lifts PROVE TimelyLift(i)
  BY DEF Timely
<1>1. /\ car[i] = InitialCar /\ ticks[i] = 0 /\ naredba[i] = {} /\ to_upr = <<>>
      /\ to_lift[i] = <<Action(i, A_LIFT_STATUS)>>
      /\ current[i].state = UNKNOWN /\ current[i].im_floor = 0
  BY DEF Init
<1>2. InitialCar \in SoundCars
  <2>1. InitialCar \in SafeCars
    BY InitInvariant, <1>1 DEF IInv
  <2> QED  BY <2>1 DEF SoundCars, Sound, InitialCar, S_STOJI_ZATVOREN, S_STOJI_OTVOREN,
                       S_ZATVARA_VRATA
<1>3. News(i)
  <2>1. ReportsTrue(i)
    BY <1>1, RangeOfQueues DEF ReportsTrue
  <2> QED  BY <1>1, <2>1 DEF News, KnowsLift
<1>4. StopsFit(i)
  <2>1. Range(to_lift[i]) = {Action(i, A_LIFT_STATUS)}
    BY <1>1 DEF Range
  <2>2. ~IsStop(Action(i, A_LIFT_STATUS)) /\ ~InitialCar.stop
    BY DEF IsStop, Action, Msg, A_LIFT_STATUS, A_LIFT_STANI_NA_KATU, InitialCar
  <2> QED  BY <1>1, <2>1, <2>2 DEF StopsFit
<1> QED  BY <1>1, <1>2, <1>3, <1>4 DEF TimelyLift, StopsPlaced

LEMMA TimelyInvariant ==
  ASSUME MinTicks >= 2
  PROVE  Spec => []Timely
BY InitTimely, Invariant, HallInvariant, NextTimely, PTL DEF Spec

(* With two rounds of upr() to a round of lift(), as constants.h has it, a    *)
(* stop that upr sends reaches the lift on the trip it is meant for: unless a *)
(* datagram is lost, none is left over to end a later trip too soon.          *)
THEOREM NoStopLeftOver ==
  ASSUME MinTicks >= 2
  PROVE  Spec => []NoLeftoverStop
<1>1. Timely => NoLeftoverStop
  BY DEF Timely, TimelyLift, StopsFit, NoLeftoverStop
<1> QED  BY <1>1, TimelyInvariant, PTL
LEMMA DoorIsOpen ==
  ASSUME IInv, HallOK, NEW i \in Lifts, TimelyLift(i), Answered, losses <= 1, DoorOpen(i)
  PROVE  OpenAt(i, current[i].floor) /\ car[i].direction = current[i].direction
<1>1. ~Asked(i)
  <2>1. to_lift[i] = <<>> /\ \A m \in Range(to_upr) : ~IsReport(m, i)
    BY DEF Answered, IsReport, Range
  <2>2. Range(to_lift[i]) = {}
    BY <2>1, RangeOfQueues
  <2> QED  BY <2>1, <2>2 DEF Asked
<1>2. KnowsLift(i) /\ car[i] \in SoundCars
  BY DEF TimelyLift, News
<1>3. current[i].state # UNKNOWN
  BY DEF DoorOpen, UNKNOWN, S_STOJI_OTVOREN
<1>4. SeenNow(current[i], car[i]) \/ SeenBefore(current[i], car[i])
  BY <1>1, <1>2, <1>3, Zenon DEF KnowsLift
<1> QED  BY <1>2, <1>4, NewsFits DEF DoorOpen, OpenAt

(* The steps of ServedWithDoorOpen. *)
ServedStep ==
  losses' <= 1 =>
    /\ \A i \in Lifts :
         \A f \in (stani[i] \ stani'[i]) \cup (tipke_u_liftu[i] \ tipke_u_liftu'[i]) :
           OpenAt(i, f)
    /\ \A k \in Keys : tipke_na_katu[k] # 0 /\ tipke_na_katu'[k] = 0 =>
         \E i \in Lifts : OpenAt(i, k.floor) /\ car[i].direction = k.direction

LEMMA UprRoundServes ==
  ASSUME IInv, HallOK, Timely, UprRound
  PROVE  ServedStep
<1> SUFFICES ASSUME losses' <= 1
             PROVE  /\ \A i \in Lifts : \A f \in (stani[i] \ stani'[i])
                                \cup (tipke_u_liftu[i] \ tipke_u_liftu'[i]) : OpenAt(i, f)
                    /\ \A k \in Keys : tipke_na_katu[k] # 0 /\ tipke_na_katu'[k] = 0 =>
                         \E i \in Lifts : OpenAt(i, k.floor) /\ car[i].direction = k.direction
  BY DEF ServedStep
<1>1. Answered /\ losses <= 1
  BY DEF UprRound
<1>2. \A i \in Lifts : DoorOpen(i) => /\ OpenAt(i, current[i].floor)
                                     /\ car[i].direction = current[i].direction
  BY <1>1, DoorIsOpen DEF Timely
<1>3. ASSUME NEW i \in Lifts,
             NEW f \in (stani[i] \ stani'[i]) \cup (tipke_u_liftu[i] \ tipke_u_liftu'[i])
      PROVE  OpenAt(i, f)
  <2>1. /\ stani'[i] = Kept(i, Wanted(i))
        /\ tipke_u_liftu'[i] = Kept(i, tipke_u_liftu[i])
    BY DEF UprRound
  <2>2. stani[i] \subseteq Wanted(i)
    BY DEF Wanted
  <2>3. DoorOpen(i) /\ f = current[i].floor
    BY <1>3, <2>1, <2>2 DEF Kept
  <2> QED  BY <1>2, <2>3
<1>4. ASSUME NEW k \in Keys, tipke_na_katu[k] # 0, tipke_na_katu'[k] = 0
      PROVE  \E i \in Lifts : OpenAt(i, k.floor) /\ car[i].direction = k.direction
  <2>1. CallAfter(k) = 0
    BY <1>4 DEF UprRound
  <2>2. PICK i \in Lifts : DoorOpen(i) /\ CallServed(i) = k
    BY <1>4, <2>1 DEF CallAfter
  <2>3. k.floor = current[i].floor /\ k.direction = current[i].direction
    BY <2>2 DEF CallServed, Key
  <2> QED  BY <1>2, <2>2, <2>3
<1> QED  BY <1>3, <1>4

LEMMA NextServes ==
  ASSUME IInv, HallOK, Timely, [Next]_vars
  PROVE  ServedStep
<1>1. ASSUME UNCHANGED <<stani, tipke_u_liftu, tipke_na_katu>> PROVE ServedStep
  BY <1>1 DEF ServedStep
<1>2. CASE UprListener
  <2>1. CASE HallKey
    <3>1. Head(to_upr).data \in Keys
      BY <2>1, ReceiveType, MessageTypes DEF HallKey
    <3>2. \A k \in Keys : tipke_na_katu'[k] \in {1, tipke_na_katu[k]}
      BY <2>1, <3>1 DEF HallKey, HallOK
    <3>3. UNCHANGED <<stani, tipke_u_liftu>>
      BY <2>1 DEF HallKey
    <3> QED  BY <3>2, <3>3 DEF ServedStep
  <2>2. CASE CabinKey
    <3>1. \A i \in Lifts : tipke_u_liftu[i] \subseteq tipke_u_liftu'[i]
      BY <2>2 DEF CabinKey, IInv
    <3>2. UNCHANGED <<stani, tipke_na_katu>>
      BY <2>2 DEF CabinKey
    <3> QED  BY <3>1, <3>2 DEF ServedStep
  <2>3. CASE SendLamp \/ Report \/ Stop
    BY <1>1, <2>3 DEF SendLamp, Report, Stop, uprVars
  <2> QED  BY <1>2, <2>1, <2>2, <2>3 DEF UprListener
<1>3. CASE TipkeListener \/ Passengers \/ Lose \/ UNCHANGED vars
  <2>1. UNCHANGED uprVars
    BY <1>3 DEF TipkeListener, Passengers, PressStop, PressCabin, PressHall, Send, Lose, vars
  <2> QED  BY <1>1, <2>1 DEF uprVars
<1>4. ASSUME NEW i \in Lifts, LiftRound(i) \/ LiftListener(i) PROVE ServedStep
  <2>1. UNCHANGED uprVars
    BY <1>4 DEF LiftRound, LiftListener, LiftLamp, LiftAction, LiftStatus, LiftGone
  <2> QED  BY <1>1, <2>1 DEF uprVars
<1> QED  BY <1>2, <1>3, <1>4, UprRoundServes DEF Next, Program

(* Though upr acts on old reports, it forgets a floor or a call only while a  *)
(* lift stands there with its door open, and a call only if that lift came in *)
(* the direction of the call, even if one datagram was lost.                  *)
THEOREM ForgetsOnlyAtOpenDoors ==
  ASSUME MinTicks >= 2
  PROVE  Spec => ServedWithDoorOpen
<1>1. IInv /\ HallOK /\ Timely /\ [Next]_vars => [ServedStep]_vars
  BY NextServes
<1> QED  BY <1>1, Invariant, HallInvariant, TimelyInvariant, PTL
         DEF Spec, ServedWithDoorOpen, ServedStep

------------------------------------------------------------------------------
(* The course of a lift, as long as no datagram is lost: what upr knows of it, *)
(* what it has entered and sent for it, and the floors where it has to stop.   *)

(* What a round of lift() does to a car that is not stopped for good. *)
Level(c) == 4 * c.floor + c.im_floor

(* One quarter of a floor up or down; a lift told to stop does so at a floor. *)
Travels(c, d) ==
  /\ d.direction = c.direction /\ d.door = c.door
  /\ \/ c.state = S_IDE_GORE /\ Level(d) = Level(c) + 1
     \/ c.state = S_IDE_DOLE /\ Level(d) = Level(c) - 1
  /\ \/ d.state = c.state /\ d.stop = c.stop /\ (d.im_floor = 0 => ~c.stop)
     \/ d.state = S_STOJI_ZATVOREN /\ d.im_floor = 0 /\ c.stop /\ ~d.stop

(* The door opens or closes to the end. *)
WorksDoor(c, d) ==
  /\ d.floor = c.floor /\ d.im_floor = c.im_floor
  /\ d.direction = c.direction /\ d.stop = c.stop /\ c.action = A_OBRADENO
  /\ \/ /\ c.state = S_OTVARA_VRATA
        /\ d.state = S_STOJI_OTVOREN /\ d.door = V_OTVORENA
     \/ /\ c.state = S_ZATVARA_VRATA
        /\ d.state = S_STOJI_ZATVOREN /\ d.door = V_ZATVORENA

Steps(c, d) ==
  /\ d.action \notin QueuedActions
  /\ \/ Spot(d) = Spot(c) /\ d.stop = c.stop /\ Obeys(c, d)
     \/ WorksDoor(c, d)
     \/ Travels(c, d)

(* Travelling leaves the door alone. *)
LEMMA MovesDoor ==
  ASSUME NEW c \in Cars, c.state \in MovingStates
  PROVE  Advance(c).door = c.door
<1>1. \A e \in Cars : Arrive(e).door = e.door
  BY DEF Arrive, Cars
<1>2. CASE c.state = S_IDE_GORE
  <2>1. Advance(c) = MoveUp(c)
    BY <1>2 DEF Advance, S_OTVARA_VRATA, S_ZATVARA_VRATA, S_IDE_GORE, S_IDE_DOLE
  <2> DEFINE e == [c EXCEPT !.im_floor = 0, !.floor = c.floor + 1]
  <2>2. Arrive(e).door = c.door
    BY DEF Arrive, Cars
  <2>3. CASE c.im_floor = 3
    BY <2>1, <2>2, <2>3 DEF MoveUp
  <2>4. CASE c.im_floor # 3 /\ c.floor < FLOORS - 1
    BY <2>1, <2>4 DEF MoveUp, Cars
  <2>5. CASE c.im_floor # 3 /\ ~(c.floor < FLOORS - 1)
    BY <2>1, <2>5 DEF MoveUp
  <2> QED  BY <2>3, <2>4, <2>5
<1>3. CASE c.state = S_IDE_DOLE
  <2>1. Advance(c) = MoveDown(c)
    BY <1>3 DEF Advance, S_OTVARA_VRATA, S_ZATVARA_VRATA, S_IDE_GORE, S_IDE_DOLE
  <2>2. c.im_floor \in 0 .. 3
    BY DEF Cars, Quarters
  <2>3. CASE c.im_floor > 1
    BY <2>1, <2>3 DEF MoveDown, Cars
  <2>4. CASE c.im_floor = 1
    <3>1. MoveDown(c) = Arrive([c EXCEPT !.im_floor = 0])
      BY <2>4 DEF MoveDown
    <3>2. Arrive([c EXCEPT !.im_floor = 0]).door = c.door
      BY DEF Arrive, Cars
    <3> QED  BY <2>1, <3>1, <3>2
  <2>5. CASE c.im_floor = 0 /\ c.floor > 0
    BY <2>1, <2>5 DEF MoveDown, Cars
  <2>6. CASE c.im_floor = 0 /\ ~(c.floor > 0)
    BY <2>1, <2>6 DEF MoveDown
  <2> QED  BY <2>2, <2>3, <2>4, <2>5, <2>6
<1> QED  BY <1>2, <1>3 DEF MovingStates

(* A round of lift(): it waits or obeys, works its door, or travels. *)
LEMMA RoundSteps ==
  ASSUME NEW c \in SoundCars, Running(c), NEW d, d = Round(c), Running(d)
  PROVE  Steps(c, d)
<1>1. /\ c \in Cars /\ c \in SafeCars /\ Sound(c) /\ c.state \in LiftStates
      /\ c.floor \in Nat /\ c.im_floor \in 0 .. 3
      /\ c.state # S_STOJI /\ d.state # S_STOJI
      /\ c.stop \in BOOLEAN
  BY FloorsAssumption DEF SoundCars, SafeCars, Cars, Quarters, Floors, Running
<1>2. CASE c.action = A_UNDEF
  <2>1. d = c
    BY <1>2 DEF Round, A_UNDEF, A_OBRADENO
  <2>2. A_UNDEF \notin QueuedActions
    BY DEF QueuedActions, A_UNDEF, A_LIFT_GORE, A_LIFT_DOLE,
                A_LIFT_STANI, A_LIFT_OTVORI, A_LIFT_ZATVORI
  <2> QED  BY <1>2, <2>1, <2>2 DEF Steps, Obeys
<1>3. CASE c.action = A_OBRADENO
  <2>0. A_OBRADENO \notin QueuedActions
    BY DEF QueuedActions, A_OBRADENO, A_LIFT_GORE, A_LIFT_DOLE,
                A_LIFT_STANI, A_LIFT_OTVORI, A_LIFT_ZATVORI
  <2>1. d = Advance(c)
    BY <1>3 DEF Round, A_UNDEF, A_OBRADENO
  <2>2. CASE c.state = S_OTVARA_VRATA
    <3>1. d = [c EXCEPT !.state = S_STOJI_OTVOREN, !.door = V_OTVORENA]
      BY <2>1, <2>2 DEF Advance, S_OTVARA_VRATA, S_ZATVARA_VRATA, S_IDE_GORE,
                          S_IDE_DOLE
    <3>2. d.action = A_OBRADENO /\ WorksDoor(c, d)
      BY <1>1, <1>3, <2>2, <3>1 DEF Cars, WorksDoor
    <3> QED  BY <2>0, <3>2 DEF Steps
  <2>3. CASE c.state = S_ZATVARA_VRATA
    <3>1. d = [c EXCEPT !.state = S_STOJI_ZATVOREN, !.door = V_ZATVORENA]
      BY <2>1, <2>3 DEF Advance, S_OTVARA_VRATA, S_ZATVARA_VRATA, S_IDE_GORE,
                          S_IDE_DOLE
    <3>2. d.action = A_OBRADENO /\ WorksDoor(c, d)
      BY <1>1, <1>3, <2>3, <3>1 DEF Cars, WorksDoor
    <3> QED  BY <2>0, <3>2 DEF Steps
  <2>4. CASE c.state = S_IDE_GORE
    <3>1. /\ d.direction = c.direction /\ d.action = c.action
          /\ \/ /\ c.im_floor < 3
                /\ d.im_floor = c.im_floor + 1 /\ d.floor = c.floor
                /\ d.state = c.state /\ d.stop = c.stop
             \/ Same(c, d)
             \/ /\ c.im_floor >= 3
                /\ d.im_floor = 0 /\ d.floor = c.floor + 1
                /\ c.stop => d.state = S_STOJI_ZATVOREN /\ d.stop = FALSE
                /\ ~c.stop => d.state = c.state /\ d.stop = c.stop
      BY <1>1, <2>1, <2>4, UpResult, Zenon
    <3>2. d.door = c.door
      BY <1>1, <2>1, <2>4, MovesDoor DEF MovingStates
    <3>3. CASE Same(c, d)
      BY <1>3, <2>0, <3>2, <3>3 DEF Same, Steps, Obeys, Spot
    <3>4. CASE c.im_floor < 3 /\ d.im_floor = c.im_floor + 1 /\ d.floor = c.floor
               /\ d.state = c.state /\ d.stop = c.stop
      <4>1. Travels(c, d)
        BY <1>1, <2>4, <3>1, <3>2, <3>4 DEF Travels, Level
      <4> QED  BY <1>3, <2>0, <3>1, <4>1 DEF Steps
    <3>5. CASE /\ c.im_floor >= 3
               /\ d.im_floor = 0 /\ d.floor = c.floor + 1
               /\ c.stop => d.state = S_STOJI_ZATVOREN /\ d.stop = FALSE
               /\ ~c.stop => d.state = c.state /\ d.stop = c.stop
      <4>1. Travels(c, d)
        BY <1>1, <2>4, <3>1, <3>2, <3>5 DEF Travels, Level
      <4> QED  BY <1>3, <2>0, <3>1, <4>1 DEF Steps
    <3> QED  BY <3>1, <3>3, <3>4, <3>5
  <2>5. CASE c.state = S_IDE_DOLE
    <3>1. /\ d.direction = c.direction /\ d.action = c.action
          /\ c.im_floor > 1 =>
                  /\ d.im_floor = c.im_floor - 1 /\ d.floor = c.floor
                  /\ d.state = c.state /\ d.stop = c.stop
          /\ c.im_floor = 1 =>
                  /\ d.im_floor = 0 /\ d.floor = c.floor
                  /\ c.stop => d.state = S_STOJI_ZATVOREN /\ d.stop = FALSE
                  /\ ~c.stop => d.state = c.state /\ d.stop = c.stop
          /\ c.im_floor = 0 /\ c.floor > 0 =>
                  /\ d.im_floor = 3 /\ d.floor = c.floor - 1
                  /\ d.state = c.state /\ d.stop = c.stop
          /\ c.im_floor = 0 /\ ~(c.floor > 0) => Same(c, d)
      BY <1>1, <2>1, <2>5, DownResult, Zenon
    <3>2. d.door = c.door
      BY <1>1, <2>1, <2>5, MovesDoor DEF MovingStates
    <3>3. CASE c.im_floor = 0 /\ ~(c.floor > 0)
      <4>1. Same(c, d)
        BY <3>1, <3>3
      <4> QED  BY <1>3, <2>0, <3>2, <4>1 DEF Same, Steps, Obeys, Spot
    <3>4. CASE c.im_floor = 0 /\ c.floor > 0
      <4>1. Travels(c, d)
        BY <1>1, <2>5, <3>1, <3>2, <3>4 DEF Travels, Level
      <4> QED  BY <1>3, <2>0, <3>1, <4>1 DEF Steps
    <3>5. CASE c.im_floor = 1
      <4>1. Travels(c, d)
        BY <1>1, <2>5, <3>1, <3>2, <3>5 DEF Travels, Level
      <4> QED  BY <1>3, <2>0, <3>1, <4>1 DEF Steps
    <3>6. CASE c.im_floor > 1
      <4>1. Travels(c, d)
        BY <1>1, <2>5, <3>1, <3>2, <3>6 DEF Travels, Level
      <4> QED  BY <1>3, <2>0, <3>1, <4>1 DEF Steps
    <3> QED  BY <1>1, <3>3, <3>4, <3>5, <3>6
  <2>6. CASE c.state \notin {S_OTVARA_VRATA, S_ZATVARA_VRATA, S_IDE_GORE, S_IDE_DOLE}
    <3>1. d = c
      BY <2>1, <2>6 DEF Advance, S_OTVARA_VRATA, S_ZATVARA_VRATA, S_IDE_GORE,
                          S_IDE_DOLE
    <3> QED  BY <1>3, <2>0, <3>1 DEF Steps, Obeys
  <2> QED  BY <2>2, <2>3, <2>4, <2>5, <2>6
<1>4. CASE c.action \in QueuedActions
  <2>1. d = Execute(c)
    BY <1>4 DEF Round, QueuedActions, A_UNDEF, A_OBRADENO, A_LIFT_GORE, A_LIFT_DOLE,
                A_LIFT_STANI, A_LIFT_OTVORI, A_LIFT_ZATVORI
  <2>2. /\ d.floor = c.floor /\ d.im_floor = c.im_floor
        /\ d.door = c.door /\ d.stop = c.stop
        /\ d.action = A_OBRADENO
        /\ d.state = S_STOJI \/ Obeys(c, d)
    BY <1>1, <1>4, <2>1, ExecuteFields
  <2>3. A_OBRADENO \notin QueuedActions
    BY DEF QueuedActions, A_OBRADENO, A_LIFT_GORE, A_LIFT_DOLE,
                A_LIFT_STANI, A_LIFT_OTVORI, A_LIFT_ZATVORI
  <2> QED  BY <1>1, <2>2, <2>3 DEF Steps, Spot
<1>5. c.action \in QueuedActions \cup {A_UNDEF, A_OBRADENO}
  BY <1>1 DEF Cars
<1> QED  BY <1>2, <1>3, <1>4, <1>5

(* Unless a datagram is lost, what upr knows when it decides is what the lift *)
(* shows, or what it showed before a round that no round of upr() followed.   *)
Proper(c) ==
  /\ Running(c) /\ Sound(c)
  /\ c.state = S_IDE_GORE => c.direction = D_UP
  /\ c.state = S_IDE_DOLE => c.direction = D_DOWN
  /\ c.state \in MovingStates \cup {S_STOJI_ZATVOREN} => c.door = V_ZATVORENA
  /\ c.direction = D_STOJI => /\ c.floor = 0 /\ c.door = V_ZATVORENA
                              /\ c.state \in {S_STOJI_ZATVOREN, S_OTVARA_VRATA}

Shows(r, c) == Spot(r) = Spot(c) /\ r.state = c.state /\ r.direction = c.direction

Precedes(r, c) ==
  \/ /\ Spot(r) = Spot(c) /\ r.state = S_STOJI_ZATVOREN
     /\ \/ c.state = S_IDE_GORE /\ c.direction = D_UP
        \/ c.state = S_IDE_DOLE /\ c.direction = D_DOWN
        \/ c.state = S_OTVARA_VRATA /\ c.direction = r.direction
  \/ /\ c.floor = r.floor /\ c.im_floor = r.im_floor /\ c.direction = r.direction
     /\ \/ r.state = S_OTVARA_VRATA /\ c.state = S_STOJI_OTVOREN
        \/ r.state = S_STOJI_OTVOREN /\ c.state = S_ZATVARA_VRATA
        \/ r.state = S_ZATVARA_VRATA /\ c.state = S_STOJI_ZATVOREN
  \/ /\ c.direction = r.direction
     /\ \/ r.state = S_IDE_GORE /\ Level(c) = Level(r) + 1
        \/ r.state = S_IDE_DOLE /\ Level(c) = Level(r) - 1
     /\ c.state = r.state \/ (c.state = S_STOJI_ZATVOREN /\ c.im_floor = 0)

Told(i, r) == /\ Proper(r)
              /\ \/ Shows(r, car[i])
                 \/ Precedes(r, car[i]) /\ ticks[i] = 0

Informed(i) ==
  /\ \A m \in Range(to_upr) : IsReport(m, i) => Told(i, m.data)
  /\ Asked(i) \/ Told(i, current[i])

(* The entries of naredba: stops two quarters before a floor, and doors to    *)
(* open at floors ahead where the lift has to stop; the place where it stands *)
(* is cleared as soon as it is reported.  None is left before the first trip. *)
OpensAhead(i, f, d) ==
  /\ f \in stani[i]
  /\ \/ d = D_UP /\ f > car[i].floor
     \/ d = D_DOWN /\ f < car[i].floor
     \/ d = D_DOWN /\ f = car[i].floor /\ car[i].im_floor # 0 /\ car[i].state = S_IDE_DOLE
     \/ /\ f = car[i].floor /\ car[i].im_floor = 0 /\ d = car[i].direction
        /\ car[i].state \in MovingStates \cup {S_STOJI_ZATVOREN} /\ ticks[i] <= 1

EntryFits(i, e) ==
  \/ e.place[2] = 2 /\ e.action = A_LIFT_STANI_NA_KATU
  \/ /\ e.place[2] = 0 /\ e.place[4] = V_ZATVORENA /\ e.action = A_LIFT_OTVORI
     /\ e.place[3] # D_STOJI /\ OpensAhead(i, e.place[1], e.place[3])

Entered(i) == /\ \A e \in naredba[i] : EntryFits(i, e)
              /\ car[i].direction = D_STOJI => naredba[i] = {}

(* Commands on their way and in the lift, and the floors they are meant for.  *)
IsOrder(m, a) == m.type = "LIFT_ACTION_START" /\ m.data = a
OnWay(i, a)   == \E m \in Range(to_lift[i]) : IsOrder(m, a)

(* A door that a lift opens before its first trip stays closed: in each round *)
(* the lift is told again to open it.                                         *)
NeverOpens(i) ==
  car[i].direction = D_STOJI /\ car[i].state = S_OTVARA_VRATA =>
    /\ 0 \in stani[i]
    /\ ticks[i] >= 1 => \/ car[i].action \in QueuedActions
                        \/ \E a \in QueuedActions : OnWay(i, a)
    /\ ticks[i] >= 2 => car[i].action \in QueuedActions

Fits(i, a) ==
  \/ a = A_LIFT_GORE /\ \E g \in stani[i] : g > car[i].floor
  \/ a = A_LIFT_DOLE /\ \E g \in stani[i] : g < car[i].floor
  \/ a = A_LIFT_OTVORI /\ car[i].floor \in stani[i]
  \/ a \notin {A_LIFT_GORE, A_LIFT_DOLE, A_LIFT_OTVORI}

OrdersFit(i) ==
  /\ \A a \in {A_LIFT_GORE, A_LIFT_DOLE} : OnWay(i, a) =>
       /\ car[i].im_floor = 0 /\ Fits(i, a)
       /\ car[i].state \in MovingStates => ticks[i] <= 1
  /\ OnWay(i, A_LIFT_OTVORI) =>
       /\ car[i].state = S_STOJI_ZATVOREN => Fits(i, A_LIFT_OTVORI)
       /\ car[i].state \in MovingStates => car[i].im_floor = 0 \/ ticks[i] <= 1
       /\ car[i].state \in DoorStates /\ car[i].direction # D_STOJI => ticks[i] <= 1
  /\ car[i].state = S_STOJI_ZATVOREN => Fits(i, car[i].action)

(* A travelling lift has a stop g ahead, and the last quarters before it find *)
(* the stop asked for, on its way or, downwards, still entered in naredba.    *)
Stops(i)     == car[i].stop \/ OnWay(i, A_LIFT_STANI_NA_KATU)
StopsNow(i)  == car[i].stop \/ (OnWay(i, A_LIFT_STANI_NA_KATU) /\ ticks[i] = 0)
Placed(i, g) == Entry(g, 2, D_DOWN, V_ZATVORENA, A_LIFT_STANI_NA_KATU) \in naredba[i]

RisesTo(i, g) ==
  /\ Level(car[i]) < 4 * g
  /\ Level(car[i]) = 4 * g - 2 => Stops(i) \/ ticks[i] <= 1
  /\ Level(car[i]) = 4 * g - 1 => StopsNow(i)

DescendsTo(i, g) ==
  /\ Level(car[i]) > 4 * g
  /\ Level(car[i]) = 4 * g + 4 => Placed(i, g) \/ ticks[i] <= 1
  /\ Level(car[i]) = 4 * g + 3 => Placed(i, g)
  /\ Level(car[i]) = 4 * g + 2 => Stops(i) \/ (Placed(i, g) /\ ticks[i] <= 1)
  /\ Level(car[i]) = 4 * g + 1 => StopsNow(i)

HasStopAhead(i) ==
  /\ car[i].state = S_IDE_GORE => \E g \in stani[i] : RisesTo(i, g)
  /\ car[i].state = S_IDE_DOLE => \E g \in stani[i] : DescendsTo(i, g)

OnCourse(i) == /\ Proper(car[i]) /\ Informed(i) /\ Entered(i)
               /\ NeverOpens(i) /\ OrdersFit(i) /\ HasStopAhead(i)

Course(i) == losses = 0 /\ Running(car[i]) => OnCourse(i)

(* Steps that leave the lift, and the commands on their way to it, alone. *)
OrdersKept(i) ==
  \/ to_lift'[i] = to_lift[i]
  \/ /\ to_lift[i] # <<>> /\ Head(to_lift[i]).type # "LIFT_ACTION_START"
     /\ to_lift'[i] = Tail(to_lift[i])
  \/ \E m \in LiftMessages : /\ m.type # "LIFT_ACTION_START" \/ m.data = A_LIFT_STANI
                             /\ to_lift'[i] = Append(to_lift[i], m)

Leads == {A_LIFT_GORE, A_LIFT_DOLE, A_LIFT_OTVORI}

OrdersStay(i) == /\ \A a \in Leads : OnWay(i, a)' => OnWay(i, a)
                 /\ \A a \in Commands : OnWay(i, a) => OnWay(i, a)'

(* Lamps, questions and stops do not touch the orders on their way. *)
LEMMA OrdersKeptStay ==
  ASSUME IInv, NEW i \in Lifts, OrdersKept(i)
  PROVE  OrdersStay(i) /\ LiftQueueKept(i)
<1>1. to_lift[i] \in Seq(LiftMessages)
  BY DEF IInv
<1>2. /\ to_lift[i] # <<>> =>
           Range(to_lift[i]) = {Head(to_lift[i])} \cup Range(Tail(to_lift[i]))
      /\ \A m \in LiftMessages :
           Range(Append(to_lift[i], m)) = Range(to_lift[i]) \cup {m}
  BY <1>1, RangeOfQueues
<1>3. A_LIFT_STANI # A_LIFT_STANI_NA_KATU /\ A_LIFT_STANI \notin Leads
  BY DEF A_LIFT_STANI, A_LIFT_STANI_NA_KATU, Leads, A_LIFT_GORE, A_LIFT_DOLE, A_LIFT_OTVORI
<1>4. CASE to_lift'[i] = to_lift[i]
  BY <1>4 DEF OrdersStay, OnWay, IsOrder, LiftQueueKept
<1>5. CASE /\ to_lift[i] # <<>> /\ Head(to_lift[i]).type # "LIFT_ACTION_START"
           /\ to_lift'[i] = Tail(to_lift[i])
  BY <1>2, <1>5 DEF OrdersStay, OnWay, IsOrder, LiftQueueKept, AsksStatus
<1>6. ASSUME NEW m \in LiftMessages, m.type # "LIFT_ACTION_START" \/ m.data = A_LIFT_STANI,
             to_lift'[i] = Append(to_lift[i], m)
      PROVE  OrdersStay(i) /\ LiftQueueKept(i)
  <2>1. Range(to_lift'[i]) = Range(to_lift[i]) \cup {m}
    BY <1>2, <1>6
  <2>2. OrdersStay(i)
    BY <1>3, <1>6, <2>1 DEF OrdersStay, OnWay, IsOrder
  <2>3. ~IsStop(m)
    BY <1>3, <1>6 DEF IsStop
  <2> QED  BY <1>6, <2>2, <2>3 DEF LiftQueueKept
<1> QED  BY <1>4, <1>5, <1>6 DEF OrdersKept

(* A step that leaves the lift and its orders alone keeps it on its course. *)
LEMMA SameCourse ==
  ASSUME NEW i \in Lifts, OnCourse(i), OrdersStay(i), Informed(i)',
         car'[i] = car[i], stani'[i] = stani[i], naredba'[i] = naredba[i],
         ticks'[i] = ticks[i]
  PROVE  OnCourse(i)'
<1>1. /\ \A a \in Leads : OnWay(i, a)' => OnWay(i, a)
      /\ \A a \in Commands : OnWay(i, a) => OnWay(i, a)'
      /\ QueuedActions \subseteq Commands /\ A_LIFT_STANI_NA_KATU \in Commands
      /\ A_LIFT_GORE \in Leads /\ A_LIFT_DOLE \in Leads /\ A_LIFT_OTVORI \in Leads
  BY DEF OrdersStay, Commands, Leads
<1>2. Proper(car[i])' /\ Entered(i)'
  BY DEF OnCourse, Entered, EntryFits, OpensAhead
<1>3. NeverOpens(i)'
  BY <1>1 DEF OnCourse, NeverOpens
<1>4. \A a : Fits(i, a)' <=> Fits(i, a)
  BY DEF Fits
<1>5. OrdersFit(i)'
  BY <1>1, <1>4 DEF OnCourse, OrdersFit
<1>6. (Stops(i) => Stops(i)') /\ (StopsNow(i) => StopsNow(i)')
      /\ \A g : Placed(i, g)' <=> Placed(i, g)
  BY <1>1 DEF Stops, StopsNow, Placed
<1>7. /\ \A g : RisesTo(i, g) => RisesTo(i, g)'
      /\ \A g : DescendsTo(i, g) => DescendsTo(i, g)'
  BY <1>6 DEF RisesTo, DescendsTo
<1>8. HasStopAhead(i)'
  BY <1>7 DEF OnCourse, HasStopAhead
<1> QED  BY <1>2, <1>3, <1>5, <1>8 DEF OnCourse

LEMMA InformedStays ==
  ASSUME NEW i \in Lifts, Informed(i), car'[i] = car[i], current'[i] = current[i],
         ticks'[i] = ticks[i], Asked(i) => Asked(i)',
         \A m \in Range(to_upr') : IsReport(m, i) => m \in Range(to_upr)
  PROVE  Informed(i)'
<1>1. \A r : Told(i, r)' <=> Told(i, r)
  BY DEF Told
<1> QED  BY <1>1 DEF Informed, IsReport

LEMMA UntouchedCourse ==
  ASSUME IInv, NEW i \in Lifts, Course(i), UprQueueKept(i), OrdersKept(i),
         car'[i] = car[i], current'[i] = current[i], naredba'[i] = naredba[i],
         stani'[i] = stani[i], ticks'[i] = ticks[i], losses' = losses
  PROVE  Course(i)'
<1> SUFFICES ASSUME losses = 0, Running(car[i]) PROVE OnCourse(i)'
  BY DEF Course
<1>1. OnCourse(i)
  BY DEF Course
<1>2. OrdersStay(i) /\ LiftQueueKept(i)
  BY OrdersKeptStay
<1>3. Informed(i)'
  BY <1>1, <1>2, QueuesKept, InformedStays DEF OnCourse
<1> QED  BY <1>1, <1>2, <1>3, SameCourse

(* The listener of upr keeps what upr knows true: a report is news or was one. *)
LEMMA UprListenerCourse ==
  ASSUME IInv, NEW i \in Lifts, Course(i), UprListener
  PROVE  Course(i)'
<1>1. \A type : Receive(type) /\ type # "LIFT_STATUS_REPORT" => UprQueueKept(i)
  BY DEF Receive, UprQueueKept, IsReport
<1>2. CASE HallKey \/ CabinKey
  <2>1. UprQueueKept(i)
    BY <1>1, <1>2 DEF HallKey, CabinKey
  <2>2. UNCHANGED <<car, current, stani, naredba, to_lift, ticks, losses>>
    BY <1>2 DEF HallKey, CabinKey, liftVars, bounds
  <2> QED  BY <2>1, <2>2, UntouchedCourse DEF OrdersKept
<1>3. CASE SendLamp
  <2> DEFINE m == Head(to_send)
  <2>1. /\ m \in LampsToLight
        /\ UNCHANGED <<car, current, stani, naredba, to_upr, ticks, losses>>
    BY <1>3 DEF SendLamp, IInv, liftVars, bounds
  <2>2. OrdersKept(i)
    <3>1. CASE m.type = "LIFT_PALI_LAMPICU"
      <4>1. m \in LiftMessages /\ m.lift \in Lifts /\ m.type # "LIFT_ACTION_START"
        BY <2>1, <3>1, MessageTypes
      <4>2. to_lift' = [to_lift EXCEPT ![m.lift] = Append(@, m)]
        BY <1>3, <3>1 DEF SendLamp
      <4>3. to_lift'[i] = IF i = m.lift THEN Append(to_lift[i], m) ELSE to_lift[i]
        BY <4>1, <4>2 DEF IInv
      <4> QED  BY <4>1, <4>3 DEF OrdersKept
    <3>2. CASE m.type # "LIFT_PALI_LAMPICU"
      BY <1>3, <3>2 DEF SendLamp, OrdersKept
    <3> QED  BY <3>1, <3>2
  <2> QED  BY <2>1, <2>2, UntouchedCourse DEF UprQueueKept
<1>4. CASE Stop
  <2> DEFINE s == Head(to_upr).lift
  <2>1. UprQueueKept(i)
    BY <1>1, <1>4 DEF Stop
  <2>2. /\ to_lift' = [to_lift EXCEPT ![s] = Append(@, Action(s, A_LIFT_STANI))]
        /\ UNCHANGED <<car, current, stani, naredba, ticks, losses>>
    BY <1>4 DEF Stop, liftVars, uprVars, bounds
  <2>3. s \in Lifts
    BY <1>4, ReceiveType, MessageTypes DEF Stop
  <2>4. Action(s, A_LIFT_STANI) \in LiftMessages
    BY <2>3, MessagesMade DEF Commands, QueuedActions
  <2>5. Action(s, A_LIFT_STANI).data = A_LIFT_STANI
    BY DEF Action, Msg
  <2>6. to_lift'[i] = IF i = s THEN Append(to_lift[i], Action(s, A_LIFT_STANI))
                      ELSE to_lift[i]
    BY <2>2, <2>3 DEF IInv
  <2>7. OrdersKept(i)
    BY <2>4, <2>5, <2>6 DEF OrdersKept
  <2> QED  BY <2>1, <2>2, <2>7, UntouchedCourse
<1>5. CASE Report
  <2> DEFINE m == Head(to_upr)
  <2>1. /\ current' = [current EXCEPT ![m.lift] = m.data]
        /\ UNCHANGED <<car, stani, naredba, to_lift, ticks, losses>>
        /\ to_upr # <<>> /\ to_upr' = Tail(to_upr) /\ m.type = "LIFT_STATUS_REPORT"
    BY <1>5 DEF Report, Receive, liftVars, bounds
  <2>2. m.lift \in Lifts
    BY <1>5, ReceiveType, MessageTypes DEF Report
  <2>3. to_upr \in Seq(UprMessages)
    BY DEF IInv
  <2>4. Range(to_upr) = {m} \cup Range(to_upr')
    BY <2>1, <2>3, RangeOfQueues
  <2>5. OrdersKept(i)
    BY <2>1 DEF OrdersKept
  <2> HIDE DEF m
  <2>6. CASE i # m.lift
    <3>1. UprQueueKept(i)
      BY <2>1, <2>6 DEF UprQueueKept, IsReport, m
    <3>2. current'[i] = current[i]
      BY <2>1, <2>2, <2>6 DEF IInv
    <3> QED  BY <2>1, <2>5, <3>1, <3>2, UntouchedCourse
  <2>7. CASE i = m.lift
    <3> SUFFICES ASSUME losses = 0, Running(car[i]) PROVE OnCourse(i)'
      BY <2>1 DEF Course
    <3>1. OnCourse(i)
      BY DEF Course
    <3>2. current'[i] = m.data
      BY <2>1, <2>2, <2>7 DEF IInv
    <3>3. IsReport(m, i) /\ m \in Range(to_upr)
      BY <2>1, <2>4, <2>7 DEF IsReport
    <3>4. car'[i] = car[i] /\ ticks'[i] = ticks[i]
      BY <2>1
    <3>5. \A r : Told(i, r)' <=> Told(i, r)
      BY <3>4 DEF Told
    <3>6. Told(i, current[i])'
      <4>1. PICK r : r = m.data
        OBVIOUS
      <4>2. Told(i, r)'
        BY <3>1, <3>3, <3>5, <4>1 DEF OnCourse, Informed
      <4> QED  BY <3>2, <4>1, <4>2
    <3>7. \A n \in Range(to_upr') : IsReport(n, i) => Told(i, n.data)'
      BY <2>4, <3>1, <3>5 DEF OnCourse, Informed
    <3>8. Informed(i)'
      BY <3>6, <3>7 DEF Informed, IsReport
    <3>9. OrdersStay(i)
      BY <2>5, OrdersKeptStay
    <3> QED  BY <2>1, <3>1, <3>8, <3>9, SameCourse
  <2> QED  BY <2>6, <2>7
<1> QED  BY <1>2, <1>3, <1>4, <1>5 DEF UprListener

(* What another lift does. *)
LEMMA OtherLiftCourse ==
  ASSUME IInv, HallOK, NEW i \in Lifts, Course(i), NEW j \in Lifts, j # i,
         LiftRound(j) \/ LiftListener(j)
  PROVE  Course(i)'
<1>1. /\ UNCHANGED <<current, stani, naredba, losses>>
      /\ car'[i] = car[i] /\ ticks'[i] = ticks[i] /\ to_lift'[i] = to_lift[i]
  BY DEF LiftRound, LiftListener, LiftLamp, LiftAction, LiftStatus, LiftGone, TakeFrom,
         IInv, HallOK, liftVars, uprVars, netVars, bounds
<1>2. UprQueueKept(i)
  <2>1. CASE ~LiftStatus(j)
    <3>1. to_upr' = to_upr
      BY <2>1 DEF LiftRound, LiftListener, LiftLamp, LiftAction, LiftGone, netVars
    <3> QED  BY <3>1 DEF UprQueueKept
  <2>2. CASE LiftStatus(j)
    <3> DEFINE report == Msg("LIFT_STATUS_REPORT", j, to_string(car[j]))
    <3>1. to_upr' = Append(to_upr, report)
      BY <2>2 DEF LiftStatus
    <3>2. report \in UprMessages
      <4>1. car[j] \in Cars
        BY DEF IInv, SafeCars
      <4>2. to_string(car[j]) \in Reports
        BY <4>1 DEF to_string, Reports, Cars
      <4> QED  BY <4>2, MessagesMade
    <3>3. ~IsReport(report, i)
      BY DEF IsReport, Msg
    <3> QED  BY <3>1, <3>2, <3>3 DEF UprQueueKept
  <2> QED  BY <2>1, <2>2
<1> QED  BY <1>1, <1>2, UntouchedCourse DEF OrdersKept

(* The passengers, and the network when it drops a datagram. *)
LEMMA PassengersCourse ==
  ASSUME IInv, NEW i \in Lifts, Course(i), Passengers
  PROVE  Course(i)'
<1>1. ASSUME NEW m \in UprMessages, ~IsReport(m, i), Send(m) PROVE Course(i)'
  <2>1. /\ UNCHANGED <<car, current, stani, naredba, to_lift, ticks, losses>>
        /\ to_upr' = Append(to_upr, m)
    BY <1>1 DEF Send, liftVars, uprVars
  <2> QED  BY <1>1, <2>1, UntouchedCourse DEF UprQueueKept, OrdersKept
<1>2. ASSUME NEW j \in Lifts, PressStop(j) PROVE Course(i)'
  <2>1. Msg("LIFT_STOP", j, 0) \in UprMessages /\ ~IsReport(Msg("LIFT_STOP", j, 0), i)
    BY MessagesMade, FloorsAssumption DEF Floors, IsReport, Msg
  <2> QED  BY <1>1, <1>2, <2>1 DEF PressStop
<1>3. ASSUME NEW j \in Lifts, NEW f \in Floors, PressCabin(j, f) PROVE Course(i)'
  <2>1. /\ Msg("LIFT_KEY_PRESSED", j, f) \in UprMessages
        /\ ~IsReport(Msg("LIFT_KEY_PRESSED", j, f), i)
    BY MessagesMade DEF IsReport, Msg
  <2> QED  BY <1>1, <1>3, <2>1 DEF PressCabin
<1>4. ASSUME NEW k \in HallKeys, PressHall(k) PROVE Course(i)'
  <2>1. /\ Msg("TIPKE_KEY_PRESSED", 0, k) \in UprMessages
        /\ ~IsReport(Msg("TIPKE_KEY_PRESSED", 0, k), i)
    BY MessagesMade DEF IsReport, Msg, HallKeys
  <2> QED  BY <1>1, <1>4, <2>1 DEF PressHall
<1> QED  BY <1>2, <1>3, <1>4 DEF Passengers

LEMMA LoseCourse ==
  ASSUME HallOK, NEW i \in Lifts, Lose
  PROVE  Course(i)'
<1>1. losses' = losses + 1 /\ losses \in Nat
  BY DEF Lose, HallOK
<1> QED  BY <1>1 DEF Course

(* The listener of the lift: an order is taken, ignored, or is a stop. *)
LEMMA TakeActionOrder ==
  ASSUME NEW c \in Cars, NEW a \in Commands, NEW d, d = TakeAction(c, a)
  PROVE  /\ d.direction = c.direction
         /\ d.action = c.action \/ d.action = a
         /\ c.action \in QueuedActions => d.action \in QueuedActions
         /\ a \in QueuedActions => d.action \in QueuedActions
<1>1. /\ A_LIFT_STANI_NA_KATU \notin QueuedActions
      /\ c.action \in QueuedActions \cup {A_UNDEF, A_OBRADENO}
      /\ a \in QueuedActions \cup {A_LIFT_STANI_NA_KATU}
      /\ A_UNDEF \notin QueuedActions /\ A_OBRADENO \notin QueuedActions
  BY DEF Cars, Commands, QueuedActions, A_LIFT_STANI_NA_KATU, A_LIFT_GORE, A_LIFT_DOLE,
         A_LIFT_STANI, A_LIFT_OTVORI, A_LIFT_ZATVORI, A_UNDEF, A_OBRADENO
<1>2. CASE a = A_LIFT_STANI_NA_KATU
  <2>1. d = [c EXCEPT !.stop = TRUE]
    BY <1>2 DEF TakeAction
  <2>2. d.direction = c.direction /\ d.action = c.action
    BY <2>1 DEF Cars
  <2> QED  BY <1>1, <1>2, <2>2
<1>3. CASE a # A_LIFT_STANI_NA_KATU /\ c.action \in {A_UNDEF, A_OBRADENO}
  <2>1. d = [c EXCEPT !.action = a]
    BY <1>3 DEF TakeAction
  <2>2. d.direction = c.direction /\ d.action = a
    BY <2>1 DEF Cars
  <2> QED  BY <1>1, <1>3, <2>2
<1>4. CASE a # A_LIFT_STANI_NA_KATU /\ c.action \notin {A_UNDEF, A_OBRADENO}
  <2>1. d = c
    BY <1>4 DEF TakeAction
  <2> QED  BY <1>1, <1>4, <2>1
<1> QED  BY <1>2, <1>3, <1>4

(* An order taken from the queue is as fit in the lift as it was on its way. *)
LEMMA LiftListenerCourse ==
  ASSUME IInv, HallOK, NEW i \in Lifts, TimelyLift(i), Course(i), LiftListener(i)
  PROVE  Course(i)'
<1> DEFINE m == Head(to_lift[i])
<1>1. /\ to_lift[i] \in Seq(LiftMessages) /\ to_upr \in Seq(UprMessages)
      /\ car[i] \in SoundCars /\ car[i] \in Cars
  BY DEF IInv, TimelyLift, SoundCars, SafeCars
<1>2. to_lift[i] # <<>> => /\ Range(to_lift[i]) = {m} \cup Range(Tail(to_lift[i]))
                           /\ m \in LiftMessages
  BY <1>1, RangeOfQueues, HeadTailProperties
<1>3. ASSUME NEW type, TakeFrom(i, type)
      PROVE  /\ Running(car[i]) /\ to_lift[i] # <<>> /\ m.type = type
             /\ to_lift'[i] = Tail(to_lift[i])
  BY <1>3 DEF TakeFrom, IInv
<1>4. CASE LiftLamp(i)
  <2>1. UNCHANGED <<car, current, stani, naredba, to_upr, ticks, losses>>
    BY <1>4 DEF LiftLamp, uprVars, bounds
  <2>2. /\ to_lift[i] # <<>> /\ to_lift'[i] = Tail(to_lift[i])
        /\ m.type # "LIFT_ACTION_START"
    BY <1>3, <1>4 DEF LiftLamp
  <2>3. OrdersKept(i)
    BY <2>2 DEF OrdersKept
  <2> QED  BY <2>1, <2>3, UntouchedCourse DEF UprQueueKept
<1>5. CASE LiftAction(i)
  <2> SUFFICES ASSUME losses = 0, Running(car[i]) PROVE OnCourse(i)'
    <3>1. LiftAction(i) => losses' = losses /\ Running(car[i])
      BY <1>3 DEF LiftAction, bounds
    <3> QED  BY <1>5, <3>1 DEF Course
  <2>1. PICK c \in SoundCars : c = car[i]
    BY <1>1
  <2>2. PICK a : a = m.data
    OBVIOUS
  <2>3. PICK d : d = car'[i]
    OBVIOUS
  <2>4. /\ UNCHANGED <<current, stani, naredba, to_upr, ticks, losses>>
        /\ d = TakeAction(c, a) /\ a # A_LIFT_STATUS
    BY <1>5, <2>1, <2>2, <2>3 DEF LiftAction, uprVars, bounds, IInv
  <2>5. /\ to_lift[i] # <<>> /\ to_lift'[i] = Tail(to_lift[i])
        /\ m.type = "LIFT_ACTION_START"
    BY <1>3, <1>5 DEF LiftAction
  <2>6. a \in Commands
    BY <1>2, <2>2, <2>4, <2>5, MessageTypes
  <2>7. /\ d.floor = c.floor /\ d.im_floor = c.im_floor
        /\ d.door = c.door /\ d.state = c.state
        /\ d.stop = (c.stop \/ a = A_LIFT_STANI_NA_KATU)
    BY <2>4, <2>6, TakeActionSame
  <2>8. /\ d.direction = c.direction
        /\ d.action = c.action \/ d.action = a
        /\ c.action \in QueuedActions => d.action \in QueuedActions
        /\ a \in QueuedActions => d.action \in QueuedActions
    BY <1>1, <2>1, <2>4, <2>6, TakeActionOrder
  <2>9. OnCourse(i)
    BY DEF Course
  <2>10. \A b : OnWay(i, b) <=> (b = a \/ OnWay(i, b)')
    BY <1>2, <2>2, <2>5 DEF OnWay, IsOrder
  <2> HIDE DEF m
  <2>11. Proper(d)
    <3>1. Proper(c)
      BY <2>1, <2>9 DEF OnCourse
    <3> QED  BY <2>7, <2>8, <3>1 DEF Proper, Running, Sound
  <2>12. Informed(i)'
    <3>1. \A r : Told(i, r)' <=> Told(i, r)
      <4>1. \A r : /\ Shows(r, d) <=> Shows(r, c)
                   /\ Precedes(r, d) <=> Precedes(r, c)
        BY <2>7, <2>8 DEF Shows, Precedes, Spot, Level
      <4>2. ticks'[i] = ticks[i]
        BY <2>4
      <4> QED  BY <2>1, <2>3, <4>1, <4>2, Zenon DEF Told
    <3>2. LiftQueueKept(i) /\ UprQueueKept(i)
      BY <2>2, <2>4, <2>5 DEF LiftQueueKept, UprQueueKept, AsksStatus, m
    <3>3. Asked(i) => Asked(i)'
      BY <3>2, QueuesKept
    <3>4. to_upr' = to_upr /\ current'[i] = current[i]
      BY <2>4
    <3> QED  BY <2>9, <3>1, <3>3, <3>4 DEF OnCourse, Informed, IsReport
  <2>13. Entered(i)'
    <3>1. \A f, g : OpensAhead(i, f, g)' <=> OpensAhead(i, f, g)
      BY <2>1, <2>3, <2>4, <2>7, <2>8 DEF OpensAhead
    <3>2. naredba'[i] = naredba[i]
      BY <2>4
    <3> QED  BY <2>1, <2>3, <2>8, <2>9, <3>1, <3>2 DEF OnCourse, Entered, EntryFits
  <2>14. NeverOpens(i)'
    <3>1. (\E q \in QueuedActions : OnWay(i, q))
            => d.action \in QueuedActions \/ \E q \in QueuedActions : OnWay(i, q)'
      BY <2>8, <2>10
    <3>2. NeverOpens(i) /\ stani'[i] = stani[i] /\ ticks'[i] = ticks[i]
      BY <2>4, <2>9 DEF OnCourse
    <3> QED  BY <2>1, <2>3, <2>7, <2>8, <3>1, <3>2 DEF NeverOpens
  <2>15. OrdersFit(i)'
    <3>1. \A b : Fits(i, b)' <=> Fits(i, b)
      BY <2>1, <2>3, <2>4, <2>7 DEF Fits
    <3>2. OrdersFit(i) /\ ticks'[i] = ticks[i]
      BY <2>4, <2>9 DEF OnCourse
    <3>3. c.state = S_STOJI_ZATVOREN => Fits(i, d.action)
      <4>1. c.state = S_STOJI_ZATVOREN => Fits(i, c.action)
        BY <2>1, <3>2 DEF OrdersFit
      <4>2. c.state = S_STOJI_ZATVOREN => Fits(i, a)
        <5>1. OnWay(i, a)
          BY <2>10
        <5>2. /\ a \in {A_LIFT_GORE, A_LIFT_DOLE, A_LIFT_OTVORI}
              /\ c.state = S_STOJI_ZATVOREN
              => Fits(i, a)
          BY <2>1, <3>2, <5>1 DEF OrdersFit
        <5> QED  BY <5>2 DEF Fits
      <4> QED  BY <2>8, <4>1, <4>2
    <3> QED  BY <2>1, <2>3, <2>7, <2>8, <2>10, <3>1, <3>2, <3>3 DEF OrdersFit
  <2>16. HasStopAhead(i)'
    <3>1. (Stops(i) => Stops(i)') /\ (StopsNow(i) => StopsNow(i)')
      BY <2>1, <2>3, <2>4, <2>7, <2>10 DEF Stops, StopsNow
    <3>2. \A g : Placed(i, g)' <=> Placed(i, g)
      BY <2>4 DEF Placed
    <3>3. Level(d) = Level(c) /\ ticks'[i] = ticks[i] /\ stani'[i] = stani[i]
      BY <2>4, <2>7 DEF Level
    <3>4. /\ \A g : RisesTo(i, g) => RisesTo(i, g)'
          /\ \A g : DescendsTo(i, g) => DescendsTo(i, g)'
      BY <2>1, <2>3, <3>1, <3>2, <3>3 DEF RisesTo, DescendsTo
    <3> QED  BY <2>1, <2>3, <2>7, <2>9, <3>3, <3>4 DEF OnCourse, HasStopAhead
  <2> QED  BY <2>3, <2>11, <2>12, <2>13, <2>14, <2>15, <2>16 DEF OnCourse
<1>6. CASE LiftStatus(i)
  <2> SUFFICES ASSUME losses = 0, Running(car[i]) PROVE OnCourse(i)'
    <3>1. LiftStatus(i) => losses' = losses /\ Running(car[i])
      BY <1>3 DEF LiftStatus, bounds
    <3> QED  BY <1>6, <3>1 DEF Course
  <2>1. PICK report : report = Msg("LIFT_STATUS_REPORT", i, to_string(car[i]))
    OBVIOUS
  <2>2. /\ UNCHANGED <<car, current, stani, naredba, ticks, losses>>
        /\ to_upr' = Append(to_upr, report) /\ m.data = A_LIFT_STATUS
    BY <1>6, <2>1 DEF LiftStatus, liftVars, uprVars, bounds
  <2>3. to_lift[i] # <<>> /\ to_lift'[i] = Tail(to_lift[i])
    BY <1>3, <1>6 DEF LiftStatus
  <2>4. report \in UprMessages
    <3>1. to_string(car[i]) \in Reports
      BY <1>1 DEF to_string, Reports, Cars
    <3> QED  BY <2>1, <3>1, MessagesMade
  <2>5. Range(to_upr') = Range(to_upr) \cup {report}
    BY <1>1, <2>2, <2>4, RangeOfQueues
  <2>6. OnCourse(i)
    BY DEF Course
  <2>7. IsReport(report, i) /\ Told(i, report.data)
    <3>1. report.data = to_string(car[i]) /\ IsReport(report, i)
      BY <2>1 DEF Msg, IsReport
    <3>2. Proper(car[i])
      BY <2>6 DEF OnCourse
    <3>3. Proper(to_string(car[i])) /\ Shows(to_string(car[i]), car[i])
      BY <3>2 DEF Proper, to_string, Shows, Spot, Running, Sound
    <3> QED  BY <3>1, <3>3 DEF Told
  <2>8. Informed(i)'
    <3>1. \A r : Told(i, r)' <=> Told(i, r)
      BY <2>2 DEF Told
    <3>2. Asked(i)'
      BY <2>5, <2>7 DEF Asked, IsReport
    <3>3. \A n \in Range(to_upr') : IsReport(n, i) => Told(i, n.data)'
      BY <2>5, <2>6, <2>7, <3>1 DEF OnCourse, Informed
    <3> QED  BY <3>2, <3>3 DEF Informed, IsReport
  <2>9. OrdersStay(i)
    <3>1. A_LIFT_STATUS \notin Commands /\ Leads \subseteq Commands
      BY DEF Commands, Leads, QueuedActions, A_LIFT_STANI_NA_KATU, A_LIFT_GORE,
             A_LIFT_DOLE, A_LIFT_STANI, A_LIFT_OTVORI, A_LIFT_ZATVORI, A_LIFT_STATUS
    <3>2. Range(to_lift[i]) = {m} \cup Range(to_lift'[i])
      BY <1>2, <2>3
    <3> HIDE DEF m
    <3> QED  BY <2>2, <3>1, <3>2 DEF OrdersStay, OnWay, IsOrder
  <2> QED  BY <2>2, <2>6, <2>8, <2>9, SameCourse
<1>7. CASE LiftGone(i)
  <2>1. ~Running(car[i]) /\ car' = car
    BY <1>7 DEF LiftGone, liftVars
  <2> QED  BY <2>1 DEF Course
<1> QED  BY <1>4, <1>5, <1>6, <1>7 DEF LiftListener

(* A round of the lift: with two rounds of upr() between two of its own, the *)
(* lift has its orders before it can pass the quarter they are meant for.     *)
LEMMA LiftRoundCourse ==
  ASSUME MinTicks >= 2, IInv, HallOK, NEW i \in Lifts, TimelyLift(i), Course(i), LiftRound(i)
  PROVE  Course(i)'
<1>1. PICK c \in SoundCars : c = car[i]
  BY DEF TimelyLift
<1>2. PICK d : d = Round(c)
  OBVIOUS
<1>3. /\ Running(c) /\ car'[i] = d
      /\ ~(ticks[i] <= 1) /\ ticks[i] # 0 /\ ticks[i] >= 1 /\ ticks[i] >= 2 /\ ticks'[i] = 0
      /\ UNCHANGED <<current, stani, naredba, to_lift, to_upr, losses>>
  <2>1. ticks[i] \in Nat /\ MinTicks \in Nat
    BY BoundsAssumption DEF HallOK
  <2> QED  BY <1>1, <1>2, <2>1 DEF LiftRound, IInv, HallOK, uprVars, netVars
<1> SUFFICES ASSUME losses = 0, Running(d) PROVE OnCourse(i)'
  BY <1>3 DEF Course
<1>4. OnCourse(i)
  BY <1>1, <1>3 DEF Course
<1>5. Proper(c)
  BY <1>1, <1>4 DEF OnCourse
<1>6. /\ Steps(c, d) /\ d \in SoundCars /\ Sound(d)
      /\ c.floor \in Nat /\ c.im_floor \in 0 .. 3 /\ d.floor \in Nat /\ d.im_floor \in 0 .. 3
      /\ Sound(c)
  <2>1. Steps(c, d) /\ d \in SoundCars
    BY <1>2, <1>3, RoundSteps, RoundSound
  <2> QED  BY <2>1, FloorsAssumption DEF SoundCars, SafeCars, Cars, Floors, Quarters
<1>7. A_OBRADENO \notin QueuedActions /\ Leads \subseteq QueuedActions
  BY DEF QueuedActions, A_OBRADENO, A_LIFT_GORE, A_LIFT_DOLE,
         A_LIFT_STANI, A_LIFT_OTVORI, A_LIFT_ZATVORI, Leads
(* The kinds of steps. *)
<1>8. \/ /\ Spot(d) = Spot(c) /\ d.stop = c.stop
         /\ d.state = c.state /\ d.direction = c.direction
      \/ /\ Spot(d) = Spot(c) /\ d.stop = c.stop /\ c.state = S_STOJI_ZATVOREN
         /\ \/ c.action = A_LIFT_GORE /\ d.state = S_IDE_GORE /\ d.direction = D_UP
            \/ c.action = A_LIFT_DOLE /\ d.state = S_IDE_DOLE /\ d.direction = D_DOWN
            \/ /\ c.action = A_LIFT_OTVORI
               /\ d.state = S_OTVARA_VRATA /\ d.direction = c.direction
      \/ /\ Spot(d) = Spot(c) /\ d.stop = c.stop /\ c.state = S_STOJI_OTVOREN
         /\ d.state = S_ZATVARA_VRATA /\ d.direction = c.direction
      \/ WorksDoor(c, d) /\ c.direction # D_STOJI
      \/ Travels(c, d)
  <2>1. WorksDoor(c, d) => c.direction # D_STOJI
    <3>1. c.direction = D_STOJI /\ c.state = S_OTVARA_VRATA => c.action \in QueuedActions
      BY <1>1, <1>3, <1>4 DEF OnCourse, NeverOpens
    <3>2. c.direction = D_STOJI => c.state \in {S_STOJI_ZATVOREN, S_OTVARA_VRATA}
      BY <1>5 DEF Proper
    <3> QED  BY <1>7, <3>1, <3>2 DEF WorksDoor, S_STOJI_ZATVOREN, S_OTVARA_VRATA, S_ZATVARA_VRATA
  <2> QED  BY <1>6, <2>1, Zenon DEF Steps, Obeys
<1>9. /\ Spot(d) = Spot(c) => Level(d) = Level(c)
      /\ Spot(d) = Spot(c) => d.floor = c.floor /\ d.im_floor = c.im_floor /\ d.door = c.door
  BY DEF Spot, Level
<1>10. Proper(d)
  BY <1>5, <1>6, <1>8, <1>9 DEF Proper, WorksDoor, Travels, MovingStates,
     S_STOJI_ZATVOREN, S_STOJI_OTVOREN, S_OTVARA_VRATA, S_ZATVARA_VRATA, S_IDE_GORE,
     S_IDE_DOLE, D_UP, D_DOWN, D_STOJI, V_OTVORENA, V_ZATVORENA
<1>11. Informed(i)'
  <2>1. ASSUME NEW r, Told(i, r) PROVE Told(i, r)'
    <3>1. Proper(r) /\ Shows(r, c)
      BY <1>1, <1>3, <2>1 DEF Told
    <3>2. Shows(r, d) \/ Precedes(r, d)
      <4>1. /\ r.floor = c.floor /\ r.im_floor = c.im_floor /\ r.door = c.door
            /\ Spot(r) = Spot(c) /\ Level(r) = Level(c)
            /\ r.state = c.state /\ r.direction = c.direction
        BY <3>1 DEF Shows, Spot, Level
      <4>2. CASE Travels(c, d)
        BY <4>1, <4>2 DEF Travels, Precedes
      <4>3. CASE WorksDoor(c, d)
        <5>1. d.floor = r.floor /\ d.im_floor = r.im_floor /\ d.direction = r.direction
          BY <4>1, <4>3 DEF WorksDoor
        <5>2. \/ r.state = S_OTVARA_VRATA /\ d.state = S_STOJI_OTVOREN
              \/ r.state = S_ZATVARA_VRATA /\ d.state = S_STOJI_ZATVOREN
          BY <4>1, <4>3 DEF WorksDoor
        <5>3. Precedes(r, d)
          BY <5>1, <5>2, SMT DEF Precedes
        <5> QED  BY <5>3
      <4>4. CASE Spot(d) = Spot(c) /\ ~Travels(c, d) /\ ~WorksDoor(c, d)
        BY <1>5, <1>8, <1>9, <4>1, <4>4 DEF Shows, Precedes
      <4> QED  BY <1>8, <4>2, <4>3, <4>4
    <3> QED  BY <1>3, <3>1, <3>2 DEF Told
  <2>2. Asked(i) => Asked(i)'
    BY <1>3 DEF Asked, IsReport, AsksStatus
  <2> QED  BY <1>3, <1>4, <2>1, <2>2 DEF OnCourse, Informed, IsReport
<1>12. Entered(i)'
  <2>1. ASSUME NEW f \in Nat, NEW g, OpensAhead(i, f, g) PROVE OpensAhead(i, f, g)'
    <3>1. /\ f \in stani[i] /\ f \in stani'[i]
          /\ \/ g = D_UP /\ f > c.floor
             \/ g = D_DOWN /\ f < c.floor
             \/ g = D_DOWN /\ f = c.floor /\ c.im_floor # 0 /\ c.state = S_IDE_DOLE
      BY <1>1, <1>3, <2>1 DEF OpensAhead
    <3>2. /\ c.state = S_IDE_GORE => c.direction = D_UP
          /\ c.state = S_IDE_DOLE => c.direction = D_DOWN
      BY <1>5 DEF Proper
    <3>3. \/ g = D_UP /\ f > d.floor
          \/ g = D_DOWN /\ f < d.floor
          \/ g = D_DOWN /\ f = d.floor /\ d.im_floor # 0 /\ d.state = S_IDE_DOLE
          \/ /\ f = d.floor /\ d.im_floor = 0 /\ g = d.direction
             /\ d.state \in MovingStates \cup {S_STOJI_ZATVOREN}
      <4>1. CASE d.floor = c.floor /\ d.im_floor = c.im_floor
        <5>1. c.im_floor # 0 => c.state # S_STOJI_ZATVOREN /\ c.state # S_STOJI_OTVOREN
          BY <1>6 DEF Sound, MovingStates, S_STOJI_ZATVOREN, S_STOJI_OTVOREN, S_IDE_GORE,
                      S_IDE_DOLE, S_STOJI
        <5>2. ~Travels(c, d)
          BY <1>6, <4>1 DEF Travels, Level
        <5>3. c.im_floor # 0 /\ c.state = S_IDE_DOLE => d.state = S_IDE_DOLE
          BY <1>8, <5>1, <5>2 DEF WorksDoor, S_OTVARA_VRATA, S_ZATVARA_VRATA, S_IDE_DOLE
        <5> QED  BY <3>1, <4>1, <5>3
      <4>2. CASE Travels(c, d)
        <5>1. /\ d.direction = c.direction
              /\ d.state = c.state \/ (d.state = S_STOJI_ZATVOREN /\ d.im_floor = 0)
              /\ \/ c.state = S_IDE_GORE /\ Level(d) = Level(c) + 1
                 \/ c.state = S_IDE_DOLE /\ Level(d) = Level(c) - 1
          BY <4>2 DEF Travels
        <5>2. CASE c.state = S_IDE_GORE /\ Level(d) = Level(c) + 1
          <6>1. \/ d.floor = c.floor
                \/ d.floor = c.floor + 1 /\ d.im_floor = 0
            BY <1>6, <5>2 DEF Level
          <6>2. c.state # S_IDE_DOLE /\ D_UP # D_DOWN
            BY <5>2 DEF S_IDE_GORE, S_IDE_DOLE, D_UP, D_DOWN
          <6> QED  BY <1>6, <3>1, <3>2, <5>1, <5>2, <6>1, <6>2 DEF MovingStates
        <5>3. CASE c.state = S_IDE_DOLE /\ Level(d) = Level(c) - 1
          <6>1. \/ d.floor = c.floor /\ c.im_floor # 0
                \/ d.floor = c.floor - 1 /\ d.im_floor = 3 /\ c.im_floor = 0
            <7>1. 4 * d.floor + d.im_floor = 4 * c.floor + c.im_floor - 1
              BY <1>6, <5>3 DEF Level
            <7>2. CASE c.im_floor = 0
              BY <1>6, <7>1, <7>2
            <7>3. CASE c.im_floor # 0
              BY <1>6, <7>1, <7>3
            <7> QED  BY <7>2, <7>3
          <6>2. d.im_floor # 0 => d.state = S_IDE_DOLE
            BY <5>1, <5>3
          <6>3. d.direction = D_DOWN /\ D_UP # D_DOWN
            BY <3>2, <5>1, <5>3 DEF D_UP, D_DOWN
          <6>4. d.state \in MovingStates \cup {S_STOJI_ZATVOREN}
            BY <5>1, <5>3 DEF MovingStates
          <6>5. CASE g = D_UP
            <7>1. f > d.floor
              BY <1>6, <2>1, <3>1, <6>1, <6>3, <6>5
            <7> QED  BY <6>5, <7>1
          <6>6. CASE g = D_DOWN
            <7>1. f < d.floor \/ f = d.floor
              BY <1>6, <2>1, <3>1, <6>1, <6>3, <6>6
            <7> QED  BY <6>2, <6>3, <6>4, <6>6, <7>1
          <6> QED  BY <3>1, <6>5, <6>6
        <5> QED  BY <5>1, <5>2, <5>3
      <4> QED  BY <1>8, <1>9, <4>1, <4>2 DEF WorksDoor
    <3> QED  BY <1>3, <3>1, <3>3 DEF OpensAhead
  <2>2. \A e \in naredba[i] : e.place[1] \in Nat
    <3>1. naredba[i] \subseteq Entries /\ Floors \subseteq Nat
      BY FloorsAssumption DEF IInv, Floors
    <3> QED  BY <3>1 DEF Entries, Places
  <2>3. \A e \in naredba[i] : EntryFits(i, e)'
    BY <1>4, <2>1, <2>2 DEF OnCourse, Entered, EntryFits
  <2>4. d.direction = D_STOJI => c.direction = D_STOJI
    BY <1>8 DEF WorksDoor, Travels, D_STOJI, D_UP, D_DOWN
  <2> QED  BY <1>1, <1>3, <1>4, <2>3, <2>4 DEF OnCourse, Entered
<1>13. NeverOpens(i)'
  <2> SUFFICES ASSUME d.direction = D_STOJI, d.state = S_OTVARA_VRATA
               PROVE  0 \in stani[i]
    BY <1>3 DEF NeverOpens
  <2>1. \/ c.direction = D_STOJI /\ c.state = S_OTVARA_VRATA
        \/ c.direction = D_STOJI /\ c.state = S_STOJI_ZATVOREN /\ c.action = A_LIFT_OTVORI
    <3>1. ~Travels(c, d)
      BY DEF Travels, MovingStates, S_OTVARA_VRATA, S_IDE_GORE, S_IDE_DOLE, S_STOJI_ZATVOREN
    <3>2. ~WorksDoor(c, d)
      BY DEF WorksDoor, S_OTVARA_VRATA, S_STOJI_ZATVOREN, S_STOJI_OTVOREN
    <3> QED  BY <1>8, <3>1, <3>2 DEF S_OTVARA_VRATA, S_ZATVARA_VRATA, S_IDE_GORE, S_IDE_DOLE,
             D_STOJI, D_UP, D_DOWN
  <2>2. CASE c.direction = D_STOJI /\ c.state = S_OTVARA_VRATA
    BY <1>1, <1>4, <2>2 DEF OnCourse, NeverOpens
  <2>3. CASE c.direction = D_STOJI /\ c.state = S_STOJI_ZATVOREN /\ c.action = A_LIFT_OTVORI
    <3>1. Fits(i, A_LIFT_OTVORI) /\ c.floor = 0
      BY <1>1, <1>4, <1>5, <2>3 DEF OnCourse, OrdersFit, Proper
    <3> QED  BY <1>1, <3>1 DEF Fits, A_LIFT_GORE, A_LIFT_DOLE, A_LIFT_OTVORI
  <2> QED  BY <2>1, <2>2, <2>3
<1>14. \A a : OnWay(i, a)' <=> OnWay(i, a)
  BY <1>3 DEF OnWay, IsOrder
<1>15. OrdersFit(i)'
  <2>1. OrdersFit(i)
    BY <1>4 DEF OnCourse
  <2>2. c.state \notin MovingStates => d.floor = c.floor /\ d.im_floor = c.im_floor
    BY <1>8, <1>9 DEF Travels, WorksDoor, MovingStates
  <2>3. ASSUME NEW a \in {A_LIFT_GORE, A_LIFT_DOLE}, OnWay(i, a)
        PROVE  d.im_floor = 0 /\ Fits(i, a)'
    <3>1. c.im_floor = 0 /\ Fits(i, a) /\ c.state \notin MovingStates
      BY <1>1, <1>3, <2>1, <2>3 DEF OrdersFit
    <3> QED  BY <1>1, <1>3, <2>2, <3>1 DEF Fits
  <2>4. ASSUME OnWay(i, A_LIFT_OTVORI), d.state = S_STOJI_ZATVOREN
        PROVE  Fits(i, A_LIFT_OTVORI)'
    <3>1. /\ c.state = S_STOJI_ZATVOREN => Fits(i, A_LIFT_OTVORI)
          /\ c.state \in MovingStates => c.im_floor = 0
          /\ c.state \in DoorStates => c.direction = D_STOJI
      BY <1>1, <1>3, <2>1, <2>4 DEF OrdersFit
    <3>2. ~WorksDoor(c, d) \/ c.direction = D_STOJI
      BY <3>1 DEF WorksDoor, DoorStates
    <3>3. ~Travels(c, d)
      <4>1. Travels(c, d) => c.im_floor = 0 /\ d.im_floor = 0
        BY <2>4, <3>1 DEF Travels, MovingStates, S_STOJI_ZATVOREN, S_IDE_GORE, S_IDE_DOLE
      <4> QED  BY <1>6, <4>1 DEF Travels, Level
    <3>4. c.state = S_STOJI_ZATVOREN /\ d.floor = c.floor
      BY <1>8, <1>9, <2>4, <3>2, <3>3 DEF S_STOJI_ZATVOREN, S_IDE_GORE, S_IDE_DOLE,
         S_OTVARA_VRATA, S_ZATVARA_VRATA
    <3> QED  BY <1>1, <1>3, <3>1, <3>4 DEF Fits
  <2>5. Fits(i, d.action)'
    <3>1. d.action \notin Leads
      BY <1>6, <1>7 DEF Steps
    <3> QED  BY <1>3, <3>1 DEF Fits, Leads
  <2> QED  BY <1>3, <1>14, <2>3, <2>4, <2>5 DEF OrdersFit
<1>16. HasStopAhead(i)'
  <2>1. /\ Stops(i) => d.stop # c.stop \/ StopsNow(i)'
        /\ StopsNow(i) => c.stop
        /\ \A g : Placed(i, g)' <=> Placed(i, g)
        /\ d.stop /\ ~StopsNow(i)' => FALSE
    BY <1>1, <1>3, <1>14 DEF Stops, StopsNow, Placed
  <2>2. ASSUME d.state = S_IDE_GORE PROVE \E g \in stani[i] : RisesTo(i, g)'
    <3>1. CASE c.state = S_IDE_GORE
      <4>1. PICK g \in stani[i] : RisesTo(i, g)
        BY <1>1, <1>4, <3>1 DEF OnCourse, HasStopAhead
      <4>2. g \in Nat
        <5>1. stani[i] \subseteq Floors /\ Floors \subseteq Nat
          BY FloorsAssumption DEF IInv, Floors
        <5> QED  BY <5>1
      <4>3. /\ Level(c) < 4 * g
            /\ Level(c) = 4 * g - 2 => Stops(i)
            /\ Level(c) = 4 * g - 1 => c.stop
        BY <1>1, <1>3, <2>1, <4>1 DEF RisesTo
      <4>4. /\ d.stop = c.stop
            /\ \/ Level(d) = Level(c)
               \/ Level(d) = Level(c) + 1 /\ (d.im_floor = 0 => ~c.stop)
        BY <1>8, <1>9, <2>2, <3>1 DEF Travels, WorksDoor, S_STOJI_ZATVOREN, S_STOJI_OTVOREN,
           S_IDE_GORE, S_IDE_DOLE, S_OTVARA_VRATA, S_ZATVARA_VRATA
      <4>5. Level(c) \in Int /\ Level(d) \in Int /\ (Level(d) = 4 * g => d.im_floor = 0)
        BY <1>6, <4>2 DEF Level
      <4>6. Level(d) < 4 * g /\ (Level(d) = 4 * g - 1 => StopsNow(i)')
        BY <2>1, <4>2, <4>3, <4>4, <4>5
      <4> QED  BY <1>3, <4>6 DEF RisesTo
    <3>2. CASE c.state # S_IDE_GORE
      <4>1. c.state = S_STOJI_ZATVOREN /\ c.action = A_LIFT_GORE /\ Spot(d) = Spot(c)
        BY <1>8, <2>2, <3>2 DEF Travels, WorksDoor, S_STOJI_ZATVOREN, S_STOJI_OTVOREN,
           S_IDE_GORE, S_IDE_DOLE, S_OTVARA_VRATA, S_ZATVARA_VRATA
      <4>2. Fits(i, A_LIFT_GORE)
        BY <1>1, <1>4, <4>1 DEF OnCourse, OrdersFit
      <4>3. PICK g \in stani[i] : g > c.floor
        BY <1>1, <4>2 DEF Fits, A_LIFT_GORE, A_LIFT_DOLE, A_LIFT_OTVORI
      <4>4. g \in Nat
        <5>1. stani[i] \subseteq Floors /\ Floors \subseteq Nat
          BY FloorsAssumption DEF IInv, Floors
        <5> QED  BY <5>1
      <4>5. Level(d) = 4 * c.floor
        <5>1. c.im_floor = 0
          BY <1>6, <4>1 DEF Sound, MovingStates, S_STOJI_ZATVOREN, S_IDE_GORE, S_IDE_DOLE,
                            S_STOJI
        <5> QED  BY <1>6, <1>9, <4>1, <5>1 DEF Level
      <4>6. Level(d) < 4 * g /\ Level(d) # 4 * g - 2 /\ Level(d) # 4 * g - 1
        BY <1>6, <4>3, <4>4, <4>5
      <4> QED  BY <1>3, <4>6 DEF RisesTo
    <3> QED  BY <3>1, <3>2
  <2>3. ASSUME d.state = S_IDE_DOLE PROVE \E g \in stani[i] : DescendsTo(i, g)'
    <3>1. CASE c.state = S_IDE_DOLE
      <4>1. PICK g \in stani[i] : DescendsTo(i, g)
        BY <1>1, <1>4, <3>1 DEF OnCourse, HasStopAhead
      <4>2. g \in Nat
        <5>1. stani[i] \subseteq Floors /\ Floors \subseteq Nat
          BY FloorsAssumption DEF IInv, Floors
        <5> QED  BY <5>1
      <4>3. /\ Level(c) > 4 * g
            /\ Level(c) = 4 * g + 4 => Placed(i, g)
            /\ Level(c) = 4 * g + 3 => Placed(i, g)
            /\ Level(c) = 4 * g + 2 => Stops(i)
            /\ Level(c) = 4 * g + 1 => c.stop
        BY <1>1, <1>3, <2>1, <4>1 DEF DescendsTo
      <4>4. /\ d.stop = c.stop
            /\ \/ Level(d) = Level(c)
               \/ Level(d) = Level(c) - 1 /\ (d.im_floor = 0 => ~c.stop)
        BY <1>8, <1>9, <2>3, <3>1 DEF Travels, WorksDoor, S_STOJI_ZATVOREN, S_STOJI_OTVOREN,
           S_IDE_GORE, S_IDE_DOLE, S_OTVARA_VRATA, S_ZATVARA_VRATA
      <4>5. Level(c) \in Int /\ Level(d) \in Int /\ (Level(d) = 4 * g => d.im_floor = 0)
        BY <1>6, <4>2 DEF Level
      <4>6. /\ Level(d) > 4 * g
            /\ Level(d) = 4 * g + 3 => Placed(i, g)'
            /\ Level(d) = 4 * g + 2 => Placed(i, g)' \/ Stops(i)
            /\ Level(d) = 4 * g + 1 => StopsNow(i)'
        BY <2>1, <4>2, <4>3, <4>4, <4>5
      <4>7. Stops(i) => Stops(i)'
        BY <2>1, <4>4 DEF Stops, StopsNow
      <4> QED  BY <1>3, <4>6, <4>7 DEF DescendsTo
    <3>2. CASE c.state # S_IDE_DOLE
      <4>1. c.state = S_STOJI_ZATVOREN /\ c.action = A_LIFT_DOLE /\ Spot(d) = Spot(c)
        BY <1>8, <2>3, <3>2 DEF Travels, WorksDoor, S_STOJI_ZATVOREN, S_STOJI_OTVOREN,
           S_IDE_GORE, S_IDE_DOLE, S_OTVARA_VRATA, S_ZATVARA_VRATA
      <4>2. Fits(i, A_LIFT_DOLE)
        BY <1>1, <1>4, <4>1 DEF OnCourse, OrdersFit
      <4>3. PICK g \in stani[i] : g < c.floor
        BY <1>1, <4>2 DEF Fits, A_LIFT_GORE, A_LIFT_DOLE, A_LIFT_OTVORI
      <4>4. g \in Nat
        <5>1. stani[i] \subseteq Floors /\ Floors \subseteq Nat
          BY FloorsAssumption DEF IInv, Floors
        <5> QED  BY <5>1
      <4>5. Level(d) = 4 * c.floor
        <5>1. c.im_floor = 0
          BY <1>6, <4>1 DEF Sound, MovingStates, S_STOJI_ZATVOREN, S_IDE_GORE, S_IDE_DOLE,
                            S_STOJI
        <5> QED  BY <1>6, <1>9, <4>1, <5>1 DEF Level
      <4>6. /\ Level(d) > 4 * g /\ Level(d) # 4 * g + 3
            /\ Level(d) # 4 * g + 2 /\ Level(d) # 4 * g + 1
        BY <1>6, <4>3, <4>4, <4>5
      <4> QED  BY <1>3, <4>6 DEF DescendsTo
    <3> QED  BY <3>1, <3>2
  <2> QED  BY <1>3, <2>2, <2>3 DEF HasStopAhead
<1> QED  BY <1>3, <1>10, <1>11, <1>12, <1>13, <1>15, <1>16 DEF OnCourse

(* A round of upr() for lift i. *)
PlaceNow(i, want) == <<current[i].floor, current[i].im_floor, NextDirection(i, want),
                       current[i].door>>

(* It stands with its door closed, or starts with a door that does not open. *)
Free(i, want) == \/ current[i].state = S_STOJI_ZATVOREN
                 \/ current[i].state # UNKNOWN /\ NextDirection(i, want) = D_STOJI

LEMMA FreeStands ==
  ASSUME NEW i \in Lifts, NEW want, Proper(current[i]), Free(i, want)
  PROVE  /\ current[i].state \in {S_STOJI_ZATVOREN, S_OTVARA_VRATA}
         /\ current[i].im_floor = 0 /\ current[i].door = V_ZATVORENA
         /\ current[i].state # S_STOJI_ZATVOREN => current[i].direction = D_STOJI
<1>1. /\ current[i].state \in {S_STOJI_ZATVOREN, S_OTVARA_VRATA}
      /\ current[i].state # S_STOJI_ZATVOREN => current[i].direction = D_STOJI
      /\ current[i].door = V_ZATVORENA
  BY DEF Free, NextDirection, Proper
<1>2. current[i].state \notin MovingStates \cup {S_STOJI}
  BY <1>1 DEF MovingStates, S_STOJI, S_IDE_GORE, S_IDE_DOLE, S_STOJI_ZATVOREN, S_OTVARA_VRATA
<1> QED  BY <1>1, <1>2 DEF Proper, Sound

(* Errands are entered for the place where the lift was reported. *)
LEMMA ErrandEntries ==
  ASSUME NEW i \in Lifts, NEW want, Proper(current[i])
  PROVE  /\ \A e \in Errands(i, want) :
              /\ e.place = PlaceNow(i, want)
              /\ \/ DoorOpen(i) /\ e.action = A_LIFT_ZATVORI
                 \/ /\ Free(i, want) /\ Kept(i, want) # {}
                    /\ e.action = Errand(i, Kept(i, want), NextDirection(i, want))
         /\ Free(i, want) /\ Kept(i, want) # {} => Errands(i, want) # {}
         /\ ~DoorOpen(i) /\ ~Free(i, want) => Errands(i, want) = {}
<1> DEFINE r == current[i]
           at(door, a) == Entry(r.floor, r.im_floor, NextDirection(i, want), door, a)
           close  == IF DoorOpen(i) THEN {at(V_OTVORENA, A_LIFT_ZATVORI)} ELSE {}
           errand == Errand(i, Kept(i, want), NextDirection(i, want))
           go == IF Free(i, want) /\ Kept(i, want) # {}
                 THEN {at(V_ZATVORENA, errand)} ELSE {}
<1>1. Errands(i, want) = close \cup go
  BY Zenon DEF Errands, Free
<1>2. /\ \A door, a : at(door, a).place = <<r.floor, r.im_floor, NextDirection(i, want), door>>
      /\ \A door, a : at(door, a).action = a
  BY DEF Entry
<1>3. /\ DoorOpen(i) => r.door = V_OTVORENA
      /\ Free(i, want) => r.door = V_ZATVORENA
  <2>1. DoorOpen(i) => r.door = V_OTVORENA
    BY DEF DoorOpen, Proper, Sound
  <2> QED  BY <2>1, FreeStands
<1> HIDE DEF errand, at
<1>4. \A e \in close : /\ e.place = PlaceNow(i, want)
                       /\ DoorOpen(i) /\ e.action = A_LIFT_ZATVORI
  BY <1>2, <1>3 DEF PlaceNow
<1>5. \A e \in go : /\ e.place = PlaceNow(i, want)
                    /\ Free(i, want) /\ Kept(i, want) # {} /\ e.action = errand
  BY <1>2, <1>3 DEF PlaceNow
<1>6. Free(i, want) /\ Kept(i, want) # {} => go # {}
  OBVIOUS
<1>7. ~DoorOpen(i) /\ ~Free(i, want) => close \cup go = {}
  OBVIOUS
<1> HIDE DEF close, go
<1> QED  BY <1>1, <1>4, <1>5, <1>6, <1>7 DEF errand

(* An errand takes the lift to a floor where it has to stop. *)
LEMMA ErrandLeads ==
  ASSUME NEW i \in Lifts, NEW kept \in SUBSET Nat, kept # {}, current[i].floor \in Nat, NEW d,
         NEW a, a = Errand(i, kept, d)
  PROVE  /\ a \in Leads
         /\ a = A_LIFT_OTVORI => current[i].floor \in kept
         /\ a = A_LIFT_GORE => \E g \in kept : g > current[i].floor
         /\ a = A_LIFT_DOLE => \E g \in kept : g < current[i].floor
<1> DEFINE here  == current[i].floor
           above == {f \in kept : f > here}
           below == {f \in kept : f < here}
           nearer(S, T) == \E f \in S : \A g \in T : Dist(i, f) <= Dist(i, g)
           up == CASE d = D_UP   -> above # {}
                   [] d = D_DOWN -> below = {}
                   [] OTHER      -> ~nearer(below, above)
<1>1. a = CASE here \in kept -> A_LIFT_OTVORI
            [] here \notin kept /\ up -> A_LIFT_GORE
            [] OTHER -> A_LIFT_DOLE
  BY Zenon DEF Errand
<1>2. here \notin kept => above # {} \/ below # {}
  <2> SUFFICES ASSUME here \notin kept PROVE above # {} \/ below # {}
    OBVIOUS
  <2>1. PICK f \in kept : TRUE
    OBVIOUS
  <2>2. f > here \/ f < here
    BY <2>1
  <2>3. f \in above \/ f \in below
    BY <2>1, <2>2
  <2> QED  BY <2>3
<1>3. above = {} /\ below # {} => nearer(below, above)
  BY Zenon
<1>4. nearer(below, above) => below # {}
  BY Zenon
<1> HIDE DEF nearer, above, below
<1>5. here \notin kept /\ up => above # {}
  BY <1>2, <1>3 DEF D_UP, D_DOWN
<1>6. here \notin kept /\ ~up => below # {}
  BY <1>2, <1>4 DEF D_UP, D_DOWN
<1> HIDE DEF up
<1>7. /\ here \in kept => a = A_LIFT_OTVORI
      /\ here \notin kept /\ up => a = A_LIFT_GORE
      /\ here \notin kept /\ ~up => a = A_LIFT_DOLE
  BY <1>1
<1>8. /\ a = A_LIFT_OTVORI => here \in kept
      /\ a = A_LIFT_GORE => above # {}
      /\ a = A_LIFT_DOLE => below # {}
      /\ a \in Leads
  BY <1>5, <1>6, <1>7 DEF Leads, A_LIFT_OTVORI, A_LIFT_GORE, A_LIFT_DOLE
<1> QED  BY <1>8 DEF above, below

(* Every floor ahead gets its stop, two quarters before it, and its door. *)
LEMMA AheadEntries ==
  ASSUME NEW i \in Lifts, NEW want
  PROVE  /\ \A f \in Ahead(i, want) :
              /\ f \in want
              /\ \/ current[i].direction = D_UP /\ f > current[i].floor
                 \/ current[i].direction = D_DOWN /\ f < current[i].floor
         /\ \A e \in StopsAhead(i, want) :
              \/ e.place[2] = 2 /\ e.action = A_LIFT_STANI_NA_KATU
              \/ \E f \in Ahead(i, want) :
                   e = Entry(f, 0, current[i].direction, V_ZATVORENA, A_LIFT_OTVORI)
         /\ current[i].state # UNKNOWN => \A f \in Ahead(i, want) :
              Entry(IF current[i].direction = D_UP THEN f - 1 ELSE f, 2,
                    current[i].direction, V_ZATVORENA, A_LIFT_STANI_NA_KATU)
                \in StopsAhead(i, want)
<1> DEFINE d == current[i].direction
           stop(f) == Entry(IF d = D_UP THEN f - 1 ELSE f, 2, d, V_ZATVORENA,
                            A_LIFT_STANI_NA_KATU)
           open(f) == Entry(f, 0, d, V_ZATVORENA, A_LIFT_OTVORI)
<1>1. \A f \in Ahead(i, want) : /\ f \in want
                                /\ \/ d = D_UP /\ f > current[i].floor
                                   \/ d = D_DOWN /\ f < current[i].floor
  BY DEF Ahead, D_UP, D_DOWN
<1>2. StopsAhead(i, want) = IF current[i].state = UNKNOWN THEN {}
                            ELSE UNION {{stop(f), open(f)} : f \in Ahead(i, want)}
  BY Zenon DEF StopsAhead
<1>3. \A f : stop(f).place[2] = 2 /\ stop(f).action = A_LIFT_STANI_NA_KATU
  BY DEF Entry
<1> HIDE DEF stop, open
<1>4. \A e \in StopsAhead(i, want) : \E f \in Ahead(i, want) : e = stop(f) \/ e = open(f)
  BY <1>2
<1>5. current[i].state # UNKNOWN => \A f \in Ahead(i, want) : stop(f) \in StopsAhead(i, want)
  BY <1>2
<1>6. \A e \in StopsAhead(i, want) :
        \/ e.place[2] = 2 /\ e.action = A_LIFT_STANI_NA_KATU
        \/ \E f \in Ahead(i, want) : e = open(f)
  BY <1>3, <1>4
<1> QED  BY <1>1, <1>5, <1>6 DEF stop, open

(* The table, the entries due, and what an errand takes from them. *)
LEMMA TableEntries ==
  ASSUME NEW i \in Lifts, NEW want, Proper(current[i])
  PROVE  /\ Table(i, want) \subseteq naredba[i] \cup StopsAhead(i, want) \cup Errands(i, want)
         /\ Errands(i, want) \subseteq Due(i, want)
         /\ Errands(i, want) # {} => Due(i, want) \subseteq Errands(i, want)
         /\ \A e \in Table(i, want) : e \in Due(i, want) <=> e.place = PlaceNow(i, want)
         /\ Due(i, want) \subseteq Table(i, want)
         /\ Errands(i, want) = {} =>
              /\ StopsAhead(i, want) \subseteq Table(i, want)
              /\ \A e \in naredba[i] :
                   e \in Table(i, want) \/ \E n \in StopsAhead(i, want) : n.place = e.place
<1>1. /\ Table(i, want) \subseteq naredba[i] \cup StopsAhead(i, want) \cup Errands(i, want)
      /\ Errands(i, want) \subseteq Table(i, want)
      /\ \A e \in Table(i, want) :
           e \in Errands(i, want) \/ \A n \in Errands(i, want) : n.place # e.place
  BY DEF Table, Enter
<1>2. Due(i, want) = {e \in Table(i, want) : e.place = PlaceNow(i, want)}
  BY Zenon DEF Due, PlaceNow
<1>3. \A e \in Errands(i, want) : e.place = PlaceNow(i, want)
  BY ErrandEntries
<1>4. Errands(i, want) = {} =>
        /\ StopsAhead(i, want) \subseteq Table(i, want)
        /\ \A e \in naredba[i] :
             e \in Table(i, want) \/ \E n \in StopsAhead(i, want) : n.place = e.place
  BY DEF Table, Enter
<1> QED  BY <1>1, <1>2, <1>3, <1>4

(* What is on its way after a round of upr(). *)
LEMMA SentOrders ==
  ASSUME IInv, NEW i \in Lifts, UprRound
  PROVE  /\ \A a : OnWay(i, a)' => \/ a = A_LIFT_STATUS
                                   \/ \E e \in Due(i, Wanted(i)) : e.action = a
         /\ Due(i, Wanted(i)) # {} => \E e \in Due(i, Wanted(i)) : OnWay(i, e.action)'
<1> DEFINE want   == Wanted(i)
           lamps  == LampsOut(i)
           orders == CommandSent(i, want)
           status_request == <<Action(i, A_LIFT_STATUS)>>
<1>1. /\ lamps \in Seq(LiftMessages) /\ orders \in Seq(LiftMessages)
      /\ status_request \in Seq(LiftMessages)
  BY WantedType, SentParts
<1>2. Range(to_lift'[i]) = Range(lamps) \cup Range(orders) \cup Range(status_request)
  <2>1. to_lift'[i] = (lamps \o orders) \o status_request
    BY DEF UprRound
  <2> HIDE DEF lamps, orders, status_request
  <2> QED  BY <1>1, <2>1, ThreeParts
<1>3. /\ \A x : Range(<<x>>) = {x}
      /\ Range(<<>>) = {}
  BY DEF Range
<1>4. \A m \in Range(lamps) : m.type # "LIFT_ACTION_START"
  <2>1. \A m \in Range(lamps) : m = Msg("LIFT_GASI_LAMPICU", i, current[i].floor)
    BY <1>3 DEF LampsOut
  <2> QED  BY <2>1 DEF Msg
<1>5. /\ \A m \in Range(status_request) : m.data = A_LIFT_STATUS
      /\ \A a : IsOrder(Action(i, a), a) /\ Action(i, a).data = a
  BY <1>3 DEF Action, Msg, IsOrder
<1>6. /\ \A m \in Range(orders) : \E e \in Due(i, want) : m = Action(i, e.action)
      /\ Due(i, want) # {} => \E e \in Due(i, want) : Action(i, e.action) \in Range(orders)
  <2>1. CASE Due(i, want) = {}
    BY <1>3, <2>1 DEF CommandSent
  <2>2. CASE Due(i, want) # {}
    <3>1. PICK e : e = CHOOSE x \in Due(i, want) : TRUE
      OBVIOUS
    <3>2. e \in Due(i, want)
      BY <2>2, <3>1
    <3>3. orders = <<Action(i, e.action)>>
      BY <2>2, <3>1, Zenon DEF CommandSent
    <3>4. Range(orders) = {Action(i, e.action)}
      BY <1>3, <3>3
    <3> QED  BY <3>2, <3>4
  <2> QED  BY <2>1, <2>2
<1> HIDE DEF lamps, orders, status_request
<1>7. ASSUME NEW a, OnWay(i, a)'
      PROVE  a = A_LIFT_STATUS \/ \E e \in Due(i, want) : e.action = a
  <2>1. PICK m \in Range(to_lift'[i]) : IsOrder(m, a)
    BY <1>7 DEF OnWay, IsOrder
  <2> QED  BY <1>2, <1>4, <1>5, <1>6, <2>1 DEF IsOrder
<1>8. ASSUME Due(i, want) # {}
      PROVE  \E e \in Due(i, want) : OnWay(i, e.action)'
  <2>1. PICK e \in Due(i, want) : Action(i, e.action) \in Range(to_lift'[i])
    BY <1>2, <1>6, <1>8
  <2>2. OnWay(i, e.action)'
    BY <1>5, <2>1 DEF OnWay, IsOrder
  <2> QED  BY <2>2
<1> QED  BY <1>7, <1>8

(* A round of upr(), which may act on what the lift showed one round ago, and *)
(* sends at most one order: the table has the rest for the next rounds.       *)
LEMMA UprRoundCourse ==
  ASSUME IInv, HallOK, NEW i \in Lifts, TimelyLift(i), Course(i), UprRound
  PROVE  Course(i)'
<1>1. /\ to_lift[i] = <<>>
      /\ \A m \in Range(to_upr) : ~IsReport(m, i)
      /\ stani'[i] = Kept(i, Wanted(i))
      /\ naredba'[i] = Table(i, Wanted(i)) \ Due(i, Wanted(i))
      /\ ticks'[i] = IF Running(car[i]) THEN ticks[i] + 1 ELSE 0
      /\ UNCHANGED <<car, to_upr, losses>>
  BY DEF UprRound, Answered, IsReport, Range, liftVars
<1> SUFFICES ASSUME losses = 0, Running(car[i]) PROVE OnCourse(i)'
  BY <1>1 DEF Course
<1>2. PICK c : c = car[i]
  OBVIOUS
<1>3. PICK r : r = current[i]
  OBVIOUS
<1>4. PICK want : want = Wanted(i)
  OBVIOUS
<1>5. OnCourse(i)
  BY DEF Course
<1>6. /\ ticks[i] \in Nat /\ ticks'[i] = ticks[i] + 1 /\ car'[i] = c
  BY <1>1, <1>2 DEF HallOK
<1>7. /\ c.floor \in Nat /\ c.im_floor \in 0 .. 3 /\ c.state \in LiftStates
      /\ r.floor \in Nat /\ r.im_floor \in 0 .. 3
      /\ want \in SUBSET Nat /\ stani[i] \subseteq want
      /\ Kept(i, want) \in SUBSET Nat /\ naredba[i] \subseteq Entries
  <2>1. /\ c.floor \in Floors /\ c.im_floor \in Quarters /\ c.state \in LiftStates
        /\ r.floor \in Floors /\ r.im_floor \in Quarters /\ naredba[i] \subseteq Entries
    BY <1>2, <1>3 DEF IInv, SafeCars, Cars, Known
  <2>2. want \subseteq Floors /\ stani[i] \subseteq want /\ Kept(i, want) \subseteq want
    BY <1>4, WantedType DEF Wanted, Kept
  <2>3. Floors \subseteq Nat
    BY FloorsAssumption DEF Floors
  <2> QED  BY <2>1, <2>2, <2>3 DEF Quarters
<1>8. ~Asked(i) /\ \A a : ~OnWay(i, a)
  <2>1. Range(to_lift[i]) = {}
    BY <1>1, RangeOfQueues
  <2> QED  BY <1>1, <2>1 DEF Asked, OnWay
<1>9. /\ Proper(c) /\ Sound(c) /\ Proper(r) /\ Sound(r)
      /\ Shows(r, c) \/ (Precedes(r, c) /\ ticks[i] = 0)
  <2>1. Told(i, r) /\ Proper(c)
    BY <1>2, <1>3, <1>5, <1>8 DEF OnCourse, Informed
  <2> QED  BY <1>2, <2>1 DEF Told, Proper
<1>10. Asked(i)'
  <2>1. Action(i, A_LIFT_STATUS) \in Range(to_lift'[i])
    BY <1>4, WantedType, SentMembers DEF UprRound
  <2>2. AsksStatus(Action(i, A_LIFT_STATUS))
    BY DEF AsksStatus, Action, Msg
  <2> QED  BY <2>1, <2>2 DEF Asked
<1>11. Proper(c)' /\ Informed(i)'
  BY <1>1, <1>9, <1>10 DEF Informed, IsReport
(* What c may be, given r. *)
<1>12. Shows(r, c) => /\ r.floor = c.floor /\ r.im_floor = c.im_floor /\ r.door = c.door
                      /\ r.state = c.state /\ r.direction = c.direction
  BY DEF Shows, Spot
<1>13. Precedes(r, c) =>
         \/ /\ r.floor = c.floor /\ r.im_floor = c.im_floor /\ r.door = c.door
            /\ r.state = S_STOJI_ZATVOREN
            /\ \/ c.state = S_IDE_GORE /\ c.direction = D_UP
               \/ c.state = S_IDE_DOLE /\ c.direction = D_DOWN
               \/ c.state = S_OTVARA_VRATA /\ c.direction = r.direction
         \/ /\ c.floor = r.floor /\ c.im_floor = r.im_floor /\ c.direction = r.direction
            /\ \/ r.state = S_OTVARA_VRATA /\ c.state = S_STOJI_OTVOREN
               \/ r.state = S_STOJI_OTVOREN /\ c.state = S_ZATVARA_VRATA
               \/ r.state = S_ZATVARA_VRATA /\ c.state = S_STOJI_ZATVOREN
         \/ /\ c.direction = r.direction
            /\ \/ r.state = S_IDE_GORE /\ Level(c) = Level(r) + 1
               \/ r.state = S_IDE_DOLE /\ Level(c) = Level(r) - 1
            /\ c.state = r.state \/ (c.state = S_STOJI_ZATVOREN /\ c.im_floor = 0)
  BY DEF Precedes, Spot
<1>14. r.state # UNKNOWN
  BY <1>7, <1>9, <1>12, <1>13 DEF UNKNOWN, LiftStates, DoorStates, MovingStates, S_STOJI,
     S_STOJI_ZATVOREN, S_STOJI_OTVOREN, S_OTVARA_VRATA, S_ZATVARA_VRATA, S_IDE_GORE, S_IDE_DOLE
<1>15. c.state \in MovingStates \cup {S_STOJI_ZATVOREN} => r.state # S_STOJI_OTVOREN
  BY <1>9, <1>12, <1>13 DEF MovingStates,
     S_STOJI_ZATVOREN, S_STOJI_OTVOREN, S_OTVARA_VRATA, S_ZATVARA_VRATA, S_IDE_GORE, S_IDE_DOLE
<1>16. /\ stani'[i] = Kept(i, want) /\ naredba'[i] = Table(i, want) \ Due(i, want)
       /\ r.state # S_STOJI_OTVOREN => Kept(i, want) = want
       /\ \A f \in want : f # r.floor => f \in Kept(i, want)
       /\ DoorOpen(i) <=> r.state = S_STOJI_OTVOREN
  BY <1>1, <1>3, <1>4 DEF Kept, DoorOpen
<1>17. /\ PlaceNow(i, want) = <<r.floor, r.im_floor, NextDirection(i, want), r.door>>
       /\ NextDirection(i, want) # r.direction => r.state = S_STOJI_ZATVOREN /\ want = {}
  BY <1>3 DEF PlaceNow, NextDirection
<1>18. Free(i, want) =>
         /\ r.state \in {S_STOJI_ZATVOREN, S_OTVARA_VRATA}
         /\ r.im_floor = 0 /\ r.door = V_ZATVORENA
         /\ r.state # S_STOJI_ZATVOREN => r.direction = D_STOJI
         /\ c.floor = r.floor /\ c.im_floor = 0
  <2> SUFFICES ASSUME Free(i, want)
               PROVE  /\ r.state \in {S_STOJI_ZATVOREN, S_OTVARA_VRATA}
                      /\ r.im_floor = 0 /\ r.door = V_ZATVORENA
                      /\ r.state # S_STOJI_ZATVOREN => r.direction = D_STOJI
                      /\ c.floor = r.floor /\ c.im_floor = 0
    OBVIOUS
  <2>1. /\ r.state \in {S_STOJI_ZATVOREN, S_OTVARA_VRATA}
        /\ r.im_floor = 0 /\ r.door = V_ZATVORENA
        /\ r.state # S_STOJI_ZATVOREN => r.direction = D_STOJI
    BY <1>3, <1>9, FreeStands
  <2>2. c.floor = r.floor /\ c.im_floor = r.im_floor
    BY <1>9, <1>12, <1>13, <2>1 DEF S_STOJI_ZATVOREN, S_STOJI_OTVOREN, S_OTVARA_VRATA,
       S_ZATVARA_VRATA, S_IDE_GORE, S_IDE_DOLE
  <2> QED  BY <2>1, <2>2
<1>19. /\ \A e \in Errands(i, want) :
            /\ e.place = PlaceNow(i, want)
            /\ \/ r.state = S_STOJI_OTVOREN /\ e.action = A_LIFT_ZATVORI
               \/ /\ Free(i, want)
                  /\ e.action \in Leads
                  /\ e.action = A_LIFT_OTVORI => r.floor \in Kept(i, want)
                  /\ e.action = A_LIFT_GORE => \E g \in Kept(i, want) : g > r.floor
                  /\ e.action = A_LIFT_DOLE => \E g \in Kept(i, want) : g < r.floor
       /\ Free(i, want) /\ Kept(i, want) # {} => Errands(i, want) # {}
       /\ r.state # S_STOJI_OTVOREN /\ ~Free(i, want) => Errands(i, want) = {}
  <2>1. /\ \A e \in Errands(i, want) :
             /\ e.place = PlaceNow(i, want)
             /\ \/ DoorOpen(i) /\ e.action = A_LIFT_ZATVORI
                \/ /\ Free(i, want) /\ Kept(i, want) # {}
                   /\ e.action = Errand(i, Kept(i, want), NextDirection(i, want))
        /\ Free(i, want) /\ Kept(i, want) # {} => Errands(i, want) # {}
        /\ ~DoorOpen(i) /\ ~Free(i, want) => Errands(i, want) = {}
    BY <1>3, <1>9, ErrandEntries
  <2>2. ASSUME NEW a, Kept(i, want) # {},
               a = Errand(i, Kept(i, want), NextDirection(i, want))
        PROVE  /\ a \in Leads
               /\ a = A_LIFT_OTVORI => r.floor \in Kept(i, want)
               /\ a = A_LIFT_GORE => \E g \in Kept(i, want) : g > r.floor
               /\ a = A_LIFT_DOLE => \E g \in Kept(i, want) : g < r.floor
    <3>1. Kept(i, want) \in SUBSET Nat /\ current[i].floor \in Nat
      BY <1>3, <1>7
    <3> QED  BY <1>3, <2>2, <3>1, ErrandLeads
  <2> QED  BY <1>16, <2>1, <2>2
<1>20. /\ \A f \in Ahead(i, want) :
            /\ f \in want
            /\ \/ r.direction = D_UP /\ f > r.floor
               \/ r.direction = D_DOWN /\ f < r.floor
       /\ \A e \in StopsAhead(i, want) :
            \/ e.place[2] = 2 /\ e.action = A_LIFT_STANI_NA_KATU
            \/ \E f \in Ahead(i, want) :
                 e = Entry(f, 0, r.direction, V_ZATVORENA, A_LIFT_OTVORI)
       /\ \A f \in Ahead(i, want) :
            Entry(IF r.direction = D_UP THEN f - 1 ELSE f, 2,
                  r.direction, V_ZATVORENA, A_LIFT_STANI_NA_KATU)
              \in StopsAhead(i, want)
  <2>1. \A f \in Ahead(i, want) :
          /\ f \in want
          /\ \/ r.direction = D_UP /\ f > r.floor
             \/ r.direction = D_DOWN /\ f < r.floor
    BY <1>3, AheadEntries
  <2>2. \A e \in StopsAhead(i, want) :
          \/ e.place[2] = 2 /\ e.action = A_LIFT_STANI_NA_KATU
          \/ \E f \in Ahead(i, want) :
               e = Entry(f, 0, r.direction, V_ZATVORENA, A_LIFT_OTVORI)
    BY <1>3, AheadEntries
  <2>3. \A f \in Ahead(i, want) :
          Entry(IF r.direction = D_UP THEN f - 1 ELSE f, 2,
                r.direction, V_ZATVORENA, A_LIFT_STANI_NA_KATU)
            \in StopsAhead(i, want)
    BY <1>3, <1>14, AheadEntries
  <2> QED  BY <2>1, <2>2, <2>3
<1>21. /\ Table(i, want) \subseteq naredba[i] \cup StopsAhead(i, want) \cup Errands(i, want)
       /\ Errands(i, want) \subseteq Due(i, want)
       /\ Errands(i, want) # {} => Due(i, want) \subseteq Errands(i, want)
       /\ \A e \in Table(i, want) : e \in Due(i, want) <=> e.place = PlaceNow(i, want)
       /\ Due(i, want) \subseteq Table(i, want)
       /\ Errands(i, want) = {} =>
            /\ StopsAhead(i, want) \subseteq Table(i, want)
            /\ \A e \in naredba[i] :
                 e \in Table(i, want) \/ \E n \in StopsAhead(i, want) : n.place = e.place
  BY <1>3, <1>9, TableEntries
<1>22. /\ \A a : OnWay(i, a)' => \/ a = A_LIFT_STATUS
                                 \/ \E e \in Due(i, want) : e.action = a
       /\ Due(i, want) # {} => \E e \in Due(i, want) : OnWay(i, e.action)'
  BY <1>4, SentOrders
<1>23. Entered(i)'
  <2> DEFINE Q == {S_STOJI_ZATVOREN} \cup MovingStates
  <2>1. ASSUME NEW f \in want, NEW g, g = r.direction,
               (g = D_UP /\ f > r.floor) \/ (g = D_DOWN /\ f < r.floor)
        PROVE  OpensAhead(i, f, g)'
    <3>1. f \in stani'[i] /\ f \in Nat
      BY <1>7, <1>16, <2>1
    <3>2. \/ g = D_UP /\ f > c.floor
          \/ g = D_DOWN /\ f < c.floor
          \/ g = D_DOWN /\ f = c.floor /\ c.im_floor # 0 /\ c.state = S_IDE_DOLE
          \/ /\ f = c.floor /\ c.im_floor = 0 /\ g = c.direction
             /\ c.state \in MovingStates \cup {S_STOJI_ZATVOREN} /\ ticks[i] = 0
      <4>1. CASE c.floor = r.floor
        BY <2>1, <4>1
      <4>2. CASE c.floor # r.floor
        <5>1. /\ c.direction = r.direction /\ ticks[i] = 0
              /\ \/ r.state = S_IDE_GORE /\ Level(c) = Level(r) + 1
                 \/ r.state = S_IDE_DOLE /\ Level(c) = Level(r) - 1
              /\ c.state = r.state \/ (c.state = S_STOJI_ZATVOREN /\ c.im_floor = 0)
          BY <1>9, <1>12, <1>13, <4>2
        <5>2. CASE r.state = S_IDE_GORE /\ Level(c) = Level(r) + 1
          <6>1. c.floor = r.floor + 1 /\ c.im_floor = 0
            <7>1. 4 * c.floor + c.im_floor = 4 * r.floor + r.im_floor + 1
              BY <1>7, <5>2 DEF Level
            <7> QED  BY <1>7, <4>2, <7>1
          <6>2. g = D_UP /\ D_UP # D_DOWN
            BY <1>9, <2>1, <5>2 DEF Proper, D_UP, D_DOWN
          <6>3. f > c.floor \/ f = c.floor
            BY <1>7, <2>1, <3>1, <6>1, <6>2
          <6> QED  BY <2>1, <5>1, <5>2, <6>1, <6>2, <6>3 DEF MovingStates
        <5>3. CASE r.state = S_IDE_DOLE /\ Level(c) = Level(r) - 1
          <6>1. c.floor = r.floor - 1 /\ c.im_floor = 3
            <7>1. 4 * c.floor + c.im_floor = 4 * r.floor + r.im_floor - 1
              BY <1>7, <5>3 DEF Level
            <7> QED  BY <1>7, <4>2, <7>1
          <6>2. g = D_DOWN /\ D_UP # D_DOWN
            BY <1>9, <2>1, <5>3 DEF Proper, D_UP, D_DOWN
          <6>3. f < c.floor \/ f = c.floor
            BY <1>7, <2>1, <3>1, <6>1, <6>2
          <6>4. c.state = S_IDE_DOLE
            BY <5>1, <5>3, <6>1
          <6> QED  BY <6>1, <6>2, <6>3, <6>4
        <5> QED  BY <5>1, <5>2, <5>3
      <4> QED  BY <4>1, <4>2
    <3>3. ticks[i] = 0 => ticks'[i] <= 1
      BY <1>6
    <3> QED  BY <1>6, <3>1, <3>2, <3>3, Zenon DEF OpensAhead
  <2>2. ASSUME NEW e \in naredba[i], EntryFits(i, e), e.place # PlaceNow(i, want)
        PROVE  EntryFits(i, e)'
    <3>1. CASE e.place[2] = 2 /\ e.action = A_LIFT_STANI_NA_KATU
      BY <3>1 DEF EntryFits
    <3>2. CASE /\ e.place[2] = 0 /\ e.place[4] = V_ZATVORENA /\ e.action = A_LIFT_OTVORI
               /\ e.place[3] # D_STOJI /\ OpensAhead(i, e.place[1], e.place[3])
      <4>1. PICK f, g : f = e.place[1] /\ g = e.place[3]
        OBVIOUS
      <4>2. /\ f \in stani[i]
            /\ \/ g = D_UP /\ f > c.floor
               \/ g = D_DOWN /\ f < c.floor
               \/ g = D_DOWN /\ f = c.floor /\ c.im_floor # 0 /\ c.state = S_IDE_DOLE
               \/ /\ f = c.floor /\ c.im_floor = 0 /\ g = c.direction
                  /\ c.state \in MovingStates \cup {S_STOJI_ZATVOREN} /\ ticks[i] <= 1
        BY <1>2, <3>2, <4>1 DEF OpensAhead
      <4>3. f \in want /\ f \in Nat /\ e.place = <<f, 0, g, V_ZATVORENA>>
        <5>1. e.place \in Places
          BY <1>7 DEF Entries
        <5>2. e.place = <<e.place[1], e.place[2], e.place[3], e.place[4]>>
          BY <5>1 DEF Places
        <5> QED  BY <1>7, <3>2, <4>1, <4>2, <5>2
      <4>4. f \in stani'[i]
        <5>1. CASE r.state # S_STOJI_OTVOREN
          BY <1>16, <4>3, <5>1
        <5>2. CASE r.state = S_STOJI_OTVOREN
          <6>1. c.floor = r.floor /\ c.state \notin MovingStates \cup {S_STOJI_ZATVOREN}
            <7>1. c.state \notin MovingStates \cup {S_STOJI_ZATVOREN}
              BY <1>15, <5>2
            <7>2. c.floor = r.floor
              BY <1>9, <1>12, <1>13, <5>2 DEF S_STOJI_OTVOREN, S_IDE_GORE, S_IDE_DOLE
            <7> QED  BY <7>1, <7>2
          <6>2. f # c.floor
            <7>1. (g = D_UP /\ f > c.floor) \/ (g = D_DOWN /\ f < c.floor)
              BY <4>2, <6>1 DEF MovingStates
            <7> QED  BY <1>7, <4>3, <7>1
          <6> QED  BY <1>16, <4>3, <6>1, <6>2
        <5> QED  BY <5>1, <5>2
      <4>5. ticks[i] <= 1 => ticks[i] = 0 \/ ticks[i] = 1
        BY <1>6
      <4>6. ASSUME f = c.floor, c.im_floor = 0, g = c.direction,
                   c.state \in MovingStates \cup {S_STOJI_ZATVOREN}, ticks[i] <= 1
            PROVE  ticks'[i] <= 1
        <5>1. CASE ticks[i] = 0
          BY <1>6, <5>1
        <5>2. CASE ticks[i] = 1
          <6>1. Shows(r, c)
            BY <1>9, <5>2
          <6>2. c.door = V_ZATVORENA
            BY <1>9, <4>6 DEF Proper
          <6>3. NextDirection(i, want) = r.direction
            BY <1>17, <4>3
          <6>4. e.place = PlaceNow(i, want)
            BY <1>12, <1>17, <4>3, <4>6, <6>1, <6>2, <6>3
          <6> QED  BY <2>2, <6>4
        <5> QED  BY <4>5, <4>6, <5>1, <5>2
      <4>7. OpensAhead(i, f, g)'
        BY <1>6, <4>2, <4>4, <4>6, Zenon DEF OpensAhead
      <4> QED  BY <3>2, <4>1, <4>7 DEF EntryFits
    <3> QED  BY <2>2, <3>1, <3>2 DEF EntryFits
  <2>3. ASSUME NEW e \in StopsAhead(i, want) PROVE EntryFits(i, e)'
    <3>1. CASE e.place[2] = 2 /\ e.action = A_LIFT_STANI_NA_KATU
      BY <3>1 DEF EntryFits
    <3>2. ASSUME NEW f \in Ahead(i, want),
                 e = Entry(f, 0, r.direction, V_ZATVORENA, A_LIFT_OTVORI)
          PROVE  EntryFits(i, e)'
      <4>1. /\ f \in want
            /\ \/ r.direction = D_UP /\ f > r.floor
               \/ r.direction = D_DOWN /\ f < r.floor
        BY <1>20
      <4>2. OpensAhead(i, f, r.direction)'
        BY <2>1, <4>1
      <4>3. /\ e.place[1] = f /\ e.place[2] = 0 /\ e.place[3] = r.direction
            /\ e.place[4] = V_ZATVORENA /\ e.action = A_LIFT_OTVORI
        BY <3>2 DEF Entry
      <4>4. r.direction # D_STOJI
        BY <4>1 DEF D_UP, D_DOWN, D_STOJI
      <4> QED  BY <4>2, <4>3, <4>4 DEF EntryFits
    <3> QED  BY <1>20, <3>1, <3>2
  <2>4. /\ \A e \in naredba'[i] : e \in Table(i, want) /\ e.place # PlaceNow(i, want)
        /\ \A e \in naredba'[i] : e \notin Errands(i, want)
    BY <1>16, <1>21
  <2>5. \A e \in naredba'[i] : EntryFits(i, e)'
    <3>1. \A e \in naredba[i] : EntryFits(i, e)
      BY <1>5 DEF OnCourse, Entered
    <3> QED  BY <1>21, <2>2, <2>3, <2>4, <3>1
  <2>6. ASSUME c.direction = D_STOJI PROVE naredba'[i] = {}
    <3>1. naredba[i] = {}
      BY <1>2, <1>5, <2>6 DEF OnCourse, Entered
    <3>2. r.direction = D_STOJI
      BY <1>9, <1>12, <1>13, <2>6 DEF D_STOJI, D_UP, D_DOWN
    <3>3. Ahead(i, want) = {}
      BY <1>20, <3>2 DEF D_STOJI, D_UP, D_DOWN
    <3>4. StopsAhead(i, want) = {}
      <4>1. StopsAhead(i, want) \subseteq
              UNION {{Entry(IF current[i].direction = D_UP THEN f - 1 ELSE f, 2,
                            current[i].direction, V_ZATVORENA, A_LIFT_STANI_NA_KATU),
                      Entry(f, 0, current[i].direction, V_ZATVORENA, A_LIFT_OTVORI)} :
                        f \in Ahead(i, want)}
        BY DEF StopsAhead
      <4> QED  BY <3>3, <4>1
    <3> QED  BY <1>21, <2>4, <3>1, <3>4
  <2> QED  BY <1>6, <2>5, <2>6 DEF Entered
<1>24. NeverOpens(i)'
  <2> SUFFICES ASSUME c.direction = D_STOJI, c.state = S_OTVARA_VRATA
               PROVE  /\ 0 \in stani'[i]
                      /\ \E a \in QueuedActions : OnWay(i, a)'
                      /\ ticks'[i] >= 2 => c.action \in QueuedActions
    BY <1>6 DEF NeverOpens
  <2>1. /\ 0 \in stani[i]
        /\ ticks[i] >= 1 => c.action \in QueuedActions
    BY <1>2, <1>5, <1>8 DEF OnCourse, NeverOpens
  <2>2. r.direction = D_STOJI /\ r.state # S_STOJI_OTVOREN
    <3>1. r.direction = D_STOJI
      BY <1>9, <1>12, <1>13 DEF S_STOJI_ZATVOREN, S_STOJI_OTVOREN, S_OTVARA_VRATA,
         S_ZATVARA_VRATA, S_IDE_GORE, S_IDE_DOLE
    <3> QED  BY <1>9, <3>1 DEF Proper, S_STOJI_ZATVOREN, S_STOJI_OTVOREN, S_OTVARA_VRATA
  <2>3. 0 \in Kept(i, want) /\ Kept(i, want) = want
    BY <1>7, <1>16, <2>1, <2>2
  <2>4. Free(i, want)
    BY <1>3, <1>14, <1>17, <2>2, <2>3 DEF Free
  <2>5. PICK e \in Due(i, want) : OnWay(i, e.action)' /\ e \in Errands(i, want)
    BY <1>19, <1>21, <1>22, <2>3, <2>4
  <2>6. e.action \in QueuedActions
    <3>1. Leads \subseteq QueuedActions
      BY DEF Leads, QueuedActions
    <3> QED  BY <1>19, <2>2, <2>5, <3>1
  <2> QED  BY <1>6, <1>16, <2>1, <2>3, <2>5, <2>6
<1>25. OrdersFit(i)'
  <2>1. /\ \A e \in naredba[i] : EntryFits(i, e)
        /\ A_LIFT_STANI_NA_KATU \notin Leads /\ A_LIFT_STATUS \notin Leads
        /\ A_LIFT_ZATVORI \notin Leads
        /\ A_LIFT_OTVORI \notin {A_LIFT_GORE, A_LIFT_DOLE}
    BY <1>5 DEF OnCourse, Entered, A_LIFT_STANI_NA_KATU, A_LIFT_STATUS, Leads,
       A_LIFT_GORE, A_LIFT_DOLE, A_LIFT_OTVORI, A_LIFT_ZATVORI
(* What is sent stands in naredba since earlier, or is an errand. *)
  <2>2. ASSUME NEW a \in Leads, OnWay(i, a)'
        PROVE  \/ /\ Free(i, want)
                  /\ a = A_LIFT_OTVORI => r.floor \in Kept(i, want)
                  /\ a = A_LIFT_GORE => \E g \in Kept(i, want) : g > r.floor
                  /\ a = A_LIFT_DOLE => \E g \in Kept(i, want) : g < r.floor
               \/ /\ a = A_LIFT_OTVORI /\ r.im_floor = 0
                  /\ \E g : OpensAhead(i, r.floor, g)
    <3>1. PICK e \in Due(i, want) : e.action = a
      BY <1>22, <2>1, <2>2
    <3>2. e \in Table(i, want) /\ e.place = PlaceNow(i, want)
      BY <1>21
    <3>3. CASE e \in Errands(i, want)
      BY <1>19, <2>1, <3>1, <3>3
    <3>4. CASE e \in StopsAhead(i, want)
      <4>1. PICK f \in Ahead(i, want) :
              e = Entry(f, 0, r.direction, V_ZATVORENA, A_LIFT_OTVORI)
        BY <1>20, <2>1, <3>1, <3>4
      <4>2. e.place[1] = f
        BY <4>1 DEF Entry
      <4>3. f = r.floor
        BY <1>17, <3>2, <4>2
      <4>4. f > r.floor \/ f < r.floor
        BY <1>20, <4>1
      <4> QED  BY <1>7, <4>3, <4>4
    <3>5. CASE e \in naredba[i]
      <4>1. /\ e.place[2] = 0 /\ e.action = A_LIFT_OTVORI
            /\ OpensAhead(i, e.place[1], e.place[3])
        BY <2>1, <3>1, <3>5 DEF EntryFits
      <4>2. r.im_floor = 0 /\ e.place[1] = r.floor
        BY <1>17, <3>2, <4>1
      <4> QED  BY <3>1, <4>1, <4>2
    <3> QED  BY <1>21, <3>2, <3>3, <3>4, <3>5
  <2>3. ASSUME NEW a \in {A_LIFT_GORE, A_LIFT_DOLE}, OnWay(i, a)'
        PROVE  /\ c.im_floor = 0 /\ Fits(i, a)'
               /\ c.state \in MovingStates => ticks'[i] <= 1
    <3>1. /\ Free(i, want)
          /\ a = A_LIFT_GORE => \E g \in Kept(i, want) : g > r.floor
          /\ a = A_LIFT_DOLE => \E g \in Kept(i, want) : g < r.floor
      BY <2>1, <2>2, <2>3 DEF Leads
    <3>2. Fits(i, a)'
      BY <1>6, <1>16, <1>18, <2>3, <3>1 DEF Fits
    <3>3. c.state \in MovingStates => ~Shows(r, c)
      BY <1>12, <1>18, <3>1 DEF MovingStates, S_STOJI_ZATVOREN, S_OTVARA_VRATA, S_IDE_GORE,
         S_IDE_DOLE
    <3> QED  BY <1>6, <1>9, <1>18, <3>1, <3>2, <3>3
  <2>4. ASSUME OnWay(i, A_LIFT_OTVORI)'
        PROVE  /\ c.state = S_STOJI_ZATVOREN => Fits(i, A_LIFT_OTVORI)'
               /\ c.state \in MovingStates => c.im_floor = 0 \/ ticks'[i] <= 1
               /\ c.state \in DoorStates /\ c.direction # D_STOJI => ticks'[i] <= 1
    <3>0. r.im_floor = 0
      BY <1>18, <2>2, <2>4 DEF Leads
    <3>1. c.state = S_STOJI_ZATVOREN => Fits(i, A_LIFT_OTVORI)'
      <4> SUFFICES ASSUME c.state = S_STOJI_ZATVOREN PROVE c.floor \in Kept(i, want)
        BY <1>6, <1>16 DEF Fits
      <4>1. CASE Free(i, want) /\ r.floor \in Kept(i, want)
        BY <1>18, <4>1
      <4>2. ASSUME NEW g, OpensAhead(i, r.floor, g) PROVE c.floor \in Kept(i, want)
        <5>1. r.floor \in Kept(i, want)
          BY <1>7, <1>15, <1>16, <4>2 DEF OpensAhead
        <5>2. c.floor = r.floor
          <6>1. c.im_floor = 0 => Level(c) # Level(r) + 1 /\ Level(c) # Level(r) - 1
            BY <1>7, <3>0 DEF Level
          <6>2. c.im_floor = 0
            BY <1>9 DEF Sound, MovingStates, S_STOJI, S_IDE_GORE, S_IDE_DOLE, S_STOJI_ZATVOREN
          <6> QED  BY <1>9, <1>12, <1>13, <6>1, <6>2
        <5> QED  BY <5>1, <5>2
      <4> QED  BY <2>2, <2>4, <4>1, <4>2 DEF Leads
    <3>2. c.state \in MovingStates => c.im_floor = 0 \/ ticks'[i] <= 1
      BY <1>6, <1>9, <1>12, <3>0
    <3>3. ASSUME c.state \in DoorStates, c.direction # D_STOJI, Shows(r, c)
          PROVE  FALSE
      <4>1. ~Free(i, want)
        BY <1>12, <1>18, <3>3 DEF DoorStates, S_STOJI_ZATVOREN, S_STOJI_OTVOREN,
           S_OTVARA_VRATA, S_ZATVARA_VRATA
      <4>2. PICK g : OpensAhead(i, r.floor, g)
        BY <2>2, <2>4, <4>1 DEF Leads
      <4>3. c.state \notin MovingStates \cup {S_STOJI_ZATVOREN} /\ c.state # S_IDE_DOLE
        BY <3>3 DEF DoorStates, MovingStates, S_STOJI_ZATVOREN, S_STOJI_OTVOREN,
           S_OTVARA_VRATA, S_ZATVARA_VRATA, S_IDE_GORE, S_IDE_DOLE
      <4> QED  BY <1>2, <1>7, <1>12, <3>3, <4>2, <4>3 DEF OpensAhead
    <3> QED  BY <1>6, <1>9, <3>1, <3>2, <3>3
  <2>5. ASSUME c.state = S_STOJI_ZATVOREN PROVE Fits(i, c.action)'
    <3>1. Fits(i, c.action)
      BY <1>2, <1>5, <2>5 DEF OnCourse, OrdersFit
    <3>2. stani[i] \subseteq stani'[i]
      BY <1>7, <1>15, <1>16, <2>5
    <3> QED  BY <1>2, <1>6, <3>1, <3>2 DEF Fits
  <2> QED  BY <1>6, <2>3, <2>4, <2>5 DEF OrdersFit
<1>26. HasStopAhead(i)'
  <2> SUFFICES ASSUME c.state \in MovingStates
               PROVE  /\ c.state = S_IDE_GORE => \E g \in stani'[i] : RisesTo(i, g)'
                      /\ c.state = S_IDE_DOLE => \E g \in stani'[i] : DescendsTo(i, g)'
    BY <1>6 DEF HasStopAhead, MovingStates
  <2>1. /\ stani[i] \subseteq stani'[i] /\ want = Kept(i, want)
        /\ r.state # S_STOJI_OTVOREN
    BY <1>7, <1>15, <1>16
  <2>2. c.stop => Stops(i)' /\ StopsNow(i)'
    BY <1>6 DEF Stops, StopsNow
  <2>3. Stops(i) => c.stop
    BY <1>2, <1>8 DEF Stops
  <2>4. StopsNow(i) => c.stop
    BY <1>2, <1>8 DEF StopsNow
(* Between two floors, or on its way in both rounds, no errand is sent. *)
  <2>5. ASSUME r.state \in MovingStates
        PROVE  /\ Errands(i, want) = {} /\ NextDirection(i, want) = r.direction
               /\ r.door = V_ZATVORENA
               /\ r.state = S_IDE_GORE => r.direction = D_UP
               /\ r.state = S_IDE_DOLE => r.direction = D_DOWN
    <3>1. r.state # S_STOJI_ZATVOREN /\ r.state # S_OTVARA_VRATA
      BY <2>5 DEF MovingStates, S_STOJI_ZATVOREN, S_OTVARA_VRATA, S_IDE_GORE, S_IDE_DOLE
    <3>2. ~Free(i, want)
      BY <1>18, <3>1
    <3> QED  BY <1>9, <1>17, <1>19, <2>1, <2>5, <3>1, <3>2 DEF Proper
(* At quarter 2 only stops are sent. *)
  <2>6. ASSUME NEW e \in Due(i, want), r.im_floor = 2, r.state \in MovingStates
        PROVE  Stops(i)'
    <3>1. PICK n \in Due(i, want) : OnWay(i, n.action)'
      BY <1>22
    <3>2. n \in Table(i, want) /\ n.place[2] = 2
      BY <1>17, <1>21, <2>6
    <3>3. n \in naredba[i] => EntryFits(i, n)
      BY <1>5 DEF OnCourse, Entered
    <3>4. n \in StopsAhead(i, want) => n.action = A_LIFT_STANI_NA_KATU
      <4>1. \A f, d : Entry(f, 0, d, V_ZATVORENA, A_LIFT_OTVORI).place[2] = 0
        BY DEF Entry
      <4> QED  BY <1>20, <3>2, <4>1
    <3>5. n.action = A_LIFT_STANI_NA_KATU
      BY <1>21, <2>5, <2>6, <3>2, <3>3, <3>4 DEF EntryFits
    <3> QED  BY <3>1, <3>5 DEF Stops
(* A stop ahead is entered for the second quarter before it. *)
  <2>7. ASSUME NEW g \in stani[i], r.state \in MovingStates,
               \/ r.state = S_IDE_GORE /\ g > r.floor
               \/ r.state = S_IDE_DOLE /\ g < r.floor
        PROVE  Entry(IF r.direction = D_UP THEN g - 1 ELSE g, 2, r.direction,
                     V_ZATVORENA, A_LIFT_STANI_NA_KATU) \in Table(i, want)
    <3>1. g \in Ahead(i, want)
      <4>1. g \in want
        BY <1>7
      <4>2. \/ r.direction = D_UP /\ g > r.floor
            \/ r.direction = D_DOWN /\ g < r.floor
        BY <2>5, <2>7
      <4> QED  BY <1>3, <2>1, <4>1, <4>2 DEF Ahead, D_UP, D_DOWN
    <3> QED  BY <1>20, <1>21, <2>5, <2>7, <3>1
  <2>8. ASSUME c.state = S_IDE_GORE PROVE \E g \in stani'[i] : RisesTo(i, g)'
    <3>1. PICK g \in stani[i] : RisesTo(i, g)
      BY <1>2, <1>5, <2>8 DEF OnCourse, HasStopAhead
    <3>2. /\ g \in Nat /\ g \in stani'[i]
          /\ Level(c) < 4 * g
          /\ Level(c) = 4 * g - 2 => c.stop \/ ticks[i] <= 1
          /\ Level(c) = 4 * g - 1 => c.stop
      BY <1>2, <1>7, <2>1, <2>3, <2>4, <3>1 DEF RisesTo
    <3>3. ASSUME Level(c) = 4 * g - 2, ticks[i] = 1 PROVE Stops(i)'
      <4>1. /\ r.floor = c.floor /\ r.im_floor = c.im_floor /\ r.state = S_IDE_GORE
            /\ r.state \in MovingStates
        BY <1>9, <1>12, <2>8, <3>3 DEF MovingStates
      <4>2. r.floor = g - 1 /\ r.im_floor = 2
        BY <1>7, <3>2, <3>3, <4>1 DEF Level
      <4>3. /\ NextDirection(i, want) = D_UP /\ r.direction = D_UP /\ r.door = V_ZATVORENA
            /\ Entry(g - 1, 2, D_UP, V_ZATVORENA, A_LIFT_STANI_NA_KATU) \in Table(i, want)
        BY <1>7, <2>5, <2>7, <3>2, <4>1, <4>2
      <4>4. Entry(g - 1, 2, D_UP, V_ZATVORENA, A_LIFT_STANI_NA_KATU).place = PlaceNow(i, want)
        BY <1>17, <4>2, <4>3 DEF Entry
      <4> QED  BY <1>21, <2>6, <4>1, <4>2, <4>3, <4>4
    <3>4. Level(c) = 4 * g - 2 => Stops(i)' \/ ticks'[i] <= 1
      <4>1. ticks[i] <= 1 => ticks[i] = 1 \/ ticks'[i] <= 1
        BY <1>6
      <4> QED  BY <2>2, <3>2, <3>3, <4>1
    <3>5. RisesTo(i, g)'
      BY <1>6, <2>2, <3>2, <3>4 DEF RisesTo
    <3> QED  BY <3>2, <3>5
  <2>9. ASSUME c.state = S_IDE_DOLE PROVE \E g \in stani'[i] : DescendsTo(i, g)'
    <3>1. PICK g \in stani[i] : DescendsTo(i, g)
      BY <1>2, <1>5, <2>9 DEF OnCourse, HasStopAhead
    <3> DEFINE stop == Entry(g, 2, D_DOWN, V_ZATVORENA, A_LIFT_STANI_NA_KATU)
    <3>2. /\ g \in Nat /\ g \in stani'[i]
          /\ Level(c) > 4 * g
          /\ Level(c) = 4 * g + 3 => Placed(i, g)
          /\ Level(c) = 4 * g + 2 => c.stop \/ (Placed(i, g) /\ ticks[i] <= 1)
          /\ Level(c) = 4 * g + 1 => c.stop
      BY <1>2, <1>7, <2>1, <2>3, <2>4, <3>1 DEF DescendsTo
    <3>3. /\ c.im_floor # 0 => r.state = S_IDE_DOLE
          /\ \/ r.floor = c.floor /\ r.im_floor = c.im_floor
             \/ Level(r) = Level(c) + 1 /\ ticks[i] = 0
          /\ Shows(r, c) => r.state = S_IDE_DOLE
      <4>1. c.im_floor # 0 => r.state # S_STOJI_ZATVOREN \/ r.im_floor # c.im_floor
        BY <1>9 DEF Sound, MovingStates, S_STOJI, S_IDE_GORE, S_IDE_DOLE, S_STOJI_ZATVOREN
      <4>2. Level(c) \in Int /\ Level(r) \in Int
        BY <1>7 DEF Level
      <4>3. CASE Shows(r, c)
        BY <1>12, <2>9, <4>3
      <4>4. CASE ~Shows(r, c)
        <5>1. \/ /\ r.floor = c.floor /\ r.im_floor = c.im_floor
                 /\ r.state = S_STOJI_ZATVOREN
              \/ r.state = S_IDE_DOLE /\ Level(c) = Level(r) - 1
          BY <1>9, <1>13, <2>9, <4>4 DEF S_STOJI_ZATVOREN, S_STOJI_OTVOREN, S_OTVARA_VRATA,
             S_ZATVARA_VRATA, S_IDE_GORE, S_IDE_DOLE
        <5> QED  BY <1>9, <4>1, <4>2, <4>4, <5>1
      <4> QED  BY <4>3, <4>4
    <3>4. stop.place = <<g, 2, D_DOWN, V_ZATVORENA>> /\ stop.action = A_LIFT_STANI_NA_KATU
      BY DEF Entry
    <3>5. ASSUME Placed(i, g), r.state = S_IDE_DOLE PROVE stop \in Table(i, want)
      <4>1. stop \in naredba[i]
        BY <3>5 DEF Placed
      <4>2. Errands(i, want) = {}
        BY <2>5, <3>5 DEF MovingStates
      <4>3. ASSUME NEW n \in StopsAhead(i, want), n.place = stop.place PROVE n = stop
        <5>1. n.action = A_LIFT_STANI_NA_KATU
          <6>1. \A f, d : Entry(f, 0, d, V_ZATVORENA, A_LIFT_OTVORI).place[2] = 0
            BY DEF Entry
          <6>2. n.place[2] = 2
            BY <3>4, <4>3
          <6> QED  BY <1>20, <6>1, <6>2
        <5>2. n \in Entries
          <6>1. want \in SUBSET Floors
            BY <1>4, WantedType
          <6> QED  BY <6>1, StopsAheadType
        <5>3. n = [place |-> n.place, action |-> n.action]
          BY <5>2 DEF Entries
        <5> QED  BY <3>4, <4>3, <5>1, <5>3 DEF Entry
      <4> QED  BY <1>21, <4>1, <4>2, <4>3
    <3>6. ASSUME stop \in Table(i, want), r.state = S_IDE_DOLE, r.floor = g, r.im_floor = 2
          PROVE  Stops(i)'
      <4>1. /\ NextDirection(i, want) = D_DOWN /\ r.door = V_ZATVORENA
            /\ r.state \in MovingStates
        BY <2>5, <3>6 DEF MovingStates
      <4>2. stop.place = PlaceNow(i, want)
        BY <1>17, <3>4, <3>6, <4>1
      <4> QED  BY <1>21, <2>6, <3>6, <4>1, <4>2
    <3>7. ASSUME stop \in Table(i, want), r.floor # g \/ r.im_floor # 2
          PROVE  Placed(i, g)'
      <4>1. stop.place # PlaceNow(i, want)
        BY <1>17, <3>4, <3>7
      <4> QED  BY <1>16, <1>21, <3>7, <4>1 DEF Placed
    <3> HIDE DEF stop
    <3>8. Level(c) = 4 * g + 4 => Placed(i, g)' \/ ticks'[i] <= 1
      <4> SUFFICES ASSUME Level(c) = 4 * g + 4, ticks[i] # 0 PROVE Placed(i, g)'
        BY <1>6
      <4>1. /\ r.state = S_IDE_DOLE /\ r.floor = c.floor /\ r.im_floor = c.im_floor
            /\ r.state \in MovingStates
        BY <1>9, <3>3 DEF MovingStates
      <4>2. r.floor = g + 1 /\ r.im_floor = 0
        BY <1>7, <3>2, <4>1 DEF Level
      <4>3. r.direction = D_DOWN /\ D_DOWN # D_UP /\ g < r.floor
        BY <2>5, <3>2, <4>1, <4>2 DEF D_UP, D_DOWN
      <4>4. stop \in Table(i, want)
        BY <2>7, <4>1, <4>3 DEF stop
      <4> QED  BY <3>7, <4>2, <4>4
    <3>9. Level(c) = 4 * g + 3 => Placed(i, g)'
      <4> SUFFICES ASSUME Level(c) = 4 * g + 3 PROVE Placed(i, g)'
        OBVIOUS
      <4>1. c.floor = g /\ c.im_floor = 3
        BY <1>7, <3>2 DEF Level
      <4>2. r.floor # g \/ r.im_floor # 2
        BY <1>7, <3>2, <3>3, <4>1 DEF Level
      <4> QED  BY <3>2, <3>3, <3>5, <3>7, <4>1, <4>2
    <3>10. Level(c) = 4 * g + 2 => Stops(i)' \/ (Placed(i, g)' /\ ticks'[i] <= 1)
      <4> SUFFICES ASSUME Level(c) = 4 * g + 2, Placed(i, g)
                   PROVE  Stops(i)' \/ (Placed(i, g)' /\ ticks'[i] <= 1)
        BY <2>2, <3>2
      <4>1. c.floor = g /\ c.im_floor = 2
        BY <1>7, <3>2 DEF Level
      <4>2. r.state = S_IDE_DOLE /\ stop \in Table(i, want)
        BY <3>3, <3>5, <4>1
      <4>3. CASE r.floor = g /\ r.im_floor = 2
        BY <3>6, <4>2, <4>3
      <4>4. CASE r.floor # g \/ r.im_floor # 2
        BY <1>6, <3>3, <3>7, <4>1, <4>2, <4>4
      <4> QED  BY <4>3, <4>4
    <3>11. DescendsTo(i, g)'
      BY <1>6, <2>2, <3>2, <3>8, <3>9, <3>10 DEF DescendsTo
    <3> QED  BY <3>2, <3>11
  <2> QED  BY <2>8, <2>9
<1> QED  BY <1>1, <1>2, <1>6, <1>11, <1>23, <1>24, <1>25, <1>26 DEF OnCourse

Courses == \A i \in Lifts : Course(i)

LEMMA InitCourse == Init => Courses
<1> SUFFICES ASSUME Init, NEW i \in Lifts PROVE OnCourse(i)
  BY DEF Courses, Course
<1>1. /\ car[i] = InitialCar /\ naredba[i] = {} /\ to_upr = <<>>
      /\ to_lift[i] = <<Action(i, A_LIFT_STATUS)>>
  BY DEF Init
<1>2. Range(to_lift[i]) = {Action(i, A_LIFT_STATUS)} /\ Range(to_upr) = {}
  BY <1>1 DEF Range
<1>3. /\ car[i].floor = 0 /\ car[i].im_floor = 0 /\ car[i].door = V_ZATVORENA
      /\ car[i].direction = D_STOJI /\ car[i].state = S_STOJI_ZATVOREN
      /\ car[i].action = A_UNDEF
  BY <1>1 DEF InitialCar
<1>4. /\ car[i].state \notin {S_STOJI, S_OTVARA_VRATA, S_IDE_GORE, S_IDE_DOLE,
                              S_STOJI_OTVOREN, S_ZATVARA_VRATA}
      /\ A_UNDEF \notin Leads /\ A_LIFT_STATUS \notin Leads
  BY <1>3 DEF S_STOJI, S_OTVARA_VRATA, S_IDE_GORE, S_IDE_DOLE, S_STOJI_ZATVOREN,
     S_STOJI_OTVOREN, S_ZATVARA_VRATA, Leads, A_UNDEF, A_LIFT_STATUS, A_LIFT_GORE,
     A_LIFT_DOLE, A_LIFT_OTVORI
<1>5. Proper(car[i])
  BY <1>3, <1>4 DEF Proper, Running, Sound
<1>6. Informed(i)
  <2>1. AsksStatus(Action(i, A_LIFT_STATUS))
    BY DEF AsksStatus, Action, Msg
  <2> QED  BY <1>2, <2>1 DEF Informed, Asked
<1>7. Entered(i) /\ NeverOpens(i) /\ HasStopAhead(i)
  BY <1>1, <1>4 DEF Entered, NeverOpens, HasStopAhead
<1>8. OrdersFit(i)
  <2>1. \A a \in Leads : ~OnWay(i, a)
    BY <1>2, <1>4 DEF OnWay, IsOrder, Action, Msg
  <2>2. Fits(i, car[i].action)
    BY <1>3, <1>4 DEF Fits, Leads
  <2> QED  BY <2>1, <2>2 DEF OrdersFit, Leads
<1> QED  BY <1>5, <1>6, <1>7, <1>8 DEF OnCourse

(* With two rounds of upr() in each round of the lifts, every step keeps all *)
(* lifts on their course.                                                      *)
LEMMA NextCourse ==
  ASSUME MinTicks >= 2, IInv, HallOK, Timely, Courses, [Next]_vars
  PROVE  Courses'
<1> SUFFICES ASSUME NEW i \in Lifts PROVE Course(i)'
  BY DEF Courses
<1>1. TimelyLift(i) /\ Course(i)
  BY DEF Timely, Courses
<1>2. CASE UprRound \/ UprListener
  BY <1>1, <1>2, UprRoundCourse, UprListenerCourse
<1>3. ASSUME NEW j \in Lifts, LiftRound(j) \/ LiftListener(j) PROVE Course(i)'
  BY <1>1, <1>3, OtherLiftCourse, LiftRoundCourse, LiftListenerCourse
<1>4. CASE Passengers \/ Lose
  BY <1>1, <1>4, PassengersCourse, LoseCourse
<1>5. CASE TipkeListener \/ UNCHANGED vars
  <2>1. UNCHANGED <<car, current, stani, naredba, to_lift, to_upr, ticks, losses>>
    BY <1>5 DEF TipkeListener, vars, liftVars, uprVars, netVars, bounds
  <2> QED  BY <1>1, <2>1, UntouchedCourse DEF UprQueueKept, OrdersKept
<1> QED  BY <1>2, <1>3, <1>4, <1>5 DEF Next, Program

LEMMA CourseInvariant ==
  ASSUME MinTicks >= 2
  PROVE  Spec => []Courses
<1>1. Timely /\ IInv /\ HallOK /\ Courses /\ [Next]_vars => Courses'
  BY NextCourse
<1> QED  BY <1>1, InitCourse, Invariant, HallInvariant, TimelyInvariant, PTL DEF Spec

(* Unless a datagram is lost, a travelling lift always has a floor ahead where *)
(* it has to stop: though the command to stop is sent one quarter of a floor   *)
(* before the lift needs it, and from an old report, it is never too late.     *)
THEOREM StopsAheadAreNotMissed ==
  ASSUME MinTicks >= 2
  PROVE  Spec => []NeverMissesStop
<1>1. Courses => NeverMissesStop
  <2> SUFFICES ASSUME Courses, losses = 0, NEW i \in Lifts
               PROVE  /\ car[i].state = S_IDE_GORE => \E f \in stani[i] : 4 * f > Height(i)
                      /\ car[i].state = S_IDE_DOLE => \E f \in stani[i] : 4 * f < Height(i)
    BY DEF NeverMissesStop
  <2>1. ASSUME car[i].state \in MovingStates PROVE HasStopAhead(i)
    <3>1. Running(car[i])
      BY <2>1 DEF Running, MovingStates, S_STOJI, S_IDE_GORE, S_IDE_DOLE
    <3> QED  BY <3>1 DEF Courses, Course, OnCourse
  <2>2. Height(i) = Level(car[i])
    BY DEF Height, Level
  <2>3. CASE car[i].state = S_IDE_GORE
    <3>1. PICK g \in stani[i] : Level(car[i]) < 4 * g
      BY <2>1, <2>3 DEF MovingStates, HasStopAhead, RisesTo
    <3> QED  BY <2>2, <2>3, <3>1 DEF S_IDE_GORE, S_IDE_DOLE
  <2>4. CASE car[i].state = S_IDE_DOLE
    <3>1. PICK g \in stani[i] : Level(car[i]) > 4 * g
      BY <2>1, <2>4 DEF MovingStates, HasStopAhead, DescendsTo
    <3> QED  BY <2>2, <2>4, <3>1 DEF S_IDE_GORE, S_IDE_DOLE
  <2> QED  BY <2>3, <2>4
<1> QED  BY <1>1, CourseInvariant, PTL

OpensStep ==
  losses' = 0 => \A i \in Lifts :
    car[i].state # S_OTVARA_VRATA /\ car'[i].state = S_OTVARA_VRATA
      => car[i].floor \in stani[i]

(* A door opens on the order to open it, taken at a floor it was fit for. *)
LEMMA NextOpens ==
  ASSUME IInv, HallOK, Timely, Courses, [Next]_vars
  PROVE  OpensStep
<1> SUFFICES ASSUME losses' = 0, NEW i \in Lifts,
                    car[i].state # S_OTVARA_VRATA, car'[i].state = S_OTVARA_VRATA
             PROVE  car[i].floor \in stani[i]
  BY DEF OpensStep
<1>1. car[i] \in SoundCars
  BY DEF Timely, TimelyLift
<1>2. CASE LiftRound(i)
  <2>1. PICK c \in SoundCars : c = car[i]
    BY <1>1
  <2>2. PICK d : d = Round(c)
    OBVIOUS
  <2>3. Running(c) /\ car'[i] = d /\ losses = 0
    BY <1>2, <2>1, <2>2 DEF LiftRound, IInv
  <2>4. Running(d)
    BY <2>3 DEF Running, S_OTVARA_VRATA, S_STOJI
  <2>5. Steps(c, d)
    BY <2>2, <2>3, <2>4, RoundSteps
  <2>6. c.state = S_STOJI_ZATVOREN /\ c.action = A_LIFT_OTVORI
    BY <2>1, <2>3, <2>5 DEF Steps, Obeys, WorksDoor, Travels, S_OTVARA_VRATA,
       S_STOJI_OTVOREN, S_ZATVARA_VRATA, S_STOJI_ZATVOREN, S_IDE_GORE, S_IDE_DOLE
  <2>7. Fits(i, A_LIFT_OTVORI)
    BY <2>1, <2>3, <2>6 DEF Courses, Course, OnCourse, OrdersFit
  <2> QED  BY <2>7 DEF Fits, A_LIFT_GORE, A_LIFT_DOLE, A_LIFT_OTVORI
<1>3. CASE LiftAction(i)
  <2>1. PICK a : a = Head(to_lift[i]).data
    OBVIOUS
  <2>2. to_lift[i] # <<>> /\ Head(to_lift[i]).type = "LIFT_ACTION_START"
        /\ a # A_LIFT_STATUS /\ car'[i] = TakeAction(car[i], a)
    BY <1>3, <2>1 DEF LiftAction, TakeFrom, IInv
  <2>3. Head(to_lift[i]) \in LiftMessages
    BY <2>2, HeadTailProperties DEF IInv
  <2>4. a \in Commands
    BY <2>1, <2>2, <2>3, MessageTypes
  <2> QED  BY <1>1, <2>2, <2>4, TakeActionSame
<1>4. ASSUME ~LiftRound(i), ~LiftAction(i) PROVE car'[i] = car[i]
  <2>1. ASSUME NEW j \in Lifts, LiftRound(j) \/ LiftAction(j), j # i PROVE car'[i] = car[i]
    BY <2>1 DEF LiftRound, LiftAction, IInv
  <2>2. CASE UprRound \/ UprListener \/ TipkeListener
    BY <2>2 DEF UprRound, UprListener, HallKey, CabinKey, SendLamp, Report, Stop,
       TipkeListener, liftVars
  <2>3. ASSUME NEW j \in Lifts, LiftLamp(j) \/ LiftStatus(j) \/ LiftGone(j)
        PROVE  car'[i] = car[i]
    BY <2>3 DEF LiftLamp, LiftStatus, LiftGone, liftVars
  <2>4. CASE Passengers \/ Lose
    BY <2>4 DEF Passengers, PressStop, PressCabin, PressHall, Send, Lose, liftVars
  <2>5. CASE UNCHANGED vars
    BY <2>5 DEF vars, liftVars
  <2> QED  BY <1>4, <2>1, <2>2, <2>3, <2>4, <2>5 DEF Next, Program, LiftListener
<1> QED  BY <1>2, <1>3, <1>4

(* Unless a datagram is lost, a lift opens its door only at a floor where it   *)
(* still has to stop, never on an order left over from an earlier errand.      *)
THEOREM OpensOnlyForRequests ==
  ASSUME MinTicks >= 2
  PROVE  Spec => OpensForRequest
<1>1. IInv /\ HallOK /\ Timely /\ Courses /\ [Next]_vars => [OpensStep]_vars
  BY NextOpens
<1> QED  BY <1>1, Invariant, HallInvariant, TimelyInvariant, CourseInvariant, PTL
         DEF Spec, OpensForRequest, OpensStep
------------------------------------------------------------------------------
(* The lamps again.  Unless a datagram is lost, a lift that has never moved   *)
(* opens no door, and so upr is told of none, now or when the reports on      *)
(* their way arrive.                                                          *)
OpensMoved(r)   == r.state = S_STOJI_OTVOREN => r.direction # D_STOJI
TellsOpening(m) == m.type = "LIFT_STATUS_REPORT" => OpensMoved(m.data)

OpenDoorsMoved == losses = 0 => /\ \A i \in Lifts : OpensMoved(current[i])
                                /\ \A m \in Range(to_upr) : TellsOpening(m)

LEMMA CarOpensMoved ==
  ASSUME Courses, losses = 0, NEW i \in Lifts
  PROVE  OpensMoved(car[i])
<1>1. CASE Running(car[i])
  <2>1. Proper(car[i])
    BY <1>1 DEF Courses, Course, OnCourse
  <2> QED  BY <2>1 DEF Proper, OpensMoved, S_STOJI_OTVOREN, S_STOJI_ZATVOREN, S_OTVARA_VRATA
<1>2. CASE ~Running(car[i])
  BY <1>2 DEF Running, OpensMoved, S_STOJI, S_STOJI_OTVOREN
<1> QED  BY <1>1, <1>2

LEMMA NextOpenDoors ==
  ASSUME IInv, HallOK, Courses, OpenDoorsMoved, [Next]_vars
  PROVE  OpenDoorsMoved'
<1> SUFFICES ASSUME losses' = 0
             PROVE  /\ \A i \in Lifts : OpensMoved(current'[i])
                    /\ \A m \in Range(to_upr') : TellsOpening(m)
  BY DEF OpenDoorsMoved
<1>1. CASE Lose
  BY <1>1 DEF Lose, HallOK
<1> SUFFICES ASSUME ~Lose
             PROVE  /\ \A i \in Lifts : OpensMoved(current'[i])
                    /\ \A m \in Range(to_upr') : TellsOpening(m)
  BY <1>1
<1>2. losses = 0
  BY DEF Next, Program, UprRound, UprListener, HallKey, CabinKey, SendLamp, Report,
         Stop, TipkeListener, LiftRound, LiftListener, LiftLamp, LiftAction,
         LiftStatus, LiftGone, Passengers, PressStop, PressCabin, PressHall, Send,
         bounds, vars
<1>3. /\ \A i \in Lifts : OpensMoved(current[i])
      /\ \A m \in Range(to_upr) : TellsOpening(m)
      /\ to_upr \in Seq(UprMessages)
  BY <1>2 DEF OpenDoorsMoved, IInv
<1>4. ASSUME to_upr # <<>>, to_upr' = Tail(to_upr)
      PROVE  \A m \in Range(to_upr') : TellsOpening(m)
  BY <1>3, <1>4, RangeOfQueues
<1>5. ASSUME NEW m \in UprMessages, TellsOpening(m), to_upr' = Append(to_upr, m)
      PROVE  \A n \in Range(to_upr') : TellsOpening(n)
  BY <1>3, <1>5, RangeOfQueues
<1>6. CASE UprRound
  <2>1. to_upr' = to_upr
    BY <1>6 DEF UprRound
  <2>2. ASSUME NEW i \in Lifts PROVE OpensMoved(current'[i])
    <3>1. current'[i] = [current[i] EXCEPT !.direction = NextDirection(i, Wanted(i))]
      BY <1>6 DEF UprRound
    <3>2. /\ current'[i].state = current[i].state
          /\ current'[i].direction = NextDirection(i, Wanted(i))
      BY <3>1 DEF IInv, Known
    <3> QED  BY <1>3, <3>2 DEF OpensMoved, NextDirection, S_STOJI_OTVOREN, S_STOJI_ZATVOREN
  <2> QED  BY <1>3, <2>1, <2>2
<1>7. CASE HallKey \/ CabinKey \/ Stop
  <2>1. to_upr # <<>> /\ to_upr' = Tail(to_upr) /\ current' = current
    BY <1>7 DEF HallKey, CabinKey, Stop, Receive, uprVars
  <2> QED  BY <1>3, <1>4, <2>1
<1>8. CASE Report
  <2> DEFINE m == Head(to_upr)
  <2>1. /\ to_upr # <<>> /\ m.type = "LIFT_STATUS_REPORT" /\ to_upr' = Tail(to_upr)
        /\ current' = [current EXCEPT ![m.lift] = m.data]
    BY <1>8 DEF Report, Receive
  <2>2. m \in Range(to_upr)
    BY <1>3, <2>1, RangeOfQueues
  <2>3. OpensMoved(m.data)
    BY <1>3, <2>1, <2>2 DEF TellsOpening
  <2>4. \A i \in Lifts : current'[i] \in {current[i], m.data}
    BY <2>1 DEF IInv
  <2> QED  BY <1>3, <1>4, <2>1, <2>3, <2>4
<1>9. ASSUME NEW i \in Lifts, LiftStatus(i)
      PROVE  /\ \A j \in Lifts : OpensMoved(current'[j])
             /\ \A m \in Range(to_upr') : TellsOpening(m)
  <2> DEFINE m == Msg("LIFT_STATUS_REPORT", i, to_string(car[i]))
  <2>1. to_upr' = Append(to_upr, m) /\ current' = current
    BY <1>9 DEF LiftStatus, uprVars
  <2>2. m \in UprMessages
    <3>1. to_string(car[i]) \in Reports
      BY DEF IInv, SafeCars, Cars, to_string, Reports
    <3> QED  BY <3>1, MessagesMade
  <2>3. TellsOpening(m)
    <3>1. OpensMoved(car[i])
      BY <1>2, CarOpensMoved
    <3>2. OpensMoved(to_string(car[i]))
      BY <3>1 DEF OpensMoved, to_string
    <3> QED  BY <3>2 DEF TellsOpening, Msg
  <2> HIDE DEF m
  <2> QED  BY <1>3, <1>5, <2>1, <2>2, <2>3
<1>10. CASE Passengers
  <2>1. PICK m \in UprMessages : /\ m.type # "LIFT_STATUS_REPORT"
                                 /\ Send(m)
    <3>1. CASE \E i \in Lifts, f \in Floors : PressCabin(i, f)
      BY <3>1, MessagesMade DEF PressCabin, Msg
    <3>2. CASE \E i \in Lifts : PressStop(i)
      <4>1. 0 \in Floors
        BY FloorsAssumption DEF Floors
      <4> QED  BY <3>2, <4>1, MessagesMade DEF PressStop, Msg
    <3>3. CASE \E k \in HallKeys : PressHall(k)
      <4>1. 0 \in Lifts
        BY ElevatorsAssumption DEF Lifts
      <4> QED  BY <3>3, <4>1, MessagesMade DEF PressHall, Msg, HallKeys
    <3> QED  BY <1>10, <3>1, <3>2, <3>3 DEF Passengers
  <2>2. to_upr' = Append(to_upr, m) /\ current' = current /\ TellsOpening(m)
    BY <2>1 DEF Send, uprVars, TellsOpening
  <2> QED  BY <1>3, <1>5, <2>2
<1>11. CASE \/ SendLamp \/ TipkeListener \/ UNCHANGED vars
            \/ \E i \in Lifts : LiftRound(i) \/ LiftLamp(i) \/ LiftAction(i) \/ LiftGone(i)
  <2>1. to_upr' = to_upr /\ current' = current
    BY <1>11 DEF SendLamp, TipkeListener, LiftRound, LiftLamp, LiftAction, LiftGone,
                 uprVars, netVars, vars
  <2> QED  BY <1>3, <2>1
<1> QED  BY <1>6, <1>7, <1>8, <1>9, <1>10, <1>11
         DEF Next, Program, UprListener, LiftListener

LEMMA OpenDoorsInvariant ==
  ASSUME MinTicks >= 2
  PROVE  Spec => []OpenDoorsMoved
<1>1. Init => OpenDoorsMoved
  <2>1. ASSUME Init PROVE Range(to_upr) = {} /\ \A i \in Lifts : current[i].state = UNKNOWN
    BY <2>1 DEF Init, Range
  <2> QED  BY <2>1 DEF OpenDoorsMoved, OpensMoved, UNKNOWN, S_STOJI_OTVOREN
<1> QED  BY <1>1, Invariant, HallInvariant, CourseInvariant, NextOpenDoors, PTL DEF Spec

LEMMA LampInvariant ==
  ASSUME MinTicks >= 2
  PROVE  Spec => []LampsFollow
<1>1. Init => LampsFollow
  BY DEF Init, LampsFollow, HallLampsFollow, CabinLampsFollow
<1>2. OpenDoorsMoved => (losses = 0 => NoneOpensUnmoved)
  BY DEF OpenDoorsMoved, OpensMoved, NoneOpensUnmoved, DoorOpen
<1>3. IInv /\ HallOK /\ OpenDoorsMoved /\ LampsFollow /\ [Next]_vars => LampsFollow'
  BY <1>2, NextLamps
<1> QED  BY <1>1, <1>3, Invariant, HallInvariant, OpenDoorsInvariant, PTL DEF Spec

(* However many lifts and floors there are: unless a datagram is lost, the    *)
(* lamp of a call, new or assigned, and of a cabin key that waits is lit and  *)
(* stays so, or the last of the datagrams about it lights it.  A round of     *)
(* upr() may come between the entry of the key and the sending of its lamp,   *)
(* but what it leaves waiting it does not put out.                            *)
THEOREM WaitingKeysAreLit ==
  ASSUME MinTicks >= 2
  PROVE  Spec => []LampShowsRequest
<1>1. LampsFollow => LampShowsRequest
  BY DEF LampsFollow, LampShowsRequest, HallLampsFollow, CabinLampsFollow,
         HallLampFollows, CabinLampFollows, HallKeys
<1> QED  BY <1>1, LampInvariant, PTL
==============================================================================
