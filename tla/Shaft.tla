-------------------------------- MODULE Shaft --------------------------------
(* What any lift car promises, whatever it is commanded to do: it moves one   *)
(* quarter of a floor at a time inside the shaft, comes to rest only level    *)
(* with a floor, works its door only while at rest, and never moves again     *)
(* after an emergency stop.                                                   *)
EXTENDS Integers

CONSTANT FLOORS

VARIABLES quarter,       \* height of the car, in quarters of a floor
          mode           \* what the car is doing

shaftVars == <<quarter, mode>>

Top == 4 * (FLOORS - 1)
AtFloor(q) == \E f \in 0 .. FLOORS - 1 : q = 4 * f

DoorCycle == {<<"standing", "opening">>, <<"opening", "open">>,
              <<"open", "closing">>, <<"closing", "standing">>}

Init == quarter = 0 /\ mode = "standing"

Start == /\ mode = "standing"
         /\ mode' \in {"up", "down"}
         /\ UNCHANGED quarter

Travel == /\ \/ mode = "up" /\ quarter' = quarter + 1
             \/ mode = "down" /\ quarter' = quarter - 1
          /\ quarter' \in 0 .. Top
          /\ \/ mode' = mode
             \/ mode' = "standing" /\ AtFloor(quarter')

WorkDoor == /\ AtFloor(quarter)
            /\ <<mode, mode'>> \in DoorCycle
            /\ UNCHANGED quarter

Halt == /\ mode # "halted"
        /\ mode' = "halted"
        /\ UNCHANGED quarter

Next == Start \/ Travel \/ WorkDoor \/ Halt

Spec == Init /\ [][Next]_shaftVars
==============================================================================
