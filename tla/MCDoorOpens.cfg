CONSTANTS FLOORS = 3
          ELEVATORS = 1
          MaxEvents = 1
          MinTicks = 2
          MaxTicks = 2
          InTurn = TRUE
SPECIFICATION Spec
PROPERTY DoorOpens
