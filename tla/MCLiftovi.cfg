CONSTANTS FLOORS = 3
          ELEVATORS = 2
          MaxEvents = 2
          MinTicks = 2
          MaxTicks = 2
          InTurn = TRUE
SPECIFICATION Spec
INVARIANTS TypeOK NeverMissesStop NoLeftoverStop
           LampShowsRequest
PROPERTIES CarsAreLiftCars OpensForRequest ServedWithDoorOpen EveryStopServed
