CONSTANTS FLOORS = 4
          MaxWaiting = 3
          MaxLosses = 0
          MinTicks = 4
          MaxTicks = 5
          Overlap = FALSE
          StopKey = TRUE
SPECIFICATION Spec
INVARIANTS TypeOK TravelsForSomeone DescendsToRequest
PROPERTIES ServedAtFloor OpensForRequest
VIEW Control
