CONSTANTS FLOORS = 3
          MaxWaiting = 1
          MaxLosses = 1
          MinTicks = 4
          MaxTicks = 5
          Overlap = TRUE
          StopKey = FALSE
SPECIFICATION Spec
PROPERTY EveryRequestServed
VIEW Control
