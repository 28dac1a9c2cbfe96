CONSTANTS FLOORS = 3
          MaxWaiting = 2
          MaxLosses = 0
          MinTicks = 4
          MaxTicks = 5
          Overlap = FALSE
          StopKey = FALSE
SPECIFICATION Spec
INVARIANT NeverPastTop
