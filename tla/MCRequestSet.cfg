CONSTANTS FLOORS = 4
          MaxRequests = 3
SPECIFICATION Spec
INVARIANTS TypeOK NothingLost OrderSurvivesTravel
PROPERTIES SortIsStable NextStopOnPath
