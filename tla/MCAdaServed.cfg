CONSTANTS FLOORS = 3
          p1 = p1
          p2 = p2
          Passengers = {p1, p2}
          Overlap = FALSE
SPECIFICATION Spec
PROPERTIES EveryRideEnds CallsAboveAnswered
