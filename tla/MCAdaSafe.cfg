CONSTANTS FLOORS = 4
          p1 = p1
          p2 = p2
          Passengers = {p1, p2}
          Overlap = TRUE
SPECIFICATION Spec
INVARIANTS TypeOK InsideBuilding PublishedDoorIsThere NobodyForgotten
           KeyRemembered
SYMMETRY AnyPassenger
