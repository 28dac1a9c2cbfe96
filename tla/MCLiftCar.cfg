CONSTANT FLOORS = 3
SPECIFICATION Spec
INVARIANTS TypeOK RestsLevel
PROPERTIES EmergencyStopWins KeepsShaft
\* the process exits on A_LIFT_STANI
CHECK_DEADLOCK FALSE
