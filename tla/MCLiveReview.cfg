SPECIFICATION Spec
CONSTANTS
    m1 = m1
    Members = {m1, m2}
    Manager = m1
    MaxSockets = 2
    Opens <- MCOpens
    MaxEvents = 2
CHECK_DEADLOCK FALSE
INVARIANTS
    ControlAgrees
    PresenterLossPauses
PROPERTIES
    ViewsCatchUp
    EmptyRoomsEnd
