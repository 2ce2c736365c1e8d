SPECIFICATION Spec
CONSTANTS
    Supervisors = {p1, p2}
    k1 = k1
    k2 = k2
    k3 = k3
    Commands = {k1, k2, k3}
    Kind <- TwoStarts
    Nobody = Nobody
    MaxFailures = 1
INVARIANTS
    ConnectorsAreOwned
PROPERTIES
    ConnectorComesBack
    StopEnds
CHECK_DEADLOCK FALSE
