CONSTANTS
    v1 = v1
    v2 = v2
    Vtaps <- MCVtaps
    MaxBeacons = 3
    MaxForeign = 1
SPECIFICATION Spec
INVARIANTS TypeOK EachVtapOnce
\* list only returns with an error; otherwise it waits for beacons forever.
CHECK_DEADLOCK FALSE
