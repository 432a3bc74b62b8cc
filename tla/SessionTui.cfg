SPECIFICATION TuiSpec
CONSTANTS
    Ports = 2
    MaxRuns = 3
    MaxFailures = 2
INVARIANTS LogFollowsRuns MonitorSettles
CHECK_DEADLOCK FALSE
