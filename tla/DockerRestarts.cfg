SPECIFICATION FairSpec
CONSTANTS
    Containers = {c1}
    Monitors = {m1, m2}
    None = None
    Actors = {"liveness", "events", "resources", "manual"}
    MaxRestarts = 2
    FailureThreshold = 2
    MaxDeaths = 2
    MaxFaults = 1
INVARIANTS OneWatcher RestartsBounded
PROPERTIES CrashIsHandled
CHECK_DEADLOCK FALSE
