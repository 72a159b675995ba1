SPECIFICATION Spec
CONSTANTS
    Avss = {a1}
    Performers = {p1, p2}
    Tasks = {t1}
    Flaws = {"none", "signature"}
    Calls = {c1, c2}
    Retrying = {c1}
    MaxAttempts = 2
    MaxStops = 1
    Confs <- MCConfs
    Unset = Unset
    TypedNil = TypedNil
    None = None
SYMMETRY ExecutorSymmetry
INVARIANTS RetryAuthorisedOnce RemovedStaysRemoved ServingWasPromoted NoContainerForgotten
CHECK_DEADLOCK FALSE
