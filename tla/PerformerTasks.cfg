SPECIFICATION Spec
CONSTANTS
    Performers = {p1, p2}
    Tasks = {t1, t2}
    Unset = Unset
    TypedNil = TypedNil
    NoPerformer = NoPerformer
    Events = {"Healthy", "Unhealthy", "Restarted", "RecreationNeeded", "Stopped"}
    MaxFailures = 1
    ChanCap = 1
SYMMETRY PerformerSymmetry
INVARIANTS NoContainerLeaks DrainSparesJoinedTasks
PROPERTIES PromotesHealthy
CHECK_DEADLOCK FALSE
