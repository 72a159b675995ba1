SPECIFICATION Spec
CONSTANTS
    Performers = {p1, p2}
    Callers = {c1, c2}
    Tasks = {t1, t2}
    MaxFaults = 1
    MaxStarts = 2
    Unset = Unset
    TypedNil = TypedNil
    None = None
SYMMETRY KubernetesSymmetry
INVARIANTS NoTaskCutOff LeakHasCause ServingWasReady
PROPERTIES PanicNeedsRemoval
CHECK_DEADLOCK FALSE
