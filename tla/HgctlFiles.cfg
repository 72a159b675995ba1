SPECIFICATION HgctlSpec
CONSTANTS
    Procs = {p1, p2}
    Names = {"default", "b"}
    KeyNames = {"k"}
    Starts <- MCStarts
    MaxCommands = 3
    MaxFaults = 1
SYMMETRY Symmetric
INVARIANTS
    CurrentExists
    SignersAreListed
    KeyLossNeedsRace
CHECK_DEADLOCK FALSE
