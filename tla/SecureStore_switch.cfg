CONSTANTS
    here = here
    there = there
    headless = headless
    Procs <- MCProcs
    Ringless <- MCRingless
    Names = {n1, n2}
    MaxCred = 2
    TokenCreds = {2}
    Keys = {k1, k2}
    Absent = Absent
    Unknown = Unknown
    MaxCommands = 3
    MaxFaults = 2
SPECIFICATION Spec
SYMMETRY Alike
CHECK_DEADLOCK FALSE
INVARIANTS Readable ReadsBack
PROPERTIES ModeStands
