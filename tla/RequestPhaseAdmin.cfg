SPECIFICATION Spec
CONSTANTS
    Requests = {r1, r2, r3}
    Overlap = FALSE
    Aborts = FALSE
INVARIANT AdminRunOnce
