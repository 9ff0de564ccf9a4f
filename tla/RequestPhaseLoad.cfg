\* Three requests in any order and overlap, clients may go away.
SPECIFICATION Spec
CONSTANTS
    Requests = {r1, r2, r3}
    Overlap = TRUE
    Aborts = TRUE
SYMMETRY Symmetry
INVARIANTS
    TypeOK
    ForwardedRewritten
    ReferencesHeld
    ResumesWithinSuspensions
    LossNeedsThief
