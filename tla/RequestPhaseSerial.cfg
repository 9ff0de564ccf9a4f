\* No request arrives while another waits for its body, clients stay.
\* No symmetry: a temporal property is checked.
SPECIFICATION FairSpec
CONSTANTS
    Requests = {r1, r2}
    Overlap = FALSE
    Aborts = FALSE
INVARIANT ForwardedOnce
PROPERTY ImplementsContract
