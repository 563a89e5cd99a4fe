SPECIFICATION Spec
CONSTANTS
    v = v
    w = w
    Slots = {prepare}
    Signatures = {v, w}
    MaxInstance = 2
    keepInstancesInWAL = 0
    RotateAt = 1
    MaxFailures = 1
    MaxRestarts = 2
SYMMETRY MCSymmetry
CHECK_DEADLOCK FALSE
INVARIANTS
    NoSelfEquivocation
    NoContradictionWhileUp
    RestartRebroadcasts
