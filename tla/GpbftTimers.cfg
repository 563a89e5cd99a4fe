SPECIFICATION Spec
CONSTANTS
    MaxAttempts = 2
    PhaseDuration <- MCPhaseDuration
    rebroadcastAfter <- MCBackoff
INVARIANTS
    PhaseTimeoutIsCovered
PROPERTY
    StuckPhaseRebroadcasts
CHECK_DEADLOCK FALSE
