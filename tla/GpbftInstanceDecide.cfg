CONSTANTS
    s = s
    h = h
    b = b
    g = g
    x = x
    y = y
    Honest <- MCHonest
    Byz <- MCByz
    PowerOf <- MCPowerOf
    Chains <- MCLong
    BaseTipset = g
    Self = s
    MaxRound = 0
    maxLookaheadRounds = 0
    OwnPhases = {"QUALITY", "PREPARE", "DECIDE"}
    PeerPhases = {"QUALITY", "PREPARE", "COMMIT", "DECIDE"}
    FaultyPhases = {"QUALITY", "PREPARE", "COMMIT", "DECIDE"}
    MaxFaulty = 1
SPECIFICATION MCSpec
CHECK_DEADLOCK FALSE
INVARIANTS
    
    DecisionIsBacked
PROPERTY
    ProgressMonotone
