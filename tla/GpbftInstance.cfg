CONSTANTS
    s = s
    h = h
    b = b
    g = g
    x = x
    y = y
    Honest <- MCHonest
    Byz <- MCByz
    PowerOf <- MCPowerOf
    Chains <- MCShort
    BaseTipset = g
    Self = s
    MaxRound = 1
    maxLookaheadRounds = 0
    OwnPhases = {"CONVERGE", "COMMIT"}
    PeerPhases = {"CONVERGE", "PREPARE", "COMMIT"}
    FaultyPhases = {"CONVERGE"}
    MaxFaulty = 1
SPECIFICATION MCSpec
CHECK_DEADLOCK FALSE
INVARIANTS
    NoPanic

    
