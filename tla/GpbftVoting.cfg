CONSTANTS
    h1 = h1
    h2 = h2
    b1 = b1
    g = g
    x = x
    y = y
    Honest <- MCHonest
    Byz <- MCByz
    PowerOf <- MCPowerOf
    Chains <- MCChains
    BaseTipset = g
    MaxRound = 2
    Restarts = {}
SPECIFICATION Spec
CHECK_DEADLOCK FALSE
INVARIANTS
    Agreement
    Validity
PROPERTY
    ImplementsConsensus
