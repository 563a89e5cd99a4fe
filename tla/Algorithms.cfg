SPECIFICATION Spec
CONSTANTS
    Tasks <- MCTasks
    ChainMaxLen = 3
    NoTipSetKey = ""
    NoCid = ""
    NetworkName = "net"
    Beacon = "beacon"
    CommitteeLookback = 2
    Committee <- MCCommittee
    minInterval = 100
    maxInterval = 200
    defaultInterval = 150
    MaxProgress = 5
    WordBits = 3
    Groups = {1, 2, 3}
    Samples = {"u", "v", "w"}
    maxGroups = 2
    maxSize = 2
    Callers = {c1, c2}
    TipSetKeys = {"x", "y"}
    concurrency = 1
    cacheSize = 1
    Starts = {s1, s2}
    Stops = {t1, t2}
    Requests = {r1, r2}
INVARIANTS
    PowerTablesAgree CertificatesAgree KeysAgree ValidationAgrees 
    PollsKeepComing CacheIsFaithful OthersUnaffected ServedWhileRunning
PROPERTY
    WaitersServed
CHECK_DEADLOCK FALSE
