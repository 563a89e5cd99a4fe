SPECIFICATION Spec
CONSTANTS
    firstInstance = 1
    powerTableFrequency = 2
    a = a
    b = b
    Tables = {a, b}
    PowerTable <- MCPowerTable
    Signers = {x, y}
    None = none
    MaxInstance = 2
    Readers = {r}
    Subscribers = {s, t}
    Attentive = {s}
CHECK_DEADLOCK FALSE
INVARIANTS
    AlwaysOpens
    TablesAreRight
PROPERTIES
    
    SubscribersInformed

