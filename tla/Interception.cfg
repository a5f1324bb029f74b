SPECIFICATION Spec
CONSTANTS
    LabelLength <- MCLabelLength
    MaxPolicyRules = 2
    MaxPortSet = 3
    Clients = {c1, c2}
    Setups <- MCSetups
    Requests <- MCRequests
    InnerRequests <- MCInnerRequests
    Handshakes <- MCHandshakes
    MaxInner = 2
    MaxBytes = 2
    MaxDuration = 3
    IdleTimeout = 2
    MaxConcurrent = 1
    MaxEvents = 1
    Chunks = {1, 2}
INVARIANTS
    TargetsAuthorised
    TunnelsAccounted
PROPERTIES
    PoisonedSilent
    DrainEnds
CHECK_DEADLOCK FALSE
