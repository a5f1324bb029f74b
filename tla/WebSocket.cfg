SPECIFICATION Spec
CONSTANTS
    Handshakes <- MCHandshakes
    Options <- MCOptions
    Messages <- MCMessages
    InvalidCodes = {"2000"}
    MaxReads = 2
    MaxMessages = 4
    MaxPayload = 3
    MaxSession = 6
    Priors <- MCPriors
    Causes = {"eof", "shutdown"}
INVARIANTS
    RelayFaithful
    ConversationReproduced
PROPERTIES
    EndsUnlessStalled
CHECK_DEADLOCK FALSE
