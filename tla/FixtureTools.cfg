SPECIFICATION Spec
CONSTANTS
    Jobs = {"a", "b"}
    StartFixtures <- MCStartFixtures
    Documents <- MCDocuments
    Policies <- MCPolicies
    Recordings <- MCRecordings
    EventIds <- MCEventIds
    MaxFlows = 3
    BodyLimit = 3
    StructuredLimit = 3
    HeaderLimit = 2
    EntryTimeLimit = 5
    Epoch = 0
    LossLimit = 6
INVARIANTS
    CopiesSound
    InterchangeSound
PROPERTIES
    OnlyOverwriteLoses
CHECK_DEADLOCK FALSE
