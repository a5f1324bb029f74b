SPECIFICATION Spec
CONSTANTS
    Invocations <- MCInvocations
    Answers <- MCAnswers
    MaxSseEvents = 3
    MaxOffset = 3
    MaxConcurrency = 3
    MaxNow = 2
INVARIANTS
    VerdictSound
    ScheduleSound
PROPERTIES
    RunEnds
CHECK_DEADLOCK FALSE
