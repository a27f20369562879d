SPECIFICATION Spec
CONSTANTS
    Cpus <- MCCpus
    NodeCount = 2
    MaxLoads = 2
CHECK_DEADLOCK FALSE
INVARIANTS
    TypeOK
    FreedOnlyUnderTheRunning
    SweepFreesAll
    StuckOnlyByRemoval
    ReportsOnlyToFamily
    CodeOutlivesHooks
PROPERTY
    UnloadEnds
