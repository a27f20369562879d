SPECIFICATION Spec
CONSTANTS
    allow = allow
    block = block
    Cpus = {c1, c2}
    Rule <- MCRule
    Packets <- MCPackets
    AskedIds <- MCAskedIds
    NodeCount = 3
INVARIANTS
    TypeOK
    ChainIsTable
    MirroredWhenIdle
    VerdictOfSomeMoment
    ThrownOnlyByRemovalAhead
PROPERTIES
    WalkEnds
    ImplementsRuleSeq
