SPECIFICATION Spec
CONSTANTS
    Rule = {r1, r2}
    IdMod = 4
    AskedIds <- MCShortIds
    DumpCapacity = 3
    MaxRules = 5
INVARIANTS
    TypeOK
    IdsArePositions
PROPERTY
    ImplementsRuleSeq
