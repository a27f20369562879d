SPECIFICATION Spec
CONSTANTS
    Lines <- MCLines
    Shape <- MCShape
    Number <- MCNumber
    Size <- MCSize
    NoWord = "NULL"
CHECK_DEADLOCK FALSE
INVARIANTS
    TypeOK
    UsageHonoured
    RemovesTheIdGiven
    DoubtfulOptionChangesNothing
    OverreadOnlyBeyondFields
PROPERTY
    ParseEnds
