SPECIFICATION Spec
CONSTANTS
    ProtoNumber <- MCProtoNumber
    Cut <- MCCut
    Typed <- MCTyped
    UIntMod = 256
    DumpCapacity = 2
    MaxRules = 3
    MaxActs = 2
    MaxOthers = 3
    MaxLosses = 1
INVARIANTS
    TypeOK
    RowsTellOfTyped
PROPERTIES
    RemovesTheRowMeant
    ViewSettles
