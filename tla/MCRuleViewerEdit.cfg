SPECIFICATION Spec
CONSTANTS
    ProtoNumber <- MCProtoNumber
    Cut <- MCCut
    Typed <- MCTyped
    UIntMod = 256
    DumpCapacity = 2
    MaxRules = 3
    MaxActs = 1
    MaxOthers = 1
    MaxLosses = 0
PROPERTY
    EditPutsTheRuleBack
