SPECIFICATION Spec
CONSTANTS
    ProtoNumber <- MCProtoNumber
    Cut <- MCCut
    FullAddr <- MCFullAddr
    Rules <- MCRules
    RuleLists <- MCRuleLists
    Packets <- MCPackets
INVARIANT
    DropsOnlyTheDisobedient
