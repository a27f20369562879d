SPECIFICATION Spec
CONSTANTS
    ProtoNumber <- MCProtoNumber
    Cut <- MCCut
    FullAddr <- MCFullAddr
    Rules <- MCRules
    RuleLists <- MCRuleLists
    Packets <- MCPackets
INVARIANTS
    TypeOK
    BlackListVerdict
    AcceptedIsAllowed
    ReportedOnlyIfDropped
PROPERTIES
    DropIsFinal
    EveryPacketDecided
