----------------------------- MODULE MCNfHooks -----------------------------
(***************************************************************************)
(* Small instance of NfHooks: every rule an operator can write with a few  *)
(* addresses, protocols and ports, alone in the list, and every pair of    *)
(* rules of a smaller set.                                                 *)
(***************************************************************************)
EXTENDS NfHooks, TLC

MCProtoNumber == [icmp |-> 1, tcp |-> 6, raw |-> 255]

MCShort == "10.0.0.1"
MCFull  == "192.168.100.200"
MCLong  == "192.168.100.200/24"
MCFullAddr == {MCFull}

\* Only one text is longer than its field.
MCCut ==
    [size \in {NameSize, AddrSize} |->
        [text \in {"a rule", "*", "", MCShort, MCFull, MCLong} |->
            IF size = AddrSize /\ text = MCLong THEN MCFull ELSE text]]

OperatorRule(protocols, srcs, dsts, ports) ==
    [ name : {"a rule"}, outgoingPackets : BOOLEAN, ingoingPackets : BOOLEAN, black : BOOLEAN,
      protocol : protocols, srcIP : srcs, dstIP : dsts,
      srcPort : ports, dstPort : ports, log : {TRUE} ]

\* dst_nul says nothing about a destination that does not fill its field.
Struct(operatorRules) ==
    {r \in UNION {Installed(o) : o \in operatorRules} : r.dst_ip = MCFull \/ r.dst_nul}

\* One rule alone in the list: for one direction, with every filter.
MCOneWayRules ==
    {r \in Struct(OperatorRule({"tcp", "*"}, {"*", MCShort, MCLong},
                               {"*", "", MCFull}, {-1, 0, 80})) :
        r.ingoing_packets # r.outgoing_packets}

\* Two rules: every direction, few filters.
MCFewRules ==
    {r \in Struct(OperatorRule({"tcp"}, {"*", MCShort}, {"*"}, {0, 80})) :
        r.dst_port = 0 /\ (r.ingoing_packets \/ r.outgoing_packets)}

MCRules == MCOneWayRules \cup MCFewRules

MCRuleLists ==
    {<<>>} \cup {<<r>> : r \in MCOneWayRules} \cup (MCFewRules \X MCFewRules)

MCPackets ==
    {p \in [ protocol : {TCP, 1}, saddr : {MCShort, MCFull}, daddr : {MCShort, MCFull},
             source : {80, 4000}, dest : {80} ] : HasPorts(p) \/ p.source = 80}
=============================================================================
