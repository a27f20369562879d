---------------------------- MODULE MCRuleViewer ----------------------------
(***************************************************************************)
(* Small instances of RuleViewer: two rules that differ in all that a row  *)
(* tells, one of them for incoming packets and one for outgoing ones, so   *)
(* that each filter hides one of them.                                     *)
(***************************************************************************)
EXTENDS RuleViewer

MCProtoNumber == [tcp |-> 6, raw |-> 255]

Web ==
    [name |-> "web", outgoingPackets |-> TRUE, ingoingPackets |-> FALSE, black |-> TRUE, protocol |-> "tcp",
     srcIP |-> "a", dstIP |-> "*", srcPort |-> 0, dstPort |-> 80, log |-> TRUE]
Whatever ==
    [name |-> "whatever", outgoingPackets |-> FALSE, ingoingPackets |-> TRUE, black |-> FALSE, protocol |-> "*",
     srcIP |-> "*", dstIP |-> "192.168.100.200/24", srcPort |-> -1, dstPort |-> 0, log |-> FALSE]

MCTyped == {Web, Whatever}

\* Only one text is longer than its field.
MCCut ==
    [size \in {NameSize, AddrSize} |->
        [text \in {"web", "whatever", "a", "*", "192.168.100.200/24"} |->
            IF size = AddrSize /\ text = "192.168.100.200/24" THEN "192.168.100.200" ELSE text]]
=============================================================================
