---------------------------- MODULE PacketFilter ----------------------------
(***************************************************************************)
(* The decision of kernel_module/nf_hooks.c about one packet and one rule. *)
(* A packet is the part of the headers the checks look at:                 *)
(*   [protocol, saddr, daddr, source, dest]                                *)
(* with addresses as the text %pI4 prints and the ports meaningful for UDP *)
(* and TCP only.  A rule is a struct rule as parse_nested_rule fills it.   *)
(***************************************************************************)
EXTENDS Integers

CONSTANT
    FullAddr        \* the addresses whose text has 15 characters

NF_DROP   == "NF_DROP"
NF_ACCEPT == "NF_ACCEPT"
TCP == 6
UDP == 17

HasPorts(skb) == skb.protocol \in {UDP, TCP}

-----------------------------------------------------------------------------
\* strcmp on the two address fields.  Fifteen characters leave no room for the
\* terminating NUL: src_ip then runs on into dst_ip, and dst_ip into the padding.
SrcTextIs(rule, text) == rule.src_ip = text /\ (text \in FullAddr => rule.dst_ip = "")
DstTextIs(rule, text) == rule.dst_ip = text /\ (text \in FullAddr => rule.dst_nul)

\* The checks.  true means the header obeys the rule.
check_saddr(iph, rule) ==
    IF rule.src_ip = "*" THEN ~rule.black_list
    ELSE SrcTextIs(rule, iph.saddr) # rule.black_list

check_daddr(iph, rule) ==
    IF rule.dst_ip = "*" THEN ~rule.black_list
    ELSE DstTextIs(rule, iph.daddr) # rule.black_list

\* The port that stands for every port, as the checks have it; in the dialog's
\* form (RuleEdit.tsx) it is the port of a rule that names none.
AllPorts == 0

\* Mutant: the sense of the comparison depends on the kind of list, as in the
\* address checks, but the two kinds are swapped.
check_protocol_SWAPPED(iph, rule) ==
    IF rule.protocol = -1 THEN ~rule.black_list
    ELSE (iph.protocol = rule.protocol) = rule.black_list

check_protocol(iph, rule) ==
    IF rule.protocol = -1 THEN ~rule.black_list
    ELSE iph.protocol # rule.protocol /\ rule.black_list

check_port(skb, rule, port, wanted) ==
    IF wanted = AllPorts THEN ~rule.black_list
    ELSE HasPorts(skb) => ((port = wanted) # rule.black_list)

check_src_port(skb, rule) == check_port(skb, rule, skb.source, rule.src_port)
check_dst_port(skb, rule) == check_port(skb, rule, skb.dest, rule.dst_port)

ObeysNothing(skb, rule) ==
    /\ ~check_protocol(skb, rule)
    /\ ~check_saddr(skb, rule) /\ ~check_daddr(skb, rule)
    /\ ~check_src_port(skb, rule) /\ ~check_dst_port(skb, rule)

ObeysAll(skb, rule) ==
    /\ check_protocol(skb, rule)
    /\ check_saddr(skb, rule) /\ check_daddr(skb, rule)
    /\ check_src_port(skb, rule) /\ check_dst_port(skb, rule)

\* Mutant: a black-list rule is held against whatever does not obey all of it.
filter_ANYCHECK(skb, rule) ==
    IF ObeysAll(skb, rule) THEN NF_ACCEPT ELSE NF_DROP

\* A black-list rule drops what obeys none of its checks, a white-list rule
\* whatever does not obey all of them.
filter(skb, rule) ==
    IF IF rule.black_list THEN ObeysNothing(skb, rule) ELSE ~ObeysAll(skb, rule)
    THEN NF_DROP ELSE NF_ACCEPT

outgoing_filter(skb, rule) ==
    IF rule.outgoing_packets THEN filter(skb, rule) ELSE NF_ACCEPT

ingoing_filter(skb, rule) ==
    IF rule.ingoing_packets THEN filter(skb, rule) ELSE NF_ACCEPT

-----------------------------------------------------------------------------
(***************************************************************************)
(* The reference: which packets a rule is about, said once and without the *)
(* double negations of the checks.  What port stands for every port is a   *)
(* parameter: firewall_rule.h says -1, the checks take 0 for it and compare *)
(* -1 like any other port.                                                 *)
(***************************************************************************)
DocumentedAllPorts == -1

MatchesReading(skb, rule, all) ==
    /\ rule.protocol \in {-1, skb.protocol}
    /\ rule.src_ip \in {"*", skb.saddr}
    /\ rule.dst_ip \in {"*", skb.daddr}
    /\ rule.src_port # all => HasPorts(skb) /\ skb.source = rule.src_port
    /\ rule.dst_port # all => HasPorts(skb) /\ skb.dest = rule.dst_port

Matches(skb, rule)      == MatchesReading(skb, rule, AllPorts)
MatchesAsDocumented(skb, rule) == MatchesReading(skb, rule, DocumentedAllPorts)

Ports(rule) == {rule.src_port, rule.dst_port}

\* Code and comments agree on which ports the rule is about: it names them.
NamesItsPorts(rule) == Ports(rule) \cap {AllPorts, DocumentedAllPorts} = {}

\* Both address fields hold a terminated string.
Terminated(rule) == rule.src_ip \notin FullAddr /\ rule.dst_ip \notin FullAddr

\* A rule whose texts are strings, and without the port that only the comments
\* take for every port.
Plain(rule) == Terminated(rule) /\ DocumentedAllPorts \notin Ports(rule)

\* A rule forbids what it black-lists and what its white list leaves out.
Forbids(skb, rule) == Matches(skb, rule) = rule.black_list
=============================================================================
