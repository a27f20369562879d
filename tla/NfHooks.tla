------------------------------ MODULE NfHooks ------------------------------
(***************************************************************************)
(* One packet on its way through the netfilter hook points of the host,    *)
(* and what the firewall's two hook functions (kernel_module/nf_hooks.c)   *)
(* do with it, rule by rule.  The rule list does not change while this     *)
(* packet is looked at; RuleList models the list that does.                *)
(***************************************************************************)
EXTENDS PacketFilter, FirewallRule, Sequences

CONSTANTS
    Rules,          \* the struct rules that can be in the list
    RuleLists,      \* the lists: sequences of them
    Packets         \* the packets; the NULL skb no hook is ever called with is left out

ASSUME RulesAssumption ==
    /\ RuleLists \subseteq Seq(Rules)
    /\ \A r \in Rules : /\ r.black_list \in BOOLEAN
                       /\ r.ingoing_packets \in BOOLEAN
                       /\ r.outgoing_packets \in BOOLEAN

\* Where a packet passes: into this host, out of it, or through it.
Travel == { <<"PRE_ROUTING">>, <<"POST_ROUTING">>, <<"PRE_ROUTING", "POST_ROUTING">> }

VARIABLES
    rules,      \* the list the hooks walk
    skb,        \* the packet
    travel,     \* the hook points the packet passes, unless it is dropped
    passed,     \* how many of them it has entered
    pos,        \* index of the rule under the cursor; 0 outside of a hook
    ret,        \* the hook's local of that name
    logged,     \* indices of the rules a notification was multicast for
    verdict     \* what became of the packet; "none" while it is under way

vars == <<rules, skb, travel, passed, pos, ret, logged, verdict>>

-----------------------------------------------------------------------------
\* configure_nf_ops: which of the two functions a hook point calls.
HookFilter(point, rule) ==
    IF point = "PRE_ROUTING" THEN outgoing_filter(skb, rule)
                             ELSE ingoing_filter(skb, rule)

Point == travel[passed]

Init ==
    /\ rules \in RuleLists
    /\ skb \in Packets
    /\ travel \in Travel
    /\ passed = 0
    /\ pos = 0
    /\ ret = NF_ACCEPT
    /\ logged = <<>>
    /\ verdict = "none"

\* The packet reaches its next hook point, which calls its hook function.
EnterHook ==
    /\ verdict = "none" /\ pos = 0 /\ passed < Len(travel)
    /\ passed' = passed + 1
    /\ pos' = 1
    /\ ret' = NF_ACCEPT
    /\ UNCHANGED <<rules, skb, travel, logged, verdict>>

\* Mutant: the loop keeps the verdict of the rule it looked at last.
VisitObeyed_LASTWINS ==
    /\ pos \in DOMAIN rules
    /\ HookFilter(Point, rules[pos]) = NF_ACCEPT
    /\ ret' = NF_ACCEPT
    /\ pos' = pos + 1
    /\ UNCHANGED <<rules, skb, travel, passed, logged, verdict>>

\* Mutant: the loop steps over the rule that follows.
VisitObeyed_SKIPS ==
    /\ pos \in DOMAIN rules
    /\ HookFilter(Point, rules[pos]) = NF_ACCEPT
    /\ pos' = pos + 2
    /\ UNCHANGED <<rules, skb, travel, passed, ret, logged, verdict>>

\* The loop's body for a rule the packet obeys.
VisitObeyed ==
    /\ pos \in DOMAIN rules
    /\ HookFilter(Point, rules[pos]) = NF_ACCEPT
    /\ pos' = pos + 1
    /\ UNCHANGED <<rules, skb, travel, passed, ret, logged, verdict>>

\* Mutant: the notification goes out for the rules the packet obeys as well.
VisitDisobeyed_LOGALL ==
    /\ pos \in DOMAIN rules
    /\ logged' = Append(logged, pos)
    /\ ret' = HookFilter(Point, rules[pos])
    /\ pos' = pos + 1
    /\ UNCHANGED <<rules, skb, travel, passed, verdict>>

\* Mutant: the cursor stays where it is when a rule is disobeyed.
VisitDisobeyed_STAYS ==
    /\ pos \in DOMAIN rules
    /\ HookFilter(Point, rules[pos]) = NF_DROP
    /\ ret' = NF_DROP
    /\ UNCHANGED <<rules, skb, travel, passed, pos, logged, verdict>>

\* The body for a rule it does not obey.  send_multicast_logging may find no
\* memory, and then sends nothing; the hook does not look at its result.
VisitDisobeyed ==
    /\ pos \in DOMAIN rules
    /\ HookFilter(Point, rules[pos]) = NF_DROP
    /\ logged' \in {logged, Append(logged, pos)}
    /\ ret' = NF_DROP
    /\ pos' = pos + 1
    /\ UNCHANGED <<rules, skb, travel, passed, verdict>>

\* The hook returns: a dropped packet goes no further, an accepted one is done
\* with when no hook point is left on its way.
ReturnFromHook ==
    /\ pos > Len(rules)
    /\ pos' = 0
    /\ verdict' = IF ret = NF_DROP \/ passed = Len(travel) THEN ret ELSE "none"
    /\ UNCHANGED <<rules, skb, travel, passed, ret, logged>>

Done == verdict # "none" /\ UNCHANGED vars

Next == EnterHook \/ VisitObeyed \/ VisitDisobeyed \/ ReturnFromHook \/ Done

\* A hook runs to its end: its loop waits for nothing that could hold it up.
Spec == Init /\ [][Next]_vars /\ WF_vars(Next)

-----------------------------------------------------------------------------
TypeOK ==
    /\ rules \in RuleLists
    /\ skb \in Packets
    /\ travel \in Travel
    /\ passed \in 0..Len(travel)
    /\ pos \in 0..Len(rules) + 1
    /\ ret \in {NF_ACCEPT, NF_DROP}
    /\ logged \in Seq(DOMAIN rules)
    /\ verdict \in {"none", NF_ACCEPT, NF_DROP}

\* The rules of the list that speak about packets at a hook point.  Taken from
\* the registration in firewall.c, not from the names of the two functions.
Speaks(rule, point) ==
    IF point = "PRE_ROUTING" THEN rule.outgoing_packets ELSE rule.ingoing_packets

Forbidden(i, k) == Speaks(rules[i], travel[k]) /\ Forbids(skb, rules[i])

ForbiddenOnTheWay ==
    \E k \in 1..passed : \E i \in DOMAIN rules : Forbidden(i, k)

\* Over black-list rules whose addresses are terminated strings, a packet is
\* dropped exactly when some rule for a hook point it passed is about it: no
\* rule is skipped, none is applied at the other hook point, and a port or an
\* address that one rule leaves open does not let through what another forbids.
\* A port is left open by the 0 of the dialog's form; rules with the -1 that
\* firewall_rule.h calls "all" are excepted, see MinusOneMeansAllPorts.
BlackListVerdict ==
    (/\ verdict # "none"
     /\ \A i \in DOMAIN rules : rules[i].black_list /\ Plain(rules[i]))
        => (verdict = NF_DROP <=> ForbiddenOnTheWay)

\* Whatever the kinds of the rules, a packet that comes through has been
\* forbidden by no rule with terminated addresses: neither black-listed nor
\* missing from a white list.  A port rule leaves packets without ports alone,
\* and rules with the port -1 are excepted as above.
AcceptedIsAllowed ==
    verdict = NF_ACCEPT =>
        \A k \in 1..passed : \A i \in DOMAIN rules :
            (HasPorts(skb) /\ Plain(rules[i])) => ~Forbidden(i, k)

\* The notifications and the verdict agree: only a packet that ends up dropped
\* is reported, at the hook point that drops it, and no rule reports it twice.
ReportedOnlyIfDropped ==
    /\ logged # <<>> => ret = NF_DROP /\ verdict # NF_ACCEPT
    /\ \A m, n \in DOMAIN logged : m < n => logged[m] < logged[n]

\* Within one call of a hook no later rule takes a drop back.
DropIsFinal ==
    [][(pos # 0 /\ ret = NF_DROP) => (ret' = NF_DROP /\ verdict' # NF_ACCEPT)]_vars

\* Every packet is decided on: the loop over the rules ends.
EveryPacketDecided == <>(verdict # "none")

-----------------------------------------------------------------------------
(***************************************************************************)
(* What the comments of the code say and the code does not do.             *)
(***************************************************************************)
\* nf_hooks.c, on both hooks: "Drops packets that do not obey the set rules",
\* so a packet that every rule allows is not dropped.  Only of rules that name
\* their ports, on whose meaning code and comments agree.
DropsOnlyTheDisobedient ==
    (verdict = NF_DROP /\ \A i \in DOMAIN rules : NamesItsPorts(rules[i])) => ForbiddenOnTheWay

\* firewall_rule.h, on outgoing_packets: "boolean that describes if the rules
\* affect on outgoing packets".  A packet this host sends passes POST_ROUTING.
OutgoingRulesAffectOutgoing ==
    (verdict # "none" /\ travel = <<"POST_ROUTING">>) =>
        \A i \in DOMAIN rules :
            (/\ rules[i].outgoing_packets /\ rules[i].black_list
             /\ Terminated(rules[i]) /\ NamesItsPorts(rules[i])
             /\ Forbids(skb, rules[i])) => verdict = NF_DROP

\* firewall_rule.h, on both ports: "-1 means all", so a black-list rule with -1
\* for a port stops a packet it is otherwise about, whatever that port is.
MinusOneMeansAllPorts ==
    verdict = NF_ACCEPT =>
        \A k \in 1..passed : \A i \in DOMAIN rules :
            (Speaks(rules[i], travel[k]) /\ rules[i].black_list /\ Terminated(rules[i]))
                => ~MatchesAsDocumented(skb, rules[i])
=============================================================================
