--------------------------- MODULE NfHooksProofs ---------------------------
(***************************************************************************)
(* Proofs about NfHooks: the verdict on a packet is the disjunction of the *)
(* decisions of all rules at all hook points it passed, and what that      *)
(* means for black lists, for every rule list and every packet.            *)
(***************************************************************************)
EXTENDS NfHooks, TLAPS

-----------------------------------------------------------------------------
(***************************************************************************)
(* The decision about one rule.                                            *)
(***************************************************************************)

\* The five checks of a black-list rule, taken together, say that the packet
\* is the one the rule is about: filter drops it exactly then (nf_hooks.c,
\* filter), if the addresses of the rule are terminated strings.
LEMMA BlackListFilter ==
    ASSUME NEW p, NEW r, r.black_list = TRUE, Terminated(r)
    PROVE  filter(p, r) = NF_DROP <=> Matches(p, r)
<1>1. check_protocol(p, r) <=> ~(r.protocol \in {-1, p.protocol})
  BY DEF check_protocol
<1>2. check_saddr(p, r) <=> ~(r.src_ip \in {"*", p.saddr})
  BY DEF check_saddr, SrcTextIs, Terminated
<1>3. check_daddr(p, r) <=> ~(r.dst_ip \in {"*", p.daddr})
  BY DEF check_daddr, DstTextIs, Terminated
<1>4. check_src_port(p, r) <=>
        ~(r.src_port # AllPorts => HasPorts(p) /\ p.source = r.src_port)
  BY DEF check_src_port, check_port
<1>5. check_dst_port(p, r) <=>
        ~(r.dst_port # AllPorts => HasPorts(p) /\ p.dest = r.dst_port)
  BY DEF check_dst_port, check_port
<1>6. ObeysNothing(p, r) <=> Matches(p, r)
  BY <1>1, <1>2, <1>3, <1>4, <1>5 DEF ObeysNothing, Matches, MatchesReading
<1> QED  BY <1>6 DEF filter, NF_DROP, NF_ACCEPT

\* A white-list rule with terminated addresses accepts no packet with ports
\* that it does not match (it may well drop packets it does match).
LEMMA WhiteListFilter ==
    ASSUME NEW p, NEW r, r.black_list = FALSE, Terminated(r), HasPorts(p),
           filter(p, r) = NF_ACCEPT
    PROVE  Matches(p, r)
<1>1. ObeysAll(p, r)
  BY DEF filter, NF_DROP, NF_ACCEPT
<1>2. r.protocol \in {-1, p.protocol}
  BY <1>1 DEF ObeysAll, check_protocol
<1>3. r.src_ip \in {"*", p.saddr}
  BY <1>1 DEF ObeysAll, check_saddr, SrcTextIs
<1>4. r.dst_ip \in {"*", p.daddr}
  BY <1>1 DEF ObeysAll, check_daddr, DstTextIs
<1>5. r.src_port # AllPorts => HasPorts(p) /\ p.source = r.src_port
  BY <1>1 DEF ObeysAll, check_src_port, check_port
<1>6. r.dst_port # AllPorts => HasPorts(p) /\ p.dest = r.dst_port
  BY <1>1 DEF ObeysAll, check_dst_port, check_port
<1> QED  BY <1>2, <1>3, <1>4, <1>5, <1>6 DEF Matches, MatchesReading

\* A filter says accept or drop, and nothing else.
LEMMA FilterType ==
    ASSUME NEW point, NEW r
    PROVE  HookFilter(point, r) \in {NF_ACCEPT, NF_DROP}
BY DEF HookFilter, outgoing_filter, ingoing_filter, filter

-----------------------------------------------------------------------------
(***************************************************************************)
(* The loop.  The list is a sequence of rules throughout; inside a hook    *)
(* ret has gathered the decisions on the rules before the cursor; and the  *)
(* packet only goes on to the next hook point when all rules accepted it.  *)
(***************************************************************************)
Drops(i, k) == HookFilter(travel[k], rules[i]) = NF_DROP

Types ==
    /\ rules \in Seq(Rules)
    /\ skb \in Packets
    /\ travel \in Travel
    /\ passed \in 0..Len(travel)
    /\ pos \in 0..Len(rules) + 1
    /\ ret \in {NF_ACCEPT, NF_DROP}
    /\ verdict \in {"none", NF_ACCEPT, NF_DROP}

InHook == pos # 0 => passed # 0 /\ verdict = "none"

LoopInv ==
    pos # 0 => (ret = NF_DROP <=> \E i \in 1..pos-1 : Drops(i, passed))

\* The hook points that are behind the packet when it is still under way.
Behind == IF pos = 0 THEN 1..passed ELSE 1..passed-1

BehindInv ==
    verdict = "none" => \A k \in Behind : \A i \in DOMAIN rules : ~Drops(i, k)

VerdictInv ==
    verdict # "none" =>
        (verdict = NF_DROP <=> \E k \in 1..passed : \E i \in DOMAIN rules : Drops(i, k))

IInv == Types /\ InHook /\ LoopInv /\ BehindInv /\ VerdictInv

\* Before the first hook nothing has been decided.
LEMMA InitIInv == Init => IInv
<1> SUFFICES ASSUME Init PROVE IInv
  OBVIOUS
<1>1. rules \in Seq(Rules)
  BY RulesAssumption DEF Init
<1>2. Len(travel) \in Nat
  BY DEF Init, Travel
<1> QED
  BY <1>1, <1>2 DEF Init, IInv, Types, InHook, LoopInv, BehindInv, Behind, VerdictInv

\* A turn of the loop, like an entry and a return, keeps what is known of the verdict.
LEMMA NextIInv == IInv /\ [Next]_vars => IInv'
<1> SUFFICES ASSUME IInv, [Next]_vars PROVE IInv'
  OBVIOUS
<1> USE DEF IInv, Types
<1>0. /\ Len(travel) \in Nat /\ Len(rules) \in Nat
      /\ DOMAIN rules = 1..Len(rules)
  BY DEF Travel
<1>1. CASE EnterHook
  <2>1. Types'
    BY <1>0, <1>1 DEF EnterHook
  <2>2. \A i, k : Drops(i, k)' <=> Drops(i, k)
    BY <1>1 DEF EnterHook, Drops, HookFilter
  <2>3. (InHook /\ LoopInv /\ VerdictInv)'
    BY <1>0, <1>1 DEF EnterHook, InHook, LoopInv, VerdictInv, NF_ACCEPT, NF_DROP
  <2>4. BehindInv'
    BY <1>0, <1>1, <2>2 DEF EnterHook, BehindInv, Behind
  <2> QED  BY <2>1, <2>3, <2>4
<1>2. CASE VisitObeyed
  <2>1. Types'
    BY <1>0, <1>2 DEF VisitObeyed
  <2>2. \A i, k : Drops(i, k)' <=> Drops(i, k)
    BY <1>2 DEF VisitObeyed, Drops, HookFilter
  <2>3. ~Drops(pos, passed)
    BY <1>2 DEF VisitObeyed, Drops, Point, NF_ACCEPT, NF_DROP
  <2>4. LoopInv'
    BY <1>0, <1>2, <2>2, <2>3 DEF VisitObeyed, LoopInv
  <2>5. (InHook /\ VerdictInv)'
    BY <1>0, <1>2 DEF VisitObeyed, InHook, VerdictInv
  <2>6. BehindInv'
    BY <1>0, <1>2, <2>2 DEF VisitObeyed, BehindInv, Behind
  <2> QED  BY <2>1, <2>4, <2>5, <2>6
<1>3. CASE VisitDisobeyed
  <2>1. Types'
    BY <1>0, <1>3 DEF VisitDisobeyed
  <2>2. \A i, k : Drops(i, k)' <=> Drops(i, k)
    BY <1>3 DEF VisitDisobeyed, Drops, HookFilter
  <2>3. Drops(pos, passed)
    BY <1>3 DEF VisitDisobeyed, Drops, Point
  <2>4. LoopInv'
    BY <1>0, <1>3, <2>2, <2>3 DEF VisitDisobeyed, LoopInv
  <2>5. (InHook /\ VerdictInv)'
    BY <1>0, <1>3 DEF VisitDisobeyed, InHook, VerdictInv
  <2>6. BehindInv'
    BY <1>0, <1>3, <2>2 DEF VisitDisobeyed, BehindInv, Behind
  <2> QED  BY <2>1, <2>4, <2>5, <2>6
<1>4. CASE ReturnFromHook
  <2>0. pos = Len(rules) + 1 /\ pos # 0 /\ passed # 0 /\ verdict = "none"
    BY <1>0, <1>4 DEF ReturnFromHook, InHook
  <2>1. Types'
    BY <1>0, <1>4 DEF ReturnFromHook
  <2>2. \A i, k : Drops(i, k)' <=> Drops(i, k)
    BY <1>4 DEF ReturnFromHook, Drops, HookFilter
  <2>3. ret = NF_DROP <=> \E i \in DOMAIN rules : Drops(i, passed)
    BY <1>0, <2>0 DEF LoopInv
  <2>4. \A k \in 1..passed-1 : \A i \in DOMAIN rules : ~Drops(i, k)
    BY <2>0 DEF BehindInv, Behind
  <2>5. ret = NF_DROP <=> \E k \in 1..passed : \E i \in DOMAIN rules : Drops(i, k)
    BY <1>0, <2>0, <2>3, <2>4
  <2>6. (InHook /\ LoopInv)'
    BY <1>4 DEF ReturnFromHook, InHook, LoopInv
  <2>7. BehindInv'
    BY <1>0, <1>4, <2>2, <2>5 DEF ReturnFromHook, BehindInv, Behind, NF_DROP
  <2>8. VerdictInv'
    BY <1>0, <1>4, <2>2, <2>5 DEF ReturnFromHook, VerdictInv
  <2> QED  BY <2>1, <2>6, <2>7, <2>8
<1>5. CASE Done \/ UNCHANGED vars
  <2>1. \A i, k : Drops(i, k)' <=> Drops(i, k)
    BY <1>5 DEF Done, vars, Drops, HookFilter
  <2> QED
    BY <1>5, <2>1 DEF Done, vars, InHook, LoopInv, BehindInv, Behind, VerdictInv
<1> QED
  BY <1>1, <1>2, <1>3, <1>4, <1>5 DEF Next

\* At every moment of a packet's way, ret is the verdict of the rules behind the
\* cursor, and no earlier hook has dropped the packet.
THEOREM SpecIInv == Spec => []IInv
BY InitIInv, NextIInv, PTL DEF Spec

-----------------------------------------------------------------------------
(***************************************************************************)
(* What the reader of the rules may rely on.                               *)
(***************************************************************************)

\* Over black-list rules with terminated addresses, none with the port -1, the
\* verdict on a packet is NF_DROP exactly when a rule for one of the hook points
\* it passed is about it, ports that are 0 being open.
THEOREM SpecBlackListVerdict == Spec => []BlackListVerdict
<1>1. IInv => BlackListVerdict
  <2> SUFFICES ASSUME IInv, verdict # "none",
                      \A i \in DOMAIN rules : rules[i].black_list /\ Plain(rules[i])
               PROVE  verdict = NF_DROP <=> ForbiddenOnTheWay
    BY DEF BlackListVerdict
  <2>1. \A k \in 1..passed, i \in DOMAIN rules : Drops(i, k) <=> Forbidden(i, k)
    <3> SUFFICES ASSUME NEW k \in 1..passed, NEW i \in DOMAIN rules
                 PROVE  Drops(i, k) <=> Forbidden(i, k)
      OBVIOUS
    <3>1. rules[i] \in Rules
      BY DEF IInv, Types
    <3>2. rules[i].black_list = TRUE
      BY <3>1, RulesAssumption
    <3>3. filter(skb, rules[i]) = NF_DROP <=> Matches(skb, rules[i])
      BY <3>2, BlackListFilter DEF Plain
    <3>4. Forbids(skb, rules[i]) <=> Matches(skb, rules[i])
      BY <3>2 DEF Forbids, Matches, MatchesReading
    <3> QED
      BY <3>3, <3>4 DEF Drops, HookFilter, outgoing_filter, ingoing_filter,
                        Forbidden, Speaks, NF_ACCEPT, NF_DROP
  <2> QED
    BY <2>1 DEF IInv, VerdictInv, ForbiddenOnTheWay
<1> QED  BY <1>1, SpecIInv, PTL

\* No packet comes through that a rule with terminated addresses, and without the
\* port -1, black-lists or leaves out of its white list (a rule with ports says
\* nothing of a packet that has none).
THEOREM SpecAcceptedIsAllowed == Spec => []AcceptedIsAllowed
<1>1. IInv => AcceptedIsAllowed
  <2> SUFFICES ASSUME IInv, verdict = NF_ACCEPT,
                      NEW k \in 1..passed, NEW i \in DOMAIN rules,
                      HasPorts(skb), Plain(rules[i]), Forbidden(i, k)
               PROVE  FALSE
    BY DEF AcceptedIsAllowed
  <2>1. ~Drops(i, k)
    BY DEF IInv, VerdictInv, NF_ACCEPT, NF_DROP
  <2>2. rules[i].black_list \in BOOLEAN
    BY RulesAssumption DEF IInv, Types
  <2>3. filter(skb, rules[i]) = NF_ACCEPT
    BY <2>1, FilterType
       DEF Forbidden, Speaks, Drops, HookFilter, outgoing_filter, ingoing_filter
  <2>4. CASE rules[i].black_list = TRUE
    <3>1. ~Matches(skb, rules[i])
      BY <2>3, <2>4, BlackListFilter DEF NF_ACCEPT, NF_DROP, Plain
    <3> QED  BY <2>4, <3>1 DEF Forbidden, Forbids
  <2>5. CASE rules[i].black_list = FALSE
    <3>1. Matches(skb, rules[i])
      BY <2>3, <2>5, WhiteListFilter DEF Plain
    <3> QED  BY <2>5, <3>1 DEF Forbidden, Forbids
  <2> QED  BY <2>2, <2>4, <2>5
<1> QED  BY <1>1, SpecIInv, PTL

\* The notifications: those of a call name rules before the cursor, in order,
\* and once there is one the packet is on its way to being dropped.
LogInv ==
    /\ logged \in Seq(DOMAIN rules)
    /\ logged # <<>> => ret = NF_DROP /\ (pos # 0 \/ verdict = NF_DROP)
    /\ pos # 0 => \A m \in DOMAIN logged : logged[m] < pos
    /\ \A m, n \in DOMAIN logged : m < n => logged[m] < logged[n]

\* At first nothing is logged.
LEMMA InitLogInv == Init => LogInv
BY DEF Init, LogInv

\* The loop logs the rules it stops at, in their order.
LEMMA NextLogInv == IInv /\ LogInv /\ [Next]_vars => LogInv'
<1> SUFFICES ASSUME IInv, LogInv, [Next]_vars PROVE LogInv'
  OBVIOUS
<1>0. /\ Len(rules) \in Nat /\ DOMAIN rules = 1..Len(rules)
      /\ Len(logged) \in Nat /\ DOMAIN logged = 1..Len(logged)
      /\ pos \in Nat
  BY DEF IInv, Types, LogInv
<1>1. CASE EnterHook
  BY <1>1 DEF EnterHook, IInv, LogInv, NF_ACCEPT, NF_DROP
<1>2. CASE VisitObeyed
  BY <1>0, <1>2 DEF VisitObeyed, LogInv
<1>3. CASE VisitDisobeyed
  <2>1. CASE logged' = logged
    BY <1>0, <1>3, <2>1 DEF VisitDisobeyed, LogInv
  <2>2. CASE logged' = Append(logged, pos)
    <3>1. /\ logged' \in Seq(DOMAIN rules)
          /\ Len(logged') = Len(logged) + 1
          /\ \A m \in 1..Len(logged) : logged'[m] = logged[m]
          /\ logged'[Len(logged) + 1] = pos
      <4>1. logged \in Seq(DOMAIN rules) /\ pos \in DOMAIN rules
        BY <1>3 DEF VisitDisobeyed, LogInv
      <4>2. logged' \in Seq(DOMAIN rules)
        BY <1>3, <2>2, <4>1 DEF VisitDisobeyed
      <4> QED  BY <2>2, <4>1, <4>2
    <3>2. DOMAIN logged' = 1..Len(logged) + 1 /\ DOMAIN logged = 1..Len(logged)
      BY <1>0, <3>1
    <3>3. \A m \in DOMAIN logged : logged[m] \in Nat /\ logged[m] < pos
      BY <1>0, <1>3 DEF VisitDisobeyed, LogInv
    <3>4. \A m \in DOMAIN logged' : logged'[m] < pos'
      BY <1>0, <1>3, <3>1, <3>2, <3>3 DEF VisitDisobeyed
    <3>5. \A m, n \in DOMAIN logged' : m < n => logged'[m] < logged'[n]
      <4> SUFFICES ASSUME NEW m \in DOMAIN logged', NEW n \in DOMAIN logged', m < n
                   PROVE  logged'[m] < logged'[n]
        OBVIOUS
      <4>1. CASE n = Len(logged) + 1
        BY <1>0, <3>1, <3>2, <3>3, <4>1
      <4>2. CASE n \in DOMAIN logged
        <5>1. m \in DOMAIN logged
          BY <1>0, <3>2, <4>2
        <5> QED  BY <3>1, <3>2, <4>2, <5>1 DEF LogInv
      <4> QED  BY <1>0, <3>2, <4>1, <4>2
    <3> QED
      BY <1>0, <1>3, <3>1, <3>4, <3>5 DEF VisitDisobeyed, LogInv
  <2> QED  BY <1>3, <2>1, <2>2 DEF VisitDisobeyed
<1>4. CASE ReturnFromHook
  BY <1>0, <1>4 DEF ReturnFromHook, LogInv
<1>5. CASE Done \/ UNCHANGED vars
  BY <1>5 DEF Done, vars, LogInv
<1> QED
  BY <1>1, <1>2, <1>3, <1>4, <1>5 DEF Next

\* Both invariants hold all the way.
LEMMA SpecLogInv == Spec => [](IInv /\ LogInv)
BY InitIInv, NextIInv, InitLogInv, NextLogInv, PTL DEF Spec

\* A packet some notification was sent about ends up dropped, and no rule is
\* reported twice for it.
THEOREM SpecReportedOnlyIfDropped == Spec => []ReportedOnlyIfDropped
<1>1. IInv /\ LogInv => ReportedOnlyIfDropped
  BY SMTT(30) DEF IInv, InHook, LogInv, ReportedOnlyIfDropped, NF_ACCEPT, NF_DROP
<1> QED  BY <1>1, SpecLogInv, PTL

\* Type correctness.
THEOREM SpecTypeOK == Spec => []TypeOK
<1> DEFINE Listed == rules \in RuleLists
<1>1. Init => Listed
  BY DEF Init
<1>2. Listed /\ [Next]_vars => Listed'
  BY DEF Next, EnterHook, VisitObeyed, VisitDisobeyed, ReturnFromHook, Done, vars
<1>3. Listed /\ IInv /\ LogInv => TypeOK
  BY DEF IInv, Types, LogInv, TypeOK
<1> HIDE DEF Listed
<1> QED  BY <1>1, <1>2, <1>3, SpecLogInv, PTL DEF Spec

\* Within one call of a hook a drop is not taken back by a later rule.
THEOREM SpecDropIsFinal == Spec => DropIsFinal
<1>1. IInv /\ [Next]_vars =>
        [(pos # 0 /\ ret = NF_DROP) => (ret' = NF_DROP /\ verdict' # NF_ACCEPT)]_vars
  BY DEF IInv, InHook, Next, EnterHook, VisitObeyed, VisitDisobeyed, ReturnFromHook,
         Done, vars, NF_ACCEPT, NF_DROP
<1> QED  BY <1>1, SpecIInv, PTL DEF Spec, DropIsFinal
=============================================================================
