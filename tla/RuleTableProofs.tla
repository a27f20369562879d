-------------------------- MODULE RuleTableProofs --------------------------
(***************************************************************************)
(* Proofs about RuleTable: ids are positions whatever is added and removed *)
(* in whatever order, and by that the table implements RuleSeq, for every  *)
(* set of rules, id width, reply size and table length.                    *)
(***************************************************************************)
EXTENDS RuleTable, SequenceFacts

-----------------------------------------------------------------------------
(***************************************************************************)
(* The rules of a table.                                                   *)
(***************************************************************************)
Nodes == Seq([id : Nat, rule : Rule])

\* The rules of a list of nodes, one by one.
LEMMA RulesOfType ==
    ASSUME NEW s \in Nodes
    PROVE  /\ RulesOf(s) \in Seq(Rule)
           /\ Len(RulesOf(s)) = Len(s)
           /\ \A j \in 1..Len(s) : RulesOf(s)[j] = s[j].rule
<1>1. Len(s) \in Nat /\ DOMAIN s = 1..Len(s)
  BY LenProperties DEF Nodes
<1>2. \A j \in 1..Len(s) : s[j].rule \in Rule
  <2> SUFFICES ASSUME NEW j \in 1..Len(s) PROVE s[j].rule \in Rule
    OBVIOUS
  <2>1. s[j] \in [id : Nat, rule : Rule]
    BY ElementOfSeq DEF Nodes
  <2> QED  BY <2>1
<1>3. RulesOf(s) \in [1..Len(s) -> Rule]
  BY <1>1, <1>2 DEF RulesOf
<1> QED  BY <1>1, <1>3 DEF RulesOf

\* A node more is a rule more at the end.
LEMMA RulesOfAppend ==
    ASSUME NEW s \in Nodes, NEW n \in [id : Nat, rule : Rule]
    PROVE  RulesOf(Append(s, n)) = Append(RulesOf(s), n.rule)
<1> DEFINE t == Append(s, n)
<1>1. /\ t \in Nodes /\ Len(s) \in Nat
      /\ Len(t) = Len(s) + 1
      /\ \A j \in 1..Len(s) + 1 : t[j] = IF j <= Len(s) THEN s[j] ELSE n
  BY AppendProperties, LenProperties DEF Nodes
<1> HIDE DEF t
<1>2. /\ Append(RulesOf(s), n.rule) \in Seq(Rule)
      /\ Len(Append(RulesOf(s), n.rule)) = Len(s) + 1
      /\ \A j \in 1..Len(s) + 1 :
            Append(RulesOf(s), n.rule)[j] = IF j <= Len(s) THEN s[j].rule ELSE n.rule
  BY <1>1, RulesOfType, AppendProperties
<1>3. /\ RulesOf(t) \in Seq(Rule)
      /\ Len(RulesOf(t)) = Len(s) + 1
      /\ \A j \in 1..Len(s) + 1 :
            RulesOf(t)[j] = IF j <= Len(s) THEN s[j].rule ELSE n.rule
  <2>1. /\ RulesOf(t) \in Seq(Rule) /\ Len(RulesOf(t)) = Len(t)
        /\ \A j \in 1..Len(t) : RulesOf(t)[j] = t[j].rule
    BY <1>1, RulesOfType
  <2> QED  BY <1>1, <2>1
<1>4. RulesOf(t) = Append(RulesOf(s), n.rule)
  BY <1>2, <1>3, SeqEqual
<1> QED  BY <1>4 DEF t

-----------------------------------------------------------------------------
(***************************************************************************)
(* The inductive invariant.  Without IdsArePositions nothing is known      *)
(* about the node a removal finds, and without that not even that the ids  *)
(* stay natural numbers.                                                   *)
(***************************************************************************)
IInv == TypeOK /\ IdsArePositions

\* What remove_rule leaves of a table whose ids are positions.
LEMMA RemoveRuleResult ==
    ASSUME list \in Nodes, IdsArePositions, NEW id \in Nat
    PROVE  IF id + 1 \in DOMAIN list
           THEN /\ remove_rule(id) \in Nodes
                /\ Len(remove_rule(id)) = Len(list) - 1
                /\ \A j \in 1..Len(list) - 1 :
                     /\ remove_rule(id)[j].id = j - 1
                     /\ remove_rule(id)[j].rule =
                            IF j < id + 1 THEN list[j].rule ELSE list[j+1].rule
           ELSE remove_rule(id) = list
<1>0. /\ Len(list) \in Nat /\ DOMAIN list = 1..Len(list)
      /\ \A j \in 1..Len(list) : list[j] \in [id : Nat, rule : Rule]
  BY LenProperties, ElementOfSeq DEF Nodes
<1>1. \A i \in DOMAIN list : list[i].id = id <=> i = id + 1
  BY <1>0 DEF IdsArePositions
<1>2. CASE id + 1 \notin DOMAIN list
  BY <1>1, <1>2 DEF remove_rule
<1>3. CASE id + 1 \in DOMAIN list
  <2> DEFINE k == id + 1
             kept == RemoveAt(list, k)
  <2>1. IsFirstWith(id, k)
    BY <1>0, <1>1, <1>3 DEF IsFirstWith
  <2>2. k = CHOOSE i \in DOMAIN list : IsFirstWith(id, i)
    BY <1>1, <1>3, <2>1 DEF IsFirstWith
  <2>3. remove_rule(id) = Removed(id, k)
    BY <1>1, <1>3, <2>2 DEF remove_rule
  <2>4. /\ kept \in Seq([id : Nat, rule : Rule])
        /\ Len(kept) = Len(list) - 1
        /\ \A j \in 1..Len(list) - 1 :
             kept[j] = IF j < k THEN list[j] ELSE list[j+1]
    BY <1>0, <1>3, RemoveAtProperties, Zenon DEF Nodes
  <2> HIDE DEF kept
  <2>5. Len(list) - 1 \in Nat /\ DOMAIN kept = 1..Len(list) - 1
    BY <1>0, <1>3, <2>4, LenProperties
  <2>6. Removed(id, k) = [j \in 1..Len(list) - 1 |->
                            IF j >= k /\ kept[j].id # id
                            THEN [kept[j] EXCEPT !.id = @ - 1] ELSE kept[j]]
    BY <2>5 DEF Removed, kept
  <2>7. ASSUME NEW j \in 1..Len(list) - 1
        PROVE  /\ Removed(id, k)[j] \in [id : Nat, rule : Rule]
               /\ Removed(id, k)[j].id = j - 1
               /\ Removed(id, k)[j].rule =
                    IF j < k THEN list[j].rule ELSE list[j+1].rule
    <3>1. CASE j < k
      <4>1. j \in DOMAIN list /\ kept[j] = list[j] /\ list[j].id = j - 1
        <5>1. j \in 1..Len(list) /\ kept[j] = list[j]
          BY <1>0, <2>4, <2>5, <3>1
        <5> QED  BY <1>0, <5>1 DEF IdsArePositions
      <4>2. Removed(id, k)[j] = list[j]
        BY <2>5, <2>6, <3>1, <4>1
      <4>3. list[j] \in [id : Nat, rule : Rule]
        BY <1>0, <4>1
      <4> QED  BY <3>1, <4>1, <4>2, <4>3
    <3>2. CASE ~(j < k)
      <4>1. j + 1 \in DOMAIN list /\ kept[j] = list[j+1] /\ list[j+1].id = j
        <5>1. j \in Nat /\ j + 1 \in 1..Len(list) /\ (j + 1) - 1 = j
          BY <1>0, <2>5
        <5>2. list[j+1].id = (j + 1) - 1
          BY <1>0, <5>1 DEF IdsArePositions
        <5> QED  BY <1>0, <2>4, <3>2, <5>1, <5>2
      <4>2. Removed(id, k)[j] = [list[j+1] EXCEPT !.id = j - 1]
        BY <2>5, <2>6, <3>2, <4>1
      <4>3. list[j+1] \in [id : Nat, rule : Rule] /\ j - 1 \in Nat
        BY <1>0, <2>5, <4>1
      <4> QED  BY <3>2, <4>2, <4>3
    <3> QED  BY <3>1, <3>2
  <2>8. Removed(id, k) \in Nodes /\ Len(Removed(id, k)) = Len(list) - 1
    <3>1. Removed(id, k) \in [1..Len(list) - 1 -> [id : Nat, rule : Rule]]
      BY <2>6, <2>7
    <3> QED  BY <2>5, <3>1, SeqOfFunction, Zenon DEF Nodes
  <2> QED  BY <1>3, <2>3, <2>7, <2>8
<1> QED  BY <1>2, <1>3

\* parse_rule_id gives back an id that is below the modulus.
LEMMA ParsedId ==
    ASSUME NEW asked \in AskedIds
    PROVE  /\ parse_rule_id(asked) \in Nat
           /\ asked < IdMod => parse_rule_id(asked) = asked
BY RuleTableAssumption DEF parse_rule_id

\* Where ids are positions, add_rule gives out the next position.
LEMMA NextIdValue ==
    ASSUME IInv
    PROVE  NextId = Len(list)
<1>1. Len(list) \in Nat /\ DOMAIN list = 1..Len(list)
  BY DEF IInv, TypeOK
<1>2. CASE list = <<>>
  BY <1>2 DEF NextId
<1>3. CASE list # <<>>
  <2>1. Len(list) \in DOMAIN list
    BY <1>1, <1>3, EmptySeq DEF IInv, TypeOK
  <2> QED  BY <1>1, <1>3, <2>1 DEF NextId, Last, IInv, IdsArePositions
<1> QED  BY <1>2, <1>3

\* The empty list has the types and the ids.
LEMMA InitIInv == Init => IInv
<1> SUFFICES ASSUME Init PROVE IInv
  OBVIOUS
<1>1. list \in Seq([id : Nat, rule : Rule]) /\ answer \in Seq(Rule) /\ DOMAIN list = {}
  BY EmptySeq DEF Init
<1> QED  BY <1>1 DEF Init, IInv, TypeOK, IdsArePositions

\* Every command keeps them.
LEMMA NextIInv == IInv /\ [Next]_vars => IInv'
<1> SUFFICES ASSUME IInv, [Next]_vars PROVE IInv'
  OBVIOUS
<1>0. /\ list \in Nodes /\ Len(list) \in Nat /\ DOMAIN list = 1..Len(list)
      /\ \A j \in 1..Len(list) : list[j].id = j - 1
  BY LenProperties DEF IInv, TypeOK, IdsArePositions, Nodes
<1>1. ASSUME NEW rule \in Rule, AddRule(rule) PROVE IInv'
  <2> DEFINE n == [id |-> NextId, rule |-> rule]
  <2>1. n \in [id : Nat, rule : Rule] /\ n.id = Len(list)
    BY <1>0, NextIdValue
  <2>2. CASE list' = list
    BY <1>1, <2>2 DEF AddRule, IInv, TypeOK, IdsArePositions
  <2>3. CASE list' = Append(list, n)
    <3> HIDE DEF n
    <3>1. /\ list' \in Nodes /\ Len(list') = Len(list) + 1
          /\ \A j \in 1..Len(list) + 1 :
                list'[j] = IF j <= Len(list) THEN list[j] ELSE n
      BY <1>0, <2>1, <2>3, AppendProperties DEF Nodes
    <3>2. DOMAIN list' = 1..Len(list) + 1
      BY <3>1, LenProperties DEF Nodes
    <3>3. IdsArePositions'
      BY <1>0, <2>1, <3>1, <3>2 DEF IdsArePositions
    <3> QED  BY <1>1, <3>1, <3>3 DEF AddRule, IInv, TypeOK, Nodes
  <2> QED  BY <1>1, <2>2, <2>3 DEF AddRule
<1>2. ASSUME NEW asked \in AskedIds, RemoveRule(asked) PROVE IInv'
  <2> DEFINE id == parse_rule_id(asked)
  <2>1. id \in Nat /\ list' = remove_rule(id)
    BY <1>2, ParsedId DEF RemoveRule
  <2> HIDE DEF id
  <2>2. list' \in Nodes /\ IdsArePositions'
    <3>1. CASE id + 1 \in DOMAIN list
      <4>1. /\ list' \in Nodes /\ Len(list') = Len(list) - 1
            /\ \A j \in 1..Len(list) - 1 : list'[j].id = j - 1
        BY <1>0, <2>1, <3>1, RemoveRuleResult, Zenon DEF IInv
      <4>2. DOMAIN list' = 1..Len(list) - 1
        BY <4>1, LenProperties DEF Nodes
      <4> QED  BY <4>1, <4>2 DEF IdsArePositions
    <3>2. CASE id + 1 \notin DOMAIN list
      <4>1. list' = list
        BY <1>0, <2>1, <3>2, RemoveRuleResult, Zenon DEF IInv
      <4> QED  BY <1>0, <4>1 DEF IInv, IdsArePositions
    <3> QED  BY <3>1, <3>2
  <2> QED  BY <1>2, <2>2 DEF RemoveRule, IInv, TypeOK, Nodes
<1>3. CASE ListRules
  <2>1. answer' \in Seq(Rule)
    BY <1>0, <1>3, RulesOfType, EmptySeq DEF ListRules
  <2> QED  BY <1>3, <2>1 DEF ListRules, IInv, TypeOK, IdsArePositions
<1>4. CASE ListRulesOutOfMemory
  BY <1>4 DEF ListRulesOutOfMemory, IInv, TypeOK, IdsArePositions
<1>5. CASE Dead \/ UNCHANGED vars
  BY <1>5 DEF Dead, vars, IInv, TypeOK, IdsArePositions
<1> QED
  BY <1>1, <1>2, <1>3, <1>4, <1>5 DEF Next

\* Type correctness, and the id of every node is its position in the list.
THEOREM SpecIInv == Spec => [](TypeOK /\ IdsArePositions)
BY InitIInv, NextIInv, PTL DEF Spec, IInv

\* Ids stay natural numbers, and the table one of nodes, whatever is asked for.
THEOREM SpecTypeOK == Spec => []TypeOK
BY SpecIInv, PTL

-----------------------------------------------------------------------------
(***************************************************************************)
(* The refinement.                                                         *)
(***************************************************************************)

\* As a map on rules, an effective removal is RemoveAt.
LEMMA RemoveRuleRefines ==
    ASSUME IInv, NEW id \in Nat
    PROVE  RulesOf(remove_rule(id)) =
             IF id + 1 \in DOMAIN RulesOf(list)
             THEN RemoveAt(RulesOf(list), id + 1) ELSE RulesOf(list)
<1>0. /\ list \in Nodes /\ IdsArePositions
      /\ Len(list) \in Nat /\ DOMAIN list = 1..Len(list)
  BY LenProperties DEF IInv, TypeOK, Nodes
<1>1. /\ RulesOf(list) \in Seq(Rule) /\ Len(RulesOf(list)) = Len(list)
      /\ DOMAIN RulesOf(list) = 1..Len(list)
      /\ \A j \in 1..Len(list) : RulesOf(list)[j] = list[j].rule
  BY <1>0, RulesOfType DEF RulesOf
<1>2. CASE id + 1 \notin DOMAIN list
  BY <1>0, <1>1, <1>2, RemoveRuleResult, Zenon
<1>3. CASE id + 1 \in DOMAIN list
  <2> DEFINE new == remove_rule(id)
             cut == RemoveAt(RulesOf(list), id + 1)
  <2>1. /\ new \in Nodes /\ Len(new) = Len(list) - 1
        /\ \A j \in 1..Len(list) - 1 :
             new[j].rule = IF j < id + 1 THEN list[j].rule ELSE list[j+1].rule
    BY <1>0, <1>3, RemoveRuleResult, Zenon
  <2>2. /\ cut \in Seq(Rule) /\ Len(cut) = Len(list) - 1
        /\ \A j \in 1..Len(list) - 1 :
             cut[j] = IF j < id + 1 THEN RulesOf(list)[j] ELSE RulesOf(list)[j+1]
    BY <1>0, <1>1, <1>3, RemoveAtProperties, Zenon
  <2> HIDE DEF new, cut
  <2>3. /\ RulesOf(new) \in Seq(Rule) /\ Len(RulesOf(new)) = Len(list) - 1
        /\ \A j \in 1..Len(list) - 1 : RulesOf(new)[j] = new[j].rule
    BY <2>1, RulesOfType
  <2>4. ASSUME NEW j \in 1..Len(list) - 1 PROVE RulesOf(new)[j] = cut[j]
    <3>1. j \in 1..Len(list) /\ j + 1 \in 1..Len(list)
      BY <1>0
    <3> QED  BY <1>1, <2>1, <2>2, <2>3, <3>1
  <2>5. RulesOf(new) = cut
    BY <2>2, <2>3, <2>4, SeqEqual
  <2> QED  BY <1>0, <1>1, <1>3, <2>5 DEF new, cut
<1> QED  BY <1>2, <1>3

IdsFit == \A id \in AskedIds : id < IdMod

\* Every command is a step of RuleSeq or changes nothing that RuleSeq speaks of.
LEMMA StepRefines ==
    ASSUME IdsFit
    PROVE  IInv /\ [Next]_vars => [Promise!Next]_(Promise!vars)
<1> SUFFICES ASSUME IInv, [Next]_vars PROVE [Promise!Next]_(Promise!vars)
  OBVIOUS
<1>0. list \in Nodes
  BY DEF IInv, TypeOK, Nodes
<1>1. ASSUME NEW rule \in Rule, AddRule(rule) PROVE Promise!Add(rule)
  <2> DEFINE n == [id |-> NextId, rule |-> rule]
  <2>1. n \in [id : Nat, rule : Rule] /\ n.rule = rule
    BY <1>0, NextIdValue, LenProperties DEF Nodes
  <2>2. RulesOf(Append(list, n)) = Append(RulesOf(list), rule)
    BY <1>0, <2>1, RulesOfAppend
  <2> HIDE DEF n
  <2>3. list' \in {Append(list, n), list}
    BY <1>1 DEF AddRule, n
  <2>4. RulesOf(list)' \in {Append(RulesOf(list), rule), RulesOf(list)}
    BY <2>2, <2>3 DEF RulesOf
  <2> QED  BY <1>1, <2>4 DEF AddRule, Promise!Add
<1>2. ASSUME NEW asked \in AskedIds, RemoveRule(asked) PROVE Promise!RemoveById(asked)
  <2>1. list' = remove_rule(asked) /\ asked \in Nat
    BY <1>2, ParsedId, RuleTableAssumption DEF RemoveRule, IdsFit
  <2>2. RulesOf(list)' = RulesOf(remove_rule(asked))
    BY <2>1 DEF RulesOf
  <2>3. RulesOf(list)' = IF asked + 1 \in DOMAIN RulesOf(list)
                         THEN RemoveAt(RulesOf(list), asked + 1) ELSE RulesOf(list)
    BY <2>1, <2>2, RemoveRuleRefines
  <2> QED
    BY <1>2, <2>3 DEF RemoveRule, Promise!RemoveById, Promise!RemoveAt, RemoveAt
<1>3. ASSUME ListRules PROVE Promise!List
  BY <1>3 DEF ListRules, Promise!List, RulesOf
<1>4. ASSUME ListRulesOutOfMemory \/ Dead \/ UNCHANGED vars
      PROVE  UNCHANGED Promise!vars
  BY <1>4 DEF ListRulesOutOfMemory, Dead, vars, Promise!vars, RulesOf
<1> QED
  BY <1>1, <1>2, <1>3, <1>4 DEF Next, Promise!Next

\* The table implements the sequence of rules, as long as the ids that are
\* asked for fit into the byte they travel in.
THEOREM SpecImplementsRuleSeq == IdsFit => (Spec => ImplementsRuleSeq)
<1> SUFFICES ASSUME IdsFit PROVE Spec => ImplementsRuleSeq
  OBVIOUS
<1>1. Init => Promise!Init
  <2> SUFFICES ASSUME Init PROVE RulesOf(list) = <<>>
    BY DEF Init, Promise!Init
  <2> QED  BY DEF Init, RulesOf
<1>2. IInv /\ [Next]_vars => [Promise!Next]_(Promise!vars)
  BY StepRefines
<1>3. Spec => []IInv
  BY SpecIInv, PTL DEF IInv
<1> QED  BY <1>1, <1>2, <1>3, PTL DEF Spec, Promise!Spec, ImplementsRuleSeq
=============================================================================
