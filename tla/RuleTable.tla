----------------------------- MODULE RuleTable -----------------------------
(***************************************************************************)
(* The rule table as the netlink commands of the kernel module see it      *)
(* (kernel_module/netlink.c and node.c): a list of nodes, each with a rule *)
(* and the id that a removal looks for.  The commands are serialised by    *)
(* generic netlink's mutex, so each is one step here; RuleList takes them  *)
(* apart into the pointer writes a packet hook can run between.            *)
(***************************************************************************)
EXTENDS Integers, FiniteSets, SequencesExt

CONSTANTS
    Rule,           \* the rules
    AskedIds,       \* the ids removals ask for
    IdMod,          \* ids travel in an attribute of IdMod values: 256
    DumpCapacity,   \* the rules the RULES attribute of a reply has room for
    MaxRules        \* bound: additions stop when the table is this long

ASSUME RuleTableAssumption ==
    /\ AskedIds \subseteq Nat
    /\ IdMod \in Nat \ {0}
    /\ DumpCapacity \in Nat
    /\ MaxRules \in Nat

VARIABLES
    list,       \* the nodes between rules->list and itself, in order
    request,    \* the command completed last
    answer,     \* the rules in the reply to the last LIST_RULES
    oops        \* the kernel has followed a pointer it should not have

vars == <<list, request, answer, oops>>

RulesOf(nodes) == [i \in DOMAIN nodes |-> nodes[i].rule]

Init ==
    /\ list = <<>>
    /\ request = <<"NONE">>
    /\ answer = <<>>
    /\ oops = FALSE

-----------------------------------------------------------------------------
\* Mutant: the new node takes its predecessor's id.
NextId_SAME == IF list = <<>> THEN 0 ELSE Last(list).id

\* add_rule: the id after that of the last node.
NextId == IF list = <<>> THEN 0 ELSE Last(list).id + 1

\* add_rule_doit.  When kmalloc fails, add_rule returns -1 and the handler 0.
AddRule(rule) ==
    /\ ~oops /\ Len(list) < MaxRules
    /\ request' = <<"ADD_RULE", rule>>
    /\ list' \in {Append(list, [id |-> NextId, rule |-> rule]), list}
    /\ UNCHANGED <<answer, oops>>

\* parse_rule_id: the id is sent in eight bytes and read from the first.
parse_rule_id(asked) == asked % IdMod

\* Mutant: the walk renumbers the nodes it passes before the one it looks for.
Removed_ALL(id, i) ==
    LET kept == RemoveAt(list, i)
    IN  [j \in DOMAIN kept |-> [kept[j] EXCEPT !.id = @ - 1]]

\* Mutant: the walk stops at the node it was looking for.
Removed_NORENUMBER(id, i) == RemoveAt(list, i)

\* Mutant: the node behind the one with the id goes.
Removed_NEXT(id, i) ==
    LET kept == RemoveAt(list, IF i < Len(list) THEN i + 1 ELSE i)
    IN  [j \in DOMAIN kept |-> [kept[j] EXCEPT !.id = IF j > i THEN @ - 1 ELSE @]]

\* remove_rule, once its walk has come to the first node with this id: the
\* node is unlinked and the nodes behind it count one less.
Removed(id, i) ==
    LET kept == RemoveAt(list, i)
    IN  [j \in DOMAIN kept |->
            IF j >= i /\ kept[j].id # id THEN [kept[j] EXCEPT !.id = @ - 1] ELSE kept[j]]

IsFirstWith(id, i) == list[i].id = id /\ \A j \in 1..i-1 : list[j].id # id

remove_rule(id) ==
    IF \E i \in DOMAIN list : list[i].id = id
    THEN Removed(id, CHOOSE i \in DOMAIN list : IsFirstWith(id, i))
    ELSE list

\* remove_rule_doit, which returns 0 whether or not there was such a rule.
RemoveRule(asked) ==
    /\ ~oops
    /\ request' = <<"REMOVE_RULE", asked>>
    /\ list' = remove_rule(parse_rule_id(asked))
    /\ UNCHANGED <<answer, oops>>

\* list_rules_dumpit.  The attribute is left out when there are no rules or no
\* room for all of them: both are reported as success, and the service takes
\* both for an empty table.
ListRules ==
    /\ ~oops
    /\ request' = <<"LIST_RULES">>
    /\ answer' = IF Len(list) <= DumpCapacity THEN RulesOf(list) ELSE <<>>
    /\ UNCHANGED <<list, oops>>

\* When serialize_list gets no memory, nla_put copies the rules from NULL.
ListRulesOutOfMemory ==
    /\ ~oops /\ list # <<>>
    /\ oops' = TRUE
    /\ UNCHANGED <<list, request, answer>>

\* After an oops the command that caused it never releases the mutex.
Dead == oops /\ UNCHANGED vars

Next ==
    \/ \E rule \in Rule : AddRule(rule)
    \/ \E id \in AskedIds : RemoveRule(id)
    \/ ListRules
    \/ ListRulesOutOfMemory
    \/ Dead

Spec == Init /\ [][Next]_vars

-----------------------------------------------------------------------------
TypeOK ==
    /\ list \in Seq([id : Nat, rule : Rule])
    /\ request \in {<<"NONE">>, <<"LIST_RULES">>}
                    \cup ({"ADD_RULE"} \X Rule) \cup ({"REMOVE_RULE"} \X AskedIds)
    /\ answer \in Seq(Rule)
    /\ oops \in BOOLEAN

\* The id of a node is its position.  The service sends no ids with a listing:
\* it numbers the rules it gets (FirewallRules.from_raw_data), and a removal by
\* that number hits the right node only because of this.
IdsArePositions == \A i \in DOMAIN list : list[i].id = i - 1

\* The table keeps its promise: renumbering and all, additions and removals by
\* id act on a plain sequence of rules in which a rule's id is its position.  That
\* is so for ids below IdMod: a larger one is not refused, as parser.c has it
\* ("@return the rule id or -1 on error"), but names the rule id % IdMod.
Promise == INSTANCE RuleSeq WITH seq <- RulesOf(list)

ImplementsRuleSeq == Promise!Spec
=============================================================================
