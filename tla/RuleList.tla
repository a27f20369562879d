------------------------------ MODULE RuleList ------------------------------
(***************************************************************************)
(* The linked list of rules in memory (kernel_module/node.c), written by   *)
(* the netlink commands and walked at the same time by the packet hooks    *)
(* (kernel_module/nf_hooks.c).  Commands exclude each other by generic     *)
(* netlink's mutex; the hooks take no lock at all.  Each step of a hook is *)
(* one load of a list pointer with what follows it up to the next load;    *)
(* each step of a command is one store to a pointer that a hook can load.  *)
(* Stores become visible in program order, as on the x86 the module is     *)
(* built for.  Ids and prev pointers are of no interest to a hook, so the  *)
(* stores to them belong to the step of the store before or after.         *)
(***************************************************************************)
EXTENDS Integers, SequencesExt

CONSTANTS
    Cpus,           \* the processors hooks run on
    Rule,           \* the rules
    Packets,        \* the packets, each as the set of the rules it disobeys
    AskedIds,       \* the ids removals look for
    NodeCount       \* bound: the nodes that kmalloc ever hands out

ASSUME RuleListAssumption ==
    /\ Rule # {}
    /\ Packets \subseteq SUBSET Rule
    /\ AskedIds \subseteq Nat
    /\ NodeCount \in Nat

NF_DROP   == "NF_DROP"
NF_ACCEPT == "NF_ACCEPT"

Nodes     == 1..NodeCount
RulesHead == 0          \* rules->list, which is in no node
POISON1   == -1         \* what list_del leaves in next: an unmapped address
POISON2   == -2         \* and in prev

VARIABLES
    next, prev,     \* the list_head of every node and of the head
    id, rule,       \* the other members of a node
    used,           \* how many nodes have been handed out
    cmd,            \* the command under way: [step, node, rest]
    hook,           \* per processor: [pc, pos, tmp, ret, skb]
    panic,          \* a hook has followed a pointer to nowhere
    table,          \* history: the nodes of the list, as of the last store
    request,        \* history: the command whose store that was
    could,          \* history: verdicts the table gave during the hook's call
    struck          \* history: a node was unlinked while the hook headed for it

vars == <<next, prev, id, rule, used, cmd, hook, panic, table, request, could, struck>>
list == <<next, prev, id, rule, used, cmd, table, request>>

Idle == [step |-> "idle", node |-> RulesHead, rest |-> RulesHead]

\* The verdict on a packet by a list of these nodes.
VerdictOf(nodes, skb) ==
    IF \E i \in DOMAIN nodes : rule[nodes[i]] \in skb THEN NF_DROP ELSE NF_ACCEPT

Init ==
    /\ next = [n \in Nodes \cup {RulesHead} |-> RulesHead]
    /\ prev = [n \in Nodes \cup {RulesHead} |-> RulesHead]
    /\ id = [n \in Nodes |-> 0]
    /\ rule = [n \in Nodes |-> CHOOSE r \in Rule : TRUE]
    /\ used = 0
    /\ cmd = Idle
    /\ hook = [c \in Cpus |-> [pc |-> "idle", pos |-> RulesHead, tmp |-> RulesHead,
                                ret |-> NF_ACCEPT, skb |-> {}]]
    /\ panic = FALSE
    /\ table = <<>>
    /\ request = <<"NONE">>
    /\ could = [c \in Cpus |-> {}]
    /\ struck = [c \in Cpus |-> FALSE]

-----------------------------------------------------------------------------
(***************************************************************************)
(* A hook: list_for_each_entry_safe over the rules.                        *)
(***************************************************************************)
Walking(c) == hook[c].pc # "idle"

\* The loop's first load: the node behind the head.
Enter(c) ==
    /\ ~panic /\ ~Walking(c)
    /\ \E skb \in Packets :
         /\ hook' = [hook EXCEPT ![c] = [pc |-> "load", pos |-> next[RulesHead], tmp |-> RulesHead,
                                         ret |-> NF_ACCEPT, skb |-> skb]]
         /\ could' = [could EXCEPT ![c] = {VerdictOf(table, skb)}]
    /\ struck' = [struck EXCEPT ![c] = FALSE]
    /\ UNCHANGED <<list, panic>>

\* Every other load: the node behind the one at the cursor, taken before that
\* one is looked at.  There is none to be had at LIST_POISON1.
Load(c) ==
    /\ ~panic /\ hook[c].pc = "load"
    /\ hook[c].pos \in DOMAIN next
    /\ hook' = [hook EXCEPT ![c].tmp = next[hook[c].pos],
                            ![c].pc = IF hook[c].pos = RulesHead THEN "return" ELSE "visit"]
    /\ UNCHANGED <<list, panic, could, struck>>

LoadFaults(c) ==
    /\ ~panic /\ hook[c].pc = "load"
    /\ hook[c].pos \notin DOMAIN next
    /\ panic' = TRUE
    /\ UNCHANGED <<list, hook, could, struck>>

\* Mutant: the loop is left at the first rule that is obeyed.
Visit_STOPS(c) ==
    /\ ~panic /\ hook[c].pc = "visit"
    /\ hook' = [hook EXCEPT
         ![c].pc = IF rule[hook[c].pos] \in hook[c].skb THEN "load" ELSE "return",
         ![c].ret = IF rule[hook[c].pos] \in hook[c].skb THEN NF_DROP ELSE @,
         ![c].pos = hook[c].tmp]
    /\ UNCHANGED <<list, panic, could, struck>>

\* Mutant: the cursor goes back to the node it is at.
Visit_STAYS(c) ==
    /\ ~panic /\ hook[c].pc = "visit"
    /\ hook' = [hook EXCEPT ![c].pc = "load"]
    /\ UNCHANGED <<list, panic, could, struck>>

\* The loop's body, and on to the node loaded before.
Visit(c) ==
    /\ ~panic /\ hook[c].pc = "visit"
    /\ hook' = [hook EXCEPT
         ![c].pc = "load",
         ![c].ret = IF rule[hook[c].pos] \in hook[c].skb THEN NF_DROP ELSE @,
         ![c].pos = hook[c].tmp]
    /\ UNCHANGED <<list, panic, could, struck>>

Return(c) ==
    /\ ~panic /\ hook[c].pc = "return"
    /\ hook' = [hook EXCEPT ![c].pc = "idle", ![c].pos = RulesHead, ![c].tmp = RulesHead]
    /\ could' = [could EXCEPT ![c] = {}]
    /\ struck' = [struck EXCEPT ![c] = FALSE]
    /\ UNCHANGED <<list, panic>>

HookStep(c) == Enter(c) \/ Load(c) \/ LoadFaults(c) \/ Visit(c) \/ Return(c)

-----------------------------------------------------------------------------
(***************************************************************************)
(* The commands.                                                           *)
(***************************************************************************)
\* The hooks under way live through one more state of the table.
Witnessed(nodes) ==
    [c \in Cpus |-> could[c] \cup IF Walking(c) THEN {VerdictOf(nodes, hook[c].skb)} ELSE {}]

\* Mutant: the node is linked in before it is filled.
AddLink_EARLY(r) ==
    LET new == used + 1
    IN  /\ ~panic /\ cmd = Idle /\ new \in Nodes
        /\ used' = new
        /\ id' = [id EXCEPT ![new] = IF next[RulesHead] = RulesHead THEN 0 ELSE id[prev[RulesHead]] + 1]
        /\ rule' = [rule EXCEPT ![new] = r]
        /\ cmd' = [step |-> "publish", node |-> new, rest |-> prev[RulesHead]]
        /\ next' = [next EXCEPT ![prev[RulesHead]] = new]
        /\ prev' = [prev EXCEPT ![RulesHead] = new, ![new] = prev[RulesHead]]
        /\ UNCHANGED <<hook, panic, table, request, could, struck>>

\* add_rule up to the last store of list_add_tail: a node with the rule and the
\* id after the last one's, linked to its neighbours but they not to it.
AddLink(r) ==
    LET new == used + 1
    IN  /\ ~panic /\ cmd = Idle /\ new \in Nodes
        /\ used' = new
        /\ id' = [id EXCEPT ![new] = IF next[RulesHead] = RulesHead THEN 0 ELSE id[prev[RulesHead]] + 1]
        /\ rule' = [rule EXCEPT ![new] = r]
        /\ cmd' = [step |-> "publish", node |-> new, rest |-> prev[RulesHead]]
        /\ next' = [next EXCEPT ![new] = RulesHead]
        /\ prev' = [prev EXCEPT ![RulesHead] = new, ![new] = prev[RulesHead]]
        /\ UNCHANGED <<hook, panic, table, request, could, struck>>

\* The last store: the predecessor points to the new node.
AddPublish ==
    /\ ~panic /\ cmd.step = "publish"
    /\ next' = [next EXCEPT ![cmd.rest] = cmd.node]
    /\ cmd' = Idle
    /\ table' = Append(table, cmd.node)
    /\ request' = <<"ADD_RULE", rule[cmd.node]>>
    /\ could' = Witnessed(table')
    /\ UNCHANGED <<prev, id, rule, used, hook, panic, struck>>

\* The nodes from this one to the end of the list: the fewest that hold it and,
\* with a node, the one behind it.
From(n) ==
    LET Behind(m) == {next[m]} \cap Nodes
        Closed    == {S \in SUBSET Nodes : {n} \cap Nodes \subseteq S /\ \A m \in S : Behind(m) \subseteq S}
    IN  {m \in Nodes : \A S \in Closed : m \in S}

\* Mutant: only the predecessor is told.
RemoveUnlink_FORWARD(asked) ==
    /\ ~panic /\ cmd = Idle
    /\ \E n \in From(next[RulesHead]) :
         /\ id[n] = asked
         /\ next' = [next EXCEPT ![prev[n]] = next[n]]
         /\ UNCHANGED prev
         /\ cmd' = [step |-> "poison", node |-> n, rest |-> next[n]]
         /\ table' = RemoveFirst(table, n)
         /\ struck' = struck
    /\ request' = <<"REMOVE_RULE", asked>>
    /\ could' = Witnessed(table')
    /\ UNCHANGED <<id, rule, used, hook, panic>>

\* Where the walk of a processor goes next: to the node it has loaded, or the
\* one it is about to load from.
HeadingFor(c) ==
    CASE hook[c].pc = "visit" -> hook[c].tmp
      [] hook[c].pc = "load"  -> hook[c].pos
      [] OTHER -> RulesHead

\* remove_rule's walk comes to the node with this id (when there is none, it
\* changes nothing) and list_del takes it out of the chain.
RemoveUnlink(asked) ==
    /\ ~panic /\ cmd = Idle
    /\ \E n \in From(next[RulesHead]) :
         /\ id[n] = asked
         /\ next' = [next EXCEPT ![prev[n]] = next[n]]
         /\ prev' = [prev EXCEPT ![next[n]] = prev[n]]
         /\ cmd' = [step |-> "poison", node |-> n, rest |-> next[n]]
         /\ table' = RemoveFirst(table, n)
         /\ struck' = [c \in Cpus |-> struck[c] \/ HeadingFor(c) = n]
    /\ request' = <<"REMOVE_RULE", asked>>
    /\ could' = Witnessed(table')
    /\ UNCHANGED <<id, rule, used, hook, panic>>

\* Mutant: the walk goes on from the node it has poisoned.
RemovePoison_NOREST ==
    /\ ~panic /\ cmd.step = "poison"
    /\ next' = [next EXCEPT ![cmd.node] = POISON1]
    /\ prev' = [prev EXCEPT ![cmd.node] = POISON2]
    /\ cmd' = Idle
    /\ UNCHANGED <<id, rule, used, hook, panic, table, request, could, struck>>

\* Mutant: list_del poisons the node it has linked in the other's place.
RemovePoison_SUCCESSOR ==
    /\ ~panic /\ cmd.step = "poison"
    /\ next' = [n \in DOMAIN next |-> IF n # RulesHead /\ n = cmd.rest THEN POISON1 ELSE next[n]]
    /\ cmd' = Idle
    /\ UNCHANGED <<prev, id, rule, used, hook, panic, table, request, could, struck>>

\* Mutant: the walk renumbers the nodes before the one it looks for as well.
RemovePoison_ALL ==
    /\ ~panic /\ cmd.step = "poison"
    /\ next' = [next EXCEPT ![cmd.node] = POISON1]
    /\ prev' = [prev EXCEPT ![cmd.node] = POISON2]
    /\ id' = [n \in Nodes |-> IF n \in From(next[RulesHead]) THEN id[n] - 1 ELSE id[n]]
    /\ cmd' = Idle
    /\ UNCHANGED <<rule, used, hook, panic, table, request, could, struck>>

\* list_del poisons the node's own pointers, and the walk renumbers the nodes
\* behind it.  The node is not given back to kmalloc.
RemovePoison ==
    /\ ~panic /\ cmd.step = "poison"
    /\ next' = [next EXCEPT ![cmd.node] = POISON1]
    /\ prev' = [prev EXCEPT ![cmd.node] = POISON2]
    /\ id' = [n \in Nodes |->
                IF n \in From(cmd.rest) /\ id[n] # id[cmd.node] THEN id[n] - 1 ELSE id[n]]
    /\ cmd' = Idle
    /\ UNCHANGED <<rule, used, hook, panic, table, request, could, struck>>

CommandStep ==
    \/ \E r \in Rule : AddLink(r)
    \/ AddPublish
    \/ \E asked \in AskedIds : RemoveUnlink(asked)
    \/ RemovePoison

\* Nothing runs after a panic.
Dead == panic /\ UNCHANGED vars

Next == (\E c \in Cpus : HookStep(c)) \/ CommandStep \/ Dead

\* A hook that has been entered keeps running: its loop waits for no lock and
\* for no command.  Packets and commands need not come.
Spec ==
    /\ Init /\ [][Next]_vars
    /\ \A c \in Cpus : WF_vars(Load(c) \/ LoadFaults(c) \/ Visit(c) \/ Return(c))

-----------------------------------------------------------------------------
Slot == Nodes \cup {RulesHead}
Address == Slot \cup {POISON1, POISON2}

TypeOK ==
    /\ next \in [Slot -> Slot \cup {POISON1}]
    /\ prev \in [Slot -> Slot \cup {POISON2}]
    /\ id \in [Nodes -> Nat]
    /\ rule \in [Nodes -> Rule]
    /\ used \in 0..NodeCount
    /\ cmd \in [step : {"idle", "publish", "poison"}, node : Slot, rest : Slot]
    /\ hook \in [Cpus -> [pc : {"idle", "load", "visit", "return"},
                          pos : Slot \cup {POISON1}, tmp : Slot \cup {POISON1},
                          ret : {NF_ACCEPT, NF_DROP}, skb : Packets \cup {{}}]]
    /\ panic \in BOOLEAN
    /\ table \in Seq(Nodes)
    /\ request \in {<<"NONE">>} \cup ({"ADD_RULE"} \X Rule) \cup ({"REMOVE_RULE"} \X AskedIds)
    /\ could \in [Cpus -> SUBSET {NF_ACCEPT, NF_DROP}]
    /\ struck \in [Cpus -> BOOLEAN]

\* The chain a hook sees, at every moment of every command: from the head over
\* the nodes of the table, in their order and once each, back to the head.
\* Between commands the prev pointers mirror it, and ids are positions.
Ring == <<RulesHead>> \o table \o <<RulesHead>>

ChainIsTable ==
    /\ \A i \in 1..Len(Ring) - 1 : next[Ring[i]] = Ring[i+1]
    /\ \A i, j \in DOMAIN table : i # j => table[i] # table[j]

MirroredWhenIdle ==
    cmd = Idle => /\ \A i \in 1..Len(Ring) - 1 : prev[Ring[i+1]] = Ring[i]
                  /\ \A i \in DOMAIN table : id[table[i]] = i - 1

\* The verdict a hook returns is the verdict of the table at some moment of the
\* call, although rules come and go while it walks: no rule that stands during
\* the whole call is missed, and none acts that has not stood during it.
VerdictOfSomeMoment ==
    \A c \in Cpus : hook[c].pc = "return" => hook[c].ret \in could[c]

\* Only the removal of the node that a hook is heading for can throw it off the
\* list: additions never do, nor removals elsewhere in the list.
ThrownOnlyByRemovalAhead ==
    \A c \in Cpus : hook[c].pos = POISON1 \/ hook[c].tmp = POISON1 => struck[c]

\* A hook that walks comes to an end, however many rules are added behind it.
WalkEnds == \A c \in Cpus : Walking(c) ~> (~Walking(c) \/ panic)

\* The commands, store by store, act on the sequence of rules as RuleSeq says:
\* an addition when the predecessor points to the new node, a removal when it
\* no longer points to the old one.
Promise == INSTANCE RuleSeq
    WITH seq <- [i \in DOMAIN table |-> rule[table[i]]], answer <- <<>>

ImplementsRuleSeq == Promise!Spec

-----------------------------------------------------------------------------
\* nf_hooks.c, on both hooks: "@return NF_DROP if packet is dropped, NF_ACCEPT
\* if it's accepted".  A hook that is called returns.
HookReturns == ~panic
=============================================================================
