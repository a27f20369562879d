--------------------------- MODULE RuleListProofs ---------------------------
(***************************************************************************)
(* Proofs about RuleList: whatever the commands and the hooks do between   *)
(* each other's loads and stores, for every number of processors, nodes,   *)
(* rules and packets.                                                      *)
(***************************************************************************)
EXTENDS RuleList, SequenceFacts

-----------------------------------------------------------------------------
(***************************************************************************)
(* The inductive invariant.  First the chain: what the pointers, the ids   *)
(* and the command under way have to do with the table.                    *)
(***************************************************************************)
\* The place i of the list; the head stands before the first and behind the last.
At(i) == IF i \in DOMAIN table THEN table[i] ELSE RulesHead

Publishing == cmd.step = "publish"
Poisoning  == cmd.step = "poison"

\* Nodes are handed out in the order in which they stand in the list.
Ordered ==
    /\ \A i \in DOMAIN table : table[i] <= used
    /\ \A i, j \in DOMAIN table : i < j => table[i] < table[j]

Chained  == \A i \in 0..Len(table) : next[At(i)] = At(i+1)
Mirrored == \A i \in 0..Len(table) : prev[At(i+1)] = At(i)

\* A node that was handed out and is no longer in use leads nowhere.
Spent == \A n \in 1..used : (\E i \in DOMAIN table : table[i] = n) \/ n = cmd.node \/ next[n] = POISON1

AtRest ==
    cmd.step = "idle" => /\ cmd = Idle
                         /\ Mirrored
                         /\ \A i \in DOMAIN table : id[table[i]] = i - 1

\* add_rule: only the last store is missing.
Added ==
    Publishing =>
        /\ cmd.node = used /\ used \in Nodes
        /\ \A i \in DOMAIN table : table[i] < cmd.node
        /\ cmd.rest = At(Len(table))
        /\ next[cmd.node] = RulesHead
        /\ prev[RulesHead] = cmd.node /\ prev[cmd.node] = cmd.rest
        /\ \A i \in 0..Len(table)-1 : prev[At(i+1)] = At(i)
        /\ id[cmd.node] = Len(table)
        /\ \A i \in DOMAIN table : id[table[i]] = i - 1

\* list_del: the node that stood at place k still leads back into the list, and
\* the ids behind it are yet to come down by one.
RemovedFrom(k) ==
    /\ cmd.node \in Nodes /\ cmd.node <= used
    /\ cmd.rest = At(k) /\ next[cmd.node] = At(k)
    /\ \A i \in DOMAIN table : IF i < k THEN table[i] < cmd.node ELSE cmd.node < table[i]
    /\ Mirrored
    /\ id[cmd.node] = k - 1
    /\ \A i \in DOMAIN table : id[table[i]] = IF i < k THEN i - 1 ELSE i

Removed == Poisoning => \E k \in 1..Len(table) + 1 : RemovedFrom(k)

Linked == Ordered /\ Chained /\ Spent /\ AtRest /\ Added /\ Removed

(***************************************************************************)
(* Then the hooks: where their cursors can be, and what they know.         *)
(***************************************************************************)
\* What a pointer of a hook can hold: a node handed out, and not one that is
\* still to be published.
Reached == {RulesHead, POISON1} \cup {n \in 1..used : ~(Publishing /\ n = cmd.node)}

Listed(n) == \E i \in DOMAIN table : table[i] = n

\* The cursors of a hook.
Cursors(c) ==
    /\ hook[c].pos \in Reached /\ hook[c].tmp \in Reached
    /\ hook[c].pc \in {"idle", "return"} => hook[c].pos = RulesHead /\ hook[c].tmp # POISON1
    /\ hook[c].pc = "load" => hook[c].tmp \in {hook[c].pos, RulesHead}
    /\ hook[c].pc = "visit" => hook[c].pos \in Nodes

\* A hook heads for a node of the list or for the head, unless struck.
OnTheList(c) == Listed(HeadingFor(c)) \/ HeadingFor(c) = RulesHead \/ struck[c]

Disobeyed(c, n) == n \in Nodes /\ rule[n] \in hook[c].skb

\* The verdicts witnessed cover the present one, and a drop by any node the hook
\* holds on to.
Covered(c) ==
    Walking(c) =>
        /\ VerdictOf(table, hook[c].skb) \in could[c]
        /\ Disobeyed(c, hook[c].pos) => NF_DROP \in could[c]
        /\ Disobeyed(c, hook[c].tmp) => NF_DROP \in could[c]
        /\ hook[c].ret = NF_DROP => NF_DROP \in could[c]

\* No rule of the list that the packet disobeys stands before this node, but for
\* the one that the hook is about to look at.
NonePassed(c, n, looking) ==
    \A i \in DOMAIN table : Disobeyed(c, table[i]) => n <= table[i] \/ (looking /\ table[i] = hook[c].pos)

\* While the packet is to be accepted: nothing was passed over, and at the end of
\* the list an accept is among the verdicts witnessed.
NothingMissed(c) ==
    hook[c].ret = NF_ACCEPT =>
        /\ hook[c].pc = "load" /\ hook[c].pos \in Nodes => NonePassed(c, hook[c].pos, FALSE)
        /\ hook[c].pc = "load" /\ hook[c].pos = RulesHead => NF_ACCEPT \in could[c]
        /\ hook[c].pc = "visit" /\ hook[c].tmp \in Nodes => NonePassed(c, hook[c].tmp, TRUE)
        /\ hook[c].pc = "visit" /\ hook[c].tmp = RulesHead =>
               Disobeyed(c, hook[c].pos) \/ NF_ACCEPT \in could[c]
        /\ hook[c].pc = "return" => NF_ACCEPT \in could[c]

HookOK(c) == Cursors(c) /\ OnTheList(c) /\ Covered(c) /\ NothingMissed(c)

IInv == TypeOK /\ Linked /\ \A c \in Cpus : HookOK(c)

-----------------------------------------------------------------------------
(***************************************************************************)
(* The list.                                                               *)
(***************************************************************************)
\* What is known of any sequence of nodes.
LEMMA TableFacts ==
    ASSUME TypeOK
    PROVE  /\ Len(table) \in Nat /\ DOMAIN table = 1..Len(table)
           /\ \A i \in DOMAIN table : table[i] \in Nodes
           /\ used \in Nat /\ NodeCount \in Nat /\ used <= NodeCount
<1>1. table \in Seq(Nodes) /\ used \in 0..NodeCount /\ NodeCount \in Nat
  BY RuleListAssumption DEF TypeOK
<1> QED  BY <1>1, LenProperties, ElementOfSeq

\* No node stands at two places, and the head stands around all of them.
LEMMA Places ==
    ASSUME TypeOK, Ordered
    PROVE  /\ \A i \in DOMAIN table : At(i) = table[i] /\ At(i) \in Nodes /\ At(i) # RulesHead
           /\ \A i \in Int : i \notin DOMAIN table => At(i) = RulesHead
           /\ \A i \in Int : At(i) \in Slot
           /\ At(0) = RulesHead /\ At(Len(table)+1) = RulesHead
           /\ \A i, j \in DOMAIN table : table[i] = table[j] => i = j
           /\ \A i \in 0..Len(table), j \in 0..Len(table) : At(i) = At(j) => i = j
           /\ \A i \in 1..Len(table)+1, j \in 1..Len(table)+1 : At(i) = At(j) => i = j
<1>1. /\ Len(table) \in Nat /\ DOMAIN table = 1..Len(table)
      /\ \A i \in DOMAIN table : table[i] \in Nodes
      /\ \A n \in Nodes : n \in Nat /\ n # RulesHead
  BY TableFacts DEF Nodes, RulesHead
<1>2. /\ \A i \in DOMAIN table : At(i) = table[i] /\ At(i) \in Nodes /\ At(i) # RulesHead
      /\ \A i \in Int : i \notin DOMAIN table => At(i) = RulesHead
      /\ At(0) = RulesHead /\ At(Len(table)+1) = RulesHead
  BY <1>1 DEF At
<1>3. \A i \in Int : At(i) \in Slot
  BY <1>2 DEF Slot
<1>4. \A i, j \in DOMAIN table : table[i] = table[j] => i = j
  <2> SUFFICES ASSUME NEW i \in DOMAIN table, NEW j \in DOMAIN table, table[i] = table[j]
               PROVE  i = j
    OBVIOUS
  <2>1. table[i] \in Nat /\ ~(table[i] < table[j]) /\ ~(table[j] < table[i])
    BY <1>1
  <2>2. ~(i < j) /\ ~(j < i)
    BY <2>1 DEF Ordered
  <2> QED  BY <1>1, <2>2
<1>5. \A i \in 0..Len(table), j \in 0..Len(table) : At(i) = At(j) => i = j
  <2> SUFFICES ASSUME NEW i \in 0..Len(table), NEW j \in 0..Len(table), At(i) = At(j)
               PROVE  i = j
    OBVIOUS
  <2>1. i = 0 \/ i \in DOMAIN table
    BY <1>1
  <2>2. j = 0 \/ j \in DOMAIN table
    BY <1>1
  <2> QED  BY <1>2, <1>4, <2>1, <2>2
<1>6. \A i \in 1..Len(table)+1, j \in 1..Len(table)+1 : At(i) = At(j) => i = j
  <2> SUFFICES ASSUME NEW i \in 1..Len(table)+1, NEW j \in 1..Len(table)+1, At(i) = At(j)
               PROVE  i = j
    OBVIOUS
  <2>1. i = Len(table)+1 \/ i \in DOMAIN table
    BY <1>1
  <2>2. j = Len(table)+1 \/ j \in DOMAIN table
    BY <1>1
  <2> QED  BY <1>2, <1>4, <2>1, <2>2
<1> QED  BY <1>2, <1>3, <1>4, <1>5, <1>6

\* remove_rule's walk meets the nodes from its place on, and no others.
LEMMA FromPlace ==
    ASSUME TypeOK, Ordered, Chained, NEW k \in 1..Len(table)+1
    PROVE  From(At(k)) = {table[i] : i \in k..Len(table)}
<1> DEFINE n == At(k)
           Behind(m) == {next[m]} \cap Nodes
           Closed == {S \in SUBSET Nodes : {n} \cap Nodes \subseteq S /\ \A m \in S : Behind(m) \subseteq S}
           Rest == {table[i] : i \in k..Len(table)}
<1>1. From(n) = {m \in Nodes : \A S \in Closed : m \in S}
  BY DEF From
<1>2. /\ Len(table) \in Nat /\ DOMAIN table = 1..Len(table)
      /\ \A i \in DOMAIN table : table[i] \in Nodes
  BY TableFacts
<1>3. \A i \in DOMAIN table : next[table[i]] = At(i+1)
  BY <1>2, Places DEF Chained
<1>4. Rest \in SUBSET Nodes
  BY <1>2
<1>5. Rest \in Closed
  <2>1. {n} \cap Nodes \subseteq Rest
    <3>1. k = Len(table) + 1 => n \notin Nodes
      BY <1>2, Places DEF Nodes, RulesHead
    <3>2. k # Len(table) + 1 => n = table[k] /\ k \in k..Len(table)
      BY <1>2, Places
    <3> QED  BY <3>1, <3>2
  <2>2. ASSUME NEW m \in Rest PROVE Behind(m) \subseteq Rest
    <3>1. PICK i \in k..Len(table) : m = table[i]
      OBVIOUS
    <3>2. next[m] = At(i+1)
      BY <1>2, <1>3, <3>1
    <3>3. CASE i = Len(table)
      BY <1>2, <3>2, <3>3, Places DEF Nodes, RulesHead
    <3>4. CASE i < Len(table)
      <4>1. i \in Nat /\ k <= i /\ k \in Nat
        BY <1>2
      <4>2. i + 1 \in k..Len(table) /\ i + 1 \in 1..Len(table)
        BY <1>2, <3>4, <4>1
      <4> QED  BY <1>2, <3>2, <4>2, Places
    <3>5. i = Len(table) \/ i < Len(table)
      <4>1. Len(table) \in Nat /\ k \in Nat
        BY <1>2
      <4>2. i \in Nat /\ i <= Len(table)
        BY <4>1
      <4> QED  BY <4>1, <4>2
    <3> QED  BY <3>3, <3>4, <3>5
  <2> QED  BY <1>4, <2>1, <2>2
<1>6. ASSUME NEW S \in Closed, NEW j \in k..Len(table), table[j] \notin S
      PROVE  FALSE
  <2> DEFINE T == {i \in k..Len(table) : table[i] \notin S}
  <2>1. PICK x \in T : \A y \in T : x <= y
    <3>1. T \in SUBSET Nat /\ T # {}
      BY <1>2, <1>6
    <3> QED  BY <3>1, LeastMember
  <2>2. x # k
    <3>1. table[k] = n /\ table[k] \in Nodes
      BY <1>2, <2>1, Places
    <3> QED  BY <2>1, <3>1
  <2>3. x - 1 \in k..Len(table) /\ x - 1 \notin T
    BY <1>2, <2>1, <2>2
  <2>4. table[x-1] \in S /\ next[table[x-1]] = At((x-1)+1)
    BY <1>2, <1>3, <2>3
  <2>5. At((x-1)+1) = table[x] /\ table[x] \in Nodes
    BY <1>2, <2>1, Places
  <2>6. Behind(table[x-1]) \subseteq S
    BY <2>4
  <2> QED  BY <2>1, <2>4, <2>5, <2>6
<1>7. \A m \in Rest : \A S \in Closed : m \in S
  BY <1>6
<1> HIDE DEF Closed, Rest
<1>8. From(n) = Rest
  BY <1>1, <1>4, <1>5, <1>7
<1> QED  BY <1>8 DEF Rest

\* Where the load from a cursor leads: to the next node of the list, to the
\* head, or nowhere; and no node of the list is jumped over.
LEMMA Forward ==
    ASSUME TypeOK, Linked, NEW n \in Reached, n # POISON1
    PROVE  /\ n \in Slot
           /\ next[n] = RulesHead \/ next[n] = POISON1 \/ Listed(next[n])
           /\ n = RulesHead \/ Listed(n) => next[n] # POISON1
           /\ n \in Nodes /\ next[n] \in Nodes =>
                \A i \in DOMAIN table : n < table[i] => next[n] <= table[i]
           /\ n \in Nodes /\ next[n] = RulesHead => \A i \in DOMAIN table : table[i] <= n
           /\ n = RulesHead /\ next[n] \in Nodes => \A i \in DOMAIN table : next[n] <= table[i]
           /\ n = RulesHead /\ next[n] = RulesHead => DOMAIN table = {}
<1>1. /\ Len(table) \in Nat /\ DOMAIN table = 1..Len(table)
      /\ \A i \in DOMAIN table : table[i] \in Nodes
      /\ used \in Nat /\ NodeCount \in Nat /\ used <= NodeCount
  BY TableFacts
<1>2. /\ \A i \in DOMAIN table : At(i) = table[i]
      /\ At(0) = RulesHead /\ At(Len(table)+1) = RulesHead
      /\ \A i \in Int : At(i) \in Slot
  BY Places DEF Linked
<1>3. RulesHead \notin Nodes /\ POISON1 \notin Nodes /\ POISON1 # RulesHead
  BY DEF Nodes, RulesHead, POISON1
<1>4. \A i, j \in DOMAIN table : i < j => table[i] < table[j]
  BY DEF Linked, Ordered
<1>5. n = RulesHead \/ (n \in Nodes /\ n <= used /\ ~(Publishing /\ n = cmd.node))
  BY <1>1 DEF Reached, Nodes
<1>6. CASE n = RulesHead
  <2>1. next[n] = At(1)
    BY <1>1, <1>2, <1>6 DEF Linked, Chained
  <2>2. CASE Len(table) = 0
    BY <1>1, <1>2, <1>3, <1>6, <2>1, <2>2 DEF Slot
  <2>3. CASE 1 \in DOMAIN table
    <3>1. next[n] = table[1] /\ table[1] \in Nodes
      BY <1>1, <1>2, <2>1, <2>3
    <3>2. \A i \in DOMAIN table : table[1] <= table[i]
      BY <1>1, <1>4, <2>3 DEF Nodes
    <3> QED  BY <1>3, <1>6, <2>3, <3>1, <3>2 DEF Slot, Listed
  <2> QED  BY <1>1, <2>2, <2>3
<1>7. ASSUME NEW k \in DOMAIN table, n = table[k]
      PROVE  /\ next[n] # POISON1
             /\ next[n] = RulesHead \/ Listed(next[n])
             /\ next[n] \in Nodes => \A i \in DOMAIN table : n < table[i] => next[n] <= table[i]
             /\ next[n] = RulesHead => \A i \in DOMAIN table : table[i] <= n
  <2>1. next[n] = At(k+1)
    BY <1>1, <1>2, <1>7 DEF Linked, Chained
  <2>2. CASE k = Len(table)
    BY <1>1, <1>2, <1>3, <1>4, <1>7, <2>1, <2>2 DEF Nodes
  <2>3. CASE k + 1 \in DOMAIN table
    <3>1. next[n] = table[k+1] /\ table[k+1] \in Nodes
      BY <1>1, <1>2, <2>1, <2>3
    <3>2. ASSUME NEW i \in DOMAIN table, n < table[i] PROVE table[k+1] <= table[i]
      <4>1. ~(i <= k)
        BY <1>1, <1>4, <1>7, <3>2 DEF Nodes
      <4>2. i = k + 1 \/ k + 1 < i
        BY <1>1, <4>1
      <4> QED  BY <1>1, <1>4, <2>3, <4>2 DEF Nodes
    <3> QED  BY <1>3, <2>3, <3>1, <3>2 DEF Listed
  <2> QED  BY <1>1, <2>2, <2>3
<1>8. ASSUME Poisoning, n = cmd.node
      PROVE  /\ ~Listed(n)
             /\ next[n] = RulesHead \/ Listed(next[n])
             /\ next[n] \in Nodes => \A i \in DOMAIN table : n < table[i] => next[n] <= table[i]
             /\ next[n] = RulesHead => \A i \in DOMAIN table : table[i] <= n
  <2>1. PICK k \in 1..Len(table)+1 : RemovedFrom(k)
    BY <1>8 DEF Linked, Removed
  <2>2. /\ n \in Nat /\ next[n] = At(k)
        /\ \A i \in DOMAIN table : IF i < k THEN table[i] < n ELSE n < table[i]
    BY <1>8, <2>1 DEF RemovedFrom, Nodes
  <2>3. ~Listed(n)
    BY <1>1, <2>2 DEF Listed, Nodes
  <2>4. CASE k = Len(table) + 1
    BY <1>1, <1>2, <1>3, <2>2, <2>3, <2>4 DEF Nodes
  <2>5. CASE k \in DOMAIN table
    <3>1. next[n] = table[k] /\ table[k] \in Nodes
      BY <1>2, <1>1, <2>2, <2>5
    <3>2. ASSUME NEW i \in DOMAIN table, n < table[i] PROVE table[k] <= table[i]
      BY <1>1, <1>4, <2>2, <2>5, <3>2 DEF Nodes
    <3> QED  BY <1>3, <2>3, <2>5, <3>1, <3>2 DEF Listed
  <2> QED  BY <1>1, <2>4, <2>5
<1>9. CASE n \in Nodes
  <2>1. Listed(n) \/ n = cmd.node \/ next[n] = POISON1
    BY <1>1, <1>3, <1>5, <1>9 DEF Linked, Spent, Listed, Nodes
  <2>2. n = cmd.node => Poisoning
    BY <1>3, <1>5, <1>9 DEF Linked, AtRest, Idle, Publishing, Poisoning, TypeOK
  <2> QED  BY <1>3, <1>7, <1>8, <1>9, <2>1, <2>2 DEF Listed, Slot
<1> QED  BY <1>5, <1>6, <1>9

\* A hook may hold any node of the list.
LEMMA ListedReached ==
    ASSUME TypeOK, Linked, NEW n, Listed(n)
    PROVE  n \in Reached /\ n \in Nodes
<1>1. PICK i \in DOMAIN table : table[i] = n
  BY DEF Listed
<1>2. n \in Nodes /\ n <= used
  BY <1>1, TableFacts DEF Linked, Ordered
<1>3. ~(Publishing /\ n = cmd.node)
  BY <1>1, TableFacts DEF Linked, Added, Nodes
<1> QED  BY <1>2, <1>3, TableFacts DEF Reached, Nodes

-----------------------------------------------------------------------------
(***************************************************************************)
(* The steps of a hook.                                                    *)
(***************************************************************************)
\* The fields of a hook's state.
LEMMA HookType ==
    ASSUME TypeOK, NEW c \in Cpus
    PROVE  /\ DOMAIN hook = Cpus
           /\ hook[c] \in [pc : {"idle", "load", "visit", "return"},
                           pos : Slot \cup {POISON1}, tmp : Slot \cup {POISON1},
                           ret : {NF_ACCEPT, NF_DROP}, skb : Packets \cup {{}}]
           /\ could[c] \in SUBSET {NF_ACCEPT, NF_DROP} /\ struck[c] \in BOOLEAN
           /\ DOMAIN could = Cpus /\ DOMAIN struck = Cpus
BY DEF TypeOK

\* What a hook leaves alone: the list, and what is said of the other hooks.
LEMMA ListStays ==
    ASSUME Linked, UNCHANGED list
    PROVE  Linked'
BY DEF list, Linked, Ordered, Chained, Mirrored, Spent, AtRest, Added, Removed,
       RemovedFrom, At, Publishing, Poisoning

\* A hook that does not move, on a list that does not change, keeps its part.
LEMMA HookStays ==
    ASSUME UNCHANGED list, NEW d \in Cpus, HookOK(d), hook'[d] = hook[d],
           could'[d] = could[d], struck'[d] = struck[d]
    PROVE  HookOK(d)'
<1>1. Cursors(d)'
  BY DEF HookOK, list, Cursors, Reached, Publishing
<1>2. OnTheList(d)'
  BY DEF HookOK, list, OnTheList, Listed, HeadingFor
<1>3. Covered(d)'
  BY DEF HookOK, list, Covered, Disobeyed, Walking, VerdictOf
<1>4. NothingMissed(d)'
  BY DEF HookOK, list, NothingMissed, NonePassed, Disobeyed
<1> QED  BY <1>1, <1>2, <1>3, <1>4 DEF HookOK

\* So it is enough to look at the type and at the hook that moves.
LEMMA OneHookMoves ==
    ASSUME IInv, UNCHANGED list, NEW c \in Cpus, TypeOK', HookOK(c)',
           \A d \in Cpus \ {c} :
              hook'[d] = hook[d] /\ could'[d] = could[d] /\ struck'[d] = struck[d]
    PROVE  IInv'
<1>1. Linked'
  BY ListStays DEF IInv
<1>2. ASSUME NEW d \in Cpus PROVE HookOK(d)'
  <2>1. CASE d = c
    BY <2>1
  <2>2. CASE d # c
    BY <2>2, HookStays DEF IInv
  <2> QED  BY <2>1, <2>2
<1> QED  BY <1>1, <1>2 DEF IInv

\* A table whose nodes the packet obeys accepts it, any other drops it.
LEMMA Verdict ==
    ASSUME TypeOK, NEW c \in Cpus
    PROVE  /\ \A i \in DOMAIN table : Disobeyed(c, table[i]) => VerdictOf(table, hook[c].skb) = NF_DROP
           /\ (\A i \in DOMAIN table : ~Disobeyed(c, table[i])) => VerdictOf(table, hook[c].skb) = NF_ACCEPT
           /\ VerdictOf(table, hook[c].skb) \in {NF_ACCEPT, NF_DROP}
<1>1. \A i \in DOMAIN table : table[i] \in Nodes
  BY TableFacts
<1> QED  BY <1>1 DEF VerdictOf, Disobeyed

\* A load of a next pointer keeps the invariant: the cursor is still on its way.
LEMMA LoadStep ==
    ASSUME IInv, NEW c \in Cpus, Load(c)
    PROVE  IInv'
<1> DEFINE p == hook[c].pos
           t == next[hook[c].pos]
<1>0. TypeOK /\ Linked /\ HookOK(c)
  BY DEF IInv
<1>1. /\ hook[c].pc = "load" /\ p \in Reached /\ p # POISON1 /\ p \in Slot
      /\ p = RulesHead \/ p \in Nodes
  <2>1. hook[c].pc = "load" /\ p \in DOMAIN next /\ p \in Reached
    BY <1>0 DEF Load, HookOK, Cursors
  <2>2. p \in Slot
    BY <1>0, <2>1 DEF TypeOK
  <2> QED  BY <2>1, <2>2 DEF Slot, POISON1, Nodes, RulesHead
<1>2. /\ t = RulesHead \/ t = POISON1 \/ Listed(t)
      /\ p = RulesHead \/ Listed(p) => t # POISON1
      /\ p \in Nodes /\ t \in Nodes => \A i \in DOMAIN table : p < table[i] => t <= table[i]
      /\ p \in Nodes /\ t = RulesHead => \A i \in DOMAIN table : table[i] <= p
  BY <1>0, <1>1, Forward
<1>3. /\ t \in Reached
      /\ t \in Slot \cup {POISON1}
      /\ t \in Nodes => Listed(t)
      /\ RulesHead \notin Nodes /\ POISON1 \notin Nodes
  BY <1>0, <1>2, ListedReached DEF Reached, Slot, Nodes, RulesHead, POISON1
<1>4. /\ hook' = [hook EXCEPT ![c] = hook'[c]]
      /\ hook'[c] = [hook[c] EXCEPT !.tmp = t, !.pc = IF p = RulesHead THEN "return" ELSE "visit"]
      /\ UNCHANGED <<list, panic, could, struck>>
  BY <1>0, HookType DEF Load
<1>5. /\ hook'[c].pc = IF p = RulesHead THEN "return" ELSE "visit"
      /\ hook'[c].pos = p /\ hook'[c].tmp = t
      /\ hook'[c].ret = hook[c].ret /\ hook'[c].skb = hook[c].skb
      /\ hook'[c] \in [pc : {"idle", "load", "visit", "return"},
                       pos : Slot \cup {POISON1}, tmp : Slot \cup {POISON1},
                       ret : {NF_ACCEPT, NF_DROP}, skb : Packets \cup {{}}]
  BY <1>0, <1>1, <1>3, <1>4, HookType
<1>6. TypeOK'
  <2>1. hook' \in [Cpus -> [pc : {"idle", "load", "visit", "return"},
                            pos : Slot \cup {POISON1}, tmp : Slot \cup {POISON1},
                            ret : {NF_ACCEPT, NF_DROP}, skb : Packets \cup {{}}]]
    BY <1>0, <1>4, <1>5 DEF TypeOK
  <2> QED  BY <1>0, <1>4, <2>1 DEF TypeOK, list
<1>7. Cursors(c)'
  BY <1>1, <1>2, <1>3, <1>4, <1>5 DEF Cursors, Reached, Publishing, list
<1>8. OnTheList(c)'
  <2>1. Listed(p) \/ p = RulesHead \/ struck[c]
    BY <1>0, <1>1 DEF HookOK, OnTheList, HeadingFor
  <2>2. p # RulesHead => HeadingFor(c)' = t
    BY <1>5 DEF HeadingFor
  <2>3. p = RulesHead => HeadingFor(c)' = RulesHead
    BY <1>5 DEF HeadingFor
  <2> QED  BY <1>2, <1>4, <2>1, <2>2, <2>3 DEF OnTheList, Listed, list
<1>9. Covered(c)'
  <2>1. /\ VerdictOf(table, hook[c].skb) \in could[c]
        /\ Disobeyed(c, p) => NF_DROP \in could[c]
        /\ hook[c].ret = NF_DROP => NF_DROP \in could[c]
    BY <1>0, <1>1 DEF HookOK, Covered, Walking
  <2>2. Disobeyed(c, t) => NF_DROP \in could[c]
    BY <1>0, <1>3, <2>1, Verdict DEF Disobeyed, Listed
  <2>3. VerdictOf(table, hook[c].skb)' = VerdictOf(table, hook[c].skb)
    BY <1>4, <1>5 DEF VerdictOf, list
  <2> QED  BY <1>4, <1>5, <2>1, <2>2, <2>3 DEF Covered, Disobeyed, list
<1>10. NothingMissed(c)'
  <2> SUFFICES ASSUME hook[c].ret = NF_ACCEPT PROVE NothingMissed(c)'
    BY <1>5 DEF NothingMissed
  <2>1. CASE p = RulesHead
    BY <1>0, <1>1, <1>4, <1>5, <2>1 DEF HookOK, NothingMissed
  <2>2. CASE p \in Nodes
    <3>1. NonePassed(c, p, FALSE)
      BY <1>0, <1>1, <2>2 DEF HookOK, NothingMissed
    <3>2. \A i \in DOMAIN table : table[i] \in Int /\ p \in Int
      BY <1>0, <2>2, TableFacts DEF Nodes
    <3>3. CASE t \in Nodes
      <4>1. \A i \in DOMAIN table : Disobeyed(c, table[i]) => t <= table[i] \/ table[i] = p
        BY <1>2, <2>2, <3>1, <3>2, <3>3 DEF NonePassed
      <4>2. NonePassed(c, hook[c].tmp, TRUE)'
        BY <1>4, <1>5, <4>1 DEF NonePassed, Disobeyed, list
      <4>3. hook'[c].pc = "visit" /\ hook'[c].tmp # RulesHead
        BY <1>3, <1>5, <2>2, <3>3
      <4> QED  BY <4>2, <4>3 DEF NothingMissed
    <3>4. CASE t = RulesHead
      <4>1. \A i \in DOMAIN table : Disobeyed(c, table[i]) => table[i] = p
        BY <1>2, <2>2, <3>1, <3>2, <3>4 DEF NonePassed
      <4>2. ~Disobeyed(c, p) => VerdictOf(table, hook[c].skb) = NF_ACCEPT
        BY <1>0, <4>1, Verdict
      <4>3. Disobeyed(c, p) \/ NF_ACCEPT \in could[c]
        BY <1>0, <1>1, <4>2 DEF HookOK, Covered, Walking
      <4> QED  BY <1>3, <1>4, <1>5, <2>2, <3>4, <4>3 DEF NothingMissed, Disobeyed, list
    <3>5. CASE t = POISON1
      <4>1. hook'[c].pc = "visit" /\ hook'[c].tmp \notin Nodes /\ hook'[c].tmp # RulesHead
        BY <1>3, <1>5, <2>2, <3>5 DEF POISON1, RulesHead
      <4> QED  BY <4>1 DEF NothingMissed
    <3> QED  BY <1>2, <1>3, <3>3, <3>4, <3>5, ListedReached, <1>0
  <2> QED  BY <1>1, <2>1, <2>2
<1>11. HookOK(c)'
  BY <1>7, <1>8, <1>9, <1>10 DEF HookOK
<1>12. \A d \in Cpus \ {c} :
          hook'[d] = hook[d] /\ could'[d] = could[d] /\ struck'[d] = struck[d]
  BY <1>0, <1>4, HookType
<1> QED  BY <1>4, <1>6, <1>11, <1>12, OneHookMoves

\* So does the loop's body, which decides on the rule the cursor has come to.
LEMMA VisitStep ==
    ASSUME IInv, NEW c \in Cpus, Visit(c)
    PROVE  IInv'
<1> DEFINE p == hook[c].pos
           t == hook[c].tmp
<1>0. TypeOK /\ Linked /\ HookOK(c)
  BY DEF IInv
<1>1. /\ hook[c].pc = "visit" /\ p \in Nodes /\ t \in Reached
      /\ UNCHANGED <<list, panic, could, struck>>
  BY <1>0 DEF Visit, HookOK, Cursors
<1>2. /\ hook' = [hook EXCEPT ![c] = hook'[c]]
      /\ hook'[c] = [hook[c] EXCEPT !.pc = "load", !.pos = t,
                        !.ret = IF rule[p] \in hook[c].skb THEN NF_DROP ELSE hook[c].ret]
  BY <1>0, HookType DEF Visit
<1>3. /\ hook'[c].pc = "load" /\ hook'[c].pos = t /\ hook'[c].tmp = t
      /\ hook'[c].ret = IF Disobeyed(c, p) THEN NF_DROP ELSE hook[c].ret
      /\ hook'[c].skb = hook[c].skb
      /\ hook'[c] \in [pc : {"idle", "load", "visit", "return"},
                       pos : Slot \cup {POISON1}, tmp : Slot \cup {POISON1},
                       ret : {NF_ACCEPT, NF_DROP}, skb : Packets \cup {{}}]
  BY <1>0, <1>1, <1>2, HookType DEF Disobeyed
<1>4. TypeOK'
  <2>1. hook' \in [Cpus -> [pc : {"idle", "load", "visit", "return"},
                            pos : Slot \cup {POISON1}, tmp : Slot \cup {POISON1},
                            ret : {NF_ACCEPT, NF_DROP}, skb : Packets \cup {{}}]]
    BY <1>0, <1>2, <1>3 DEF TypeOK
  <2> QED  BY <1>0, <1>1, <2>1 DEF TypeOK, list
<1>5. Cursors(c)'
  BY <1>1, <1>3 DEF Cursors, Reached, Publishing, list
<1>6. OnTheList(c)'
  BY <1>0, <1>1, <1>3 DEF HookOK, OnTheList, HeadingFor, Listed, list
<1>7. Covered(c)'
  <2>1. /\ VerdictOf(table, hook[c].skb) \in could[c]
        /\ Disobeyed(c, p) => NF_DROP \in could[c]
        /\ Disobeyed(c, t) => NF_DROP \in could[c]
        /\ hook[c].ret = NF_DROP => NF_DROP \in could[c]
    BY <1>0, <1>1 DEF HookOK, Covered, Walking
  <2>2. VerdictOf(table, hook[c].skb)' = VerdictOf(table, hook[c].skb)
    BY <1>1, <1>3 DEF VerdictOf, list
  <2> QED  BY <1>1, <1>3, <2>1, <2>2 DEF Covered, Disobeyed, list
<1>8. NothingMissed(c)'
  <2> SUFFICES ASSUME hook[c].ret = NF_ACCEPT, ~Disobeyed(c, p) PROVE NothingMissed(c)'
    BY <1>3 DEF NothingMissed, NF_ACCEPT, NF_DROP
  <2>1. ASSUME t \in Nodes PROVE NonePassed(c, hook[c].pos, FALSE)'
    <3>1. NonePassed(c, t, TRUE)
      BY <1>0, <1>1, <2>1 DEF HookOK, NothingMissed
    <3>2. \A i \in DOMAIN table : Disobeyed(c, table[i]) => t <= table[i]
      BY <3>1 DEF NonePassed
    <3> QED  BY <1>1, <1>3, <3>2 DEF NonePassed, Disobeyed, list
  <2>2. t = RulesHead => NF_ACCEPT \in could[c]
    BY <1>0, <1>1 DEF HookOK, NothingMissed
  <2> QED  BY <1>1, <1>3, <2>1, <2>2 DEF NothingMissed
<1>9. HookOK(c)'
  BY <1>5, <1>6, <1>7, <1>8 DEF HookOK
<1>10. \A d \in Cpus \ {c} :
          hook'[d] = hook[d] /\ could'[d] = could[d] /\ struck'[d] = struck[d]
  BY <1>0, <1>1, <1>2, HookType
<1> QED  BY <1>1, <1>4, <1>9, <1>10, OneHookMoves

\* So does the entry of a hook, which has seen nothing of the table yet.
LEMMA EnterStep ==
    ASSUME IInv, NEW c \in Cpus, Enter(c)
    PROVE  IInv'
<1> DEFINE h == next[RulesHead]
<1>0. TypeOK /\ Linked
  BY DEF IInv
<1>1. PICK skb \in Packets :
         /\ hook' = [hook EXCEPT ![c] = [pc |-> "load", pos |-> h, tmp |-> RulesHead,
                                         ret |-> NF_ACCEPT, skb |-> skb]]
         /\ could' = [could EXCEPT ![c] = {VerdictOf(table, skb)}]
  BY DEF Enter
<1>2. struck' = [struck EXCEPT ![c] = FALSE] /\ UNCHANGED <<list, panic>>
  BY DEF Enter
<1>3. /\ h = RulesHead \/ Listed(h)
      /\ h # POISON1
      /\ h \in Nodes => \A i \in DOMAIN table : h <= table[i]
      /\ h = RulesHead => DOMAIN table = {}
  <2>1. RulesHead \in Reached /\ RulesHead # POISON1
    BY DEF Reached, RulesHead, POISON1
  <2> QED  BY <1>0, <2>1, Forward
<1>4. /\ h \in Reached /\ h \in Slot
      /\ h \in Nodes => Listed(h)
      /\ RulesHead \notin Nodes
  BY <1>0, <1>3, ListedReached DEF Reached, Slot, Nodes, RulesHead
<1>5. /\ hook'[c].pc = "load" /\ hook'[c].pos = h /\ hook'[c].tmp = RulesHead
      /\ hook'[c].ret = NF_ACCEPT /\ hook'[c].skb = skb
      /\ could'[c] = {VerdictOf(table, skb)}
      /\ VerdictOf(table, skb) \in {NF_ACCEPT, NF_DROP}
      /\ VerdictOf(table, hook[c].skb)' = VerdictOf(table, skb)
  BY <1>0, <1>1, <1>2, HookType DEF VerdictOf, list
<1>6. TypeOK'
  <2>1. hook' \in [Cpus -> [pc : {"idle", "load", "visit", "return"},
                            pos : Slot \cup {POISON1}, tmp : Slot \cup {POISON1},
                            ret : {NF_ACCEPT, NF_DROP}, skb : Packets \cup {{}}]]
    BY <1>0, <1>1, <1>4 DEF TypeOK, Slot
  <2>2. could' \in [Cpus -> SUBSET {NF_ACCEPT, NF_DROP}] /\ struck' \in [Cpus -> BOOLEAN]
    BY <1>0, <1>1, <1>2, <1>5 DEF TypeOK
  <2> QED  BY <1>0, <1>2, <2>1, <2>2 DEF TypeOK, list
<1>7. Cursors(c)'
  BY <1>2, <1>4, <1>5 DEF Cursors, Reached, Publishing, list
<1>8. OnTheList(c)'
  BY <1>2, <1>3, <1>5 DEF OnTheList, HeadingFor, Listed, list
<1>9. /\ \A i \in DOMAIN table : table[i] \in Nodes
      /\ \A i \in DOMAIN table : rule[table[i]] \in skb => VerdictOf(table, skb) = NF_DROP
      /\ DOMAIN table = {} => VerdictOf(table, skb) = NF_ACCEPT
  BY <1>0, TableFacts DEF VerdictOf
<1>10. Covered(c)'
  <2>1. Disobeyed(c, hook[c].pos)' => VerdictOf(table, skb) = NF_DROP
    BY <1>2, <1>4, <1>5, <1>9 DEF Disobeyed, Listed, list
  <2>2. ~Disobeyed(c, hook[c].tmp)'
    BY <1>4, <1>5 DEF Disobeyed
  <2> QED  BY <1>5, <2>1, <2>2 DEF Covered, NF_ACCEPT, NF_DROP
<1>11. NothingMissed(c)'
  <2>1. h \in Nodes => NonePassed(c, hook[c].pos, FALSE)'
    BY <1>2, <1>3, <1>5 DEF NonePassed, list
  <2>2. h = RulesHead => NF_ACCEPT \in could'[c]
    BY <1>3, <1>5, <1>9
  <2> QED  BY <1>5, <2>1, <2>2 DEF NothingMissed
<1>12. HookOK(c)'
  BY <1>7, <1>8, <1>10, <1>11 DEF HookOK
<1>13. \A d \in Cpus \ {c} :
          hook'[d] = hook[d] /\ could'[d] = could[d] /\ struck'[d] = struck[d]
  BY <1>0, <1>1, <1>2, HookType
<1> QED  BY <1>2, <1>6, <1>12, <1>13, OneHookMoves

\* So does its return, which forgets the walk.
LEMMA ReturnStep ==
    ASSUME IInv, NEW c \in Cpus, Return(c)
    PROVE  IInv'
<1>0. TypeOK
  BY DEF IInv
<1>1. /\ hook' = [hook EXCEPT ![c].pc = "idle", ![c].pos = RulesHead, ![c].tmp = RulesHead]
      /\ could' = [could EXCEPT ![c] = {}] /\ struck' = [struck EXCEPT ![c] = FALSE]
      /\ UNCHANGED <<list, panic>>
  BY DEF Return
<1>2. /\ hook'[c].pc = "idle" /\ hook'[c].pos = RulesHead /\ hook'[c].tmp = RulesHead
      /\ hook'[c] \in [pc : {"idle", "load", "visit", "return"},
                       pos : Slot \cup {POISON1}, tmp : Slot \cup {POISON1},
                       ret : {NF_ACCEPT, NF_DROP}, skb : Packets \cup {{}}]
  BY <1>0, <1>1, HookType DEF Slot
<1>3. TypeOK'
  <2>1. hook' \in [Cpus -> [pc : {"idle", "load", "visit", "return"},
                            pos : Slot \cup {POISON1}, tmp : Slot \cup {POISON1},
                            ret : {NF_ACCEPT, NF_DROP}, skb : Packets \cup {{}}]]
    BY <1>0, <1>1, <1>2 DEF TypeOK
  <2>2. could' \in [Cpus -> SUBSET {NF_ACCEPT, NF_DROP}] /\ struck' \in [Cpus -> BOOLEAN]
    BY <1>0, <1>1 DEF TypeOK
  <2> QED  BY <1>0, <1>1, <2>1, <2>2 DEF TypeOK, list
<1>4. HookOK(c)'
  <2>1. Cursors(c)'
    BY <1>2 DEF Cursors, Reached, RulesHead, POISON1
  <2>2. OnTheList(c)'
    BY <1>2 DEF OnTheList, HeadingFor
  <2>3. Covered(c)' /\ NothingMissed(c)'
    BY <1>2 DEF Covered, Walking, NothingMissed
  <2> QED  BY <2>1, <2>2, <2>3 DEF HookOK
<1>5. \A d \in Cpus \ {c} :
          hook'[d] = hook[d] /\ could'[d] = could[d] /\ struck'[d] = struck[d]
  BY <1>0, <1>1, HookType
<1> QED  BY <1>1, <1>3, <1>4, <1>5, OneHookMoves

\* So does a load from a poison value, after which nothing runs.
LEMMA FaultStep ==
    ASSUME IInv, NEW c \in Cpus, LoadFaults(c)
    PROVE  IInv'
<1>1. UNCHANGED <<list, hook, could, struck>> /\ panic' = TRUE
  BY DEF LoadFaults
<1>2. TypeOK'
  BY <1>1 DEF IInv, TypeOK, list
<1>3. HookOK(c)'
  BY <1>1, HookStays DEF IInv
<1> QED  BY <1>1, <1>2, <1>3, OneHookMoves

-----------------------------------------------------------------------------
(***************************************************************************)
(* The steps of a command.                                                 *)
(***************************************************************************)
\* What a store has to respect for the hooks under way: what they can hold on to
\* stays what it is, the new verdict is witnessed, and a node that comes into
\* the list comes behind everything they can hold on to.
LEMMA HookThroughStore ==
    ASSUME IInv, NEW c \in Cpus, UNCHANGED hook, OnTheList(c)', Reached \subseteq Reached',
           \A n \in Reached \cap Nodes : rule'[n] = rule[n],
           could[c] \subseteq could'[c],
           Walking(c) => VerdictOf(table, hook[c].skb)' \in could'[c],
           \A i \in DOMAIN table' :
              Listed(table'[i]) \/ \A n \in Reached \cap Nodes : n <= table'[i]
    PROVE  HookOK(c)'
<1>0. TypeOK /\ Linked /\ Cursors(c) /\ Covered(c) /\ NothingMissed(c)
  BY DEF IInv, HookOK
<1>1. \A n \in Reached : Disobeyed(c, n)' <=> Disobeyed(c, n)
  BY DEF Disobeyed
<1>2. Cursors(c)'
  BY <1>0 DEF Cursors
<1>3. hook[c].pos \in Reached /\ hook[c].tmp \in Reached
  BY <1>0 DEF Cursors
<1>4. Covered(c)'
  <2> SUFFICES ASSUME Walking(c) PROVE Covered(c)'
    BY DEF Covered, Walking
  <2>1. Disobeyed(c, hook[c].pos)' => NF_DROP \in could'[c]
    <3>1. Disobeyed(c, hook[c].pos)' <=> Disobeyed(c, hook[c].pos)
      BY DEF Disobeyed, IInv, HookOK, Cursors
    <3> QED  BY <1>0, <3>1 DEF Covered
  <2>2. Disobeyed(c, hook[c].tmp)' => NF_DROP \in could'[c]
    <3>1. Disobeyed(c, hook[c].tmp)' <=> Disobeyed(c, hook[c].tmp)
      BY DEF Disobeyed, IInv, HookOK, Cursors
    <3> QED  BY <1>0, <3>1 DEF Covered
  <2> QED  BY <1>0, <2>1, <2>2 DEF Covered
<1>5. ASSUME NEW n \in Reached \cap Nodes, NEW l \in BOOLEAN, NonePassed(c, n, l)
      PROVE  NonePassed(c, n, l)'
  <2> SUFFICES ASSUME NEW i \in DOMAIN table', Disobeyed(c, table[i])'
               PROVE  n <= table'[i] \/ (l /\ table'[i] = hook[c].pos)
    BY DEF NonePassed
  <2>1. CASE Listed(table'[i])
    <3>1. PICK j \in DOMAIN table : table[j] = table'[i]
      BY <2>1 DEF Listed
    <3>2. table'[i] \in Reached \cap Nodes
      BY <1>0, <2>1, ListedReached
    <3>3. Disobeyed(c, table[j])
      BY <3>1, <3>2 DEF Disobeyed
    <3> QED  BY <1>5, <3>1, <3>3 DEF NonePassed
  <2>2. CASE \A m \in Reached \cap Nodes : m <= table'[i]
    BY <2>2
  <2> QED  BY <2>1, <2>2
<1>6. NothingMissed(c)'
  <2> SUFFICES ASSUME hook[c].ret = NF_ACCEPT PROVE NothingMissed(c)'
    BY DEF NothingMissed
  <2>1. hook[c].pc = "load" /\ hook[c].pos \in Nodes => NonePassed(c, hook[c].pos, FALSE)'
    BY <1>0, <1>3, <1>5 DEF NothingMissed
  <2>2. hook[c].pc = "visit" /\ hook[c].tmp \in Nodes => NonePassed(c, hook[c].tmp, TRUE)'
    BY <1>0, <1>3, <1>5 DEF NothingMissed
  <2>3. hook[c].pc = "visit" /\ hook[c].tmp = RulesHead =>
           Disobeyed(c, hook[c].pos)' \/ NF_ACCEPT \in could'[c]
    BY <1>0, <1>3 DEF NothingMissed, Disobeyed
  <2>4. /\ hook[c].pc = "load" /\ hook[c].pos = RulesHead => NF_ACCEPT \in could'[c]
        /\ hook[c].pc = "return" => NF_ACCEPT \in could'[c]
    BY <1>0 DEF NothingMissed
  <2> QED  BY <2>1, <2>2, <2>3, <2>4 DEF NothingMissed
<1> QED  BY <1>2, <1>4, <1>6 DEF HookOK

\* add_rule up to its last store: the new node is behind all the others, and no
\* pointer a hook can load leads to it.
LEMMA AddLinkStep ==
    ASSUME IInv, NEW r \in Rule, AddLink(r)
    PROVE  IInv'
<1> DEFINE new == used + 1
<1>0. /\ TypeOK /\ Linked
      /\ Ordered /\ Chained /\ Spent
  BY DEF IInv, Linked
<1>1. /\ Len(table) \in Nat /\ DOMAIN table = 1..Len(table)
      /\ \A i \in DOMAIN table : table[i] \in Nodes
      /\ used \in Nat /\ NodeCount \in Nat
  BY <1>0, TableFacts
<1>2. /\ \A i \in DOMAIN table : At(i) = table[i]
      /\ \A i \in Int : At(i) \in Slot
      /\ At(0) = RulesHead /\ At(Len(table)+1) = RulesHead
  BY <1>0, Places
<1>3. /\ cmd = Idle /\ new \in Nodes /\ used' = new
      /\ id' = [id EXCEPT ![new] = IF next[RulesHead] = RulesHead THEN 0 ELSE id[prev[RulesHead]] + 1]
      /\ rule' = [rule EXCEPT ![new] = r]
      /\ cmd' = [step |-> "publish", node |-> new, rest |-> prev[RulesHead]]
      /\ next' = [next EXCEPT ![new] = RulesHead]
      /\ prev' = [prev EXCEPT ![RulesHead] = new, ![new] = prev[RulesHead]]
      /\ UNCHANGED <<hook, panic, table, request, could, struck>>
  BY DEF AddLink
<1>4. Mirrored /\ \A i \in DOMAIN table : id[table[i]] = i - 1
  BY <1>0, <1>3 DEF Linked, AtRest, Idle
<1>5. /\ prev[RulesHead] = At(Len(table)) /\ prev[RulesHead] \in Slot
      /\ next[RulesHead] = At(1)
  BY <1>1, <1>2, <1>4, <1>0 DEF Mirrored, Chained
<1>6. /\ new \notin 1..used /\ new # RulesHead
      /\ \A i \in DOMAIN table : table[i] # new /\ table[i] < new
      /\ \A i \in Int : At(i) # new
      /\ RulesHead \notin Nodes
  BY <1>0, <1>1 DEF Ordered, Nodes, RulesHead, At
<1>7. (IF next[RulesHead] = RulesHead THEN 0 ELSE id[prev[RulesHead]] + 1) = Len(table)
  <2>1. CASE Len(table) = 0
    BY <1>1, <1>2, <1>5, <2>1
  <2>2. CASE Len(table) \in DOMAIN table
    <3>1. next[RulesHead] = table[1] /\ table[1] \in Nodes
      BY <1>1, <1>2, <1>5, <2>2
    <3>2. id[prev[RulesHead]] = Len(table) - 1
      BY <1>2, <1>4, <1>5, <2>2
    <3> QED  BY <1>1, <1>6, <3>1, <3>2
  <2> QED  BY <1>1, <2>1, <2>2
<1>8. TypeOK'
  <2>1. next' \in [Slot -> Slot \cup {POISON1}] /\ prev' \in [Slot -> Slot \cup {POISON2}]
    BY <1>0, <1>3, <1>5 DEF TypeOK, Slot
  <2>2. id' \in [Nodes -> Nat] /\ rule' \in [Nodes -> Rule]
    BY <1>0, <1>1, <1>3, <1>7 DEF TypeOK
  <2>3. used' \in 0..NodeCount /\ cmd' \in [step : {"idle", "publish", "poison"}, node : Slot, rest : Slot]
    BY <1>1, <1>3, <1>5 DEF Slot, Nodes
  <2> QED  BY <1>0, <1>3, <2>1, <2>2, <2>3 DEF TypeOK
<1>9. Linked'
  <2>0. \A i : At(i)' = At(i)
    BY <1>3 DEF At
  <2>1. Ordered'
    BY <1>0, <1>1, <1>3, <1>6 DEF Ordered, Nodes
  <2>2. Chained'
    <3>1. \A i \in 0..Len(table) : next'[At(i)] = next[At(i)]
      BY <1>0, <1>1, <1>3, <1>6 DEF TypeOK
    <3> QED  BY <1>0, <1>3, <2>0, <3>1 DEF Chained
  <2>3. Spent'
    <3> SUFFICES ASSUME NEW n \in 1..used + 1
                 PROVE  (\E i \in DOMAIN table : table[i] = n) \/ n = new \/ next'[n] = POISON1
      BY <1>3 DEF Spent
    <3>1. CASE n \in 1..used
      <4>1. n # RulesHead /\ n # new
        BY <1>1, <1>6, <3>1 DEF RulesHead
      <4>2. next'[n] = next[n]
        BY <1>0, <1>1, <1>3, <4>1 DEF TypeOK, Slot, Nodes, RulesHead
      <4> QED  BY <1>0, <1>3, <3>1, <4>1, <4>2 DEF Spent, Idle
    <3>2. CASE n = used + 1
      BY <3>2
    <3> QED  BY <1>1, <3>1, <3>2
  <2>4. AtRest' /\ Removed'
    BY <1>3 DEF AtRest, Removed, Poisoning
  <2>5. Added'
    <3>1. next'[new] = RulesHead /\ prev'[RulesHead] = new /\ prev'[new] = prev[RulesHead]
      BY <1>0, <1>3, <1>6 DEF TypeOK, Slot
    <3>2. id'[new] = Len(table)
      BY <1>0, <1>3, <1>7 DEF TypeOK
    <3>3. \A i \in DOMAIN table : id'[table[i]] = i - 1
      BY <1>0, <1>1, <1>3, <1>4, <1>6 DEF TypeOK
    <3>4. ASSUME NEW i \in 0..Len(table)-1 PROVE prev'[At(i+1)] = At(i)
      <4>1. i + 1 \in DOMAIN table
        BY <1>1
      <4>2. At(i+1) \in Nodes /\ At(i+1) # new
        BY <1>1, <1>2, <1>6, <4>1
      <4>3. prev'[At(i+1)] = prev[At(i+1)]
        BY <1>0, <1>3, <1>6, <4>2 DEF TypeOK, Slot
      <4> QED  BY <1>1, <1>4, <4>3 DEF Mirrored
    <3> QED  BY <1>3, <1>5, <1>6, <2>0, <3>1, <3>2, <3>3, <3>4 DEF Added
  <2> QED  BY <2>1, <2>2, <2>3, <2>4, <2>5 DEF Linked
<1>10. ASSUME NEW c \in Cpus PROVE HookOK(c)'
  <2>1. Reached \subseteq Reached'
    BY <1>1, <1>3, <1>6 DEF Reached, Publishing
  <2>2. \A n \in Reached \cap Nodes : rule'[n] = rule[n]
    BY <1>0, <1>3, <1>6 DEF Reached, TypeOK, Nodes, RulesHead, POISON1
  <2>3. OnTheList(c)'
    BY <1>3 DEF IInv, HookOK, OnTheList, Listed, HeadingFor
  <2>4. Walking(c) => VerdictOf(table, hook[c].skb)' \in could'[c]
    <3>1. \A i \in DOMAIN table : rule'[table[i]] = rule[table[i]]
      BY <1>0, <1>1, <1>3, <1>6 DEF TypeOK
    <3>2. VerdictOf(table, hook[c].skb)' = VerdictOf(table, hook[c].skb)
      BY <1>3, <3>1 DEF VerdictOf
    <3> QED  BY <1>3, <3>2 DEF IInv, HookOK, Covered
  <2>5. \A i \in DOMAIN table' : Listed(table'[i])
    BY <1>3 DEF Listed
  <2> QED  BY <1>3, <2>1, <2>2, <2>3, <2>4, <2>5, HookThroughStore
<1> QED  BY <1>8, <1>9, <1>10 DEF IInv

\* What the hooks under way witness of a new table.
LEMMA WitnessedFacts ==
    ASSUME TypeOK, UNCHANGED <<hook, rule>>, could' = Witnessed(table')
    PROVE  /\ could' \in [Cpus -> SUBSET {NF_ACCEPT, NF_DROP}]
           /\ \A c \in Cpus : could[c] \subseteq could'[c]
           /\ \A c \in Cpus : Walking(c) => VerdictOf(table, hook[c].skb)' \in could'[c]
<1>1. \A c \in Cpus : VerdictOf(table', hook[c].skb) \in {NF_ACCEPT, NF_DROP}
  BY DEF VerdictOf
<1>2. \A c \in Cpus : could'[c] =
        could[c] \cup IF Walking(c) THEN {VerdictOf(table', hook[c].skb)} ELSE {}
  BY DEF Witnessed
<1>3. could' \in [Cpus -> SUBSET {NF_ACCEPT, NF_DROP}]
  <2>1. \A c \in Cpus : could'[c] \in SUBSET {NF_ACCEPT, NF_DROP}
    BY <1>1, <1>2 DEF TypeOK
  <2> QED  BY <2>1 DEF Witnessed
<1>4. \A c \in Cpus : VerdictOf(table, hook[c].skb)' = VerdictOf(table', hook[c].skb)
  BY DEF VerdictOf
<1> QED  BY <1>2, <1>3, <1>4

\* The last store of an addition: the list has one node more, and it is larger
\* than any that a hook holds on to.
LEMMA AddPublishStep ==
    ASSUME IInv, AddPublish
    PROVE  IInv'
<1> DEFINE L == Len(table)
           new == cmd.node
<1>0. /\ TypeOK /\ Linked
      /\ Ordered /\ Chained /\ Spent
  BY DEF IInv, Linked
<1>1. /\ L \in Nat /\ DOMAIN table = 1..L
      /\ \A i \in DOMAIN table : table[i] \in Nodes
      /\ used \in Nat /\ NodeCount \in Nat
  BY <1>0, TableFacts
<1>11. L \in Nat
  BY <1>1
<1>2. /\ \A i \in DOMAIN table : At(i) = table[i]
      /\ \A i \in Int : At(i) \in Slot
      /\ At(0) = RulesHead /\ At(L+1) = RulesHead
      /\ \A i \in 0..L, j \in 0..L : At(i) = At(j) => i = j
  BY <1>0, Places
<1>3. /\ next' = [next EXCEPT ![cmd.rest] = new]
      /\ cmd' = Idle /\ table' = Append(table, new)
      /\ request' = <<"ADD_RULE", rule[new]>>
      /\ could' = Witnessed(table')
      /\ UNCHANGED <<prev, id, rule, used, hook, panic, struck>>
  BY DEF AddPublish
<1>4. /\ Publishing
      /\ new = used /\ used \in Nodes
      /\ \A i \in DOMAIN table : table[i] < new
      /\ cmd.rest = At(L)
      /\ next[new] = RulesHead
      /\ prev[RulesHead] = new /\ prev[new] = cmd.rest
      /\ \A i \in 0..L-1 : prev[At(i+1)] = At(i)
      /\ id[new] = L
      /\ \A i \in DOMAIN table : id[table[i]] = i - 1
  BY <1>0 DEF Linked, Added, AddPublish, Publishing
<1>5. /\ table' \in Seq(Nodes) /\ Len(table') = L + 1 /\ DOMAIN table' = 1..L+1
      /\ \A i \in 1..L : table'[i] = table[i]
      /\ table'[L+1] = new
  <2>1. table \in Seq(Nodes) /\ new \in Nodes
    BY <1>0, <1>4 DEF TypeOK
  <2>2. /\ Append(table, new) \in Seq(Nodes) /\ Len(Append(table, new)) = L + 1
        /\ \A i \in 1..L+1 : Append(table, new)[i] = IF i <= L THEN table[i] ELSE new
    BY <1>1, <2>1, AppendProperties
  <2> QED  BY <1>1, <1>3, <2>2, LenProperties
<1>6. /\ \A i \in 0..L : At(i)' = At(i)
      /\ \A i \in Int : i = L + 1 => At(i)' = new
      /\ \A i \in Int : i = L + 2 => At(i)' = RulesHead
  BY <1>1, <1>5 DEF At
<1>7. /\ \A i \in 0..L : At(i) # new
      /\ RulesHead \notin Nodes
  BY <1>1, <1>2, <1>4 DEF Nodes, RulesHead, At
<1>8. TypeOK'
  <2>1. next' \in [Slot -> Slot \cup {POISON1}]
    BY <1>0, <1>3, <1>4 DEF TypeOK, Slot
  <2>2. cmd' \in [step : {"idle", "publish", "poison"}, node : Slot, rest : Slot]
    BY <1>3 DEF Idle, Slot
  <2>3. request' \in {"ADD_RULE"} \X Rule
    BY <1>0, <1>3, <1>4 DEF TypeOK
  <2>4. could' \in [Cpus -> SUBSET {NF_ACCEPT, NF_DROP}]
    BY <1>0, <1>3, WitnessedFacts
  <2> QED  BY <1>0, <1>3, <1>5, <2>1, <2>2, <2>3, <2>4 DEF TypeOK
<1>9. Linked'
  <2>1. Ordered'
    <3>1. \A i \in DOMAIN table' : table'[i] <= used
      BY <1>0, <1>1, <1>4, <1>5 DEF Ordered, Nodes
    <3>2. ASSUME NEW i \in DOMAIN table', NEW j \in DOMAIN table', i < j
          PROVE  table'[i] < table'[j]
      <4>1. i \in 1..L /\ (j \in 1..L \/ j = L + 1)
        BY <1>1, <1>5, <3>2
      <4> QED  BY <1>0, <1>1, <1>4, <1>5, <3>2, <4>1 DEF Ordered
    <3> QED  BY <1>3, <3>1, <3>2 DEF Ordered
  <2>2. Chained'
    <3> SUFFICES ASSUME NEW i \in 0..L+1 PROVE next'[At(i)'] = At(i+1)'
      BY <1>5 DEF Chained
    <3>1. CASE i \in 0..L-1
      <4>1. i \in 0..L /\ i + 1 \in 0..L /\ L \in 0..L /\ i # L
        BY <1>11, <3>1
      <4>2. At(i) # cmd.rest /\ At(i) \in Slot
        BY <1>2, <1>4, <4>1
      <4>3. next'[At(i)] = next[At(i)]
        BY <1>0, <1>3, <4>2 DEF TypeOK
      <4> QED  BY <1>0, <1>6, <4>1, <4>3 DEF Chained
    <3>2. CASE i = L
      <4>1. At(L) \in Slot /\ L \in 0..L /\ i + 1 \in Int /\ i + 1 = L + 1
        BY <1>2, <1>11, <3>2
      <4>2. next'[At(L)] = new
        BY <1>0, <1>3, <1>4, <4>1 DEF TypeOK
      <4> QED  BY <1>6, <3>2, <4>1, <4>2
    <3>3. CASE i = L + 1
      <4>1. new # cmd.rest /\ new \in Slot
        BY <1>1, <1>4, <1>7 DEF Slot
      <4>2. next'[new] = RulesHead
        BY <1>0, <1>3, <1>4, <4>1 DEF TypeOK
      <4>3. i \in Int /\ i + 1 \in Int /\ i + 1 = L + 2
        BY <1>11, <3>3
      <4> QED  BY <1>6, <3>3, <4>2, <4>3
    <3>4. i \in 0..L-1 \/ i = L \/ i = L + 1
      BY <1>11
    <3> QED  BY <3>1, <3>2, <3>3, <3>4
  <2>3. Spent'
    <3> SUFFICES ASSUME NEW n \in 1..used, ~\E i \in DOMAIN table' : table'[i] = n
                 PROVE  next'[n] = POISON1
      BY <1>3 DEF Spent
    <3>1. n # new /\ ~\E i \in DOMAIN table : table[i] = n
      BY <1>1, <1>5
    <3>2. next[n] = POISON1
      BY <1>0, <3>1 DEF Spent
    <3>3. n \in Nodes /\ n # cmd.rest
      BY <1>1, <1>4, <3>1 DEF At, Nodes, RulesHead
    <3> QED  BY <1>0, <1>3, <3>2, <3>3 DEF TypeOK, Slot
  <2>4. AtRest'
    <3>1. ASSUME NEW i \in 0..L+1 PROVE prev[At(i+1)'] = At(i)'
      <4>1. CASE i \in 0..L-1
        <5>1. i \in 0..L /\ i + 1 \in 0..L
          BY <1>11, <4>1
        <5> QED  BY <1>4, <1>6, <4>1, <5>1
      <4>2. CASE i = L
        <5>1. i \in 0..L /\ i + 1 \in Int /\ i + 1 = L + 1
          BY <1>11, <4>2
        <5> QED  BY <1>4, <1>6, <4>2, <5>1
      <4>3. CASE i = L + 1
        <5>1. i \in Int /\ i + 1 \in Int /\ i + 1 = L + 2
          BY <1>11, <4>3
        <5> QED  BY <1>4, <1>6, <4>3, <5>1
      <4>4. i \in 0..L-1 \/ i = L \/ i = L + 1
        BY <1>11
      <4> QED  BY <4>1, <4>2, <4>3, <4>4
    <3>2. \A i \in DOMAIN table' : id[table'[i]] = i - 1
      BY <1>1, <1>4, <1>5
    <3>3. Mirrored'
      BY <1>3, <1>5, <3>1 DEF Mirrored
    <3> QED  BY <1>3, <3>2, <3>3 DEF AtRest
  <2>5. Added' /\ Removed'
    BY <1>3 DEF Added, Removed, Publishing, Poisoning, Idle
  <2> QED  BY <2>1, <2>2, <2>3, <2>4, <2>5 DEF Linked
<1>10. ASSUME NEW c \in Cpus PROVE HookOK(c)'
  <2>1. Reached \subseteq Reached'
    BY <1>3 DEF Reached, Publishing, Idle
  <2>2. OnTheList(c)'
    <3>1. \A n : Listed(n) => Listed(n)'
      BY <1>1, <1>5 DEF Listed
    <3> QED  BY <1>3, <3>1 DEF IInv, HookOK, OnTheList, HeadingFor
  <2>3. \A i \in DOMAIN table' : Listed(table'[i]) \/ \A n \in Reached \cap Nodes : n <= table'[i]
    <3>1. \A n \in Reached \cap Nodes : n <= new
      BY <1>1, <1>4 DEF Reached, Nodes, RulesHead, POISON1
    <3>2. \A i \in DOMAIN table' : Listed(table'[i]) \/ table'[i] = new
      BY <1>1, <1>5 DEF Listed
    <3> QED  BY <3>1, <3>2
  <2> QED  BY <1>0, <1>3, <2>1, <2>2, <2>3, WitnessedFacts, HookThroughStore
<1> QED  BY <1>8, <1>9, <1>10 DEF IInv

\* The node that a removal finds stands at the place its id says, and its
\* pointers lead to its neighbours in the table.
LEMMA UnlinkFacts ==
    ASSUME IInv, NEW asked \in AskedIds, RemoveUnlink(asked)
    PROVE  \E k \in DOMAIN table :
             /\ k = asked + 1
             /\ next' = [next EXCEPT ![At(k-1)] = At(k+1)]
             /\ prev' = [prev EXCEPT ![At(k+1)] = At(k-1)]
             /\ cmd' = [step |-> "poison", node |-> table[k], rest |-> At(k+1)]
             /\ next[table[k]] = At(k+1)
             /\ table' = RemoveAt(table, k)
             /\ struck' = [c \in Cpus |-> struck[c] \/ HeadingFor(c) = table[k]]
<1>0. TypeOK /\ Ordered /\ Chained
  BY DEF IInv, Linked
<1>1. Len(table) \in Nat /\ DOMAIN table = 1..Len(table)
  BY <1>0, TableFacts
<1>2. Mirrored /\ \A i \in DOMAIN table : id[table[i]] = i - 1
  BY DEF RemoveUnlink, IInv, Linked, AtRest, Idle
<1>3. PICK n \in From(next[RulesHead]) :
         /\ id[n] = asked
         /\ next' = [next EXCEPT ![prev[n]] = next[n]]
         /\ prev' = [prev EXCEPT ![next[n]] = prev[n]]
         /\ cmd' = [step |-> "poison", node |-> n, rest |-> next[n]]
         /\ table' = RemoveFirst(table, n)
         /\ struck' = [c \in Cpus |-> struck[c] \/ HeadingFor(c) = n]
  BY DEF RemoveUnlink
<1>4. From(next[RulesHead]) = {table[i] : i \in 1..Len(table)}
  <2>1. 1 \in 1..Len(table)+1 /\ 0 \in 0..Len(table)
    BY <1>1
  <2>2. next[RulesHead] = At(1)
    BY <1>0, <2>1, Places DEF Chained
  <2> QED  BY <1>0, <2>1, <2>2, FromPlace
<1>5. PICK k \in DOMAIN table : n = table[k]
  BY <1>1, <1>3, <1>4
<1>6. k - 1 = asked /\ asked \in Nat
  BY <1>2, <1>3, <1>5, RuleListAssumption
<1>7. next[n] = At(k+1)
  BY <1>0, <1>1, <1>5, Places DEF Chained
<1>8. prev[n] = At(k-1)
  <2>1. k - 1 \in 0..Len(table) /\ (k-1)+1 = k
    BY <1>1
  <2> QED  BY <1>0, <1>2, <1>5, <2>1, Places DEF Mirrored
<1>9. RemoveFirst(table, n) = RemoveAt(table, k)
  <2>1. table \in Seq(Nodes) /\ k \in 1..Len(table)
    BY <1>0, <1>1 DEF TypeOK
  <2>2. \A i \in 1..Len(table) : table[i] = table[k] => i = k
    BY <1>0, <1>1, Places
  <2> QED  BY <1>5, <2>1, <2>2, RemoveFirstAt
<1>10. k = asked + 1
  BY <1>1, <1>6
<1> QED  BY <1>3, <1>5, <1>7, <1>8, <1>9, <1>10

\* list_del up to its poison: the chain closes over the node, which itself still
\* leads to the node behind it.
LEMMA RemoveUnlinkStep ==
    ASSUME IInv, NEW asked \in AskedIds, RemoveUnlink(asked)
    PROVE  IInv'
<1> DEFINE L == Len(table)
<1>0. /\ TypeOK /\ Linked
      /\ Ordered /\ Chained /\ Spent
  BY DEF IInv, Linked
<1>1. /\ L \in Nat /\ DOMAIN table = 1..L
      /\ \A i \in DOMAIN table : table[i] \in Nodes
      /\ used \in Nat /\ NodeCount \in Nat
  BY <1>0, TableFacts
<1>2. /\ \A i \in DOMAIN table : At(i) = table[i]
      /\ \A i \in Int : At(i) \in Slot
      /\ At(0) = RulesHead /\ At(L+1) = RulesHead
      /\ \A i \in 0..L, j \in 0..L : At(i) = At(j) => i = j
      /\ \A i \in 1..L+1, j \in 1..L+1 : At(i) = At(j) => i = j
  BY <1>0, Places
<1>3. PICK k \in DOMAIN table :
         /\ k = asked + 1
         /\ next' = [next EXCEPT ![At(k-1)] = At(k+1)]
         /\ prev' = [prev EXCEPT ![At(k+1)] = At(k-1)]
         /\ cmd' = [step |-> "poison", node |-> table[k], rest |-> At(k+1)]
         /\ next[table[k]] = At(k+1)
         /\ table' = RemoveAt(table, k)
         /\ struck' = [c \in Cpus |-> struck[c] \/ HeadingFor(c) = table[k]]
  BY UnlinkFacts
<1>4. /\ cmd = Idle
      /\ request' = <<"REMOVE_RULE", asked>> /\ could' = Witnessed(table')
      /\ UNCHANGED <<id, rule, used, hook, panic>>
  BY DEF RemoveUnlink
<1>5. /\ Mirrored /\ \A i \in DOMAIN table : id[table[i]] = i - 1
      /\ L \in Nat /\ k \in Nat /\ 1 <= k /\ k <= L
  BY <1>0, <1>1, <1>4 DEF Linked, AtRest, Idle
<1>6. /\ table' \in Seq(Nodes) /\ Len(table') = L - 1 /\ DOMAIN table' = 1..L-1
      /\ \A i \in 1..L-1 : table'[i] = IF i < k THEN table[i] ELSE table[i+1]
  <2>1. table \in Seq(Nodes) /\ k \in 1..L
    BY <1>0, <1>1 DEF TypeOK
  <2>2. /\ RemoveAt(table, k) \in Seq(Nodes)
        /\ Len(RemoveAt(table, k)) = L - 1
        /\ \A i \in 1..L-1 : RemoveAt(table, k)[i] = IF i < k THEN table[i] ELSE table[i+1]
    BY <2>1, RemoveAtProperties
  <2> QED  BY <1>3, <2>2, LenProperties
<1>7. /\ \A i \in 0..k-1 : At(i)' = At(i)
      /\ \A i \in k..L : At(i)' = At(i+1)
  <2>1. ASSUME NEW i \in 0..k-1 PROVE At(i)' = At(i)
    <3>1. i \in 1..L-1 \/ i = 0
      BY <1>5
    <3>2. 0 \notin DOMAIN table'
      BY <1>6
    <3> QED  BY <1>1, <1>5, <1>6, <3>1, <3>2 DEF At
  <2>2. ASSUME NEW i \in k..L PROVE At(i)' = At(i+1)
    <3>1. CASE i <= L - 1
      <4>1. i \in 1..L-1 /\ i + 1 \in 1..L /\ ~(i < k)
        BY <1>5, <3>1
      <4> QED  BY <1>1, <1>6, <4>1 DEF At
    <3>2. CASE i = L
      <4>1. i + 1 \notin 1..L /\ i \notin 1..L-1
        BY <1>5, <3>2
      <4> QED  BY <1>1, <1>6, <4>1 DEF At
    <3>3. i <= L - 1 \/ i = L
      BY <1>5
    <3> QED  BY <3>1, <3>2, <3>3
  <2> QED  BY <2>1, <2>2
<1>8. TypeOK'
  <2>1. next' \in [Slot -> Slot \cup {POISON1}] /\ prev' \in [Slot -> Slot \cup {POISON2}]
    BY <1>0, <1>1, <1>2, <1>3, <1>5 DEF TypeOK
  <2>2. cmd' \in [step : {"idle", "publish", "poison"}, node : Slot, rest : Slot]
    BY <1>1, <1>2, <1>3, <1>5 DEF Slot
  <2>3. request' \in {"REMOVE_RULE"} \X AskedIds
    BY <1>4
  <2>4. could' \in [Cpus -> SUBSET {NF_ACCEPT, NF_DROP}]
    BY <1>0, <1>4, WitnessedFacts
  <2>5. struck' \in [Cpus -> BOOLEAN]
    BY <1>0, <1>3 DEF TypeOK
  <2> QED  BY <1>0, <1>4, <1>6, <2>1, <2>2, <2>3, <2>4, <2>5 DEF TypeOK
<1>9. \A i \in 0..L : i # k - 1 => next'[At(i)] = At(i+1)
  <2> SUFFICES ASSUME NEW i \in 0..L, i # k - 1 PROVE next'[At(i)] = At(i+1)
    OBVIOUS
  <2>1. k - 1 \in 0..L /\ At(i) \in Slot
    BY <1>2, <1>5
  <2>2. At(i) # At(k-1)
    BY <1>2, <2>1
  <2> QED  BY <1>0, <1>3, <2>1, <2>2 DEF TypeOK, Chained
<1>10. \A i \in 0..L : i # k => prev'[At(i+1)] = At(i)
  <2> SUFFICES ASSUME NEW i \in 0..L, i # k PROVE prev'[At(i+1)] = At(i)
    OBVIOUS
  <2>1. i + 1 \in 1..L+1 /\ k + 1 \in 1..L+1 /\ i + 1 # k + 1 /\ At(i+1) \in Slot
    BY <1>2, <1>5
  <2>2. At(i+1) # At(k+1)
    BY <1>2, <2>1
  <2> QED  BY <1>0, <1>3, <1>5, <2>1, <2>2 DEF TypeOK, Mirrored
<1>11. next'[At(k-1)] = At(k+1) /\ prev'[At(k+1)] = At(k-1)
  BY <1>0, <1>2, <1>3, <1>5 DEF TypeOK
<1>12. Ordered'
  <2>1. ASSUME NEW i \in DOMAIN table' PROVE table'[i] <= used
    <3> DEFINE a == IF i < k THEN i ELSE i + 1
    <3>1. a \in DOMAIN table /\ table'[i] = table[a]
      BY <1>1, <1>5, <1>6
    <3> QED  BY <1>0, <3>1 DEF Ordered
  <2>2. ASSUME NEW i \in DOMAIN table', NEW j \in DOMAIN table', i < j
        PROVE  table'[i] < table'[j]
    <3> DEFINE a == IF i < k THEN i ELSE i + 1
               b == IF j < k THEN j ELSE j + 1
    <3>1. a \in DOMAIN table /\ b \in DOMAIN table /\ a < b
      BY <1>1, <1>5, <1>6, <2>2
    <3>2. table'[i] = table[a] /\ table'[j] = table[b]
      BY <1>6
    <3> QED  BY <1>0, <3>1, <3>2 DEF Ordered
  <2> QED  BY <1>4, <2>1, <2>2 DEF Ordered
<1>13. Chained'
  <2> SUFFICES ASSUME NEW i \in 0..L-1 PROVE next'[At(i)'] = At(i+1)'
    BY <1>6 DEF Chained
  <2>1. CASE i < k - 1
    <3>1. i \in 0..k-1 /\ i + 1 \in 0..k-1 /\ i \in 0..L /\ i # k - 1
      BY <1>5, <2>1
    <3> QED  BY <1>7, <1>9, <3>1
  <2>2. CASE i = k - 1
    <3>1. i \in 0..k-1 /\ i + 1 \in k..L /\ i + 1 = k
      BY <1>5, <2>2
    <3> QED  BY <1>7, <1>11, <2>2, <3>1
  <2>3. CASE k <= i
    <3>1. i \in k..L /\ i + 1 \in k..L /\ i + 1 \in 0..L /\ i + 1 # k - 1
      BY <1>5, <2>3
    <3> QED  BY <1>7, <1>9, <3>1
  <2>4. i < k - 1 \/ i = k - 1 \/ k <= i
    BY <1>5
  <2> QED  BY <2>1, <2>2, <2>3, <2>4
<1>14. Mirrored'
  <2> SUFFICES ASSUME NEW i \in 0..L-1 PROVE prev'[At(i+1)'] = At(i)'
    BY <1>6 DEF Mirrored
  <2>1. CASE i < k - 1
    <3>1. i \in 0..k-1 /\ i + 1 \in 0..k-1 /\ i \in 0..L /\ i # k
      BY <1>5, <2>1
    <3> QED  BY <1>7, <1>10, <3>1
  <2>2. CASE i = k - 1
    <3>1. i \in 0..k-1 /\ i + 1 \in k..L /\ i + 1 = k
      BY <1>5, <2>2
    <3> QED  BY <1>7, <1>11, <2>2, <3>1
  <2>3. CASE k <= i
    <3>1. i \in k..L /\ i + 1 \in k..L /\ i + 1 \in 0..L /\ i + 1 # k
      BY <1>5, <2>3
    <3> QED  BY <1>7, <1>10, <3>1
  <2>4. i < k - 1 \/ i = k - 1 \/ k <= i
    BY <1>5
  <2> QED  BY <2>1, <2>2, <2>3, <2>4
<1>15. \A n : Listed(n) => Listed(n)' \/ n = table[k]
  <2> SUFFICES ASSUME NEW i \in DOMAIN table, i # k PROVE \E j \in DOMAIN table' : table'[j] = table[i]
    BY DEF Listed
  <2>1. CASE i < k
    <3>1. i \in 1..L-1
      BY <1>1, <1>5, <2>1
    <3> QED  BY <1>6, <2>1, <3>1
  <2>2. CASE k < i
    <3>1. i - 1 \in 1..L-1 /\ ~(i - 1 < k) /\ (i - 1) + 1 = i
      BY <1>1, <1>5, <2>2
    <3> QED  BY <1>6, <3>1
  <2>3. i < k \/ k < i
    BY <1>1, <1>5
  <2> QED  BY <2>1, <2>2, <2>3
<1>16. Linked'
  <2>1. Spent'
    <3> SUFFICES ASSUME NEW n \in 1..used, ~Listed(n)', n # table[k]
                 PROVE  next'[n] = POISON1
      BY <1>3, <1>4 DEF Spent, Listed
    <3>1. ~Listed(n)
      BY <1>15
    <3>2. n # RulesHead /\ n \in Slot
      BY <1>0, TableFacts DEF Slot, Nodes, RulesHead
    <3>3. next[n] = POISON1
      BY <1>0, <1>4, <3>1, <3>2 DEF Spent, Listed, Idle
    <3>4. n # At(k-1)
      BY <3>1, <3>2 DEF At, Listed
    <3> QED  BY <1>0, <1>3, <3>2, <3>3, <3>4 DEF TypeOK
  <2>2. AtRest' /\ Added'
    BY <1>3 DEF AtRest, Added, Publishing
  <2>3. Removed'
    <3>1. k \in 1..Len(table') + 1
      BY <1>5, <1>6
    <3>2. table[k] \in Nodes /\ table[k] <= used
      BY <1>0, <1>1 DEF Ordered
    <3>3. k \in k..L /\ At(k)' = At(k+1)
      BY <1>5, <1>7
    <3>4. next'[table[k]] = At(k+1)
      <4>1. k \in 0..L /\ k # k - 1
        BY <1>5
      <4> QED  BY <1>2, <1>9, <4>1
    <3>5. ASSUME NEW i \in DOMAIN table'
          PROVE  /\ IF i < k THEN table'[i] < table[k] ELSE table[k] < table'[i]
                 /\ id[table'[i]] = IF i < k THEN i - 1 ELSE i
      <4>1. CASE i < k
        <5>1. i \in DOMAIN table /\ table'[i] = table[i]
          BY <1>1, <1>5, <1>6, <4>1
        <5> QED  BY <1>0, <1>5, <4>1, <5>1 DEF Ordered
      <4>2. CASE ~(i < k)
        <5>1. i + 1 \in DOMAIN table /\ table'[i] = table[i+1] /\ k < i + 1 /\ (i + 1) - 1 = i
          BY <1>1, <1>5, <1>6, <4>2
        <5> QED  BY <1>0, <1>5, <4>2, <5>1 DEF Ordered
      <4> QED  BY <4>1, <4>2
    <3>6. id[table[k]] = k - 1
      BY <1>5
    <3>7. RemovedFrom(k)'
      BY <1>3, <1>4, <1>14, <3>2, <3>3, <3>4, <3>5, <3>6 DEF RemovedFrom
    <3> QED  BY <3>1, <3>7 DEF Removed
  <2> QED  BY <1>12, <1>13, <2>1, <2>2, <2>3 DEF Linked
<1>17. ASSUME NEW c \in Cpus PROVE HookOK(c)'
  <2>1. Reached \subseteq Reached'
    BY <1>3, <1>4 DEF Reached, Publishing
  <2>2. OnTheList(c)'
    <3>1. HeadingFor(c)' = HeadingFor(c)
      BY <1>4 DEF HeadingFor
    <3> QED  BY <1>3, <1>15, <3>1 DEF IInv, HookOK, OnTheList
  <2>3. \A i \in DOMAIN table' : Listed(table'[i])
    BY <1>1, <1>5, <1>6 DEF Listed
  <2> QED  BY <1>0, <1>4, <2>1, <2>2, <2>3, WitnessedFacts, HookThroughStore
<1> QED  BY <1>8, <1>16, <1>17 DEF IInv

\* The end of a removal: the node leads nowhere, and the ids behind it come down.
LEMMA RemovePoisonStep ==
    ASSUME IInv, RemovePoison
    PROVE  IInv'
<1> DEFINE L == Len(table)
           old == cmd.node
<1>0. /\ TypeOK /\ Linked
      /\ Ordered /\ Chained /\ Spent
  BY DEF IInv, Linked
<1>1. /\ L \in Nat /\ DOMAIN table = 1..L
      /\ \A i \in DOMAIN table : table[i] \in Nodes
      /\ used \in Nat /\ NodeCount \in Nat /\ used <= NodeCount
  BY <1>0, TableFacts
<1>2. /\ \A i \in DOMAIN table : At(i) = table[i]
      /\ \A i \in Int : At(i) \in Slot
      /\ \A i, j \in DOMAIN table : table[i] = table[j] => i = j
  BY <1>0, Places
<1>3. /\ Poisoning
      /\ next' = [next EXCEPT ![old] = POISON1]
      /\ prev' = [prev EXCEPT ![old] = POISON2]
      /\ id' = [n \in Nodes |-> IF n \in From(cmd.rest) /\ id[n] # id[old] THEN id[n] - 1 ELSE id[n]]
      /\ cmd' = Idle
      /\ UNCHANGED <<rule, used, hook, panic, table, request, could, struck>>
  BY DEF RemovePoison, Poisoning
<1>4. PICK k \in 1..L+1 : RemovedFrom(k)
  BY <1>0, <1>3 DEF Linked, Removed
<1>5. /\ old \in Nodes /\ old <= used /\ k \in Nat
      /\ Mirrored
      /\ id[old] = k - 1
      /\ \A i \in DOMAIN table : IF i < k THEN table[i] < old ELSE old < table[i]
      /\ \A i \in DOMAIN table : id[table[i]] = IF i < k THEN i - 1 ELSE i
      /\ From(cmd.rest) = {table[i] : i \in k..L}
  BY <1>0, <1>1, <1>4, FromPlace DEF RemovedFrom
<1>6. /\ \A i \in DOMAIN table : table[i] # old
      /\ \A i \in Int : At(i) # old
      /\ RulesHead \notin Nodes
  BY <1>1, <1>5 DEF Nodes, RulesHead, At
<1>7. \A i \in DOMAIN table : id'[table[i]] = i - 1
  <2> SUFFICES ASSUME NEW i \in DOMAIN table PROVE id'[table[i]] = i - 1
    OBVIOUS
  <2>1. CASE i < k
    <3>1. table[i] \notin From(cmd.rest)
      BY <1>1, <1>2, <1>5, <2>1
    <3> QED  BY <1>1, <1>3, <1>5, <2>1, <3>1
  <2>2. CASE ~(i < k)
    <3>1. i \in k..L
      BY <1>1, <1>5, <2>2
    <3>2. table[i] \in From(cmd.rest)
      BY <1>5, <3>1
    <3>3. id[table[i]] = i /\ i # k - 1
      BY <1>1, <1>5, <2>2
    <3> QED  BY <1>1, <1>3, <1>5, <3>2, <3>3
  <2> QED  BY <2>1, <2>2
<1>8. TypeOK'
  <2>1. next' \in [Slot -> Slot \cup {POISON1}] /\ prev' \in [Slot -> Slot \cup {POISON2}]
    BY <1>0, <1>3 DEF TypeOK
  <2>2. cmd' \in [step : {"idle", "publish", "poison"}, node : Slot, rest : Slot]
    BY <1>3 DEF Idle, Slot
  <2>3. id' \in [Nodes -> Nat]
    <3>1. ASSUME NEW n \in Nodes PROVE id'[n] \in Nat
      <4>1. CASE Listed(n)
        <5>1. PICK i \in DOMAIN table : table[i] = n
          BY <4>1 DEF Listed
        <5> QED  BY <1>1, <1>7, <5>1
      <4>2. CASE ~Listed(n)
        <5>1. n \notin From(cmd.rest)
          BY <1>1, <1>5, <4>2 DEF Listed
        <5> QED  BY <1>0, <1>3, <5>1 DEF TypeOK
      <4> QED  BY <4>1, <4>2
    <3> QED  BY <1>3, <3>1
  <2> QED  BY <1>0, <1>3, <2>1, <2>2, <2>3 DEF TypeOK
<1>9. Linked'
  <2>0. \A i : At(i)' = At(i)
    BY <1>3 DEF At
  <2>1. Ordered'
    BY <1>0, <1>3 DEF Ordered
  <2>2. \A i \in Int : next'[At(i)] = next[At(i)] /\ prev'[At(i)] = prev[At(i)]
    BY <1>0, <1>2, <1>3, <1>6 DEF TypeOK
  <2>3. Chained'
    BY <1>0, <1>3, <2>0, <2>2 DEF Chained
  <2>4. Spent'
    <3> SUFFICES ASSUME NEW n \in 1..used, ~Listed(n) PROVE next'[n] = POISON1
      BY <1>3 DEF Spent, Listed
    <3>1. n \in Slot
      BY <1>1 DEF Slot, Nodes
    <3>2. n = old \/ next[n] = POISON1
      BY <1>0 DEF Spent, Listed
    <3> QED  BY <1>0, <1>3, <3>1, <3>2 DEF TypeOK
  <2>5. AtRest'
    <3>1. Mirrored'
      <4>1. \A i \in 0..L : i + 1 \in Int
        BY <1>1
      <4> QED  BY <1>3, <1>5, <2>0, <2>2, <4>1 DEF Mirrored
    <3> QED  BY <1>3, <1>7, <3>1 DEF AtRest
  <2>6. Added' /\ Removed'
    BY <1>3 DEF Added, Removed, Publishing, Poisoning, Idle
  <2> QED  BY <2>1, <2>3, <2>4, <2>5, <2>6 DEF Linked
<1>10. ASSUME NEW c \in Cpus PROVE HookOK(c)'
  <2>1. Reached \subseteq Reached'
    BY <1>3 DEF Reached, Publishing, Idle
  <2>2. OnTheList(c)'
    BY <1>3 DEF IInv, HookOK, OnTheList, Listed, HeadingFor
  <2>3. Walking(c) => VerdictOf(table, hook[c].skb)' \in could'[c]
    <3>1. VerdictOf(table, hook[c].skb)' = VerdictOf(table, hook[c].skb)
      BY <1>3 DEF VerdictOf
    <3> QED  BY <1>3, <3>1 DEF IInv, HookOK, Covered
  <2>4. \A i \in DOMAIN table' : Listed(table'[i])
    BY <1>3 DEF Listed
  <2> QED  BY <1>3, <2>1, <2>2, <2>3, <2>4, HookThroughStore
<1> QED  BY <1>8, <1>9, <1>10 DEF IInv

-----------------------------------------------------------------------------
(***************************************************************************)
(* The invariants.                                                         *)
(***************************************************************************)
\* An empty list, and no hook under way.
LEMMA InitIInv == Init => IInv
<1> SUFFICES ASSUME Init PROVE IInv
  OBVIOUS
<1>1. /\ table = <<>> /\ Len(table) = 0 /\ DOMAIN table = {} /\ table \in Seq(Nodes)
      /\ used = 0 /\ cmd = Idle
      /\ next[RulesHead] = RulesHead /\ prev[RulesHead] = RulesHead
  BY DEF Init
<1>2. TypeOK
  <2>1. (CHOOSE r \in Rule : TRUE) \in Rule
    BY RuleListAssumption
  <2>2. rule \in [Nodes -> Rule]
    BY <2>1 DEF Init
  <2>3. 0 \in 0..NodeCount
    BY RuleListAssumption
  <2>4. hook \in [Cpus -> [pc : {"idle", "load", "visit", "return"},
                           pos : Slot \cup {POISON1}, tmp : Slot \cup {POISON1},
                           ret : {NF_ACCEPT, NF_DROP}, skb : Packets \cup {{}}]]
    BY DEF Init, Slot
  <2>5. /\ next \in [Slot -> Slot \cup {POISON1}] /\ prev \in [Slot -> Slot \cup {POISON2}]
        /\ id \in [Nodes -> Nat]
        /\ cmd \in [step : {"idle", "publish", "poison"}, node : Slot, rest : Slot]
    BY DEF Init, Slot, Idle
  <2>6. /\ could \in [Cpus -> SUBSET {NF_ACCEPT, NF_DROP}]
        /\ struck \in [Cpus -> BOOLEAN] /\ panic \in BOOLEAN /\ request = <<"NONE">>
    BY DEF Init
  <2> QED  BY <1>1, <2>2, <2>3, <2>4, <2>5, <2>6 DEF TypeOK
<1>3. \A i : At(i) = RulesHead
  BY <1>1 DEF At
<1>4. Linked
  <2>1. Ordered /\ Chained /\ Mirrored /\ Spent
    BY <1>1, <1>3 DEF Ordered, Chained, Mirrored, Spent
  <2> QED  BY <1>1, <2>1 DEF Linked, AtRest, Added, Removed, Idle, Publishing, Poisoning
<1>5. ASSUME NEW c \in Cpus PROVE HookOK(c)
  <2>1. hook[c].pc = "idle" /\ hook[c].pos = RulesHead /\ hook[c].tmp = RulesHead
    BY DEF Init
  <2>2. Cursors(c)
    BY <2>1 DEF Cursors, Reached, RulesHead, POISON1
  <2> QED  BY <2>1, <2>2 DEF HookOK, OnTheList, HeadingFor, Covered, Walking, NothingMissed
<1> QED  BY <1>2, <1>4, <1>5 DEF IInv

\* Every load and every store keeps the invariant.
LEMMA NextIInv == IInv /\ [Next]_vars => IInv'
<1> SUFFICES ASSUME IInv, [Next]_vars PROVE IInv'
  OBVIOUS
<1>1. ASSUME NEW c \in Cpus, HookStep(c) PROVE IInv'
  BY <1>1, EnterStep, LoadStep, FaultStep, VisitStep, ReturnStep DEF HookStep
<1>2. ASSUME NEW r \in Rule, AddLink(r) PROVE IInv'
  BY <1>2, AddLinkStep
<1>3. CASE AddPublish
  BY <1>3, AddPublishStep
<1>4. ASSUME NEW asked \in AskedIds, RemoveUnlink(asked) PROVE IInv'
  BY <1>4, RemoveUnlinkStep
<1>5. CASE RemovePoison
  BY <1>5, RemovePoisonStep
<1>6. CASE UNCHANGED vars
  <2>1. UNCHANGED list /\ UNCHANGED <<hook, panic, could, struck>>
    BY <1>6 DEF vars, list
  <2>2. TypeOK'
    BY <2>1 DEF IInv, TypeOK, list
  <2>3. Linked'
    BY <2>1, ListStays DEF IInv
  <2>4. \A c \in Cpus : HookOK(c)'
    BY <2>1, HookStays DEF IInv
  <2> QED  BY <2>2, <2>3, <2>4 DEF IInv
<1> QED  BY <1>1, <1>2, <1>3, <1>4, <1>5, <1>6 DEF Next, CommandStep, Dead

\* Whatever hooks and commands do to each other, pointers, cursors and what the
\* hooks can still say agree with the table.
THEOREM SpecIInv == Spec => []IInv
<1> QED  BY InitIInv, NextIInv, PTL DEF Spec

\* What the walks and the stores keep holds pointers, nodes, ids and verdicts.
THEOREM SpecTypeOK == Spec => []TypeOK
<1>1. IInv => TypeOK
  BY DEF IInv
<1> QED  BY <1>1, SpecIInv, PTL

\* The ring of the head, the table and the head again, place by place.
LEMMA RingPlaces ==
    ASSUME TypeOK
    PROVE  /\ Len(Ring) = Len(table) + 2
           /\ \A i \in 1..Len(table) + 2 : Ring[i] = At(i-1)
<1>1. /\ table \in Seq(Nodes) /\ Len(table) \in Nat /\ DOMAIN table = 1..Len(table)
      /\ \A i \in DOMAIN table : table[i] \in Slot
  BY TableFacts DEF TypeOK, Slot
<1>2. table \in Seq(Slot) /\ <<RulesHead>> \in Seq(Slot)
  <2>1. table \in [1..Len(table) -> Slot]
    BY <1>1
  <2> QED  BY <1>1, <2>1, SeqOfFunction DEF Slot
<1>3. /\ <<RulesHead>> \o table \in Seq(Slot)
      /\ Len(<<RulesHead>> \o table) = 1 + Len(table)
      /\ \A i \in 1..1 + Len(table) :
            (<<RulesHead>> \o table)[i] = IF i <= 1 THEN <<RulesHead>>[i] ELSE table[i-1]
  BY <1>2, ConcatProperties
<1>4. /\ Len(Ring) = (1 + Len(table)) + 1
      /\ \A i \in 1..(1 + Len(table)) + 1 :
            Ring[i] = IF i <= 1 + Len(table) THEN (<<RulesHead>> \o table)[i]
                                             ELSE <<RulesHead>>[i - (1 + Len(table))]
  BY <1>2, <1>3, ConcatProperties DEF Ring
<1>5. ASSUME NEW i \in 1..Len(table) + 2 PROVE Ring[i] = At(i-1)
  <2>1. CASE i = 1
    BY <1>1, <1>3, <1>4, <2>1 DEF At
  <2>2. CASE i \in 2..Len(table) + 1
    BY <1>1, <1>3, <1>4, <2>2 DEF At
  <2>3. CASE i = Len(table) + 2
    <3>1. i - (1 + Len(table)) = 1 /\ i - 1 \notin DOMAIN table
      BY <1>1, <2>3
    <3> QED  BY <1>1, <1>4, <2>3, <3>1 DEF At
  <2>4. i = 1 \/ i \in 2..Len(table) + 1 \/ i = Len(table) + 2
    BY <1>1
  <2> QED  BY <2>1, <2>2, <2>3, <2>4
<1> QED  BY <1>1, <1>4, <1>5

\* The chain a hook can load is at every moment the table, each node once, in
\* the order of their additions, whatever store a command has come to.
THEOREM SpecChainIsTable == Spec => []ChainIsTable
<1>1. ASSUME IInv PROVE ChainIsTable
  <2>1. TypeOK /\ Ordered /\ Chained /\ Len(table) \in Nat /\ DOMAIN table = 1..Len(table)
    BY <1>1, TableFacts DEF IInv, Linked
  <2>2. ASSUME NEW i \in 1..Len(Ring) - 1 PROVE next[Ring[i]] = Ring[i+1]
    <3>1. /\ i \in 1..Len(table) + 2 /\ i + 1 \in 1..Len(table) + 2
          /\ i - 1 \in 0..Len(table) /\ (i - 1) + 1 = (i + 1) - 1
      BY <2>1, RingPlaces
    <3>2. Ring[i] = At(i-1) /\ Ring[i+1] = At((i-1)+1)
      BY <2>1, <3>1, RingPlaces
    <3> QED  BY <2>1, <3>1, <3>2 DEF Chained
  <2> QED  BY <2>1, <2>2, Places DEF ChainIsTable
<1> QED  BY <1>1, SpecIInv, PTL

\* Between two commands every node's prev pointer leads to the node before it,
\* and its id is its position.
THEOREM SpecMirroredWhenIdle == Spec => []MirroredWhenIdle
<1>1. ASSUME IInv, cmd = Idle
      PROVE  /\ \A i \in 1..Len(Ring) - 1 : prev[Ring[i+1]] = Ring[i]
             /\ \A i \in DOMAIN table : id[table[i]] = i - 1
  <2>1. /\ TypeOK /\ Mirrored /\ Len(table) \in Nat
        /\ \A i \in DOMAIN table : id[table[i]] = i - 1
    BY <1>1, TableFacts DEF IInv, Linked, AtRest, Idle
  <2>2. ASSUME NEW i \in 1..Len(Ring) - 1 PROVE prev[Ring[i+1]] = Ring[i]
    <3>1. /\ i \in 1..Len(table) + 2 /\ i + 1 \in 1..Len(table) + 2
          /\ i - 1 \in 0..Len(table) /\ (i - 1) + 1 = (i + 1) - 1
      BY <2>1, RingPlaces
    <3>2. Ring[i] = At(i-1) /\ Ring[i+1] = At((i-1)+1)
      BY <2>1, <3>1, RingPlaces
    <3> QED  BY <2>1, <3>1, <3>2 DEF Mirrored
  <2> QED  BY <2>1, <2>2
<1>2. IInv => MirroredWhenIdle
  BY <1>1 DEF MirroredWhenIdle
<1> QED  BY <1>2, SpecIInv, PTL

\* A hook returns the verdict of the table as it was at some moment of its call.
THEOREM SpecVerdictOfSomeMoment == Spec => []VerdictOfSomeMoment
<1>1. ASSUME IInv, NEW c \in Cpus, hook[c].pc = "return" PROVE hook[c].ret \in could[c]
  <2>1. hook[c].ret \in {NF_ACCEPT, NF_DROP}
    BY <1>1, HookType DEF IInv
  <2>2. Covered(c) /\ NothingMissed(c) /\ Walking(c)
    BY <1>1 DEF IInv, HookOK, Walking
  <2> QED  BY <1>1, <2>1, <2>2 DEF Covered, NothingMissed
<1>2. IInv => VerdictOfSomeMoment
  BY <1>1 DEF VerdictOfSomeMoment
<1> QED  BY <1>2, SpecIInv, PTL

\* A hook comes to the poisoned pointer only if the very node it was heading for
\* was removed under it.
THEOREM SpecThrownOnlyByRemovalAhead == Spec => []ThrownOnlyByRemovalAhead
<1>1. ASSUME IInv, NEW c \in Cpus, hook[c].pos = POISON1 \/ hook[c].tmp = POISON1
      PROVE  struck[c]
  <2>1. TypeOK /\ Cursors(c) /\ OnTheList(c)
    BY <1>1 DEF IInv, HookOK
  <2>2. POISON1 \notin Nodes /\ RulesHead # POISON1
    BY DEF POISON1, RulesHead, Nodes
  <2>3. hook[c].pc \in {"load", "visit"}
    BY <1>1, <2>1, <2>2, HookType DEF Cursors
  <2>4. HeadingFor(c) = POISON1
    BY <1>1, <2>1, <2>2, <2>3 DEF Cursors, HeadingFor
  <2>5. ~Listed(POISON1)
    BY <2>1, <2>2, TableFacts DEF Listed
  <2> QED  BY <2>1, <2>2, <2>4, <2>5 DEF OnTheList
<1>2. IInv => ThrownOnlyByRemovalAhead
  BY <1>1 DEF ThrownOnlyByRemovalAhead
<1> QED  BY <1>2, SpecIInv, PTL

-----------------------------------------------------------------------------
(***************************************************************************)
(* The refinement.                                                         *)
(***************************************************************************)
Rules == [i \in DOMAIN table |-> rule[table[i]]]

\* The rules of a sequence of nodes, one by one.
LEMMA RulesFacts ==
    ASSUME NEW t \in Seq(Nodes), NEW f \in [Nodes -> Rule]
    PROVE  LET R == [i \in DOMAIN t |-> f[t[i]]]
           IN  /\ R \in Seq(Rule) /\ Len(R) = Len(t) /\ DOMAIN R = 1..Len(t)
               /\ \A i \in 1..Len(t) : R[i] = f[t[i]]
<1> DEFINE R == [i \in DOMAIN t |-> f[t[i]]]
<1>1. Len(t) \in Nat /\ DOMAIN t = 1..Len(t) /\ \A i \in 1..Len(t) : t[i] \in Nodes
  BY LenProperties, ElementOfSeq
<1>2. R \in [1..Len(t) -> Rule]
  BY <1>1
<1> QED  BY <1>1, <1>2, SeqOfFunction

\* The stores that leave the table alone leave the sequence of rules alone too:
\* a node that is filled is in no list.
LEMMA QuietStep ==
    ASSUME IInv, UNCHANGED <<table, request>>,
           UNCHANGED rule \/ \E r \in Rule : AddLink(r)
    PROVE  UNCHANGED Promise!vars
<1>1. \A i \in DOMAIN table : rule'[table[i]] = rule[table[i]]
  <2>1. ASSUME NEW r \in Rule, AddLink(r), NEW i \in DOMAIN table
        PROVE  rule'[table[i]] = rule[table[i]]
    <3>1. table[i] \in Nodes /\ table[i] <= used /\ used \in Nat
      BY TableFacts DEF IInv, Linked, Ordered
    <3>2. table[i] # used + 1
      BY <3>1 DEF Nodes
    <3> QED  BY <2>1, <3>1, <3>2 DEF AddLink, IInv, TypeOK
  <2> QED  BY <2>1
<1>2. Rules' = Rules
  BY <1>1 DEF Rules
<1> QED  BY <1>2 DEF Promise!vars, Rules

\* The store that makes the last node lead to the new one adds its rule.
LEMMA PublishAdds ==
    ASSUME IInv, IInv', AddPublish
    PROVE  Promise!Next
<1>1. /\ TypeOK /\ TypeOK'
      /\ cmd.node \in Nodes
      /\ table' = Append(table, cmd.node) /\ UNCHANGED rule
      /\ request' = <<"ADD_RULE", rule[cmd.node]>>
      /\ Len(table) \in Nat /\ table \in Seq(Nodes)
  BY TableFacts DEF IInv, Linked, Added, AddPublish, Publishing, TypeOK
<1>2. /\ Len(table') = Len(table) + 1
      /\ \A i \in 1..Len(table) + 1 : table'[i] = IF i <= Len(table) THEN table[i] ELSE cmd.node
  BY <1>1, AppendProperties
<1>3. rule[cmd.node] \in Rule
  BY <1>1 DEF TypeOK
<1>4. /\ Append(Rules, rule[cmd.node]) \in Seq(Rule)
      /\ Len(Append(Rules, rule[cmd.node])) = Len(table) + 1
      /\ \A i \in 1..Len(table) + 1 :
            Append(Rules, rule[cmd.node])[i] = IF i <= Len(table) THEN rule[table[i]] ELSE rule[cmd.node]
  <2>1. /\ Rules \in Seq(Rule) /\ Len(Rules) = Len(table)
        /\ \A i \in 1..Len(table) : Rules[i] = rule[table[i]]
    BY <1>1, RulesFacts DEF TypeOK, Rules
  <2> QED  BY <1>1, <1>3, <2>1, AppendProperties
<1>5. /\ Rules' \in Seq(Rule) /\ Len(Rules') = Len(table')
      /\ \A i \in 1..Len(table') : Rules'[i] = rule'[table'[i]]
  BY <1>1, RulesFacts DEF TypeOK, Rules
<1>6. Rules' = Append(Rules, rule[cmd.node])
  <2>1. \A i \in 1..Len(table) + 1 : Rules'[i] = Append(Rules, rule[cmd.node])[i]
    BY <1>1, <1>2, <1>4, <1>5
  <2> QED  BY <1>2, <1>4, <1>5, <2>1, SeqEqual
<1>7. PICK r \in Rule : r = rule[cmd.node]
  BY <1>3
<1>8. Promise!Add(r)
  BY <1>1, <1>6, <1>7 DEF Promise!Add, Rules
<1> QED  BY <1>8 DEF Promise!Next

\* The store that makes a node's neighbour pass it by removes its rule.
LEMMA UnlinkRemoves ==
    ASSUME IInv, IInv', NEW asked \in AskedIds, RemoveUnlink(asked)
    PROVE  Promise!Next
<1>1. PICK k \in DOMAIN table : k = asked + 1 /\ table' = RemoveAt(table, k)
  BY UnlinkFacts
<1>2. /\ TypeOK /\ TypeOK' /\ UNCHANGED rule
      /\ request' = <<"REMOVE_RULE", asked>>
      /\ Len(table) \in Nat /\ DOMAIN table = 1..Len(table) /\ table \in Seq(Nodes)
  BY TableFacts DEF IInv, RemoveUnlink, TypeOK
<1>3. /\ Len(table') = Len(table) - 1
      /\ \A i \in 1..Len(table) - 1 : table'[i] = IF i < k THEN table[i] ELSE table[i+1]
  BY <1>1, <1>2, RemoveAtProperties
<1>4. /\ RemoveAt(Rules, k) \in Seq(Rule)
      /\ Len(RemoveAt(Rules, k)) = Len(table) - 1
      /\ \A i \in 1..Len(table) - 1 :
            RemoveAt(Rules, k)[i] = IF i < k THEN Rules[i] ELSE Rules[i+1]
  <2>1. Rules \in Seq(Rule) /\ Len(Rules) = Len(table) /\ k \in 1..Len(Rules)
    BY <1>1, <1>2, RulesFacts DEF TypeOK, Rules
  <2> QED  BY <2>1, RemoveAtProperties
<1>5. /\ Rules' \in Seq(Rule) /\ Len(Rules') = Len(table')
      /\ \A i \in 1..Len(table') : Rules'[i] = rule'[table'[i]]
      /\ DOMAIN Rules = 1..Len(table)
      /\ \A i \in 1..Len(table) : Rules[i] = rule[table[i]]
  BY <1>2, RulesFacts DEF TypeOK, Rules
<1>6. ASSUME NEW i \in 1..Len(table) - 1 PROVE Rules'[i] = RemoveAt(Rules, k)[i]
  <2>1. i \in 1..Len(table) /\ i + 1 \in 1..Len(table) /\ i \in 1..Len(table')
    BY <1>2, <1>3
  <2>2. Rules'[i] = rule[table'[i]]
    BY <1>2, <1>5, <2>1
  <2>3. table'[i] = IF i < k THEN table[i] ELSE table[i+1]
    BY <1>3
  <2>4. RemoveAt(Rules, k)[i] = IF i < k THEN Rules[i] ELSE Rules[i+1]
    BY <1>4
  <2>5. Rules[i] = rule[table[i]] /\ Rules[i+1] = rule[table[i+1]]
    BY <1>5, <2>1
  <2>6. CASE i < k
    BY <2>2, <2>3, <2>4, <2>5, <2>6
  <2>7. CASE ~(i < k)
    BY <2>2, <2>3, <2>4, <2>5, <2>7
  <2> QED  BY <2>6, <2>7
<1>7. Rules' = RemoveAt(Rules, k)
  BY <1>3, <1>4, <1>5, <1>6, SeqEqual
<1>8. Promise!RemoveById(asked)
  <2>1. asked + 1 \in DOMAIN Rules /\ RemoveAt(Rules, asked + 1) = RemoveAt(Rules, k)
    BY <1>1, <1>2, <1>5
  <2>2. Rules' = IF asked + 1 \in DOMAIN Rules THEN RemoveAt(Rules, asked + 1) ELSE Rules
    BY <1>7, <2>1
  <2>3. \A s, at : Promise!RemoveAt(s, at) = RemoveAt(s, at)
    BY DEF Promise!RemoveAt, RemoveAt
  <2>4. Promise!RemoveAt(Rules, asked + 1) = RemoveAt(Rules, asked + 1)
    BY <2>3
  <2>5. request' = <<"REMOVE_RULE", asked>>
    BY <1>2
  <2> QED  BY <2>2, <2>4, <2>5 DEF Promise!RemoveById, Rules
<1> QED  BY <1>8 DEF Promise!Next

\* Every behaviour of the list, command by command and store by store, is one
\* that RuleSeq allows: only two of the stores change the sequence of rules.
THEOREM SpecImplementsRuleSeq == Spec => ImplementsRuleSeq
<1>1. Init => Promise!Init
  BY EmptySeq DEF Init, Promise!Init
<1>2. IInv /\ IInv' /\ [Next]_vars => [Promise!Next]_Promise!vars
  <2> SUFFICES ASSUME IInv, IInv', [Next]_vars
               PROVE  Promise!Next \/ UNCHANGED Promise!vars
    OBVIOUS
  <2>1. ASSUME NEW c \in Cpus, HookStep(c) PROVE UNCHANGED Promise!vars
    <3>1. UNCHANGED list
      BY <2>1 DEF HookStep, Enter, Load, LoadFaults, Visit, Return
    <3> QED  BY <3>1, QuietStep DEF list
  <2>2. ASSUME NEW r \in Rule, AddLink(r) PROVE UNCHANGED Promise!vars
    BY <2>2, QuietStep DEF AddLink
  <2>3. CASE RemovePoison
    BY <2>3, QuietStep DEF RemovePoison
  <2>4. CASE UNCHANGED vars
    BY <2>4, QuietStep DEF vars
  <2> QED  BY <2>1, <2>2, <2>3, <2>4, PublishAdds, UnlinkRemoves DEF Next, CommandStep, Dead
<1> QED  BY <1>1, <1>2, SpecIInv, PTL DEF Spec, ImplementsRuleSeq, Promise!Spec

=============================================================================
