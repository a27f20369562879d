--------------------------- MODULE ModuleLifeProofs ---------------------------
(***************************************************************************)
(* Proofs about ModuleLife: what loading and unloading keep next to hooks  *)
(* and commands, for every number of processors, nodes and loads.          *)
(***************************************************************************)
EXTENDS ModuleLife, SequenceFacts

-----------------------------------------------------------------------------
(***************************************************************************)
(* The inductive invariant.                                                *)
(***************************************************************************)
In(n, nodes) == \E k \in DOMAIN nodes : nodes[k] = n

Loading == {"hook outgoing", "hook ingoing", "register"}

\* A hook that is at no rule has nothing to report.
AtHead(running) == \A c \in running : hook[c].pos = RulesHead

\* Before the family there are no rules, and after it no hooks but those that are
\* waited for; where an init has failed there are hooks, but again no rules.
PhaseOK ==
    /\ family => phase \in {"live", "sweep", "stuck", "unhook outgoing", "unhook ingoing", "unregister"}
    /\ phase \in {"live", "sweep", "unhook outgoing", "unhook ingoing", "unregister"} => family
    /\ phase = "out" => hooked = {} /\ (Up => walkers = {})
    /\ phase = "stuck" /\ ~family => hooked = {} /\ walkers = {}
    /\ phase \in Loading => list = <<>> /\ AtHead(walkers)
    /\ phase = "unhook ingoing" => hooked \subseteq {"ingoing"}
    /\ phase = "unregister" => hooked = {}
    /\ phase = "leave" => \/ hooked = {} /\ walkers \subseteq grace
                          \/ initFailed /\ list = <<>> /\ AtHead(walkers)

\* A command needs the family.  The node an addition has at hand is on no list,
\* and free_list has never seen it.
CommandOK ==
    /\ cmd.kind = "none" => cmd = NoCommand
    /\ cmd # NoCommand => family
    /\ cmd.kind = "add" => /\ cmd.new \in 1..used /\ cmd.new \notin freed /\ ~In(cmd.new, list)
                           /\ cmd.new # sweep.pos /\ cmd.new # sweep.tmp
    /\ sweep \in [pos : -1..used, tmp : -1..used]
    /\ \A k \in DOMAIN list : list[k] \notin freed

\* Whoever holds a freed node, or is about to go to one, was caught at it.
Caught ==
    /\ \A c \in walkers : hook[c].pos \in freed \/ hook[c].tmp \in freed => c \in caught
    /\ cmd.kind # "add" /\ (cmd.cursor.pos \in freed \/ cmd.cursor.tmp \in freed) => "cmd" \in caught

\* The nodes that free_list has yet to free lie at its cursor or ahead of it,
\* unless a removal has taken one of its two nodes from under it.
Ahead(at, nodes, left) ==
    /\ at.pos = RulesHead => left = {}
    /\ In(at.pos, nodes) /\ at.tmp = RulesHead => left \subseteq {at.pos}
    /\ \A p, t \in DOMAIN nodes : nodes[p] = at.pos /\ nodes[t] = at.tmp =>
         /\ p < t
         /\ \A n \in left : n = at.pos \/ \E k \in DOMAIN nodes : t <= k /\ nodes[k] = n

\* Without removals the cursor is at the first node, and the next is the second,
\* or has come too late.
AtFirst(at, nodes) ==
    at.pos # RulesHead =>
        /\ 1 \in DOMAIN nodes /\ nodes[1] = at.pos
        /\ at.tmp # RulesHead => 2 \in DOMAIN nodes /\ nodes[2] = at.tmp

SweepOK ==
    /\ phase \in {"out", "live"} \cup Loading => found = {} /\ lifted = {}
    /\ phase = "sweep" => Ahead(sweep, list, found \ (freed \cup lifted))
    /\ phase = "sweep" /\ lifted = {} => AtFirst(sweep, list)

IInv ==
    /\ TypeOK /\ PhaseOK /\ CommandOK /\ Caught /\ SweepOK
    /\ SweepFreesAll /\ StuckOnlyByRemoval /\ ReportsOnlyToFamily /\ CodeOutlivesHooks

-----------------------------------------------------------------------------
(***************************************************************************)
(* The list.                                                               *)
(***************************************************************************)
Places == Nodes \cup {RulesHead, Poison}

\* The nodes on the list are distinct nodes that kmalloc has handed out.
LEMMA ListFacts ==
    ASSUME TypeOK
    PROVE  /\ list \in Seq(1..used) /\ Len(list) \in Nat /\ DOMAIN list = 1..Len(list)
           /\ \A k \in DOMAIN list : list[k] \in 1..used
           /\ \A j, k \in DOMAIN list : list[j] = list[k] => j = k
           /\ used \in Nat /\ used <= NodeCount /\ NodeCount \in Nat /\ 1..used \subseteq Nodes
           /\ \A n : Listed(n) <=> In(n, list)
<1>1. list \in Seq(1..used) /\ IsInjective(list)
  BY DEF TypeOK
<1>2. Len(list) \in Nat /\ DOMAIN list = 1..Len(list) /\ \A k \in DOMAIN list : list[k] \in 1..used
  BY <1>1, LenProperties, ElementOfSeq
<1>3. \A j, k \in DOMAIN list : list[j] = list[k] => j = k
  BY <1>1 DEF IsInjective
<1>4. used \in Nat /\ used <= NodeCount /\ NodeCount \in Nat
  <2>1. used \in 0..NodeCount
    BY DEF TypeOK
  <2> QED  BY <2>1, ModuleLifeAssumption
<1>5. 1..used \subseteq Nodes
  BY <1>4 DEF Nodes
<1>6. \A n : Listed(n) <=> In(n, list)
  BY DEF Listed, In
<1> QED  BY <1>1, <1>2, <1>3, <1>4, <1>5, <1>6

\* What stands behind a node, or behind the head of the list.
LEMMA SuccFacts ==
    ASSUME TypeOK, NEW n
    PROVE  /\ Succ(n) = RulesHead \/ Succ(n) = Poison \/ In(Succ(n), list)
           /\ n = RulesHead => Succ(n) = IF list = <<>> THEN RulesHead ELSE list[1]
           /\ \A k \in DOMAIN list : list[k] = n =>
                Succ(n) = IF k = Len(list) THEN RulesHead ELSE list[k+1]
           /\ Succ(n) \in -1..used /\ Succ(n) \in Places
<1>0. /\ list \in Seq(1..used) /\ Len(list) \in Nat /\ DOMAIN list = 1..Len(list)
      /\ \A k \in DOMAIN list : list[k] \in 1..used
      /\ \A j, k \in DOMAIN list : list[j] = list[k] => j = k
      /\ used \in Nat /\ 1..used \subseteq Nodes
      /\ Listed(n) <=> In(n, list)
  BY ListFacts
<1>1. CASE n = RulesHead
  <2>1. Succ(n) = IF list = <<>> THEN RulesHead ELSE list[1]
    BY <1>1 DEF Succ
  <2>2. list # <<>> => 1 \in DOMAIN list
    BY <1>0, EmptySeq
  <2>3. \A k \in DOMAIN list : list[k] # n
    BY <1>0, <1>1 DEF RulesHead
  <2>4. Succ(n) = RulesHead \/ (Succ(n) \in 1..used /\ In(Succ(n), list))
    BY <1>0, <2>1, <2>2 DEF In
  <2> QED  BY <1>0, <2>1, <2>3, <2>4 DEF Places, RulesHead
<1>2. CASE n # RulesHead /\ ~Listed(n)
  <2>1. Succ(n) = Poison
    BY <1>2 DEF Succ
  <2>2. \A k \in DOMAIN list : list[k] # n
    BY <1>0, <1>2 DEF In
  <2> QED  BY <1>0, <1>2, <2>1, <2>2 DEF Places, Poison
<1>3. CASE n # RulesHead /\ Listed(n)
  <2>1. PICK k \in DOMAIN list : list[k] = n
    BY <1>0, <1>3 DEF In
  <2>2. (CHOOSE i \in DOMAIN list : list[i] = n) = k
    BY <1>0, <2>1
  <2>3. Succ(n) = IF k = Len(list) THEN RulesHead ELSE list[k+1]
    <3>1. Succ(n) = LET i == CHOOSE i \in DOMAIN list : list[i] = n
                    IN  IF i = Len(list) THEN RulesHead ELSE list[i+1]
      BY <1>3 DEF Succ
    <3> QED  BY <2>2, <3>1
  <2>4. \A j \in DOMAIN list : list[j] = n => j = k
    BY <1>0, <2>1
  <2>5. k # Len(list) => k + 1 \in DOMAIN list
    BY <1>0, <2>1
  <2>6. Succ(n) = RulesHead \/ (Succ(n) \in 1..used /\ In(Succ(n), list))
    BY <1>0, <2>3, <2>5 DEF In
  <2> QED  BY <1>0, <1>3, <2>3, <2>4, <2>6 DEF Places, RulesHead
<1> QED  BY <1>1, <1>2, <1>3

\* Nothing that is loaded from the list leads to a freed node.
LEMMA SuccNotFreed ==
    ASSUME TypeOK, CommandOK, NEW n
    PROVE  Succ(n) \notin freed
<1>1. freed \subseteq 1..used /\ used \in Nat
  BY ListFacts DEF TypeOK
<1>2. \A k \in DOMAIN list : list[k] \notin freed
  BY DEF CommandOK
<1>3. Succ(n) = RulesHead \/ Succ(n) = Poison \/ In(Succ(n), list)
  BY SuccFacts
<1> QED  BY <1>1, <1>2, <1>3 DEF In, RulesHead, Poison

\* What list_del leaves of the list.
LEMMA WithoutFacts ==
    ASSUME TypeOK, NEW n, Listed(n)
    PROVE  \E p \in DOMAIN list :
                /\ list[p] = n /\ Without(n) = RemoveAt(list, p)
                /\ Without(n) \in Seq(1..used) /\ Len(Without(n)) = Len(list) - 1
                /\ DOMAIN Without(n) = 1..Len(list) - 1
                /\ \A j \in 1..Len(list) - 1 : Without(n)[j] = IF j < p THEN list[j] ELSE list[j+1]
                /\ IsInjective(Without(n))
                /\ \A m : In(m, Without(n)) <=> In(m, list) /\ m # n
<1>0. /\ list \in Seq(1..used) /\ Len(list) \in Nat /\ DOMAIN list = 1..Len(list)
      /\ \A j, k \in DOMAIN list : list[j] = list[k] => j = k
      /\ Listed(n) <=> In(n, list)
  BY ListFacts
<1>1. PICK p \in DOMAIN list : list[p] = n
  BY <1>0 DEF In
<1> DEFINE w == Without(n)
<1>2. w = RemoveAt(list, p)
  <2>1. \A i \in 1..Len(list) : list[i] = list[p] => i = p
    BY <1>0
  <2>2. RemoveFirst(list, list[p]) = RemoveAt(list, p)
    BY <1>0, <2>1, RemoveFirstAt
  <2> QED  BY <1>1, <2>2 DEF Without
<1>3. /\ w \in Seq(1..used) /\ Len(w) = Len(list) - 1
      /\ \A j \in 1..Len(list) - 1 : w[j] = IF j < p THEN list[j] ELSE list[j+1]
  <2>1. p \in 1..Len(list) /\ list \in Seq(1..used)
    BY <1>0
  <2>2. /\ RemoveAt(list, p) \in Seq(1..used) /\ Len(RemoveAt(list, p)) = Len(list) - 1
        /\ \A j \in 1..Len(list) - 1 : RemoveAt(list, p)[j] = IF j < p THEN list[j] ELSE list[j+1]
    BY <2>1, RemoveAtProperties
  <2> QED  BY <1>2, <2>2
<1> HIDE DEF w
<1>4. DOMAIN w = 1..Len(list) - 1
  BY <1>3, LenProperties
<1>5. \A j \in DOMAIN w : \E k \in DOMAIN list : w[j] = list[k] /\ k # p /\ k = IF j < p THEN j ELSE j + 1
  BY <1>0, <1>3, <1>4
<1>6. \A i, j \in DOMAIN w : w[i] = w[j] => i = j
  <2> SUFFICES ASSUME NEW i \in DOMAIN w, NEW j \in DOMAIN w, w[i] = w[j] PROVE i = j
    OBVIOUS
  <2>1. (IF i < p THEN i ELSE i + 1) = (IF j < p THEN j ELSE j + 1)
    BY <1>0, <1>5
  <2> QED  BY <1>0, <1>1, <1>4, <2>1
<1>7. ASSUME NEW m PROVE In(m, w) <=> In(m, list) /\ m # n
  <2>1. ASSUME In(m, w) PROVE In(m, list) /\ m # n
    BY <1>0, <1>1, <1>5, <2>1 DEF In
  <2>2. ASSUME In(m, list), m # n PROVE In(m, w)
    <3>1. PICK k \in DOMAIN list : list[k] = m /\ k # p
      BY <1>1, <2>2 DEF In
    <3>2. CASE k < p
      <4>1. k \in DOMAIN w /\ w[k] = list[k]
        BY <1>0, <1>3, <1>4, <3>2
      <4> QED  BY <3>1, <4>1 DEF In
    <3>3. CASE ~(k < p)
      <4>1. k - 1 \in DOMAIN w /\ ~(k - 1 < p) /\ (k - 1) + 1 = k
        BY <1>0, <1>4, <3>1, <3>3
      <4>2. w[k - 1] = list[k]
        BY <1>3, <1>4, <4>1
      <4> QED  BY <3>1, <4>1, <4>2 DEF In
    <3> QED  BY <3>2, <3>3
  <2> QED  BY <2>1, <2>2
<1>8. IsInjective(w)
  BY <1>6 DEF IsInjective
<1> QED  BY <1>1, <1>2, <1>3, <1>4, <1>7, <1>8 DEF w

\* The node before the head is one that was handed out, or the head itself.
LEMMA LastOfFacts ==
    ASSUME NEW n \in Nat, NEW nodes \in Seq(1..n)
    PROVE  LastOf(nodes) \in 0..n
<1>1. CASE nodes = <<>>
  BY <1>1 DEF LastOf, RulesHead
<1>2. CASE nodes # <<>>
  <2>1. Len(nodes) \in DOMAIN nodes
    BY <1>2, LenProperties, EmptySeq
  <2>2. nodes[Len(nodes)] \in 1..n
    BY <2>1, ElementOfSeq, LenProperties
  <2> QED  BY <1>2, <2>2 DEF LastOf, Last
<1> QED  BY <1>1, <1>2

-----------------------------------------------------------------------------
(***************************************************************************)
(* The cursor of free_list, next to what happens to the list.              *)
(***************************************************************************)
\* What comes to the end of the list is behind everything that is left to free.
LEMMA AheadAppend ==
    ASSUME NEW S, NEW nodes \in Seq(S), NEW m \in S, NEW at, NEW left,
           Ahead(at, nodes, left), m # at.pos, m # at.tmp
    PROVE  /\ Ahead(at, Append(nodes, m), left)
           /\ AtFirst(at, nodes) => AtFirst(at, Append(nodes, m))
<1> DEFINE longer == Append(nodes, m)
<1>1. /\ DOMAIN nodes = 1..Len(nodes) /\ Len(nodes) \in Nat /\ DOMAIN longer = 1..Len(nodes) + 1
      /\ \A k \in DOMAIN nodes : k \in DOMAIN longer /\ longer[k] = nodes[k]
      /\ longer[Len(nodes) + 1] = m
  BY AppendProperties, LenProperties
<1> HIDE DEF longer
<1>2. \A k \in DOMAIN longer : k \in DOMAIN nodes \/ longer[k] = m
  BY <1>1
<1>3. \A k \in DOMAIN longer : longer[k] = at.pos \/ longer[k] = at.tmp => k \in DOMAIN nodes
  BY <1>1, <1>2
<1>4. Ahead(at, longer, left)
  <2>1. In(at.pos, longer) => In(at.pos, nodes)
    BY <1>1, <1>3 DEF In
  <2>2. ASSUME NEW p \in DOMAIN longer, NEW t \in DOMAIN longer, longer[p] = at.pos, longer[t] = at.tmp
        PROVE  /\ p < t
               /\ \A n \in left : n = at.pos \/ \E k \in DOMAIN longer : t <= k /\ longer[k] = n
    <3>1. p \in DOMAIN nodes /\ t \in DOMAIN nodes /\ nodes[p] = at.pos /\ nodes[t] = at.tmp
      BY <1>1, <1>3, <2>2
    <3>2. /\ p < t
          /\ \A n \in left : n = at.pos \/ \E k \in DOMAIN nodes : t <= k /\ nodes[k] = n
      BY <3>1 DEF Ahead
    <3> QED  BY <1>1, <3>2
  <2> QED  BY <2>1, <2>2 DEF Ahead
<1>5. AtFirst(at, nodes) => AtFirst(at, longer)
  BY <1>1 DEF AtFirst
<1> QED  BY <1>4, <1>5 DEF longer

\* A list without the node at place p: where the nodes of the shorter list were.
Up1(p, j)   == IF j < p THEN j ELSE j + 1
Down1(p, k) == IF k < p THEN k ELSE k - 1

Shorter(nodes, p, shorter) ==
    /\ DOMAIN nodes = 1..Len(nodes) /\ Len(nodes) \in Nat /\ p \in DOMAIN nodes
    /\ DOMAIN shorter = 1..Len(nodes) - 1
    /\ \A j \in DOMAIN shorter : shorter[j] = nodes[Up1(p, j)]

\* Places of the two lists correspond, and their order is the same.
LEMMA ShorterFacts ==
    ASSUME NEW nodes, NEW p, NEW shorter, Shorter(nodes, p, shorter)
    PROVE  /\ \A j \in DOMAIN shorter : Up1(p, j) \in DOMAIN nodes /\ Up1(p, j) # p
           /\ \A i, j \in DOMAIN shorter : Up1(p, i) < Up1(p, j) => i < j
           /\ \A k \in DOMAIN nodes : k # p =>
                /\ Down1(p, k) \in DOMAIN shorter /\ shorter[Down1(p, k)] = nodes[k]
                /\ \A j \in DOMAIN shorter : Up1(p, j) <= k => j <= Down1(p, k)
<1>1. /\ DOMAIN nodes = 1..Len(nodes) /\ Len(nodes) \in Nat /\ p \in DOMAIN nodes
      /\ DOMAIN shorter = 1..Len(nodes) - 1
      /\ \A j \in DOMAIN shorter : shorter[j] = nodes[Up1(p, j)]
  BY DEF Shorter
<1>2. \A j \in DOMAIN shorter : Up1(p, j) \in DOMAIN nodes /\ Up1(p, j) # p
  BY <1>1 DEF Up1
<1>3. \A i, j \in DOMAIN shorter : Up1(p, i) < Up1(p, j) => i < j
  BY <1>1 DEF Up1
<1>4. ASSUME NEW k \in DOMAIN nodes, k # p
      PROVE  /\ Down1(p, k) \in DOMAIN shorter /\ shorter[Down1(p, k)] = nodes[k]
             /\ \A j \in DOMAIN shorter : Up1(p, j) <= k => j <= Down1(p, k)
  <2>1. Down1(p, k) \in DOMAIN shorter /\ Up1(p, Down1(p, k)) = k
    BY <1>1, <1>4 DEF Up1, Down1
  <2>2. \A j \in DOMAIN shorter : Up1(p, j) <= k => j <= Down1(p, k)
    BY <1>1, <1>4 DEF Up1, Down1
  <2>3. shorter[Down1(p, k)] = nodes[k]
    BY <1>1, <2>1
  <2> QED  BY <2>1, <2>2, <2>3
<1> QED  BY <1>2, <1>3, <1>4

\* A removal takes from what is left, and leaves the order of the rest.
LEMMA AheadShorter ==
    ASSUME NEW nodes, NEW p, NEW shorter, NEW at, NEW left, NEW rest,
           Shorter(nodes, p, shorter), Ahead(at, nodes, left), rest \subseteq left \ {nodes[p]}
    PROVE  Ahead(at, shorter, rest)
<1>1. /\ \A j \in DOMAIN shorter : /\ Up1(p, j) \in DOMAIN nodes /\ Up1(p, j) # p
                                   /\ shorter[j] = nodes[Up1(p, j)]
      /\ \A i, j \in DOMAIN shorter : Up1(p, i) < Up1(p, j) => i < j
      /\ \A k \in DOMAIN nodes : k # p =>
           /\ Down1(p, k) \in DOMAIN shorter /\ shorter[Down1(p, k)] = nodes[k]
           /\ \A j \in DOMAIN shorter : Up1(p, j) <= k => j <= Down1(p, k)
  <2>1. \A j \in DOMAIN shorter : shorter[j] = nodes[Up1(p, j)]
    BY DEF Shorter
  <2> QED  BY <2>1, ShorterFacts
<1>2. In(at.pos, shorter) => In(at.pos, nodes)
  BY <1>1 DEF In
<1>3. ASSUME NEW q \in DOMAIN shorter, NEW t \in DOMAIN shorter, shorter[q] = at.pos, shorter[t] = at.tmp
      PROVE  /\ q < t
             /\ \A n \in rest : n = at.pos \/ \E k \in DOMAIN shorter : t <= k /\ shorter[k] = n
  <2>1. /\ Up1(p, q) < Up1(p, t)
        /\ \A n \in left : n = at.pos \/ \E k \in DOMAIN nodes : Up1(p, t) <= k /\ nodes[k] = n
    BY <1>1, <1>3 DEF Ahead
  <2>2. ASSUME NEW n \in rest, n # at.pos
        PROVE  \E k \in DOMAIN shorter : t <= k /\ shorter[k] = n
    <3>1. PICK k \in DOMAIN nodes : Up1(p, t) <= k /\ nodes[k] = n
      BY <2>1, <2>2
    <3>2. k # p
      BY <3>1
    <3> QED  BY <1>1, <3>1, <3>2
  <2> QED  BY <1>1, <2>1, <2>2
<1>4. at.pos = RulesHead => rest = {}
  BY DEF Ahead
<1>5. In(at.pos, shorter) /\ at.tmp = RulesHead => rest \subseteq {at.pos}
  BY <1>2 DEF Ahead
<1> QED  BY <1>3, <1>4, <1>5 DEF Ahead

\* free_list's own step: the node at the cursor goes, and the cursor moves to the
\* node loaded before.
LEMMA AheadNext ==
    ASSUME NEW nodes, NEW p, NEW shorter, NEW at, NEW left, NEW rest, NEW next,
           Shorter(nodes, p, shorter), Ahead(at, nodes, left), rest = left \ {at.pos},
           nodes[p] = at.pos, next.pos = at.tmp,
           \A j, k \in DOMAIN nodes : nodes[j] = nodes[k] => j = k,
           \A k \in DOMAIN nodes : nodes[k] # RulesHead,
           \A t \in DOMAIN nodes : nodes[t] = at.tmp =>
                next.tmp = IF t = Len(nodes) THEN RulesHead ELSE nodes[t+1]
    PROVE  /\ Ahead(next, shorter, rest)
           /\ AtFirst(at, nodes) /\ at.pos # RulesHead => AtFirst(next, shorter)
<1>0. /\ DOMAIN nodes = 1..Len(nodes) /\ Len(nodes) \in Nat /\ p \in DOMAIN nodes
      /\ DOMAIN shorter = 1..Len(nodes) - 1
  BY DEF Shorter
<1>1. /\ \A j \in DOMAIN shorter : /\ Up1(p, j) \in DOMAIN nodes /\ Up1(p, j) # p
                                   /\ shorter[j] = nodes[Up1(p, j)]
      /\ \A i, j \in DOMAIN shorter : Up1(p, i) < Up1(p, j) => i < j
      /\ \A k \in DOMAIN nodes : k # p =>
           /\ Down1(p, k) \in DOMAIN shorter /\ shorter[Down1(p, k)] = nodes[k]
           /\ \A j \in DOMAIN shorter : Up1(p, j) <= k => j <= Down1(p, k)
  BY ShorterFacts DEF Shorter
<1>2. next.pos = RulesHead => rest = {}
  <2>1. In(at.pos, nodes)
    BY <1>0 DEF In
  <2> QED  BY <2>1 DEF Ahead
<1>3. ASSUME NEW t \in DOMAIN nodes, nodes[t] = at.tmp
      PROVE  \A n \in rest : \E k \in DOMAIN nodes : t <= k /\ nodes[k] = n /\ k # p
  BY <1>0, <1>3 DEF Ahead
<1>4. ASSUME In(next.pos, shorter), next.tmp = RulesHead
      PROVE  rest \subseteq {next.pos}
  <2>1. PICK q \in DOMAIN shorter : shorter[q] = at.tmp
    BY <1>4 DEF In
  <2> DEFINE t == Up1(p, q)
  <2>2. t \in DOMAIN nodes /\ nodes[t] = at.tmp
    BY <1>1, <2>1
  <2> HIDE DEF t
  <2>3. t = Len(nodes)
    <3>1. t # Len(nodes) => t + 1 \in DOMAIN nodes
      BY <1>0, <2>2
    <3> QED  BY <1>4, <2>2, <3>1
  <2>4. \A k \in DOMAIN nodes : t <= k => k = t
    BY <1>0, <2>3
  <2> QED  BY <1>3, <2>2, <2>4
<1>5. ASSUME NEW q \in DOMAIN shorter, NEW t \in DOMAIN shorter, shorter[q] = next.pos, shorter[t] = next.tmp
      PROVE  /\ q < t
             /\ \A n \in rest : n = next.pos \/ \E k \in DOMAIN shorter : t <= k /\ shorter[k] = n
  <2> DEFINE u == Up1(p, q)
             v == Up1(p, t)
  <2>1. u \in DOMAIN nodes /\ nodes[u] = at.tmp /\ v \in DOMAIN nodes /\ nodes[v] = next.tmp
    BY <1>1, <1>5
  <2>2. u # Len(nodes) /\ next.tmp = nodes[u+1] /\ u + 1 \in DOMAIN nodes
    <3>1. next.tmp # RulesHead
      BY <2>1
    <3>2. u # Len(nodes) /\ next.tmp = nodes[u+1]
      BY <2>1, <3>1
    <3>3. u # Len(nodes) => u + 1 \in DOMAIN nodes
      BY <1>0, <2>1
    <3> QED  BY <3>2, <3>3
  <2>3. v = u + 1
    BY <2>1, <2>2
  <2>4. u < v
    BY <1>0, <2>1, <2>3
  <2>5. q < t
    BY <1>1, <2>4
  <2>6. ASSUME NEW n \in rest, n # next.pos
        PROVE  \E k \in DOMAIN shorter : t <= k /\ shorter[k] = n
    <3>1. PICK k \in DOMAIN nodes : u <= k /\ nodes[k] = n /\ k # p
      BY <1>3, <2>1
    <3>2. k # u
      BY <2>1, <2>6, <3>1
    <3>3. v <= k
      BY <1>0, <2>1, <2>3, <3>1, <3>2
    <3> QED  BY <1>1, <3>1, <3>3
  <2> QED  BY <2>5, <2>6
<1>6. ASSUME AtFirst(at, nodes), at.pos # RulesHead PROVE AtFirst(next, shorter)
  <2> SUFFICES ASSUME next.pos # RulesHead
               PROVE  /\ 1 \in DOMAIN shorter /\ shorter[1] = next.pos
                      /\ next.tmp # RulesHead => 2 \in DOMAIN shorter /\ shorter[2] = next.tmp
    BY DEF AtFirst
  <2>1. 1 \in DOMAIN nodes /\ nodes[1] = at.pos /\ 2 \in DOMAIN nodes /\ nodes[2] = at.tmp
    BY <1>6 DEF AtFirst
  <2>2. p = 1
    BY <1>0, <2>1
  <2>3. \A j \in DOMAIN shorter : shorter[j] = nodes[j+1]
    <3>1. \A j \in DOMAIN shorter : Up1(1, j) = j + 1
      BY <1>0 DEF Up1
    <3> QED  BY <1>1, <2>2, <3>1
  <2>4. 1 \in DOMAIN shorter /\ shorter[1] = nodes[2]
    <3>1. 1 \in DOMAIN shorter /\ 1 + 1 = 2
      BY <1>0, <2>1
    <3> QED  BY <2>3, <3>1
  <2>5. ASSUME next.tmp # RulesHead PROVE 2 \in DOMAIN shorter /\ shorter[2] = next.tmp
    <3>1. 2 # Len(nodes) /\ next.tmp = nodes[3]
      <4>1. next.tmp = IF 2 = Len(nodes) THEN RulesHead ELSE nodes[2+1]
        BY <2>1
      <4> QED  BY <2>5, <4>1
    <3>2. 2 \in DOMAIN shorter /\ 2 + 1 = 3
      BY <1>0, <2>1, <3>1
    <3> QED  BY <2>3, <3>1, <3>2
  <2> QED  BY <2>1, <2>4, <2>5
<1> QED  BY <1>2, <1>4, <1>5, <1>6 DEF Ahead

-----------------------------------------------------------------------------
(***************************************************************************)
(* init and exit.                                                          *)
(***************************************************************************)
\* Insmod starts with a list without rules, and no hook runs.
LEMMA InsmodStep ==
    ASSUME IInv, Insmod
    PROVE  IInv'
<1>1. /\ Up /\ phase = "out" /\ loads' = loads + 1 /\ loads < MaxLoads
      /\ phase' \in {"hook outgoing", "stuck"} /\ list' = <<>> /\ tail' = RulesHead
      /\ UNCHANGED <<hooked, family, used, freed, sweep, walkers, hook, cmd, grace, blame, orphans,
                     caught, found, lifted, initFailed>>
  BY DEF Insmod, hooks, history
<1>2. ~family /\ hooked = {} /\ walkers = {} /\ cmd = NoCommand /\ found = {} /\ lifted = {}
  BY <1>1 DEF IInv, PhaseOK, CommandOK, SweepOK
<1>0. DOMAIN <<>> = {}
  OBVIOUS
<1>3. TypeOK'
  <2>1. list' \in Seq(1..used) /\ IsInjective(list') /\ tail' \in 0..used
    <3>1. used \in Nat
      BY ListFacts DEF IInv
    <3>2. <<>> \in Seq(1..used)
      OBVIOUS
    <3>3. IsInjective(<<>>)
      BY <1>0 DEF IsInjective
    <3>4. RulesHead \in 0..used
      BY <3>1 DEF RulesHead
    <3> QED  BY <1>1, <3>2, <3>3, <3>4
  <2>2. loads' \in 0..MaxLoads /\ phase' \in Phases
    <3>1. loads \in 0..MaxLoads /\ MaxLoads \in Nat
      BY ModuleLifeAssumption DEF IInv, TypeOK
    <3>2. phase' \in Phases
      BY <1>1 DEF Phases
    <3>3. loads' \in 0..MaxLoads
      <4>1. loads' = loads + 1 /\ loads < MaxLoads
        BY <1>1
      <4> QED  BY <3>1, <4>1
    <3> QED  BY <3>2, <3>3
  <2> QED  BY <1>1, <2>1, <2>2 DEF IInv, TypeOK
<1>4. PhaseOK'
  BY <1>1, <1>2 DEF PhaseOK, AtHead, Loading
<1>5. CommandOK'
  <2>1. \A n : ~In(n, list')
    BY <1>1, <1>0 DEF In
  <2>2. DOMAIN list' = {}
    BY <1>1, <1>0
  <2> QED  BY <1>1, <2>1, <2>2 DEF IInv, CommandOK
<1>6. Caught'
  BY <1>1 DEF IInv, Caught
<1>7. SweepOK' /\ SweepFreesAll'
  BY <1>1, <1>2 DEF SweepOK, SweepFreesAll
<1>8. StuckOnlyByRemoval' /\ ReportsOnlyToFamily' /\ CodeOutlivesHooks'
  BY <1>1, <1>2 DEF IInv, StuckOnlyByRemoval, ReportsOnlyToFamily, CodeOutlivesHooks
<1> QED  BY <1>3, <1>4, <1>5, <1>6, <1>7, <1>8 DEF IInv

\* Registering a hook point, or failing to, keeps the invariant.
LEMMA RegisterHookStep ==
    ASSUME IInv, NEW turn \in {"hook outgoing", "hook ingoing"}, NEW point \in HookPoints,
           NEW after \in {"hook ingoing", "register"}, RegisterHook(turn, point, after)
    PROVE  IInv'
<1>1. /\ phase = turn /\ hooked' \in {hooked, hooked \cup {point}} /\ phase' = after
      /\ UNCHANGED <<loads, family, list, tail, used, freed, sweep, walkers, hook, cmd, grace, blame,
                     orphans, caught, found, lifted, initFailed>>
  BY DEF RegisterHook, memory, hooks, history
<1>2. phase \in Loading /\ phase' \in Loading /\ ~family
  BY <1>1 DEF IInv, PhaseOK, Loading
<1>3. TypeOK'
  BY <1>1 DEF IInv, TypeOK, Phases
<1>4. PhaseOK'
  BY <1>1, <1>2 DEF IInv, PhaseOK, AtHead, Loading
<1>5. CommandOK' /\ Caught'
  BY <1>1 DEF IInv, CommandOK, Caught
<1>6. SweepOK' /\ SweepFreesAll'
  BY <1>1, <1>2 DEF IInv, SweepOK, SweepFreesAll, Loading
<1>7. StuckOnlyByRemoval' /\ ReportsOnlyToFamily' /\ CodeOutlivesHooks'
  BY <1>1, <1>2 DEF IInv, StuckOnlyByRemoval, ReportsOnlyToFamily, CodeOutlivesHooks
<1> QED  BY <1>3, <1>4, <1>5, <1>6, <1>7 DEF IInv

\* Where the family cannot be registered, init fails before there are any rules.
LEMMA RegisterFamilyStep ==
    ASSUME IInv, RegisterFamily
    PROVE  IInv'
<1>1. /\ phase = "register"
      /\ \/ family' = TRUE /\ phase' = "live" /\ grace' = grace /\ initFailed' = initFailed
         \/ family' = FALSE /\ phase' = "leave" /\ grace' = walkers /\ initFailed' = TRUE
      /\ UNCHANGED <<loads, hooked, list, tail, used, freed, sweep, walkers, hook, cmd, blame, orphans,
                     caught, found, lifted>>
  BY DEF RegisterFamily, memory, hooks
<1>2. ~family /\ list = <<>> /\ AtHead(walkers) /\ cmd = NoCommand /\ found = {} /\ lifted = {}
  BY <1>1 DEF IInv, PhaseOK, CommandOK, SweepOK, Loading
<1>3. TypeOK'
  BY <1>1 DEF IInv, TypeOK, Phases, Leaving
<1>4. PhaseOK'
  BY <1>1, <1>2 DEF PhaseOK, AtHead, Loading
<1>5. CommandOK' /\ Caught'
  BY <1>1, <1>2 DEF IInv, CommandOK, Caught
<1>6. SweepOK' /\ SweepFreesAll' /\ StuckOnlyByRemoval'
  BY <1>1, <1>2 DEF SweepOK, SweepFreesAll, StuckOnlyByRemoval
<1>7. ReportsOnlyToFamily'
  BY <1>1, <1>2 DEF ReportsOnlyToFamily, AtHead, Nodes, RulesHead
<1>8. CodeOutlivesHooks'
  BY <1>1 DEF IInv, CodeOutlivesHooks
<1> QED  BY <1>3, <1>4, <1>5, <1>6, <1>7, <1>8 DEF IInv

\* free_list begins at the first node, with the second at hand.
LEMMA RmmodStep ==
    ASSUME IInv, Rmmod
    PROVE  IInv'
<1>1. /\ phase = "live" /\ phase' = "sweep" /\ sweep' = First /\ found' = Range(list)
      /\ UNCHANGED <<loads, hooked, family, list, tail, used, freed, walkers, hook, cmd, grace, blame,
                     orphans, caught, lifted, initFailed>>
  BY DEF Rmmod, memory, hooks
<1>2. family /\ found = {} /\ lifted = {}
  BY <1>1 DEF IInv, PhaseOK, SweepOK
<1>3. /\ list \in Seq(1..used) /\ Len(list) \in Nat /\ DOMAIN list = 1..Len(list)
      /\ \A k \in DOMAIN list : list[k] \in 1..used
      /\ \A j, k \in DOMAIN list : list[j] = list[k] => j = k
      /\ used \in Nat /\ 1..used \subseteq Nodes
  BY ListFacts DEF IInv
<1>4. /\ sweep'.pos = Succ(RulesHead) /\ sweep'.tmp = Succ(Succ(RulesHead))
      /\ sweep' = [pos |-> Succ(RulesHead), tmp |-> Succ(Succ(RulesHead))]
      /\ Succ(RulesHead) \in -1..used /\ Succ(Succ(RulesHead)) \in -1..used
      /\ Succ(RulesHead) \in Places /\ Succ(Succ(RulesHead)) \in Places
  BY <1>1, SuccFacts DEF First, IInv
<1>5. /\ list = <<>> => sweep'.pos = RulesHead
      /\ list # <<>> => /\ sweep'.pos = list[1] /\ 1 \in DOMAIN list
                        /\ sweep'.tmp = IF 1 = Len(list) THEN RulesHead ELSE list[2]
  <2>1. Succ(RulesHead) = IF list = <<>> THEN RulesHead ELSE list[1]
    BY SuccFacts DEF IInv
  <2>2. list # <<>> => 1 \in DOMAIN list
    BY <1>3, EmptySeq
  <2>3. list # <<>> => Succ(list[1]) = IF 1 = Len(list) THEN RulesHead ELSE list[1+1]
    BY <2>2, SuccFacts DEF IInv
  <2> QED  BY <1>4, <2>1, <2>2, <2>3
<1>6. TypeOK'
  <2>1. found' \subseteq Nodes
    BY <1>1, <1>3 DEF Range
  <2>2. sweep' \in Cursors
    BY <1>4 DEF Cursors, Places
  <2> QED  BY <1>1, <2>1, <2>2 DEF IInv, TypeOK, Phases
<1>7. PhaseOK'
  BY <1>1, <1>2 DEF PhaseOK, Loading
<1>8. CommandOK'
  <2>1. \A n : Succ(n) = RulesHead \/ Succ(n) = Poison \/ In(Succ(n), list)
    BY SuccFacts DEF IInv
  <2>2. cmd.kind = "add" => cmd.new # sweep'.pos /\ cmd.new # sweep'.tmp
    BY <1>3, <1>4, <2>1 DEF IInv, CommandOK, RulesHead, Poison
  <2> QED  BY <1>1, <1>4, <2>2 DEF IInv, CommandOK
<1>9. Caught'
  BY <1>1 DEF IInv, Caught
<1>10. SweepOK'
  <2>1. \A k \in DOMAIN list : list[k] # RulesHead
    BY <1>3 DEF RulesHead
  <2>2. Ahead(sweep', list, found')
    <3>1. CASE list = <<>>
      BY <1>1, <1>5, <3>1 DEF Ahead, In, Range
    <3>2. CASE list # <<>>
      <4>1. sweep'.pos # RulesHead
        BY <1>5, <2>1, <3>2
      <4>2. ASSUME sweep'.tmp = RulesHead PROVE found' \subseteq {sweep'.pos}
        <5>1. 1 = Len(list)
          <6>1. 1 # Len(list) => 2 \in DOMAIN list
            BY <1>3, <1>5, <3>2
          <6> QED  BY <1>5, <2>1, <3>2, <4>2, <6>1
        <5>2. \A k \in DOMAIN list : k = 1
          <6>1. DOMAIN list = 1..1
            BY <1>3, <5>1
          <6> QED  BY <6>1
        <5> QED  BY <1>1, <1>5, <3>2, <5>2 DEF Range
      <4>3. ASSUME NEW p \in DOMAIN list, NEW t \in DOMAIN list, list[p] = sweep'.pos, list[t] = sweep'.tmp
            PROVE  /\ p < t
                   /\ \A n \in found' : n = sweep'.pos \/ \E k \in DOMAIN list : t <= k /\ list[k] = n
        <5>1. p = 1
          BY <1>3, <1>5, <3>2, <4>3
        <5>2. 1 # Len(list) /\ list[t] = list[2]
          BY <1>5, <2>1, <3>2, <4>3
        <5>3. 2 \in DOMAIN list
          BY <1>3, <1>5, <3>2, <5>2
        <5>4. t = 2
          BY <1>3, <5>2, <5>3
        <5>5. \A k \in DOMAIN list : k = 1 \/ t <= k
          BY <1>3, <5>4
        <5>6. p < t
          BY <5>1, <5>4
        <5>7. \A n \in found' : \E k \in DOMAIN list : list[k] = n
          BY <1>1 DEF Range
        <5> QED  BY <1>5, <3>2, <5>5, <5>6, <5>7
      <4> QED  BY <4>1, <4>2, <4>3 DEF Ahead
    <3> QED  BY <3>1, <3>2
  <2>3. AtFirst(sweep', list)
    <3>1. list # <<>> /\ 1 # Len(list) => 2 \in DOMAIN list
      BY <1>3, <1>5
    <3> QED  BY <1>5, <3>1 DEF AtFirst
  <2>4. found' \ (freed \cup lifted) = found'
    <3>1. \A n \in found' : n \notin freed
      BY <1>1 DEF IInv, CommandOK, Range
    <3> QED  BY <1>2, <3>1
  <2> QED  BY <1>1, <2>2, <2>3, <2>4 DEF SweepOK, Loading
<1>11. SweepFreesAll' /\ StuckOnlyByRemoval' /\ ReportsOnlyToFamily' /\ CodeOutlivesHooks'
  BY <1>1, <1>2 DEF IInv, SweepFreesAll, StuckOnlyByRemoval, ReportsOnlyToFamily, CodeOutlivesHooks
<1> QED  BY <1>6, <1>7, <1>8, <1>9, <1>10, <1>11 DEF IInv

\* free_list frees the node at its cursor: everyone who runs is caught at it, and
\* what is left of the rules lies at the next node or ahead of it.
LEMMA SweepNodeStep ==
    ASSUME IInv, SweepNode
    PROVE  IInv'
<1> DEFINE pos  == sweep.pos
           tmp  == sweep.tmp
           left == found \ (freed \cup lifted)
<1>1. /\ phase = "sweep" /\ Listed(pos) /\ list' = Without(pos) /\ tail' = LastOf(list')
      /\ freed' = freed \cup {pos} /\ sweep' = On(sweep)
      /\ caught' = caught \cup walkers \cup (IF cmd.kind = "none" THEN {} ELSE {"cmd"})
      /\ UNCHANGED <<phase, loads, hooked, family, used, walkers, hook, cmd, grace, blame, orphans,
                     found, lifted, initFailed>>
  BY DEF SweepNode, life, hooks
<1>2. /\ list \in Seq(1..used) /\ Len(list) \in Nat /\ DOMAIN list = 1..Len(list)
      /\ \A k \in DOMAIN list : list[k] \in 1..used
      /\ \A j, k \in DOMAIN list : list[j] = list[k] => j = k
      /\ used \in Nat /\ 1..used \subseteq Nodes /\ In(pos, list)
  BY <1>1, ListFacts DEF IInv
<1>3. PICK p \in DOMAIN list :
         /\ list[p] = pos
         /\ list' \in Seq(1..used) /\ DOMAIN list' = 1..Len(list) - 1
         /\ \A j \in 1..Len(list) - 1 : list'[j] = IF j < p THEN list[j] ELSE list[j+1]
         /\ IsInjective(list')
         /\ \A m : In(m, list') <=> In(m, list) /\ m # pos
  BY <1>1, WithoutFacts DEF IInv
<1>4. pos \in 1..used /\ pos # RulesHead
  BY <1>2, <1>3 DEF RulesHead
<1>5. /\ sweep' = [pos |-> tmp, tmp |-> Succ(tmp)] /\ sweep'.pos = tmp /\ sweep'.tmp = Succ(tmp)
      /\ Succ(tmp) \in -1..used /\ Succ(tmp) \in Places
      /\ Succ(tmp) = RulesHead \/ Succ(tmp) = Poison \/ In(Succ(tmp), list)
      /\ \A k \in DOMAIN list : list[k] = tmp =>
            Succ(tmp) = IF k = Len(list) THEN RulesHead ELSE list[k+1]
  BY <1>1, SuccFacts DEF On, IInv
<1>6. TypeOK'
  <2>1. list' \in Seq(1..used) /\ IsInjective(list')
    BY <1>3
  <2>2. tail' \in 0..used
    BY <1>1, <1>2, <1>3, LastOfFacts
  <2>3. freed' \subseteq 1..used
    BY <1>1, <1>4 DEF IInv, TypeOK
  <2>4. sweep' \in Cursors
    <3>1. tmp \in Places
      BY DEF IInv, TypeOK, Cursors, Places
    <3> QED  BY <1>5, <3>1 DEF Cursors, Places
  <2>5. caught' \subseteq Cpus \cup {"cmd"}
    BY <1>1 DEF IInv, TypeOK
  <2> QED  BY <1>1, <2>1, <2>2, <2>3, <2>4, <2>5 DEF IInv, TypeOK
<1>7. PhaseOK'
  BY <1>1 DEF IInv, PhaseOK, Loading
<1>8. CommandOK'
  <2>1. \A k \in DOMAIN list' : list'[k] \notin freed'
    <3>1. \A k \in DOMAIN list' : In(list'[k], list')
      BY DEF In
    <3>2. \A m : In(m, list) => m \notin freed
      BY DEF IInv, CommandOK, In
    <3> QED  BY <1>1, <1>3, <3>1, <3>2
  <2>2. cmd.kind = "add" => /\ cmd.new \in 1..used /\ cmd.new \notin freed' /\ ~In(cmd.new, list')
                            /\ cmd.new # tmp /\ cmd.new # Succ(tmp)
    BY <1>1, <1>2, <1>3, <1>5 DEF IInv, CommandOK, RulesHead, Poison
  <2>3. tmp \in -1..used
    BY DEF IInv, CommandOK
  <2> QED  BY <1>1, <1>5, <2>1, <2>2, <2>3 DEF IInv, CommandOK
<1>9. Caught'
  <2>1. \A c \in walkers : c \in caught'
    BY <1>1
  <2>2. cmd.kind # "none" => "cmd" \in caught'
    BY <1>1
  <2>3. cmd.kind = "none" => cmd.cursor.pos = 0 /\ cmd.cursor.tmp = 0
    BY DEF IInv, CommandOK, NoCommand, NoCursor, RulesHead
  <2>4. 0 \notin freed'
    <3>1. freed \subseteq 1..used
      BY DEF IInv, TypeOK
    <3> QED  BY <1>1, <1>2, <1>4, <3>1 DEF RulesHead
  <2> QED  BY <1>1, <2>1, <2>2, <2>3, <2>4 DEF Caught
<1>10. SweepOK'
  <2>1. Ahead(sweep, list, left)
    BY <1>1 DEF IInv, SweepOK
  <2>2. Shorter(list, p, list')
    BY <1>2, <1>3 DEF Shorter, Up1
  <2>3. \A k \in DOMAIN list : list[k] # RulesHead
    BY <1>2 DEF RulesHead
  <2>4. found \ (freed' \cup lifted) = left \ {pos}
    BY <1>1
  <2> DEFINE next    == [pos |-> tmp, tmp |-> Succ(tmp)]
             shorter == Without(pos)
             rest    == left \ {pos}
  <2>5. next.pos = tmp /\ next.tmp = Succ(tmp) /\ shorter = list' /\ sweep' = next
    BY <1>1, <1>5
  <2> HIDE DEF next, shorter, rest, left
  <2>6. \A t \in DOMAIN list : list[t] = sweep.tmp =>
            next.tmp = IF t = Len(list) THEN RulesHead ELSE list[t+1]
    BY <1>5, <2>5
  <2>7. /\ Ahead(next, shorter, rest)
        /\ AtFirst(sweep, list) /\ sweep.pos # RulesHead => AtFirst(next, shorter)
    <3>1. Shorter(list, p, shorter)
      BY <2>2, <2>5
    <3>2. list[p] = sweep.pos /\ rest = left \ {sweep.pos} /\ next.pos = sweep.tmp
      BY <1>3, <2>5 DEF rest
    <3>3. \A j, k \in DOMAIN list : list[j] = list[k] => j = k
      BY <1>2
    <3> HIDE DEF pos, tmp
    <3> QED  BY <2>1, <2>3, <2>6, <3>1, <3>2, <3>3, AheadNext, SMTT(60)
  <2>8. lifted = {} => AtFirst(sweep, list)
    BY <1>1 DEF IInv, SweepOK
  <2> QED  BY <1>1, <1>4, <2>4, <2>5, <2>7, <2>8 DEF SweepOK, rest, Loading
<1>11. SweepFreesAll' /\ StuckOnlyByRemoval'
  BY <1>1 DEF SweepFreesAll, StuckOnlyByRemoval
<1>12. ReportsOnlyToFamily' /\ CodeOutlivesHooks'
  BY <1>1 DEF IInv, ReportsOnlyToFamily, CodeOutlivesHooks
<1> QED  BY <1>6, <1>7, <1>8, <1>9, <1>10, <1>11, <1>12 DEF IInv

\* Only where a removal has been at work is the cursor at no node of the list.
LEMMA SweepOopsStep ==
    ASSUME IInv, SweepOops
    PROVE  IInv'
<1>1. /\ phase = "sweep" /\ phase' = "stuck" /\ sweep.pos # RulesHead /\ ~Listed(sweep.pos)
      /\ UNCHANGED <<loads, hooked, family, list, tail, used, freed, sweep, walkers, hook, cmd, grace,
                     blame, orphans, caught, found, lifted, initFailed>>
  BY DEF SweepOops, memory, hooks, history
<1>2. family
  BY <1>1 DEF IInv, PhaseOK
<1>3. lifted # {}
  BY <1>1 DEF IInv, SweepOK, AtFirst, Listed
<1>4. TypeOK' /\ PhaseOK'
  BY <1>1, <1>2 DEF IInv, TypeOK, PhaseOK, Phases, Loading
<1>5. CommandOK' /\ Caught'
  BY <1>1 DEF IInv, CommandOK, Caught
<1>6. SweepOK' /\ SweepFreesAll' /\ StuckOnlyByRemoval'
  BY <1>1, <1>3 DEF SweepOK, SweepFreesAll, StuckOnlyByRemoval, Loading
<1>7. ReportsOnlyToFamily' /\ CodeOutlivesHooks'
  BY <1>1 DEF IInv, ReportsOnlyToFamily, CodeOutlivesHooks
<1> QED  BY <1>4, <1>5, <1>6, <1>7 DEF IInv

\* When the cursor is back at the head of the list, nothing is left.
LEMMA SweepEndStep ==
    ASSUME IInv, SweepEnd
    PROVE  IInv'
<1>1. /\ phase = "sweep" /\ phase' = "unhook outgoing" /\ sweep.pos = RulesHead /\ sweep' = NoCursor
      /\ UNCHANGED <<loads, hooked, family, list, tail, used, freed, walkers, hook, cmd, grace,
                     blame, orphans, caught, found, lifted, initFailed>>
  BY DEF SweepEnd, memory, hooks, history
<1>2. family /\ used \in Nat
  BY <1>1, ListFacts DEF IInv, PhaseOK
<1>3. found \ (freed \cup lifted) = {}
  BY <1>1 DEF IInv, SweepOK, Ahead
<1>4. TypeOK'
  BY <1>1 DEF IInv, TypeOK, Phases, Leaving, Cursors, NoCursor
<1>5. PhaseOK'
  BY <1>1, <1>2 DEF IInv, PhaseOK, Loading
<1>6. CommandOK'
  BY <1>1, <1>2 DEF IInv, CommandOK, NoCursor, RulesHead
<1>7. Caught' /\ ReportsOnlyToFamily' /\ CodeOutlivesHooks'
  BY <1>1 DEF IInv, Caught, ReportsOnlyToFamily, CodeOutlivesHooks
<1>8. SweepOK' /\ SweepFreesAll' /\ StuckOnlyByRemoval'
  BY <1>1, <1>3 DEF SweepOK, SweepFreesAll, StuckOnlyByRemoval, Loading
<1> QED  BY <1>4, <1>5, <1>6, <1>7, <1>8 DEF IInv

\* One hook less at every step of the unloading.
LEMMA UnregisterHookStep ==
    ASSUME IInv, NEW turn, NEW point, NEW after, UnregisterHook(turn, point, after),
           \/ turn = "unhook outgoing" /\ point = "outgoing" /\ after = "unhook ingoing"
           \/ turn = "unhook ingoing" /\ point = "ingoing" /\ after = "unregister"
    PROVE  IInv'
<1>1. /\ phase = turn /\ phase' = after /\ hooked' = hooked \ {point}
      /\ UNCHANGED <<loads, family, list, tail, used, freed, sweep, walkers, hook, cmd, grace,
                     blame, orphans, caught, found, lifted, initFailed>>
  BY DEF UnregisterHook, memory, hooks, history
<1>2. family /\ hooked \subseteq HookPoints
  BY <1>1 DEF IInv, PhaseOK, TypeOK
<1>3. TypeOK'
  BY <1>1 DEF IInv, TypeOK, Phases, Leaving
<1>4. PhaseOK'
  BY <1>1, <1>2 DEF IInv, PhaseOK, HookPoints, Loading
<1>5. CommandOK' /\ Caught' /\ ReportsOnlyToFamily' /\ CodeOutlivesHooks'
  BY <1>1 DEF IInv, CommandOK, Caught, ReportsOnlyToFamily, CodeOutlivesHooks
<1>6. SweepOK' /\ SweepFreesAll' /\ StuckOnlyByRemoval'
  BY <1>1 DEF IInv, SweepOK, SweepFreesAll, StuckOnlyByRemoval, Loading
<1> QED  BY <1>3, <1>4, <1>5, <1>6 DEF IInv

\* After the family there are only the hooks that free_module will wait for.
LEMMA UnregisterFamilyStep ==
    ASSUME IInv, UnregisterFamily
    PROVE  IInv'
<1>1. /\ phase = "unregister" /\ phase' = "leave" /\ cmd = NoCommand /\ family' = FALSE /\ grace' = walkers
      /\ UNCHANGED <<loads, hooked, list, tail, used, freed, sweep, walkers, hook, cmd,
                     blame, orphans, caught, found, lifted, initFailed>>
  BY DEF UnregisterFamily, memory, hooks, history
<1>2. hooked = {}
  BY <1>1 DEF IInv, PhaseOK
<1>3. TypeOK'
  BY <1>1 DEF IInv, TypeOK, Phases, Leaving
<1>4. PhaseOK'
  BY <1>1, <1>2 DEF PhaseOK, Loading
<1>5. CommandOK' /\ Caught' /\ CodeOutlivesHooks'
  BY <1>1 DEF IInv, CommandOK, Caught, CodeOutlivesHooks, NoCommand
<1>6. ReportsOnlyToFamily'
  BY <1>1 DEF ReportsOnlyToFamily
<1>7. SweepOK' /\ SweepFreesAll' /\ StuckOnlyByRemoval'
  BY <1>1 DEF IInv, SweepOK, SweepFreesAll, StuckOnlyByRemoval, Loading
<1> QED  BY <1>3, <1>4, <1>5, <1>6, <1>7 DEF IInv

\* The module goes when no hook is left, unless an init has failed.
LEMMA LeaveStep ==
    ASSUME IInv, Leave
    PROVE  IInv'
<1>1. /\ phase = "leave" /\ phase' = "out" /\ grace = {} /\ hooked' = {}
      /\ orphans' = orphans \cup hooked /\ Up
      /\ blame' = IF walkers = {} THEN blame ELSE "code gone"
      /\ found' = {} /\ lifted' = {}
      /\ UNCHANGED <<loads, family, list, tail, used, freed, sweep, walkers, hook, cmd, grace,
                     caught, initFailed>>
  BY DEF Leave, memory, hooks
<1>2. ~family
  BY <1>1 DEF IInv, PhaseOK
<1>3. \/ hooked = {} /\ walkers = {}
      \/ initFailed /\ AtHead(walkers)
  BY <1>1 DEF IInv, PhaseOK
<1>4. TypeOK'
  BY <1>1 DEF IInv, TypeOK, Phases
<1>5. PhaseOK'
  BY <1>1, <1>2 DEF PhaseOK, Up, Loading
<1>6. CommandOK' /\ Caught'
  BY <1>1 DEF IInv, CommandOK, Caught
<1>7. SweepOK' /\ SweepFreesAll' /\ StuckOnlyByRemoval'
  BY <1>1 DEF SweepOK, SweepFreesAll, StuckOnlyByRemoval
<1>8. ReportsOnlyToFamily'
  <2>1. \A c \in walkers : hook[c].pos = 0
    BY <1>3 DEF AtHead, RulesHead
  <2>2. \A c \in walkers : hook[c].pos \notin Nodes
    BY <2>1 DEF Nodes
  <2> QED  BY <1>1, <2>2 DEF ReportsOnlyToFamily
<1>9. CodeOutlivesHooks'
  BY <1>1, <1>3 DEF IInv, CodeOutlivesHooks, Up
<1> QED  BY <1>4, <1>5, <1>6, <1>7, <1>8, <1>9 DEF IInv

-----------------------------------------------------------------------------
(***************************************************************************)
(* The hooks.                                                              *)
(***************************************************************************)
\* A hook that is called finds the head of a list that is sound, and rules only
\* where there is a family.
LEMMA EnterStep ==
    ASSUME IInv, NEW c0 \in Cpus, Enter(c0)
    PROVE  IInv'
<1>1. /\ Up /\ c0 \notin walkers /\ hooked # {} /\ walkers' = walkers \cup {c0}
      /\ hook' = [hook EXCEPT ![c0] = First]
      /\ UNCHANGED <<phase, loads, hooked, family, list, tail, used, freed, sweep, cmd, grace,
                     blame, orphans, caught, found, lifted, initFailed>>
  BY DEF Enter, life, memory, history
<1>2. /\ hook \in [Cpus -> Cursors] /\ walkers \subseteq Cpus
      /\ hook'[c0].pos = Succ(RulesHead) /\ hook'[c0].tmp = Succ(Succ(RulesHead))
      /\ \A c \in walkers : c # c0 /\ hook'[c] = hook[c]
  BY <1>1 DEF IInv, TypeOK, First
<1>3. /\ Succ(RulesHead) \in Places /\ Succ(Succ(RulesHead)) \in Places
      /\ Succ(RulesHead) \notin freed /\ Succ(Succ(RulesHead)) \notin freed
      /\ list = <<>> => Succ(RulesHead) = RulesHead
  BY SuccFacts, SuccNotFreed DEF IInv
<1>4. TypeOK'
  <2>1. First \in Cursors
    BY <1>3 DEF First, Cursors, Places
  <2>2. hook' \in [Cpus -> Cursors]
    BY <1>1, <1>2, <2>1
  <2>3. walkers' \subseteq Cpus /\ grace \subseteq walkers'
    BY <1>1, <1>2 DEF IInv, TypeOK
  <2> QED  BY <1>1, <2>2, <2>3 DEF IInv, TypeOK
<1>5. list = <<>> /\ AtHead(walkers) => AtHead(walkers)'
  BY <1>1, <1>2, <1>3 DEF AtHead
<1>6. PhaseOK'
  BY <1>1, <1>5 DEF IInv, PhaseOK
<1>7. CommandOK'
  BY <1>1 DEF IInv, CommandOK
<1>8. Caught'
  BY <1>1, <1>2, <1>3 DEF IInv, Caught
<1>9. SweepOK' /\ SweepFreesAll' /\ StuckOnlyByRemoval' /\ CodeOutlivesHooks'
  BY <1>1 DEF IInv, SweepOK, SweepFreesAll, StuckOnlyByRemoval, CodeOutlivesHooks
<1>10. ReportsOnlyToFamily'
  <2>1. ~family => list = <<>>
    BY <1>1 DEF IInv, TypeOK, PhaseOK, Phases, Leaving, Loading
  <2>2. ~family => hook'[c0].pos \notin Nodes
    BY <1>2, <1>3, <2>1 DEF RulesHead, Nodes
  <2> QED  BY <1>1, <1>2, <2>2 DEF IInv, ReportsOnlyToFamily
<1> QED  BY <1>4, <1>6, <1>7, <1>8, <1>9, <1>10 DEF IInv

\* The kernel goes down: nothing but that happens.
LEMMA BlameStep ==
    ASSUME IInv, blame' \in {"bad node", "no memory", "code gone"},
           blame' = "code gone" => initFailed,
           UNCHANGED <<phase, loads, hooked, family, list, tail, used, freed, sweep, walkers, hook, cmd,
                       grace, orphans, caught, found, lifted, initFailed>>
    PROVE  IInv'
<1>1. TypeOK'
  BY DEF IInv, TypeOK
<1>2. PhaseOK'
  BY DEF IInv, PhaseOK, Up, AtHead
<1>3. CommandOK' /\ Caught' /\ SweepOK'
  BY DEF IInv, CommandOK, Caught, SweepOK
<1>4. SweepFreesAll' /\ StuckOnlyByRemoval' /\ ReportsOnlyToFamily' /\ CodeOutlivesHooks'
  BY DEF IInv, SweepFreesAll, StuckOnlyByRemoval, ReportsOnlyToFamily, CodeOutlivesHooks
<1> QED  BY <1>1, <1>2, <1>3, <1>4 DEF IInv

\* Hooks are left behind, and a hook's node is bad, only as the invariant allows.
LEMMA FaultSteps ==
    ASSUME IInv, NEW c \in Cpus, EnterOrphan(c) \/ StepFaults(c)
    PROVE  IInv'
<1>1. CASE EnterOrphan(c)
  <2>1. /\ blame' = "code gone" /\ orphans # {}
        /\ UNCHANGED <<phase, loads, hooked, family, list, tail, used, freed, sweep, walkers, hook, cmd,
                       grace, orphans, caught, found, lifted, initFailed>>
    BY <1>1 DEF EnterOrphan, life, memory, hooks, history
  <2>2. initFailed
    BY <2>1 DEF IInv, CodeOutlivesHooks
  <2> QED  BY <2>1, <2>2, BlameStep
<1>2. CASE StepFaults(c)
  <2>1. /\ blame' \in {"bad node", "no memory"}
        /\ UNCHANGED <<phase, loads, hooked, family, list, tail, used, freed, sweep, walkers, hook, cmd,
                       grace, orphans, caught, found, lifted, initFailed>>
    BY <1>2 DEF StepFaults, life, memory, hooks, history
  <2> QED  BY <2>1, BlameStep
<1> QED  BY <1>1, <1>2

\* A hook that goes on to a freed node was caught when that was freed.
LEMMA StepStep ==
    ASSUME IInv, NEW c0 \in Cpus, Step(c0)
    PROVE  IInv'
<1>1. /\ c0 \in walkers /\ hook[c0].pos \in Nodes /\ hook' = [hook EXCEPT ![c0] = On(hook[c0])]
      /\ UNCHANGED <<phase, loads, hooked, family, list, tail, used, freed, sweep, walkers, cmd, grace,
                     blame, orphans, caught, found, lifted, initFailed>>
  BY DEF Step, life, memory, history
<1>2. /\ hook \in [Cpus -> Cursors]
      /\ hook'[c0].pos = hook[c0].tmp /\ hook'[c0].tmp = Succ(hook[c0].tmp)
      /\ \A c \in walkers : c # c0 => hook'[c] = hook[c]
  BY <1>1 DEF IInv, TypeOK, On
<1>3. Succ(hook[c0].tmp) \in Places /\ Succ(hook[c0].tmp) \notin freed
  BY SuccFacts, SuccNotFreed DEF IInv
<1>4. TypeOK'
  <2>1. hook[c0].tmp \in Places
    BY <1>2 DEF Cursors, Places
  <2>2. On(hook[c0]) \in Cursors
    BY <1>3, <2>1 DEF On, Cursors, Places
  <2>3. hook' \in [Cpus -> Cursors]
    BY <1>1, <1>2, <2>2
  <2> QED  BY <1>1, <2>3 DEF IInv, TypeOK
<1>5. ~AtHead(walkers)
  BY <1>1 DEF AtHead, Nodes, RulesHead
<1>6. PhaseOK'
  BY <1>1, <1>5 DEF IInv, PhaseOK, Up
<1>7. CommandOK'
  BY <1>1 DEF IInv, CommandOK
<1>8. Caught'
  BY <1>1, <1>2, <1>3 DEF IInv, Caught
<1>9. SweepOK' /\ SweepFreesAll' /\ StuckOnlyByRemoval' /\ CodeOutlivesHooks'
  BY <1>1 DEF IInv, SweepOK, SweepFreesAll, StuckOnlyByRemoval, CodeOutlivesHooks
<1>10. ReportsOnlyToFamily'
  BY <1>1, <1>2 DEF IInv, ReportsOnlyToFamily
<1> QED  BY <1>4, <1>6, <1>7, <1>8, <1>9, <1>10 DEF IInv

\* A hook that returns is waited for no longer, and holds no node.
LEMMA ReturnStep ==
    ASSUME IInv, NEW c0 \in Cpus, Return(c0)
    PROVE  IInv'
<1>1. /\ c0 \in walkers /\ walkers' = walkers \ {c0} /\ hook' = [hook EXCEPT ![c0] = NoCursor]
      /\ grace' = grace \ {c0} /\ caught' = caught \ {c0}
      /\ UNCHANGED <<phase, loads, hooked, family, list, tail, used, freed, sweep, cmd,
                     blame, orphans, found, lifted, initFailed>>
  BY DEF Return, life, memory
<1>2. /\ hook \in [Cpus -> Cursors] /\ NoCursor \in Cursors
      /\ \A c \in walkers' : c \in walkers /\ c # c0 /\ hook'[c] = hook[c]
  <2>1. hook \in [Cpus -> Cursors] /\ walkers \subseteq Cpus
    BY DEF IInv, TypeOK
  <2>2. NoCursor \in Cursors
    BY DEF NoCursor, Cursors
  <2> QED  BY <1>1, <2>1, <2>2
<1>3. TypeOK'
  <2>1. hook' \in [Cpus -> Cursors]
    BY <1>1, <1>2
  <2> QED  BY <1>1, <2>1 DEF IInv, TypeOK
<1>4. AtHead(walkers) => AtHead(walkers)'
  BY <1>2 DEF AtHead
<1>5. PhaseOK'
  BY <1>1, <1>4 DEF IInv, PhaseOK, Up
<1>6. CommandOK'
  BY <1>1 DEF IInv, CommandOK
<1>7. Caught'
  <2>1. c0 # "cmd"
    BY ModuleLifeAssumption
  <2> QED  BY <1>1, <1>2, <2>1 DEF IInv, Caught
<1>8. SweepOK' /\ SweepFreesAll' /\ StuckOnlyByRemoval' /\ CodeOutlivesHooks'
  BY <1>1 DEF IInv, SweepOK, SweepFreesAll, StuckOnlyByRemoval, CodeOutlivesHooks
<1>9. ReportsOnlyToFamily'
  BY <1>1, <1>2 DEF IInv, ReportsOnlyToFamily
<1> QED  BY <1>3, <1>5, <1>6, <1>7, <1>8, <1>9 DEF IInv

-----------------------------------------------------------------------------
(***************************************************************************)
(* The commands.                                                           *)
(***************************************************************************)
\* While there is a family, the order of loading and unloading does not depend on
\* the rules, nor on whether the kernel is still up.
LEMMA FamilyKeepsPhase ==
    ASSUME PhaseOK, TypeOK, family, UNCHANGED <<phase, hooked, family, walkers, hook, grace, initFailed>>
    PROVE  PhaseOK'
<1>1. phase \notin {"out", "leave"} \cup Loading
  BY DEF PhaseOK, Loading
<1> QED  BY <1>1 DEF PhaseOK, Loading

\* A new node is none that anybody has heard of.
LEMMA AddStartStep ==
    ASSUME IInv, AddStart
    PROVE  IInv'
<1> DEFINE n == used + 1
<1>1. /\ family /\ used < NodeCount /\ cmd = NoCommand /\ used' = n
      /\ cmd' = [kind |-> "add", new |-> n, cursor |-> [NoCursor EXCEPT !.pos = tail]]
      /\ UNCHANGED <<phase, loads, hooked, family, list, tail, freed, sweep, walkers, hook, grace,
                     blame, orphans, caught, found, lifted, initFailed>>
  BY DEF AddStart, life, hooks, history
<1>2. /\ used \in Nat /\ used <= NodeCount /\ NodeCount \in Nat /\ list \in Seq(1..used)
      /\ \A k \in DOMAIN list : list[k] \in 1..used
  BY ListFacts DEF IInv
<1>3. n \in Nat /\ n \in 1..NodeCount /\ n \in 1..n /\ n \notin -1..used /\ used <= n /\ n \in 0..NodeCount
  <2>1. used < NodeCount
    BY <1>1
  <2> QED  BY <1>2, <2>1
<1>4. 1..used \subseteq 1..n /\ 0..used \subseteq 0..n /\ -1..used \subseteq -1..n /\ 1..used \subseteq -1..used
  BY <1>2
<1>5. [NoCursor EXCEPT !.pos = tail] = [pos |-> tail, tmp |-> RulesHead]
  BY DEF NoCursor
<1> HIDE DEF n
<1>6. TypeOK'
  <2>1. list \in Seq(1..n)
    BY <1>2, <1>4, SeqMonotonic
  <2>2. tail \in 0..n /\ freed \subseteq 1..n
    BY <1>4 DEF IInv, TypeOK
  <2>3. cmd' \in [kind : {"none", "add", "remove", "renumber", "list", "dead"},
                  cursor : Cursors, new : Nodes \cup {RulesHead}]
    <3>1. tail \in Nodes \cup {RulesHead, Poison}
      <4>1. tail \in 0..used
        BY DEF IInv, TypeOK
      <4> QED  BY <1>2, <4>1 DEF Nodes, RulesHead
    <3>2. [NoCursor EXCEPT !.pos = tail] \in Cursors
      BY <1>5, <3>1 DEF Cursors
    <3>3. n \in Nodes
      BY <1>3 DEF Nodes
    <3> QED  BY <1>1, <3>2, <3>3
  <2> QED  BY <1>1, <1>3, <2>1, <2>2, <2>3 DEF IInv, TypeOK
<1>7. PhaseOK'
  BY <1>1, FamilyKeepsPhase DEF IInv
<1>8. CommandOK'
  <2>1. sweep.pos \in -1..used /\ sweep.tmp \in -1..used /\ sweep \in [pos : -1..n, tmp : -1..n]
    BY <1>4 DEF IInv, CommandOK
  <2>2. n \notin freed /\ n # sweep.pos /\ n # sweep.tmp
    <3>1. freed \subseteq 1..used
      BY DEF IInv, TypeOK
    <3> QED  BY <1>3, <1>4, <2>1, <3>1
  <2>3. ~In(n, list)
    BY <1>2, <1>3, <1>4 DEF In
  <2>4. cmd'.kind = "add" /\ cmd'.new = n /\ cmd' # NoCommand
    BY <1>1 DEF NoCommand
  <2> QED  BY <1>1, <1>3, <2>1, <2>2, <2>3, <2>4 DEF IInv, CommandOK
<1>9. Caught'
  BY <1>1 DEF IInv, Caught
<1>10. SweepOK' /\ SweepFreesAll' /\ StuckOnlyByRemoval' /\ ReportsOnlyToFamily' /\ CodeOutlivesHooks'
  BY <1>1 DEF IInv, SweepOK, SweepFreesAll, StuckOnlyByRemoval, ReportsOnlyToFamily, CodeOutlivesHooks
<1> QED  BY <1>6, <1>7, <1>8, <1>9, <1>10 DEF IInv

\* The node comes to the end of the list, or is lost.
LEMMA AddEndStep ==
    ASSUME IInv, AddEnd
    PROVE  IInv'
<1> DEFINE n      == cmd.new
           longer == Append(list, n)
<1>1. /\ cmd.kind = "add" /\ list' \in {list, longer} /\ tail' = n /\ cmd' = NoCommand
      /\ blame' \in {blame, "bad node"} /\ caught' = caught \ {"cmd"}
      /\ UNCHANGED <<phase, loads, hooked, family, used, freed, sweep, walkers, hook, grace, orphans,
                     found, lifted, initFailed>>
  BY DEF AddEnd, life, hooks
<1>2. /\ family /\ n \in 1..used /\ n \notin freed /\ ~In(n, list) /\ n # sweep.pos /\ n # sweep.tmp
  <2>1. cmd.kind = "add"
    BY <1>1
  <2>2. cmd # NoCommand
    BY <2>1 DEF NoCommand
  <2> QED  BY <2>1, <2>2 DEF IInv, CommandOK
<1>3. /\ list \in Seq(1..used) /\ used \in Nat /\ Len(list) \in Nat /\ DOMAIN list = 1..Len(list)
      /\ \A j, k \in DOMAIN list : list[j] = list[k] => j = k
      /\ \A k \in DOMAIN list : list[k] \notin freed
  BY ListFacts DEF IInv, CommandOK
<1> HIDE DEF n
<1>4. /\ longer \in Seq(1..used) /\ DOMAIN longer = 1..Len(list) + 1 /\ longer[Len(list) + 1] = n
      /\ \A k \in DOMAIN list : longer[k] = list[k]
  BY <1>2, <1>3, AppendProperties, LenProperties
<1> HIDE DEF longer
<1>5. \A k \in DOMAIN longer : (k \in DOMAIN list /\ longer[k] = list[k]) \/ (k = Len(list) + 1 /\ longer[k] = n)
  BY <1>3, <1>4
<1>6. IsInjective(longer)
  <2>1. \A k \in DOMAIN list : list[k] # n
    BY <1>2 DEF In
  <2>2. \A j, k \in DOMAIN longer : longer[j] = longer[k] => j = k
    BY <1>3, <1>5, <2>1
  <2> QED  BY <2>2 DEF IsInjective
<1>7. TypeOK'
  <2>1. list' \in Seq(1..used) /\ IsInjective(list')
    BY <1>1, <1>4, <1>6 DEF IInv, TypeOK
  <2>2. n \in 0..used
    BY <1>2, <1>3
  <2>3. NoCommand \in [kind : {"none", "add", "remove", "renumber", "list", "dead"},
                       cursor : Cursors, new : Nodes \cup {RulesHead}]
    BY DEF NoCommand, NoCursor, Cursors
  <2> QED  BY <1>1, <2>1, <2>2, <2>3 DEF IInv, TypeOK
<1>8. PhaseOK'
  BY <1>1, <1>2, FamilyKeepsPhase DEF IInv
<1>9. CommandOK'
  <2>1. \A k \in DOMAIN list' : list'[k] \notin freed
    BY <1>1, <1>2, <1>3, <1>5
  <2> QED  BY <1>1, <2>1 DEF IInv, CommandOK, NoCommand
<1>10. Caught'
  <2>1. "cmd" \notin walkers
    BY ModuleLifeAssumption DEF IInv, TypeOK
  <2>2. NoCommand.cursor.pos = 0 /\ NoCommand.cursor.tmp = 0 /\ 0 \notin freed
    <3>1. freed \subseteq 1..used
      BY DEF IInv, TypeOK
    <3> QED  BY <1>3, <3>1 DEF NoCommand, NoCursor, RulesHead
  <2> QED  BY <1>1, <2>1, <2>2 DEF IInv, Caught
<1>11. SweepOK'
  <2>1. ASSUME NEW left, Ahead(sweep, list, left)
        PROVE  Ahead(sweep, longer, left) /\ (AtFirst(sweep, list) => AtFirst(sweep, longer))
    BY <1>2, <1>3, <2>1, AheadAppend DEF longer
  <2> QED  BY <1>1, <2>1 DEF IInv, SweepOK, Loading
<1>12. SweepFreesAll' /\ StuckOnlyByRemoval' /\ ReportsOnlyToFamily' /\ CodeOutlivesHooks'
  BY <1>1 DEF IInv, SweepFreesAll, StuckOnlyByRemoval, ReportsOnlyToFamily, CodeOutlivesHooks
<1> QED  BY <1>7, <1>8, <1>9, <1>10, <1>11, <1>12 DEF IInv

\* What a walk does to its cursor, and to nothing but the command.
LEMMA WalkMoves ==
    ASSUME IInv, family,
           UNCHANGED <<phase, loads, hooked, family, list, tail, used, freed, sweep, walkers, hook, grace,
                       blame, orphans, caught, found, lifted, initFailed>>,
           cmd' \in [kind : {"remove", "renumber", "list", "dead"}, cursor : Cursors, new : Nodes \cup {RulesHead}],
           cmd'.cursor.pos \in freed \/ cmd'.cursor.tmp \in freed => "cmd" \in caught
    PROVE  IInv'
<1>1. TypeOK'
  BY DEF IInv, TypeOK
<1>2. PhaseOK'
  BY FamilyKeepsPhase DEF IInv
<1>3. cmd'.kind \notin {"none", "add"} /\ cmd' # NoCommand
  BY DEF NoCommand
<1>4. CommandOK' /\ Caught'
  BY <1>3 DEF IInv, CommandOK, Caught
<1>5. SweepOK' /\ SweepFreesAll' /\ StuckOnlyByRemoval' /\ ReportsOnlyToFamily' /\ CodeOutlivesHooks'
  BY DEF IInv, SweepOK, SweepFreesAll, StuckOnlyByRemoval, ReportsOnlyToFamily, CodeOutlivesHooks
<1> QED  BY <1>1, <1>2, <1>4, <1>5 DEF IInv

\* A walk begins at the head of a list that is sound.
LEMMA WalkStartStep ==
    ASSUME IInv, NEW kind \in {"remove", "list"}, WalkStart(kind)
    PROVE  IInv'
<1>1. /\ family /\ cmd' = [kind |-> kind, cursor |-> First, new |-> RulesHead]
      /\ UNCHANGED <<phase, loads, hooked, family, list, tail, used, freed, sweep, walkers, hook, grace,
                     blame, orphans, caught, found, lifted, initFailed>>
  BY DEF WalkStart, life, memory, hooks, history
<1>2. First \in Cursors /\ First.pos \notin freed /\ First.tmp \notin freed
  BY SuccFacts, SuccNotFreed DEF IInv, First, Cursors, Places
<1>3. cmd' \in [kind : {"remove", "renumber", "list", "dead"}, cursor : Cursors, new : Nodes \cup {RulesHead}]
  BY <1>1, <1>2
<1>4. cmd'.cursor.pos \notin freed /\ cmd'.cursor.tmp \notin freed
  BY <1>1, <1>2
<1> QED  BY <1>1, <1>3, <1>4, WalkMoves

\* What the cursor of a walk is like.
LEMMA WalkFacts ==
    ASSUME IInv, Walking
    PROVE  /\ family /\ cmd.kind \in {"remove", "renumber", "list"} /\ cmd.new \in Nodes \cup {RulesHead}
           /\ DOMAIN cmd = {"kind", "cursor", "new"} /\ cmd.cursor \in Cursors
           /\ cmd.cursor.pos \in freed \/ cmd.cursor.tmp \in freed => "cmd" \in caught
           /\ On(cmd.cursor) \in Cursors
           /\ On(cmd.cursor).pos = cmd.cursor.tmp /\ On(cmd.cursor).tmp \notin freed
<1>1. cmd.kind \in {"remove", "renumber", "list"}
  BY DEF Walking
<1>2. family
  <2>1. cmd # NoCommand
    BY <1>1 DEF NoCommand
  <2> QED  BY <2>1 DEF IInv, CommandOK
<1>3. /\ cmd.new \in Nodes \cup {RulesHead} /\ DOMAIN cmd = {"kind", "cursor", "new"}
      /\ cmd.cursor \in Cursors
  BY DEF IInv, TypeOK
<1>4. cmd.cursor.pos \in freed \/ cmd.cursor.tmp \in freed => "cmd" \in caught
  BY <1>1 DEF IInv, Caught
<1>5. cmd.cursor.tmp \in Places
  BY <1>3 DEF Cursors, Places
<1>6. Succ(cmd.cursor.tmp) \in Places /\ Succ(cmd.cursor.tmp) \notin freed
  BY SuccFacts, SuccNotFreed DEF IInv
<1>7. /\ On(cmd.cursor) \in Cursors /\ On(cmd.cursor).pos = cmd.cursor.tmp
      /\ On(cmd.cursor).tmp \notin freed
  BY <1>5, <1>6 DEF On, Cursors, Places
<1> QED  BY <1>1, <1>2, <1>3, <1>4, <1>7

\* A walk goes on, or ends in an oops, where a freed node was caught at it or not.
LEMMA WalkOnStep ==
    ASSUME IInv, WalkOn \/ WalkOops
    PROVE  IInv'
<1>1. UNCHANGED <<phase, loads, hooked, family, list, tail, used, freed, sweep, walkers, hook, grace,
                  blame, orphans, caught, found, lifted, initFailed>>
  BY DEF WalkOn, WalkOops, life, memory, hooks, history
<1>2. Walking
  BY DEF WalkOn, WalkOops
<1>3. cmd \in [kind : {"none", "add", "remove", "renumber", "list", "dead"},
               cursor : Cursors, new : Nodes \cup {RulesHead}]
  BY DEF IInv, TypeOK
<1>4. CASE WalkOn
  <2>1. cmd' = [cmd EXCEPT !.cursor = On(cmd.cursor)]
    BY <1>4 DEF WalkOn
  <2>2. cmd'.cursor = On(cmd.cursor) /\ cmd'.kind = cmd.kind
    BY <1>3, <2>1
  <2>3. cmd' \in [kind : {"remove", "renumber", "list", "dead"}, cursor : Cursors, new : Nodes \cup {RulesHead}]
    BY <1>2, <1>3, <2>1, WalkFacts
  <2>4. cmd'.cursor.pos \in freed \/ cmd'.cursor.tmp \in freed => "cmd" \in caught
    BY <1>2, <2>2, WalkFacts
  <2> QED  BY <1>1, <1>2, <2>3, <2>4, WalkFacts, WalkMoves
<1>5. CASE WalkOops
  <2>1. cmd' = [cmd EXCEPT !.kind = "dead"]
    BY <1>5 DEF WalkOops
  <2>2. cmd'.cursor = cmd.cursor
    BY <1>3, <2>1
  <2>3. cmd' \in [kind : {"remove", "renumber", "list", "dead"}, cursor : Cursors, new : Nodes \cup {RulesHead}]
    BY <1>3, <2>1
  <2>4. cmd'.cursor.pos \in freed \/ cmd'.cursor.tmp \in freed => "cmd" \in caught
    BY <1>2, <2>2, WalkFacts
  <2> QED  BY <1>1, <1>2, <2>3, <2>4, WalkFacts, WalkMoves
<1> QED  BY <1>4, <1>5

\* A removal may take a node from under free_list, and is then remembered.
LEMMA WalkRemovesStep ==
    ASSUME IInv, WalkRemoves
    PROVE  IInv'
<1> DEFINE pos  == cmd.cursor.pos
           left == found \ (freed \cup lifted)
           rest == found \ (freed \cup lifted')
<1>1. /\ Listed(pos) /\ list' = Without(pos) /\ tail' = LastOf(list')
      /\ lifted' = IF phase = "sweep" THEN lifted \cup {pos} ELSE lifted
      /\ cmd' = [cmd EXCEPT !.kind = "renumber", !.cursor = On(cmd.cursor)]
      /\ UNCHANGED <<phase, loads, hooked, family, used, freed, sweep, walkers, hook, grace, blame,
                     orphans, caught, found, initFailed>>
  BY DEF WalkRemoves, life, hooks
<1>2. /\ Walking /\ used \in Nat /\ 1..used \subseteq Nodes /\ Len(list) \in Nat /\ DOMAIN list = 1..Len(list)
      /\ \A k \in DOMAIN list : list[k] \in 1..used
  BY ListFacts DEF IInv, WalkRemoves
<1>3. PICK p \in DOMAIN list :
                /\ list[p] = pos /\ list' \in Seq(1..used) /\ Len(list') = Len(list) - 1
                /\ DOMAIN list' = 1..Len(list) - 1
                /\ \A j \in 1..Len(list) - 1 : list'[j] = IF j < p THEN list[j] ELSE list[j+1]
                /\ IsInjective(list')
                /\ \A m : In(m, list') <=> In(m, list) /\ m # pos
  <2> HIDE DEF pos
  <2> QED  BY <1>1, WithoutFacts DEF IInv
<1>4. /\ family /\ On(cmd.cursor) \in Cursors
      /\ cmd' \in [kind : {"renumber"}, cursor : {On(cmd.cursor)}, new : Nodes \cup {RulesHead}]
  <2>1. cmd \in [kind : {"none", "add", "remove", "renumber", "list", "dead"},
                 cursor : Cursors, new : Nodes \cup {RulesHead}]
    BY DEF IInv, TypeOK
  <2>2. family /\ On(cmd.cursor) \in Cursors
    BY <1>2, WalkFacts
  <2> QED  BY <1>1, <2>1, <2>2
<1>5. pos \in Nodes
  BY <1>2, <1>3
<1> HIDE DEF pos
<1>6. TypeOK'
  <2>1. LastOf(list') \in 0..used
    BY <1>2, <1>3, LastOfFacts
  <2>2. lifted' \subseteq Nodes
    BY <1>1, <1>5 DEF IInv, TypeOK
  <2>3. cmd' \in [kind : {"none", "add", "remove", "renumber", "list", "dead"},
                  cursor : Cursors, new : Nodes \cup {RulesHead}]
    BY <1>4
  <2> QED  BY <1>1, <1>3, <2>1, <2>2, <2>3 DEF IInv, TypeOK
<1>7. PhaseOK'
  BY <1>1, <1>4, FamilyKeepsPhase DEF IInv
<1>8. cmd'.kind = "renumber" /\ cmd' # NoCommand /\ cmd'.cursor = On(cmd.cursor)
  BY <1>4 DEF NoCommand
<1>9. CommandOK'
  <2>1. \A k \in DOMAIN list' : In(list'[k], list)
    BY <1>3 DEF In
  <2>2. \A k \in DOMAIN list' : list'[k] \notin freed
    BY <2>1 DEF IInv, CommandOK, In
  <2> QED  BY <1>1, <1>4, <1>8, <2>2 DEF IInv, CommandOK
<1>10. Caught'
  <2>1. cmd'.cursor.pos \in freed \/ cmd'.cursor.tmp \in freed => "cmd" \in caught
    BY <1>2, <1>8, WalkFacts
  <2> QED  BY <1>1, <2>1 DEF IInv, Caught
<1>11. SweepOK'
  <2>1. phase = "sweep" => Ahead(sweep, list, left)
    BY DEF IInv, SweepOK
  <2>2. Shorter(list, p, list')
    BY <1>2, <1>3 DEF Shorter, Up1
  <2>3. phase = "sweep" => rest \subseteq left \ {list[p]}
    BY <1>1, <1>3
  <2>4. phase = "sweep" => Ahead(sweep, list', rest)
    <3> HIDE DEF left, rest
    <3> QED  BY <2>1, <2>2, <2>3, AheadShorter
  <2>5. phase = "sweep" => lifted' # {}
    BY <1>1
  <2>6. phase \notin {"out"} \cup Loading
    BY <1>4 DEF IInv, PhaseOK, Loading
  <2>7. phase # "sweep" => lifted' = lifted
    BY <1>1
  <2> QED  BY <1>1, <2>4, <2>5, <2>6, <2>7 DEF IInv, SweepOK
<1>12. SweepFreesAll' /\ StuckOnlyByRemoval' /\ ReportsOnlyToFamily' /\ CodeOutlivesHooks'
  BY <1>1 DEF IInv, SweepFreesAll, StuckOnlyByRemoval, ReportsOnlyToFamily, CodeOutlivesHooks
<1> QED  BY <1>6, <1>7, <1>9, <1>10, <1>11, <1>12 DEF IInv

\* A command that is over holds no node.
LEMMA WalkEndStep ==
    ASSUME IInv, WalkEnd
    PROVE  IInv'
<1>1. /\ Walking /\ cmd' = NoCommand /\ caught' = caught \ {"cmd"}
      /\ UNCHANGED <<phase, loads, hooked, family, list, tail, used, freed, sweep, walkers, hook, grace,
                     blame, orphans, found, lifted, initFailed>>
  BY DEF WalkEnd, life, memory, hooks
<1>2. family
  BY <1>1, WalkFacts
<1>3. TypeOK'
  <2>1. NoCommand \in [kind : {"none", "add", "remove", "renumber", "list", "dead"},
                       cursor : Cursors, new : Nodes \cup {RulesHead}]
    BY DEF NoCommand, NoCursor, Cursors
  <2> QED  BY <1>1, <2>1 DEF IInv, TypeOK
<1>4. PhaseOK'
  BY <1>1, <1>2, FamilyKeepsPhase DEF IInv
<1>5. CommandOK'
  BY <1>1 DEF IInv, CommandOK, NoCommand
<1>6. Caught'
  <2>1. "cmd" \notin walkers
    BY ModuleLifeAssumption DEF IInv, TypeOK
  <2>2. NoCommand.cursor.pos = 0 /\ NoCommand.cursor.tmp = 0 /\ 0 \notin freed
    <3>1. freed \subseteq 1..used /\ used \in Nat
      BY ListFacts DEF IInv, TypeOK
    <3> QED  BY <3>1 DEF NoCommand, NoCursor, RulesHead
  <2> QED  BY <1>1, <2>1, <2>2 DEF IInv, Caught
<1>7. SweepOK' /\ SweepFreesAll' /\ StuckOnlyByRemoval' /\ ReportsOnlyToFamily' /\ CodeOutlivesHooks'
  BY <1>1 DEF IInv, SweepOK, SweepFreesAll, StuckOnlyByRemoval, ReportsOnlyToFamily, CodeOutlivesHooks
<1> QED  BY <1>3, <1>4, <1>5, <1>6, <1>7 DEF IInv

-----------------------------------------------------------------------------
(***************************************************************************)
(* The theorems.                                                           *)
(***************************************************************************)
\* Nothing is loaded when the kernel comes up.
LEMMA InitIInv == Init => IInv
<1> SUFFICES ASSUME Init PROVE IInv
  OBVIOUS
<1>1. /\ phase = "out" /\ loads = 0 /\ hooked = {} /\ family = FALSE
      /\ list = <<>> /\ tail = RulesHead /\ used = 0 /\ freed = {} /\ sweep = NoCursor
      /\ walkers = {} /\ hook = [c \in Cpus |-> NoCursor] /\ cmd = NoCommand /\ grace = {}
      /\ blame = "nobody" /\ orphans = {} /\ caught = {} /\ found = {} /\ lifted = {} /\ initFailed = FALSE
  BY DEF Init
<1>2. DOMAIN list = {} /\ list \in Seq(1..used) /\ IsInjective(list)
  <2>1. DOMAIN list = {}
    <3>1. DOMAIN <<>> = {}
      OBVIOUS
    <3> QED  BY <1>1, <3>1
  <2>2. list \in Seq(1..used)
    BY <1>1
  <2> QED  BY <2>1, <2>2 DEF IsInjective
<1>3. TypeOK
  <2>1. NoCursor \in Cursors
    BY DEF NoCursor, Cursors
  <2>2. NoCommand \in [kind : {"none", "add", "remove", "renumber", "list", "dead"},
                       cursor : Cursors, new : Nodes \cup {RulesHead}]
    BY <2>1 DEF NoCommand
  <2>3. loads \in 0..MaxLoads /\ used \in 0..NodeCount
    BY <1>1, ModuleLifeAssumption
  <2>4. hook \in [Cpus -> Cursors]
    BY <1>1, <2>1
  <2>5. tail \in 0..used
    BY <1>1 DEF RulesHead
  <2> QED  BY <1>1, <1>2, <2>1, <2>2, <2>3, <2>4, <2>5 DEF TypeOK, Phases
<1>4. PhaseOK
  BY <1>1 DEF PhaseOK, Loading
<1>5. CommandOK
  <2>1. NoCursor \in [pos : -1..used, tmp : -1..used]
    BY <1>1 DEF NoCursor, RulesHead
  <2> QED  BY <1>1, <1>2, <2>1 DEF CommandOK, NoCommand
<1>6. Caught /\ SweepOK
  BY <1>1 DEF Caught, SweepOK
<1>7. SweepFreesAll /\ StuckOnlyByRemoval /\ ReportsOnlyToFamily /\ CodeOutlivesHooks
  BY <1>1 DEF SweepFreesAll, StuckOnlyByRemoval, ReportsOnlyToFamily, CodeOutlivesHooks
<1> QED  BY <1>3, <1>4, <1>5, <1>6, <1>7 DEF IInv

\* Every step of the module, a hook or a command keeps the invariant.
LEMMA NextIInv == IInv /\ [Next]_vars => IInv'
<1> SUFFICES ASSUME IInv, [Next]_vars PROVE IInv'
  OBVIOUS
<1>1. CASE UNCHANGED vars
  <2>1. UNCHANGED <<phase, loads, hooked, family, list, tail, used, freed, sweep, walkers, hook, cmd, grace,
                    blame, orphans, caught, found, lifted, initFailed>>
    BY <1>1 DEF vars, life, memory, hooks, history
  <2>2. TypeOK' /\ PhaseOK' /\ CommandOK'
    <3>1. TypeOK'
      BY <2>1 DEF IInv, TypeOK
    <3>2. PhaseOK'
      BY <2>1 DEF IInv, PhaseOK, AtHead, Up
    <3>3. CommandOK'
      BY <2>1 DEF IInv, CommandOK
    <3> QED  BY <3>1, <3>2, <3>3
  <2>3. Caught' /\ SweepOK'
    BY <2>1 DEF IInv, Caught, SweepOK
  <2>4. SweepFreesAll' /\ StuckOnlyByRemoval' /\ ReportsOnlyToFamily' /\ CodeOutlivesHooks'
    BY <2>1 DEF IInv, SweepFreesAll, StuckOnlyByRemoval, ReportsOnlyToFamily, CodeOutlivesHooks
  <2> QED  BY <2>2, <2>3, <2>4 DEF IInv
<1>2. CASE LifeStep
  <2>1. CASE Insmod
    BY <2>1, InsmodStep
  <2>2. CASE RegisterHook("hook outgoing", "outgoing", "hook ingoing")
    BY <2>2, RegisterHookStep DEF HookPoints
  <2>3. CASE RegisterHook("hook ingoing", "ingoing", "register")
    BY <2>3, RegisterHookStep DEF HookPoints
  <2>4. CASE RegisterFamily
    BY <2>4, RegisterFamilyStep
  <2>5. CASE Rmmod
    BY <2>5, RmmodStep
  <2>6. CASE SweepNode
    BY <2>6, SweepNodeStep
  <2>7. CASE SweepOops
    BY <2>7, SweepOopsStep
  <2>8. CASE SweepEnd
    BY <2>8, SweepEndStep
  <2>9. CASE UnregisterHook("unhook outgoing", "outgoing", "unhook ingoing")
    BY <2>9, UnregisterHookStep
  <2>10. CASE UnregisterHook("unhook ingoing", "ingoing", "unregister")
    BY <2>10, UnregisterHookStep
  <2>11. CASE UnregisterFamily
    BY <2>11, UnregisterFamilyStep
  <2>12. CASE Leave
    BY <2>12, LeaveStep
  <2> QED  BY <1>2, <2>1, <2>2, <2>3, <2>4, <2>5, <2>6, <2>7, <2>8, <2>9, <2>10, <2>11, <2>12 DEF LifeStep
<1>3. ASSUME NEW c \in Cpus, Enter(c) \/ EnterOrphan(c) \/ HookStep(c)
      PROVE  IInv'
  <2>1. CASE Enter(c)
    BY <2>1, EnterStep
  <2>2. CASE EnterOrphan(c) \/ StepFaults(c)
    BY <2>2, FaultSteps
  <2>3. CASE Step(c)
    BY <2>3, StepStep
  <2>4. CASE Return(c)
    BY <2>4, ReturnStep
  <2> QED  BY <1>3, <2>1, <2>2, <2>3, <2>4 DEF HookStep
<1>4. CASE AddStart
  BY <1>4, AddStartStep
<1>5. CASE WalkStart("remove") \/ WalkStart("list")
  BY <1>5, WalkStartStep
<1>6. CASE CommandStep
  <2>1. CASE AddEnd
    BY <2>1, AddEndStep
  <2>2. CASE WalkOn \/ WalkOops
    BY <2>2, WalkOnStep
  <2>3. CASE WalkRemoves
    BY <2>3, WalkRemovesStep
  <2>4. CASE WalkEnd
    BY <2>4, WalkEndStep
  <2> QED  BY <1>6, <2>1, <2>2, <2>3, <2>4 DEF CommandStep
<1> QED  BY <1>1, <1>2, <1>3, <1>4, <1>5, <1>6 DEF Next

\* The inductive invariant holds in every state of every run.
THEOREM SpecIInv == Spec => []IInv
<1> QED  BY InitIInv, NextIInv, PTL DEF Spec

\* The module's state is what its type invariant says, however it is loaded and
\* unloaded, and whatever runs next to it.
THEOREM SpecTypeOK == Spec => []TypeOK
<1>1. IInv => TypeOK
  BY DEF IInv
<1> QED  BY <1>1, SpecIInv, PTL

\* Whoever is at a node that free_list has freed was under way when it was freed:
\* no hook or command that starts later comes to one.
THEOREM SpecFreedOnlyUnderTheRunning == Spec => []FreedOnlyUnderTheRunning
<1>1. IInv => FreedOnlyUnderTheRunning
  BY DEF IInv, Caught, FreedOnlyUnderTheRunning
<1> QED  BY <1>1, SpecIInv, PTL

\* free_list misses no rule that was there when it began, whatever is added next
\* to it, unless a removal took the rule.
THEOREM SpecSweepFreesAll == Spec => []SweepFreesAll
<1>1. IInv => SweepFreesAll
  BY DEF IInv
<1> QED  BY <1>1, SpecIInv, PTL

\* rmmod can end in an oops only where a removal ran next to free_list.
THEOREM SpecStuckOnlyByRemoval == Spec => []StuckOnlyByRemoval
<1>1. IInv => StuckOnlyByRemoval
  BY DEF IInv
<1> QED  BY <1>1, SpecIInv, PTL

\* A hook at a rule has a family to report to, or is one that unloading waits for.
THEOREM SpecReportsOnlyToFamily == Spec => []ReportsOnlyToFamily
<1>1. IInv => ReportsOnlyToFamily
  BY DEF IInv
<1> QED  BY <1>1, SpecIInv, PTL

\* Without a failed init, no hook runs, or is registered, without its code.
THEOREM SpecCodeOutlivesHooks == Spec => []CodeOutlivesHooks
<1>1. IInv => CodeOutlivesHooks
  BY DEF IInv
<1> QED  BY <1>1, SpecIInv, PTL

=============================================================================
