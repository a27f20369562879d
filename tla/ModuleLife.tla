----------------------------- MODULE ModuleLife -----------------------------
(***************************************************************************)
(* The kernel module from insmod to rmmod (kernel_module/firewall.c), next *)
(* to the packet hooks and the netlink commands that run meanwhile.  Init  *)
(* and exit take one step per call they make.  They share no lock with     *)
(* hooks or commands: free_list cuts the list up under both.               *)
(* The list is the sequence of its nodes; a hook or a command is at one of *)
(* them and has loaded the next one (list_for_each_entry_safe).  A node    *)
(* that was taken out has LIST_POISON1 behind it.  (The stores list_del    *)
(* and list_add_tail are made of, and the ids, are the matter of RuleList  *)
(* and RuleTable.)                                                         *)
(***************************************************************************)
EXTENDS Integers, SequencesExt

CONSTANTS
    Cpus,           \* the processors hooks run on
    NodeCount,      \* bound: nodes that kmalloc ever hands out
    MaxLoads        \* bound: times the module is loaded

\* "cmd" stands for the command next to the hooks' processors.
ASSUME ModuleLifeAssumption == NodeCount \in Nat /\ MaxLoads \in Nat /\ "cmd" \notin Cpus

Nodes     == 1..NodeCount
RulesHead == 0
Poison    == -1
HookPoints == {"outgoing", "ingoing"}

VARIABLES
    phase,      \* what init or exit does next; "out", "live" and "stuck" are rests
    loads,      \* how often the module has been loaded
    hooked,     \* the hooks netfilter calls
    family,     \* the netlink family is registered
    list,       \* the nodes on the list, in order
    tail,       \* the node before the list's head, where add_rule links the next
    used,       \* how many nodes kmalloc has handed out
    freed,      \* the nodes that have been given back to it
    sweep,      \* the cursor of free_list: [pos, tmp]
    walkers,    \* the processors that run a hook
    hook,       \* per processor: its hook's cursor
    cmd,        \* the command that has the mutex: [kind, cursor, new]
    grace,      \* the hooks that free_module still waits for
    blame,      \* what has brought the kernel down, or "nobody"
    orphans,    \* the hooks netfilter calls although their code is gone
    caught,     \* history: the hooks, and "cmd", that run and had a node freed meanwhile
    found,      \* history: the nodes on the list when free_list began, until the module is out
    lifted,     \* history: the nodes removed while free_list runs
    initFailed  \* history: the family could not be registered

life    == <<phase, loads, hooked, family>>
memory  == <<list, tail, used, freed>>
hooks   == <<walkers, hook>>
history == <<caught, found, lifted, initFailed>>
vars    == <<life, memory, sweep, hooks, cmd, grace, blame, orphans, history>>

NoCursor  == [pos |-> RulesHead, tmp |-> RulesHead]
NoCommand == [kind |-> "none", cursor |-> NoCursor, new |-> RulesHead]

Init ==
    /\ phase = "out" /\ loads = 0 /\ hooked = {} /\ family = FALSE
    /\ list = <<>> /\ tail = RulesHead /\ used = 0 /\ freed = {}
    /\ sweep = NoCursor
    /\ walkers = {} /\ hook = [c \in Cpus |-> NoCursor]
    /\ cmd = NoCommand
    /\ grace = {}
    /\ blame = "nobody" /\ orphans = {}
    /\ caught = {} /\ found = {} /\ lifted = {} /\ initFailed = FALSE

Up == blame = "nobody"

Listed(n) == \E i \in DOMAIN list : list[i] = n

Succ(n) ==
    IF n = RulesHead THEN IF list = <<>> THEN RulesHead ELSE Head(list)
    ELSE IF ~Listed(n) THEN Poison
    ELSE LET i == CHOOSE i \in DOMAIN list : list[i] = n
         IN  IF i = Len(list) THEN RulesHead ELSE list[i + 1]

Without(n) == RemoveFirst(list, n)

LastOf(nodes) == IF nodes = <<>> THEN RulesHead ELSE Last(nodes)

\* list_for_each_entry_safe: its first two loads, and its step.
First    == [pos |-> Succ(RulesHead), tmp |-> Succ(Succ(RulesHead))]
On(at)   == [pos |-> at.tmp, tmp |-> Succ(at.tmp)]

\* A place that is no node of a list any more, or is nowhere.
Bad(n) == n \in freed \cup {Poison}

-----------------------------------------------------------------------------
(***************************************************************************)
(* packet_saver_init.                                                      *)
(***************************************************************************)
\* Mutant: the list is the one of the last load.
Insmod_KEEPS ==
    /\ Up /\ phase = "out" /\ loads < MaxLoads
    /\ loads' = loads + 1
    /\ phase' \in {"hook outgoing", "stuck"}
    /\ UNCHANGED <<hooked, family, memory, sweep, hooks, cmd, grace, blame, orphans, history>>

\* A list without rules, and the two nf_hook_ops.  Nothing checks the latter:
\* where one is NULL, configure_nf_ops oopses and the module can neither go on
\* nor be removed.  (Where the list's head is NULL, insmod fails and that is all.)
Insmod ==
    /\ Up /\ phase = "out" /\ loads < MaxLoads
    /\ loads' = loads + 1
    /\ phase' \in {"hook outgoing", "stuck"}
    /\ list' = <<>> /\ tail' = RulesHead
    /\ UNCHANGED <<hooked, family, used, freed, sweep, hooks, cmd, grace, blame, orphans, history>>

\* nf_register_net_hook, twice.  It can fail, and nobody looks.
RegisterHook(turn, point, after) ==
    /\ Up /\ phase = turn
    /\ hooked' \in {hooked, hooked \cup {point}}
    /\ phase' = after
    /\ UNCHANGED <<loads, family, memory, sweep, hooks, cmd, grace, blame, orphans, history>>

\* register_netlink.  When it fails, so does init, and the kernel discards the
\* module with its hooks still registered.
RegisterFamily ==
    /\ Up /\ phase = "register"
    /\ \/ family' = TRUE /\ phase' = "live"
          /\ UNCHANGED <<grace, initFailed>>
       \/ family' = FALSE /\ phase' = "leave"
          /\ grace' = walkers
          /\ initFailed' = TRUE
    /\ UNCHANGED <<loads, hooked, memory, sweep, hooks, cmd, blame, orphans, caught, found, lifted>>

-----------------------------------------------------------------------------
(***************************************************************************)
(* packet_saver_exit.                                                      *)
(***************************************************************************)
\* free_list: the loop's first two loads.
Rmmod ==
    /\ Up /\ phase = "live"
    /\ phase' = "sweep"
    /\ sweep' = First
    /\ found' = Range(list)
    /\ UNCHANGED <<loads, hooked, family, memory, hooks, cmd, grace, blame, orphans, caught, lifted, initFailed>>

\* Mutant: the node behind the cursor is loaded when the one at it is gone, as
\* list_for_each_entry would.
SweepNode_UNSAFE ==
    /\ Up /\ phase = "sweep" /\ Listed(sweep.pos)
    /\ list' = Without(sweep.pos)
    /\ tail' = LastOf(list')
    /\ freed' = freed \cup {sweep.pos}
    /\ sweep' = [pos |-> Poison, tmp |-> Poison]
    /\ caught' = caught \cup walkers \cup (IF cmd.kind = "none" THEN {} ELSE {"cmd"})
    /\ UNCHANGED <<life, used, hooks, cmd, grace, blame, orphans, found, lifted, initFailed>>

\* Mutant: the walk advances once too often, and misses every other node.
SweepNode_SKIPS ==
    /\ Up /\ phase = "sweep" /\ Listed(sweep.pos)
    /\ list' = Without(sweep.pos) /\ tail' = LastOf(list')
    /\ freed' = freed \cup {sweep.pos}
    /\ sweep' = On(On(sweep))
    /\ caught' = caught \cup walkers \cup (IF cmd.kind = "none" THEN {} ELSE {"cmd"})
    /\ UNCHANGED <<life, used, hooks, cmd, grace, blame, orphans, found, lifted, initFailed>>

\* Mutant: the node is given back but stays on the list.
SweepNode_KEPT ==
    /\ Up /\ phase = "sweep" /\ Listed(sweep.pos)
    /\ freed' = freed \cup {sweep.pos}
    /\ sweep' = On(sweep)
    /\ caught' = caught \cup walkers \cup (IF cmd.kind = "none" THEN {} ELSE {"cmd"})
    /\ UNCHANGED <<life, list, tail, used, hooks, cmd, grace, blame, orphans, found, lifted, initFailed>>

\* Mutant: always the first node, and list_del is forgotten.
SweepNode_FIRST ==
    /\ Up /\ phase = "sweep" /\ Listed(sweep.pos)
    /\ freed' = freed \cup {sweep.pos}
    /\ sweep' = First
    /\ caught' = caught \cup walkers \cup (IF cmd.kind = "none" THEN {} ELSE {"cmd"})
    /\ UNCHANGED <<life, list, tail, used, hooks, cmd, grace, blame, orphans, found, lifted, initFailed>>

\* free_list: list_del and kfree, and the next node's successor.
SweepNode ==
    /\ Up /\ phase = "sweep" /\ Listed(sweep.pos)
    /\ list' = Without(sweep.pos)
    /\ tail' = LastOf(list')
    /\ freed' = freed \cup {sweep.pos}
    /\ sweep' = On(sweep)
    /\ caught' = caught \cup walkers \cup (IF cmd.kind = "none" THEN {} ELSE {"cmd"})
    /\ UNCHANGED <<life, used, hooks, cmd, grace, blame, orphans, found, lifted, initFailed>>

\* A command has taken the node at the cursor off the list: list_del follows its
\* poisoned pointers, and rmmod ends in an oops.
SweepOops ==
    /\ Up /\ phase = "sweep" /\ sweep.pos # RulesHead /\ ~Listed(sweep.pos)
    /\ phase' = "stuck"
    /\ UNCHANGED <<loads, hooked, family, memory, sweep, hooks, cmd, grace, blame, orphans, history>>

SweepEnd ==
    /\ Up /\ phase = "sweep" /\ sweep.pos = RulesHead
    /\ phase' = "unhook outgoing"
    /\ sweep' = NoCursor
    /\ UNCHANGED <<loads, hooked, family, memory, hooks, cmd, grace, blame, orphans, history>>

\* Mutant: the hook stays.
UnregisterHook_STAYS(turn, point, after) ==
    /\ Up /\ phase = turn
    /\ phase' = after
    /\ UNCHANGED <<loads, hooked, family, memory, sweep, hooks, cmd, grace, blame, orphans, history>>

\* nf_unregister_net_hook, twice: no new calls, but it waits for none.
UnregisterHook(turn, point, after) ==
    /\ Up /\ phase = turn
    /\ hooked' = hooked \ {point}
    /\ phase' = after
    /\ UNCHANGED <<loads, family, memory, sweep, hooks, cmd, grace, blame, orphans, history>>

\* unregister_netlink waits for the command under way.
UnregisterFamily ==
    /\ Up /\ phase = "unregister" /\ cmd = NoCommand
    /\ family' = FALSE
    /\ phase' = "leave"
    /\ grace' = walkers
    /\ UNCHANGED <<loads, hooked, memory, sweep, hooks, cmd, blame, orphans, history>>

\* free_module waits for the hooks that had been called before.  A hook that is
\* still registered can be called all the while, and has its code taken away.
Leave ==
    /\ Up /\ phase = "leave" /\ grace = {}
    /\ phase' = "out"
    /\ hooked' = {} /\ orphans' = orphans \cup hooked
    /\ blame' = IF walkers = {} THEN blame ELSE "code gone"
    /\ found' = {} /\ lifted' = {}
    /\ UNCHANGED <<loads, family, memory, sweep, hooks, cmd, grace, caught, initFailed>>

LifeStep ==
    \/ Insmod
    \/ RegisterHook("hook outgoing", "outgoing", "hook ingoing")
    \/ RegisterHook("hook ingoing", "ingoing", "register")
    \/ RegisterFamily
    \/ Rmmod \/ SweepNode \/ SweepOops \/ SweepEnd
    \/ UnregisterHook("unhook outgoing", "outgoing", "unhook ingoing")
    \/ UnregisterHook("unhook ingoing", "ingoing", "unregister")
    \/ UnregisterFamily \/ Leave

-----------------------------------------------------------------------------
(***************************************************************************)
(* The packet hooks.                                                       *)
(***************************************************************************)
Enter(c) ==
    /\ Up /\ c \notin walkers /\ hooked # {}
    /\ walkers' = walkers \cup {c}
    /\ hook' = [hook EXCEPT ![c] = First]
    /\ UNCHANGED <<life, memory, sweep, cmd, grace, blame, orphans, history>>

\* netfilter calls a hook whose module was discarded.
EnterOrphan(c) ==
    /\ Up /\ c \notin walkers /\ orphans # {}
    /\ blame' = "code gone"
    /\ UNCHANGED <<life, memory, sweep, hooks, cmd, grace, orphans, history>>

\* One turn of the loop, whether the packet obeys the rule or not.
Step(c) ==
    /\ Up /\ c \in walkers /\ hook[c].pos \in Nodes
    /\ hook' = [hook EXCEPT ![c] = On(hook[c])]
    /\ UNCHANGED <<life, memory, sweep, walkers, cmd, grace, blame, orphans, history>>

\* A packet that disobeys is reported to the family.  The report is given up
\* when there is no memory for its head or its data, but get_raw_packet_data's
\* NULL is copied from.  A node that was freed may by now be anything, and
\* LIST_POISON1 is nowhere.
StepFaults(c) ==
    /\ Up /\ c \in walkers /\ hook[c].pos # RulesHead
    /\ blame' \in IF Bad(hook[c].pos) THEN {"bad node"} ELSE {"no memory"}
    /\ UNCHANGED <<life, memory, sweep, hooks, cmd, grace, orphans, history>>

Return(c) ==
    /\ Up /\ c \in walkers /\ hook[c].pos = RulesHead
    /\ walkers' = walkers \ {c}
    /\ hook' = [hook EXCEPT ![c] = NoCursor]
    /\ grace' = grace \ {c} /\ caught' = caught \ {c}
    /\ UNCHANGED <<life, memory, sweep, cmd, blame, orphans, found, lifted, initFailed>>

HookStep(c) == Step(c) \/ StepFaults(c) \/ Return(c)

-----------------------------------------------------------------------------
(***************************************************************************)
(* The netlink commands, one at a time under the mutex of generic netlink. *)
(***************************************************************************)
\* Mutant: there is one node for all rules.
AddStart_STATIC ==
    /\ Up /\ family /\ cmd = NoCommand /\ used < NodeCount
    /\ used' = 1
    /\ cmd' = [kind |-> "add", new |-> 1, cursor |-> [NoCursor EXCEPT !.pos = tail]]
    /\ UNCHANGED <<life, list, tail, freed, sweep, hooks, grace, blame, orphans, history>>

\* add_rule: the new node, and the node before the head, behind which it is to go.
AddStart ==
    /\ Up /\ family /\ cmd = NoCommand /\ used < NodeCount
    /\ used' = used + 1
    /\ cmd' = [kind |-> "add", new |-> used + 1, cursor |-> [NoCursor EXCEPT !.pos = tail]]
    /\ UNCHANGED <<life, list, tail, freed, sweep, hooks, grace, blame, orphans, history>>

\* list_add_tail.  Where the last node has been freed in between, the new one is
\* linked behind what is no longer a node of the list, and is lost; so are those
\* that come after it.  What was written to may by then be anything.
AddEnd ==
    /\ Up /\ cmd.kind = "add"
    /\ LET at == cmd.cursor.pos
       IN  /\ list' = IF at = LastOf(list) THEN Append(list, cmd.new) ELSE list
           /\ blame' \in {blame} \cup (IF Bad(at) THEN {"bad node"} ELSE {})
    /\ tail' = cmd.new
    /\ cmd' = NoCommand
    /\ caught' = caught \ {"cmd"}
    /\ UNCHANGED <<life, used, freed, sweep, hooks, grace, orphans, found, lifted, initFailed>>

\* remove_rule, and the walks of a listing: each of them is one of these.
WalkStart(kind) ==
    /\ Up /\ family /\ cmd = NoCommand
    /\ cmd' = [kind |-> kind, cursor |-> First, new |-> RulesHead]
    /\ UNCHANGED <<life, memory, sweep, hooks, grace, blame, orphans, history>>

Walking == Up /\ cmd.kind \in {"remove", "renumber", "list"}

WalkOn ==
    /\ Walking /\ cmd.cursor.pos \in Nodes
    /\ cmd' = [cmd EXCEPT !.cursor = On(cmd.cursor)]
    /\ UNCHANGED <<life, memory, sweep, hooks, grace, blame, orphans, history>>

\* The walk is at the node with the id: list_del, and on to renumber the rest.
WalkRemoves ==
    /\ Walking /\ cmd.kind = "remove" /\ Listed(cmd.cursor.pos)
    /\ list' = Without(cmd.cursor.pos)
    /\ tail' = LastOf(list')
    /\ lifted' = IF phase = "sweep" THEN lifted \cup {cmd.cursor.pos} ELSE lifted
    /\ cmd' = [cmd EXCEPT !.kind = "renumber", !.cursor = On(cmd.cursor)]
    /\ UNCHANGED <<life, used, freed, sweep, hooks, grace, blame, orphans, caught, found, initFailed>>

\* The walk is where no list is, or a listing of some rules gets no memory and
\* nla_put copies from NULL: the process ends, and the mutex is never released.
WalkOops ==
    /\ Walking
    /\ \/ Bad(cmd.cursor.pos)
       \/ cmd.kind = "list" /\ cmd.cursor.pos # RulesHead
    /\ cmd' = [cmd EXCEPT !.kind = "dead"]
    /\ UNCHANGED <<life, memory, sweep, hooks, grace, blame, orphans, history>>

WalkEnd ==
    /\ Walking /\ cmd.cursor.pos = RulesHead
    /\ cmd' = NoCommand
    /\ caught' = caught \ {"cmd"}
    /\ UNCHANGED <<life, memory, sweep, hooks, grace, blame, orphans, found, lifted, initFailed>>

CommandStep == AddEnd \/ WalkOn \/ WalkRemoves \/ WalkOops \/ WalkEnd

Next ==
    \/ LifeStep
    \/ \E c \in Cpus : Enter(c) \/ EnterOrphan(c) \/ HookStep(c)
    \/ AddStart \/ WalkStart("remove") \/ WalkStart("list") \/ CommandStep

\* What has begun goes on: rmmod, a hook, a command; and the mutex is given to
\* those that wait for it in turn.  Nobody has to load or unload the module, to
\* send packets or commands.
Spec ==
    /\ Init /\ [][Next]_vars
    /\ WF_vars(LifeStep /\ phase \notin {"out", "live"})
    /\ SF_vars(UnregisterFamily)
    /\ WF_vars(CommandStep)
    /\ \A c \in Cpus : WF_vars(HookStep(c))

-----------------------------------------------------------------------------
Leaving == {"unhook outgoing", "unhook ingoing", "unregister", "leave"}
Phases == {"out", "hook outgoing", "hook ingoing", "register", "live", "sweep", "stuck"} \cup Leaving

Cursors == LET Places == Nodes \cup {RulesHead, Poison} IN [pos : Places, tmp : Places]

TypeOK ==
    /\ phase \in Phases /\ loads \in 0..MaxLoads
    /\ hooked \subseteq HookPoints /\ orphans \subseteq HookPoints
    /\ family \in BOOLEAN
    /\ list \in Seq(1..used) /\ IsInjective(list) /\ tail \in 0..used
    /\ used \in 0..NodeCount /\ freed \subseteq 1..used
    /\ sweep \in Cursors
    /\ walkers \subseteq Cpus /\ grace \subseteq walkers /\ hook \in [Cpus -> Cursors]
    /\ cmd \in [kind : {"none", "add", "remove", "renumber", "list", "dead"},
                cursor : Cursors, new : Nodes \cup {RulesHead}]
    /\ blame \in {"nobody", "bad node", "no memory", "code gone"}
    /\ caught \subseteq Cpus \cup {"cmd"} /\ found \subseteq Nodes /\ lifted \subseteq Nodes
    /\ initFailed \in BOOLEAN

\* packet_saver_exit frees the rules while hooks and commands still run.  Only
\* those that were under way when a node was freed can be at a freed node: what
\* starts later, although the hooks and the family are still registered then,
\* finds a list that is sound.
FreedOnlyUnderTheRunning ==
    /\ \A c \in walkers : hook[c].pos \in freed => c \in caught
    /\ cmd.kind # "add" /\ cmd.cursor.pos \in freed => "cmd" \in caught

\* Once free_list is through, each rule that was there when it began has been
\* freed, unless a removal took it meanwhile: additions that run next to it do
\* not make it miss any.
SweepFreesAll == phase \notin {"sweep", "stuck"} => found \subseteq freed \cup lifted

\* Only a removal that runs next to free_list can make rmmod oops.
StuckOnlyByRemoval == phase = "stuck" /\ family => lifted # {}

\* A hook that may have something to report, being at a rule, does so to a
\* registered family, or has run since before the family went: rules neither
\* come before the family nor outlive it into the next load of the module.
ReportsOnlyToFamily ==
    \A c \in walkers : hook[c].pos \in Nodes => family \/ c \in grace

\* The module's code is not taken away under a hook, nor is a hook called without
\* it, unless an init has failed at the family, with its hooks registered.
CodeOutlivesHooks == blame = "code gone" \/ orphans # {} => initFailed

\* rmmod comes to an end, unless a command has died with the mutex.
UnloadEnds == phase = "sweep" ~> phase \in {"out", "stuck"} \/ ~Up \/ cmd.kind = "dead"
=============================================================================
