# SecureSandbox in TLA+

SecureSandbox is a packet filter in three programs: a kernel module that drops
packets (`src/kernel_module`), a service that controls it over generic netlink
(`src/service`, Python), and a desktop application that controls the service
over TCP (`src/user_interface`, Electron). This directory models what they do
to each other's state, checks the models with TLC and proves the most important
properties with TLAPS.

## 1. The system

| Part | State | Operations | Talks to |
|---|---|---|---|
| Packet filter (`nf_hooks.c`) | none of its own; reads the rule list | `ingoing_nf_hook`, `outgoing_nf_hook` | called by netfilter on every packet, on any processor; multicasts each dropped packet |
| Rule list (`node.c`) | a linked list of nodes: rule, id | `add_rule`, `remove_rule`, `serialize_list`, `free_list` | shared by the hooks (no lock) and the commands |
| Netlink commands (`netlink.c`, `parser.c`) | none | `ADD_RULE`, `REMOVE_RULE`, `LIST_RULES`; `BLOCKED_PACKET` multicast | serialised by the mutex of generic netlink |
| Life cycle (`firewall.c`) | hooks and family registered or not | `packet_saver_init`, `packet_saver_exit` | creates and destroys all of the above |
| Rule encoding (`parsing/*.py`) | none | rule to attributes, struct to rule | between service and kernel |
| Service (`Client.py`, `rpc.py`, `netlink_family.py`) | per connection: a thread, a queue of requests, a netlink socket, an id counter | handshake, `list_rules`, `add_rule`, `delete_rule`, notification | TCP to the application, netlink to the kernel |
| UI main process (`RPC.js`, `Client.js`) | calls under way, id counter, connected or not | the three calls, reconnection | IPC to the renderer |
| Renderer (`RuleViewer.tsx`, `RuleEdit.tsx`, `PacketList.tsx`) | the rules listed last, the rule in the dialog, the last packets | add, delete, edit, refresh | IPC to the main process |
| User mode tool (`user_mode_tool/*.c`) | the words of its command line, the options found so far | one command per run | files in sysfs |

What is hard in it, and what each part owes the others:

- **Filter.** Several rules with double negations decide on one packet, at hook
  points that need not be the ones their names suggest. Correct: a packet is
  dropped exactly if some rule that speaks at a hook point on its way forbids it.
- **List.** Hooks walk it while commands store into it. Correct: a hook sees a
  whole list, decides as the table of some moment would, and comes to an end.
- **Commands.** Ids are positions and are renumbered on each removal; failures
  are not reported. Correct: a removal by id removes the rule at that position.
- **Session.** Requests are answered out of one queue that also holds requests
  nobody answers; TCP chunks are taken for messages; two id counters run side
  by side; connections break and threads die. Correct: what answers there are
  are true and in order, and a listing gets one unless something was lost.
- **Life cycle.** Init registers three things, any of which can fail; exit frees
  the list before it unregisters what walks it. Correct: all rules are freed,
  nobody who arrives during the unload meets freed memory, the code outlives
  the hooks, and rmmod ends.
- **Renderer.** A row's id is a position in a listing that may be stale, and an
  edit is a deletion and an addition that waits for it. Correct: a row's menu
  acts on that row's rule, and the window comes to show the table.
- **User mode tool.** A hand-written parser that takes words wherever they
  stand. Correct: what follows the usage text does what it says, and nothing
  else changes a rule.

`PROJECT.json` lists every component with its status, and under `hazards` each
hard spot at its line with the properties that watch it. Some of these properties
except the very case of a hazard, because there the code does go wrong; the note
of the hazard says so.

## 2. The modules

| Module | What it is | Code |
|---|---|---|
| `FirewallRule` | operators: a rule from the operator's form to `struct rule` | `as_attribute`, `parse_protocol_name`, `parse_nested_rule` |
| `PacketFilter` | operators: the checks and filters, and the references they are held against, `Forbids` and `MatchesAsDocumented` | `nf_hooks.c` 91-265 |
| `NfHooks` | state machine: one packet through the hook points, one action per turn of the loop | `nf_hooks.c` 28-81, `firewall.c` 28-48 |
| `RuleSeq` | abstract: the table as a sequence, an id is a position | what `node.h` and `netlink.c` promise |
| `RuleTable` | state machine: the netlink commands on a list of nodes with ids; implements `RuleSeq` | `node.c`, `netlink.c` 70-119, `parser.c` 50-65 |
| `RuleList` | state machine: the list in memory, store by store, and the hooks' loads; implements `RuleSeq` | `node.c` 90-146, `nf_hooks.c` 28-81 |
| `RpcSession` | state machine: calls, connections, service threads, the kernel's answers | `RPC.js`, `Client.js`, `Client.py`, `rpc.py` |
| `ModuleLife` | state machine: `insmod` and `rmmod`, call by call, next to a hook and a command | `firewall.c`, `node.c` 9-20, `netlink.c` 126-172 |
| `RuleViewer` | state machine: the window, its calls, the listings on their way back, the table, another client; uses `FirewallRule` | `RuleViewer.tsx`, `Rule.tsx`, `RuleEdit.tsx`, `Search.ts`, `RPC.js` 91-157, `firewall_rule.py` |
| `CommandLine` | state machine: the tool's parser, a word at a time, and its command | `docopt.c`, `main.c`, `sysfs_utils.c` |
| `NfHooksProofs`, `RuleTableProofs`, `RuleListProofs`, `RpcSessionProofs`, `ModuleLifeProofs`, `RuleViewerProofs`, `CommandLineProofs` | per state machine: its inductive invariant, theorems and proofs | |
| `SequenceFacts` | lemmas on sequences, and `LeastMember`, that several proofs cite | |
| `MC*` | constants for TLC | |

How state and actions correspond to the code:

- **NfHooks.** `rules` is the list behind `rules->list`, `pos` the loop's cursor,
  `ret` the hook's local; `travel` is the list of hook points a packet passes.
  `EnterHook`, `VisitObeyed`, `VisitDisobeyed` and `ReturnFromHook` are the
  entry, the two outcomes of the loop's body and the return. `logged` records
  the rules a notification was sent for; `VisitDisobeyed` may lose it, as
  `send_multicast_logging` may. Address comparison follows `strcmp` on fields
  that 15 characters fill without a terminator. The packet with a NULL `skb`
  is left out.
- **RuleTable.** One action per command, as the mutex of generic netlink makes
  them. Failures of `kmalloc` are outcomes of the actions; where the code then
  follows NULL (`list_rules_dumpit`) the model goes to `oops`, after which no
  command runs, since the mutex is never released.
- **RuleList.** Nodes are numbered in the order `kmalloc` hands them out; 0 is
  the list's head and two negative numbers are the poison values of `list_del`.
  A hook's step is one load of a `next` pointer with the work up to the next
  load. A command's step is one store that a hook can observe. Stores are taken
  to be visible in program order (x86, and `WRITE_ONCE` in the list macros).
  `RuleTable` and `RuleList` model the same commands at two grains, and both
  are shown to implement `RuleSeq`.
- **RpcSession.** `calls` is indexed by request id. `Request`, `RequestLater`,
  `Connect`, `Disconnect` and `UiReceive` are the main process;
  `ServiceReceive`, `ForwardListing` and `ForwardPacket` the loop of
  `Client.run`; `BlockPacket` the kernel's multicast. A read takes a chunk of
  one or more messages off the wire and decodes the first of them or nothing
  (`Chunks`): this is what the `key:/iv:/data:` envelope makes of joined or torn
  messages. A rule table is told by the set of mutations that reached it.

- **ModuleLife.** `phase` is the next call of init or exit. The list is the
  sequence of its nodes and, apart from it, `tail`, the node before the head:
  the two disagree once `add_rule` has linked a node behind one that
  `free_list` freed meanwhile. Cursors hold the node and the next one already
  loaded, as `list_for_each_entry_safe` does. `add_rule` has two steps, with the
  load of the last node in the first one. A command that faults keeps the mutex
  (`"dead"`); a hook that faults brings the kernel down (`blame`), after which
  nothing runs. `grace` are the hooks that `free_module` waits for before the
  code goes. The stores inside `list_del` and the ids are the matter of
  `RuleList` and `RuleTable`.
- **RuleViewer.** `wire` are the calls on their way to the service and `answers`
  the listings on their way back. The service carries a call out and puts it in
  `queue`; a listing answers the call at the queue's head, which need not have
  asked for it - `RpcSession` models this with its chunks, connections and
  threads; here there are only lost calls and lost answers. `stamp` is a history
  variable: how many rules had been removed when a row was listed. `Listing`
  composes with `FirewallRule`, so a row is what the service reads out of the
  struct that the kernel made of what an operator typed: `as_attribute` cuts the
  texts to the sizes of their fields (`Cut`, per size and text), and
  `from_raw_data` reads the ports as unsigned (`unsigned`). Ids keep their value
  in `Without`, although `parse_rule_id` reads one byte of them: a reply of
  16 KB lists 146 rules, and the assumption on `DumpCapacity` (at most 256) is all
  that this needs.
- **CommandLine.** A word is a value with a shape (what `strncmp`, `strchr` and
  `atoi` find in it). One action per branch of the parser; `AddRule`,
  `RemoveRule` and the others are `main` with the function it calls.

Modelled from their use, as external: the hook points of netfilter, the list
macros, `nla_get_u8`, the end of a kernel thread that faults, `free_module`,
`snprintf`, and another client of the service.

## 3. What the runs check

Passing runs (in `PROJECT.json`, with a mutant of the code per property):

| Run | Bounds | States | Shows |
|---|---|---|---|
| `nf_hooks` | every single rule over 2 protocols (named and `*`), 3 source and 3 destination texts (one that fills its field, one that is cut to do so, one empty), 3 ports (-1, 0 and 80), both kinds, each direction; every pair of rules over fewer fields; packets over 2 protocols, 2 addresses, 2 ports; 3 ways through the host | 342,658 | `BlackListVerdict`, `AcceptedIsAllowed`, `ReportedOnlyIfDropped`, `DropIsFinal`, `EveryPacketDecided` |
| `rule_table` | 2 rules, at most 5 nodes, ids modulo 4, listings of at most 3 | 6,576 | `IdsArePositions`, `ImplementsRuleSeq` |
| `rule_list` | 2 processors, 3 nodes, 2 rules (one the packets disobey) | 433,247 | `ChainIsTable`, `MirroredWhenIdle`, `VerdictOfSomeMoment`, `ThrownOnlyByRemovalAhead`, `WalkEnds`, `ImplementsRuleSeq` |
| `rpc_session` | 3 calls, 2 connections, 1 blocked packet, a socket buffer of 2 messages | 202,437 | `NeverWaitsForRequest`, `AnswersInOrder`, `AnswersAreFresh`, `FailsOnlyByCollision`, `ListingsAreSettled` |
| `module_life` | 1 processor, 2 nodes, 2 loads of the module | 164,569 | `FreedOnlyUnderTheRunning`, `SweepFreesAll`, `StuckOnlyByRemoval`, `ReportsOnlyToFamily`, `CodeOutlivesHooks`, `UnloadEnds` |
| `command_line` | every line of up to 3 of 20 words; additions of 6 words in all orders of their options, with a name of 15 characters, one that fills its field (50) and one beyond it (160) | 69,291 | `UsageHonoured`, `RemovesTheIdGiven`, `DoubtfulOptionChangesNothing`, `OverreadOnlyBeyondFields`, `ParseEnds` |
| `rule_viewer` | 2 rules, tables of at most 3, listings of at most 2, 2 acts of the operator, 3 of another client, 1 loss; one rule has a port -1, the protocol `*` and an address that is cut | 812,092 | `RowsTellOfTyped`, `RemovesTheRowMeant`, `ViewSettles` |

Why the bounds are enough to be interesting: with two rules in a list each
order of "drops" and "does not" occurs, and the verdict does not look at more
than one rule at a time. Five nodes exceed both the listing's capacity and the
modulus of the ids. Three nodes let a removal hit the first, a middle and the
last node, with an addition behind it, while two hooks stand anywhere. Three
calls are the fewest in which an answer goes to the wrong call and a later
one goes unanswered; one notification is enough for its id to collide; two connections
let a thread outlive its client. Two nodes are one that `free_list` is at and one
it holds, misses, or has had taken from under it; a second load shows what is
left of the first. Three words put each kind of word before and after each
other, and the tool's longest dependency is on two words (`remove` and its id,
an option and its argument). Two acts are an edit and what it leaves for the
next; three changes by another client are enough for a removal, an addition
and a table too long to be listed. The deadlock check is off for `rpc_session`
(a session in which everything has been read and nobody asks is at rest),
`module_life` (the module may be out for good, and the kernel may be down) and
`command_line` (the tool ends).

What some of the properties say in words:

- `BlackListVerdict`: over black-list rules a packet is dropped iff a rule that
  speaks at a hook point it passed matches it. `AcceptedIsAllowed`: whatever
  the rules' kinds, what gets through was forbidden by none of them. Both are
  about rules whose addresses are terminated strings; the second is about
  packets with ports, because the port checks let the others pass a white list.
  In both, the port 0 leaves a rule open to every port: that is how the checks
  and the dialog have it, not how `firewall_rule.h` does (lines 16 and 17: "-1 means
  all"). Rules with a port of -1 are excepted; `nf_hooks_ports` is about them.
- `VerdictOfSomeMoment`: the verdict a hook returns is the one the table gave at
  some moment during its walk, whatever was added and removed meanwhile.
- `ThrownOnlyByRemovalAhead`: a hook gets hold of a poisoned pointer only if the
  node it was heading for was removed under it.
- `AnswersAreFresh`: although answers go to the wrong calls, the table a call
  is answered with is never older than the call and shows its own effect.
  Listings of tables too long for a reply come back empty and are excepted.
- `NeverWaitsForRequest`: the blocking `Queue.get` always finds a request.
- `FreedOnlyUnderTheRunning`: only a hook or a command that was already under
  way when a node was freed can stand at a freed one; what arrives while the
  hooks are still registered finds a sound list. `StuckOnlyByRemoval`: rmmod
  itself oopses only where a removal took the node its cursor held.
- `CodeOutlivesHooks` excepts an init that failed at the family: its hooks stay
  registered and their code goes.
- `RemovesTheRowMeant`: as long as no rule has been removed since a row was listed,
  deleting it deletes that rule, whatever is hidden, added, lost or late. Once
  one has been removed the id may be another rule's; the premise says so.
- `RowsTellOfTyped`: each row tells of a rule that somebody typed, as far as that
  rule fits into `struct rule`: its flags, its name and addresses where they are
  no longer than their fields (50 and 15), a protocol that has a name, and ports
  that are not negative. Which of the two ports comes back as which is left
  open: `dst_port` is first in the struct and `srcPort` in the class, so they
  change places. A port of -1 comes back as 4294967295, a longer text cut, and
  `*` as the name of protocol 255; the property says nothing of these.
- `UsageHonoured`: a line of the usage text does what it says. An addition whose
  texts do not fit `struct rule` is excepted, for `snprintf`'s text may then be
  cut and more written than there is of it; so are `dump <file>` and `load <file>`,
  which `docopt.c` 52-53 promises and nobody carries out: the tool prints a word
  and never reads `<file>`. An id is the number that `atoi` makes of it, 0 for `abc`.
- `DoubtfulOptionChangesNothing`: an option that is unknown, or has a value it
  must not have, or asks for help, keeps the line from changing any rule. Words
  without a dash are another matter: the parser skips those it does not know,
  and `remove 3 abc` removes rule 3.
- `OverreadOnlyBeyondFields`: the tool writes more than its buffer holds only for a
  name of more than 50 characters or an address of more than 15.
- `RemovesTheIdGiven` and `ParseEnds` name the tool's two ways not to end well: it
  follows NULL on `remove` without an id, and stays at a `--` for ever.

Runs that TLC must find violated, each quoting what the repository says:

| Run | Claim | What the code does |
|---|---|---|
| `nf_hooks_disobedient` | hooks drop packets that disobey the rules | `check_protocol` makes every packet disobey a white-list rule with a protocol |
| `nf_hooks_outgoing` | `outgoing_packets` affects outgoing packets | the hook is registered at `PRE_ROUTING` |
| `nf_hooks_ports` | a port of -1 means all | the checks take 0 for all ports; -1 is compared with the packet's port, and never equal to it |
| `rule_list_returns` | a hook returns a verdict | it can walk into a removed node's poison |
| `rule_viewer_edit` | `deleteRule` resolves to a boolean, and an edit adds its rule when that is true | it resolves to a string, made of an answer that a later listing was for; nothing is added, and the edited rule is gone |

Two more disagreements of this kind are in the models and have no run of their
own. `parser.c` 48 says that `parse_rule_id` returns the id or -1; it returns one
byte of it, so that an id that no rule has can name another rule: `RuleTable`
takes ids modulo `IdMod`, and `ImplementsRuleSeq` is about ids below it. And no
addition or deletion is ever answered for itself: `RpcSession` and `RuleViewer`
give them the listings that later calls asked for, and `AnswersInOrder` and
`ViewSettles` hold over that.

**Fairness.** `NfHooks`: weak fairness of `Next`; a hook's loop waits for
nothing. `RuleList`: weak fairness of the steps of a hook that has been entered,
per processor; none for packets or commands, so the proof of `WalkEnds` must
withstand any number of additions (bounded by the nodes there are).
`RpcSession`: weak fairness of the reader of each end and of the service's
forwarding, as `Client.run` polls both of its sockets in an endless loop and
node's event loop reads what has arrived; none for requests, connections, or
blocked packets. `ListingsAreSettled` holds as long as no message was torn or
joined, the connection held, the thread lived and nothing but listings was
asked for (`spoilt` records the contrary): the code promises no more.
`ModuleLife`: weak fairness of init and exit once begun, of each hook and of the
command under way, since none of them waits for another but at two places;
strong fairness of `UnregisterFamily`, because the mutex it sleeps on is given
to its waiters in turn (`kernel/locking/mutex.c` hands it over), so that a stream of
commands cannot keep rmmod out. Nobody has to load or unload. `RuleViewer`: weak
fairness of the service, of the delivery of answers, of the operator closing an
open dialog, and of refreshing: `ViewSettles` is about an operator who goes on
refreshing, and says that the queue's shifted answers still end up right.
`CommandLine`: the program runs.

## 4. What is proved

Every invariant and every action property that a passing run checks, and both
refinements, are theorems, for all values of the constants that satisfy the
modules' named assumptions: any number of processors, nodes, calls,
connections, packets, loads of the module, words and rules. Each proof has the same
shape: an inductive invariant `IInv` (`Init => IInv`, `IInv /\ [Next]_vars =>
IInv'`, one lemma per action), from which the properties follow. TLC has checked each
`IInv` on the instance of the component's passing run as well.

- **`NfHooksProofs`.** `IInv` says that `ret` is the verdict of the rules before
  the cursor at the present hook point, and that none at earlier points dropped
  the packet. It is needed because the verdict properties speak of whole lists
  and whole journeys, which no single step sees. `BlackListFilter` and
  `WhiteListFilter` relate `filter` to the reference `Forbids` for one rule. A
  second invariant, `LogInv`, orders `logged` and ties it to the cursor.
- **`RuleTableProofs`.** `TypeOK /\ IdsArePositions` is inductive as it stands.
  `RemoveRuleResult` says what `remove_rule` returns on a list in which ids are
  positions: the list without that position, renumbered. The refinement
  `SpecImplementsRuleSeq` is under `IdsFit` (the ids asked for are below the
  modulus); without `IdsFit` it is false, since `parse_rule_id` reads one byte of the id.
- **`RuleListProofs`.** The first half of `IInv`, `Linked`, is about the list: the
  table's nodes are in the order `kmalloc` handed them out (`Ordered`), the
  `next` pointers run through them (`Chained`), a node that is no longer used
  leads to the poison (`Spent`), and for each command under way which store
  is missing (`Added`, `Removed`). The second half, `HookOK`, is about each hook:
  what its cursors can hold (`Cursors`), that it heads for a node of the list
  unless struck (`OnTheList`), that the verdict of the present table and those of
  the nodes at hand are among the witnessed ones (`Covered`), and that it has
  jumped over no rule (`NothingMissed`). The last is what `VerdictOfSomeMoment`
  rests on: since nodes are added at the end and ordered, "jumped over" is a
  comparison of numbers. `LeastMember` stands in for induction over positions
  where a walk is followed to its end. The refinement has two steps that are not
  stutters: the store that publishes a node, and the one that unlinks it.
- **`RpcSessionProofs`.** `NeverWaitsForRequest` is inductive with the counting of
  listings on a socket (`Those`, `CountAppend`, `CountTail`). `AnswersInOrder` is
  proved message by message (`InOrder`). `AnswersAreFresh` needs to know which
  answers can reach which call: `ListingsFresh` says that the k-th listing on a
  socket may be told to each of the first k requests in the queue, all of them
  carried out before it was made, and `ResponsesFresh` says the same of what is
  on its way back. `NotesArePackets` bounds the other id counter.
- **`ModuleLifeProofs`.** `PhaseOK` says in which phases there are rules, hooks and
  the family; `CommandOK` that the node an addition has at hand is in no list and
  not freed; `Caught` that whoever holds a freed node was there when it was freed;
  `SweepOK` where the nodes that `free_list` has yet to free lie: at its cursor or
  ahead of it (`Ahead`), and, while nothing has been removed, the cursor is at the
  first node (`AtFirst`). `SweepFreesAll` follows from the one and
  `StuckOnlyByRemoval` from the other.
- **`RuleViewerProofs`.** `CallsOK` and `RowsOK` carry, with each row in a
  listing, in the window, in the dialog and in a call, that it is the table's
  row at its id as long as nothing has been removed since (`InTable`); `Ordered`
  says that listings come back in the order they were made in. `RemovesTheRowMeant`
  is proved as an action property. `StoredFields` and `PortRead` say what is left
  of a typed rule's fields in the kernel's struct and of a port once it is read
  back; with them `RowTells` gives `RowsTellOfTyped`.
- **`CommandLineProofs`.** `IdOK` says what the id is once its place has been
  passed; `PassedOK` that whatever has been passed is known, or is another option's
  argument, or help was asked for; `UsageOK` that on a line of the usage text the
  command, the flags and the latest argument of each option are those of the words
  passed (`LatestOK`). `LongFacts` says what `parse_long`'s loop finds.
  `DigitsAreFew` and `ShortRulesFit` bound `snprintf`'s text.

The assumptions, and what in the code they stand for: rule lists are sequences
of rules with Boolean flags (`RulesAssumption`); bounds are natural numbers;
`"cmd"` is not the name of a processor (`ModuleLifeAssumption`); protocol names
and numbers are one to one (`ProtoNumberAssumption`: `proto_table` is a `dict` by
number, and no number has two names); a typed rule has the dialog's ten
fields, its ports are ints, and no reply lists more than 256 rules
(`RuleViewerAssumption`); and words look as strings do, in particular no two
options of the tool begin with the same letter (`CommandLineAssumption`). TLC
evaluates all of them.

The definitions that the proofs reason about avoid recursion: `From` in `RuleList`
(the nodes `remove_rule` comes to) is the least set that is closed under `next`,
and nodes are taken out of lists with `RemoveFirst`.

Only model-checked: the liveness properties (`EveryPacketDecided`, `WalkEnds`,
`ListingsAreSettled`, `UnloadEnds`, `ViewSettles`, `ParseEnds`), which rest on
fairness and are out of the prover's reach.

## 5. Not modelled

- Cryptography, packet dissection, window layout, the bytes of netlink headers:
  libraries and pure data. Test programs.
- The packet viewer's list of the last packets: display only. The text, protocol
  and kind filters of the rule search, which narrow the rows of `Rows` further.
- The phases of the handshake and the reconnection timer: one step in
  `RpcSession`.
- The kernel side of the tool's sysfs files: this module does not create them,
  so `CommandLine` lets `fopen` succeed or fail and stops there.
- `rule.log` is stored and listed and otherwise never read by the code. That the kernel may
  sleep in `GFP_KERNEL` allocations inside a hook is listed as a hazard and not
  modelled: which context may sleep is no state of this program.

## 6. Plan

All state machines of the system are written, and their safety properties are
proved. What could be added:

1. `RuleSeq` as the table of `RpcSession` and `RuleViewer`: both keep a
   table of their own (a set of mutations, a sequence of structs), and a
   refinement would tie them to the one that the kernel implements.
2. `NfHooks` over the list of `RuleList`: `VerdictOfSomeMoment` takes the verdict
   of one rule for granted and `NfHooks` the list for fixed; one theorem over both
   would speak of packets that arrive while rules change.
