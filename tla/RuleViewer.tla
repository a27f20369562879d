----------------------------- MODULE RuleViewer -----------------------------
(***************************************************************************)
(* The rules in the window of the user interface (RuleViewer.tsx,          *)
(* RulesList.tsx, Rule.tsx, RuleEdit.tsx, Helpers/Search.ts), the calls    *)
(* they are listed, added and removed by, and the table of the kernel,     *)
(* which another client changes as well.  Of the service there is what     *)
(* decides which listing answers which call (RpcSession has the rest) and  *)
(* how it makes JSON of a struct (parsing/firewall_rule.py).  The window   *)
(* is connected all the time; RpcSession has what happens when it is not.  *)
(***************************************************************************)
EXTENDS FirewallRule, FiniteSets, SequencesExt

CONSTANTS
    Typed,          \* the rules operators type in
    UIntMod,        \* the values of an unsigned int: 2^32
    DumpCapacity,   \* the rules a listing has room for; bound: 256
    MaxRules,       \* bound: additions fail when the table is this long
    MaxActs,        \* bound: deletions and openings of the dialog
    MaxOthers,      \* bound: changes by the other client
    MaxLosses       \* bound: requests and answers that are lost

\* The dialog's form has a field for everything that a rule tells.  Ports are ints
\* (as_attribute packs no other).  No listing is so long that the id of a row does
\* not survive parse_rule_id, which reads one byte of it: 16 KB hold 146 rules.
ASSUME RuleViewerAssumption ==
    /\ {MaxRules, MaxActs, MaxOthers, MaxLosses} \subseteq Nat
    /\ DumpCapacity \in 0..256 /\ UIntMod \in Nat \ {0}
    /\ \A rule \in Typed :
        /\ {"name", "outgoingPackets", "ingoingPackets", "black", "protocol", "srcIP", "dstIP",
            "srcPort", "dstPort", "log"} \subseteq DOMAIN rule
        /\ {rule.srcPort, rule.dstPort} \subseteq {n \in Int : -UIntMod <= 2 * n /\ 2 * n < UIntMod}

VARIABLES
    table,      \* the kernel's rules; the id of one is its position less 1
    removals,   \* history: how many have been removed
    others,     \* how often the other client has changed the table
    wire,       \* calls on their way to the service
    queue,      \* RPC.__requests: the calls no listing has answered yet
    answers,    \* listings on their way back: [to, rules, stamp]
    losses,     \* how many calls and answers have been lost
    rules,      \* RuleViewer's rules, as the service made JSON of them
    stamp,      \* history: the removals there had been when they were listed
    opened,     \* editOpened
    current,    \* RuleEdit's rule: the row it was taken from, or NoRule, and its stamp
    acts        \* how often the operator has acted

kernel == <<table, removals, others>>
calls  == <<wire, queue, answers, losses>>
window == <<rules, stamp, opened, current, acts>>
vars   == <<kernel, calls, window>>

NoRule == [id |-> -1]

\* A call: what it asks for, the addition editRule has in mind when it is through,
\* and (history) the row that was meant, and the stamp of its listing.
Call(kind)    == [kind |-> kind, id |-> -1, next |-> NoRule, meant |-> NoRule, stamp |-> 0]
ListCall      == Call("list")
AddCall(rule) == [Call("add") EXCEPT !.next = rule]
Deletion(row, taken, next) ==
    [kind |-> "delete", id |-> row.id, next |-> next, meant |-> row, stamp |-> taken]

\* The window lists the rules when it appears.
Init ==
    /\ table = <<>> /\ removals = 0 /\ others = 0
    /\ wire = <<ListCall>> /\ queue = <<>> /\ answers = <<>> /\ losses = 0
    /\ rules = <<>> /\ stamp = 0
    /\ opened = FALSE /\ current = [row |-> NoRule, stamp |-> 0]
    /\ acts = 0

-----------------------------------------------------------------------------
(***************************************************************************)
(* The kernel and the service.                                             *)
(***************************************************************************)
\* FirewallRule.from_raw_data: 255, which is what became of "*", is looked up
\* like any other protocol.
parse_protocol(number) ==
    IF \E name \in DOMAIN ProtoNumber : ProtoNumber[name] = number
    THEN CHOOSE name \in DOMAIN ProtoNumber : ProtoNumber[name] = number
    ELSE "*"

\* The "I" of FORMAT: an int is read as an unsigned one.
unsigned(number) == number % UIntMod

\* Mutant: the flags of the two directions change places, as the ports do.
from_raw_data_FLAGS(id, struct) ==
    [id |-> id, name |-> struct.name,
     outgoingPackets |-> struct.ingoing_packets, ingoingPackets |-> struct.outgoing_packets,
     black |-> struct.black_list, protocol |-> parse_protocol(struct.protocol),
     srcIP |-> struct.src_ip, dstIP |-> struct.dst_ip,
     srcPort |-> unsigned(struct.dst_port), dstPort |-> unsigned(struct.src_port), log |-> struct.log]

\* The struct has dst_port before src_port, the class srcPort before dstPort.
from_raw_data(id, struct) ==
    [id |-> id, name |-> struct.name,
     outgoingPackets |-> struct.outgoing_packets, ingoingPackets |-> struct.ingoing_packets,
     black |-> struct.black_list, protocol |-> parse_protocol(struct.protocol),
     srcIP |-> struct.src_ip, dstIP |-> struct.dst_ip,
     srcPort |-> unsigned(struct.dst_port), dstPort |-> unsigned(struct.src_port), log |-> struct.log]

\* Mutant: the service counts from 1.
Listing_FROMONE(structs) ==
    IF Len(structs) > DumpCapacity THEN <<>>
    ELSE [k \in DOMAIN structs |-> from_raw_data(k, structs[k])]

\* The rules of a listing, numbered by the service; none where the reply has no
\* room for all of them.
Listing(structs) ==
    IF Len(structs) > DumpCapacity THEN <<>>
    ELSE [k \in DOMAIN structs |-> from_raw_data(k - 1, structs[k])]

\* What becomes of a rule on its way to the kernel.  (No listing looks at the
\* padding behind dst_ip, here taken for zero.)
Stored(rule) == parse_nested_rule(as_attribute(rule), TRUE)

With(rule)  == IF Len(table) < MaxRules THEN Append(table, Stored(rule)) ELSE table
Without(id) == IF id + 1 \in DOMAIN table THEN RemoveAt(table, id + 1) ELSE table

\* Mutant: an addition or a deletion stays at the head, and the listing is forgotten.
Unanswered_STAYS(all) == IF Head(all).kind = "list" THEN Tail(all) ELSE Front(all)

\* RPC.list_rules takes the call it answers from the queue.
Unanswered(all) == Tail(all)

\* Client.run and RPC.parse_message: a call goes to the end of the queue, and is
\* carried out.  RPC.list_rules: a listing answers the call at the head.
Serve ==
    /\ wire # <<>>
    /\ wire' = Tail(wire)
    /\ LET call == Head(wire)
           all  == Append(queue, call)
       IN  /\ table' = CASE call.kind = "add"    -> With(call.next)
                         [] call.kind = "delete" -> Without(call.id)
                         [] OTHER                -> table
           /\ removals' = IF Len(table') < Len(table) THEN removals + 1 ELSE removals
           /\ IF call.kind = "list"
              THEN /\ queue' = Unanswered(all)
                   /\ answers' = Append(answers, [to |-> Head(all), rules |-> Listing(table),
                                                  stamp |-> removals])
              ELSE queue' = all /\ UNCHANGED answers
    /\ UNCHANGED <<others, losses, window>>

\* A chunk that could not be made out.
LoseCall   == wire # <<>> /\ wire' = Tail(wire) /\ UNCHANGED answers
LoseAnswer == answers # <<>> /\ answers' = Tail(answers) /\ UNCHANGED wire

Lose ==
    /\ losses < MaxLosses /\ losses' = losses + 1
    /\ LoseCall \/ LoseAnswer
    /\ UNCHANGED <<kernel, queue, window>>

\* Another client's addition or removal.
OtherClient ==
    /\ others < MaxOthers /\ others' = others + 1
    /\ \/ \E rule \in Typed : table' = With(rule) /\ UNCHANGED removals
       \/ \E k \in DOMAIN table : table' = Without(k - 1) /\ removals' = removals + 1
    /\ UNCHANGED <<calls, window>>

-----------------------------------------------------------------------------
(***************************************************************************)
(* The window.                                                             *)
(***************************************************************************)
\* What RPC.js makes of an answer.
ResolvesTo(kind) ==
    CASE kind = "list" -> "rules" [] kind = "delete" -> "string" [] OTHER -> "object"

\* What a call that has resolved leads to: addRule and deleteRule list the rules
\* where they find the result to be true, and editRule adds its rule when that is
\* done.  (deleteRule rejects any other result.)
FollowUps(call) ==
    IF ResolvesTo(call.kind) = "true"
    THEN <<[ListCall EXCEPT !.next = IF call.kind = "add" THEN NoRule ELSE call.next]>>
    ELSE IF call.kind = "list" /\ call.next # NoRule THEN <<AddCall(call.next)>>
    ELSE <<>>

\* An answer arrives; updateRules shows the one to a listing.
Deliver ==
    /\ answers # <<>>
    /\ answers' = Tail(answers)
    /\ LET answer == Head(answers)
       IN  /\ IF answer.to.kind = "list"
              THEN rules' = answer.rules /\ stamp' = answer.stamp
              ELSE UNCHANGED <<rules, stamp>>
           /\ wire' = wire \o FollowUps(answer.to)
    /\ UNCHANGED <<kernel, queue, losses, opened, current, acts>>

\* getFilterRules, as far as the directions go: a rule must have just those that
\* are asked for.  The operator can ask for others any time.
Filters      == [ingoingPackets : BOOLEAN, outgoingPackets : BOOLEAN]
Rows(filter) == {k \in DOMAIN rules : \A way \in DOMAIN filter : rules[k][way] = filter[way]}

Act == ~opened /\ acts < MaxActs /\ acts' = acts + 1

\* Mutant: the row's place among those shown is taken for its id.
DeleteRow_BYPLACE ==
    /\ Act
    /\ \E filter \in Filters : \E k \in Rows(filter) :
         LET deletion == Deletion(rules[k], stamp, NoRule)
         IN  wire' = Append(wire, [deletion EXCEPT !.id = Cardinality({j \in Rows(filter) : j < k})])
    /\ UNCHANGED <<kernel, queue, answers, losses, rules, stamp, opened, current>>

\* "Delete rule".  The rules are not listed again.
DeleteRow ==
    /\ Act
    /\ \E filter \in Filters : \E k \in Rows(filter) :
         wire' = Append(wire, Deletion(rules[k], stamp, NoRule))
    /\ UNCHANGED <<kernel, queue, answers, losses, rules, stamp, opened, current>>

\* "Edit rule" gives the row to the dialog, which takes it over; the effect on
\* editOpened lists the rules.
EditRow ==
    /\ Act
    /\ \E filter \in Filters : \E k \in Rows(filter) : current' = [row |-> rules[k], stamp |-> stamp]
    /\ opened' = TRUE
    /\ wire' = Append(wire, ListCall)
    /\ UNCHANGED <<kernel, queue, answers, losses, rules, stamp>>

\* "New Rule" gives undefined to the dialog, which keeps the rule it had.
NewRule ==
    /\ Act
    /\ opened' = TRUE
    /\ wire' = Append(wire, ListCall)
    /\ UNCHANGED <<kernel, queue, answers, losses, rules, stamp, current>>

\* handleSubmit and editRule: a rule without an id is added; one with an id is
\* deleted first.  Then the dialog closes, and the rules are listed.
Submit ==
    /\ opened /\ opened' = FALSE
    /\ \E typed \in Typed :
         wire' = wire \o <<IF current.row = NoRule THEN AddCall(typed)
                           ELSE Deletion(current.row, current.stamp, typed),
                           ListCall>>
    /\ UNCHANGED <<kernel, queue, answers, losses, rules, stamp, current, acts>>

Cancel ==
    /\ opened /\ opened' = FALSE
    /\ wire' = Append(wire, ListCall)
    /\ UNCHANGED <<kernel, queue, answers, losses, rules, stamp, current, acts>>

\* "Refresh data".  Bound: only when nothing is under way.
Refresh ==
    /\ ~opened /\ wire = <<>> /\ answers = <<>>
    /\ wire' = <<ListCall>>
    /\ UNCHANGED <<kernel, queue, answers, losses, window>>

Next ==
    \/ Serve \/ Lose \/ OtherClient
    \/ Deliver
    \/ DeleteRow \/ EditRow \/ NewRule \/ Submit \/ Cancel \/ Refresh

\* Calls and answers arrive; the operator closes the dialog, and refreshes the
\* rules again and again.
Spec ==
    /\ Init /\ [][Next]_vars
    /\ WF_vars(Serve) /\ WF_vars(Deliver)
    /\ WF_vars(Submit \/ Cancel) /\ WF_vars(Refresh)

-----------------------------------------------------------------------------
Kinds == {"list", "add", "delete"}

TypeOK ==
    /\ Len(table) <= MaxRules /\ \A k \in DOMAIN table : \E typed \in Typed : table[k] = Stored(typed)
    /\ removals \in Nat /\ others \in 0..MaxOthers /\ losses \in 0..MaxLosses
    /\ \A k \in DOMAIN wire : wire[k].kind \in Kinds /\ wire[k].stamp \in 0..removals
    /\ \A k \in DOMAIN queue : queue[k].kind \in Kinds
    /\ \A k \in DOMAIN answers : answers[k].stamp \in stamp..removals
    /\ \A k \in DOMAIN rules : rules[k].id = k - 1
    /\ stamp \in 0..removals /\ current.stamp \in 0..stamp
    /\ opened \in BOOLEAN /\ acts \in 0..MaxActs

\* A deletion that the service carries out removes the rule whose row the operator
\* chose, or one that reads the same, if no rule at all has been removed since the
\* rows were listed: hidden rows, additions by others and listings that are lost
\* or late do not change which rule that is.
Deletes(call) == call.kind = "delete" /\ call.stamp = removals

RemovesTheRowMeant ==
    [][wire # <<>> /\ Deletes(Head(wire)) /\ queue' = Append(queue, Head(wire)) =>
          \E k \in DOMAIN table :
              /\ table' = RemoveAt(table, k)
              /\ from_raw_data(Head(wire).meant.id, table[k]) = Head(wire).meant]_vars

\* What a row tells of a rule that was typed.  Texts that fit in their fields come
\* back whole, a protocol that is known by its name, and ports that are no negative
\* numbers: but which of the two is called which is left open here, for the two
\* change places.  Of longer texts, of "*" for a protocol (which comes back as the
\* name of 255) and of the port -1 (which comes back as 2^32 - 1) nothing is said.
TellsOf(row, typed) ==
    /\ \A flag \in {"outgoingPackets", "ingoingPackets", "black", "log"} : row[flag] = typed[flag]
    /\ Cut[NameSize][typed.name] = typed.name => row.name = typed.name
    /\ \A addr \in {"srcIP", "dstIP"} :
            Cut[AddrSize][typed[addr]] = typed[addr] => row[addr] = typed[addr]
    /\ typed.protocol \in DOMAIN ProtoNumber => row.protocol = typed.protocol
    /\ {typed.srcPort, typed.dstPort} \subseteq Nat =>
            {row.srcPort, row.dstPort} = {typed.srcPort, typed.dstPort}

\* Each rule in the window is one that was typed, read back from the kernel's
\* struct by the service as far as it fits in there.
RowsTellOfTyped == \A k \in DOMAIN rules : \E typed \in Typed : TellsOf(rules[k], typed)

\* Whatever was lost, and although additions and deletions take the answers of
\* listings: an operator who goes on refreshing comes to see the table as it is,
\* or nothing where it is too long to be listed.
ViewSettles == <>[](rules = Listing(table))

-----------------------------------------------------------------------------
(***************************************************************************)
(* What the declarations of the user interface say and it does not do.     *)
(***************************************************************************)
UnderWay(kind, typed) == \E k \in DOMAIN wire : wire[k].kind = kind /\ wire[k].next = typed

\* global.ts: "deleteRule: (id: number) => Promise<boolean>", and editRule in
\* RuleViewer.tsx adds the rule when that is true.  So the rule that an edit is
\* to leave is added in the end, unless something is lost on the way.
EditPutsTheRuleBack ==
    \A typed \in Typed : UnderWay("delete", typed) ~> (UnderWay("add", typed) \/ losses > 0)
=============================================================================
