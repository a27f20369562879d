------------------------------ MODULE RuleSeq ------------------------------
(***************************************************************************)
(* What the rule table promises to whoever talks to it over netlink: a     *)
(* sequence of rules in which the id of a rule is its position, counted    *)
(* from 0.  Nobody is told whether a request succeeded.                    *)
(***************************************************************************)
EXTENDS Integers, SequencesExt

CONSTANTS
    Rule,       \* the rules
    AskedIds    \* the ids a removal can ask for

VARIABLES
    seq,        \* the rules, in the order in which they were added
    request,    \* the request completed last
    answer      \* the listing sent last

vars == <<seq, request, answer>>

Init ==
    /\ seq = <<>>
    /\ request = <<"NONE">>
    /\ answer = <<>>

\* A rule goes to the end of the table, unless there is no memory for it.
Add(rule) ==
    /\ request' = <<"ADD_RULE", rule>>
    /\ seq' \in {Append(seq, rule), seq}
    /\ UNCHANGED answer

\* The rule with the given id goes, and the rules behind it move up.
RemoveById(id) ==
    /\ request' = <<"REMOVE_RULE", id>>
    /\ seq' = IF id + 1 \in DOMAIN seq THEN RemoveAt(seq, id + 1) ELSE seq
    /\ UNCHANGED answer

\* A listing holds the whole table or, when it does not fit, nothing at all.
List ==
    /\ request' = <<"LIST_RULES">>
    /\ answer' \in {seq, <<>>}
    /\ UNCHANGED seq

Next ==
    \/ \E rule \in Rule : Add(rule)
    \/ \E id \in AskedIds : RemoveById(id)
    \/ List

Spec == Init /\ [][Next]_vars
=============================================================================
