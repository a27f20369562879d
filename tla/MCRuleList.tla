----------------------------- MODULE MCRuleList -----------------------------
(***************************************************************************)
(* Small instances of RuleList: packets that disobey one of the two rules, *)
(* removals of every id there can be, whether a node has it or not.        *)
(***************************************************************************)
EXTENDS RuleList

CONSTANTS allow, block

MCRule    == {allow, block}
MCPackets == {{block}}
MCAskedIds == 0..NodeCount - 1
=============================================================================
