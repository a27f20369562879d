---------------------------- MODULE MCRuleTable ----------------------------
(***************************************************************************)
(* Small instances of RuleTable: two rules, tables longer than a listing   *)
(* has room for and than the ids a removal can name.                       *)
(***************************************************************************)
EXTENDS RuleTable

MCShortIds == 0..IdMod - 1      \* the ids that survive their journey
=============================================================================
