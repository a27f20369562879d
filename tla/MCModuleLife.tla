---------------------------- MODULE MCModuleLife ----------------------------
(***************************************************************************)
(* A small instance of ModuleLife: a hook and a command next to init and   *)
(* exit, two nodes - one free_list is at, and one it holds, misses, or has *)
(* taken from under it -, and a second load of the module.                 *)
(***************************************************************************)
EXTENDS ModuleLife

MCCpus == {"cpu"}
=============================================================================
