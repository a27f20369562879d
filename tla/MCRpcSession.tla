---------------------------- MODULE MCRpcSession ----------------------------
(***************************************************************************)
(* Small instances of RpcSession.                                          *)
(***************************************************************************)
EXTENDS RpcSession

MCKinds == {"list_rules", "add_rule", "unfit"}
=============================================================================
