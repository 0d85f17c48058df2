----------------------------- MODULE MCRsAgents -----------------------------
(***************************************************************************)
(* Small instances of RsAgents: every program with every fault, and the    *)
(* tray alone without any.                                                 *)
(***************************************************************************)
EXTENDS RsAgents
=============================================================================
