---------------------------- MODULE MCRsCommPort ----------------------------
(***************************************************************************)
(* Small instances of RsCommPort: a client that is replaced by another one *)
(* while two threads report blocks, the first client unblocks, and the     *)
(* driver unloads.                                                         *)
(***************************************************************************)
EXTENDS RsCommPort, TLC

Symmetric == Permutations(Pids) \union Permutations(Callers)
               \union Permutations(Clients)
=============================================================================
