----------------------------- MODULE MCRsFilter -----------------------------
(***************************************************************************)
(* A small instance of RsFilter: two threads, an ordinary process the user *)
(* may put on the allowlist, one with a built-in name and one of the       *)
(* system, and lists that are empty, full, too long for one message, or    *)
(* hold a name without characters.                                         *)
(***************************************************************************)
EXTENDS RsFilter, TLC

CONSTANTS system, ordinary, builtin, app, other, svchost

MCPids == {system, ordinary, builtin}
MCImage == system :> svchost @@ ordinary :> app @@ builtin :> svchost
MCLists == {<<>>, <<EmptyName, app>>, <<other, app, other>>}
Symmetric == Permutations(Threads)
=============================================================================
