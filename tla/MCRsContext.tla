----------------------------- MODULE MCRsContext -----------------------------
(***************************************************************************)
(* Small instances of RsContext: two threads in the driver, two processes  *)
(* and one address more than can be linked, so that a thread can lose the  *)
(* race for a context, the pool can run out, and a context can be freed    *)
(* and its address handed out again.                                       *)
(***************************************************************************)
EXTENDS RsContext, TLC

(* Both thresholds are reachable: the operation that creates a context     *)
(* blocks under the lower one.                                             *)
MCUpdates == [threshold : {0, 1}, window : {0}, enabled : {TRUE}]

Symmetric == Permutations(Pids) \union Permutations(Addresses)
               \union Permutations(Callers)
=============================================================================
