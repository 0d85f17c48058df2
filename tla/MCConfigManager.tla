-------------------------- MODULE MCConfigManager --------------------------
(***************************************************************************)
(* A small instance of ConfigManager: two programs, a list of at most two  *)
(* entries, a name in two spellings and one that is too long.              *)
(***************************************************************************)
EXTENDS ConfigManager, TLC

CONSTANTS app, APP, long

MCSettings == <<"FileCountThreshold">>
MCFolded == app :> app @@ APP :> app @@ long :> long
Symmetric == Permutations(Processes)
=============================================================================
