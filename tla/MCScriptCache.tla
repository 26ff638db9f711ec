--------------------------- MODULE MCScriptCache ---------------------------
(***************************************************************************)
(* Small instances of ScriptCache.  Processes and blocks are               *)
(* interchangeable; the scripts are too, but there are only one or two.    *)
(***************************************************************************)
EXTENDS ScriptCache, TLC

Symmetry == Permutations(Proc) \cup Permutations(Block)

Empty == {"clear", "purge"}
Administered == {"clear", "purge", "check_mtime"}
Cleaned == {"clean"}
Cleared == {"clear"}
=============================================================================
