--------------------------- MODULE MCCookbookCache ---------------------------
(***************************************************************************)
(* CookbookCache for TLC: processes, files and directories are             *)
(* interchangeable.                                                        *)
(***************************************************************************)
EXTENDS CookbookCache, TLC

Same == Permutations(Procs) \cup Permutations(Files) \cup Permutations(Dirs)
=============================================================================
