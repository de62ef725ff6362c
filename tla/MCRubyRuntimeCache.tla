------------------------- MODULE MCRubyRuntimeCache -------------------------
(***************************************************************************)
(* RubyRuntimeCache for TLC: the processes are interchangeable.            *)
(***************************************************************************)
EXTENDS RubyRuntimeCache, TLC

Same == Permutations(Processes)
=============================================================================
