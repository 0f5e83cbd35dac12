--------------------------- MODULE MCHookCallbacks ---------------------------
(* Small instances of HookCallbacks.                                        *)
EXTENDS HookCallbacks, TLC

CONSTANTS t1, t2, e1, e2

MCThreads == {t1, t2}
MCEntries == {e1, e2}

Symmetry == Permutations(MCThreads) \cup Permutations(MCEntries)
==============================================================================
