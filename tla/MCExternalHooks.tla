--------------------------- MODULE MCExternalHooks ---------------------------
(* Symmetry for the safety runs of ExternalHooks: threads, request ids and    *)
(* request bodies are interchangeable.                                        *)
EXTENDS ExternalHooks, TLC
Symmetry == Permutations(Threads) \union Permutations(Ids) \union Permutations(Bodies)
=============================================================================
