------------------------- MODULE MCSessionRegistry -------------------------
(* SessionRegistry on a small instance: model values for the threads. *)
EXTENDS SessionRegistry, TLC

\* No property of these runs tells two threads apart.
Symmetry == Permutations(Threads)
=============================================================================
