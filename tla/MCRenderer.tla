----------------------------- MODULE MCRenderer -----------------------------
EXTENDS Renderer, TLC
\* The threads are alike.
Symmetry == Permutations(Threads)
=============================================================================
