--------------------------- MODULE MCRequestScope ---------------------------
EXTENDS RequestScope, TLC

\* Neither goroutines, traces nor messages are told apart.
Symmetry ==
    Permutations(Goroutines \ {Scanner}) \cup Permutations(Traces) \cup Permutations(Messages)
=============================================================================
