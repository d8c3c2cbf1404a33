--------------------------- MODULE MCSessionStore ---------------------------
EXTENDS SessionStore, TLC

\* The workers are interchangeable: nothing in the store orders them.
Symmetry == Permutations(Workers)
=============================================================================
