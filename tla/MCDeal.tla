------------------------------- MODULE MCDeal -------------------------------
EXTENDS Deal, TLC

\* The threads of the pool are interchangeable.
Symmetry == Permutations(Workers)
=============================================================================
