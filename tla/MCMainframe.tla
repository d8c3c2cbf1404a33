---------------------------- MODULE MCMainframe -----------------------------
EXTENDS Mainframe, TLC

CONSTANTS f1

\* main.lua's four fields, shortened to what shows their role.
OneField == <<f1>>

\* The threads of the pool are interchangeable.
Symmetry == Permutations(Workers)
=============================================================================
