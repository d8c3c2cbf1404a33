------------------------------ MODULE MCAioLog ------------------------------
EXTENDS AioLog

\* A level that is accepted, and one that is not.
MCLevelArgs == {-1, 3}
=============================================================================
