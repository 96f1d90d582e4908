------------------------------- MODULE MCSqldb -------------------------------
\* Two tasks with two transactions in all, over three connection objects.
EXTENDS Sqldb, TLC

Symmetry == Permutations(Conns) \cup Permutations(Tasks)

=============================================================================
