------------------------------ MODULE MCAccess ------------------------------
\* A small instance of Access, with every configuration and every token.
EXTENDS Access, TLC

Symmetry == Permutations(Subjects) \cup Permutations(ModelIds)
=============================================================================
