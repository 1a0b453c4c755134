---------------------------- MODULE MCSmCatalog ----------------------------
EXTENDS SmCatalog, TLC

\* Statements and the system treat all descriptors alike, and all tables.
Symmetry == Permutations(Fds) \cup Permutations(Tables)
=============================================================================
