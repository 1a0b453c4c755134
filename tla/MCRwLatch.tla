----------------------------- MODULE MCRwLatch -----------------------------
EXTENDS RwLatch, TLC

ThreadSymmetry == Permutations(Threads)

=============================================================================
