---------------------------- MODULE MCBufferPool ----------------------------
(* Model checking the buffer pool on small pools.                          *)
EXTENDS BufferPool

ClientSymmetry == Permutations(Clients)
=============================================================================
