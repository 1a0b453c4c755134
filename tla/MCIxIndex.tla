---------------------------- MODULE MCIxIndex ----------------------------
EXTENDS IxIndex

\* Keys whose lowest bytes agree (0 and 256, 1 and 257), the key of an empty slot, and
\* keys that a split takes for duplicates.
MCKeys == {-2, -1, 0, 1, 256, 257}

\* The keys of the rows in the order of a scan, for a tree of three levels.
MCLoads == {<<-2, -1, 0, 1, 257>>}

=============================================================================
