--------------------------- MODULE MCTransactions ---------------------------
EXTENDS Transactions

CONSTANTS t1, t2

\* One thread writes more than the other.
MCMaxWrites == t1 :> 2 @@ t2 :> 1

\* For the rollback that goes wrong: an insertion and two deletions.
BugMaxWrites == t1 :> 3 @@ t2 :> 1

MCLoaded == <<1>>

=============================================================================
