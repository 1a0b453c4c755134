------------------------------ MODULE MCServer ------------------------------
EXTENDS Server, TLC

CONSTANTS c1, c2

\* One client has a second statement.
MCMaxStatements == c1 :> 2 @@ c2 :> 1

=============================================================================
