SPECIFICATION Spec
CONSTANTS
    Clients = {c1, c2}
    c1 = c1
    c2 = c2
    MaxStatements <- MCMaxStatements
    Kinds = {"sql", "comment", "ended"}
INVARIANTS
    ConversationInStep
    AnswersAreOwn
    CurrentBufferIsAlive
PROPERTY EveryStatementIsAnswered
CHECK_DEADLOCK FALSE
