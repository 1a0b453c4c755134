SPECIFICATION Spec
CONSTANTS
  MaxTokens = 12
  YYINITDEPTH = 14
INVARIANTS
    TreeIsStatement
    RejectsExactlyTheUngrammatical
    StackNeverExhausted
