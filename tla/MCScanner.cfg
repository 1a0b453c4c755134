SPECIFICATION Spec
CHECK_DEADLOCK FALSE
CONSTANT
  Texts <- MCTexts
INVARIANTS
    LongestMatchFirstRule
