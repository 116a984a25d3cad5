CONSTANTS
  LogBlock = 3
  Alphabet = {"quote", "backslash", ","}
SPECIFICATION Spec
INVARIANTS TypeOK MaskIsLexed CarryIsLexerState
