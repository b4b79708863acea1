\* Lines of up to six tokens; a TTL is at most 5 and a safe integer at most 9.
CONSTANTS
  Names <- AllNames
  Arguments <- SomeArguments
  UpperCase <- Capitals
  Digits <- Naturals
  Negative <- Below
  Value <- NumberOf
  MAX_TTL_SECONDS = 5
  MAX_SAFE_INTEGER = 9
  MaxTokens = 6
SPECIFICATION Spec
INVARIANTS
  AcceptsGrammar
  NothingLost
\* The bound on the line stops the model, not the program.
CHECK_DEADLOCK FALSE
