CONSTANTS
  Kinds = {"plain", "empty", "list", "word", "exec", "nested", "subscribe", "unsubscribe"}
  MaxLine = 6
  MaxRequests = 2
  MaxPushes = 2
SPECIFICATION Spec
INVARIANTS
  HandledInOrder
  AnswersMatch
PROPERTIES
  RefusedOnlyWhenAhead
  Answered
CHECK_DEADLOCK FALSE
