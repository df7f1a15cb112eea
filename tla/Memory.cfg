CONSTANTS
  Memories = {"m", "n"}
  Docs = {"d"}
  Embedders = {"e", "f"}
  ChunksOf <- MCChunksOf
  None = None
  TTLs <- MCTTLs
  Drifts = {0, 1}
  Strict = TRUE
  Callers = {"c"}
  Budgets <- MCBudgets
SPECIFICATION Spec
INVARIANTS IngestedIsFile MemoriesKept OneSpace AnsweredStaysVisible
PROPERTIES ExpiredStaysHidden
CHECK_DEADLOCK FALSE
