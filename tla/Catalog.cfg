CONSTANTS
  Names = {"a", "b", "c"}
  Ids = {1, 2}
  Texts <- MCTexts
  Words <- MCWords
  Grams <- MCGrams
  Filters <- MCFilters
  Environments <- MCEnvironments
  MaxCrashes = 1
SPECIFICATION Spec
INVARIANTS NarrowingIsSound AliasesResolve ReopenFindsCatalog
CHECK_DEADLOCK FALSE
