CONSTANTS
  Names = {"a", "b", "c"}
  Ids = {1, 2}
  Texts <- MCTexts
  Words <- MCWords
  Grams <- MCGrams
  Filters <- MCFilters
  Environments <- MCStaleIndex
  MaxCrashes = 1
SPECIFICATION Spec
INVARIANT NarrowingIsAlwaysSound
CHECK_DEADLOCK FALSE
