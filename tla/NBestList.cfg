\* Sentences of three and of six words.
SPECIFICATION NBestSpec
CONSTANTS
    Word <- TwoWords
    BeginWord <- FirstWord
    Settings <- AllSettings
INVARIANTS NoDangling SearchIsExact BestCellsPopped ListIsBestOfGraph ListIsFull
\* The program ends when the list is made.
CHECK_DEADLOCK FALSE
