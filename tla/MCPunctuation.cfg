SPECIFICATION Spec
CONSTANTS
    TokenLen = 2
    PopLimit = 3
    MaxText = 4
    MaxWords = 7
INVARIANTS
    TypeOK
    WordsOnce
    MarksPlaced
