SPECIFICATION FairSpec
CONSTANTS
    a = a
    b = b
    star = star
    WordLen = 3
    TextLen = 4
    Chars <- MCChars
    Star = star
    Words <- MCWords
    Texts <- MCTexts
    MaxWords = 2
INVARIANTS
    TypeOK
    DetectionExact
    NoWordLeft
    OnlyWordsMasked
PROPERTIES
    ScanEnds
