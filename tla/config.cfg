SPECIFICATION Spec
CONSTANTS
    Entries <- MCEntries
    MaxLines = 5
    None = None
    Decimal <- MCDecimal
    Numerals <- MCNumerals
    Stoi <- MCStoi
INVARIANTS
    NestedRight
    ListsInOrder
CHECK_DEADLOCK FALSE
