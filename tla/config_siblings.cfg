SPECIFICATION Spec
CONSTANTS
    Entries <- GatewayEntries
    MaxLines = 4
    None = None
    Decimal <- MCDecimal
    Numerals <- MCNumerals
    Stoi <- MCStoi
INVARIANT
    NestingByIndentation
CHECK_DEADLOCK FALSE
