SPECIFICATION MapSpec
CONSTANTS
    a = a
    b = b
    c = c
    NoKey = NoKey
    NULL = NULL
    Key <- MCKey
    HashOf <- MCHashOf
    HashDigits = 2
    Values = {0, 1}
    Presizes = {0, 10}
INVARIANTS MapTypeOK EveryKeyIsFound AlwaysAnEmptySlot
PROPERTIES OrderIsKept ImplementsNamesOfIndex
