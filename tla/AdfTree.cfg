SPECIFICATION Spec
CONSTANTS
    x = x
    y = y
    blankX = blankX
    Name = {x, y, blankX}
    Trim <- MCTrim
    MaxNode = 4
    ListChunk = 2
INVARIANTS TypeOK TreeIsSound ListedIsThere OthersAreKept
CHECK_DEADLOCK FALSE
