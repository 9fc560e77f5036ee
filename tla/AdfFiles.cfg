SPECIFICATION Spec
CONSTANTS
    a = a
    b = b
    c = c
    h1 = h1
    h2 = h2
    Files = {a, b, c}
    Node = {1, 2}
    Plain = Plain
    Target <- MCTarget
    Handle = {h1, h2}
    FileInc = 2
    MaxTable = 4
    LinkDepth = 2
    StackLimit = 5
SYMMETRY Handles
INVARIANTS TypeOK ClosingCompletes CountsAreUsers RememberedLinkHolds
PROPERTIES NeededStaysOpen
CHECK_DEADLOCK FALSE
