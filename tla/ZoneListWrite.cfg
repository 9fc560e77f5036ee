SPECIFICATION Spec
CONSTANTS
    za = za
    zb = zb
    zc = zc
    NoKey = NoKey
    NULL = NULL
    Key = {za, zb, zc}
    Order <- MCOrder
    Others = {zc}
    HashOf <- MCHashOf
    HashDigits = 2
INVARIANTS ZoneWriteReturnsTheZone
CHECK_DEADLOCK FALSE
