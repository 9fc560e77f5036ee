SPECIFICATION Spec
CONSTANTS
    MaxElement = 3
    Npe = 2
    Sizes = {1, 3}
    Spare = 1
    Value = {a}
    Parent = {p}
    Raw = Raw
    NoData = NoData
INVARIANTS ElementsAreAsWritten CachesMirrorFile ParentsFitTheRange WholeReadIsServed
CHECK_DEADLOCK FALSE
