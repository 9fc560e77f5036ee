SPECIFICATION Spec
CONSTANTS
    old = old
    new = new
    Rank <- MCRank
    Root = 0
    FileName = {old, new}
    Existing = {old}
    Programs <- MCPrograms
INVARIANTS TypeOK OpenedAsAsked CollectivesAgree OkIsInFile
PROPERTIES EveryRankEnds
CHECK_DEADLOCK FALSE
