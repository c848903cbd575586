SPECIFICATION Spec
CONSTANTS
    g1 = g1
    g2 = g2
    Empty = Empty
    Unknown = Unknown
    Groups = {g1, g2}
    Selections = {g1, Empty}
    Ids = {1, 2, 3}
    Ords = {1, 2}
    Colls <- MCColls
    Start <- MCStart
    MaxWrites = 2
    MaxSelects = 1
    MaxFaults = 1
INVARIANTS
    RowsAreInstances
    MembersFollow
CHECK_DEADLOCK FALSE
