SPECIFICATION Spec
CONSTANTS
    Absent = Absent
    Apps <- MCApps
INVARIANTS
    PathsLead
    StampsAlike
    BareReadsByFile
    ReadsAreFetched
    PoliciesAgree
    RowsApart
CHECK_DEADLOCK FALSE
