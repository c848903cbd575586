SPECIFICATION Spec
CONSTANTS
    Absent = Absent
    Nobody = Nobody
    u1 = u1
    u2 = u2
    Users = {u1, u2}
    Apps <- MCApps
    Served <- MCServed
    Requests <- MCRequests
    Start <- MCStart
    MaxRequests = 2
INVARIANTS
    UpMeansSound
    MirrorFollows
PROPERTIES
    AllowedWhenRun
    BornOwned
    AudienceIsReaders
CHECK_DEADLOCK FALSE
