SPECIFICATION Spec
CONSTANTS
    Fields <- MCFields
    Values <- MCValues
    Watchers <- MCWatchers
    WatchOrder <- MCOrder
    FieldsOf <- MCFieldsOf
    Views = {"show:body", "show:view", "show:copy"}
    Senders = {"send:body", "send:copy"}
    SkipsOf <- MCSkipsOf
    Body <- MCBody
    MaxFirings = 2
    Routes <- MCRoutes
    Texts <- MCTexts
    Coerce <- MCCoerce
    Encode <- MCEncode
    Blank = "blank"
    SyncUrl = "url"
    Derivers = {"mirror", "normalise"}
    WrittenFields = {"body"}
    BoundFields = {"body", "copy"}
    Contents = {"a", "b", "x"}
    Presses <- MCPresses
    Urls <- MCUrls
    Mounted <- MCMounted
    MaxMoves = 3
INVARIANTS
    PageShowsStore
    OutboxIsLocalChanges
    HistoryTells
PROPERTY
    CascadesEnd
CHECK_DEADLOCK FALSE
