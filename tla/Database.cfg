SPECIFICATION MCSpec
CONSTANTS
    Rows = {1, 2, 3}
    Conds <- MCConds
    Meets <- MCMeets
    Holes <- MCHoles
    Searched = "search"
    RankOf <- MCRankOf
    Drivers = {"postgres", "sqlite", "other"}
    PageNumbers = {0, 2, 7}
    PageSizes = {0, 4}
    MaxInt = 7
    MaxPageSize = 2
    DefaultPageSize = 1
    MaxCalls = 3
    MaxRead = 4
    MaxChanges = 1
    Processes = {s1, s2, s3}
    UniqueKeys = {u1, u2}
    Absent = Absent
    Calls <- RecordCalls
    ChunkSize = 1
    MaxDeletes = 1
INVARIANTS
    StatementsFit
    SelectsWhatWasAsked
    PagesAreComplete
    CallsRecover
    CreateAllKeepsChunks
CHECK_DEADLOCK FALSE
