SPECIFICATION QuerySpec
CONSTANTS
    Rows = {1, 2, 3}
    Conds <- MCConds
    Meets <- MCMeets
    Holes <- MCHoles
    Searched = "search"
    RankOf <- MCRankOf
    Drivers = {"postgres", "sqlite", "other"}
    PageNumbers = {0, 2, 7}
    PageSizes = {0, 4}
    MaxInt = 7
    MaxPageSize = 2
    DefaultPageSize = 1
    MaxCalls = 1
    MaxRead = 4
    MaxChanges = 1
INVARIANTS
    ZeroStartsTheWalk
CHECK_DEADLOCK FALSE
