SPECIFICATION MCSpec
CONSTANTS
    Conns = {c1, c2}
    Clients = {b1, b2}
    Contexts = {x1, x2}
    DataMaps = {d1, d2}
    GzWriters = {z1}
    Nothing = Nothing
    RateMax = 1
    RateWindow = 1
    MaxServed = 3
    MaxCopies = 1
    MaxPanics = 1
    MaxClock = 2
    Tabs = {c1, c2}
    Pks = {1,2,3}
    Restricted = {}
    InitRows <- MCRows
    NewRows <- MCNewRows
    Fields = {"name","pass","note","photo","due","owner","deputy","state","saved"}
    Tags <- MCTags
    Defaults <- MCRow
    DefaultPageSize = 2
    MaxPageSize = 2
    Sizes = {1, 3}
    Touches <- MCTouches
    Targets <- MCTargets
    OptionsLimit = 2
    Minute = 2
    Day = 2
    Days = {1, Bad}
    Zone = 0
    StaffCheckTTL = 2
    GuardTime = 1
    MaxSessions = 2
    MaxSteps = 3
    Absent = Absent
    Blank = Blank
    Bad = Bad
    Stars = Stars
    Address = Address
SYMMETRY WebSymmetry
INVARIANTS
    WebTypeOK
    FormsCarryOwnToken
    CopiesKeepTheirValues
    RateLimited
    AnsweredInFull
    RightsExpire
    HistoryAccounts
PROPERTIES
    FiltersMatchDays
    UntouchedFieldsStay
CHECK_DEADLOCK FALSE
