SPECIFICATION AdminSpec
CONSTANTS
    Tabs = {c1, c2}
    Pks = {1,2,3}
    Restricted = {}
    InitRows <- MCRows
    NewRows <- MCNewRows
    Fields = {"name","pass","note","photo","due","owner","deputy","state","saved"}
    Tags <- MCTags
    Defaults <- MCRow
    DefaultPageSize = 2
    MaxPageSize = 2
    Sizes = {1, 3}
    Touches <- MCTouches
    Targets <- MCTargets
    OptionsLimit = 2
    Minute = 2
    Day = 2
    Days = {1, Bad}
    Zone = 2
    StaffCheckTTL = 2
    GuardTime = 1
    MaxSessions = 2
    MaxSteps = 3
    Absent = Absent
    Blank = Blank
    Bad = Bad
    Stars = Stars
    Address = Address
PROPERTIES ZoneOnlyShows
CHECK_DEADLOCK FALSE
