SPECIFICATION FairSpec
CONSTANTS
    Channels = {c, t}
    Control = {c}
    DayLen = 2
    LastDay = 1
    LastSec = 0
    Hang = 1
    None = None
INVARIANTS ClockNeverAhead
PROPERTIES DaysKeepInStep RecentTrafficIsFed StopsAll
CHECK_DEADLOCK FALSE
