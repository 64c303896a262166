SPECIFICATION FairSpec
CONSTANTS
    r1 = r1
    r2 = r2
    x = x
    y = y
    Ids = {r1, r2}
    Watch <- MCWatch
    AnyGroup = {r1}
    Cooldown <- MCCooldown
    Timeout = 1
    Slots = {1}
    Keys = {x, y}
    MaxTime = 2
    Lag = 1
    None = None
INVARIANTS TypeOK AtMostOneLate NoFlood
PROPERTIES SilenceIsNoticed
