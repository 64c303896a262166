SPECIFICATION FairSpec
CONSTANTS
    Tunings = {f1, f2}
    Seed = f1
    Children = {k1, k2}
    Watchdog = TRUE
    Stubborn = TRUE
PROPERTIES ShutdownCompletes
