SPECIFICATION ServiceSpec
CONSTANTS
    Tunings = {f1, f2}
    Seed = f1
    Children = {k1, k2}
    Watchdog = TRUE
    Stubborn = FALSE
    MaxVersion = 4
    MaxRots = 2
    Missing = Missing
    Bad = Bad
    a = a
    b = b
    c = c
    Lines = {a, b, c}
    Days = {1, 2}
    DayOf <- MCDayOf
INVARIANTS OneChild NoLostRetune NoLostToggle UnsavedIsReported
INVARIANTS NothingSavedIsLost ImportTypeOK RefusesOnlyStrays
PROPERTIES ShutdownOnlyDescends RetuneTakesEffect PauseTakesEffect ResumeTakesEffect ShutdownCompletes
PROPERTIES SavedStateSpec NothingClobbered AtomicImportSpec
