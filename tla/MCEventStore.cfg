SPECIFICATION FairSpec
CONSTANTS
    Timers = {t1, t2}
    BatchSize = 2
    Chunk = 1
    None = None
    LastDay = 2
    Capacity = 1
    MaxEvents = 2
    MaxErrors = 1
INVARIANTS LinesInTheirDay LossIsCounted PendingIsWatched RowsFollowLines WipedStaysWiped
PROPERTIES FsyncCoversItsDay DurableLogSpec PendingGetsCommitted
