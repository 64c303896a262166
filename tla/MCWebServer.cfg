SPECIFICATION FairSpec
CONSTANTS
    Clients = {p}
    Prompt = {p}
    Tick = Tick
    Resets = {r}
    QueueLen = 1
    PoolSize = 2
    Concurrency = 1
    MaxQueue = 2
    MaxVersion = 2
    None = None
INVARIANTS LatestOnItsWay ErasedPushedOnceMore
PROPERTIES PromptClientsConverge
