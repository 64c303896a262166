SPECIFICATION Spec
CONSTANTS
    Radios = {r1, r2, r3}
    Talkgroups = {g1}
    Channels = {c1, c2}
    Slots = {1}
    Timeout = 1
    MaxRadios = 2
    EvictShare = 20
    Snapshots <- MCSnapshots
    MaxTime = 2
    MaxFrames = 2
    None = None
SYMMETRY MCSymmetry
INVARIANTS CapHolds LastHeardIsLive
PROPERTIES CallbacksBalanced EvictsTheOldest NoFrameJoinsStaleCall ChannelsIndependent
