SPECIFICATION FairSpec
CONSTANTS
    t1 = t1
    t2 = t2
    t3 = t3
    Task = {t1, t2, t3}
    NoCall = NoCall
    Delay <- MCDelay
    Increment <- MCIncrement
    NsPerSec = 3
    SecWrap = 2
    SetNsec <- MCSetNsec
INVARIANTS TypeOK PassTimeAsserts OnePlaceEach DeadlinesKept FifoGroups RealtimeTracks
PROPERTIES KeepsPromise EveryTaskRuns
