SPECIFICATION WatchSpec
CONSTANTS
    Jobs = {a}
    Monitors = {m1}
    QueueTtl = 2
    PollInterval = 2
    CallLimit = 1
INVARIANTS StopsOnlyGoneJobs ClosesOnlyLostJobs
PROPERTIES AddsOnlyNews FollowerNotices WatcherAttaches
CHECK_DEADLOCK FALSE
