SPECIFICATION ServerFairSpec
CONSTANTS
    Slots = {s1, s2}
    Workers = {w1}
    Uris = {job, clusters}
    JobUris = {job}
    Monitors = {m1, m2}
    None = none
    MaxSubscriptions = 1
    MaxVersion = 2
    MaxRequests = 3
INVARIANT WatchersAreSubscribed
PROPERTIES NoticesAreWanted RequestsAnswered ChangesAnnounced
CHECK_DEADLOCK FALSE
