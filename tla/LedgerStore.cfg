SPECIFICATION FairSpec
CONSTANTS
    j1 = j1
    k1 = k1
    c = c
    d = d
    Jobs <- MCJobs
    Clusters <- MCClusters
    ClusterOf <- MCClusterOf
    IdOf <- MCIdOf
    Requests <- MCRequests
    Updaters = {u1, u2}
    NoUpdater = NoUpdater
    Failures = TRUE
INVARIANT DismissalsHold
PROPERTIES UnreadUntilOpened ImplementsLedger
