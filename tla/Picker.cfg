SPECIFICATION Spec
CONSTANTS
    Jobs <- MCJobs
    Clusters <- MCClusters
    ClusterOf <- MCClusterOf
    NameOf <- MCNameOf
    NumberOf <- MCNumberOf
    FirstListings <- MCFirstListings
    Limit = 4
    MaxKeys = 4
    MaxChanges = 1
    Directories <- MCDirectories
    Scripts <- MCScripts
    DirectoryOf <- MCDirectoryOf
    OriginOf <- MCOriginOf
    MaxBankKeys = 5
INVARIANTS KeysActOnWhatIsDrawn OpensWhatWasMarked CursorKeepsItsRow SubmitsWhereItBelongs
CHECK_DEADLOCK FALSE
