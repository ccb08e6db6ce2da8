SPECIFICATION FairSpec
CONSTANTS
    Releases = {1, 3}
    Current = 2
    Junk = junk
    MaxMishaps = 1
    Clients = {c1}
    Updater = updater
    Procs = {d1, d2}
    NoProc = none
    MaxTries = 2
    MaxCrashes = 1
INVARIANTS VerifiedBeforeUse ServingIsReachable
PROPERTY EveryoneEnds
