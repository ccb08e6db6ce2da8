SPECIFICATION FairSpec
CONSTANTS
    Clusters = {c1}
    Combined = {all}
    Modes = {FALSE}
    Forces = {TRUE, FALSE}
    Handlers = {h1}
    Refreshers = {r1, r2}
    Ttl <- MCTtl
    Window <- MCWindow
    ForceMinimum = 1
    DiskTtl = 0
    Faults = {"ledger", "client"}
INVARIANTS RefreshFlagOwned CombinedTriedSince
PROPERTY RefreshedWhileRead
