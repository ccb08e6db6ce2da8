SPECIFICATION FairSpec
CONSTANTS
    Procs = {p1, p2}
    NoProc = NoProc
    Accounting = TRUE
    Archives = {FALSE}
    QueueTtl = 0
    AccountingTtl = 0
    MaxVersion = 1
    Crashes = TRUE
INVARIANT NoWastedCall
PROPERTY StoresInOrder
