SPECIFICATION FairSpec
CONSTANTS
    Views = {v1, v2}
    Pressers = {v1}
    Threads = {t1, t2}
    NoView = nobody
    MaxMishaps = 1
    FirstDelay = 2
    MayBeLost = TRUE
INVARIANT ForeignIsRefused
PROPERTIES FinalIsKept PressIsServed
CHECK_DEADLOCK FALSE
