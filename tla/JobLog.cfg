SPECIFICATION FairLogSpec
CONSTANTS
    Readers = {r1}
    Samplers = {s1}
    Remote = FALSE
    Window = 1
    Payload = 1
    MaxSize = 2
    MaxFiles = 2
    MaxMishaps = 1
INVARIANT RepliesAreWhole
PROPERTY CaughtUp
