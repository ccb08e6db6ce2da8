SPECIFICATION Spec
CONSTANTS
    Previewers = {p1}
    Submitters = {s1, s2}
    Listers = {l1}
    Callers = {p1, s1, s2, l1}
    Contents = {a, b}
    MaxChanges = 2
    PreviewLimit = 1
    Workers = 2
    Attempts = 2
    MaxRestarts = 1
SYMMETRY Symmetry
INVARIANT ProvenanceIsTrue
PROPERTY ImplementsOneUse
CHECK_DEADLOCK FALSE
