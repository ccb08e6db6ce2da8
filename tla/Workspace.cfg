SPECIFICATION WorkspaceSpec
CONSTANTS
    Jobs = {a, b, c}
    Processes = {p1, p2}
    MaxPanes = 6
    MaxCommands = 3
    MaxRefusals = 1
INVARIANTS OpensAllOrNothing PicksTakeEffect NoOrphanDetails
SYMMETRY Symmetry
CHECK_DEADLOCK FALSE
