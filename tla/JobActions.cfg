SPECIFICATION MCSpec
CONSTANTS
    Cancellers = {k1}
    Adopters = {a1}
    Requested = "task"
    Accounting = TRUE
    AuditLines = 2
    LedgerLines = 1
    Attempts = 2
    MaxChanges = 3
    MaxKills = 1
    TryLimits = {1, 2}
    InputSizes = {0, 2}
    OutputLimit = 1
    PipeSize = 1
    MaxOutput = 2
INVARIANTS
    EffectsAreAudited AuditKeepsRecent ActsOnlyOnProven
    AnswersAreWhole NothingSurvives
PROPERTIES CallsReturn
CHECK_DEADLOCK FALSE
