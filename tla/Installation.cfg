SPECIFICATION MCSpec
CONSTANTS
    None = None
    Old = Old
    New = New
    HeadRev = 3
    ToolHead = 3
    FoundationTables <- MCTables
    Listing <- MCTables
    References <- MCReferences
    Functions = {f1}
    DroppedFunctions = {f1}
    Sources = {s1, s2}
    BundleRevisions = {2, 3, 4}
    Scenarios = {"live", "first", "target", "test", "none"}
    MaxRuns = 1
    MaxFaults = 1
    Nil = Nil
    FIELDS <- MCFields
    Urls = {"n1", "n2"}
    SetupTokens = {"v2", "plain"}
    GuardOn = TRUE
    Stages <- MCStages
    Void = Void
    Browsers = {"b1", "b2"}
    Idents = {"i1"}
    Realms <- MCRealms
    Roles = {"viewer", "operator", "admin"}
    Answers = {{"global"}, {"private", "unsafe"}}
    Baseline <- MCBaseline
    Asks <- MCAsks
    Starts <- MCStarts
    CHECK = 1
    GUESS = 2
    TEST = 1
    RECENT = 1
    IDLE = 2
    LIFE = 2
    RECEIPT = 1
    INVITE = 1
    SYNC = 1
    MaxGuess = 2
    MaxLdapGuess = 1
    MaxSessions = 2
    MaxLdapSessions = 1
    MaxReceipts = 1
    MaxChanges = 1
    MaxTime <- MCTime
    MaxTokens <- MCTokens
    MaxRevision <- MCRevision
    MaxMoves <- MCMoves
INVARIANTS ServedSound BundleSound ReadyIsSound NoBlindRetry AdmittedNow DirectoryApproved PolicyHeld
PROPERTIES MaintenanceKeeps
CHECK_DEADLOCK FALSE
