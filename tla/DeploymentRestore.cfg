SPECIFICATION Spec
CONSTANTS
    None = None
    Old = Old
    New = New
    HeadRev <- CodeHead
    ToolHead <- CodeToolHead
    FoundationTables <- FOUNDATION_TABLES
    Listing <- SchemaListing
    References <- SchemaReferences
    Functions <- SchemaFunctions
    DroppedFunctions <- CleanupFunctions
    Sources = {s1, s2}
    BundleRevisions = {16, 18}
    Scenarios = {"target"}
    MaxRuns = 1
    MaxFaults = 1
INVARIANTS RestoreAccepts
CHECK_DEADLOCK FALSE
