SPECIFICATION MCSpec
CONSTANTS
    Collections = {a1, a2}
    Objects = {b1, b2}
    Hashes = {h1, h2}
    Absent = Absent
    Idle = Idle
    BatchSize = 2
    MaxRuns = 3
    Documents = {a1, a2}
    Contents = {b1, b2}
    Callers = {c1, c2}
    Gone = Gone
    Ready = Ready
    MaxTemplates = 1
    MaxOperations = 7
    Records = {a1, a2}
    Jobs = {b1, b2}
    Clients = {c1, c2}
    NoJob = NoJob
    MaxCalls = 2
    MaxRestarts = 1
    Ids = {i1, i2, i3}
    Chunks = {k1, k2}
    Limits = {1, 2}
    Types = {t1, t2}
    MaxLength = 3
    Levels = {0, 2}
    RowLine = RowLine
    ProseLine = ProseLine
    Misheading = Misheading
    MaxLines = 5
    MaxParsed = 1
SYMMETRY MCSymmetry
INVARIANTS
    SheetSynced
    RetryRepairs
    WholeBundles
    AnalysisCoherent
    TemplateOfOneAnalysis
    DeleteHolds
    OneJobPerFilter
    SearchFills
    DistanceCountsEdits
    BlocksFollowText
CHECK_DEADLOCK FALSE
