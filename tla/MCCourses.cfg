SPECIFICATION Spec
CHECK_DEADLOCK FALSE

CONSTANTS
    None = None
    \* ActivityImport
    Activities = {"a"}
    Sources = {"c1", "c2"}
    RepositoryOf <- MCRepositoryOf
    Tokens = {"t1", "t2"}
    Slots = {"s1", "s2"}
    MAX_PREVIEWS = 1
    MaxPackage = 2
    ImportFaults = 1
    \* ActivityDrafts
    Bundles = {"p1", "p2"}
    Referrers = {"r1"}
    Deletions = {"d1", "d2"}
    MaxDraft = 3
    DraftFaults = 1
    \* AssignmentDeletion
    Targets = {"s1", "s2"}
    Trash = {"t1", "t2"}
    MaxGeneration = 2
    DeletionFaults = 1
    StageSyncFails = FALSE
    \* CourseDocuments
    Editors = {"e1", "e2"}
    MaxDocumentChange = 3
    DocumentFaults = 3
    \* CourseDeletion
    Calendars = {"k1", "k2"}
    Transactions = {"x1", "x2"}
    MaxVersion = 4
    CourseFaults = 2
    \* CourseEditor
    Archives = {"a"}
    Loads = {"l1"}
    MaxChange = 1
    EditorFaults = 1
    \* FrameQueue
    Items <- MCItems
    Fields <- MCFields
    Typed = {"t1"}
    MaxStarted = 2
    QueueFaults = 1
    \* CalendarPage
    CalendarIds = {"a"}
    Designs = {"d", "e"}
    MaxEdit = 1
    CalendarFaults = 1
    \* SourceSnapshots
    Operations = {o1, o2}
    Leases = {"l1", "l2", "l3"}
    MemorySlots = 1
    LocalSlots = 2
    CallSlots <- MCCallSlots
    RemoteFiles <- MCRemoteFiles
    CacheSize = 1
    MaxHead = 1
    SourceFaults = 1
    \* PilotRoot
    Commands = {"p1", "p2"}
    MaxWrites = 2
    PilotFaults = 1
    \* Grading
    GradeCalls = {o1, o2}
    Cases = 1
    Language = "c"
    MaxImage = 2
    MaxStamp = 2
    GradingFaults = 1
    Regrades = FALSE

SYMMETRY Symmetry
INVARIANT HistoryIsOnDisk
INVARIANT DraftsAreKept
 
INVARIANT SavedChangesSurvive
 
INVARIANT TypedIsKept
INVARIANT HandEditsSurvive
INVARIANT CalendarSurvivesLateAnswers
INVARIANT SnapshotsAreBounded
INVARIANT PublishedIsAState
INVARIANT GradingIsSettled
