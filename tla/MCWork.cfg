SPECIFICATION Spec
CHECK_DEADLOCK FALSE

CONSTANTS
    None = None
    \* LabAttempts
    Terminals = {"t1", "t2"}
    Assigned = {"a1"}
    MaxAttempt = 2
    MaxLabClock = 2
    LabFaults = 1
    \* RuntimeRuns
    Capabilities = {"sandbox-plan.v1", "x"}
    Backends = {"local", "docker", "other"}
    MaxPublished = 2
    MaxInstalled = 2
    RunFaults = 1
    \* Registers
    Names = {"n1"}
    Tabs = {"t1"}
    Calls = {c1, c2}
    Decisions = {"approve", "reopen"}
    MaxPackage = 2
    MaxWrite = 2
    RegisterFaults = 1
    \* Scaffold
    Repositories <- MCRepositories
    Assets = {"data", "main"}
    SourceName = "main"
    MaxRevision = 3
    MaxEdits = 1
    ScaffoldFaults = 1
    \* Assigning
    Activities = {"a1"}
    Labels = {"k1", "k2"}
    Targets = {"x/s", "y/s"}
    StudentOf <- MCStudentOf
    Roster <- MCRoster
    Pages = {"p"}
    AssigningFaults = 0
    \* AppTokens
    Runtimes = {c1, c2}
    TokenLife = 1
    Margin = 1
    TransportSlots = 1
    MaxToken = 2
    MaxAppClock = 2
    AppFaults = 1
    \* Installation
    Preinstalled = {{}, {"docker", "wsl"}}
    Ticked = {"project", "vm", "docker", "data"}
    MaxWork = 1
    SetupFaults = 1

SYMMETRY Symmetry
INVARIANT SavedRunIsKept
INVARIANT RunsAreConfined
INVARIANT TokenFileIsOwned
INVARIANT AssignmentsAreConsistent
PROPERTY RegistersAreCurrent
 
PROPERTY SetupIsRecoverable
