SPECIFICATION SetupSpec
CHECK_DEADLOCK FALSE
CONSTANTS
    None = None
    Preinstalled = {{}, {"git"}}
    Ticked = {"project", "vm", "git", "docker", "data", "wsl", "distro", "image"}
    MaxWork = 1
    SetupFaults = 0

INVARIANT SelectionIsCarriedOut
