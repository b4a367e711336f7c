CONSTANTS
    p1 = p1
    p2 = p2
    Proc = {p1, p2}
    Skips <- MCSkips
    Version = {"v1", "v2"}
    Installed <- MCInstalled
    Settings <- MCSettings
    MaxCrashes = 2
SPECIFICATION FairSpec
CHECK_DEADLOCK FALSE
INVARIANTS
    LaunchTypeOK
    OnlyVerifiedRuns
    RequiredAgree
PROPERTY EventuallyServes
