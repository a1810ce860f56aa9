\* Two processes, three commands, one kill and one failing call.
CONSTANTS
    Groups = {"sig-a", "sig-b"}
    PRRApprovers = {"prr"}
    Nil = Nil
    Malformed = Malformed
    NotExist = NotExist
    Unreadable = Unreadable
    BadMilestone = BadMilestone
    Truncated = Truncated
    Procs = {p1, p2}
    Dirs <- MCDirs
    InitialKEPs <- Anywhere
    Creates <- MCCreates
    Promotes <- MCPromotes
    MaxRuns = 3
    MaxCrashes = 1
    MaxFailures = 1
SPECIFICATION Spec
INVARIANTS TypeOK ReadmeHasMetadata OnlyDamageLeavesTornFiles
PROPERTIES CreatedKEPPassesTheGate PromoteKeepsKEPValid CommandsEnd
\* No command need ever be started.
CHECK_DEADLOCK FALSE
