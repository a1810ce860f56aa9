\* A KEP in the directory of another group is promoted: promote.go:48 says that its stage changes.
CONSTANTS
    Groups = {"sig-a", "sig-b"}
    PRRApprovers = {"prr"}
    Nil = Nil
    Malformed = Malformed
    NotExist = NotExist
    Unreadable = Unreadable
    BadMilestone = BadMilestone
    Truncated = Truncated
    Procs = {p1, p2}
    Dirs <- MCDirs
    InitialKEPs <- Moved
    Creates <- MCCreates
    Promotes <- MCPromotes
    MaxRuns = 1
    MaxCrashes = 0
    MaxFailures = 0
SPECIFICATION Spec
PROPERTY PromoteChangesTheKEP
\* No command need ever be started.
CHECK_DEADLOCK FALSE
