\* A KEP is promoted from the command line: commands/promote.go:33 says that it gets a new stage.
CONSTANTS
    Groups = {"sig-a", "sig-b"}
    PRRApprovers = {"prr"}
    Nil = Nil
    Malformed = Malformed
    NotExist = NotExist
    Unreadable = Unreadable
    BadMilestone = BadMilestone
    Truncated = Truncated
    Procs = {p1, p2}
    Dirs <- MCDirs
    InitialKEPs <- AtHome
    Creates <- NoOptions
    Promotes <- NoOptions
    CreateLines <- MCCreateLines
    PromoteLines <- MCPromoteLines
    MaxRuns = 2
    MaxCrashes = 0
    MaxFailures = 0
SPECIFICATION KepctlSpec
INVARIANT PromoteUpdatesSpecifiedKEP
\* No command need ever be started.
CHECK_DEADLOCK FALSE
