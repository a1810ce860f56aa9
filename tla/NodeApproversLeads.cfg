\* A listed tech lead is missing from OWNERS: node_approvers_test.go:30 says that the test looks for it.
CONSTANTS
    Nil = Nil
    Malformed = Malformed
    NotExist = NotExist
    Unreadable = Unreadable
    BadMilestone = BadMilestone
    KEPs = {1, 2}
    NodeKEPs = {2}
    Docs <- AllDocs
    OwnersFiles <- OwnersChoices
    AliasFiles <- AliasChoices
    Minors = {37, 38}
    Repositories <- After
    MaxTags = 5
    PerPage = 2
    MaxTests = 1
    MaxMerges = 0
    MaxFailures = 0
SPECIFICATION Spec
INVARIANT TechLeadsAreOwners
\* No test need ever be started.
CHECK_DEADLOCK FALSE
