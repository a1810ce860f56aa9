\* GitHub does not answer: node_approvers_test.go:69 says that alpha KEPs are then strictly enforced.
CONSTANTS
    Nil = Nil
    Malformed = Malformed
    NotExist = NotExist
    Unreadable = Unreadable
    BadMilestone = BadMilestone
    KEPs = {1, 2}
    NodeKEPs = {2}
    Docs <- AllDocs
    OwnersFiles <- OwnersChoices
    AliasFiles <- AliasChoices
    Minors = {37, 38}
    Repositories <- Before
    MaxTags = 5
    PerPage = 2
    MaxTests = 1
    MaxMerges = 0
    MaxFailures = 1
SPECIFICATION Spec
INVARIANT FallbackIsStrict
\* No test need ever be started.
CHECK_DEADLOCK FALSE
