\* Both tests on a changing tree of two KEPs, while v1.37 and v1.38 of Kubernetes are tagged and after.
CONSTANTS
    Nil = Nil
    Malformed = Malformed
    NotExist = NotExist
    Unreadable = Unreadable
    BadMilestone = BadMilestone
    KEPs = {1, 2}
    NodeKEPs = {2}
    Docs <- AllDocs
    OwnersFiles <- OwnersChoices
    AliasFiles <- AliasChoices
    Minors = {37, 38}
    Repositories <- Both
    MaxTags = 5
    PerPage = 2
    MaxTests = 2
    MaxMerges = 1
    MaxFailures = 1
SPECIFICATION Spec
INVARIANTS TypeOK OwnersReportIsExact OnlyTechLeadsApproveAlpha PassSurvivesReleases
PROPERTIES UpcomingIsUnreleased TestsEnd
\* No test need ever be started.
CHECK_DEADLOCK FALSE
