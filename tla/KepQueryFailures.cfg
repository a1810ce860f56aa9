\* Two queries with calls that fail and pull requests that come and go.
CONSTANTS
    Groups = {"sig-a", "sig-b", "sig-c"}
    PRRApprovers = {"prr"}
    Nil = Nil
    Malformed = Malformed
    NotExist = NotExist
    Unreadable = Unreadable
    BadMilestone = BadMilestone
    Layouts <- MCLayouts
    GroupLists <- GroupAnswers
    AliasLists <- AliasAnswers
    Matches <- MCMatches
    BadRegexps = {"("}
    TokenPath = TRUE
    Local <- MCLocal
    PullRequests <- ThreePRs
    PerPage = 2
    Requests <- MixedRequests
    MaxQueries = 2
    MaxFailures = 2
    MaxChanges = 2
SPECIFICATION Spec
INVARIANTS TypeOK LocalKEPsSurviveFailures ErrorsAreLocal SearchIsAllOrNothing
INVARIANTS AnswersNeedARepository  LinksLeadSomewhere ListingSurvivesChanges
PROPERTY QueryReturns
\* The caller may stop calling Query.
CHECK_DEADLOCK FALSE
