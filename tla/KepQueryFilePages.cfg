\* A pull request with two pages of files: repo.go:395 says every KEP it touches is read.
CONSTANTS
    Groups = {"sig-a", "sig-b", "sig-c"}
    PRRApprovers = {"prr"}
    Nil = Nil
    Malformed = Malformed
    NotExist = NotExist
    Unreadable = Unreadable
    BadMilestone = BadMilestone
    Layouts <- OneLayout
    GroupLists <- AllGroups
    AliasLists <- AliasAnswers
    Matches <- MCMatches
    BadRegexps = {"("}
    TokenPath = TRUE
    Local <- MCLocal
    PullRequests <- ThreePRs
    PerPage = 2
    Requests <- OneRequest
    MaxQueries = 2
    MaxFailures = 0
    MaxChanges = 0
SPECIFICATION Spec
INVARIANT TouchedKEPsAreRead
\* The caller may stop calling Query.
CHECK_DEADLOCK FALSE
